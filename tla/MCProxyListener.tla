-------------------------- MODULE MCProxyListener --------------------------
(* Instantiates ProxyListener with four upstreams, one for each kind of   *)
(* answer a policy function gives: a trusted proxy (REQUIRE), a host that *)
(* bypasses the protocol (SKIP), an untrusted address (ErrInvalidUpstream) *)
(* and a lookup that fails (another error).                               *)
EXTENDS ProxyListener, TLC

CONSTANTS Proxy, Direct, Untrusted, Broken

MCPolicyOf ==
    (Proxy :> "REQUIRE") @@ (Direct :> "SKIP")
      @@ (Untrusted :> "ErrInvalidUpstream") @@ (Broken :> "ErrOther")
====

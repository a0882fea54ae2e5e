--------------------------- MODULE MCListenerConn ---------------------------
(* Instantiates ListenerConn: upstreams for each answer that yields a     *)
(* wrapped Conn (REQUIRE, USE, REJECT, IGNORE) and an untrusted one; the  *)
(* wires and payload of MCProxyConn; one application goroutine using the *)
(* served Conn's deadline, address, copy and close methods in turn.        *)
EXTENDS ListenerConn, TLC

CONSTANTS P1, P2, Proxy, Balancer, Client, Scanner, Untrusted

MCPayload == {P1, P2}

MCWires == { <<P1, P2>>, <<"HdrProxy", P1, P2>>, <<"HdrLocal", P1, P2>>,
             <<"HdrBad", P1, P2>> }

MCPolicyOf ==
    (Proxy :> "REQUIRE") @@ (Balancer :> "USE") @@ (Client :> "REJECT")
      @@ (Scanner :> "IGNORE") @@ (Untrusted :> "ErrInvalidUpstream")

ProgramSequential == [g \in Goroutines |->
    <<"SetReadDeadline", "LocalAddr", "SetDeadline", "ProxyHeader", "WriteTo",
      "Close", "Close">>]
====

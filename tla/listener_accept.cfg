\* Accept under every Listener configuration, with clients from trusted,
\* bypassing, untrusted and failing upstreams connecting while the server
\* may close the listener.
CONSTANTS
    Proxy = Proxy
    Direct = Direct
    Untrusted = Untrusted
    Broken = Broken
    Upstreams = {Proxy, Direct, Untrusted, Broken}
    PolicyOf <- MCPolicyOf
    PolicyModes = {"none", "Policy", "ConnPolicy", "both"}
    Timeouts = {"neg", "zero", "pos"}
    MaxConns = 3
SPECIFICATION Spec
INVARIANTS TypeOK NoConnectionLeaked
PROPERTIES BacklogDrains
CHECK_DEADLOCK FALSE

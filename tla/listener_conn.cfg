\* One client connection accepted under every Listener configuration and
\* upstream, then served by a goroutine that sets deadlines around the
\* header read, queries the addresses, copies with WriteTo and closes twice.
\* NewConn's defaults (USE, no header timeout) hold until Accept's options
\* are applied.  A read on a silent client with no deadline blocks for ever,
\* so the system may stop.
CONSTANTS
    Goroutines = {g1}
    P1 = P1
    P2 = P2
    Payload <- MCPayload
    Wires <- MCWires
    Program <- ProgramSequential
    Policies = {"USE"}
    TimeoutOn = {FALSE}
    Validators = {"none", "accept", "reject"}
    Proxy = Proxy
    Balancer = Balancer
    Client = Client
    Scanner = Scanner
    Untrusted = Untrusted
    Upstreams = {Proxy, Balancer, Client, Scanner, Untrusted}
    PolicyOf <- MCPolicyOf
    PolicyModes = {"none", "Policy", "ConnPolicy", "both"}
    Timeouts = {"neg", "zero", "pos"}
    MaxConns = 1
SPECIFICATION SystemSpec
INVARIANTS DeadlineRestored PolicyEnforced HeaderDeadlineFollowsListener
PROPERTIES HeaderLatched
CHECK_DEADLOCK FALSE

\* Read/Read/Close/WriteTo against a concurrent RemoteAddr then
\* SetReadDeadline, every policy, wire,
\* timeout setting and validator.  A Read on a silent peer with no deadline
\* blocks for ever, as net.Conn does, so the system may stop.
CONSTANTS
    Goroutines = {g1, g2}
    P1 = P1
    P2 = P2
    Payload <- MCPayload
    Wires <- MCWires
    Program <- ProgramServe
    Policies = {"USE", "IGNORE", "REJECT", "REQUIRE"}
    TimeoutOn = {TRUE, FALSE}
    Validators = {"none", "accept", "reject"}
SPECIFICATION Spec
INVARIANTS TypeOK
PROPERTIES ImplementsInterception HeaderReadTerminates
CHECK_DEADLOCK FALSE

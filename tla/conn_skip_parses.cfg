\* A Conn built with NewConn(conn, WithPolicy(SKIP)) and read normally.
CONSTANTS
    Goroutines = {g1, g2}
    P1 = P1
    P2 = P2
    Payload <- MCPayload
    Wires <- MCWires
    Program <- ProgramServe
    Policies = {"SKIP"}
    TimeoutOn = {TRUE, FALSE}
    Validators = {"none"}
SPECIFICATION Spec
INVARIANTS SkipNeverParses
CHECK_DEADLOCK FALSE

\* RemoteAddr on a Conn closed before its first use; Read after Close.
CONSTANTS
    Goroutines = {g1, g2}
    P1 = P1
    P2 = P2
    Payload <- MCPayload
    Wires <- MCWires
    Program <- ProgramCloseThenAddr
    Policies = {"USE", "IGNORE", "REJECT", "REQUIRE", "SKIP"}
    TimeoutOn = {TRUE, FALSE}
    Validators = {"none", "accept", "reject"}
SPECIFICATION Spec
INVARIANTS NoNilDereference
CHECK_DEADLOCK FALSE

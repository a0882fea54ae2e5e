\* Close while another goroutine reads.
CONSTANTS
    Goroutines = {g1, g2}
    P1 = P1
    P2 = P2
    Payload <- MCPayload
    Wires <- MCWires
    Program <- ProgramCloseRace
    Policies = {"USE", "IGNORE", "REJECT", "REQUIRE", "SKIP"}
    TimeoutOn = {TRUE, FALSE}
    Validators = {"none", "accept", "reject"}
SPECIFICATION Spec
INVARIANTS ReleasedReaderUnused
CHECK_DEADLOCK FALSE

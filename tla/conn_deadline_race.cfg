\* A read deadline set while the header read is in flight.
CONSTANTS
    Goroutines = {g1, g2}
    P1 = P1
    P2 = P2
    Payload <- MCPayload
    Wires <- MCWires
    Program <- ProgramDeadlineRace
    Policies = {"USE", "IGNORE", "REJECT", "REQUIRE", "SKIP"}
    TimeoutOn = {TRUE, FALSE}
    Validators = {"none", "accept", "reject"}
SPECIFICATION Spec
INVARIANTS DeadlineRestored
CHECK_DEADLOCK FALSE

\* RemoteAddr then io.Copy(dst, conn): Conn.WriteTo copies from the raw
\* socket and skips what bufReader buffered during the header read.
CONSTANTS
    Goroutines = {g1}
    P1 = P1
    P2 = P2
    Payload <- MCPayload
    Wires <- MCWires
    Program <- ProgramForward
    Policies = {"USE", "IGNORE", "REJECT", "REQUIRE", "SKIP"}
    TimeoutOn = {TRUE, FALSE}
    Validators = {"none", "accept", "reject"}
SPECIFICATION Spec
INVARIANTS PayloadInOrder
CHECK_DEADLOCK FALSE

\* The v1, v2 and TLV codecs against the format statements of spec 4.3 and
\* 4.4 and against each other.  Each harness stops after its input, so the
\* system stops by design.
SPECIFICATION Spec
INVARIANTS SplitJoinRoundTrip TruncationDetected ReadLineMatchesSpec
            FormatMatchesSpec V2ParseMatchesSpec UnixNameRoundTrip
CHECK_DEADLOCK FALSE

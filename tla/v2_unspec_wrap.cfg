\* An UNSPEC header with 65536 bytes of TLVs: formatVersion2 converts the
\* length to uint16 before checking it.
CONSTANTS
    TLVLens <- MCTLVLensWrap
    LenFields <- MCLenFields
    Avails <- MCAvails
    GOARCH = "amd64"
    GOOS = "linux"
    UnixNameLens = {}
SPECIFICATION Spec
INVARIANTS FormatMatchesSpec
CHECK_DEADLOCK FALSE

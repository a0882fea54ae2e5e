\* Headers whose length field exceeds the reader's 4096-byte buffer, which
\* formatVersion2 writes and parseVersion2 reads with Peek(length).
CONSTANTS
    TLVLens <- MCTLVLensLarge
    LenFields <- MCLenFields
    Avails <- MCAvails
    GOARCH = "amd64"
    GOOS = "linux"
    UnixNameLens = {}
SPECIFICATION Spec
INVARIANTS RoundTrip
CHECK_DEADLOCK FALSE

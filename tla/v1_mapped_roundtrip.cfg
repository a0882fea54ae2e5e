\* formatVersion1 then parseVersion1 for TCP4, TCP6 and UNSPEC headers with
\* 4-byte, IPv4-mapped and IPv6 addresses.
CONSTANTS
    LFPositions <- MCLFPositions
    Segments <- MCSegments
    TokenKinds = {"dotted", "colon", "mapped", "port", "bigport", "junk"}
    MaxTokens = 6
SPECIFICATION Spec
INVARIANTS RoundTrip
CHECK_DEADLOCK FALSE

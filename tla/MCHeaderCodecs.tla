--------------------------- MODULE MCHeaderCodecs ---------------------------
(* The three pure codecs checked in one model: a behaviour first picks     *)
(* which codec it exercises, then runs that codec's harness while the      *)
(* others stay at their initial state.                                      *)
EXTENDS Naturals

VARIABLES part, tlvs, cut, v1in, v2in

(* TLV types ALPN (0x01), NOOP (0x04) and an application type (0xE0);     *)
(* value bytes 0 and 4, so a value can look like a NOOP type or a zero    *)
(* length byte.                                                            *)
TLV == INSTANCE TLVCodec WITH Types <- {1, 4, 224}, ValueBytes <- {0, 4},
                              MaxValueLen <- 2, MaxTLVs <- 2,
                              LargeValueLens <- {65535, 65536}

(* LF positions and reader fills around the ends of the v1 line: the      *)
(* first byte, the shortest CRLF, a typical line, 106 to 108 around the   *)
(* 107-byte bound, and a whole 4096-byte reader; token lines of up to     *)
(* seven tokens, one more than a TCP line has.                              *)
V1 == INSTANCE V1Header WITH input <- v1in,
        LFPositions <- {0, 1, 2, 15, 106, 107, 108},
        Segments <- {1, 2, 15, 106, 107, 108, 4096},
        TokenKinds <- {"dotted", "colon", "mapped", "port", "bigport", "junk"},
        MaxTokens <- 7

(* v2 boundary lengths that fit the 4096-byte reader (Linux): TLV lengths *)
(* at the largest total each family allows (Unix 65319, IPv6 65499, IPv4 *)
(* 65523) and one above; length fields below and at each family minimum  *)
(* and around the buffer; Unix paths of no byte, one byte, and one short *)
(* of and exactly the 108-byte field.                                      *)
V2 == INSTANCE V2Header WITH input <- v2in,
        TLVLens <- {0, 1, 4080, 65319, 65320, 65499, 65500, 65523, 65524, 65535},
        LenFields <- {0, 11, 12, 35, 36, 215, 216, 4095, 4096},
        Avails <- {0, 12, 216, 4096, 65535},
        GOARCH <- "amd64", GOOS <- "linux",
        UnixNameLens <- {0, 1, 107, 108}

vars == <<part, tlvs, cut, v1in, v2in>>

Init == part \in {"tlv", "v1", "v2"} /\ TLV!Init /\ V1!Init /\ V2!Init

Next ==
    \/ part = "tlv" /\ TLV!Next /\ UNCHANGED <<part, v1in, v2in>>
    \/ part = "v1" /\ V1!Next /\ UNCHANGED <<part, tlvs, cut, v2in>>
    \/ part = "v2" /\ V2!Next /\ UNCHANGED <<part, tlvs, cut, v1in>>

Spec == Init /\ [][Next]_vars

(* SplitTLVs(JoinTLVs(l)) gives back l without its NOOP TLVs.              *)
SplitJoinRoundTrip == TLV!SplitJoinRoundTrip

(* SplitTLVs refuses every cut that is not on a TLV boundary and returns   *)
(* exactly the TLVs before a boundary cut.                                  *)
TruncationDetected == TLV!TruncationDetected

(* parseVersion1's read loop obeys the line rules of spec 4.3.             *)
ReadLineMatchesSpec == V1!ReadLineMatchesSpec

FormatMatchesSpec == V2!FormatMatchesSpec

(* parseVersion2's command, family and length checks obey spec 4.4.        *)
V2ParseMatchesSpec == V2!ParseMatchesSpec

(* A Unix path formatted into a reused pool buffer parses back unchanged.  *)
UnixNameRoundTrip == V2!UnixNameRoundTrip
====

----------------------------- MODULE TLVCodec -----------------------------
(***************************************************************************)
(* The Type-Length-Value codec of PROXY protocol v2 (src/unnamed/part_001, *)
(* the tlv.go of the package): SplitTLVs walks a byte vector, JoinTLVs     *)
(* serialises a list of TLVs.  Both are pure; they are written here as     *)
(* recursive operators over sequences of bytes and checked against the     *)
(* encoding itself: every list of TLVs a small alphabet allows is joined,  *)
(* then the vector and each of its truncations is split again.            *)
(***************************************************************************)
EXTENDS Naturals, Sequences, SequencesExt

CONSTANTS
    Types,       \* PP2Type values used (bytes)
    ValueBytes,  \* bytes that occur in values
    MaxValueLen, \* longest value generated
    MaxTLVs,     \* longest list of TLVs generated
    LargeValueLens \* lengths of values around the 16-bit limit

PP2_TYPE_NOOP == 4
MaxUint16 == 65535

Byte == 0..255

(* A TLV: its type byte and its value bytes.                               *)
TLV == [Type : Types, Value : UNION {[1..n -> ValueBytes] : n \in 0..MaxValueLen}]

(* What SplitTLVs and JoinTLVs return: an error or a result.              *)
Ok(x) == [err |-> "nil", val |-> x]
Err(e) == [err |-> e, val |-> <<>>]

-----------------------------------------------------------------------------
(* Mutant of SplitFrom: NOOP TLVs are kept like any other.              *)
RECURSIVE SplitFromKeepNoop(_, _, _)
SplitFromKeepNoop(raw, i, acc) ==
    IF i >= Len(raw) THEN Ok(acc)
    ELSE IF Len(raw) - i < 3 THEN Err("ErrTruncatedTLV")
    ELSE LET tlvLen == raw[i + 2] * 256 + raw[i + 3]
             j      == i + 3
         IN IF j + tlvLen > Len(raw) THEN Err("ErrTruncatedTLV")
            ELSE SplitFromKeepNoop(raw, j + tlvLen,
                   Append(acc, [Type |-> raw[i + 1], Value |-> SubSeq(raw, j + 1, j + tlvLen)]))

(* Mutant of SplitFrom: the loop runs while 3 bytes remain, so a tail     *)
(* shorter than a type and length is ignored instead of refused.          *)
RECURSIVE SplitFromShortTail(_, _, _)
SplitFromShortTail(raw, i, acc) ==
    IF Len(raw) - i < 3 THEN Ok(acc)
    ELSE LET tlvType == raw[i + 1]
             tlvLen  == raw[i + 2] * 256 + raw[i + 3]
             j       == i + 3
         IN IF j + tlvLen > Len(raw) THEN Err("ErrTruncatedTLV")
            ELSE SplitFromShortTail(raw, j + tlvLen,
                   IF tlvType # PP2_TYPE_NOOP
                   THEN Append(acc, [Type |-> tlvType, Value |-> SubSeq(raw, j + 1, j + tlvLen)])
                   ELSE acc)

(* SplitTLVs: i is the offset of the next TLV, acc the TLVs kept so far.  *)
(* NOOP TLVs are skipped; a vector that ends inside a type-and-length     *)
(* prefix or inside a value is ErrTruncatedTLV.                           *)
RECURSIVE SplitFrom(_, _, _)
SplitFrom(raw, i, acc) ==
    IF i >= Len(raw) THEN Ok(acc)
    ELSE IF Len(raw) - i < 3 THEN Err("ErrTruncatedTLV")
    ELSE LET tlvType == raw[i + 1]
             tlvLen  == raw[i + 2] * 256 + raw[i + 3]
             j       == i + 3
         IN IF j + tlvLen > Len(raw) THEN Err("ErrTruncatedTLV")
            ELSE SplitFrom(raw, j + tlvLen,
                   IF tlvType # PP2_TYPE_NOOP
                   THEN Append(acc, [Type |-> tlvType, Value |-> SubSeq(raw, j + 1, j + tlvLen)])
                   ELSE acc)

SplitTLVs(raw) == IF raw = <<>> THEN Ok(<<>>) ELSE SplitFrom(raw, 0, <<>>)

(* One TLV on the wire: type, big-endian 16-bit length, value.            *)
EncodeTLV(tlv) ==
    <<tlv.Type, (Len(tlv.Value) \div 256) % 256, Len(tlv.Value) % 256>> \o tlv.Value

(* Mutant of JoinTLVs: a value of exactly 65535 bytes is refused.         *)
JoinTLVsOffByOne(tlvs) ==
    IF \E k \in DOMAIN tlvs : Len(tlvs[k].Value) >= MaxUint16
    THEN Err("cannot format TLV")
    ELSE Ok(FlattenSeq([k \in DOMAIN tlvs |-> EncodeTLV(tlvs[k])]))

(* JoinTLVs: refuses a value longer than a 16-bit length can state.       *)
JoinTLVs(tlvs) ==
    IF \E k \in DOMAIN tlvs : Len(tlvs[k].Value) > MaxUint16
    THEN Err("cannot format TLV")
    ELSE Ok(FlattenSeq([k \in DOMAIN tlvs |-> EncodeTLV(tlvs[k])]))

-----------------------------------------------------------------------------
(* The harness: a list of TLVs is built one TLV at a time, the first one  *)
(* possibly of a length around the 16-bit limit; the vector JoinTLVs makes *)
(* of a list of short values is then cut shorter, one byte at a time.      *)
VARIABLES tlvs, cut

vars == <<tlvs, cut>>

Joined == JoinTLVs(tlvs).val

(* The bytes handed to SplitTLVs: the joined vector without its last      *)
(* `cut` bytes.                                                            *)
Raw == SubSeq(Joined, 1, Len(Joined) - cut)

Init == tlvs = <<>> /\ cut = 0

AddTLV ==
    /\ Len(tlvs) < MaxTLVs /\ cut = 0
    /\ \E t \in TLV : tlvs' = Append(tlvs, t)
    /\ UNCHANGED cut

(* A first TLV whose value is LargeValueLens bytes of one value byte.     *)
AddLargeTLV ==
    /\ tlvs = <<>>
    /\ \E t \in Types, b \in ValueBytes, n \in LargeValueLens :
         tlvs' = <<[Type |-> t, Value |-> [i \in 1..n |-> b]]>>
    /\ UNCHANGED cut

Short == \A k \in DOMAIN tlvs : Len(tlvs[k].Value) <= MaxValueLen

Truncate ==
    /\ Short /\ cut < Len(Joined)
    /\ cut' = cut + 1
    /\ UNCHANGED tlvs

Next == AddTLV \/ AddLargeTLV \/ Truncate

Spec == Init /\ [][Next]_vars

-----------------------------------------------------------------------------
(* The TLVs of tlvs other than the NOOP ones, which SplitTLVs drops.      *)
Kept(s) == SelectSeq(s, LAMBDA t : t.Type # PP2_TYPE_NOOP)

(* Spec 8: a list whose values all fit a 16-bit length is joined, and     *)
(* splitting the vector gives back every TLV, in order, with the same     *)
(* type and value, except NOOPs, consuming the whole vector; a list with  *)
(* a value of 65536 bytes or more is refused.                              *)
SplitJoinRoundTrip ==
    cut = 0 =>
        IF \A k \in DOMAIN tlvs : Len(tlvs[k].Value) <= MaxUint16
        THEN JoinTLVs(tlvs).err = "nil" /\ SplitTLVs(Joined) = Ok(Kept(tlvs))
        ELSE JoinTLVs(tlvs).err # "nil"

(* A vector cut anywhere except at a TLV boundary is refused as           *)
(* truncated, and one cut at a boundary yields exactly the TLVs before    *)
(* it: SplitTLVs never turns part of a value or a length into a TLV.      *)
TruncationDetected ==
    Short =>
    LET boundary == {k \in 0..Len(tlvs) :
                       Len(Raw) = Len(JoinTLVs(SubSeq(tlvs, 1, k)).val)}
    IN IF boundary = {} THEN SplitTLVs(Raw) = Err("ErrTruncatedTLV")
       ELSE \A k \in boundary : SplitTLVs(Raw) = Ok(Kept(SubSeq(tlvs, 1, k)))

====

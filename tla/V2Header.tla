----------------------------- MODULE V2Header -----------------------------
(***************************************************************************)
(* The length arithmetic of the binary v2 header (src/v2.go):              *)
(* formatVersion2 computes the 16-bit length field from the family's fixed *)
(* address block and the raw TLV bytes; parseVersion2 reads the 16-byte   *)
(* prefix, validates the length and takes the address block and the TLVs  *)
(* out of a bufio.Reader by Peek(length).                                  *)
(*                                                                         *)
(* Bytes are abstracted to counts: a header is its command, family, TLV   *)
(* length and whether its addresses suit its family; a wire is the 16-byte *)
(* prefix (command, family, length field) and how many bytes the peer     *)
(* sends after it.  Both operators are checked against the statement of   *)
(* the format in spec.md section 4.4 over boundary values of the lengths. *)
(*                                                                         *)
(* Unix socket paths are kept as bytes: formatUnixNameZeroCopy writes a   *)
(* path into a 108-byte buffer from unixAddrPool and parseUnixName reads   *)
(* it back up to the first NUL.                                            *)
(***************************************************************************)
EXTENDS Naturals, Sequences, FiniteSetsExt

CONSTANTS
    TLVLens,    \* lengths of raw TLV vectors to format
    LenFields,  \* length fields a peer may send
    Avails,     \* bytes a peer sends after the 16-byte prefix
    GOARCH,     \* the build's architecture, "amd64" or "arm64"
    GOOS,       \* runtime.GOOS
    UnixNameLens \* lengths of Unix socket paths to format

MaxUint16 == 65535

(* amd64GetOptimalBufferSize and arm64GetOptimalBufferSize: the page size *)
(* on Linux, 16KB on macOS, 8KB elsewhere (the two tables are the same).  *)
Amd64GetOptimalBufferSize(goos) ==
    CASE goos = "linux" -> 4096 [] goos = "darwin" -> 16384 [] OTHER -> 8192
Arm64GetOptimalBufferSize(goos) ==
    CASE goos = "linux" -> 4096 [] goos = "darwin" -> 16384 [] OTHER -> 8192

(* GetOptimalBufferSize calls the function initArchSpecific registered.   *)
GetOptimalBufferSize(goarch, goos) ==
    IF goarch = "arm64" THEN Arm64GetOptimalBufferSize(goos)
    ELSE Amd64GetOptimalBufferSize(goos)

(* The size of every bufio.Reader readerPool makes, the reader Peek runs  *)
(* on in parseVersion2.                                                    *)
BufSize == GetOptimalBufferSize(GOARCH, GOOS)

Families == {"UNSPEC", "IPv4", "IPv6", "Unix"}

(* lengthUnspec, lengthV4, lengthV6, lengthUnix: the fixed address block.  *)
FixedLen == [f \in Families |->
               CASE f = "UNSPEC" -> 0 [] f = "IPv4" -> 12
                 [] f = "IPv6" -> 36  [] f = "Unix" -> 216]

Commands == {"LOCAL", "PROXY"}

(* What the two functions return.                                          *)
Wire(cmd, fam, lenField, body) ==
    [err |-> "nil", cmd |-> cmd, fam |-> fam, lenField |-> lenField, body |-> body]
FormatErr(e) == [err |-> e, cmd |-> "LOCAL", fam |-> "UNSPEC", lenField |-> 0, body |-> 0]

Parsed(cmd, fam, tlvLen, consumed) ==
    [err |-> "nil", cmd |-> cmd, fam |-> fam, tlvLen |-> tlvLen, consumed |-> consumed]
ParseErr(e) == [err |-> e, cmd |-> "LOCAL", fam |-> "UNSPEC", tlvLen |-> 0, consumed |-> 0]

-----------------------------------------------------------------------------
(* formatVersion2 for an address family: the length is the fixed block    *)
(* plus the TLVs, refused when it exceeds 16 bits; the addresses are      *)
(* checked after the length for IPv4 and IPv6 and before it for Unix.     *)
(* For UNSPEC the TLV length is converted to uint16 first, and the check  *)
(* `length > math.MaxUint16` is made on the converted value.              *)

(* Mutant of FormatVersion2: the overflow check refuses a length of       *)
(* exactly 65535.                                                          *)
FormatVersion2OffByOne(h) ==
    LET total == FixedLen[h.fam] + h.tlvLen
    IN CASE h.fam = "UNSPEC" ->
              Wire(h.cmd, h.fam, h.tlvLen % 65536, h.tlvLen)
         [] h.fam = "Unix" /\ ~h.addrOK -> FormatErr("ErrInvalidAddress")
         [] h.tlvLen > 0 /\ total >= MaxUint16 -> FormatErr("errUint16Overflow")
         [] ~h.addrOK -> FormatErr("ErrInvalidAddress")
         [] OTHER -> Wire(h.cmd, h.fam, total, total)

FormatVersion2(h) ==
    LET total == FixedLen[h.fam] + h.tlvLen
    IN CASE h.fam = "UNSPEC" ->
              Wire(h.cmd, h.fam, h.tlvLen % 65536, h.tlvLen)
         [] h.fam = "Unix" /\ ~h.addrOK -> FormatErr("ErrInvalidAddress")
         [] h.tlvLen > 0 /\ total > MaxUint16 -> FormatErr("errUint16Overflow")
         [] ~h.addrOK -> FormatErr("ErrInvalidAddress")
         [] OTHER -> Wire(h.cmd, h.fam, total, total)

(* header.validateLength: the length covers the family's fixed block.     *)
ValidateLength(fam, length) == length >= FixedLen[fam]

(* Mutant of ParseVersion2: the zero-length early return is taken before  *)
(* the length is validated.                                                *)
ParseVersion2ZeroFirst(w) ==
    CASE w.cmd \notin Commands -> ParseErr("ErrUnsupportedProtocolVersionAndCommand")
      [] w.fam = "UNSPEC" /\ w.cmd # "LOCAL" -> ParseErr("ErrUnsupportedAddressFamilyAndProtocol")
      [] w.lenField = 0 -> Parsed(w.cmd, w.fam, 0, 16)
      [] ~ValidateLength(w.fam, w.lenField) -> ParseErr("ErrInvalidLength")
      [] w.lenField > BufSize \/ w.lenField > w.avail -> ParseErr("ErrInvalidLength")
      [] OTHER -> Parsed(w.cmd, w.fam, w.lenField - FixedLen[w.fam], 16 + w.lenField)

(* parseVersion2 on a wire whose 16-byte prefix arrived: the command and  *)
(* family checks, validateLength, the zero-length return, then            *)
(* Peek(length), which fails when the peer sends fewer bytes before it    *)
(* closes or the deadline passes, and with ErrBufferFull when length is   *)
(* larger than the reader's buffer.  The address block and the TLVs are   *)
(* then read through a LimitReader of `length` bytes.                      *)
ParseVersion2(w) ==
    CASE w.cmd \notin Commands -> ParseErr("ErrUnsupportedProtocolVersionAndCommand")
      [] w.fam = "UNSPEC" /\ w.cmd # "LOCAL" -> ParseErr("ErrUnsupportedAddressFamilyAndProtocol")
      [] ~ValidateLength(w.fam, w.lenField) -> ParseErr("ErrInvalidLength")
      [] w.lenField = 0 -> Parsed(w.cmd, w.fam, 0, 16)
      [] w.lenField > BufSize \/ w.lenField > w.avail -> ParseErr("ErrInvalidLength")
      [] OTHER -> Parsed(w.cmd, w.fam, w.lenField - FixedLen[w.fam], 16 + w.lenField)

-----------------------------------------------------------------------------
(* The Src and Dst fields of _addrUnix, and getUnixAddrSlice's length.    *)
UnixPathLen == 108

(* Mutant of FormatUnixName: the remainder is not zero-filled, trusting   *)
(* the pool to hand out cleared buffers.                                   *)
FormatUnixNameNoFill(name, slice) ==
    LET nameLen == IF Len(name) < UnixPathLen THEN Len(name) ELSE UnixPathLen
    IN [i \in 1..UnixPathLen |-> IF i <= nameLen THEN name[i] ELSE slice[i]]

(* formatUnixNameZeroCopy: copy(slice, name) into the 108-byte slice taken *)
(* from unixAddrPool, then zero every byte after the copied ones.          *)
FormatUnixName(name, slice) ==
    LET nameLen == IF Len(name) < UnixPathLen THEN Len(name) ELSE UnixPathLen
    IN [i \in 1..UnixPathLen |-> IF i <= nameLen THEN name[i] ELSE 0]

(* parseUnixName: the bytes before the first NUL, or all of them.          *)
ParseUnixName(b) ==
    LET nuls == {i \in DOMAIN b : b[i] = 0}
    IN IF nuls = {} THEN b ELSE SubSeq(b, 1, Min(nuls) - 1)

-----------------------------------------------------------------------------
(* The harness: one input at a time, either a header to format or a wire  *)
(* to parse.                                                               *)
Headers == [kind : {"format"}, cmd : Commands, fam : Families, tlvLen : TLVLens,
            addrOK : BOOLEAN, lenField : {0}, avail : {0}]
Wires == [kind : {"parse"}, cmd : Commands \cup {"other"}, fam : Families,
          tlvLen : {0}, addrOK : {TRUE}, lenField : LenFields, avail : Avails]

(* A path of n non-NUL bytes.                                              *)
Path(n) == [i \in 1..n |-> 1]

(* What getUnixAddrSlice may hand out: a new zeroed buffer, or one that   *)
(* formatted an earlier path.  putUnixAddrBuffer clears a buffer through   *)
(* the slice header putUnixAddrSlice fabricates from a *byte (v2.go 438),  *)
(* whose length is whatever memory follows it, so whether the returned    *)
(* buffer was really cleared is not defined; it is taken here as not.     *)
PooledSlices ==
    {[i \in 1..UnixPathLen |-> 0]} \cup
    {FormatUnixName(Path(n), [i \in 1..UnixPathLen |-> 0]) : n \in UnixNameLens}

UnixNames == [kind : {"unix"}, name : {Path(n) : n \in UnixNameLens},
              slice : PooledSlices]

NoInput == [kind |-> "none", cmd |-> "LOCAL", fam |-> "UNSPEC", tlvLen |-> 0,
            addrOK |-> TRUE, lenField |-> 0, avail |-> 0]

VARIABLE input

Init == input = NoInput

Next == input = NoInput /\ input' \in Headers \cup Wires \cup UnixNames

Spec == Init /\ [][Next]_input

-----------------------------------------------------------------------------
(* Spec 4.4, Format: a header whose fixed block and TLVs exceed 65535     *)
(* bytes is refused with Uint16Overflow; an address not of its family is  *)
(* refused; any other header is written with the length field stating     *)
(* exactly the bytes that follow the prefix.                               *)
FormatMatchesSpec ==
    input.kind = "format" =>
        LET out == FormatVersion2(input)
            total == FixedLen[input.fam] + input.tlvLen
            errs == {e \in {"errUint16Overflow", "ErrInvalidAddress"} :
                       \/ e = "errUint16Overflow" /\ total > MaxUint16
                       \/ e = "ErrInvalidAddress" /\ ~input.addrOK /\ input.fam # "UNSPEC"}
        IN IF errs # {} THEN out.err \in errs
           ELSE out = Wire(input.cmd, input.fam, total, total)

(* Spec 4.4, Parse: an unsupported command or UNSPEC with PROXY is        *)
(* refused; a length below the family minimum, or more than the peer      *)
(* sends, is InvalidLength; otherwise the header is read whole: the TLVs  *)
(* are what the length leaves after the fixed block, and exactly 16 +     *)
(* length bytes are taken from the connection.                             *)
ParseMatchesSpec ==
    input.kind = "parse" =>
        ParseVersion2(input) =
            CASE input.cmd \notin Commands -> ParseErr("ErrUnsupportedProtocolVersionAndCommand")
              [] input.fam = "UNSPEC" /\ input.cmd # "LOCAL"
                    -> ParseErr("ErrUnsupportedAddressFamilyAndProtocol")
              [] input.lenField < FixedLen[input.fam] \/ input.lenField > input.avail
                    -> ParseErr("ErrInvalidLength")
              [] OTHER -> Parsed(input.cmd, input.fam, input.lenField - FixedLen[input.fam],
                                 16 + input.lenField)

(* What formatVersion2 writes, parseVersion2 reads back: the same command, *)
(* family and TLV length, taking exactly the bytes that were written, so  *)
(* the application's data starts right after the header.                   *)
RoundTrip ==
    input.kind = "format" =>
        LET w == FormatVersion2(input)
        IN w.err = "nil" =>
             ParseVersion2([cmd |-> w.cmd, fam |-> w.fam, lenField |-> w.lenField,
                            avail |-> w.body]) =
                 Parsed(input.cmd, input.fam, input.tlvLen, 16 + w.body)
(* Spec 3 and 4.4: a Unix path of up to 108 bytes is NUL-padded to 108   *)
(* bytes by formatVersion2 and read back unchanged by parseVersion2,      *)
(* whatever path the pooled buffer held before.                           *)
UnixNameRoundTrip ==
    input.kind = "unix" /\ Len(input.name) <= UnixPathLen =>
        ParseUnixName(FormatUnixName(input.name, input.slice)) = input.name
====

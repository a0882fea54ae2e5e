----------------------------- MODULE V1Header -----------------------------
(***************************************************************************)
(* The text v1 header (the v1 codec bundled in src/README.md, after the   *)
(* documentation): parseVersion1 reads one line byte by byte out of the   *)
(* bufio.Reader, bounded at 107 bytes and refusing a line that is not     *)
(* wholly buffered (the DoS guard), then splits it on spaces;             *)
(* formatVersion1 writes a header as such a line.                         *)
(*                                                                         *)
(* A line is abstracted two ways, each enough for the code that reads it: *)
(* for the read loop, by where its LF is, whether a CR precedes it, and   *)
(* how many of its bytes the reader holds; for the token checks, as the   *)
(* sequence of its tokens, each a kind of text.                            *)
(***************************************************************************)
EXTENDS Naturals, Sequences

CONSTANTS
    LFPositions,  \* where the first LF is (0: none among the bytes sent)
    Segments,     \* how many bytes of the line the reader holds at once
    TokenKinds,   \* kinds of token after the family
    MaxTokens     \* longest token line

MaxLine == 107

(* The text of a token: an IPv4 dotted quad, an IPv6 colon form, an       *)
(* IPv4-mapped IPv6 form (::ffff:a.b.c.d), a decimal number that fits a   *)
(* port, one that does not, anything else.                                 *)
Families == {"TCP4", "TCP6", "UNKNOWN", "junk"}

(* A net.IP: 4 bytes, 16 bytes holding a mapped IPv4 address, or IPv6.    *)
IPs == {"v4", "v4in6", "v6"}

Ok(proto, src, dst) == [err |-> "nil", proto |-> proto, src |-> src, dst |-> dst]
Err(e) == [err |-> e, proto |-> "UNSPEC", src |-> "none", dst |-> "none"]

-----------------------------------------------------------------------------
(* The read loop.  Byte k (1-based) is appended; an LF ends the line;      *)
(* the 107th byte without one is ErrVersion1HeaderTooLong; after any other *)
(* byte, an empty reader buffer is ErrCantReadVersion1Header.  A line      *)
(* whose LF is not preceded by CR is ErrLineMustEndWithCrlf.  The result  *)
(* records how many bytes the loop took from the reader.                   *)

(* The byte at which the loop stops: the LF, the last byte the reader     *)
(* holds, or the 107th, whichever comes first.                              *)
FirstStop(l) ==
    LET stops == {l.lfAt, l.seg, MaxLine} \ {0}
    IN CHOOSE k \in stops : \A j \in stops : k <= j

(* Mutant of ReadLine: the reader-empty check is made before the length   *)
(* bound.                                                                  *)
ReadLineGuardFirst(l) ==
    LET stop == FirstStop(l)
    IN CASE stop = l.lfAt /\ l.crBefore /\ stop >= 2 -> [err |-> "nil", taken |-> stop]
         [] stop = l.lfAt -> [err |-> "ErrLineMustEndWithCrlf", taken |-> stop]
         [] stop = l.seg -> [err |-> "ErrCantReadVersion1Header", taken |-> stop]
         [] OTHER -> [err |-> "ErrVersion1HeaderTooLong", taken |-> stop]

ReadLine(l) ==
    LET stop == FirstStop(l)
    IN CASE stop = l.lfAt /\ l.crBefore /\ stop >= 2 -> [err |-> "nil", taken |-> stop]
         [] stop = l.lfAt -> [err |-> "ErrLineMustEndWithCrlf", taken |-> stop]
         [] stop = MaxLine -> [err |-> "ErrVersion1HeaderTooLong", taken |-> stop]
         [] OTHER -> [err |-> "ErrCantReadVersion1Header", taken |-> stop]

(* parseV1IPAddress: netip.ParseAddr, then the family check: TCP4 takes an *)
(* IPv4 address, TCP6 an IPv6 or IPv4-in-IPv6 one.                         *)
ParseV1IPAddress(proto, tok) ==
    CASE proto = "TCPv4" /\ tok = "dotted" -> "v4"
      [] proto = "TCPv6" /\ tok = "colon" -> "v6"
      [] proto = "TCPv6" /\ tok = "mapped" -> "v4in6"
      [] OTHER -> "ErrInvalidAddress"

PortOK(tok) == tok = "port"

(* The rest of parseVersion1 on the tokens of a CRLF-terminated line: the *)
(* family, the token count, then source and destination address and port *)
(* in that order, the first error winning.  UNKNOWN stops at the family.  *)
ParseTokens(t) ==
    LET proto == CASE t[2] = "TCP4" -> "TCPv4" [] t[2] = "TCP6" -> "TCPv6"
                   [] t[2] = "UNKNOWN" -> "UNSPEC" [] OTHER -> "none"
    IN CASE Len(t) < 2 \/ proto = "none" -> Err("ErrCantReadAddressFamilyAndProtocol")
         [] proto # "UNSPEC" /\ Len(t) < 6 -> Err("ErrCantReadAddressFamilyAndProtocol")
         [] proto = "UNSPEC" -> Ok("UNSPEC", "none", "none")
         [] ParseV1IPAddress(proto, t[3]) \notin IPs -> Err("ErrInvalidAddress")
         [] ParseV1IPAddress(proto, t[4]) \notin IPs -> Err("ErrInvalidAddress")
         [] ~PortOK(t[5]) \/ ~PortOK(t[6]) -> Err("ErrInvalidPortNumber")
         [] OTHER -> Ok(proto, ParseV1IPAddress(proto, t[3]), ParseV1IPAddress(proto, t[4]))

(* net.IP.To4 and net.IP.String: a mapped address converts to 4 bytes    *)
(* and, like a 4-byte one, prints as a dotted quad.                         *)
To4(ip) == IF ip \in {"v4", "v4in6"} THEN "v4" ELSE "nil"
IPText(ip) == IF ip \in {"v4", "v4in6"} THEN "dotted" ELSE "colon"

(* formatVersion1: any transport but TCPv4 and TCPv6 is the short         *)
(* UNKNOWN form; the addresses must be TCP addresses, converted with To4  *)
(* for TCPv4 (To16 never fails on one); the ports print as decimals.       *)
FormatVersion1(h) ==
    CASE h.proto \notin {"TCPv4", "TCPv6"} -> [err |-> "nil", toks |-> <<"PROXY", "UNKNOWN">>]
      [] h.src = "notTCP" \/ h.dst = "notTCP" -> [err |-> "ErrInvalidAddress", toks |-> <<>>]
      [] h.proto = "TCPv4" /\ "nil" \in {To4(h.src), To4(h.dst)}
            -> [err |-> "ErrInvalidAddress", toks |-> <<>>]
      [] OTHER -> [err |-> "nil",
                   toks |-> <<"PROXY", IF h.proto = "TCPv4" THEN "TCP4" ELSE "TCP6",
                              IPText(h.src), IPText(h.dst), "port", "port">>]

-----------------------------------------------------------------------------
(* The harness: one input at a time, a line layout for the read loop, a   *)
(* token line, or a header to format.                                      *)
TokenLines == UNION {[1..n -> TokenKinds] : n \in 0..(MaxTokens - 2)}

Lines == [kind : {"line"}, lfAt : LFPositions, crBefore : BOOLEAN, seg : Segments,
          toks : {<<>>}, proto : {"none"}, src : {"none"}, dst : {"none"}]
Tokens == [kind : {"tokens"}, lfAt : {0}, crBefore : {TRUE}, seg : {0},
           toks : {<<"PROXY", f>> \o r : f \in Families, r \in TokenLines}
                  \cup {<<"PROXY">>},
           proto : {"none"}, src : {"none"}, dst : {"none"}]
Headers == [kind : {"header"}, lfAt : {0}, crBefore : {TRUE}, seg : {0}, toks : {<<>>},
            proto : {"TCPv4", "TCPv6", "UNSPEC"}, src : IPs \cup {"notTCP"},
            dst : IPs \cup {"notTCP"}]

NoInput == [kind |-> "none", lfAt |-> 0, crBefore |-> TRUE, seg |-> 0, toks |-> <<>>,
            proto |-> "none", src |-> "none", dst |-> "none"]

VARIABLE input

Init == input = NoInput

Next == input = NoInput /\ input' \in Lines \cup Tokens \cup Headers

Spec == Init /\ [][Next]_input

-----------------------------------------------------------------------------
(* Spec 4.3, the line: a CR LF ending at or before byte 107 is read and   *)
(* nothing after the LF is taken; a line with no LF in its first 107      *)
(* bytes is Version1HeaderTooLong, even when the reader holds all 107; a  *)
(* line the reader does not hold up to its LF is CantReadVersion1Header.  *)
ReadLineMatchesSpec ==
    input.kind = "line" =>
        LET l == input
            out == ReadLine(l)
            lfIn == l.lfAt \in 1..MaxLine
        IN CASE lfIn /\ l.lfAt <= l.seg ->
                  /\ out.taken = l.lfAt
                  /\ out.err = IF l.crBefore /\ l.lfAt >= 2 THEN "nil"
                               ELSE "ErrLineMustEndWithCrlf"
             [] ~lfIn /\ l.seg >= MaxLine ->
                  out = [err |-> "ErrVersion1HeaderTooLong", taken |-> MaxLine]
             [] OTHER -> out.err = "ErrCantReadVersion1Header" /\ out.taken <= l.seg

(* Spec 4.3, the tokens, as far as parseVersion1 enforces them: the       *)
(* family must be TCP4, TCP6 or UNKNOWN; UNKNOWN inspects nothing more;   *)
(* TCP4 and TCP6 need six tokens, addresses of the family (IPv4-in-IPv6   *)
(* accepted for TCP6) and ports in 0..65535, the addresses checked before *)
(* the ports.  Spec 4.3 asks for exactly six tokens; the code only        *)
(* refuses fewer (len(tokens) < 6) and ignores any after the sixth, so    *)
(* this property judges a longer line by its first six tokens.            *)
ParseMatchesSpec ==
    input.kind = "tokens" =>
        LET t == input.toks
            out == ParseTokens(t)
            proto == IF Len(t) < 2 THEN "none"
                     ELSE CASE t[2] = "TCP4" -> "TCPv4" [] t[2] = "TCP6" -> "TCPv6"
                            [] t[2] = "UNKNOWN" -> "UNSPEC" [] OTHER -> "none"
            addrOK(tok) == \/ proto = "TCPv4" /\ tok = "dotted"
                           \/ proto = "TCPv6" /\ tok \in {"colon", "mapped"}
        IN CASE proto = "none" -> out = Err("ErrCantReadAddressFamilyAndProtocol")
             [] proto = "UNSPEC" -> out = Ok("UNSPEC", "none", "none")
             [] Len(t) < 6 -> out = Err("ErrCantReadAddressFamilyAndProtocol")
             [] ~addrOK(t[3]) \/ ~addrOK(t[4]) -> out = Err("ErrInvalidAddress")
             [] t[5] # "port" \/ t[6] # "port" -> out = Err("ErrInvalidPortNumber")
             [] OTHER -> out.err = "nil" /\ out.proto = proto

(* Spec 8, round trip: every header formatVersion1 writes, parseVersion1  *)
(* reads back with the same transport and equal addresses (net.IP.Equal:  *)
(* a 4-byte and a mapped 16-byte IPv4 address are equal).                  *)
RoundTrip ==
    input.kind = "header" =>
        LET w == FormatVersion1(input)
            out == ParseTokens(w.toks)
            same(a, b) == a = b \/ {a, b} = {"v4", "v4in6"}
        IN w.err = "nil" =>
             IF input.proto \in {"TCPv4", "TCPv6"}
             THEN out.err = "nil" /\ out.proto = input.proto
                  /\ same(out.src, input.src) /\ same(out.dst, input.dst)
             ELSE out = Ok("UNSPEC", "none", "none")
====

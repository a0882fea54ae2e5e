----------------------------- MODULE MCV1Header -----------------------------
(* LF positions and reader fills around the ends of the line: the first   *)
(* byte, the shortest CRLF, a typical line, and 106 to 108 around the     *)
(* 107-byte bound; a fill of a whole 4096-byte reader.                     *)
EXTENDS V1Header

MCLFPositions == {0, 1, 2, 15, 106, 107, 108}
MCSegments == {1, 2, 15, 106, 107, 108, 4096}
====

----------------------------- MODULE MCV2Header -----------------------------
(* Boundary values of the lengths.  TLV lengths: none, one byte, the      *)
(* largest that fits after each family's fixed block and one more, and    *)
(* the largest a 16-bit field states.  Length fields: 0, below and at     *)
(* each family's minimum, and around the reader's buffer.                  *)
EXTENDS V2Header


MCTLVLens == {0, 1, 4080, 65499, 65500, 65523, 65524, 65535}
MCTLVLensWrap == {65535, 65536}
MCTLVLensLarge == {4060, 4061}

MCLenFields == {0, 11, 12, 35, 36, 215, 216, 4095, 4096}
MCAvails == {0, 12, 216, 4096, 65535}
====

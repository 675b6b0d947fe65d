--------------------------- MODULE MCBytesReader ---------------------------
(***************************************************************************)
(* Instances of BytesReader for TLC.  A buffer of seven bytes holds nested *)
(* chunks three deep with a field in the innermost; lengths go from 0 to   *)
(* more than the buffer, and the largest offset is near to Word, as the    *)
(* one that a skip needs to wrap.  The stack has room for the deepest      *)
(* nesting without such a skip, and overflows only after one.  The varint  *)
(* and fixed widths are scaled down in the same order (varints may be      *)
(* shorter and longer than fixed fields), so that every error of theirs    *)
(* occurs in a small buffer.                                               *)
(***************************************************************************)
EXTENDS BytesReader

MCFixedSizes == {2, 4}
MCLens == {0, 1, 2, 3, 8}
MCOffsets == {0, 2, 8, 13}
=============================================================================

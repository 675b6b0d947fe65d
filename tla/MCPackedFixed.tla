--------------------------- MODULE MCPackedFixed ---------------------------
(***************************************************************************)
(* Numbers of two bytes with two values each, at most two of them; chunks  *)
(* that end in the middle of a number, too; and indices past the end of    *)
(* every value.                                                            *)
(***************************************************************************)
EXTENDS PackedFixed, SequencesExt

MCByte == {0, 1}
MCVecs == BoundedSeq([1..2 -> MCByte], 2)
MCChunks == BoundedSeq(MCByte, 5)
MCIndices == 0..2
=============================================================================

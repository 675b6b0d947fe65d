------------------------------- MODULE MCCodec -------------------------------
(***************************************************************************)
(* Two bits to a byte, words of five bits and longs of nine: as in the     *)
(* code (7, 32, 64) neither width is a multiple of the group, a word's     *)
(* last byte keeps some bits, a long's a single one, and bytes follow the  *)
(* word's last that are dropped.  Every value of every type, and every     *)
(* string of at most six bytes whose low bits are none, one or all.        *)
(***************************************************************************)
EXTENDS Codec, SequencesExt

Few == [more : BOOLEAN, low : {0, 1, 3}]
MCForeign == BoundedSeq(Few, 4) \cup { s \o <<b, c>> : s \in [1..4 -> Few], b \in Few, c \in Few }
MCTails == { <<>>, << [more |-> FALSE, low |-> 1] >> }
=============================================================================

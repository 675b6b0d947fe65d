--------------------------- MODULE MCBreakCycles ---------------------------
(***************************************************************************)
(* Every schema of at most four message-typed fields on three messages.    *)
(* The messages are interchangeable, so a schema stands for the ones that  *)
(* rename its messages: the ones kept have most fields on A, fewest on C.  *)
(* (SYMMETRY would say the same, but not under a liveness property.)       *)
(***************************************************************************)
EXTENDS BreakCycles, FiniteSets

CONSTANTS A, B, C

MCMsgs == {A, B, C}
MCFields == [from : MCMsgs, to : MCMsgs, freq : {"required", "optional", "repeated"}]

(* The schemas with at most a given number of fields. *)
AtMostTwo == {{}} \cup {{f, g} : f, g \in MCFields}
AtMostThree == {F \cup {f} : F \in AtMostTwo, f \in MCFields}
AtMostFour == {F \cup {f} : F \in AtMostThree, f \in MCFields}

FieldsOn(m, F) == Cardinality({f \in F : f.from = m})
AtMostFourRenamed ==
  {F \in AtMostFour :
     /\ FieldsOn(A, F) >= FieldsOn(B, F)
     /\ FieldsOn(B, F) >= FieldsOn(C, F)}
=============================================================================

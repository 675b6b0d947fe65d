-------------------------- MODULE MCCycleBreaking --------------------------
(***************************************************************************)
(* Every graph of at most six required fields on four messages without     *)
(* self loops, and on three of them every schema of at most four inline    *)
(* fields or of at most two of any frequency: enough for two cycles that   *)
(* share a message, a cross edge in Tarjan's tree and a second component.  *)
(***************************************************************************)
EXTENDS CycleBreaking

MCGraphs == SUBSET (Vertices \X Vertices)

FieldsOf(messages, freqs) == [from : messages, to : messages, freq : freqs]
PairsOf(F) == {{}} \cup {{f, g} : f, g \in F}
InlineSchemas ==
  LET P == PairsOf(FieldsOf(1..3, {"required", "optional"}))
  IN  {S \cup T : S, T \in P}
RequiredSchemas ==
  LET all == {f \in FieldsOf(Vertices, {"required"}) : f.from # f.to}
  IN  {S \in SUBSET all : Cardinality(S) <= 6}
MCSchemas ==
  InlineSchemas \cup RequiredSchemas
    \cup PairsOf(FieldsOf(1..3, {"required", "optional", "repeated"}))
=============================================================================

--------------------------- MODULE CycleBreaking ---------------------------
(***************************************************************************)
(* FileDescriptor::break_cycles with the components that sccs() really     *)
(* computes: module Scc explores the inline fields of the schema, and what *)
(* it returns drives the loops of module BreakCycles.                      *)
(*                                                                         *)
(* BreakCycles allows any decomposition.  Here the order of the components *)
(* and of the messages inside them is Tarjan's, so a behaviour found in    *)
(* this module is one of the program.                                      *)
(***************************************************************************)
EXTENDS Scc

CONSTANT Schemas   \* the sets of message-typed fields to generate code for

VARIABLES
  errorCycle, fields, boxed, loosened, visited, current, pending, reported,
  phase

boxingVars == <<errorCycle, fields, boxed, loosened, visited, current, pending,
                reported, phase>>
vars == <<sccVars, boxingVars>>

----------------------------------------------------------------------------
(* The place of a message in `sccs`, once it has been returned. *)
ComponentOf(m) == CHOOSE i \in DOMAIN sccs : m \in ToSet(sccs[i])
PlaceOf(m) == CHOOSE j \in DOMAIN sccs[ComponentOf(m)] :
                sccs[ComponentOf(m)][j] = m

comp == [m \in Vertices |-> IF phase = "start" THEN 1 ELSE ComponentOf(m)]
pos == [m \in Vertices |-> IF phase = "start" THEN 1 ELSE PlaceOf(m)]

Boxing == INSTANCE BreakCycles WITH Msgs <- Vertices

ASSUME CycleBreakingAssumption == Schemas \subseteq SUBSET Boxing!Fields

(* A mutant: only optional fields are followed. *)
OptionalEdges(F) == {<<f.from, f.to>> : f \in {f \in F : f.freq = "optional"}}

(* scc() filters the fields: not boxed, not repeated. *)
EmbeddingEdges(F) == {<<f.from, f.to>> : f \in {f \in F : Boxing!Inline(f)}}

Init ==
  /\ fields \in Schemas
  /\ edges = EmbeddingEdges(fields)
  /\ SccInit
  /\ Boxing!BreakInit

(* Inside the call of sccs(): nothing is boxed yet. *)
Explore ==
  /\ phase = "start"
  /\ SccNext
  /\ UNCHANGED boxingVars

(* sccs() returns. *)
HandOver ==
  /\ phase = "start"
  /\ SccDone
  /\ phase' = "breaking"
  /\ UNCHANGED <<sccVars, errorCycle, fields, boxed, loosened, visited, current,
                 pending, reported>>

(* The loops over the components. *)
BreakSlices ==
  /\ phase = "breaking"
  /\ UNCHANGED sccVars
  /\ Boxing!BreakNext

Next == Explore \/ HandOver \/ BreakSlices

(* One thread, which goes on as long as it can. *)
Spec == Init /\ [][Next]_vars /\ WF_vars(Next)

----------------------------------------------------------------------------
(***************************************************************************)
(* break_cycles with Tarjan's algorithm implements the one that takes any  *)
(* decomposition: what sccs() returns is a decomposition into components   *)
(* in reverse topological order, and only that is relied upon.  Everything *)
(* shown of BreakCycles thus holds of the program.                         *)
(***************************************************************************)
ImplementsBreakCycles == Boxing!BreakSpec

(***************************************************************************)
(* sccs() is called once and its answer used while the graph it describes  *)
(* is being changed.  That is enough: whatever still embeds itself has a   *)
(* cycle inside one of the components, where the loops look for it.        *)
(***************************************************************************)
StaleComponentsSuffice ==
  phase = "breaking" =>
    \A S \in SUBSET Vertices :
      S # {} /\ Boxing!ClosesOn(S, Boxing!StillInline)
        => \E T \in SUBSET S :
             /\ T # {}
             /\ Boxing!ClosesOn(T, Boxing!StillInline)
             /\ \A m, n \in T : comp[m] = comp[n]

(***************************************************************************)
(* break_cycles always answers.  A message sccs() never entered, or a call *)
(* of scc that waits for an edge that is not there, would leave the loops  *)
(* over the components without a place for it; a boxed field must not      *)
(* bring its slice back either.                                            *)
(***************************************************************************)
Terminates == <>(phase \in {"done", "failed"})
=============================================================================

---------------------------- MODULE BreakCycles ----------------------------
(***************************************************************************)
(* FileDescriptor::break_cycles (types.rs): deciding which fields of the   *)
(* generated structs to put in a Box.                                      *)
(*                                                                         *)
(* A message that embeds another one holds it inline unless the field is   *)
(* boxed or repeated (a Vec).  If messages embed each other in a cycle the *)
(* generated structs would have no size, and rustc rejects them.  pb-rs    *)
(* takes the strongly connected components from sccs() and, inside each,   *)
(* walks the slices scc[i ..= j] for every field of scc[i] whose message   *)
(* is scc[j] with j >= i: it boxes the optional fields between messages of *)
(* the slice and, when that leaves an unboxed field between them, either   *)
(* stops with Error::Cycle or turns the remaining fields into boxed        *)
(* optional ones.                                                          *)
(*                                                                         *)
(* sccs() is modelled by what it promises, any decomposition into          *)
(* components pushed in reverse topological order; module Scc has the      *)
(* algorithm and module CycleBreaking composes the two.                    *)
(***************************************************************************)
EXTENDS Integers, FiniteSets

CONSTANTS
  Msgs,       \* the messages of the descriptor
  Schemas     \* the sets of message-typed fields to generate code for

(***************************************************************************)
(* A field with a message for its type.  "required" stands for the         *)
(* frequencies that are stored inline and are neither optional nor         *)
(* repeated: a proto2 required or oneof field, a proto3 field without a    *)
(* label.  Two fields alike in all three are treated alike.                *)
(***************************************************************************)
Frequencies == {"required", "optional", "repeated"}
Fields == [from : Msgs, to : Msgs, freq : Frequencies]

ASSUME BreakAssumption ==
  /\ IsFiniteSet(Msgs)
  /\ Schemas \subseteq SUBSET Fields

VARIABLES
  errorCycle, \* config.error_cycle
  fields,     \* the fields, as parsed
  boxed,      \* f.boxed
  loosened,   \* required fields whose frequency was changed to optional
  comp,       \* the component of a message, by its position in sccs
  pos,        \* the message's position in its component
  visited,    \* the messages v that the two outer loops have gone through
  current,    \* the v whose `cycles` are being broken, if any
  pending,    \* their last messages: the slices still to break
  reported,   \* the messages of Error::Cycle
  phase       \* "start", "breaking", then "done" or "failed"

breakVars == <<errorCycle, fields, boxed, loosened, comp, pos, visited, current,
               pending, reported, phase>>

----------------------------------------------------------------------------
(* What a struct holds inline, and where that matters. *)
Inline(f) == f.freq # "repeated"
Optional(f) == f.freq = "optional" \/ f \in loosened
Required(f) == ~Optional(f) /\ f.freq # "repeated"

(* The edges sccs() walks, before anything is boxed. *)
InlineFields == {f \in fields : Inline(f)}

(* S is a set of messages that closes on itself under the edges F. *)
ClosesOn(S, F) == \A m \in S : \E f \in F : f.from = m /\ f.to \in S
HoldsCycle(S, F) == \E T \in SUBSET S : T # {} /\ ClosesOn(T, F)

ClosedUnder(S, F) == \A f \in F : f.from \in S => f.to \in S
Embeds(m, n) ==
  \A S \in SUBSET Msgs : ClosedUnder(S, InlineFields) /\ m \in S => n \in S

(***************************************************************************)
(* What sccs() returns.  Messages are in the same component exactly when   *)
(* they embed each other, and a component comes after those it embeds; the *)
(* messages of a component are listed in some order.                       *)
(***************************************************************************)
AreNumbers(S) == S = 1 .. Cardinality(S)

(* A mutant: a message joins the component of what it embeds. *)
AreComponentsOneWay(c) ==
  /\ AreNumbers({c[m] : m \in Msgs})
  /\ \A m, n \in Msgs : c[m] = c[n] <=> Embeds(m, n) \/ Embeds(n, m)

AreComponents(c) ==
  /\ AreNumbers({c[m] : m \in Msgs})
  /\ \A m, n \in Msgs : c[m] = c[n] <=> Embeds(m, n) /\ Embeds(n, m)
  /\ \A f \in InlineFields : c[f.to] <= c[f.from]

ArePositions(p, c) ==
  /\ \A m \in Msgs : AreNumbers({p[n] : n \in {n \in Msgs : c[n] = c[m]}})
  /\ \A m, n \in Msgs : c[m] = c[n] /\ p[m] = p[n] => m = n

Places == [Msgs -> 1 .. Cardinality(Msgs)]

(* The iteration order: component by component, position by position. *)
Precedes(m, n) == comp[m] < comp[n] \/ (comp[m] = comp[n] /\ pos[m] < pos[n])

(* A mutant: the slice without its last message. *)
SliceHalfOpen(v, t) ==
  {m \in Msgs : comp[m] = comp[v] /\ pos[m] \in pos[v] .. (pos[t] - 1)}

(* scc[i ..= j], the messages between v and t in their component. *)
Slice(v, t) == {m \in Msgs : comp[m] = comp[v] /\ pos[m] \in pos[v] .. pos[t]}

(* A mutant: the target of the field is not looked up in the slice. *)
WithinFrom(S) == {f \in fields : f.from \in S}
Within(S) == {f \in fields : f.from \in S /\ f.to \in S}

(* A mutant: only the fields just boxed are looked at. *)
IsCycleOptional(S, B) == {f \in Within(S) \ B : Optional(f)} # {}

(* is_cycle: some unboxed field of the slice leads to the slice. *)
IsCycle(S, B) == Within(S) \ B # {}

ComputeSccs ==
  /\ phase = "start"
  /\ phase' = "breaking"
  /\ comp' \in Places /\ AreComponents(comp')
  /\ pos' \in Places /\ ArePositions(pos', comp')
  /\ UNCHANGED <<errorCycle, fields, boxed, loosened, visited, current, pending,
                 reported>>

(* The next v of the loops; its fields name the ends of the slices. *)
Visit(v) ==
  /\ phase = "breaking"
  /\ pending = {}
  /\ v \notin visited
  /\ \A m \in Msgs : Precedes(m, v) => m \in visited
  /\ visited' = visited \cup {v}
  /\ current' = {v}
  /\ pending' = {t \in Msgs : /\ comp[t] = comp[v] /\ pos[t] >= pos[v]
                              /\ \E f \in fields : f.from = v /\ f.to = t}
  /\ UNCHANGED <<phase, errorCycle, fields, boxed, loosened, comp, pos, reported>>

BoxOptional(S) == boxed \cup {f \in Within(S) : Optional(f)}
StillRequired(S) == {f \in Within(S) : Required(f)}

(* Boxing the optional fields was enough. *)
Break(v, t) ==
  LET S == Slice(v, t) IN
  /\ current = {v}
  /\ t \in pending
  /\ ~IsCycle(S, BoxOptional(S))
  /\ boxed' = BoxOptional(S)
  /\ pending' = pending \ {t}
  /\ UNCHANGED <<phase, errorCycle, fields, loosened, comp, pos, visited, current,
                 reported>>

(* "Modifying required fields into optional fields". *)
BreakRequired(v, t) ==
  LET S == Slice(v, t) IN
  /\ current = {v}
  /\ t \in pending
  /\ ~errorCycle
  /\ IsCycle(S, BoxOptional(S))
  /\ boxed' = BoxOptional(S) \cup StillRequired(S)
  /\ loosened' = loosened \cup StillRequired(S)
  /\ pending' = pending \ {t}
  /\ UNCHANGED <<phase, errorCycle, fields, comp, pos, visited, current, reported>>

(* Err(Error::Cycle(..)): the caller gives up. *)
Fail(v, t) ==
  LET S == Slice(v, t) IN
  /\ current = {v}
  /\ t \in pending
  /\ errorCycle
  /\ IsCycle(S, BoxOptional(S))
  /\ phase' = "failed"
  /\ boxed' = BoxOptional(S)
  /\ reported' = S
  /\ pending' = {}
  /\ UNCHANGED <<errorCycle, fields, loosened, comp, pos, visited, current>>

Finish ==
  /\ phase = "breaking"
  /\ pending = {}
  /\ visited = Msgs
  /\ phase' = "done"
  /\ UNCHANGED <<errorCycle, fields, boxed, loosened, comp, pos, visited, current,
                 pending, reported>>

----------------------------------------------------------------------------
BreakInit ==
  /\ phase = "start"
  /\ errorCycle \in BOOLEAN
  /\ fields \in Schemas
  /\ boxed = {}
  /\ loosened = {}
  /\ comp = [m \in Msgs |-> 1]
  /\ pos = [m \in Msgs |-> 1]
  /\ visited = {}
  /\ current = {}
  /\ pending = {}
  /\ reported = {}

BreakNext ==
  \/ ComputeSccs
  \/ \E v \in Msgs : Visit(v)
  \/ \E v, t \in Msgs : Break(v, t) \/ BreakRequired(v, t) \/ Fail(v, t)
  \/ Finish

BreakSpec == BreakInit /\ [][BreakNext]_breakVars

----------------------------------------------------------------------------
(* Types; only fields of the schema are boxed, only required ones loosened *)
(* and never without a box, and there are slices to break only for a v.    *)
BreakTypeOK ==
  /\ errorCycle \in BOOLEAN
  /\ fields \subseteq Fields
  /\ boxed \subseteq fields
  /\ loosened \subseteq {f \in boxed : f.freq = "required"}
  /\ comp \in Places /\ pos \in Places
  /\ visited \subseteq Msgs
  /\ current \subseteq visited
  /\ pending \subseteq Msgs
  /\ reported \subseteq Msgs
  /\ phase \in {"start", "breaking", "done", "failed"}

(* The fields that the generated structs hold inline. *)
StillInline == InlineFields \ boxed

(***************************************************************************)
(* The purpose of break_cycles: when it succeeds, every generated struct   *)
(* has a size.  No set of messages, whatever the cycles it had and whether *)
(* they share messages or not, embeds itself any more.                     *)
(***************************************************************************)
Sized == phase = "done" => ~HoldsCycle(Msgs, StillInline)

(* v lies on a cycle of inline fields that passes through f. *)
OnCycle(f) == Inline(f) /\ Embeds(f.to, f.from)

(***************************************************************************)
(* A box costs an allocation per message read, so it is only put where a   *)
(* cycle needs one: a boxed field lies on a cycle of inline fields.        *)
(***************************************************************************)
OnlyCyclesAreBoxed == \A f \in boxed : OnCycle(f)

(***************************************************************************)
(* A message is decided once its turn is over: from then on all it still   *)
(* holds inline comes earlier in the order of the loops, so that no later  *)
(* message can close a cycle through it.                                   *)
(***************************************************************************)
DecidedHoldsEarlierOnly ==
  phase # "failed" =>
    \A f \in StillInline :
      f.from \in visited /\ ~(f.from \in current /\ f.to \in pending)
        => Precedes(f.to, f.from)

(***************************************************************************)
(* With --error-cycle, a schema whose required fields embed a message in   *)
(* itself is never accepted: boxing optional fields cannot help it.        *)
(***************************************************************************)
RequiredFields(F) == {f \in F : f.freq = "required"}
InfiniteSchemasRejected ==
  errorCycle /\ phase = "done" => ~HoldsCycle(Msgs, RequiredFields(fields))

(***************************************************************************)
(* A schema without recursion goes through untouched: Error::Cycle is only *)
(* raised where some message contains itself, be it through repeated       *)
(* fields.                                                                 *)
(***************************************************************************)
AcyclicSchemasAccepted == phase = "failed" => HoldsCycle(Msgs, fields)

(***************************************************************************)
(* Boxing is never undone, and the components are broken independently:    *)
(* while a message of one is being visited only fields inside that         *)
(* component are boxed.                                                    *)
(***************************************************************************)
BoxesStayInComponent ==
  [][/\ boxed \subseteq boxed'
     /\ \A f \in boxed' \ boxed, v \in current :
          comp[f.from] = comp[v] /\ comp[f.to] = comp[v]]_breakVars
=============================================================================

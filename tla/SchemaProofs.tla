---------------------------- MODULE SchemaProofs ----------------------------
(***************************************************************************)
(* A schema from its text to types that a compiler takes.  First, what     *)
(* break_cycles achieves for every schema, any number of messages and any  *)
(* decomposition into components; below, what the parser keeps of every    *)
(* file, whatever its statements and however deep its blocks.              *)
(***************************************************************************)
EXTENDS BreakCycles, Parser, FiniteSetTheorems, WellFoundedInduction, TLAPS

----------------------------------------------------------------------------
(* The inductive invariant. *)

(* The places come from sccs(), computed before the loops. *)
Placed == phase # "start" => AreComponents(comp) /\ ArePositions(pos, comp)

NotStarted ==
  phase = "start" => boxed = {} /\ loosened = {} /\ visited = {} /\ pending = {}

(* The slices still to break start at the current message. *)
PendingAhead ==
  \A v \in current, t \in pending : comp[t] = comp[v] /\ pos[v] <= pos[t]

BoxesInside == \A f \in boxed : Inline(f) /\ comp[f.from] = comp[f.to]

(* A required field is boxed with its frequency changed, or not at all. *)
BoxedOrRequired == \A f \in boxed : f.freq = "required" => f \in loosened
ErrorLoosensNothing == errorCycle => loosened = {}

DoneIsAll == phase = "done" => visited = Msgs /\ pending = {}

IInv ==
  /\ BreakTypeOK
  /\ Placed
  /\ NotStarted
  /\ PendingAhead
  /\ BoxesInside
  /\ BoxedOrRequired
  /\ ErrorLoosensNothing
  /\ DoneIsAll
  /\ DecidedHoldsEarlierOnly
  /\ AcyclicSchemasAccepted

----------------------------------------------------------------------------
(* Facts about places and slices. *)

(* Places are natural numbers. *)
LEMMA PlaceTypes ==
  /\ Cardinality(Msgs) \in Nat
  /\ \A p \in Places, m \in Msgs : p[m] \in Nat
  /\ [m \in Msgs |-> 1] \in Places
<1>1. Cardinality(Msgs) \in Nat
  BY FS_CardinalityType, BreakAssumption
<1>2. \A p \in Places, m \in Msgs : p[m] \in Nat
  BY <1>1 DEF Places
<1>3. \A m \in Msgs : Cardinality(Msgs) >= 1
  <2> TAKE m \in Msgs
  <2>1. Cardinality(Msgs) # 0
    BY FS_EmptySet, BreakAssumption
  <2> QED BY <1>1, <2>1
<1>4. [m \in Msgs |-> 1] \in Places
  BY <1>1, <1>3 DEF Places
<1> QED BY <1>1, <1>2, <1>4

(* A slice still to break has both its ends, and lies in one component. *)
LEMMA PendingSlice ==
  ASSUME IInv, NEW v \in Msgs, NEW t \in Msgs, current = {v}, t \in pending
  PROVE  /\ v \in Slice(v, t) /\ t \in Slice(v, t)
         /\ \A m \in Slice(v, t) : m \in Msgs /\ comp[m] = comp[v]
         /\ phase # "start"
         /\ phase # "done"
<1>1. comp[t] = comp[v] /\ pos[v] <= pos[t]
  BY DEF IInv, PendingAhead
<1>2. pos[v] \in Nat /\ pos[t] \in Nat
  BY PlaceTypes DEF IInv, BreakTypeOK
<1>3. v \in Slice(v, t) /\ t \in Slice(v, t)
  BY <1>1, <1>2 DEF Slice
<1>4. \A m \in Slice(v, t) : m \in Msgs /\ comp[m] = comp[v]
  BY DEF Slice
<1>5. phase # "start" /\ phase # "done"
  BY DEF IInv, NotStarted, DoneIsAll
<1> QED BY <1>3, <1>4, <1>5

(* Embedding is reflexive and closed under one more field at either end. *)
LEMMA EmbedsSteps ==
  ASSUME BreakTypeOK
  PROVE  /\ \A m \in Msgs : Embeds(m, m)
         /\ \A m \in Msgs, f \in InlineFields :
              Embeds(m, f.from) => Embeds(m, f.to)
<1>1. \A f \in InlineFields : f.from \in Msgs /\ f.to \in Msgs
  BY DEF BreakTypeOK, InlineFields, Fields
<1> QED BY <1>1 DEF Embeds, ClosedUnder

(* Whatever embeds another message does so through one of its fields. *)
LEMMA EmbedsFirstField ==
  ASSUME BreakTypeOK, NEW m \in Msgs, NEW n \in Msgs, Embeds(m, n), m # n
  PROVE  \E f \in InlineFields : f.from = m /\ Embeds(f.to, n)
<1> DEFINE S == {m} \cup {k \in Msgs : \E f \in InlineFields :
                                         f.from = m /\ Embeds(f.to, k)}
<1>1. \A f \in InlineFields : f.from \in Msgs /\ f.to \in Msgs
  BY DEF BreakTypeOK, InlineFields, Fields
<1>2. ClosedUnder(S, InlineFields)
  <2> SUFFICES ASSUME NEW f \in InlineFields, f.from \in S
               PROVE  f.to \in S
    BY DEF ClosedUnder
  <2>1. CASE f.from = m
    BY <1>1, <2>1, EmbedsSteps
  <2>2. CASE f.from # m
    <3>1. PICK g \in InlineFields : g.from = m /\ Embeds(g.to, f.from)
      BY <2>2
    <3>2. Embeds(g.to, f.to)
      BY <1>1, <3>1, EmbedsSteps
    <3> QED BY <1>1, <3>1, <3>2
  <2> QED BY <2>1, <2>2
<1>3. S \in SUBSET Msgs /\ m \in S
  OBVIOUS
<1> HIDE DEF S
<1>4. n \in S
  BY <1>2, <1>3 DEF Embeds
<1> QED BY <1>4 DEF S

(* A field between messages that embed each other is part of a cycle. *)
LEMMA FieldOnCycle ==
  ASSUME BreakTypeOK, NEW f \in fields, Embeds(f.to, f.from)
  PROVE  HoldsCycle(Msgs, fields)
<1> DEFINE T == {m \in Msgs : Embeds(f.to, m) /\ Embeds(m, f.from)}
<1>1. f.from \in Msgs /\ f.to \in Msgs
  BY DEF BreakTypeOK, Fields
<1>2. f.to \in T
  BY <1>1, EmbedsSteps
<1>3. ASSUME NEW m \in T
      PROVE  \E g \in fields : g.from = m /\ g.to \in T
  <2>1. CASE m = f.from
    BY <1>2, <2>1
  <2>2. CASE m # f.from
    <3>1. PICK g \in InlineFields : g.from = m /\ Embeds(g.to, f.from)
      BY <1>1, <2>2, EmbedsFirstField
    <3>2. g \in fields /\ g.to \in Msgs
      BY DEF BreakTypeOK, InlineFields, Fields
    <3>3. Embeds(f.to, g.to)
      BY <1>1, <3>1, EmbedsSteps
    <3> QED BY <3>1, <3>2, <3>3
  <2> QED BY <2>1, <2>2
<1>4. T \in SUBSET Msgs /\ T # {}
  BY <1>2
<1> HIDE DEF T
<1>5. ClosesOn(T, fields)
  BY <1>3 DEF ClosesOn
<1> QED BY <1>4, <1>5 DEF HoldsCycle

----------------------------------------------------------------------------
(* The invariant is inductive. *)

LEMMA InitInv == BreakInit => IInv
<1> SUFFICES ASSUME BreakInit PROVE IInv
  OBVIOUS
<1>1. BreakTypeOK
  BY PlaceTypes, BreakAssumption DEF BreakInit, BreakTypeOK
<1>2. /\ Placed /\ NotStarted /\ PendingAhead /\ BoxesInside /\ BoxedOrRequired
      /\ ErrorLoosensNothing /\ DoneIsAll
  BY DEF BreakInit, Placed, NotStarted, PendingAhead, BoxesInside,
         BoxedOrRequired, ErrorLoosensNothing, DoneIsAll
<1>3. DecidedHoldsEarlierOnly /\ AcyclicSchemasAccepted
  BY DEF BreakInit, DecidedHoldsEarlierOnly, AcyclicSchemasAccepted
<1> QED BY <1>1, <1>2, <1>3 DEF IInv

LEMMA ComputeSccsInv == IInv /\ ComputeSccs => IInv'
<1> SUFFICES ASSUME IInv, ComputeSccs PROVE IInv'
  OBVIOUS
<1> USE DEF ComputeSccs
<1>1. BreakTypeOK'
  BY DEF IInv, BreakTypeOK
<1>2. Placed'
  BY DEF Placed, AreComponents, ArePositions, Embeds, InlineFields
<1>3. boxed = {} /\ loosened = {} /\ visited = {} /\ pending = {}
  BY DEF IInv, NotStarted
<1>4. (NotStarted /\ PendingAhead /\ BoxesInside /\ BoxedOrRequired)'
  BY <1>3 DEF NotStarted, PendingAhead, BoxesInside, BoxedOrRequired
<1>5. (ErrorLoosensNothing /\ DoneIsAll)'
  BY <1>3 DEF ErrorLoosensNothing, DoneIsAll
<1>6. (DecidedHoldsEarlierOnly /\ AcyclicSchemasAccepted)'
  BY <1>3 DEF DecidedHoldsEarlierOnly, AcyclicSchemasAccepted
<1> QED BY <1>1, <1>2, <1>4, <1>5, <1>6 DEF IInv

(* Where a step leaves the schema and the places alone. *)
LEMMA PlacedStable ==
  ASSUME Placed, phase # "start", UNCHANGED <<fields, comp, pos>>
  PROVE  Placed'
  BY DEF Placed, AreComponents, ArePositions, Embeds, InlineFields

LEMMA VisitInv == ASSUME NEW v \in Msgs PROVE IInv /\ Visit(v) => IInv'
<1> SUFFICES ASSUME IInv, Visit(v) PROVE IInv'
  OBVIOUS
<1> USE DEF Visit
<1>1. BreakTypeOK'
  BY DEF IInv, BreakTypeOK
<1>2. Placed'
  BY PlacedStable DEF IInv
<1>3. (NotStarted /\ DoneIsAll)'
  BY DEF NotStarted, DoneIsAll
<1>4. PendingAhead'
  <2>1. \A t \in pending' : comp[t] = comp[v] /\ pos[t] >= pos[v] /\ t \in Msgs
    OBVIOUS
  <2>2. \A t \in Msgs : pos[t] \in Nat
    BY PlaceTypes DEF IInv, BreakTypeOK
  <2>3. \A t \in pending' : pos[v] <= pos[t]
    BY <2>1, <2>2
  <2> QED BY <2>1, <2>3 DEF PendingAhead
<1>5. (BoxesInside /\ BoxedOrRequired /\ ErrorLoosensNothing)'
  BY DEF IInv, BoxesInside, BoxedOrRequired, ErrorLoosensNothing
<1>6. DecidedHoldsEarlierOnly'
  <2> SUFFICES ASSUME NEW f \in StillInline, f.from \in visited \cup {v},
                      ~(f.from = v /\ f.to \in pending')
               PROVE  Precedes(f.to, f.from)
    BY DEF DecidedHoldsEarlierOnly, StillInline, InlineFields, Precedes
  <2>1. f \in InlineFields /\ f \in fields /\ f.from \in Msgs /\ f.to \in Msgs
    BY DEF IInv, BreakTypeOK, StillInline, InlineFields, Fields
  <2>2. CASE f.from \in visited
    BY <2>2 DEF IInv, DecidedHoldsEarlierOnly
  <2>3. CASE f.from = v
    <3>1. ~(comp[f.to] = comp[v] /\ pos[f.to] >= pos[v])
      BY <2>1, <2>3
    <3>2. comp[f.to] <= comp[v]
      BY <2>1, <2>3 DEF IInv, Placed, AreComponents
    <3>3. /\ comp[f.to] \in Nat /\ comp[v] \in Nat
          /\ pos[f.to] \in Nat /\ pos[v] \in Nat
      BY <2>1, PlaceTypes DEF IInv, BreakTypeOK
    <3> QED BY <2>3, <3>1, <3>2, <3>3 DEF Precedes
  <2> QED BY <2>2, <2>3
<1>7. AcyclicSchemasAccepted'
  BY DEF AcyclicSchemasAccepted
<1> QED BY <1>1, <1>2, <1>3, <1>4, <1>5, <1>6, <1>7 DEF IInv

(* What both ways of breaking a slice keep: B are the boxes put on it. *)
LEMMA BoxSlice ==
  ASSUME IInv, NEW v \in Msgs, NEW t \in Msgs, current = {v}, t \in pending,
         NEW B, B \subseteq {f \in Within(Slice(v, t)) : Inline(f)},
         boxed' = boxed \cup B, pending' = pending \ {t},
         UNCHANGED <<phase, errorCycle, fields, comp, pos, visited, current>>,
         \A f \in Within(Slice(v, t)) : Inline(f) => f \in boxed \cup B
  PROVE  /\ (Placed /\ NotStarted /\ PendingAhead /\ BoxesInside /\ DoneIsAll)'
         /\ DecidedHoldsEarlierOnly'
<1>1. /\ v \in Slice(v, t) /\ t \in Slice(v, t)
      /\ \A m \in Slice(v, t) : m \in Msgs /\ comp[m] = comp[v]
      /\ phase # "start"
      /\ phase # "done"
  BY PendingSlice
<1>2. Placed'
  BY <1>1, PlacedStable DEF IInv
<1>3. (NotStarted /\ PendingAhead /\ DoneIsAll)'
  BY <1>1 DEF IInv, NotStarted, PendingAhead, DoneIsAll
<1>4. BoxesInside'
  BY <1>1 DEF IInv, BoxesInside, Within, Inline
<1>5. DecidedHoldsEarlierOnly'
  <2> SUFFICES ASSUME phase # "failed",
                      NEW f \in StillInline', f.from \in visited,
                      ~(f.from \in current /\ f.to \in pending \ {t})
               PROVE  Precedes(f.to, f.from)
    BY DEF DecidedHoldsEarlierOnly, Precedes
  <2>1. f \in StillInline /\ f \in fields /\ Inline(f) /\ f \notin boxed \cup B
    BY DEF StillInline, InlineFields, Inline
  <2>2. CASE f.from = v /\ f.to = t
    BY <1>1, <2>1, <2>2 DEF Within
  <2>3. CASE ~(f.from = v /\ f.to = t)
    BY <2>1, <2>3 DEF IInv, DecidedHoldsEarlierOnly
  <2> QED BY <2>2, <2>3
<1> QED BY <1>2, <1>3, <1>4, <1>5

(* Only inline fields are optional, required ones are neither. *)
LEMMA FrequencyFacts ==
  ASSUME BreakTypeOK
  PROVE  \A f \in fields :
           /\ Optional(f) => Inline(f)
           /\ Required(f) => Inline(f) /\ f.freq = "required"
           /\ Inline(f) => Optional(f) \/ Required(f)
           /\ Optional(f) /\ f.freq = "required" => f \in loosened
  BY DEF BreakTypeOK, Fields, Frequencies, Optional, Required, Inline

LEMMA BreakInv ==
  ASSUME NEW v \in Msgs, NEW t \in Msgs
  PROVE  IInv /\ Break(v, t) => IInv'
<1> SUFFICES ASSUME IInv, Break(v, t) PROVE IInv'
  OBVIOUS
<1> DEFINE S == Slice(v, t)
           B == {f \in Within(S) : Optional(f)}
<1>1. /\ current = {v} /\ t \in pending
      /\ ~IsCycle(S, boxed \cup B)
      /\ boxed' = boxed \cup B
      /\ pending' = pending \ {t}
      /\ UNCHANGED <<phase, errorCycle, fields, comp, pos, visited, current>>
      /\ UNCHANGED <<loosened, reported>>
  BY DEF Break, BoxOptional
<1>2. BreakTypeOK
  BY DEF IInv
<1>3. B \subseteq {f \in Within(S) : Inline(f)} /\ B \subseteq fields
  BY <1>2, FrequencyFacts DEF Within
<1>4. \A f \in Within(S) : Inline(f) => f \in boxed \cup B
  BY <1>1 DEF IsCycle
<1>5. \A f \in B : f.freq = "required" => f \in loosened
  BY <1>2, FrequencyFacts DEF Within
<1> HIDE DEF B, S
<1>6. BreakTypeOK'
  BY <1>1, <1>2, <1>3 DEF BreakTypeOK, Places, Fields
<1>7. /\ (Placed /\ NotStarted /\ PendingAhead /\ BoxesInside /\ DoneIsAll)'
      /\ DecidedHoldsEarlierOnly'
  BY <1>1, <1>3, <1>4, BoxSlice DEF S
<1>8. (BoxedOrRequired /\ ErrorLoosensNothing /\ AcyclicSchemasAccepted)'
  BY <1>1, <1>5 DEF IInv, BoxedOrRequired, ErrorLoosensNothing,
                    AcyclicSchemasAccepted, HoldsCycle, ClosesOn
<1> QED BY <1>6, <1>7, <1>8 DEF IInv

LEMMA BreakRequiredInv ==
  ASSUME NEW v \in Msgs, NEW t \in Msgs
  PROVE  IInv /\ BreakRequired(v, t) => IInv'
<1> SUFFICES ASSUME IInv, BreakRequired(v, t) PROVE IInv'
  OBVIOUS
<1> DEFINE S == Slice(v, t)
           B == {f \in Within(S) : Optional(f)} \cup StillRequired(S)
<1>1. /\ current = {v} /\ t \in pending
      /\ ~errorCycle
      /\ boxed' = boxed \cup B
      /\ loosened' = loosened \cup StillRequired(S)
      /\ pending' = pending \ {t}
      /\ UNCHANGED <<phase, errorCycle, fields, comp, pos, visited, current>>
      /\ UNCHANGED reported
  BY DEF BreakRequired, BoxOptional
<1>2. BreakTypeOK
  BY DEF IInv
<1>3. B \subseteq {f \in Within(S) : Inline(f)} /\ B \subseteq fields
  BY <1>2, FrequencyFacts DEF Within, StillRequired
<1>4. \A f \in Within(S) : Inline(f) => f \in boxed \cup B
  BY <1>2, FrequencyFacts DEF Within, StillRequired
<1>5. /\ \A f \in B : f.freq = "required" => f \in loosened'
      /\ \A f \in StillRequired(S) : f \in B /\ f.freq = "required"
  BY <1>1, <1>2, FrequencyFacts DEF Within, StillRequired
<1> HIDE DEF B, S
<1>6. BreakTypeOK'
  BY <1>1, <1>2, <1>3, <1>5 DEF BreakTypeOK, Places, Fields
<1>7. /\ (Placed /\ NotStarted /\ PendingAhead /\ BoxesInside /\ DoneIsAll)'
      /\ DecidedHoldsEarlierOnly'
  BY <1>1, <1>3, <1>4, BoxSlice DEF S
<1>8. (BoxedOrRequired /\ ErrorLoosensNothing /\ AcyclicSchemasAccepted)'
  BY <1>1, <1>5 DEF IInv, BoxedOrRequired, ErrorLoosensNothing,
                    AcyclicSchemasAccepted, HoldsCycle, ClosesOn
<1> QED BY <1>6, <1>7, <1>8 DEF IInv

LEMMA FailInv ==
  ASSUME NEW v \in Msgs, NEW t \in Msgs
  PROVE  IInv /\ Fail(v, t) => IInv'
<1> SUFFICES ASSUME IInv, Fail(v, t) PROVE IInv'
  OBVIOUS
<1> DEFINE S == Slice(v, t)
           B == {f \in Within(S) : Optional(f)}
<1>1. /\ current = {v} /\ t \in pending
      /\ IsCycle(S, boxed \cup B)
      /\ phase' = "failed"
      /\ boxed' = boxed \cup B
      /\ reported' = S
      /\ pending' = {}
      /\ UNCHANGED <<errorCycle, fields, loosened, comp, pos, visited, current>>
  BY DEF Fail, BoxOptional
<1>2. BreakTypeOK
  BY DEF IInv
<1>3. /\ \A m \in S : m \in Msgs /\ comp[m] = comp[v]
      /\ phase # "start"
  BY <1>1, PendingSlice
<1>4. \A f \in B : f \in fields /\ Inline(f) /\ f.from \in S /\ f.to \in S
  BY <1>2, FrequencyFacts DEF Within
<1>5. \A f \in B : f.freq = "required" => f \in loosened
  BY <1>2, FrequencyFacts DEF Within
<1>6. HoldsCycle(Msgs, fields)
  <2>1. PICK f \in fields : f.from \in S /\ f.to \in S
    BY <1>1 DEF IsCycle, Within
  <2>2. Embeds(f.to, f.from)
    BY <1>3, <2>1 DEF IInv, Placed, AreComponents
  <2> QED BY <1>2, <2>2, FieldOnCycle
<1> HIDE DEF B, S
<1>7. BreakTypeOK'
  BY <1>1, <1>2, <1>3, <1>4 DEF BreakTypeOK, Places, Fields
<1>8. Placed'
  BY <1>1, <1>3, PlacedStable DEF IInv
<1>9. (NotStarted /\ PendingAhead /\ DoneIsAll /\ DecidedHoldsEarlierOnly)'
  BY <1>1 DEF NotStarted, PendingAhead, DoneIsAll, DecidedHoldsEarlierOnly
<1>10. BoxesInside'
  BY <1>1, <1>3, <1>4 DEF IInv, BoxesInside, Inline
<1>11. (BoxedOrRequired /\ ErrorLoosensNothing)'
  BY <1>1, <1>5 DEF IInv, BoxedOrRequired, ErrorLoosensNothing
<1>12. AcyclicSchemasAccepted'
  BY <1>1, <1>6 DEF AcyclicSchemasAccepted, HoldsCycle, ClosesOn
<1> QED BY <1>7, <1>8, <1>9, <1>10, <1>11, <1>12 DEF IInv

LEMMA FinishInv == IInv /\ Finish => IInv'
<1> SUFFICES ASSUME IInv, Finish PROVE IInv'
  OBVIOUS
<1> USE DEF Finish
<1>1. BreakTypeOK'
  BY DEF IInv, BreakTypeOK
<1>2. Placed'
  BY PlacedStable DEF IInv
<1>3. (NotStarted /\ PendingAhead /\ DoneIsAll)'
  BY DEF IInv, NotStarted, PendingAhead, DoneIsAll
<1>4. (BoxesInside /\ BoxedOrRequired /\ ErrorLoosensNothing)'
  BY DEF IInv, BoxesInside, BoxedOrRequired, ErrorLoosensNothing
<1>5. (DecidedHoldsEarlierOnly /\ AcyclicSchemasAccepted)'
  BY DEF IInv, DecidedHoldsEarlierOnly, StillInline, InlineFields, Precedes,
         AcyclicSchemasAccepted
<1> QED BY <1>1, <1>2, <1>3, <1>4, <1>5 DEF IInv

LEMMA StutterInv == IInv /\ UNCHANGED breakVars => IInv'
  BY DEF breakVars, IInv, BreakTypeOK, Placed, AreComponents, ArePositions,
         Embeds, InlineFields, NotStarted, PendingAhead, BoxesInside,
         BoxedOrRequired, ErrorLoosensNothing, DoneIsAll,
         DecidedHoldsEarlierOnly, StillInline, Precedes,
         AcyclicSchemasAccepted, HoldsCycle, ClosesOn

LEMMA NextInv == IInv /\ [BreakNext]_breakVars => IInv'
<1> SUFFICES ASSUME IInv, [BreakNext]_breakVars PROVE IInv'
  OBVIOUS
<1>1. CASE ComputeSccs
  BY <1>1, ComputeSccsInv
<1>2. CASE \E v \in Msgs : Visit(v)
  BY <1>2, VisitInv
<1>3. CASE \E v, t \in Msgs : Break(v, t)
  BY <1>3, BreakInv
<1>4. CASE \E v, t \in Msgs : BreakRequired(v, t)
  BY <1>4, BreakRequiredInv
<1>5. CASE \E v, t \in Msgs : Fail(v, t)
  BY <1>5, FailInv
<1>6. CASE Finish
  BY <1>6, FinishInv
<1>7. CASE UNCHANGED breakVars
  BY <1>7, StutterInv
<1> QED BY <1>1, <1>2, <1>3, <1>4, <1>5, <1>6, <1>7 DEF BreakNext

LEMMA Inductive == BreakSpec => []IInv
  BY InitInv, NextInv, PTL DEF BreakSpec

----------------------------------------------------------------------------
(* Natural numbers have a least one in every set; so have places. *)

LEMMA LeastNatural ==
  ASSUME NEW T \in SUBSET Nat, T # {}
  PROVE  \E x \in T : \A y \in T : x <= y
<1> DEFINE R == {ss \in Nat \X Nat : ss[1] < ss[2]}
<1>1. IsWellFoundedOn(R, Nat)
  BY NatLessThanWellFounded, Zenon DEF OpToRel
<1> HIDE DEF R
<1>2. PICK x \in T : \A y \in T : ~(<<y, x>> \in R)
  BY <1>1, WFMin, Zenon
<1>3. \A y \in T : x <= y
  <2> TAKE y \in T
  <2>1. ~(y < x)
    BY <1>2 DEF R
  <2>2. x \in Nat /\ y \in Nat
    OBVIOUS
  <2> QED BY <2>1, <2>2
<1> QED BY <1>3

LEMMA FirstPlace ==
  ASSUME BreakTypeOK, NEW T \in SUBSET Msgs, T # {}
  PROVE  \E m \in T : \A n \in T : ~Precedes(n, m)
<1>1. \A m \in T : comp[m] \in Nat /\ pos[m] \in Nat
  BY PlaceTypes DEF BreakTypeOK
<1> DEFINE Cs == {comp[m] : m \in T}
<1>2. PICK c \in Cs : \A d \in Cs : c <= d
  <2>1. Cs \in SUBSET Nat /\ Cs # {}
    BY <1>1
  <2> QED BY <2>1, LeastNatural
<1> DEFINE Ps == {pos[m] : m \in {n \in T : comp[n] = c}}
<1>3. PICK p \in Ps : \A q \in Ps : p <= q
  <2>1. Ps \in SUBSET Nat /\ Ps # {}
    BY <1>1
  <2> QED BY <2>1, LeastNatural
<1>4. PICK m \in T : comp[m] = c /\ pos[m] = p
  OBVIOUS
<1>5. ASSUME NEW n \in T
      PROVE  ~Precedes(n, m)
  <2>1. comp[m] <= comp[n]
    BY <1>2, <1>4
  <2>2. comp[n] = comp[m] => pos[m] <= pos[n]
    BY <1>3, <1>4
  <2> QED BY <1>1, <1>4, <2>1, <2>2 DEF Precedes
<1> QED BY <1>5

----------------------------------------------------------------------------
(* The results. *)

(* The variables of break_cycles keep their types; in particular only      *)
(* required fields are loosened, and never without a box.                  *)
THEOREM BoxingTypeCorrect == BreakSpec => []BreakTypeOK
<1>1. IInv => BreakTypeOK
  BY DEF IInv
<1> QED BY Inductive, <1>1, PTL

(* What a decided message still holds inline: a message whose turn in the  *)
(* loops of break_cycles is over holds only earlier ones, in the order of  *)
(* the loops.                                                              *)
THEOREM DecidedInOrder == BreakSpec => []DecidedHoldsEarlierOnly
<1>1. IInv => DecidedHoldsEarlierOnly
  BY DEF IInv
<1> QED BY Inductive, <1>1, PTL

LEMMA InvSized == IInv => Sized
<1> SUFFICES ASSUME IInv, phase = "done",
                    NEW T \in SUBSET Msgs, T # {}, ClosesOn(T, StillInline)
             PROVE  FALSE
  BY DEF Sized, HoldsCycle
<1>1. BreakTypeOK /\ visited = Msgs /\ pending = {}
  BY DEF IInv, DoneIsAll
<1>2. \A f \in StillInline : f.from \in Msgs
  BY <1>1 DEF BreakTypeOK, StillInline, InlineFields, Fields
<1>3. \A f \in StillInline : Precedes(f.to, f.from)
  BY <1>1, <1>2 DEF IInv, DecidedHoldsEarlierOnly
<1>4. PICK m \in T : \A n \in T : ~Precedes(n, m)
  BY <1>1, FirstPlace
<1>5. PICK f \in StillInline : f.from = m /\ f.to \in T
  BY DEF ClosesOn
<1> QED BY <1>3, <1>4, <1>5

(* When break_cycles succeeds every generated struct has a size: no set of *)
(* messages embeds itself through fields left unboxed.                     *)
THEOREM GeneratedStructsAreSized == BreakSpec => []Sized
  BY Inductive, InvSized, PTL

(* With --error-cycle a schema is never accepted whose required fields     *)
(* embed a message in itself.                                              *)
THEOREM InfiniteSchemasFail == BreakSpec => []InfiniteSchemasRejected
<1>1. IInv => InfiniteSchemasRejected
  <2> SUFFICES ASSUME IInv, errorCycle, phase = "done"
               PROVE  ~HoldsCycle(Msgs, RequiredFields(fields))
    BY DEF InfiniteSchemasRejected
  <2>1. RequiredFields(fields) \subseteq StillInline
    BY DEF IInv, ErrorLoosensNothing, BoxedOrRequired, RequiredFields,
           StillInline, InlineFields, Inline
  <2>2. ~HoldsCycle(Msgs, StillInline)
    BY InvSized DEF Sized
  <2> QED BY <2>1, <2>2 DEF HoldsCycle, ClosesOn
<1> QED BY Inductive, <1>1, PTL

(* Error::Cycle is only raised for a schema in which some message contains *)
(* itself, be it through repeated fields.                                  *)
THEOREM AcyclicAccepted == BreakSpec => []AcyclicSchemasAccepted
<1>1. IInv => AcyclicSchemasAccepted
  BY DEF IInv
<1> QED BY Inductive, <1>1, PTL

(* A field is boxed only if it lies on a cycle of inline fields.           *)
THEOREM BoxesOnCyclesOnly == BreakSpec => []OnlyCyclesAreBoxed
<1>1. IInv => OnlyCyclesAreBoxed
  <2> SUFFICES ASSUME IInv, NEW f \in boxed
               PROVE  OnCycle(f)
    BY DEF OnlyCyclesAreBoxed
  <2>1. Inline(f) /\ comp[f.from] = comp[f.to]
    BY DEF IInv, BoxesInside
  <2>2. f.from \in Msgs /\ f.to \in Msgs
    BY DEF IInv, BreakTypeOK, Fields
  <2>3. phase # "start"
    BY DEF IInv, NotStarted
  <2> QED BY <2>1, <2>2, <2>3 DEF IInv, Placed, AreComponents, OnCycle
<1> QED BY Inductive, <1>1, PTL

(* Boxes are never taken away, and while a message is visited they are     *)
(* only put inside its component.                                          *)
THEOREM ComponentsIndependent == BreakSpec => BoxesStayInComponent
<1> DEFINE A == /\ boxed \subseteq boxed'
                /\ \A f \in boxed' \ boxed, v \in current :
                     comp[f.from] = comp[v] /\ comp[f.to] = comp[v]
<1>1. IInv /\ [BreakNext]_breakVars => [A]_breakVars
  <2> SUFFICES ASSUME IInv, BreakNext PROVE A
    OBVIOUS
  <2>1. CASE ComputeSccs \/ Finish \/ \E v \in Msgs : Visit(v)
    BY <2>1 DEF ComputeSccs, Finish, Visit
  <2>2. ASSUME NEW v \in Msgs, NEW t \in Msgs,
               Break(v, t) \/ BreakRequired(v, t) \/ Fail(v, t)
        PROVE  A
    <3>1. /\ current = {v} /\ t \in pending
          /\ boxed \subseteq boxed'
          /\ \A f \in boxed' \ boxed : f \in Within(Slice(v, t))
      BY <2>2 DEF Break, BreakRequired, Fail, BoxOptional, StillRequired
    <3>2. \A m \in Slice(v, t) : comp[m] = comp[v]
      BY DEF Slice
    <3> QED BY <3>1, <3>2 DEF Within
  <2> QED BY <2>1, <2>2 DEF BreakNext
<1>2. BreakSpec => [][BreakNext]_breakVars
  BY PTL DEF BreakSpec
<1>3. BreakSpec => [][A]_breakVars
  BY Inductive, <1>1, <1>2, PTL
<1> QED BY <1>3 DEF BoxesStayInComponent

----------------------------------------------------------------------------
(* The parser: what its events tell of the statements of a body.  What is  *)
(* said of blocks at every depth is said of a relation that leads from     *)
(* block to block: no recursion is needed to state it, nor to keep it.     *)

Telling == Named \cup {"reserved", "syntax"}

AreFields(S, body) ==
  \A f \in ToSet(body) : f.k = "field" => \E g \in S : g.number = f.number /\ g.name = f.name

IsMessage(m, body) ==
  /\ \A f \in FieldStatements(body) : \E g \in AllFields(m) : g.number = f.number /\ g.name = f.name
  /\ \A r \in ToSet(body) :
       r.k = "reserved" /\ AtMostOne(body, r.form) =>
         IF r.form = "nums" THEN m.reserved_nums = r.nums ELSE m.reserved_names = r.names

\* What the sanity checks ask of the event e of a statement s.
TellsReserved(e, s) ==
  /\ s.k = "field" => e.k = "field" /\ e.number = s.number /\ e.name = s.name
  /\ s.k = "oneof" => e.k = "oneof" /\ AreFields(e.fields, s.body)
  /\ s.k = "message" => e.k = "message" /\ IsMessage(e, s.body)
  /\ s.k = "reserved" => \/ s.form = "nums" /\ e.k = "reserved_nums" /\ e.said = s.nums
                         \/ s.form = "names" /\ e.k = "reserved_names" /\ e.said = s.names
  /\ e.k \in {"reserved_nums", "reserved_names"} => s.k = "reserved"

\* Nodes and statements are the same but for what the relation R leads to.
Alike(R, nodes, S) ==
  /\ \A s \in S : s.k \in Named => \E e \in nodes : Keeps(e, s) /\ (IsBlock(s) => <<e, s>> \in R)
  /\ \A e \in nodes : \E s \in S : ComesOf(e, s) /\ (IsBlock(e) => <<e, s>> \in R)

\* R relates blocks that are the same, at every depth.
Faithful(R) ==
  \A p \in R : /\ IsBlock(p[1]) /\ IsBlock(p[2]) /\ p[1].name = p[2].name
               /\ Alike(R, Inside(p[1]), ToSet(p[2].body))

TellsAll(e, s) ==
  /\ s.k = "syntax" => e.k = "syntax" /\ e.said = s.says
  /\ e.k = "syntax" => s.k = "syntax"
  /\ s.k \in Named => Keeps(e, s)
  /\ e.k \in Named => ComesOf(e, s)
  /\ IsBlock(e) \/ IsBlock(s) => \E R : Faithful(R) /\ <<e, s>> \in R

\* Event e is what statement s stands for.
Tells(e, s) == TellsReserved(e, s) /\ TellsAll(e, s)

\* The events of the first n statements of a body.
HeardOf(events, body, n) ==
  /\ \A j \in 1 .. n : body[j].k \in Telling => \E i \in DOMAIN events : Tells(events[i], body[j])
  /\ \A i \in DOMAIN events : \E j \in 1 .. n : Tells(events[i], body[j])

\* The fields in S, and in the blocks in S at every depth, have one syntax.
Settled(S, syntax) ==
  \A e \in S : /\ e.k = "field" => e.frequency[1] = syntax
               /\ IsBlock(e) => Inside(e) \subseteq S

\* The events that the body of a block, or a file, can have.
KindsOf(kind) ==
  CASE kind = "file" -> {"syntax", "package", "import", "message", "enum", "service", "extend"}
    [] kind = "message" ->
         {"field", "message", "enum", "oneof", "reserved_nums", "reserved_names", "extensions"}
    [] kind = "enum" -> {"value"}
    [] kind = "service" -> {"rpc"}
    [] kind \in {"oneof", "extend"} -> {"field"}

AreEvents(events, kind, syntax) ==
  /\ \E A : events \in Seq(A)
  /\ \A i \in DOMAIN events : events[i].k \in KindsOf(kind)
  /\ \E S : Settled(S, syntax) /\ \A i \in DOMAIN events : events[i] \in S

LEMMA HeardNothing ==
  ASSUME NEW body
  PROVE  HeardOf(<<>>, body, 0)
<1>1. 1 .. 0 = {} /\ DOMAIN <<>> = {}
  OBVIOUS
<1> QED BY <1>1 DEF HeardOf

\* Statements that tell nothing, like what is skipped after a block.
LEMMA HeardOn ==
  ASSUME NEW events, NEW body, NEW n \in Nat, NEW m \in Nat, n <= m, HeardOf(events, body, n),
         \A j \in n + 1 .. m : body[j].k \notin Telling
  PROVE  HeardOf(events, body, m)
<1>1. \A j \in 1 .. n : j \in 1 .. m
  OBVIOUS
<1>2. \A j \in 1 .. m : j \in 1 .. n \/ j \in n + 1 .. m
  OBVIOUS
<1> QED BY <1>1, <1>2 DEF HeardOf

LEMMA HeardMore ==
  ASSUME NEW A, NEW events \in Seq(A), NEW body, NEW n \in Nat, HeardOf(events, body, n),
         NEW e, Tells(e, body[n + 1])
  PROVE  HeardOf(Append(events, e), body, n + 1)
<1> DEFINE more == Append(events, e)
<1>1. /\ DOMAIN more = DOMAIN events \cup {Len(events) + 1}
      /\ \A i \in DOMAIN events : more[i] = events[i]
      /\ more[Len(events) + 1] = e
  OBVIOUS
<1> HIDE DEF more
<1>2. ASSUME NEW j \in 1 .. n + 1, body[j].k \in Telling
      PROVE  \E i \in DOMAIN more : Tells(more[i], body[j])
  <2>1. CASE j = n + 1
    BY <1>1, <2>1
  <2>2. CASE j \in 1 .. n
    <3>1. PICK i \in DOMAIN events : Tells(events[i], body[j])
      BY <1>2, <2>2 DEF HeardOf
    <3> QED BY <1>1, <3>1
  <2> QED BY <2>1, <2>2
<1>3. ASSUME NEW i \in DOMAIN more
      PROVE  \E j \in 1 .. n + 1 : Tells(more[i], body[j])
  <2>1. CASE i = Len(events) + 1
    <3>1. n + 1 \in 1 .. n + 1
      OBVIOUS
    <3> QED BY <1>1, <2>1, <3>1
  <2>2. CASE i \in DOMAIN events
    <3>1. PICK j \in 1 .. n : Tells(events[i], body[j])
      BY <1>1, <1>3, <2>2 DEF HeardOf
    <3>2. j \in 1 .. n + 1
      OBVIOUS
    <3> QED BY <1>1, <2>2, <3>1, <3>2
  <2> QED BY <1>1, <2>1, <2>2
<1>4. HeardOf(more, body, n + 1)
  BY <1>2, <1>3 DEF HeardOf
<1> QED BY <1>4 DEF more

LEMMA BothSettled ==
  ASSUME NEW S, NEW T, NEW syntax, Settled(S, syntax), Settled(T, syntax)
  PROVE  Settled(S \cup T, syntax)
BY DEF Settled

LEMMA MoreEvents ==
  ASSUME NEW events, NEW kind, NEW syntax, AreEvents(events, kind, syntax),
         NEW e, e.k \in KindsOf(kind), NEW T, Settled(T, syntax), e \in T
  PROVE  AreEvents(Append(events, e), kind, syntax)
<1>1. PICK A : events \in Seq(A)
  BY DEF AreEvents
<1>2. PICK S : Settled(S, syntax) /\ \A i \in DOMAIN events : events[i] \in S
  BY DEF AreEvents
<1> DEFINE more == Append(events, e)
<1>3. /\ more \in Seq(A \cup {e})
      /\ DOMAIN more = DOMAIN events \cup {Len(events) + 1}
      /\ \A i \in DOMAIN events : more[i] = events[i]
      /\ more[Len(events) + 1] = e
  BY <1>1
<1> HIDE DEF more
<1>4. \A i \in DOMAIN more : more[i].k \in KindsOf(kind) /\ more[i] \in S \cup T
  BY <1>2, <1>3 DEF AreEvents
<1>5. Settled(S \cup T, syntax)
  BY <1>2, BothSettled
<1>6. AreEvents(more, kind, syntax)
  BY <1>3, <1>4, <1>5 DEF AreEvents
<1> QED BY <1>6 DEF more

\* What a field keeps of its only option.
LEMMA SaidAlone ==
  ASSUME NEW f, f.options \in Seq(Options), Len(f.options) <= 1, NEW key
  PROVE  ValueOf(f, key) = Said(f, key)
<1>0. PICK options : options = f.options /\ options \in Seq(Options) /\ Len(options) <= 1
  OBVIOUS
<1> DEFINE S == { o \in ToSet(options) : o.key = key }
<1>1. CASE options = <<>>
  <2>1. ToSet(options) = {}
    BY <1>1 DEF ToSet
  <2>2. S = {}
    BY <2>1
  <2>3. Said(f, key) = "none"
    BY <1>0, <2>2 DEF Said
  <2> QED BY <1>0, <1>1, <2>3 DEF ValueOf, KeyVal
<1>2. CASE options # <<>>
  <2>1. Len(options) = 1
    <3>1. Len(options) \in Nat /\ Len(options) # 0
      BY <1>0, <1>2
    <3>2. \A n \in Nat : n # 0 /\ n <= 1 => n = 1
      OBVIOUS
    <3>3. Len(options) <= 1
      BY <1>0
    <3> QED BY <3>1, <3>2, <3>3, Zenon
  <2>2. PICK o : o = options[1]
    OBVIOUS
  <2>3. DOMAIN options = {1} /\ Head(options) = o
    BY <1>0, <2>1, <2>2
  <2>4. ToSet(options) = {o}
    BY <2>2, <2>3 DEF ToSet
  <2>5. KeyVal(f).key = o.key /\ KeyVal(f).value = o.value
    BY <1>0, <1>2, <2>1, <2>3 DEF KeyVal
  <2>6. CASE o.key = key
    <3>1. S = {o}
      BY <2>4, <2>6
    <3>2. (CHOOSE x \in S : TRUE) = o
      BY <3>1
    <3>3. Said(f, key) = o.value
      BY <1>0, <3>1, <3>2 DEF Said
    <3> QED BY <2>5, <2>6, <3>3 DEF ValueOf
  <2>7. CASE o.key # key
    <3>1. S = {}
      BY <2>4, <2>7
    <3>2. Said(f, key) = "none"
      BY <1>0, <3>1 DEF Said
    <3> QED BY <2>5, <2>7, <3>2 DEF ValueOf
  <2> QED BY <2>6, <2>7
<1> QED BY <1>1, <1>2

LEMMA FieldTells ==
  ASSUME NEW kind, NEW syntax, NEW s, s.k \in {"field", "option"},
         s.k = "field" => s.options \in Seq(Options),
         NEW e \in {FieldOf(kind, syntax, AsField(s))}
  PROVE  Tells(e, s) /\ e.k = "field" /\ e.frequency[1] = syntax
<1>1. PICK f : f = AsField(s)
  OBVIOUS
<1>2. /\ e.k = "field" /\ e.number = f.number /\ e.name = f.name
      /\ e.default = ValueOf(f, "default")
      /\ e.packed = ValueOf(f, "packed")
      /\ e.deprecated = ValueOf(f, "deprecated")
  BY <1>1 DEF FieldOf
<1>3. e.frequency[1] = syntax
  <2>1. e.frequency = IF kind = "oneof" THEN OneOfFrequency(syntax) ELSE <<syntax, Frequency(syntax, f)>>
    BY <1>1 DEF FieldOf
  <2> QED BY <2>1 DEF OneOfFrequency
<1>4. f.name = s.name /\ (s.k = "field" => f = s)
  BY <1>1 DEF AsField
<1>5. TellsReserved(e, s)
  BY <1>2, <1>4 DEF TellsReserved
<1>6. ~IsBlock(e) /\ ~IsBlock(s)
  BY <1>2 DEF IsBlock, Blocks
<1>7. ComesOf(e, s)
  BY <1>2, <1>4 DEF ComesOf
<1>8. s.k \in Named => Keeps(e, s)
  <2>1. SUFFICES ASSUME s.k = "field"
                 PROVE  Keeps(e, s)
    BY DEF Named, Blocks
  <2>2. ASSUME Len(s.options) <= 1
        PROVE  /\ e.packed = Said(s, "packed")
               /\ e.deprecated = Said(s, "deprecated")
               /\ e.default = Said(s, "default")
    <3>1. f = s /\ s.options \in Seq(Options)
      BY <1>4, <2>1
    <3>2. ValueOf(s, "packed") = Said(s, "packed")
      BY <2>2, <3>1, SaidAlone
    <3>3. ValueOf(s, "deprecated") = Said(s, "deprecated")
      BY <2>2, <3>1, SaidAlone
    <3>4. ValueOf(s, "default") = Said(s, "default")
      BY <2>2, <3>1, SaidAlone
    <3> QED BY <1>2, <3>1, <3>2, <3>3, <3>4
  <2> QED BY <1>2, <1>4, <2>1, <2>2 DEF Keeps
<1>9. TellsAll(e, s)
  BY <1>2, <1>6, <1>7, <1>8 DEF TellsAll
<1> QED BY <1>2, <1>3, <1>5, <1>9 DEF Tells

\* An event that is no block and has what is asked of it.
LEMMA PlainTells ==
  ASSUME NEW e, NEW s, s.k \notin Blocks \cup {"field"}, e.k \notin Blocks \cup {"field"},
         TellsReserved(e, s),
         s.k = "syntax" => e.k = "syntax" /\ e.said = s.says,
         e.k = "syntax" => s.k = "syntax",
         s.k \in {"value", "rpc", "import"} \/ e.k \in {"value", "rpc", "import"}
           => e.k = s.k /\ e.name = s.name
  PROVE  Tells(e, s)
BY DEF Tells, TellsAll, Named, Keeps, ComesOf, IsBlock

\* A statement that is taken tells nothing, or leaves an event that tells it.
LEMMA TakenTells ==
  ASSUME NEW kind \in Blocks \cup {"file"}, NEW syntax, NEW s \in Statements,
         Accepts(kind, syntax, s), ~IsBlock(s)
  PROVE  \/ EventOf(kind, syntax, s) = <<>> /\ s.k \notin Telling
         \/ \E e : /\ EventOf(kind, syntax, s) = <<e>> /\ Tells(e, s) /\ ~IsBlock(e)
                   /\ e.k \in KindsOf(kind) /\ (e.k = "field" => e.frequency[1] = syntax)
<1>1. s.k \notin {"message", "oneof", "enum", "extend", "service"}
  BY DEF IsBlock, Blocks
<1>2. /\ kind = "file" => s.k \in {"syntax", "package", "import", "option", "br"}
      /\ kind = "message" => s.k \in {"reserved", "field", "extensions", "option", "br"}
      /\ kind = "enum" => s.k \in {"value", "option", "br"}
      /\ kind = "service" => s.k \in {"rpc", "br"}
      /\ kind \in {"oneof", "extend"} => s.k \in {"field", "option", "br"}
      /\ s.k = "reserved" => s.form \in {"nums", "names"}
  BY <1>1 DEF Accepts, FileEvent, MessageEvent, EnumEvent, RpcEvent, FieldEvent, IsField, IsReserved,
     IsExtensions, IsOption, IsImport, IsRpc, IsEnumField, IsBr, LooksLikeField, Blocks
<1>3. kind \in {"file", "message", "enum", "service", "oneof", "extend"}
  BY DEF Blocks
<1>4. CASE TakenForField(kind, s)
  <2>1. PICK e \in {FieldOf(kind, syntax, AsField(s))} : TRUE
    OBVIOUS
  <2>2. EventOf(kind, syntax, s) = <<e>>
    BY <1>4, <2>1 DEF EventOf, TakenForField, LooksLikeField
  <2>3. s.k \in {"field", "option"}
    BY <1>4 DEF TakenForField, LooksLikeField
  <2>4. s.k = "field" => s.options \in Seq(Options)
    BY ParserAssumption
  <2>5. Tells(e, s) /\ e.k = "field" /\ e.frequency[1] = syntax
    BY <2>1, <2>3, <2>4, FieldTells
  <2>6. kind \in {"message", "oneof", "extend"}
    BY <1>2, <1>3, <1>4, <2>3 DEF TakenForField
  <2>7. "field" \in KindsOf(kind)
    BY <2>6 DEF KindsOf
  <2> QED BY <2>2, <2>5, <2>7 DEF IsBlock, Blocks
<1>5. CASE ~TakenForField(kind, s)
  <2>1. s.k # "field"
    BY <1>5 DEF TakenForField
  <2>2. s.k \notin Blocks \cup {"field"}
    BY <1>1, <2>1 DEF Blocks
  <2>3. CASE s.k = "reserved"
    <3>1. kind = "message" /\ s.form \in {"nums", "names"}
      BY <1>2, <1>3, <2>3
    <3>2. PICK e : e = [k |-> IF s.form = "nums" THEN "reserved_nums" ELSE "reserved_names",
                        said |-> IF s.form = "nums" THEN s.nums ELSE s.names]
      OBVIOUS
    <3>3. /\ e.k = IF s.form = "nums" THEN "reserved_nums" ELSE "reserved_names"
          /\ e.said = IF s.form = "nums" THEN s.nums ELSE s.names
      BY <3>2
    <3>4. EventOf(kind, syntax, s) = <<e>>
      BY <1>5, <2>3, <3>1, <3>2 DEF EventOf
    <3>5. e.k \in {"reserved_nums", "reserved_names"}
      BY <3>3
    <3>6. TellsReserved(e, s)
      BY <2>3, <3>1, <3>3 DEF TellsReserved
    <3>7. Tells(e, s)
      BY <2>2, <2>3, <3>5, <3>6, PlainTells DEF Blocks
    <3>8. e.k \in KindsOf(kind)
      BY <3>1, <3>5 DEF KindsOf
    <3> QED BY <3>4, <3>5, <3>7, <3>8 DEF IsBlock, Blocks
  <2>4. CASE s.k = "extensions"
    <3>1. PICK e : e = [k |-> "extensions", said |-> s.range]
      OBVIOUS
    <3>2. e.k = "extensions"
      BY <3>1
    <3>3. EventOf(kind, syntax, s) = <<e>>
      BY <1>5, <2>4, <3>1 DEF EventOf
    <3>4. TellsReserved(e, s)
      BY <2>4, <3>2 DEF TellsReserved
    <3>5. Tells(e, s)
      BY <2>2, <2>4, <3>2, <3>4, PlainTells DEF Blocks
    <3>6. e.k \in KindsOf(kind)
      BY <1>2, <1>3, <2>4, <3>2 DEF KindsOf
    <3> QED BY <3>2, <3>3, <3>5, <3>6 DEF IsBlock, Blocks
  <2>5. CASE s.k \in {"value", "rpc", "import"}
    <3>1. PICK e : e = [k |-> s.k, name |-> s.name]
      OBVIOUS
    <3>2. e.k = s.k /\ e.name = s.name
      BY <3>1
    <3>3. EventOf(kind, syntax, s) = <<e>>
      BY <1>5, <2>5, <3>1 DEF EventOf
    <3>4. TellsReserved(e, s)
      BY <2>5, <3>2 DEF TellsReserved
    <3>5. Tells(e, s)
      BY <2>2, <2>5, <3>2, <3>4, PlainTells DEF Blocks
    <3>6. e.k \in KindsOf(kind)
      BY <1>2, <1>3, <2>5, <3>2 DEF KindsOf
    <3> QED BY <2>2, <3>2, <3>3, <3>5, <3>6 DEF IsBlock, Blocks
  <2>6. CASE s.k \in {"syntax", "package"}
    <3>1. PICK e : e = [k |-> s.k, said |-> s.says]
      OBVIOUS
    <3>2. e.k = s.k /\ e.said = s.says
      BY <3>1
    <3>3. EventOf(kind, syntax, s) = <<e>>
      BY <1>5, <2>6, <3>1 DEF EventOf
    <3>4. TellsReserved(e, s)
      BY <2>6, <3>2 DEF TellsReserved
    <3>5. Tells(e, s)
      BY <2>2, <2>6, <3>2, <3>4, PlainTells DEF Blocks
    <3>6. e.k \in KindsOf(kind)
      BY <1>2, <1>3, <2>6, <3>2 DEF KindsOf
    <3> QED BY <2>2, <3>2, <3>3, <3>5, <3>6 DEF IsBlock, Blocks
  <2>7. CASE s.k \in {"option", "br"}
    <3>1. EventOf(kind, syntax, s) = <<>>
      BY <1>5, <2>7 DEF EventOf
    <3> QED BY <2>7, <3>1 DEF Telling, Named, Blocks
  <2> QED BY <1>2, <1>3, <2>1, <2>3, <2>4, <2>5, <2>6, <2>7
<1> QED BY <1>4, <1>5

----------------------------------------------------------------------------
(* A block at its closing brace.                                           *)

LEMMA MaxIsIn ==
  ASSUME NEW n \in Nat, NEW S \in SUBSET (1 .. n), S # {}
  PROVE  Max(S) \in S
<1> DEFINE T == {n - x : x \in S}
<1>1. T \in SUBSET Nat /\ T # {}
  <2>1. \A x \in S : x \in 1 .. n /\ n - x \in Nat
    OBVIOUS
  <2>2. PICK x \in S : TRUE
    OBVIOUS
  <2>3. n - x \in T
    OBVIOUS
  <2> QED BY <2>1, <2>3
<1>2. PICK t \in T : \A u \in T : t <= u
  BY <1>1, LeastNatural
<1>3. PICK m \in S : t = n - m
  OBVIOUS
<1>4. \A x \in S : n - m <= n - x
  BY <1>2, <1>3
<1>5. \A x \in S : m >= x
  BY <1>4
<1> QED BY <1>5, Zenon DEF Max

LEMMA BodyHeard ==
  ASSUME NEW body \in Seq(Statements), NEW events, HeardOf(events, body, Len(body)),
         NEW s \in ToSet(body), s.k \in Telling
  PROVE  \E i \in DOMAIN events : Tells(events[i], s)
<1>1. PICK j \in 1 .. Len(body) : body[j] = s
  BY DEF ToSet
<1> QED BY <1>1 DEF HeardOf

\* Of a reserved statement that is alone of its form, the message keeps what
\* it says.
LEMMA ReservedKept ==
  ASSUME NEW body \in Seq(Statements), NEW A, NEW events \in Seq(A), HeardOf(events, body, Len(body)),
         NEW r \in ToSet(body), r.k = "reserved", AtMostOne(body, r.form), NEW none
  PROVE  IF r.form = "nums" THEN LastOf(events, "reserved_nums", none) = r.nums
         ELSE LastOf(events, "reserved_names", none) = r.names
<1>1. PICK j \in 1 .. Len(body) : body[j] = r
  BY DEF ToSet
<1>2. PICK i \in DOMAIN events : Tells(events[i], r)
  BY BodyHeard DEF Telling, Named, Blocks
<1>3. PICK kind : kind = events[i].k
  OBVIOUS
<1>4. /\ \/ r.form = "nums" /\ kind = "reserved_nums"
         \/ r.form = "names" /\ kind = "reserved_names"
  BY <1>2, <1>3 DEF Tells, TellsReserved
<1> DEFINE at == {p \in DOMAIN events : events[p].k = kind}
<1>5. i \in at
  BY <1>3
<1>6. at \in SUBSET (1 .. Len(events)) /\ at # {} /\ Len(events) \in Nat
  BY <1>5
<1>7. Max(at) \in at
  BY <1>6, MaxIsIn
<1>8. PICK p \in at : p = Max(at)
  BY <1>7
<1>9. LastOf(events, kind, none) = events[p].said
  BY <1>6, <1>8 DEF LastOf
<1>10. PICK q \in 1 .. Len(body) : Tells(events[p], body[q])
  BY <1>4 DEF HeardOf
<1>11. events[p].k = kind
  OBVIOUS
<1>12. body[q].k = "reserved" /\ body[q].form = r.form
       /\ events[p].said = IF r.form = "nums" THEN body[q].nums ELSE body[q].names
  BY <1>4, <1>10, <1>11 DEF Tells, TellsReserved
<1>13. q = j
  BY <1>1, <1>12 DEF AtMostOne
<1> QED BY <1>1, <1>4, <1>9, <1>12, <1>13

LEMMA MessageHeard ==
  ASSUME NEW body \in Seq(Statements), NEW A, NEW events \in Seq(A), HeardOf(events, body, Len(body)),
         NEW name
  PROVE  MessageOf(name, events).k = "message" /\ IsMessage(MessageOf(name, events), body)
<1>1. PICK m : m = MessageOf(name, events)
  OBVIOUS
<1>2. /\ m.k = "message" /\ m.fields = EventsOf(events, "field") /\ m.oneofs = EventsOf(events, "oneof")
      /\ m.reserved_nums = LastOf(events, "reserved_nums", {})
      /\ m.reserved_names = LastOf(events, "reserved_names", {})
  BY <1>1 DEF MessageOf
<1>3. ASSUME NEW f \in FieldStatements(body)
      PROVE  \E g \in AllFields(m) : g.number = f.number /\ g.name = f.name
  <2>1. f.k = "field"
    BY DEF FieldStatements
  <2>2. CASE f \in ToSet(body)
    <3>1. PICK i \in DOMAIN events : Tells(events[i], f)
      BY <2>1, <2>2, BodyHeard DEF Telling, Named, Blocks
    <3>2. events[i].k = "field" /\ events[i].number = f.number /\ events[i].name = f.name
      BY <2>1, <3>1 DEF Tells, TellsReserved
    <3>3. events[i] \in AllFields(m)
      BY <1>2, <3>2 DEF AllFields, EventsOf
    <3> QED BY <3>2, <3>3
  <2>3. CASE f \notin ToSet(body)
    <3>1. PICK o \in ToSet(body) : o.k = "oneof" /\ f \in ToSet(o.body)
      BY <2>3 DEF FieldStatements
    <3>2. PICK i \in DOMAIN events : Tells(events[i], o)
      BY <3>1, BodyHeard DEF Telling, Named, Blocks
    <3>3. events[i].k = "oneof" /\ AreFields(events[i].fields, o.body)
      BY <3>1, <3>2 DEF Tells, TellsReserved
    <3>4. PICK g \in events[i].fields : g.number = f.number /\ g.name = f.name
      BY <2>1, <3>1, <3>3 DEF AreFields
    <3>5. events[i] \in m.oneofs
      BY <1>2, <3>3 DEF EventsOf
    <3>6. g \in AllFields(m)
      BY <3>4, <3>5 DEF AllFields
    <3> QED BY <3>4, <3>6
  <2> QED BY <2>2, <2>3
<1>4. ASSUME NEW r \in ToSet(body), r.k = "reserved", AtMostOne(body, r.form)
      PROVE  IF r.form = "nums" THEN m.reserved_nums = r.nums ELSE m.reserved_names = r.names
  BY <1>2, <1>4, ReservedKept
<1> QED BY <1>1, <1>2, <1>3, <1>4 DEF IsMessage

LEMMA BlockTellsReserved ==
  ASSUME NEW frame, frame.kind \in Blocks, frame.body \in Seq(Statements), NEW A, frame.events \in Seq(A),
         HeardOf(frame.events, frame.body, Len(frame.body)), NEW s, s.k = frame.kind, s.body = frame.body
  PROVE  TellsReserved(BlockOf(frame), s)
<1>1. CASE frame.kind = "message"
  <2>1. BlockOf(frame) = MessageOf(frame.name, frame.events)
    BY <1>1 DEF BlockOf
  <2>2. BlockOf(frame).k = "message" /\ IsMessage(BlockOf(frame), frame.body)
    BY <2>1, MessageHeard
  <2> QED BY <1>1, <2>2 DEF TellsReserved
<1>2. CASE frame.kind # "message"
  <2>1. PICK e : e = BlockOf(frame)
    OBVIOUS
  <2>2. e.k = frame.kind /\ e.fields = ToSet(frame.events)
    BY <1>2, <2>1 DEF BlockOf
  <2>3. ASSUME NEW f \in ToSet(frame.body), f.k = "field"
        PROVE  \E g \in ToSet(frame.events) : g.number = f.number /\ g.name = f.name
    <3>1. PICK i \in DOMAIN frame.events : Tells(frame.events[i], f)
      BY <2>3, BodyHeard DEF Telling, Named, Blocks
    <3>2. frame.events[i] \in ToSet(frame.events)
      BY DEF ToSet
    <3> QED BY <2>3, <3>1, <3>2 DEF Tells, TellsReserved
  <2>4. AreFields(e.fields, s.body)
    BY <2>2, <2>3 DEF AreFields
  <2> QED BY <1>2, <2>1, <2>2, <2>4 DEF TellsReserved, Blocks
<1> QED BY <1>1, <1>2

\* Of the blocks in a body and their events, one relation that is faithful.
LEMMA Joined ==
  ASSUME NEW C, \A Q \in C : Faithful(Q)
  PROVE  Faithful(UNION C)
<1> SUFFICES ASSUME NEW p \in UNION C
             PROVE  /\ IsBlock(p[1]) /\ IsBlock(p[2]) /\ p[1].name = p[2].name
                    /\ Alike(UNION C, Inside(p[1]), ToSet(p[2].body))
  BY DEF Faithful
<1>1. PICK Q \in C : p \in Q
  OBVIOUS
<1>2. /\ IsBlock(p[1]) /\ IsBlock(p[2]) /\ p[1].name = p[2].name
      /\ Alike(Q, Inside(p[1]), ToSet(p[2].body))
  BY <1>1 DEF Faithful
<1>3. \A x : x \in Q => x \in UNION C
  BY <1>1
<1>4. Alike(UNION C, Inside(p[1]), ToSet(p[2].body))
  BY <1>2, <1>3, Zenon DEF Alike
<1> QED BY <1>2, <1>4

\* A body that has been heard to its end is understood.
LEMMA BodyUnderstood ==
  ASSUME NEW body \in Seq(Statements), NEW events, HeardOf(events, body, Len(body)), NEW nodes,
         \A e : e \in nodes <=> e.k \in Named /\ \E i \in DOMAIN events : e = events[i]
  PROVE  \E R : Faithful(R) /\ Alike(R, nodes, ToSet(body))
<1> DEFINE told == {p \in nodes \X ToSet(body) : Tells(p[1], p[2]) /\ IsBlock(p[1])}
           Of(p) == CHOOSE Q : Faithful(Q) /\ p \in Q
           C == {Of(p) : p \in told}
           R == UNION C
<1>1. ASSUME NEW p \in told
      PROVE  Faithful(Of(p)) /\ p \in Of(p)
  <2>1. p = <<p[1], p[2]>>
    OBVIOUS
  <2>2. \E Q : Faithful(Q) /\ <<p[1], p[2]>> \in Q
    BY DEF Tells, TellsAll
  <2>3. \E Q : Faithful(Q) /\ p \in Q
    BY <2>1, <2>2
  <2> QED BY <2>3
<1>2. Faithful(R)
  <2>1. \A Q \in C : Faithful(Q)
    BY <1>1
  <2> HIDE DEF C
  <2> QED BY <2>1, Joined
<1>3. \A p \in told : p \in R
  BY <1>1
<1> HIDE DEF R
<1>4. ASSUME NEW s \in ToSet(body), s.k \in Named
      PROVE  \E e \in nodes : Keeps(e, s) /\ (IsBlock(s) => <<e, s>> \in R)
  <2>1. PICK i \in DOMAIN events : Tells(events[i], s)
    BY <1>4, BodyHeard DEF Telling
  <2>2. PICK e : e = events[i]
    OBVIOUS
  <2>3. Keeps(e, s)
    BY <1>4, <2>1, <2>2 DEF Tells, TellsAll
  <2>4. e.k = s.k
    BY <2>3 DEF Keeps
  <2>5. e \in nodes
    BY <1>4, <2>2, <2>4
  <2>6. IsBlock(s) => IsBlock(e)
    BY <2>4 DEF IsBlock
  <2>7. IsBlock(s) => <<e, s>> \in told
    BY <2>1, <2>2, <2>5, <2>6
  <2> QED BY <1>3, <2>3, <2>5, <2>7
<1>5. ASSUME NEW e \in nodes
      PROVE  \E s \in ToSet(body) : ComesOf(e, s) /\ (IsBlock(e) => <<e, s>> \in R)
  <2>1. PICK i \in DOMAIN events : e = events[i] /\ e.k \in Named
    OBVIOUS
  <2>2. PICK j \in 1 .. Len(body) : Tells(e, body[j])
    BY <2>1 DEF HeardOf
  <2>3. PICK s \in ToSet(body) : s = body[j]
    BY DEF ToSet
  <2>4. ComesOf(e, s)
    BY <2>1, <2>2, <2>3 DEF Tells, TellsAll
  <2>5. IsBlock(e) => <<e, s>> \in told
    BY <2>2, <2>3
  <2> QED BY <1>3, <2>4, <2>5
<1> QED BY <1>2, <1>4, <1>5 DEF Alike

LEMMA InsideBlock ==
  ASSUME NEW frame, frame.kind \in Blocks, NEW syntax, AreEvents(frame.events, frame.kind, syntax), NEW e
  PROVE  e \in Inside(BlockOf(frame)) <=> e.k \in Named /\ \E i \in DOMAIN frame.events : e = frame.events[i]
<1>1. PICK events : events = frame.events
  OBVIOUS
<1>2. \A i \in DOMAIN events : events[i].k \in KindsOf(frame.kind)
  BY <1>1 DEF AreEvents
<1>3. CASE frame.kind = "message"
  <2>1. PICK b : b = BlockOf(frame)
    OBVIOUS
  <2>2. /\ b.k = "message" /\ b.fields = EventsOf(events, "field")
        /\ b.messages = EventsOf(events, "message") /\ b.enums = EventsOf(events, "enum")
        /\ b.oneofs = EventsOf(events, "oneof")
    BY <1>1, <1>3, <2>1 DEF BlockOf, MessageOf
  <2>3. e \in Inside(b) <=> /\ e.k \in {"field", "message", "enum", "oneof"}
                            /\ \E i \in DOMAIN events : e = events[i]
    BY <2>2 DEF Inside, EventsOf
  <2>4. \A i \in DOMAIN events : events[i].k \in Named <=> events[i].k \in {"field", "message", "enum", "oneof"}
    BY <1>2, <1>3 DEF KindsOf, Named, Blocks
  <2> QED BY <1>1, <2>1, <2>3, <2>4
<1>4. CASE frame.kind # "message"
  <2>1. PICK b : b = BlockOf(frame)
    OBVIOUS
  <2>2. b.k = frame.kind /\ b.fields = ToSet(events)
    BY <1>1, <1>4, <2>1 DEF BlockOf
  <2>3. e \in Inside(b) <=> \E i \in DOMAIN events : e = events[i]
    BY <1>4, <2>2 DEF Inside, ToSet
  <2>4. KindsOf(frame.kind) \subseteq Named
    BY <1>4 DEF KindsOf, Named, Blocks
  <2> QED BY <1>1, <1>2, <2>1, <2>3, <2>4
<1> QED BY <1>3, <1>4

\* What a block is for what encloses it tells the block.
LEMMA BlockTells ==
  ASSUME NEW frame, frame.kind \in Blocks, frame.body \in Seq(Statements),
         NEW syntax, AreEvents(frame.events, frame.kind, syntax),
         HeardOf(frame.events, frame.body, Len(frame.body)),
         NEW s, s.k = frame.kind, s.body = frame.body, s.name = frame.name
  PROVE  /\ Tells(BlockOf(frame), s)
         /\ BlockOf(frame).k = frame.kind
         /\ \E S : Settled(S, syntax) /\ BlockOf(frame) \in S
<1>1. PICK b : b = BlockOf(frame)
  OBVIOUS
<1>2. b.k = frame.kind /\ b.name = frame.name
  BY <1>1 DEF BlockOf, MessageOf
<1>3. TellsReserved(b, s)
  <2>1. PICK A : frame.events \in Seq(A)
    BY DEF AreEvents
  <2> QED BY <1>1, <2>1, BlockTellsReserved
<1>4. IsBlock(b) /\ IsBlock(s) /\ b.k # "field" /\ b.k # "syntax" /\ s.k # "option"
  BY <1>2 DEF IsBlock, Blocks
<1>5. PICK R : Faithful(R) /\ Alike(R, Inside(b), ToSet(s.body))
  <2>1. PICK nodes : nodes = Inside(BlockOf(frame))
    OBVIOUS
  <2>2. \A e : e \in nodes <=> e.k \in Named /\ \E i \in DOMAIN frame.events : e = frame.events[i]
    BY <2>1, InsideBlock
  <2>3. PICK events, body : events = frame.events /\ body = frame.body
    OBVIOUS
  <2>4. /\ body \in Seq(Statements) /\ HeardOf(events, body, Len(body))
        /\ \A e : e \in nodes <=> e.k \in Named /\ \E i \in DOMAIN events : e = events[i]
    BY <2>2, <2>3
  <2>5. \E R : Faithful(R) /\ Alike(R, nodes, ToSet(body))
    BY <2>4, BodyUnderstood
  <2> QED BY <1>1, <2>1, <2>3, <2>5
<1> DEFINE T == R \cup {<<b, s>>}
<1>6. Faithful(T)
  <2> SUFFICES ASSUME NEW p \in T
               PROVE  /\ IsBlock(p[1]) /\ IsBlock(p[2]) /\ p[1].name = p[2].name
                      /\ Alike(T, Inside(p[1]), ToSet(p[2].body))
    BY DEF Faithful
  <2>1. /\ IsBlock(p[1]) /\ IsBlock(p[2]) /\ p[1].name = p[2].name
        /\ Alike(R, Inside(p[1]), ToSet(p[2].body))
    <3>1. CASE p \in R
      BY <1>5, <3>1 DEF Faithful
    <3>2. CASE p = <<b, s>>
      BY <1>2, <1>4, <1>5, <3>2
    <3> QED BY <3>1, <3>2
  <2>2. \A x : x \in R => x \in T
    OBVIOUS
  <2> HIDE DEF T
  <2> QED BY <2>1, <2>2, Zenon DEF Alike
<1>7. TellsAll(b, s)
  <2>1. <<b, s>> \in T
    OBVIOUS
  <2> HIDE DEF T
  <2>2. Keeps(b, s) /\ ComesOf(b, s)
    BY <1>2, <1>4 DEF Keeps, ComesOf
  <2> QED BY <1>2, <1>4, <1>6, <2>1, <2>2 DEF TellsAll
<1>8. \E S : Settled(S, syntax) /\ b \in S
  <2>1. PICK S : Settled(S, syntax) /\ \A i \in DOMAIN frame.events : frame.events[i] \in S
    BY DEF AreEvents
  <2>2. Inside(b) \subseteq S
    BY <1>1, <2>1, InsideBlock
  <2>3. PICK U : U = S \cup {b}
    OBVIOUS
  <2>4. ASSUME NEW e \in U
        PROVE  (e.k = "field" => e.frequency[1] = syntax) /\ (IsBlock(e) => Inside(e) \subseteq U)
    <3>1. CASE e \in S
      BY <2>1, <2>3, <3>1 DEF Settled
    <3>2. CASE e = b
      BY <1>4, <2>2, <2>3, <3>2
    <3> QED BY <2>3, <2>4, <3>1, <3>2
  <2>5. Settled(U, syntax)
    BY <2>4 DEF Settled
  <2> QED BY <2>3, <2>5
<1> QED BY <1>1, <1>2, <1>3, <1>7, <1>8 DEF Tells

----------------------------------------------------------------------------
(* What is left of a body is a suffix of it.                               *)

Rest(body, n) == SubSeq(body, n + 1, Len(body))

LEMMA RestOfAll ==
  ASSUME NEW body \in Seq(Statements)
  PROVE  Rest(body, 0) = body
BY DEF Rest

LEMMA RestIsEmpty ==
  ASSUME NEW body \in Seq(Statements), NEW n \in 0 .. Len(body), Rest(body, n) = <<>>
  PROVE  n = Len(body)
BY DEF Rest

LEMMA RestIs ==
  ASSUME NEW body \in Seq(Statements), NEW n \in 0 .. Len(body)
  PROVE  /\ Rest(body, n) \in Seq(Statements)
         /\ Len(Rest(body, n)) = Len(body) - n
         /\ \A i \in 1 .. Len(body) - n : Rest(body, n)[i] = body[n + i]
BY DEF Rest

LEMMA RestGoesOn ==
  ASSUME NEW body \in Seq(Statements), NEW n \in 0 .. Len(body), Rest(body, n) # <<>>
  PROVE  /\ n + 1 \in 0 .. Len(body)
         /\ Head(Rest(body, n)) = body[n + 1] /\ body[n + 1] \in Statements
         /\ Tail(Rest(body, n)) = Rest(body, n + 1)
<1>1. n < Len(body)
  BY DEF Rest
<1>2. /\ Rest(body, n) \in Seq(Statements)
      /\ Len(Rest(body, n)) = Len(body) - n
      /\ \A i \in 1 .. Len(body) - n : Rest(body, n)[i] = body[n + i]
  BY RestIs
<1>3. /\ Rest(body, n + 1) \in Seq(Statements)
      /\ Len(Rest(body, n + 1)) = Len(body) - (n + 1)
      /\ \A i \in 1 .. Len(body) - (n + 1) : Rest(body, n + 1)[i] = body[n + 1 + i]
  <2>1. n + 1 \in 0 .. Len(body)
    BY <1>1
  <2> QED BY <2>1, RestIs
<1>4. /\ Tail(Rest(body, n)) \in Seq(Statements)
      /\ Len(Tail(Rest(body, n))) = Len(body) - (n + 1)
      /\ \A i \in 1 .. Len(body) - (n + 1) : Tail(Rest(body, n))[i] = Rest(body, n)[i + 1]
  BY <1>1, <1>2
<1>5. ASSUME NEW i \in 1 .. Len(body) - (n + 1)
      PROVE  Tail(Rest(body, n))[i] = Rest(body, n + 1)[i]
  <2>1. i + 1 \in 1 .. Len(body) - n /\ n + (i + 1) = n + 1 + i
    BY <1>1
  <2> QED BY <1>2, <1>3, <1>4, <2>1
<1>6. Tail(Rest(body, n)) = Rest(body, n + 1)
  BY <1>3, <1>4, <1>5
<1> QED BY <1>1, <1>2, <1>6

LEMMA RestOfRest ==
  ASSUME NEW body \in Seq(Statements), NEW n \in 0 .. Len(body), NEW i \in 0 .. Len(body) - n
  PROVE  n + i \in 0 .. Len(body) /\ Rest(Rest(body, n), i) = Rest(body, n + i)
<1>1. n + i \in 0 .. Len(body)
  OBVIOUS
<1>2. PICK todo \in Seq(Statements) :
        todo = Rest(body, n) /\ Len(todo) = Len(body) - n /\ \A q \in 1 .. Len(body) - n : todo[q] = body[n + q]
  BY RestIs
<1>3. PICK s \in Seq(Statements) :
        s = Rest(todo, i) /\ Len(s) = Len(todo) - i /\ \A q \in 1 .. Len(todo) - i : s[q] = todo[i + q]
  <2>1. i \in 0 .. Len(todo)
    BY <1>2
  <2>2. /\ Rest(todo, i) \in Seq(Statements)
        /\ Len(Rest(todo, i)) = Len(todo) - i
        /\ \A q \in 1 .. Len(todo) - i : Rest(todo, i)[q] = todo[i + q]
    BY <2>1, RestIs
  <2> QED BY <2>2
<1>4. PICK t \in Seq(Statements) :
        /\ t = Rest(body, n + i) /\ Len(t) = Len(body) - (n + i)
        /\ \A q \in 1 .. Len(body) - (n + i) : t[q] = body[n + i + q]
  BY <1>1, RestIs
<1>5. ASSUME NEW q \in 1 .. Len(body) - (n + i)
      PROVE  s[q] = t[q]
  <2>1. i + q \in 1 .. Len(body) - n /\ q \in 1 .. Len(todo) - i /\ n + (i + q) = n + i + q
    BY <1>2
  <2>2. s[q] = todo[i + q] /\ todo[i + q] = body[n + (i + q)] /\ t[q] = body[n + i + q]
    BY <1>2, <1>3, <1>4, <2>1
  <2> QED BY <2>1, <2>2
<1>6. Len(s) = Len(t) /\ Len(t) = Len(body) - (n + i)
  <2>1. Len(body) \in Nat /\ n \in Int /\ i \in Int
    OBVIOUS
  <2>2. Len(s) = (Len(body) - n) - i /\ Len(t) = Len(body) - (n + i)
    BY <1>2, <1>3, <1>4
  <2> QED BY <2>1, <2>2
<1>7. s = t
  <2>1. \A q \in 1 .. Len(s) : s[q] = t[q]
    BY <1>5, <1>6
  <2>2. s \in Seq(Statements) /\ t \in Seq(Statements) /\ Len(s) = Len(t)
    BY <1>3, <1>4, <1>6
  <2> QED BY <2>1, <2>2
<1> QED BY <1>1, <1>2, <1>3, <1>4, <1>7

\* A semicolon after a block, and the white space before it, tell nothing.
LEMMA AfterBlockHeard ==
  ASSUME NEW kind, NEW body \in Seq(Statements), NEW n \in 0 .. Len(body), NEW events,
         HeardOf(events, body, n)
  PROVE  \E m \in 0 .. Len(body) : /\ AfterBlock(kind, Rest(body, n)) = Rest(body, m)
                                   /\ HeardOf(events, body, m)
<1>1. PICK todo \in Seq(Statements) :
        todo = Rest(body, n) /\ Len(todo) = Len(body) - n /\ \A q \in 1 .. Len(body) - n : todo[q] = body[n + q]
  BY RestIs
<1> DEFINE here == { i \in DOMAIN todo : /\ todo[i].k = "semicolon"
                                         /\ \A j \in 1 .. (i - 1) : todo[j].k = "br" }
<1>2. CASE kind \in {"message", "enum", "extend"} /\ here # {}
  <2>1. PICK i \in here : i = CHOOSE h \in here : TRUE
    BY <1>2
  <2>2. AfterBlock(kind, todo) = SubSeq(todo, 1 + i, Len(todo))
    BY <1>2, <2>1 DEF AfterBlock
  <2>3. i \in DOMAIN todo /\ todo[i].k = "semicolon" /\ \A j \in 1 .. (i - 1) : todo[j].k = "br"
    OBVIOUS
  <2> HIDE DEF here
  <2>4. i \in 1 .. Len(body) - n /\ i \in 0 .. Len(body) - n /\ n + i \in Nat /\ n \in Nat /\ n <= n + i
    BY <1>1, <2>3
  <2>5. AfterBlock(kind, todo) = Rest(todo, i)
    BY <2>2, <2>4 DEF Rest
  <2>6. n + i \in 0 .. Len(body) /\ Rest(todo, i) = Rest(body, n + i)
    BY <1>1, <2>4, RestOfRest
  <2>7. ASSUME NEW j \in n + 1 .. n + i
        PROVE  body[j].k \notin Telling
    <3>1. j - n \in 1 .. i /\ j - n \in 1 .. Len(body) - n /\ n + (j - n) = j
      BY <2>4
    <3>2. todo[j - n] = body[j]
      BY <1>1, <3>1
    <3>3. j - n = i \/ j - n \in 1 .. (i - 1)
      BY <2>4, <3>1
    <3>4. todo[j - n].k \in {"semicolon", "br"}
      BY <2>3, <3>3
    <3> QED BY <3>2, <3>4 DEF Telling, Named, Blocks
  <2>8. HeardOf(events, body, n + i)
    BY <2>4, <2>7, HeardOn
  <2> QED BY <1>1, <2>5, <2>6, <2>8
<1>3. CASE ~(kind \in {"message", "enum", "extend"} /\ here # {})
  <2>1. AfterBlock(kind, todo) = todo
    BY <1>3 DEF AfterBlock
  <2> QED BY <1>1, <2>1
<1> QED BY <1>2, <1>3

----------------------------------------------------------------------------
(* The stack of open blocks.                                               *)

IsFrameRecord(fr) ==
  /\ DOMAIN fr = {"kind", "name", "body", "todo", "events"}
  /\ fr = [x \in DOMAIN fr |-> fr[x]]

\* An open block: where it stands in its body, and what it has heard so far.
IsFrame(fr, syntax) ==
  /\ IsFrameRecord(fr)
  /\ fr.kind \in Blocks \cup {"file"}
  /\ fr.body \in Seq(Statements)
  /\ AreEvents(fr.events, fr.kind, syntax)
  /\ \E n \in 0 .. Len(fr.body) : fr.todo = Rest(fr.body, n) /\ HeardOf(fr.events, fr.body, n)

\* The inner block is the statement at which the outer one stands.
Opened(outer, inner) ==
  /\ inner.kind \in Blocks
  /\ outer.todo # <<>>
  /\ Head(outer.todo).k = inner.kind
  /\ Head(outer.todo).body = inner.body
  /\ Head(outer.todo).name = inner.name
  /\ inner.kind \in KindsOf(outer.kind)

IsStack(fs, text, syntax) ==
  /\ \E X : fs \in Seq(X)
  /\ \A i \in DOMAIN fs : IsFrame(fs[i], syntax)
  /\ fs # <<>> => fs[1].kind = "file" /\ fs[1].body = text
  /\ \A i \in DOMAIN fs : i > 1 => Opened(fs[i - 1], fs[i])

LEMMA OnStack ==
  ASSUME NEW fs, NEW text, NEW syntax, IsStack(fs, text, syntax), fs # <<>>
  PROVE  /\ IsFrame(Last(fs), syntax) /\ Len(fs) \in Nat /\ Len(fs) > 0
         /\ Len(fs) = 1 => Last(fs).kind = "file" /\ Last(fs).body = text
         /\ Len(fs) > 1 => IsFrame(fs[Len(fs) - 1], syntax) /\ Opened(fs[Len(fs) - 1], Last(fs))
<1>1. PICK X : fs \in Seq(X)
  BY DEF IsStack
<1>2. Len(fs) \in Nat /\ Len(fs) > 0 /\ DOMAIN fs = 1 .. Len(fs)
  BY <1>1
<1>3. Len(fs) \in DOMAIN fs /\ (Len(fs) > 1 => Len(fs) - 1 \in DOMAIN fs)
  BY <1>2
<1> QED BY <1>2, <1>3 DEF IsStack, Last

MovedOn(fr, todo, events) == [fr EXCEPT !.todo = todo, !.events = events]

LEMMA GoesOn ==
  ASSUME NEW fr, NEW syntax, IsFrame(fr, syntax), NEW todo, NEW events, NEW t \in {MovedOn(fr, todo, events)}
  PROVE  /\ t.kind = fr.kind /\ t.body = fr.body /\ t.name = fr.name /\ t.todo = todo /\ t.events = events
         /\ IsFrameRecord(t)
<1>1. IsFrameRecord(fr)
  BY DEF IsFrame
<1> QED BY <1>1 DEF IsFrameRecord, MovedOn

\* The top of the stack goes on in its body.
LEMMA TopReplaced ==
  ASSUME NEW fs, NEW text, NEW syntax, IsStack(fs, text, syntax), fs # <<>>, NEW t, IsFrame(t, syntax),
         t.kind = Last(fs).kind, t.body = Last(fs).body, t.name = Last(fs).name
  PROVE  IsStack(Append(Front(fs), t), text, syntax)
<1>1. PICK X : fs \in Seq(X)
  BY DEF IsStack
<1> DEFINE n == Len(fs)
           gs == Append(Front(fs), t)
<1>2. n \in Nat /\ n > 0 /\ DOMAIN fs = 1 .. n
  BY <1>1
<1>3. /\ Front(fs) \in Seq(X \cup {t}) /\ Len(Front(fs)) = n - 1
      /\ \A i \in 1 .. n - 1 : Front(fs)[i] = fs[i]
  BY <1>1, <1>2 DEF Front
<1>4. /\ gs \in Seq(X \cup {t}) /\ DOMAIN gs = 1 .. n /\ Len(gs) = n
      /\ gs[n] = t
      /\ \A i \in 1 .. n - 1 : gs[i] = fs[i]
  <2> DEFINE hs == Front(fs)
  <2>1. hs \in Seq(X \cup {t}) /\ Len(hs) = n - 1
    BY <1>3
  <2> HIDE DEF hs, n
  <2>2. /\ Append(hs, t) \in Seq(X \cup {t}) /\ Len(Append(hs, t)) = n
        /\ Append(hs, t)[n] = t
        /\ \A i \in 1 .. n - 1 : Append(hs, t)[i] = hs[i]
    BY <1>2, <2>1
  <2> QED BY <1>2, <1>3, <2>2 DEF hs
<1> HIDE DEF gs
<1>5. \A i \in 1 .. n : i = n \/ i \in 1 .. n - 1
  <2> HIDE DEF n
  <2> QED BY <1>2
<1>6. \A i \in DOMAIN gs : IsFrame(gs[i], syntax)
  BY <1>2, <1>4, <1>5 DEF IsStack
<1>7. gs[1].kind = "file" /\ gs[1].body = text
  <2>1. CASE n = 1
    BY <1>4, <2>1 DEF IsStack, Last
  <2>2. CASE n # 1
    <3>1. 1 \in 1 .. n - 1
      BY <1>2, <2>2
    <3> QED BY <1>4, <3>1 DEF IsStack
  <2> QED BY <2>1, <2>2
<1>8. ASSUME NEW i \in DOMAIN gs, i > 1
      PROVE  Opened(gs[i - 1], gs[i])
  <2>1. i \in 1 .. n /\ i - 1 \in 1 .. n - 1
    BY <1>2, <1>4, <1>8
  <2>2. Opened(fs[i - 1], fs[i]) /\ gs[i - 1] = fs[i - 1]
    BY <1>2, <1>4, <1>8, <2>1 DEF IsStack
  <2>3. gs[i].kind = fs[i].kind /\ gs[i].body = fs[i].body /\ gs[i].name = fs[i].name
    BY <1>4, <1>5, <2>1 DEF Last
  <2> QED BY <2>2, <2>3 DEF Opened
<1>9. IsStack(gs, text, syntax)
  BY <1>4, <1>6, <1>7, <1>8 DEF IsStack
<1> QED BY <1>9 DEF gs

LEMMA AtTheFile ==
  ASSUME NEW t, NEW text, NEW syntax, IsFrame(t, syntax), t.kind = "file", t.body = text
  PROVE  IsStack(<<t>>, text, syntax)
<1>1. <<t>> \in Seq({t}) /\ <<t>>[1] = t
  OBVIOUS
<1>2. DOMAIN <<t>> = {1}
  OBVIOUS
<1>3. \A i \in {1} : ~(i > 1)
  OBVIOUS
<1> QED BY <1>1, <1>2, <1>3 DEF IsStack

\* A block is opened.
LEMMA Pushed ==
  ASSUME NEW fs, NEW text, NEW syntax, IsStack(fs, text, syntax), fs # <<>>, NEW t, IsFrame(t, syntax), Opened(Last(fs), t)
  PROVE  IsStack(Append(fs, t), text, syntax)
<1>1. PICK X : fs \in Seq(X)
  BY DEF IsStack
<1> DEFINE n == Len(fs)
           gs == Append(fs, t)
<1>2. n \in Nat /\ n > 0 /\ DOMAIN fs = 1 .. n /\ fs \in Seq(X \cup {t})
  BY <1>1
<1>3. /\ gs \in Seq(X \cup {t}) /\ DOMAIN gs = 1 .. n + 1
      /\ gs[n + 1] = t
      /\ \A i \in 1 .. n : gs[i] = fs[i]
  BY <1>2
<1> HIDE DEF gs
<1>4. \A i \in 1 .. n + 1 : i = n + 1 \/ i \in 1 .. n
  BY <1>2
<1>5. \A i \in DOMAIN gs : IsFrame(gs[i], syntax)
  BY <1>2, <1>3, <1>4 DEF IsStack
<1>6. gs[1].kind = "file" /\ gs[1].body = text
  BY <1>2, <1>3 DEF IsStack
<1>7. ASSUME NEW i \in DOMAIN gs, i > 1
      PROVE  Opened(gs[i - 1], gs[i])
  <2>1. i \in 1 .. n + 1 /\ i - 1 \in 1 .. n
    BY <1>2, <1>3, <1>7
  <2>2. CASE i = n + 1
    <3>1. i - 1 = n
      BY <1>2, <2>2
    <3>2. gs[i - 1] = Last(fs) /\ gs[i] = t
      BY <1>3, <2>1, <2>2, <3>1 DEF Last
    <3> QED BY <3>2
  <2>3. CASE i \in 1 .. n
    BY <1>2, <1>3, <1>7, <2>1, <2>3 DEF IsStack
  <2> QED BY <1>4, <2>1, <2>2, <2>3
<1>8. IsStack(gs, text, syntax)
  BY <1>3, <1>5, <1>6, <1>7 DEF IsStack
<1> QED BY <1>8 DEF gs

\* A block is closed, and what encloses it goes on.
LEMMA Popped ==
  ASSUME NEW fs, NEW text, NEW syntax, IsStack(fs, text, syntax), fs # <<>>, Len(fs) > 1, NEW t, IsFrame(t, syntax),
         t.kind = fs[Len(fs) - 1].kind, t.body = fs[Len(fs) - 1].body, t.name = fs[Len(fs) - 1].name
  PROVE  IsStack(Append(SubSeq(fs, 1, Len(fs) - 2), t), text, syntax)
<1>1. PICK X : fs \in Seq(X)
  BY DEF IsStack
<1> DEFINE n == Len(fs)
           hs == SubSeq(fs, 1, n - 1)
<1>2. n \in Nat /\ n > 1 /\ DOMAIN fs = 1 .. n
  BY <1>1
<1>3. /\ hs \in Seq(X) /\ Len(hs) = n - 1 /\ DOMAIN hs = 1 .. n - 1
      /\ \A i \in 1 .. n - 1 : hs[i] = fs[i]
  BY <1>1, <1>2
<1>4. SubSeq(hs, 1, n - 2) = SubSeq(fs, 1, n - 2)
  <2>1. /\ SubSeq(hs, 1, n - 2) \in Seq(X) /\ Len(SubSeq(hs, 1, n - 2)) = n - 2
        /\ \A i \in 1 .. n - 2 : SubSeq(hs, 1, n - 2)[i] = hs[i]
    BY <1>2, <1>3
  <2>2. /\ SubSeq(fs, 1, n - 2) \in Seq(X) /\ Len(SubSeq(fs, 1, n - 2)) = n - 2
        /\ \A i \in 1 .. n - 2 : SubSeq(fs, 1, n - 2)[i] = fs[i]
    BY <1>1, <1>2
  <2>3. \A i \in 1 .. n - 2 : SubSeq(hs, 1, n - 2)[i] = SubSeq(fs, 1, n - 2)[i]
    <3>1. \A i \in 1 .. n - 2 : i \in 1 .. n - 1
      BY <1>2
    <3> QED BY <1>3, <2>1, <2>2, <3>1
  <2> QED BY <2>1, <2>2, <2>3
<1> HIDE DEF hs
<1>5. \A i \in 1 .. n - 1 : i \in 1 .. n
  BY <1>2
<1>6. IsStack(hs, text, syntax)
  <2>1. \A i \in DOMAIN hs : IsFrame(hs[i], syntax)
    BY <1>2, <1>3, <1>5 DEF IsStack
  <2>2. hs[1].kind = "file" /\ hs[1].body = text
    <3>1. 1 \in 1 .. n - 1
      BY <1>2
    <3> QED BY <1>3, <3>1 DEF IsStack
  <2>3. ASSUME NEW i \in DOMAIN hs, i > 1
        PROVE  Opened(hs[i - 1], hs[i])
    <3>1. i \in 1 .. n - 1 /\ i - 1 \in 1 .. n - 1 /\ i \in DOMAIN fs
      BY <1>2, <1>3, <2>3
    <3> QED BY <1>3, <2>3, <3>1 DEF IsStack
  <2> QED BY <1>3, <2>1, <2>2, <2>3 DEF IsStack
<1>7. hs # <<>> /\ Last(hs) = fs[n - 1] /\ Front(hs) = SubSeq(fs, 1, n - 2)
  <2>1. n - 1 \in 1 .. n - 1 /\ (n - 1) - 1 = n - 2
    BY <1>2
  <2>2. hs # <<>>
    BY <1>2, <1>3
  <2>3. Last(hs) = fs[n - 1]
    BY <1>3, <2>1 DEF Last
  <2>4. Front(hs) = SubSeq(hs, 1, n - 2)
    BY <1>3, <2>1 DEF Front
  <2> QED BY <1>4, <2>2, <2>3, <2>4
<1> QED BY <1>6, <1>7, TopReplaced

----------------------------------------------------------------------------
(* The invariant of the parser.                                            *)

ScannedSyntax == IF file # <<>> /\ file[1].k = "syntax" THEN file[1].says ELSE "proto2"

\* A file that is accepted is in the descriptor, block by block.
Understood ==
  result = "ok" =>
    /\ \E R : Faithful(R) /\ Alike(R, TopNodes, ToSet(file))
    /\ SyntaxFirst => \E S : Settled(S, desc.syntax) /\ TopNodes \subseteq S

ParserInv ==
  /\ file \in Seq(Statements)
  /\ IF got_syntax = "none" THEN frames = <<>> ELSE got_syntax = ScannedSyntax
  /\ IsStack(frames, file, got_syntax)
  /\ Understood
  /\ ReservedHonoured

LEMMA NoStack ==
  ASSUME NEW text, NEW syntax
  PROVE  IsStack(<<>>, text, syntax)
<1>1. <<>> \in Seq({}) /\ DOMAIN <<>> = {}
  OBVIOUS
<1> QED BY <1>1 DEF IsStack

LEMMA ParserInitInv == ParserInit => ParserInv
<1> SUFFICES ASSUME ParserInit
             PROVE  ParserInv
  OBVIOUS
<1>1. file \in Seq(Statements)
  BY ParserAssumption DEF ParserInit
<1> QED BY <1>1, NoStack DEF ParserInit, ParserInv, ReservedHonoured, Understood

\* What a step leaves alone.
LEMMA SameResult ==
  ASSUME ParserInv, file' = file, desc' = desc, result' = result
  PROVE  Understood' /\ ReservedHonoured'
BY DEF ParserInv, Understood, ReservedHonoured, TopNodes, SyntaxFirst

\* What stands next in the block at the top.
LEMMA HereFacts ==
  ASSUME ParserInv, Running, Top.todo # <<>>
  PROVE  \E n \in 0 .. Len(Top.body) :
           /\ n + 1 \in 0 .. Len(Top.body)
           /\ Top.todo = Rest(Top.body, n) /\ HeardOf(Top.events, Top.body, n)
           /\ Here = Top.body[n + 1] /\ Here \in Statements
           /\ Tail(Top.todo) = Rest(Top.body, n + 1)
<1>1. IsFrame(Top, got_syntax)
  BY OnStack DEF ParserInv, Running, Top
<1>2. PICK n \in 0 .. Len(Top.body) : Top.todo = Rest(Top.body, n) /\ HeardOf(Top.events, Top.body, n)
  BY <1>1 DEF IsFrame
<1>3. Top.body \in Seq(Statements)
  BY <1>1 DEF IsFrame
<1> QED BY <1>2, <1>3, RestGoesOn DEF Here

LEMMA TakeKeeps ==
  ASSUME ParserInv, Take
  PROVE  ParserInv'
<1>1. Running /\ Top.todo # <<>> /\ Accepts(Top.kind, got_syntax, Here) /\ ~IsBlock(Here)
  BY DEF Take, Taken
<1>2. IsFrame(Top, got_syntax) /\ IsStack(frames, file, got_syntax) /\ frames # <<>>
  BY <1>1, OnStack DEF ParserInv, Running, Top
<1>3. PICK n \in 0 .. Len(Top.body) :
           /\ n + 1 \in 0 .. Len(Top.body)
           /\ Top.todo = Rest(Top.body, n) /\ HeardOf(Top.events, Top.body, n)
           /\ Here = Top.body[n + 1] /\ Here \in Statements
           /\ Tail(Top.todo) = Rest(Top.body, n + 1)
  BY <1>1, HereFacts
<1>4. AreEvents(Top.events, Top.kind, got_syntax) /\ \E A : Top.events \in Seq(A)
  BY <1>2 DEF IsFrame, AreEvents
<1>5. Top.kind \in Blocks \cup {"file"} /\ Top.body \in Seq(Statements)
  BY <1>2 DEF IsFrame
<1> DEFINE more == Top.events \o EventOf(Top.kind, got_syntax, Here)
<1>6. AreEvents(more, Top.kind, got_syntax) /\ HeardOf(more, Top.body, n + 1)
  <2>0. PICK A : Top.events \in Seq(A)
    BY <1>4
  <2>1. CASE EventOf(Top.kind, got_syntax, Here) = <<>> /\ Here.k \notin Telling
    <3>1. more = Top.events
      BY <2>0, <2>1
    <3>2. \A j \in n + 1 .. n + 1 : Top.body[j].k \notin Telling
      BY <1>3, <2>1
    <3>3. HeardOf(Top.events, Top.body, n + 1)
      <4>1. n \in Nat /\ n + 1 \in Nat /\ n <= n + 1
        OBVIOUS
      <4> QED BY <1>3, <3>2, <4>1, HeardOn
    <3> QED BY <1>4, <3>1, <3>3
  <2>2. CASE \E e : /\ EventOf(Top.kind, got_syntax, Here) = <<e>> /\ Tells(e, Here) /\ ~IsBlock(e)
                    /\ e.k \in KindsOf(Top.kind) /\ (e.k = "field" => e.frequency[1] = got_syntax)
    <3>1. PICK e : /\ EventOf(Top.kind, got_syntax, Here) = <<e>> /\ Tells(e, Here) /\ ~IsBlock(e)
                   /\ e.k \in KindsOf(Top.kind) /\ (e.k = "field" => e.frequency[1] = got_syntax)
      BY <2>2
    <3>2. Top.events \o <<e>> = Append(Top.events, e)
      BY <2>0
    <3>3. more = Append(Top.events, e)
      BY <3>1, <3>2
    <3>4. HeardOf(Append(Top.events, e), Top.body, n + 1)
      <4>1. n \in Nat
        OBVIOUS
      <4> QED BY <1>3, <2>0, <3>1, <4>1, HeardMore
    <3>5. Settled({e}, got_syntax)
      BY <3>1 DEF Settled
    <3>6. AreEvents(Append(Top.events, e), Top.kind, got_syntax)
      BY <1>4, <3>1, <3>5, MoreEvents
    <3> QED BY <3>3, <3>4, <3>6
  <2> QED BY <1>1, <1>3, <1>5, <2>1, <2>2, TakenTells
<1> HIDE DEF more
<1>7. PICK t \in {MovedOn(Top, Tail(Top.todo), more)} : TRUE
  OBVIOUS
<1>8. t = [Top EXCEPT !.todo = Tail(@), !.events = @ \o EventOf(Top.kind, got_syntax, Here)]
  BY <1>7 DEF more, MovedOn
<1>9. /\ t.kind = Top.kind /\ t.body = Top.body /\ t.name = Top.name
      /\ t.todo = Tail(Top.todo) /\ t.events = more
      /\ IsFrameRecord(t)
  BY <1>2, <1>7, GoesOn
<1>10. IsFrame(t, got_syntax)
  BY <1>3, <1>5, <1>6, <1>9 DEF IsFrame
<1>11. frames' = Append(Front(frames), t)
  BY <1>8 DEF Take
<1>12. file' = file /\ desc' = desc /\ result' = result /\ got_syntax' = got_syntax
  BY DEF Take
<1>13. IsStack(frames', file', got_syntax')
  BY <1>2, <1>9, <1>10, <1>11, <1>12, TopReplaced DEF Top
<1>14. got_syntax # "none"
  BY <1>2 DEF ParserInv
<1> QED BY <1>12, <1>13, <1>14, SameResult DEF ParserInv, ScannedSyntax

LEMMA NoEvents ==
  ASSUME NEW kind, NEW syntax
  PROVE  AreEvents(<<>>, kind, syntax)
<1>1. <<>> \in Seq({}) /\ DOMAIN <<>> = {} /\ Settled({}, syntax)
  BY DEF Settled
<1> QED BY <1>1 DEF AreEvents

LEMMA BlockTaken ==
  ASSUME NEW kind \in Blocks \cup {"file"}, NEW syntax, NEW s, Accepts(kind, syntax, s), s.k \in Blocks
  PROVE  s.k \in KindsOf(kind)
<1>1. /\ kind = "file" => s.k \in {"message", "enum", "service", "extend"}
      /\ kind = "message" => s.k \in {"message", "enum", "oneof"}
      /\ kind \notin {"enum", "service", "oneof", "extend"}
  BY DEF Accepts, FileEvent, MessageEvent, EnumEvent, RpcEvent, FieldEvent, IsField, IsReserved,
     IsExtensions, IsOption, IsImport, IsRpc, IsEnumField, IsBr, LooksLikeField, Blocks
<1>2. kind \in {"file", "message"}
  BY <1>1 DEF Blocks
<1> QED BY <1>1, <1>2 DEF KindsOf

LEMMA EnterKeeps ==
  ASSUME ParserInv, Enter
  PROVE  ParserInv'
<1>1. Running /\ Top.todo # <<>> /\ Accepts(Top.kind, got_syntax, Here) /\ IsBlock(Here)
  BY DEF Enter, Taken
<1>2. IsStack(frames, file, got_syntax) /\ frames # <<>> /\ IsFrame(Top, got_syntax)
  BY <1>1, OnStack DEF ParserInv, Running, Top
<1>3. Here \in Statements
  BY <1>1, HereFacts
<1>4. Here.body \in Seq(Statements) /\ Here.k \in Blocks
  BY <1>1, <1>3, ParserAssumption DEF IsBlock
<1>5. PICK t : t = [kind |-> Here.k, name |-> Here.name, body |-> Here.body,
                    todo |-> Here.body, events |-> <<>>]
  OBVIOUS
<1>6. /\ t.kind = Here.k /\ t.body = Here.body /\ t.name = Here.name
      /\ t.todo = Here.body /\ t.events = <<>>
      /\ IsFrameRecord(t)
  BY <1>5 DEF IsFrameRecord
<1>7. IsFrame(t, got_syntax)
  <2>1. 0 \in 0 .. Len(t.body)
    BY <1>4, <1>6
  <2>2. t.todo = Rest(t.body, 0)
    BY <1>4, <1>6, RestOfAll
  <2>3. HeardOf(t.events, t.body, 0)
    BY <1>6, HeardNothing
  <2>4. AreEvents(t.events, t.kind, got_syntax)
    BY <1>6, NoEvents
  <2> QED BY <1>4, <1>6, <2>1, <2>2, <2>3, <2>4 DEF IsFrame
<1>8. Here.k \in KindsOf(Top.kind)
  <2>1. Top.kind \in Blocks \cup {"file"}
    BY <1>2 DEF IsFrame
  <2> QED BY <1>1, <1>4, <2>1, BlockTaken
<1>9. Opened(Top, t)
  BY <1>1, <1>4, <1>6, <1>8 DEF Opened, Here
<1>10. frames' = Append(frames, t)
  BY <1>5 DEF Enter
<1>11. file' = file /\ desc' = desc /\ result' = result /\ got_syntax' = got_syntax
  BY DEF Enter
<1>12. IsStack(frames', file', got_syntax')
  BY <1>2, <1>7, <1>9, <1>10, <1>11, Pushed DEF Top
<1>13. got_syntax # "none"
  BY <1>2 DEF ParserInv
<1> QED BY <1>11, <1>12, <1>13, SameResult DEF ParserInv, ScannedSyntax

LEMMA LeaveKeeps ==
  ASSUME ParserInv, Leave
  PROVE  ParserInv'
<1>1. IsStack(frames, file, got_syntax) /\ frames # <<>> /\ Len(frames) > 1 /\ Top.todo = <<>>
  BY DEF ParserInv, Leave, Running
<1>2. PICK outer : outer = frames[Len(frames) - 1]
  OBVIOUS
<1>3. IsFrame(Top, got_syntax) /\ IsFrame(outer, got_syntax) /\ Opened(outer, Top)
  BY <1>1, <1>2, OnStack DEF Top
<1>4. Top.kind \in Blocks /\ Top.body \in Seq(Statements) /\ HeardOf(Top.events, Top.body, Len(Top.body))
  <2>1. Top.kind \in Blocks /\ Top.body \in Seq(Statements)
    BY <1>3 DEF IsFrame, Opened
  <2>2. PICK n \in 0 .. Len(Top.body) : Top.todo = Rest(Top.body, n) /\ HeardOf(Top.events, Top.body, n)
    BY <1>3 DEF IsFrame
  <2>3. n = Len(Top.body)
    BY <1>1, <2>1, <2>2, RestIsEmpty
  <2> QED BY <2>1, <2>2, <2>3
<1>5. outer.body \in Seq(Statements) /\ outer.kind \in Blocks \cup {"file"} /\ outer.todo # <<>>
  BY <1>3 DEF IsFrame, Opened
<1>6. PICK n \in 0 .. Len(outer.body) : outer.todo = Rest(outer.body, n) /\ HeardOf(outer.events, outer.body, n)
  BY <1>3 DEF IsFrame
<1>7. /\ n + 1 \in 0 .. Len(outer.body) /\ n \in Nat
      /\ Head(outer.todo) = outer.body[n + 1]
      /\ Tail(outer.todo) = Rest(outer.body, n + 1)
  BY <1>5, <1>6, RestGoesOn
<1>8. /\ Tells(BlockOf(Top), outer.body[n + 1])
      /\ BlockOf(Top).k = Top.kind
      /\ \E S : Settled(S, got_syntax) /\ BlockOf(Top) \in S
  <2>1. AreEvents(Top.events, Top.kind, got_syntax)
    BY <1>3 DEF IsFrame
  <2>2. /\ outer.body[n + 1].k = Top.kind /\ outer.body[n + 1].body = Top.body
        /\ outer.body[n + 1].name = Top.name
    BY <1>3, <1>7 DEF Opened
  <2> QED BY <1>4, <2>1, <2>2, BlockTells
<1> DEFINE more == Append(outer.events, BlockOf(Top))
<1>9. AreEvents(more, outer.kind, got_syntax) /\ HeardOf(more, outer.body, n + 1)
  <2>0. AreEvents(outer.events, outer.kind, got_syntax)
    BY <1>3 DEF IsFrame
  <2>1. PICK A : outer.events \in Seq(A)
    BY <2>0 DEF AreEvents
  <2>2. AreEvents(more, outer.kind, got_syntax)
    <3>1. PICK S : Settled(S, got_syntax) /\ BlockOf(Top) \in S
      BY <1>8
    <3>2. BlockOf(Top).k \in KindsOf(outer.kind)
      BY <1>3, <1>8 DEF Opened
    <3> QED BY <2>0, <3>1, <3>2, MoreEvents
  <2>3. HeardOf(more, outer.body, n + 1)
    BY <1>6, <1>7, <1>8, <2>1, HeardMore
  <2> QED BY <2>2, <2>3
<1> HIDE DEF more
<1>10. PICK m \in 0 .. Len(outer.body) :
          /\ AfterBlock(Top.kind, Tail(outer.todo)) = Rest(outer.body, m)
          /\ HeardOf(more, outer.body, m)
  BY <1>5, <1>7, <1>9, AfterBlockHeard
<1>11. PICK t \in {MovedOn(outer, AfterBlock(Top.kind, Tail(outer.todo)), more)} : TRUE
  OBVIOUS
<1>12. t = [outer EXCEPT !.todo = AfterBlock(Top.kind, Tail(@)), !.events = Append(@, BlockOf(Top))]
  BY <1>11 DEF more, MovedOn
<1>13. /\ t.kind = outer.kind /\ t.body = outer.body /\ t.name = outer.name
       /\ t.todo = AfterBlock(Top.kind, Tail(outer.todo)) /\ t.events = more
       /\ IsFrameRecord(t)
  BY <1>3, <1>11, GoesOn
<1>14. IsFrame(t, got_syntax)
  BY <1>5, <1>9, <1>10, <1>13 DEF IsFrame
<1>15. frames' = Append(SubSeq(frames, 1, Len(frames) - 2), t)
  BY <1>2, <1>12 DEF Leave
<1>16. file' = file /\ desc' = desc /\ result' = result /\ got_syntax' = got_syntax
  BY DEF Leave
<1>17. IsStack(frames', file', got_syntax')
  BY <1>16, <1>1, <1>2, <1>13, <1>14, <1>15, Popped
<1>18. got_syntax # "none"
  BY <1>1 DEF ParserInv
<1> QED BY <1>16, <1>17, <1>18, SameResult DEF ParserInv, ScannedSyntax

LEMMA ScanSyntaxKeeps ==
  ASSUME ParserInv, ScanSyntax
  PROVE  ParserInv'
<1>1. /\ file' = file /\ desc' = desc /\ file \in Seq(Statements)
      /\ got_syntax = "none" /\ got_syntax' = ScannedSyntax /\ frames = <<>>
  BY DEF ParserInv, ScanSyntax, ScannedSyntax
<1>2. ScannedSyntax \in {"proto2", "proto3"}
  <2>1. CASE file # <<>> /\ file[1].k = "syntax"
    <3>1. file[1] \in Statements
      BY <1>1, <2>1
    <3> QED BY <2>1, <3>1, ParserAssumption DEF ScannedSyntax
  <2>2. CASE ~(file # <<>> /\ file[1].k = "syntax")
    BY <2>2 DEF ScannedSyntax
  <2> QED BY <2>1, <2>2
<1>3. IsStack(frames', file', got_syntax')
  <2>1. CASE frames' = frames
    BY <1>1, <2>1, NoStack
  <2>2. CASE frames' # frames
    <3>1. PICK t : t = [kind |-> "file", name |-> "none", body |-> file, todo |-> file, events |-> <<>>]
      OBVIOUS
    <3>2. frames' = <<t>>
      BY <2>2, <3>1 DEF ScanSyntax
    <3>3. /\ t.kind = "file" /\ t.body = file /\ t.todo = file /\ t.events = <<>>
          /\ IsFrameRecord(t)
      BY <3>1 DEF IsFrameRecord
    <3>4. IsFrame(t, got_syntax')
      <4>1. 0 \in 0 .. Len(t.body)
        BY <1>1, <3>3
      <4>2. t.todo = Rest(t.body, 0)
        BY <1>1, <3>3, RestOfAll
      <4>3. HeardOf(t.events, t.body, 0) /\ AreEvents(t.events, t.kind, got_syntax')
        BY <3>3, HeardNothing, NoEvents
      <4> QED BY <1>1, <3>3, <4>1, <4>2, <4>3 DEF IsFrame
    <3> QED BY <1>1, <3>2, <3>3, <3>4, AtTheFile
  <2> QED BY <2>1, <2>2
<1>4. result' = result \/ result' = "panic"
  BY DEF ScanSyntax
<1>5. CASE result' = result
  BY <1>1, <1>2, <1>3, <1>5, SameResult DEF ParserInv, ScannedSyntax
<1>6. CASE result' = "panic"
  BY <1>1, <1>2, <1>3, <1>6 DEF ParserInv, ScannedSyntax, Understood, ReservedHonoured
<1> QED BY <1>4, <1>5, <1>6

\* What file_descriptor makes of the syntax statement is what scan_syntax found.
LEMMA SyntaxAgrees ==
  ASSUME file \in Seq(Statements), NEW A, NEW events \in Seq(A), HeardOf(events, file, Len(file)), SyntaxFirst
  PROVE  LastOf(events, "syntax", "proto2") = ScannedSyntax
<1> DEFINE at == {i \in DOMAIN events : events[i].k = "syntax"}
<1>1. CASE at = {}
  <2>1. LastOf(events, "syntax", "proto2") = "proto2"
    BY <1>1 DEF LastOf
  <2>2. ASSUME file # <<>>, file[1].k = "syntax"
        PROVE  FALSE
    <3>1. file[1] \in ToSet(file)
      BY <2>2 DEF ToSet
    <3>2. PICK i \in DOMAIN events : Tells(events[i], file[1])
      BY <2>2, <3>1, BodyHeard DEF Telling
    <3>3. events[i].k = "syntax"
      BY <2>2, <3>2 DEF Tells, TellsAll
    <3> QED BY <1>1, <3>3
  <2> QED BY <2>1, <2>2 DEF ScannedSyntax
<1>2. CASE at # {}
  <2>1. at \in SUBSET (1 .. Len(events)) /\ Len(events) \in Nat
    OBVIOUS
  <2>2. PICK p \in at : p = Max(at)
    BY <1>2, <2>1, MaxIsIn
  <2>3. LastOf(events, "syntax", "proto2") = events[p].said
    BY <1>2, <2>2 DEF LastOf
  <2>4. PICK j \in 1 .. Len(file) : Tells(events[p], file[j])
    BY DEF HeardOf
  <2>5. events[p].k = "syntax"
    OBVIOUS
  <2>6. file[j].k = "syntax" /\ events[p].said = file[j].says
    BY <2>4, <2>5 DEF Tells, TellsAll
  <2>7. j = 1
    BY <2>6 DEF SyntaxFirst
  <2>8. file # <<>>
    OBVIOUS
  <2> QED BY <2>3, <2>6, <2>7, <2>8 DEF ScannedSyntax
<1> QED BY <1>1, <1>2

\* What the sanity checks find in order honours what is reserved.
LEMMA SaneHonours ==
  ASSUME file \in Seq(Statements), NEW A, NEW events \in Seq(A), HeardOf(events, file, Len(file)),
         IsSane(DescriptorOf(events)),
         NEW msg \in ToSet(file), msg.k = "message",
         NEW r \in ToSet(msg.body), r.k = "reserved", AtMostOne(msg.body, r.form),
         NEW f \in FieldStatements(msg.body)
  PROVE  IF r.form = "nums" THEN f.number \notin r.nums ELSE f.name \notin r.names
<1>1. PICK i \in DOMAIN events : Tells(events[i], msg)
  BY BodyHeard DEF Telling, Named, Blocks
<1>2. PICK e : e = events[i]
  OBVIOUS
<1>3. e.k = "message" /\ IsMessage(e, msg.body)
  BY <1>1, <1>2 DEF Tells, TellsReserved
<1>4. e \in EventsOf(events, "message")
  BY <1>2, <1>3 DEF EventsOf
<1>5. DescriptorOf(events).messages = EventsOf(events, "message")
  BY DEF DescriptorOf
<1>6. PICK g \in AllFields(e) : g.number = f.number /\ g.name = f.name
  BY <1>3 DEF IsMessage
<1>7. ~Conflicts(g, e)
  BY <1>4, <1>5, <1>6 DEF IsSane
<1>8. IF r.form = "nums" THEN e.reserved_nums = r.nums ELSE e.reserved_names = r.names
  BY <1>3 DEF IsMessage
<1> QED BY <1>6, <1>7, <1>8 DEF Conflicts

LEMMA TopOfDescriptor ==
  ASSUME NEW events, NEW syntax, AreEvents(events, "file", syntax), NEW d, d = DescriptorOf(events), NEW e
  PROVE  e \in d.messages \cup d.enums \cup d.rpc_services \cup d.message_extends \cup d.import_paths
           <=> e.k \in Named /\ \E i \in DOMAIN events : e = events[i]
<1>1. /\ d.messages = EventsOf(events, "message") /\ d.enums = EventsOf(events, "enum")
      /\ d.rpc_services = EventsOf(events, "service") /\ d.message_extends = EventsOf(events, "extend")
      /\ d.import_paths = EventsOf(events, "import")
  BY DEF DescriptorOf
<1>2. \A i \in DOMAIN events :
        events[i].k \in Named <=> events[i].k \in {"message", "enum", "service", "extend", "import"}
  BY DEF AreEvents, KindsOf, Named, Blocks
<1> QED BY <1>1, <1>2 DEF EventsOf

LEMMA EndOfFileKeeps ==
  ASSUME ParserInv, EndOfFile
  PROVE  ParserInv'
<1>1. /\ IsStack(frames, file, got_syntax) /\ frames # <<>> /\ Len(frames) = 1
      /\ Top.todo = <<>> /\ file \in Seq(Statements)
  BY DEF ParserInv, EndOfFile, Running
<1>2. IsFrame(Top, got_syntax) /\ Top.kind = "file" /\ Top.body = file
  BY <1>1, OnStack DEF Top
<1>3. PICK events : events = Top.events
  OBVIOUS
<1>4. AreEvents(events, "file", got_syntax) /\ HeardOf(events, file, Len(file))
  <2>1. PICK n \in 0 .. Len(file) : Top.todo = Rest(file, n) /\ HeardOf(Top.events, file, n)
    BY <1>2 DEF IsFrame
  <2>2. n = Len(file)
    BY <1>1, <2>1, RestIsEmpty
  <2> QED BY <1>2, <1>3, <2>1, <2>2 DEF IsFrame
<1>5. PICK A : events \in Seq(A)
  BY <1>4 DEF AreEvents
<1>6. /\ file' = file /\ got_syntax' = got_syntax /\ frames' = <<>> /\ desc' = DescriptorOf(events)
      /\ result' = "ok" => IsSane(DescriptorOf(events))
  BY <1>3 DEF EndOfFile
<1>7. IsStack(frames', file', got_syntax')
  BY <1>6, NoStack
<1>8. got_syntax # "none" /\ got_syntax = ScannedSyntax
  BY <1>1 DEF ParserInv
<1>9. \A e : e \in TopNodes' <=> e.k \in Named /\ \E i \in DOMAIN events : e = events[i]
  BY <1>4, <1>6, TopOfDescriptor DEF TopNodes
<1>10. \E R : Faithful(R) /\ Alike(R, TopNodes', ToSet(file))
  <2>1. PICK nodes : nodes = TopNodes'
    OBVIOUS
  <2> QED BY <1>1, <1>4, <1>9, <2>1, BodyUnderstood
<1>11. ASSUME SyntaxFirst
       PROVE  \E S : Settled(S, desc'.syntax) /\ TopNodes' \subseteq S
  <2>1. desc'.syntax = LastOf(events, "syntax", "proto2")
    BY <1>6 DEF DescriptorOf
  <2>2. desc'.syntax = got_syntax
    BY <1>1, <1>4, <1>5, <1>8, <1>11, <2>1, SyntaxAgrees
  <2>3. PICK S : Settled(S, got_syntax) /\ \A i \in DOMAIN events : events[i] \in S
    BY <1>4 DEF AreEvents
  <2>4. TopNodes' \subseteq S
    BY <1>9, <2>3
  <2> QED BY <2>2, <2>3, <2>4
<1>12. Understood'
  BY <1>6, <1>10, <1>11 DEF Understood, SyntaxFirst
<1>13. ASSUME result' = "ok",
              NEW msg \in { s \in ToSet(file) : s.k = "message" },
              NEW r \in { s \in ToSet(msg.body) : s.k = "reserved" },
              AtMostOne(msg.body, r.form),
              NEW f \in FieldStatements(msg.body)
       PROVE  IF r.form = "nums" THEN f.number \notin r.nums ELSE f.name \notin r.names
  BY <1>1, <1>4, <1>5, <1>6, <1>13, SaneHonours
<1>14. ReservedHonoured'
  BY <1>6, <1>13 DEF ReservedHonoured
<1> QED BY <1>1, <1>6, <1>7, <1>8, <1>12, <1>14 DEF ParserInv, ScannedSyntax

LEMMA ParserNextInv == ParserInv /\ [ParserNext]_parserVars => ParserInv'
<1> SUFFICES ASSUME ParserInv, [ParserNext]_parserVars
             PROVE  ParserInv'
  OBVIOUS
<1>1. CASE Panic
  <2>1. file' = file /\ frames' = frames /\ got_syntax' = got_syntax /\ result' = "panic"
    BY <1>1 DEF Panic
  <2> QED BY <2>1 DEF ParserInv, ScannedSyntax, Understood, ReservedHonoured
<1>2. CASE TrailingGarbage
  <2>1. /\ file' = file /\ frames' = <<>> /\ got_syntax' = got_syntax /\ result' = "TrailingGarbage"
        /\ frames # <<>>
    BY <1>2 DEF TrailingGarbage, Running
  <2>2. IsStack(frames', file', got_syntax')
    BY <2>1, NoStack
  <2> QED BY <2>1, <2>2 DEF ParserInv, ScannedSyntax, Understood, ReservedHonoured
<1>3. CASE UNCHANGED parserVars
  <2>1. file' = file /\ frames' = frames /\ got_syntax' = got_syntax /\ desc' = desc /\ result' = result
    BY <1>3 DEF parserVars
  <2> QED BY <2>1, SameResult DEF ParserInv, ScannedSyntax
<1> QED BY <1>1, <1>2, <1>3, ScanSyntaxKeeps, TakeKeeps, EnterKeeps, LeaveKeeps, EndOfFileKeeps DEF ParserNext

\* The blocks on the stack are nested as the text is, and each has heard of
\* every statement of its body that it is past, with what that statement says
\* and, of a block, all that is in it (parser.rs: the folds over the events in
\* `message`, `one_of`, `enumerator` and `file_descriptor`).
THEOREM ParserInvariant == ParserSpec => []ParserInv
<1> QED BY ParserInitInv, ParserNextInv, PTL DEF ParserSpec

\* read_proto accepts no file in which a field of a message at the top takes a
\* number or a name that the message reserves, in a statement that is the only
\* one of its form.
THEOREM ReservedNumbersHonoured == ParserSpec => []ReservedHonoured
<1>1. ParserInv => ReservedHonoured
  BY DEF ParserInv
<1> QED BY <1>1, ParserInvariant, PTL

----------------------------------------------------------------------------
(* From depth to depth.                                                    *)

\* What is declared at the next depth, or what has been heard there.
DeclaredBelow(D) ==
  UNION { { <<Append(d[1], d[2].name), s>> : s \in ToSet(d[2].body) } : d \in { x \in D : IsBlock(x[2]) } }
HeardBelow(H) ==
  UNION { { <<Append(h[1], h[2].name), e>> : e \in Inside(h[2]) } : h \in { x \in H : IsBlock(x[2]) } }
Below(what, S) == IF what = "heard" THEN HeardBelow(S) ELSE DeclaredBelow(S)

AreLevels(f, base, n, what) == f = [i \in 0 .. n |-> IF i = 0 THEN base ELSE Below(what, f[i - 1])]

LEMMA LevelsExist ==
  ASSUME NEW base, NEW n \in Nat, NEW what
  PROVE  \E f : AreLevels(f, base, n, what)
<1> DEFINE Is(f, m) == f = [i \in 0 .. m |-> IF i = 0 THEN base ELSE Below(what, f[i - 1])]
           T == {m \in Nat : ~ \E f : Is(f, m)}
<1>1. SUFFICES ASSUME T # {}
               PROVE  FALSE
  BY DEF AreLevels
<1>2. PICK m \in T : \A y \in T : m <= y
  <2>1. T \in SUBSET Nat
    OBVIOUS
  <2> HIDE DEF T
  <2> QED BY <1>1, <2>1, LeastNatural
<1>3. m \in Nat /\ ~ \E f : Is(f, m)
  OBVIOUS
<1>4. CASE m = 0
  <2>1. PICK f : f = [i \in 0 .. 0 |-> base]
    OBVIOUS
  <2>2. Is(f, 0)
    BY <2>1
  <2> QED BY <1>3, <1>4, <2>2
<1>5. CASE m # 0
  <2>1. m - 1 \in Nat /\ ~(m <= m - 1)
    BY <1>3, <1>5
  <2>2. PICK f : Is(f, m - 1)
    BY <1>2, <2>1
  <2> DEFINE v == Below(what, f[m - 1])
  <2>3. PICK g : g = [i \in 0 .. m |-> IF i = m THEN v ELSE f[i]]
    OBVIOUS
  <2>4. \A i \in 0 .. m - 1 : g[i] = f[i] /\ f[i] = IF i = 0 THEN base ELSE Below(what, f[i - 1])
    <3> HIDE DEF v
    <3>1. \A i \in 0 .. m - 1 : i \in 0 .. m /\ i # m
      BY <1>3
    <3>2. \A i \in 0 .. m - 1 : g[i] = f[i]
      BY <2>3, <3>1
    <3>3. \A i \in 0 .. m - 1 : f[i] = IF i = 0 THEN base ELSE Below(what, f[i - 1])
      BY <2>2
    <3> QED BY <3>2, <3>3
  <2>5. g[m] = v
    <3> HIDE DEF v
    <3>1. m \in 0 .. m
      BY <1>3
    <3> QED BY <2>3, <3>1
  <2>6. ASSUME NEW i \in 0 .. m
        PROVE  g[i] = IF i = 0 THEN base ELSE Below(what, g[i - 1])
    <3>1. CASE i = m
      <4>1. m - 1 \in 0 .. m - 1
        BY <2>1
      <4>2. g[m - 1] = f[m - 1]
        BY <2>4, <4>1
      <4> QED BY <1>5, <2>5, <3>1, <4>2
    <3>2. CASE i # m
      <4>1. i \in 0 .. m - 1 /\ (i # 0 => i - 1 \in 0 .. m - 1)
        BY <1>3, <3>2
      <4>2. i # 0 => g[i - 1] = f[i - 1]
        BY <2>4, <4>1
      <4> QED BY <2>4, <4>1, <4>2
    <3> QED BY <3>1, <3>2
  <2>7. g = [i \in 0 .. m |-> g[i]]
    <3> HIDE DEF v
    <3> QED BY <2>3
  <2>8. Is(g, m)
    <3> HIDE DEF v
    <3> QED BY <2>6, <2>7
  <2> QED BY <1>3, <2>8
<1> QED BY <1>4, <1>5

LEMMA DeclaredAtIs ==
  /\ DeclaredAt[0] = { <<<<>>, s>> : s \in ToSet(file) }
  /\ \A n \in 0 .. Depth : n # 0 => DeclaredAt[n] = DeclaredBelow(DeclaredAt[n - 1])
<1> DEFINE base == { <<<<>>, s>> : s \in ToSet(file) }
<1>1. \E f : f = [n \in 0 .. Depth |-> IF n = 0 THEN base ELSE DeclaredBelow(f[n - 1])]
  <2>1. \A S : Below("declared", S) = DeclaredBelow(S)
    BY DEF Below
  <2> HIDE DEF base
  <2>2. PICK f : AreLevels(f, base, Depth, "declared")
    BY ParserAssumption, LevelsExist
  <2>3. f = [n \in 0 .. Depth |-> IF n = 0 THEN base ELSE Below("declared", f[n - 1])]
    BY <2>2 DEF AreLevels
  <2>4. f = [n \in 0 .. Depth |-> IF n = 0 THEN base ELSE DeclaredBelow(f[n - 1])]
    BY <2>1, <2>3
  <2> QED BY <2>4
<1>2. DeclaredAt = [n \in 0 .. Depth |-> IF n = 0 THEN base ELSE DeclaredBelow(DeclaredAt[n - 1])]
  BY <1>1 DEF DeclaredAt, DeclaredBelow
<1> HIDE DEF base
<1>3. 0 \in 0 .. Depth
  BY ParserAssumption
<1>4. \A n \in 0 .. Depth : DeclaredAt[n] = IF n = 0 THEN base ELSE DeclaredBelow(DeclaredAt[n - 1])
  BY <1>2
<1> QED BY <1>3, <1>4 DEF base

LEMMA HeardAtIs ==
  /\ HeardAt[0] = { <<<<>>, e>> : e \in TopNodes }
  /\ \A n \in 0 .. Depth : n # 0 => HeardAt[n] = HeardBelow(HeardAt[n - 1])
<1> DEFINE base == { <<<<>>, e>> : e \in TopNodes }
<1>1. \E f : f = [n \in 0 .. Depth |-> IF n = 0 THEN base ELSE HeardBelow(f[n - 1])]
  <2>1. \A S : Below("heard", S) = HeardBelow(S)
    BY DEF Below
  <2> HIDE DEF base
  <2>2. PICK f : AreLevels(f, base, Depth, "heard")
    BY ParserAssumption, LevelsExist
  <2>3. f = [n \in 0 .. Depth |-> IF n = 0 THEN base ELSE Below("heard", f[n - 1])]
    BY <2>2 DEF AreLevels
  <2>4. f = [n \in 0 .. Depth |-> IF n = 0 THEN base ELSE HeardBelow(f[n - 1])]
    BY <2>1, <2>3
  <2> QED BY <2>4
<1>2. HeardAt = [n \in 0 .. Depth |-> IF n = 0 THEN base ELSE HeardBelow(HeardAt[n - 1])]
  BY <1>1 DEF HeardAt, HeardBelow
<1> HIDE DEF base
<1>3. 0 \in 0 .. Depth
  BY ParserAssumption
<1>4. \A n \in 0 .. Depth : HeardAt[n] = IF n = 0 THEN base ELSE HeardBelow(HeardAt[n - 1])
  BY <1>2
<1> QED BY <1>3, <1>4 DEF base

\* At one depth all is the same, and the blocks are related by R.
AlikeAt(R, D, H) ==
  /\ \A d \in D : d[2].k \in Named =>
       \E h \in H : h[1] = d[1] /\ Keeps(h[2], d[2]) /\ (IsBlock(d[2]) => <<h[2], d[2]>> \in R)
  /\ \A h \in H : \E d \in D : h[1] = d[1] /\ ComesOf(h[2], d[2]) /\ (IsBlock(h[2]) => <<h[2], d[2]>> \in R)

LEMMA AlikeBelow ==
  ASSUME NEW R, Faithful(R), NEW D, NEW H, AlikeAt(R, D, H)
  PROVE  AlikeAt(R, DeclaredBelow(D), HeardBelow(H))
<1>1. ASSUME NEW x \in DeclaredBelow(D), x[2].k \in Named
      PROVE  \E y \in HeardBelow(H) :
               y[1] = x[1] /\ Keeps(y[2], x[2]) /\ (IsBlock(x[2]) => <<y[2], x[2]>> \in R)
  <2>0. PICK d \in D : IsBlock(d[2]) /\ \E s \in ToSet(d[2].body) : x = <<Append(d[1], d[2].name), s>>
    BY DEF DeclaredBelow
  <2>1. PICK s \in ToSet(d[2].body) : IsBlock(d[2]) /\ x = <<Append(d[1], d[2].name), s>>
    BY <2>0
  <2>2. d[2].k \in Named
    BY <2>1 DEF IsBlock, Named
  <2>3. PICK h \in H : h[1] = d[1] /\ Keeps(h[2], d[2]) /\ <<h[2], d[2]>> \in R
    BY <2>1, <2>2 DEF AlikeAt
  <2>4. IsBlock(h[2]) /\ h[2].name = d[2].name /\ Alike(R, Inside(h[2]), ToSet(d[2].body))
    BY <2>3 DEF Faithful
  <2>5. s.k \in Named
    BY <1>1, <2>1
  <2>6. PICK e \in Inside(h[2]) : Keeps(e, s) /\ (IsBlock(s) => <<e, s>> \in R)
    BY <2>1, <2>4, <2>5 DEF Alike
  <2>7. PICK y : y = <<Append(h[1], h[2].name), e>>
    OBVIOUS
  <2>8. y \in HeardBelow(H)
    BY <2>3, <2>4, <2>6, <2>7 DEF HeardBelow
  <2>9. y[1] = x[1] /\ y[2] = e /\ x[2] = s
    BY <2>1, <2>3, <2>4, <2>7
  <2> QED BY <2>6, <2>8, <2>9
<1>2. ASSUME NEW y \in HeardBelow(H)
      PROVE  \E x \in DeclaredBelow(D) :
               y[1] = x[1] /\ ComesOf(y[2], x[2]) /\ (IsBlock(y[2]) => <<y[2], x[2]>> \in R)
  <2>0. PICK h \in H : IsBlock(h[2]) /\ \E e \in Inside(h[2]) : y = <<Append(h[1], h[2].name), e>>
    BY DEF HeardBelow
  <2>1. PICK e \in Inside(h[2]) : IsBlock(h[2]) /\ y = <<Append(h[1], h[2].name), e>>
    BY <2>0
  <2>2. PICK d \in D : h[1] = d[1] /\ <<h[2], d[2]>> \in R
    BY <2>1 DEF AlikeAt
  <2>3. IsBlock(d[2]) /\ h[2].name = d[2].name /\ Alike(R, Inside(h[2]), ToSet(d[2].body))
    BY <2>2 DEF Faithful
  <2>4. PICK s \in ToSet(d[2].body) : ComesOf(e, s) /\ (IsBlock(e) => <<e, s>> \in R)
    BY <2>1, <2>3 DEF Alike
  <2>5. PICK x : x = <<Append(d[1], d[2].name), s>>
    OBVIOUS
  <2>6. x \in DeclaredBelow(D)
    BY <2>2, <2>3, <2>4, <2>5 DEF DeclaredBelow
  <2>7. y[1] = x[1] /\ y[2] = e /\ x[2] = s
    BY <2>1, <2>2, <2>3, <2>5
  <2> QED BY <2>4, <2>6, <2>7
<1> QED BY <1>1, <1>2 DEF AlikeAt

\* Of the depths at which something fails there is a first one.
LEMMA FirstDepth ==
  ASSUME NEW bad \in SUBSET (0 .. Depth), bad # {}
  PROVE  \E n \in bad : n = 0 \/ (n - 1 \in 0 .. Depth /\ n - 1 \notin bad)
<1>1. bad \in SUBSET Nat
  BY ParserAssumption
<1>2. PICK n \in bad : \A m \in bad : n <= m
  BY <1>1, LeastNatural
<1>3. n \in Nat /\ n <= Depth /\ Depth \in Nat
  BY <1>1, ParserAssumption
<1>4. n # 0 => n - 1 \in 0 .. Depth /\ ~(n <= n - 1)
  BY <1>3
<1> QED BY <1>2, <1>4

LEMMA AlikeAtEveryDepth ==
  ASSUME NEW R, Faithful(R), Alike(R, TopNodes, ToSet(file))
  PROVE  \A n \in 0 .. Depth : AlikeAt(R, DeclaredAt[n], HeardAt[n])
<1> DEFINE bad == {n \in 0 .. Depth : ~ AlikeAt(R, DeclaredAt[n], HeardAt[n])}
<1>1. SUFFICES ASSUME bad # {}
               PROVE  FALSE
  OBVIOUS
<1>2. PICK n \in bad : n = 0 \/ (n - 1 \in 0 .. Depth /\ n - 1 \notin bad)
  <2>1. bad \in SUBSET (0 .. Depth)
    OBVIOUS
  <2> HIDE DEF bad
  <2> QED BY <1>1, <2>1, FirstDepth
<1>3. CASE n = 0
  <2>1. AlikeAt(R, { <<<<>>, s>> : s \in ToSet(file) }, { <<<<>>, e>> : e \in TopNodes })
    <3> DEFINE D == { <<<<>>, s>> : s \in ToSet(file) }
               H == { <<<<>>, e>> : e \in TopNodes }
    <3>1. ASSUME NEW d \in D, d[2].k \in Named
          PROVE  \E h \in H : h[1] = d[1] /\ Keeps(h[2], d[2]) /\ (IsBlock(d[2]) => <<h[2], d[2]>> \in R)
      <4>1. PICK s \in ToSet(file) : d = <<<<>>, s>>
        OBVIOUS
      <4>2. PICK e \in TopNodes : Keeps(e, s) /\ (IsBlock(s) => <<e, s>> \in R)
        BY <3>1, <4>1 DEF Alike
      <4>3. PICK h \in H : h = <<<<>>, e>>
        OBVIOUS
      <4> QED BY <4>1, <4>2, <4>3
    <3>2. ASSUME NEW h \in H
          PROVE  \E d \in D : h[1] = d[1] /\ ComesOf(h[2], d[2]) /\ (IsBlock(h[2]) => <<h[2], d[2]>> \in R)
      <4>1. PICK e \in TopNodes : h = <<<<>>, e>>
        OBVIOUS
      <4>2. PICK s \in ToSet(file) : ComesOf(e, s) /\ (IsBlock(e) => <<e, s>> \in R)
        BY DEF Alike
      <4>3. PICK d \in D : d = <<<<>>, s>>
        OBVIOUS
      <4> QED BY <4>1, <4>2, <4>3
    <3> QED BY <3>1, <3>2 DEF AlikeAt
  <2> QED BY <1>3, <2>1, DeclaredAtIs, HeardAtIs
<1>4. CASE n # 0
  <2>1. AlikeAt(R, DeclaredAt[n - 1], HeardAt[n - 1])
    BY <1>2, <1>4
  <2>2. AlikeAt(R, DeclaredBelow(DeclaredAt[n - 1]), HeardBelow(HeardAt[n - 1]))
    BY <2>1, AlikeBelow
  <2>3. DeclaredAt[n] = DeclaredBelow(DeclaredAt[n - 1]) /\ HeardAt[n] = HeardBelow(HeardAt[n - 1])
    BY <1>4, DeclaredAtIs, HeardAtIs
  <2> QED BY <2>2, <2>3
<1> QED BY <1>3, <1>4

LEMMA SettledAtEveryDepth ==
  ASSUME NEW S, NEW syntax, Settled(S, syntax), TopNodes \subseteq S
  PROVE  \A n \in 0 .. Depth : \A h \in HeardAt[n] : h[2] \in S
<1> DEFINE bad == {n \in 0 .. Depth : ~ \A h \in HeardAt[n] : h[2] \in S}
<1>1. SUFFICES ASSUME bad # {}
               PROVE  FALSE
  OBVIOUS
<1>2. PICK n \in bad : n = 0 \/ (n - 1 \in 0 .. Depth /\ n - 1 \notin bad)
  <2>1. bad \in SUBSET (0 .. Depth)
    OBVIOUS
  <2> HIDE DEF bad
  <2> QED BY <1>1, <2>1, FirstDepth
<1>3. CASE n = 0
  <2>1. \A h \in { <<<<>>, e>> : e \in TopNodes } : h[2] \in S
    OBVIOUS
  <2> QED BY <1>3, <2>1, HeardAtIs
<1>4. CASE n # 0
  <2>1. \A h \in HeardAt[n - 1] : h[2] \in S
    BY <1>2, <1>4
  <2>2. HeardAt[n] = HeardBelow(HeardAt[n - 1])
    BY <1>4, HeardAtIs
  <2>3. ASSUME NEW y \in HeardBelow(HeardAt[n - 1])
        PROVE  y[2] \in S
    <3>0. PICK h \in HeardAt[n - 1] :
             IsBlock(h[2]) /\ \E e \in Inside(h[2]) : y = <<Append(h[1], h[2].name), e>>
      BY DEF HeardBelow
    <3>1. PICK e \in Inside(h[2]) : y = <<Append(h[1], h[2].name), e>>
      BY <3>0
    <3> QED BY <2>1, <3>0, <3>1 DEF Settled
  <2> QED BY <2>2, <2>3
<1> QED BY <1>3, <1>4

\* In a file that is accepted every field, value, rpc, import and block, at every
\* depth, is heard under its own block, a field with the one option it may have,
\* and what is heard is declared there (message, one_of, enumerator,
\* file_descriptor).  It is not said of reserved statements, nor of the options
\* of a field with several, and an option with a number may come out as a field.
THEOREM AcceptedMeansAllThere == ParserSpec => []OkMeansAllThere
<1>1. ASSUME ParserInv
      PROVE  OkMeansAllThere
  <2>1. SUFFICES ASSUME result = "ok"
                 PROVE  \A n \in 0 .. Depth :
                          /\ \A d \in DeclaredAt[n] :
                               d[2].k \in Named => \E h \in HeardAt[n] : h[1] = d[1] /\ Keeps(h[2], d[2])
                          /\ \A h \in HeardAt[n] :
                               \E d \in DeclaredAt[n] : d[1] = h[1] /\ ComesOf(h[2], d[2])
    BY Zenon DEF OkMeansAllThere
  <2>2. PICK R : Faithful(R) /\ Alike(R, TopNodes, ToSet(file))
    BY <1>1, <2>1 DEF ParserInv, Understood
  <2>3. \A n \in 0 .. Depth : AlikeAt(R, DeclaredAt[n], HeardAt[n])
    BY <2>2, AlikeAtEveryDepth
  <2> QED BY <2>3, Zenon DEF AlikeAt
<1> QED BY <1>1, ParserInvariant, PTL

\* Where the syntax statement comes first, the fields at every depth have the
\* syntax that the descriptor has.
THEOREM OneSyntaxGoverns == ParserSpec => []SyntaxGoverns
<1>1. ASSUME ParserInv
      PROVE  SyntaxGoverns
  <2>1. SUFFICES ASSUME result = "ok", SyntaxFirst
                 PROVE  \A n \in 0 .. Depth : \A h \in HeardAt[n] :
                          h[2].k = "field" => h[2].frequency[1] = desc.syntax
    BY Zenon DEF SyntaxGoverns
  <2>2. PICK S : Settled(S, desc.syntax) /\ TopNodes \subseteq S
    BY <1>1, <2>1 DEF ParserInv, Understood
  <2>3. \A n \in 0 .. Depth : \A h \in HeardAt[n] : h[2] \in S
    BY <2>2, SettledAtEveryDepth
  <2> QED BY <2>2, <2>3 DEF Settled
<1> QED BY <1>1, ParserInvariant, PTL
=============================================================================

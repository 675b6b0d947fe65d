-------------------------------- MODULE Scc --------------------------------
(***************************************************************************)
(* The strongly connected components of the message graph (scc.rs).        *)
(*                                                                         *)
(* Before boxing anything, pb-rs asks which messages embed each other: a   *)
(* message that stores another one inline (a field neither boxed nor       *)
(* repeated) is an edge.  sccs() is Tarjan's algorithm written as a        *)
(* recursive function with its state in `&mut` arguments.  Here the Rust   *)
(* call stack is the variable `calls`, so that every step between two      *)
(* recursive calls is a state.                                             *)
(*                                                                         *)
(* A vertex is the position of a message in flatten_messages(), which the  *)
(* main loop follows.  The fields of a message are visited in any order:   *)
(* the proof that the components are right does not depend on it.          *)
(* A second field with the same target finds the target visited and        *)
(* changes nothing, so edges are a set.                                    *)
(***************************************************************************)
EXTENDS Integers, Sequences, FiniteSets, SequencesExt

CONSTANTS
  N,          \* vertices.len()
  Graphs      \* the sets of edges to explore

Vertices == 1 .. N

ASSUME SccAssumption ==
  /\ N \in Nat
  /\ Graphs \subseteq SUBSET (Vertices \X Vertices)

VARIABLES
  edges,   \* u embeds v: an inline field of u has message v as its type
  disc,    \* the moment a vertex was entered, -1 before that
  low,     \* the earliest open vertex its subtree is known to reach
  count,   \* the next moment
  stack,   \* entered vertices whose component is still open, last on top
  calls,   \* the calls of scc() in progress, each with its fields to visit
  sccs     \* the components found, in the order they were pushed

sccVars == <<edges, disc, low, count, stack, calls, sccs>>

----------------------------------------------------------------------------
Targets(u) == {v \in Vertices : <<u, v>> \in edges}
Unvisited(v) == disc[v] = -1
(* A mutant: a vertex met before is taken for an open one. *)
MetBefore(v) == ~Unvisited(v)
OnStack(v) == v \in ToSet(stack)
Lower(a, b) == IF a < b THEN a ELSE b

Top == Last(calls)

(* The caller's frame once the field that leads to v is behind it. *)
Visited(v) == Append(Front(calls), [Top EXCEPT !.todo = @ \ {v}])

(* The first lines of scc(u), called from `below`. *)
Enter(u, below) ==
  /\ disc' = [disc EXCEPT ![u] = count]
  /\ low' = [low EXCEPT ![u] = count]
  /\ count' = count + 1
  /\ stack' = Append(stack, u)
  /\ calls' = Append(below, [vertex |-> u, todo |-> Targets(u)])
  /\ UNCHANGED <<edges, sccs>>

(* A mutant: scc is only called on the first message. *)
RootFirst(u) ==
  /\ calls = <<>>
  /\ Unvisited(u)
  /\ u = 1
  /\ Enter(u, <<>>)

(* sccs(): the loop over the vertices calls scc on the unvisited ones. *)
Root(u) ==
  /\ calls = <<>>
  /\ Unvisited(u)
  /\ \A v \in 1 .. (u - 1) : ~Unvisited(v)
  /\ Enter(u, <<>>)

VisitNew(v) ==
  /\ calls # <<>>
  /\ v \in Top.todo
  /\ Unvisited(v)
  /\ Enter(v, Visited(v))

(* A vertex met again while its component is open: a back or cross edge. *)
VisitOpen(v) ==
  /\ calls # <<>>
  /\ v \in Top.todo
  /\ ~Unvisited(v)
  /\ OnStack(v)
  /\ low' = [low EXCEPT ![Top.vertex] = Lower(@, disc[v])]
  /\ calls' = Visited(v)
  /\ UNCHANGED <<edges, disc, count, stack, sccs>>

(* A vertex whose component has been emitted is ignored. *)
VisitClosed(v) ==
  /\ calls # <<>>
  /\ v \in Top.todo
  /\ ~Unvisited(v)
  /\ ~OnStack(v)
  /\ calls' = Visited(v)
  /\ UNCHANGED <<edges, disc, low, count, stack, sccs>>

(* The stack from u to its top, in the order pop() returns it. *)
PositionOf(u) == CHOOSE i \in DOMAIN stack : stack[i] = u
(* A mutant: the loop breaks before u is pushed. *)
PoppedAbove(u) == Reverse(SubSeq(stack, PositionOf(u) + 1, Len(stack)))
PoppedTo(u) == Reverse(SubSeq(stack, PositionOf(u), Len(stack)))

(* A mutant: the newest component first. *)
EmitFirst(u) ==
  IF low[u] = disc[u]
  THEN /\ stack' = SubSeq(stack, 1, PositionOf(u) - 1)
       /\ sccs' = <<PoppedTo(u)>> \o sccs
  ELSE UNCHANGED <<stack, sccs>>

Emit(u) ==
  IF low[u] = disc[u]
  THEN /\ stack' = SubSeq(stack, 1, PositionOf(u) - 1)
       /\ sccs' = Append(sccs, PoppedTo(u))
  ELSE UNCHANGED <<stack, sccs>>

(* A mutant: the recursive call leaves the caller's low alone. *)
DropChildLow(u) ==
  /\ calls' = Front(calls)
  /\ low' = low

(* The caller goes on after the recursive call: its low takes the child's. *)
HandToParent(u) ==
  /\ calls' = Front(calls)
  /\ low' = IF Len(calls) = 1 THEN low
            ELSE LET parent == calls[Len(calls) - 1].vertex
                 IN  [low EXCEPT ![parent] = Lower(@, low[u])]

Return ==
  /\ calls # <<>>
  /\ Top.todo = {}
  /\ Emit(Top.vertex)
  /\ HandToParent(Top.vertex)
  /\ UNCHANGED <<edges, disc, count>>

SccDone == calls = <<>> /\ \A v \in Vertices : ~Unvisited(v)

----------------------------------------------------------------------------
SccInit ==
  /\ edges \in Graphs
  /\ disc = [v \in Vertices |-> -1]
  /\ low = [v \in Vertices |-> -1]
  /\ count = 0
  /\ stack = <<>>
  /\ calls = <<>>
  /\ sccs = <<>>

SccNext ==
  \/ \E u \in Vertices : Root(u)
  \/ \E v \in Vertices : VisitNew(v) \/ VisitOpen(v) \/ VisitClosed(v)
  \/ Return

----------------------------------------------------------------------------
(* v can be reached from u: no set closed under edges has u and not v. *)
Closed(S) == \A e \in edges : e[1] \in S => e[2] \in S
Reaches(u, v) == \A S \in SUBSET Vertices : Closed(S) /\ u \in S => v \in S

(***************************************************************************)
(* What break_cycles relies on: a component in the result is exactly a     *)
(* class of messages that embed each other, and it never has to be         *)
(* revised.  Fields between two components are not looked at again, so a   *)
(* message missing here would be an unbroken cycle, and one too many a     *)
(* needless box.                                                           *)
(***************************************************************************)
EmittedAreComponents ==
  \A i \in DOMAIN sccs : \A u \in ToSet(sccs[i]), v \in Vertices :
    v \in ToSet(sccs[i]) <=> Reaches(u, v) /\ Reaches(v, u)

(***************************************************************************)
(* Components come out in reverse topological order: an emitted message    *)
(* embeds only messages of its own component or of one emitted before.     *)
(***************************************************************************)
EmittedAfterWhatTheyEmbed ==
  \A i \in DOMAIN sccs : \A e \in edges :
    e[1] \in ToSet(sccs[i]) => \E j \in 1 .. i : e[2] \in ToSet(sccs[j])

(***************************************************************************)
(* Every entered message is in exactly one place: on the stack, or once in *)
(* one component.  break_cycles visits the components through `&mut self`  *)
(* and would box twice or never otherwise.                                 *)
(***************************************************************************)
EachOnce ==
  \A v \in Vertices :
    Cardinality({i \in DOMAIN stack : stack[i] = v})
      + Cardinality({p \in (DOMAIN sccs) \X Vertices :
                       p[2] \in DOMAIN sccs[p[1]] /\ sccs[p[1]][p[2]] = v})
      = IF Unvisited(v) THEN 0 ELSE 1
=============================================================================

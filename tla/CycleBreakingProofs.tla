------------------------ MODULE CycleBreakingProofs ------------------------
(***************************************************************************)
(* break_cycles with the components of sccs(), for every schema: what      *)
(* sccs() returns are the strongly connected components in reverse         *)
(* topological order, and the whole implements module BreakCycles.         *)
(***************************************************************************)
EXTENDS CycleBreaking, SequenceTheorems, FiniteSetTheorems, TLAPS

----------------------------------------------------------------------------
(* The inductive invariant. *)

Frames == [vertex : Vertices, todo : SUBSET Vertices]

SccTypeOK ==
  /\ edges \in SUBSET (Vertices \X Vertices)
  /\ disc \in [Vertices -> Int]
  /\ low \in [Vertices -> Int]
  /\ count \in Nat
  /\ stack \in Seq(Vertices)
  /\ calls \in Seq(Frames)
  /\ sccs \in Seq(Seq(Vertices))

Emitted(v) == \E i \in DOMAIN sccs : v \in ToSet(sccs[i])

(* The vertex the i-th call was made for, and the part of the stack that   *)
(* was there before the next call.                                         *)
Caller(i) == calls[i].vertex
Below(i, v) == i = Len(calls) \/ disc[v] < disc[Caller(i + 1)]

(* An entered vertex is open or emitted, and was entered before now. *)
OpenOrEmitted ==
  /\ \A v \in Vertices : disc[v] \in -1 .. (count - 1)
  /\ \A v \in Vertices : ~Unvisited(v) <=> OnStack(v) \/ Emitted(v)
  /\ \A v \in Vertices : ~(OnStack(v) /\ Emitted(v))

StackByMoment ==
  \A i, j \in DOMAIN stack : i < j => disc[stack[i]] < disc[stack[j]]

(* No message is in two components or twice in one, and none is empty. *)
SccsApart ==
  /\ \A i, k \in DOMAIN sccs : \A j \in DOMAIN sccs[i], l \in DOMAIN sccs[k] :
       sccs[i][j] = sccs[k][l] => i = k /\ j = l
  /\ \A i \in DOMAIN sccs : sccs[i] # <<>>

(* The calls in progress are a path, and its first vertex opened the stack. *)
CallPath ==
  /\ \A i \in DOMAIN calls : OnStack(Caller(i))
  /\ \A i \in DOMAIN calls : calls[i].todo \subseteq Targets(Caller(i))
  /\ \A i, j \in DOMAIN calls : i < j => disc[Caller(i)] < disc[Caller(j)]
  /\ \A i \in DOMAIN calls : i + 1 \in DOMAIN calls =>
       <<Caller(i), Caller(i + 1)>> \in edges
  /\ calls = <<>> => stack = <<>>
  /\ \A v \in Vertices : calls # <<>> /\ OnStack(v) => disc[Caller(1)] <= disc[v]

(* A field to an unvisited message is still ahead of some call. *)
UnvisitedAhead ==
  \A e \in edges : ~Unvisited(e[1]) /\ Unvisited(e[2]) =>
    \E i \in DOMAIN calls : Caller(i) = e[1] /\ e[2] \in calls[i].todo

(* A call has led to all that was stacked after it, and all that was       *)
(* stacked before the next call leads back to it.                          *)
LedTo ==
  \A i \in DOMAIN calls, v \in Vertices :
    OnStack(v) /\ disc[Caller(i)] <= disc[v] => Reaches(Caller(i), v)
LeadsBack ==
  \A i \in DOMAIN calls, v \in Vertices :
    OnStack(v) /\ Below(i, v) => Reaches(v, Caller(i))

(* low is the moment of an open vertex that can be reached ... *)
LowIsReached ==
  \A i \in DOMAIN calls :
    /\ low[Caller(i)] <= disc[Caller(i)]
    /\ \E w \in Vertices :
         OnStack(w) /\ disc[w] = low[Caller(i)] /\ Reaches(Caller(i), w)

(* ... and no field visited since the call leads to an earlier one. *)
SinceCall(i, u) ==
  OnStack(u) /\ disc[Caller(i)] <= disc[u] /\ Below(i, u)
LowIsLeast ==
  \A i \in DOMAIN calls, e \in edges :
    SinceCall(i, e[1]) /\ OnStack(e[2])
      /\ ~(e[1] = Caller(i) /\ e[2] \in calls[i].todo)
    => low[Caller(i)] <= disc[e[2]]

SccIInv ==
  /\ SccTypeOK
  /\ OpenOrEmitted
  /\ StackByMoment
  /\ SccsApart
  /\ CallPath
  /\ UnvisitedAhead
  /\ LedTo
  /\ LeadsBack
  /\ LowIsReached
  /\ LowIsLeast
  /\ EmittedAfterWhatTheyEmbed
  /\ EmittedAreComponents

----------------------------------------------------------------------------
(* Facts about sequences and reachability. *)

(* A sequence without its last element, and the last element. *)
LEMMA FrontAndLast ==
  ASSUME NEW S, NEW s \in Seq(S), s # <<>>
  PROVE  /\ Front(s) \in Seq(S)
         /\ Len(Front(s)) = Len(s) - 1
         /\ \A i \in 1 .. (Len(s) - 1) : Front(s)[i] = s[i]
         /\ Last(s) = s[Len(s)] /\ Last(s) \in S
         /\ Len(s) \in Nat \ {0}
<1>1. Len(s) \in Nat \ {0}
  BY EmptySeq
<1>2. \A i \in 1 .. (Len(s) - 1) : s[i] \in S
  BY <1>1
<1> DEFINE n == Len(s) - 1
<1>2a. n \in Nat
  BY <1>1
<1>3. /\ Front(s) \in Seq(S)
      /\ Len(Front(s)) = IF 1 <= n THEN n - 1 + 1 ELSE 0
      /\ \A i \in 1 .. (n - 1 + 1) : Front(s)[i] = s[1 + i - 1]
  <2>1. 1 \in Int /\ n \in Int
    BY <1>1
  <2>2. \A i \in 1 .. n : s[i] \in S
    BY <1>2
  <2>3. Front(s) = SubSeq(s, 1, n)
    BY DEF Front
  <2> HIDE <1>1 DEF n
  <2> QED BY <2>1, <2>2, <2>3, SubSeqProperties
<1>4. Last(s) = s[Len(s)] /\ Last(s) \in S
  BY <1>1, ElementOfSeq DEF Last
<1>5. Len(Front(s)) = n
  <2> HIDE DEF n
  <2> QED BY <1>2a, <1>3
<1>6. \A i \in 1 .. n : Front(s)[i] = s[i]
  <2> HIDE DEF n
  <2> QED BY <1>2a, <1>3
<1> QED
  BY <1>1, <1>3, <1>4, <1>5, <1>6

(* A sequence with one element more. *)
LEMMA AppendElements ==
  ASSUME NEW S, NEW s \in Seq(S), NEW x \in S
  PROVE  /\ Append(s, x) \in Seq(S)
         /\ Append(s, x) # <<>>
         /\ Len(Append(s, x)) = Len(s) + 1
         /\ Len(s) \in Nat
         /\ DOMAIN s = 1 .. Len(s)
         /\ DOMAIN Append(s, x) = 1 .. (Len(s) + 1)
         /\ \A i \in 1 .. Len(s) : Append(s, x)[i] = s[i]
         /\ Append(s, x)[Len(s) + 1] = x
         /\ \A y : y \in ToSet(Append(s, x)) <=> y \in ToSet(s) \/ y = x
<1>1. /\ Append(s, x) \in Seq(S)
      /\ Append(s, x) # <<>>
      /\ Len(Append(s, x)) = Len(s) + 1
      /\ Len(s) \in Nat
      /\ DOMAIN s = 1 .. Len(s)
      /\ DOMAIN Append(s, x) = 1 .. (Len(s) + 1)
      /\ \A i \in 1 .. Len(s) : Append(s, x)[i] = s[i]
      /\ Append(s, x)[Len(s) + 1] = x
  BY AppendProperties, LenProperties
<1>2. ASSUME NEW y, y \in ToSet(Append(s, x))
      PROVE  y \in ToSet(s) \/ y = x
  <2>1. PICK i \in 1 .. (Len(s) + 1) : y = Append(s, x)[i]
    BY <1>1, <1>2 DEF ToSet
  <2>2. i \in 1 .. Len(s) \/ i = Len(s) + 1
    BY <1>1
  <2> QED BY <1>1, <2>1, <2>2 DEF ToSet
<1>3. ASSUME NEW y, y \in ToSet(s) \/ y = x
      PROVE  y \in ToSet(Append(s, x))
  <2>1. \A i \in 1 .. Len(s) : i \in 1 .. (Len(s) + 1)
    BY <1>1
  <2>2. Len(s) + 1 \in 1 .. (Len(s) + 1)
    BY <1>1
  <2> QED BY <1>1, <1>3, <2>1, <2>2 DEF ToSet
<1> QED BY <1>1, <1>2, <1>3

(* Reachability is reflexive, transitive and follows the edges. *)
LEMMA ReachesSteps ==
  ASSUME SccTypeOK
  PROVE  /\ \A u \in Vertices : Reaches(u, u)
         /\ \A e \in edges : Reaches(e[1], e[2])
         /\ \A u, v, w \in Vertices : Reaches(u, v) /\ Reaches(v, w) => Reaches(u, w)
BY DEF Reaches, Closed, SccTypeOK

(* What has no field to the outside reaches nothing outside. *)
LEMMA ReachesStaysInside ==
  ASSUME NEW S \in SUBSET Vertices, Closed(S), NEW u \in S, NEW v \in Vertices,
         Reaches(u, v)
  PROVE  v \in S
BY DEF Reaches

(* An edge leads to one of the targets of its source. *)
LEMMA EdgeTypes ==
  ASSUME SccTypeOK, NEW e \in edges
  PROVE  e[1] \in Vertices /\ e[2] \in Vertices /\ e[2] \in Targets(e[1])
<1>1. e \in Vertices \X Vertices
  BY DEF SccTypeOK
<1>2. e[1] \in Vertices /\ e[2] \in Vertices /\ e = <<e[1], e[2]>>
  BY <1>1
<1> QED BY <1>2 DEF Targets

(* The step leaves the edges alone, and with them reachability. *)
LEMMA SameEdges ==
  ASSUME edges' = edges
  PROVE  /\ \A u, v : Reaches(u, v)' <=> Reaches(u, v)
         /\ \A u : Targets(u)' = Targets(u)
BY DEF Reaches, Closed, Targets

----------------------------------------------------------------------------
(* Entering a vertex, from the loop or from the call that meets it. *)

EntersFrom(u, below) ==
  /\ u \in Vertices /\ Unvisited(u)
  /\ below \in Seq(Frames)
  /\ Len(below) = Len(calls)
  /\ \A i \in DOMAIN calls :
       /\ below[i].vertex = Caller(i)
       /\ below[i].todo \subseteq calls[i].todo
       /\ calls[i].todo \subseteq below[i].todo \cup {u}
       /\ i # Len(calls) => below[i].todo = calls[i].todo
  /\ calls # <<>> => u \in Targets(Caller(Len(calls)))

(* The calls in progress are of visited vertices, and the next one is a target. *)
LEMMA CallTypes ==
  ASSUME SccTypeOK
  PROVE  /\ Len(calls) \in Nat
         /\ DOMAIN calls = 1 .. Len(calls)
         /\ calls # <<>> <=> Len(calls) > 0
         /\ \A i \in DOMAIN calls : calls[i] \in Frames /\ Caller(i) \in Vertices
<1>1. /\ Len(calls) \in Nat
      /\ DOMAIN calls = 1 .. Len(calls)
      /\ \A i \in DOMAIN calls : calls[i] \in Frames
  BY LenProperties, ElementOfSeq DEF SccTypeOK
<1>2. calls # <<>> <=> Len(calls) > 0
  BY <1>1, EmptySeq DEF SccTypeOK
<1> QED BY <1>1, <1>2 DEF Caller, Frames

(* What entering u changes. *)
LEMMA EnterFacts ==
  ASSUME SccIInv, NEW u, NEW below, EntersFrom(u, below), Enter(u, below)
  PROVE  /\ SccTypeOK'
         /\ \A v \in Vertices : disc'[v] = IF v = u THEN count ELSE disc[v]
         /\ \A v \in Vertices : low'[v] = IF v = u THEN count ELSE low[v]
         /\ \A v \in Vertices : OnStack(v)' <=> OnStack(v) \/ v = u
         /\ ~OnStack(u) /\ ~Emitted(u)
         /\ Len(calls') = Len(calls) + 1
         /\ DOMAIN calls' = 1 .. (Len(calls) + 1)
         /\ \A i \in DOMAIN calls : Caller(i)' = Caller(i) /\ Caller(i) # u
         /\ Caller(Len(calls))' = u
         /\ \A i \in DOMAIN calls : calls'[i] = below[i]
         /\ calls'[Len(calls) + 1].todo = Targets(u)
<1> USE DEF SccIInv
<1>1. u \in Vertices /\ below \in Seq(Frames) /\ Len(below) = Len(calls)
  BY DEF EntersFrom
<1> DEFINE f == [vertex |-> u, todo |-> Targets(u)]
<1>2. f \in Frames
  BY <1>1 DEF Frames, Targets
<1>3. /\ calls' = Append(below, f)
      /\ stack' = Append(stack, u)
      /\ disc' = [disc EXCEPT ![u] = count]
      /\ low' = [low EXCEPT ![u] = count]
      /\ count' = count + 1
      /\ edges' = edges /\ sccs' = sccs
  BY DEF Enter
<1>4. /\ calls' \in Seq(Frames)
      /\ Len(calls') = Len(calls) + 1
      /\ DOMAIN calls' = 1 .. (Len(calls) + 1)
      /\ \A i \in DOMAIN calls : calls'[i] = below[i]
      /\ calls'[Len(calls) + 1] = f
  BY <1>1, <1>2, <1>3, AppendElements, CallTypes
<1>5. /\ stack' \in Seq(Vertices)
      /\ \A v \in Vertices : v \in ToSet(stack') <=> v \in ToSet(stack) \/ v = u
  BY <1>1, <1>3, AppendElements DEF SccTypeOK
<1>6. \A v \in Vertices : OnStack(v)' <=> OnStack(v) \/ v = u
  BY <1>5 DEF OnStack
<1>7. ~OnStack(u) /\ ~Emitted(u)
  BY <1>1 DEF EntersFrom, OpenOrEmitted
<1>8. /\ \A v \in Vertices : disc'[v] = IF v = u THEN count ELSE disc[v]
      /\ \A v \in Vertices : low'[v] = IF v = u THEN count ELSE low[v]
  BY <1>3 DEF SccTypeOK
<1>9. SccTypeOK'
  BY <1>1, <1>3, <1>4, <1>5 DEF SccTypeOK
<1>10. \A i \in DOMAIN calls : Caller(i)' = Caller(i) /\ Caller(i) # u
  <2> TAKE i \in DOMAIN calls
  <2>1. calls'[i].vertex = calls[i].vertex
    BY <1>4 DEF EntersFrom, Caller
  <2>2. OnStack(Caller(i))
    BY DEF CallPath
  <2> QED BY <1>7, <2>1, <2>2 DEF Caller
<1>11. Caller(Len(calls))' = u
  BY <1>4 DEF Caller
<1>12. calls'[Len(calls) + 1].todo = Targets(u)
  BY <1>4
<1> HIDE DEF SccIInv
<1> QED BY <1>4, <1>6, <1>7, <1>8, <1>9, <1>10, <1>11, <1>12

(* Entering a vertex, by the loop over the vertices or by a call. *)
LEMMA EnterInv ==
  ASSUME SccAssumption, SccIInv,
         NEW u, NEW below, EntersFrom(u, below), Enter(u, below)
  PROVE  SccIInv'
<1>k. PICK k \in Nat : k = Len(calls)
  BY CallTypes DEF SccIInv
<1> USE DEF SccIInv
<1>0. k \in Nat /\ DOMAIN calls = 1 .. k /\ Len(calls') = k + 1
      /\ DOMAIN calls' = 1 .. (k + 1) /\ u \in Vertices
      /\ (calls # <<>> <=> k > 0)
      /\ \A i \in 1 .. k : Caller(i) \in Vertices /\ OnStack(Caller(i))
  BY <1>k, EnterFacts, CallTypes DEF EntersFrom, CallPath
<1>1. /\ \A v \in Vertices : disc'[v] = IF v = u THEN count ELSE disc[v]
      /\ \A v \in Vertices : low'[v] = IF v = u THEN count ELSE low[v]
      /\ \A v \in Vertices : OnStack(v)' <=> OnStack(v) \/ v = u
      /\ ~OnStack(u) /\ ~Emitted(u)
      /\ SccTypeOK'
  BY EnterFacts
<1>2. /\ \A i \in 1 .. k : Caller(i)' = Caller(i) /\ Caller(i) # u
      /\ Caller(k + 1)' = u
  BY <1>k, <1>0, EnterFacts DEF Caller
<1>3. /\ edges' = edges /\ sccs' = sccs /\ count' = count + 1
      /\ stack' = Append(stack, u)
  BY DEF Enter
<1>4. /\ \A v, w : Reaches(v, w)' <=> Reaches(v, w)
      /\ \A v : Targets(v)' = Targets(v)
      /\ \A v : Emitted(v)' <=> Emitted(v)
  BY <1>3, SameEdges DEF Emitted
<1>5. /\ \A v \in Vertices : disc[v] \in Int /\ disc[v] < count
      /\ \A v \in Vertices : OnStack(v) => disc[v] >= 0
      /\ count \in Nat
      /\ disc[u] = -1
      /\ \A e \in edges : /\ e[1] \in Vertices /\ e[2] \in Vertices
                          /\ e[2] \in Targets(e[1])
  <2>1. /\ \A v \in Vertices : disc[v] \in Int /\ disc[v] < count /\ disc[v] >= -1
        /\ count \in Nat
    BY DEF SccTypeOK, OpenOrEmitted
  <2>2. \A e \in edges : /\ e[1] \in Vertices /\ e[2] \in Vertices
                        /\ e[2] \in Targets(e[1])
    BY EdgeTypes
  <2>3. \A v \in Vertices : OnStack(v) => disc[v] # -1
    BY DEF OpenOrEmitted, Unvisited
  <2> QED BY <2>1, <2>2, <2>3 DEF EntersFrom, Unvisited
<1>6. \A i \in 1 .. k : \A t :
        /\ t \in calls'[i].todo => t \in calls[i].todo
        /\ t \in calls[i].todo => t \in calls'[i].todo \/ t = u
  BY <1>k, <1>0, EnterFacts DEF EntersFrom
<1>7. calls'[k + 1].todo = Targets(u)
  BY <1>k, EnterFacts
<1>8. k > 0 => u \in Targets(Caller(k))
  BY <1>k, <1>0 DEF EntersFrom
<1>9. /\ \A i \in 1 .. (k + 1) : Below(i, u)' <=> i = k + 1
      /\ \A i \in 1 .. (k + 1), v \in Vertices : v # u /\ OnStack(v) =>
           (Below(i, v)' <=> i = k + 1 \/ Below(i, v))
  <2>1. \A i \in 1 .. k, v \in Vertices : Below(i, v) <=>
            i = k \/ (i + 1 \in 1 .. k /\ disc[v] < disc[Caller(i + 1)])
    BY <1>k, <1>0 DEF Below
  <2>2. \A i \in 1 .. (k + 1), v \in Vertices : Below(i, v)' <=>
            i = k + 1 \/ (i + 1 \in 1 .. (k + 1) /\ disc'[v] < disc'[Caller(i + 1)'])
    BY <1>k, <1>0 DEF Below, Caller
  <2> QED BY <1>0, <1>1, <1>2, <1>5, <2>1, <2>2, SMTT(30)
<1> HIDE DEF SccIInv
<1>a. OpenOrEmitted'
  <2>1. ASSUME NEW v \in Vertices
        PROVE  /\ disc'[v] \in -1 .. (count' - 1)
               /\ (~Unvisited(v))' <=> OnStack(v)' \/ Emitted(v)'
               /\ ~(OnStack(v)' /\ Emitted(v)')
    BY <1>0, <1>1, <1>3, <1>4, <1>5 DEF OpenOrEmitted, Unvisited, SccIInv
  <2> QED BY <2>1 DEF OpenOrEmitted
<1>b. StackByMoment'
  <2>1. PICK n \in Nat : n = Len(stack)
    BY LenProperties DEF SccIInv, SccTypeOK
  <2>2. /\ DOMAIN stack = 1 .. n /\ DOMAIN stack' = 1 .. (n + 1)
        /\ \A i \in 1 .. n : stack'[i] = stack[i]
        /\ stack'[n + 1] = u
    BY <1>0, <1>3, <2>1, AppendElements DEF SccIInv, SccTypeOK
  <2>3. \A i \in 1 .. n : stack[i] \in Vertices /\ stack[i] # u
    <3>1. \A i \in 1 .. n : stack[i] \in Vertices
      BY <2>1, ElementOfSeq DEF SccIInv, SccTypeOK
    <3>2. \A i \in 1 .. n : OnStack(stack[i])
      BY <2>2 DEF OnStack, ToSet
    <3> QED BY <1>1, <3>1, <3>2
  <2>4. ASSUME NEW i \in 1 .. (n + 1), NEW j \in 1 .. (n + 1), i < j
        PROVE  disc'[stack'[i]] < disc'[stack'[j]]
    <3>1. i \in 1 .. n /\ (j \in 1 .. n \/ j = n + 1)
      BY <2>4
    <3>2. /\ stack'[i] = stack[i] /\ disc'[stack[i]] = disc[stack[i]]
          /\ disc[stack[i]] < count
      BY <1>1, <1>5, <2>2, <2>3, <3>1
    <3>3. CASE j = n + 1
      BY <1>0, <1>1, <2>2, <3>2, <3>3
    <3>4. CASE j \in 1 .. n
      <4>1. disc[stack[i]] < disc[stack[j]]
        BY <2>2, <2>4, <3>1, <3>4 DEF StackByMoment, SccIInv
      <4> QED BY <1>1, <2>2, <2>3, <3>2, <3>4, <4>1
    <3> QED BY <3>1, <3>3, <3>4
  <2> QED BY <2>2, <2>4 DEF StackByMoment
<1>c. SccsApart'
  BY <1>3 DEF SccsApart, SccIInv
<1>d. CallPath'
  <2> USE DEF SccIInv
  <2>1. \A i \in 1 .. (k + 1) : OnStack(Caller(i))'
    <3> TAKE i \in 1 .. (k + 1)
    <3>1. CASE i = k + 1
      BY <1>0, <1>1, <1>2, <3>1
    <3>2. CASE i \in 1 .. k
      BY <1>0, <1>1, <1>2, <3>2
    <3> QED BY <3>1, <3>2
  <2>2. \A i \in 1 .. (k + 1) : calls'[i].todo \subseteq Targets(Caller(i))'
    <3> TAKE i \in 1 .. (k + 1)
    <3>1. CASE i = k + 1
      BY <1>2, <1>4, <1>7, <3>1
    <3>2. CASE i \in 1 .. k
      <4>1. calls[i].todo \subseteq Targets(Caller(i))
        BY <1>0, <3>2 DEF CallPath
      <4>2. Targets(Caller(i))' = Targets(Caller(i))
        BY <1>2, <1>3, <3>2 DEF Targets
      <4>3. \A t \in calls'[i].todo : t \in calls[i].todo
        BY <1>6, <3>2
      <4>4. \A t \in calls'[i].todo : t \in Targets(Caller(i))
        BY <4>1, <4>3
      <4> QED BY <4>2, <4>4
    <3> QED BY <3>1, <3>2
  <2>3. \A i, j \in 1 .. (k + 1) : i < j => disc'[Caller(i)'] < disc'[Caller(j)']
    <3> SUFFICES ASSUME NEW i \in 1 .. (k + 1), NEW j \in 1 .. (k + 1), i < j
                 PROVE  disc'[Caller(i)'] < disc'[Caller(j)']
      OBVIOUS
    <3>1. i \in 1 .. k /\ disc'[Caller(i)'] = disc[Caller(i)]
      BY <1>0, <1>1, <1>2
    <3>2. CASE j = k + 1
      BY <1>0, <1>1, <1>2, <1>5, <3>1, <3>2
    <3>3. CASE j \in 1 .. k
      BY <1>0, <1>1, <1>2, <3>1, <3>3 DEF CallPath
    <3> QED BY <3>2, <3>3
  <2>4. \A i \in 1 .. (k + 1) : i + 1 \in 1 .. (k + 1) =>
          <<Caller(i), Caller(i + 1)>>' \in edges'
    <3>1. k > 0 => <<Caller(k), u>> \in edges
      BY <1>8 DEF Targets
    <3>2. \A i \in 1 .. k : i + 1 \in 1 .. k => <<Caller(i), Caller(i + 1)>> \in edges
      BY <1>0 DEF CallPath
    <3> QED BY <1>0, <1>2, <1>3, <3>1, <3>2
  <2>5. calls' # <<>>
    BY <1>0, <1>1, CallTypes, EmptySeq
  <2>6. \A v \in Vertices : OnStack(v)' => disc'[Caller(1)'] <= disc'[v]
    <3> SUFFICES ASSUME NEW v \in Vertices, OnStack(v)'
                 PROVE  disc'[Caller(1)'] <= disc'[v]
      OBVIOUS
    <3>1. CASE k = 0
      <4>1. ~OnStack(v)
        BY <1>0, <3>1 DEF CallPath, OnStack, ToSet
      <4> QED BY <1>0, <1>1, <1>2, <1>5, <3>1, <4>1
    <3>2. CASE k > 0
      <4>1. OnStack(v) => disc[Caller(1)] <= disc[v]
        BY <1>0, <3>2 DEF CallPath
      <4> QED BY <1>0, <1>1, <1>2, <1>5, <3>2, <4>1
    <3> QED BY <1>0, <3>1, <3>2
  <2> QED BY <1>0, <2>1, <2>2, <2>3, <2>4, <2>5, <2>6 DEF CallPath
<1>e. UnvisitedAhead'
  <2> SUFFICES ASSUME NEW e \in edges, disc'[e[1]] # -1, disc'[e[2]] = -1
               PROVE  \E i \in 1 .. (k + 1) : Caller(i)' = e[1] /\ e[2] \in calls'[i].todo
    BY <1>0, <1>3 DEF UnvisitedAhead, Unvisited
  <2>1. CASE e[1] = u
    <3>1. e[2] \in Targets(u)
      BY <1>5, <2>1
    <3>2. k + 1 \in 1 .. (k + 1)
      BY <1>0
    <3> QED BY <1>2, <1>7, <2>1, <3>1, <3>2
  <2>2. CASE e[1] # u
    <3>1. e[2] # u /\ disc[e[1]] # -1 /\ disc[e[2]] = -1
      BY <1>1, <1>5, <2>2
    <3>2. PICK i \in 1 .. k : Caller(i) = e[1] /\ e[2] \in calls[i].todo
      BY <1>0, <3>1 DEF UnvisitedAhead, Unvisited, SccIInv
    <3>3. i \in 1 .. (k + 1) /\ Caller(i)' = e[1]
      BY <1>2, <3>2
    <3>4. e[2] \in calls'[i].todo
      BY <1>6, <3>1, <3>2
    <3> QED BY <3>3, <3>4
  <2> QED BY <2>1, <2>2
<1>r. /\ \A v \in Vertices : Reaches(v, v)
      /\ k > 0 => Reaches(Caller(k), u)
      /\ \A v, w, x \in Vertices : Reaches(v, w) /\ Reaches(w, x) => Reaches(v, x)
  BY <1>8, ReachesSteps DEF Targets, SccIInv
<1>f. LedTo'
  <2> SUFFICES ASSUME NEW i \in 1 .. (k + 1), NEW v \in Vertices,
                      OnStack(v)', disc'[Caller(i)'] <= disc'[v]
               PROVE  Reaches(Caller(i)', v)
    BY <1>0, <1>2, <1>4 DEF LedTo
  <2>1. CASE i = k + 1
    BY <1>0, <1>1, <1>2, <1>5, <1>r, <2>1
  <2>2. CASE i \in 1 .. k /\ v # u
    BY <1>0, <1>1, <1>2, <2>2 DEF LedTo, SccIInv
  <2>3. CASE i \in 1 .. k /\ v = u
    <3>1. disc[Caller(i)] <= disc[Caller(k)]
      BY <1>0, <1>5, <2>3, SMTT(30) DEF CallPath, SccIInv
    <3>2. Reaches(Caller(i), Caller(k))
      BY <1>0, <2>3, <3>1 DEF LedTo, SccIInv
    <3> QED BY <1>0, <1>2, <1>r, <2>3, <3>2
  <2> QED BY <2>1, <2>2, <2>3
<1>g. LeadsBack'
  <2> SUFFICES ASSUME NEW i \in 1 .. (k + 1), NEW v \in Vertices,
                      OnStack(v)', Below(i, v)'
               PROVE  Reaches(v, Caller(i)')
    BY <1>0, <1>2, <1>4 DEF LeadsBack
  <2>1. CASE v = u
    BY <1>2, <1>9, <1>r, <2>1
  <2>2. CASE v # u /\ i \in 1 .. k
    BY <1>0, <1>1, <1>2, <1>9, <2>2 DEF LeadsBack, SccIInv
  <2>3. CASE v # u /\ i = k + 1
    <3>1. OnStack(v) /\ k > 0
      BY <1>0, <1>1, <2>3 DEF CallPath, SccIInv, OnStack, ToSet
    <3>2. Reaches(v, Caller(k))
      BY <1>k, <1>0, <3>1 DEF LeadsBack, SccIInv, Below
    <3> QED BY <1>0, <1>2, <1>r, <2>3, <3>1, <3>2
  <2> QED BY <2>1, <2>2, <2>3
<1>h. LowIsReached'
  <2> SUFFICES ASSUME NEW i \in 1 .. (k + 1)
               PROVE  /\ low'[Caller(i)'] <= disc'[Caller(i)']
                      /\ \E w \in Vertices : /\ OnStack(w)'
                                             /\ disc'[w] = low'[Caller(i)']
                                             /\ Reaches(Caller(i)', w)
    BY <1>0, <1>4 DEF LowIsReached
  <2>1. CASE i = k + 1
    BY <1>0, <1>1, <1>2, <1>5, <1>r, <2>1
  <2>2. CASE i \in 1 .. k
    <3>1. PICK w \in Vertices : /\ low[Caller(i)] <= disc[Caller(i)]
                                /\ OnStack(w) /\ disc[w] = low[Caller(i)]
                                /\ Reaches(Caller(i), w)
      BY <1>0, <2>2 DEF LowIsReached, SccIInv
    <3>2. w # u
      BY <1>1, <3>1
    <3> QED BY <1>0, <1>1, <1>2, <2>2, <3>1, <3>2
  <2> QED BY <2>1, <2>2
<1>i. LowIsLeast'
  <2> SUFFICES ASSUME NEW i \in 1 .. (k + 1), NEW e \in edges,
                      OnStack(e[1])', OnStack(e[2])',
                      disc'[Caller(i)'] <= disc'[e[1]], Below(i, e[1])',
                      ~(e[1] = Caller(i)' /\ e[2] \in calls'[i].todo)
               PROVE  low'[Caller(i)'] <= disc'[e[2]]
    BY <1>0, <1>3 DEF LowIsLeast, SinceCall
  <2>1. e[1] \in Vertices /\ e[2] \in Vertices
    BY <1>5
  <2>2. e[1] # u
    <3> SUFFICES ASSUME e[1] = u PROVE FALSE
      OBVIOUS
    <3>1. i = k + 1
      BY <1>9
    <3>2. e[2] \in Targets(u)
      BY <1>5
    <3> QED BY <1>2, <1>7, <3>1, <3>2
  <2>3. i \in 1 .. k
    BY <1>0, <1>1, <1>2, <1>5, <2>1, <2>2
  <2>4. /\ OnStack(e[1]) /\ disc[Caller(i)] <= disc[e[1]] /\ Below(i, e[1])
        /\ low'[Caller(i)'] = low[Caller(i)]
    BY <1>0, <1>1, <1>2, <1>9, <2>1, <2>2, <2>3
  <2>5. CASE e[2] = u
    <3>1. low[Caller(i)] <= disc[Caller(i)]
      BY <1>0, <2>3 DEF LowIsReached, SccIInv
    <3>2. low[Caller(i)] \in Int
      BY <1>0, <2>3 DEF SccIInv, SccTypeOK
    <3> QED BY <1>0, <1>1, <1>5, <2>1, <2>3, <2>4, <2>5, <3>1, <3>2
  <2>6. CASE e[2] # u
    <3>1. OnStack(e[2])
      BY <1>1, <2>1, <2>6
    <3>3. ~(e[1] = Caller(i) /\ e[2] \in calls[i].todo)
      BY <1>2, <1>6, <2>3, <2>6
    <3>2. low[Caller(i)] <= disc[e[2]]
      BY <1>0, <2>3, <2>4, <3>1, <3>3 DEF LowIsLeast, SinceCall, SccIInv
    <3> QED BY <1>1, <2>1, <2>4, <2>6, <3>2
  <2> QED BY <2>5, <2>6
<1>j. EmittedAfterWhatTheyEmbed' /\ EmittedAreComponents'
  BY <1>3, <1>4 DEF EmittedAfterWhatTheyEmbed, EmittedAreComponents, SccIInv
<1> QED
  BY <1>1, <1>a, <1>b, <1>c, <1>d, <1>e, <1>f, <1>g, <1>h, <1>i, <1>j DEF SccIInv

(* The calls once the innermost one is done with v. *)
LEMMA VisitedFrames ==
  ASSUME SccTypeOK, calls # <<>>, NEW v
  PROVE  /\ Len(calls) \in Nat \ {0}
         /\ Top = calls[Len(calls)] /\ Top \in Frames
         /\ Top.vertex = Caller(Len(calls))
         /\ Visited(v) \in Seq(Frames)
         /\ Len(Visited(v)) = Len(calls)
         /\ \A i \in DOMAIN calls :
              /\ Visited(v)[i].vertex = Caller(i)
              /\ i # Len(calls) => Visited(v)[i] = calls[i]
              /\ Visited(v)[i].todo =
                   IF i = Len(calls) THEN calls[i].todo \ {v} ELSE calls[i].todo
<1>0. Len(calls) \in Nat /\ Len(calls) > 0
  BY CallTypes
<1>1. PICK k \in Nat \ {0} : k = Len(calls)
  BY <1>0
<1>2. /\ Front(calls) \in Seq(Frames)
      /\ Len(Front(calls)) = k - 1
      /\ \A i \in 1 .. (k - 1) : Front(calls)[i] = calls[i]
      /\ Top = calls[k] /\ Top \in Frames
  BY <1>1, FrontAndLast DEF SccTypeOK, Top
<1> DEFINE f == [Top EXCEPT !.todo = @ \ {v}]
<1>3. f \in Frames /\ f.vertex = Top.vertex /\ f.todo = Top.todo \ {v}
  BY <1>2 DEF Frames
<1>4. Visited(v) = Append(Front(calls), f)
  BY DEF Visited
<1> HIDE DEF f
<1>5. /\ Visited(v) \in Seq(Frames)
      /\ Len(Visited(v)) = k
      /\ \A i \in 1 .. (k - 1) : Visited(v)[i] = calls[i]
      /\ Visited(v)[k] = f
  BY <1>1, <1>2, <1>3, <1>4, AppendElements
<1>6. ASSUME NEW i \in 1 .. k
      PROVE  /\ Visited(v)[i].vertex = Caller(i)
             /\ i # k => Visited(v)[i] = calls[i]
             /\ Visited(v)[i].todo =
                   IF i = k THEN calls[i].todo \ {v} ELSE calls[i].todo
  <2>1. CASE i = k
    BY <1>2, <1>3, <1>5, <2>1 DEF Caller
  <2>2. CASE i \in 1 .. (k - 1)
    BY <1>1, <1>2, <1>3, <1>5, <2>2 DEF Caller
  <2> QED BY <1>1, <2>1, <2>2
<1>7. DOMAIN calls = 1 .. k
  BY <1>1, CallTypes
<1> QED BY <1>1, <1>2, <1>5, <1>6, <1>7 DEF Caller

(* The loop over the vertices calls visit. *)
LEMMA RootInv ==
  ASSUME SccAssumption, SccIInv, NEW u \in Vertices, Root(u)
  PROVE  SccIInv'
<1>1. calls = <<>> /\ Unvisited(u) /\ Enter(u, <<>>)
  BY DEF Root
<1>2. EntersFrom(u, <<>>)
  BY <1>1, EmptySeq DEF EntersFrom
<1> QED BY <1>1, <1>2, EnterInv

(* visit calls itself. *)
LEMMA VisitNewInv ==
  ASSUME SccAssumption, SccIInv, NEW v \in Vertices, VisitNew(v)
  PROVE  SccIInv'
<1>1. calls # <<>> /\ v \in Top.todo /\ Unvisited(v) /\ Enter(v, Visited(v))
  BY DEF VisitNew
<1>2. SccTypeOK
  BY DEF SccIInv
<1>3. v \in Targets(Caller(Len(calls)))
  <2>1. v \in calls[Len(calls)].todo /\ Len(calls) \in DOMAIN calls
    BY <1>1, <1>2, VisitedFrames, CallTypes
  <2> QED BY <2>1 DEF SccIInv, CallPath
<1>4. \A i \in DOMAIN calls :
        /\ Visited(v)[i].vertex = Caller(i)
        /\ Visited(v)[i].todo \subseteq calls[i].todo
        /\ calls[i].todo \subseteq Visited(v)[i].todo \cup {v}
        /\ i # Len(calls) => Visited(v)[i].todo = calls[i].todo
  BY <1>1, <1>2, VisitedFrames
<1>5. EntersFrom(v, Visited(v))
  BY <1>1, <1>2, <1>3, <1>4, VisitedFrames DEF EntersFrom
<1> QED BY <1>1, <1>5, EnterInv

----------------------------------------------------------------------------
(* Meeting a vertex that was entered before. *)

Meets(v) ==
  /\ calls # <<>>
  /\ v \in Top.todo
  /\ ~Unvisited(v)
  /\ calls' = Visited(v)
  /\ low' = IF OnStack(v) THEN [low EXCEPT ![Top.vertex] = Lower(@, disc[v])]
                          ELSE low
  /\ UNCHANGED <<edges, disc, count, stack, sccs>>

(* visit meets a vertex that is on the stack or emitted. *)
LEMMA MeetInv ==
  ASSUME SccAssumption, SccIInv, NEW v \in Vertices, Meets(v)
  PROVE  SccIInv'
<1> USE DEF SccIInv
<1>k. PICK k \in Nat : k = Len(calls)
  BY CallTypes
<1>0. /\ k > 0 /\ DOMAIN calls = 1 .. k
      /\ DOMAIN calls' = 1 .. k /\ Len(calls') = k /\ calls' \in Seq(Frames)
      /\ Top.vertex = Caller(k) /\ v \in calls[k].todo /\ calls' # <<>>
      /\ \A i \in 1 .. k : Caller(i) \in Vertices /\ OnStack(Caller(i))
  <2>1. calls' \in Seq(Frames) /\ Len(calls') = k
    BY <1>k, VisitedFrames DEF Meets
  <2>2. DOMAIN calls' = 1 .. k
    BY <2>1, LenProperties
  <2> QED BY <1>k, <2>1, <2>2, VisitedFrames, CallTypes, EmptySeq DEF Meets, CallPath
<1>1. /\ edges' = edges /\ disc' = disc /\ count' = count
      /\ stack' = stack /\ sccs' = sccs
      /\ disc[v] # -1
  BY DEF Meets, Unvisited
<1>2. /\ \A i \in 1 .. k : Caller(i)' = Caller(i)
      /\ \A i \in 1 .. (k - 1) : calls'[i] = calls[i]
      /\ \A i \in 1 .. k : \A t : t \in calls'[i].todo => t \in calls[i].todo
      /\ \A i \in 1 .. k : \A t :
           t \in calls[i].todo => t \in calls'[i].todo \/ (i = k /\ t = v)
  <2>1. \A i \in 1 .. k :
          /\ calls'[i].vertex = Caller(i)
          /\ i # k => calls'[i] = calls[i]
          /\ calls'[i].todo = IF i = k THEN calls[i].todo \ {v} ELSE calls[i].todo
    <3>1. calls' = Visited(v) /\ calls # <<>> /\ SccTypeOK
      BY DEF Meets
    <3>2. \A i \in 1 .. k :
            /\ Visited(v)[i].vertex = Caller(i)
            /\ i # k => Visited(v)[i] = calls[i]
            /\ Visited(v)[i].todo = IF i = k THEN calls[i].todo \ {v} ELSE calls[i].todo
      <4> HIDE DEF SccIInv
      <4>1. \A i \in DOMAIN calls :
              /\ Visited(v)[i].vertex = Caller(i)
              /\ i # Len(calls) => Visited(v)[i] = calls[i]
              /\ Visited(v)[i].todo =
                   IF i = Len(calls) THEN calls[i].todo \ {v} ELSE calls[i].todo
        BY <3>1, VisitedFrames, Zenon
      <4> QED BY <1>k, <1>0, <4>1
    <3> QED BY <3>1, <3>2
  <2>2. \A i \in 1 .. k : Caller(i)' = Caller(i)
    BY <2>1 DEF Caller
  <2>3. \A i \in 1 .. (k - 1) : i \in 1 .. k /\ i # k
    OBVIOUS
  <2> QED BY <2>1, <2>2, <2>3
<1>3. /\ \A u, w : Reaches(u, w)' <=> Reaches(u, w)
      /\ \A u : Targets(u)' = Targets(u)
      /\ \A u : Emitted(u)' <=> Emitted(u)
      /\ \A u : OnStack(u)' <=> OnStack(u)
      /\ \A u : Unvisited(u)' <=> Unvisited(u)
      /\ \A i \in 1 .. k, u \in Vertices : Below(i, u)' <=> Below(i, u)
  <2>1. \A i \in 1 .. k, u \in Vertices : Below(i, u)' <=> Below(i, u)
    <3> TAKE i \in 1 .. k, u \in Vertices
    <3>1. CASE i = k
      BY <1>k, <1>0, <3>1 DEF Below
    <3>2. CASE i \in 1 .. (k - 1)
      <4>1. i + 1 \in 1 .. k /\ i # k
        BY <3>2
      <4> QED BY <1>k, <1>0, <1>1, <1>2, <4>1 DEF Below
    <3> QED BY <3>1, <3>2
  <2> QED BY <1>1, <2>1, SameEdges DEF Emitted, OnStack, Unvisited
<1>4. /\ low' \in [Vertices -> Int]
      /\ \A w \in Vertices : w # Caller(k) => low'[w] = low[w]
      /\ OnStack(v) => /\ low'[Caller(k)] <= low[Caller(k)]
                       /\ low'[Caller(k)] <= disc[v]
                       /\ low'[Caller(k)] \in {low[Caller(k)], disc[v]}
      /\ ~OnStack(v) => low' = low
      /\ low'[Caller(k)] <= low[Caller(k)]
  BY <1>0 DEF Meets, Lower, SccTypeOK
<1>5. /\ \A i \in 1 .. (k - 1) : Caller(i) # Caller(k)
      /\ <<Caller(k), v>> \in edges
      /\ \A w \in Vertices : disc[w] \in Int /\ low[w] \in Int /\ low'[w] \in Int
  <2>1. \A w \in Vertices : disc[w] \in Int /\ low[w] \in Int /\ low'[w] \in Int
    BY <1>4 DEF SccTypeOK
  <2>2. \A i \in 1 .. (k - 1) : Caller(i) # Caller(k)
    <3> TAKE i \in 1 .. (k - 1)
    <3>1. i \in 1 .. k /\ k \in 1 .. k /\ i < k
      BY <1>0
    <3>2. disc[Caller(i)] < disc[Caller(k)]
      BY <1>0, <3>1 DEF CallPath
    <3> QED BY <1>0, <2>1, <3>1, <3>2
  <2>3. <<Caller(k), v>> \in edges
    <3>1. v \in Targets(Caller(k))
      BY <1>0 DEF CallPath
    <3> QED BY <3>1 DEF Targets
  <2> QED BY <2>1, <2>2, <2>3
<1> HIDE DEF SccIInv
<1>a. SccTypeOK'
  BY <1>0, <1>1, <1>4 DEF SccTypeOK, SccIInv
<1>b. OpenOrEmitted' /\ StackByMoment' /\ SccsApart'
  BY <1>1, <1>3 DEF OpenOrEmitted, StackByMoment, SccsApart, SccIInv
<1>c. CallPath'
  <2> USE DEF SccIInv
  <2>1. \A i \in 1 .. k : calls'[i].todo \subseteq Targets(Caller(i))'
    <3> SUFFICES ASSUME NEW i \in 1 .. k, NEW t \in calls'[i].todo
                 PROVE  t \in Targets(Caller(i))'
      OBVIOUS
    <3>1. t \in Targets(Caller(i))
      BY <1>0, <1>2 DEF CallPath
    <3>2. Targets(Caller(i))' = Targets(Caller(i))
      BY <1>1, <1>2 DEF Targets
    <3> QED BY <3>1, <3>2
  <2>2. \A i \in 1 .. k : OnStack(Caller(i))'
    BY <1>0, <1>2, <1>3
  <2>3. \A i, j \in 1 .. k : i < j => disc'[Caller(i)'] < disc'[Caller(j)']
    BY <1>0, <1>1, <1>2 DEF CallPath
  <2>4. \A i \in 1 .. k : i + 1 \in 1 .. k => <<Caller(i), Caller(i + 1)>>' \in edges'
    BY <1>0, <1>1, <1>2 DEF CallPath
  <2>5. \A w \in Vertices : OnStack(w)' => disc'[Caller(1)'] <= disc'[w]
    BY <1>0, <1>1, <1>2, <1>3 DEF CallPath
  <2> QED BY <1>0, <2>1, <2>2, <2>3, <2>4, <2>5 DEF CallPath
<1>d. UnvisitedAhead'
  <2> SUFFICES ASSUME NEW e \in edges, ~Unvisited(e[1]), Unvisited(e[2])
               PROVE  \E i \in 1 .. k : Caller(i)' = e[1] /\ e[2] \in calls'[i].todo
    BY <1>0, <1>1, <1>3 DEF UnvisitedAhead
  <2>1. PICK i \in 1 .. k : Caller(i) = e[1] /\ e[2] \in calls[i].todo
    BY <1>0 DEF UnvisitedAhead, SccIInv
  <2>2. e[2] # v
    BY <1>1 DEF Unvisited
  <2> QED BY <1>2, <2>1, <2>2
<1>e. LedTo' /\ LeadsBack'
  BY <1>0, <1>1, <1>2, <1>3 DEF LedTo, LeadsBack, SccIInv
<1>f. LowIsReached'
  <2> SUFFICES ASSUME NEW i \in 1 .. k
               PROVE  /\ low'[Caller(i)] <= disc[Caller(i)]
                      /\ \E w \in Vertices : /\ OnStack(w)
                                             /\ disc[w] = low'[Caller(i)]
                                             /\ Reaches(Caller(i), w)
    BY <1>0, <1>1, <1>2, <1>3 DEF LowIsReached
  <2>1. PICK w \in Vertices : /\ low[Caller(i)] <= disc[Caller(i)]
                              /\ OnStack(w) /\ disc[w] = low[Caller(i)]
                              /\ Reaches(Caller(i), w)
    BY <1>0 DEF LowIsReached, SccIInv
  <2>2. CASE low'[Caller(i)] = low[Caller(i)]
    BY <2>1, <2>2
  <2>3. CASE low'[Caller(i)] # low[Caller(i)]
    <3>1. i = k /\ OnStack(v) /\ low'[Caller(k)] = disc[v]
      BY <1>0, <1>4, <1>5, <2>3
    <3>2. Reaches(Caller(k), v)
      BY <1>5, ReachesSteps DEF SccIInv
    <3>3. low'[Caller(k)] <= disc[Caller(k)]
      BY <1>0, <1>4, <1>5, <2>1, <3>1
    <3> QED BY <3>1, <3>2, <3>3
  <2> QED BY <2>2, <2>3
<1>g. LowIsLeast'
  <2>0. \A e \in edges : e[1] \in Vertices /\ e[2] \in Vertices
    BY EdgeTypes DEF SccIInv
  <2> SUFFICES ASSUME NEW i \in 1 .. k, NEW e \in edges,
                      SinceCall(i, e[1]), OnStack(e[2]),
                      ~(e[1] = Caller(i) /\ e[2] \in calls'[i].todo)
               PROVE  low'[Caller(i)] <= disc[e[2]]
    BY <1>0, <1>1, <1>2, <1>3, <2>0 DEF LowIsLeast, SinceCall
  <2>1. e[1] \in Vertices /\ e[2] \in Vertices
    BY <2>0
  <2>2. low'[Caller(i)] <= low[Caller(i)]
    BY <1>0, <1>4, <1>5
  <2>3. CASE e[1] = Caller(i) /\ e[2] \in calls[i].todo
    <3>1. i = k /\ e[2] = v
      BY <1>2, <2>3
    <3> QED BY <1>4, <3>1
  <2>4. CASE ~(e[1] = Caller(i) /\ e[2] \in calls[i].todo)
    <3>1. low[Caller(i)] <= disc[e[2]]
      BY <1>0, <2>4, SMTT(30) DEF LowIsLeast, SccIInv
    <3> QED BY <1>0, <1>5, <2>1, <2>2, <3>1
  <2> QED BY <2>3, <2>4
<1>h. EmittedAfterWhatTheyEmbed' /\ EmittedAreComponents'
  BY <1>1, <1>3 DEF EmittedAfterWhatTheyEmbed, EmittedAreComponents, SccIInv
<1> QED BY <1>a, <1>b, <1>c, <1>d, <1>e, <1>f, <1>g, <1>h DEF SccIInv

(* visit goes on with a vertex that was entered before. *)
LEMMA VisitMetInv ==
  ASSUME SccAssumption, SccIInv, NEW v \in Vertices, VisitOpen(v) \/ VisitClosed(v)
  PROVE  SccIInv'
<1>1. Meets(v)
  BY DEF VisitOpen, VisitClosed, Meets
<1> QED BY <1>1, MeetInv

----------------------------------------------------------------------------
(* Returning, and what is popped when the component is complete. *)

(* What is popped when low has come back to disc, and what stays. *)
LEMMA PoppedFacts ==
  ASSUME SccTypeOK, StackByMoment, NEW u \in Vertices, OnStack(u)
  PROVE  LET rest == SubSeq(stack, 1, PositionOf(u) - 1)
         IN  /\ rest \in Seq(Vertices)
             /\ \A i \in DOMAIN rest : i \in DOMAIN stack /\ rest[i] = stack[i]
             /\ \A v : v \in ToSet(rest) <=> OnStack(v) /\ disc[v] < disc[u]
             /\ PoppedTo(u) \in Seq(Vertices) /\ PoppedTo(u) # <<>>
             /\ \A v : v \in ToSet(PoppedTo(u)) <=> OnStack(v) /\ disc[u] <= disc[v]
             /\ \A i, j \in DOMAIN PoppedTo(u) :
                  PoppedTo(u)[i] = PoppedTo(u)[j] => i = j
<1>1. PICK n \in Nat : n = Len(stack) /\ DOMAIN stack = 1 .. n
  BY LenProperties DEF SccTypeOK
<1>2. PICK p \in 1 .. n : p = PositionOf(u) /\ stack[p] = u
  BY <1>1 DEF OnStack, ToSet, PositionOf
<1>3. \A i \in 1 .. n : stack[i] \in Vertices /\ disc[stack[i]] \in Int
  BY <1>1, ElementOfSeq DEF SccTypeOK
<1>4. \A i, j \in 1 .. n : i < j => disc[stack[i]] < disc[stack[j]]
  BY <1>1 DEF StackByMoment
<1>5. \A v : OnStack(v) <=> \E i \in 1 .. n : v = stack[i]
  BY <1>1 DEF OnStack, ToSet
<1>6. \A i \in 1 .. n : disc[stack[i]] < disc[u] <=> i < p
  BY <1>2, <1>3, <1>4
<1> DEFINE rest == SubSeq(stack, 1, PositionOf(u) - 1)
<1> DEFINE top == SubSeq(stack, p, n)
<1>7. /\ rest \in Seq(Vertices)
      /\ Len(rest) = IF 1 <= p - 1 THEN p - 1 - 1 + 1 ELSE 0
      /\ \A i \in 1 .. (p - 1 - 1 + 1) : rest[i] = stack[1 + i - 1]
  <2>1. 1 \in Int /\ p - 1 \in Int /\ rest = SubSeq(stack, 1, p - 1)
    BY <1>2
  <2>2. \A i \in 1 .. (p - 1) : stack[i] \in Vertices
    BY <1>3
  <2> HIDE DEF rest
  <2> QED BY <2>1, <2>2, SubSeqProperties
<1>8. /\ top \in Seq(Vertices)
      /\ Len(top) = IF p <= n THEN n - p + 1 ELSE 0
      /\ \A i \in 1 .. (n - p + 1) : top[i] = stack[p + i - 1]
  <2>1. p \in Int /\ n \in Int
    OBVIOUS
  <2>2. \A i \in p .. n : stack[i] \in Vertices
    BY <1>3
  <2> QED BY <2>1, <2>2, SubSeqProperties
<1> HIDE DEF rest, top
<1>9. DOMAIN rest = 1 .. (p - 1) /\ \A i \in 1 .. (p - 1) : rest[i] = stack[i]
  <2>1. Len(rest) = p - 1
    BY <1>7
  <2>2. \A i \in 1 .. (p - 1) : rest[i] = stack[i]
    BY <1>7
  <2> QED BY <1>7, <2>1, <2>2, LenProperties
<1>10. \A v : v \in ToSet(rest) <=> OnStack(v) /\ disc[v] < disc[u]
  <2> TAKE v
  <2>1. v \in ToSet(rest) <=> \E i \in 1 .. (p - 1) : v = stack[i]
    BY <1>9 DEF ToSet
  <2>2. \A i \in 1 .. (p - 1) : i \in 1 .. n /\ i < p
    OBVIOUS
  <2>3. \A i \in 1 .. n : i < p => i \in 1 .. (p - 1)
    OBVIOUS
  <2> QED BY <1>5, <1>6, <2>1, <2>2, <2>3
<1> DEFINE m == n - p + 1
<1>11. m \in Nat \ {0} /\ Len(top) = m /\ \A i \in 1 .. m : top[i] = stack[p + i - 1]
  <2>1. Len(top) = n - p + 1
    BY <1>8
  <2> QED BY <1>8, <2>1
<1>12. PoppedTo(u) = [i \in 1 .. m |-> top[(m - i) + 1]]
  <2>1. PoppedTo(u) = Reverse(top)
    BY <1>1, <1>2 DEF PoppedTo, top
  <2> HIDE DEF m
  <2> QED BY <1>11, <2>1 DEF Reverse
<1>13. \A i \in 1 .. m : /\ n + 1 - i \in p .. n
                        /\ PoppedTo(u)[i] = stack[n + 1 - i]
  <2> TAKE i \in 1 .. m
  <2>1. (m - i) + 1 \in 1 .. m /\ p + ((m - i) + 1) - 1 = n + 1 - i
    OBVIOUS
  <2>2. PoppedTo(u)[i] = top[(m - i) + 1]
    BY <1>12
  <2>3. top[(m - i) + 1] = stack[p + ((m - i) + 1) - 1]
    BY <1>11, <2>1
  <2> QED BY <2>1, <2>2, <2>3
<1>14. DOMAIN PoppedTo(u) = 1 .. m
  BY <1>12
<1>15. PoppedTo(u) \in Seq(Vertices) /\ PoppedTo(u) # <<>>
  <2>1. PoppedTo(u) \in [1 .. m -> Vertices]
    <3>1. \A i \in 1 .. m : top[(m - i) + 1] \in Vertices
      <4> TAKE i \in 1 .. m
      <4>1. n + 1 - i \in 1 .. n
        OBVIOUS
      <4>2. PoppedTo(u)[i] \in Vertices
        BY <1>3, <1>13, <4>1
      <4>3. PoppedTo(u)[i] = top[(m - i) + 1]
        BY <1>12
      <4> QED BY <4>2, <4>3
    <3> HIDE DEF m
    <3> QED BY <1>12, <3>1
  <2>2. 1 \in DOMAIN PoppedTo(u)
    BY <1>11, <1>14
  <2>3. PoppedTo(u) \in Seq(Vertices)
    BY <1>11, <2>1, SeqDef
  <2> QED BY <2>2, <2>3
<1>16. \A v : v \in ToSet(PoppedTo(u)) <=> OnStack(v) /\ disc[u] <= disc[v]
  <2> TAKE v
  <2>1. v \in ToSet(PoppedTo(u)) <=> \E i \in p .. n : v = stack[i]
    <3>1. ASSUME NEW i \in p .. n
          PROVE  n + 1 - i \in 1 .. m /\ stack[i] = PoppedTo(u)[n + 1 - i]
      <4>1. n + 1 - i \in 1 .. m /\ n + 1 - (n + 1 - i) = i
        OBVIOUS
      <4> QED BY <1>13, <4>1
    <3> HIDE DEF m
    <3>2. ASSUME v \in ToSet(PoppedTo(u)) PROVE \E i \in p .. n : v = stack[i]
      <4>1. PICK i \in 1 .. m : v = PoppedTo(u)[i]
        BY <1>14, <3>2 DEF ToSet
      <4> QED BY <1>13, <4>1
    <3>3. ASSUME NEW i \in p .. n, v = stack[i] PROVE v \in ToSet(PoppedTo(u))
      <4>1. n + 1 - i \in DOMAIN PoppedTo(u) /\ v = PoppedTo(u)[n + 1 - i]
        BY <1>14, <3>1, <3>3
      <4> QED BY <4>1 DEF ToSet
    <3> QED BY <3>2, <3>3
  <2>2. \A i \in 1 .. n : i \in p .. n <=> disc[u] <= disc[stack[i]]
    BY <1>2, <1>3, <1>6
  <2>3. \A i \in p .. n : i \in 1 .. n
    OBVIOUS
  <2> HIDE DEF m
  <2> QED BY <1>5, <2>1, <2>2, <2>3
<1>17. ASSUME NEW i \in 1 .. m, NEW j \in 1 .. m, PoppedTo(u)[i] = PoppedTo(u)[j]
       PROVE  i = j
  <2>1. n + 1 - i \in 1 .. n /\ n + 1 - j \in 1 .. n
    OBVIOUS
  <2>2. disc[stack[n + 1 - i]] = disc[stack[n + 1 - j]]
    BY <1>13, <1>17
  <2>3. ~(n + 1 - i < n + 1 - j) /\ ~(n + 1 - j < n + 1 - i)
    BY <1>3, <1>4, <2>1, <2>2
  <2> QED BY <2>1, <2>3
<1>18. \A i \in DOMAIN rest : i \in DOMAIN stack /\ rest[i] = stack[i]
  BY <1>1, <1>9
<1> QED
  BY <1>7, <1>10, <1>14, <1>15, <1>16, <1>17, <1>18 DEF rest

(* What returning changes, whether or not a component is emitted. *)
LEMMA ReturnFacts ==
  ASSUME SccIInv, Return, NEW k \in Nat, k = Len(calls), NEW u, u = Caller(k)
  PROVE  /\ k > 0 /\ DOMAIN calls = 1 .. k /\ u \in Vertices /\ OnStack(u)
         /\ calls[k].todo = {}
         /\ Top.vertex = u
         /\ calls' \in Seq(Frames) /\ Len(calls') = k - 1 /\ DOMAIN calls' = 1 .. (k - 1)
         /\ (calls' = <<>> <=> k = 1)
         /\ \A i \in 1 .. (k - 1) :
              /\ calls'[i] = calls[i] /\ Caller(i)' = Caller(i)
              /\ Caller(i) \in Vertices /\ OnStack(Caller(i))
              /\ disc[Caller(i)] < disc[u]
         /\ \A i \in 1 .. (k - 1), v \in Vertices :
              Below(i, v)' <=> i = k - 1 \/ (i + 1 \in 1 .. (k - 1)
                                             /\ disc[v] < disc[Caller(i + 1)])
         /\ low' \in [Vertices -> Int]
         /\ \A v \in Vertices : k > 1 /\ v = Caller(k - 1) => low'[v] = Lower(low[v], low[u])
         /\ \A v \in Vertices : ~(k > 1 /\ v = Caller(k - 1)) => low'[v] = low[v]
         /\ edges' = edges /\ disc' = disc /\ count' = count
<1> USE DEF SccIInv
<1>1. /\ calls # <<>> /\ Top.todo = {} /\ calls' = Front(calls)
      /\ edges' = edges /\ disc' = disc /\ count' = count
      /\ low' = IF k = 1 THEN low
                ELSE [low EXCEPT ![calls[k - 1].vertex] = Lower(@, low[Top.vertex])]
  BY DEF Return, HandToParent
<1>2. /\ k > 0 /\ DOMAIN calls = 1 .. k /\ k \in 1 .. k
      /\ \A i \in 1 .. k : Caller(i) \in Vertices /\ OnStack(Caller(i))
      /\ Top = calls[k] /\ Top.vertex = u
  <2>1. k > 0 /\ DOMAIN calls = 1 .. k /\ Top = calls[k] /\ Top.vertex = u
    BY <1>1, CallTypes, VisitedFrames
  <2> QED BY <2>1, CallTypes DEF CallPath
<1>3. /\ calls' \in Seq(Frames) /\ Len(calls') = k - 1
      /\ \A i \in 1 .. (k - 1) : calls'[i] = calls[i]
  BY <1>1, FrontAndLast DEF SccTypeOK
<1>4. DOMAIN calls' = 1 .. (k - 1) /\ (calls' = <<>> <=> k = 1)
  <2>1. DOMAIN calls' = 1 .. (k - 1)
    BY <1>3, LenProperties
  <2>2. calls' = <<>> <=> Len(calls') = 0
    BY <1>3, EmptySeq
  <2> QED BY <1>3, <2>1, <2>2
<1>5. ASSUME NEW i \in 1 .. (k - 1)
      PROVE  /\ calls'[i] = calls[i] /\ Caller(i)' = Caller(i)
             /\ Caller(i) \in Vertices /\ OnStack(Caller(i))
             /\ disc[Caller(i)] < disc[u]
  <2>1. i \in 1 .. k /\ i < k
    OBVIOUS
  <2>2. disc[Caller(i)] < disc[Caller(k)]
    BY <1>2, <2>1 DEF CallPath
  <2> QED BY <1>2, <1>3, <2>1, <2>2 DEF Caller
<1>6. ASSUME NEW i \in 1 .. (k - 1), NEW v \in Vertices
      PROVE  Below(i, v)' <=> i = k - 1 \/ (i + 1 \in 1 .. (k - 1)
                                            /\ disc[v] < disc[Caller(i + 1)])
  <2>1. CASE i = k - 1
    BY <1>3, <2>1 DEF Below
  <2>2. CASE i # k - 1
    <3>1. i + 1 \in 1 .. (k - 1)
      BY <2>2
    <3>2. Caller(i + 1)' = Caller(i + 1)
      BY <1>5, <3>1
    <3> QED BY <1>1, <1>3, <2>2, <3>1, <3>2 DEF Below
  <2> QED BY <2>1, <2>2
<1>7. /\ low' \in [Vertices -> Int]
      /\ \A v \in Vertices : k > 1 /\ v = Caller(k - 1) => low'[v] = Lower(low[v], low[u])
      /\ \A v \in Vertices : ~(k > 1 /\ v = Caller(k - 1)) => low'[v] = low[v]
  <2>1. low \in [Vertices -> Int]
    BY DEF SccTypeOK
  <2>2. CASE k = 1
    BY <1>1, <2>1, <2>2
  <2>3. CASE k > 1
    <3>1. k - 1 \in 1 .. (k - 1) /\ k # 1
      BY <2>3
    <3>2. Caller(k - 1) \in Vertices
      BY <1>5, <3>1
    <3>3. low' = [low EXCEPT ![Caller(k - 1)] = Lower(@, low[u])]
      BY <1>1, <1>2, <3>1 DEF Caller
    <3>4. Lower(low[Caller(k - 1)], low[u]) \in Int
      BY <1>2, <2>1, <3>2 DEF Lower
    <3> QED BY <2>1, <2>3, <3>2, <3>3, <3>4
  <2> QED BY <1>2, <2>2, <2>3
<1> HIDE DEF SccIInv
<1>8. u \in Vertices /\ OnStack(u) /\ calls[k].todo = {}
  BY <1>1, <1>2
<1> QED BY <1>1, <1>2, <1>3, <1>4, <1>5, <1>6, <1>7, <1>8

(* Where the vertices are after a return. *)
LEMMA ReturnPlaces ==
  ASSUME SccIInv, Return, NEW k \in Nat, k = Len(calls), NEW u, u = Caller(k)
  PROVE  /\ \A v : OnStack(v)' <=> /\ OnStack(v)
                                   /\ low[u] = disc[u] => disc[v] < disc[u]
         /\ stack' \in Seq(Vertices) /\ sccs' \in Seq(Seq(Vertices))
         /\ StackByMoment'
         /\ low[u] # disc[u] => sccs' = sccs
         /\ low[u] = disc[u] => sccs' = Append(sccs, PoppedTo(u))
<1> USE DEF SccIInv
<1>1. u \in Vertices /\ OnStack(u) /\ Top.vertex = u /\ disc' = disc
  BY ReturnFacts
<1>2. stack \in Seq(Vertices) /\ sccs \in Seq(Seq(Vertices))
  BY DEF SccTypeOK
<1>3. CASE low[u] # disc[u]
  <2>1. stack' = stack /\ sccs' = sccs
    BY <1>1, <1>3 DEF Return, Emit
  <2> QED BY <1>1, <1>2, <1>3, <2>1 DEF OnStack, StackByMoment
<1>4. CASE low[u] = disc[u]
  <2>1. /\ stack' = SubSeq(stack, 1, PositionOf(u) - 1)
        /\ sccs' = Append(sccs, PoppedTo(u))
    BY <1>1, <1>4 DEF Return, Emit
  <2>2. /\ stack' \in Seq(Vertices)
        /\ \A i \in DOMAIN stack' : i \in DOMAIN stack /\ stack'[i] = stack[i]
        /\ \A v : v \in ToSet(stack') <=> OnStack(v) /\ disc[v] < disc[u]
        /\ PoppedTo(u) \in Seq(Vertices)
    BY <1>1, <2>1, PoppedFacts
  <2>3. StackByMoment'
    BY <1>1, <2>2 DEF StackByMoment
  <2>4. \A v : OnStack(v)' <=> OnStack(v) /\ disc[v] < disc[u]
    BY <2>2 DEF OnStack
  <2>5. sccs' \in Seq(Seq(Vertices))
    BY <1>2, <2>1, <2>2, AppendElements
  <2> QED BY <1>4, <2>1, <2>2, <2>3, <2>4, <2>5
<1> QED BY <1>3, <1>4

(* What an emitted vertex embeds is emitted. *)
LEMMA EmittedClosed ==
  ASSUME SccTypeOK, EmittedAfterWhatTheyEmbed
  PROVE  \A e \in edges : Emitted(e[1]) => Emitted(e[2])
<1> SUFFICES ASSUME NEW e \in edges, Emitted(e[1])
             PROVE  Emitted(e[2])
  OBVIOUS
<1>1. DOMAIN sccs = 1 .. Len(sccs) /\ Len(sccs) \in Nat
  BY LenProperties DEF SccTypeOK
<1>2. PICK i \in DOMAIN sccs : e[1] \in ToSet(sccs[i])
  BY DEF Emitted
<1>3. PICK j \in 1 .. i : e[2] \in ToSet(sccs[j])
  BY <1>2 DEF EmittedAfterWhatTheyEmbed
<1> QED BY <1>1, <1>2, <1>3 DEF Emitted

(* What is popped are the vertices that the caller's vertex reaches and that
   reach it. *)
LEMMA PoppedIsComponent ==
  ASSUME SccIInv, Return, NEW k \in Nat, k = Len(calls), NEW u, u = Caller(k),
         low[u] = disc[u]
  PROVE  LET S == {v \in Vertices : OnStack(v) /\ disc[u] <= disc[v]}
         IN  /\ \A e \in edges : e[1] \in S => e[2] \in S \/ Emitted(e[2])
             /\ \A v \in S, w \in Vertices :
                  w \in S <=> Reaches(v, w) /\ Reaches(w, v)
<1> DEFINE S == {v \in Vertices : OnStack(v) /\ disc[u] <= disc[v]}
<1>1. /\ k \in DOMAIN calls /\ u \in Vertices /\ OnStack(u) /\ calls[k].todo = {}
      /\ \A i \in DOMAIN calls : i # k => disc[Caller(i)] < disc[u]
      /\ \A v \in Vertices : disc[v] \in Int
  <2>1. /\ k > 0 /\ DOMAIN calls = 1 .. k /\ u \in Vertices /\ OnStack(u)
        /\ calls[k].todo = {}
        /\ \A i \in 1 .. (k - 1) : disc[Caller(i)] < disc[u]
    BY ReturnFacts
  <2>2. \A i \in 1 .. k : i # k => i \in 1 .. (k - 1)
    OBVIOUS
  <2>3. \A v \in Vertices : disc[v] \in Int
    BY DEF SccIInv, SccTypeOK
  <2> QED BY <2>1, <2>2, <2>3
<1>2. \A v : Below(k, v)
  BY DEF Below
<1>3. \A e \in edges : e[1] \in Vertices /\ e[2] \in Vertices
  BY EdgeTypes DEF SccIInv
<1>4. ASSUME NEW e \in edges, e[1] \in S
      PROVE  e[2] \in S \/ Emitted(e[2])
  <2>1. ~Unvisited(e[1])
    BY <1>4 DEF SccIInv, OpenOrEmitted
  <2>2. ~Unvisited(e[2])
    <3> SUFFICES ASSUME Unvisited(e[2]) PROVE FALSE
      OBVIOUS
    <3>1. PICK i \in DOMAIN calls : Caller(i) = e[1] /\ e[2] \in calls[i].todo
      BY <2>1 DEF SccIInv, UnvisitedAhead
    <3>2. i = k
      BY <1>1, <1>3, <1>4, <3>1
    <3> QED BY <1>1, <3>1, <3>2
  <2>3. CASE Emitted(e[2])
    BY <2>3
  <2>4. CASE OnStack(e[2])
    <3>1. SinceCall(k, e[1])
      BY <1>2, <1>4 DEF SinceCall
    <3>2. low[Caller(k)] <= disc[e[2]]
      BY <1>1, <2>4, <3>1 DEF SccIInv, LowIsLeast
    <3> QED BY <1>3, <2>4, <3>2
  <2> QED BY <1>3, <2>2, <2>3, <2>4 DEF SccIInv, OpenOrEmitted
<1>5. ASSUME NEW v \in S, NEW w \in S
      PROVE  Reaches(v, w)
  <2>1. Reaches(v, u)
    BY <1>1, <1>2 DEF SccIInv, LeadsBack
  <2>2. Reaches(u, w)
    BY <1>1 DEF SccIInv, LedTo
  <2> QED BY <1>1, <2>1, <2>2, ReachesSteps DEF SccIInv
<1>6. ASSUME NEW v \in S, NEW w \in Vertices, Reaches(v, w), Reaches(w, v)
      PROVE  w \in S
  <2> DEFINE D == {x \in Vertices : Emitted(x)}
  <2>1. \A e \in edges : Emitted(e[1]) => Emitted(e[2])
    BY EmittedClosed DEF SccIInv
  <2>2. Closed(D) /\ Closed(S \cup D)
    BY <1>3, <1>4, <2>1 DEF Closed
  <2>3. w \in S \cup D
    <3> HIDE DEF S, D
    <3>1. S \cup D \in SUBSET Vertices /\ v \in S \cup D
      BY <1>6 DEF S, D
    <3> QED BY <1>6, <2>2, <3>1, ReachesStaysInside
  <2>4. w \notin D
    <3> SUFFICES ASSUME w \in D PROVE FALSE
      OBVIOUS
    <3>1. v \in D
      <4> HIDE DEF S, D
      <4>1. D \in SUBSET Vertices /\ v \in Vertices
        BY <1>6 DEF S, D
      <4> QED BY <1>6, <2>2, <4>1, ReachesStaysInside
    <3> QED BY <3>1 DEF SccIInv, OpenOrEmitted
  <2> QED BY <2>3, <2>4
<1> HIDE DEF S
<1>7. \A v \in S, w \in Vertices : w \in S <=> Reaches(v, w) /\ Reaches(w, v)
  BY <1>5, <1>6
<1> QED BY <1>4, <1>7 DEF S

(* What the new component leaves of the invariants about `sccs`. *)
LEMMA ReturnSccs ==
  ASSUME SccIInv, Return, NEW k \in Nat, k = Len(calls), NEW u, u = Caller(k)
  PROVE  /\ \A v \in Vertices :
              Emitted(v)' <=> \/ Emitted(v)
                              \/ low[u] = disc[u] /\ OnStack(v) /\ disc[u] <= disc[v]
         /\ SccsApart'
         /\ EmittedAfterWhatTheyEmbed'
         /\ EmittedAreComponents'
<1>1. /\ u \in Vertices /\ OnStack(u) /\ disc' = disc /\ edges' = edges
      /\ \A v, w : Reaches(v, w)' <=> Reaches(v, w)
      /\ \A e \in edges : e[1] \in Vertices /\ e[2] \in Vertices
  BY ReturnFacts, SameEdges, EdgeTypes DEF SccIInv
<1>2. CASE low[u] # disc[u]
  <2>1. sccs' = sccs
    BY <1>2, ReturnPlaces
  <2> QED
    BY <1>1, <1>2, <2>1 DEF SccIInv, Emitted, SccsApart, EmittedAfterWhatTheyEmbed,
                            EmittedAreComponents
<1>3. CASE low[u] = disc[u]
  <2> DEFINE C == PoppedTo(u)
  <2> DEFINE S == {v \in Vertices : OnStack(v) /\ disc[u] <= disc[v]}
  <2>1. /\ C \in Seq(Vertices) /\ C # <<>>
        /\ \A v \in Vertices : v \in ToSet(C) <=> v \in S
        /\ ToSet(C) \subseteq Vertices
        /\ \A i, j \in DOMAIN C : C[i] = C[j] => i = j
    <3>1. /\ C \in Seq(Vertices) /\ C # <<>>
          /\ \A v : v \in ToSet(C) <=> OnStack(v) /\ disc[u] <= disc[v]
          /\ \A i, j \in DOMAIN C : C[i] = C[j] => i = j
      BY <1>1, PoppedFacts DEF SccIInv
    <3>2. ToSet(C) \subseteq Vertices
      BY <3>1, LenProperties, ElementOfSeq DEF ToSet
    <3> HIDE DEF C
    <3> QED BY <3>1, <3>2
  <2>2. sccs' = Append(sccs, C)
    BY <1>3, ReturnPlaces
  <2>3. PICK n \in Nat : n = Len(sccs) /\ DOMAIN sccs = 1 .. n
    BY LenProperties DEF SccIInv, SccTypeOK
  <2>4. /\ DOMAIN sccs' = 1 .. (n + 1)
        /\ \A i \in 1 .. n : sccs'[i] = sccs[i]
        /\ sccs'[n + 1] = C
    BY <2>1, <2>2, <2>3, AppendElements DEF SccIInv, SccTypeOK
  <2>5. \A i \in 1 .. (n + 1) : i \in 1 .. n \/ i = n + 1
    OBVIOUS
  <2>6. \A i \in 1 .. n : i \in 1 .. (n + 1)
    OBVIOUS
  <2>7. n + 1 \in 1 .. (n + 1)
    OBVIOUS
  <2>8. /\ \A e \in edges : e[1] \in S => e[2] \in S \/ Emitted(e[2])
        /\ \A v \in S, w \in Vertices : w \in S <=> Reaches(v, w) /\ Reaches(w, v)
    BY <1>3, PoppedIsComponent
  <2>9. \A v \in S : ~Emitted(v)
    BY DEF SccIInv, OpenOrEmitted
  <2> HIDE DEF C
  <2>a. \A v \in Vertices : Emitted(v)' <=> Emitted(v) \/ v \in S
    <3> HIDE DEF S
    <3> QED BY <2>1, <2>3, <2>4, <2>5, <2>6, <2>7 DEF Emitted
  <2>b. SccsApart'
    <3>1. ASSUME NEW i \in 1 .. n, NEW j \in DOMAIN sccs[i], NEW l \in DOMAIN C,
                 sccs[i][j] = C[l]
          PROVE  FALSE
      <4>1. C[l] \in ToSet(C) /\ C[l] \in ToSet(sccs[i])
        BY <3>1 DEF ToSet
      <4> QED BY <2>1, <2>3, <2>9, <4>1 DEF Emitted
    <3>2. ASSUME NEW i \in 1 .. (n + 1), NEW m \in 1 .. (n + 1),
                 NEW j \in DOMAIN sccs'[i], NEW l \in DOMAIN sccs'[m],
                 sccs'[i][j] = sccs'[m][l]
          PROVE  i = m /\ j = l
      <4>1. CASE i \in 1 .. n /\ m \in 1 .. n
        BY <2>3, <2>4, <3>2, <4>1 DEF SccIInv, SccsApart
      <4>2. CASE i = n + 1 /\ m = n + 1
        BY <2>1, <2>4, <3>2, <4>2
      <4>3. CASE i \in 1 .. n /\ m = n + 1
        BY <2>4, <3>1, <3>2, <4>3
      <4>4. CASE i = n + 1 /\ m \in 1 .. n
        BY <2>4, <3>1, <3>2, <4>4
      <4> QED BY <2>5, <4>1, <4>2, <4>3, <4>4
    <3>3. \A i \in 1 .. (n + 1) : sccs'[i] # <<>>
      BY <2>1, <2>3, <2>4, <2>5 DEF SccIInv, SccsApart
    <3> QED BY <2>4, <3>2, <3>3 DEF SccsApart
  <2>c. EmittedAfterWhatTheyEmbed'
    <3> SUFFICES ASSUME NEW i \in 1 .. (n + 1), NEW e \in edges,
                        e[1] \in ToSet(sccs'[i])
                 PROVE  \E j \in 1 .. i : e[2] \in ToSet(sccs'[j])
      BY <1>1, <2>4 DEF EmittedAfterWhatTheyEmbed
    <3>1. CASE i \in 1 .. n
      <4>1. PICK j \in 1 .. i : e[2] \in ToSet(sccs[j])
        BY <2>3, <2>4, <3>1 DEF SccIInv, EmittedAfterWhatTheyEmbed
      <4>2. j \in 1 .. n
        BY <3>1
      <4> QED BY <2>4, <4>1, <4>2
    <3>2. CASE i = n + 1
      <4>1. e[1] \in S
        BY <1>1, <2>1, <2>4, <3>2
      <4>2. CASE e[2] \in S
        BY <2>1, <2>4, <2>7, <3>2, <4>2
      <4>3. CASE Emitted(e[2])
        <5>1. PICK j \in 1 .. n : e[2] \in ToSet(sccs[j])
          BY <2>3, <4>3 DEF Emitted
        <5> QED BY <2>4, <2>6, <3>2, <5>1
      <4> QED BY <2>8, <4>1, <4>2, <4>3
    <3> QED BY <2>5, <3>1, <3>2
  <2>d. EmittedAreComponents'
    <3> SUFFICES ASSUME NEW i \in 1 .. (n + 1), NEW v \in ToSet(sccs'[i]),
                        NEW w \in Vertices
                 PROVE  w \in ToSet(sccs'[i]) <=> Reaches(v, w) /\ Reaches(w, v)
      BY <1>1, <2>4 DEF EmittedAreComponents
    <3>1. CASE i \in 1 .. n
      BY <2>3, <2>4, <3>1 DEF SccIInv, EmittedAreComponents
    <3>2. CASE i = n + 1
      <4> HIDE DEF S
      <4> QED BY <2>1, <2>4, <2>8, <3>2
    <3> QED BY <2>5, <3>1, <3>2
  <2> QED BY <1>3, <2>a, <2>b, <2>c, <2>d
<1> QED BY <1>2, <1>3

(* visit returns, with a component or without. *)
LEMMA ReturnInv ==
  ASSUME SccIInv, Return
  PROVE  SccIInv'
<1>k. PICK k \in Nat : k = Len(calls)
  BY CallTypes DEF SccIInv
<1>u. PICK u : u = Caller(k)
  OBVIOUS
<1>1. /\ k > 0 /\ DOMAIN calls = 1 .. k /\ u \in Vertices /\ OnStack(u)
      /\ calls[k].todo = {}
      /\ DOMAIN calls' = 1 .. (k - 1) /\ (calls' = <<>> <=> k = 1)
      /\ \A i \in 1 .. (k - 1) :
           /\ calls'[i] = calls[i] /\ Caller(i)' = Caller(i)
           /\ Caller(i) \in Vertices /\ OnStack(Caller(i))
           /\ disc[Caller(i)] < disc[u]
           /\ i \in 1 .. k
      /\ edges' = edges /\ disc' = disc /\ count' = count
      /\ \A i \in 1 .. k : i \in 1 .. (k - 1) \/ i = k
  <2>1. \A i \in 1 .. (k - 1) : i \in 1 .. k
    OBVIOUS
  <2>2. \A i \in 1 .. k : i \in 1 .. (k - 1) \/ i = k
    OBVIOUS
  <2> QED BY <1>k, <1>u, <2>1, <2>2, ReturnFacts
<1>2. /\ \A i \in 1 .. (k - 1), v \in Vertices :
           Below(i, v)' <=> i = k - 1 \/ Below(i, v)
      /\ \A v : Below(k, v)
      /\ k > 1 => \A v \in Vertices : Below(k - 1, v) <=> disc[v] < disc[u]
  <2>1. \A i \in 1 .. (k - 1), v \in Vertices :
           Below(i, v)' <=> i = k - 1 \/ (i + 1 \in 1 .. (k - 1)
                                          /\ disc[v] < disc[Caller(i + 1)])
    BY <1>k, <1>u, ReturnFacts
  <2>2. \A i \in 1 .. (k - 1), v \in Vertices : i # k - 1 =>
          (i + 1 \in 1 .. (k - 1) /\ (Below(i, v) <=> disc[v] < disc[Caller(i + 1)]))
    BY <1>k DEF Below
  <2> QED BY <1>k, <1>u, <2>1, <2>2 DEF Below
<1>3. /\ low' \in [Vertices -> Int]
      /\ \A v \in Vertices : k > 1 /\ v = Caller(k - 1) => low'[v] = Lower(low[v], low[u])
      /\ \A v \in Vertices : ~(k > 1 /\ v = Caller(k - 1)) => low'[v] = low[v]
      /\ \A v \in Vertices : low'[v] <= low[v]
      /\ \A v \in Vertices : disc[v] \in Int /\ low[v] \in Int /\ low'[v] \in Int
      /\ k > 1 => low'[Caller(k - 1)] <= low[u]
  <2>1. /\ low' \in [Vertices -> Int]
        /\ \A v \in Vertices : k > 1 /\ v = Caller(k - 1) => low'[v] = Lower(low[v], low[u])
        /\ \A v \in Vertices : ~(k > 1 /\ v = Caller(k - 1)) => low'[v] = low[v]
    BY <1>k, <1>u, ReturnFacts
  <2>2. \A v \in Vertices : disc[v] \in Int /\ low[v] \in Int /\ low'[v] \in Int
    BY <2>1 DEF SccIInv, SccTypeOK
  <2>3. \A v \in Vertices : low'[v] <= low[v]
    BY <1>1, <2>1, <2>2 DEF Lower
  <2>4. k > 1 => low'[Caller(k - 1)] <= low[u]
    <3> SUFFICES ASSUME k > 1 PROVE low'[Caller(k - 1)] <= low[u]
      OBVIOUS
    <3>1. k - 1 \in 1 .. (k - 1)
      OBVIOUS
    <3>2. Caller(k - 1) \in Vertices
      BY <1>1, <3>1
    <3> QED BY <1>1, <2>1, <2>2, <3>2 DEF Lower
  <2> QED BY <2>1, <2>2, <2>3, <2>4
<1>4. /\ \A v : OnStack(v)' <=> OnStack(v) /\ (low[u] = disc[u] => disc[v] < disc[u])
      /\ stack' \in Seq(Vertices) /\ sccs' \in Seq(Seq(Vertices))
      /\ StackByMoment'
  BY <1>k, <1>u, ReturnPlaces
<1>5. /\ \A v \in Vertices :
           Emitted(v)' <=> \/ Emitted(v)
                           \/ low[u] = disc[u] /\ OnStack(v) /\ disc[u] <= disc[v]
      /\ SccsApart' /\ EmittedAfterWhatTheyEmbed' /\ EmittedAreComponents'
  BY <1>k, <1>u, ReturnSccs
<1>6. /\ \A v, w : Reaches(v, w)' <=> Reaches(v, w)
      /\ \A v : Targets(v)' = Targets(v)
      /\ \A v : Unvisited(v)' <=> Unvisited(v)
      /\ \A u1, v, w \in Vertices : Reaches(u1, v) /\ Reaches(v, w) => Reaches(u1, w)
      /\ \A e \in edges : e[1] \in Vertices /\ e[2] \in Vertices
  BY <1>1, SameEdges, ReachesSteps, EdgeTypes DEF SccIInv, Unvisited
<1>7. PICK w \in Vertices : /\ OnStack(w) /\ disc[w] = low[u] /\ Reaches(u, w)
                            /\ low[u] <= disc[u]
  BY <1>1, <1>u DEF SccIInv, LowIsReached
<1>a. SccTypeOK'
  <2>1. calls' \in Seq(Frames)
    BY <1>k, <1>u, ReturnFacts
  <2> QED BY <1>1, <1>3, <1>4, <2>1 DEF SccIInv, SccTypeOK
<1>b. OpenOrEmitted'
  <2>1. ASSUME NEW v \in Vertices
        PROVE  /\ disc[v] \in -1 .. (count - 1)
               /\ ~Unvisited(v) <=> OnStack(v) \/ Emitted(v)
               /\ ~(OnStack(v) /\ Emitted(v))
    BY DEF SccIInv, OpenOrEmitted
  <2>2. ASSUME NEW v \in Vertices
        PROVE  disc[u] <= disc[v] <=> ~(disc[v] < disc[u])
    BY <1>1, <1>3
  <2>3. ASSUME NEW v \in Vertices
        PROVE  /\ ~Unvisited(v)' <=> OnStack(v)' \/ Emitted(v)'
               /\ ~(OnStack(v)' /\ Emitted(v)')
    BY <1>4, <1>5, <1>6, <2>1, <2>2
  <2> QED BY <1>1, <2>1, <2>3 DEF OpenOrEmitted
<1>c. CallPath'
  <2>1. \A i \in 1 .. (k - 1) : OnStack(Caller(i))'
    BY <1>1, <1>4
  <2>2. \A i \in 1 .. (k - 1) : calls'[i].todo \subseteq Targets(Caller(i))'
    <3> TAKE i \in 1 .. (k - 1)
    <3>1. calls[i].todo \subseteq Targets(Caller(i))
      BY <1>1 DEF SccIInv, CallPath
    <3>2. Targets(Caller(i))' = Targets(Caller(i))
      BY <1>1 DEF Targets
    <3> QED BY <1>1, <3>1, <3>2
  <2>3. \A i, j \in 1 .. (k - 1) : i < j => disc'[Caller(i)'] < disc'[Caller(j)']
    BY <1>1 DEF SccIInv, CallPath
  <2>4. \A i \in 1 .. (k - 1) : i + 1 \in 1 .. (k - 1) =>
          <<Caller(i), Caller(i + 1)>>' \in edges'
    BY <1>1 DEF SccIInv, CallPath
  <2>5. calls' = <<>> => stack' = <<>>
    <3> SUFFICES ASSUME k = 1 PROVE stack' = <<>>
      BY <1>1
    <3>1. \A v \in Vertices : OnStack(v) => disc[u] <= disc[v]
      BY <1>1, <1>u, EmptySeq DEF SccIInv, CallPath
    <3>2. low[u] = disc[u]
      BY <1>1, <1>3, <1>7, <3>1
    <3>3. \A v \in Vertices : v \notin ToSet(stack')
      <4>1. \A v \in Vertices : ~OnStack(v)'
        BY <1>1, <1>3, <1>4, <3>1, <3>2, SMTT(30)
      <4> QED BY <4>1 DEF OnStack
    <3>4. CASE stack' # <<>>
      <4>1. Len(stack') \in Nat \ {0} /\ DOMAIN stack' = 1 .. Len(stack')
        BY <1>4, <3>4, EmptySeq, LenProperties
      <4>2. 1 \in DOMAIN stack' /\ stack'[1] \in Vertices
        BY <1>4, <4>1, ElementOfSeq
      <4> QED BY <3>3, <4>2 DEF ToSet
    <3> QED BY <3>4
  <2>6. \A v \in Vertices : calls' # <<>> /\ OnStack(v)' =>
           disc'[Caller(1)'] <= disc'[v]
    BY <1>1, <1>4, EmptySeq DEF SccIInv, CallPath
  <2> QED BY <1>1, <2>1, <2>2, <2>3, <2>4, <2>5, <2>6 DEF CallPath
<1>d. UnvisitedAhead'
  <2> SUFFICES ASSUME NEW e \in edges, ~Unvisited(e[1]), Unvisited(e[2])
               PROVE  \E i \in 1 .. (k - 1) : Caller(i)' = e[1] /\ e[2] \in calls'[i].todo
    BY <1>1, <1>6 DEF UnvisitedAhead
  <2>1. PICK i \in 1 .. k : Caller(i) = e[1] /\ e[2] \in calls[i].todo
    BY <1>1 DEF SccIInv, UnvisitedAhead
  <2>2. i \in 1 .. (k - 1)
    BY <1>1, <2>1
  <2> QED BY <1>1, <2>1, <2>2
<1>e. LedTo'
  BY <1>1, <1>4, <1>6 DEF SccIInv, LedTo
<1>f. LeadsBack'
  <2> SUFFICES ASSUME NEW i \in 1 .. (k - 1), NEW v \in Vertices, OnStack(v)',
                      Below(i, v)'
               PROVE  Reaches(v, Caller(i))
    BY <1>1, <1>6 DEF LeadsBack
  <2>1. CASE Below(i, v)
    BY <1>1, <1>4, <2>1 DEF SccIInv, LeadsBack
  <2>2. CASE ~Below(i, v)
    <3>1. i = k - 1 /\ k > 1 /\ ~(disc[v] < disc[u])
      BY <1>2, <2>2
    <3>2. low[u] # disc[u] /\ OnStack(v)
      BY <1>1, <1>4, <3>1
    <3>3. Reaches(v, u)
      BY <1>1, <1>2, <1>u, <3>2 DEF SccIInv, LeadsBack
    <3>4. disc[w] < disc[u]
      BY <1>1, <1>3, <1>7, <3>2
    <3>5. Reaches(w, Caller(i))
      BY <1>1, <1>2, <1>7, <3>1, <3>4 DEF SccIInv, LeadsBack
    <3> QED BY <1>1, <1>6, <1>7, <3>3, <3>5
  <2> QED BY <2>1, <2>2
<1>g. LowIsReached'
  <2> SUFFICES ASSUME NEW i \in 1 .. (k - 1)
               PROVE  /\ low'[Caller(i)] <= disc[Caller(i)]
                      /\ \E x \in Vertices : /\ OnStack(x)'
                                             /\ disc[x] = low'[Caller(i)]
                                             /\ Reaches(Caller(i), x)
    BY <1>1, <1>6 DEF LowIsReached
  <2>1. PICK x \in Vertices : /\ low[Caller(i)] <= disc[Caller(i)]
                              /\ OnStack(x) /\ disc[x] = low[Caller(i)]
                              /\ Reaches(Caller(i), x)
    BY <1>1 DEF SccIInv, LowIsReached
  <2>2. disc[x] < disc[u]
    BY <1>1, <1>3, <2>1
  <2>3. CASE low'[Caller(i)] = low[Caller(i)]
    BY <1>1, <1>4, <2>1, <2>2, <2>3
  <2>4. CASE low'[Caller(i)] # low[Caller(i)]
    <3>1. /\ k > 1 /\ Caller(i) = Caller(k - 1)
          /\ low'[Caller(i)] = low[u] /\ low[u] < low[Caller(i)]
      BY <1>1, <1>3, <2>4 DEF Lower
    <3>2. disc[w] < disc[u]
      BY <1>1, <1>3, <1>7, <2>1, <2>2, <3>1
    <3>3. Reaches(Caller(k - 1), u)
      <4>1. k - 1 \in 1 .. k /\ (k - 1) + 1 = k /\ k \in 1 .. k
        BY <3>1
      <4>2. <<Caller(k - 1), Caller((k - 1) + 1)>> \in edges
        BY <1>1, <4>1 DEF SccIInv, CallPath
      <4> QED BY <1>u, <4>1, <4>2, ReachesSteps DEF SccIInv
    <3>4. Reaches(Caller(i), w)
      BY <1>1, <1>6, <1>7, <3>1, <3>3
    <3>5. low'[Caller(i)] <= disc[Caller(i)]
      BY <1>1, <1>3, <2>1, <3>1
    <3> QED BY <1>4, <1>7, <3>1, <3>2, <3>4, <3>5
  <2> QED BY <2>3, <2>4
<1>h. LowIsLeast'
  <2> SUFFICES ASSUME NEW i \in 1 .. (k - 1), NEW e \in edges,
                      OnStack(e[1])', disc[Caller(i)] <= disc[e[1]], Below(i, e[1])',
                      OnStack(e[2])',
                      ~(e[1] = Caller(i) /\ e[2] \in calls[i].todo)
               PROVE  low'[Caller(i)] <= disc[e[2]]
    BY <1>1 DEF LowIsLeast, SinceCall
  <2>1. e[1] \in Vertices /\ e[2] \in Vertices /\ OnStack(e[1]) /\ OnStack(e[2])
    BY <1>4, <1>6
  <2>2. CASE Below(i, e[1])
    <3>1. low[Caller(i)] <= disc[e[2]]
      BY <1>1, <2>1, <2>2 DEF SccIInv, LowIsLeast, SinceCall
    <3>2. low'[Caller(i)] <= low[Caller(i)] /\ Caller(i) \in Vertices
      BY <1>1, <1>3
    <3> QED BY <1>3, <2>1, <3>1, <3>2
  <2>3. CASE ~Below(i, e[1])
    <3>0. i = k - 1 /\ k > 1
      BY <1>2, <2>1, <2>3
    <3>1. disc[u] <= disc[e[1]]
      BY <1>1, <1>2, <1>3, <2>1, <2>3, <3>0
    <3>2. SinceCall(k, e[1])
      BY <1>2, <1>u, <2>1, <3>1 DEF SinceCall
    <3>3. low[u] <= disc[e[2]]
      BY <1>1, <1>u, <2>1, <3>2 DEF SccIInv, LowIsLeast
    <3> QED BY <1>1, <1>3, <2>1, <3>0, <3>3
  <2> QED BY <2>2, <2>3
<1> QED
  BY <1>4, <1>5, <1>a, <1>b, <1>c, <1>d, <1>e, <1>f, <1>g, <1>h DEF SccIInv

----------------------------------------------------------------------------
(* The invariant holds at the call of sccs() and after every step of it. *)

(* The invariant holds when sccs() is called. *)
LEMMA SccInitInv ==
  ASSUME SccAssumption, SccInit
  PROVE  SccIInv
<1> USE DEF SccInit
<1>1. SccTypeOK
  <2>1. <<>> \in Seq(Vertices) /\ <<>> \in Seq(Frames) /\ <<>> \in Seq(Seq(Vertices))
    BY EmptySeq
  <2> QED BY <2>1 DEF SccTypeOK, SccAssumption
<1>2. \A v : ~OnStack(v) /\ ~Emitted(v)
  BY DEF OnStack, Emitted, ToSet
<1>3. OpenOrEmitted
  BY <1>2 DEF OpenOrEmitted, Unvisited
<1>4. StackByMoment /\ SccsApart
  BY DEF StackByMoment, SccsApart
<1>5. CallPath
  BY DEF CallPath
<1>6. UnvisitedAhead
  <2>1. \A e \in edges : Unvisited(e[1])
    BY <1>1, EdgeTypes DEF Unvisited
  <2> QED BY <2>1 DEF UnvisitedAhead
<1>7. LedTo /\ LeadsBack /\ LowIsReached /\ LowIsLeast
  BY DEF LedTo, LeadsBack, LowIsReached, LowIsLeast
<1>8. EmittedAfterWhatTheyEmbed /\ EmittedAreComponents
  BY DEF EmittedAfterWhatTheyEmbed, EmittedAreComponents
<1> QED BY <1>1, <1>3, <1>4, <1>5, <1>6, <1>7, <1>8 DEF SccIInv

(* The invariant is about the variables of sccs() alone. *)
LEMMA SccSameInv ==
  ASSUME SccIInv, UNCHANGED sccVars
  PROVE  SccIInv'
<1>1. /\ edges' = edges /\ disc' = disc /\ low' = low /\ count' = count
      /\ stack' = stack /\ calls' = calls /\ sccs' = sccs
  BY DEF sccVars
<1>2. /\ \A u, v : Reaches(u, v)' <=> Reaches(u, v)
      /\ \A u : Targets(u)' = Targets(u)
  BY <1>1, SameEdges
<1>3. SccTypeOK' /\ OpenOrEmitted' /\ StackByMoment' /\ SccsApart'
  BY <1>1 DEF SccIInv, SccTypeOK, OpenOrEmitted, StackByMoment, SccsApart,
              Unvisited, OnStack, Emitted
<1>4. CallPath'
  BY <1>1, <1>2 DEF SccIInv, CallPath, OnStack, Caller, Targets
<1>5. UnvisitedAhead'
  BY <1>1 DEF SccIInv, UnvisitedAhead, Unvisited, Caller
<1>6. LedTo' /\ LeadsBack' /\ LowIsReached' /\ LowIsLeast'
  BY <1>1 DEF SccIInv, LedTo, LeadsBack, LowIsReached, LowIsLeast, SinceCall, Below,
              OnStack, Caller, Reaches, Closed
<1>7. EmittedAfterWhatTheyEmbed' /\ EmittedAreComponents'
  BY <1>1, <1>2 DEF SccIInv, EmittedAfterWhatTheyEmbed, EmittedAreComponents
<1> QED BY <1>3, <1>4, <1>5, <1>6, <1>7 DEF SccIInv

(* The invariant is preserved by every step of sccs(). *)
LEMMA SccStepInv ==
  ASSUME SccAssumption, SccIInv, [SccNext]_sccVars
  PROVE  SccIInv'
BY RootInv, VisitNewInv, VisitMetInv, ReturnInv, SccSameInv DEF SccNext

----------------------------------------------------------------------------
(* What the invariant says of the result. *)

(* There are finitely many vertices. *)
LEMMA VerticesFinite ==
  ASSUME SccAssumption
  PROVE  IsFiniteSet(Vertices) /\ Cardinality(Vertices) = N
<1>1. N \in Nat
  BY DEF SccAssumption
<1>2. IsFiniteSet(1 .. N) /\ Cardinality(1 .. N) = IF 1 > N THEN 0 ELSE N - 1 + 1
  BY <1>1, FS_Interval
<1> QED BY <1>1, <1>2 DEF Vertices

(* A component has no more places than there are messages. *)
LEMMA ComponentLength ==
  ASSUME SccAssumption, SccIInv, NEW i \in DOMAIN sccs
  PROVE  /\ sccs[i] \in Seq(Vertices)
         /\ Len(sccs[i]) \in 1 .. N
         /\ DOMAIN sccs[i] = 1 .. Len(sccs[i])
         /\ \A j \in DOMAIN sccs[i] : sccs[i][j] \in Vertices
<1> DEFINE C == sccs[i]
<1>1. C \in Seq(Vertices) /\ C # <<>>
  BY ElementOfSeq, LenProperties DEF SccIInv, SccTypeOK, SccsApart
<1> HIDE DEF C
<1>2. /\ Len(C) \in Nat \ {0} /\ DOMAIN C = 1 .. Len(C)
      /\ C \in [1 .. Len(C) -> Vertices]
  BY <1>1, EmptySeq, LenProperties
<1>3. C \in Injection(1 .. Len(C), Vertices)
  <2>1. \A j, l \in 1 .. Len(C) : C[j] = C[l] => j = l
    BY <1>2 DEF SccIInv, SccsApart, C
  <2> QED BY <1>2, <2>1 DEF Injection, IsInjective
<1>4. Cardinality(1 .. Len(C)) <= N
  BY <1>3, VerticesFinite, FS_Injection
<1>5. Cardinality(1 .. Len(C)) = Len(C)
  <2>1. 1 \in Int /\ Len(C) \in Int
    BY <1>2
  <2>2. Cardinality(1 .. Len(C)) = IF 1 > Len(C) THEN 0 ELSE Len(C) - 1 + 1
    BY <2>1, FS_Interval
  <2> QED BY <1>2, <2>2
<1>6. Len(C) \in 1 .. N
  BY <1>2, <1>4, <1>5 DEF SccAssumption
<1> QED BY <1>1, <1>2, <1>6 DEF C

(* Components that are apart hold a vertex once. *)
LEMMA EachOnceFromInv ==
  ASSUME SccAssumption, SccIInv
  PROVE  EachOnce
<1> SUFFICES ASSUME NEW v \in Vertices
             PROVE  Cardinality({i \in DOMAIN stack : stack[i] = v})
                      + Cardinality({p \in (DOMAIN sccs) \X Vertices :
                          p[2] \in DOMAIN sccs[p[1]] /\ sccs[p[1]][p[2]] = v})
                      = IF Unvisited(v) THEN 0 ELSE 1
  BY DEF EachOnce
<1> DEFINE A == {i \in DOMAIN stack : stack[i] = v}
<1> DEFINE B == {p \in (DOMAIN sccs) \X Vertices :
                   p[2] \in DOMAIN sccs[p[1]] /\ sccs[p[1]][p[2]] = v}
<1>1. Cardinality(A) = IF OnStack(v) THEN 1 ELSE 0
  <2>1. CASE ~OnStack(v)
    <3>1. A = {}
      BY <2>1 DEF OnStack, ToSet
    <3> QED BY <2>1, <3>1, FS_EmptySet
  <2>2. CASE OnStack(v)
    <3>1. PICK i \in DOMAIN stack : stack[i] = v
      BY <2>2 DEF OnStack, ToSet
    <3>2. \A j \in DOMAIN stack : stack[j] = v => j = i
      <4> TAKE j \in DOMAIN stack
      <4>1. i \in Nat /\ j \in Nat /\ disc[v] \in Int
        BY LenProperties, SMTT(30) DEF SccIInv, SccTypeOK
      <4>2. ASSUME stack[j] = v PROVE ~(i < j) /\ ~(j < i)
        BY <3>1, <4>1, <4>2 DEF SccIInv, StackByMoment
      <4> QED BY <4>1, <4>2
    <3>3. A = {i}
      BY <3>1, <3>2
    <3> QED BY <2>2, <3>3, FS_Singleton
  <2> QED BY <2>1, <2>2
<1>2. Cardinality(B) = IF Emitted(v) THEN 1 ELSE 0
  <2>1. CASE ~Emitted(v)
    <3>1. B = {}
      BY <2>1 DEF Emitted, ToSet
    <3> QED BY <2>1, <3>1, FS_EmptySet
  <2>2. CASE Emitted(v)
    <3>0. PICK i \in DOMAIN sccs : v \in ToSet(sccs[i])
      BY <2>2 DEF Emitted
    <3>1. PICK j \in DOMAIN sccs[i] : sccs[i][j] = v
      BY <3>0 DEF ToSet
    <3>2. j \in Vertices
      BY <3>1, ComponentLength DEF Vertices
    <3>3. \A p \in B : p = <<i, j>>
      <4> TAKE p \in B
      <4>1. p[1] \in DOMAIN sccs /\ p[2] \in DOMAIN sccs[p[1]] /\ p = <<p[1], p[2]>>
        OBVIOUS
      <4>2. p[1] = i /\ p[2] = j
        BY <3>1, <4>1 DEF SccIInv, SccsApart
      <4> QED BY <4>1, <4>2
    <3>4. B = {<<i, j>>}
      BY <3>1, <3>2, <3>3
    <3> QED BY <2>2, <3>4, FS_Singleton
  <2> QED BY <2>1, <2>2
<1> HIDE DEF A, B
<1>3. Unvisited(v) <=> ~OnStack(v) /\ ~Emitted(v)
  BY DEF SccIInv, OpenOrEmitted
<1>4. ~(OnStack(v) /\ Emitted(v))
  BY DEF SccIInv, OpenOrEmitted
<1>5. Cardinality(A) + Cardinality(B) = IF Unvisited(v) THEN 0 ELSE 1
  BY <1>1, <1>2, <1>3, <1>4
<1> QED BY <1>5 DEF A, B

----------------------------------------------------------------------------
(* sccs() inside break_cycles. *)

(* The graph that is explored is the one the fields make, and the loops    *)
(* start when it has been explored.                                        *)
CycleIInv ==
  /\ SccIInv
  /\ fields \in SUBSET Boxing!Fields
  /\ edges = EmbeddingEdges(fields)
  /\ phase # "start" => SccDone

LEMMA CycleInitInv ==
  ASSUME Init
  PROVE  CycleIInv
<1>1. SccIInv
  BY SccInitInv, SccAssumption DEF Init
<1>2. fields \in SUBSET Boxing!Fields
  BY CycleBreakingAssumption DEF Init
<1>3. edges = EmbeddingEdges(fields) /\ phase = "start"
  BY DEF Init, Boxing!BreakInit
<1> QED BY <1>1, <1>2, <1>3 DEF CycleIInv

LEMMA SchemaStays ==
  ASSUME Next
  PROVE  fields' = fields /\ edges' = edges
<1>1. CASE Explore
  BY <1>1 DEF Explore, boxingVars, SccNext, Root, VisitNew, VisitOpen, VisitClosed,
              Enter, Return
<1>2. CASE HandOver
  BY <1>2 DEF HandOver, sccVars
<1>3. CASE BreakSlices
  BY <1>3 DEF BreakSlices, sccVars, Boxing!BreakNext, Boxing!ComputeSccs, Boxing!Visit,
              Boxing!Break, Boxing!BreakRequired, Boxing!Fail, Boxing!Finish
<1> QED BY <1>1, <1>2, <1>3 DEF Next

LEMMA CycleStepInv ==
  ASSUME CycleIInv, [Next]_vars
  PROVE  CycleIInv'
<1>1. fields' = fields /\ edges' = edges
  BY SchemaStays DEF vars, sccVars, boxingVars
<1>2. [SccNext]_sccVars
  BY DEF Next, Explore, HandOver, BreakSlices, vars
<1>3. SccIInv'
  BY <1>2, SccStepInv, SccAssumption DEF CycleIInv
<1>4. phase' # "start" => SccDone'
  <2>1. CASE Explore
    BY <2>1 DEF Explore, boxingVars
  <2>2. CASE HandOver \/ BreakSlices \/ UNCHANGED vars
    <3>1. phase' # "start" => SccDone
      BY <2>2 DEF CycleIInv, HandOver, BreakSlices, vars, boxingVars
    <3>2. UNCHANGED sccVars
      BY <2>2 DEF HandOver, BreakSlices, vars
    <3> QED BY <3>1, <3>2 DEF sccVars, SccDone, Unvisited
  <2> QED BY <2>1, <2>2 DEF Next
<1>5. EmbeddingEdges(fields)' = EmbeddingEdges(fields)
  BY <1>1 DEF EmbeddingEdges, Boxing!Inline
<1> QED BY <1>1, <1>3, <1>4, <1>5 DEF CycleIInv

----------------------------------------------------------------------------
(* The result of sccs() as places. *)

Result == [m \in Vertices |-> ComponentOf(m)]
Order == [m \in Vertices |-> PlaceOf(m)]

(* Every message has one place. *)
LEMMA PlacesInResult ==
  ASSUME SccIInv, SccDone, NEW m \in Vertices
  PROVE  /\ ComponentOf(m) \in DOMAIN sccs /\ m \in ToSet(sccs[ComponentOf(m)])
         /\ PlaceOf(m) \in DOMAIN sccs[ComponentOf(m)]
         /\ sccs[ComponentOf(m)][PlaceOf(m)] = m
         /\ \A i \in DOMAIN sccs : m \in ToSet(sccs[i]) => i = ComponentOf(m)
<1>1. Emitted(m)
  <2>1. ~Unvisited(m) /\ ~OnStack(m)
    BY DEF SccDone, SccIInv, CallPath, OnStack, ToSet
  <2> QED BY <2>1 DEF SccIInv, OpenOrEmitted
<1>2. ComponentOf(m) \in DOMAIN sccs /\ m \in ToSet(sccs[ComponentOf(m)])
  BY <1>1 DEF Emitted, ComponentOf
<1>3. PlaceOf(m) \in DOMAIN sccs[ComponentOf(m)] /\ sccs[ComponentOf(m)][PlaceOf(m)] = m
  BY <1>2 DEF ToSet, PlaceOf
<1>4. ASSUME NEW i \in DOMAIN sccs, m \in ToSet(sccs[i])
      PROVE  i = ComponentOf(m)
  <2>1. PICK j \in DOMAIN sccs[i] : sccs[i][j] = m
    BY <1>4 DEF ToSet
  <2> QED BY <1>2, <1>3, <2>1 DEF SccIInv, SccsApart
<1> QED BY <1>2, <1>3, <1>4

(* The instance of BreakCycles has a Cardinality of its own. *)
LEMMA SameCardinality ==
  ASSUME NEW S
  PROVE  Boxing!Cardinality(S) = Cardinality(S)
BY DEF Boxing!Cardinality, Cardinality

(* 1 .. n is numbered. *)
LEMMA NumbersOf ==
  ASSUME NEW n \in Nat
  PROVE  IsFiniteSet(1 .. n) /\ Cardinality(1 .. n) = n /\ Boxing!AreNumbers(1 .. n)
<1>1. 1 \in Int /\ n \in Int
  OBVIOUS
<1>2. IsFiniteSet(1 .. n) /\ Cardinality(1 .. n) = IF 1 > n THEN 0 ELSE n - 1 + 1
  BY <1>1, FS_Interval
<1>3. Cardinality(1 .. n) = n
  BY <1>2
<1>4. Boxing!AreNumbers(1 .. n)
  <2> DEFINE c == Boxing!Cardinality(1 .. n)
  <2>1. c = n
    BY <1>3, SameCardinality
  <2> HIDE DEF c
  <2>2. 1 .. n = 1 .. c
    BY <2>1
  <2> QED BY <2>2 DEF c, Boxing!AreNumbers
<1> QED BY <1>2, <1>3, <1>4

(* The numbers of the components, and of the messages in one of them. *)
LEMMA ResultNumbers ==
  ASSUME SccIInv, SccDone
  PROVE  /\ {Result[m] : m \in Vertices} = 1 .. Len(sccs)
         /\ Len(sccs) \in 0 .. N
         /\ Result \in [Vertices -> 1 .. N] /\ Order \in [Vertices -> 1 .. N]
         /\ \A m \in Vertices :
              {Order[n] : n \in {n \in Vertices : Result[n] = Result[m]}}
                = 1 .. Len(sccs[Result[m]])
         /\ \A m, n \in Vertices : Result[m] = Result[n] /\ Order[m] = Order[n] => m = n
<1>1. PICK k \in Nat : k = Len(sccs) /\ DOMAIN sccs = 1 .. k
  BY LenProperties DEF SccIInv, SccTypeOK
<1>2. \A m \in Vertices : /\ Result[m] = ComponentOf(m) /\ Order[m] = PlaceOf(m)
                         /\ Result[m] \in 1 .. k
                         /\ Order[m] \in DOMAIN sccs[Result[m]]
                         /\ sccs[Result[m]][Order[m]] = m
  BY <1>1, PlacesInResult DEF Result, Order
<1>3. ASSUME NEW i \in 1 .. k, NEW j \in DOMAIN sccs[i]
      PROVE  /\ sccs[i][j] \in Vertices
             /\ Result[sccs[i][j]] = i
             /\ Order[sccs[i][j]] = j
  <2>1. sccs[i][j] \in Vertices
    BY <1>1, ComponentLength, SccAssumption
  <2> DEFINE m == sccs[i][j]
  <2>2. Result[m] \in 1 .. k /\ Order[m] \in DOMAIN sccs[Result[m]]
        /\ sccs[Result[m]][Order[m]] = sccs[i][j]
    BY <1>2, <2>1
  <2> HIDE DEF m
  <2>3. Result[m] = i /\ Order[m] = j
    BY <1>1, <2>2 DEF SccIInv, SccsApart
  <2> QED BY <2>1, <2>3 DEF m
<1>4. {Result[m] : m \in Vertices} = 1 .. k
  <2>1. ASSUME NEW i \in 1 .. k
        PROVE  \E m \in Vertices : Result[m] = i
    <3>1. 1 \in DOMAIN sccs[i]
      BY <1>1, ComponentLength, SccAssumption
    <3> QED BY <1>3, <3>1
  <2> QED BY <1>2, <2>1
<1>5. k <= N
  <2>1. Result \in Surjection(Vertices, 1 .. k)
    <3>1. Result \in [Vertices -> 1 .. k]
      BY <1>2 DEF Result
    <3> QED BY <1>4, <3>1 DEF Surjection
  <2>2. Cardinality(1 .. k) <= Cardinality(Vertices)
    BY <2>1, VerticesFinite, SccAssumption, FS_Surjection
  <2> QED BY <2>2, NumbersOf, VerticesFinite, SccAssumption
<1>6. Result \in [Vertices -> 1 .. N] /\ Order \in [Vertices -> 1 .. N]
  <2>1. ASSUME NEW m \in Vertices
        PROVE  Result[m] \in 1 .. N /\ Order[m] \in 1 .. N
    <3>1. Result[m] \in 1 .. k /\ Order[m] \in DOMAIN sccs[Result[m]]
      BY <1>2
    <3>2. /\ Len(sccs[Result[m]]) \in 1 .. N
          /\ DOMAIN sccs[Result[m]] = 1 .. Len(sccs[Result[m]])
      BY <1>1, <3>1, ComponentLength, SccAssumption
    <3> QED BY <1>5, <3>1, <3>2, SccAssumption DEF SccAssumption
  <2>2. Result = [m \in Vertices |-> Result[m]] /\ Order = [m \in Vertices |-> Order[m]]
    BY DEF Result, Order
  <2> QED BY <2>1, <2>2
<1>7. ASSUME NEW m \in Vertices
      PROVE  {Order[n] : n \in {n \in Vertices : Result[n] = Result[m]}}
                = 1 .. Len(sccs[Result[m]])
  <2>1. Result[m] \in 1 .. k
    BY <1>2
  <2>2. DOMAIN sccs[Result[m]] = 1 .. Len(sccs[Result[m]])
    BY <1>1, <2>1, ComponentLength, SccAssumption
  <2>3. ASSUME NEW j \in DOMAIN sccs[Result[m]]
        PROVE  \E n \in Vertices : Result[n] = Result[m] /\ Order[n] = j
    BY <1>3, <2>1
  <2>4. ASSUME NEW n \in Vertices, Result[n] = Result[m]
        PROVE  Order[n] \in DOMAIN sccs[Result[m]]
    BY <1>2, <2>4
  <2> QED BY <2>2, <2>3, <2>4
<1>8. ASSUME NEW m \in Vertices, NEW n \in Vertices,
             Result[m] = Result[n], Order[m] = Order[n]
      PROVE  m = n
  <2>1. sccs[Result[m]][Order[m]] = m /\ sccs[Result[n]][Order[n]] = n
    BY <1>2
  <2> QED BY <1>8, <2>1
<1>9. Len(sccs) \in 0 .. N
  BY <1>1, <1>5, SccAssumption DEF SccAssumption
<1> QED BY <1>1, <1>4, <1>6, <1>7, <1>8, <1>9

(* To embed is to reach in the graph of the inline fields. *)
LEMMA EmbedsIsReaches ==
  ASSUME CycleIInv
  PROVE  /\ \A m, n \in Vertices : Boxing!Embeds(m, n) <=> Reaches(m, n)
         /\ \A f \in Boxing!InlineFields :
              /\ f.from \in Vertices /\ f.to \in Vertices
              /\ <<f.from, f.to>> \in edges
<1>1. \A f \in Boxing!InlineFields :
        /\ f.from \in Vertices /\ f.to \in Vertices /\ <<f.from, f.to>> \in edges
  BY DEF CycleIInv, EmbeddingEdges, Boxing!InlineFields, Boxing!Fields
<1>2. \A e \in edges : \E f \in Boxing!InlineFields : e = <<f.from, f.to>>
  BY DEF CycleIInv, EmbeddingEdges, Boxing!InlineFields
<1>3. ASSUME NEW S
      PROVE  Boxing!ClosedUnder(S, Boxing!InlineFields) <=> Closed(S)
  <2>1. ASSUME Boxing!ClosedUnder(S, Boxing!InlineFields), NEW e \in edges, e[1] \in S
        PROVE  e[2] \in S
    <3>1. PICK f \in Boxing!InlineFields : e = <<f.from, f.to>>
      BY <1>2
    <3> QED BY <2>1, <3>1 DEF Boxing!ClosedUnder
  <2>2. ASSUME Closed(S), NEW f \in Boxing!InlineFields, f.from \in S
        PROVE  f.to \in S
    <3>1. <<f.from, f.to>> \in edges
      BY <1>1
    <3> QED BY <2>2, <3>1 DEF Closed
  <2> QED BY <2>1, <2>2 DEF Closed, Boxing!ClosedUnder
<1>4. \A m, n \in Vertices : Boxing!Embeds(m, n) <=> Reaches(m, n)
  BY <1>3 DEF Boxing!Embeds, Reaches
<1> QED BY <1>1, <1>4

(* What sccs() returns is a decomposition as break_cycles expects it. *)
LEMMA ResultIsDecomposition ==
  ASSUME CycleIInv, SccDone
  PROVE  /\ Result \in Boxing!Places /\ Boxing!AreComponents(Result)
         /\ Order \in Boxing!Places /\ Boxing!ArePositions(Order, Result)
<1> USE DEF CycleIInv
<1>1. Result \in Boxing!Places /\ Order \in Boxing!Places
  <2>1. Result \in [Vertices -> 1 .. N] /\ Order \in [Vertices -> 1 .. N]
    BY ResultNumbers
  <2> DEFINE c == Boxing!Cardinality(Vertices)
  <2>2. c = N
    BY VerticesFinite, SccAssumption, SameCardinality
  <2> HIDE DEF c
  <2>3. Result \in [Vertices -> 1 .. c] /\ Order \in [Vertices -> 1 .. c]
    BY <2>1, <2>2
  <2> QED BY <2>3 DEF c, Boxing!Places
<1>2. Boxing!AreNumbers({Result[m] : m \in Vertices})
  <2>1. PICK k \in Nat : k = Len(sccs)
    BY ResultNumbers
  <2>2. {Result[m] : m \in Vertices} = 1 .. k
    BY <2>1, ResultNumbers
  <2> QED BY <2>1, <2>2, NumbersOf
<1>3. ASSUME NEW m \in Vertices, NEW n \in Vertices
      PROVE  Result[m] = Result[n] <=> Boxing!Embeds(m, n) /\ Boxing!Embeds(n, m)
  <2>1. /\ ComponentOf(m) \in DOMAIN sccs /\ m \in ToSet(sccs[ComponentOf(m)])
        /\ n \in ToSet(sccs[ComponentOf(n)])
        /\ n \in ToSet(sccs[ComponentOf(m)]) => ComponentOf(m) = ComponentOf(n)
    BY PlacesInResult
  <2>2. n \in ToSet(sccs[ComponentOf(m)]) <=> Reaches(m, n) /\ Reaches(n, m)
    BY <2>1 DEF SccIInv, EmittedAreComponents
  <2>3. Result[m] = ComponentOf(m) /\ Result[n] = ComponentOf(n)
    BY DEF Result
  <2> HIDE DEF CycleIInv
  <2> QED BY <2>1, <2>2, <2>3, EmbedsIsReaches
<1>4. ASSUME NEW f \in Boxing!InlineFields
      PROVE  Result[f.to] <= Result[f.from]
  <2>1. /\ f.from \in Vertices /\ f.to \in Vertices
        /\ <<f.from, f.to>> \in edges
    BY EmbedsIsReaches
  <2> DEFINE i == ComponentOf(f.from)
  <2>2. i \in DOMAIN sccs /\ f.from \in ToSet(sccs[i])
    BY <2>1, PlacesInResult
  <2>3. \E j \in 1 .. i : f.to \in ToSet(sccs[j])
    <3>1. \A e \in edges : e[1] \in ToSet(sccs[i]) => \E j \in 1 .. i : e[2] \in ToSet(sccs[j])
      BY <2>2 DEF SccIInv, EmittedAfterWhatTheyEmbed
    <3> HIDE DEF i
    <3> QED BY <2>1, <2>2, <3>1
  <2>4. PICK j \in 1 .. i : f.to \in ToSet(sccs[j])
    BY <2>3
  <2>5. DOMAIN sccs = 1 .. Len(sccs) /\ Len(sccs) \in Nat
    BY LenProperties DEF SccIInv, SccTypeOK
  <2>6. j \in DOMAIN sccs /\ j <= i
    BY <2>2, <2>4, <2>5
  <2>7. j = ComponentOf(f.to)
    BY <2>1, <2>4, <2>6, PlacesInResult
  <2> QED BY <2>1, <2>6, <2>7 DEF Result
<1>5. Boxing!AreComponents(Result)
  BY <1>2, <1>3, <1>4 DEF Boxing!AreComponents
<1>6. ASSUME NEW m \in Vertices
      PROVE  Boxing!AreNumbers({Order[n] : n \in {n \in Vertices : Result[n] = Result[m]}})
  <2>1. Result[m] \in DOMAIN sccs
    BY PlacesInResult DEF Result
  <2>2. PICK k \in Nat : k = Len(sccs[Result[m]])
    BY <2>1, ComponentLength, SccAssumption
  <2>3. {Order[n] : n \in {n \in Vertices : Result[n] = Result[m]}} = 1 .. k
    BY <2>2, ResultNumbers
  <2> QED BY <2>3, NumbersOf
<1>7. Boxing!ArePositions(Order, Result)
  BY <1>6, ResultNumbers DEF Boxing!ArePositions
<1> QED BY <1>1, <1>5, <1>7

----------------------------------------------------------------------------
(* The refinement. *)

(* Before sccs() returns break_cycles has not started, and afterwards its *)
(* places are those of the result.                                         *)
LEMMA PlacesNow ==
  /\ phase = "start" => /\ comp = [m \in Vertices |-> 1]
                       /\ pos = [m \in Vertices |-> 1]
  /\ phase # "start" => comp = Result /\ pos = Order
BY DEF comp, pos, Result, Order

LEMMA RefinedInit ==
  ASSUME Init
  PROVE  Boxing!BreakInit
BY DEF Init

LEMMA RefinedStep ==
  ASSUME CycleIInv, [Next]_vars
  PROVE  [Boxing!BreakNext]_(Boxing!breakVars)
<1>1. CASE Explore
  <2>1. phase' = phase /\ phase = "start" /\ UNCHANGED boxingVars
    BY <1>1 DEF Explore, boxingVars
  <2>2. comp' = comp /\ pos' = pos
    BY <2>1 DEF comp, pos
  <2> QED BY <2>1, <2>2 DEF boxingVars, Boxing!breakVars
<1>2. CASE HandOver
  <2>1. phase = "start" /\ phase' = "breaking" /\ SccDone /\ sccs' = sccs
    BY <1>2 DEF HandOver, sccVars
  <2>2. comp' = Result /\ pos' = Order
    BY <2>1 DEF comp, pos, Result, Order, ComponentOf, PlaceOf
  <2>3. Boxing!ComputeSccs
    BY <1>2, <2>1, <2>2, ResultIsDecomposition DEF HandOver, Boxing!ComputeSccs
  <2> QED BY <2>3 DEF Boxing!BreakNext
<1>3. CASE BreakSlices
  BY <1>3 DEF BreakSlices
<1>4. CASE UNCHANGED vars
  <2>1. UNCHANGED <<sccVars, boxingVars>>
    BY <1>4 DEF vars
  <2>2. comp' = comp /\ pos' = pos
    BY <2>1 DEF sccVars, boxingVars, comp, pos, ComponentOf, PlaceOf
  <2> QED BY <2>1, <2>2 DEF boxingVars, Boxing!breakVars
<1> QED BY <1>1, <1>2, <1>3, <1>4 DEF Next

(* The inductive invariant holds of the whole of break_cycles. *)
THEOREM CycleInvariant == Spec => []CycleIInv
<1>1. Init => CycleIInv
  BY CycleInitInv
<1>2. CycleIInv /\ [Next]_vars => CycleIInv'
  BY CycleStepInv
<1> QED BY <1>1, <1>2, PTL DEF Spec

(* sccs(): a component is exactly a class of messages that embed each other. *)
THEOREM ComponentsAreRight == Spec => []EmittedAreComponents
<1>1. CycleIInv => EmittedAreComponents
  BY DEF CycleIInv, SccIInv
<1> QED BY <1>1, CycleInvariant, PTL

(* sccs(): a component comes out after all that it embeds. *)
THEOREM ComponentsAreOrdered == Spec => []EmittedAfterWhatTheyEmbed
<1>1. CycleIInv => EmittedAfterWhatTheyEmbed
  BY DEF CycleIInv, SccIInv
<1> QED BY <1>1, CycleInvariant, PTL

(* sccs(): an entered message is in exactly one place. *)
THEOREM MessagesAppearOnce == Spec => []EachOnce
<1>1. CycleIInv => EachOnce
  BY EachOnceFromInv, SccAssumption DEF CycleIInv
<1> QED BY <1>1, CycleInvariant, PTL

(* break_cycles with Tarjan's components implements the one that takes any *)
(* decomposition.                                                          *)
THEOREM BreakCyclesImplemented == Spec => ImplementsBreakCycles
<1>1. Init => Boxing!BreakInit
  BY RefinedInit
<1>2. CycleIInv /\ [Next]_vars => [Boxing!BreakNext]_(Boxing!breakVars)
  BY RefinedStep
<1> QED
  BY <1>1, <1>2, CycleInvariant, PTL DEF Spec, ImplementsBreakCycles, Boxing!BreakSpec

----------------------------------------------------------------------------
(* The components are computed once.                                       *)

(* The number of the component does not grow along an inline field. *)
LEMMA InlineGoesDown ==
  ASSUME CycleIInv, phase # "start"
  PROVE  /\ \A m \in Vertices : comp[m] \in Nat
         /\ \A f \in Boxing!StillInline : comp[f.to] <= comp[f.from]
<1>1. comp = Result /\ SccDone
  BY PlacesNow DEF CycleIInv
<1>2. \A m \in Vertices : comp[m] \in Nat
  BY <1>1, ResultNumbers, SccAssumption DEF CycleIInv, SccAssumption
<1>3. \A f \in Boxing!InlineFields : Result[f.to] <= Result[f.from]
  BY <1>1, ResultIsDecomposition DEF Boxing!AreComponents
<1> QED BY <1>1, <1>2, <1>3 DEF Boxing!StillInline

(* A nonempty set of messages has one with the least component. *)
LEMMA LeastComponent ==
  ASSUME NEW c, NEW S \in SUBSET Vertices, S # {},
         \A m \in Vertices : c[m] \in Nat
  PROVE  \E m \in S : \A n \in S : c[m] <= c[n]
<1> DEFINE T == {c[m] : m \in S}
<1> DEFINE Smaller == OpToRel(<, Nat)
<1>1. IsWellFoundedOn(Smaller, Nat)
  BY NatLessThanWellFounded, Zenon DEF OpToRel
<1>2. T \subseteq Nat /\ T # {}
  OBVIOUS
<1>3. PICK x \in T : \A y \in T : ~(<<y, x>> \in Smaller)
  <2> HIDE DEF T, Smaller
  <2> QED BY <1>1, <1>2, WFMin, Zenon
<1>4. \A y \in T : x <= y
  <2> TAKE y \in T
  <2>1. x \in Nat /\ y \in Nat
    BY <1>2
  <2>2. ~(y < x)
    BY <1>3, <2>1 DEF OpToRel
  <2> QED BY <2>1, <2>2
<1> QED BY <1>3, <1>4

(* What still embeds itself has a cycle inside one component. *)
THEOREM ComponentsStayGoodEnough == Spec => []StaleComponentsSuffice
<1>1. ASSUME CycleIInv
      PROVE  StaleComponentsSuffice
  <2> SUFFICES ASSUME phase = "breaking", NEW S \in SUBSET Vertices, S # {},
                      Boxing!ClosesOn(S, Boxing!StillInline)
               PROVE  \E T \in SUBSET S :
                        /\ T # {}
                        /\ Boxing!ClosesOn(T, Boxing!StillInline)
                        /\ \A m, n \in T : comp[m] = comp[n]
    BY DEF StaleComponentsSuffice
  <2>1. /\ \A m \in Vertices : comp[m] \in Nat
        /\ \A f \in Boxing!StillInline : comp[f.to] <= comp[f.from]
    BY <1>1, InlineGoesDown
  <2>2. PICK least \in S : \A n \in S : comp[least] <= comp[n]
    BY <2>1, LeastComponent
  <2> DEFINE T == {m \in S : comp[m] = comp[least]}
  <2>3. Boxing!ClosesOn(T, Boxing!StillInline)
    <3> SUFFICES ASSUME NEW m \in T
                 PROVE  \E f \in Boxing!StillInline : f.from = m /\ f.to \in T
      BY DEF Boxing!ClosesOn
    <3>1. PICK f \in Boxing!StillInline : f.from = m /\ f.to \in S
      BY DEF Boxing!ClosesOn
    <3>2. comp[f.to] <= comp[least] /\ comp[least] <= comp[f.to]
      BY <2>1, <2>2, <3>1
    <3>3. comp[f.to] \in Nat /\ comp[least] \in Nat
      BY <2>1, <3>1
    <3> QED BY <3>1, <3>2, <3>3
  <2>4. least \in T /\ \A m, n \in T : comp[m] = comp[n]
    OBVIOUS
  <2> QED BY <2>3, <2>4
<1> QED BY <1>1, CycleInvariant, PTL
=============================================================================

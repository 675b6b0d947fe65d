------------------------ MODULE GeneratedCodeProofs ------------------------
(***************************************************************************)
(* Proofs about the code that pb-rs generates: where its types declare and *)
(* use a lifetime, and what its readers make of messages.                  *)
(***************************************************************************)
EXTENDS Fields, Lifetimes, FiniteSetTheorems, WellFoundedInduction, TLAPS

LEMMA LeastNatural ==
  ASSUME NEW T \in SUBSET Nat, T # {}
  PROVE  \E x \in T : \A y \in T : x <= y
<1> DEFINE R == {ss \in Nat \X Nat : ss[1] < ss[2]}
<1>1. IsWellFoundedOn(R, Nat)
  BY NatLessThanWellFounded, Zenon DEF OpToRel
<1> HIDE DEF R
<1>2. PICK x \in T : \A y \in T : ~(<<y, x>> \in R)
  BY <1>1, WFMin, Zenon
<1>3. \A y \in T : x <= y
  <2> TAKE y \in T
  <2>1. ~(y < x)
    BY <1>2 DEF R
  <2>2. x \in Nat /\ y \in Nat
    OBVIOUS
  <2> QED BY <2>1, <2>2
<1> QED BY <1>3

----------------------------------------------------------------------------
(* The search of has_lifetime over any finite graph, leads[n] being where  *)
(* the fields of n lead to.  `Outside` is reachability without entering P. *)
Closed(S, leads, P) == \A x \in S : leads[x] \ P \subseteq S
Outside(D, leads, P, n, k) == \A S \in SUBSET D : n \in S /\ Closed(S, leads, P) => k \in S

LEMMA OutsideStep ==
  ASSUME NEW D, NEW leads \in [D -> SUBSET D], NEW P, NEW n \in D, NEW c \in leads[n],
         c \notin P, NEW k, Outside(D, leads, P \cup {n}, c, k)
  PROVE  Outside(D, leads, P, n, k)
BY DEF Outside, Closed

\* What is reached without entering P is n, or is reached from a successor of
\* n without coming back to n.
LEMMA OutsideSplit ==
  ASSUME NEW D, NEW leads \in [D -> SUBSET D], NEW P, NEW n \in D, n \notin P,
         NEW k \in D, Outside(D, leads, P, n, k)
  PROVE  k = n \/ \E c \in leads[n] : c \notin P \cup {n} /\ Outside(D, leads, P \cup {n}, c, k)
<1> DEFINE From(x) == \E c \in leads[n] : c \notin P \cup {n} /\ Outside(D, leads, P \cup {n}, c, x)
           S == {x \in D : x = n \/ From(x)}
<1>1. ASSUME NEW x \in S, NEW y \in leads[x] \ P
      PROVE  y \in S
  <2>1. x \in D /\ y \in D
    OBVIOUS
  <2>2. CASE y = n
    BY <2>1, <2>2
  <2>3. CASE y # n /\ x = n
    <3>1. Outside(D, leads, P \cup {n}, y, y)
      BY DEF Outside
    <3>2. From(y)
      BY <3>1, <2>3, <1>1
    <3> QED BY <3>2, <2>1
  <2>4. CASE y # n /\ x # n
    <3>1. PICK c \in leads[n] : c \notin P \cup {n} /\ Outside(D, leads, P \cup {n}, c, x)
      BY <2>4, <1>1
    <3>2. Outside(D, leads, P \cup {n}, c, y)
      BY <3>1, <2>1, <2>4, <1>1 DEF Outside, Closed
    <3>3. From(y)
      BY <3>1, <3>2
    <3> QED BY <3>3, <2>1
  <2> QED BY <2>2, <2>3, <2>4
<1>2. Closed(S, leads, P) /\ n \in S /\ S \in SUBSET D
  <2>1. \A x \in S : leads[x] \ P \subseteq S
    BY <1>1
  <2> QED BY <2>1 DEF Closed
<1>3. k \in S
  BY <1>2 DEF Outside
<1> QED BY <1>3

Found(D, leads, lends, n, P) ==
  n \notin P /\ \E k \in D : lends[k] /\ Outside(D, leads, P, n, k)

\* A search answers as its equation says of every message and path.
Searches(g, D, leads, lends) ==
  \A n \in D, P \in SUBSET D :
    g[<<n, P>>] <=> n \notin P /\ (lends[n] \/ \E c \in leads[n] : g[<<c, P \cup {n}>>])

LEMMA FoundSearches ==
  ASSUME NEW D, NEW leads \in [D -> SUBSET D], NEW lends, NEW n \in D, NEW P \in SUBSET D
  PROVE  Found(D, leads, lends, n, P)
           <=> n \notin P /\ (lends[n] \/ \E c \in leads[n] : Found(D, leads, lends, c, P \cup {n}))
<1>1. CASE n \in P
  BY <1>1 DEF Found
<1>2. CASE n \notin P
  <2>1. ASSUME lends[n]
        PROVE  Found(D, leads, lends, n, P)
    <3>1. Outside(D, leads, P, n, n)
      BY DEF Outside
    <3> QED BY <3>1, <2>1, <1>2 DEF Found
  <2>2. ASSUME NEW c \in leads[n], Found(D, leads, lends, c, P \cup {n})
        PROVE  Found(D, leads, lends, n, P)
    <3>1. PICK k \in D : lends[k] /\ Outside(D, leads, P \cup {n}, c, k)
      BY <2>2 DEF Found
    <3>2. c \notin P
      BY <2>2 DEF Found
    <3>3. Outside(D, leads, P, n, k)
      BY <3>1, <3>2, OutsideStep
    <3> QED BY <3>1, <3>3, <1>2 DEF Found
  <2>3. ASSUME Found(D, leads, lends, n, P)
        PROVE  lends[n] \/ \E c \in leads[n] : Found(D, leads, lends, c, P \cup {n})
    <3>1. PICK k \in D : lends[k] /\ Outside(D, leads, P, n, k)
      BY <2>3 DEF Found
    <3>2. k = n \/ \E c \in leads[n] : c \notin P \cup {n} /\ Outside(D, leads, P \cup {n}, c, k)
      BY <3>1, <1>2, OutsideSplit
    <3>3. CASE k = n
      BY <3>1, <3>3
    <3>4. CASE k # n
      <4>1. PICK c \in leads[n] : c \notin P \cup {n} /\ Outside(D, leads, P \cup {n}, c, k)
        BY <3>2, <3>4
      <4>2. Found(D, leads, lends, c, P \cup {n})
        BY <4>1, <3>1 DEF Found
      <4> QED BY <4>2
    <3> QED BY <3>3, <3>4
  <2> QED BY <2>1, <2>2, <2>3, <1>2
<1> QED BY <1>1, <1>2

\* There is only one such search: of two that differ, take the answer where
\* they do with the longest path.
LEMMA SearchIsFound ==
  ASSUME NEW D, IsFiniteSet(D), NEW leads \in [D -> SUBSET D], NEW lends,
         NEW g, Searches(g, D, leads, lends)
  PROVE  \A n \in D, P \in SUBSET D : g[<<n, P>>] <=> Found(D, leads, lends, n, P)
<1> DEFINE Good(n, P) == g[<<n, P>>] <=> Found(D, leads, lends, n, P)
           Bad == {w \in D \X SUBSET D : ~Good(w[1], w[2])}
           Left == {Cardinality(D \ w[2]) : w \in Bad}
<1>1. SUFFICES ASSUME Bad # {} PROVE FALSE
  <2>1. ASSUME NEW n \in D, NEW P \in SUBSET D, ~Good(n, P)
        PROVE  FALSE
    <3>1. <<n, P>> \in Bad
      BY <2>1
    <3> QED BY <3>1, <1>1
  <2> QED BY <2>1
<1>2. \A P \in SUBSET D : IsFiniteSet(D \ P)
  BY FS_Difference
<1>3. Left \in SUBSET Nat /\ Left # {}
  BY <1>1, <1>2, FS_CardinalityType
<1>4. PICK l \in Left : \A x \in Left : l <= x
  BY <1>3, LeastNatural
<1>5. PICK n \in D, P \in SUBSET D : <<n, P>> \in Bad /\ l = Cardinality(D \ P)
  OBVIOUS
<1>6. n \notin P
  <2>1. CASE n \in P
    <3>1. ~g[<<n, P>>]
      BY <2>1 DEF Searches
    <3>2. ~Found(D, leads, lends, n, P)
      BY <2>1 DEF Found
    <3> QED BY <3>1, <3>2, <1>5
  <2> QED BY <2>1
<1>7. ASSUME NEW c \in leads[n]
      PROVE  Good(c, P \cup {n})
  <2>1. c \in D /\ P \cup {n} \in SUBSET D
    OBVIOUS
  <2>2. D \ (P \cup {n}) = (D \ P) \ {n}
    OBVIOUS
  <2>3. Cardinality(D \ (P \cup {n})) = l - 1
    BY <2>2, <1>2, <1>5, <1>6, FS_RemoveElement
  <2>4. l \in Nat
    BY <1>3
  <2>5. CASE ~Good(c, P \cup {n})
    <3>1. <<c, P \cup {n}>> \in Bad
      BY <2>1, <2>5
    <3>2. l - 1 \in Left
      BY <3>1, <2>3
    <3>3. l <= l - 1
      BY <3>2, <1>4
    <3> QED BY <3>3, <2>4
  <2> QED BY <2>5
<1>8. Found(D, leads, lends, n, P)
        <=> n \notin P /\ (lends[n] \/ \E c \in leads[n] : Found(D, leads, lends, c, P \cup {n}))
  BY FoundSearches
<1>9. g[<<n, P>>] <=> n \notin P /\ (lends[n] \/ \E c \in leads[n] : g[<<c, P \cup {n}>>])
  BY DEF Searches
<1>10. Good(n, P)
  BY <1>7, <1>8, <1>9
<1> QED BY <1>5, <1>10

----------------------------------------------------------------------------
(* What a schema lends, and where its fields lead to, with the syntax of   *)
(* the file r that pb-rs runs on.                                          *)

Loan(m, f, r) ==
  /\ ~protos.dont_use_cow
  /\ \/ f.type = "cow"
     \/ /\ f.type = "fixed" /\ f.repeated
        /\ f.packed = "yes" \/ (f.packed = "unset" /\ protos.syntax[r] = "proto3" /\ m \notin Nested)
LoanIn(n, r) == \E f \in protos.fields[n] : ~f.deprecated /\ Loan(n, f, r)
Answer(m, r) == \E n \in Messages : Reaches(m, n) /\ LoanIn(n, r)
OneOfAnswer(m, r) ==
  \E f \in protos.fields[m] :
    f.oneof /\ ~f.deprecated /\ (Loan(m, f, r) \/ (f.type = "message" /\ Answer(f.of, r)))
Tells(k, r) == IF k[2] = "struct" THEN Answer(k[1], r) ELSE OneOfAnswer(k[1], r)

\* A field once convert_field_types has seen it, and once set_defaults has.
Cows(f) == IF protos.dont_use_cow THEN [f EXCEPT !.type = IF @ = "cow" THEN "owned" ELSE @] ELSE f
Final(m, f) == IF m \in Nested THEN Cows(f) ELSE Unpacked(AsPacked(Cows(f)))

Shape ==
  [type : {"cow", "owned", "fixed", "varint", "message"}, of : Messages \cup {"none"},
   repeated : BOOLEAN, packed : {"unset", "yes", "no"}, oneof : BOOLEAN, deprecated : BOOLEAN]

DescOK ==
  /\ step \in {"idle", "convert", "defaults", "write"}
  /\ step # "idle" => run \in Files
  /\ step = "convert" => desc = [m \in Sighted(run) |-> protos.fields[m]]
  /\ step = "defaults" =>
       desc = [m \in Sighted(run) |-> {Cows(f) : f \in protos.fields[m]}]
  /\ step = "write" =>
       desc = [m \in Sighted(run) |-> {Final(m, f) : f \in protos.fields[m]}]

Keys == Messages \X {"struct", "oneof"}

\* A definition is right: it tells what the schema tells, of itself and of
\* the types that it uses, and no more and no less than its text mentions.
Right(k, d) ==
  /\ d.declares \in BOOLEAN
  /\ d.declares <=> Tells(k, FileOf[k[1]])
  /\ d.declares <=> Mentions(d)
  /\ \A u \in d.uses :
       /\ u.type \in Keys
       /\ u.lifetime \in BOOLEAN
       /\ u.lifetime <=> Tells(u.type, FileOf[k[1]])

LifetimesIInv ==
  /\ protos \in Protos
  /\ DescOK
  /\ DOMAIN written \subseteq Keys
  /\ Regular => \A k \in DOMAIN written : Right(k, written[k])

----------------------------------------------------------------------------
(* Reachability in the schema. *)

Paths == [x \in Messages |-> LeadsTo(x)]

LEMMA SchemaTypes ==
  ASSUME LifetimesAssumption, protos \in Protos
  PROVE  /\ protos.dont_use_cow \in BOOLEAN
         /\ protos.fields \in [Messages -> SUBSET Field]
         /\ \A m \in Messages : \A f \in protos.fields[m] : f \in Field /\ WellFormed(m, f)
         /\ Paths \in [Messages -> SUBSET Messages]
<1>1. protos.dont_use_cow \in BOOLEAN /\ protos.fields \in [Messages -> SUBSET Field]
  BY DEF LifetimesAssumption
<1>2. \A m \in Messages : \A f \in protos.fields[m] : f \in Field /\ WellFormed(m, f)
  BY <1>1 DEF LifetimesAssumption
<1>3. \A x \in Messages : LeadsTo(x) \subseteq Messages
  BY <1>2 DEF LeadsTo, WellFormed
<1> QED BY <1>1, <1>2, <1>3 DEF Paths

LEMMA ReachesIsOutside ==
  ASSUME LifetimesAssumption, protos \in Protos, NEW m \in Messages, NEW n \in Messages
  PROVE  Reaches(m, n) <=> Outside(Messages, Paths, {}, m, n)
<1>1. \A S \in SUBSET Messages : Closed(S, Paths, {}) <=> \A x \in S : LeadsTo(x) \subseteq S
  BY DEF Closed, Paths
<1> QED BY <1>1 DEF Reaches, Outside

\* What a message borrows is its own, or that of a message it leads to.
LEMMA AnswerSplit ==
  ASSUME LifetimesAssumption, protos \in Protos, NEW m \in Messages, NEW r
  PROVE  Answer(m, r) <=> LoanIn(m, r) \/ \E c \in LeadsTo(m) : Answer(c, r)
<1> DEFINE L == Paths
<1>1. L \in [Messages -> SUBSET Messages] /\ L[m] = LeadsTo(m)
  BY SchemaTypes DEF Paths
<1>2. \A a, b \in Messages : Reaches(a, b) <=> Outside(Messages, L, {}, a, b)
  BY ReachesIsOutside
<1> HIDE DEF L
<1>3. ASSUME LoanIn(m, r)
      PROVE  Answer(m, r)
  <2>1. Outside(Messages, L, {}, m, m)
    BY DEF Outside
  <2> QED BY <2>1, <1>2, <1>3 DEF Answer
<1>4. ASSUME NEW c \in L[m], Answer(c, r)
      PROVE  Answer(m, r)
  <2>1. c \in Messages
    BY <1>1
  <2>2. PICK n \in Messages : Outside(Messages, L, {}, c, n) /\ LoanIn(n, r)
    BY <2>1, <1>2, <1>4 DEF Answer
  <2>3. Outside(Messages, L, {}, m, n)
    BY <2>2, <1>1 DEF Outside, Closed
  <2> QED BY <2>2, <2>3, <1>2 DEF Answer
<1>5. ASSUME Answer(m, r), ~LoanIn(m, r)
      PROVE  \E c \in L[m] : Answer(c, r)
  <2>1. PICK n \in Messages : Outside(Messages, L, {}, m, n) /\ LoanIn(n, r)
    BY <1>2, <1>5 DEF Answer
  <2>2. PICK c \in L[m] : Outside(Messages, L, {} \cup {m}, c, n)
    BY <2>1, <1>1, <1>5, OutsideSplit
  <2>3. Outside(Messages, L, {}, c, n)
    BY <2>2 DEF Outside, Closed
  <2>4. c \in Messages
    BY <1>1
  <2> QED BY <2>1, <2>3, <2>4, <1>2 DEF Answer
<1> QED BY <1>1, <1>3, <1>4, <1>5

----------------------------------------------------------------------------
(* The search in a run that writes. *)

\* What set_defaults leaves of a field: only in a proto3 run does it decide
\* something, and then as the schema tells.
LEMMA FinalFields ==
  ASSUME LifetimesAssumption, LifetimesIInv, Regular,
         NEW m \in Messages, NEW f \in protos.fields[m]
  PROVE  /\ Final(m, f).of = f.of
         /\ Final(m, f).oneof = f.oneof
         /\ Final(m, f).deprecated = f.deprecated
         /\ Final(m, f).type = "message" <=> f.type = "message"
         /\ Lends(Final(m, f)) <=> Loan(m, f, run)
         /\ Borrowed(Final(m, f)) <=> Loan(m, f, run)
<1>1. /\ protos.dont_use_cow \in BOOLEAN /\ f \in Field /\ WellFormed(m, f)
  BY SchemaTypes DEF LifetimesIInv
<1>2. protos.dont_use_cow => ~(f.type = "fixed" /\ f.repeated)
  BY DEF Regular, Packs
<1>3. PICK c \in Shape :
        /\ c = Cows(f)
        /\ c.of = f.of /\ c.oneof = f.oneof /\ c.deprecated = f.deprecated
        /\ c.packed = f.packed /\ c.repeated = f.repeated
        /\ c.type = IF protos.dont_use_cow /\ f.type = "cow" THEN "owned" ELSE f.type
  <2>1. f \in Shape
    BY <1>1 DEF Field, Shape
  <2>2. CASE ~protos.dont_use_cow
    BY <2>1, <2>2 DEF Cows
  <2>3. CASE protos.dont_use_cow /\ f.type = "cow"
    <3>1. Cows(f) = [f EXCEPT !.type = "owned"]
      BY <2>3 DEF Cows
    <3>2. [f EXCEPT !.type = "owned"] \in Shape
      BY <2>1 DEF Shape
    <3> QED BY <2>1, <2>3, <3>1, <3>2 DEF Shape
  <2>4. CASE protos.dont_use_cow /\ f.type # "cow"
    <3>1. Cows(f) = f
      BY <2>1, <2>4 DEF Cows, Shape
    <3> QED BY <2>1, <2>4, <3>1
  <2> QED BY <1>1, <2>2, <2>3, <2>4
<1>4. PICK g \in Shape :
        /\ g = Final(m, f)
        /\ g.of = c.of /\ g.oneof = c.oneof /\ g.deprecated = c.deprecated /\ g.type = c.type
        /\ g.packed = IF m \in Nested THEN c.packed
                      ELSE IF c.type \notin {"fixed", "varint"} THEN "unset"
                      ELSE IF protos.syntax[run] = "proto3" /\ c.repeated /\ c.packed = "unset"
                      THEN "yes" ELSE c.packed
  <2>1. Cows(f) = c
    BY <1>3
  <2>2. CASE m \in Nested
    BY <2>1, <2>2 DEF Final
  <2>3. CASE m \notin Nested
    <3>1. PICK a \in Shape :
            /\ a = AsPacked(c)
            /\ a.of = c.of /\ a.oneof = c.oneof /\ a.deprecated = c.deprecated /\ a.type = c.type
            /\ a.packed = IF protos.syntax[run] = "proto3" /\ c.repeated /\ c.packed = "unset"
                          THEN "yes" ELSE c.packed
      <4>1. CASE protos.syntax[run] = "proto3" /\ c.repeated /\ c.packed = "unset"
        <5>1. AsPacked(c) = [c EXCEPT !.packed = "yes"]
          BY <4>1 DEF AsPacked
        <5>2. [c EXCEPT !.packed = "yes"] \in Shape
          BY DEF Shape
        <5> QED BY <4>1, <5>1, <5>2 DEF Shape
      <4>2. CASE ~(protos.syntax[run] = "proto3" /\ c.repeated /\ c.packed = "unset")
        <5>1. AsPacked(c) = c
          BY <4>2 DEF AsPacked
        <5> QED BY <4>2, <5>1
      <4> QED BY <4>1, <4>2
    <3>2. Final(m, f) = Unpacked(a)
      BY <2>1, <2>3, <3>1 DEF Final
    <3>3. CASE a.type \in {"fixed", "varint"}
      <4>1. Unpacked(a) = a
        BY <3>3 DEF Unpacked, Primitive
      <4> QED BY <3>1, <3>2, <3>3, <4>1, <2>3
    <3>4. CASE a.type \notin {"fixed", "varint"}
      <4>1. Unpacked(a) = [a EXCEPT !.packed = "unset"]
        BY <3>4 DEF Unpacked, Primitive
      <4>2. [a EXCEPT !.packed = "unset"] \in Shape
        BY DEF Shape
      <4> QED BY <3>1, <3>2, <3>4, <4>1, <4>2, <2>3 DEF Shape
    <3> QED BY <3>3, <3>4
  <2> QED BY <2>2, <2>3
<1>5. /\ g.of = f.of /\ g.oneof = f.oneof /\ g.deprecated = f.deprecated
      /\ g.type = "message" <=> f.type = "message"
  BY <1>1, <1>3, <1>4 DEF Field
<1>6. Lends(g) <=> Loan(m, f, run)
  BY <1>1, <1>2, <1>3, <1>4 DEF Lends, Loan, Field, WellFormed
<1>7. Borrowed(g) <=> Loan(m, f, run)
  BY <1>1, <1>2, <1>3, <1>4 DEF Borrowed, Loan, Field, WellFormed
<1> QED BY <1>4, <1>5, <1>6, <1>7

\* The graph that the search walks, and what it looks for.
Lead == [n \in DOMAIN desc |-> {f.of : f \in {g \in desc[n] : Visible(g) /\ g.type = "message"}}]
Lend == [n \in DOMAIN desc |-> \E f \in desc[n] : Visible(f) /\ Lends(f)]

IsSearch(h) ==
  h = [at \in (DOMAIN desc) \X (SUBSET DOMAIN desc) |->
         /\ at[1] \notin at[2]
         /\ \E f \in desc[at[1]] :
              /\ Visible(f)
              /\ Lends(f) \/ (f.type = "message" /\ h[<<f.of, at[2] \cup {at[1]}>>])]

LEMMA SearchEquation ==
  ASSUME NEW h, IsSearch(h)
  PROVE  /\ Searches(h, DOMAIN desc, Lead, Lend)
         /\ \A n \in DOMAIN desc, P \in SUBSET DOMAIN desc : h[<<n, P>>] \in BOOLEAN
<1>1. ASSUME NEW n \in DOMAIN desc, NEW P \in SUBSET DOMAIN desc
      PROVE  /\ h[<<n, P>>] <=> n \notin P /\ (Lend[n] \/ \E c \in Lead[n] : h[<<c, P \cup {n}>>])
             /\ h[<<n, P>>] \in BOOLEAN
  <2>1. <<n, P>> \in (DOMAIN desc) \X (SUBSET DOMAIN desc)
    OBVIOUS
  <2>2. h[<<n, P>>] = (/\ n \notin P
                       /\ \E f \in desc[n] :
                            /\ Visible(f)
                            /\ Lends(f) \/ (f.type = "message" /\ h[<<f.of, P \cup {n}>>]))
    BY <2>1 DEF IsSearch
  <2>3. Lend[n] <=> \E f \in desc[n] : Visible(f) /\ Lends(f)
    BY DEF Lend
  <2>4. (\E c \in Lead[n] : h[<<c, P \cup {n}>>])
          <=> \E f \in desc[n] : Visible(f) /\ f.type = "message" /\ h[<<f.of, P \cup {n}>>]
    BY DEF Lead
  <2>5. h[<<n, P>>] \in BOOLEAN
    BY <2>2
  <2> QED BY <2>2, <2>3, <2>4, <2>5
<1> QED BY <1>1 DEF Searches

\* HasLifetime is a search, as there is one: that of Found.
LEMMA HasLifetimeSearches ==
  ASSUME Lead \in [DOMAIN desc -> SUBSET DOMAIN desc]
  PROVE  \E h : IsSearch(h) /\ \A m, P : HasLifetime(m, P) = h[<<m, P>>]
<1> DEFINE D == DOMAIN desc
           h0 == [at \in D \X SUBSET D |-> Found(D, Lead, Lend, at[1], at[2])]
<1>1. \A n \in D, P \in SUBSET D :
        Found(D, Lead, Lend, n, P)
          = (/\ n \notin P
             /\ \E f \in desc[n] :
                  /\ Visible(f)
                  /\ Lends(f) \/ (f.type = "message" /\ Found(D, Lead, Lend, f.of, P \cup {n})))
  <2> TAKE n \in D, P \in SUBSET D
  <2>1. Found(D, Lead, Lend, n, P)
           <=> n \notin P /\ (Lend[n] \/ \E c \in Lead[n] : Found(D, Lead, Lend, c, P \cup {n}))
    BY FoundSearches
  <2>2. Lend[n] <=> \E f \in desc[n] : Visible(f) /\ Lends(f)
    BY DEF Lend
  <2>3. (\E c \in Lead[n] : Found(D, Lead, Lend, c, P \cup {n}))
          <=> \E f \in desc[n] :
                Visible(f) /\ f.type = "message" /\ Found(D, Lead, Lend, f.of, P \cup {n})
    BY DEF Lead
  <2>4. Found(D, Lead, Lend, n, P) \in BOOLEAN
    BY DEF Found
  <2> QED BY <2>1, <2>2, <2>3, <2>4
<1>2. IsSearch(h0)
  <2>1. \A at \in D \X SUBSET D :
          h0[at] = (/\ at[1] \notin at[2]
                    /\ \E f \in desc[at[1]] :
                         /\ Visible(f)
                         /\ Lends(f) \/ (f.type = "message" /\ h0[<<f.of, at[2] \cup {at[1]}>>]))
    <3> TAKE at \in D \X SUBSET D
    <3>1. PICK n \in D, P \in SUBSET D : at = <<n, P>>
      OBVIOUS
    <3>2. at[1] = n /\ at[2] = P
      BY <3>1
    <3>3. h0[at] = Found(D, Lead, Lend, n, P)
      BY <3>1, <3>2
    <3>4. ASSUME NEW f \in desc[n], Visible(f), f.type = "message"
          PROVE  h0[<<f.of, P \cup {n}>>] = Found(D, Lead, Lend, f.of, P \cup {n})
      <4>1. f.of \in Lead[n]
        BY <3>4 DEF Lead
      <4>2. f.of \in D /\ P \cup {n} \in SUBSET D
        BY <4>1
      <4>3. <<f.of, P \cup {n}>> \in D \X SUBSET D
        BY <4>2
      <4> QED BY <4>3
    <3> HIDE DEF h0
    <3>5. (\E f \in desc[n] :
              /\ Visible(f)
              /\ Lends(f) \/ (f.type = "message" /\ Found(D, Lead, Lend, f.of, P \cup {n})))
            <=> (\E f \in desc[n] :
              /\ Visible(f)
              /\ Lends(f) \/ (f.type = "message" /\ h0[<<f.of, P \cup {n}>>]))
      BY <3>4
    <3>6. h0[at] = (/\ n \notin P
                    /\ \E f \in desc[n] :
                         /\ Visible(f)
                         /\ Lends(f) \/ (f.type = "message" /\ h0[<<f.of, P \cup {n}>>]))
      BY <1>1, <3>3, <3>5
    <3> QED BY <3>2, <3>6
  <2>2. h0 = [at \in D \X SUBSET D |-> h0[at]]
    OBVIOUS
  <2> HIDE DEF h0
  <2> QED BY <2>1, <2>2 DEF IsSearch
<1> HIDE DEF h0
<1> DEFINE has == CHOOSE h :
             h = [at \in (DOMAIN desc) \X (SUBSET DOMAIN desc) |->
                    /\ at[1] \notin at[2]
                    /\ \E f \in desc[at[1]] :
                         /\ Visible(f)
                         /\ Lends(f) \/ (f.type = "message" /\ h[<<f.of, at[2] \cup {at[1]}>>])]
<1>3. IsSearch(has)
  BY <1>2, Zenon DEF IsSearch
<1>4. \A m, P : HasLifetime(m, P) = has[<<m, P>>]
  BY Zenon DEF HasLifetime
<1> HIDE DEF has
<1> QED BY <1>3, <1>4, Zenon

LEMMA SightedGraph ==
  ASSUME LifetimesAssumption, LifetimesIInv, Regular, step = "write"
  PROVE  /\ DOMAIN desc = Sighted(run)
         /\ DOMAIN desc \in SUBSET Messages
         /\ IsFiniteSet(DOMAIN desc)
         /\ Lead \in [DOMAIN desc -> SUBSET DOMAIN desc]
         /\ \A n \in DOMAIN desc : Lead[n] = LeadsTo(n)
         /\ \A n \in DOMAIN desc : Lend[n] <=> LoanIn(n, run)
         /\ \A n \in DOMAIN desc : desc[n] = {Final(n, f) : f \in protos.fields[n]}
<1>1. desc = [m \in Sighted(run) |-> {Final(m, f) : f \in protos.fields[m]}]
  BY DEF LifetimesIInv, DescOK
<1>2. DOMAIN desc = Sighted(run) /\ DOMAIN desc \in SUBSET Messages
  BY <1>1 DEF Sighted
<1>3. IsFiniteSet(DOMAIN desc)
  <2>1. IsFiniteSet(Messages)
    BY DEF LifetimesAssumption
  <2> QED BY <2>1, <1>2, FS_Subset
<1>4. \A n \in DOMAIN desc : desc[n] = {Final(n, f) : f \in protos.fields[n]}
  BY <1>1
<1>5. ASSUME NEW n \in DOMAIN desc
      PROVE  /\ Lead[n] = LeadsTo(n)
             /\ Lend[n] <=> LoanIn(n, run)
             /\ LeadsTo(n) \in SUBSET DOMAIN desc
  <2>1. \A f \in protos.fields[n] :
          /\ Final(n, f).of = f.of
          /\ Final(n, f).deprecated = f.deprecated
          /\ Final(n, f).type = "message" <=> f.type = "message"
          /\ Lends(Final(n, f)) <=> Loan(n, f, run)
    BY <1>2, FinalFields
  <2>2. Lead[n] = {g.of : g \in {g \in desc[n] : Visible(g) /\ g.type = "message"}}
    BY DEF Lead
  <2>3. Lead[n] = LeadsTo(n)
    <3>1. ASSUME NEW c \in Lead[n] PROVE c \in LeadsTo(n)
      <4>1. PICK f \in protos.fields[n] :
              c = Final(n, f).of /\ Visible(Final(n, f)) /\ Final(n, f).type = "message"
        BY <2>2, <1>4
      <4> QED BY <4>1, <2>1 DEF LeadsTo, Visible
    <3>2. ASSUME NEW c \in LeadsTo(n) PROVE c \in Lead[n]
      <4>1. PICK f \in protos.fields[n] : c = f.of /\ ~f.deprecated /\ f.type = "message"
        BY DEF LeadsTo
      <4>2. Final(n, f) \in desc[n] /\ Visible(Final(n, f)) /\ Final(n, f).type = "message"
        BY <4>1, <2>1, <1>4 DEF Visible
      <4> QED BY <4>1, <4>2, <2>1, <2>2
    <3> QED BY <3>1, <3>2
  <2>4. Lend[n] <=> \E g \in desc[n] : Visible(g) /\ Lends(g)
    BY DEF Lend
  <2>5. Lend[n] <=> LoanIn(n, run)
    BY <2>1, <2>4, <1>4 DEF LoanIn, Visible
  <2>6. ASSUME NEW c \in LeadsTo(n) PROVE c \in DOMAIN desc
    <3>1. PICK f \in protos.fields[n] : c = f.of /\ f.type = "message"
      BY DEF LeadsTo
    <3>2. c \in Messages /\ FileOf[c] \in Sees[FileOf[n]]
      BY <3>1, <1>2, SchemaTypes DEF LifetimesIInv, WellFormed
    <3>3. FileOf[n] \in Sees[run] /\ run \in Files
      BY <1>2 DEF Sighted, LifetimesIInv, DescOK
    <3>4. Sees[FileOf[n]] \subseteq Sees[run]
      BY <3>3 DEF LifetimesAssumption
    <3> QED BY <3>2, <3>4, <1>2 DEF Sighted
  <2> QED BY <2>3, <2>5, <2>6
<1>6. Lead \in [DOMAIN desc -> SUBSET DOMAIN desc]
  <2>1. Lead = [n \in DOMAIN desc |-> Lead[n]]
    BY DEF Lead
  <2> QED BY <2>1, <1>5
<1> QED BY <1>2, <1>3, <1>4, <1>5, <1>6

\* Leaving the messages that a run does not see out of a set that is closed
\* leaves it closed.
LEMMA SightedIsEnough ==
  ASSUME NEW M, NEW D \in SUBSET M, NEW L \in [D -> SUBSET D], NEW K \in [M -> SUBSET M],
         \A n \in D : L[n] = K[n], NEW m \in D, NEW k \in M
  PROVE  Outside(M, K, {}, m, k) <=> k \in D /\ Outside(D, L, {}, m, k)
<1>1. ASSUME Outside(M, K, {}, m, k)
      PROVE  k \in D /\ Outside(D, L, {}, m, k)
  <2>1. \A S \in SUBSET D : m \in S /\ Closed(S, L, {}) => k \in S
    BY <1>1 DEF Outside, Closed
  <2>2. Closed(D, L, {})
    BY DEF Closed
  <2> QED BY <2>1, <2>2 DEF Outside
<1>2. ASSUME k \in D, Outside(D, L, {}, m, k), NEW S \in SUBSET M, m \in S, Closed(S, K, {})
      PROVE  k \in S
  <2>1. Closed(S \cap D, L, {})
    BY <1>2 DEF Closed
  <2> QED BY <2>1, <1>2 DEF Outside
<1> QED BY <1>1, <1>2 DEF Outside

\* Wherever it is asked in a run, has_lifetime answers what the schema tells;
\* started with the message itself to be ignored, it says no.
LEMMA SearchAnswers ==
  ASSUME LifetimesAssumption, LifetimesIInv, Regular, step = "write",
         NEW m \in Sighted(run)
  PROVE  /\ HasLifetime(m, {}) \in BOOLEAN
         /\ HasLifetime(m, {}) <=> Answer(m, run)
         /\ HasLifetime(m, {m}) = FALSE
<1> DEFINE D == DOMAIN desc
<1>1. /\ m \in D /\ D \in SUBSET Messages /\ IsFiniteSet(D)
      /\ Lead \in [D -> SUBSET D]
      /\ \A n \in D : Lead[n] = LeadsTo(n)
      /\ \A n \in D : Lend[n] <=> LoanIn(n, run)
  BY SightedGraph
<1>2. PICK h : IsSearch(h) /\ \A a, P : HasLifetime(a, P) = h[<<a, P>>]
  BY <1>1, HasLifetimeSearches
<1>3. /\ Searches(h, D, Lead, Lend)
      /\ \A n \in D, P \in SUBSET D : h[<<n, P>>] \in BOOLEAN
  BY <1>2, SearchEquation
<1>4. \A n \in D, P \in SUBSET D : h[<<n, P>>] <=> Found(D, Lead, Lend, n, P)
  BY <1>1, <1>3, SearchIsFound
<1>5. HasLifetime(m, {}) <=> \E k \in D : Lend[k] /\ Outside(D, Lead, {}, m, k)
  <2>1. {} \in SUBSET D
    OBVIOUS
  <2>2. HasLifetime(m, {}) <=> Found(D, Lead, Lend, m, {})
    BY <2>1, <1>1, <1>2, <1>4
  <2> QED BY <2>2 DEF Found
<1>6. HasLifetime(m, {m}) = FALSE
  <2>1. {m} \in SUBSET D
    BY <1>1
  <2>2. h[<<m, {m}>>] \in BOOLEAN /\ ~h[<<m, {m}>>]
    BY <2>1, <1>1, <1>3, <1>4 DEF Found
  <2> QED BY <2>2, <1>2
<1>7. HasLifetime(m, {}) \in BOOLEAN
  BY <1>1, <1>2, <1>3
<1>8. Paths \in [Messages -> SUBSET Messages]
  BY SchemaTypes DEF LifetimesIInv
<1>9. \A n \in D : Lead[n] = Paths[n]
  BY <1>1 DEF Paths
<1>10. \A k \in Messages : Reaches(m, k) <=> k \in D /\ Outside(D, Lead, {}, m, k)
  <2> TAKE k \in Messages
  <2>1. Reaches(m, k) <=> Outside(Messages, Paths, {}, m, k)
    BY <1>1, ReachesIsOutside DEF LifetimesIInv
  <2>2. Outside(Messages, Paths, {}, m, k) <=> k \in D /\ Outside(D, Lead, {}, m, k)
    BY <1>1, <1>8, <1>9, SightedIsEnough
  <2> QED BY <2>1, <2>2
<1> HIDE DEF D
<1>11. HasLifetime(m, {}) <=> Answer(m, run)
  BY <1>1, <1>5, <1>10 DEF Answer
<1> QED BY <1>6, <1>7, <1>11

\* A message of a run is one that it sees, and so is what its fields lead to.
LEMMA Targets ==
  ASSUME LifetimesAssumption, LifetimesIInv, Regular, step = "write",
         NEW m \in Own(run)
  PROVE  /\ m \in Messages /\ FileOf[m] = run /\ m \in Sighted(run)
         /\ \A f \in protos.fields[m] :
              f.type = "message" =>
                /\ f.of \in Messages
                /\ ~f.deprecated => f.of \in LeadsTo(m)
                /\ f.of \in Sighted(run)
<1>1. m \in Messages /\ FileOf[m] = run /\ run \in Files
  BY DEF Own, LifetimesIInv, DescOK
<1>2. m \in Sighted(run)
  BY <1>1 DEF Sighted, LifetimesAssumption
<1>3. ASSUME NEW f \in protos.fields[m], f.type = "message"
      PROVE  /\ f.of \in Messages
             /\ ~f.deprecated => f.of \in LeadsTo(m)
             /\ f.of \in Sighted(run)
  <2>1. f.of \in Messages /\ FileOf[f.of] \in Sees[run]
    BY <1>1, <1>3, SchemaTypes DEF LifetimesIInv, WellFormed
  <2> QED BY <2>1, <1>3 DEF LeadsTo, Sighted
<1> QED BY <1>1, <1>2, <1>3

----------------------------------------------------------------------------
(* The definitions that a run writes. *)

\* What a definition with some of a message's fields uses and borrows.
LEMMA FieldsRight ==
  ASSUME LifetimesAssumption, LifetimesIInv, Regular, step = "write",
         NEW m \in Own(run), NEW B \in SUBSET desc[m]
  PROVE  /\ \A u \in Uses(m, B) :
              /\ u.type \in Keys
              /\ u.lifetime \in BOOLEAN
              /\ u.lifetime <=> Tells(u.type, run)
         /\ (\E g \in B : Visible(g) /\ Borrowed(g))
              <=> \E f \in protos.fields[m] : Final(m, f) \in B /\ ~f.deprecated /\ Loan(m, f, run)
         /\ (\E u \in Uses(m, B) : u.lifetime)
              <=> \E f \in protos.fields[m] :
                    Final(m, f) \in B /\ ~f.deprecated /\ f.type = "message" /\ Answer(f.of, run)
<1>1. m \in Messages /\ m \in DOMAIN desc
  BY Targets, SightedGraph
<1>2. desc[m] = {Final(m, f) : f \in protos.fields[m]}
  BY <1>1, SightedGraph
<1>3. \A f \in protos.fields[m] :
        /\ Final(m, f).of = f.of
        /\ Final(m, f).deprecated = f.deprecated
        /\ Final(m, f).type = "message" <=> f.type = "message"
        /\ Borrowed(Final(m, f)) <=> Loan(m, f, run)
  BY <1>1, FinalFields
<1>4. \A f \in protos.fields[m] : f.type = "message" =>
        /\ f.of \in Messages
        /\ HasLifetime(f.of, {}) \in BOOLEAN
        /\ HasLifetime(f.of, {}) <=> Answer(f.of, run)
  BY Targets, SearchAnswers
<1>5. \A f \in protos.fields[m] : f.type = "message" =>
        /\ <<f.of, "struct">> \in Keys
        /\ Tells(<<f.of, "struct">>, run) <=> Answer(f.of, run)
  BY <1>4 DEF Keys, Tells
<1>6. ASSUME NEW u \in Uses(m, B)
      PROVE  \E f \in protos.fields[m] :
               /\ Final(m, f) \in B /\ ~f.deprecated /\ f.type = "message"
               /\ u = [type |-> <<f.of, "struct">>, lifetime |-> HasLifetime(f.of, {})]
  <2>1. PICK g \in B : /\ Visible(g) /\ g.type = "message"
                       /\ u = [type |-> <<g.of, "struct">>, lifetime |-> HasLifetime(g.of, {})]
    BY DEF Uses
  <2>2. PICK f \in protos.fields[m] : g = Final(m, f)
    BY <1>2
  <2> QED BY <2>1, <2>2, <1>3 DEF Visible
<1>7. ASSUME NEW f \in protos.fields[m], Final(m, f) \in B, ~f.deprecated, f.type = "message"
      PROVE  [type |-> <<f.of, "struct">>, lifetime |-> HasLifetime(f.of, {})] \in Uses(m, B)
  <2>1. Visible(Final(m, f)) /\ Final(m, f).type = "message" /\ Final(m, f).of = f.of
    BY <1>3, <1>7 DEF Visible
  <2>2. [type |-> <<Final(m, f).of, "struct">>, lifetime |-> HasLifetime(Final(m, f).of, {})]
          \in Uses(m, B)
    BY <2>1, <1>7 DEF Uses
  <2> QED BY <2>1, <2>2
<1>8. ASSUME NEW u \in Uses(m, B)
      PROVE  /\ u.type \in Keys
             /\ u.lifetime \in BOOLEAN
             /\ u.lifetime <=> Tells(u.type, run)
  <2>1. PICK f \in protos.fields[m] :
          /\ f.type = "message"
          /\ u = [type |-> <<f.of, "struct">>, lifetime |-> HasLifetime(f.of, {})]
    BY <1>6
  <2>2. u.type = <<f.of, "struct">> /\ u.lifetime = HasLifetime(f.of, {})
    BY <2>1
  <2> QED BY <2>1, <2>2, <1>4, <1>5
<1>9. (\E g \in B : Visible(g) /\ Borrowed(g))
         <=> \E f \in protos.fields[m] : Final(m, f) \in B /\ ~f.deprecated /\ Loan(m, f, run)
  BY <1>2, <1>3 DEF Visible
<1>10. (\E u \in Uses(m, B) : u.lifetime)
         <=> \E f \in protos.fields[m] :
               Final(m, f) \in B /\ ~f.deprecated /\ f.type = "message" /\ Answer(f.of, run)
  <2>1. ASSUME NEW u \in Uses(m, B), u.lifetime
        PROVE  \E f \in protos.fields[m] :
                 Final(m, f) \in B /\ ~f.deprecated /\ f.type = "message" /\ Answer(f.of, run)
    BY <2>1, <1>4, <1>6
  <2>2. ASSUME NEW f \in protos.fields[m],
               Final(m, f) \in B, ~f.deprecated, f.type = "message", Answer(f.of, run)
        PROVE  \E u \in Uses(m, B) : u.lifetime
    <3>1. [type |-> <<f.of, "struct">>, lifetime |-> HasLifetime(f.of, {})].lifetime
      BY <2>2, <1>4
    <3> QED BY <3>1, <2>2, <1>7
  <2> QED BY <2>1, <2>2
<1> QED BY <1>8, <1>9, <1>10

LEMMA OneOfRight ==
  ASSUME LifetimesAssumption, LifetimesIInv, Regular, step = "write",
         NEW m \in Own(run)
  PROVE  /\ Right(<<m, "oneof">>, OneOfOf(m))
         /\ OneOfHasLifetime(m) \in BOOLEAN
         /\ OneOfHasLifetime(m) <=> OneOfAnswer(m, run)
<1> DEFINE B == OneOfFields(m)
           d == OneOfOf(m)
<1>1. m \in Messages /\ m \in DOMAIN desc /\ FileOf[m] = run
  BY Targets, SightedGraph
<1>2. desc[m] = {Final(m, f) : f \in protos.fields[m]}
  BY <1>1, SightedGraph
<1>3. \A f \in protos.fields[m] :
        /\ Final(m, f) \in B <=> f.oneof
        /\ Final(m, f).of = f.of
        /\ Final(m, f).deprecated = f.deprecated
        /\ Final(m, f).type = "message" <=> f.type = "message"
        /\ Lends(Final(m, f)) <=> Loan(m, f, run)
  BY <1>1, <1>2, FinalFields DEF OneOfFields
<1>4. B \in SUBSET desc[m]
  BY DEF OneOfFields
<1>5. \A f \in protos.fields[m] : f.type = "message" =>
        (HasLifetime(f.of, {}) <=> Answer(f.of, run))
  BY Targets, SearchAnswers
<1>6. OneOfHasLifetime(m) <=> OneOfAnswer(m, run)
  <2>1. \A g \in B : \E f \in protos.fields[m] : g = Final(m, f) /\ f.oneof
    BY <1>2, <1>3, <1>4
  <2>2. OneOfHasLifetime(m) <=>
          \E f \in protos.fields[m] :
            /\ f.oneof /\ ~f.deprecated
            /\ Loan(m, f, run) \/ (f.type = "message" /\ HasLifetime(f.of, {}))
    BY <2>1, <1>3 DEF OneOfHasLifetime, Visible
  <2> QED BY <2>2, <1>5 DEF OneOfAnswer
<1>7. OneOfHasLifetime(m) \in BOOLEAN
  BY DEF OneOfHasLifetime
<1>8. /\ d.declares = OneOfHasLifetime(m)
      /\ d.borrows = \E g \in B : Visible(g) /\ Borrowed(g)
      /\ d.uses = Uses(m, B)
  BY DEF OneOfOf, Definition
<1> HIDE DEF B, d
<1>9. /\ \A u \in d.uses : u.type \in Keys /\ u.lifetime \in BOOLEAN /\ (u.lifetime <=> Tells(u.type, run))
      /\ d.borrows <=> \E f \in protos.fields[m] : f.oneof /\ ~f.deprecated /\ Loan(m, f, run)
      /\ (\E u \in d.uses : u.lifetime)
           <=> \E f \in protos.fields[m] :
                 f.oneof /\ ~f.deprecated /\ f.type = "message" /\ Answer(f.of, run)
  <2>1. /\ \A u \in d.uses : u.type \in Keys /\ u.lifetime \in BOOLEAN /\ (u.lifetime <=> Tells(u.type, run))
        /\ d.borrows <=>
             \E f \in protos.fields[m] : Final(m, f) \in B /\ ~f.deprecated /\ Loan(m, f, run)
        /\ (\E u \in d.uses : u.lifetime)
             <=> \E f \in protos.fields[m] :
                   Final(m, f) \in B /\ ~f.deprecated /\ f.type = "message" /\ Answer(f.of, run)
    BY <1>4, <1>8, FieldsRight
  <2> QED BY <2>1, <1>3
<1>10. Mentions(d) <=> OneOfAnswer(m, run)
  BY <1>9 DEF Mentions, OneOfAnswer
<1>11. Tells(<<m, "oneof">>, run) <=> OneOfAnswer(m, run)
  BY DEF Tells
<1>12. <<m, "oneof">>[1] = m
  OBVIOUS
<1>13. Right(<<m, "oneof">>, d)
  BY <1>1, <1>6, <1>7, <1>8, <1>9, <1>10, <1>11, <1>12 DEF Right
<1> QED BY <1>6, <1>7, <1>13 DEF d

LEMMA StructRight ==
  ASSUME LifetimesAssumption, LifetimesIInv, Regular, step = "write",
         NEW m \in Own(run)
  PROVE  Right(<<m, "struct">>, StructOf(m))
<1> DEFINE B == Plain(m)
           V == OneOfFields(m)
           d == StructOf(m)
           one == IF V = {} THEN {} ELSE { [type |-> <<m, "oneof">>, lifetime |-> OneOfHasLifetime(m)] }
<1>1. m \in Messages /\ m \in DOMAIN desc /\ FileOf[m] = run /\ m \in Sighted(run)
  BY Targets, SightedGraph
<1>2. desc[m] = {Final(m, f) : f \in protos.fields[m]}
  BY <1>1, SightedGraph
<1>3. \A f \in protos.fields[m] :
        /\ Final(m, f) \in B <=> ~f.oneof
        /\ Final(m, f) \in V <=> f.oneof
  BY <1>1, <1>2, FinalFields DEF OneOfFields, Plain
<1>4. B \in SUBSET desc[m]
  BY DEF Plain
<1>5. /\ HasLifetime(m, {}) \in BOOLEAN
      /\ HasLifetime(m, {}) <=> Answer(m, run)
      /\ HasLifetime(m, {m}) = FALSE
  BY <1>1, SearchAnswers
<1>6. protos.dont_use_cow => ~Answer(m, run) /\ ~OneOfAnswer(m, run)
  BY DEF Answer, LoanIn, Loan, OneOfAnswer
<1>7. d.declares \in BOOLEAN /\ (d.declares <=> Answer(m, run))
  <2>1. d.declares = HasLifetime(m, IF protos.dont_use_cow THEN {m} ELSE {})
    BY DEF StructOf, Definition
  <2> HIDE DEF d
  <2>2. CASE protos.dont_use_cow
    <3>1. d.declares = HasLifetime(m, {m})
      BY <2>1, <2>2
    <3> QED BY <3>1, <1>5, <1>6, <2>2
  <2>3. CASE ~protos.dont_use_cow
    <3>1. d.declares = HasLifetime(m, {})
      BY <2>1, <2>3
    <3> QED BY <3>1, <1>5
  <2> QED BY <2>2, <2>3
<1>8. /\ d.borrows = \E g \in B : Visible(g) /\ Borrowed(g)
      /\ d.uses = Uses(m, B) \cup one
  BY DEF StructOf, Definition
<1>9. /\ OneOfHasLifetime(m) \in BOOLEAN
      /\ OneOfHasLifetime(m) <=> OneOfAnswer(m, run)
  BY OneOfRight
<1>10. ASSUME NEW u \in one
       PROVE  /\ u.type = <<m, "oneof">> /\ u.type \in Keys
              /\ u.lifetime \in BOOLEAN
              /\ u.lifetime <=> OneOfAnswer(m, run)
              /\ u.lifetime <=> Tells(u.type, run)
  <2>1. u = [type |-> <<m, "oneof">>, lifetime |-> OneOfHasLifetime(m)]
    OBVIOUS
  <2>2. u.type = <<m, "oneof">> /\ u.lifetime = OneOfHasLifetime(m)
    BY <2>1
  <2>3. Tells(<<m, "oneof">>, run) <=> OneOfAnswer(m, run)
    BY DEF Tells
  <2>4. <<m, "oneof">> \in Keys
    BY <1>1 DEF Keys
  <2> HIDE DEF one
  <2> QED BY <2>2, <2>3, <2>4, <1>9
<1>11. (\E u \in one : u.lifetime) <=> OneOfAnswer(m, run)
  <2>1. CASE V = {}
    <3>1. one = {}
      BY <2>1
    <3>2. ~OneOfAnswer(m, run)
      BY <2>1, <1>3 DEF OneOfAnswer
    <3> QED BY <3>1, <3>2
  <2>2. CASE V # {}
    <3>1. one # {}
      BY <2>2
    <3> HIDE DEF one
    <3> QED BY <3>1, <1>10
  <2> QED BY <2>1, <2>2
<1> HIDE DEF B, V, d, one
<1>12. /\ \A u \in Uses(m, B) :
            u.type \in Keys /\ u.lifetime \in BOOLEAN /\ (u.lifetime <=> Tells(u.type, run))
       /\ d.borrows <=> \E f \in protos.fields[m] : ~f.oneof /\ ~f.deprecated /\ Loan(m, f, run)
       /\ (\E u \in Uses(m, B) : u.lifetime)
            <=> \E f \in protos.fields[m] :
                  ~f.oneof /\ ~f.deprecated /\ f.type = "message" /\ Answer(f.of, run)
  <2>1. /\ \A u \in Uses(m, B) :
             u.type \in Keys /\ u.lifetime \in BOOLEAN /\ (u.lifetime <=> Tells(u.type, run))
        /\ d.borrows <=>
             \E f \in protos.fields[m] : Final(m, f) \in B /\ ~f.deprecated /\ Loan(m, f, run)
        /\ (\E u \in Uses(m, B) : u.lifetime)
             <=> \E f \in protos.fields[m] :
                   Final(m, f) \in B /\ ~f.deprecated /\ f.type = "message" /\ Answer(f.of, run)
    BY <1>4, <1>8, FieldsRight
  <2> QED BY <2>1, <1>3
<1>13. Answer(m, run) <=> LoanIn(m, run) \/ \E c \in LeadsTo(m) : Answer(c, run)
  BY <1>1, AnswerSplit DEF LifetimesIInv
<1>14. (\E c \in LeadsTo(m) : Answer(c, run))
         <=> \E f \in protos.fields[m] : ~f.deprecated /\ f.type = "message" /\ Answer(f.of, run)
  BY DEF LeadsTo
<1>15. Mentions(d) <=> Answer(m, run)
  <2>1. Mentions(d) <=> d.borrows \/ (\E u \in Uses(m, B) : u.lifetime) \/ \E u \in one : u.lifetime
    BY <1>8 DEF Mentions
  <2>2. Answer(m, run) <=>
          \E f \in protos.fields[m] :
            /\ ~f.deprecated
            /\ Loan(m, f, run) \/ (f.type = "message" /\ Answer(f.of, run))
    BY <1>13, <1>14 DEF LoanIn
  <2>3. OneOfAnswer(m, run) <=>
          \E f \in protos.fields[m] :
            /\ f.oneof /\ ~f.deprecated
            /\ Loan(m, f, run) \/ (f.type = "message" /\ Answer(f.of, run))
    BY DEF OneOfAnswer
  <2> QED BY <2>1, <2>2, <2>3, <1>11, <1>12
<1>16. Tells(<<m, "struct">>, run) <=> Answer(m, run)
  BY DEF Tells
<1>17. <<m, "struct">>[1] = m
  OBVIOUS
<1>18. \A u \in d.uses : u.type \in Keys /\ u.lifetime \in BOOLEAN /\ (u.lifetime <=> Tells(u.type, run))
  BY <1>8, <1>10, <1>12
<1>19. Right(<<m, "struct">>, d)
  BY <1>1, <1>7, <1>15, <1>16, <1>17, <1>18 DEF Right
<1> QED BY <1>19 DEF d

----------------------------------------------------------------------------
(* The invariant. *)

LEMMA LifetimesInitInv ==
  ASSUME LifetimesAssumption, TypesInit
  PROVE  LifetimesIInv
<1>1. protos \in Protos /\ DescOK
  BY DEF TypesInit, DescOK
<1>2. DOMAIN written = {}
  BY DEF TypesInit
<1> QED BY <1>1, <1>2 DEF LifetimesIInv

\* What is right of a schema stays so, as the schema does.
LEMMA RightStays ==
  ASSUME UNCHANGED protos, NEW k, NEW d
  PROVE  Right(k, d) => Right(k, d)'
<1>1. \A m, f, r : Loan(m, f, r)' <=> Loan(m, f, r)
  BY DEF Loan
<1>2. \A n, r : LoanIn(n, r)' <=> LoanIn(n, r)
  BY <1>1 DEF LoanIn
<1>3. \A x : LeadsTo(x)' = LeadsTo(x)
  BY DEF LeadsTo
<1>4. \A m, n : Reaches(m, n)' <=> Reaches(m, n)
  BY <1>3 DEF Reaches
<1>5. \A m, r : Answer(m, r)' <=> Answer(m, r)
  BY <1>2, <1>4 DEF Answer
<1>6. \A m, r : OneOfAnswer(m, r)' <=> OneOfAnswer(m, r)
  BY <1>1, <1>5 DEF OneOfAnswer
<1>7. \A l, r : Tells(l, r)' <=> Tells(l, r)
  BY <1>5, <1>6 DEF Tells
<1> QED BY <1>7 DEF Right, Mentions, Keys

\* While pb-rs runs on a file, what the run makes of the schema is the same.
LEMMA ConversionStays ==
  ASSUME UNCHANGED protos
  PROVE  /\ [m \in Sighted(run) |-> {Cows(f) : f \in protos.fields[m]}]'
              = [m \in Sighted(run') |-> {Cows(f) : f \in protos.fields[m]}]
         /\ UNCHANGED run =>
              [m \in Sighted(run) |-> {Final(m, f) : f \in protos.fields[m]}]'
                = [m \in Sighted(run) |-> {Final(m, f) : f \in protos.fields[m]}]
<1>1. \A f : Cows(f)' = Cows(f)
  BY DEF Cows
<1>2. Sighted(run)' = Sighted(run')
  BY DEF Sighted
<1>3. \A m : {Cows(f) : f \in protos.fields[m]}' = {Cows(f) : f \in protos.fields[m]}
  BY <1>1
<1>4. ASSUME UNCHANGED run
      PROVE  \A m : {Final(m, f) : f \in protos.fields[m]}' = {Final(m, f) : f \in protos.fields[m]}
  <2>1. \A m, f : Final(m, f)' = Final(m, f)
    BY <1>1, <1>4 DEF Final, AsPacked, Unpacked, Primitive
  <2> QED BY <2>1
<1> QED BY <1>2, <1>3, <1>4

LEMMA WrittenStays ==
  ASSUME LifetimesIInv, UNCHANGED <<protos, written>>, DescOK'
  PROVE  LifetimesIInv'
<1>1. protos' \in Protos /\ DOMAIN written' \subseteq Keys'
  BY DEF LifetimesIInv, Keys
<1>2. Regular' => Regular
  BY DEF Regular, Packs
<1>3. ASSUME Regular', NEW k \in DOMAIN written'
      PROVE  Right(k, written[k])'
  <2>1. PICK d : d = written[k]
    OBVIOUS
  <2>2. Right(k, d)
    BY <1>2, <1>3, <2>1 DEF LifetimesIInv
  <2>3. Right(k, d)'
    BY <2>2, RightStays
  <2>4. written'[k] = d
    BY <2>1
  <2> QED BY <2>3, <2>4 DEF Right, Mentions
<1> QED BY <1>1, <1>3 DEF LifetimesIInv

LEMMA WriteInv ==
  ASSUME LifetimesAssumption, LifetimesIInv, NEW m \in Messages, Write(m)
  PROVE  LifetimesIInv'
<1> DEFINE keys == { <<m, "struct">> } \cup (IF OneOfFields(m) = {} THEN {} ELSE { <<m, "oneof">> })
<1>1. /\ step = "write" /\ m \in Own(run)
      /\ written' = [k \in DOMAIN written \cup keys |->
                       IF k \in DOMAIN written THEN written[k]
                       ELSE IF k[2] = "struct" THEN StructOf(m) ELSE OneOfOf(m)]
      /\ UNCHANGED <<protos, run, ran, step, desc>>
  BY DEF Write
<1>2. protos' \in Protos /\ DescOK'
  BY <1>1, ConversionStays DEF LifetimesIInv, DescOK
<1>3. keys \subseteq {<<m, "struct">>, <<m, "oneof">>} /\ keys \subseteq Keys
  BY DEF Keys
<1> HIDE DEF keys
<1>4. DOMAIN written' = DOMAIN written \cup keys
  BY <1>1
<1>5. DOMAIN written' \subseteq Keys'
  BY <1>3, <1>4 DEF LifetimesIInv, Keys
<1>6. Regular' => Regular
  BY <1>1 DEF Regular, Packs
<1>7. ASSUME Regular', NEW k \in DOMAIN written'
      PROVE  Right(k, written[k])'
  <2>1. PICK d : d = written'[k]
    OBVIOUS
  <2>2. Right(k, d)
    <3>1. CASE k \in DOMAIN written
      <4>1. d = written[k]
        BY <3>1, <1>1, <1>4, <2>1
      <4> QED BY <4>1, <3>1, <1>6, <1>7 DEF LifetimesIInv
    <3>2. CASE k \notin DOMAIN written /\ k = <<m, "struct">>
      <4>1. k[2] = "struct"
        BY <3>2
      <4>2. d = StructOf(m)
        BY <3>2, <4>1, <1>1, <1>4, <2>1
      <4> QED BY <4>2, <3>2, <1>1, <1>6, <1>7, StructRight
    <3>3. CASE k \notin DOMAIN written /\ k = <<m, "oneof">>
      <4>1. k[2] # "struct"
        BY <3>3
      <4>2. d = OneOfOf(m)
        BY <3>3, <4>1, <1>1, <1>4, <2>1
      <4> QED BY <4>2, <3>3, <1>1, <1>6, <1>7, OneOfRight
    <3> QED BY <3>1, <3>2, <3>3, <1>3, <1>4, <1>7
  <2>3. Right(k, d)'
    BY <2>2, <1>1, RightStays
  <2> QED BY <2>1, <2>3 DEF Right, Mentions
<1> QED BY <1>2, <1>5, <1>7 DEF LifetimesIInv

LEMMA LifetimesStepInv ==
  ASSUME LifetimesAssumption, LifetimesIInv, [TypesNext]_typesVars
  PROVE  LifetimesIInv'
<1>1. ASSUME NEW f \in Files, Read(f)
      PROVE  LifetimesIInv'
  <2>1. DescOK'
    BY <1>1 DEF Read, DescOK, Sighted
  <2> QED BY <1>1, <2>1, WrittenStays DEF Read
<1>2. CASE ConvertFieldTypes
  <2>1. /\ step = "convert" /\ step' = "defaults" /\ run \in Files
        /\ desc = [m \in Sighted(run) |-> protos.fields[m]]
        /\ UNCHANGED <<protos, run, ran, written>>
    BY <1>2 DEF ConvertFieldTypes, LifetimesIInv, DescOK
  <2>2. desc' = [m \in Sighted(run) |-> {Cows(f) : f \in protos.fields[m]}]
    <3>1. CASE protos.dont_use_cow
      <4>1. desc' = [m \in DOMAIN desc |->
                     { [f EXCEPT !.type = IF @ = "cow" THEN "owned" ELSE @] : f \in desc[m] }]
        BY <1>2, <3>1 DEF ConvertFieldTypes
      <4> QED BY <4>1, <2>1, <3>1 DEF Cows
    <3>2. CASE ~protos.dont_use_cow
      <4>1. desc' = desc
        BY <1>2, <3>2 DEF ConvertFieldTypes
      <4>2. \A m : {Cows(f) : f \in protos.fields[m]} = protos.fields[m]
        BY <3>2 DEF Cows
      <4> QED BY <4>1, <4>2, <2>1
    <3> QED BY <3>1, <3>2
  <2>3. DescOK'
    BY <2>1, <2>2 DEF DescOK, Cows, Sighted
  <2> QED BY <2>1, <2>3, WrittenStays
<1>3. CASE SetDefaults
  <2>1. /\ step = "defaults" /\ step' = "write" /\ run \in Files
        /\ desc = [m \in Sighted(run) |-> {Cows(f) : f \in protos.fields[m]}]
        /\ desc' = [m \in DOMAIN desc |->
                IF m \in Nested THEN desc[m]
                ELSE { Unpacked(AsPacked(f)) : f \in desc[m] }]
        /\ UNCHANGED <<protos, run, ran, written>>
    BY <1>3 DEF SetDefaults, LifetimesIInv, DescOK
  <2>2. \A m : (IF m \in Nested THEN {Cows(f) : f \in protos.fields[m]}
                ELSE { Unpacked(AsPacked(f)) : f \in {Cows(g) : g \in protos.fields[m]} })
               = {Final(m, f) : f \in protos.fields[m]}
    <3> TAKE m
    <3>1. CASE m \in Nested
      BY <3>1 DEF Final
    <3>2. CASE m \notin Nested
      BY <3>2 DEF Final
    <3> QED BY <3>1, <3>2
  <2>3. desc' = [m \in Sighted(run) |-> {Final(m, f) : f \in protos.fields[m]}]
    BY <2>1, <2>2
  <2>4. DescOK'
    BY <2>1, <2>3, ConversionStays DEF DescOK
  <2> QED BY <2>1, <2>4, WrittenStays
<1>4. ASSUME NEW m \in Messages, Write(m)
      PROVE  LifetimesIInv'
  BY <1>4, WriteInv
<1>5. CASE Finish
  <2>1. DescOK'
    BY <1>5 DEF Finish, DescOK
  <2> QED BY <1>5, <2>1, WrittenStays DEF Finish
<1>6. CASE UNCHANGED typesVars
  <2>1. UNCHANGED <<protos, run, ran, step, desc, written>>
    BY <1>6 DEF typesVars
  <2>2. DescOK'
    <3>1. [m \in Sighted(run) |-> protos.fields[m]]' = [m \in Sighted(run) |-> protos.fields[m]]
      BY <2>1 DEF Sighted
    <3>2. Sighted(run') = Sighted(run)
      BY <2>1 DEF Sighted
    <3> QED BY <2>1, <3>1, <3>2, ConversionStays DEF LifetimesIInv, DescOK
  <2> QED BY <2>1, <2>2, WrittenStays
<1> QED BY <1>1, <1>2, <1>3, <1>4, <1>5, <1>6 DEF TypesNext

\* The inductive invariant: a run has converted the schema's fields as far as
\* it has got, and every definition in the generated files is right.
THEOREM LifetimesInvariant == TypesSpec => []LifetimesIInv
<1> USE LifetimesAssumption
<1>1. TypesInit => LifetimesIInv
  BY LifetimesInitInv
<1>2. LifetimesIInv /\ [TypesNext]_typesVars => LifetimesIInv'
  BY LifetimesStepInv
<1> QED BY <1>1, <1>2, PTL DEF TypesSpec

----------------------------------------------------------------------------
(* What rustc asks of the generated types. *)

\* A definition declares 'a exactly when its text mentions it (has_lifetime),
\* unless dont_use_cow meets a repeated fixed field (Regular).
THEOREM LifetimesAreDeclared == TypesSpec => []DeclaredAsMentioned
<1> USE LifetimesAssumption
<1>1. LifetimesIInv => DeclaredAsMentioned
  <2> SUFFICES ASSUME LifetimesIInv, Regular, NEW k \in DOMAIN written
               PROVE  written[k].declares = Mentions(written[k])
    BY DEF DeclaredAsMentioned
  <2>1. PICK d : d = written[k]
    OBVIOUS
  <2>2. d.declares \in BOOLEAN /\ (d.declares <=> Mentions(d))
    BY <2>1 DEF LifetimesIInv, Right
  <2>3. Mentions(d) \in BOOLEAN
    BY DEF Mentions
  <2> QED BY <2>1, <2>2, <2>3
<1> QED BY <1>1, LifetimesInvariant, PTL

LEMMA OneSyntaxTells ==
  ASSUME OneSyntax, NEW r \in Files, NEW s \in Files, NEW k
  PROVE  Tells(k, r) <=> Tells(k, s)
<1>1. protos.syntax[r] = protos.syntax[s]
  BY DEF OneSyntax
<1>2. \A m, f : Loan(m, f, r) <=> Loan(m, f, s)
  BY <1>1 DEF Loan
<1>3. \A m : Answer(m, r) <=> Answer(m, s)
  BY <1>2 DEF Answer, LoanIn
<1> QED BY <1>2, <1>3 DEF Tells, OneOfAnswer

\* If all files are of one syntax, and dont_use_cow does not meet a repeated
\* fixed field: a type is used as it is declared, in its own file and in those
\* that import it, whichever is generated first (rust_type, write_definition).
THEOREM LifetimesAgree == TypesSpec => []UsedAsDeclared
<1> USE LifetimesAssumption
<1>1. LifetimesIInv => UsedAsDeclared
  <2> SUFFICES ASSUME LifetimesIInv, Regular, OneSyntax,
                      NEW k \in DOMAIN written, NEW u \in written[k].uses, u.type \in DOMAIN written
               PROVE  u.lifetime = written[u.type].declares
    BY DEF UsedAsDeclared
  <2>1. /\ u.type \in Keys /\ u.lifetime \in BOOLEAN
        /\ u.lifetime <=> Tells(u.type, FileOf[k[1]])
    BY DEF LifetimesIInv, Right
  <2>2. /\ written[u.type].declares \in BOOLEAN
        /\ written[u.type].declares <=> Tells(u.type, FileOf[u.type[1]])
    BY DEF LifetimesIInv, Right
  <2>3. k[1] \in Messages /\ u.type[1] \in Messages
    BY <2>1 DEF LifetimesIInv, Keys
  <2>4. FileOf[k[1]] \in Files /\ FileOf[u.type[1]] \in Files
    BY <2>3 DEF LifetimesAssumption
  <2>5. Tells(u.type, FileOf[k[1]]) <=> Tells(u.type, FileOf[u.type[1]])
    BY <2>4, OneSyntaxTells
  <2> QED BY <2>1, <2>2, <2>5
<1> QED BY <1>1, LifetimesInvariant, PTL

\* Without dont_use_cow, if all files are of one syntax: a struct has a lifetime
\* parameter exactly when it, or a message that its fields lead to, has a field
\* that borrows.  Which repeated fixed fields do is as the code has it: in
\* proto3 by default those of messages at the top, not of nested ones.
THEOREM LifetimesMeanBorrowed == TypesSpec => []LifetimeMeansBorrowed
<1> USE LifetimesAssumption
<1>1. LifetimesIInv => LifetimeMeansBorrowed
  <2> SUFFICES ASSUME LifetimesIInv, ~protos.dont_use_cow, OneSyntax,
                      NEW m \in Messages, <<m, "struct">> \in DOMAIN written
               PROVE  written[<<m, "struct">>].declares
                        <=> \E n \in Messages : Reaches(m, n) /\ BorrowedInSchema(n)
    BY DEF LifetimeMeansBorrowed
  <2>1. Regular
    BY DEF Regular
  <2>2. <<m, "struct">>[1] = m /\ <<m, "struct">>[2] = "struct"
    OBVIOUS
  <2>3. written[<<m, "struct">>].declares <=> Answer(m, FileOf[m])
    BY <2>1, <2>2 DEF LifetimesIInv, Right, Tells
  <2>4. ASSUME NEW n \in Messages
        PROVE  LoanIn(n, FileOf[m]) <=> BorrowedInSchema(n)
    <3>1. FileOf[m] \in Files /\ FileOf[n] \in Files
      BY DEF LifetimesAssumption
    <3>2. protos.syntax[FileOf[m]] = protos.syntax[FileOf[n]]
      BY <3>1 DEF OneSyntax
    <3> QED BY <3>2 DEF LoanIn, Loan, BorrowedInSchema
  <2> QED BY <2>3, <2>4 DEF Answer
<1> QED BY <1>1, LifetimesInvariant, PTL

----------------------------------------------------------------------------
(* Messages: what of a struct is on the wire, and what has been kept of    *)
(* the wire, while it is written and read.                                 *)

\* `items`, by place, are what writing x, the value of field f, leaves.
Delivered(s, f, items, x) ==
  CASE f.label = "Map" ->
         /\ DOMAIN x = {items[p].data[1] : p \in DOMAIN items}
         /\ \A p \in DOMAIN items : x[items[p].data[1]] = items[p].data[2]
    [] f.label = "Repeated" /\ Packed(s, f) ->
         IF x = <<>> THEN DOMAIN items = {}
         ELSE \E p \in DOMAIN items : DOMAIN items = {p} /\ items[p].data = x
    [] f.label = "Repeated" /\ ~Packed(s, f) ->
         \E b \in Nat : /\ DOMAIN items = b + 1 .. b + Len(x)
                        /\ \A k \in 1 .. Len(x) : items[b + k].data = <<x[k]>>
    [] OTHER ->
         IF Written(s, f, x) THEN \E p \in DOMAIN items : DOMAIN items = {p} /\ items[p].data = <<x>>
         ELSE DOMAIN items = {}

DeliveredOneOf(s, o, items, x) ==
  IF x = None THEN DOMAIN items = {}
  ELSE \E p \in DOMAIN items :
         DOMAIN items = {p} /\ items[p].data = <<x.value>> /\ items[p].tag = Tag(s, o[x.at])

FieldsTypeOK ==
  /\ schema \in Schemas
  /\ slot \in 0 .. Slots(schema)
  /\ pos \in 0 .. Len(wire)
  /\ slot < Slots(schema) => pos = 0
  /\ wire \in Seq(WireItem)
  /\ \A p \in DOMAIN wire : IsReadable(schema, wire[p])
  /\ IsStruct(schema, msg)

\* What m has of the first n items.
AsRead(s, w, n, m) ==
  /\ \A i \in VisibleFields(s) :
       Kept(s, s.fields[i], Having(w, n, FieldTags(s, i)), StructDefault(s).fields[i], m.fields[i])
  /\ \A o \in DOMAIN s.oneofs :
       KeptOneOf(s, s.oneofs[o], Having(w, n, OneOfTags(s, o)), m.oneofs[o])

\* What is on the wire of m after n of its fields and oneofs.
OnWire(s, w, n, m) ==
  /\ \A i \in VisibleFields(s) :
       IF i <= n THEN Delivered(s, s.fields[i], Having(w, Len(w), FieldTags(s, i)), m.fields[i])
       ELSE DOMAIN Having(w, Len(w), FieldTags(s, i)) = {}
  /\ \A o \in DOMAIN s.oneofs :
       IF Len(s.fields) + o <= n
       THEN DeliveredOneOf(s, s.oneofs[o], Having(w, Len(w), OneOfTags(s, o)), m.oneofs[o])
       ELSE DOMAIN Having(w, Len(w), OneOfTags(s, o)) = {}

FieldsIInv ==
  /\ FieldsTypeOK
  /\ AsRead(schema, wire, pos, msg)
  /\ sent # None \/ slot < Slots(schema) => IsStruct(schema, sent) /\ OnWire(schema, wire, slot, sent)

----------------------------------------------------------------------------
(* Facts about declarations.                                               *)

\* What is read of a type is a value of the type, and rereads as itself.
LEMMA Values ==
  ASSUME FieldsAssumption, NEW f \in FieldTypes
  PROVE  /\ ValuesOfType(f) \subseteq Value
         /\ None \notin ValuesOfType(f)
         /\ TypeDefault(f) \in ValuesOfType(f)
         /\ \A x \in Value : ReadFn(f, x) \in ValuesOfType(f)
         /\ \A x \in ValuesOfType(f) : ReadFn(f, x) = x
<1>1. 0 \in Value /\ None \notin Value
  BY DEF FieldsAssumption
<1>2. CASE IsEnum(f)
  <2> DEFINE v == Variants[f.type]
  <2>1. v \in Seq(Value) /\ v # <<>>
    BY <1>2 DEF FieldsAssumption, IsEnum
  <2>2. 1 \in DOMAIN v
    BY <2>1
  <2>3. ValuesOfType(f) = {v[x] : x \in DOMAIN v}
    BY <1>2 DEF ValuesOfType, Range
  <2>4. v[1] \in ValuesOfType(f)
    BY <2>2, <2>3
  <2>5. ValuesOfType(f) \subseteq Value
    BY <2>1, <2>3
  <2>6. TypeDefault(f) = v[1]
    BY <1>2 DEF TypeDefault
  <2>7. \A x : ReadFn(f, x) = IF x \in ValuesOfType(f) THEN x ELSE v[1]
    BY <1>2 DEF ReadFn, FromI32, ValuesOfType
  <2> HIDE DEF v
  <2> QED BY <2>4, <2>5, <2>6, <2>7, <1>1
<1>3. CASE ~IsEnum(f)
  BY <1>1, <1>3 DEF ValuesOfType, TypeDefault, ReadFn
<1> QED BY <1>2, <1>3

LEMMA FieldFacts ==
  ASSUME FieldsAssumption, NEW s \in Schemas, NEW i \in VisibleFields(s)
  PROVE  /\ i \in DOMAIN s.fields /\ i \in 1 .. Len(s.fields) /\ Len(s.fields) \in Nat
         /\ s.fields[i] \in FieldTypes
         /\ Declared(s, s.fields[i])
         /\ IsVisible(s, s.fields[i])
<1>1. DeclaredSchema(s)
  BY DEF FieldsAssumption
<1>2. i \in DOMAIN s.fields /\ IsVisible(s, s.fields[i])
  BY DEF VisibleFields
<1>3. s.fields \in Seq(FieldTypes)
  BY <1>1 DEF DeclaredSchema
<1> QED BY <1>1, <1>2, <1>3 DEF DeclaredSchema

LEMMA VariantFacts ==
  ASSUME FieldsAssumption, NEW s \in Schemas, NEW o \in DOMAIN s.oneofs,
         NEW k \in VisibleVariants(s, s.oneofs[o])
  PROVE  /\ o \in 1 .. Len(s.oneofs) /\ Len(s.oneofs) \in Nat
         /\ k \in DOMAIN s.oneofs[o]
         /\ s.oneofs[o][k] \in FieldTypes
         /\ Declared(s, s.oneofs[o][k])
         /\ s.oneofs[o][k].label \notin {"Repeated", "Map"}
<1>1. DeclaredSchema(s)
  BY DEF FieldsAssumption
<1>2. k \in DOMAIN s.oneofs[o]
  BY DEF VisibleVariants
<1>3. s.oneofs \in Seq(Seq(FieldTypes))
  BY <1>1 DEF DeclaredSchema
<1>4. s.oneofs[o] \in Seq(FieldTypes)
  BY <1>3
<1> QED BY <1>1, <1>2, <1>3, <1>4 DEF DeclaredSchema

LEMMA TagType ==
  ASSUME NEW s, NEW f \in FieldTypes
  PROVE  /\ Tag(s, f) \in [number : Nat, wire : {"varint", "fixed", "len"}]
         /\ Tag(s, f).number = f.number
<1>1. f.number \in Nat
  BY DEF FieldTypes
<1>2. NativeWire(f) \in {"varint", "fixed", "len"}
  BY DEF NativeWire
<1> QED BY <1>1, <1>2 DEF Tag

\* No tag is that of two fields.
LEMMA TagsApart ==
  ASSUME FieldsAssumption, NEW s \in Schemas
  PROVE  /\ \A i, j \in VisibleFields(s) : FieldTags(s, i) \cap FieldTags(s, j) # {} => i = j
         /\ \A i \in VisibleFields(s), o \in DOMAIN s.oneofs : FieldTags(s, i) \cap OneOfTags(s, o) = {}
         /\ \A o, p \in DOMAIN s.oneofs : OneOfTags(s, o) \cap OneOfTags(s, p) # {} => o = p
         /\ \A o \in DOMAIN s.oneofs : \A k, l \in VisibleVariants(s, s.oneofs[o]) :
              Tag(s, s.oneofs[o][k]) = Tag(s, s.oneofs[o][l]) => k = l
<1>1. DeclaredSchema(s)
  BY DEF FieldsAssumption
<1>2. ASSUME NEW i \in VisibleFields(s), NEW j \in VisibleFields(s),
             Tag(s, s.fields[i]) = Tag(s, s.fields[j])
      PROVE  i = j
  <2>1. s.fields[i].number = s.fields[j].number
    BY <1>2, FieldFacts, TagType
  <2> QED BY <2>1, <1>1, FieldFacts DEF DeclaredSchema
<1>3. ASSUME NEW i \in VisibleFields(s), NEW o \in DOMAIN s.oneofs,
             NEW k \in VisibleVariants(s, s.oneofs[o])
      PROVE  Tag(s, s.fields[i]) # Tag(s, s.oneofs[o][k])
  <2>1. Tag(s, s.fields[i]).number = s.fields[i].number
    BY FieldFacts, TagType
  <2>2. Tag(s, s.oneofs[o][k]).number = s.oneofs[o][k].number
    BY VariantFacts, TagType
  <2>3. s.oneofs[o][k].number # s.fields[i].number
    BY <1>1, FieldFacts, VariantFacts DEF DeclaredSchema
  <2> QED BY <2>1, <2>2, <2>3
<1>4. ASSUME NEW o \in DOMAIN s.oneofs, NEW k \in VisibleVariants(s, s.oneofs[o]),
             NEW p \in DOMAIN s.oneofs, NEW l \in VisibleVariants(s, s.oneofs[p]),
             Tag(s, s.oneofs[o][k]) = Tag(s, s.oneofs[p][l])
      PROVE  o = p /\ k = l
  <2>1. Tag(s, s.oneofs[o][k]).number = s.oneofs[o][k].number
    BY VariantFacts, TagType
  <2>2. Tag(s, s.oneofs[p][l]).number = s.oneofs[p][l].number
    BY VariantFacts, TagType
  <2>3. k \in DOMAIN s.oneofs[o] /\ l \in DOMAIN s.oneofs[p]
    BY VariantFacts
  <2> QED BY <2>1, <2>2, <2>3, <1>1, <1>4 DEF DeclaredSchema
<1> QED BY <1>2, <1>3, <1>4 DEF FieldTags, OneOfTags

\* Default, derived or generated, gives a struct of the message.
LEMMA DefaultIsStruct ==
  ASSUME FieldsAssumption, NEW s \in Schemas
  PROVE  IsStruct(s, StructDefault(s))
<1> DEFINE V == VisibleFields(s)
           custom == \E i \in DOMAIN s.fields : MustGenerateImplDefault(s, s.fields[i])
           own == [i \in V |-> IF custom THEN FieldDefault(s.fields[i]) ELSE DerivedDefault(s.fields[i])]
           none == [o \in DOMAIN s.oneofs |-> None]
<1>1. StructDefault(s) = [fields |-> own, oneofs |-> none]
  BY Zenon DEF StructDefault
<1>2. ASSUME NEW i \in V
      PROVE  own[i] \in HeldBy(s.fields[i])
  <2> DEFINE f == s.fields[i]
  <2>1. f \in FieldTypes /\ Declared(s, f)
    BY FieldFacts
  <2>2. TypeDefault(f) \in ValuesOfType(f)
    BY <2>1, Values
  <2>3. f.default # NoDefault => f.default \in ValuesOfType(f)
    BY <2>1 DEF Declared
  <2>4. own[i] = FieldDefault(f) \/ own[i] = DerivedDefault(f)
    OBVIOUS
  <2>5. <<>> \in Seq(ValuesOfType(f)) /\ <<>> \in [{} -> Value] /\ IsFiniteSet({})
    BY FS_EmptySet
  <2> HIDE DEF f, own
  <2>6. CASE f.label = "Map"
    <3>1. own[i] = <<>>
      BY <2>4, <2>6 DEF FieldDefault, DerivedDefault, GeneratedType, IsOptional
    <3>2. <<>> \in UNION {[keys -> Value] : keys \in {k \in SUBSET Value : IsFiniteSet(k)}}
      BY <2>5
    <3> QED BY <3>1, <3>2, <2>6 DEF HeldBy, f
  <2>7. CASE f.label = "Repeated"
    <3>1. own[i] = <<>>
      BY <2>4, <2>7 DEF FieldDefault, DerivedDefault, GeneratedType, IsOptional
    <3> QED BY <3>1, <2>5, <2>7 DEF HeldBy, f
  <2>8. CASE f.label \notin {"Map", "Repeated"}
    <3>1. own[i] \in (IF IsOptional(f) THEN {None} ELSE {}) \cup ValuesOfType(f)
      BY <2>2, <2>3, <2>4, <2>8 DEF FieldDefault, DerivedDefault, GeneratedType
    <3> QED BY <3>1, <2>8 DEF HeldBy, f
  <2> QED BY <2>6, <2>7, <2>8
<1>3. ASSUME NEW o \in DOMAIN s.oneofs
      PROVE  none[o] \in HeldByOneOf(s, s.oneofs[o])
  BY DEF HeldByOneOf
<1> HIDE DEF own, none
<1>4. StructDefault(s).fields = own /\ StructDefault(s).oneofs = none
  BY <1>1
<1>5. own = [i \in V |-> own[i]] /\ none = [o \in DOMAIN s.oneofs |-> none[o]]
  BY DEF own, none
<1> QED BY <1>1, <1>2, <1>3, <1>4, <1>5 DEF IsStruct

----------------------------------------------------------------------------
(* The items with given tags, as more are read or written.                 *)

LEMMA HavingFacts ==
  ASSUME NEW w \in Seq(WireItem), NEW n \in 0 .. Len(w), NEW tags
  PROVE  /\ DOMAIN Having(w, n, tags) \subseteq 1 .. n
         /\ DOMAIN Having(w, n, tags) = {q \in 1 .. n : w[q].tag \in tags}
         /\ \A p \in DOMAIN Having(w, n, tags) :
              p \in DOMAIN w /\ Having(w, n, tags)[p] = w[p] /\ w[p] \in WireItem /\ w[p].tag \in tags
BY DEF Having

LEMMA HavingNone ==
  ASSUME NEW w, NEW v, NEW tags
  PROVE  Having(w, 0, tags) = Having(v, 0, tags) /\ DOMAIN Having(w, 0, tags) = {}
<1>1. 1 .. 0 = {}
  OBVIOUS
<1> QED BY <1>1 DEF Having

LEMMA HavingOther ==
  ASSUME NEW w \in Seq(WireItem), NEW n \in 0 .. Len(w), n < Len(w), NEW tags, w[n + 1].tag \notin tags
  PROVE  Having(w, n + 1, tags) = Having(w, n, tags)
<1>1. {q \in 1 .. n + 1 : w[q].tag \in tags} = {q \in 1 .. n : w[q].tag \in tags}
  OBVIOUS
<1> QED BY <1>1, Zenon DEF Having

LEMMA HavingNext ==
  ASSUME NEW w \in Seq(WireItem), NEW n \in 0 .. Len(w), n < Len(w), NEW tags, w[n + 1].tag \in tags
  PROVE  /\ DOMAIN Having(w, n + 1, tags) = DOMAIN Having(w, n, tags) \cup {n + 1}
         /\ Having(w, n + 1, tags)[n + 1] = w[n + 1]
         /\ \A p \in DOMAIN Having(w, n, tags) : Having(w, n + 1, tags)[p] = Having(w, n, tags)[p]
BY DEF Having

LEMMA HavingUnlike ==
  ASSUME NEW w \in Seq(WireItem), NEW v \in Seq(WireItem), NEW tags,
         \A k \in DOMAIN v : v[k].tag \notin tags
  PROVE  Having(w \o v, Len(w \o v), tags) = Having(w, Len(w), tags)
<1>1. Len(w \o v) = Len(w) + Len(v) /\ Len(w) \in Nat /\ Len(v) \in Nat
  OBVIOUS
<1>2. \A q \in 1 .. Len(w) : (w \o v)[q] = w[q]
  OBVIOUS
<1>3. ASSUME NEW q \in 1 .. Len(w) + Len(v), q \notin 1 .. Len(w)
      PROVE  (w \o v)[q].tag \notin tags
  <2>1. q - Len(w) \in DOMAIN v /\ (w \o v)[q] = v[q - Len(w)]
    BY <1>1, <1>3
  <2> QED BY <2>1
<1>4. {q \in 1 .. Len(w \o v) : (w \o v)[q].tag \in tags} = {q \in 1 .. Len(w) : w[q].tag \in tags}
  BY <1>1, <1>2, <1>3
<1>5. \A q \in {q \in 1 .. Len(w) : w[q].tag \in tags} : (w \o v)[q] = w[q]
  BY <1>2
<1> QED BY <1>4, <1>5, Zenon DEF Having

LEMMA HavingLike ==
  ASSUME NEW w \in Seq(WireItem), NEW v \in Seq(WireItem), NEW tags,
         DOMAIN Having(w, Len(w), tags) = {}, \A k \in DOMAIN v : v[k].tag \in tags
  PROVE  /\ DOMAIN Having(w \o v, Len(w \o v), tags) = Len(w) + 1 .. Len(w) + Len(v)
         /\ \A k \in 1 .. Len(v) : Having(w \o v, Len(w \o v), tags)[Len(w) + k] = v[k]
<1>1. Len(w \o v) = Len(w) + Len(v) /\ Len(w) \in Nat /\ Len(v) \in Nat
  OBVIOUS
<1>2. \A q \in 1 .. Len(w) : (w \o v)[q] = w[q] /\ w[q].tag \notin tags
  BY DEF Having
<1>3. \A q \in Len(w) + 1 .. Len(w) + Len(v) : (w \o v)[q] = v[q - Len(w)] /\ q - Len(w) \in DOMAIN v
  BY <1>1
<1>4. \A q \in Len(w) + 1 .. Len(w) + Len(v) : (w \o v)[q].tag \in tags
  BY <1>3
<1>5. {q \in 1 .. Len(w \o v) : (w \o v)[q].tag \in tags} = Len(w) + 1 .. Len(w) + Len(v)
  BY <1>1, <1>2, <1>4
<1>6. DOMAIN Having(w \o v, Len(w \o v), tags) = Len(w) + 1 .. Len(w) + Len(v)
  BY <1>5, Zenon DEF Having
<1>7. ASSUME NEW k \in 1 .. Len(v)
      PROVE  Having(w \o v, Len(w \o v), tags)[Len(w) + k] = v[k]
  <2>1. Len(w) + k \in Len(w) + 1 .. Len(w) + Len(v) /\ (Len(w) + k) - Len(w) = k
    BY <1>1
  <2>2. Having(w \o v, Len(w \o v), tags)[Len(w) + k] = (w \o v)[Len(w) + k]
    BY <2>1, <1>5, Zenon DEF Having
  <2> QED BY <2>1, <2>2, <1>3
<1> QED BY <1>6, <1>7

----------------------------------------------------------------------------
(* What is kept of a field: nothing, or one more item.                     *)

LEMMA MaxIs ==
  ASSUME NEW S \in SUBSET Nat, NEW n \in S, \A x \in S : x <= n
  PROVE  Max(S) = n
<1>1. \A m \in S : (\A x \in S : m >= x) => m = n
  OBVIOUS
<1>2. \A x \in S : n >= x
  OBVIOUS
<1>3. PICK m : m = Max(S)
  OBVIOUS
<1>4. m \in S /\ \A x \in S : m >= x
  BY <1>2, <1>3, Zenon DEF Max
<1> QED BY <1>1, <1>3, <1>4

LEMMA KeptNone ==
  ASSUME NEW s, NEW f \in FieldTypes, NEW items, DOMAIN items = {}, NEW d,
         f.label \in {"Map", "Repeated"} => d = <<>>
  PROVE  Kept(s, f, items, d, d)
<1>1. CASE f.label = "Map"
  <2>1. DOMAIN d = {}
    BY <1>1
  <2>2. {items[p].data[1] : p \in DOMAIN items} = {}
    OBVIOUS
  <2> QED BY <1>1, <2>1, <2>2 DEF Kept
<1>2. CASE f.label = "Repeated"
  <2>1. Len(d) = 0 /\ Cardinality(DOMAIN items) = 0
    BY <1>2, FS_EmptySet
  <2> QED BY <1>2, <2>1 DEF Kept
<1>3. CASE f.label \notin {"Map", "Repeated"}
  BY <1>3 DEF Kept
<1> QED BY <1>1, <1>2, <1>3

\* Storing one more item is keeping one more item.
LEMMA KeptMore ==
  ASSUME FieldsAssumption, NEW s, NEW f \in FieldTypes, NEW n \in Nat, NEW items, NEW more,
         DOMAIN items \subseteq 1 .. n, DOMAIN more = DOMAIN items \cup {n + 1},
         \A p \in DOMAIN items : more[p] = items[p],
         more[n + 1] \in WireItem,
         ~Packed(s, f) => Len(more[n + 1].data) = IF f.label = "Map" THEN 2 ELSE 1,
         f.packed = "true" => f.label = "Repeated",
         NEW d, NEW x \in HeldBy(f), Kept(s, f, items, d, x)
  PROVE  /\ Kept(s, f, more, d, Stored(s, f, x, more[n + 1].data))
         /\ Stored(s, f, x, more[n + 1].data) \in HeldBy(f)
<1> DEFINE data == more[n + 1].data
           y == Stored(s, f, x, data)
<1>1. data \in Seq(Value)
  BY DEF WireItem
<1>2. \A v \in Value : ReadFn(f, v) \in ValuesOfType(f)
  BY Values
<1>3. n + 1 \notin DOMAIN items /\ \A p \in DOMAIN items : p \in Nat /\ p < n + 1
  OBVIOUS
<1>4. Max(DOMAIN more) = n + 1
  <2>1. DOMAIN more \in SUBSET Nat
    BY <1>3
  <2>2. \A p \in DOMAIN more : p <= n + 1
    BY <1>3
  <2> QED BY <2>1, <2>2, MaxIs
<1>5. f.label = "Repeated" => (Packed(s, f) \/ Len(data) = 1)
  OBVIOUS
<1>6. CASE f.label = "Map"
  <2>1. ~Packed(s, f)
    BY <1>6 DEF Packed
  <2>2. Len(data) = 2
    BY <2>1, <1>6
  <2>3. data[1] \in Value /\ data[2] \in Value
    BY <1>1, <2>2
  <2>4. y = [k \in DOMAIN x \cup {data[1]} |-> IF k = data[1] THEN data[2] ELSE x[k]]
    BY <1>6 DEF Stored, GeneratedType
  <2>5. PICK keys : keys \in SUBSET Value /\ IsFiniteSet(keys) /\ x \in [keys -> Value]
    BY <1>6 DEF HeldBy
  <2>6. y = [k \in keys \cup {data[1]} |-> IF k = data[1] THEN data[2] ELSE x[k]]
    BY <2>4, <2>5
  <2>7. y \in [keys \cup {data[1]} -> Value]
    BY <2>3, <2>5, <2>6
  <2>8. IsFiniteSet(keys \cup {data[1]}) /\ keys \cup {data[1]} \in SUBSET Value
    <3>1. PICK key \in Value : key = data[1]
      BY <2>3
    <3>2. IsFiniteSet(keys \cup {key})
      BY <2>5, FS_AddElement
    <3> QED BY <3>1, <3>2, <2>5
  <2>9. y \in HeldBy(f)
    BY <2>7, <2>8, <1>6 DEF HeldBy
  <2>10. /\ DOMAIN x = {items[p].data[1] : p \in DOMAIN items}
         /\ \A p \in DOMAIN items :
              (\A q \in DOMAIN items : q > p => items[q].data[1] # items[p].data[1])
                => x[items[p].data[1]] = items[p].data[2]
    BY <1>6 DEF Kept
  <2> HIDE DEF y, data
  <2>11. more[n + 1].data = data
    BY DEF data
  <2>12. DOMAIN y = {more[p].data[1] : p \in DOMAIN more}
    <3>1. DOMAIN y = {data[1]} \cup {items[p].data[1] : p \in DOMAIN items}
      BY <2>5, <2>6, <2>10
    <3> QED BY <3>1, <2>11
  <2>13. ASSUME NEW p \in DOMAIN more,
                \A q \in DOMAIN more : q > p => more[q].data[1] # more[p].data[1]
         PROVE  y[more[p].data[1]] = more[p].data[2]
    <3>1. CASE p = n + 1
      BY <3>1, <2>6, <2>11
    <3>2. CASE p \in DOMAIN items
      <4>1. more[p] = items[p] /\ n + 1 > p
        BY <3>2, <1>3
      <4>2. data[1] # items[p].data[1]
        BY <4>1, <2>11, <2>13
      <4>3. \A q \in DOMAIN items : q > p => items[q].data[1] # items[p].data[1]
        BY <4>1, <2>13
      <4>4. x[items[p].data[1]] = items[p].data[2]
        BY <3>2, <4>3, <2>10
      <4>5. items[p].data[1] \in keys
        BY <3>2, <2>10, <2>5
      <4> QED BY <4>1, <4>2, <4>4, <4>5, <2>6
    <3> QED BY <3>1, <3>2
  <2>14. Kept(s, f, more, d, y)
    BY <2>12, <2>13, <1>6 DEF Kept
  <2> QED BY <2>9, <2>14 DEF y, data
<1>7. CASE f.label = "Repeated" /\ Packed(s, f)
  <2>1. y = [k \in DOMAIN data |-> ReadFn(f, data[k])]
    BY <1>7 DEF Stored, GeneratedType, StoredRepeated
  <2>2. y \in Seq(ValuesOfType(f))
    <3>1. DOMAIN data = 1 .. Len(data) /\ Len(data) \in Nat
      BY <1>1
    <3>2. y \in [1 .. Len(data) -> ValuesOfType(f)]
      BY <2>1, <3>1, <1>1, <1>2
    <3> HIDE DEF y, data
    <3> QED BY <3>1, <3>2
  <2>3. DOMAIN more # {} /\ data = more[Max(DOMAIN more)].data
    BY <1>4
  <2>4. Kept(s, f, more, d, y)
    BY <1>7, <2>1, <2>3 DEF Kept
  <2> QED BY <2>2, <2>4, <1>7 DEF HeldBy
<1>8. CASE f.label = "Repeated" /\ ~Packed(s, f)
  <2> DEFINE read == [k \in DOMAIN data |-> ReadFn(f, data[k])]
  <2>1. y = x \o read
    BY <1>8 DEF Stored, GeneratedType, StoredRepeated
  <2>2. Len(data) = 1
    BY <1>8
  <2>3. DOMAIN data = 1 .. 1 /\ data[1] \in Value
    BY <2>2, <1>1
  <2>4. read = << ReadFn(f, data[1]) >>
    BY <2>3
  <2>5. x \in Seq(ValuesOfType(f))
    BY <1>8 DEF HeldBy
  <2>6. ReadFn(f, data[1]) \in ValuesOfType(f)
    BY <1>2, <2>3
  <2> HIDE DEF read
  <2>7. y = Append(x, ReadFn(f, data[1]))
    BY <2>1, <2>4, <2>5, <2>6
  <2>8. /\ Len(x) = Cardinality(DOMAIN items)
        /\ \A p \in DOMAIN items :
             x[Cardinality({q \in DOMAIN items : q <= p})] = ReadFn(f, items[p].data[1])
    BY <1>8 DEF Kept
  <2> HIDE DEF y, data
  <2>9. more[n + 1].data = data
    BY DEF data
  <2>10. y \in Seq(ValuesOfType(f)) /\ Len(y) = Len(x) + 1 /\ Len(x) \in Nat
         /\ (\A k \in 1 .. Len(x) : y[k] = x[k]) /\ y[Len(x) + 1] = ReadFn(f, data[1])
    BY <2>5, <2>6, <2>7
  <2>11. IsFiniteSet(DOMAIN items)
    <3>1. IsFiniteSet(1 .. n)
      BY FS_Interval
    <3> QED BY <3>1, FS_Subset
  <2>12. Cardinality(DOMAIN more) = Len(x) + 1
    BY <2>11, <2>8, <1>3, FS_AddElement
  <2>13. ASSUME NEW p \in DOMAIN more
         PROVE  y[Cardinality({q \in DOMAIN more : q <= p})] = ReadFn(f, more[p].data[1])
    <3>1. CASE p = n + 1
      <4>1. {q \in DOMAIN more : q <= p} = DOMAIN more
        BY <3>1, <1>3
      <4> QED BY <4>1, <2>12, <2>10, <2>9, <3>1
    <3>2. CASE p \in DOMAIN items
      <4> DEFINE upto == {q \in DOMAIN items : q <= p}
      <4>1. {q \in DOMAIN more : q <= p} = upto
        BY <3>2, <1>3
      <4>2. IsFiniteSet(upto) /\ Cardinality(upto) <= Len(x)
        BY <2>11, <2>8, FS_Subset
      <4>3. Cardinality(upto) \in Nat /\ Cardinality(upto) # 0
        <5>1. p \in upto
          BY <3>2, <1>3
        <5> QED BY <5>1, <4>2, FS_EmptySet, FS_CardinalityType
      <4>4. Cardinality(upto) \in 1 .. Len(x)
        BY <4>2, <4>3, <2>10
      <4>5. x[Cardinality(upto)] = ReadFn(f, items[p].data[1])
        BY <2>8, <3>2
      <4> HIDE DEF upto
      <4> QED BY <4>1, <4>4, <4>5, <2>10, <3>2
    <3> QED BY <3>1, <3>2
  <2>14. Len(y) = Cardinality(DOMAIN more)
    BY <2>10, <2>12
  <2>15. Kept(s, f, more, d, y)
    BY <1>8, <2>13, <2>14 DEF Kept
  <2> QED BY <2>10, <2>15, <1>8 DEF HeldBy, y, data
<1>9. CASE f.label \notin {"Map", "Repeated"}
  <2>1. ~Packed(s, f)
    BY <1>9 DEF Packed
  <2>2. Len(data) = 1
    BY <2>1, <1>9
  <2>3. data[1] \in Value
    BY <2>2, <1>1
  <2>4. y = ReadFn(f, data[1])
    BY <1>9 DEF Stored, GeneratedType
  <2>5. y \in ValuesOfType(f)
    BY <2>3, <2>4, <1>2
  <2>6. DOMAIN more # {} /\ data = more[Max(DOMAIN more)].data
    BY <1>4
  <2>7. Kept(s, f, more, d, y)
    BY <1>9, <2>4, <2>6 DEF Kept
  <2> QED BY <2>5, <2>7, <1>9 DEF HeldBy
<1> QED BY <1>6, <1>7, <1>8, <1>9

----------------------------------------------------------------------------
(* A field of a struct on the wire.                                        *)

LEMMA ItemType ==
  ASSUME NEW s, NEW f \in FieldTypes, NEW data \in Seq(Value)
  PROVE  /\ Item(s, f, data) \in WireItem
         /\ Item(s, f, data).tag = Tag(s, f) /\ Item(s, f, data).data = data
BY TagType DEF Item, WireItem

\* What writing a field adds is that field and is readable.
LEMMA FieldIsDelivered ==
  ASSUME FieldsAssumption, NEW s, NEW f \in FieldTypes, f.packed = "true" => f.label = "Repeated",
         NEW x \in HeldBy(f), NEW w \in Seq(WireItem), NEW tags, Tag(s, f) \in tags,
         DOMAIN Having(w, Len(w), tags) = {}, NEW v \in WriteField(s, f, x)
  PROVE  /\ v \in Seq(WireItem)
         /\ \A k \in DOMAIN v :
              /\ v[k].tag = Tag(s, f)
              /\ ~Packed(s, f) => Len(v[k].data) = IF f.label = "Map" THEN 2 ELSE 1
         /\ Delivered(s, f, Having(w \o v, Len(w \o v), tags), x)
<1>1. ValuesOfType(f) \subseteq Value
  BY Values
<1>2. Len(w) \in Nat
  OBVIOUS
<1>3. PICK items : items = Having(w \o v, Len(w \o v), tags)
  OBVIOUS
<1>4. ASSUME NEW n \in Nat, NEW data \in [1 .. n -> Seq(Value)],
             v = [k \in 1 .. n |-> Item(s, f, data[k])]
      PROVE  /\ v \in Seq(WireItem)
             /\ DOMAIN v = 1 .. n
             /\ \A k \in 1 .. n : v[k].tag = Tag(s, f) /\ v[k].data = data[k]
             /\ DOMAIN items = Len(w) + 1 .. Len(w) + n
             /\ \A k \in 1 .. n : items[Len(w) + k].data = data[k]
  <2>1. ASSUME NEW k \in 1 .. n
        PROVE  v[k] \in WireItem /\ v[k].tag = Tag(s, f) /\ v[k].data = data[k]
    <3>1. PICK d \in Seq(Value) : d = data[k]
      OBVIOUS
    <3>2. v[k] = Item(s, f, d)
      BY <3>1, <1>4
    <3> QED BY <3>1, <3>2, ItemType
  <2>2. DOMAIN v = 1 .. n /\ v \in [1 .. n -> WireItem]
    BY <2>1, <1>4
  <2>3. v \in Seq(WireItem) /\ Len(v) = n
    BY <2>2
  <2>4. \A k \in DOMAIN v : v[k].tag \in tags
    BY <2>1, <2>2
  <2>5. /\ DOMAIN Having(w \o v, Len(w \o v), tags) = Len(w) + 1 .. Len(w) + Len(v)
        /\ \A k \in 1 .. Len(v) : Having(w \o v, Len(w \o v), tags)[Len(w) + k] = v[k]
    BY <2>3, <2>4, HavingLike
  <2> QED BY <1>3, <2>1, <2>2, <2>3, <2>5
\* Nothing is written, or one item.
<1>5. ASSUME v = << >>
      PROVE  v \in Seq(WireItem) /\ DOMAIN v = {} /\ DOMAIN items = {}
  <2>1. w \o v = w
    BY <1>5
  <2> QED BY <2>1, <1>3, <1>5
<1>6. ASSUME NEW d \in Seq(Value), v = << Item(s, f, d) >>
      PROVE  /\ v \in Seq(WireItem)
             /\ DOMAIN v = {1} /\ v[1].tag = Tag(s, f) /\ v[1].data = d
             /\ \E p \in DOMAIN items : DOMAIN items = {p} /\ items[p].data = d
  <2>1. PICK data \in [1 .. 1 -> Seq(Value)] : data = [k \in 1 .. 1 |-> d]
    OBVIOUS
  <2>2. data[1] = d
    BY <2>1
  <2>3. v = [k \in 1 .. 1 |-> Item(s, f, data[k])]
    BY <2>1, <1>6
  <2>4. /\ v \in Seq(WireItem)
        /\ DOMAIN v = 1 .. 1
        /\ \A k \in 1 .. 1 : v[k].tag = Tag(s, f) /\ v[k].data = data[k]
        /\ DOMAIN items = Len(w) + 1 .. Len(w) + 1
        /\ \A k \in 1 .. 1 : items[Len(w) + k].data = data[k]
    BY <2>3, <1>4
  <2>5. 1 \in 1 .. 1 /\ 1 .. 1 = {1} /\ Len(w) + 1 .. Len(w) + 1 = {Len(w) + 1}
    BY <1>2
  <2> QED BY <2>2, <2>4, <2>5
<1>7. CASE f.label = "Map"
  <2>1. PICK keys : keys \in SUBSET Value /\ IsFiniteSet(keys) /\ x \in [keys -> Value]
    BY <1>7 DEF HeldBy
  <2>2. PICK order \in Bijection(1 .. Cardinality(DOMAIN x), DOMAIN x) :
          v = [k \in DOMAIN order |-> Item(s, f, <<order[k], x[order[k]]>>)]
    BY <1>7 DEF WriteField, GeneratedType
  <2>3. PICK n \in Nat : n = Cardinality(DOMAIN x)
    BY <2>1, FS_CardinalityType
  <2>4. order \in [1 .. n -> keys] /\ \A k \in keys : \E j \in 1 .. n : order[j] = k
    BY <2>1, <2>2, <2>3 DEF Bijection, Injection, Surjection
  <2>5. PICK data : data = [k \in 1 .. n |-> <<order[k], x[order[k]]>>]
    OBVIOUS
  <2>6. ASSUME NEW k \in 1 .. n
        PROVE  /\ order[k] \in keys /\ data[k] \in Seq(Value) /\ Len(data[k]) = 2
               /\ data[k][1] = order[k] /\ data[k][2] = x[order[k]]
    <3>1. order[k] \in Value /\ x[order[k]] \in Value
      BY <2>1, <2>4
    <3>2. data[k] = <<order[k], x[order[k]]>>
      BY <2>5
    <3> QED BY <3>1, <3>2, <2>4
  <2>7. data \in [1 .. n -> Seq(Value)]
    BY <2>5, <2>6
  <2>8. v = [k \in 1 .. n |-> Item(s, f, data[k])]
    BY <2>2, <2>4, <2>5
  <2>9. /\ v \in Seq(WireItem)
        /\ DOMAIN v = 1 .. n
        /\ \A k \in 1 .. n : v[k].tag = Tag(s, f) /\ v[k].data = data[k]
        /\ DOMAIN items = Len(w) + 1 .. Len(w) + n
        /\ \A k \in 1 .. n : items[Len(w) + k].data = data[k]
    BY <2>7, <2>8, <1>4
  <2>10. ASSUME NEW p \in DOMAIN items
         PROVE  items[p].data[1] \in keys /\ x[items[p].data[1]] = items[p].data[2]
    <3>1. PICK k \in 1 .. n : p = Len(w) + k
      <4>1. p \in Len(w) + 1 .. Len(w) + n
        BY <2>9
      <4>2. p - Len(w) \in 1 .. n /\ p = Len(w) + (p - Len(w))
        BY <4>1, <1>2
      <4> QED BY <4>2
    <3>2. items[p].data = data[k]
      BY <3>1, <2>9
    <3> QED BY <3>2, <2>6
  <2>11. ASSUME NEW key \in keys
         PROVE  \E p \in DOMAIN items : items[p].data[1] = key
    <3>1. PICK j \in 1 .. n : order[j] = key
      BY <2>4
    <3>2. Len(w) + j \in DOMAIN items
      BY <2>9, <1>2
    <3>3. items[Len(w) + j].data[1] = key
      BY <3>1, <2>6, <2>9
    <3> QED BY <3>2, <3>3
  <2>12. DOMAIN x = {items[p].data[1] : p \in DOMAIN items}
    BY <2>1, <2>10, <2>11
  <2>13. Delivered(s, f, items, x)
    BY <2>10, <2>12, <1>7 DEF Delivered
  <2>14. \A k \in DOMAIN v : v[k].tag = Tag(s, f) /\ Len(v[k].data) = 2
    BY <2>6, <2>9
  <2> QED BY <1>3, <1>7, <2>9, <2>13, <2>14
<1>8. CASE f.label = "Repeated" /\ Packed(s, f)
  <2>1. x \in Seq(Value)
    <3>1. x \in Seq(ValuesOfType(f))
      BY <1>8 DEF HeldBy
    <3> QED BY <3>1, <1>1
  <2>2. v = IF x = << >> THEN << >> ELSE << Item(s, f, x) >>
    BY <1>8 DEF WriteField, GeneratedType
  <2>3. CASE x = << >>
    <3>1. v \in Seq(WireItem) /\ DOMAIN v = {} /\ DOMAIN items = {}
      BY <1>5, <2>2, <2>3
    <3>2. Delivered(s, f, items, x)
      BY <3>1, <1>8, <2>3 DEF Delivered
    <3> QED BY <3>1, <3>2, <1>3
  <2>4. CASE x # << >>
    <3>1. /\ v \in Seq(WireItem) /\ DOMAIN v = {1} /\ v[1].tag = Tag(s, f)
          /\ \E p \in DOMAIN items : DOMAIN items = {p} /\ items[p].data = x
      BY <1>6, <2>1, <2>2, <2>4
    <3>2. Delivered(s, f, items, x)
      BY <3>1, <1>8, <2>4 DEF Delivered
    <3> QED BY <3>1, <3>2, <1>3, <1>8
  <2> QED BY <2>3, <2>4
<1>9. CASE f.label = "Repeated" /\ ~Packed(s, f)
  <2>1. x \in Seq(ValuesOfType(f))
    BY <1>9 DEF HeldBy
  <2>2. PICK n \in Nat : n = Len(x) /\ DOMAIN x = 1 .. n
    BY <2>1
  <2>3. v = [k \in 1 .. n |-> Item(s, f, <<x[k]>>)]
    BY <1>9, <2>2 DEF WriteField, GeneratedType
  <2>4. PICK data : data = [k \in 1 .. n |-> <<x[k]>>]
    OBVIOUS
  <2>5. ASSUME NEW k \in 1 .. n
        PROVE  data[k] = <<x[k]>> /\ data[k] \in Seq(Value) /\ Len(data[k]) = 1
    <3>1. x[k] \in Value
      BY <2>1, <2>2, <1>1
    <3>2. data[k] = <<x[k]>>
      BY <2>4
    <3> QED BY <3>1, <3>2
  <2>6. data \in [1 .. n -> Seq(Value)] /\ v = [k \in 1 .. n |-> Item(s, f, data[k])]
    BY <2>3, <2>4, <2>5
  <2>7. /\ v \in Seq(WireItem)
        /\ DOMAIN v = 1 .. n
        /\ \A k \in 1 .. n : v[k].tag = Tag(s, f) /\ v[k].data = data[k]
        /\ DOMAIN items = Len(w) + 1 .. Len(w) + n
        /\ \A k \in 1 .. n : items[Len(w) + k].data = data[k]
    BY <2>6, <1>4
  <2>8. \E b \in Nat : /\ DOMAIN items = b + 1 .. b + Len(x)
                       /\ \A k \in 1 .. Len(x) : items[b + k].data = <<x[k]>>
    BY <1>2, <2>2, <2>5, <2>7
  <2>9. Delivered(s, f, items, x)
    BY <2>8, <1>9 DEF Delivered
  <2>10. \A k \in DOMAIN v : v[k].tag = Tag(s, f) /\ Len(v[k].data) = 1
    BY <2>5, <2>7
  <2> QED BY <1>3, <1>9, <2>7, <2>9, <2>10
<1>10. CASE f.label \notin {"Map", "Repeated"}
  <2>1. v = IF Written(s, f, x) THEN << Item(s, f, <<x>>) >> ELSE << >>
    BY <1>10 DEF WriteField, GeneratedType
  <2>2. CASE ~Written(s, f, x)
    <3>1. v \in Seq(WireItem) /\ DOMAIN v = {} /\ DOMAIN items = {}
      BY <1>5, <2>1, <2>2
    <3>2. Delivered(s, f, items, x)
      BY <3>1, <1>10, <2>2 DEF Delivered
    <3> QED BY <3>1, <3>2, <1>3
  <2>3. CASE Written(s, f, x)
    <3>1. x \in Value
      <4>1. x \in (IF IsOptional(f) THEN {None} ELSE {}) \cup ValuesOfType(f)
        BY <1>10 DEF HeldBy
      <4>2. IsOptional(f) => x # None
        BY <2>3, <1>10 DEF Written, HasPresence, GeneratedType
      <4> QED BY <4>1, <4>2, <1>1
    <3>2. <<x>> \in Seq(Value) /\ Len(<<x>>) = 1
      BY <3>1
    <3>3. PICK d \in Seq(Value) : d = <<x>> /\ Len(d) = 1
      BY <3>2
    <3>4. v = << Item(s, f, d) >>
      BY <2>1, <2>3, <3>3
    <3>5. /\ v \in Seq(WireItem) /\ DOMAIN v = {1} /\ v[1].tag = Tag(s, f) /\ v[1].data = d
          /\ \E p \in DOMAIN items : DOMAIN items = {p} /\ items[p].data = d
      BY <1>6, <3>4
    <3>6. Delivered(s, f, items, x)
      BY <3>3, <3>5, <1>10, <2>3 DEF Delivered
    <3> QED BY <3>3, <3>5, <3>6, <1>3, <1>10
  <2> QED BY <2>2, <2>3
<1> QED BY <1>7, <1>8, <1>9, <1>10

----------------------------------------------------------------------------
(* What is kept of what was written.                                       *)

LEMMA GreatestIn ==
  ASSUME NEW n \in Nat, NEW S \in SUBSET (1 .. n), S # {}
  PROVE  \E m \in S : \A x \in S : x <= m
<1> DEFINE T == {n - x : x \in S}
<1>1. T \in SUBSET Nat /\ T # {}
  <2>1. \A x \in S : x \in 1 .. n /\ n - x \in Nat
    OBVIOUS
  <2>2. PICK x \in S : TRUE
    OBVIOUS
  <2>3. n - x \in T
    OBVIOUS
  <2> QED BY <2>1, <2>3
<1>2. PICK t \in T : \A u \in T : t <= u
  BY <1>1, LeastNatural
<1>3. PICK m \in S : t = n - m
  OBVIOUS
<1>4. \A x \in S : n - m <= n - x
  BY <1>2, <1>3
<1>5. \A x \in S : x <= m
  BY <1>4
<1> QED BY <1>5

LEMMA MaxIsIn ==
  ASSUME NEW n \in Nat, NEW S \in SUBSET (1 .. n), S # {}
  PROVE  Max(S) \in S
<1>1. PICK m \in S : \A x \in S : x <= m
  BY GreatestIn
<1>2. S \in SUBSET Nat
  OBVIOUS
<1>3. Max(S) = m
  BY <1>1, <1>2, MaxIs
<1> QED BY <1>3

LEMMA DefaultOf ==
  ASSUME FieldsAssumption, NEW s \in Schemas, NEW i \in VisibleFields(s), NEW f, f = s.fields[i],
         NEW d, d = StructDefault(s).fields[i]
  PROVE  /\ f.label \in {"Map", "Repeated"} => d = <<>>
         /\ IsOptional(f) => d = None
         /\ d = FieldDefault(f) \/ d = DerivedDefault(f)
         /\ (s.syntax = "proto2" /\ f.label = "Required" /\ f.type # "message" /\ f.default # NoDefault)
              => d = FieldDefault(f)
<1> DEFINE custom == \E j \in DOMAIN s.fields : MustGenerateImplDefault(s, s.fields[j])
<1>1. d = IF custom THEN FieldDefault(f) ELSE DerivedDefault(f)
  BY DEF StructDefault
<1>2. f.label \in {"Map", "Repeated"} => FieldDefault(f) = <<>> /\ DerivedDefault(f) = <<>>
  BY DEF FieldDefault, DerivedDefault, GeneratedType, IsOptional
<1>3. IsOptional(f) => FieldDefault(f) = None /\ DerivedDefault(f) = None
  BY DEF FieldDefault, DerivedDefault, GeneratedType, IsOptional
<1>4. ASSUME s.syntax = "proto2", f.label = "Required", f.type # "message", f.default # NoDefault
      PROVE  custom
  <2>1. i \in DOMAIN s.fields /\ IsVisible(s, s.fields[i])
    BY FieldFacts
  <2> QED BY <1>4, <2>1 DEF MustGenerateImplDefault, HasValidVisibleCustomDefault
<1> HIDE DEF custom
<1> QED BY <1>1, <1>2, <1>3, <1>4

LEMMA OneChunk ==
  ASSUME NEW n \in Nat, NEW items, DOMAIN items \subseteq 1 .. n, NEW p, DOMAIN items = {p}
  PROVE  Max(DOMAIN items) = p /\ DOMAIN items # {}
<1>1. p \in Nat
  OBVIOUS
<1>2. Max({p}) = p
  BY <1>1, MaxIs
<1> QED BY <1>2

\* A field reads as written, unless its absence stands for a default that
\* Default does not give.
LEMMA FieldComesBack ==
  ASSUME FieldsAssumption, NEW s \in Schemas, NEW i \in VisibleFields(s), NEW f \in {s.fields[i]},
         NEW d \in {StructDefault(s).fields[i]}, NEW n \in Nat, NEW items, DOMAIN items \subseteq 1 .. n,
         NEW x \in HeldBy(f), NEW y \in HeldBy(f), Kept(s, f, items, d, y), Delivered(s, f, items, x)
  PROVE  y = x \/ (s.syntax = "proto3" /\ FieldDefault(f) # d)
<1>1. f \in FieldTypes /\ s.syntax \in {"proto2", "proto3"}
  BY FieldFacts DEF FieldsAssumption, DeclaredSchema
<1>2. \A v \in ValuesOfType(f) : ReadFn(f, v) = v
  BY <1>1, Values
<1>3. CASE f.label = "Map"
  <2>1. PICK xs : x \in [xs -> Value]
    BY <1>3 DEF HeldBy
  <2>2. PICK ys : y \in [ys -> Value]
    BY <1>3 DEF HeldBy
  <2>3. /\ DOMAIN x = {items[p].data[1] : p \in DOMAIN items}
        /\ \A p \in DOMAIN items : x[items[p].data[1]] = items[p].data[2]
    BY <1>3 DEF Delivered
  <2>4. /\ DOMAIN y = {items[p].data[1] : p \in DOMAIN items}
        /\ \A p \in DOMAIN items :
             (\A q \in DOMAIN items : q > p => items[q].data[1] # items[p].data[1])
               => y[items[p].data[1]] = items[p].data[2]
    BY <1>3 DEF Kept
  <2>5. ASSUME NEW key \in DOMAIN x
        PROVE  y[key] = x[key]
    <3> DEFINE S == {p \in DOMAIN items : items[p].data[1] = key}
    <3>1. S \in SUBSET (1 .. n) /\ S # {}
      BY <2>3
    <3>2. PICK m \in S : \A p \in S : p <= m
      BY <3>1, GreatestIn
    <3>3. m \in DOMAIN items /\ items[m].data[1] = key
      OBVIOUS
    <3>4. \A q \in DOMAIN items : q > m => items[q].data[1] # key
      BY <3>2
    <3>5. y[key] = items[m].data[2]
      BY <2>4, <3>3, <3>4
    <3> QED BY <2>3, <3>3, <3>5
  <2>6. x = y
    BY <2>1, <2>2, <2>3, <2>4, <2>5
  <2> QED BY <2>6
<1>4. CASE f.label = "Repeated" /\ Packed(s, f)
  <2>1. x \in Seq(ValuesOfType(f))
    BY <1>4 DEF HeldBy
  <2>2. CASE x = <<>>
    <3>1. DOMAIN items = {}
      BY <1>4, <2>2 DEF Delivered
    <3> QED BY <1>4, <2>2, <3>1 DEF Kept
  <2>3. CASE x # <<>>
    <3>1. PICK p \in DOMAIN items : DOMAIN items = {p} /\ items[p].data = x
      BY <1>4, <2>3 DEF Delivered
    <3>2. Max(DOMAIN items) = p /\ DOMAIN items # {}
      BY <3>1, OneChunk
    <3>3. y = [k \in DOMAIN x |-> ReadFn(f, x[k])]
      BY <1>4, <3>1, <3>2 DEF Kept
    <3>4. \A k \in DOMAIN x : ReadFn(f, x[k]) = x[k]
      BY <2>1, <1>2
    <3>5. y = [k \in DOMAIN x |-> x[k]]
      BY <3>3, <3>4
    <3> QED BY <2>1, <3>5
  <2> QED BY <2>2, <2>3
<1>5. CASE f.label = "Repeated" /\ ~Packed(s, f)
  <2>1. x \in Seq(ValuesOfType(f)) /\ y \in Seq(ValuesOfType(f))
    BY <1>5 DEF HeldBy
  <2>2. PICK b \in Nat : /\ DOMAIN items = b + 1 .. b + Len(x)
                         /\ \A k \in 1 .. Len(x) : items[b + k].data = <<x[k]>>
    BY <1>5 DEF Delivered
  <2>3. /\ Len(y) = Cardinality(DOMAIN items)
        /\ \A p \in DOMAIN items :
             y[Cardinality({q \in DOMAIN items : q <= p})] = ReadFn(f, items[p].data[1])
    BY <1>5 DEF Kept
  <2>4. PICK m \in Nat : m = Len(x)
    BY <2>1
  <2>5. \A k \in 0 .. m : Cardinality(b + 1 .. b + k) = k
    <3> TAKE k \in 0 .. m
    <3>1. b + 1 \in Int /\ b + k \in Int
      OBVIOUS
    <3>2. Cardinality(b + 1 .. b + k) = IF b + 1 > b + k THEN 0 ELSE (b + k) - (b + 1) + 1
      BY <3>1, FS_Interval
    <3> QED BY <3>2
  <2>6. Len(y) = m
    BY <2>2, <2>3, <2>4, <2>5
  <2>7. ASSUME NEW k \in 1 .. m
        PROVE  y[k] = x[k]
    <3>1. b + k \in DOMAIN items /\ {q \in DOMAIN items : q <= b + k} = b + 1 .. b + k
      BY <2>2, <2>4
    <3>2. Cardinality({q \in DOMAIN items : q <= b + k}) = k
      <4>1. Cardinality(b + 1 .. b + k) = k
        BY <2>5
      <4> QED BY <3>1, <4>1
    <3>3. y[k] = ReadFn(f, items[b + k].data[1])
      BY <3>1, <3>2, <2>3
    <3>4. items[b + k].data[1] = x[k]
      BY <2>2, <2>4
    <3>5. x[k] \in ValuesOfType(f)
      BY <2>1, <2>4
    <3> QED BY <3>3, <3>4, <3>5, <1>2
  <2>8. x = y
    BY <2>1, <2>4, <2>6, <2>7
  <2> QED BY <2>8
<1>6. CASE f.label \notin {"Map", "Repeated"}
  <2>1. GeneratedType(f) = "Singular"
    BY <1>6 DEF GeneratedType
  <2>2. CASE Written(s, f, x)
    <3>1. PICK p \in DOMAIN items : DOMAIN items = {p} /\ items[p].data = <<x>>
      BY <1>6, <2>2 DEF Delivered
    <3>2. Max(DOMAIN items) = p /\ DOMAIN items # {}
      BY <3>1, OneChunk
    <3>3. y = ReadFn(f, x)
      BY <1>6, <3>1, <3>2 DEF Kept
    <3>4. x \in (IF IsOptional(f) THEN {None} ELSE {}) \cup ValuesOfType(f)
      BY <1>6 DEF HeldBy
    <3>5. IsOptional(f) => x # None
      BY <2>1, <2>2 DEF Written, HasPresence
    <3> QED BY <3>3, <3>4, <3>5, <1>2
  <2>3. CASE ~Written(s, f, x)
    <3>1. DOMAIN items = {}
      BY <1>6, <2>3 DEF Delivered
    <3>2. y = d
      BY <1>6, <3>1 DEF Kept
    <3>3. CASE IsOptional(f)
      <4>1. x = None
        BY <2>1, <2>3, <3>3 DEF Written, HasPresence
      <4>2. d = None
        BY <3>3, DefaultOf
      <4> QED BY <3>2, <4>1, <4>2
    <3>4. CASE ~IsOptional(f)
      <4>1. ~HasPresence(s, f)
        BY <2>3, <3>4 DEF Written
      <4>2. s.syntax # "proto2"
        BY <2>1, <4>1 DEF HasPresence
      <4>3. x = FieldDefault(f)
        BY <2>3, <4>1 DEF Written
      <4> QED BY <1>1, <3>2, <4>2, <4>3
    <3> QED BY <3>3, <3>4
  <2> QED BY <2>2, <2>3
<1> QED BY <1>3, <1>4, <1>5, <1>6

\* Absence leaves the default that the schema declares.
LEMMA KeptAsDeclared ==
  ASSUME FieldsAssumption, NEW s \in Schemas, NEW i \in VisibleFields(s), NEW f, f = s.fields[i],
         NEW d, d = StructDefault(s).fields[i], NEW n \in Nat, NEW items, DOMAIN items \subseteq 1 .. n,
         \A p \in DOMAIN items :
           items[p] \in WireItem /\ (~Packed(s, f) => Len(items[p].data) = IF f.label = "Map" THEN 2 ELSE 1),
         NEW x, Kept(s, f, items, d, x)
  PROVE  Kept(s, f, items,
              IF f.default # NoDefault /\ s.syntax = "proto2" THEN f.default
              ELSE IF IsOptional(f) THEN None ELSE TypeDefault(f),
              IF HasGetter(s, f) THEN Getter(f, x) ELSE x)
<1> DEFINE declared == IF f.default # NoDefault /\ s.syntax = "proto2" THEN f.default
                       ELSE IF IsOptional(f) THEN None ELSE TypeDefault(f)
           got == IF HasGetter(s, f) THEN Getter(f, x) ELSE x
<1>1. f \in FieldTypes /\ s.syntax \in {"proto2", "proto3"} /\ Declared(s, f) /\ IsVisible(s, f)
  BY FieldFacts DEF FieldsAssumption, DeclaredSchema
<1>2. CASE f.label \in {"Map", "Repeated"}
  <2>1. got = x
    BY <1>2 DEF HasGetter, IsOptional
  <2> HIDE DEF declared, got
  <2>2. Kept(s, f, items, declared, got)
    BY <1>2, <2>1 DEF Kept
  <2> QED BY <2>2 DEF declared, got
<1>3. CASE f.label \notin {"Map", "Repeated"}
  <2>1. ~Packed(s, f)
    BY <1>1, <1>3 DEF Packed, Declared
  <2>2. x = IF DOMAIN items = {} THEN d ELSE ReadFn(f, items[Max(DOMAIN items)].data[1])
    BY <1>3 DEF Kept
  <2>3. HasGetter(s, f)
          <=> s.syntax = "proto2" /\ IsOptional(f) /\ f.type # "message" /\ f.default # NoDefault
    BY <1>1 DEF HasGetter, HasValidVisibleCustomDefault, IsOptional
  <2>4. f.default # NoDefault => f.type # "message"
    BY <1>1 DEF Declared
  <2>5. CASE DOMAIN items = {}
    <3>1. x = d
      BY <2>2, <2>5
    <3>2. CASE IsOptional(f)
      <4>1. d = None
        BY <3>2, DefaultOf
      <4>2. got = declared
        BY <2>3, <2>4, <3>1, <3>2, <4>1 DEF Getter
      <4> HIDE DEF declared, got
      <4>3. Kept(s, f, items, declared, got)
        BY <1>3, <2>5, <4>2 DEF Kept
      <4> QED BY <4>3 DEF declared, got
    <3>3. CASE ~IsOptional(f)
      <4>1. got = d
        BY <2>3, <3>1, <3>3
      <4>2. d = FieldDefault(f) \/ d = DerivedDefault(f)
        BY DefaultOf
      <4>3. GeneratedType(f) = "Singular"
        BY <1>3 DEF GeneratedType
      <4>4. DerivedDefault(f) = TypeDefault(f)
        BY <3>3, <4>3 DEF DerivedDefault
      <4>5. FieldDefault(f) = IF f.default # NoDefault THEN f.default ELSE TypeDefault(f)
        BY <3>3, <4>3 DEF FieldDefault
      <4>6. CASE s.syntax = "proto2"
        <5>1. f.label = "Required"
          BY <1>1, <1>3, <3>3, <4>6 DEF Declared, FieldTypes, IsOptional
        <5>2. f.default # NoDefault => d = FieldDefault(f)
          BY <2>4, <4>6, <5>1, DefaultOf
        <5>3. got = declared
          BY <4>1, <4>2, <4>4, <4>5, <4>6, <5>2, <3>3
        <5> HIDE DEF declared, got
        <5>4. Kept(s, f, items, declared, got)
          BY <1>3, <2>5, <5>3 DEF Kept
        <5> QED BY <5>4 DEF declared, got
      <4>7. CASE s.syntax = "proto3"
        <5>1. d = DerivedDefault(f)
          <6>1. \A j \in DOMAIN s.fields : ~MustGenerateImplDefault(s, s.fields[j])
            BY <4>7 DEF MustGenerateImplDefault, HasValidVisibleCustomDefault
          <6> QED BY <6>1 DEF StructDefault
        <5>2. got = declared
          BY <4>1, <4>4, <4>7, <5>1, <3>3
        <5> HIDE DEF declared, got
        <5>3. Kept(s, f, items, declared, got)
          BY <1>3, <2>5, <5>2 DEF Kept
        <5> QED BY <5>3 DEF declared, got
      <4> QED BY <1>1, <4>6, <4>7
    <3> QED BY <3>2, <3>3
  <2>6. CASE DOMAIN items # {}
    <3>1. PICK p \in DOMAIN items : p = Max(DOMAIN items)
      BY <2>6, MaxIsIn
    <3>2. items[p].data \in Seq(Value) /\ Len(items[p].data) = 1
      BY <2>1, <1>3 DEF WireItem
    <3>3. items[p].data[1] \in Value
      BY <3>2
    <3>4. x = ReadFn(f, items[p].data[1]) /\ x \in ValuesOfType(f)
      BY <2>2, <2>6, <3>1, <3>3, <1>1, Values
    <3>5. x # None
      BY <3>4, <1>1, Values
    <3>6. got = x
      BY <3>5 DEF Getter
    <3> HIDE DEF declared, got
    <3>7. Kept(s, f, items, declared, got)
      BY <1>3, <2>6, <3>1, <3>4, <3>6 DEF Kept
    <3> QED BY <3>7 DEF declared, got
  <2> QED BY <2>5, <2>6
<1> QED BY <1>2, <1>3

----------------------------------------------------------------------------
(* The same of a oneof.                                                    *)

LEMMA KeptOneOfMore ==
  ASSUME FieldsAssumption, NEW s \in Schemas, NEW o \in DOMAIN s.oneofs,
         NEW k \in VisibleVariants(s, s.oneofs[o]), NEW n \in Nat, NEW items, NEW more,
         DOMAIN items \subseteq 1 .. n, DOMAIN more = DOMAIN items \cup {n + 1},
         more[n + 1] \in WireItem, more[n + 1].tag = Tag(s, s.oneofs[o][k]), Len(more[n + 1].data) = 1,
         NEW x, x = [at |-> k, value |-> ReadFn(s.oneofs[o][k], more[n + 1].data[1])]
  PROVE  KeptOneOf(s, s.oneofs[o], more, x) /\ x \in HeldByOneOf(s, s.oneofs[o])
<1>1. more[n + 1].data \in Seq(Value)
  BY DEF WireItem
<1>2. more[n + 1].data[1] \in Value
  BY <1>1
<1>3. ReadFn(s.oneofs[o][k], more[n + 1].data[1]) \in ValuesOfType(s.oneofs[o][k])
  BY <1>2, VariantFacts, Values
<1>4. x \in [at : {k}, value : ValuesOfType(s.oneofs[o][k])]
  BY <1>3
<1>5. x \in HeldByOneOf(s, s.oneofs[o])
  BY <1>4 DEF HeldByOneOf
<1>6. Max(DOMAIN more) = n + 1
  <2>1. DOMAIN more \in SUBSET Nat /\ n + 1 \in DOMAIN more /\ \A p \in DOMAIN more : p <= n + 1
    OBVIOUS
  <2> QED BY <2>1, MaxIs
<1>7. KeptOneOf(s, s.oneofs[o], more, x)
  BY <1>6 DEF KeptOneOf
<1> QED BY <1>5, <1>7

LEMMA OneOfIsDelivered ==
  ASSUME FieldsAssumption, NEW s \in Schemas, NEW o \in DOMAIN s.oneofs,
         NEW x \in HeldByOneOf(s, s.oneofs[o]), NEW w \in Seq(WireItem),
         NEW tags \in {OneOfTags(s, o)}, DOMAIN Having(w, Len(w), tags) = {},
         NEW v \in {WriteOneOf(s, s.oneofs[o], x)}
  PROVE  /\ v \in Seq(WireItem)
         /\ \A p \in DOMAIN v : v[p].tag \in tags /\ Len(v[p].data) = 1
         /\ DeliveredOneOf(s, s.oneofs[o], Having(w \o v, Len(w \o v), tags), x)
<1>1. CASE x = None
  <2>1. v = << >>
    BY <1>1 DEF WriteOneOf
  <2>2. w \o v = w
    BY <2>1
  <2>3. DeliveredOneOf(s, s.oneofs[o], Having(w \o v, Len(w \o v), tags), x)
    BY <1>1, <2>2 DEF DeliveredOneOf
  <2> QED BY <2>1, <2>3
<1>2. CASE x # None
  <2>1. PICK k \in VisibleVariants(s, s.oneofs[o]) : x \in [at : {k}, value : ValuesOfType(s.oneofs[o][k])]
    BY <1>2 DEF HeldByOneOf
  <2>2. PICK f \in FieldTypes : f = s.oneofs[o][k]
    BY VariantFacts
  <2>3. x.at = k /\ x.value \in Value
    BY <2>1, <2>2, Values
  <2>4. PICK d \in Seq(Value) : d = <<x.value>> /\ Len(d) = 1
    <3>1. PICK u \in Value : u = x.value
      BY <2>3
    <3>2. <<u>> \in Seq(Value) /\ Len(<<u>>) = 1
      OBVIOUS
    <3> QED BY <3>1, <3>2
  <2>5. PICK item \in WireItem : item = Item(s, f, d)
    BY <2>4, ItemType
  <2>6. item.tag = Tag(s, f) /\ item.data = d
    BY <2>4, <2>5, ItemType
  <2>7. v = <<item>>
    BY <1>2, <2>2, <2>3, <2>4, <2>5 DEF WriteOneOf
  <2>8. item.tag \in tags
    BY <2>2, <2>6 DEF OneOfTags
  <2>9. v \in Seq(WireItem) /\ Len(v) = 1 /\ DOMAIN v = {1} /\ v[1] = item
    BY <2>7
  <2>10. PICK u, ts : u = v /\ ts = tags
    OBVIOUS
  <2>11. PICK items : items = Having(w \o u, Len(w \o u), ts)
    OBVIOUS
  <2>12. DOMAIN items = {Len(w) + 1} /\ items[Len(w) + 1] = item
    <3>1. u \in Seq(WireItem) /\ Len(u) = 1 /\ u[1] = item /\ \A j \in DOMAIN u : u[j].tag \in ts
      BY <2>8, <2>9, <2>10
    <3>2. DOMAIN Having(w, Len(w), ts) = {}
      BY <2>10
    <3>3. /\ DOMAIN Having(w \o u, Len(w \o u), ts) = Len(w) + 1 .. Len(w) + Len(u)
          /\ \A j \in 1 .. Len(u) : Having(w \o u, Len(w \o u), ts)[Len(w) + j] = u[j]
      BY <3>1, <3>2, HavingLike
    <3> QED BY <2>11, <3>1, <3>3
  <2>13. DeliveredOneOf(s, s.oneofs[o], items, x)
    BY <1>2, <2>2, <2>3, <2>4, <2>6, <2>12 DEF DeliveredOneOf
  <2> QED BY <2>4, <2>6, <2>8, <2>9, <2>10, <2>11, <2>13
<1> QED BY <1>1, <1>2

\* A oneof reads as written.
LEMMA OneOfComesBack ==
  ASSUME FieldsAssumption, NEW s \in Schemas, NEW o \in DOMAIN s.oneofs,
         NEW n \in Nat, NEW items, DOMAIN items \subseteq 1 .. n,
         NEW x \in HeldByOneOf(s, s.oneofs[o]), NEW y,
         KeptOneOf(s, s.oneofs[o], items, y), DeliveredOneOf(s, s.oneofs[o], items, x)
  PROVE  y = x
<1>1. CASE x = None
  BY <1>1 DEF KeptOneOf, DeliveredOneOf
<1>2. CASE x # None
  <2>1. PICK p \in DOMAIN items :
          /\ DOMAIN items = {p} /\ items[p].data = <<x.value>>
          /\ items[p].tag = Tag(s, s.oneofs[o][x.at])
    BY <1>2 DEF DeliveredOneOf
  <2>2. Max(DOMAIN items) = p /\ DOMAIN items # {}
    BY <2>1, OneChunk
  <2>3. PICK k \in VisibleVariants(s, s.oneofs[o]) :
          /\ Tag(s, s.oneofs[o][k]) = items[p].tag
          /\ y = [at |-> k, value |-> ReadFn(s.oneofs[o][k], x.value)]
    BY <2>1, <2>2 DEF KeptOneOf
  <2>4. PICK l \in VisibleVariants(s, s.oneofs[o]) : x \in [at : {l}, value : ValuesOfType(s.oneofs[o][l])]
    BY <1>2 DEF HeldByOneOf
  <2>5. x.at = l /\ x.value \in ValuesOfType(s.oneofs[o][l]) /\ x = [at |-> l, value |-> x.value]
    BY <2>4
  <2>6. k = l
    BY <2>1, <2>3, <2>5, TagsApart
  <2>7. ReadFn(s.oneofs[o][l], x.value) = x.value
    BY <2>5, VariantFacts, Values
  <2> QED BY <2>3, <2>5, <2>6, <2>7
<1> QED BY <1>1, <1>2

----------------------------------------------------------------------------
(* A whole message.                                                        *)

LEMMA SlotFacts ==
  ASSUME FieldsAssumption, NEW s \in Schemas
  PROVE  \E c, e \in Nat :
           /\ c = Len(s.fields) /\ e = Len(s.oneofs) /\ Slots(s) = c + e
           /\ DOMAIN s.fields = 1 .. c /\ DOMAIN s.oneofs = 1 .. e
           /\ \A i \in VisibleFields(s) : i \in Nat /\ 1 <= i /\ i <= c
           /\ \A o \in DOMAIN s.oneofs : o \in Nat /\ 1 <= o /\ o <= e
<1>1. s.fields \in Seq(FieldTypes) /\ s.oneofs \in Seq(Seq(FieldTypes))
  BY DEF FieldsAssumption, DeclaredSchema
<1>2. PICK c, e \in Nat : c = Len(s.fields) /\ e = Len(s.oneofs)
  BY <1>1
<1>3. DOMAIN s.fields = 1 .. c /\ DOMAIN s.oneofs = 1 .. e
  BY <1>1, <1>2
<1>4. Slots(s) = c + e
  BY <1>2 DEF Slots
<1>5. \A i \in VisibleFields(s) : i \in 1 .. c
  BY <1>3 DEF VisibleFields
<1>6. \A o \in DOMAIN s.oneofs : o \in Nat /\ 1 <= o /\ o <= e
  BY <1>3
<1>7. \A i \in VisibleFields(s) : i \in Nat /\ 1 <= i /\ i <= c
  BY <1>5
<1> WITNESS c \in Nat, e \in Nat
<1> QED BY <1>2, <1>3, <1>4, <1>6, <1>7

LEMMA ReadableField ==
  ASSUME FieldsAssumption, NEW s \in Schemas, NEW i \in VisibleFields(s), NEW item,
         item.tag = Tag(s, s.fields[i]),
         ~Packed(s, s.fields[i]) => Len(item.data) = IF s.fields[i].label = "Map" THEN 2 ELSE 1
  PROVE  IsReadable(s, item)
<1>1. \A j \in VisibleFields(s) : Tag(s, s.fields[j]) = item.tag => j = i
  BY TagsApart DEF FieldTags
<1>2. \A o \in DOMAIN s.oneofs : \A k \in VisibleVariants(s, s.oneofs[o]) :
        Tag(s, s.oneofs[o][k]) # item.tag
  BY TagsApart DEF FieldTags, OneOfTags
<1> QED BY <1>1, <1>2 DEF IsReadable

LEMMA ReadableOneOf ==
  ASSUME FieldsAssumption, NEW s \in Schemas, NEW o \in DOMAIN s.oneofs, NEW item,
         item.tag \in OneOfTags(s, o), Len(item.data) = 1
  PROVE  IsReadable(s, item)
<1>1. \A j \in VisibleFields(s) : Tag(s, s.fields[j]) # item.tag
  BY TagsApart DEF FieldTags
<1> QED BY <1>1 DEF IsReadable

LEMMA NothingRead ==
  ASSUME FieldsAssumption, NEW s \in Schemas, NEW w
  PROVE  AsRead(s, w, 0, StructDefault(s))
<1>1. ASSUME NEW i \in VisibleFields(s)
      PROVE  Kept(s, s.fields[i], Having(w, 0, FieldTags(s, i)), StructDefault(s).fields[i],
                  StructDefault(s).fields[i])
  <2>1. PICK f \in FieldTypes : f = s.fields[i]
    BY FieldFacts
  <2>2. PICK d : d = StructDefault(s).fields[i]
    OBVIOUS
  <2>3. f.label \in {"Map", "Repeated"} => d = <<>>
    BY <2>1, <2>2, DefaultOf
  <2>4. PICK items : items = Having(w, 0, FieldTags(s, i))
    OBVIOUS
  <2>5. DOMAIN items = {}
    BY <2>4, HavingNone
  <2>6. Kept(s, f, items, d, d)
    BY <2>3, <2>5, KeptNone
  <2> QED BY <2>1, <2>2, <2>4, <2>6
<1>2. ASSUME NEW o \in DOMAIN s.oneofs
      PROVE  KeptOneOf(s, s.oneofs[o], Having(w, 0, OneOfTags(s, o)), StructDefault(s).oneofs[o])
  <2>1. StructDefault(s).oneofs[o] = None
    BY DEF StructDefault
  <2>2. DOMAIN Having(w, 0, OneOfTags(s, o)) = {}
    BY HavingNone
  <2> QED BY <2>1, <2>2 DEF KeptOneOf
<1> QED BY <1>1, <1>2 DEF AsRead

LEMMA NothingWritten ==
  ASSUME FieldsAssumption, NEW s \in Schemas, NEW m
  PROVE  OnWire(s, << >>, 0, m)
<1>1. \A tags : DOMAIN Having(<< >>, Len(<< >>), tags) = {}
  BY HavingNone
<1>2. PICK c, e \in Nat :
        /\ c = Len(s.fields)
        /\ \A i \in VisibleFields(s) : i \in Nat /\ 1 <= i /\ i <= c
        /\ \A o \in DOMAIN s.oneofs : o \in Nat /\ 1 <= o /\ o <= e
  BY SlotFacts
<1>3. \A o \in DOMAIN s.oneofs : ~(c + o <= 0)
  BY <1>2
<1>4. \A i \in VisibleFields(s) : ~(i <= 0)
  BY <1>2
<1> QED BY <1>1, <1>2, <1>3, <1>4 DEF OnWire

\* Writing one more field or oneof leaves the others as they are.
LEMMA OneMoreWritten ==
  ASSUME FieldsAssumption, NEW s \in Schemas, NEW m, IsStruct(s, m), NEW w \in Seq(WireItem),
         NEW n \in Nat, n < Slots(s), OnWire(s, w, n, m), NEW v \in WriteNth(s, n + 1, m)
  PROVE  /\ v \in Seq(WireItem)
         /\ \A p \in DOMAIN v : IsReadable(s, v[p])
         /\ OnWire(s, w \o v, n + 1, m)
<1> DEFINE At(x, tags) == Having(x, Len(x), tags)
<1>0. PICK c, e \in Nat :
        /\ c = Len(s.fields) /\ e = Len(s.oneofs) /\ Slots(s) = c + e
        /\ DOMAIN s.fields = 1 .. c /\ DOMAIN s.oneofs = 1 .. e
        /\ \A i \in VisibleFields(s) : i \in Nat /\ 1 <= i /\ i <= c
        /\ \A o \in DOMAIN s.oneofs : o \in Nat /\ 1 <= o /\ o <= e
  BY SlotFacts
<1>1. ASSUME NEW tags, v \in Seq(WireItem), \A p \in DOMAIN v : v[p].tag \notin tags
      PROVE  At(w \o v, tags) = At(w, tags)
  BY <1>1, HavingUnlike
<1>2. /\ \A i \in VisibleFields(s) :
           IF i <= n THEN Delivered(s, s.fields[i], At(w, FieldTags(s, i)), m.fields[i])
           ELSE DOMAIN At(w, FieldTags(s, i)) = {}
      /\ \A o \in DOMAIN s.oneofs :
           IF c + o <= n
           THEN DeliveredOneOf(s, s.oneofs[o], At(w, OneOfTags(s, o)), m.oneofs[o])
           ELSE DOMAIN At(w, OneOfTags(s, o)) = {}
  BY <1>0 DEF OnWire
<1> HIDE DEF At
<1>3. CASE n + 1 <= c /\ n + 1 \in VisibleFields(s)
  <2>1. PICK i \in VisibleFields(s) : i = n + 1
    BY <1>3
  <2>2. PICK f \in FieldTypes : f = s.fields[i] /\ Declared(s, f) /\ IsVisible(s, f)
    BY FieldFacts
  <2>3. PICK x \in HeldBy(f) : x = m.fields[i]
    BY <2>2 DEF IsStruct
  <2>4. v \in WriteField(s, f, x)
    <3>1. ~(n + 1 > Len(s.fields))
      BY <1>0, <1>3
    <3> QED BY <3>1, <2>1, <2>2, <2>3 DEF WriteNth
  <2>5. PICK tags : tags = FieldTags(s, i) /\ tags = {Tag(s, f)}
    BY <2>2 DEF FieldTags
  <2>6. DOMAIN At(w, tags) = {}
    <3>1. ~(i <= n)
      BY <2>1
    <3> QED BY <1>2, <2>5, <3>1
  <2>7. /\ v \in Seq(WireItem)
        /\ \A p \in DOMAIN v :
             /\ v[p].tag = Tag(s, f)
             /\ ~Packed(s, f) => Len(v[p].data) = IF f.label = "Map" THEN 2 ELSE 1
        /\ Delivered(s, f, At(w \o v, tags), x)
    <3>1. f.packed = "true" => f.label = "Repeated"
      BY <2>2 DEF Declared
    <3>2. DOMAIN Having(w, Len(w), tags) = {} /\ Tag(s, f) \in tags
      BY <2>5, <2>6 DEF At
    <3> QED BY <3>1, <3>2, <2>4, FieldIsDelivered DEF At
  <2>8. \A p \in DOMAIN v : IsReadable(s, v[p])
    BY <2>2, <2>7, ReadableField
  <2>9. ASSUME NEW j \in VisibleFields(s)
        PROVE  IF j <= n + 1 THEN Delivered(s, s.fields[j], At(w \o v, FieldTags(s, j)), m.fields[j])
               ELSE DOMAIN At(w \o v, FieldTags(s, j)) = {}
    <3>1. CASE j = i
      BY <3>1, <2>1, <2>2, <2>3, <2>5, <2>7
    <3>2. CASE j # i
      <4>1. Tag(s, f) \notin FieldTags(s, j)
        BY <3>2, <2>2, TagsApart DEF FieldTags
      <4>2. At(w \o v, FieldTags(s, j)) = At(w, FieldTags(s, j))
        BY <4>1, <2>7, <1>1
      <4>3. j <= n + 1 <=> j <= n
        BY <3>2, <2>1, <1>0
      <4> QED BY <1>2, <4>2, <4>3
    <3> QED BY <3>1, <3>2
  <2>10. ASSUME NEW o \in DOMAIN s.oneofs
         PROVE  ~(c + o <= n + 1) /\ DOMAIN At(w \o v, OneOfTags(s, o)) = {}
    <3>1. Tag(s, f) \notin OneOfTags(s, o)
      BY <2>2, TagsApart DEF FieldTags
    <3>2. At(w \o v, OneOfTags(s, o)) = At(w, OneOfTags(s, o))
      BY <3>1, <2>7, <1>1
    <3>3. ~(c + o <= n) /\ ~(c + o <= n + 1)
      BY <1>3, <1>0
    <3> QED BY <3>2, <3>3, <1>2
  <2>11. OnWire(s, w \o v, n + 1, m)
    BY <1>0, <2>9, <2>10 DEF OnWire, At
  <2> QED BY <2>7, <2>8, <2>11
<1>4. CASE n + 1 <= c /\ n + 1 \notin VisibleFields(s)
  <2>1. n + 1 \in DOMAIN s.fields /\ ~IsVisible(s, s.fields[n + 1])
    BY <1>4, <1>0 DEF VisibleFields
  <2>2. v = << >>
    <3>1. ~(n + 1 > Len(s.fields))
      BY <1>0, <1>4
    <3> QED BY <3>1, <2>1 DEF WriteNth
  <2>3. w \o v = w
    BY <2>2
  <2>4. \A j \in VisibleFields(s) : j <= n + 1 <=> j <= n
    BY <1>0, <1>4
  <2>5. \A o \in DOMAIN s.oneofs : ~(c + o <= n) /\ ~(c + o <= n + 1)
    BY <1>4, <1>0
  <2>6. OnWire(s, w, n + 1, m)
    BY <1>0, <1>2, <2>4, <2>5 DEF OnWire, At
  <2> QED BY <2>2, <2>3, <2>6
<1>5. CASE ~(n + 1 <= c)
  <2>1. PICK o \in DOMAIN s.oneofs : o = n + 1 - c
    <3>1. n < c + e
      BY <1>0
    <3>2. n + 1 - c \in 1 .. e
      BY <3>1, <1>5
    <3> QED BY <3>2, <1>0
  <2>2. PICK x \in HeldByOneOf(s, s.oneofs[o]) : x = m.oneofs[o]
    BY DEF IsStruct
  <2>3. v = WriteOneOf(s, s.oneofs[o], x)
    <3>1. n + 1 > Len(s.fields)
      BY <1>0, <1>5
    <3>2. o = n + 1 - Len(s.fields)
      BY <1>0, <2>1
    <3> QED BY <3>1, <3>2, <2>2 DEF WriteNth
  <2>4. PICK tags : tags = OneOfTags(s, o)
    OBVIOUS
  <2>5. DOMAIN At(w, tags) = {}
    <3>1. ~(c + o <= n)
      BY <2>1, <1>0
    <3> QED BY <1>2, <2>4, <3>1
  <2>6. /\ v \in Seq(WireItem)
        /\ \A p \in DOMAIN v : v[p].tag \in tags /\ Len(v[p].data) = 1
        /\ DeliveredOneOf(s, s.oneofs[o], At(w \o v, tags), x)
    <3>1. DOMAIN Having(w, Len(w), OneOfTags(s, o)) = {}
      BY <2>4, <2>5 DEF At
    <3>2. v \in {WriteOneOf(s, s.oneofs[o], x)} /\ tags \in {OneOfTags(s, o)}
      BY <2>3, <2>4
    <3>3. /\ v \in Seq(WireItem)
          /\ \A p \in DOMAIN v : v[p].tag \in tags /\ Len(v[p].data) = 1
          /\ DeliveredOneOf(s, s.oneofs[o], Having(w \o v, Len(w \o v), tags), x)
      BY <3>1, <3>2, <2>4, OneOfIsDelivered
    <3> QED BY <3>3 DEF At
  <2>7. \A p \in DOMAIN v : IsReadable(s, v[p])
    BY <2>4, <2>6, ReadableOneOf
  <2>8. ASSUME NEW j \in VisibleFields(s)
        PROVE  j <= n + 1 /\ Delivered(s, s.fields[j], At(w \o v, FieldTags(s, j)), m.fields[j])
    <3>1. \A p \in DOMAIN v : v[p].tag \notin FieldTags(s, j)
      BY <2>4, <2>6, TagsApart
    <3>2. At(w \o v, FieldTags(s, j)) = At(w, FieldTags(s, j))
      BY <3>1, <2>6, <1>1
    <3>3. j <= n /\ j <= n + 1
      BY <1>5, <1>0
    <3> QED BY <3>2, <3>3, <1>2
  <2>9. ASSUME NEW p \in DOMAIN s.oneofs
        PROVE  IF c + p <= n + 1
               THEN DeliveredOneOf(s, s.oneofs[p], At(w \o v, OneOfTags(s, p)), m.oneofs[p])
               ELSE DOMAIN At(w \o v, OneOfTags(s, p)) = {}
    <3>1. CASE p = o
      <4>1. c + p <= n + 1
        BY <3>1, <2>1, <1>0
      <4> QED BY <4>1, <3>1, <2>2, <2>4, <2>6
    <3>2. CASE p # o
      <4>1. \A q \in DOMAIN v : v[q].tag \notin OneOfTags(s, p)
        BY <3>2, <2>4, <2>6, TagsApart
      <4>2. At(w \o v, OneOfTags(s, p)) = At(w, OneOfTags(s, p))
        BY <4>1, <2>6, <1>1
      <4>3. p \in Nat /\ o \in Nat /\ o = n + 1 - c
        BY <2>1, <1>0
      <4>4. c + p <= n + 1 <=> c + p <= n
        BY <3>2, <4>3
      <4> QED BY <1>2, <4>2, <4>4
    <3> QED BY <3>1, <3>2
  <2>10. OnWire(s, w \o v, n + 1, m)
    BY <1>0, <2>8, <2>9 DEF OnWire, At
  <2> QED BY <2>6, <2>7, <2>10
<1> QED BY <1>3, <1>4, <1>5

----------------------------------------------------------------------------
(* A struct with one field or oneof replaced, and one more item read.      *)

LEMMA StructParts ==
  ASSUME NEW s, NEW m, IsStruct(s, m)
  PROVE  \E a, b :
           /\ m = [fields |-> a, oneofs |-> b] /\ m.fields = a /\ m.oneofs = b
           /\ a = [i \in VisibleFields(s) |-> a[i]] /\ b = [o \in DOMAIN s.oneofs |-> b[o]]
           /\ \A i \in VisibleFields(s) : a[i] \in HeldBy(s.fields[i])
           /\ \A o \in DOMAIN s.oneofs : b[o] \in HeldByOneOf(s, s.oneofs[o])
<1>1. m = [fields |-> [i \in VisibleFields(s) |-> m.fields[i]],
           oneofs |-> [o \in DOMAIN s.oneofs |-> m.oneofs[o]]]
  BY Zenon DEF IsStruct
<1>2. PICK a, b : a = [i \in VisibleFields(s) |-> m.fields[i]] /\ b = [o \in DOMAIN s.oneofs |-> m.oneofs[o]]
  OBVIOUS
<1>3. m = [fields |-> a, oneofs |-> b]
  BY <1>1, <1>2, Zenon
<1>4. a = [i \in VisibleFields(s) |-> a[i]] /\ b = [o \in DOMAIN s.oneofs |-> b[o]]
  BY <1>2
<1>5. m.fields = a /\ m.oneofs = b
  BY <1>3
<1>6. /\ \A i \in VisibleFields(s) : a[i] \in HeldBy(s.fields[i])
      /\ \A o \in DOMAIN s.oneofs : b[o] \in HeldByOneOf(s, s.oneofs[o])
  BY <1>5 DEF IsStruct
<1> QED BY <1>3, <1>4, <1>5, <1>6

LEMMA StructMade ==
  ASSUME NEW s, NEW a, NEW b,
         a = [i \in VisibleFields(s) |-> a[i]], b = [o \in DOMAIN s.oneofs |-> b[o]],
         \A i \in VisibleFields(s) : a[i] \in HeldBy(s.fields[i]),
         \A o \in DOMAIN s.oneofs : b[o] \in HeldByOneOf(s, s.oneofs[o]),
         NEW u, u = [fields |-> a, oneofs |-> b]
  PROVE  IsStruct(s, u) /\ u.fields = a /\ u.oneofs = b
<1>1. u.fields = a /\ u.oneofs = b
  OBVIOUS
<1> QED BY <1>1 DEF IsStruct

WithField(m, i, x) == [m EXCEPT !.fields[i] = x]
WithOneOf(m, o, x) == [m EXCEPT !.oneofs[o] = x]

LEMMA FieldSet ==
  ASSUME NEW s, NEW m, IsStruct(s, m), NEW i \in VisibleFields(s), NEW x \in HeldBy(s.fields[i])
  PROVE  /\ IsStruct(s, WithField(m, i, x)) /\ WithField(m, i, x).oneofs = m.oneofs
         /\ WithField(m, i, x).fields[i] = x
         /\ \A j \in VisibleFields(s) : j # i => WithField(m, i, x).fields[j] = m.fields[j]
<1>0. PICK u : u = WithField(m, i, x)
  OBVIOUS
<1>1. PICK a, b :
        /\ m = [fields |-> a, oneofs |-> b] /\ m.fields = a /\ m.oneofs = b
        /\ a = [j \in VisibleFields(s) |-> a[j]] /\ b = [o \in DOMAIN s.oneofs |-> b[o]]
        /\ \A j \in VisibleFields(s) : a[j] \in HeldBy(s.fields[j])
        /\ \A o \in DOMAIN s.oneofs : b[o] \in HeldByOneOf(s, s.oneofs[o])
  BY StructParts
<1>2. PICK c : c = [a EXCEPT ![i] = x]
  OBVIOUS
<1>3. u = [fields |-> c, oneofs |-> b]
  BY <1>0, <1>1, <1>2 DEF WithField
<1>4. c = [j \in VisibleFields(s) |-> c[j]]
  BY <1>1, <1>2
<1>5. c[i] = x /\ \A j \in VisibleFields(s) : j # i => c[j] = a[j]
  BY <1>1, <1>2
<1>6. \A j \in VisibleFields(s) : c[j] \in HeldBy(s.fields[j])
  BY <1>1, <1>5
<1>7. IsStruct(s, u) /\ u.fields = c /\ u.oneofs = b
  BY <1>1, <1>3, <1>4, <1>6, StructMade
<1> QED BY <1>0, <1>1, <1>5, <1>7

LEMMA OneOfSet ==
  ASSUME NEW s, NEW m, IsStruct(s, m), NEW o \in DOMAIN s.oneofs, NEW x \in HeldByOneOf(s, s.oneofs[o])
  PROVE  /\ IsStruct(s, WithOneOf(m, o, x)) /\ WithOneOf(m, o, x).fields = m.fields
         /\ WithOneOf(m, o, x).oneofs[o] = x
         /\ \A p \in DOMAIN s.oneofs : p # o => WithOneOf(m, o, x).oneofs[p] = m.oneofs[p]
<1>0. PICK u : u = WithOneOf(m, o, x)
  OBVIOUS
<1>1. PICK a, b :
        /\ m = [fields |-> a, oneofs |-> b] /\ m.fields = a /\ m.oneofs = b
        /\ a = [j \in VisibleFields(s) |-> a[j]] /\ b = [p \in DOMAIN s.oneofs |-> b[p]]
        /\ \A j \in VisibleFields(s) : a[j] \in HeldBy(s.fields[j])
        /\ \A p \in DOMAIN s.oneofs : b[p] \in HeldByOneOf(s, s.oneofs[p])
  BY StructParts
<1>2. PICK c : c = [b EXCEPT ![o] = x]
  OBVIOUS
<1>3. u = [fields |-> a, oneofs |-> c]
  BY <1>0, <1>1, <1>2 DEF WithOneOf
<1>4. c = [p \in DOMAIN s.oneofs |-> c[p]]
  BY <1>1, <1>2
<1>5. c[o] = x /\ \A p \in DOMAIN s.oneofs : p # o => c[p] = b[p]
  BY <1>1, <1>2
<1>6. \A p \in DOMAIN s.oneofs : c[p] \in HeldByOneOf(s, s.oneofs[p])
  BY <1>1, <1>5
<1>7. IsStruct(s, u) /\ u.fields = a /\ u.oneofs = c
  BY <1>1, <1>3, <1>4, <1>6, StructMade
<1> QED BY <1>0, <1>1, <1>5, <1>7

LEMMA FieldIsRead ==
  ASSUME FieldsAssumption, NEW s \in Schemas, NEW m, IsStruct(s, m), NEW w \in Seq(WireItem),
         NEW n \in 0 .. Len(w), n < Len(w), IsReadable(s, w[n + 1]), AsRead(s, w, n, m),
         NEW i \in VisibleFields(s), Tag(s, s.fields[i]) = w[n + 1].tag, NEW u,
         u = WithField(m, i, Stored(s, s.fields[i], m.fields[i], w[n + 1].data))
  PROVE  IsStruct(s, u) /\ AsRead(s, w, n + 1, u)
<1>1. PICK f \in FieldTypes : f = s.fields[i] /\ Declared(s, f)
  BY FieldFacts
<1>2. PICK items, more, d, y :
        /\ items = Having(w, n, FieldTags(s, i)) /\ more = Having(w, n + 1, FieldTags(s, i))
        /\ d = StructDefault(s).fields[i] /\ y = m.fields[i]
  OBVIOUS
<1>3. w[n + 1] \in WireItem /\ n \in Nat /\ w[n + 1].tag \in FieldTags(s, i)
  BY DEF FieldTags
<1>4. DOMAIN items \subseteq 1 .. n
  BY <1>2, HavingFacts
<1>5. /\ DOMAIN more = DOMAIN items \cup {n + 1} /\ more[n + 1] = w[n + 1]
      /\ \A p \in DOMAIN items : more[p] = items[p]
  <2>1. PICK tags : tags = FieldTags(s, i)
    OBVIOUS
  <2>2. /\ DOMAIN Having(w, n + 1, tags) = DOMAIN Having(w, n, tags) \cup {n + 1}
        /\ Having(w, n + 1, tags)[n + 1] = w[n + 1]
        /\ \A p \in DOMAIN Having(w, n, tags) : Having(w, n + 1, tags)[p] = Having(w, n, tags)[p]
    <3>1. w[n + 1].tag \in tags
      BY <1>3, <2>1
    <3>2. /\ DOMAIN Having(w, n + 1, tags) = DOMAIN Having(w, n, tags) \cup {n + 1}
          /\ Having(w, n + 1, tags)[n + 1] = w[n + 1]
      BY <3>1, HavingNext
    <3>3. ASSUME NEW p \in DOMAIN Having(w, n, tags)
          PROVE  Having(w, n + 1, tags)[p] = Having(w, n, tags)[p]
      BY DEF Having
    <3> QED BY <3>2, <3>3
  <2> QED BY <1>2, <2>1, <2>2
<1>6. ~Packed(s, f) => Len(more[n + 1].data) = IF f.label = "Map" THEN 2 ELSE 1
  BY <1>1, <1>5 DEF IsReadable
<1>7. Kept(s, f, items, d, y) /\ y \in HeldBy(f)
  BY <1>1, <1>2 DEF AsRead, IsStruct
<1>8. PICK z : z = Stored(s, f, y, more[n + 1].data)
  OBVIOUS
<1>9. Kept(s, f, more, d, z) /\ z \in HeldBy(f)
  <2>1. f.packed = "true" => f.label = "Repeated"
    BY <1>1 DEF Declared
  <2>2. more[n + 1] \in WireItem
    BY <1>3, <1>5
  <2> QED BY <1>3, <1>4, <1>5, <1>6, <1>7, <1>8, <2>1, <2>2, KeptMore
<1>10. u = WithField(m, i, z)
  BY <1>1, <1>2, <1>5, <1>8
<1>11. /\ IsStruct(s, u) /\ u.oneofs = m.oneofs /\ u.fields[i] = z
       /\ \A j \in VisibleFields(s) : j # i => u.fields[j] = m.fields[j]
  <2>1. z \in HeldBy(s.fields[i])
    BY <1>1, <1>9, Zenon
  <2> QED BY <1>10, <2>1, FieldSet
<1>12. ASSUME NEW j \in VisibleFields(s)
       PROVE  Kept(s, s.fields[j], Having(w, n + 1, FieldTags(s, j)), StructDefault(s).fields[j], u.fields[j])
  <2>1. CASE j = i
    BY <1>1, <1>2, <1>9, <1>11, <2>1
  <2>2. CASE j # i
    <3>1. w[n + 1].tag \notin FieldTags(s, j)
      BY <1>3, <2>2, TagsApart
    <3>2. Having(w, n + 1, FieldTags(s, j)) = Having(w, n, FieldTags(s, j))
      BY <3>1, HavingOther
    <3> QED BY <1>11, <2>2, <3>2 DEF AsRead
  <2> QED BY <2>1, <2>2
<1>13. ASSUME NEW o \in DOMAIN s.oneofs
       PROVE  KeptOneOf(s, s.oneofs[o], Having(w, n + 1, OneOfTags(s, o)), u.oneofs[o])
  <2>1. w[n + 1].tag \notin OneOfTags(s, o)
    BY <1>3, TagsApart
  <2>2. Having(w, n + 1, OneOfTags(s, o)) = Having(w, n, OneOfTags(s, o))
    BY <2>1, HavingOther
  <2> QED BY <1>11, <2>2 DEF AsRead
<1> QED BY <1>11, <1>12, <1>13 DEF AsRead

LEMMA OneOfIsRead ==
  ASSUME FieldsAssumption, NEW s \in Schemas, NEW m, IsStruct(s, m), NEW w \in Seq(WireItem),
         NEW n \in 0 .. Len(w), n < Len(w), IsReadable(s, w[n + 1]), AsRead(s, w, n, m),
         NEW o \in DOMAIN s.oneofs, NEW k \in VisibleVariants(s, s.oneofs[o]),
         Tag(s, s.oneofs[o][k]) = w[n + 1].tag, NEW u,
         u = WithOneOf(m, o, [at |-> k, value |-> ReadFn(s.oneofs[o][k], w[n + 1].data[1])])
  PROVE  IsStruct(s, u) /\ AsRead(s, w, n + 1, u)
<1>1. PICK items, more :
        items = Having(w, n, OneOfTags(s, o)) /\ more = Having(w, n + 1, OneOfTags(s, o))
  OBVIOUS
<1>2. w[n + 1] \in WireItem /\ n \in Nat /\ w[n + 1].tag \in OneOfTags(s, o)
  BY DEF OneOfTags
<1>3. DOMAIN items \subseteq 1 .. n
  BY <1>1, HavingFacts
<1>4. DOMAIN more = DOMAIN items \cup {n + 1} /\ more[n + 1] = w[n + 1]
  BY <1>1, <1>2, HavingNext
<1>5. Len(more[n + 1].data) = 1
  BY <1>4 DEF IsReadable
<1>6. PICK z : z = [at |-> k, value |-> ReadFn(s.oneofs[o][k], more[n + 1].data[1])]
  OBVIOUS
<1>7. KeptOneOf(s, s.oneofs[o], more, z) /\ z \in HeldByOneOf(s, s.oneofs[o])
  <2>1. more[n + 1] \in WireItem /\ more[n + 1].tag = Tag(s, s.oneofs[o][k])
    BY <1>2, <1>4
  <2> QED BY <1>2, <1>3, <1>4, <1>5, <1>6, <2>1, KeptOneOfMore
<1>8. u = WithOneOf(m, o, z)
  BY <1>4, <1>6
<1>9. /\ IsStruct(s, u) /\ u.fields = m.fields /\ u.oneofs[o] = z
      /\ \A p \in DOMAIN s.oneofs : p # o => u.oneofs[p] = m.oneofs[p]
  <2>1. z \in HeldByOneOf(s, s.oneofs[o])
    BY <1>7
  <2>2. /\ IsStruct(s, WithOneOf(m, o, z)) /\ WithOneOf(m, o, z).fields = m.fields
        /\ WithOneOf(m, o, z).oneofs[o] = z
        /\ \A p \in DOMAIN s.oneofs : p # o => WithOneOf(m, o, z).oneofs[p] = m.oneofs[p]
    BY <2>1, OneOfSet, SMTT(60)
  <2> QED BY <1>8, <2>2, Zenon
<1>10. ASSUME NEW j \in VisibleFields(s)
       PROVE  Kept(s, s.fields[j], Having(w, n + 1, FieldTags(s, j)), StructDefault(s).fields[j], u.fields[j])
  <2>1. w[n + 1].tag \notin FieldTags(s, j)
    BY <1>2, TagsApart
  <2>2. Having(w, n + 1, FieldTags(s, j)) = Having(w, n, FieldTags(s, j))
    BY <2>1, HavingOther
  <2> QED BY <1>9, <2>2 DEF AsRead
<1>11. ASSUME NEW p \in DOMAIN s.oneofs
       PROVE  KeptOneOf(s, s.oneofs[p], Having(w, n + 1, OneOfTags(s, p)), u.oneofs[p])
  <2>1. CASE p = o
    BY <1>1, <1>7, <1>9, <2>1
  <2>2. CASE p # o
    <3>1. w[n + 1].tag \notin OneOfTags(s, p)
      BY <1>2, <2>2, TagsApart
    <3>2. Having(w, n + 1, OneOfTags(s, p)) = Having(w, n, OneOfTags(s, p))
      BY <3>1, HavingOther
    <3> QED BY <1>9, <2>2, <3>2 DEF AsRead
  <2> QED BY <2>1, <2>2
<1> QED BY <1>9, <1>10, <1>11 DEF AsRead

LEMMA UnknownIsRead ==
  ASSUME NEW s, NEW m, NEW w \in Seq(WireItem), NEW n \in 0 .. Len(w), n < Len(w), AsRead(s, w, n, m),
         \A i \in VisibleFields(s) : w[n + 1].tag \notin FieldTags(s, i),
         \A o \in DOMAIN s.oneofs : w[n + 1].tag \notin OneOfTags(s, o)
  PROVE  AsRead(s, w, n + 1, m)
<1>1. \A i \in VisibleFields(s) : Having(w, n + 1, FieldTags(s, i)) = Having(w, n, FieldTags(s, i))
  BY HavingOther
<1>2. \A o \in DOMAIN s.oneofs : Having(w, n + 1, OneOfTags(s, o)) = Having(w, n, OneOfTags(s, o))
  BY HavingOther
<1> QED BY <1>1, <1>2 DEF AsRead

----------------------------------------------------------------------------
(* The invariant of writing and reading.                                  *)

LEMMA FieldsInitInv ==
  ASSUME FieldsAssumption, Init
  PROVE  FieldsIInv
<1>1. schema \in Schemas /\ pos = 0 /\ msg = StructDefault(schema)
  BY DEF Init
<1>2. AsRead(schema, wire, pos, msg)
  BY <1>1, NothingRead
<1>3. IsStruct(schema, msg)
  BY <1>1, DefaultIsStruct
<1>4. PICK c, e \in Nat : Slots(schema) = c + e
  BY <1>1, SlotFacts
<1>5. CASE sent \in Structs(schema) /\ slot = 0 /\ wire = <<>>
  <2>1. IsStruct(schema, sent)
    BY <1>1, <1>5 DEF FieldsAssumption
  <2>2. OnWire(schema, wire, slot, sent)
    BY <1>1, <1>5, NothingWritten
  <2>3. FieldsTypeOK
    BY <1>1, <1>3, <1>4, <1>5 DEF FieldsTypeOK
  <2> QED BY <1>2, <2>1, <2>2, <2>3 DEF FieldsIInv
<1>6. CASE sent = None /\ slot = Slots(schema) /\ wire \in Foreign(schema)
  <2>1. wire \in Seq(WireItem) /\ \A p \in DOMAIN wire : IsReadable(schema, wire[p])
    BY <1>1, <1>6 DEF FieldsAssumption
  <2>2. FieldsTypeOK
    BY <1>1, <1>3, <1>4, <1>6, <2>1 DEF FieldsTypeOK
  <2>3. ~(sent # None \/ slot < Slots(schema))
    BY <1>4, <1>6
  <2> QED BY <1>2, <2>2, <2>3 DEF FieldsIInv
<1> QED BY <1>5, <1>6 DEF Init

LEMMA FieldsStepInv ==
  ASSUME FieldsAssumption, FieldsIInv, [Next]_vars
  PROVE  FieldsIInv'
<1>1. PICK s \in Schemas, n \in Nat, w \in Seq(WireItem), at \in Nat, m \in {msg}, t \in {sent} :
        s = schema /\ n = slot /\ w = wire /\ at = pos /\ m = msg /\ t = sent
  BY SlotFacts DEF FieldsIInv, FieldsTypeOK
<1>2. PICK c \in Nat, e \in Nat : Slots(s) = c + e
  BY SlotFacts
<1>3. /\ n \in 0 .. Slots(s) /\ at \in 0 .. Len(w) /\ (n < Slots(s) => at = 0)
      /\ \A p \in DOMAIN w : IsReadable(s, w[p])
      /\ IsStruct(s, m) /\ AsRead(s, w, at, m)
      /\ t # None \/ n < Slots(s) => IsStruct(s, t) /\ OnWire(s, w, n, t)
  BY <1>1 DEF FieldsIInv, FieldsTypeOK
<1>4. ASSUME NEW s2 \in Schemas, NEW n2, NEW w2, NEW at2, NEW m2, NEW t2,
             s2 = schema', n2 = slot', w2 = wire', at2 = pos', m2 = msg', t2 = sent',
             w2 \in Seq(WireItem),
             n2 \in 0 .. Slots(s2), at2 \in 0 .. Len(w2), n2 < Slots(s2) => at2 = 0,
             \A p \in DOMAIN w2 : IsReadable(s2, w2[p]),
             IsStruct(s2, m2), AsRead(s2, w2, at2, m2),
             t2 # None \/ n2 < Slots(s2) => IsStruct(s2, t2) /\ OnWire(s2, w2, n2, t2)
      PROVE  FieldsIInv'
  BY <1>4 DEF FieldsIInv, FieldsTypeOK
<1>5. CASE WriteSlot
  <2>1. n < Slots(s) /\ at = 0
    BY <1>1, <1>3, <1>5 DEF WriteSlot
  <2>2. PICK v \in WriteNth(s, n + 1, t) : wire' = w \o v
    BY <1>1, <1>5 DEF WriteSlot
  <2>3. /\ v \in Seq(WireItem)
        /\ \A p \in DOMAIN v : IsReadable(s, v[p])
        /\ OnWire(s, w \o v, n + 1, t)
    BY <1>3, <2>1, OneMoreWritten
  <2>10. v \in Seq(WireItem)
    BY <2>3
  <2>11. w \o v \in Seq(WireItem)
    BY <2>10
  <2>4. PICK w2 \in Seq(WireItem) : w2 = w \o v
    BY <2>11
  <2>5. \A p \in DOMAIN w2 : IsReadable(s, w2[p])
    <3> TAKE p \in DOMAIN w2
    <3>1. CASE p <= Len(w)
      <4>1. p \in DOMAIN w /\ w2[p] = w[p]
        BY <2>3, <2>4, <3>1
      <4> QED BY <4>1, <1>3
    <3>2. CASE ~(p <= Len(w))
      <4>1. p - Len(w) \in DOMAIN v /\ w2[p] = v[p - Len(w)]
        BY <2>3, <2>4, <3>2
      <4> QED BY <4>1, <2>3
    <3> QED BY <3>1, <3>2
  <2>6. AsRead(s, w2, 0, m)
    <3>1. \A tags : Having(w2, 0, tags) = Having(w, 0, tags)
      BY HavingNone
    <3> QED BY <1>3, <2>1, <3>1 DEF AsRead
  <2>7. /\ s = schema' /\ n + 1 = slot' /\ w2 = wire' /\ 0 = pos' /\ m = msg' /\ t = sent'
    BY <1>1, <1>5, <2>1, <2>2, <2>4 DEF WriteSlot
  <2>8. n + 1 \in 0 .. Slots(s) /\ 0 \in 0 .. Len(w2)
    BY <1>2, <2>1
  <2>9. IsStruct(s, t) /\ OnWire(s, w2, n + 1, t)
    BY <1>3, <2>1, <2>3, <2>4
  <2> QED BY <1>3, <1>4, <2>5, <2>6, <2>7, <2>8, <2>9
<1>6. ASSUME NEW u, msg' = u, ReadItem(u), IsStruct(s, u), AsRead(s, w, at + 1, u)
      PROVE  FieldsIInv'
  <2>1. /\ s = schema' /\ n = slot' /\ w = wire' /\ at + 1 = pos' /\ u = msg' /\ t = sent'
    BY <1>1, <1>6 DEF ReadItem
  <2>2. n = Slots(s) /\ at < Len(w)
    BY <1>1, <1>6 DEF ReadItem, Reading
  <2>3. at + 1 \in 0 .. Len(w) /\ ~(n < Slots(s))
    BY <1>2, <2>2
  <2> QED BY <1>3, <1>4, <1>6, <2>1, <2>3
<1>7. ASSUME Reading
      PROVE  at \in 0 .. Len(w) /\ at < Len(w) /\ Here = w[at + 1] /\ IsReadable(s, w[at + 1])
  <2>1. at < Len(w) /\ Here = w[at + 1]
    BY <1>1, <1>7 DEF Reading, Here
  <2>2. at + 1 \in DOMAIN w
    BY <2>1
  <2> QED BY <1>3, <2>1, <2>2
<1>8. CASE ReadField
  <2>1. PICK i \in FieldsWith(Here.tag) :
          ReadItem([msg EXCEPT !.fields[i] = Stored(schema, schema.fields[i], msg.fields[i], Here.data)])
    BY <1>8 DEF ReadField
  <2>2. Reading
    BY <1>8 DEF ReadField
  <2>3. i \in VisibleFields(s) /\ Tag(s, s.fields[i]) = w[at + 1].tag
    BY <1>1, <1>7, <2>1, <2>2 DEF FieldsWith
  <2>4. PICK u : u = WithField(m, i, Stored(s, s.fields[i], m.fields[i], w[at + 1].data))
    OBVIOUS
  <2>5. ReadItem(u)
    BY <1>1, <1>7, <2>1, <2>2, <2>4 DEF WithField
  <2>6. IsStruct(s, u) /\ AsRead(s, w, at + 1, u)
    <3>1. /\ IsStruct(s, m) /\ AsRead(s, w, at, m)
          /\ at \in 0 .. Len(w) /\ at < Len(w) /\ IsReadable(s, w[at + 1])
      BY <1>3, <1>7, <2>2
    <3> QED BY <2>3, <2>4, <3>1, FieldIsRead
  <2>7. msg' = u
    BY <2>5 DEF ReadItem
  <2> QED BY <1>6, <2>5, <2>6, <2>7
<1>9. CASE ReadOneOf
  <2>1. PICK v \in VariantsWith(Here.tag) :
          ReadItem([msg EXCEPT !.oneofs[v[1]] =
                      [at |-> v[2], value |-> ReadFn(schema.oneofs[v[1]][v[2]], Here.data[1])]])
    BY <1>9 DEF ReadOneOf
  <2>2. Reading
    BY <1>9 DEF ReadOneOf
  <2>8. PICK o \in DOMAIN s.oneofs :
          \E k \in VisibleVariants(s, s.oneofs[o]) :
            v[1] = o /\ v[2] = k /\ Tag(s, s.oneofs[o][k]) = w[at + 1].tag
    BY <1>1, <1>7, <2>1, <2>2 DEF VariantsWith
  <2>3. PICK k \in VisibleVariants(s, s.oneofs[o]) :
          v[1] = o /\ v[2] = k /\ Tag(s, s.oneofs[o][k]) = w[at + 1].tag
    BY <2>8
  <2>4. PICK u : u = WithOneOf(m, o, [at |-> k, value |-> ReadFn(s.oneofs[o][k], w[at + 1].data[1])])
    OBVIOUS
  <2>5. ReadItem(u)
    BY <1>1, <1>7, <2>1, <2>2, <2>3, <2>4 DEF WithOneOf
  <2>6. IsStruct(s, u) /\ AsRead(s, w, at + 1, u)
    <3>1. /\ IsStruct(s, m) /\ AsRead(s, w, at, m)
          /\ at \in 0 .. Len(w) /\ at < Len(w) /\ IsReadable(s, w[at + 1])
      BY <1>3, <1>7, <2>2
    <3> QED BY <2>3, <2>4, <3>1, OneOfIsRead
  <2>7. msg' = u
    BY <2>5 DEF ReadItem
  <2> QED BY <1>6, <2>5, <2>6, <2>7
<1>10. CASE ReadUnknown
  <2>1. Reading /\ ReadItem(m)
    BY <1>1, <1>10 DEF ReadUnknown
  <2>2. \A i \in VisibleFields(s) : w[at + 1].tag \notin FieldTags(s, i)
    BY <1>1, <1>7, <1>10, <2>1 DEF ReadUnknown, FieldsWith, FieldTags
  <2>3. \A o \in DOMAIN s.oneofs : w[at + 1].tag \notin OneOfTags(s, o)
    <3>1. VariantsWith(w[at + 1].tag) = {}
      BY <1>7, <1>10, <2>1 DEF ReadUnknown
    <3>2. ASSUME NEW o \in DOMAIN s.oneofs, NEW k \in VisibleVariants(s, s.oneofs[o]),
                 Tag(s, s.oneofs[o][k]) = w[at + 1].tag
          PROVE  FALSE
      <4>1. <<o, k>> \in VariantsWith(w[at + 1].tag)
        BY <1>1, <3>2 DEF VariantsWith
      <4> QED BY <3>1, <4>1
    <3> QED BY <3>2 DEF OneOfTags
  <2>4. AsRead(s, w, at + 1, m)
    BY <1>3, <1>7, <2>1, <2>2, <2>3, UnknownIsRead
  <2>5. msg' = m
    BY <2>1 DEF ReadItem
  <2> QED BY <1>3, <1>6, <2>1, <2>4, <2>5
<1>11. CASE TryInto
  <2>1. PICK d : d = StructDefault(s)
    OBVIOUS
  <2>2. s = schema' /\ 0 = slot' /\ << >> = wire' /\ 0 = pos' /\ d = msg' /\ m = sent'
    BY <1>1, <1>11, <2>1 DEF TryInto
  <2>3. IsStruct(s, d) /\ AsRead(s, << >>, 0, d)
    BY <2>1, DefaultIsStruct, NothingRead
  <2>4. OnWire(s, << >>, 0, m)
    BY NothingWritten
  <2>5. /\ << >> \in Seq(WireItem) /\ 0 \in 0 .. Slots(s) /\ 0 \in 0 .. Len(<< >>)
        /\ DOMAIN << >> = {}
    BY <1>2
  <2> QED BY <1>3, <1>4, <2>2, <2>3, <2>4, <2>5
<1>12. CASE UNCHANGED vars
  <2>1. s = schema' /\ n = slot' /\ w = wire' /\ at = pos' /\ m = msg' /\ t = sent'
    BY <1>1, <1>12 DEF vars
  <2> QED BY <1>3, <1>4, <2>1
<1> QED BY <1>5, <1>8, <1>9, <1>10, <1>11, <1>12 DEF Next

(* At every moment of writing and reading: the struct read so far is of    *)
(* its message, it has kept of the items read what should be kept, and the *)
(* items written are those of the fields and oneofs gone through.          *)
THEOREM FieldsInvariant == Spec => []FieldsIInv
<1> USE FieldsAssumption
<1>1. Init => FieldsIInv
  BY FieldsInitInv
<1>2. FieldsIInv /\ [Next]_vars => FieldsIInv'
  BY FieldsStepInv
<1> QED BY <1>1, <1>2, PTL DEF Spec

(* What from_reader gives of what write_message wrote is the message, but  *)
(* for a proto3 field whose declared default Default does not give.        *)
THEOREM MessagesComeBack == Spec => []RoundTrip
<1> USE FieldsAssumption
<1>1. FieldsIInv => RoundTrip
  <2> SUFFICES ASSUME FieldsIInv, Done, sent # None
               PROVE  /\ msg.oneofs = sent.oneofs
                      /\ \A i \in DOMAIN msg.fields :
                           \/ msg.fields[i] = sent.fields[i]
                           \/ schema.syntax = "proto3" /\ DefaultsDiffer(schema, i)
    BY DEF RoundTrip
  <2>1. /\ schema \in Schemas /\ slot = Slots(schema) /\ pos = Len(wire) /\ wire \in Seq(WireItem)
        /\ IsStruct(schema, msg) /\ IsStruct(schema, sent)
        /\ AsRead(schema, wire, Len(wire), msg) /\ OnWire(schema, wire, Slots(schema), sent)
    BY DEF FieldsIInv, FieldsTypeOK, Done
  <2>2. PICK s \in Schemas, w \in Seq(WireItem), n \in Nat : s = schema /\ w = wire /\ n = Len(w)
    BY <2>1
  <2>3. PICK c, e \in Nat :
          /\ c = Len(s.fields) /\ e = Len(s.oneofs) /\ Slots(s) = c + e
          /\ DOMAIN s.fields = 1 .. c /\ DOMAIN s.oneofs = 1 .. e
          /\ \A i \in VisibleFields(s) : i \in Nat /\ 1 <= i /\ i <= c
          /\ \A o \in DOMAIN s.oneofs : o \in Nat /\ 1 <= o /\ o <= e
    BY SlotFacts
  <2>4. PICK a, b : /\ msg.fields = a /\ msg.oneofs = b
                    /\ a = [i \in VisibleFields(s) |-> a[i]] /\ b = [o \in DOMAIN s.oneofs |-> b[o]]
                    /\ \A i \in VisibleFields(s) : a[i] \in HeldBy(s.fields[i])
    BY <2>1, <2>2, StructParts
  <2>5. PICK x, y : /\ sent.fields = x /\ sent.oneofs = y /\ y = [o \in DOMAIN s.oneofs |-> y[o]]
                    /\ \A i \in VisibleFields(s) : x[i] \in HeldBy(s.fields[i])
                    /\ \A o \in DOMAIN s.oneofs : y[o] \in HeldByOneOf(s, s.oneofs[o])
    BY <2>1, <2>2, StructParts
  <2>6. \A tags : DOMAIN Having(w, n, tags) \subseteq 1 .. n
    <3>1. n \in 0 .. Len(w)
      BY <2>2
    <3> QED BY <3>1, HavingFacts, Zenon
  <2>7. ASSUME NEW o \in DOMAIN s.oneofs
        PROVE  b[o] = y[o]
    <3>0. c \in Nat /\ e \in Nat /\ o \in Nat /\ o <= e
      BY <2>3, Zenon
    <3>1. c + o <= c + e
      BY <3>0
    <3>2. PICK items : items = Having(w, n, OneOfTags(s, o)) /\ DOMAIN items \subseteq 1 .. n
      BY <2>6
    <3>3. KeptOneOf(s, s.oneofs[o], items, b[o])
      BY <2>1, <2>2, <2>4, <3>2 DEF AsRead
    <3>5. OnWire(s, w, c + e, sent) /\ c = Len(s.fields) /\ n = Len(w) /\ sent.oneofs = y
      BY <2>1, <2>2, <2>3, <2>5, Zenon
    <3>4. DeliveredOneOf(s, s.oneofs[o], items, y[o])
      BY <3>1, <3>2, <3>5 DEF OnWire
    <3> QED BY <2>5, <3>2, <3>3, <3>4, OneOfComesBack
  <2>8. ASSUME NEW i \in VisibleFields(s)
        PROVE  a[i] = x[i] \/ (s.syntax = "proto3" /\ DefaultsDiffer(s, i))
    <3>0. c \in Nat /\ e \in Nat /\ i \in Nat /\ i <= c
      BY <2>3, Zenon
    <3>1. i <= c + e
      BY <3>0
    <3>2. PICK items, f, d : /\ items = Having(w, n, FieldTags(s, i)) /\ DOMAIN items \subseteq 1 .. n
                             /\ f = s.fields[i] /\ d = StructDefault(s).fields[i]
      BY <2>6
    <3>3. Kept(s, f, items, d, a[i])
      BY <2>1, <2>2, <2>4, <3>2 DEF AsRead
    <3>7. OnWire(s, w, c + e, sent) /\ n = Len(w) /\ sent.fields = x
      BY <2>1, <2>2, <2>3, <2>5, Zenon
    <3>4. Delivered(s, f, items, x[i])
      BY <3>1, <3>2, <3>7 DEF OnWire
    <3>5. a[i] \in HeldBy(f) /\ x[i] \in HeldBy(f)
      BY <2>4, <2>5, <3>2
    <3>6. a[i] = x[i] \/ (s.syntax = "proto3" /\ FieldDefault(f) # d)
      <4>1. f = s.fields[i] /\ d = StructDefault(s).fields[i] /\ n \in Nat /\ DOMAIN items \subseteq 1 .. n
        BY <3>2
      <4>2. PICK xa \in HeldBy(f), xb \in HeldBy(f) : xa = a[i] /\ xb = x[i]
        BY <3>5
      <4>3. Kept(s, f, items, d, xa) /\ Delivered(s, f, items, xb)
        BY <3>3, <3>4, <4>2
      <4>4. xa = xb \/ (s.syntax = "proto3" /\ FieldDefault(f) # d)
        BY <4>1, <4>2, <4>3, FieldComesBack
      <4> QED BY <4>2, <4>4
    <3> QED BY <3>2, <3>6 DEF DefaultsDiffer
  <2>9. b = y
    BY <2>4, <2>5, <2>7
  <2>10. DOMAIN msg.fields = VisibleFields(s)
    BY <2>4
  <2> QED BY <2>2, <2>4, <2>5, <2>8, <2>9, <2>10
<1> QED BY <1>1, FieldsInvariant, PTL

(* At every moment of reading what anybody wrote, each field has the last  *)
(* of its values, or all of them, as its label asks.                       *)
THEOREM LastOccurrenceIsKept == Spec => []LastOccurrenceCounts
<1> USE FieldsAssumption
<1>1. FieldsIInv => LastOccurrenceCounts
  <2> SUFFICES ASSUME FieldsIInv
               PROVE  LastOccurrenceCounts
    OBVIOUS
  <2>1. PICK s \in Schemas, w \in Seq(WireItem), n \in Nat, m \in {msg} :
          /\ s = schema /\ w = wire /\ n = pos /\ m = msg /\ n \in 0 .. Len(w)
          /\ IsStruct(s, m) /\ AsRead(s, w, n, m) /\ \A p \in DOMAIN w : IsReadable(s, w[p])
    BY DEF FieldsIInv, FieldsTypeOK
  <2>2. DOMAIN m.fields = VisibleFields(s)
    BY <2>1, StructParts
  <2>3. ASSUME NEW i \in VisibleFields(s), NEW f, f = s.fields[i], NEW x, x = m.fields[i]
        PROVE  Kept(s, f, Having(w, n, FieldTags(s, i)),
                    IF f.default # NoDefault /\ s.syntax = "proto2" THEN f.default
                    ELSE IF IsOptional(f) THEN None ELSE TypeDefault(f),
                    IF HasGetter(s, f) THEN Getter(f, x) ELSE x)
    <3>1. PICK items, d : items = Having(w, n, FieldTags(s, i)) /\ d = StructDefault(s).fields[i]
      OBVIOUS
    <3>2. DOMAIN items \subseteq 1 .. n /\ n \in Nat
      <4>1. n \in 0 .. Len(w) /\ n \in Nat
        BY <2>1
      <4> QED BY <3>1, <4>1, HavingFacts, Zenon
    <3>3. ASSUME NEW p \in DOMAIN items
          PROVE  /\ items[p] \in WireItem
                 /\ ~Packed(s, f) => Len(items[p].data) = IF f.label = "Map" THEN 2 ELSE 1
      <4>1. p \in DOMAIN w /\ items[p] = w[p] /\ w[p] \in WireItem /\ w[p].tag \in FieldTags(s, i)
        <5>1. n \in 0 .. Len(w)
          BY <2>1
        <5>2. p \in DOMAIN Having(w, n, FieldTags(s, i))
          BY <3>1
        <5>3. /\ p \in DOMAIN w /\ Having(w, n, FieldTags(s, i))[p] = w[p] /\ w[p] \in WireItem
              /\ w[p].tag \in FieldTags(s, i)
          BY <5>1, <5>2, HavingFacts
        <5> QED BY <3>1, <5>3
      <4>2. IsReadable(s, w[p]) /\ w[p].tag = Tag(s, f)
        BY <2>1, <2>3, <4>1 DEF FieldTags
      <4> QED BY <2>3, <4>1, <4>2 DEF IsReadable
    <3>4. Kept(s, f, items, d, x)
      BY <2>1, <2>3, <3>1 DEF AsRead
    <3> QED BY <2>3, <3>1, <3>2, <3>3, <3>4, KeptAsDeclared
  <2>4. \A i \in DOMAIN s.fields :
          i \in VisibleFields(s) <=> ~(s.fields[i].deprecated /\ ~s.add_deprecated_fields)
    BY DEF VisibleFields, IsVisible
  <2>5. \A o \in DOMAIN s.oneofs : KeptOneOf(s, s.oneofs[o], Having(w, n, OneOfTags(s, o)), m.oneofs[o])
    BY <2>1 DEF AsRead
  <2> QED BY <2>1, <2>2, <2>3, <2>4, <2>5 DEF LastOccurrenceCounts
<1> QED BY <1>1, FieldsInvariant, PTL
=============================================================================

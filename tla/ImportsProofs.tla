--------------------------- MODULE ImportsProofs ---------------------------
(***************************************************************************)
(* What read_proto gives for a file and what it fails for, for any files   *)
(* that import each other in any way.                                      *)
(***************************************************************************)
EXTENDS Imports, FiniteSetTheorems, SequenceTheorems, TLAPS

----------------------------------------------------------------------------
(* The inductive invariant. *)

Modules == { <<f>> : f \in Files } \cup Seq(STRING)
Item == [file : Files, package : Seq(STRING), module : Modules, imported : BOOLEAN]
Frame == [file : Files, next : Nat, items : Seq(Item)]

ImportsTypeOK ==
  /\ tree \in Trees
  /\ calls \in Seq(Frame) /\ calls # <<>>
  /\ links \in Seq(Nat)

(* The imports of the call's file, and the files of its items, are there. *)
InTree(fr) ==
  /\ fr.file \in DOMAIN tree
  /\ fr.next \in 1 .. (Len(tree[fr.file].imports) + 1)
  /\ \A i \in DOMAIN fr.items : fr.items[i].file \in DOMAIN tree

(* The call's own item is the first, and the only one not imported. *)
OwnFirst(fr) ==
  /\ fr.items # <<>> /\ fr.items[1] = Parsed(fr.file)
  /\ \A i \in DOMAIN fr.items : fr.items[i].imported <=> i # 1

(* A file that was read through: all it needs is there and without cycles. *)
Sound(g) ==
  /\ g \in DOMAIN tree
  /\ \A h \in Files : h = g \/ Reaches(g, h) => h \in DOMAIN tree /\ ~Reaches(h, h)

DoneAreSound(fr) ==
  \A n \in DOMAIN tree[fr.file].imports : n < fr.next => Sound(tree[fr.file].imports[n])

(* Any other item is of an import of the call's file or of what it reaches. *)
ImportedBelow(fr) ==
  \A i \in DOMAIN fr.items : i # 1 =>
    \E g \in Files : (g = fr.file \/ Reaches(fr.file, g)) /\ fr.items[i].file \in Imports(g)

(* What is imported by a file other than the root. *)
Inner == UNION { Imports(g) : g \in Reachable \ {Root} }
Owned(fr, i) ==
  /\ fr.items[i].module = ModuleOf(fr.items[i].file)
  /\ fr.items[i].package = tree[fr.items[i].file].package
OwnedKept(fr) ==
  \A i \in DOMAIN fr.items :
    LET f == fr.items[i].file IN
    tree[f].package # <<>> \/ f \notin Inner => Owned(fr, i)

(* The k-th import of the file of the i-th item, if it was read by now. *)
Way(fr, i, k) ==
  /\ i \in DOMAIN fr.items
  /\ k \in DOMAIN tree[fr.items[i].file].imports
  /\ i = 1 => k < fr.next
(* No two items have the same way. *)
Apart(D, by, nth) ==
  \A i, j \in D : i # 1 /\ j # 1 /\ by[i] = by[j] /\ nth[i] = nth[j] => i = j
(* Every way has an item. *)
Listed(fr, D, by, nth) ==
  \A i, k \in Nat : Way(fr, i, k) => \E j \in D : j # 1 /\ by[j] = i /\ nth[j] = k
(* Every item but the first has its own way in, and every way its item. *)
OneWayEach(fr, by, nth) ==
  /\ \A j \in DOMAIN fr.items : j # 1 =>
       /\ Way(fr, by[j], nth[j])
       /\ fr.items[j].file = tree[fr.items[by[j]].file].imports[nth[j]]
  /\ Apart(DOMAIN fr.items, by, nth)
  /\ Listed(fr, DOMAIN fr.items, by, nth)
CopiedPerWay(fr) == \E by, nth \in [DOMAIN fr.items -> Nat] : OneWayEach(fr, by, nth)

FrameOK(fr) ==
  /\ InTree(fr)
  /\ OwnFirst(fr)
  /\ DoneAreSound(fr)
  /\ ImportedBelow(fr)
  /\ OwnedKept(fr)
  /\ CopiedPerWay(fr)

GoodFrames == { fr \in Frame : FrameOK(fr) }

(* Each call is for the import that its caller is at. *)
CallChain ==
  /\ calls[1].file = Root
  /\ \A c \in DOMAIN calls : c + 1 \in DOMAIN calls =>
       /\ calls[c].next \in DOMAIN tree[calls[c].file].imports
       /\ calls[c + 1].file = tree[calls[c].file].imports[calls[c].next]
  /\ \A c, d \in DOMAIN calls : c < d => Reaches(calls[c].file, calls[d].file)

EndsWithAllRead ==
  result \in {"ok", "MessageOrEnumNotFound"} =>
    Len(calls) = 1 /\ calls[1].next > Len(tree[Root].imports)

FailsForACause ==
  /\ result = "InvalidImport" => ~(Reachable \subseteq DOMAIN tree)
  /\ result = "overflow" => \E f \in Reachable : Reaches(f, f)

ImportsIInv ==
  /\ ImportsTypeOK
  /\ calls \in Seq(GoodFrames)
  /\ CallChain
  /\ EndsWithAllRead
  /\ FailsForACause
  /\ NotFoundIsNotThere

----------------------------------------------------------------------------
(* Facts about the files and what they reach. *)

(* The assumption on Trees, for the tree of a state. *)
LEMMA TreeFacts ==
  ASSUME tree \in Trees
  PROVE  /\ DOMAIN tree \subseteq Files /\ Root \in DOMAIN tree
         /\ \A f \in DOMAIN tree :
              /\ tree[f].imports \in Seq(Files) /\ tree[f].package \in Seq(STRING)
              /\ tree[f].kind \in {"message", "enum"} /\ tree[f].name \in STRING
              /\ tree[f].ref \in [absolute : BOOLEAN, name : Seq(STRING)]
              /\ \A n \in DOMAIN tree[f].imports : tree[f].imports[n] \in Files
BY ImportsAssumption

(* What a file imports: the members of its list, which are files. *)
LEMMA ImportsFacts ==
  ASSUME tree \in Trees
  PROVE  /\ \A f : Imports(f) \subseteq Files
         /\ \A f \in DOMAIN tree : \A n \in DOMAIN tree[f].imports :
              tree[f].imports[n] \in Imports(f)
         /\ \A f, g : g \in Imports(f) =>
              f \in DOMAIN tree /\ \E n \in DOMAIN tree[f].imports : g = tree[f].imports[n]
BY TreeFacts DEF Imports, ToSet

(* An import is reached. *)
LEMMA ReachesImports ==
  ASSUME NEW f, NEW g \in Imports(f)
  PROVE  Reaches(f, g)
BY DEF Reaches

(* What is reached is closed under imports. *)
LEMMA ReachesClosed ==
  ASSUME NEW f, NEW g, NEW h \in Imports(g), Reaches(f, g)
  PROVE  Reaches(f, h)
BY DEF Reaches, ClosedUnder

(* What is reached from what is reached is reached. *)
LEMMA ReachesTransitive ==
  ASSUME NEW f, NEW g, NEW h, Reaches(f, g), Reaches(g, h)
  PROVE  Reaches(f, h)
BY DEF Reaches, ClosedUnder

(* Any set that is closed holds what its members reach. *)
LEMMA ReachesInside ==
  ASSUME NEW S \in SUBSET Files, ClosedUnder(S), NEW f \in S, NEW g, Reaches(f, g)
  PROVE  g \in S
BY DEF Reaches, ClosedUnder

(* What a file reaches is a file. *)
LEMMA ReachesFiles ==
  ASSUME tree \in Trees, NEW f, NEW g, Reaches(f, g)
  PROVE  g \in Files
BY ImportsFacts DEF Reaches, ClosedUnder

(* A file is reached by way of an import. *)
LEMMA ReachesByImport ==
  ASSUME tree \in Trees, NEW f, NEW g, Reaches(f, g)
  PROVE  \E m \in Imports(f) : g = m \/ Reaches(m, g)
<1> DEFINE S == { h \in Files : \E m \in Imports(f) : h = m \/ Reaches(m, h) }
<1>1. Imports(f) \subseteq S
  BY ImportsFacts
<1>2. ClosedUnder(S)
  BY ImportsFacts, ReachesImports, ReachesClosed DEF ClosedUnder
<1>3. QED
  BY <1>1, <1>2 DEF Reaches

(* What is reachable is closed under imports. *)
LEMMA ReachableClosed ==
  ASSUME tree \in Trees
  PROVE  /\ Reachable \subseteq Files
         /\ \A f \in Reachable : \A g \in Imports(f) : g \in Reachable /\ Reaches(Root, g)
         /\ \A f \in Reachable, g \in Files : Reaches(f, g) => g \in Reachable
<1>1. Reachable \subseteq Files
  BY TreeFacts DEF Reachable
<1>2. \A f \in Reachable : \A g \in Imports(f) : g \in Reachable /\ Reaches(Root, g)
  BY ImportsFacts, ReachesImports, ReachesClosed DEF Reachable
<1>3. \A f \in Reachable, g \in Files : Reaches(f, g) => g \in Reachable
  BY ReachesTransitive DEF Reachable
<1>4. QED
  BY <1>1, <1>2, <1>3

(* A file is sound if its imports are: a cycle would go through one of them. *)
LEMMA SoundByImports ==
  ASSUME tree \in Trees, NEW f \in DOMAIN tree, \A m \in Imports(f) : Sound(m)
  PROVE  Sound(f)
<1>1. ASSUME NEW h \in Files, Reaches(f, h)
      PROVE  h \in DOMAIN tree /\ ~Reaches(h, h)
  BY <1>1, ReachesByImport DEF Sound
<1>2. ~Reaches(f, f)
  BY <1>1, TreeFacts
<1>3. QED
  BY <1>1, <1>2 DEF Sound

(* A sound file is not the root if the root reaches it, nor is what it *)
(* reaches: the root would reach itself.                               *)
LEMMA SoundIsNotRoot ==
  ASSUME tree \in Trees, NEW f, Sound(f), Reaches(Root, f),
         NEW g, g = f \/ Reaches(f, g)
  PROVE  g \in Reachable \ {Root}
<1>1. g \in Files
  BY TreeFacts, ReachesFiles DEF Sound
<1>2. ~Reaches(g, g)
  BY <1>1 DEF Sound
<1>3. Reaches(Root, g)
  BY ReachesTransitive
<1>4. QED
  BY <1>1, <1>2, <1>3 DEF Reachable

----------------------------------------------------------------------------
(* No step changes the files. *)

(* While the tree is the same, so is all that is said of it. *)
LEMMA SameTree ==
  ASSUME tree' = tree
  PROVE  /\ \A f : ModuleOf(f)' = ModuleOf(f)
         /\ \A f : Parsed(f)' = Parsed(f)
         /\ \A f, g : Reaches(f, g)' <=> Reaches(f, g)
         /\ Reachable' = Reachable
         /\ \A f : Sound(f)' <=> Sound(f)
         /\ \A f : Imports(f)' = Imports(f)
         /\ Inner' = Inner
<1>1. \A f : ModuleOf(f)' = ModuleOf(f)
  BY DEF ModuleOf
<1>2. \A f : Parsed(f)' = Parsed(f)
  BY <1>1 DEF Parsed
<1>3. \A f : Imports(f)' = Imports(f)
  BY DEF Imports
<1>4. \A S : ClosedUnder(S)' <=> ClosedUnder(S)
  BY <1>3 DEF ClosedUnder
<1>5. \A f, g : Reaches(f, g)' <=> Reaches(f, g)
  BY <1>3, <1>4 DEF Reaches
<1>6. Reachable' = Reachable
  BY <1>5 DEF Reachable
<1>7. \A f : Sound(f)' <=> Sound(f)
  BY <1>5 DEF Sound
<1>8. Inner' = Inner
  BY <1>3, <1>6 DEF Inner
<1>9. QED
  BY <1>1, <1>2, <1>3, <1>5, <1>6, <1>7, <1>8

(* And a frame that was as it should be remains so. *)
LEMMA SameFrames ==
  ASSUME tree' = tree
  PROVE  GoodFrames' = GoodFrames
<1> SUFFICES ASSUME NEW fr
             PROVE  FrameOK(fr)' <=> FrameOK(fr)
  BY DEF GoodFrames
<1>1. InTree(fr)' <=> InTree(fr)
  BY DEF InTree
<1>2. OwnFirst(fr)' <=> OwnFirst(fr)
  BY SameTree DEF OwnFirst
<1>3. DoneAreSound(fr)' <=> DoneAreSound(fr)
  BY SameTree DEF DoneAreSound
<1>4. ImportedBelow(fr)' <=> ImportedBelow(fr)
  BY SameTree DEF ImportedBelow
<1>5. OwnedKept(fr)' <=> OwnedKept(fr)
  BY SameTree DEF OwnedKept, Owned
<1>6. \A i, k : Way(fr, i, k)' <=> Way(fr, i, k)
  BY DEF Way
<1>7. \A by, nth : OneWayEach(fr, by, nth)' <=> OneWayEach(fr, by, nth)
  BY <1>6 DEF OneWayEach, Apart, Listed
<1>8. CopiedPerWay(fr)' <=> CopiedPerWay(fr)
  BY <1>7 DEF CopiedPerWay
<1>9. QED
  BY <1>1, <1>2, <1>3, <1>4, <1>5, <1>8 DEF FrameOK

----------------------------------------------------------------------------
(* A call begins. *)

(* The item of a file, as it is parsed. *)
LEMMA ParsedFacts ==
  ASSUME tree \in Trees, NEW f \in DOMAIN tree
  PROVE  /\ Parsed(f) \in Item
         /\ ModuleOf(f) \in Modules
         /\ Parsed(f).file = f /\ ~Parsed(f).imported
         /\ Parsed(f).module = ModuleOf(f) /\ Parsed(f).package = tree[f].package
<1>1. f \in Files /\ tree[f].package \in Seq(STRING)
  BY TreeFacts
<1>2. ModuleOf(f) \in Modules
  BY <1>1 DEF ModuleOf, Modules
<1>3. QED
  BY <1>1, <1>2 DEF Parsed, Item

(* A call has its own item only, and no import was read. *)
LEMMA CallOK ==
  ASSUME tree \in Trees, NEW f \in DOMAIN tree
  PROVE  Call(f) \in Frame /\ Call(f).file = f /\ Call(f).next = 1 /\ FrameOK(Call(f))
<1> DEFINE fr == Call(f)
<1>1. /\ fr.file = f /\ fr.next = 1 /\ fr.items = << Parsed(f) >>
      /\ fr.items[1] = Parsed(f) /\ DOMAIN fr.items = {1}
      /\ fr.items \in Seq(Item) /\ fr.items # <<>>
  BY ParsedFacts DEF Call
<1>2. f \in Files /\ tree[f].imports \in Seq(Files)
  BY TreeFacts
<1>3. fr \in Frame
  BY <1>1, <1>2 DEF Call, Frame
<1> HIDE DEF fr
<1>4. InTree(fr)
  BY <1>1, <1>2, ParsedFacts DEF InTree
<1>5. OwnFirst(fr)
  BY <1>1, ParsedFacts DEF OwnFirst
<1>6. DoneAreSound(fr)
  BY <1>1, <1>2 DEF DoneAreSound
<1>7. ImportedBelow(fr)
  BY <1>1 DEF ImportedBelow
<1>8. OwnedKept(fr)
  BY <1>1, ParsedFacts DEF OwnedKept, Owned
<1>9. CopiedPerWay(fr)
  <2>1. \A i, k \in Nat : ~Way(fr, i, k)
    BY <1>1, <1>2, ParsedFacts DEF Way
  <2>2. OneWayEach(fr, [i \in DOMAIN fr.items |-> 0], [i \in DOMAIN fr.items |-> 0])
    BY <1>1, <2>1 DEF OneWayEach, Apart, Listed
  <2>3. [i \in DOMAIN fr.items |-> 0] \in [DOMAIN fr.items -> Nat]
    OBVIOUS
  <2>4. QED
    BY <2>2, <2>3 DEF CopiedPerWay
<1>10. QED
  BY <1>1, <1>3, <1>4, <1>5, <1>6, <1>7, <1>8, <1>9 DEF FrameOK, fr

(* The first call is for the root, and nothing has failed. *)
LEMMA ImportsInit == Init => ImportsIInv
<1> SUFFICES ASSUME Init
             PROVE  ImportsIInv
  OBVIOUS
<1>1. tree \in Trees /\ Root \in DOMAIN tree
  BY TreeFacts DEF Init
<1>2. calls = << Call(Root) >> /\ Call(Root) \in Frame
  BY <1>1, CallOK DEF Init
<1>3. calls \in Seq(Frame) /\ calls # <<>> /\ DOMAIN calls = {1} /\ calls[1] = Call(Root)
  BY <1>2
<1>4. ImportsTypeOK
  BY <1>1, <1>3 DEF ImportsTypeOK, Init
<1>5. calls \in Seq(GoodFrames)
  BY <1>1, <1>2, CallOK DEF GoodFrames
<1>6. CallChain
  BY <1>1, <1>3, CallOK DEF CallChain
<1>7. result \notin {"ok", "MessageOrEnumNotFound", "InvalidImport", "overflow"}
  BY DEF Init
<1>8. QED
  BY <1>4, <1>5, <1>6, <1>7
     DEF ImportsIInv, EndsWithAllRead, FailsForACause, NotFoundIsNotThere

----------------------------------------------------------------------------
(* What every state has. *)

(* The calls' frames are in order. *)
LEMMA FramesFacts ==
  ASSUME ImportsIInv
  PROVE  \A c \in DOMAIN calls : calls[c] \in Frame /\ FrameOK(calls[c])
<1>1. calls \in Seq(GoodFrames)
  BY DEF ImportsIInv
<1>2. \A c \in DOMAIN calls : calls[c] \in GoodFrames
  BY <1>1
<1>3. QED
  BY <1>2 DEF GoodFrames

(* The call that is in progress. *)
LEMMA TopFacts ==
  ASSUME ImportsIInv
  PROVE  /\ tree \in Trees
         /\ calls \in Seq(Frame) /\ Len(calls) \in Nat /\ Len(calls) >= 1
         /\ Len(calls) \in DOMAIN calls /\ 1 \in DOMAIN calls
         /\ Top = calls[Len(calls)]
         /\ Top \in Frame /\ FrameOK(Top)
         /\ Top.file \in DOMAIN tree /\ tree[Top.file].imports \in Seq(Files)
         /\ Top.next \in Nat /\ Top.next >= 1
         /\ calls[1].file = Root
<1>1. /\ tree \in Trees /\ calls \in Seq(Frame) /\ calls # <<>>
      /\ \A c \in DOMAIN calls : FrameOK(calls[c])
  BY FramesFacts DEF ImportsIInv, ImportsTypeOK
<1>2. Len(calls) \in Nat /\ Len(calls) >= 1 /\ DOMAIN calls = 1 .. Len(calls)
  BY <1>1
<1>3. Len(calls) \in DOMAIN calls /\ 1 \in DOMAIN calls
  BY <1>2
<1>4. Top = calls[Len(calls)]
  BY DEF Top, Last
<1>5. Top \in Frame /\ FrameOK(Top)
  BY <1>1, <1>3, <1>4
<1>6. Top.file \in DOMAIN tree /\ Top.next >= 1 /\ Top.next \in Nat
  <2>1. InTree(Top)
    BY <1>5 DEF FrameOK
  <2>2. Top.next \in Nat
    BY <1>5 DEF Frame
  <2>3. tree[Top.file].imports \in Seq(Files)
    BY <1>1, <2>1, TreeFacts DEF InTree
  <2>4. QED
    BY <2>1, <2>2, <2>3 DEF InTree
<1>7. tree[Top.file].imports \in Seq(Files)
  BY <1>1, <1>6, TreeFacts
<1>8. calls[1].file = Root
  BY DEF ImportsIInv, CallChain
<1>9. QED
  BY <1>1, <1>2, <1>3, <1>4, <1>5, <1>6, <1>7, <1>8

(* Every call in progress is for the root or for what the root reaches. *)
LEMMA CallsReachable ==
  ASSUME ImportsIInv
  PROVE  \A c \in DOMAIN calls :
           /\ calls[c].file \in DOMAIN tree
           /\ c = 1 \/ Reaches(Root, calls[c].file)
           /\ calls[c].file \in Reachable
<1> SUFFICES ASSUME NEW c \in DOMAIN calls
             PROVE  /\ calls[c].file \in DOMAIN tree
                    /\ c = 1 \/ Reaches(Root, calls[c].file)
                    /\ calls[c].file \in Reachable
  OBVIOUS
<1>1. calls[c].file \in DOMAIN tree
  BY FramesFacts DEF FrameOK, InTree
<1>2. calls[c].file \in Files
  BY <1>1, TopFacts, TreeFacts
<1>3. CASE c = 1
  BY <1>1, <1>3, TopFacts DEF Reachable
<1>4. CASE c # 1
  <2>1. 1 < c /\ 1 \in DOMAIN calls
    BY <1>4, TopFacts
  <2>2. Reaches(calls[1].file, calls[c].file)
    BY <2>1 DEF ImportsIInv, CallChain
  <2>3. QED
    BY <1>1, <1>2, <2>2, TopFacts DEF Reachable
<1>5. QED
  BY <1>3, <1>4

(* What the call in progress imports next is reachable. *)
LEMMA ImportReachable ==
  ASSUME ImportsIInv, Top.next <= Len(tree[Top.file].imports)
  PROVE  /\ Top.next \in DOMAIN tree[Top.file].imports
         /\ Import \in Imports(Top.file) /\ Import \in Reachable /\ Import \in Files
         /\ \A c \in DOMAIN calls : Reaches(calls[c].file, Import)
<1>1. Top.next \in DOMAIN tree[Top.file].imports
  BY TopFacts
<1>2. Import \in Imports(Top.file)
  BY <1>1, TopFacts, ImportsFacts DEF Import
<1>3. Import \in Reachable /\ Import \in Files
  BY <1>2, TopFacts, CallsReachable, ReachableClosed, ImportsFacts
<1>4. \A c \in DOMAIN calls : Reaches(calls[c].file, Import)
  <2> SUFFICES ASSUME NEW c \in DOMAIN calls
               PROVE  Reaches(calls[c].file, Import)
    OBVIOUS
  <2>1. CASE c = Len(calls)
    BY <1>2, <2>1, TopFacts, ReachesImports
  <2>2. CASE c # Len(calls)
    <3>1. c < Len(calls) /\ Len(calls) \in DOMAIN calls
      BY <2>2, TopFacts
    <3>2. Reaches(calls[c].file, Top.file)
      BY <3>1, TopFacts DEF ImportsIInv, CallChain
    <3>3. QED
      BY <1>2, <3>2, ReachesClosed
  <2>3. QED
    BY <2>1, <2>2
<1>5. QED
  BY <1>1, <1>2, <1>3, <1>4

----------------------------------------------------------------------------
(* The program stops. *)

(* Stopping leaves the calls as they were. *)
LEMMA StopKeeps ==
  ASSUME ImportsIInv, UNCHANGED <<tree, calls, links>>
  PROVE  ImportsTypeOK' /\ calls' \in Seq(GoodFrames') /\ CallChain'
<1>1. ImportsTypeOK'
  BY DEF ImportsIInv, ImportsTypeOK
<1>2. CallChain'
  BY SameTree DEF ImportsIInv, CallChain
<1>3. calls' \in Seq(GoodFrames')
  BY SameFrames DEF ImportsIInv
<1>4. QED
  BY <1>1, <1>2, <1>3

(* An import that is not found is reachable and not there. *)
LEMMA MissingImportInv ==
  ASSUME ImportsIInv, MissingImport
  PROVE  ImportsIInv'
<1>1. result' = "InvalidImport" /\ UNCHANGED <<tree, calls, links>>
  BY DEF MissingImport, Stop
<1>2. Import \in Reachable /\ Import \notin DOMAIN tree
  BY ImportReachable DEF MissingImport
<1>3. FailsForACause'
  BY <1>1, <1>2, SameTree DEF FailsForACause
<1>4. EndsWithAllRead' /\ NotFoundIsNotThere'
  BY <1>1 DEF EndsWithAllRead, NotFoundIsNotThere
<1>5. QED
  BY <1>1, <1>3, <1>4, StopKeeps DEF ImportsIInv

(* More calls than files, and one file reaches itself. *)
LEMMA MoreCallsThanFiles ==
  ASSUME ImportsIInv, Len(calls) = MaxDepth, Top.next <= Len(tree[Top.file].imports)
  PROVE  \E f \in Reachable : Reaches(f, f)
<1>0. PICK n \in Nat : n = Len(calls)
  BY TopFacts
<1> DEFINE at == [c \in 1 .. (n + 1) |-> IF c = n + 1 THEN Import ELSE calls[c].file]
<1>1. DOMAIN calls = 1 .. n /\ n = MaxDepth /\ n \in DOMAIN calls /\ Top = calls[n]
  BY <1>0, TopFacts
<1>2. \A c \in 1 .. n : at[c] = calls[c].file /\ calls[c].file \in Reachable
  BY <1>1, CallsReachable
<1>3. at[n + 1] = Import /\ Import \in Reachable
  BY <1>1, ImportReachable
<1>4. at \in [1 .. (n + 1) -> Files]
  <2>1. Reachable \subseteq Files
    BY ReachableClosed, TopFacts
  <2>2. \A c \in 1 .. (n + 1) : c = n + 1 \/ c \in 1 .. n
    OBVIOUS
  <2>3. \A c \in 1 .. (n + 1) : at[c] \in Files
    BY <1>2, <1>3, <2>1, <2>2
  <2>4. QED
    BY <2>3
<1>5. IsFiniteSet(1 .. (n + 1)) /\ Cardinality(1 .. (n + 1)) = n + 1
  <2>1. n + 1 \in Int /\ 1 \in Int /\ ~(1 > n + 1) /\ (n + 1) - 1 + 1 = n + 1
    OBVIOUS
  <2> DEFINE m == n + 1
  <2> HIDE DEF m
  <2>2. IsFiniteSet(1 .. m) /\ Cardinality(1 .. m) = IF 1 > m THEN 0 ELSE m - 1 + 1
    BY <2>1, FS_Interval DEF m
  <2>3. QED
    BY <2>1, <2>2 DEF m
<1>6. IsFiniteSet(Files) /\ Cardinality(Files) \in Nat /\ Cardinality(Files) < n + 1
  BY <1>1, ImportsAssumption, FS_CardinalityType
<1>7. ASSUME NEW c \in 1 .. (n + 1), NEW d \in 1 .. (n + 1), c < d
      PROVE  Reaches(at[c], at[d])
  <2>1. c \in 1 .. n
    BY <1>1, <1>7
  <2>2. CASE d = n + 1
    BY <1>1, <1>2, <1>3, <2>1, <2>2, ImportReachable
  <2>3. CASE d # n + 1
    <3>1. d \in 1 .. n
      BY <2>3
    <3>2. Reaches(calls[c].file, calls[d].file)
      BY <1>1, <1>7, <2>1, <3>1 DEF ImportsIInv, CallChain
    <3>3. QED
      BY <1>2, <2>1, <3>1, <3>2
  <2>4. QED
    BY <2>2, <2>3
<1> HIDE DEF at
<1>8. PICK c, d \in 1 .. (n + 1) : c # d /\ at[c] = at[d]
  BY <1>4, <1>5, <1>6, FS_PigeonHole
<1>9. Reaches(at[c], at[c])
  BY <1>1, <1>7, <1>8
<1>10. at[c] \in Reachable
  BY <1>1, <1>2, <1>3
<1>11. QED
  BY <1>9, <1>10

(* The stack overflows only where files import each other. *)
LEMMA OverflowInv ==
  ASSUME ImportsIInv, Overflow
  PROVE  ImportsIInv'
<1>1. result' = "overflow" /\ UNCHANGED <<tree, calls, links>>
  BY DEF Overflow, Stop
<1>2. \E f \in Reachable : Reaches(f, f)
  BY MoreCallsThanFiles DEF Overflow
<1>3. FailsForACause'
  BY <1>1, <1>2, SameTree DEF FailsForACause
<1>4. EndsWithAllRead' /\ NotFoundIsNotThere'
  BY <1>1 DEF EndsWithAllRead, NotFoundIsNotThere
<1>5. QED
  BY <1>1, <1>3, <1>4, StopKeeps DEF ImportsIInv

----------------------------------------------------------------------------
(* An import is read. *)

(* The new call is for the import that its caller is at. *)
LEMMA ReadImportInv ==
  ASSUME ImportsIInv, ReadImport
  PROVE  ImportsIInv'
<1> DEFINE n == Len(calls)
<1>1. /\ tree' = tree /\ links' = links /\ result' = result /\ result = "none"
      /\ calls' = Append(calls, Call(Import)) /\ Import \in DOMAIN tree
      /\ Top.next <= Len(tree[Top.file].imports)
  BY DEF ReadImport, Reading
<1>2. PICK fr : fr = Call(Import)
  OBVIOUS
<1>3. fr \in Frame /\ fr \in GoodFrames /\ fr.file = Import
  BY <1>1, <1>2, CallOK, TopFacts DEF GoodFrames
<1>4. calls' \in Seq(Frame) /\ calls' # <<>>
  BY <1>1, <1>2, <1>3, TopFacts
<1>5. calls' \in Seq(GoodFrames')
  BY <1>1, <1>2, <1>3, SameFrames DEF ImportsIInv
<1>6. ImportsTypeOK'
  BY <1>1, <1>4 DEF ImportsIInv, ImportsTypeOK
<1>7. /\ n \in Nat /\ n >= 1 /\ DOMAIN calls = 1 .. n /\ DOMAIN calls' = 1 .. (n + 1)
      /\ \A c \in 1 .. n : calls'[c] = calls[c]
      /\ calls'[n + 1] = fr
  BY <1>1, <1>2, TopFacts
<1>8. CallChain'
  <2>1. calls'[1].file = Root
    BY <1>7, TopFacts
  <2>2. ASSUME NEW c \in 1 .. (n + 1), c + 1 \in 1 .. (n + 1)
        PROVE  /\ calls'[c].next \in DOMAIN tree[calls'[c].file].imports
               /\ calls'[c + 1].file = tree[calls'[c].file].imports[calls'[c].next]
    <3>1. CASE c = n
      BY <1>1, <1>3, <1>7, <3>1, TopFacts, ImportReachable DEF Import
    <3>2. CASE c # n
      BY <1>7, <2>2, <3>2 DEF ImportsIInv, CallChain
    <3>3. QED
      BY <3>1, <3>2
  <2>3. ASSUME NEW c \in 1 .. (n + 1), NEW d \in 1 .. (n + 1), c < d
        PROVE  Reaches(calls'[c].file, calls'[d].file)
    <3>1. c \in 1 .. n
      BY <1>7, <2>3
    <3>2. CASE d = n + 1
      BY <1>1, <1>3, <1>7, <3>1, <3>2, ImportReachable
    <3>3. CASE d # n + 1
      <4>1. d \in 1 .. n
        BY <1>7, <3>3
      <4>2. Reaches(calls[c].file, calls[d].file)
        BY <1>7, <2>3, <3>1, <4>1 DEF ImportsIInv, CallChain
      <4>3. QED
        BY <1>7, <3>1, <4>1, <4>2
    <3>4. QED
      BY <3>2, <3>3
  <2>4. PICK cs : cs = calls'
    OBVIOUS
  <2>5. \A c, d \in DOMAIN cs : c < d => Reaches(cs[c].file, cs[d].file)'
    BY <1>1, <1>7, <2>3, <2>4, SameTree
  <2>6. QED
    BY <1>1, <1>7, <2>1, <2>2, <2>4, <2>5 DEF CallChain
<1>9. EndsWithAllRead' /\ NotFoundIsNotThere'
  BY <1>1 DEF EndsWithAllRead, NotFoundIsNotThere
<1>10. FailsForACause'
  BY <1>1 DEF FailsForACause
<1>11. QED
  BY <1>5, <1>6, <1>8, <1>9, <1>10 DEF ImportsIInv

----------------------------------------------------------------------------
(* An import was read and its importer goes on. *)

Adopted(fr) == [i \in DOMAIN fr.items |-> Adopt(fr.items[i], fr.file)]
Extended(up, fr) == [up EXCEPT !.next = @ + 1, !.items = @ \o Adopted(fr)]

(* Only an item without a package gets the package and the module of a file. *)
LEMMA AdoptFacts ==
  ASSUME tree \in Trees, NEW f \in DOMAIN tree, NEW item \in Item
  PROVE  /\ Adopt(item, f) \in Item
         /\ Adopt(item, f).file = item.file /\ Adopt(item, f).imported
         /\ item.package # <<>> =>
              Adopt(item, f).package = item.package /\ Adopt(item, f).module = item.module
         /\ item.package = <<>> =>
              Adopt(item, f).package = tree[f].package /\ Adopt(item, f).module = ModuleOf(f)
<1>1. tree[f].package \in Seq(STRING) /\ ModuleOf(f) \in Modules
  BY TreeFacts, ParsedFacts
<1>2. QED
  BY <1>1 DEF Adopt, Item

(* The items of the importer stay, and those of the import follow them. *)
LEMMA ExtendedFacts ==
  ASSUME tree \in Trees, NEW up \in GoodFrames, NEW fr \in GoodFrames
  PROVE  \E w \in Frame, k \in Nat, l \in Nat :
           /\ w = Extended(up, fr) /\ k = Len(up.items) /\ l = Len(fr.items)
           /\ w.file = up.file /\ w.next = up.next + 1 /\ up.next \in Nat
           /\ k >= 1 /\ l >= 1
           /\ DOMAIN up.items = 1 .. k /\ DOMAIN fr.items = 1 .. l
           /\ DOMAIN w.items = 1 .. (k + l) /\ w.items # <<>>
           /\ \A i \in 1 .. k : w.items[i] = up.items[i]
           /\ \A i \in 1 .. l : w.items[k + i] = Adopt(fr.items[i], fr.file)
           /\ \A i \in 1 .. l : fr.items[i] \in Item
           /\ \A i \in 1 .. l : w.items[k + i].file = fr.items[i].file
<1> DEFINE new == Extended(up, fr)
           u == Len(up.items)
           v == Len(fr.items)
<1>1. /\ up \in Frame /\ up.items \in Seq(Item) /\ up.items # <<>>
      /\ fr.items \in Seq(Item) /\ fr.items # <<>>
      /\ up.next \in Nat /\ up.file \in Files /\ fr.file \in DOMAIN tree
  BY DEF GoodFrames, Frame, FrameOK, OwnFirst, InTree
<1>2. u \in Nat /\ v \in Nat /\ u >= 1 /\ v >= 1
      /\ DOMAIN up.items = 1 .. u /\ DOMAIN fr.items = 1 .. v
  BY <1>1
<1>3. \A i \in 1 .. v : fr.items[i] \in Item
  BY <1>1, <1>2
<1>4. \A i \in 1 .. v : Adopt(fr.items[i], fr.file) \in Item
  BY <1>1, <1>3, AdoptFacts
<1>5. /\ Adopted(fr) \in Seq(Item) /\ Len(Adopted(fr)) = v
      /\ \A i \in 1 .. v : Adopted(fr)[i] = Adopt(fr.items[i], fr.file)
  <2>1. Adopted(fr) = [i \in 1 .. v |-> Adopt(fr.items[i], fr.file)]
    BY <1>2 DEF Adopted
  <2>2. QED
    BY <1>2, <1>4, <2>1
<1>6. up.items \o Adopted(fr) \in Seq(Item)
  BY <1>1, <1>5, ConcatProperties
<1>7. /\ new.file = up.file /\ new.next = up.next + 1
      /\ new.items = up.items \o Adopted(fr) /\ new \in Frame
  <2>1. PICK k \in Nat : k = up.next + 1
    BY <1>1
  <2>2. PICK s \in Seq(Item) : s = up.items \o Adopted(fr)
    BY <1>6
  <2>3. new = [up EXCEPT !.next = k, !.items = s]
    BY <2>1, <2>2 DEF Extended
  <2>4. new.file = up.file /\ new.next = k /\ new.items = s /\ new \in Frame
    <3> HIDE DEF new
    <3>1. PICK w : w = new
      OBVIOUS
    <3>2. up \in Frame
      BY <1>1
    <3>3. w = [up EXCEPT !.next = k, !.items = s]
      BY <2>3, <3>1
    <3>4. w.file = up.file /\ w.next = k /\ w.items = s /\ w \in Frame
      BY <3>2, <3>3 DEF Frame
    <3>5. QED
      BY <3>1, <3>4
  <2>5. QED
    BY <2>1, <2>2, <2>4
<1>8. /\ DOMAIN new.items = 1 .. (u + v)
      /\ \A i \in 1 .. u : new.items[i] = up.items[i]
      /\ \A i \in 1 .. v : new.items[u + i] = Adopted(fr)[i]
  <2>1. PICK a \in Seq(Item) : a = Adopted(fr)
    BY <1>5
  <2>2. PICK b \in Seq(Item) : b = up.items
    BY <1>1
  <2>3. PICK c : c = new.items
    OBVIOUS
  <2>4. PICK k \in Nat : k = u
    BY <1>2
  <2>5. PICK l \in Nat : l = v
    BY <1>2
  <2>6. Len(b) = k /\ Len(a) = l /\ c = b \o a
    BY <1>5, <1>7, <2>1, <2>2, <2>3, <2>4, <2>5
  <2>7. /\ Len(c) = k + l /\ c \in Seq(Item)
        /\ \A i \in 1 .. (k + l) : c[i] = IF i <= k THEN b[i] ELSE a[i - k]
    BY <2>6, ConcatProperties
  <2>8. \A i \in 1 .. k : c[i] = b[i]
    BY <2>7
  <2>9. \A i \in 1 .. l : c[k + i] = a[i]
    <3> SUFFICES ASSUME NEW i \in 1 .. l
                 PROVE  c[k + i] = a[i]
      OBVIOUS
    <3>1. k + i \in 1 .. (k + l) /\ ~(k + i <= k) /\ (k + i) - k = i
      OBVIOUS
    <3>2. QED
      BY <2>7, <3>1
  <2>10. DOMAIN c = 1 .. (k + l)
    BY <2>7
  <2> HIDE DEF new, u, v
  <2>11. QED
    BY <2>1, <2>2, <2>3, <2>4, <2>5, <2>8, <2>9, <2>10
<1>9. \A i \in 1 .. v : new.items[u + i].file = fr.items[i].file
  BY <1>1, <1>3, <1>5, <1>8, AdoptFacts
<1>10. new.items # <<>>
  <2>1. 1 \in 1 .. (u + v)
    <3> HIDE DEF u, v
    <3>1. QED
      BY <1>2
  <2>2. 1 \in DOMAIN new.items
    BY <1>8, <2>1
  <2> HIDE DEF new
  <2>3. QED
    BY <2>2
<1>11. PICK w, k, l : w = new /\ k = u /\ l = v
  OBVIOUS
<1> HIDE DEF new, u, v
<1>12. w \in Frame /\ k \in Nat /\ l \in Nat
  BY <1>2, <1>7, <1>11
<1>13. w = Extended(up, fr) /\ k = Len(up.items) /\ l = Len(fr.items)
  BY <1>11 DEF new, u, v
<1>14. /\ w.file = up.file /\ w.next = up.next + 1 /\ up.next \in Nat
       /\ k >= 1 /\ l >= 1
       /\ DOMAIN up.items = 1 .. k /\ DOMAIN fr.items = 1 .. l
       /\ DOMAIN w.items = 1 .. (k + l) /\ w.items # <<>>
       /\ \A i \in 1 .. k : w.items[i] = up.items[i]
  BY <1>1, <1>2, <1>7, <1>8, <1>10, <1>11
<1>15. /\ \A i \in 1 .. l : w.items[k + i] = Adopt(fr.items[i], fr.file)
       /\ \A i \in 1 .. l : fr.items[i] \in Item
       /\ \A i \in 1 .. l : w.items[k + i].file = fr.items[i].file
  BY <1>3, <1>5, <1>8, <1>9, <1>11
<1>16. QED
  BY <1>12, <1>13, <1>14, <1>15, Zenon

(* A file whose imports were all read is sound. *)
LEMMA ReturnedIsSound ==
  ASSUME tree \in Trees, NEW fr \in GoodFrames, fr.next > Len(tree[fr.file].imports)
  PROVE  Sound(fr.file)
<1>1. fr.file \in DOMAIN tree /\ DoneAreSound(fr) /\ fr.next \in Nat
  BY DEF GoodFrames, Frame, FrameOK, InTree
<1>2. tree[fr.file].imports \in Seq(Files)
  BY <1>1, TreeFacts
<1>3. \A n \in DOMAIN tree[fr.file].imports : n < fr.next
  BY <1>1, <1>2
<1>4. \A m \in Imports(fr.file) : Sound(m)
  BY <1>1, <1>3, ImportsFacts DEF DoneAreSound
<1>5. QED
  BY <1>1, <1>4, SoundByImports

(* An item of what was read keeps its package and its module as before. *)
LEMMA AdoptKeepsOwned ==
  ASSUME tree \in Trees, NEW fr \in GoodFrames, NEW i \in DOMAIN fr.items,
         Sound(fr.file), Reaches(Root, fr.file),
         LET f == fr.items[i].file IN tree[f].package # <<>> \/ f \notin Inner
  PROVE  LET item == Adopt(fr.items[i], fr.file)
         IN  item.module = ModuleOf(item.file) /\ item.package = tree[item.file].package
<1> DEFINE f == fr.items[i].file
<1>1. /\ fr.items \in Seq(Item) /\ FrameOK(fr) /\ fr.file \in DOMAIN tree /\ f \in DOMAIN tree
      /\ ImportedBelow(fr) /\ OwnFirst(fr) /\ OwnedKept(fr)
  BY DEF GoodFrames, Frame, FrameOK, InTree
<1>2. fr.items[i] \in Item
  BY <1>1
<1>3. fr.items[i].module = ModuleOf(f) /\ fr.items[i].package = tree[f].package
  BY <1>1 DEF OwnedKept, Owned
<1>4. CASE i = 1
  <2>1. f = fr.file
    BY <1>1, <1>4, ParsedFacts DEF OwnFirst
  <2>2. QED
    BY <1>1, <1>2, <1>3, <2>1, AdoptFacts
<1>5. CASE i # 1
  <2>1. PICK g \in Files : (g = fr.file \/ Reaches(fr.file, g)) /\ f \in Imports(g)
    BY <1>1, <1>5 DEF ImportedBelow
  <2>2. g \in Reachable \ {Root}
    BY <2>1, SoundIsNotRoot
  <2>3. f \in Inner
    BY <2>1, <2>2 DEF Inner
  <2>4. fr.items[i].package # <<>>
    BY <1>3, <2>3
  <2>5. QED
    BY <1>1, <1>2, <1>3, <2>4, AdoptFacts
<1>6. QED
  BY <1>4, <1>5

(* Every way in which a file is imported that was read by now has its item: *)
(* those of the importer before, the import itself and those of the import. *)
LEMMA ExtendedWays ==
  ASSUME tree \in Trees, NEW up \in GoodFrames, NEW fr \in GoodFrames,
         up.next \in DOMAIN tree[up.file].imports,
         fr.file = tree[up.file].imports[up.next],
         fr.next > Len(tree[fr.file].imports)
  PROVE  CopiedPerWay(Extended(up, fr))
<1>1. PICK new \in Frame, u \in Nat, v \in Nat :
        /\ new = Extended(up, fr) /\ u = Len(up.items) /\ v = Len(fr.items)
        /\ new.file = up.file /\ new.next = up.next + 1 /\ up.next \in Nat
        /\ u >= 1 /\ v >= 1
        /\ DOMAIN up.items = 1 .. u /\ DOMAIN fr.items = 1 .. v
        /\ DOMAIN new.items = 1 .. (u + v) /\ new.items # <<>>
        /\ \A i \in 1 .. u : new.items[i] = up.items[i]
        /\ \A i \in 1 .. v : new.items[u + i] = Adopt(fr.items[i], fr.file)
        /\ \A i \in 1 .. v : fr.items[i] \in Item
        /\ \A i \in 1 .. v : new.items[u + i].file = fr.items[i].file
  BY ExtendedFacts
<1>0. u >= 1 /\ v >= 1 /\ DOMAIN up.items = 1 .. u /\ DOMAIN fr.items = 1 .. v
  BY <1>1
<1>2. \A i \in 1 .. (u + v) :
        i \in 1 .. u \/ i = u + 1 \/ \E t \in 1 .. v : t # 1 /\ i = u + t
  <2> SUFFICES ASSUME NEW i \in 1 .. (u + v), i \notin 1 .. u, i # u + 1
               PROVE  \E t \in 1 .. v : t # 1 /\ i = u + t
    OBVIOUS
  <2>1. i - u \in 1 .. v /\ i = u + (i - u) /\ i - u # 1
    OBVIOUS
  <2>2. QED
    BY <2>1
<1>3. /\ InTree(up) /\ OwnFirst(up) /\ CopiedPerWay(up)
      /\ InTree(fr) /\ OwnFirst(fr) /\ CopiedPerWay(fr)
  BY DEF GoodFrames, FrameOK
<1>4. /\ up.file \in DOMAIN tree /\ fr.file \in DOMAIN tree
      /\ tree[up.file].imports \in Seq(Files) /\ tree[fr.file].imports \in Seq(Files)
      /\ up.items[1].file = up.file /\ fr.items[1].file = fr.file
      /\ \A i \in 1 .. v : fr.items[i].file \in DOMAIN tree
      /\ fr.next \in Nat
  <2>1. up.file \in DOMAIN tree /\ fr.file \in DOMAIN tree
    BY <1>3 DEF InTree
  <2>2. up.items[1].file = up.file /\ fr.items[1].file = fr.file
    BY <1>3, <2>1, ParsedFacts DEF OwnFirst
  <2>3. \A i \in 1 .. v : fr.items[i].file \in DOMAIN tree
    BY <1>1, <1>3 DEF InTree
  <2>4. fr.next \in Nat
    BY DEF GoodFrames, Frame
  <2>5. QED
    BY <2>1, <2>2, <2>3, <2>4, TreeFacts
<1>5. PICK bu, nu \in [1 .. u -> Nat] : OneWayEach(up, bu, nu)
  BY <1>1, <1>3 DEF CopiedPerWay
<1>6. PICK bf, nf \in [1 .. v -> Nat] : OneWayEach(fr, bf, nf)
  BY <1>1, <1>3 DEF CopiedPerWay
<1>a. \A j \in 1 .. u : j # 1 =>
        /\ Way(up, bu[j], nu[j])
        /\ up.items[j].file = tree[up.items[bu[j]].file].imports[nu[j]]
  BY <1>0, <1>5 DEF OneWayEach
<1>b. Apart(1 .. u, bu, nu)
  BY <1>0, <1>5, Zenon DEF OneWayEach
<1>c. \A i, k \in Nat : Way(up, i, k) => \E j \in 1 .. u : j # 1 /\ bu[j] = i /\ nu[j] = k
  <2>1. Listed(up, 1 .. u, bu, nu)
    BY <1>0, <1>5, Zenon DEF OneWayEach
  <2>2. QED
    BY <2>1, Zenon DEF Listed
<1>d. \A j \in 1 .. v : j # 1 =>
        /\ Way(fr, bf[j], nf[j])
        /\ fr.items[j].file = tree[fr.items[bf[j]].file].imports[nf[j]]
  BY <1>0, <1>6 DEF OneWayEach
<1>e. Apart(1 .. v, bf, nf)
  BY <1>0, <1>6, Zenon DEF OneWayEach
<1>f. \A i, k \in Nat : Way(fr, i, k) => \E j \in 1 .. v : j # 1 /\ bf[j] = i /\ nf[j] = k
  <2>1. Listed(fr, 1 .. v, bf, nf)
    BY <1>0, <1>6, Zenon DEF OneWayEach
  <2>2. QED
    BY <2>1, Zenon DEF Listed
<1>7. \A i, k \in Nat : Way(up, i, k) => Way(new, i, k) /\ i \in 1 .. u /\ (i = 1 => k < up.next)
  <2> SUFFICES ASSUME NEW i \in Nat, NEW k \in Nat, Way(up, i, k)
               PROVE  Way(new, i, k) /\ i \in 1 .. u /\ (i = 1 => k < up.next)
    OBVIOUS
  <2>1. /\ i \in 1 .. u /\ k \in DOMAIN tree[up.items[i].file].imports
        /\ i = 1 => k < up.next
    BY <1>1 DEF Way
  <2>2. i \in 1 .. (u + v) /\ new.items[i].file = up.items[i].file
    <3>1. i \in 1 .. u
      BY <2>1
    <3>2. i \in 1 .. (u + v)
      BY <3>1
    <3>3. QED
      BY <1>1, <3>1, <3>2
  <2>3. i = 1 => k < up.next + 1
    BY <1>1, <2>1
  <2>4. QED
    BY <1>1, <2>1, <2>2, <2>3 DEF Way
<1>8. Way(new, 1, up.next)
  <2>1. 1 \in 1 .. u /\ 1 \in 1 .. (u + v)
    BY <1>0
  <2>2. up.next < up.next + 1
    BY <1>1
  <2>3. QED
    BY <1>1, <1>4, <2>1, <2>2 DEF Way
<1>9. \A i, k \in Nat : Way(fr, i, k) => Way(new, u + i, k) /\ i \in 1 .. v
  <2> SUFFICES ASSUME NEW i \in Nat, NEW k \in Nat, Way(fr, i, k)
               PROVE  Way(new, u + i, k) /\ i \in 1 .. v
    OBVIOUS
  <2>1. i \in 1 .. v /\ k \in DOMAIN tree[fr.items[i].file].imports
    BY <1>1 DEF Way
  <2>2. u + i \in 1 .. (u + v) /\ u + i # 1
    BY <1>0, <2>1
  <2>3. QED
    BY <1>1, <2>1, <2>2 DEF Way
<1>10. ASSUME NEW i \in Nat, NEW k \in Nat, Way(new, i, k)
       PROVE  \/ Way(up, i, k)
              \/ i = 1 /\ k = up.next
              \/ \E t \in 1 .. v : i = u + t /\ Way(fr, t, k)
  <2>1. /\ i \in 1 .. (u + v) /\ k \in DOMAIN tree[new.items[i].file].imports
        /\ i = 1 => k < up.next + 1
    BY <1>1, <1>10 DEF Way
  <2>2. CASE i \in 1 .. u
    <3>1. i = 1 => k < up.next \/ k = up.next
      BY <1>1, <2>1
    <3>2. QED
      BY <1>1, <2>1, <2>2, <3>1 DEF Way
  <2>3. ASSUME NEW t \in 1 .. v, i = u + t
        PROVE  Way(fr, t, k)
    <3>1. k \in DOMAIN tree[fr.items[t].file].imports
      BY <1>1, <2>1, <2>3
    <3>2. t = 1 => k < fr.next
      <4> SUFFICES ASSUME t = 1
                   PROVE  k < fr.next
        OBVIOUS
      <4>1. k \in DOMAIN tree[fr.file].imports
        BY <1>4, <3>1
      <4>2. k <= Len(tree[fr.file].imports) /\ Len(tree[fr.file].imports) \in Nat
        <5>1. PICK s \in Seq(Files) : s = tree[fr.file].imports
          BY <1>4
        <5>2. k \in DOMAIN s
          BY <4>1, <5>1
        <5>3. k <= Len(s) /\ Len(s) \in Nat
          BY <5>2
        <5>4. QED
          BY <5>1, <5>3
      <4>3. QED
        BY <1>4, <4>2, SMTT(30)
    <3>3. QED
      BY <1>1, <3>1, <3>2 DEF Way
  <2>4. i \in 1 .. u \/ \E t \in 1 .. v : i = u + t
    <3>1. 1 \in 1 .. v
      BY <1>1
    <3>2. QED
      BY <1>2, <2>1, <3>1
  <2>5. QED
    BY <2>2, <2>3, <2>4
<1> DEFINE by == [j \in 1 .. (u + v) |->
                   IF j <= u THEN bu[j] ELSE IF j = u + 1 THEN 1 ELSE u + bf[j - u]]
           nth == [j \in 1 .. (u + v) |->
                    IF j <= u THEN nu[j] ELSE IF j = u + 1 THEN up.next ELSE nf[j - u]]
<1>11. \A j \in 1 .. u : by[j] = bu[j] /\ nth[j] = nu[j] /\ by[j] \in Nat /\ nth[j] \in Nat
  <2> SUFFICES ASSUME NEW j \in 1 .. u
               PROVE  by[j] = bu[j] /\ nth[j] = nu[j]
    OBVIOUS
  <2>1. j \in 1 .. (u + v) /\ j <= u
    OBVIOUS
  <2>2. QED
    BY <2>1
<1>12. by[u + 1] = 1 /\ nth[u + 1] = up.next /\ up.next \in Nat
  <2>1. u + 1 \in 1 .. (u + v) /\ ~(u + 1 <= u)
    BY <1>0
  <2>2. QED
    BY <1>1, <2>1
<1>13. \A t \in 1 .. v : t # 1 =>
         by[u + t] = u + bf[t] /\ nth[u + t] = nf[t] /\ bf[t] \in Nat /\ nf[t] \in Nat
  <2> SUFFICES ASSUME NEW t \in 1 .. v, t # 1
               PROVE  by[u + t] = u + bf[t] /\ nth[u + t] = nf[t]
    OBVIOUS
  <2>1. u + t \in 1 .. (u + v) /\ ~(u + t <= u) /\ u + t # u + 1 /\ (u + t) - u = t
    OBVIOUS
  <2>2. QED
    BY <2>1
<1>14. by \in [1 .. (u + v) -> Nat] /\ nth \in [1 .. (u + v) -> Nat]
  <2>1. \A j \in 1 .. (u + v) : by[j] \in Nat /\ nth[j] \in Nat
    <3> SUFFICES ASSUME NEW j \in 1 .. (u + v)
                 PROVE  by[j] \in Nat /\ nth[j] \in Nat
      OBVIOUS
    <3>1. CASE j \in 1 .. u
      BY <1>11, <3>1
    <3>2. CASE j = u + 1
      BY <1>12, <3>2
    <3>3. ASSUME NEW t \in 1 .. v, t # 1, j = u + t
          PROVE  by[j] \in Nat /\ nth[j] \in Nat
      <4>1. u + bf[t] \in Nat
        BY <1>13, <3>3
      <4> HIDE DEF by, nth
      <4>2. QED
        BY <1>13, <3>3, <4>1
    <3> HIDE DEF by, nth
    <3>4. QED
      BY <1>2, <3>1, <3>2, <3>3
  <2>2. QED
    BY <2>1
<1> HIDE DEF by, nth
<1>15. \A j \in 1 .. u : j # 1 =>
         by[j] \in 1 .. u /\ Way(up, by[j], nth[j]) /\ (by[j] = 1 => nth[j] < up.next)
  BY <1>a, <1>7, <1>11
<1>16. \A t \in 1 .. v : t # 1 => bf[t] \in 1 .. v /\ Way(fr, bf[t], nf[t]) /\ by[u + t] > u
  <2> SUFFICES ASSUME NEW t \in 1 .. v, t # 1
               PROVE  bf[t] \in 1 .. v /\ Way(fr, bf[t], nf[t]) /\ by[u + t] > u
    OBVIOUS
  <2>1. Way(fr, bf[t], nf[t]) /\ bf[t] \in Nat /\ nf[t] \in Nat
    BY <1>d
  <2>2. bf[t] \in 1 .. v
    BY <1>9, <2>1
  <2>3. u + bf[t] > u
    BY <2>2
  <2>4. QED
    BY <1>13, <2>1, <2>2, <2>3
<1>17. ASSUME NEW j \in 1 .. (u + v), j # 1
       PROVE  /\ Way(new, by[j], nth[j])
              /\ new.items[j].file = tree[new.items[by[j]].file].imports[nth[j]]
  <2>1. CASE j \in 1 .. u
    <3>1. up.items[j].file = tree[up.items[by[j]].file].imports[nth[j]]
      BY <1>a, <1>11, <1>17, <2>1
    <3>2. QED
      BY <1>1, <1>7, <1>11, <1>15, <1>17, <2>1, <3>1
  <2>2. CASE j = u + 1
    <3>1. new.items[u + 1].file = fr.file /\ new.items[1].file = up.file
      <4>1. 1 \in 1 .. v /\ 1 \in 1 .. u
        BY <1>0
      <4>2. QED
        BY <1>1, <1>4, <4>1
    <3>2. QED
      BY <1>8, <1>12, <2>2, <3>1
  <2>3. ASSUME NEW t \in 1 .. v, t # 1, j = u + t
        PROVE  /\ Way(new, by[j], nth[j])
               /\ new.items[j].file = tree[new.items[by[j]].file].imports[nth[j]]
    <3>1. fr.items[t].file = tree[fr.items[bf[t]].file].imports[nf[t]]
      BY <1>d, <2>3
    <3>2. by[j] = u + bf[t] /\ nth[j] = nf[t] /\ bf[t] \in 1 .. v /\ Way(fr, bf[t], nf[t])
      BY <1>13, <1>16, <2>3
    <3>3. Way(new, u + bf[t], nf[t])
      BY <1>9, <1>13, <2>3, <3>2
    <3>4. new.items[u + bf[t]].file = fr.items[bf[t]].file /\ new.items[j].file = fr.items[t].file
      BY <1>1, <2>3, <3>2
    <3>5. QED
      BY <3>1, <3>2, <3>3, <3>4
  <2>4. QED
    BY <1>2, <2>1, <2>2, <2>3
<1>18. ASSUME NEW i \in 1 .. (u + v), NEW j \in 1 .. (u + v),
              i # 1, j # 1, by[i] = by[j], nth[i] = nth[j]
       PROVE  i = j
  <2>1. ASSUME NEW c \in 1 .. (u + v), NEW d \in 1 .. (u + v), c \in 1 .. u, d \notin 1 .. u,
               c # 1, by[c] = by[d], nth[c] = nth[d]
        PROVE  FALSE
    <3>1. by[c] \in 1 .. u /\ (by[c] = 1 => nth[c] < up.next)
      BY <1>15, <2>1
    <3>2. CASE d = u + 1
      BY <1>12, <2>1, <3>1, <3>2
    <3>3. ASSUME NEW t \in 1 .. v, t # 1, d = u + t
          PROVE  FALSE
      <4>1. by[d] > u /\ by[d] \in 1 .. u
        BY <1>16, <2>1, <3>1, <3>3
      <4>2. QED
        BY <4>1
    <3>4. QED
      BY <1>2, <2>1, <3>2, <3>3
  <2>2. CASE i \in 1 .. u /\ j \in 1 .. u
    <3>1. bu[i] = bu[j] /\ nu[i] = nu[j]
      BY <1>11, <1>18, <2>2
    <3>2. QED
      BY <1>b, <1>18, <2>2, <3>1, Zenon DEF Apart
  <2>3. CASE i \in 1 .. u <=> j \notin 1 .. u
    BY <1>18, <2>1, <2>3
  <2>4. CASE i \notin 1 .. u /\ j \notin 1 .. u
    <3>1. ASSUME NEW t \in 1 .. v, t # 1
          PROVE  by[u + t] # by[u + 1]
      <4>1. by[u + t] > u /\ by[u + 1] = 1
        BY <1>12, <1>16, <3>1
      <4>2. QED
        BY <1>0, <4>1
    <3>2. ASSUME NEW c \in 1 .. v, NEW d \in 1 .. v, c # 1, d # 1,
                 by[u + c] = by[u + d], nth[u + c] = nth[u + d]
          PROVE  c = d
      <4>1. bf[c] = bf[d] /\ nf[c] = nf[d]
        <5>1. u + bf[c] = u + bf[d] /\ nf[c] = nf[d] /\ bf[c] \in Nat /\ bf[d] \in Nat
          BY <1>13, <3>2
        <5>2. QED
          BY <5>1
      <4>2. QED
        BY <1>e, <3>2, <4>1 DEF Apart
    <3>3. QED
      BY <1>2, <1>18, <2>4, <3>1, <3>2
  <2>5. QED
    BY <2>2, <2>3, <2>4
<1>19. ASSUME NEW i \in Nat, NEW k \in Nat, Way(new, i, k)
       PROVE  \E j \in 1 .. (u + v) : j # 1 /\ by[j] = i /\ nth[j] = k
  <2>1. CASE Way(up, i, k)
    <3>1. PICK j \in 1 .. u : j # 1 /\ bu[j] = i /\ nu[j] = k
      BY <1>c, <2>1
    <3>2. j \in 1 .. (u + v)
      OBVIOUS
    <3>3. QED
      BY <1>11, <3>1, <3>2
  <2>2. CASE i = 1 /\ k = up.next
    <3>1. u + 1 \in 1 .. (u + v) /\ u + 1 # 1
      BY <1>0
    <3>2. QED
      BY <1>12, <2>2, <3>1
  <2>3. ASSUME NEW t \in 1 .. v, i = u + t, Way(fr, t, k)
        PROVE  \E j \in 1 .. (u + v) : j # 1 /\ by[j] = i /\ nth[j] = k
    <3>1. PICK j \in 1 .. v : j # 1 /\ bf[j] = t /\ nf[j] = k
      <4>1. t \in Nat
        OBVIOUS
      <4>2. QED
        BY <1>f, <1>19, <2>3, <4>1
    <3>2. u + j \in 1 .. (u + v) /\ u + j # 1
      BY <3>1
    <3>3. by[u + j] = i /\ nth[u + j] = k
      BY <1>13, <2>3, <3>1
    <3>4. QED
      BY <3>2, <3>3
  <2>4. QED
    BY <1>10, <1>19, <2>1, <2>2, <2>3
<1>20. OneWayEach(new, by, nth)
  <2>1. DOMAIN new.items = 1 .. (u + v)
    BY <1>1
  <2>2. \A j \in DOMAIN new.items : j # 1 =>
          /\ Way(new, by[j], nth[j])
          /\ new.items[j].file = tree[new.items[by[j]].file].imports[nth[j]]
    BY <1>17, <2>1
  <2>3. \A i, j \in DOMAIN new.items :
          i # 1 /\ j # 1 /\ by[i] = by[j] /\ nth[i] = nth[j] => i = j
    BY <1>18, <2>1
  <2>4. \A i, k \in Nat : Way(new, i, k) =>
          \E j \in DOMAIN new.items : j # 1 /\ by[j] = i /\ nth[j] = k
    <3> SUFFICES ASSUME NEW i \in Nat, NEW k \in Nat, Way(new, i, k)
                 PROVE  \E j \in DOMAIN new.items : j # 1 /\ by[j] = i /\ nth[j] = k
      OBVIOUS
    <3>1. PICK j \in 1 .. (u + v) : j # 1 /\ by[j] = i /\ nth[j] = k
      BY <1>19
    <3>2. j \in DOMAIN new.items
      BY <2>1
    <3>3. QED
      BY <3>1, <3>2
  <2>5. QED
    BY <2>2, <2>3, <2>4, Zenon DEF OneWayEach, Apart, Listed
<1>21. QED
  BY <1>1, <1>14, <1>20 DEF CopiedPerWay

(* The frame of the importer is as it should be, one import further on. *)
LEMMA ExtendedOK ==
  ASSUME tree \in Trees, NEW up \in GoodFrames, NEW fr \in GoodFrames,
         up.next \in DOMAIN tree[up.file].imports,
         fr.file = tree[up.file].imports[up.next],
         fr.next > Len(tree[fr.file].imports),
         Reaches(Root, fr.file)
  PROVE  Extended(up, fr) \in GoodFrames
<1>1. PICK new \in Frame, u \in Nat, v \in Nat :
        /\ new = Extended(up, fr) /\ u = Len(up.items) /\ v = Len(fr.items)
        /\ new.file = up.file /\ new.next = up.next + 1 /\ up.next \in Nat
        /\ u >= 1 /\ v >= 1
        /\ DOMAIN up.items = 1 .. u /\ DOMAIN fr.items = 1 .. v
        /\ DOMAIN new.items = 1 .. (u + v) /\ new.items # <<>>
        /\ \A i \in 1 .. u : new.items[i] = up.items[i]
        /\ \A i \in 1 .. v : new.items[u + i] = Adopt(fr.items[i], fr.file)
        /\ \A i \in 1 .. v : fr.items[i] \in Item
        /\ \A i \in 1 .. v : new.items[u + i].file = fr.items[i].file
  BY ExtendedFacts
<1>2. \A i \in 1 .. (u + v) : i \in 1 .. u \/ \E t \in 1 .. v : i = u + t
  <2> SUFFICES ASSUME NEW i \in 1 .. (u + v), i \notin 1 .. u
               PROVE  \E t \in 1 .. v : i = u + t
    OBVIOUS
  <2>1. i - u \in 1 .. v /\ i = u + (i - u)
    OBVIOUS
  <2>2. QED
    BY <2>1
<1>3. /\ InTree(up) /\ OwnFirst(up) /\ DoneAreSound(up) /\ ImportedBelow(up)
      /\ OwnedKept(up) /\ CopiedPerWay(up)
      /\ InTree(fr) /\ OwnFirst(fr) /\ ImportedBelow(fr) /\ CopiedPerWay(fr)
  BY DEF GoodFrames, FrameOK
<1>4. /\ up.file \in DOMAIN tree /\ fr.file \in DOMAIN tree /\ fr.file \in Files
      /\ tree[up.file].imports \in Seq(Files) /\ tree[fr.file].imports \in Seq(Files)
  BY <1>3, TreeFacts DEF InTree
<1>5. Sound(fr.file)
  BY ReturnedIsSound
<1>6. fr.items[1].file = fr.file
  BY <1>3, <1>4, ParsedFacts DEF OwnFirst
<1>7. InTree(new)
  <2>1. new.next \in 1 .. (Len(tree[new.file].imports) + 1)
    BY <1>1, <1>4
  <2>2. \A i \in 1 .. u : new.items[i].file \in DOMAIN tree
    BY <1>1, <1>3 DEF InTree
  <2>3. \A t \in 1 .. v : new.items[u + t].file \in DOMAIN tree
    BY <1>1, <1>3, ZenonT(40) DEF InTree
  <2>4. \A i \in 1 .. (u + v) : new.items[i].file \in DOMAIN tree
    BY <1>2, <2>2, <2>3
  <2>5. QED
    BY <1>1, <1>4, <2>1, <2>4 DEF InTree
<1>8. OwnFirst(new)
  <2>1. new.items[1] = Parsed(new.file)
    <3>1. up.items[1] = Parsed(up.file)
      BY <1>3 DEF OwnFirst
    <3>2. 1 \in 1 .. u
      BY <1>1
    <3>3. QED
      BY <1>1, <3>1, <3>2
  <2>2. \A i \in 1 .. u : new.items[i].imported <=> i # 1
    BY <1>1, <1>3 DEF OwnFirst
  <2>3. \A i \in 1 .. v : new.items[u + i].imported /\ u + i # 1
    <3> SUFFICES ASSUME NEW i \in 1 .. v
                 PROVE  new.items[u + i].imported /\ u + i # 1
      OBVIOUS
    <3>1. PICK item \in Item : item = fr.items[i]
      BY <1>1
    <3>2. new.items[u + i] = Adopt(item, fr.file)
      BY <1>1, <3>1
    <3>3. Adopt(item, fr.file).imported
      BY <1>4, AdoptFacts
    <3>4. u + i # 1
      <4>1. u \in Nat /\ u >= 1
        BY <1>1
      <4>2. i \in Nat /\ i >= 1
        BY <1>1
      <4>3. QED
        BY <4>1, <4>2
    <3>5. QED
      BY <3>2, <3>3, <3>4
  <2>4. \A i \in 1 .. (u + v) : new.items[i].imported <=> i # 1
    <3> SUFFICES ASSUME NEW i \in 1 .. (u + v)
                 PROVE  new.items[i].imported <=> i # 1
      OBVIOUS
    <3>1. CASE i \in 1 .. u
      BY <2>2, <3>1
    <3>2. CASE \E t \in 1 .. v : i = u + t
      BY <2>3, <3>2
    <3>3. QED
      BY <1>2, <3>1, <3>2
  <2>5. QED
    BY <1>1, <2>1, <2>4 DEF OwnFirst
<1>9. DoneAreSound(new)
  <2> SUFFICES ASSUME NEW n \in DOMAIN tree[up.file].imports, n < up.next + 1
               PROVE  Sound(tree[up.file].imports[n])
    BY <1>1 DEF DoneAreSound
  <2>1. n < up.next \/ n = up.next
    BY <1>1, <1>4
  <2>2. QED
    BY <1>3, <1>5, <2>1 DEF DoneAreSound
<1>10. ImportedBelow(new)
  <2> DEFINE From(x) == \E g \in Files : (g = up.file \/ Reaches(up.file, g)) /\ x \in Imports(g)
  <2>1. \A i \in 1 .. u : i # 1 => From(new.items[i].file)
    BY <1>1, <1>3 DEF ImportedBelow
  <2>2. fr.file \in Imports(up.file) /\ up.file \in Files
    BY <1>4, ImportsFacts, TreeFacts
  <2>3. From(fr.file)
    BY <2>2
  <2>4. ASSUME NEW t \in 1 .. v
        PROVE  From(fr.items[t].file)
    <3>1. CASE t = 1
      BY <1>6, <2>3, <3>1
    <3>2. CASE t # 1
      <4>1. PICK g \in Files :
              (g = fr.file \/ Reaches(fr.file, g)) /\ fr.items[t].file \in Imports(g)
        BY <1>1, <1>3, <3>2 DEF ImportedBelow
      <4>2. Reaches(up.file, g)
        BY <2>2, <4>1, ReachesImports, ReachesTransitive
      <4>3. QED
        BY <4>1, <4>2
    <3>3. QED
      BY <3>1, <3>2
  <2>5. \A t \in 1 .. v : From(new.items[u + t].file)
    BY <1>1, <2>4
  <2> HIDE DEF From
  <2>6. \A i \in 1 .. (u + v) : i # 1 => From(new.items[i].file)
    BY <1>2, <2>1, <2>5
  <2>7. QED
    BY <1>1, <2>6 DEF ImportedBelow, From
<1>11. OwnedKept(new)
  <2> SUFFICES ASSUME NEW i \in 1 .. (u + v),
                      LET f == new.items[i].file IN tree[f].package # <<>> \/ f \notin Inner
               PROVE  Owned(new, i)
    BY <1>1 DEF OwnedKept
  <2>1. CASE i \in 1 .. u
    BY <1>1, <1>3, <2>1 DEF OwnedKept, Owned
  <2>2. ASSUME NEW t \in 1 .. v, i = u + t
        PROVE  Owned(new, i)
    <3>1. new.items[i] = Adopt(fr.items[t], fr.file) /\ new.items[i].file = fr.items[t].file
      BY <1>1, <2>2
    <3>2. t \in DOMAIN fr.items
      BY <1>1
    <3>3. LET f == fr.items[t].file IN tree[f].package # <<>> \/ f \notin Inner
      BY <3>1
    <3>4. LET item == Adopt(fr.items[t], fr.file)
          IN  item.module = ModuleOf(item.file) /\ item.package = tree[item.file].package
      BY <1>5, <3>2, <3>3, AdoptKeepsOwned
    <3>5. QED
      BY <3>1, <3>4 DEF Owned
  <2>3. QED
    BY <1>2, <2>1, <2>2
<1>12. CopiedPerWay(new)
  BY <1>1, ExtendedWays
<1>13. QED
  BY <1>1, <1>7, <1>8, <1>9, <1>10, <1>11, <1>12 DEF GoodFrames, FrameOK

(* The last frame of a sequence and the one before it are replaced by one. *)
LEMMA ReplaceLastTwo ==
  ASSUME NEW S, NEW s \in Seq(S), NEW x \in S, NEW n \in Nat, n >= 1, Len(s) = n + 1
  PROVE  LET t == Append(SubSeq(s, 1, n - 1), x)
         IN  /\ t \in Seq(S) /\ Len(t) = n /\ t[n] = x
             /\ \A c \in 1 .. (n - 1) : t[c] = s[c]
<1>1. PICK m \in Nat : m = n - 1
  OBVIOUS
<1>2. \A c \in 1 .. m : s[c] \in S
  BY <1>1
<1>3. PICK r \in Seq(S) : r = SubSeq(s, 1, m)
  <2>1. m \in Int /\ 1 \in Int
    OBVIOUS
  <2>2. SubSeq(s, 1, m) \in Seq(S)
    BY <1>2, <2>1, SubSeqProperties
  <2>3. QED
    BY <2>2
<1>4. Len(r) = m /\ \A c \in 1 .. m : r[c] = s[c]
  <2>1. Len(r) = IF 1 <= m THEN m - 1 + 1 ELSE 0
    BY <1>2, <1>3, SubSeqProperties
  <2>2. \A c \in 1 .. (m - 1 + 1) : r[c] = s[1 + c - 1]
    BY <1>2, <1>3, SubSeqProperties
  <2>3. \A c \in 1 .. m : c \in 1 .. (m - 1 + 1) /\ 1 + c - 1 = c
    OBVIOUS
  <2>4. QED
    BY <2>1, <2>2, <2>3
<1>5. PICK t : t = Append(r, x)
  OBVIOUS
<1>6. t \in Seq(S) /\ Len(t) = m + 1 /\ t[m + 1] = x /\ \A c \in 1 .. m : t[c] = r[c]
  BY <1>4, <1>5
<1>7. m + 1 = n
  BY <1>1
<1>8. QED
  BY <1>1, <1>3, <1>4, <1>5, <1>6, <1>7

(* What a step to Extend does: the two innermost calls become one. *)
LEMMA ExtendStep ==
  ASSUME ImportsIInv, Extend
  PROVE  \E n \in Nat, new \in GoodFrames :
           /\ n >= 1 /\ Len(calls) = n + 1
           /\ new.file = calls[n].file /\ new.next = calls[n].next + 1
           /\ calls' \in Seq(GoodFrames) /\ Len(calls') = n /\ calls'[n] = new
           /\ \A c \in 1 .. (n - 1) : calls'[c] = calls[c]
<1>1. PICK n \in Nat : Len(calls) = n + 1 /\ n >= 1
  <2>1. Len(calls) > 1 /\ Len(calls) \in Nat
    BY TopFacts DEF Extend
  <2>2. PICK k \in Nat : k = Len(calls)
    BY <2>1
  <2>3. k - 1 \in Nat /\ k = (k - 1) + 1 /\ k - 1 >= 1
    BY <2>1, <2>2
  <2>4. QED
    BY <2>2, <2>3
<1>2. n \in DOMAIN calls /\ n + 1 \in DOMAIN calls /\ Top = calls[n + 1] /\ Len(calls) - 1 = n
  BY <1>1, TopFacts
<1>3. calls[n] \in GoodFrames /\ calls[n + 1] \in GoodFrames /\ calls \in Seq(GoodFrames)
  BY <1>2 DEF ImportsIInv
<1>4. PICK up \in GoodFrames, fr \in GoodFrames : up = calls[n] /\ fr = calls[n + 1]
  BY <1>3
<1>5. /\ up.next \in DOMAIN tree[up.file].imports
      /\ fr.file = tree[up.file].imports[up.next]
  BY <1>2, <1>4 DEF ImportsIInv, CallChain
<1>6. Reaches(Root, fr.file)
  <2>1. n + 1 # 1
    BY <1>1
  <2>2. QED
    BY <1>2, <1>4, <2>1, CallsReachable
<1>7. fr.next > Len(tree[fr.file].imports) /\ tree \in Trees
  BY <1>2, <1>4, TopFacts DEF Extend
<1>8. PICK new \in GoodFrames : new = Extended(up, fr)
  BY <1>5, <1>6, <1>7, ExtendedOK
<1>9. new.file = up.file /\ new.next = up.next + 1
  <2>1. PICK w \in Frame, k \in Nat, l \in Nat :
          w = Extended(up, fr) /\ w.file = up.file /\ w.next = up.next + 1
    BY <1>7, ExtendedFacts
  <2>2. QED
    BY <1>8, <2>1
<1>10. calls' = Append(SubSeq(calls, 1, Len(calls) - 2), Extended(calls[Len(calls) - 1], Top))
  BY DEF Extend, Extended, Adopted
<1>11. Len(calls) - 2 = n - 1
  BY <1>1
<1>12. calls' = Append(SubSeq(calls, 1, n - 1), new)
  BY <1>2, <1>4, <1>8, <1>10, <1>11
<1>13. /\ calls' \in Seq(GoodFrames) /\ Len(calls') = n /\ calls'[n] = new
       /\ \A c \in 1 .. (n - 1) : calls'[c] = calls[c]
  BY <1>1, <1>3, <1>12, ReplaceLastTwo
<1>14. QED
  BY <1>1, <1>4, <1>9, <1>13

(* The importer goes on with the items of the import. *)
LEMMA ExtendInv ==
  ASSUME ImportsIInv, Extend
  PROVE  ImportsIInv'
<1>1. tree' = tree /\ links' = links /\ result' = result /\ Len(calls) > 1
  BY DEF Extend
<1>2. PICK n \in Nat, new \in GoodFrames :
        /\ n >= 1 /\ Len(calls) = n + 1
        /\ new.file = calls[n].file /\ new.next = calls[n].next + 1
        /\ calls' \in Seq(GoodFrames) /\ Len(calls') = n /\ calls'[n] = new
        /\ \A c \in 1 .. (n - 1) : calls'[c] = calls[c]
  BY ExtendStep
<1>3. calls' \in Seq(GoodFrames')
  BY <1>1, <1>2, SameFrames
<1>4. ImportsTypeOK'
  <2>1. calls' \in Seq(Frame)
    <3>1. GoodFrames \subseteq Frame
      BY DEF GoodFrames
    <3>2. \A c \in 1 .. n : calls'[c] \in Frame
      BY <1>2, <3>1
    <3>3. QED
      BY <1>2, <3>2
  <2>2. calls' # <<>>
    BY <1>2
  <2>3. QED
    BY <1>1, <2>1, <2>2 DEF ImportsIInv, ImportsTypeOK
<1>5. \A c \in 1 .. n : calls'[c].file = calls[c].file
  <2>1. \A c \in 1 .. n : c = n \/ c \in 1 .. (n - 1)
    OBVIOUS
  <2>2. QED
    BY <1>2, <2>1
<1>6. DOMAIN calls = 1 .. (n + 1) /\ DOMAIN calls' = 1 .. n
  BY <1>2, TopFacts
<1>7. CallChain'
  <2>1. calls'[1].file = Root
    BY <1>2, <1>5, TopFacts
  <2>2. ASSUME NEW c \in 1 .. n, c + 1 \in 1 .. n
        PROVE  /\ calls'[c].next \in DOMAIN tree[calls'[c].file].imports
               /\ calls'[c + 1].file = tree[calls'[c].file].imports[calls'[c].next]
    <3>1. c \in 1 .. (n - 1) /\ c \in 1 .. (n + 1) /\ c + 1 \in 1 .. (n + 1)
      BY <2>2
    <3>2. calls'[c] = calls[c] /\ calls'[c + 1].file = calls[c + 1].file
      BY <1>2, <1>5, <2>2, <3>1
    <3>3. QED
      BY <1>6, <3>1, <3>2 DEF ImportsIInv, CallChain
  <2>3. ASSUME NEW c \in 1 .. n, NEW d \in 1 .. n, c < d
        PROVE  Reaches(calls'[c].file, calls'[d].file)
    <3>1. c \in 1 .. (n + 1) /\ d \in 1 .. (n + 1)
      OBVIOUS
    <3>2. Reaches(calls[c].file, calls[d].file)
      BY <1>6, <2>3, <3>1 DEF ImportsIInv, CallChain
    <3>3. QED
      BY <1>5, <3>2
  <2>4. PICK cs : cs = calls'
    OBVIOUS
  <2>5. \A c, d \in DOMAIN cs : c < d => Reaches(cs[c].file, cs[d].file)'
    BY <1>1, <1>6, <2>3, <2>4, SameTree
  <2>6. QED
    BY <1>1, <1>6, <2>1, <2>2, <2>4, <2>5 DEF CallChain
<1>8. result \notin {"ok", "MessageOrEnumNotFound"}
  <2>1. Len(calls) # 1
    BY <1>2
  <2>2. EndsWithAllRead
    BY DEF ImportsIInv
  <2>3. QED
    BY <2>1, <2>2 DEF EndsWithAllRead
<1>9. EndsWithAllRead' /\ NotFoundIsNotThere'
  BY <1>1, <1>8 DEF EndsWithAllRead, NotFoundIsNotThere
<1>10. FailsForACause'
  BY <1>1, SameTree DEF ImportsIInv, FailsForACause
<1>11. QED
  BY <1>3, <1>4, <1>7, <1>9, <1>10 DEF ImportsIInv

----------------------------------------------------------------------------
(* All files were read. *)

(* Only the root's call is left, it read all its imports, and they are sound. *)
LEMMA ReadFacts ==
  ASSUME ImportsIInv, Read
  PROVE  /\ tree \in Trees
         /\ Len(calls) = 1 /\ calls[1] \in GoodFrames /\ calls[1].file = Root
         /\ Root \in DOMAIN tree /\ tree[Root].imports \in Seq(Files)
         /\ calls[1].next \in Nat /\ calls[1].next > Len(tree[Root].imports)
         /\ Sound(Root)
<1>1. Len(calls) = 1 /\ Top = calls[1] /\ Top \in GoodFrames /\ Top.file = Root
  <2>1. Len(calls) = 1
    BY DEF Read, Resolving, ImportsIInv, EndsWithAllRead
  <2>2. QED
    BY <2>1, TopFacts DEF GoodFrames
<1>2. /\ tree \in Trees /\ Root \in DOMAIN tree /\ tree[Root].imports \in Seq(Files)
      /\ Top.next \in Nat
  BY <1>1, TopFacts
<1>3. Top.next > Len(tree[Root].imports)
  <2>1. PICK l \in Nat : l = Len(tree[Root].imports)
    BY <1>2
  <2>2. CASE Resolving
    <3>1. ~(Top.next <= l)
      BY <1>1, <2>1, <2>2 DEF Resolving, Reading
    <3>2. QED
      BY <1>2, <2>1, <3>1
  <2>3. CASE result \in {"ok", "MessageOrEnumNotFound"}
    BY <1>1, <2>3 DEF ImportsIInv, EndsWithAllRead
  <2>4. QED
    BY <2>2, <2>3 DEF Read
<1>4. Sound(Root)
  BY <1>1, <1>2, <1>3, ReturnedIsSound
<1>5. QED
  BY <1>1, <1>2, <1>3, <1>4

(* FailsForItsFiles: the causes are part of the invariant, and a root that *)
(* is sound needs no file that is missing and no cycle.                    *)
LEMMA FailsForItsFilesHolds == ImportsIInv => FailsForItsFiles
<1> SUFFICES ASSUME ImportsIInv
             PROVE  FailsForItsFiles
  OBVIOUS
<1>1. ASSUME Read
      PROVE  Reachable \subseteq DOMAIN tree /\ \A f \in Reachable : ~Reaches(f, f)
  <2>1. Sound(Root) /\ tree \in Trees
    BY <1>1, ReadFacts
  <2>2. Root \in Files
    BY ImportsAssumption
  <2>3. QED
    BY <2>1, <2>2 DEF Sound, Reachable
<1>2. QED
  BY <1>1 DEF ImportsIInv, FailsForACause, FailsForItsFiles

(* ModulesKept is what the root's frame keeps. *)
LEMMA ModulesKeptHolds == ImportsIInv => ModulesKept
<1> SUFFICES ASSUME ImportsIInv, Read
             PROVE  ModulesKept
  BY DEF ModulesKept
<1>1. OwnedKept(calls[1])
  BY ReadFacts DEF GoodFrames, FrameOK
<1>2. QED
  BY <1>1 DEF ModulesKept, OwnedKept, Owned, Inner, Items

(* The copies but the first, and the ways W, are paired by by and nth. *)
Paired(copies, W, by, nth) ==
  /\ \A j \in copies : j # 1 => << by[j], nth[j] >> \in W
  /\ \A i, j \in copies : i # 1 /\ j # 1 /\ by[i] = by[j] /\ nth[i] = nth[j] => i = j
  /\ \A w \in W : \E j \in copies : j # 1 /\ w = << by[j], nth[j] >>

(* Items of a file and ways to import it are as many, but for the root's own. *)
LEMMA WaysCounted ==
  ASSUME NEW copies, NEW l \in Nat, copies \subseteq 1 .. l, NEW W, NEW by, NEW nth,
         Paired(copies, W, by, nth)
  PROVE  Cardinality(copies) = Cardinality(W) + (IF 1 \in copies THEN 1 ELSE 0)
<1> DEFINE imported == copies \ {1}
           way == [j \in imported |-> << by[j], nth[j] >>]
<1>1. IsFiniteSet(copies)
  <2>1. IsFiniteSet(1 .. l) /\ copies \in SUBSET (1 .. l)
    BY FS_Interval
  <2>2. QED
    BY <2>1, FS_Subset
<1>2. /\ IsFiniteSet(imported) /\ Cardinality(copies) \in Nat
      /\ Cardinality(imported) =
           IF 1 \in copies THEN Cardinality(copies) - 1 ELSE Cardinality(copies)
  BY <1>1, FS_RemoveElement, FS_CardinalityType
<1>3. way \in [imported -> W]
  BY DEF Paired
<1>4. \A i, j \in imported : way[i] = way[j] => i = j
  <2> SUFFICES ASSUME NEW i \in imported, NEW j \in imported, way[i] = way[j]
               PROVE  i = j
    OBVIOUS
  <2>1. << by[i], nth[i] >> = << by[j], nth[j] >>
    OBVIOUS
  <2>2. by[i] = by[j] /\ nth[i] = nth[j]
    BY <2>1
  <2>3. QED
    BY <2>2 DEF Paired
<1>5. \A w \in W : \E j \in imported : way[j] = w
  <2> SUFFICES ASSUME NEW w \in W
               PROVE  \E j \in imported : way[j] = w
    OBVIOUS
  <2>1. PICK j \in copies : j # 1 /\ w = << by[j], nth[j] >>
    BY DEF Paired
  <2>2. j \in imported
    BY <2>1
  <2>3. QED
    BY <2>1, <2>2
<1> HIDE DEF way
<1>6. way \in Bijection(imported, W)
  BY <1>3, <1>4, <1>5 DEF Bijection, Injection, Surjection, IsInjective
<1>7. Cardinality(W) = Cardinality(imported)
  BY <1>2, <1>6, FS_Bijection DEF ExistsBijection
<1> HIDE DEF imported
<1>8. QED
  BY <1>2, <1>7

(* CopyPerImport: an item but the first stands for one way to import its *)
(* file, and every way was read.                                         *)
LEMMA CopyPerImportHolds == ImportsIInv => CopyPerImport
<1> SUFFICES ASSUME ImportsIInv, Read
             PROVE  CopyPerImport
  BY DEF CopyPerImport
<1>1. PICK fr \in GoodFrames : fr = calls[1]
  BY ReadFacts
<1>2. /\ Items = fr.items /\ fr.file = Root /\ tree \in Trees
      /\ fr.next > Len(tree[Root].imports) /\ tree[Root].imports \in Seq(Files)
      /\ fr.next \in Nat /\ Root \in DOMAIN tree
  BY <1>1, ReadFacts DEF Items
<1>3. OwnFirst(fr) /\ CopiedPerWay(fr) /\ InTree(fr) /\ fr.items \in Seq(Item)
  BY DEF GoodFrames, FrameOK, Frame
<1>4. PICK l \in Nat : DOMAIN fr.items = 1 .. l /\ l >= 1
  <2>1. Len(fr.items) \in Nat /\ Len(fr.items) >= 1 /\ DOMAIN fr.items = 1 .. Len(fr.items)
    BY <1>3 DEF OwnFirst
  <2>2. QED
    BY <2>1
<1>5. fr.items[1].file = Root
  BY <1>2, <1>3, ParsedFacts DEF OwnFirst
<1>6. { i \in DOMAIN fr.items : ~fr.items[i].imported } = {1}
  BY <1>3, <1>4 DEF OwnFirst
<1>7. PICK by, nth \in [DOMAIN fr.items -> Nat] : OneWayEach(fr, by, nth)
  BY <1>3 DEF CopiedPerWay
<1>a. /\ \A j \in 1 .. l : j # 1 => Way(fr, by[j], nth[j])
      /\ \A j \in 1 .. l : j # 1 =>
           fr.items[j].file = tree[fr.items[by[j]].file].imports[nth[j]]
  BY <1>4, <1>7 DEF OneWayEach
<1>b. Apart(1 .. l, by, nth)
  BY <1>4, <1>7, Zenon DEF OneWayEach
<1>c. \A i, k \in Nat : Way(fr, i, k) => \E j \in 1 .. l : j # 1 /\ by[j] = i /\ nth[j] = k
  <2>1. Listed(fr, 1 .. l, by, nth)
    BY <1>4, <1>7, Zenon DEF OneWayEach
  <2>2. QED
    BY <2>1, Zenon DEF Listed
<1>8. ASSUME NEW f \in DOMAIN tree
      PROVE  LET copies == { i \in DOMAIN fr.items : fr.items[i].file = f }
                 times(g) == { n \in DOMAIN tree[g].imports : tree[g].imports[n] = f }
                 ways == UNION { {i} \X times(fr.items[i].file) : i \in DOMAIN fr.items }
             IN  Cardinality(copies) = Cardinality(ways) + (IF f = Root THEN 1 ELSE 0)
  <2> DEFINE copies == { i \in DOMAIN fr.items : fr.items[i].file = f }
             times(g) == { n \in DOMAIN tree[g].imports : tree[g].imports[n] = f }
             ways == UNION { {i} \X times(fr.items[i].file) : i \in DOMAIN fr.items }
  <2>1. ASSUME NEW j \in 1 .. l, j # 1, fr.items[j].file = f
        PROVE  << by[j], nth[j] >> \in ways
    <3>1. /\ by[j] \in 1 .. l /\ nth[j] \in DOMAIN tree[fr.items[by[j]].file].imports
          /\ tree[fr.items[by[j]].file].imports[nth[j]] = f
      BY <1>4, <1>a, <2>1 DEF Way
    <3>2. << by[j], nth[j] >> \in {by[j]} \X times(fr.items[by[j]].file)
      BY <3>1
    <3>3. QED
      BY <1>4, <3>1, <3>2
  <2>2. ASSUME NEW w \in ways
        PROVE  \E j \in 1 .. l : j # 1 /\ fr.items[j].file = f /\ w = << by[j], nth[j] >>
    <3>1. PICK i \in 1 .. l : w \in {i} \X times(fr.items[i].file)
      BY <1>4
    <3>2. PICK k \in times(fr.items[i].file) : w = << i, k >>
      BY <3>1
    <3>3. k \in DOMAIN tree[fr.items[i].file].imports /\ tree[fr.items[i].file].imports[k] = f
      OBVIOUS
    <3>4. k \in Nat
      <4>1. fr.items[i].file \in DOMAIN tree
        BY <1>3, <1>4 DEF InTree
      <4>2. PICK s \in Seq(Files) : s = tree[fr.items[i].file].imports
        BY <1>2, <4>1, TreeFacts
      <4>3. k \in DOMAIN s
        BY <3>3, <4>2
      <4>4. QED
        BY <4>3
    <3>5. i = 1 => k < fr.next
      <4>1. PICK s \in Seq(Files) : s = tree[Root].imports
        BY <1>2
      <4>2. i = 1 => k \in 1 .. Len(s)
        BY <1>5, <3>3, <4>1
      <4>3. fr.next > Len(s) /\ fr.next \in Nat
        BY <1>2, <4>1
      <4>4. QED
        BY <3>4, <4>2, <4>3
    <3>6. Way(fr, i, k) /\ i \in Nat
      BY <1>4, <3>3, <3>5 DEF Way
    <3>7. PICK j \in 1 .. l : j # 1 /\ by[j] = i /\ nth[j] = k
      BY <1>c, <3>4, <3>6
    <3>8. fr.items[j].file = f
      BY <1>a, <3>3, <3>7
    <3>9. QED
      BY <3>2, <3>7, <3>8
  <2>3. copies \subseteq 1 .. l /\ \A j \in 1 .. l : j \in copies <=> fr.items[j].file = f
    BY <1>4
  <2> HIDE DEF ways, copies
  <2>4. Cardinality(copies) = Cardinality(ways) + (IF 1 \in copies THEN 1 ELSE 0)
    <3>1. \A j \in copies : j # 1 => << by[j], nth[j] >> \in ways
      BY <2>1, <2>3
    <3>2. \A i, j \in copies : i # 1 /\ j # 1 /\ by[i] = by[j] /\ nth[i] = nth[j] => i = j
      BY <1>b, <2>3 DEF Apart
    <3>3. \A w \in ways : \E j \in copies : j # 1 /\ w = << by[j], nth[j] >>
      BY <2>2, <2>3
    <3>4. QED
      <4>1. Paired(copies, ways, by, nth)
        BY <3>1, <3>2, <3>3, Zenon DEF Paired
      <4>2. copies \subseteq 1 .. l
        BY <2>3
      <4>3. QED
        BY <4>1, <4>2, WaysCounted
  <2>5. 1 \in copies <=> f = Root
    <3>1. 1 \in 1 .. l
      BY <1>4
    <3>2. QED
      BY <1>5, <2>3, <3>1
  <2>6. Cardinality(copies) = Cardinality(ways) + (IF f = Root THEN 1 ELSE 0)
    BY <2>4, <2>5
  <2>7. QED
    BY <2>6 DEF copies, ways
<1>9. QED
  BY <1>2, <1>5, <1>6, <1>8 DEF CopyPerImport

----------------------------------------------------------------------------
(* A name is resolved. *)

(* A set of numbers that is not empty has a first one. *)
LEMMA FirstIsThere ==
  ASSUME NEW S \in SUBSET Nat, S # {}
  PROVE  First(S) \in S
<1> DEFINE Smaller == OpToRel(<, Nat)
<1>1. IsWellFoundedOn(Smaller, Nat)
  BY NatLessThanWellFounded, Zenon DEF OpToRel
<1>2. PICK x \in S : \A y \in S : ~(<<y, x>> \in Smaller)
  <2> HIDE DEF Smaller
  <2> QED BY <1>1, WFMin, Zenon
<1>3. \A y \in S : x <= y
  <2> TAKE y \in S
  <2>1. ~(y < x)
    BY <1>2 DEF OpToRel
  <2>2. QED
    BY <2>1
<1>4. QED
  BY <1>3 DEF First

(* Match gives the number of an item, or 0 if no name is that of an item. *)
LEMMA MatchFacts ==
  ASSUME NEW names, DOMAIN names \subseteq Nat, DOMAIN Items \subseteq Nat \ {0}
  PROVE  /\ Match(names) \in Nat
         /\ \A n \in DOMAIN names, k \in DOMAIN Items :
              /\ FullName(Items[k]) = names[n]
              /\ tree[Items[k].file].kind \in {"message", "enum"}
              => Match(names) # 0
<1> DEFINE kinds(name) == IF Named(name, "message") # {} THEN Named(name, "message")
                          ELSE Named(name, "enum")
           hits == { i \in DOMAIN names : kinds(names[i]) # {} }
<1>1. \A name : kinds(name) \subseteq DOMAIN Items
  BY DEF Named
<1>2. Match(names) = IF hits = {} THEN 0 ELSE First(kinds(names[First(hits)]))
  BY DEF Match
<1>3. ASSUME hits # {}
      PROVE  Match(names) \in Nat \ {0}
  <2>1. hits \in SUBSET Nat
    OBVIOUS
  <2>2. First(hits) \in hits
    BY <1>3, <2>1, FirstIsThere
  <2>3. PICK T : T = kinds(names[First(hits)])
    OBVIOUS
  <2>4. T # {} /\ T \subseteq DOMAIN Items
    BY <1>1, <2>2, <2>3
  <2>5. T \in SUBSET Nat
    BY <2>4
  <2>6. First(T) \in T
    BY <2>4, <2>5, FirstIsThere
  <2>7. Match(names) = First(T)
    BY <1>2, <1>3, <2>3
  <2>8. QED
    BY <2>4, <2>6, <2>7
<1>4. ASSUME NEW n \in DOMAIN names, NEW k \in DOMAIN Items,
             FullName(Items[k]) = names[n],
             tree[Items[k].file].kind \in {"message", "enum"}
      PROVE  hits # {}
  <2>1. k \in Named(names[n], "message") \/ k \in Named(names[n], "enum")
    BY <1>4 DEF Named
  <2>2. kinds(names[n]) # {}
    BY <2>1
  <2>3. QED
    BY <2>2
<1> HIDE DEF hits, kinds
<1>5. Match(names) \in Nat
  BY <1>2, <1>3
<1>6. QED
  BY <1>3, <1>4, <1>5

(* Whatever the file of an item reaches has an item too. *)
LEMMA ReachedIsThere ==
  ASSUME ImportsIInv, Read, NEW i \in DOMAIN Items,
         NEW g, g = Items[i].file \/ Reaches(Items[i].file, g)
  PROVE  \E k \in DOMAIN Items : Items[k].file = g
<1> DEFINE S == { Items[k].file : k \in DOMAIN Items }
<1>1. PICK fr \in GoodFrames : fr = calls[1]
  BY ReadFacts
<1>2. /\ Items = fr.items /\ tree \in Trees /\ fr.file = Root
      /\ fr.next > Len(tree[Root].imports) /\ tree[Root].imports \in Seq(Files)
      /\ fr.next \in Nat /\ Root \in DOMAIN tree
  BY <1>1, ReadFacts DEF Items
<1>3. /\ CopiedPerWay(fr) /\ InTree(fr) /\ fr.items \in Seq(Item)
      /\ fr.items[1].file = Root
  <2>1. CopiedPerWay(fr) /\ InTree(fr) /\ OwnFirst(fr) /\ fr.items \in Seq(Item)
    BY DEF GoodFrames, FrameOK, Frame
  <2>2. QED
    BY <1>2, <2>1, ParsedFacts DEF OwnFirst
<1>4. S \in SUBSET Files
  <2>1. \A k \in DOMAIN fr.items : fr.items[k].file \in DOMAIN tree
    BY <1>3 DEF InTree
  <2>2. QED
    BY <1>2, <2>1, TreeFacts
<1>5. PICK by, nth \in [DOMAIN fr.items -> Nat] : OneWayEach(fr, by, nth)
  BY <1>3 DEF CopiedPerWay
<1>6. \A j \in DOMAIN fr.items : j # 1 =>
        fr.items[j].file = tree[fr.items[by[j]].file].imports[nth[j]]
  BY <1>5 DEF OneWayEach
<1>7. \A k, n \in Nat : Way(fr, k, n) =>
        \E j \in DOMAIN fr.items : j # 1 /\ by[j] = k /\ nth[j] = n
  BY <1>5, Zenon DEF OneWayEach, Listed
<1>8. ASSUME NEW k \in DOMAIN fr.items, NEW m \in Imports(fr.items[k].file)
      PROVE  m \in S
  <2>1. PICK n \in DOMAIN tree[fr.items[k].file].imports :
          m = tree[fr.items[k].file].imports[n]
    BY <1>2, ImportsFacts
  <2>2. PICK s \in Seq(Files) : s = tree[fr.items[k].file].imports
    BY <1>2, <1>3, TreeFacts DEF InTree
  <2>3. n \in 1 .. Len(s) /\ n \in Nat /\ Len(s) \in Nat
    BY <2>1, <2>2
  <2>4. k = 1 => n < fr.next
    BY <1>2, <1>3, <2>2, <2>3
  <2>5. k \in Nat
    BY <1>3
  <2>6. Way(fr, k, n)
    BY <2>1, <2>4 DEF Way
  <2>7. PICK j \in DOMAIN fr.items : j # 1 /\ by[j] = k /\ nth[j] = n
    BY <1>7, <2>3, <2>5, <2>6
  <2>8. fr.items[j].file = m
    BY <1>6, <2>1, <2>7
  <2>9. QED
    BY <1>2, <2>8
<1>9. ClosedUnder(S)
  BY <1>2, <1>8 DEF ClosedUnder
<1>10. Items[i].file \in S
  OBVIOUS
<1> HIDE DEF S
<1>11. g \in S
  BY <1>4, <1>9, <1>10, ReachesInside
<1>12. QED
  BY <1>11 DEF S

(* A prefix of a longer sequence that is not all of it is a prefix. *)
LEMMA PrefixOfAppend ==
  ASSUME NEW T, NEW p \in Seq(T), NEW x, NEW l \in 0 .. Len(p)
  PROVE  SubSeq(Append(p, x), 1, l) = SubSeq(p, 1, l)
<1>1. PICK n \in Nat : n = Len(p)
  OBVIOUS
<1>2. \A i \in 1 .. n : Append(p, x)[i] = p[i]
  BY <1>1
<1>3. \A i \in 1 .. l : i \in 1 .. n
  BY <1>1
<1>4. \A i \in 1 .. l : Append(p, x)[i] = p[i]
  BY <1>2, <1>3
<1>5. PICK q : q = Append(p, x)
  OBVIOUS
<1>6. /\ SubSeq(q, 1, l) = [i \in 1 .. l |-> q[i]]
      /\ SubSeq(p, 1, l) = [i \in 1 .. l |-> p[i]]
  OBVIOUS
<1>7. QED
  BY <1>4, <1>5, <1>6

(* A sequence that follows a single entry. *)
LEMMA OneBefore ==
  ASSUME NEW S, NEW a \in Seq(S), NEW b \in Seq(S), Len(a) = 1
  PROVE  DOMAIN (a \o b) = 1 .. (Len(b) + 1) /\ (a \o b)[1] = a[1]
<1>1. PICK k \in Nat, m \in Nat : k = Len(a) /\ m = Len(b)
  OBVIOUS
<1>2. PICK c : c = a \o b
  OBVIOUS
<1>3. /\ c \in Seq(S) /\ Len(c) = k + m
      /\ \A i \in 1 .. (k + m) : c[i] = IF i <= k THEN a[i] ELSE b[i - k]
  BY <1>1, <1>2, ConcatProperties
<1>4. DOMAIN c = 1 .. (m + 1) /\ c[1] = a[1]
  BY <1>1, <1>3
<1>5. QED
  BY <1>1, <1>2, <1>4

(* An entry of a sequence that follows a single entry. *)
LEMMA EntryAfterOne ==
  ASSUME NEW S, NEW a \in Seq(S), NEW b \in Seq(S), Len(a) = 1, NEW i \in 1 .. Len(b)
  PROVE  (a \o b)[1 + i] = b[i]
<1>1. PICK k \in Nat, m \in Nat : k = Len(a) /\ m = Len(b)
  OBVIOUS
<1>2. \A n \in 1 .. (k + m) : (a \o b)[n] = IF n <= k THEN a[n] ELSE b[n - k]
  BY <1>1, ConcatProperties
<1>3. 1 + i \in 1 .. (k + m) /\ ~(1 + i <= k) /\ (1 + i) - k = i
  BY <1>1
<1>4. QED
  BY <1>2, <1>3

(* The scopes that a name in an item can be seen from are all tried. *)
LEMMA ScopesAreTried ==
  ASSUME NEW item \in Item, NEW ref \in [absolute : BOOLEAN, name : Seq(STRING)],
         tree[item.file].name \in STRING,
         NEW s \in IF ref.absolute THEN { <<>> } ELSE Prefixes(FullName(item))
  PROVE  /\ DOMAIN Candidates(item, ref) \subseteq Nat
         /\ \E n \in DOMAIN Candidates(item, ref) : Candidates(item, ref)[n] = s \o ref.name
<1>1. item.package \in Seq(STRING) /\ ref.name \in Seq(STRING)
  BY DEF Item
<1>2. CASE ref.absolute
  <2>1. Candidates(item, ref) = << ref.name >>
    BY <1>2 DEF Candidates
  <2>2. s \o ref.name = ref.name
    BY <1>1, <1>2
  <2>3. QED
    BY <2>1, <2>2
<1>3. CASE ~ref.absolute
  <2>1. PICK p \in Seq(STRING), x \in STRING, len \in Nat :
          p = item.package /\ x = tree[item.file].name /\ len = Len(p)
    BY <1>1
  <2>2. FullName(item) = Append(p, x) /\ FullName(item) \in Seq(STRING)
        /\ Len(FullName(item)) = len + 1
    BY <2>1 DEF FullName
  <2> DEFINE outer == [i \in 1 .. (len + 1) |-> SubSeq(p, 1, len + 1 - i) \o ref.name]
             inner == << FullName(item) \o ref.name >>
  <2>3. Candidates(item, ref) = inner \o outer
    BY <1>3, <2>1 DEF Candidates
  <2>4. outer \in Seq(Seq(STRING)) /\ Len(outer) = len + 1
    <3>1. \A i \in 1 .. (len + 1) : SubSeq(p, 1, len + 1 - i) \o ref.name \in Seq(STRING)
      <4> SUFFICES ASSUME NEW i \in 1 .. (len + 1)
                   PROVE  SubSeq(p, 1, len + 1 - i) \o ref.name \in Seq(STRING)
        OBVIOUS
      <4>1. PICK k \in 0 .. len : k = len + 1 - i
        OBVIOUS
      <4>2. \A j \in 1 .. k : p[j] \in STRING
        BY <2>1
      <4>3. SubSeq(p, 1, k) \in Seq(STRING)
        BY <4>2, SubSeqProperties
      <4>4. QED
        BY <1>1, <4>1, <4>3, ConcatProperties
    <3>2. len + 1 \in Nat
      OBVIOUS
    <3>3. QED
      BY <3>1, <3>2
  <2>5. /\ inner \in Seq(Seq(STRING)) /\ Len(inner) = 1
        /\ inner[1] = FullName(item) \o ref.name
    <3>1. FullName(item) \o ref.name \in Seq(STRING)
      BY <1>1, <2>2, ConcatProperties
    <3>2. QED
      BY <3>1
  <2> HIDE DEF inner
  <2>6. /\ DOMAIN Candidates(item, ref) = 1 .. (len + 2)
        /\ Candidates(item, ref)[1] = FullName(item) \o ref.name
        /\ \A i \in 1 .. (len + 1) : Candidates(item, ref)[1 + i] = outer[i]
    <3>s. PICK T : T = Seq(STRING)
      OBVIOUS
    <3>1. PICK a \in Seq(T), b \in Seq(T) : a = inner /\ b = outer
      BY <2>4, <2>5, <3>s
    <3>2. PICK c : c = Candidates(item, ref)
      OBVIOUS
    <3>n. PICK m \in Nat : m = len + 1
      OBVIOUS
    <3>3. Len(a) = 1 /\ Len(b) = m /\ c = a \o b
      BY <2>3, <2>4, <2>5, <3>n, <3>1, <3>2
    <3>4. DOMAIN c = 1 .. (m + 1) /\ c[1] = a[1] /\ \A i \in 1 .. m : c[1 + i] = b[i]
      <4>1. DOMAIN c = 1 .. (m + 1)
        BY <3>3, OneBefore
      <4>2. c[1] = a[1]
        BY <3>3, OneBefore
      <4>3. \A i \in 1 .. m : c[1 + i] = b[i]
        BY <3>3, EntryAfterOne, ZenonT(40)
      <4>4. QED
        BY <4>1, <4>2, <4>3
    <3>5. m + 1 = len + 2
      BY <3>n
    <3> HIDE DEF outer
    <3>6. QED
      BY <2>5, <3>n, <3>1, <3>2, <3>4, <3>5
  <2>a. DOMAIN Candidates(item, ref) \subseteq Nat
    BY <2>6
  <2>7. PICK l \in 0 .. (len + 1) : s = SubSeq(FullName(item), 1, l)
    BY <1>3, <2>2 DEF Prefixes
  <2>8. CASE l = len + 1
    <3>1. s = FullName(item)
      BY <2>2, <2>7, <2>8, SubSeqFull
    <3>2. 1 \in 1 .. (len + 2)
      OBVIOUS
    <3>3. QED
      BY <2>6, <2>a, <3>1, <3>2
  <2>9. CASE l # len + 1
    <3>1. l \in 0 .. len
      BY <2>9
    <3>2. s = SubSeq(p, 1, l)
      BY <2>1, <2>2, <2>7, <3>1, PrefixOfAppend
    <3>3. PICK i \in 1 .. (len + 1) : i = len + 1 - l
      BY <3>1
    <3>4. len + 1 - i = l /\ 1 + i \in 1 .. (len + 2)
      BY <3>1, <3>3
    <3>5. outer[i] = s \o ref.name
      BY <3>2, <3>4
    <3> HIDE DEF outer
    <3>6. Candidates(item, ref)[1 + i] = s \o ref.name
      BY <2>6, <3>5
    <3>7. QED
      BY <2>6, <2>a, <3>4, <3>6
  <2>10. QED
    BY <2>8, <2>9
<1>4. QED
  BY <1>2, <1>3

(* What NotFoundIsNotThere says once a name is not found. *)
NotThere ==
  Packaged =>
    LET f == Items[Len(links) + 1].file
        scopes == IF tree[f].ref.absolute THEN { <<>> }
                  ELSE Prefixes(Append(tree[f].package, tree[f].name))
    IN  \A g \in DOMAIN tree, s \in scopes :
          g = f \/ Reaches(f, g) =>
            Append(tree[g].package, tree[g].name) # s \o tree[f].ref.name

(* It is about the files, the items and the links alone. *)
LEMMA NotThereSame ==
  ASSUME UNCHANGED <<tree, calls, links>>
  PROVE  NotThere' <=> NotThere
BY DEF NotThere, Packaged, Reachable, Reaches, ClosedUnder, Imports, Items

(* A name that matches no item is not there in any file that the item's file *)
(* reaches, if all of them have packages.                                    *)
LEMMA UnmatchedIsNotThere ==
  ASSUME ImportsIInv, Read, Packaged, NEW i \in DOMAIN Items,
         Match(Candidates(Items[i], tree[Items[i].file].ref)) = 0
  PROVE  LET f == Items[i].file
             scopes == IF tree[f].ref.absolute THEN { <<>> }
                       ELSE Prefixes(Append(tree[f].package, tree[f].name))
         IN  \A g \in DOMAIN tree, s \in scopes :
               g = f \/ Reaches(f, g) =>
                 Append(tree[g].package, tree[g].name) # s \o tree[f].ref.name
<1> DEFINE f == Items[i].file
<1>1. PICK fr \in GoodFrames : fr = calls[1]
  BY ReadFacts
<1>2. Items = fr.items /\ tree \in Trees
  BY <1>1, ReadFacts DEF Items
<1>3. InTree(fr) /\ OwnedKept(fr) /\ fr.items \in Seq(Item)
  BY DEF GoodFrames, FrameOK, Frame
<1>4. ASSUME NEW k \in DOMAIN Items
      PROVE  /\ Items[k] \in Item /\ Items[k].file \in DOMAIN tree
             /\ Items[k].file \in Files
  BY <1>2, <1>3, <1>4, TreeFacts DEF InTree
<1>5. ASSUME NEW k \in DOMAIN Items
      PROVE  Items[k].file \in Reachable
  <2>1. FailsForItsFiles
    BY FailsForItsFilesHolds
  <2>2. ImportedBelow(fr) /\ OwnFirst(fr) /\ fr.file = Root
    BY <1>1, ReadFacts DEF GoodFrames, FrameOK
  <2>3. CASE k = 1
    <3>1. Items[k].file = Root
      BY <1>2, <2>2, <2>3, ReadFacts, ParsedFacts DEF OwnFirst
    <3>2. QED
      BY <3>1 DEF Reachable
  <2>4. CASE k # 1
    <3>1. PICK g \in Files : (g = Root \/ Reaches(Root, g)) /\ Items[k].file \in Imports(g)
      BY <1>2, <1>5, <2>2, <2>4 DEF ImportedBelow
    <3>2. Reaches(Root, Items[k].file)
      BY <3>1, ReachesImports, ReachesClosed
    <3>3. QED
      BY <1>4, <1>5, <3>2 DEF Reachable
  <2>5. QED
    BY <2>3, <2>4
<1>6. ASSUME NEW k \in DOMAIN Items
      PROVE  FullName(Items[k]) = Append(tree[Items[k].file].package, tree[Items[k].file].name)
  <2>1. tree[Items[k].file].package # <<>>
    BY <1>5, <1>6 DEF Packaged
  <2>2. Items[k].package = tree[Items[k].file].package
    BY <1>2, <1>3, <1>6, <2>1 DEF OwnedKept, Owned
  <2>3. QED
    BY <2>2 DEF FullName
<1>7. PICK item \in Item, ref \in [absolute : BOOLEAN, name : Seq(STRING)] :
        item = Items[i] /\ ref = tree[f].ref /\ tree[item.file].name \in STRING
  <2>1. tree[f].ref \in [absolute : BOOLEAN, name : Seq(STRING)] /\ tree[f].name \in STRING
    BY <1>2, <1>4, TreeFacts
  <2>2. QED
    BY <1>4, <2>1
<1>8. ASSUME NEW g \in DOMAIN tree,
             NEW s \in IF ref.absolute THEN { <<>> } ELSE Prefixes(FullName(item)),
             g = f \/ Reaches(f, g),
             Append(tree[g].package, tree[g].name) = s \o ref.name
      PROVE  FALSE
  <2>1. PICK k \in DOMAIN Items : Items[k].file = g
    BY <1>8, ReachedIsThere
  <2>2. PICK names : names = Candidates(item, ref)
    OBVIOUS
  <2>3. DOMAIN names \subseteq Nat
    BY <1>7, <2>2, ScopesAreTried
  <2>4. PICK n \in DOMAIN names : names[n] = s \o ref.name
    BY <1>7, <2>2, ScopesAreTried
  <2>5. FullName(Items[k]) = names[n]
    BY <1>6, <1>8, <2>1, <2>4
  <2>6. tree[Items[k].file].kind \in {"message", "enum"}
    BY <1>2, <1>8, <2>1, TreeFacts
  <2>7. DOMAIN Items \subseteq Nat \ {0}
    BY <1>2, <1>3
  <2>8. Match(names) # 0
    BY <2>3, <2>5, <2>6, <2>7, MatchFacts
  <2>9. QED
    BY <1>7, <2>2, <2>8
<1>9. QED
  BY <1>6, <1>7, <1>8

(* A resolved name is a number more, and an unresolved one is not there. *)
LEMMA ResolveInv ==
  ASSUME ImportsIInv, Resolve
  PROVE  ImportsIInv'
<1>1. Read /\ result = "none" /\ Len(calls) = 1
  BY DEF Resolve, Resolving, Read
<1>2. PICK i \in DOMAIN Items : i = Len(links) + 1
  <2>1. Items \in Seq(Item)
    BY <1>1, ReadFacts DEF GoodFrames, Frame, Items
  <2>2. links \in Seq(Nat) /\ Len(links) < Len(Items)
    BY DEF ImportsIInv, ImportsTypeOK, Resolve
  <2>3. Len(links) + 1 \in DOMAIN Items
    BY <2>1, <2>2
  <2>4. QED
    BY <2>3
<1>3. DOMAIN Items \subseteq Nat \ {0} /\ Items[i] \in Item /\ Items[i].file \in DOMAIN tree
  BY <1>1, ReadFacts DEF GoodFrames, Frame, FrameOK, InTree, Items
<1> DEFINE ref == tree[Items[i].file].ref
           target == IF ref = NoRef THEN 0 ELSE Match(Candidates(Items[i], ref))
<1>4. CASE ref # NoRef /\ target = 0
  <2>1. result' = "MessageOrEnumNotFound" /\ UNCHANGED <<tree, calls, links>>
    BY <1>2, <1>4 DEF Resolve, Stop
  <2>2. EndsWithAllRead'
    <3>1. calls[1].next > Len(tree[Root].imports)
      BY <1>1, ReadFacts
    <3>2. QED
      BY <1>1, <2>1, <3>1 DEF EndsWithAllRead
  <2>3. FailsForACause'
    BY <2>1 DEF FailsForACause
  <2>4. NotFoundIsNotThere'
    <3>1. Match(Candidates(Items[i], ref)) = 0
      BY <1>4
    <3>2. NotThere
      <4> SUFFICES ASSUME Packaged
                   PROVE  NotThere
        BY DEF NotThere
      <4>1. Match(Candidates(Items[i], tree[Items[i].file].ref)) = 0
        BY <3>1
      <4> HIDE DEF ref, target
      <4>2. QED
        BY <1>1, <1>2, <4>1, UnmatchedIsNotThere DEF NotThere
    <3>3. NotThere'
      BY <2>1, <3>2, NotThereSame
    <3>4. NotFoundIsNotThere' <=> (result' = "MessageOrEnumNotFound" /\ Packaged' => NotThere')
      BY DEF NotFoundIsNotThere, NotThere
    <3>5. QED
      BY <3>3, <3>4
  <2>5. QED
    BY <2>1, <2>2, <2>3, <2>4, StopKeeps DEF ImportsIInv
<1>5. CASE ~(ref # NoRef /\ target = 0)
  <2>1. links' = Append(links, target) /\ UNCHANGED <<tree, calls, result>>
    BY <1>2, <1>5 DEF Resolve
  <2>2. target \in Nat
    <3>1. CASE ref = NoRef
      BY <3>1
    <3>2. CASE ref # NoRef
      <4>1. /\ tree[Items[i].file].name \in STRING
            /\ ref \in [absolute : BOOLEAN, name : Seq(STRING)]
        BY <1>1, <1>3, ReadFacts, TreeFacts
      <4>2. DOMAIN Candidates(Items[i], ref) \subseteq Nat
        <5>1. PICK s : s \in IF ref.absolute THEN { <<>> } ELSE Prefixes(FullName(Items[i]))
          <6>1. FullName(Items[i]) \in Seq(STRING)
            BY <1>3, <4>1 DEF FullName, Item
          <6>2. SubSeq(FullName(Items[i]), 1, 0) \in Prefixes(FullName(Items[i]))
            BY <6>1 DEF Prefixes
          <6>3. QED
            BY <6>2
        <5>2. QED
          BY <1>3, <4>1, <5>1, ScopesAreTried
      <4>3. QED
        BY <1>3, <3>2, <4>2, MatchFacts
    <3>3. QED
      BY <3>1, <3>2
  <2> HIDE DEF target, ref
  <2>3. ImportsTypeOK'
    BY <2>1, <2>2 DEF ImportsIInv, ImportsTypeOK
  <2>4. calls' \in Seq(GoodFrames')
    BY <2>1, SameFrames DEF ImportsIInv
  <2>5. CallChain'
    BY <2>1, SameTree DEF ImportsIInv, CallChain
  <2>6. EndsWithAllRead' /\ FailsForACause' /\ NotFoundIsNotThere'
    BY <1>1, <2>1 DEF EndsWithAllRead, FailsForACause, NotFoundIsNotThere
  <2>7. QED
    BY <2>3, <2>4, <2>5, <2>6 DEF ImportsIInv
<1>6. QED
  BY <1>4, <1>5

(* A run that ends well has read all. *)
LEMMA FinishInv ==
  ASSUME ImportsIInv, Finish
  PROVE  ImportsIInv'
<1>1. result' = "ok" /\ UNCHANGED <<tree, calls, links>> /\ Len(calls) = 1 /\ Read
  BY DEF Finish, Stop, Resolving, Read
<1>2. EndsWithAllRead'
  <2>1. calls[1].next > Len(tree[Root].imports)
    BY <1>1, ReadFacts
  <2>2. QED
    BY <1>1, <2>1 DEF EndsWithAllRead
<1>3. FailsForACause' /\ NotFoundIsNotThere'
  BY <1>1 DEF FailsForACause, NotFoundIsNotThere
<1>4. QED
  BY <1>1, <1>2, <1>3, StopKeeps DEF ImportsIInv

(* Every step keeps the invariant. *)
LEMMA ImportsStep == ImportsIInv /\ [Next]_vars => ImportsIInv'
<1> SUFFICES ASSUME ImportsIInv, [Next]_vars
             PROVE  ImportsIInv'
  OBVIOUS
<1>1. CASE MissingImport
  BY <1>1, MissingImportInv
<1>2. CASE ReadImport
  BY <1>2, ReadImportInv
<1>3. CASE Overflow
  BY <1>3, OverflowInv
<1>4. CASE Extend
  BY <1>4, ExtendInv
<1>5. CASE Resolve
  BY <1>5, ResolveInv
<1>6. CASE Finish
  BY <1>6, FinishInv
<1>7. CASE UNCHANGED vars
  <2>1. UNCHANGED <<tree, calls, links>> /\ result' = result
    BY <1>7 DEF vars
  <2>2. EndsWithAllRead' /\ FailsForACause'
    BY <2>1, SameTree DEF ImportsIInv, EndsWithAllRead, FailsForACause
  <2>3. NotFoundIsNotThere'
    <3>1. NotFoundIsNotThere <=> (result = "MessageOrEnumNotFound" /\ Packaged => NotThere)
      BY DEF NotFoundIsNotThere, NotThere
    <3>2. NotFoundIsNotThere' <=> (result' = "MessageOrEnumNotFound" /\ Packaged' => NotThere')
      BY DEF NotFoundIsNotThere, NotThere
    <3>3. Packaged' <=> Packaged
      BY <2>1, SameTree DEF Packaged
    <3>4. QED
      BY <2>1, <3>1, <3>2, <3>3, NotThereSame DEF ImportsIInv
  <2>4. QED
    BY <2>1, <2>2, <2>3, StopKeeps DEF ImportsIInv
<1>8. QED
  BY <1>1, <1>2, <1>3, <1>4, <1>5, <1>6, <1>7 DEF Next

----------------------------------------------------------------------------
(* The theorems. *)

(* read_proto's calls form a chain of imports, and each has read exactly *)
(* what its file reaches by the imports it is done with.                 *)
THEOREM ImportsInvariant == Spec => []ImportsIInv
BY ImportsInit, ImportsStep, PTL DEF Spec

(* fetch_imports appends a copy of an import's items for each way to it, and *)
(* only the items of in_file are not marked as imported.                     *)
THEOREM CopiesAreCounted == Spec => []CopyPerImport
BY ImportsInvariant, CopyPerImportHolds, PTL

(* set_package leaves a type in the module that its own run writes, if its *)
(* file has a package or only in_file imports it.                          *)
THEOREM ModulesAreKept == Spec => []ModulesKept
BY ImportsInvariant, ModulesKeptHolds, PTL

(* read_proto fails only for a file that is missing or that imports itself *)
(* by way of others, and fails whenever one it reaches is or does.         *)
THEOREM FailuresHaveCauses == Spec => []FailsForItsFiles
BY ImportsInvariant, FailsForItsFilesHolds, PTL

(* If every file that is read has a package: a name that resolve_types does *)
(* not find is, in the scopes that it searches, in no file that the file it *)
(* stands in reaches.                                                       *)
THEOREM UnfoundIsNotThere == Spec => []NotFoundIsNotThere
<1>1. ImportsIInv => NotFoundIsNotThere
  BY DEF ImportsIInv
<1>2. QED
  BY <1>1, ImportsInvariant, PTL
=============================================================================

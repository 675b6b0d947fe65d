--------------------------- MODULE ModFilesProofs ---------------------------
(***************************************************************************)
(* What write_proto and update_mod_file leave on disk, for any packages,   *)
(* any number of runs and any number of interruptions.                     *)
(***************************************************************************)
EXTENDS ModFiles, FiniteSetTheorems, SequenceTheorems, TLAPS

----------------------------------------------------------------------------
(* The inductive invariant. *)

Names == STRING \ Punctuation
Pieces == Names \cup Punctuation \cup { "// by hand" }
Line == Seq(Pieces)
Working == pc # "idle"
Declaring == pc \in {"update", "append"}

(* Types, and how far the run has come. *)
FilesTypeOK ==
  /\ \A d \in DOMAIN mods : mods[d] \in Seq(Line) /\ mods[d] # <<>>
  /\ pc \in {"idle", "dirs", "update", "append", "flush"}
  /\ result \in {"none", "ok", "panic", "interrupted"}
  /\ faults \in Nat
  /\ Working \/ result = "ok" => job \in Jobs
  /\ Working => level \in 1 .. Len(job.path) /\ result = "none"
  /\ pc = "flush" => IsFile
  /\ <<>> \in given

(* Somebody else's mod.rs are as they were. *)
HandwrittenKept ==
  \A d \in handwritten : d \in DOMAIN mods /\ mods[d] = Handwritten

(* What is written is the entry, in a mod.rs of our own. *)
Left(pieces) == pc = "append" /\ pending = pieces
AppendsEntry ==
  pc = "append" =>
    /\ ModDir \in DOMAIN mods \ handwritten
    /\ pending \in { << Header, Newline, PubMod, Name, EntryEnd >>, << Newline, PubMod, Name, EntryEnd >>,
                     << PubMod, Name, EntryEnd >>, << Name, EntryEnd >>, << EntryEnd >> }

(* The line that is written is the header or the entry and nothing else. *)
Tidy ==
  LET line == Last(mods[ModDir]) IN
  \/ Left(<< Header, Newline, PubMod, Name, EntryEnd >>) /\ line = <<>>
  \/ Left(<< Newline, PubMod, Name, EntryEnd >>) /\ line = << Header >>
  \/ Left(<< PubMod, Name, EntryEnd >>) /\ line = <<>>
  \/ Left(<< Name, EntryEnd >>) /\ line = << PubMod >>
  \/ Left(<< EntryEnd >>) /\ line = << PubMod, Name >>

(* Lines that are broken: damaged, or cut off. *)
IsBroken(lines, i) ==
  \/ lines[i] \notin { <<>>, <<Header>> } /\ ~Declaration(lines[i])
  \/ i = Len(lines) /\ lines[i] # <<>>
Broken ==
  { p \in (DOMAIN mods \ handwritten) \X Nat :
      p[2] \in 1 .. Len(mods[p[1]]) /\ IsBroken(mods[p[1]], p[2]) }
Written == << ModDir, Len(mods[ModDir]) >>

(* The line being written is either tidy, and then it is not counted, or one *)
(* of those that an interruption has left, and then it is counted already.   *)
BrokenByFaults ==
  /\ IsFiniteSet(Broken)
  /\ pc # "append" => Cardinality(Broken) <= faults
  /\ pc = "append" =>
       \/ Tidy /\ Cardinality(Broken \ {Written}) <= faults
       \/ /\ pending \in { << PubMod, Name, EntryEnd >>, << Name, EntryEnd >>, << EntryEnd >> }
          /\ Cardinality(Broken \cup {Written}) <= faults

(* The header, then an entry for every name, none of them twice. *)
Entry(line) == \E n \in Names : line = << PubMod, n, Semicolon >>
Entries(lines) ==
  /\ Len(lines) >= 2
  /\ lines[1] = << Header >>
  /\ \A i \in 2 .. (Len(lines) - 1) : Entry(lines[i])
  /\ \A i, j \in 2 .. (Len(lines) - 1) : lines[i] = lines[j] => i = j
Clean(lines) == Entries(lines) /\ Last(lines) = <<>>
Lists(lines, name) ==
  \E i \in 1 .. (Len(lines) - 1) : lines[i] = << PubMod, name, Semicolon >>

Declares(d, name) ==
  d \in handwritten \cup blank \/ (d \in DOMAIN mods /\ Lists(mods[d], name))

(* Every mod.rs that pb-rs made and is not writing is clean. *)
ModsClean ==
  faults = 0 =>
    /\ \A d \in DOMAIN mods \ (handwritten \cup blank) :
         ~(pc = "append" /\ d = ModDir) => Clean(mods[d])
    /\ pc = "append" /\ ModDir \notin blank =>
         /\ Tidy
         /\ Len(pending) > 3 => Len(mods[ModDir]) = 1
         /\ Len(pending) <= 3 => Entries(mods[ModDir]) /\ ~Lists(mods[ModDir], Name)

(* Every directory that pb-rs made is declared, except the one it just made. *)
DirsDeclared ==
  faults = 0 =>
    \A p \in dirs \ given :
      /\ p # <<>>
      /\ ~(Declaring /\ p = Upto(level)) => Declares(Front(p), Last(p))

(* Where the run is, its path is there. *)
PathThere ==
  /\ Working => \A k \in 1 .. (level - 1) : Upto(k) \in dirs
  /\ Declaring /\ ~IsFile => Upto(level) \in dirs
  /\ (Declaring /\ IsFile) \/ pc = "flush" => job.path \in DOMAIN outs
  /\ faults = 0 /\ pc = "flush" => Declares(ModDir, Name)

(* What is left of a run that returned Ok. *)
PathLeft ==
  faults = 0 /\ result = "ok" /\ ~job.noOutput =>
    /\ job.path \in DOMAIN outs /\ outs[job.path] = "complete"
    /\ \A k \in 1 .. (Len(job.path) - 1) : Upto(k) \in dirs
    /\ Declares(Front(job.path), Last(job.path))

FilesIInv ==
  /\ FilesTypeOK
  /\ HandwrittenKept
  /\ AppendsEntry
  /\ BrokenByFaults
  /\ ModsClean
  /\ DirsDeclared
  /\ PathThere
  /\ PathLeft

----------------------------------------------------------------------------
(* Facts about sequences and mod.rs files. *)

(* A sequence without its last element, and the last element. *)
LEMMA FrontAndLast ==
  ASSUME NEW S, NEW s \in Seq(S), s # <<>>
  PROVE  /\ Front(s) \in Seq(S)
         /\ Len(Front(s)) = Len(s) - 1
         /\ \A i \in 1 .. (Len(s) - 1) : Front(s)[i] = s[i]
         /\ Last(s) = s[Len(s)] /\ Last(s) \in S
         /\ Len(s) \in Nat \ {0}
<1>1. Len(s) \in Nat \ {0}
  BY EmptySeq
<1>2. \A i \in 1 .. (Len(s) - 1) : s[i] \in S
  BY <1>1
<1> DEFINE n == Len(s) - 1
<1>2a. n \in Nat
  BY <1>1
<1>3. /\ Front(s) \in Seq(S)
      /\ Len(Front(s)) = IF 1 <= n THEN n - 1 + 1 ELSE 0
      /\ \A i \in 1 .. (n - 1 + 1) : Front(s)[i] = s[1 + i - 1]
  <2>1. 1 \in Int /\ n \in Int
    BY <1>1
  <2>2. \A i \in 1 .. n : s[i] \in S
    BY <1>2
  <2>3. Front(s) = SubSeq(s, 1, n)
    BY DEF Front
  <2> HIDE <1>1 DEF n
  <2> QED BY <2>1, <2>2, <2>3, SubSeqProperties
<1>4. Last(s) = s[Len(s)] /\ Last(s) \in S
  BY <1>1, ElementOfSeq DEF Last
<1>5. Len(Front(s)) = n
  <2> HIDE DEF n
  <2> QED BY <1>2a, <1>3
<1>6. \A i \in 1 .. n : Front(s)[i] = s[i]
  <2> HIDE DEF n
  <2> QED BY <1>2a, <1>3
<1> QED
  BY <1>1, <1>3, <1>4, <1>5, <1>6

(* The pieces are different from each other. *)
LEMMA PiecesDiffer ==
  /\ Header # PubMod /\ Header # Semicolon /\ PubMod # Semicolon
  /\ Header \notin { Newline, EntryEnd } /\ PubMod \notin { Newline, EntryEnd }
  /\ Newline # EntryEnd /\ Semicolon \notin { Newline, EntryEnd } /\ Header # "// by hand"
  /\ Punctuation \subseteq Pieces /\ Names \subseteq Pieces
  /\ { Header, PubMod, Semicolon, Newline, EntryEnd, "// by hand" } \subseteq Pieces
  /\ \A n \in Names : n \notin { Header, PubMod, Semicolon, Newline, EntryEnd }
BY DEF Header, PubMod, Semicolon, Newline, EntryEnd, Punctuation, Pieces, Names

(* Tuples as sequences. *)
LEMMA TupleFacts ==
  ASSUME NEW S, NEW x \in S, NEW y \in S
  PROVE  /\ << x >> \in Seq(S) /\ Len(<< x >>) = 1 /\ << x >>[1] = x
         /\ DOMAIN << x >> = {1}
         /\ << x, y >> \in Seq(S) /\ Len(<< x, y >>) = 2
         /\ << x, y >>[1] = x /\ << x, y >>[2] = y
OBVIOUS

(* A sequence of three, and its tail. *)
LEMMA TripleFacts ==
  ASSUME NEW S, NEW x \in S, NEW y \in S, NEW z \in S
  PROVE  /\ << x, y, z >> \in Seq(S) /\ Len(<< x, y, z >>) = 3
         /\ DOMAIN << x, y, z >> = {1, 2, 3}
         /\ << x, y, z >>[1] = x /\ << x, y, z >>[2] = y /\ << x, y, z >>[3] = z
         /\ SubSeq(<< x, y, z >>, 2, 3) = << y, z >>
<1> DEFINE s == << x, y, z >>
<1>1. /\ s \in Seq(S) /\ Len(s) = 3 /\ DOMAIN s = {1, 2, 3}
      /\ s[1] = x /\ s[2] = y /\ s[3] = z
  OBVIOUS
<1> HIDE DEF s
<1>2. \A i \in 2 .. 3 : s[i] \in S
  BY <1>1
<1> DEFINE t == SubSeq(s, 2, 3)
<1>3. t \in Seq(S) /\ Len(t) = 2 /\ t[1] = y /\ t[2] = z
  <2>1. /\ t \in Seq(S)
        /\ Len(t) = IF 2 <= 3 THEN 3 - 2 + 1 ELSE 0
        /\ \A i \in 1 .. 3 - 2 + 1 : t[i] = s[2 + i - 1]
    BY <1>2, SubSeqProperties
  <2> HIDE DEF t
  <2>2. t[1] = s[2] /\ t[2] = s[3] /\ Len(t) = 2
    BY <2>1
  <2> QED BY <1>1, <2>1, <2>2
<1>4. << y, z >> \in Seq(S) /\ Len(<< y, z >>) = 2 /\ << y, z >>[1] = y /\ << y, z >>[2] = z
  BY TupleFacts
<1> DEFINE u == << y, z >>
<1> HIDE DEF t, u
<1>5. \A i \in 1 .. 2 : t[i] = u[i]
  BY <1>3, <1>4 DEF u
<1>6. t = u
  BY <1>3, <1>4, <1>5, SeqEqual DEF u
<1> QED BY <1>1, <1>6 DEF s, t, u

(* The first element of a tuple, and the rest. *)
LEMMA TupleTails ==
  /\ \A a : Head(<< a >>) = a /\ Tail(<< a >>) = <<>>
  /\ \A a, b : Head(<< a, b >>) = a /\ Tail(<< a, b >>) = << b >>
  /\ \A a, b, c : Head(<< a, b, c >>) = a /\ Tail(<< a, b, c >>) = << b, c >>
  /\ \A a, b, c, d : Head(<< a, b, c, d >>) = a /\ Tail(<< a, b, c, d >>) = << b, c, d >>
  /\ \A a, b, c, d, e :
       Head(<< a, b, c, d, e >>) = a /\ Tail(<< a, b, c, d, e >>) = << b, c, d, e >>
OBVIOUS

(* Tuples that grow. *)
LEMMA TupleAppends ==
  ASSUME NEW S, NEW x \in S, NEW y \in S, NEW z \in S
  PROVE  /\ Append(<<>>, x) = << x >>
         /\ Append(<< x >>, y) = << x, y >>
         /\ Append(<< x, y >>, z) = << x, y, z >>
<1>1. Append(<<>>, x) = << x >>
  <2> DEFINE s == Append(<<>>, x)
             t == << x >>
  <2>1. s \in Seq(S) /\ Len(s) = 1 /\ s[1] = x
    BY AppendProperties, EmptySeq
  <2>2. t \in Seq(S) /\ Len(t) = 1 /\ t[1] = x
    OBVIOUS
  <2> HIDE DEF s, t
  <2>3. \A i \in 1 .. 1 : s[i] = t[i]
    BY <2>1, <2>2
  <2> QED BY <2>1, <2>2, <2>3, SeqEqual DEF s, t
<1>2. Append(<< x >>, y) = << x, y >>
  <2> DEFINE r == << x >>
             s == Append(r, y)
             t == << x, y >>
  <2>1. r \in Seq(S) /\ Len(r) = 1 /\ r[1] = x
    OBVIOUS
  <2>2. t \in Seq(S) /\ Len(t) = 2 /\ t[1] = x /\ t[2] = y
    OBVIOUS
  <2> HIDE DEF r, t
  <2>2a. /\ s \in Seq(S) /\ Len(s) = Len(r) + 1
         /\ (\A i \in 1 .. Len(r) : s[i] = r[i]) /\ s[Len(r) + 1] = y
    <3>1. r \in Seq(S)
      BY <2>1
    <3> QED BY <3>1, AppendProperties
  <2> HIDE DEF s
  <2>3. s \in Seq(S) /\ Len(s) = 2 /\ s[1] = x /\ s[2] = y
    BY <2>1, <2>2a
  <2>4. \A i \in 1 .. 2 : s[i] = t[i]
    BY <2>2, <2>3
  <2> QED BY <2>2, <2>3, <2>4, SeqEqual DEF r, s, t
<1>3. Append(<< x, y >>, z) = << x, y, z >>
  <2> DEFINE r == << x, y >>
             s == Append(r, z)
             t == << x, y, z >>
  <2>1. r \in Seq(S) /\ Len(r) = 2 /\ r[1] = x /\ r[2] = y
    OBVIOUS
  <2>2. t \in Seq(S) /\ Len(t) = 3 /\ t[1] = x /\ t[2] = y /\ t[3] = z
    OBVIOUS
  <2> HIDE DEF r, t
  <2>2a. /\ s \in Seq(S) /\ Len(s) = Len(r) + 1
         /\ (\A i \in 1 .. Len(r) : s[i] = r[i]) /\ s[Len(r) + 1] = z
    <3>1. r \in Seq(S)
      BY <2>1
    <3> QED BY <3>1, AppendProperties
  <2> HIDE DEF s
  <2>3. s \in Seq(S) /\ Len(s) = 3 /\ s[1] = x /\ s[2] = y /\ s[3] = z
    BY <2>1, <2>2a
  <2>4. \A i \in 1 .. 3 : s[i] = t[i]
    BY <2>2, <2>3
  <2> QED BY <2>2, <2>3, <2>4, SeqEqual DEF r, s, t
<1> QED BY <1>1, <1>2, <1>3

(* A tuple in front of another. *)
LEMMA TupleConcat ==
  ASSUME NEW S, NEW a \in S, NEW b \in S, NEW c \in S, NEW d \in S, NEW e \in S
  PROVE  << a, b >> \o << c, d, e >> = << a, b, c, d, e >>
<1> DEFINE r == << a, b >>
           s == << c, d, e >>
           t == << a, b, c, d, e >>
           u == r \o s
<1>1. r \in Seq(S) /\ Len(r) = 2 /\ r[1] = a /\ r[2] = b
  OBVIOUS
<1>2. s \in Seq(S) /\ Len(s) = 3 /\ s[1] = c /\ s[2] = d /\ s[3] = e
  OBVIOUS
<1>3. /\ t \in Seq(S) /\ Len(t) = 5
      /\ t[1] = a /\ t[2] = b /\ t[3] = c /\ t[4] = d /\ t[5] = e
  OBVIOUS
<1> HIDE DEF r, s, t
<1>4. /\ u \in Seq(S) /\ Len(u) = Len(r) + Len(s)
      /\ \A i \in 1 .. Len(r) + Len(s) : u[i] = IF i <= Len(r) THEN r[i] ELSE s[i - Len(r)]
  BY <1>1, <1>2, ConcatProperties
<1> HIDE DEF u
<1>5. /\ Len(u) = 5
      /\ \A i \in 1 .. 5 : u[i] = IF i <= 2 THEN r[i] ELSE s[i - 2]
  BY <1>1, <1>2, <1>4
<1>6. u[1] = a /\ u[2] = b /\ u[3] = c /\ u[4] = d /\ u[5] = e
  BY <1>1, <1>2, <1>5
<1>7. \A i \in 1 .. 5 : u[i] = t[i]
  BY <1>3, <1>6
<1>8. u = t
  BY <1>3, <1>4, <1>5, <1>7, SeqEqual
<1> QED BY <1>8 DEF r, s, t, u

(* A write changes the last line and what follows it. *)
LEMMA AppendPieceFacts ==
  ASSUME NEW lines \in Seq(Line), lines # <<>>, NEW piece \in Pieces
  PROVE  /\ AppendPiece(lines, piece) \in Seq(Line)
         /\ AppendPiece(lines, piece) # <<>>
         /\ Len(AppendPiece(lines, piece)) =
              IF piece \in { Newline, EntryEnd } THEN Len(lines) + 1 ELSE Len(lines)
         /\ \A i \in 1 .. (Len(lines) - 1) : AppendPiece(lines, piece)[i] = lines[i]
         /\ AppendPiece(lines, piece)[Len(lines)] =
              IF piece = Newline THEN Last(lines)
              ELSE IF piece = EntryEnd THEN Append(Last(lines), Semicolon)
              ELSE Append(Last(lines), piece)
         /\ piece \in { Newline, EntryEnd } => AppendPiece(lines, piece)[Len(lines) + 1] = <<>>
         /\ Len(lines) \in Nat \ {0}
<1> DEFINE n == Len(lines)
           front == Front(lines)
           line == IF piece = Newline THEN Last(lines)
                   ELSE IF piece = EntryEnd THEN Append(Last(lines), Semicolon)
                   ELSE Append(Last(lines), piece)
           end == IF piece \in { Newline, EntryEnd } THEN << line, <<>> >> ELSE << line >>
<1>1. /\ front \in Seq(Line) /\ Len(front) = n - 1 /\ n \in Nat \ {0}
      /\ \A i \in 1 .. (n - 1) : front[i] = lines[i]
      /\ Last(lines) \in Line
  BY FrontAndLast
<1>2. line \in Line
  BY <1>1, AppendProperties, PiecesDiffer DEF Line
<1>3. AppendPiece(lines, piece) = front \o end
  BY PiecesDiffer DEF AppendPiece
<1> HIDE DEF line, front
<1>4. /\ end \in Seq(Line)
      /\ Len(end) = IF piece \in { Newline, EntryEnd } THEN 2 ELSE 1
      /\ end[1] = line
      /\ piece \in { Newline, EntryEnd } => end[2] = <<>>
  <2>1. <<>> \in Line
    BY DEF Line
  <2>2. CASE piece \in { Newline, EntryEnd }
    <3>1. end = << line, <<>> >>
      BY <2>2
    <3> HIDE DEF end
    <3>2. end \in Seq(Line) /\ Len(end) = 2 /\ end[1] = line /\ end[2] = <<>>
      BY <1>2, <2>1, <3>1, TupleFacts
    <3> QED BY <2>2, <3>2
  <2>3. CASE piece \notin { Newline, EntryEnd }
    <3>1. end = << line >>
      BY <2>3
    <3> HIDE DEF end
    <3>2. end \in Seq(Line) /\ Len(end) = 1 /\ end[1] = line
      BY <1>2, <3>1, TupleFacts
    <3> QED BY <2>3, <3>2
  <2> QED BY <2>2, <2>3
<1> DEFINE whole == front \o end
<1> HIDE DEF end
<1>5. /\ whole \in Seq(Line)
      /\ Len(whole) = Len(front) + Len(end)
      /\ \A i \in 1 .. Len(front) + Len(end) :
           whole[i] = IF i <= Len(front) THEN front[i] ELSE end[i - Len(front)]
  BY <1>1, <1>4, ConcatProperties
<1> HIDE DEF n, whole
<1>6. PICK k \in Nat : k = Len(front) /\ n = k + 1
  BY <1>1
<1>7. PICK m \in {1, 2} : m = Len(end)
  BY <1>4
<1>7a. piece \in { Newline, EntryEnd } => m = 2
  BY <1>4, <1>7
<1>7b. piece \notin { Newline, EntryEnd } => m = 1
  BY <1>4, <1>7
<1>8. /\ Len(whole) = k + m
      /\ \A i \in 1 .. k + m : whole[i] = IF i <= k THEN front[i] ELSE end[i - k]
  BY <1>5, <1>6, <1>7
<1>9. \A i \in 1 .. (n - 1) : whole[i] = lines[i]
  BY <1>1, <1>6, <1>7, <1>8
<1>10. whole[n] = line
  <2>1. n \in 1 .. k + m /\ ~(n <= k) /\ n - k = 1
    BY <1>6, <1>7
  <2> QED BY <1>4, <1>8, <2>1
<1>11. ASSUME piece \in { Newline, EntryEnd }
       PROVE  whole[n + 1] = <<>>
  <2>1. m = 2 => n + 1 \in 1 .. k + m /\ ~(n + 1 <= k) /\ (n + 1) - k = 2
    BY <1>6
  <2> QED BY <1>4, <1>7a, <1>8, <1>11, <2>1
<1>12. Len(whole) = IF piece \in { Newline, EntryEnd } THEN n + 1 ELSE n
  <2>1. (m = 2 => Len(whole) = n + 1) /\ (m = 1 => Len(whole) = n)
    BY <1>6, <1>8
  <2> QED BY <1>7a, <1>7b, <2>1
<1>13. whole # <<>>
  BY <1>5, <1>6, <1>7, <1>8, EmptySeq
<1>14. AppendPiece(lines, piece) = whole
  BY <1>3 DEF whole
<1> HIDE DEF front
<1> QED BY <1>1, <1>5, <1>9, <1>10, <1>11, <1>12, <1>13, <1>14 DEF n, line

(* The directories on a path. *)
LEMMA PrefixFacts ==
  ASSUME NEW S, NEW s \in Seq(S), NEW k \in 1 .. Len(s)
  PROVE  /\ SubSeq(s, 1, k) # <<>>
         /\ Front(SubSeq(s, 1, k)) = SubSeq(s, 1, k - 1)
         /\ Last(SubSeq(s, 1, k)) = s[k]
         /\ SubSeq(s, 1, Len(s)) = s
<1>1. Len(s) \in Nat /\ k \in Nat \ {0} /\ k - 1 \in Nat
  BY LenProperties
<1> DEFINE p == SubSeq(s, 1, k)
           q == SubSeq(s, 1, k - 1)
<1>2. p \in Seq(S) /\ Len(p) = k /\ \A i \in 1 .. k : p[i] = s[i]
  <2>1. 1 \in Int /\ k \in Int /\ \A i \in 1 .. k : s[i] \in S
    BY <1>1, ElementOfSeq
  <2>2. /\ p \in Seq(S)
        /\ Len(p) = IF 1 <= k THEN k - 1 + 1 ELSE 0
        /\ \A i \in 1 .. k - 1 + 1 : p[i] = s[1 + i - 1]
    BY <2>1, SubSeqProperties
  <2> HIDE DEF p
  <2> QED BY <1>1, <2>2
<1>3. q \in Seq(S) /\ Len(q) = k - 1 /\ \A i \in 1 .. (k - 1) : q[i] = s[i]
  <2>1. PICK n \in Nat : n = k - 1
    BY <1>1
  <2>2. 1 \in Int /\ n \in Int /\ \A i \in 1 .. n : s[i] \in S
    BY <1>1, <2>1, ElementOfSeq
  <2>3. q = SubSeq(s, 1, n)
    BY <2>1
  <2>4. /\ q \in Seq(S)
        /\ Len(q) = IF 1 <= n THEN n - 1 + 1 ELSE 0
        /\ \A i \in 1 .. n - 1 + 1 : q[i] = s[1 + i - 1]
    BY <2>2, <2>3, SubSeqProperties
  <2> HIDE DEF q
  <2> QED BY <1>1, <2>1, <2>4
<1> HIDE DEF p, q
<1>4. p # <<>>
  BY <1>1, <1>2, EmptySeq
<1>5. /\ Front(p) \in Seq(S) /\ Len(Front(p)) = k - 1
      /\ \A i \in 1 .. (k - 1) : Front(p)[i] = p[i]
      /\ Last(p) = p[k]
  BY <1>2, <1>4, FrontAndLast
<1>6. Last(p) = s[k]
  BY <1>1, <1>2, <1>5
<1>7. ASSUME NEW i \in 1 .. (k - 1)
      PROVE  Front(p)[i] = q[i]
  <2>1. i \in 1 .. k
    BY <1>1
  <2>2. Front(p)[i] = p[i] /\ p[i] = s[i] /\ q[i] = s[i]
    BY <1>2, <1>3, <1>5, <2>1
  <2> QED BY <2>2
<1>8. Front(p) = q
  BY <1>3, <1>5, <1>7, SeqEqual
<1>9. SubSeq(s, 1, Len(s)) = s
  BY SubSeqFull
<1> QED BY <1>4, <1>6, <1>8, <1>9 DEF p, q

(* The path of a run. *)
LEMMA JobFacts ==
  ASSUME job \in Jobs
  PROVE  /\ job.path \in Seq(Names) /\ Len(job.path) \in Nat \ {0}
         /\ job.noOutput \in BOOLEAN
         /\ Upto(Len(job.path)) = job.path
         /\ \A k \in 1 .. Len(job.path) :
              /\ job.path[k] \in Names
              /\ Upto(k) # <<>>
              /\ Front(Upto(k)) = Upto(k - 1)
              /\ Last(Upto(k)) = job.path[k]
<1>1. job.path \in Seq(Names) /\ job.path # <<>> /\ job.noOutput \in BOOLEAN
  BY ModFilesAssumption DEF Names
<1>2. Len(job.path) \in Nat \ {0}
  BY <1>1, EmptySeq
<1>3. ASSUME NEW k \in 1 .. Len(job.path)
      PROVE  /\ job.path[k] \in Names
             /\ Upto(k) # <<>>
             /\ Front(Upto(k)) = Upto(k - 1)
             /\ Last(Upto(k)) = job.path[k]
  BY <1>1, <1>3, PrefixFacts, ElementOfSeq DEF Upto
<1>4. Upto(Len(job.path)) = job.path
  BY <1>1, SubSeqFull DEF Upto
<1> QED BY <1>1, <1>2, <1>3, <1>4

(* A mod.rs that somebody else wrote is not touched. *)
LEMMA HandwrittenRefused == Refused(Handwritten)
<1>1. Handwritten[1] = << "// by hand" >>
  BY DEF Handwritten
<1>2. \A i \in DOMAIN Handwritten[1] : Handwritten[1][i] # Header
  <2>1. "// by hand" \in Pieces
    BY PiecesDiffer
  <2>2. DOMAIN << "// by hand" >> = {1} /\ << "// by hand" >>[1] = "// by hand"
    BY <2>1, TupleFacts
  <2> QED BY <1>1, <2>2, PiecesDiffer
<1>3. LinesRead(Handwritten) # <<>>
  <2>1. <<>> \in Line /\ << "// by hand" >> \in Line
    <3>1. "// by hand" \in Pieces
      BY PiecesDiffer
    <3> QED BY <3>1, TupleFacts, EmptySeq DEF Line
  <2>2. Handwritten \in Seq(Line) /\ Len(Handwritten) = 2
    BY <2>1, TupleFacts DEF Handwritten
  <2>3. Handwritten # <<>>
    BY <2>2, EmptySeq
  <2>4. Len(Front(Handwritten)) = 2 - 1
    BY <2>2, <2>3, FrontAndLast
  <2>5. Front(Handwritten) # <<>>
    BY <2>4, EmptySeq
  <2> QED BY <2>3, <2>5 DEF LinesRead
<1> QED BY <1>2, <1>3 DEF Refused

(* What is read back from a line that pb-rs wrote. *)
LEMMA EntryFacts ==
  ASSUME NEW n \in Names
  PROVE  /\ Mentions(<< PubMod, n, Semicolon >>)
         /\ After(<< PubMod, n, Semicolon >>) = << n, Semicolon >>
         /\ ~Mentions(<< Header >>)
         /\ Declaration(<< PubMod, n, Semicolon >>)
<1> DEFINE line == << PubMod, n, Semicolon >>
<1>1. n \in Pieces /\ PubMod \in Pieces /\ Semicolon \in Pieces /\ n # PubMod
  BY PiecesDiffer
<1>2. /\ line \in Seq(Pieces) /\ Len(line) = 3 /\ DOMAIN line = {1, 2, 3}
      /\ line[1] = PubMod /\ line[2] = n /\ line[3] = Semicolon
      /\ SubSeq(line, 2, 3) = << n, Semicolon >>
  BY <1>1, TripleFacts
<1> HIDE DEF line
<1>3. Mentions(line)
  BY <1>2 DEF Mentions
<1>4. ASSUME NEW i \in DOMAIN line
      PROVE  (line[i] = PubMod /\ \A j \in 1 .. (i - 1) : line[j] # PubMod) <=> i = 1
  <2>1. i = 2 => line[i] # PubMod
    BY <1>1, <1>2
  <2>2. i = 3 => line[i] # PubMod
    BY <1>2, PiecesDiffer
  <2>3. ASSUME NEW j \in 1 .. (1 - 1) PROVE FALSE
    OBVIOUS
  <2>4. i \in {1, 2, 3}
    BY <1>2
  <2> QED BY <1>2, <2>1, <2>2, <2>3, <2>4
<1>5. 1 \in DOMAIN line
  BY <1>2
<1>6. (CHOOSE i \in DOMAIN line :
         line[i] = PubMod /\ \A j \in 1 .. (i - 1) : line[j] # PubMod) = 1
  BY <1>4, <1>5
<1>7. After(line) = SubSeq(line, 1 + 1, Len(line))
  BY <1>6 DEF After
<1>8. After(line) = << n, Semicolon >>
  <2>1. 1 + 1 = 2
    OBVIOUS
  <2> QED BY <1>2, <1>7, <2>1
<1>9. ~Mentions(<< Header >>)
  <2>1. Header \in Pieces
    BY PiecesDiffer
  <2>2. DOMAIN << Header >> = {1} /\ << Header >>[1] = Header
    BY <2>1, TupleFacts
  <2> QED BY <2>2, PiecesDiffer DEF Mentions
<1>10. Declaration(line)
  BY <1>2 DEF Declaration
<1> QED BY <1>3, <1>8, <1>9, <1>10 DEF line

(* A line of a clean file matches if it is the entry, and never panics. *)
LEMMA LineFacts ==
  ASSUME NEW line, line = << Header >> \/ Entry(line), NEW name \in Names
  PROVE  /\ Matches(line, name) <=> line = << PubMod, name, Semicolon >>
         /\ ~SlicePanics(line)
<1>1. CASE line = << Header >>
  <2>1. ~Mentions(line)
    BY <1>1, EntryFacts
  <2>2. line # << PubMod, name, Semicolon >>
    BY <2>1, EntryFacts
  <2> QED BY <2>1, <2>2 DEF Matches, SlicePanics
<1>2. CASE Entry(line)
  <2>1. PICK n \in Names : line = << PubMod, n, Semicolon >>
    BY <1>2 DEF Entry
  <2>2. Mentions(line) /\ After(line) = << n, Semicolon >>
    BY <2>1, EntryFacts
  <2>3. << n, Semicolon >> = << name, Semicolon >> <=> n = name
    OBVIOUS
  <2>4. << PubMod, n, Semicolon >> = << PubMod, name, Semicolon >> <=> n = name
    OBVIOUS
  <2>5. << n, Semicolon >> # <<>>
    OBVIOUS
  <2> QED BY <2>1, <2>2, <2>3, <2>4, <2>5 DEF Matches, SlicePanics
<1> QED BY <1>1, <1>2

(* A clean file is read without a panic, for what it declares. *)
LEMMA CleanFacts ==
  ASSUME NEW lines \in Seq(Line), lines # <<>>, Clean(lines), NEW name \in Names
  PROVE  /\ ~Refused(lines)
         /\ ~Panics(lines, name)
         /\ Present(lines, name) <=> Lists(lines, name)
<1>1. PICK n \in Nat : n = Len(lines) /\ n >= 2
  BY LenProperties DEF Clean, Entries
<1>2. DOMAIN LinesRead(lines) = 1 .. (n - 1)
  <2>1. Front(lines) \in Seq(Line) /\ Len(Front(lines)) = n - 1
    BY <1>1, FrontAndLast
  <2>2. LinesRead(lines) = Front(lines)
    BY DEF LinesRead, Clean
  <2> QED BY <2>1, <2>2, LenProperties
<1>3. ~Refused(lines)
  <2>1. Header \in Pieces
    BY PiecesDiffer
  <2>2. 1 \in DOMAIN << Header >> /\ << Header >>[1] = Header
    BY <2>1, TupleFacts
  <2> QED BY <2>2 DEF Refused, Clean, Entries
<1>4. ASSUME NEW i \in 1 .. (n - 1)
      PROVE  /\ Matches(lines[i], name) <=> lines[i] = << PubMod, name, Semicolon >>
             /\ ~SlicePanics(lines[i])
  <2>1. i = 1 \/ i \in 2 .. (n - 1)
    BY <1>1
  <2>2. lines[i] = << Header >> \/ Entry(lines[i])
    BY <1>1, <2>1 DEF Clean, Entries
  <2> QED BY <2>2, LineFacts
<1>5. ~Panics(lines, name)
  BY <1>2, <1>4 DEF Panics
<1>6. ASSUME NEW i \in 1 .. (n - 1), NEW j \in 1 .. i
      PROVE  ~SlicePanics(lines[j])
  <2>1. j \in 1 .. (n - 1)
    BY <1>1
  <2> QED BY <1>4, <2>1
<1>7. Present(lines, name) <=> \E i \in 1 .. (n - 1) : lines[i] = << PubMod, name, Semicolon >>
  BY <1>2, <1>4, <1>6 DEF Present
<1> QED BY <1>1, <1>3, <1>5, <1>7 DEF Lists

----------------------------------------------------------------------------
(* What a step does to the mod.rs files. *)

(* The mod.rs that is looked at, and the name in it. *)
LEMMA HereFacts ==
  ASSUME FilesTypeOK, Working
  PROVE  /\ job \in Jobs /\ Name \in Names /\ Name \in Pieces
         /\ level \in 1 .. Len(job.path) /\ Len(job.path) \in Nat
         /\ Upto(level) # <<>> /\ Front(Upto(level)) = ModDir /\ Last(Upto(level)) = Name
BY JobFacts, PiecesDiffer DEF FilesTypeOK, ModDir, Name

(* The pieces in turn. *)
LEMMA PendingFacts ==
  ASSUME FilesTypeOK, AppendsEntry, pc = "append"
  PROVE  \/ /\ pending = << Header, Newline, PubMod, Name, EntryEnd >>
            /\ Head(pending) = Header
            /\ Tail(pending) = << Newline, PubMod, Name, EntryEnd >>
         \/ /\ pending = << Newline, PubMod, Name, EntryEnd >>
            /\ Head(pending) = Newline
            /\ Tail(pending) = << PubMod, Name, EntryEnd >>
         \/ /\ pending = << PubMod, Name, EntryEnd >>
            /\ Head(pending) = PubMod
            /\ Tail(pending) = << Name, EntryEnd >>
         \/ /\ pending = << Name, EntryEnd >>
            /\ Head(pending) = Name
            /\ Tail(pending) = << EntryEnd >>
         \/ /\ pending = << EntryEnd >>
            /\ Head(pending) = EntryEnd
            /\ Tail(pending) = <<>>
<1>1. CASE pending = << Header, Newline, PubMod, Name, EntryEnd >>
  BY <1>1, TupleTails
<1>2. CASE pending = << Newline, PubMod, Name, EntryEnd >>
  BY <1>2, TupleTails
<1>3. CASE pending = << PubMod, Name, EntryEnd >>
  BY <1>3, TupleTails
<1>4. CASE pending = << Name, EntryEnd >>
  BY <1>4, TupleTails
<1>5. CASE pending = << EntryEnd >>
  BY <1>5, TupleTails
<1> QED BY <1>1, <1>2, <1>3, <1>4, <1>5 DEF AppendsEntry

(* A write changes one mod.rs, not a handwritten one. *)
LEMMA WriteFacts ==
  ASSUME FilesTypeOK, AppendsEntry, WritePiece
  PROVE  /\ ModDir \in DOMAIN mods \ handwritten
         /\ Head(pending) \in Pieces
         /\ mods[ModDir] \in Seq(Line) /\ mods[ModDir] # <<>>
         /\ DOMAIN mods' = DOMAIN mods
         /\ \A d \in DOMAIN mods \ {ModDir} : mods'[d] = mods[d]
         /\ mods'[ModDir] = AppendPiece(mods[ModDir], Head(pending))
<1>1. pc = "append" /\ Working
  BY DEF WritePiece, At, Working
<1>2. ModDir \in DOMAIN mods \ handwritten
  BY <1>1 DEF AppendsEntry
<1>3. Head(pending) \in Pieces
  <2>1. Name \in Pieces
    BY <1>1, HereFacts
  <2>2. Head(pending) \in {Header, Newline, PubMod, Name, EntryEnd}
    <3> HIDE DEF FilesTypeOK, AppendsEntry
    <3>1. \/ Head(pending) = Header \/ Head(pending) = Newline \/ Head(pending) = PubMod
          \/ Head(pending) = Name \/ Head(pending) = EntryEnd
      BY <1>1, PendingFacts, Zenon
    <3> QED BY <3>1
  <2>3. {Header, Newline, PubMod, EntryEnd} \subseteq Pieces
    BY PiecesDiffer
  <2> QED BY <2>1, <2>2, <2>3
<1>4. mods' = [mods EXCEPT ![ModDir] = AppendPiece(mods[ModDir], Head(pending))]
  BY DEF WritePiece
<1> QED BY <1>2, <1>3, <1>4 DEF FilesTypeOK

(* An empty file has one line, without a newline. *)
LEMMA EmptyFacts ==
  Empty \in Seq(Line) /\ Len(Empty) = 1 /\ Empty[1] = <<>> /\ Empty # <<>> /\ Last(Empty) = <<>>
<1>1. <<>> \in Line
  BY DEF Line
<1>2. Empty \in Seq(Line) /\ Len(Empty) = 1 /\ Empty[1] = <<>>
  BY <1>1, TupleFacts DEF Empty
<1>3. Empty # <<>>
  BY <1>2, EmptySeq
<1>4. Last(Empty) = Empty[Len(Empty)]
  BY DEF Last
<1> QED BY <1>2, <1>3, <1>4

(* Complete lines stay. *)
LEMMA ModsGrow ==
  ASSUME FilesTypeOK, AppendsEntry, [Next]_vars
  PROVE  /\ handwritten' = handwritten /\ given' = given /\ blank' = blank
         /\ \A d \in DOMAIN mods' : mods'[d] \in Seq(Line) /\ mods'[d] # <<>>
         /\ \A d \in DOMAIN mods :
              /\ d \in DOMAIN mods'
              /\ Len(mods'[d]) \in Nat /\ Len(mods[d]) \in Nat \ {0}
              /\ Len(mods'[d]) >= Len(mods[d])
              /\ \A i \in 1 .. (Len(mods[d]) - 1) : mods'[d][i] = mods[d][i]
<1>1. handwritten' = handwritten /\ given' = given /\ blank' = blank
  BY DEF Next, vars, Start, ExistingDir, CreateDir, NoOutput, CreateOut, NothingToDeclare,
         ScanPanics, OpenToAppend, CreateMod, WritePiece, Flush, Interrupt
<1>2. \A d \in DOMAIN mods :
        mods[d] \in Seq(Line) /\ mods[d] # <<>> /\ Len(mods[d]) \in Nat \ {0}
  BY EmptySeq DEF FilesTypeOK
<1>3. CASE mods' = mods
  BY <1>1, <1>2, <1>3
<1>4. CASE CreateMod
  <2>1. /\ ModDir \notin DOMAIN mods
        /\ mods' = [d \in DOMAIN mods \cup {ModDir} |->
                      IF d = ModDir THEN Empty ELSE mods[d]]
    BY <1>4 DEF CreateMod
  <2>2. DOMAIN mods' = DOMAIN mods \cup {ModDir}
    BY <2>1
  <2>3. mods'[ModDir] = Empty /\ \A d \in DOMAIN mods : mods'[d] = mods[d]
    BY <2>1
  <2> QED BY <1>1, <1>2, <2>2, <2>3, EmptyFacts
<1>5. CASE WritePiece
  <2>1. \A d \in DOMAIN mods :
          mods'[d] = mods[d] \/ d = ModDir
    BY <1>5, WriteFacts
  <2>2. /\ mods'[ModDir] \in Seq(Line) /\ mods'[ModDir] # <<>>
        /\ Len(mods'[ModDir]) = Len(mods[ModDir]) \/ Len(mods'[ModDir]) = Len(mods[ModDir]) + 1
        /\ \A i \in 1 .. (Len(mods[ModDir]) - 1) : mods'[ModDir][i] = mods[ModDir][i]
    BY <1>5, WriteFacts, AppendPieceFacts
  <2>3. DOMAIN mods' = DOMAIN mods /\ ModDir \in DOMAIN mods
    BY <1>5, WriteFacts
  <2>4. /\ Len(mods[ModDir]) \in Nat \ {0} /\ Len(mods'[ModDir]) \in Nat
        /\ Len(mods'[ModDir]) >= Len(mods[ModDir])
    BY <1>2, <2>2, <2>3
  <2>5. ASSUME NEW d \in DOMAIN mods
        PROVE  /\ Len(mods'[d]) \in Nat
               /\ mods'[d] \in Seq(Line) /\ mods'[d] # <<>>
               /\ Len(mods'[d]) >= Len(mods[d])
               /\ \A i \in 1 .. (Len(mods[d]) - 1) : mods'[d][i] = mods[d][i]
    <3>1. CASE d = ModDir
      BY <2>2, <2>4, <3>1
    <3>2. CASE mods'[d] = mods[d]
      BY <1>2, <3>2
    <3> QED BY <2>1, <3>1, <3>2
  <2> QED BY <1>1, <1>2, <2>3, <2>5
<1>6. mods' = mods \/ CreateMod \/ WritePiece
  BY DEF Next, vars, disk, Start, ExistingDir, CreateDir, NoOutput, CreateOut,
         NothingToDeclare, ScanPanics, OpenToAppend, Flush, Interrupt
<1> QED BY <1>3, <1>4, <1>5, <1>6

(* What is declared stays declared. *)
LEMMA DeclaresStays ==
  ASSUME FilesTypeOK, AppendsEntry, [Next]_vars
  PROVE  \A d, n : Declares(d, n) => Declares(d, n)'
<1> SUFFICES ASSUME NEW d, NEW n, d \in DOMAIN mods, Lists(mods[d], n)
             PROVE  d \in DOMAIN mods' /\ Lists(mods'[d], n)
  BY ModsGrow DEF Declares
<1>1. PICK i \in 1 .. (Len(mods[d]) - 1) : mods[d][i] = << PubMod, n, Semicolon >>
  BY DEF Lists
<1>2. i \in 1 .. (Len(mods'[d]) - 1)
  BY ModsGrow
<1>3. mods'[d][i] = << PubMod, n, Semicolon >>
  BY <1>1, ModsGrow
<1> QED BY <1>2, <1>3, ModsGrow DEF Lists

(* The invariants about the mod.rs files, where a step does not touch them. *)
FilesKept ==
  /\ HandwrittenKept
  /\ AppendsEntry
  /\ BrokenByFaults
  /\ ModsClean

LEMMA SameModsInv ==
  ASSUME FilesIInv, UNCHANGED <<given, handwritten, blank, mods>>,
         pc # "append", pc' # "append", faults' = faults \/ faults' = faults + 1
  PROVE  FilesKept'
<1>1. HandwrittenKept' /\ AppendsEntry'
  BY DEF FilesIInv, HandwrittenKept, AppendsEntry
<1>2. Broken' = Broken
  BY DEF Broken
<1>3. BrokenByFaults'
  <2>1. IsFiniteSet(Broken) /\ Cardinality(Broken) <= faults /\ faults \in Nat
    BY DEF FilesIInv, FilesTypeOK, BrokenByFaults
  <2>2. Cardinality(Broken) \in Nat
    BY <2>1, FS_CardinalityType
  <2>3. Cardinality(Broken) <= faults'
    BY <2>1, <2>2
  <2> QED BY <1>2, <2>1, <2>3 DEF BrokenByFaults
<1>4. ModsClean'
  <2> SUFFICES ASSUME faults' = 0
               PROVE  \A d \in DOMAIN mods \ (handwritten \cup blank) : Clean(mods[d])
    BY DEF ModsClean
  <2>1. faults = 0
    BY DEF FilesIInv, FilesTypeOK
  <2> QED BY <2>1 DEF FilesIInv, ModsClean
<1> QED BY <1>1, <1>3, <1>4 DEF FilesKept

(* A run starts. *)
LEMMA StartInv ==
  ASSUME FilesIInv, Start
  PROVE  FilesIInv'
<1>1. pc = "idle" /\ pc' = "dirs" /\ level' = 1 /\ result' = "none" /\ job' \in Jobs
  BY DEF Start, At
<1>2. UNCHANGED <<given, handwritten, blank, dirs, mods, outs, faults>>
  BY DEF Start, disk
<1>3. FilesKept'
  BY <1>1, <1>2, SameModsInv
<1>4. FilesTypeOK'
  <2>1. Len(job'.path) \in Nat \ {0}
    <3>1. job'.path \in Seq(STRING \ Punctuation) /\ job'.path # <<>>
      BY <1>1, ModFilesAssumption
    <3> QED BY <3>1, EmptySeq
  <2>2. 1 \in 1 .. Len(job'.path)
    BY <2>1
  <2> QED BY <1>1, <1>2, <2>2 DEF FilesIInv, FilesTypeOK, Working
<1>5. DirsDeclared'
  <2>1. \A d, n : Declares(d, n)' <=> Declares(d, n)
    BY <1>2 DEF Declares
  <2>2. ~Declaring /\ ~Declaring'
    BY <1>1 DEF Declaring
  <2> QED BY <1>2, <2>1, <2>2 DEF FilesIInv, DirsDeclared
<1>6. PathThere'
  <2>1. \A k : k \notin 1 .. (1 - 1)
    OBVIOUS
  <2> QED BY <1>1, <2>1 DEF PathThere, Declaring
<1>7. PathLeft'
  BY <1>1 DEF PathLeft
<1> QED BY <1>3, <1>4, <1>5, <1>6, <1>7 DEF FilesIInv, FilesKept

(* A directory of the path that is there already. *)
LEMMA ExistingDirInv ==
  ASSUME FilesIInv, ExistingDir
  PROVE  FilesIInv'
<1>1. /\ pc = "dirs" /\ pc' = "dirs" /\ level' = level + 1
      /\ ~IsFile /\ Upto(level) \in dirs
  BY DEF ExistingDir, At
<1>2. UNCHANGED <<given, handwritten, blank, dirs, mods, outs, job, result, faults>>
  BY DEF ExistingDir, disk
<1>3. FilesKept'
  BY <1>1, <1>2, SameModsInv
<1>h. level \in 1 .. Len(job.path) /\ Len(job.path) \in Nat /\ result = "none"
  BY <1>1, HereFacts DEF FilesIInv, FilesTypeOK, Working
<1>4. FilesTypeOK'
  BY <1>1, <1>2, <1>h DEF FilesIInv, FilesTypeOK, Working, IsFile
<1>5. DirsDeclared'
  <2>1. \A d, n : Declares(d, n)' <=> Declares(d, n)
    BY <1>2 DEF Declares
  <2>2. ~Declaring /\ ~Declaring'
    BY <1>1 DEF Declaring
  <2> QED BY <1>2, <2>1, <2>2 DEF FilesIInv, DirsDeclared
<1>6. PathThere'
  <2>1. \A k : Upto(k)' = Upto(k)
    BY <1>2 DEF Upto
  <2>2. \A k \in 1 .. (level' - 1) : k \in 1 .. (level - 1) \/ k = level
    BY <1>1, <1>h
  <2>3. \A k \in 1 .. (level - 1) : Upto(k) \in dirs
    BY <1>1 DEF FilesIInv, PathThere, Working
  <2> QED BY <1>1, <1>2, <2>1, <2>2, <2>3 DEF PathThere, Declaring
<1>7. PathLeft'
  BY <1>2, <1>h DEF PathLeft
<1> QED BY <1>3, <1>4, <1>5, <1>6, <1>7 DEF FilesIInv, FilesKept

(* A directory is created. *)
LEMMA CreateDirInv ==
  ASSUME FilesIInv, CreateDir
  PROVE  FilesIInv'
<1>1. /\ pc = "dirs" /\ pc' = "update" /\ ~IsFile
      /\ dirs' = dirs \cup {Upto(level)}
  BY DEF CreateDir, At
<1>2. UNCHANGED <<given, handwritten, blank, mods, outs, job, level, result, faults>>
  BY DEF CreateDir
<1>3. FilesKept'
  BY <1>1, <1>2, SameModsInv
<1>h. /\ level \in 1 .. Len(job.path) /\ Upto(level) # <<>>
      /\ result = "none"
  BY <1>1, HereFacts DEF FilesIInv, FilesTypeOK, Working
<1>4. FilesTypeOK'
  BY <1>1, <1>2, <1>h DEF FilesIInv, FilesTypeOK, Working
<1>s. \A k : Upto(k)' = Upto(k)
  BY <1>2 DEF Upto
<1>5. DirsDeclared'
  <2>1. \A d, n : Declares(d, n)' <=> Declares(d, n)
    BY <1>2 DEF Declares
  <2>2. ~Declaring /\ Upto(level)' = Upto(level) /\ Declaring'
    BY <1>1, <1>2 DEF Declaring, Upto
  <2> QED BY <1>1, <1>2, <1>h, <2>1, <2>2 DEF FilesIInv, DirsDeclared
<1>6. PathThere'
  <2>1. \A k \in 1 .. (level - 1) : Upto(k) \in dirs
    BY <1>1 DEF FilesIInv, PathThere, Working
  <2>2. ~IsFile'
    BY <1>1, <1>2 DEF IsFile
  <2> QED BY <1>1, <1>2, <1>s, <2>1, <2>2 DEF PathThere, Declaring
<1>7. PathLeft'
  BY <1>2, <1>h DEF PathLeft
<1> QED BY <1>3, <1>4, <1>5, <1>6, <1>7 DEF FilesIInv, FilesKept

(* A run that writes nothing ends. *)
LEMMA NoOutputInv ==
  ASSUME FilesIInv, NoOutput
  PROVE  FilesIInv'
<1>1. pc = "dirs" /\ pc' = "idle" /\ result' = "ok" /\ job.noOutput
  BY DEF NoOutput, At, End
<1>2. UNCHANGED <<given, handwritten, blank, dirs, mods, outs, job, level, faults>>
  BY DEF NoOutput, disk
<1>3. FilesKept'
  BY <1>1, <1>2, SameModsInv
<1>4. FilesTypeOK'
  BY <1>1, <1>2 DEF FilesIInv, FilesTypeOK, Working
<1>5. DirsDeclared'
  <2>1. \A d, n : Declares(d, n)' <=> Declares(d, n)
    BY <1>2 DEF Declares
  <2>2. ~Declaring /\ ~Declaring'
    BY <1>1 DEF Declaring
  <2> QED BY <1>2, <2>1, <2>2 DEF FilesIInv, DirsDeclared
<1>6. PathThere'
  BY <1>1 DEF PathThere, Declaring, Working
<1>7. PathLeft'
  BY <1>1, <1>2 DEF PathLeft
<1> QED BY <1>3, <1>4, <1>5, <1>6, <1>7 DEF FilesIInv, FilesKept

(* The generated file is created. *)
LEMMA CreateOutInv ==
  ASSUME FilesIInv, CreateOut
  PROVE  FilesIInv'
<1>1. /\ pc = "dirs" /\ pc' = "update" /\ IsFile
      /\ job.path \in DOMAIN outs'
  BY DEF CreateOut, At
<1>2. UNCHANGED <<given, handwritten, blank, dirs, mods, job, level, result, faults>>
  BY DEF CreateOut
<1>3. FilesKept'
  BY <1>1, <1>2, SameModsInv
<1>h. result = "none"
  BY <1>1 DEF FilesIInv, FilesTypeOK, Working
<1>4. FilesTypeOK'
  BY <1>1, <1>2 DEF FilesIInv, FilesTypeOK, Working
<1>5. DirsDeclared'
  <2>1. \A d, n : Declares(d, n)' <=> Declares(d, n)
    BY <1>2 DEF Declares
  <2>2. ~Declaring
    BY <1>1 DEF Declaring
  <2> QED BY <1>2, <2>1, <2>2 DEF FilesIInv, DirsDeclared
<1>6. PathThere'
  <2>1. \A k : Upto(k)' = Upto(k)
    BY <1>2 DEF Upto
  <2>2. \A k \in 1 .. (level - 1) : Upto(k) \in dirs
    BY <1>1 DEF FilesIInv, PathThere, Working
  <2>3. IsFile'
    BY <1>1, <1>2 DEF IsFile
  <2> QED BY <1>1, <1>2, <2>1, <2>2, <2>3 DEF PathThere, Declaring
<1>7. PathLeft'
  BY <1>2, <1>h DEF PathLeft
<1> QED BY <1>3, <1>4, <1>5, <1>6, <1>7 DEF FilesIInv, FilesKept

(* update_mod_file, where the mod.rs is there: without a fault before it, it *)
(* is, or was at first, somebody else's, or declares what is found in it.    *)
LEMMA ScanFacts ==
  ASSUME FilesIInv, pc = "update", faults = 0, ModDir \in DOMAIN mods
  PROVE  /\ ModDir \in handwritten => Refused(mods[ModDir])
         /\ ModDir \notin handwritten \cup blank =>
              /\ ~Refused(mods[ModDir]) /\ ~Panics(mods[ModDir], Name)
              /\ Present(mods[ModDir], Name) <=> Lists(mods[ModDir], Name)
<1>1. ModDir \in handwritten => Refused(mods[ModDir])
  BY HandwrittenRefused DEF FilesIInv, HandwrittenKept
<1>2. ModDir \notin handwritten \cup blank => Clean(mods[ModDir])
  BY DEF FilesIInv, ModsClean
<1>3. Name \in Names
  BY HereFacts DEF FilesIInv, Working
<1>4. mods[ModDir] \in Seq(Line) /\ mods[ModDir] # <<>>
  BY DEF FilesIInv, FilesTypeOK
<1> QED BY <1>1, <1>2, <1>3, <1>4, CleanFacts

(* update_mod_file is done: with the directory, or with the file. *)
LEMMA UpdatedInv ==
  ASSUME FilesIInv, Declaring, Updated,
         UNCHANGED <<given, handwritten, blank, dirs, outs, job, result, faults>>,
         \A d, n : Declares(d, n) => Declares(d, n)',
         faults = 0 => \/ ModDir \in handwritten \cup blank
                       \/ ModDir \in DOMAIN mods' /\ Lists(mods'[ModDir], Name),
         \A d \in DOMAIN mods' : mods'[d] \in Seq(Line) /\ mods'[d] # <<>>
  PROVE  /\ FilesTypeOK' /\ DirsDeclared' /\ PathThere' /\ PathLeft'
         /\ pc' # "append"
<1>1. /\ level \in 1 .. Len(job.path) /\ Len(job.path) \in Nat /\ result = "none"
      /\ Front(Upto(level)) = ModDir /\ Last(Upto(level)) = Name
  BY HereFacts DEF FilesIInv, FilesTypeOK, Working, Declaring
<1>2. \/ IsFile /\ pc' = "flush" /\ level' = level
      \/ ~IsFile /\ pc' = "dirs" /\ level' = level + 1
  BY DEF Updated
<1>3. FilesTypeOK'
  <2>1. IsFile /\ level' = level => IsFile'
    BY DEF IsFile
  <2>2. ~IsFile => level + 1 \in 1 .. Len(job.path)
    BY <1>1 DEF IsFile
  <2>3. Working
    BY DEF Working, Declaring
  <2> QED BY <1>1, <1>2, <2>1, <2>2, <2>3 DEF FilesIInv, FilesTypeOK, Working
<1>4. DirsDeclared'
  <2> SUFFICES ASSUME faults' = 0, NEW p \in dirs' \ given'
               PROVE  p # <<>> /\ Declares(Front(p), Last(p))'
    BY DEF DirsDeclared
  <2>1. p # <<>> /\ (p # Upto(level) => Declares(Front(p), Last(p)))
    BY DEF FilesIInv, DirsDeclared
  <2>2. CASE p = Upto(level)
    <3>1. Front(p) = ModDir /\ Last(p) = Name
      BY <1>1, <2>2
    <3>2. \/ Front(p) \in handwritten \cup blank
          \/ Front(p) \in DOMAIN mods' /\ Lists(mods'[Front(p)], Last(p))
      BY <3>1
    <3> QED BY <2>1, <3>2 DEF Declares
  <2> QED BY <2>1, <2>2
<1>5. PathThere'
  <2>1. \A k : Upto(k)' = Upto(k)
    BY DEF Upto
  <2>2. \A k \in 1 .. (level - 1) : Upto(k) \in dirs
    BY DEF FilesIInv, PathThere, Working, Declaring
  <2>3. ~IsFile => Upto(level) \in dirs
    BY DEF FilesIInv, PathThere
  <2>4. IsFile => job.path \in DOMAIN outs
    BY DEF FilesIInv, PathThere
  <2>5. CASE IsFile /\ pc' = "flush" /\ level' = level
    <3>1. ModDir' = ModDir /\ Name' = Name
      BY <2>5 DEF ModDir, Name, Upto
    <3>2. faults' = 0 => Declares(ModDir, Name)'
      BY <3>1 DEF Declares
    <3> QED BY <2>1, <2>2, <2>4, <2>5, <3>2 DEF PathThere, Declaring
  <2>6. CASE ~IsFile /\ pc' = "dirs" /\ level' = level + 1
    <3>1. \A k \in 1 .. (level' - 1) : k \in 1 .. (level - 1) \/ k = level
      BY <1>1, <2>6
    <3> QED BY <2>1, <2>2, <2>3, <2>6, <3>1 DEF PathThere, Declaring
  <2> QED BY <1>2, <2>5, <2>6
<1>6. PathLeft'
  BY <1>1 DEF PathLeft
<1>7. pc' # "append"
  BY <1>2
<1> QED BY <1>3, <1>4, <1>5, <1>6, <1>7

(* update_mod_file returns early. *)
LEMMA NothingToDeclareInv ==
  ASSUME FilesIInv, NothingToDeclare
  PROVE  FilesIInv'
<1>1. /\ pc = "update" /\ Updated /\ ModDir \in DOMAIN mods
      /\ Refused(mods[ModDir]) \/ Present(mods[ModDir], Name)
  BY DEF NothingToDeclare, At
<1>2. UNCHANGED <<given, handwritten, blank, dirs, mods, outs, job, result, faults>>
  BY DEF NothingToDeclare, disk
<1>3. \A d, n : Declares(d, n) => Declares(d, n)'
  BY <1>2 DEF Declares
<1>4. faults = 0 => ModDir \in handwritten \cup blank \/ Lists(mods[ModDir], Name)
  BY <1>1, ScanFacts
<1>5. \A d \in DOMAIN mods' : mods'[d] \in Seq(Line) /\ mods'[d] # <<>>
  BY <1>2 DEF FilesIInv, FilesTypeOK
<1>6. FilesTypeOK' /\ DirsDeclared' /\ PathThere' /\ PathLeft' /\ pc' # "append"
  BY <1>1, <1>2, <1>3, <1>4, <1>5, UpdatedInv DEF Declaring
<1>7. FilesKept'
  BY <1>1, <1>2, <1>6, SameModsInv
<1> QED BY <1>6, <1>7 DEF FilesIInv, FilesKept

(* The scan panics. *)
LEMMA ScanPanicsInv ==
  ASSUME FilesIInv, ScanPanics
  PROVE  FilesIInv'
<1>1. /\ pc = "update" /\ pc' = "idle" /\ result' = "panic" /\ ModDir \in DOMAIN mods
      /\ ~Refused(mods[ModDir]) /\ Panics(mods[ModDir], Name)
  BY DEF ScanPanics, At, End
<1>2. UNCHANGED <<given, handwritten, blank, dirs, mods, outs, job, level, faults>>
  BY DEF ScanPanics, disk
<1>3. faults' = 0 => ModDir \in blank
  BY <1>1, <1>2, ScanFacts
<1>4. FilesKept'
  BY <1>1, <1>2, SameModsInv
<1>5. FilesTypeOK'
  BY <1>1, <1>2 DEF FilesIInv, FilesTypeOK, Working
<1>6. DirsDeclared' /\ PathLeft'
  <2>1. Front(Upto(level)) = ModDir
    BY <1>1, HereFacts DEF FilesIInv, FilesTypeOK, Working
  <2>2. ASSUME faults' = 0, NEW p \in dirs \ given
        PROVE  p # <<>> /\ Declares(Front(p), Last(p))'
    <3>1. p # <<>> /\ (p # Upto(level) => Declares(Front(p), Last(p)))
      BY <1>2, <2>2 DEF FilesIInv, DirsDeclared
    <3>2. p = Upto(level) => Front(p) \in blank
      BY <1>3, <2>1, <2>2
    <3> QED BY <1>2, <3>1, <3>2 DEF Declares
  <2>3. DirsDeclared'
    BY <1>2, <2>2 DEF DirsDeclared
  <2>4. PathLeft'
    BY <1>1 DEF PathLeft
  <2> QED BY <2>3, <2>4
<1>7. PathThere'
  BY <1>1 DEF PathThere, Working, Declaring
<1> QED BY <1>4, <1>5, <1>6, <1>7 DEF FilesIInv, FilesKept

(* The file is flushed, or the error of the flush is lost. *)
LEMMA FlushInv ==
  ASSUME FilesIInv, Flush
  PROVE  FilesIInv'
<1>1. /\ pc = "flush" /\ pc' = "idle" /\ result' = "ok"
      /\ \/ outs' = [outs EXCEPT ![job.path] = "complete"] /\ faults' = faults
         \/ faults' = faults + 1
  BY DEF Flush, At, End
<1>2. UNCHANGED <<given, handwritten, blank, dirs, mods, job, level>>
  BY DEF Flush
<1>3. faults \in Nat /\ faults' \in Nat
  BY <1>1 DEF FilesIInv, FilesTypeOK
<1>4. FilesKept'
  BY <1>1, <1>2, SameModsInv
<1>5. FilesTypeOK'
  BY <1>1, <1>2, <1>3 DEF FilesIInv, FilesTypeOK, Working
<1>6. ASSUME faults' = 0 PROVE faults = 0 /\ outs' = [outs EXCEPT ![job.path] = "complete"]
  BY <1>1, <1>3, <1>6
<1>7. \A d, n : Declares(d, n)' <=> Declares(d, n)
  BY <1>2 DEF Declares
<1>8. DirsDeclared'
  <2>1. ~Declaring /\ ~Declaring'
    BY <1>1 DEF Declaring
  <2> QED BY <1>2, <1>6, <1>7, <2>1 DEF FilesIInv, DirsDeclared
<1>9. PathThere'
  BY <1>1 DEF PathThere, Working, Declaring
<1>10. PathLeft'
  <2> SUFFICES ASSUME faults' = 0
               PROVE  /\ job.path \in DOMAIN outs' /\ outs'[job.path] = "complete"
                      /\ \A k \in 1 .. (Len(job.path) - 1) : Upto(k) \in dirs
                      /\ Declares(Front(job.path), Last(job.path))
    BY <1>2, <1>7 DEF PathLeft, Upto
  <2>1. faults = 0 /\ level = Len(job.path) /\ job.path \in DOMAIN outs
    BY <1>1, <1>6 DEF FilesIInv, FilesTypeOK, PathThere, IsFile
  <2>2. Front(job.path) = ModDir /\ Last(job.path) = Name
    BY <1>1, <2>1, HereFacts, JobFacts DEF FilesIInv, Working
  <2>3. Declares(ModDir, Name) /\ \A k \in 1 .. (level - 1) : Upto(k) \in dirs
    BY <1>1, <2>1 DEF FilesIInv, PathThere, Working
  <2> QED BY <1>6, <2>1, <2>2, <2>3
<1> QED BY <1>4, <1>5, <1>8, <1>9, <1>10 DEF FilesIInv, FilesKept

----------------------------------------------------------------------------
(* Writing a mod.rs. *)

(* The lengths of what is left to write. *)
LEMMA TupleLens ==
  /\ \A a : Len(<< a >>) = 1
  /\ \A a, b : Len(<< a, b >>) = 2
  /\ \A a, b, c : Len(<< a, b, c >>) = 3
  /\ \A a, b, c, d : Len(<< a, b, c, d >>) = 4
  /\ \A a, b, c, d, e : Len(<< a, b, c, d, e >>) = 5
OBVIOUS

(* An interruption breaks at most the line it interrupts. *)
LEMMA InterruptInv ==
  ASSUME FilesIInv, Interrupt
  PROVE  FilesIInv'
<1>1. /\ pc # "idle" /\ pc' = "idle" /\ result' = "interrupted"
      /\ faults \in Nat /\ faults' = faults + 1
  BY DEF Interrupt, End, FilesIInv, FilesTypeOK
<1>2. UNCHANGED <<given, handwritten, blank, dirs, mods, outs, job, level>>
  BY DEF Interrupt, disk
<1>3. FilesKept'
  <2>1. CASE pc # "append"
    BY <1>1, <1>2, <2>1, SameModsInv
  <2>2. CASE pc = "append"
    <3>1. HandwrittenKept' /\ AppendsEntry'
      BY <1>1, <1>2 DEF FilesIInv, HandwrittenKept, AppendsEntry
    <3>2. Broken' = Broken
      BY <1>2 DEF Broken
    <3>3. IsFiniteSet(Broken) /\ Cardinality(Broken) \in Nat
      BY FS_CardinalityType DEF FilesIInv, BrokenByFaults
    <3>4. \/ Cardinality(Broken \ {Written}) <= faults
          \/ Cardinality(Broken \cup {Written}) <= faults
      BY <2>2 DEF FilesIInv, BrokenByFaults
    <3>5. \/ Cardinality(Broken \ {Written}) = Cardinality(Broken)
          \/ Cardinality(Broken \ {Written}) = Cardinality(Broken) - 1
      BY <3>3, FS_RemoveElement
    <3>6. \/ Cardinality(Broken \cup {Written}) = Cardinality(Broken)
          \/ Cardinality(Broken \cup {Written}) = Cardinality(Broken) + 1
      BY <3>3, FS_AddElement
    <3>7. Cardinality(Broken) <= faults + 1
      BY <1>1, <3>3, <3>4, <3>5, <3>6
    <3>8. BrokenByFaults'
      BY <1>1, <3>2, <3>3, <3>7 DEF BrokenByFaults
    <3>9. ModsClean'
      BY <1>1 DEF ModsClean
    <3> QED BY <3>1, <3>8, <3>9 DEF FilesKept
  <2> QED BY <2>1, <2>2
<1>4. FilesTypeOK'
  BY <1>1, <1>2 DEF FilesIInv, FilesTypeOK, Working
<1>5. DirsDeclared' /\ PathLeft'
  BY <1>1 DEF DirsDeclared, PathLeft
<1>6. PathThere'
  BY <1>1 DEF PathThere, Working, Declaring
<1> QED BY <1>3, <1>4, <1>5, <1>6 DEF FilesIInv, FilesKept

(* Where the run stays in update_mod_file. *)
LEMMA DeclaringInv ==
  ASSUME FilesIInv, Declaring, Declaring',
         UNCHANGED <<given, handwritten, blank, dirs, outs, job, level, result, faults>>,
         \A d, n : Declares(d, n) => Declares(d, n)',
         \A d \in DOMAIN mods' : mods'[d] \in Seq(Line) /\ mods'[d] # <<>>
  PROVE  /\ FilesTypeOK' /\ DirsDeclared' /\ PathThere' /\ PathLeft'
         /\ ModDir' = ModDir /\ Name' = Name
<1>1. \A k : Upto(k)' = Upto(k)
  BY DEF Upto
<1>2. ModDir' = ModDir /\ Name' = Name /\ Upto(level)' = Upto(level) /\ IsFile' = IsFile
  BY DEF ModDir, Name, Upto, IsFile
<1>3. Working /\ result = "none"
  BY DEF FilesIInv, FilesTypeOK, Working, Declaring
<1>4. FilesTypeOK'
  BY <1>3 DEF FilesIInv, FilesTypeOK, Working, Declaring
<1>5. DirsDeclared'
  BY <1>2 DEF FilesIInv, DirsDeclared
<1>6. PathThere'
  <2>1. Working' /\ pc' # "flush" /\ pc # "flush"
    BY DEF Working, Declaring
  <2> QED BY <1>1, <1>2, <1>3, <2>1 DEF FilesIInv, PathThere
<1>7. PathLeft'
  BY <1>3 DEF PathLeft
<1> QED BY <1>2, <1>4, <1>5, <1>6, <1>7

(* The mod.rs is opened to append an entry to it. *)
LEMMA OpenToAppendInv ==
  ASSUME FilesIInv, OpenToAppend
  PROVE  FilesIInv'
<1> DEFINE lines == mods[ModDir]
<1>1. /\ pc = "update" /\ pc' = "append" /\ ModDir \in DOMAIN mods
      /\ ~Refused(lines) /\ ~Present(lines, Name)
      /\ pending' = << PubMod, Name, EntryEnd >>
  BY DEF OpenToAppend, At, EntryPieces
<1>2. UNCHANGED <<given, handwritten, blank, dirs, mods, outs, job, level, result, faults>>
  BY DEF OpenToAppend, disk
<1>3. ModDir \notin handwritten
  BY <1>1, HandwrittenRefused DEF FilesIInv, HandwrittenKept
<1>4. /\ FilesTypeOK' /\ DirsDeclared' /\ PathThere' /\ PathLeft'
      /\ ModDir' = ModDir /\ Name' = Name
  <2>1. \A d, n : Declares(d, n) => Declares(d, n)'
    BY <1>2 DEF Declares
  <2>2. \A d \in DOMAIN mods' : mods'[d] \in Seq(Line) /\ mods'[d] # <<>>
    BY <1>2 DEF FilesIInv, FilesTypeOK
  <2>3. Declaring /\ Declaring'
    BY <1>1 DEF Declaring
  <2> QED BY <1>2, <2>1, <2>2, <2>3, DeclaringInv
<1>5. HandwrittenKept'
  BY <1>2 DEF FilesIInv, HandwrittenKept
<1>6. AppendsEntry'
  BY <1>1, <1>2, <1>3, <1>4 DEF AppendsEntry
<1>7. /\ lines \in Seq(Line) /\ Len(lines) \in Nat \ {0} /\ Last(lines) = lines[Len(lines)]
  BY <1>1, EmptySeq DEF FilesIInv, FilesTypeOK, Last
<1>8. Last(lines) = <<>> => Tidy'
  BY <1>1, <1>2, <1>4 DEF Tidy, Left
<1>9. BrokenByFaults'
  <2>1. IsFiniteSet(Broken) /\ Cardinality(Broken) <= faults /\ faults \in Nat
    BY <1>1 DEF FilesIInv, FilesTypeOK, BrokenByFaults
  <2>2. Broken' = Broken /\ Written' = Written
    BY <1>2, <1>4 DEF Broken, Written
  <2>3. CASE Last(lines) = <<>>
    <3>1. Cardinality(Broken \ {Written}) <= Cardinality(Broken)
      BY <2>1, FS_Subset
    <3>2. Cardinality(Broken \ {Written}) \in Nat /\ Cardinality(Broken) \in Nat
      BY <2>1, FS_RemoveElement, FS_CardinalityType
    <3>3. Cardinality(Broken \ {Written}) <= faults
      BY <2>1, <3>1, <3>2
    <3> QED BY <1>1, <1>2, <1>8, <2>1, <2>2, <2>3, <3>3 DEF BrokenByFaults
  <2>4. CASE Last(lines) # <<>>
    <3>1. IsBroken(lines, Len(lines))
      BY <1>7, <2>4 DEF IsBroken
    <3>2. Len(lines) \in 1 .. Len(lines) /\ Len(lines) \in Nat
      BY <1>7
    <3>3. Written \in Broken
      BY <1>1, <1>3, <3>1, <3>2 DEF Broken, Written
    <3>4. Broken \cup {Written} = Broken
      BY <3>3
    <3> QED BY <1>1, <1>2, <1>4, <2>1, <2>2, <3>4 DEF BrokenByFaults
  <2> QED BY <2>3, <2>4
<1>10. ModsClean'
  <2> SUFFICES ASSUME faults = 0
               PROVE  ModsClean'
    BY <1>2 DEF ModsClean
  <2>1. \A d \in DOMAIN mods \ (handwritten \cup blank) : Clean(mods[d])
    BY <1>1 DEF FilesIInv, ModsClean
  <2>2. ModDir \notin blank => Clean(lines)
    BY <1>1, <1>3, <2>1
  <2>3. ModDir \notin blank => Entries(lines) /\ Last(lines) = <<>>
    BY <2>2 DEF Clean
  <2>4. ModDir \notin blank => ~Lists(lines, Name)
    BY <1>1, <1>3, ScanFacts
  <2>5. Len(pending') = 3
    BY <1>1, TupleLens
  <2> QED BY <1>2, <1>4, <1>8, <2>1, <2>3, <2>4, <2>5 DEF ModsClean
<1> QED BY <1>4, <1>5, <1>6, <1>9, <1>10 DEF FilesIInv

(* A new mod.rs is created, and its header written before the entry. *)
LEMMA CreateModInv ==
  ASSUME FilesIInv, CreateMod
  PROVE  FilesIInv'
<1>1. /\ pc = "update" /\ pc' = "append" /\ ModDir \notin DOMAIN mods
      /\ mods' = [d \in DOMAIN mods \cup {ModDir} |-> IF d = ModDir THEN Empty ELSE mods[d]]
      /\ pending' = << Header, Newline >> \o << PubMod, Name, EntryEnd >>
  BY DEF CreateMod, At, EntryPieces, HeaderPieces
<1>2. UNCHANGED <<given, handwritten, blank, dirs, outs, job, level, result, faults>>
  BY DEF CreateMod
<1>3. /\ DOMAIN mods' = DOMAIN mods \cup {ModDir}
      /\ mods'[ModDir] = Empty
      /\ \A d \in DOMAIN mods : mods'[d] = mods[d]
  BY <1>1
<1>4. ModDir \notin handwritten
  BY <1>1 DEF FilesIInv, HandwrittenKept
<1>5. /\ FilesTypeOK' /\ DirsDeclared' /\ PathThere' /\ PathLeft'
      /\ ModDir' = ModDir /\ Name' = Name
  <2>1. \A d, n : Declares(d, n) => Declares(d, n)'
    BY <1>2, <1>3 DEF Declares
  <2>2. \A d \in DOMAIN mods' : mods'[d] \in Seq(Line) /\ mods'[d] # <<>>
    BY <1>3, EmptyFacts DEF FilesIInv, FilesTypeOK
  <2>3. Declaring /\ Declaring'
    BY <1>1 DEF Declaring
  <2> QED BY <1>2, <2>1, <2>2, <2>3, DeclaringInv
<1>6. pending' = << Header, Newline, PubMod, Name, EntryEnd >>
  <2>1. Name \in Pieces
    BY <1>1, HereFacts DEF FilesIInv, Working
  <2>2. Header \in Pieces /\ Newline \in Pieces /\ PubMod \in Pieces /\ EntryEnd \in Pieces
    BY PiecesDiffer
  <2>3. << Header, Newline >> \o << PubMod, Name, EntryEnd >>
          = << Header, Newline, PubMod, Name, EntryEnd >>
    BY <2>1, <2>2, TupleConcat
  <2> QED BY <1>1, <2>3
<1>7. HandwrittenKept'
  BY <1>2, <1>3 DEF FilesIInv, HandwrittenKept
<1>8. AppendsEntry'
  BY <1>1, <1>2, <1>3, <1>4, <1>5, <1>6 DEF AppendsEntry
<1>9. Tidy'
  BY <1>1, <1>3, <1>5, <1>6, EmptyFacts DEF Tidy, Left
<1>10. BrokenByFaults'
  <2>1. IsFiniteSet(Broken) /\ Cardinality(Broken) <= faults /\ faults \in Nat
    BY <1>1 DEF FilesIInv, FilesTypeOK, BrokenByFaults
  <2>2. ~IsBroken(Empty, 1)
    BY EmptyFacts DEF IsBroken
  <2>3. Broken' \subseteq Broken
    <3> SUFFICES ASSUME NEW p \in Broken' PROVE p \in Broken
      OBVIOUS
    <3>1. /\ p \in (DOMAIN mods' \ handwritten) \X Nat
          /\ p[2] \in 1 .. Len(mods'[p[1]]) /\ IsBroken(mods'[p[1]], p[2])
      BY <1>2 DEF Broken
    <3>2. p[1] # ModDir
      BY <1>3, <2>2, <3>1, EmptyFacts
    <3> QED BY <1>3, <3>1, <3>2 DEF Broken
  <2>4. IsFiniteSet(Broken') /\ IsFiniteSet(Broken' \ {Written'})
    BY <2>1, <2>3, FS_Subset
  <2>5. Cardinality(Broken' \ {Written'}) <= Cardinality(Broken)
    BY <2>1, <2>3, FS_Subset
  <2>6. Cardinality(Broken' \ {Written'}) \in Nat /\ Cardinality(Broken) \in Nat
    BY <2>1, <2>4, FS_CardinalityType
  <2>7. Cardinality(Broken' \ {Written'}) <= faults
    BY <2>1, <2>5, <2>6
  <2> QED BY <1>1, <1>2, <1>9, <2>4, <2>7 DEF BrokenByFaults
<1>11. ModsClean'
  <2> SUFFICES ASSUME faults = 0
               PROVE  ModsClean'
    BY <1>2 DEF ModsClean
  <2>1. \A d \in DOMAIN mods \ (handwritten \cup blank) : Clean(mods[d])
    BY <1>1 DEF FilesIInv, ModsClean
  <2>2. Len(pending') = 5 /\ Len(mods'[ModDir]) = 1
    BY <1>3, <1>6, TupleLens, EmptyFacts
  <2>3. \A d \in DOMAIN mods' \ (handwritten \cup blank) : d # ModDir => Clean(mods'[d])
    BY <1>3, <2>1
  <2>4. Len(pending') > 3 /\ ~(Len(pending') <= 3)
    BY <2>2
  <2> QED BY <1>1, <1>2, <1>5, <1>9, <2>2, <2>3, <2>4 DEF ModsClean
<1> QED BY <1>5, <1>7, <1>8, <1>10, <1>11 DEF FilesIInv

(* A write changes the last line of the mod.rs and nothing before it. *)
LEMMA WriteSteps ==
  ASSUME FilesIInv, WritePiece
  PROVE  LET lines == mods[ModDir]
             new == mods'[ModDir]
             piece == Head(pending)
         IN  /\ ModDir \in DOMAIN mods \ handwritten
             /\ DOMAIN mods' = DOMAIN mods
             /\ \A d \in DOMAIN mods \ {ModDir} : mods'[d] = mods[d]
             /\ lines \in Seq(Line) /\ new \in Seq(Line)
             /\ Len(lines) \in Nat \ {0}
             /\ Last(lines) = lines[Len(lines)] /\ Last(new) = new[Len(new)]
             /\ \A i \in 1 .. (Len(lines) - 1) : new[i] = lines[i]
             /\ piece \notin { Newline, EntryEnd } =>
                  /\ Len(new) = Len(lines)
                  /\ new[Len(lines)] = Append(Last(lines), piece)
             /\ piece \in { Newline, EntryEnd } =>
                  /\ Len(new) = Len(lines) + 1
                  /\ new[Len(lines) + 1] = <<>>
             /\ piece = Newline => new[Len(lines)] = Last(lines)
             /\ piece = EntryEnd => new[Len(lines)] = Append(Last(lines), Semicolon)
<1>1. FilesTypeOK /\ AppendsEntry
  BY DEF FilesIInv
<1>2. /\ ModDir \in DOMAIN mods \ handwritten
      /\ Head(pending) \in Pieces
      /\ mods[ModDir] \in Seq(Line) /\ mods[ModDir] # <<>>
      /\ DOMAIN mods' = DOMAIN mods
      /\ \A d \in DOMAIN mods \ {ModDir} : mods'[d] = mods[d]
      /\ mods'[ModDir] = AppendPiece(mods[ModDir], Head(pending))
  BY <1>1, WriteFacts
<1>3. Newline # EntryEnd
  BY PiecesDiffer
<1> DEFINE lines == mods[ModDir]
           new == mods'[ModDir]
           piece == Head(pending)
<1>4. lines \in Seq(Line) /\ lines # <<>> /\ piece \in Pieces /\ new = AppendPiece(lines, piece)
  BY <1>2
<1> HIDE DEF lines, new, piece
<1>5. /\ new \in Seq(Line)
      /\ Len(new) = IF piece \in { Newline, EntryEnd } THEN Len(lines) + 1 ELSE Len(lines)
      /\ \A i \in 1 .. (Len(lines) - 1) : new[i] = lines[i]
      /\ new[Len(lines)] =
           IF piece = Newline THEN Last(lines)
           ELSE IF piece = EntryEnd THEN Append(Last(lines), Semicolon)
           ELSE Append(Last(lines), piece)
      /\ piece \in { Newline, EntryEnd } => new[Len(lines) + 1] = <<>>
      /\ Len(lines) \in Nat \ {0}
  BY <1>4, AppendPieceFacts
<1>6. Last(lines) = lines[Len(lines)] /\ Last(new) = new[Len(new)]
  BY DEF Last
<1>7. /\ piece \notin { Newline, EntryEnd } =>
           Len(new) = Len(lines) /\ new[Len(lines)] = Append(Last(lines), piece)
      /\ piece \in { Newline, EntryEnd } =>
           Len(new) = Len(lines) + 1 /\ new[Len(lines) + 1] = <<>>
  BY <1>5
<1>8. /\ piece = Newline => new[Len(lines)] = Last(lines)
      /\ piece = EntryEnd => new[Len(lines)] = Append(Last(lines), Semicolon)
  BY <1>3, <1>5
<1> QED BY <1>2, <1>4, <1>5, <1>6, <1>7, <1>8 DEF lines, new, piece

(* No other line becomes broken, and none is repaired. *)
LEMMA BrokenAfterWrite ==
  ASSUME FilesIInv, WritePiece
  PROVE  /\ Broken' \ {Written} = Broken \ {Written}
         /\ \A p \in Broken' : p # Written => p \in Broken
         /\ ~IsBroken(mods'[ModDir], Len(mods[ModDir])) => Written \notin Broken'
<1> DEFINE lines == mods[ModDir]
           new == mods'[ModDir]
<1>1. /\ ModDir \in DOMAIN mods \ handwritten /\ DOMAIN mods' = DOMAIN mods
      /\ \A d \in DOMAIN mods \ {ModDir} : mods'[d] = mods[d]
      /\ Len(lines) \in Nat \ {0}
      /\ Len(new) = Len(lines) \/ (Len(new) = Len(lines) + 1 /\ new[Len(lines) + 1] = <<>>)
      /\ \A i \in 1 .. (Len(lines) - 1) : new[i] = lines[i]
  BY WriteSteps
<1>2. handwritten' = handwritten
  BY DEF WritePiece
<1> HIDE DEF lines, new
<1>3. ASSUME NEW i \in Nat, i # Len(lines)
      PROVE  i \in 1 .. Len(new) /\ IsBroken(new, i) <=> i \in 1 .. Len(lines) /\ IsBroken(lines, i)
  <2>1. CASE i \in 1 .. (Len(lines) - 1)
    <3>1. new[i] = lines[i] /\ i # Len(new) /\ i \in 1 .. Len(new) /\ i \in 1 .. Len(lines)
      BY <1>1, <2>1
    <3> QED BY <1>3, <3>1 DEF IsBroken
  <2>2. CASE i = Len(lines) + 1 /\ Len(new) = Len(lines) + 1
    <3>1. new[i] = <<>> /\ i \notin 1 .. Len(lines)
      BY <1>1, <2>2
    <3> QED BY <3>1 DEF IsBroken
  <2>3. CASE i \notin 1 .. Len(lines) /\ i \notin 1 .. Len(new)
    BY <2>3
  <2> QED BY <1>1, <1>3, <2>1, <2>2, <2>3
<1>4. ASSUME NEW p, p # << ModDir, Len(lines) >>
      PROVE  p \in Broken' <=> p \in Broken
  <2>1. p \in Broken' <=> /\ p \in (DOMAIN mods \ handwritten) \X Nat
                          /\ p[2] \in 1 .. Len(mods'[p[1]]) /\ IsBroken(mods'[p[1]], p[2])
    BY <1>1, <1>2 DEF Broken
  <2>2. p \in Broken <=> /\ p \in (DOMAIN mods \ handwritten) \X Nat
                         /\ p[2] \in 1 .. Len(mods[p[1]]) /\ IsBroken(mods[p[1]], p[2])
    BY DEF Broken
  <2>3. ASSUME p \in (DOMAIN mods \ handwritten) \X Nat
        PROVE  p \in Broken' <=> p \in Broken
    <3>1. CASE p[1] = ModDir
      <4>1. p[2] # Len(lines) /\ p[2] \in Nat
        BY <1>4, <2>3, <3>1
      <4> QED BY <1>3, <2>1, <2>2, <3>1, <4>1 DEF lines, new
    <3>2. CASE p[1] # ModDir
      BY <1>1, <2>1, <2>2, <2>3, <3>2
    <3> QED BY <3>1, <3>2
  <2> QED BY <2>1, <2>2, <2>3
<1>5. Written = << ModDir, Len(lines) >>
  BY DEF Written, lines
<1>6. ~IsBroken(mods'[ModDir], Len(mods[ModDir])) => Written \notin Broken'
  <2>1. Written[1] = ModDir /\ Written[2] = Len(mods[ModDir])
    BY DEF Written
  <2>2. Written \in Broken' => IsBroken(mods'[Written[1]], Written[2])
    BY <1>2 DEF Broken
  <2> QED BY <2>1, <2>2
<1> HIDE DEF Written
<1> QED BY <1>4, <1>5, <1>6

(* The complete lines, where only the last one changes. *)
LEMMA EntriesStay ==
  ASSUME NEW lines \in Seq(Line), NEW new \in Seq(Line), Len(new) = Len(lines),
         \A i \in 1 .. (Len(lines) - 1) : new[i] = lines[i],
         Entries(lines)
  PROVE  /\ Entries(new)
         /\ \A n : Lists(new, n) <=> Lists(lines, n)
<1>1. Len(lines) \in Nat /\ Len(lines) >= 2
  BY DEF Entries
<1>2. 1 \in 1 .. (Len(lines) - 1)
  BY <1>1
<1>3. \A i \in 2 .. (Len(lines) - 1) : i \in 1 .. (Len(lines) - 1)
  BY <1>1
<1>4. Entries(new)
  BY <1>1, <1>2, <1>3 DEF Entries
<1> QED BY <1>4 DEF Lists

(* The complete lines, where the entry becomes one of them. *)
LEMMA EntriesGrow ==
  ASSUME NEW lines \in Seq(Line), NEW new \in Seq(Line), Len(new) = Len(lines) + 1,
         \A i \in 1 .. (Len(lines) - 1) : new[i] = lines[i],
         NEW name \in Names, new[Len(lines)] = << PubMod, name, Semicolon >>,
         Entries(lines), ~Lists(lines, name)
  PROVE  Entries(new) /\ Lists(new, name)
<1> PICK n \in Nat : n = Len(lines) /\ n >= 2
  BY DEF Entries
<1>1. Len(new) - 1 = n /\ Len(new) >= 2
  OBVIOUS
<1>2. new[1] = << Header >>
  <2>1. 1 \in 1 .. (n - 1)
    OBVIOUS
  <2> QED BY <2>1 DEF Entries
<1>3. ASSUME NEW i \in 2 .. n
      PROVE  /\ Entry(new[i])
             /\ i # n => new[i] = lines[i] /\ i \in 2 .. (n - 1)
                         /\ new[i] # << PubMod, name, Semicolon >>
  <2>1. CASE i = n
    BY <2>1 DEF Entry
  <2>2. CASE i # n
    <3>1. i \in 2 .. (n - 1) /\ i \in 1 .. (n - 1)
      BY <2>2
    <3> QED BY <3>1, <2>2 DEF Entries, Lists
  <2> QED BY <2>1, <2>2
<1>4. ASSUME NEW i \in 2 .. n, NEW j \in 2 .. n, new[i] = new[j]
      PROVE  i = j
  <2>1. CASE i = n \/ j = n
    BY <1>3, <1>4, <2>1
  <2>2. CASE i # n /\ j # n
    BY <1>3, <1>4, <2>2 DEF Entries
  <2> QED BY <2>1, <2>2
<1>5. n \in 1 .. n
  OBVIOUS
<1> QED BY <1>1, <1>2, <1>3, <1>4, <1>5 DEF Entries, Lists

(* What the last line is while it is tidy. *)
LEMMA TidyStages ==
  ASSUME pc = "append"
  PROVE  LET line == Last(mods[ModDir]) IN
         /\ pending = << Header, Newline, PubMod, Name, EntryEnd >> =>
              (Tidy <=> line = <<>>) /\ Len(pending) = 5
         /\ pending = << Newline, PubMod, Name, EntryEnd >> =>
              (Tidy <=> line = << Header >>) /\ Len(pending) = 4
         /\ pending = << PubMod, Name, EntryEnd >> =>
              (Tidy <=> line = <<>>) /\ Len(pending) = 3
         /\ pending = << Name, EntryEnd >> =>
              (Tidy <=> line = << PubMod >>) /\ Len(pending) = 2
         /\ pending = << EntryEnd >> =>
              (Tidy <=> line = << PubMod, Name >>) /\ Len(pending) = 1
<1> DEFINE p5 == << Header, Newline, PubMod, Name, EntryEnd >>
           p4 == << Newline, PubMod, Name, EntryEnd >>
           p3 == << PubMod, Name, EntryEnd >>
           p2 == << Name, EntryEnd >>
           p1 == << EntryEnd >>
           line == Last(mods[ModDir])
<1>1. Len(p5) = 5 /\ Len(p4) = 4 /\ Len(p3) = 3 /\ Len(p2) = 2 /\ Len(p1) = 1
  BY TupleLens
<1>2. Tidy <=> \/ pending = p5 /\ line = <<>>
               \/ pending = p4 /\ line = << Header >>
               \/ pending = p3 /\ line = <<>>
               \/ pending = p2 /\ line = << PubMod >>
               \/ pending = p1 /\ line = << PubMod, Name >>
  BY DEF Tidy, Left
<1> HIDE DEF p5, p4, p3, p2, p1, line
<1>3. /\ pending = p5 => (Tidy <=> line = <<>>) /\ Len(pending) = 5
      /\ pending = p4 => (Tidy <=> line = << Header >>) /\ Len(pending) = 4
      /\ pending = p3 => (Tidy <=> line = <<>>) /\ Len(pending) = 3
      /\ pending = p2 => (Tidy <=> line = << PubMod >>) /\ Len(pending) = 2
      /\ pending = p1 => (Tidy <=> line = << PubMod, Name >>) /\ Len(pending) = 1
  <2>1. /\ p5 # p4 /\ p5 # p3 /\ p5 # p2 /\ p5 # p1 /\ p4 # p3 /\ p4 # p2 /\ p4 # p1
        /\ p3 # p2 /\ p3 # p1 /\ p2 # p1
    BY <1>1
  <2>2. pending = p5 => (Tidy <=> line = <<>>) /\ Len(pending) = 5
    BY <1>1, <1>2, <2>1, Zenon
  <2>3. pending = p4 => (Tidy <=> line = << Header >>) /\ Len(pending) = 4
    BY <1>1, <1>2, <2>1, Zenon
  <2>4. pending = p3 => (Tidy <=> line = <<>>) /\ Len(pending) = 3
    BY <1>1, <1>2, <2>1, Zenon
  <2>5. pending = p2 => (Tidy <=> line = << PubMod >>) /\ Len(pending) = 2
    BY <1>1, <1>2, <2>1, Zenon
  <2>6. pending = p1 => (Tidy <=> line = << PubMod, Name >>) /\ Len(pending) = 1
    BY <1>1, <1>2, <2>1, Zenon
  <2> QED BY <2>2, <2>3, <2>4, <2>5, <2>6
<1> QED BY <1>3 DEF p5, p4, p3, p2, p1, line

(* The header is only written to a file that is tidy. *)
LEMMA HeaderIsTidy ==
  ASSUME FilesIInv, pc = "append",
         \/ pending = << Header, Newline, PubMod, Name, EntryEnd >>
         \/ pending = << Newline, PubMod, Name, EntryEnd >>
  PROVE  Tidy
<1>1. Len(pending) \in {4, 5}
  BY TupleLens
<1>2. pending \notin { << PubMod, Name, EntryEnd >>, << Name, EntryEnd >>, << EntryEnd >> }
  BY <1>1, TupleLens
<1> QED BY <1>2 DEF FilesIInv, BrokenByFaults

(* A write that does not end the entry. *)
LEMMA TidyWrite ==
  ASSUME FilesIInv, WritePiece, Tail(pending) # <<>>
  PROVE  /\ pc = "append" /\ pc' = "append" /\ level' = level /\ pending' = Tail(pending)
         /\ ModDir' = ModDir /\ Name' = Name
         /\ AppendsEntry'
         /\ Tidy => Tidy'
         /\ Head(pending) # EntryEnd
         /\ Head(pending) = Newline =>
              /\ pending = << Newline, PubMod, Name, EntryEnd >>
              /\ pending' = << PubMod, Name, EntryEnd >>
<1>1. pc = "append" /\ pc' = "append" /\ level' = level /\ pending' = Tail(pending)
  BY DEF WritePiece, At
<1>2. ModDir' = ModDir /\ Name' = Name
  BY <1>1 DEF WritePiece, ModDir, Name, Upto
<1> DEFINE lines == mods[ModDir]
           new == mods'[ModDir]
           piece == Head(pending)
<1>3. Name \in Pieces /\ Name \in Names /\ Header \in Pieces /\ PubMod \in Pieces
  BY <1>1, HereFacts, PiecesDiffer DEF FilesIInv, Working
<1>4. /\ ModDir \in DOMAIN mods' \ handwritten'
      /\ Last(new) = new[Len(new)] /\ Len(lines) \in Nat \ {0}
      /\ piece \notin { Newline, EntryEnd } => Last(new) = Append(Last(lines), piece)
      /\ piece = Newline => Last(new) = <<>>
  BY WriteSteps DEF WritePiece
<1>5. /\ Header \notin { Newline, EntryEnd } /\ PubMod \notin { Newline, EntryEnd }
      /\ Name \notin { Newline, EntryEnd } /\ Newline # EntryEnd
  BY <1>3, PiecesDiffer
<1>6. Append(<<>>, Header) = << Header >> /\ Append(<<>>, PubMod) = << PubMod >>
  BY <1>3, TupleAppends
<1>7. Append(<< PubMod >>, Name) = << PubMod, Name >>
  BY <1>3, TupleAppends
<1> HIDE DEF lines, new
<1>8. CASE /\ pending = << Header, Newline, PubMod, Name, EntryEnd >>
           /\ piece = Header /\ Tail(pending) = << Newline, PubMod, Name, EntryEnd >>
  <2>1. Tidy => Last(lines) = <<>>
    BY <1>1, <1>8, TidyStages DEF lines
  <2>2. Tidy => Tidy'
    BY <1>1, <1>2, <1>4, <1>5, <1>6, <1>8, <2>1 DEF Tidy, Left, new
  <2>3. AppendsEntry'
    BY <1>1, <1>2, <1>4, <1>8 DEF AppendsEntry
  <2> QED BY <1>1, <1>2, <1>5, <1>8, <2>2, <2>3
<1>9. CASE /\ pending = << Newline, PubMod, Name, EntryEnd >>
           /\ piece = Newline /\ Tail(pending) = << PubMod, Name, EntryEnd >>
  <2>1. Tidy'
    BY <1>1, <1>2, <1>4, <1>9 DEF Tidy, Left, new
  <2>2. AppendsEntry'
    BY <1>1, <1>2, <1>4, <1>9 DEF AppendsEntry
  <2> QED BY <1>1, <1>2, <1>5, <1>9, <2>1, <2>2
<1>10. CASE /\ pending = << PubMod, Name, EntryEnd >>
            /\ piece = PubMod /\ Tail(pending) = << Name, EntryEnd >>
  <2>1. Tidy => Last(lines) = <<>>
    BY <1>1, <1>10, TidyStages DEF lines
  <2>2. Tidy => Tidy'
    BY <1>1, <1>2, <1>4, <1>5, <1>6, <1>10, <2>1 DEF Tidy, Left, new
  <2>3. AppendsEntry'
    BY <1>1, <1>2, <1>4, <1>10 DEF AppendsEntry
  <2> QED BY <1>1, <1>2, <1>5, <1>10, <2>2, <2>3
<1>11. CASE /\ pending = << Name, EntryEnd >>
            /\ piece = Name /\ Tail(pending) = << EntryEnd >>
  <2>1. Tidy => Last(lines) = << PubMod >>
    BY <1>1, <1>11, TidyStages DEF lines
  <2>2. Tidy => Tidy'
    BY <1>1, <1>2, <1>4, <1>5, <1>7, <1>11, <2>1 DEF Tidy, Left, new
  <2>3. AppendsEntry'
    BY <1>1, <1>2, <1>4, <1>11 DEF AppendsEntry
  <2> QED BY <1>1, <1>2, <1>5, <1>11, <2>2, <2>3
<1> QED BY <1>1, <1>8, <1>9, <1>10, <1>11, PendingFacts DEF FilesIInv

(* Broken lines after a write that does not end the entry. *)
LEMMA WriteBroken ==
  ASSUME FilesIInv, WritePiece, Tail(pending) # <<>>
  PROVE  BrokenByFaults'
<1>1. /\ pc = "append" /\ pc' = "append" /\ pending' = Tail(pending)
      /\ ModDir' = ModDir /\ Name' = Name /\ (Tidy => Tidy') /\ Head(pending) # EntryEnd
  BY TidyWrite
<1>2. faults' = faults /\ faults \in Nat
  BY DEF WritePiece, FilesIInv, FilesTypeOK
<1>3. /\ Broken' \ {Written} = Broken \ {Written}
      /\ IsFiniteSet(Broken)
  BY BrokenAfterWrite DEF FilesIInv, BrokenByFaults
<1>4. IsFiniteSet(Broken') /\ IsFiniteSet(Broken \ {Written})
  <2>1. IsFiniteSet(Broken \cup {Written})
    BY <1>3, FS_AddElement
  <2>2. Broken' \subseteq Broken \cup {Written}
    BY <1>3
  <2> QED BY <1>3, <2>1, <2>2, FS_Subset
<1>5. CASE Head(pending) = Newline
  <2>1. pending = << Newline, PubMod, Name, EntryEnd >>
    BY <1>5, TidyWrite
  <2>2. Tidy
    BY <1>1, <2>1, HeaderIsTidy
  <2>3. Cardinality(Broken \ {Written}) <= faults
    <3>1. pending \notin { << PubMod, Name, EntryEnd >>, << Name, EntryEnd >>, << EntryEnd >> }
      BY <2>1, TupleLens
    <3> QED BY <1>1, <3>1 DEF FilesIInv, BrokenByFaults
  <2>4. Written \notin Broken'
    <3>1. Last(mods[ModDir]) = << Header >>
      BY <1>1, <2>1, <2>2, TidyStages
    <3>2. /\ mods'[ModDir][Len(mods[ModDir])] = << Header >>
          /\ Len(mods'[ModDir]) = Len(mods[ModDir]) + 1 /\ Len(mods[ModDir]) \in Nat
      BY <1>5, <3>1, WriteSteps
    <3>3. ~IsBroken(mods'[ModDir], Len(mods[ModDir]))
      BY <3>2 DEF IsBroken
    <3> QED BY <3>3, BrokenAfterWrite
  <2>5. Broken' = Broken \ {Written}
    BY <1>3, <2>4
  <2>6. Cardinality(Broken' \ {Written'}) <= Cardinality(Broken')
    BY <1>4, FS_Subset
  <2>7. Cardinality(Broken' \ {Written'}) \in Nat /\ Cardinality(Broken') \in Nat
    <3>1. IsFiniteSet(Broken' \ {Written'})
      BY <1>4, FS_Subset
    <3> QED BY <1>4, <3>1, FS_CardinalityType
  <2>8. Cardinality(Broken' \ {Written'}) <= faults
    BY <1>2, <2>3, <2>5, <2>6, <2>7
  <2> QED BY <1>1, <1>2, <1>4, <2>2, <2>8 DEF BrokenByFaults
<1>6. CASE Head(pending) # Newline
  <2>1. Len(mods'[ModDir]) = Len(mods[ModDir])
    BY <1>1, <1>6, WriteSteps
  <2>2. Written' = Written
    BY <1>1, <2>1 DEF Written
  <2>3. CASE Tidy /\ Cardinality(Broken \ {Written}) <= faults
    <3>1. Cardinality(Broken' \ {Written'}) <= faults'
      BY <1>2, <1>3, <2>2, <2>3
    <3> QED BY <1>1, <1>4, <2>3, <3>1 DEF BrokenByFaults
  <2>4. CASE /\ pending \in { << PubMod, Name, EntryEnd >>, << Name, EntryEnd >>, << EntryEnd >> }
             /\ Cardinality(Broken \cup {Written}) <= faults
    <3>1. Broken' \cup {Written} = Broken \cup {Written}
      BY <1>3
    <3>2. Cardinality(Broken' \cup {Written'}) <= faults'
      BY <1>2, <2>2, <2>4, <3>1
    <3>3. CASE pending = << PubMod, Name, EntryEnd >>
      BY <1>1, <1>4, <3>2, <3>3, TupleTails DEF BrokenByFaults
    <3>4. CASE pending = << Name, EntryEnd >>
      BY <1>1, <1>4, <3>2, <3>4, TupleTails DEF BrokenByFaults
    <3>5. pending # << EntryEnd >>
      BY TupleTails
    <3> QED BY <2>4, <3>3, <3>4, <3>5
  <2> QED BY <1>1, <2>3, <2>4 DEF FilesIInv, BrokenByFaults
<1> QED BY <1>5, <1>6

(* Without a fault, a write that does not end the entry keeps the other lines. *)
LEMMA WriteClean ==
  ASSUME FilesIInv, WritePiece, Tail(pending) # <<>>
  PROVE  ModsClean'
<1>1. /\ pc = "append" /\ pc' = "append" /\ pending' = Tail(pending)
      /\ ModDir' = ModDir /\ Name' = Name /\ (Tidy => Tidy') /\ Head(pending) # EntryEnd
  BY TidyWrite
<1>2. faults' = faults /\ handwritten' = handwritten /\ blank' = blank
  BY DEF WritePiece
<1> DEFINE lines == mods[ModDir]
           new == mods'[ModDir]
<1> SUFFICES ASSUME faults = 0
             PROVE  ModsClean'
  BY <1>2 DEF ModsClean
<1>3. \A d \in DOMAIN mods \ (handwritten \cup blank) : d # ModDir => Clean(mods[d])
  BY <1>1 DEF FilesIInv, ModsClean
<1>4. \A d \in DOMAIN mods' \ (handwritten' \cup blank') : d # ModDir' => Clean(mods'[d])
  BY <1>3, <1>1, <1>2, WriteSteps
<1> SUFFICES ASSUME ModDir \notin blank
             PROVE  ModsClean'
  BY <1>1, <1>2, <1>4 DEF ModsClean
<1>7. /\ Tidy
      /\ Len(pending) > 3 => Len(lines) = 1
      /\ Len(pending) <= 3 => Entries(lines) /\ ~Lists(lines, Name)
  BY <1>1 DEF FilesIInv, ModsClean
<1>5. /\ lines \in Seq(Line) /\ new \in Seq(Line) /\ Len(lines) \in Nat \ {0}
      /\ Last(lines) = lines[Len(lines)]
      /\ \A i \in 1 .. (Len(lines) - 1) : new[i] = lines[i]
      /\ Head(pending) \notin { Newline, EntryEnd } => Len(new) = Len(lines)
      /\ Head(pending) = Newline =>
           Len(new) = Len(lines) + 1 /\ new[Len(lines)] = Last(lines)
  BY WriteSteps
<1> HIDE DEF lines, new
<1>6. /\ Len(pending') > 3 => Len(new) = 1
      /\ Len(pending') <= 3 => Entries(new) /\ ~Lists(new, Name)
  <2>1. CASE Head(pending) = Newline
    <3>1. pending = << Newline, PubMod, Name, EntryEnd >> /\ pending' = << PubMod, Name, EntryEnd >>
      BY <2>1, TidyWrite
    <3>2. Len(pending) = 4 /\ Len(pending') = 3
      BY <3>1, TupleLens
    <3>3. Len(lines) = 1 /\ Last(lines) = << Header >>
      BY <1>1, <1>7, <3>1, <3>2, TidyStages DEF lines
    <3>4. Len(new) = 2 /\ new[1] = << Header >>
      BY <1>5, <2>1, <3>3
    <3>5. << Header >> # << PubMod, Name, Semicolon >>
      OBVIOUS
    <3>6. Entries(new)
      BY <3>4 DEF Entries
    <3>7. ~Lists(new, Name)
      <4>1. \A i \in 1 .. (Len(new) - 1) : new[i] = << Header >>
        BY <3>4
      <4> QED BY <3>5, <4>1 DEF Lists
    <3> QED BY <3>2, <3>6, <3>7
  <2>2. CASE Head(pending) # Newline
    <3>1. Len(new) = Len(lines)
      BY <1>1, <1>5, <2>2
    <3>2. CASE pending = << Header, Newline, PubMod, Name, EntryEnd >>
      <4>1. Len(pending) = 5 /\ Len(pending') = 4
        BY <1>1, <3>2, TupleLens, TupleTails
      <4> QED BY <1>7, <3>1, <4>1
    <3>3. ASSUME Len(pending) <= 3
          PROVE  Entries(new) /\ ~Lists(new, Name)
      <4>1. Entries(lines) /\ ~Lists(lines, Name)
        BY <1>7, <3>3
      <4> QED BY <1>5, <3>1, <4>1, EntriesStay
    <3>4. CASE pending = << PubMod, Name, EntryEnd >>
      <4>1. Len(pending) = 3 /\ Len(pending') = 2
        BY <1>1, <3>4, TupleLens, TupleTails
      <4> QED BY <3>3, <4>1
    <3>5. CASE pending = << Name, EntryEnd >>
      <4>1. Len(pending) = 2 /\ Len(pending') = 1
        BY <1>1, <3>5, TupleLens, TupleTails
      <4> QED BY <3>3, <4>1
    <3>6. pending # << EntryEnd >>
      BY TupleTails
    <3>7. pending # << Newline, PubMod, Name, EntryEnd >>
      BY <2>2, TupleTails
    <3> QED BY <1>1, <3>2, <3>4, <3>5, <3>6, <3>7 DEF FilesIInv, AppendsEntry
  <2> QED BY <2>1, <2>2
<1> QED BY <1>1, <1>7, <1>4, <1>6 DEF ModsClean, new

(* The write that ends the entry. *)
LEMMA LastWrite ==
  ASSUME FilesIInv, WritePiece, Tail(pending) = <<>>
  PROVE  FilesIInv'
<1>1. pc = "append" /\ Updated /\ Declaring
  BY DEF WritePiece, At, Declaring
<1>2. UNCHANGED <<given, handwritten, blank, dirs, outs, job, result, faults>>
  BY DEF WritePiece
<1>3. pending = << EntryEnd >> /\ Head(pending) = EntryEnd
  <2>1. << Newline, PubMod, Name, EntryEnd >> # <<>> /\ << PubMod, Name, EntryEnd >> # <<>>
    OBVIOUS
  <2>2. << Name, EntryEnd >> # <<>> /\ << EntryEnd >> # <<>>
    OBVIOUS
  <2> QED BY <1>1, <2>1, <2>2, PendingFacts DEF FilesIInv
<1> DEFINE lines == mods[ModDir]
           new == mods'[ModDir]
<1>4. /\ lines \in Seq(Line) /\ new \in Seq(Line) /\ Len(lines) \in Nat \ {0}
      /\ Len(new) = Len(lines) + 1 /\ Last(new) = <<>>
      /\ new[Len(lines)] = Append(Last(lines), Semicolon)
      /\ \A i \in 1 .. (Len(lines) - 1) : new[i] = lines[i]
      /\ ModDir \in DOMAIN mods \ handwritten /\ DOMAIN mods' = DOMAIN mods
      /\ \A d \in DOMAIN mods \ {ModDir} : mods'[d] = mods[d]
  BY <1>3, WriteSteps
<1>5. Name \in Names
  BY <1>1, HereFacts DEF FilesIInv, Working
<1>6. Tidy => new[Len(lines)] = << PubMod, Name, Semicolon >>
  <2>1. Tidy => Last(lines) = << PubMod, Name >>
    BY <1>1, <1>3, TidyStages
  <2>2. Name \in Pieces /\ PubMod \in Pieces /\ Semicolon \in Pieces
    BY <1>5, PiecesDiffer
  <2>3. Append(<< PubMod, Name >>, Semicolon) = << PubMod, Name, Semicolon >>
    BY <2>2, TupleAppends
  <2> QED BY <1>4, <2>1, <2>3
<1>7. ASSUME faults = 0
      PROVE  /\ ModDir \notin blank => Entries(new) /\ Lists(new, Name)
             /\ \A d \in DOMAIN mods \ (handwritten \cup blank) : d # ModDir => Clean(mods[d])
  <2>1. Len(pending) = 1
    BY <1>3, TupleLens
  <2>2. /\ ModDir \notin blank => Tidy /\ Entries(lines) /\ ~Lists(lines, Name)
        /\ \A d \in DOMAIN mods \ (handwritten \cup blank) : d # ModDir => Clean(mods[d])
    BY <1>1, <1>7, <2>1 DEF FilesIInv, ModsClean
  <2> HIDE DEF lines, new
  <2> QED BY <1>4, <1>5, <1>6, <2>2, EntriesGrow
<1>8. \A d, n : Declares(d, n) => Declares(d, n)'
  BY DeclaresStays DEF FilesIInv, Next
<1>9. \A d \in DOMAIN mods' : mods'[d] \in Seq(Line) /\ mods'[d] # <<>>
  BY ModsGrow DEF FilesIInv, Next
<1>10. FilesTypeOK' /\ DirsDeclared' /\ PathThere' /\ PathLeft' /\ pc' # "append"
  BY <1>1, <1>2, <1>4, <1>7, <1>8, <1>9, UpdatedInv
<1>11. HandwrittenKept' /\ AppendsEntry'
  BY <1>2, <1>4, <1>10 DEF FilesIInv, HandwrittenKept, AppendsEntry
<1>12. BrokenByFaults'
  <2>1. /\ IsFiniteSet(Broken) /\ faults \in Nat
        /\ \/ Tidy /\ Cardinality(Broken \ {Written}) <= faults
           \/ Cardinality(Broken \cup {Written}) <= faults
    BY <1>1 DEF FilesIInv, FilesTypeOK, BrokenByFaults
  <2>2. Broken' \subseteq Broken \cup {Written}
    BY BrokenAfterWrite
  <2>3. /\ IsFiniteSet(Broken \cup {Written}) /\ IsFiniteSet(Broken')
        /\ Cardinality(Broken') <= Cardinality(Broken \cup {Written})
    BY <2>1, <2>2, FS_AddElement, FS_Subset
  <2>4. Cardinality(Broken') \in Nat /\ Cardinality(Broken \cup {Written}) \in Nat
    BY <2>3, FS_CardinalityType
  <2>5. CASE Tidy /\ Cardinality(Broken \ {Written}) <= faults
    <3>1. Declaration(new[Len(lines)])
      BY <1>5, <1>6, <2>5, EntryFacts
    <3>2. ~IsBroken(new, Len(lines))
      BY <1>4, <3>1 DEF IsBroken
    <3>3. Broken' = Broken \ {Written}
      BY <3>2, BrokenAfterWrite
    <3>4. Cardinality(Broken') <= faults'
      BY <1>2, <2>5, <3>3
    <3> QED BY <1>10, <2>3, <3>4 DEF BrokenByFaults
  <2>6. CASE Cardinality(Broken \cup {Written}) <= faults
    <3>1. Cardinality(Broken') <= faults'
      BY <1>2, <2>1, <2>3, <2>4, <2>6
    <3> QED BY <1>10, <2>3, <3>1 DEF BrokenByFaults
  <2> QED BY <2>1, <2>5, <2>6
<1>13. ModsClean'
  <2> SUFFICES ASSUME faults = 0
               PROVE  \A d \in DOMAIN mods' \ (handwritten' \cup blank') : Clean(mods'[d])
    BY <1>2, <1>10 DEF ModsClean
  <2>1. ModDir \notin blank => Clean(new)
    BY <1>4, <1>7 DEF Clean
  <2> QED BY <1>2, <1>4, <1>7, <2>1
<1> QED BY <1>10, <1>11, <1>12, <1>13 DEF FilesIInv

(* A write. *)
LEMMA WritePieceInv ==
  ASSUME FilesIInv, WritePiece
  PROVE  FilesIInv'
<1>1. CASE Tail(pending) = <<>>
  BY <1>1, LastWrite
<1>2. CASE Tail(pending) # <<>>
  <2>1. pc = "append" /\ pc' = "append" /\ level' = level /\ AppendsEntry'
    BY <1>2, TidyWrite
  <2>2. UNCHANGED <<given, handwritten, blank, dirs, outs, job, result, faults>>
    BY DEF WritePiece
  <2>3. \A d, n : Declares(d, n) => Declares(d, n)'
    BY DeclaresStays DEF FilesIInv, Next
  <2>4. \A d \in DOMAIN mods' : mods'[d] \in Seq(Line) /\ mods'[d] # <<>>
    BY ModsGrow DEF FilesIInv, Next
  <2>5. FilesTypeOK' /\ DirsDeclared' /\ PathThere' /\ PathLeft'
    BY <2>1, <2>2, <2>3, <2>4, DeclaringInv DEF Declaring
  <2>6. HandwrittenKept'
    BY <2>2, WriteSteps DEF FilesIInv, HandwrittenKept
  <2> QED BY <1>2, <2>1, <2>5, <2>6, WriteBroken, WriteClean DEF FilesIInv
<1> QED BY <1>1, <1>2

----------------------------------------------------------------------------
(* The theorems. *)

(* The invariant holds of the tree that is found. *)
LEMMA FilesInitInv ==
  ASSUME Init
  PROVE  FilesIInv
<1>1. /\ handwritten \subseteq given /\ dirs = given /\ <<>> \in given
      /\ blank \subseteq given \ handwritten
      /\ mods = [d \in handwritten \cup blank |-> IF d \in blank THEN Empty ELSE Handwritten]
      /\ pc = "idle" /\ result = "none" /\ faults = 0
  BY DEF Init
<1>2. Handwritten \in Seq(Line) /\ Handwritten # <<>>
  <2>1. "// by hand" \in Pieces
    BY PiecesDiffer
  <2>2. << "// by hand" >> \in Line /\ <<>> \in Line
    BY <2>1, TupleFacts, EmptySeq DEF Line
  <2>3. Handwritten \in Seq(Line) /\ Len(Handwritten) = 2
    BY <2>2, TupleFacts DEF Handwritten
  <2> QED BY <2>3, EmptySeq
<1>3. FilesTypeOK
  BY <1>1, <1>2, EmptyFacts DEF FilesTypeOK, Working
<1>4. HandwrittenKept /\ AppendsEntry /\ ModsClean
  BY <1>1 DEF HandwrittenKept, AppendsEntry, ModsClean
<1>5. BrokenByFaults
  <2>1. Broken = {}
    <3>1. ~IsBroken(Empty, 1)
      BY EmptyFacts DEF IsBroken
    <3>2. \A d \in DOMAIN mods \ handwritten : mods[d] = Empty
      BY <1>1
    <3> QED BY <3>1, <3>2, EmptyFacts DEF Broken
  <2>2. IsFiniteSet(Broken) /\ Cardinality(Broken) = 0
    BY <2>1, FS_EmptySet
  <2> QED BY <1>1, <2>2 DEF BrokenByFaults
<1>6. DirsDeclared /\ PathThere /\ PathLeft
  BY <1>1 DEF DirsDeclared, PathThere, PathLeft, Working, Declaring
<1> QED BY <1>3, <1>4, <1>5, <1>6 DEF FilesIInv

(* Every step preserves it. *)
LEMMA FilesStepInv ==
  ASSUME FilesIInv, [Next]_vars
  PROVE  FilesIInv'
<1>1. CASE UNCHANGED vars
  <2>1. UNCHANGED <<given, handwritten, blank, dirs, mods, outs, job, pc, level, pending, result, faults>>
    BY <1>1 DEF vars, disk
  <2>2. \A k : Upto(k)' = Upto(k)
    BY <2>1 DEF Upto
  <2>3. \A d, n : Declares(d, n)' <=> Declares(d, n)
    BY <2>1 DEF Declares
  <2>4. /\ Upto(level)' = Upto(level) /\ ModDir' = ModDir /\ Name' = Name /\ IsFile' = IsFile
        /\ Declares(ModDir, Name)' = Declares(ModDir, Name)
        /\ Declares(Front(job.path), Last(job.path))' = Declares(Front(job.path), Last(job.path))
    BY <2>1 DEF Upto, ModDir, Name, IsFile, Declares
  <2>5. Broken' = Broken /\ Written' = Written /\ Tidy' = Tidy
    BY <2>1, <2>4 DEF Broken, Written, Tidy, Left
  <2>6. FilesTypeOK' /\ HandwrittenKept' /\ AppendsEntry'
    BY <2>1, <2>4 DEF FilesIInv, FilesTypeOK, HandwrittenKept, AppendsEntry, Working
  <2>7. BrokenByFaults' /\ ModsClean'
    BY <2>1, <2>4, <2>5 DEF FilesIInv, BrokenByFaults, ModsClean
  <2>8. DirsDeclared' /\ PathThere' /\ PathLeft'
    BY <2>1, <2>2, <2>3, <2>4
       DEF FilesIInv, DirsDeclared, PathThere, PathLeft, Working, Declaring
  <2> QED BY <2>6, <2>7, <2>8 DEF FilesIInv
<1> QED
  BY <1>1, StartInv, ExistingDirInv, CreateDirInv, NoOutputInv, CreateOutInv,
     NothingToDeclareInv, ScanPanicsInv, OpenToAppendInv, CreateModInv, WritePieceInv,
     FlushInv, InterruptInv DEF Next

(* What pb-rs leaves on disk, however often it runs and is interrupted. *)
THEOREM FilesInvariant == Spec => []FilesIInv
<1>1. Init => FilesIInv
  BY FilesInitInv
<1>2. FilesIInv /\ [Next]_vars => FilesIInv'
  BY FilesStepInv
<1> QED BY <1>1, <1>2, PTL DEF Spec

(* A clean mod.rs declares a name that it lists once. *)
LEMMA DeclaredOnce ==
  ASSUME NEW lines \in Seq(Line), Clean(lines), NEW name, Lists(lines, name)
  PROVE  Cardinality({ i \in DOMAIN lines : lines[i] = << PubMod, name, Semicolon >> }) = 1
<1> DEFINE entry == << PubMod, name, Semicolon >>
           S == { i \in DOMAIN lines : lines[i] = entry }
<1>1. PICK n \in Nat : n = Len(lines) /\ n >= 2 /\ DOMAIN lines = 1 .. n
  BY LenProperties DEF Clean, Entries
<1>2. PICK k \in 1 .. (n - 1) : lines[k] = entry
  BY <1>1 DEF Lists
<1>3. lines[1] # entry
  <2>1. << Header >> # entry
    OBVIOUS
  <2> QED BY <2>1 DEF Clean, Entries
<1>4. lines[n] # entry
  <2>1. <<>> # entry
    OBVIOUS
  <2> QED BY <1>1, <2>1 DEF Clean, Last
<1> HIDE DEF entry
<1>5. ASSUME NEW j \in 1 .. n, lines[j] = entry
      PROVE  j \in 2 .. (n - 1)
  BY <1>1, <1>3, <1>4, <1>5
<1>6. k \in 1 .. n
  BY <1>1
<1>7. \A j \in 1 .. n : lines[j] = entry => j = k
  BY <1>1, <1>2, <1>5, <1>6 DEF Clean, Entries
<1>8. S = {k}
  BY <1>1, <1>2, <1>6, <1>7
<1> HIDE DEF S
<1>9. Cardinality(S) = 1
  BY <1>8, FS_Singleton
<1> QED BY <1>9 DEF S, entry

(* update_mod_file: when nothing fails, a run that returns Ok leaves a       *)
(* complete file, and every level of its path is declared exactly once, save *)
(* directories that were there before and declarations in a mod.rs that      *)
(* pb-rs did not make.  That rustc takes the tree is not said: it does not   *)
(* when a module is both a file and a directory (E0584).                     *)
THEOREM OkIsDeclared == Spec => []OkMeansDeclared
<1>1. ASSUME FilesIInv
      PROVE  OkMeansDeclared
  <2> SUFFICES ASSUME faults = 0, result = "ok", ~job.noOutput
               PROVE  /\ outs[job.path] = "complete"
                      /\ \A k \in 1 .. Len(job.path) :
                           (k = Len(job.path) \/ Upto(k) \notin given)
                             /\ Upto(k - 1) \notin handwritten \cup blank =>
                               /\ Upto(k - 1) \in DOMAIN mods
                               /\ Cardinality(Declared(Upto(k - 1), job.path[k])) = 1
    BY DEF OkMeansDeclared
  <2>1. job \in Jobs /\ pc = "idle"
    BY <1>1 DEF FilesIInv, FilesTypeOK, Working
  <2>2. /\ outs[job.path] = "complete"
        /\ \A k \in 1 .. (Len(job.path) - 1) : Upto(k) \in dirs
        /\ Declares(Front(job.path), Last(job.path))
    BY <1>1 DEF FilesIInv, PathLeft
  <2>3. ASSUME NEW k \in 1 .. Len(job.path),
               k = Len(job.path) \/ Upto(k) \notin given,
               Upto(k - 1) \notin handwritten \cup blank
        PROVE  /\ Upto(k - 1) \in DOMAIN mods
               /\ Cardinality(Declared(Upto(k - 1), job.path[k])) = 1
    <3> DEFINE d == Upto(k - 1)
               name == job.path[k]
    <3>1. Front(Upto(k)) = d /\ Last(Upto(k)) = name /\ Len(job.path) \in Nat
      BY <2>1, JobFacts
    <3>2. Declares(d, name)
      <4>1. CASE k = Len(job.path)
        <5>1. Upto(k) = job.path
          BY <2>1, <4>1, JobFacts
        <5> QED BY <2>2, <3>1, <5>1
      <4>2. CASE k # Len(job.path)
        <5>1. k \in 1 .. (Len(job.path) - 1)
          BY <3>1, <4>2
        <5>2. Upto(k) \in dirs \ given
          BY <2>2, <2>3, <4>2, <5>1
        <5>3. Declares(Front(Upto(k)), Last(Upto(k)))
          BY <1>1, <2>1, <5>2 DEF FilesIInv, DirsDeclared, Declaring
        <5> QED BY <3>1, <5>3
      <4> QED BY <4>1, <4>2
    <3>3. d \in DOMAIN mods \ (handwritten \cup blank) /\ Lists(mods[d], name)
      BY <2>3, <3>2 DEF Declares
    <3> HIDE DEF d, name
    <3>4. Clean(mods[d]) /\ mods[d] \in Seq(Line)
      BY <1>1, <2>1, <3>3 DEF FilesIInv, FilesTypeOK, ModsClean
    <3>5. Cardinality(Declared(d, name)) = 1
      BY <3>3, <3>4, DeclaredOnce DEF Declared
    <3> QED BY <3>3, <3>5 DEF d, name
  <2> QED BY <2>2, <2>3
<1> QED BY <1>1, FilesInvariant, PTL

(* There are at most as many damaged lines as there were interruptions. *)
THEOREM DamageIsBounded == Spec => []OneLinePerInterruption
<1>1. ASSUME FilesIInv
      PROVE  OneLinePerInterruption
  <2> DEFINE D == UNION { {d} \X Damaged(d) : d \in DOMAIN mods \ handwritten }
  <2> SUFFICES ASSUME pc = "idle"
               PROVE  Cardinality(D) <= faults
    BY DEF OneLinePerInterruption
  <2>1. IsFiniteSet(Broken) /\ Cardinality(Broken) <= faults /\ faults \in Nat
    BY <1>1 DEF FilesIInv, FilesTypeOK, BrokenByFaults
  <2>2. D \subseteq Broken
    <3> SUFFICES ASSUME NEW d \in DOMAIN mods \ handwritten, NEW i \in Damaged(d)
                 PROVE  << d, i >> \in Broken
      OBVIOUS
    <3>1. /\ i \in DOMAIN mods[d]
          /\ mods[d][i] \notin { <<>>, << Header >> } /\ ~Declaration(mods[d][i])
      BY DEF Damaged
    <3>2. DOMAIN mods[d] = 1 .. Len(mods[d]) /\ Len(mods[d]) \in Nat
      BY <1>1, LenProperties DEF FilesIInv, FilesTypeOK
    <3>3. i \in Nat /\ i \in 1 .. Len(mods[d]) /\ IsBroken(mods[d], i)
      BY <3>1, <3>2 DEF IsBroken
    <3> QED BY <3>3 DEF Broken
  <2> HIDE DEF D
  <2>3. IsFiniteSet(D) /\ Cardinality(D) <= Cardinality(Broken)
    BY <2>1, <2>2, FS_Subset
  <2>4. Cardinality(D) \in Nat /\ Cardinality(Broken) \in Nat
    BY <2>1, <2>3, FS_CardinalityType
  <2> QED BY <2>1, <2>3, <2>4
<1> QED BY <1>1, FilesInvariant, PTL

(* A mod.rs that pb-rs did not write, and that has a line, is never modified. *)
THEOREM HandwrittenIsUntouched == Spec => HandwrittenUntouched
<1>1. FilesIInv /\ FilesIInv' /\ [Next]_vars => [\A d \in handwritten : mods'[d] = mods[d]]_vars
  <2> SUFFICES ASSUME FilesIInv, FilesIInv', [Next]_vars, NEW d \in handwritten
               PROVE  mods'[d] = mods[d]
    OBVIOUS
  <2>1. handwritten' = handwritten
    BY ModsGrow DEF FilesIInv
  <2> QED BY <2>1 DEF FilesIInv, HandwrittenKept
<1> QED BY <1>1, FilesInvariant, PTL DEF Spec, HandwrittenUntouched

(* A sequence that agrees with another on all but its last element. *)
LEMMA FrontIsPrefix ==
  ASSUME NEW S, NEW s \in Seq(S), s # <<>>, NEW t \in Seq(S), Len(t) >= Len(s),
         \A i \in 1 .. (Len(s) - 1) : t[i] = s[i]
  PROVE  IsPrefix(Front(s), t)
<1>1. /\ Front(s) \in Seq(S) /\ Len(Front(s)) = Len(s) - 1
      /\ \A i \in 1 .. (Len(s) - 1) : Front(s)[i] = s[i]
      /\ Len(s) \in Nat \ {0} /\ Len(t) \in Nat
  <2>1. Len(t) \in Nat
    BY LenProperties
  <2> QED BY <2>1, FrontAndLast
<1>2. PICK k \in Nat : k = Len(s) - 1
  BY <1>1
<1> DEFINE f == Front(s)
           g == SubSeq(f, 1, k)
           h == SubSeq(t, 1, k)
<1> HIDE DEF f
<1>3. f \in Seq(S) /\ Len(f) = k /\ k <= Len(t) /\ \A i \in 1 .. k : f[i] = t[i]
  BY <1>1, <1>2 DEF f
<1>4. /\ g \in Seq(S) /\ Len(g) = IF 1 <= k THEN k - 1 + 1 ELSE 0
      /\ \A i \in 1 .. k - 1 + 1 : g[i] = f[1 + i - 1]
  <2>1. 1 \in Int /\ k \in Int /\ \A i \in 1 .. k : f[i] \in S
    BY <1>3, ElementOfSeq
  <2> QED BY <2>1, SubSeqProperties
<1>5. /\ h \in Seq(S) /\ Len(h) = IF 1 <= k THEN k - 1 + 1 ELSE 0
      /\ \A i \in 1 .. k - 1 + 1 : h[i] = t[1 + i - 1]
  <2>1. \A i \in 1 .. k : i \in 1 .. Len(t)
    BY <1>1, <1>3
  <2>2. 1 \in Int /\ k \in Int /\ \A i \in 1 .. k : t[i] \in S
    BY <2>1, ElementOfSeq
  <2> QED BY <2>2, SubSeqProperties
<1> HIDE DEF g, h
<1>6. Len(g) = k /\ Len(h) = k /\ \A i \in 1 .. k : g[i] = f[i] /\ h[i] = t[i]
  BY <1>4, <1>5
<1>7. g = h
  BY <1>3, <1>4, <1>5, <1>6, SeqEqual
<1> QED BY <1>3, <1>7 DEF IsPrefix, f, g, h

(* What a mod.rs declares is never lost. *)
THEOREM DeclarationsAreKept == Spec => DeclarationsStay
<1>1. FilesIInv /\ [Next]_vars =>
        [\A d \in DOMAIN mods : d \in DOMAIN mods' /\ IsPrefix(Front(mods[d]), mods'[d])]_vars
  <2> SUFFICES ASSUME FilesIInv, [Next]_vars, NEW d \in DOMAIN mods
               PROVE  d \in DOMAIN mods' /\ IsPrefix(Front(mods[d]), mods'[d])
    OBVIOUS
  <2>1. /\ d \in DOMAIN mods' /\ mods'[d] \in Seq(Line)
        /\ Len(mods'[d]) >= Len(mods[d])
        /\ \A i \in 1 .. (Len(mods[d]) - 1) : mods'[d][i] = mods[d][i]
    BY ModsGrow DEF FilesIInv
  <2>2. mods[d] \in Seq(Line) /\ mods[d] # <<>>
    BY DEF FilesIInv, FilesTypeOK
  <2> QED BY <2>1, <2>2, FrontIsPrefix
<1> QED BY <1>1, FilesInvariant, PTL DEF Spec, DeclarationsStay
=============================================================================

------------------------- MODULE BytesReaderProofs -------------------------
(***************************************************************************)
(* What BytesReader keeps for every buffer, every length and every nesting.*)
(***************************************************************************)
EXTENDS BytesReader, SequenceTheorems, TLAPS

----------------------------------------------------------------------------
(* Sequences as a stack. *)

\* What pushing on a stack leaves below the new top.
LEMMA PushProps ==
  ASSUME NEW S, NEW s \in Seq(S), NEW x \in S
  PROVE  /\ Append(s, x) \in Seq(S)
         /\ Len(Append(s, x)) = Len(s) + 1
         /\ \A i \in 1..Len(s) : Append(s, x)[i] = s[i]
         /\ Append(s, x)[Len(s) + 1] = x
  OBVIOUS

\* What popping a stack leaves.
LEMMA PopProps ==
  ASSUME NEW S, NEW s \in Seq(S), Len(s) >= 1
  PROVE  /\ SubSeq(s, 1, Len(s) - 1) \in Seq(S)
         /\ Len(SubSeq(s, 1, Len(s) - 1)) = Len(s) - 1
         /\ \A i \in 1..(Len(s) - 1) : SubSeq(s, 1, Len(s) - 1)[i] = s[i]
<1> DEFINE n == Len(s) - 1
           t == SubSeq(s, 1, n)
<1>1. n \in Nat /\ n \in Int /\ 1 \in Int
  OBVIOUS
<1>2. \A i \in 1..n : s[i] \in S
  OBVIOUS
<1> HIDE DEF n
<1>3. /\ t \in Seq(S)
      /\ Len(t) = IF 1 <= n THEN n - 1 + 1 ELSE 0
      /\ \A i \in 1..(n - 1 + 1) : t[i] = s[1 + i - 1]
  BY <1>1, <1>2, SubSeqProperties
<1>4. n - 1 + 1 = n
  BY <1>1
<1>5. Len(t) = n
  BY <1>1, <1>3, <1>4
<1>6. \A i \in 1..n : 1 + i - 1 = i
  BY <1>1
<1>7. \A i \in 1..n : t[i] = s[i]
  BY <1>3, <1>4, <1>6
<1> QED BY <1>3, <1>5, <1>7 DEF n

----------------------------------------------------------------------------
(* The inductive invariant. *)

\* Until an error leaves a chunk's `end` behind, the end that the caller's own
\* read works with is the buffer's, wherever it is kept at the moment.
CallersEnd == result \in {"none", "ok"} => EndOf(1) = N

\* Ok is only returned by the caller's own read; a loop returns it at its end.
OkAtBase ==
  result = "ok" =>
    /\ Len(stack) = 1
    /\ stack[1].kind \in Looping => start = end

\* DepthBound, with the tag byte already read for a pending field.
Covered ==
  2 * (Len(stack) - 1) + (IF op = "loop" THEN 0 ELSE 1)
    <= start + Unpaid(stack[1].kind)
Paid == wrapped \/ Covered

\* The one read that takes its length from the caller, and so reads no varint
\* first, starts at the first byte.
AtFirstByte ==
  Len(stack) = 1 /\ stack[1].kind = "read_message_by_len" /\ result = "none"
    => start = 0 /\ op = "loop"

\* Only a build without overflow checks wraps.
WrapsUnchecked == wrapped => build = "wrapping"

IInv == TypeOK /\ CallersEnd /\ OkAtBase /\ Paid /\ AtFirstByte /\ WrapsUnchecked

----------------------------------------------------------------------------
(* The shared outcomes. *)

LEMMA VarintEndsType ==
  ASSUME start \in Words
  PROVE  \A s \in VarintEnds : s \in Nat /\ s >= start + 1 /\ s <= N
  BY ReaderAssumption DEF VarintEnds, Words

\* What is read behind the cursor, and a length on top of it, is a usize.
LEMMA LengthsFit ==
  ASSUME NEW s \in Nat, s <= N
  PROVE  /\ \A len \in Lens \cup FixedSizes : s + len \in Words
         /\ s \in Words
  BY ReaderAssumption DEF Words

LEMMA WordsAreNats == Words \subseteq Nat
  BY DEF Words

\* A read that is not the first of read_message_by_len.
Beyond == op # "loop" \/ Top.kind # "read_message_by_len"

LEMMA BeyondFirst ==
  ASSUME IInv, result = "none", Beyond
  PROVE  ~(Len(stack) = 1 /\ stack[1].kind = "read_message_by_len")
  BY DEF IInv, AtFirstByte, Beyond, Top

\* Only the bottom read is a caller's.
LEMMA CallerAtBase ==
  ASSUME TypeOK, NEW i \in 1..Len(stack), stack[i].kind \in Entries
  PROVE  i = 1
  BY DEF TypeOK

LEMMA NatFacts ==
  ASSUME TypeOK
  PROVE  /\ Len(stack) \in Nat \ {0}
         /\ Len(stack) \in 1..Len(stack)
         /\ 1 \in 1..Len(stack)
         /\ Len(stack) > 1 => Len(stack) - 1 \in 1..Len(stack)
         /\ \A i \in 1..Len(stack) : stack[i] \in Frame
  BY DEF TypeOK

LEMMA ReturnKeeps ==
  ASSUME IInv, result = "none", Beyond, NEW s \in Words, s >= start, Return(s)
  PROVE  IInv'
<1> USE DEF IInv, Return
<1>0. start \in Nat /\ s \in Nat
  BY WordsAreNats DEF TypeOK
<1>1. TypeOK'
  BY DEF TypeOK, Ops
<1>2. CallersEnd'
  BY DEF CallersEnd, EndOf
<1>3. OkAtBase'
  BY DEF OkAtBase
<1>4. Paid'
  <2>1. Unpaid(stack[1].kind) \in Nat
    BY DEF Unpaid
  <2> QED BY <1>0, <2>1 DEF Paid, Covered, TypeOK
<1>5. AtFirstByte' /\ WrapsUnchecked'
  BY BeyondFirst DEF AtFirstByte, WrapsUnchecked
<1> QED BY <1>1, <1>2, <1>3, <1>4, <1>5

LEMMA FailKeeps ==
  ASSUME IInv, NEW e \in Errors \cup Panics, NEW s \in Words, s >= start, Fail(e, s)
  PROVE  IInv'
<1> USE DEF IInv, Fail
<1>0. start \in Nat /\ s \in Nat
  BY WordsAreNats DEF TypeOK
<1>1. TypeOK'
  BY DEF TypeOK, Results
<1>2. CallersEnd'
  BY DEF CallersEnd, Errors, Panics
<1>3. OkAtBase'
  BY DEF OkAtBase, Errors, Panics
<1>4. Paid'
  <2>1. Unpaid(stack[1].kind) \in Nat
    BY DEF Unpaid
  <2> QED BY <1>0, <2>1 DEF Paid, Covered, TypeOK
<1>5. AtFirstByte' /\ WrapsUnchecked'
  BY DEF AtFirstByte, WrapsUnchecked, Errors, Panics
<1> QED BY <1>1, <1>2, <1>3, <1>4, <1>5

LEMMA PushKeeps ==
  ASSUME IInv, result = "none", NEW s \in Words, NEW len \in Nat, s + len \in Words,
         NEW kind \in {"message", "packed", "map"}, Push(kind, s, len),
         \/ op # "loop" /\ s >= start + 1
         \/ Top.kind \in {"read_message", "stream"} /\ s >= start + 1
         \/ Top.kind = "read_message_by_len" /\ s >= start
  PROVE  IInv'
<1> DEFINE f == [kind |-> kind, saved |-> end]
<1>0. start \in Nat /\ s \in Nat
  BY WordsAreNats DEF IInv, TypeOK
<1>1. f \in Frame /\ f.kind = kind /\ f.saved = end
  BY DEF Frame, Kinds, IInv, TypeOK
<1>2. /\ stack' \in Seq(Frame)
      /\ Len(stack') = Len(stack) + 1
      /\ \A i \in 1..Len(stack) : stack'[i] = stack[i]
      /\ stack'[Len(stack) + 1] = f
  BY <1>1, PushProps DEF Push, IInv, TypeOK
<1>3. stack'[1] = stack[1]
  BY <1>2 DEF IInv, TypeOK
<1>4. TypeOK'
  <2>1. kind \notin Entries
    BY DEF Entries
  <2>2. \A i \in 1..Len(stack') : stack'[i].kind \in Entries <=> i = 1
    BY <1>1, <1>2, <2>1 DEF IInv, TypeOK
  <2> QED BY <1>2, <2>2 DEF IInv, TypeOK, Push, Ops
<1>5. CallersEnd'
  <2>1. CASE Len(stack) = 1
    <3>1. stack'[2].saved = N /\ Len(stack') = 2
      BY <1>1, <1>2, <2>1 DEF IInv, CallersEnd, EndOf
    <3> QED BY <3>1 DEF CallersEnd, EndOf
  <2>2. CASE Len(stack) # 1
    <3>1. 2 \in 1..Len(stack) /\ Len(stack') # 1
      <4> DEFINE n == Len(stack)
                 m == Len(stack')
      <4>1. n \in Nat \ {0} /\ n # 1 /\ m = n + 1
        BY <1>2, <2>2, NatFacts DEF IInv
      <4> HIDE DEF n, m
      <4>2. 2 \in 1..n /\ m # 1
        BY <4>1
      <4> QED BY <4>2 DEF n, m
    <3>2. stack'[2] = stack[2] /\ stack[2].saved = N
      BY <1>2, <2>2, <3>1 DEF IInv, CallersEnd, EndOf
    <3> QED BY <3>1, <3>2 DEF CallersEnd, EndOf
  <2> QED BY <2>1, <2>2
<1>6. OkAtBase'
  BY DEF Push, OkAtBase
<1>7. Paid'
  <2>1. Unpaid(stack[1].kind) \in Nat /\ Unpaid(stack'[1].kind) = Unpaid(stack[1].kind)
    BY <1>3 DEF Unpaid
  <2>2. CASE op # "loop" /\ s >= start + 1
    BY <1>0, <1>2, <2>1, <2>2 DEF IInv, TypeOK, Paid, Covered, Push
  <2>3. ASSUME Top.kind \in OneShot \cup {"stream"} PROVE Len(stack) = 1
    <3>1. Top.kind \in Entries
      BY <2>3 DEF OneShot, Entries
    <3> QED BY <3>1, CallerAtBase, NatFacts DEF IInv, Top
  <2>4. CASE Top.kind \in {"read_message", "stream"} /\ s >= start + 1
    <3>1. Len(stack) = 1 /\ stack[1].kind \in {"read_message", "stream"}
      BY <2>3, <2>4 DEF OneShot, Top
    <3>2. Unpaid(stack[1].kind) = 1
      BY <3>1 DEF Unpaid
    <3> QED BY <1>0, <1>2, <2>1, <2>4, <3>1, <3>2 DEF IInv, TypeOK, Paid, Covered, Push
  <2>5. CASE Top.kind = "read_message_by_len" /\ s >= start
    <3>1. Len(stack) = 1 /\ stack[1].kind = "read_message_by_len"
      BY <2>3, <2>5 DEF OneShot, Top
    <3>2. Unpaid(stack[1].kind) = 2
      BY <3>1 DEF Unpaid
    <3> QED BY <1>0, <1>2, <2>1, <2>5, <3>1, <3>2 DEF IInv, TypeOK, Paid, Covered, Push
  <2> QED BY <2>2, <2>4, <2>5
<1>8. AtFirstByte' /\ WrapsUnchecked'
  BY <1>2 DEF Push, IInv, TypeOK, AtFirstByte, WrapsUnchecked
<1> QED BY <1>4, <1>5, <1>6, <1>7, <1>8 DEF IInv

LEMMA OpenKeeps ==
  ASSUME IInv, result = "none", NEW s \in Words, NEW len \in Nat, s + len \in Words,
         NEW kind \in {"message", "packed", "map"}, Open(kind, s, len),
         \/ op # "loop" /\ s >= start + 1
         \/ Top.kind \in {"read_message", "stream"} /\ s >= start + 1
         \/ Top.kind = "read_message_by_len" /\ s >= start
  PROVE  IInv'
<1>1. CASE Push(kind, s, len)
  BY <1>1, PushKeeps
<1>2. CASE Fail("StackOverflow", s)
  <2>1. s >= start
    BY WordsAreNats DEF IInv, TypeOK
  <2> QED BY <1>2, <2>1, FailKeeps DEF Panics
<1> QED BY <1>1, <1>2 DEF Open

LEMMA CloseKeeps ==
  ASSUME IInv, CloseChunk
  PROVE  IInv'
<1> USE DEF IInv, TypeOK
<1>0. /\ Len(stack) \in Nat \ {0}
      /\ Len(stack) \in 1..Len(stack)
      /\ 1 \in 1..Len(stack)
      /\ Len(stack) > 1 => Len(stack) - 1 \in 1..Len(stack)
      /\ \A i \in 1..Len(stack) : stack[i] \in Frame
  BY NatFacts
<1>1. Len(stack) >= 2
  <2>1. Top.kind \notin Entries
    BY DEF CloseChunk, At, Entries
  <2> QED BY <1>0, <2>1 DEF Top
<1>2. /\ stack' \in Seq(Frame)
      /\ Len(stack') = Len(stack) - 1
      /\ \A i \in 1..(Len(stack) - 1) : stack'[i] = stack[i]
  BY PopProps DEF CloseChunk, Pop
<1>3. stack'[1] = stack[1]
  BY <1>1, <1>2
<1>4. start' = end /\ start = end /\ op = "loop" /\ op' = "loop"
  BY DEF CloseChunk, IsEof, At
<1>5. TypeOK'
  <2>1. Top \in Frame
    BY DEF Top
  <2>2. end' \in Words
    BY <2>1 DEF CloseChunk, Frame
  <2>3. \A i \in 1..Len(stack') : stack'[i].kind \in Entries <=> i = 1
    BY <1>1, <1>2
  <2>4. result' \in Results
    BY DEF CloseChunk, Results
  <2>5. Len(stack') >= 1 /\ start' \in Words /\ UNCHANGED <<op, build, wrapped>>
    BY <1>1, <1>2, <1>4 DEF CloseChunk
  <2> QED BY <1>2, <2>2, <2>3, <2>4, <2>5
<1>6. CallersEnd'
  <2>0. result = "none"
    BY DEF CloseChunk, At
  <2>1. CASE Len(stack) = 2
    <3>1. Len(stack') = 1 /\ end' = stack[2].saved
      BY <1>2, <2>1 DEF CloseChunk, Top
    <3>2. stack[2].saved = N
      BY <2>0, <2>1 DEF CallersEnd, EndOf
    <3> QED BY <3>1, <3>2 DEF CallersEnd, EndOf
  <2>2. CASE Len(stack) > 2
    <3>1. 2 \in 1..(Len(stack) - 1) /\ 1 # Len(stack') /\ 1 # Len(stack)
      BY <1>0, <1>2, <2>2
    <3>2. stack'[2] = stack[2]
      BY <1>2, <3>1
    <3> QED BY <2>0, <3>1, <3>2 DEF CallersEnd, EndOf
  <2> DEFINE n == Len(stack)
  <2>3. n \in Nat /\ n >= 2
    BY <1>0, <1>1
  <2> HIDE DEF n
  <2>4. n = 2 \/ n > 2
    BY <2>3
  <2> USE DEF n
  <2> QED BY <2>1, <2>2, <2>4
<1>7. OkAtBase'
  <2> SUFFICES ASSUME result' = "ok"
               PROVE  Len(stack') = 1 /\ stack'[1].kind \notin Looping
    BY DEF OkAtBase
  <2>1. stack[Len(stack) - 1].kind \in OneShot
    BY DEF CloseChunk
  <2>2. Len(stack) - 1 = 1
    <3>1. stack[Len(stack) - 1].kind \in Entries
      BY <2>1 DEF OneShot, Entries
    <3>2. Len(stack) - 1 \in 1..Len(stack)
      BY <1>0, <1>1
    <3> QED BY <3>1, <3>2, CallerAtBase, Zenon
  <2> QED BY <1>2, <1>3, <2>1, <2>2 DEF OneShot, Looping, GeneratedLoop
<1>8. Paid'
  <2>1. Unpaid(stack[1].kind) \in Nat /\ Unpaid(stack'[1].kind) = Unpaid(stack[1].kind)
    BY <1>3 DEF Unpaid
  <2> QED BY <1>1, <1>2, <1>4, <2>1, WordsAreNats DEF Paid, Covered, CloseChunk
<1>9. AtFirstByte' /\ WrapsUnchecked'
  <2>1. ASSUME Len(stack') = 1, stack'[1].kind = "read_message_by_len"
        PROVE  result' = "ok"
    <3>1. Len(stack) - 1 = 1
      BY <1>0, <1>2, <2>1
    <3> QED BY <1>3, <2>1, <3>1 DEF CloseChunk, OneShot
  <2> QED BY <2>1 DEF AtFirstByte, WrapsUnchecked, CloseChunk
<1> QED BY <1>5, <1>6, <1>7, <1>8, <1>9

----------------------------------------------------------------------------
(* Every action keeps the invariant. *)

LEMMA InitIInv == Init => IInv
<1> SUFFICES ASSUME Init PROVE IInv
  OBVIOUS
<1> PICK kind \in Entries : stack = << [kind |-> kind, saved |-> N] >>
  BY DEF Init
<1>1. /\ stack \in Seq(Frame) /\ Len(stack) = 1
      /\ stack[1] = [kind |-> kind, saved |-> N]
  BY ReaderAssumption DEF Frame, Kinds, Words
<1>2. TypeOK
  <2>1. start \in Words /\ end \in Words
    BY ReaderAssumption DEF Init, Words
  <2>2. \A i \in 1..Len(stack) : stack[i].kind \in Entries <=> i = 1
    BY <1>1
  <2>3. op \in Ops /\ result \in Results /\ build \in {"checked", "wrapping"} /\ wrapped \in BOOLEAN
    BY DEF Init, Ops, Results
  <2> QED BY <1>1, <2>1, <2>2, <2>3 DEF TypeOK
<1>3. CallersEnd
  BY <1>1 DEF Init, CallersEnd, EndOf
<1>4. OkAtBase
  BY DEF Init, OkAtBase
<1>5. Paid
  <2>1. Unpaid(stack[1].kind) \in Nat
    BY DEF Unpaid
  <2>2. 2 * (Len(stack) - 1) = 0
    BY <1>1
  <2> QED BY <2>1, <2>2 DEF Init, Paid, Covered
<1>6. AtFirstByte /\ WrapsUnchecked
  BY DEF Init, AtFirstByte, WrapsUnchecked
<1> QED BY <1>2, <1>3, <1>4, <1>5, <1>6 DEF IInv

\* The steps that only move the cursor forward and choose what is read next.
LEMMA ForwardKeeps ==
  ASSUME IInv, result = "none", Beyond, start' \in Words, start' >= start + 1, op' \in Ops,
         UNCHANGED <<end, stack, result, build, wrapped>>
  PROVE  IInv'
<1> USE DEF IInv
<1>1. TypeOK'
  BY DEF TypeOK
<1>2. CallersEnd'
  BY DEF CallersEnd, EndOf
<1>3. OkAtBase'
  BY DEF OkAtBase
<1>4. Paid'
  <2>1. Unpaid(stack[1].kind) \in Nat
    BY DEF Unpaid
  <2> QED BY <2>1, WordsAreNats DEF Paid, Covered, TypeOK
<1>5. AtFirstByte' /\ WrapsUnchecked'
  BY BeyondFirst DEF AtFirstByte, WrapsUnchecked
<1> QED BY <1>1, <1>2, <1>3, <1>4, <1>5

\* A skip that wraps keeps all but the bound on the depth, which gives up.
LEMMA WrappingKeeps ==
  ASSUME IInv, result = "none", op = "unknown", build = "wrapping",
         start' \in Words, wrapped' = TRUE, op' = "loop",
         UNCHANGED <<end, stack, result, build>>
  PROVE  IInv'
<1> USE DEF IInv
<1>1. TypeOK'
  BY DEF TypeOK, Ops
<1>2. CallersEnd' /\ OkAtBase' /\ Paid' /\ WrapsUnchecked'
  BY DEF CallersEnd, EndOf, OkAtBase, Paid, WrapsUnchecked
<1>3. AtFirstByte'
  BY DEF AtFirstByte
<1> QED BY <1>1, <1>2, <1>3

\* A skip goes on from where it is, wraps, or fails.
LEMMA SkipShape ==
  ASSUME IInv, NEW s \in Words, NEW k \in Words, Skip(s, k)
  PROVE  \/ s + k \in Words /\ Return(s + k)
         \/ \E e \in {"PanicUnknownUnderflow", "Varint"} : Fail(e, s)
         \/ /\ build = "wrapping" /\ wrapped' = TRUE /\ op' = "loop"
            /\ start' \in Words /\ start' <= end
            /\ UNCHANGED <<end, stack, result, build>>
<1> SUFFICES ASSUME Subtracts(s), Remaining(s) >= k, Advance(s, k)
             PROVE  \/ s + k \in Words /\ Return(s + k)
                    \/ /\ build = "wrapping" /\ wrapped' = TRUE /\ op' = "loop"
                       /\ start' \in Words /\ start' <= end
                       /\ UNCHANGED <<end, stack, result, build>>
  BY DEF Skip
<1>1. /\ s \in Nat /\ k \in Nat /\ end \in Nat /\ Word \in Nat
      /\ s < Word /\ k < Word /\ end < Word
  BY ReaderAssumption DEF IInv, TypeOK, Words
<1>2. CASE s + k < Word
  <2>1. s + k \in Words
    BY <1>1, <1>2 DEF Words
  <2>2. Wrap(s + k) = s + k /\ ~(s + k >= Word)
    BY <1>1, <1>2 DEF Wrap
  <2>3. wrapped' = wrapped
    BY <2>2 DEF Advance, IInv, TypeOK
  <2> QED BY <2>1, <2>2, <2>3 DEF Advance, Return
<1>3. CASE s + k >= Word
  <2>1. Wrap(s + k) = s + k - Word
    BY <1>1, <1>3 DEF Wrap
  <2>2. end < s
    <3> SUFFICES ASSUME end >= s PROVE FALSE
      BY <1>1
    <3>1. Remaining(s) = end - s
      BY <1>1 DEF Remaining, Wrap
    <3> QED BY <1>1, <1>3, <3>1
  <2>3. Remaining(s) = end - s + Word
    BY <1>1, <2>2 DEF Remaining, Wrap
  <2>4. s + k - Word \in Words /\ s + k - Word <= end
    BY <1>1, <1>3, <2>3 DEF Words
  <2>5. build = "wrapping"
    BY <1>1, <2>2 DEF Subtracts, Underflow
  <2>6. wrapped' = TRUE
    BY <1>3 DEF Advance
  <2>7. op' = "loop" /\ start' = s + k - Word /\ UNCHANGED <<end, stack, result, build>>
    BY <2>1 DEF Advance
  <2> QED BY <2>4, <2>5, <2>6, <2>7
<1>4. s + k < Word \/ s + k >= Word
  BY <1>1
<1> QED BY <1>2, <1>3, <1>4

\* read_message_by_len is the first call on its reader.
LEMMA FirstIsAtZero ==
  ASSUME IInv, result = "none", Top.kind = "read_message_by_len"
  PROVE  start = 0
<1>1. Top.kind \in Entries
  BY DEF Entries
<1>2. Len(stack) = 1
  BY <1>1, CallerAtBase, NatFacts DEF IInv, Top
<1> QED BY <1>2 DEF IInv, AtFirstByte, Top

LEMMA StepIInv == IInv /\ [Next]_vars => IInv'
<1> SUFFICES ASSUME IInv, [Next]_vars PROVE IInv'
  OBVIOUS
<1> USE ReaderAssumption
<1>0. /\ start \in Nat /\ end \in Nat /\ start \in Words /\ start >= start
      /\ \A s \in VarintEnds : s \in Nat /\ s >= start + 1 /\ s <= N /\ s >= start
  BY VarintEndsType, WordsAreNats DEF IInv, TypeOK
<1>a. \A s \in VarintEnds : s \in Words /\ \A len \in Lens : s + len \in Words
  BY <1>0, LengthsFit
<1>1. CASE NextTag
  BY <1>0, <1>a, <1>1, ForwardKeeps DEF NextTag, At, Ops, Beyond, GeneratedLoop
<1>2. CASE ReadVarint
  <2>1. PICK s \in VarintEnds : Return(s)
    BY <1>2 DEF ReadVarint
  <2> QED BY <1>0, <1>a, <1>2, <2>1, ReturnKeeps DEF ReadVarint, Expect, At, Beyond
<1>3. CASE ReadFixed
  <2>1. result = "none" /\ Beyond
    BY <1>3 DEF ReadFixed, Expect, Beyond
  <2>2. PICK len \in FixedSizes :
           \/ start + len <= N /\ Return(start + len)
           \/ Fail("UnexpectedEndOfBuffer", start)
    BY <1>3 DEF ReadFixed
  <2>3. start + len >= start /\ (start + len <= N => start + len \in Words)
    BY <1>0, <2>2 DEF Words
  <2> QED BY <1>0, <2>1, <2>2, <2>3, ReturnKeeps, FailKeeps DEF Errors
<1>4. CASE ReadBytes
  <2>1. result = "none" /\ Beyond
    BY <1>4 DEF ReadBytes, Expect, Beyond
  <2>2. PICK s \in VarintEnds, len \in Lens :
          \/ Return(s + len)
          \/ /\ start' = s
             /\ end' = s + len
             /\ result' = IF s + len > N THEN "UnexpectedEndOfBuffer" ELSE "Utf8"
             /\ UNCHANGED <<stack, op, build, wrapped>>
    BY <1>4 DEF ReadBytes
  <2>3. s + len \in Words /\ s + len >= start /\ s \in Words /\ s >= start + 1 /\ s \in Nat
    BY <1>0, <1>a, <2>2
  <2>4. CASE Return(s + len)
    BY <2>1, <2>3, <2>4, ReturnKeeps
  <2>5. CASE /\ start' = s
             /\ end' = s + len
             /\ result' = IF s + len > N THEN "UnexpectedEndOfBuffer" ELSE "Utf8"
             /\ UNCHANGED <<stack, op, build, wrapped>>
    <3>1. TypeOK'
      BY <1>0, <2>3, <2>5 DEF IInv, TypeOK, Results, Errors
    <3>2. CallersEnd' /\ OkAtBase'
      BY <2>5 DEF CallersEnd, OkAtBase
    <3>3. Paid'
      <4>1. Unpaid(stack[1].kind) \in Nat
        BY DEF Unpaid
      <4> QED BY <1>0, <2>3, <2>5, <4>1 DEF IInv, TypeOK, Paid, Covered
    <3>4. AtFirstByte' /\ WrapsUnchecked'
      BY <2>5 DEF IInv, AtFirstByte, WrapsUnchecked
    <3> QED BY <3>1, <3>2, <3>3, <3>4 DEF IInv
  <2> QED BY <2>2, <2>4, <2>5
<1>5. CASE ReadPacked
  <2>1. PICK s \in VarintEnds, len \in Lens : Open("packed", s, len)
    BY <1>5 DEF ReadPacked
  <2> QED BY <1>0, <1>a, <1>5, <2>1, OpenKeeps DEF ReadPacked, Expect
<1>6. CASE ReadPackedFixed
  <2>1. result = "none" /\ Beyond
    BY <1>6 DEF ReadPackedFixed, Expect, Beyond
  <2>2. PICK s \in VarintEnds, len \in Lens :
          \/ Return(s + len)
          \/ \E e \in {"PanicLenUnderflow", "UnexpectedEndOfBuffer", "PanicSlice"} :
               Fail(e, s)
    BY <1>6 DEF ReadPackedFixed
  <2>3. s + len \in Words /\ s + len >= start /\ s \in Words /\ s >= start
    BY <1>0, <1>a, <2>2
  <2>4. {"PanicLenUnderflow", "UnexpectedEndOfBuffer", "PanicSlice"} \subseteq Errors \cup Panics
    BY DEF Errors, Panics
  <2> QED BY <2>1, <2>2, <2>3, <2>4, ReturnKeeps, FailKeeps
<1>7. CASE ReadMessage
  <2>1. CASE CallsReadMessage /\ \E s \in VarintEnds, len \in Lens : Open("message", s, len)
    <3>1. PICK s \in VarintEnds, len \in Lens : Open("message", s, len)
      BY <2>1
    <3>2. result = "none" /\ (op # "loop" \/ Top.kind \in {"read_message", "stream"})
      BY <2>1 DEF CallsReadMessage, Expect, At
    <3> QED BY <1>0, <1>a, <3>1, <3>2, OpenKeeps
  <2>2. CASE At({"read_message_by_len"}) /\ \E len \in Lens : Open("message", start, len)
    <3>1. PICK len \in Lens : Open("message", start, len)
      BY <2>2
    <3>2. result = "none" /\ Top.kind = "read_message_by_len"
      BY <2>2 DEF At
    <3>3. start + len \in Words
      BY <2>2, FirstIsAtZero, LengthsFit, ReaderAssumption DEF At
    <3> QED BY <1>0, <3>1, <3>2, <3>3, OpenKeeps
  <2> QED BY <1>7, <2>1, <2>2 DEF ReadMessage
<1>8. CASE ReadUnitMessage
  <2>1. /\ start' \in Words /\ start' \in Nat /\ start' >= start
        /\ op # "loop" => start' >= start + 1
    <3>1. PICK len \in Lens :
            \/ CallsReadMessage /\ \E s \in VarintEnds : start' = s + len
            \/ At({"read_message_by_len"}) /\ start' = start + len
      BY <1>8 DEF ReadUnitMessage
    <3>2. CASE CallsReadMessage /\ \E s \in VarintEnds : start' = s + len
      BY <1>0, <1>a, <3>1, <3>2
    <3>3. CASE At({"read_message_by_len"}) /\ start' = start + len
      <4>1. start = 0
        BY <3>3, FirstIsAtZero DEF At
      <4>2. 0 + len \in Words
        BY <3>1, LengthsFit, ReaderAssumption
      <4> QED BY <1>0, <3>1, <3>3, <4>1, <4>2 DEF At
    <3> QED BY <3>1, <3>2, <3>3
  <2>2. result = "none" /\ op' = "loop" /\ UNCHANGED <<end, stack, build, wrapped>>
    BY <1>8 DEF ReadUnitMessage, CallsReadMessage, Expect, At
  <2>3. result' = IF Top.kind \in OneShot THEN "ok" ELSE "none"
    BY <1>8 DEF ReadUnitMessage
  <2>4. TypeOK'
    BY <2>1, <2>2, <2>3 DEF IInv, TypeOK, Ops, Results
  <2>5. CallersEnd'
    BY <2>2 DEF IInv, CallersEnd, EndOf
  <2>6. OkAtBase'
    <3> SUFFICES ASSUME Top.kind \in OneShot
                 PROVE  Len(stack) = 1 /\ stack[1].kind \notin Looping
      BY <2>2, <2>3 DEF OkAtBase
    <3>1. Top.kind \in Entries
      BY DEF OneShot, Entries
    <3>2. Len(stack) = 1
      BY <3>1, CallerAtBase, NatFacts DEF IInv, Top
    <3> QED BY <3>2 DEF Top, OneShot, Looping, GeneratedLoop
  <2>7. Paid'
    <3>1. Unpaid(stack[1].kind) \in Nat
      BY DEF Unpaid
    <3> QED BY <1>0, <2>1, <2>2, <3>1 DEF IInv, TypeOK, Paid, Covered
  <2>8. AtFirstByte' /\ WrapsUnchecked'
    <3>1. CASE Top.kind \in OneShot
      BY <2>2, <2>3, <3>1 DEF IInv, AtFirstByte, WrapsUnchecked
    <3>2. CASE Top.kind \notin OneShot
      <4>1. Beyond
        BY <3>2 DEF Beyond, OneShot
      <4> QED BY <2>2, <4>1, BeyondFirst DEF IInv, AtFirstByte, WrapsUnchecked
    <3> QED BY <3>1, <3>2
  <2> QED BY <2>4, <2>5, <2>6, <2>7, <2>8 DEF IInv
<1>9. CASE ReadMap
  <2>1. PICK s \in VarintEnds, len \in Lens : Open("map", s, len)
    BY <1>9 DEF ReadMap
  <2> QED BY <1>0, <1>a, <1>9, <2>1, OpenKeeps DEF ReadMap, Expect
<1>10. CASE MapEntry
  <2>1. result = "none" /\ start + 1 >= start /\ Beyond
    BY <1>0, <1>10 DEF MapEntry, At, Beyond
  <2>a. start < N => start + 1 \in Words
    BY <1>0 DEF Words
  <2>2. CASE Fail("UnexpectedEndOfBuffer", start)
    BY <1>0, <2>2, FailKeeps DEF Errors
  <2>3. CASE start < N /\ Fail("Map", start + 1)
    BY <2>1, <2>a, <2>3, FailKeeps DEF Errors
  <2>4. CASE /\ start < N
             /\ start' = start + 1
             /\ op' \in MapOps
             /\ UNCHANGED <<end, stack, result, build, wrapped>>
    <3>1. start' \in Words /\ start' >= start + 1 /\ op' \in Ops
      BY <1>0, <2>a, <2>4 DEF Ops, FieldOps
    <3> QED BY <2>1, <2>4, <3>1, ForwardKeeps
  <2> QED BY <1>10, <2>2, <2>3, <2>4 DEF MapEntry
<1>11. CASE ReadUnknown
  <2>1. result = "none" /\ op = "unknown" /\ Beyond
    BY <1>11 DEF ReadUnknown, Expect, Beyond
  <2>2. ASSUME NEW s \in Words, s >= start, NEW k \in Words, Skip(s, k)
        PROVE  IInv'
    <3>1. s \in Nat /\ k \in Nat /\ s + k >= start
      BY <1>0, <2>2, WordsAreNats
    <3>2. {"PanicUnknownUnderflow", "Varint"} \subseteq Errors \cup Panics
      BY DEF Errors, Panics
    <3>3. CASE s + k \in Words /\ Return(s + k)
      BY <2>1, <3>1, <3>3, ReturnKeeps
    <3>4. CASE \E e \in {"PanicUnknownUnderflow", "Varint"} : Fail(e, s)
      BY <2>2, <3>2, <3>4, FailKeeps
    <3>5. CASE /\ build = "wrapping" /\ wrapped' = TRUE /\ op' = "loop"
               /\ start' \in Words /\ start' <= end
               /\ UNCHANGED <<end, stack, result, build>>
      BY <2>1, <3>5, WrappingKeeps
    <3> QED BY <2>2, <3>3, <3>4, <3>5, SkipShape
  <2>3. CASE \E s \in VarintEnds : Return(s)
    BY <1>0, <1>a, <2>1, <2>3, ReturnKeeps
  <2>4. CASE \E len \in FixedSizes : Skip(start, len)
    BY <1>0, <2>2, <2>4 DEF Words
  <2>5. CASE \E s \in VarintEnds, offset \in Offsets : Skip(s, offset)
    BY <1>0, <1>a, <2>2, <2>5 DEF Words
  <2>6. CASE Fail("Deprecated", start) \/ Fail("UnknownWireType", start)
    BY <1>0, <2>6, FailKeeps DEF Errors
  <2> QED BY <1>11, <2>3, <2>4, <2>5, <2>6 DEF ReadUnknown
<1>12. CASE VarintError
  <2>1. CASE start + VarintMax <= N
    <3>1. Fail("Varint", start + VarintMax)
      BY <1>12, <2>1 DEF VarintError
    <3>2. start + VarintMax \in Words /\ start + VarintMax >= start
      BY <1>0, <2>1 DEF Words
    <3> QED BY <3>1, <3>2, FailKeeps DEF Errors
  <2>2. CASE ~(start + VarintMax <= N)
    <3> DEFINE s == IF start < N THEN N ELSE start
    <3>1. s \in Words /\ s >= start /\ Fail("UnexpectedEndOfBuffer", s)
      BY <1>0, <1>12, <2>2 DEF VarintError, Words
    <3> HIDE DEF s
    <3> QED BY <3>1, FailKeeps DEF Errors
  <2> QED BY <2>1, <2>2
<1>13. CASE CloseChunk
  BY <1>13, CloseKeeps
<1>14. CASE Finish
  <2>1. /\ result = "none" /\ op = "loop" /\ start = end /\ result' = "ok"
        /\ Top.kind \in {"from_reader", "stream"}
        /\ UNCHANGED <<start, end, stack, op, build, wrapped>>
    BY <1>14 DEF Finish, At, IsEof
  <2>2. Len(stack) = 1
    <3>1. Top.kind \in Entries
      BY <2>1 DEF Entries
    <3> QED BY <3>1, CallerAtBase, NatFacts DEF IInv, Top
  <2>3. TypeOK'
    BY <2>1 DEF IInv, TypeOK, Results
  <2>4. CallersEnd' /\ OkAtBase'
    BY <2>1, <2>2 DEF IInv, CallersEnd, OkAtBase, EndOf
  <2>5. Paid'
    BY <2>1 DEF IInv, Paid, Covered
  <2>6. AtFirstByte' /\ WrapsUnchecked'
    BY <2>1 DEF IInv, AtFirstByte, WrapsUnchecked
  <2> QED BY <2>3, <2>4, <2>5, <2>6 DEF IInv
<1>15. CASE UNCHANGED vars
  BY <1>15 DEF vars, IInv, TypeOK, CallersEnd, EndOf, OkAtBase, Paid, Covered,
                 AtFirstByte, WrapsUnchecked
<1> QED
  BY <1>1, <1>2, <1>3, <1>4, <1>5, <1>6, <1>7, <1>8, <1>9, <1>10, <1>11,
     <1>12, <1>13, <1>14, <1>15 DEF Next

----------------------------------------------------------------------------
(* The theorems. *)

\* The invariant holds in every state of every parse.
LEMMA Invariance == Spec => []IInv
<1>1. Init => IInv
  BY InitIInv
<1>2. IInv /\ [Next]_vars => IInv'
  BY StepIInv
<1> QED BY <1>1, <1>2, PTL DEF Spec

\* The reader's variables keep their types, and the caller's read stays at the
\* bottom of the stack; no sum but that of a skip goes past the largest usize
\* (reader.rs, BytesReader).
THEOREM TypeCorrect == Spec => []TypeOK
<1>1. IInv => TypeOK
  BY DEF IInv
<1> QED BY <1>1, Invariance, PTL

\* In a build with overflow checks no skip wraps, so that what the properties
\* say of parses without such a skip holds there of all (read_unknown).
THEOREM CheckedBuildsDoNotWrap == Spec => [](build = "checked" => ~wrapped)
<1>1. IInv => (build = "checked" => ~wrapped)
  BY DEF IInv, WrapsUnchecked
<1> QED BY <1>1, Invariance, PTL

\* As long as no skip has wrapped, the recursion of nested reads is no deeper
\* than half of the bytes read, for every buffer and every declared length
\* (read_len).
THEOREM DepthIsBounded == Spec => []DepthBound
<1>1. IInv => DepthBound
  <2> SUFFICES ASSUME IInv PROVE DepthBound
    OBVIOUS
  <2>1. Unpaid(stack[1].kind) \in Nat
    BY DEF Unpaid
  <2>2. start \in Nat
    BY WordsAreNats DEF IInv, TypeOK
  <2> QED BY <2>1, <2>2 DEF IInv, TypeOK, Paid, Covered, DepthBound
<1> QED BY <1>1, Invariance, PTL

\* Ok means that every `end` was put back and that a looping caller's buffer
\* was read to its last byte (from_reader, the stream loop).
THEOREM OkMeansAllConsumed == Spec => []OkConsumesAll
<1>1. IInv => OkConsumesAll
  BY DEF IInv, TypeOK, CallersEnd, OkAtBase, OkConsumesAll, EndOf
<1> QED BY <1>1, Invariance, PTL

\* A parse that cannot return Ok any more unless a skip wraps: it has gone past
\* an end that a loop waits for, or it has failed.
Doomed ==
  \/ wrapped
  \/ result = "none" /\ Overrun
  \/ result \notin {"none", "ok"}

LEMMA OverrunDooms == IInv /\ Overrun => Doomed
<1> SUFFICES ASSUME IInv, Overrun, result = "ok" PROVE FALSE
  BY DEF Doomed
<1>1. PICK i \in 1..Len(stack) : stack[i].kind \in Looping /\ start > EndOf(i)
  BY DEF Overrun
<1>2. Len(stack) = 1 /\ i = 1
  <2>1. Len(stack) = 1
    BY DEF IInv, OkAtBase
  <2> QED BY <2>1
<1>3. start = end
  BY <1>1, <1>2 DEF IInv, OkAtBase
<1>4. start \in Nat /\ EndOf(i) = end
  BY <1>2, WordsAreNats DEF EndOf, IInv, TypeOK
<1> QED BY <1>1, <1>3, <1>4

\* No step that moves the cursor forward and keeps the open chunks helps.
LEMMA OverrunStays ==
  ASSUME IInv, Overrun, start' \in Nat, start' >= start, UNCHANGED <<end, stack>>
  PROVE  Overrun'
<1>1. PICK i \in 1..Len(stack) : stack[i].kind \in Looping /\ start > EndOf(i)
  BY DEF Overrun
<1>2. EndOf(i)' = EndOf(i)
  BY DEF EndOf
<1>3. EndOf(i) \in Nat
  <2>1. CASE i = Len(stack)
    BY <2>1, WordsAreNats DEF EndOf, IInv, TypeOK
  <2>2. CASE i # Len(stack)
    <3>1. i + 1 \in 1..Len(stack)
      BY <2>2 DEF IInv, TypeOK
    <3>2. stack[i + 1] \in Frame
      BY <3>1, NatFacts DEF IInv
    <3> QED BY <2>2, <3>2, WordsAreNats DEF EndOf, Frame
  <2> QED BY <2>1, <2>2
<1>4. start' > EndOf(i)'
  BY <1>1, <1>2, <1>3, WordsAreNats DEF IInv, TypeOK
<1> QED BY <1>1, <1>4 DEF Overrun

\* The shape of a step: the cursor goes forward among the same chunks, the
\* read fails, a chunk opens or closes, the caller's read returns, or a skip
\* wraps.
Forward == start' \in Nat /\ start' >= start /\ UNCHANGED <<end, stack>> /\ result' = "none"
Failing == start' \in Nat /\ start' >= start /\ result' \in Errors \cup Panics
Opening ==
  \E kind \in {"message", "packed", "map"}, s \in Nat, len \in Nat :
    s >= start /\ Push(kind, s, len)
Returning ==
  /\ start' \in Nat /\ start' >= start
  /\ Top.kind \in OneShot \/ (Top.kind \in Entries /\ IsEof)
  /\ UNCHANGED <<end, stack>>
Wrapping == op = "unknown" /\ build = "wrapping" /\ wrapped' = TRUE /\ start' <= end

\* History does not forget.
LEMMA WrappedStays == wrapped /\ Next => wrapped'
  BY DEF Next, NextTag, ReadVarint, ReadFixed, ReadBytes, ReadPacked, ReadPackedFixed,
         ReadMessage, ReadUnitMessage, ReadMap, MapEntry, ReadUnknown, VarintError,
         CloseChunk, Finish, Return, Fail, Open, Push, Skip, Advance

LEMMA StepShape ==
  ASSUME IInv, Next
  PROVE  /\ result = "none"
         /\ Forward \/ Failing \/ Opening \/ CloseChunk \/ Returning \/ Wrapping
<1> USE ReaderAssumption
<1>0. /\ start \in Nat /\ end \in Nat
      /\ \A s \in VarintEnds : s \in Nat /\ s \in Words /\ s >= start + 1
  BY VarintEndsType, WordsAreNats, LengthsFit DEF IInv, TypeOK
<1>c. ASSUME NEW kind \in {"message", "packed", "map"}, NEW s \in Nat, NEW len \in Nat,
             s >= start, Open(kind, s, len)
      PROVE  Opening \/ Failing
  BY <1>c DEF Open, Opening, Fail, Failing, Panics
<1>a. ASSUME result = "none", NEW s \in Nat, s >= start, Return(s) PROVE Forward
  BY <1>a DEF Return, Forward
<1>b. ASSUME NEW s \in Nat, s >= start, NEW e \in Errors \cup Panics, Fail(e, s)
      PROVE  Failing
  BY <1>b DEF Fail, Failing
<1>1. CASE NextTag
  BY <1>0, <1>1 DEF NextTag, At, Forward
<1>2. CASE ReadVarint
  BY <1>0, <1>2, <1>a DEF ReadVarint, Expect, At
<1>3. CASE ReadFixed
  <2>1. PICK len \in FixedSizes :
           Return(start + len) \/ Fail("UnexpectedEndOfBuffer", start)
    BY <1>3 DEF ReadFixed
  <2>2. start + len \in Nat /\ start + len >= start /\ start >= start
    BY <1>0, <2>1
  <2> QED BY <1>0, <1>3, <1>a, <1>b, <2>1, <2>2 DEF ReadFixed, Expect, Errors
<1>4. CASE ReadBytes
  <2>1. PICK s \in VarintEnds, len \in Lens :
          \/ Return(s + len)
          \/ start' = s /\ result' \in {"UnexpectedEndOfBuffer", "Utf8"}
    BY <1>4 DEF ReadBytes
  <2>2. s + len \in Nat /\ s + len >= start /\ s \in Nat /\ s >= start
    BY <1>0, <2>1
  <2>3. CASE Return(s + len)
    BY <1>4, <1>a, <2>2, <2>3 DEF ReadBytes, Expect
  <2>4. CASE start' = s /\ result' \in {"UnexpectedEndOfBuffer", "Utf8"}
    BY <1>4, <2>2, <2>4 DEF ReadBytes, Expect, Failing, Errors
  <2> QED BY <2>1, <2>3, <2>4
<1>5. CASE ReadPacked \/ ReadMap
  <2>1. result = "none"
    BY <1>5 DEF ReadPacked, ReadMap, Expect
  <2>2. PICK s \in VarintEnds, len \in Lens, kind \in {"packed", "map"} : Open(kind, s, len)
    BY <1>5 DEF ReadPacked, ReadMap
  <2>3. s \in Nat /\ s >= start /\ len \in Nat
    BY <1>0, <2>2
  <2> QED BY <1>c, <2>1, <2>2, <2>3
<1>6. CASE ReadPackedFixed
  <2>1. PICK s \in VarintEnds, len \in Lens :
          \/ Return(s + len)
          \/ \E e \in {"PanicLenUnderflow", "UnexpectedEndOfBuffer", "PanicSlice"} :
               Fail(e, s)
    BY <1>6 DEF ReadPackedFixed
  <2>2. s + len \in Nat /\ s + len >= start /\ s \in Nat /\ s >= start
    BY <1>0, <2>1
  <2>3. {"PanicLenUnderflow", "UnexpectedEndOfBuffer", "PanicSlice"} \subseteq Errors \cup Panics
    BY DEF Errors, Panics
  <2> QED BY <1>6, <1>a, <1>b, <2>1, <2>2, <2>3 DEF ReadPackedFixed, Expect
<1>7. CASE ReadMessage
  <2>1. result = "none"
    BY <1>7 DEF ReadMessage, CallsReadMessage, Expect, At
  <2>2. PICK s \in VarintEnds \cup {start}, len \in Lens : Open("message", s, len)
    BY <1>7 DEF ReadMessage
  <2>3. s \in Nat /\ s >= start /\ len \in Nat
    BY <1>0, <2>2
  <2> QED BY <1>c, <2>1, <2>2, <2>3
<1>8. CASE ReadUnitMessage
  <2>1. result = "none" /\ UNCHANGED <<end, stack>>
    BY <1>8 DEF ReadUnitMessage, CallsReadMessage, Expect, At
  <2>2. PICK len \in Lens, s \in VarintEnds \cup {start} : start' = s + len
    BY <1>8 DEF ReadUnitMessage
  <2>3. start' \in Nat /\ start' >= start
    BY <1>0, <2>2
  <2>4. Top.kind \in OneShot \/ result' = "none"
    BY <1>8 DEF ReadUnitMessage
  <2> QED BY <2>1, <2>3, <2>4 DEF Returning, Forward
<1>9. CASE MapEntry
  <2>1. start + 1 \in Nat /\ start + 1 >= start /\ start >= start
    BY <1>0
  <2> QED BY <1>0, <1>9, <1>b, <2>1 DEF MapEntry, At, Errors, Forward
<1>10. CASE ReadUnknown
  <2>1. result = "none" /\ op = "unknown"
    BY <1>10 DEF ReadUnknown, Expect
  <2>2. ASSUME NEW s \in Words, s >= start, NEW k \in Words, Skip(s, k)
        PROVE  Forward \/ Failing \/ Wrapping
    <3>1. s \in Nat /\ k \in Nat /\ s + k \in Nat /\ s + k >= start
      BY <1>0, <2>2, WordsAreNats
    <3>2. {"PanicUnknownUnderflow", "Varint"} \subseteq Errors \cup Panics
      BY DEF Errors, Panics
    <3> QED BY <1>a, <1>b, <2>1, <2>2, <3>1, <3>2, SkipShape DEF Wrapping
  <2>3. CASE \E s \in VarintEnds : Return(s)
    BY <1>0, <1>a, <2>1, <2>3
  <2>4. CASE \E s \in VarintEnds \cup {start}, k \in Words : Skip(s, k)
    BY <1>0, <2>1, <2>2, <2>4 DEF IInv, TypeOK
  <2>w. FixedSizes \subseteq Words
    BY DEF Words
  <2>5. CASE Fail("Deprecated", start) \/ Fail("UnknownWireType", start)
    BY <1>0, <1>b, <2>1, <2>5 DEF Errors
  <2> QED BY <1>10, <2>3, <2>4, <2>w, <2>5 DEF ReadUnknown, Words
<1>11. CASE VarintError
  <2>1. PICK e \in {"Varint", "UnexpectedEndOfBuffer"}, s \in {start + VarintMax, N, start} :
           s >= start /\ Fail(e, s)
    BY <1>0, <1>11 DEF VarintError
  <2>2. s \in Nat /\ e \in Errors
    BY <1>0, <2>1 DEF Errors
  <2> QED BY <1>11, <1>b, <2>1, <2>2 DEF VarintError, BeginsWithVarint, At
<1>12. CASE CloseChunk
  BY <1>12 DEF CloseChunk, At
<1>13. CASE Finish
  BY <1>0, <1>13 DEF Finish, At, Returning, Entries
<1> QED
  BY <1>1, <1>2, <1>3, <1>4, <1>5, <1>6, <1>7, <1>8, <1>9, <1>10, <1>11,
     <1>12, <1>13 DEF Next

\* The cursor of the reader moves back in a skip that wraps, and nowhere else:
\* not by read_len's assignments to it, and never in a build with overflow
\* checks (read_unknown).
THEOREM OnlyWrappingMovesBack == Spec => MovesBackOnlyByWrapping
<1> DEFINE Back == op = "unknown" /\ build = "wrapping" /\ wrapped' /\ start' <= end
<1>1. IInv /\ [Next]_vars => [start' < start => Back]_vars
  <2> SUFFICES ASSUME IInv, Next, start' < start PROVE Back
    OBVIOUS
  <2>1. start \in Nat /\ start' \in Nat /\ ~(start' >= start)
    <3>1. IInv'
      BY StepIInv
    <3>2. start \in Words /\ start' \in Words
      BY <3>1 DEF IInv, TypeOK
    <3> QED BY <3>2, WordsAreNats
  <2>2. CASE Opening
    BY <2>1, <2>2 DEF Opening, Push
  <2>3. CASE CloseChunk
    BY <2>1, <2>3 DEF CloseChunk, IsEof
  <2>4. CASE Forward \/ Failing \/ Returning
    BY <2>1, <2>4 DEF Forward, Failing, Returning
  <2>5. CASE Wrapping
    BY <2>5 DEF Wrapping
  <2> QED BY <2>2, <2>3, <2>4, <2>5, StepShape
<1> QED BY <1>1, Invariance, PTL DEF Spec, MovesBackOnlyByWrapping

\* Opening a chunk leaves the ends of the chunks around it where they are.
LEMMA OpeningStays ==
  ASSUME IInv, Overrun, Opening
  PROVE  Overrun'
<1>1. PICK kind \in {"message", "packed", "map"}, s \in Nat, len \in Nat :
         s >= start /\ Push(kind, s, len)
  BY DEF Opening
<1> DEFINE f == [kind |-> kind, saved |-> end]
           d == Len(stack)
<1>2. f \in Frame /\ f.saved = end
  BY DEF Frame, Kinds, IInv, TypeOK
<1>3. /\ Len(stack') = d + 1 /\ d \in Nat
      /\ \A i \in 1..d : stack'[i] = stack[i]
      /\ stack'[d + 1] = f
  BY <1>1, <1>2, PushProps DEF Push, IInv, TypeOK
<1>4. PICK i \in 1..d : stack[i].kind \in Looping /\ start > EndOf(i)
  BY DEF Overrun
<1>5. i # d + 1 /\ i \in 1..(d + 1) /\ (i # d => i + 1 \in 1..d)
  BY <1>3
<1>6. EndOf(i)' = EndOf(i)
  <2>1. CASE i = d
    BY <1>2, <1>3, <1>5, <2>1 DEF EndOf
  <2>2. CASE i # d
    BY <1>3, <1>5, <2>2 DEF EndOf
  <2> QED BY <2>1, <2>2
<1>7. EndOf(i) \in Nat
  <2>1. CASE i = d
    BY <2>1, WordsAreNats DEF EndOf, IInv, TypeOK
  <2>2. CASE i # d
    <3>1. stack[i + 1] \in Frame
      BY <1>5, <2>2, NatFacts DEF IInv
    <3> QED BY <2>2, <3>1, WordsAreNats DEF EndOf, Frame
  <2> QED BY <2>1, <2>2
<1>8. start' > EndOf(i)'
  BY <1>1, <1>4, <1>6, <1>7, WordsAreNats DEF IInv, TypeOK, Push
<1>9. stack'[i].kind \in Looping
  BY <1>3, <1>4
<1> QED BY <1>3, <1>5, <1>8, <1>9 DEF Overrun

\* The chunk that closes is not the one that was overrun, for its loop has met
\* its end exactly; and the one that was is still open.
LEMMA ClosingStays ==
  ASSUME IInv, Overrun, CloseChunk
  PROVE  Overrun' /\ result' # "ok"
<1> DEFINE d == Len(stack)
<1>1. /\ d \in Nat /\ d >= 1
      /\ stack \in Seq(Frame)
      /\ start = end /\ start' = end /\ end' = stack[d].saved
      /\ end \in Nat
  BY WordsAreNats DEF CloseChunk, IsEof, Top, IInv, TypeOK
<1>2. PICK i \in 1..d : stack[i].kind \in Looping /\ start > EndOf(i)
  BY DEF Overrun
<1>3. i # d
  BY <1>1, <1>2 DEF EndOf
<1>4. i \in 1..(d - 1) /\ d - 1 \in 1..d /\ (i # d - 1 => i + 1 \in 1..(d - 1))
  BY <1>1, <1>3
<1>5. /\ Len(stack') = d - 1
      /\ \A j \in 1..(d - 1) : stack'[j] = stack[j]
  BY PopProps DEF CloseChunk, Pop, IInv, TypeOK
<1>6. EndOf(i)' = EndOf(i)
  <2>1. CASE i = d - 1
    <3>1. i + 1 = d
      BY <1>1, <2>1
    <3> QED BY <1>1, <1>3, <1>5, <2>1, <3>1 DEF EndOf
  <2>2. CASE i # d - 1
    BY <1>3, <1>4, <1>5, <2>2 DEF EndOf
  <2> QED BY <2>1, <2>2
<1>7. start' > EndOf(i)'
  BY <1>1, <1>2, <1>6
<1>8. stack'[i].kind \in Looping
  BY <1>2, <1>4, <1>5
<1>9. Overrun'
  BY <1>4, <1>5, <1>7, <1>8 DEF Overrun
<1>10. result' # "ok"
  <2> SUFFICES ASSUME result' = "ok" PROVE FALSE
    OBVIOUS
  <2>1. stack[d - 1].kind \in OneShot
    BY DEF CloseChunk
  <2>2. d - 1 = 1
    <3>1. stack[d - 1].kind \in Entries
      BY <2>1 DEF OneShot, Entries
    <3> QED BY <1>4, <3>1, CallerAtBase DEF IInv
  <2>3. i = d - 1
    <3> HIDE DEF d
    <3> QED BY <1>4, <2>2
  <2> QED BY <1>2, <2>1, <2>3 DEF OneShot, Looping, GeneratedLoop
<1> QED BY <1>9, <1>10

\* The caller's read does not return with a chunk overrun.
LEMMA ReturningNotOverrun ==
  ASSUME IInv, Overrun, Returning
  PROVE  FALSE
<1> DEFINE d == Len(stack)
<1>1. PICK i \in 1..d : stack[i].kind \in Looping /\ start > EndOf(i)
  BY DEF Overrun
<1>2. d = 1
  <2>1. Top.kind \in Entries
    BY DEF Returning, OneShot, Entries
  <2> QED BY <2>1, CallerAtBase, NatFacts DEF IInv, Top
<1>3. i = 1
  BY <1>2
<1>4. Top.kind \notin OneShot
  BY <1>1, <1>2, <1>3 DEF Top, OneShot, Looping, GeneratedLoop
<1>5. start = end
  BY <1>4 DEF Returning, IsEof
<1> QED BY <1>1, <1>2, <1>3, <1>5, WordsAreNats DEF EndOf, IInv, TypeOK

LEMMA DoomedStays == IInv /\ Doomed /\ [Next]_vars => Doomed'
<1> SUFFICES ASSUME IInv, Doomed, Next PROVE Doomed'
  BY DEF Doomed, Overrun, EndOf, vars
<1>0. CASE wrapped
  BY <1>0, WrappedStays DEF Doomed
<1> SUFFICES ASSUME ~wrapped PROVE Doomed'
  BY <1>0
<1>1. result = "none" /\ Overrun
  BY StepShape DEF Doomed
<1>2. CASE Forward
  BY <1>1, <1>2, OverrunStays DEF Forward, Doomed
<1>3. CASE Failing
  BY <1>3 DEF Failing, Errors, Panics, Doomed
<1>4. CASE Opening
  <2>1. result' = result
    BY <1>4 DEF Opening, Push
  <2> QED BY <1>1, <1>4, <2>1, OpeningStays DEF Doomed
<1>5. CASE CloseChunk
  <2>1. result' \in {"ok", "none"}
    BY <1>5 DEF CloseChunk
  <2> QED BY <1>1, <1>5, <2>1, ClosingStays DEF Doomed
<1>6. CASE Returning
  BY <1>1, <1>6, ReturningNotOverrun
<1>7. CASE Wrapping
  BY <1>7 DEF Wrapping, Doomed
<1> QED BY <1>2, <1>3, <1>4, <1>5, <1>6, <1>7, StepShape

\* A field or a message that runs past the end of any message around it is
\* fatal: read_len checks no length, and yet no such parse returns Ok unless a
\* skip has wrapped, which it never does in a build with overflow checks.
THEOREM OverrunNeverReturnsOk == Spec => OverrunIsFatal
<1>1. IInv /\ Overrun => Doomed
  BY OverrunDooms
<1>2. IInv /\ Doomed /\ [Next]_vars => Doomed'
  BY DoomedStays
<1>3. Doomed => wrapped \/ result # "ok"
  BY DEF Doomed
<1> QED BY <1>1, <1>2, <1>3, Invariance, PTL DEF Spec, OverrunIsFatal

=============================================================================

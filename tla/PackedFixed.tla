---------------------------- MODULE PackedFixed ----------------------------
(***************************************************************************)
(* PackedFixed<T> (reader.rs): repeated fixed-width numbers, either as the *)
(* bytes they were read from, or as a Vec.  A number is the Width bytes it *)
(* is made of; the `wire` is the buffer of a reader or a writer.           *)
(*                                                                         *)
(* `pf` is the value, `holder` who may use it as Rust's ownership has it:  *)
(* its owner, an iterator that borrows it, an iterator that took it, or    *)
(* nobody any more.  `call` and `ret` are the last call and its result.    *)
(*                                                                         *)
(* A value made of bytes by one of the From impls has whatever number of   *)
(* them the caller's slice has; `whole` remembers that they were not the   *)
(* bytes of whole numbers (FALSE), until the value is made anew.  What the *)
(* unsafe blocks do with such bytes is undefined: `Stray` is whatever      *)
(* stands behind a slice, and a copy that overruns its allocation either   *)
(* does no harm or leaves the program "corrupt", where nothing is said of  *)
(* it any more.                                                            *)
(***************************************************************************)
EXTENDS Integers, Sequences

CONSTANTS
  Byte,       \* the values of a byte
  Width,      \* size_of::<T>()
  Vecs,       \* the Vec<T>s that callers make, and compare with
  Chunks,     \* the bytes that messages announce for the field, and that
              \* callers make values of
  Indices,    \* the indices that callers use
  Stray,      \* a byte behind the end of a slice, whatever it is
  Panic, None \* what a call that panics and one without a value return

ASSUME WidthAssumption == Width \in Nat \ {0}
ASSUME ChunksAssumption == Chunks \subseteq Seq(Byte)
ASSUME IndicesAssumption == Indices \subseteq Nat

VARIABLES pf, holder, index, call, ret, whole

vars == <<pf, holder, index, call, ret, whole>>

T == [1..Width -> Byte]

ASSUME VecsAssumption == Vecs \subseteq Seq(T)

NoDataYet == [is |-> "NoDataYet"]
Borrowed(bytes) == [is |-> "Borrowed", bytes |-> bytes]
Owned(v) == [is |-> "Owned", v |-> v]

\* The memory of a Vec: its elements, one after the other.
Memory(v) ==
  [n \in 1..(Len(v) * Width) |-> v[((n - 1) \div Width) + 1][((n - 1) % Width) + 1]]

-----------------------------------------------------------------------------
(* The methods that look.                                                  *)

len(p) ==
  CASE p.is = "Borrowed" -> Len(p.bytes) \div Width
    [] p.is = "Owned" -> Len(p.v)
    [] p.is = "NoDataYet" -> 0

is_empty(p) ==
  CASE p.is = "NoDataYet" -> TRUE
    [] p.is = "Borrowed" -> p.bytes = <<>>
    [] p.is = "Owned" -> p.v = <<>>

\* read_unaligned: the Width bytes at an offset, those behind the slice, too
Unaligned(bytes, offset) ==
  [k \in 1..Width |-> IF offset + k <= Len(bytes) THEN bytes[offset + k] ELSE Stray]

OutOfRange(bytes, offset) == offset >= Len(bytes)

at(p, i) ==
  CASE p.is = "Borrowed" ->
         IF OutOfRange(p.bytes, i * Width) THEN Panic ELSE Unaligned(p.bytes, i * Width)
    [] p.is = "Owned" -> IF i < Len(p.v) THEN p.v[i + 1] ELSE Panic
    [] p.is = "NoDataYet" -> Panic

\* Mutant: len() is taken for the number of bytes.
CopyLen(bytes, n) ==
  [i \in 1..n |-> [k \in 1..Width |->
     IF (i - 1) * Width + k <= n THEN bytes[(i - 1) * Width + k] ELSE Stray]]
\* A copy of all the bytes into a Vec of len() elements.  The bytes of a
\* partial element are copied behind the Vec's allocation.
CopyFrom(bytes, n) == [i \in 1..n |-> Unaligned(bytes, (i - 1) * Width)]
make_vec_from_unaligned_buf(p) == CopyFrom(p.bytes, len(p))

Ragged(p) == p.is = "Borrowed" /\ Len(p.bytes) % Width # 0

into_vec(p) ==
  CASE p.is = "NoDataYet" -> <<>>
    [] p.is = "Borrowed" -> make_vec_from_unaligned_buf(p)
    [] p.is = "Owned" -> p.v

own(p) ==
  CASE p.is = "NoDataYet" -> Owned(<<>>)
    [] p.is = "Borrowed" -> Owned(make_vec_from_unaligned_buf(p))
    [] p.is = "Owned" -> p

\* What an iterator at position i returns and leaves behind.
next(p, i) ==
  IF i >= len(p) THEN [item |-> None, index |-> i]
  ELSE [item |-> at(p, i), index |-> i + 1]

\* Iterator::eq: both iterators to their ends.
eq(p, q) ==
  /\ len(p) = len(q)
  /\ \A i \in 0..len(p) : next(p, i).item = next(q, i).item

-----------------------------------------------------------------------------
(* The way to the wire and back.                                           *)

ReadPackedFixedRagged(chunk) == Borrowed(chunk)  \* mutant: no floor divide
read_packed_fixed(chunk) ==
  LET n == Len(chunk) \div Width
  IN  Borrowed(SubSeq(chunk, 1, n * Width))

Dump(p) == IF p.is = "Borrowed" THEN p.bytes ELSE Memory(p.v)

\* No call at all, or one chunk behind its tag.
write_packed_fixed_with_tag(p) == IF is_empty(p) THEN <<>> ELSE << Dump(p) >>

\* The generated code: nothing on the wire leaves the Default.
Reread(wire) == IF wire = <<>> THEN NoDataYet ELSE read_packed_fixed(wire[1])

\* The length that the generated get_size puts behind the tag.
Announced(p) == len(p) * Width

-----------------------------------------------------------------------------
(* Calls.  Rust lets shared ones run beside a borrowing iterator, and the  *)
(* others only when nobody else holds the value.                           *)

Shared == holder \in {"owner", "ref_iter"}
Exclusive == holder = "owner"

Become(p) == pf' = p /\ holder' = "owner" /\ index' = 0
Answer(c, x) == call' = c /\ ret' = x
Look(c, x) == Shared /\ Answer(c, x) /\ UNCHANGED <<pf, holder, index, whole>>

Fill(p, numbers) ==
  /\ holder \in {"owner", "nobody"}
  /\ Become(p)
  /\ Answer(<<"fill", numbers>>, None)

Default == Fill(NoDataYet, <<>>) /\ whole' = TRUE
FromVec == (\E v \in Vecs : Fill(Owned(v), v)) /\ whole' = TRUE

\* The numbers that are whole in a chunk.
NumbersIn(chunk) ==
  [i \in 1..(Len(chunk) \div Width) |-> SubSeq(chunk, (i - 1) * Width + 1, i * Width)]
Receive ==
  /\ \E chunk \in Chunks : Fill(read_packed_fixed(chunk), NumbersIn(chunk))
  /\ whole' = TRUE
\* Any number of bytes, from an array, a slice or a Vec<u8>.
FromBytes == \E chunk \in Chunks :
  /\ Fill(Borrowed(chunk), NumbersIn(chunk))
  /\ whole' = (Len(chunk) % Width = 0)

Length == Look(<<"len">>, len(pf))
IsEmpty == Look(<<"is_empty">>, is_empty(pf))
At == \E i \in Indices : Look(<<"at", i>>, at(pf, i))

\* The values with the numbers of v.
Like(v) ==
  {Owned(v)} \cup { Borrowed(chunk) : chunk \in { c \in Chunks : NumbersIn(c) = v } }
             \cup { NoDataYet : e \in {v} \cap {<<>>} }
Eq == \E v \in Vecs : \E q \in Like(v) : Look(<<"eq", v>>, eq(pf, q))

Own ==
  /\ Exclusive
  /\ pf' = own(pf)
  /\ whole' = TRUE
  /\ Answer(<<"quiet">>, None)
  /\ UNCHANGED <<holder, index>>

ToSlice ==
  /\ Exclusive
  /\ pf' = own(pf)
  /\ whole' = TRUE
  /\ Answer(<<"all">>, pf'.v)
  /\ UNCHANGED <<holder, index>>

\* to_mut_slice()[i] = x
ToMutSlice == \E i \in Indices, x \in T :
  /\ Exclusive
  /\ LET v == own(pf).v
     IN  /\ pf' = Owned(IF i < Len(v) THEN [v EXCEPT ![i + 1] = x] ELSE v)
         /\ Answer(<<"assign", i, x>>, IF i < Len(v) THEN None ELSE Panic)
  /\ whole' = TRUE
  /\ UNCHANGED <<holder, index>>

IntoVec ==
  /\ Exclusive
  /\ Answer(<<"all">>, into_vec(pf))
  /\ holder' = "nobody"
  /\ UNCHANGED <<pf, index, whole>>

\* The other outcome of own(), to_slice(), to_mut_slice() and into_vec() for a
\* slice with a partial element, which is copied behind the new allocation.
CopyOverruns ==
  /\ Exclusive
  /\ Ragged(pf)
  /\ holder' = "corrupt"
  /\ Answer(<<"overrun">>, None)
  /\ UNCHANGED <<pf, index, whole>>

IntoIter ==
  /\ Exclusive
  /\ holder' \in {"ref_iter", "into_iter"}
  /\ index' = 0
  /\ Answer(<<"iter">>, None)
  /\ UNCHANGED <<pf, whole>>

Next_ ==
  /\ holder \in {"ref_iter", "into_iter"}
  /\ LET step == next(pf, index)
     IN  index' = step.index /\ Answer(<<"next">>, step.item)
  /\ UNCHANGED <<pf, holder, whole>>

DropIter ==
  /\ holder \in {"ref_iter", "into_iter"}
  /\ holder' = IF holder = "ref_iter" THEN "owner" ELSE "nobody"
  /\ index' = 0
  /\ Answer(<<"iter">>, None)
  /\ UNCHANGED <<pf, whole>>

\* The message is written, and what was written is read, without a length
\* before it (which may be short: see SizeAnnounced).
SaveAndLoad ==
  /\ Exclusive
  /\ pf' = Reread(write_packed_fixed_with_tag(pf))
  /\ whole' = TRUE
  /\ Answer(<<"quiet">>, None)
  /\ UNCHANGED <<holder, index>>

Init ==
  /\ pf = NoDataYet /\ holder = "owner" /\ index = 0 /\ whole = TRUE
  /\ call = <<"fill", <<>> >> /\ ret = None

Next ==
  \/ Default \/ FromVec \/ FromBytes \/ Receive \/ Length \/ IsEmpty \/ At \/ Eq \/ Own \/ ToSlice \/ ToMutSlice
  \/ IntoVec \/ CopyOverruns \/ IntoIter \/ Next_ \/ DropIter \/ SaveAndLoad

Spec == Init /\ [][Next]_vars

-----------------------------------------------------------------------------
Items == INSTANCE FixedItems WITH
  Element <- T, Index <- Indices, Compared <- Vecs, Panics <- Panic, Nothing <- None,
  items <- into_vec(pf), cursor <- index, call <- call, answer <- ret

\* What differs when a value was made of a slice with a partial element:
\* at(len()) reads behind the slice instead of panicking, a slice with no
\* whole number is not empty, and a copy overruns its allocation.
Astray ==
  /\ ~whole
  /\ \/ call' = <<"at", len(pf)>>
     \/ len(pf) = 0 /\ call' = <<"is_empty">>
     \/ call' = <<"overrun">>

(* Whatever the bytes of a message, and however a value came to be and is  *)
(* kept and is iterated, every call answers as it would for a plain        *)
(* sequence of numbers, and none but an assignment changes the numbers:    *)
(* not making the value its own, nor writing it and reading it back.  The  *)
(* one exception are the three calls above on a value that a From impl     *)
(* made of bytes that are not whole numbers; no chunk of a message, no Vec *)
(* and nothing that is done with a value makes such a one.                 *)
ImplementsFixedItems == Items!ItemsInit /\ [][Astray \/ Items!ItemsNext]_(Items!itemVars)

(* The length that get_size puts before the chunk, counted in elements     *)
(* (PackedFixed::len), is the number of bytes that the writer dumps, and a *)
(* field that is not written has none: exactly when the value was not made *)
(* by a From impl of bytes that are not whole numbers.  Of such a value    *)
(* get_size announces less than is written.                                *)
SizeAnnounced ==
  LET wire == write_packed_fixed_with_tag(pf)
      written == IF wire = <<>> THEN 0 ELSE Len(wire[1])
  IN  IF whole THEN Announced(pf) = written ELSE Announced(pf) < written
=============================================================================

--------------------------- MODULE NumbersProofs ---------------------------
(***************************************************************************)
(* Proofs about how numbers are put on the wire and read back: PackedFixed *)
(* for any width, any bytes and any vectors, and Codec for any number of   *)
(* bits to a byte and any widths of words and longs.                       *)
(***************************************************************************)
EXTENDS PackedFixed, Codec, FiniteSetTheorems, WellFoundedInduction, TLAPS

----------------------------------------------------------------------------
(* The inductive invariant: a value that no From impl made of other bytes  *)
(* is made of whole numbers.                                               *)

PackedFixeds ==
  {NoDataYet} \cup { Borrowed(b) : b \in Seq(Byte) } \cup { Owned(v) : v \in Seq(T) }

PackedFixedTypeOK == pf \in PackedFixeds /\ index \in Nat /\ (whole <=> ~Ragged(pf))

----------------------------------------------------------------------------
(* Facts about widths.                                                     *)

\* A number is its quotient and its rest.
LEMMA DivFacts ==
  ASSUME NEW w \in Nat \ {0}, NEW n \in Nat
  PROVE  /\ n \div w \in Nat /\ n % w \in 0..(w - 1)
         /\ n = (n \div w) * w + (n % w)
OBVIOUS

\* Quotient and rest are the only ones.
LEMMA DivUnique ==
  ASSUME NEW w \in Nat \ {0}, NEW q \in Nat, NEW r \in 0..(w - 1)
  PROVE  (q * w + r) \div w = q /\ (q * w + r) % w = r
OBVIOUS

\* The element before the n-th one ends where the n-th begins, or earlier.
LEMMA ElementsApart ==
  ASSUME NEW w \in Nat \ {0}, NEW q \in Nat, NEW n \in Nat, q < n
  PROVE  q * w \in Nat /\ n * w \in Nat /\ q * w + w <= n * w
OBVIOUS

\* What is at a multiple of the width is in the elements before iff the
\* multiple is.
LEMMA OffsetsOrdered ==
  ASSUME NEW w \in Nat \ {0}, NEW q \in Nat, NEW n \in Nat
  PROVE  q * w >= n * w <=> q >= n
OBVIOUS

\* A number of a Vec has Width bytes.
LEMMA WidthType == Width \in Nat \ {0}
BY WidthAssumption

----------------------------------------------------------------------------
(* Facts about the representations.                                        *)

\* A slice has a whole number of elements, and less than one more.
LEMMA BytesLength ==
  ASSUME NEW b \in Seq(Byte)
  PROVE  /\ Len(b) \in Nat /\ Len(b) \div Width \in Nat
         /\ (Len(b) \div Width) * Width \in Nat
         /\ Len(b) % Width \in 0..(Width - 1)
         /\ Len(b) = (Len(b) \div Width) * Width + (Len(b) % Width)
<1>1. Len(b) \in Nat
  OBVIOUS
<1>2. /\ Len(b) \div Width \in Nat /\ Len(b) % Width \in 0..(Width - 1)
      /\ Len(b) = (Len(b) \div Width) * Width + (Len(b) % Width)
  BY <1>1, DivFacts, WidthType
<1>3. QED
  BY <1>1, <1>2, WidthType

\* The bytes at an offset inside a slice are those of the slice.
LEMMA UnalignedInside ==
  ASSUME NEW b \in Seq(Byte), NEW o \in Nat, o + Width <= Len(b)
  PROVE  Unaligned(b, o) = [k \in 1..Width |-> b[o + k]]
BY WidthType DEF Unaligned

\* And a number.
LEMMA UnalignedType ==
  ASSUME NEW b \in Seq(Byte), NEW o \in Nat, o + Width <= Len(b)
  PROVE  Unaligned(b, o) \in T
<1>1. \A k \in 1..Width : b[o + k] \in Byte
  BY WidthType
<1>2. QED
  BY <1>1, UnalignedInside DEF T

\* The copy of a buffer has the numbers that stand in it.
LEMMA CopyType ==
  ASSUME NEW b \in Seq(Byte), NEW n \in Nat, n * Width <= Len(b)
  PROVE  /\ CopyFrom(b, n) \in Seq(T)
         /\ Len(CopyFrom(b, n)) = n
         /\ \A i \in 1..n : CopyFrom(b, n)[i] = Unaligned(b, (i - 1) * Width)
<1>1. ASSUME NEW i \in 1..n PROVE Unaligned(b, (i - 1) * Width) \in T
  <2>1. i - 1 \in Nat /\ i - 1 < n
    OBVIOUS
  <2>2. (i - 1) * Width \in Nat /\ (i - 1) * Width + Width <= n * Width /\ n * Width \in Nat
    BY <2>1, ElementsApart, WidthType
  <2>3. (i - 1) * Width + Width <= Len(b)
    BY <2>2, WidthType
  <2>4. QED
    BY <2>2, <2>3, UnalignedType
<1>2. QED
  BY <1>1 DEF CopyFrom

\* What the methods do with a borrowed value.
LEMMA OfBorrowed ==
  ASSUME NEW b
  PROVE  /\ len(Borrowed(b)) = Len(b) \div Width
         /\ is_empty(Borrowed(b)) = (b = <<>>)
         /\ into_vec(Borrowed(b)) = CopyFrom(b, Len(b) \div Width)
         /\ own(Borrowed(b)) = Owned(CopyFrom(b, Len(b) \div Width))
         /\ Dump(Borrowed(b)) = b
BY DEF len, is_empty, into_vec, own, Dump, Borrowed, make_vec_from_unaligned_buf

\* Only a slice can end between two numbers.
LEMMA RaggedOnes ==
  /\ ~Ragged(NoDataYet)
  /\ \A v : ~Ragged(Owned(v))
  /\ \A b : Ragged(Borrowed(b)) = (Len(b) % Width # 0)
BY DEF Ragged, NoDataYet, Owned, Borrowed

\* What they do with one that is a Vec.
LEMMA OfOwned ==
  ASSUME NEW v
  PROVE  /\ len(Owned(v)) = Len(v)
         /\ is_empty(Owned(v)) = (v = <<>>)
         /\ into_vec(Owned(v)) = v
         /\ own(Owned(v)) = Owned(v)
         /\ Owned(v).v = v
         /\ Dump(Owned(v)) = Memory(v)
BY DEF len, is_empty, into_vec, own, Dump, Owned

\* And with none at all.
LEMMA OfNoDataYet ==
  /\ len(NoDataYet) = 0
  /\ is_empty(NoDataYet) = TRUE
  /\ into_vec(NoDataYet) = <<>>
  /\ own(NoDataYet) = Owned(<<>>)
BY DEF len, is_empty, into_vec, own, NoDataYet

\* Its elements are numbers, and as many as len() says.
LEMMA IntoVecType ==
  ASSUME NEW p \in PackedFixeds
  PROVE  into_vec(p) \in Seq(T) /\ len(p) = Len(into_vec(p))
<1>1. CASE p = NoDataYet
  BY <1>1, OfNoDataYet
<1>2. ASSUME NEW b \in Seq(Byte), p = Borrowed(b)
      PROVE  into_vec(p) \in Seq(T) /\ len(p) = Len(into_vec(p))
  <2>0. Len(b) \div Width \in Nat /\ (Len(b) \div Width) * Width <= Len(b)
    BY BytesLength, WidthType
  <2>1. CopyFrom(b, Len(b) \div Width) \in Seq(T)
        /\ Len(CopyFrom(b, Len(b) \div Width)) = Len(b) \div Width
    BY <2>0, CopyType
  <2>2. QED
    BY <1>2, <2>1, OfBorrowed
<1>3. ASSUME NEW v \in Seq(T), p = Owned(v)
      PROVE  into_vec(p) \in Seq(T) /\ len(p) = Len(into_vec(p))
  BY <1>3, OfOwned
<1>4. QED
  BY <1>1, <1>2, <1>3 DEF PackedFixeds

\* at() is the element that the Vec would have there, and panics beyond it,
\* save where a partial element stands.
LEMMA AtIsElement ==
  ASSUME NEW p \in PackedFixeds, NEW i \in Nat, ~Ragged(p) \/ i # len(p)
  PROVE  at(p, i) = IF i < Len(into_vec(p)) THEN into_vec(p)[i + 1] ELSE Panic
<1>1. CASE p = NoDataYet
  <2>1. at(p, i) = Panic
    BY <1>1 DEF at, NoDataYet
  <2>2. QED
    BY <1>1, <2>1, OfNoDataYet
<1>2. ASSUME NEW b \in Seq(Byte), p = Borrowed(b)
      PROVE  at(p, i) = IF i < Len(into_vec(p)) THEN into_vec(p)[i + 1] ELSE Panic
  <2> DEFINE n == Len(b) \div Width
             r == Len(b) % Width
  <2>1. at(p, i) = IF OutOfRange(b, i * Width) THEN Panic ELSE Unaligned(b, i * Width)
    BY <1>2 DEF at, Borrowed
  <2>2. n \in Nat /\ n * Width \in Nat /\ r \in 0..(Width - 1) /\ Len(b) = n * Width + r
    BY BytesLength
  <2>3. into_vec(p) = CopyFrom(b, n) /\ len(p) = n
    BY <1>2, OfBorrowed
  <2>4. r = 0 \/ i # n
    BY <1>2, <2>3, RaggedOnes
  <2> HIDE DEF n, r
  <2>5. Len(CopyFrom(b, n)) = n /\ \A k \in 1..n : CopyFrom(b, n)[k] = Unaligned(b, (k - 1) * Width)
    BY <2>2, CopyType, WidthType
  <2>6. CASE i < n
    <3>1. i * Width \in Nat /\ i * Width + Width <= n * Width
      BY <2>2, <2>6, ElementsApart, WidthType
    <3>2. ~OutOfRange(b, i * Width)
      BY <2>2, <3>1, WidthType DEF OutOfRange
    <3>3. CopyFrom(b, n)[i + 1] = Unaligned(b, i * Width)
      BY <2>2, <2>5, <2>6
    <3>4. QED
      BY <2>1, <2>3, <2>5, <2>6, <3>2, <3>3
  <2>7. CASE i = n
    <3>1. OutOfRange(b, i * Width)
      BY <2>2, <2>4, <2>7 DEF OutOfRange
    <3>2. QED
      BY <2>1, <2>2, <2>3, <2>5, <2>7, <3>1
  <2>8. CASE i > n
    <3>1. i * Width \in Nat /\ n * Width + Width <= i * Width
      BY <2>2, <2>8, ElementsApart, WidthType
    <3>2. OutOfRange(b, i * Width)
      BY <2>2, <3>1, WidthType DEF OutOfRange
    <3>3. QED
      BY <2>1, <2>2, <2>3, <2>5, <2>8, <3>2
  <2>9. QED
    BY <2>2, <2>6, <2>7, <2>8
<1>3. ASSUME NEW v \in Seq(T), p = Owned(v)
      PROVE  at(p, i) = IF i < Len(into_vec(p)) THEN into_vec(p)[i + 1] ELSE Panic
  <2>1. at(p, i) = IF i < Len(v) THEN v[i + 1] ELSE Panic
    BY <1>3 DEF at, Owned
  <2>2. QED
    BY <1>3, <2>1, OfOwned
<1>4. QED
  BY <1>1, <1>2, <1>3 DEF PackedFixeds

\* is_empty looks at bytes: a value that is empty has no numbers, and one
\* with no numbers is empty, save a slice that is less than one.
LEMMA EmptyIsEmpty ==
  ASSUME NEW p \in PackedFixeds
  PROVE  /\ is_empty(p) => into_vec(p) = <<>> /\ ~Ragged(p)
         /\ (~Ragged(p) \/ len(p) # 0) => is_empty(p) = (into_vec(p) = <<>>)
<1>1. CASE p = NoDataYet
  BY <1>1, OfNoDataYet, RaggedOnes
<1>2. ASSUME NEW b \in Seq(Byte), p = Borrowed(b)
      PROVE  /\ is_empty(p) => into_vec(p) = <<>> /\ ~Ragged(p)
             /\ (~Ragged(p) \/ len(p) # 0) => is_empty(p) = (into_vec(p) = <<>>)
  <2> DEFINE n == Len(b) \div Width
             r == Len(b) % Width
  <2>1. is_empty(p) = (b = <<>>)
    BY <1>2, OfBorrowed
  <2>2. len(p) = Len(into_vec(p)) /\ into_vec(p) \in Seq(T)
    BY IntoVecType
  <2>3. n \in Nat /\ n * Width \in Nat /\ r \in 0..(Width - 1) /\ Len(b) = n * Width + r
    BY BytesLength
  <2>4. len(p) = n /\ Ragged(p) = (r # 0)
    BY <1>2, OfBorrowed, RaggedOnes
  <2> HIDE DEF n, r
  <2>5. b = <<>> <=> Len(b) = 0
    OBVIOUS
  <2>6. n # 0 => n * Width >= Width
    BY <2>3, WidthType
  <2>7. Len(b) = 0 <=> n = 0 /\ r = 0
    BY <2>3, <2>6, WidthType
  <2>8. into_vec(p) = <<>> <=> n = 0
    <3>1. PICK v \in Seq(T) : v = into_vec(p)
      BY <2>2
    <3>2. Len(v) = n
      BY <2>2, <2>4, <3>1
    <3>3. v = <<>> <=> n = 0
      BY <3>2
    <3>4. QED
      BY <3>1, <3>3
  <2>9. QED
    BY <2>1, <2>4, <2>5, <2>7, <2>8
<1>3. ASSUME NEW v \in Seq(T), p = Owned(v)
      PROVE  is_empty(p) = (into_vec(p) = <<>>) /\ ~Ragged(p)
  BY <1>3, OfOwned, RaggedOnes
<1>4. QED
  BY <1>1, <1>2, <1>3 DEF PackedFixeds
----------------------------------------------------------------------------
(* Facts about the way to the wire and back.                               *)

\* The bytes of a Vec are its elements, one after the other.
LEMMA MemoryType ==
  ASSUME NEW s \in Seq(T)
  PROVE  /\ Memory(s) \in Seq(Byte) /\ Len(Memory(s)) = Len(s) * Width
         /\ \A i \in 1..Len(s) : Unaligned(Memory(s), (i - 1) * Width) = s[i]
<1> DEFINE m == Len(s) * Width
<1>1. Len(s) \in Nat /\ m \in Nat
  BY WidthType
<1>2. ASSUME NEW n \in 1..m
      PROVE  s[((n - 1) \div Width) + 1][((n - 1) % Width) + 1] \in Byte
  <2> DEFINE q == (n - 1) \div Width
             r == (n - 1) % Width
  <2>1. n - 1 \in Nat /\ n - 1 < m
    BY <1>1
  <2>2. q \in Nat /\ r \in 0..(Width - 1) /\ n - 1 = q * Width + r
    BY <2>1, DivFacts, WidthType
  <2>3. q * Width \in Nat
    BY <2>2, WidthType
  <2>4. q * Width >= Len(s) * Width <=> q >= Len(s)
    BY <2>2, <1>1, OffsetsOrdered, WidthType
  <2> HIDE DEF q, r
  <2>5. q * Width < m
    BY <2>1, <2>2, <2>3, <1>1, WidthType
  <2>6. q + 1 \in 1..Len(s)
    BY <2>2, <2>3, <2>4, <2>5, <1>1
  <2>7. s[q + 1] \in T /\ r + 1 \in 1..Width
    BY <2>2, <2>6, WidthType
  <2>8. s[q + 1][r + 1] \in Byte
    BY <2>7 DEF T
  <2>9. QED
    BY <2>8 DEF q, r
<1>3. Memory(s) = [n \in 1..m |-> s[((n - 1) \div Width) + 1][((n - 1) % Width) + 1]]
  BY DEF Memory
<1>4. Memory(s) \in Seq(Byte) /\ Len(Memory(s)) = m
  BY <1>1, <1>2, <1>3
<1>5. ASSUME NEW i \in 1..Len(s)
      PROVE  Unaligned(Memory(s), (i - 1) * Width) = s[i]
  <2>1. i - 1 \in Nat /\ i - 1 < Len(s) /\ s[i] \in T
    BY <1>1
  <2> DEFINE o == (i - 1) * Width
  <2>2. o \in Nat /\ o + Width <= m
    BY <2>1, <1>1, ElementsApart, WidthType
  <2>3. ASSUME NEW k \in 1..Width
        PROVE  Memory(s)[o + k] = s[i][k]
    <3>1. k - 1 \in 0..(Width - 1)
      BY WidthType
    <3>2. (o + (k - 1)) \div Width = i - 1 /\ (o + (k - 1)) % Width = k - 1
      BY <2>1, <3>1, DivUnique, WidthType
    <3> HIDE DEF o
    <3>3. (o + k) - 1 = o + (k - 1) /\ o + k \in 1..m
      BY <2>2, <3>1, <1>1, WidthType
    <3>4. ((i - 1) + 1) = i /\ ((k - 1) + 1) = k
      BY <2>1, WidthType
    <3> HIDE DEF m
    <3>5. Memory(s)[o + k] = s[(((o + k) - 1) \div Width) + 1][(((o + k) - 1) % Width) + 1]
      BY <1>3, <3>3
    <3>6. QED
      BY <3>2, <3>3, <3>4, <3>5
  <2>4. Unaligned(Memory(s), o) = [k \in 1..Width |-> s[i][k]]
    <3>1. Unaligned(Memory(s), o) = [k \in 1..Width |-> Memory(s)[o + k]]
      BY <1>4, <2>2, UnalignedInside
    <3>2. QED
      BY <2>3, <3>1
  <2>5. s[i] = [k \in 1..Width |-> s[i][k]]
    BY <2>1 DEF T
  <2>6. QED
    BY <2>4, <2>5
<1>6. QED
  BY <1>4, <1>5

\* The bytes of a Vec have the same numbers.
LEMMA MemoryNumbers ==
  ASSUME NEW s \in Seq(T)
  PROVE  /\ Memory(s) \in Seq(Byte) /\ Len(Memory(s)) = Len(s) * Width
         /\ Len(Memory(s)) \div Width = Len(s)
         /\ CopyFrom(Memory(s), Len(s)) = s
<1>1. Memory(s) \in Seq(Byte) /\ Len(Memory(s)) = Len(s) * Width /\ Len(s) \in Nat
  BY MemoryType
<1>2. \A i \in 1..Len(s) : Unaligned(Memory(s), (i - 1) * Width) = s[i]
  BY MemoryType
<1>3. Len(s) * Width \in Nat /\ Len(s) * Width + 0 = Len(s) * Width /\ 0 \in 0..(Width - 1)
  BY <1>1, WidthType
<1>4. (Len(s) * Width) \div Width = Len(s) /\ (Len(s) * Width) % Width = 0
  BY <1>1, <1>3, DivUnique, WidthType
<1>5. CopyFrom(Memory(s), Len(s)) \in Seq(T) /\ Len(CopyFrom(Memory(s), Len(s))) = Len(s)
  BY <1>1, <1>3, CopyType
<1>6. \A i \in 1..Len(s) : CopyFrom(Memory(s), Len(s))[i] = Unaligned(Memory(s), (i - 1) * Width)
  BY <1>1, <1>3, CopyType
<1>7. CopyFrom(Memory(s), Len(s)) = s
  BY <1>2, <1>5, <1>6
<1>8. QED
  BY <1>1, <1>4, <1>7

\* The numbers that are whole in a slice are those that a copy of it has.
LEMMA NumbersAreCopied ==
  ASSUME NEW b \in Seq(Byte)
  PROVE  NumbersIn(b) = CopyFrom(b, Len(b) \div Width)
<1> DEFINE n == Len(b) \div Width
<1>1. n \in Nat /\ n * Width \in Nat /\ n * Width <= Len(b) /\ Len(b) \in Nat
  BY BytesLength, WidthType
<1>2. NumbersIn(b) = [i \in 1..n |-> SubSeq(b, (i - 1) * Width + 1, i * Width)]
  BY DEF NumbersIn
<1> HIDE DEF n
<1>3. CopyFrom(b, n) = [i \in 1..n |-> Unaligned(b, (i - 1) * Width)]
  BY DEF CopyFrom
<1>4. ASSUME NEW i \in 1..n
      PROVE  Unaligned(b, (i - 1) * Width) = SubSeq(b, (i - 1) * Width + 1, i * Width)
  <2> DEFINE o == (i - 1) * Width
  <2>1. i - 1 \in Nat /\ i - 1 < n /\ i \in Nat
    BY <1>1
  <2>2. o \in Nat /\ o + Width <= n * Width
    BY <1>1, <2>1, ElementsApart, WidthType
  <2>3. i * Width = o + Width
    BY <2>1, WidthType
  <2> HIDE DEF o
  <2>4. o + Width <= Len(b)
    BY <1>1, <2>2, WidthType
  <2>5. Unaligned(b, o) = [k \in 1..Width |-> b[o + k]]
    BY <2>2, <2>4, UnalignedInside
  <2>6. SubSeq(b, o + 1, o + Width) = [k \in 1..Width |-> b[o + k]]
    <3>1. PICK w \in Nat : w = Width
      BY WidthType
    <3>2. SubSeq(b, o + 1, o + w) \in Seq(Byte)
      BY <2>2, <2>4, <3>1
    <3>3. Len(SubSeq(b, o + 1, o + w)) = w
      BY <2>2
    <3>4. \A k \in 1..w : SubSeq(b, o + 1, o + w)[k] = b[o + k]
      BY <2>2
    <3>5. PICK s \in Seq(Byte) : s = SubSeq(b, o + 1, o + w)
      BY <3>2
    <3>6. Len(s) = w /\ \A k \in 1..w : s[k] = b[o + k]
      BY <3>3, <3>4, <3>5
    <3>7. s = [k \in 1..w |-> b[o + k]]
      BY <3>6
    <3>8. QED
      BY <3>1, <3>5, <3>7
  <2>7. Unaligned(b, o) = SubSeq(b, o + 1, i * Width)
    BY <2>3, <2>5, <2>6
  <2>8. QED
    BY <2>7 DEF o
<1>5. NumbersIn(b) = CopyFrom(b, n)
  BY <1>2, <1>3, <1>4
<1>6. QED
  BY <1>5 DEF n

\* A chunk from the wire is cut to whole numbers, which are the ones in it.
LEMMA ReadNumbers ==
  ASSUME NEW chunk \in Seq(Byte)
  PROVE  /\ read_packed_fixed(chunk) \in PackedFixeds
         /\ ~Ragged(read_packed_fixed(chunk))
         /\ into_vec(read_packed_fixed(chunk)) = NumbersIn(chunk)
<1> DEFINE n == Len(chunk) \div Width
           b == SubSeq(chunk, 1, n * Width)
<1>1. n \in Nat /\ n * Width \in Nat /\ n * Width <= Len(chunk)
  BY BytesLength, WidthType
<1>2. read_packed_fixed(chunk) = Borrowed(b)
  BY DEF read_packed_fixed
<1>3. NumbersIn(chunk) = CopyFrom(chunk, n)
  BY NumbersAreCopied
<1> HIDE DEF n
<1>4. n * Width + 0 = n * Width /\ 0 \in 0..(Width - 1)
  BY <1>1, WidthType
<1>5. (n * Width) \div Width = n /\ (n * Width) % Width = 0
  BY <1>1, <1>4, DivUnique, WidthType
<1>6. b \in Seq(Byte) /\ Len(b) = n * Width /\ \A k \in 1..(n * Width) : b[k] = chunk[k]
  <2>1. PICK m \in Nat : m = n * Width
    BY <1>1
  <2>2. \A k \in 1..m : chunk[k] \in Byte
    BY <1>1, <2>1
  <2>3. SubSeq(chunk, 1, m) \in Seq(Byte)
    BY <2>2
  <2>4. Len(SubSeq(chunk, 1, m)) = m
    BY <2>1
  <2>5. \A k \in 1..m : SubSeq(chunk, 1, m)[k] = chunk[k]
    BY <2>1
  <2>6. QED
    BY <2>1, <2>3, <2>4, <2>5
<1> HIDE DEF b
<1>7. ~Ragged(Borrowed(b))
  BY <1>5, <1>6, RaggedOnes
<1>8. into_vec(Borrowed(b)) = CopyFrom(b, n)
  BY <1>5, <1>6, OfBorrowed
<1>9. ASSUME NEW i \in 1..n
      PROVE  Unaligned(b, (i - 1) * Width) = Unaligned(chunk, (i - 1) * Width)
  <2> DEFINE o == (i - 1) * Width
  <2>1. i - 1 \in Nat /\ i - 1 < n
    BY <1>1
  <2>2. o \in Nat /\ o + Width <= n * Width
    BY <1>1, <2>1, ElementsApart, WidthType
  <2> HIDE DEF o
  <2>3. o + Width <= Len(b) /\ o + Width <= Len(chunk)
    BY <1>1, <1>6, <2>2, WidthType
  <2>4. \A k \in 1..Width : b[o + k] = chunk[o + k]
    BY <1>1, <1>6, <2>2, WidthType
  <2>5. Unaligned(b, o) = [k \in 1..Width |-> chunk[o + k]]
    BY <1>6, <2>2, <2>3, <2>4, UnalignedInside
  <2>6. Unaligned(chunk, o) = [k \in 1..Width |-> chunk[o + k]]
    BY <2>2, <2>3, UnalignedInside
  <2>7. QED
    BY <2>5, <2>6 DEF o
<1>10. CopyFrom(b, n) = CopyFrom(chunk, n)
  BY <1>9 DEF CopyFrom
<1>11. QED
  BY <1>2, <1>3, <1>6, <1>7, <1>8, <1>10 DEF PackedFixeds

\* The bytes that the writer dumps have the same numbers, and they are as
\* many as the elements have unless one of them is partial.
LEMMA DumpNumbers ==
  ASSUME NEW p \in PackedFixeds, p # NoDataYet
  PROVE  /\ Dump(p) \in Seq(Byte)
         /\ len(p) * Width \in Nat
         /\ IF Ragged(p) THEN len(p) * Width < Len(Dump(p)) ELSE len(p) * Width = Len(Dump(p))
         /\ CopyFrom(Dump(p), Len(Dump(p)) \div Width) = into_vec(p)
<1>1. ASSUME NEW b \in Seq(Byte), p = Borrowed(b)
      PROVE  /\ Dump(p) \in Seq(Byte)
             /\ len(p) * Width \in Nat
             /\ IF Ragged(p) THEN len(p) * Width < Len(Dump(p)) ELSE len(p) * Width = Len(Dump(p))
             /\ CopyFrom(Dump(p), Len(Dump(p)) \div Width) = into_vec(p)
  <2>1. /\ Dump(p) = b /\ len(p) = Len(b) \div Width /\ Ragged(p) = (Len(b) % Width # 0)
        /\ into_vec(p) = CopyFrom(b, Len(b) \div Width)
    BY <1>1, OfBorrowed, RaggedOnes
  <2>2. /\ (Len(b) \div Width) * Width \in Nat /\ Len(b) % Width \in 0..(Width - 1)
        /\ Len(b) = (Len(b) \div Width) * Width + (Len(b) % Width)
    BY BytesLength
  <2>3. PICK m \in Nat, r \in 0..(Width - 1) : m = (Len(b) \div Width) * Width /\ r = Len(b) % Width
    BY <2>2
  <2>4. Len(b) = m + r /\ r \in Nat
    BY <2>2, <2>3, WidthType
  <2>5. IF r # 0 THEN m < Len(b) ELSE m = Len(b)
    BY <2>3, <2>4
  <2>6. QED
    BY <2>1, <2>3, <2>5
<1>2. ASSUME NEW s \in Seq(T), p = Owned(s)
      PROVE  /\ Dump(p) \in Seq(Byte)
             /\ len(p) * Width \in Nat
             /\ IF Ragged(p) THEN len(p) * Width < Len(Dump(p)) ELSE len(p) * Width = Len(Dump(p))
             /\ CopyFrom(Dump(p), Len(Dump(p)) \div Width) = into_vec(p)
  <2>1. Dump(p) = Memory(s) /\ into_vec(p) = s /\ len(p) = Len(s) /\ ~Ragged(p)
    BY <1>2, OfOwned, RaggedOnes
  <2>2. Len(s) * Width \in Nat
    BY WidthType
  <2>3. QED
    BY <2>1, <2>2, MemoryNumbers
<1>3. QED
  BY <1>1, <1>2 DEF PackedFixeds

\* A value that is written and read again has the same numbers, and no
\* partial one.
LEMMA RereadNumbers ==
  ASSUME NEW p \in PackedFixeds
  PROVE  /\ Reread(write_packed_fixed_with_tag(p)) \in PackedFixeds
         /\ ~Ragged(Reread(write_packed_fixed_with_tag(p)))
         /\ into_vec(Reread(write_packed_fixed_with_tag(p))) = into_vec(p)
<1>1. CASE is_empty(p)
  <2>1. Reread(write_packed_fixed_with_tag(p)) = NoDataYet
    BY <1>1 DEF Reread, write_packed_fixed_with_tag
  <2>2. into_vec(p) = <<>>
    BY <1>1, EmptyIsEmpty
  <2>3. QED
    BY <2>1, <2>2, OfNoDataYet, RaggedOnes DEF PackedFixeds
<1>2. CASE ~is_empty(p)
  <2>1. p # NoDataYet
    BY <1>2, OfNoDataYet
  <2>2. write_packed_fixed_with_tag(p) = << Dump(p) >>
    BY <1>2 DEF write_packed_fixed_with_tag
  <2>3. << Dump(p) >> # <<>> /\ << Dump(p) >>[1] = Dump(p)
    OBVIOUS
  <2>4. Reread(write_packed_fixed_with_tag(p)) = read_packed_fixed(Dump(p))
    BY <2>2, <2>3 DEF Reread
  <2>5. Dump(p) \in Seq(Byte) /\ CopyFrom(Dump(p), Len(Dump(p)) \div Width) = into_vec(p)
    BY <2>1, DumpNumbers
  <2>6. NumbersIn(Dump(p)) = into_vec(p)
    BY <2>5, NumbersAreCopied
  <2>7. QED
    BY <2>4, <2>5, <2>6, ReadNumbers
<1>3. QED
  BY <1>1, <1>2

----------------------------------------------------------------------------
(* Facts about what is done with a value.                                  *)

\* Making a value its own does not change its numbers.
LEMMA OwnNumbers ==
  ASSUME NEW p \in PackedFixeds
  PROVE  /\ own(p) = Owned(into_vec(p)) /\ own(p).v = into_vec(p)
         /\ own(p) \in PackedFixeds /\ ~Ragged(own(p))
         /\ into_vec(own(p)) = into_vec(p)
<1>1. ASSUME p = NoDataYet
      PROVE  own(p) = Owned(into_vec(p))
  BY <1>1, OfNoDataYet
<1>2. ASSUME NEW b \in Seq(Byte), p = Borrowed(b)
      PROVE  own(p) = Owned(into_vec(p))
  BY <1>2, OfBorrowed
<1>3. ASSUME NEW s \in Seq(T), p = Owned(s)
      PROVE  own(p) = Owned(into_vec(p))
  BY <1>3, OfOwned
<1>4. own(p) = Owned(into_vec(p))
  BY <1>1, <1>2, <1>3 DEF PackedFixeds
<1>5. into_vec(p) \in Seq(T)
  BY IntoVecType
<1>6. Owned(into_vec(p)) \in PackedFixeds
  BY <1>5 DEF PackedFixeds
<1>7. Owned(into_vec(p)).v = into_vec(p)
  BY OfOwned
<1>8. into_vec(Owned(into_vec(p))) = into_vec(p)
  BY OfOwned
<1>9. QED
  BY <1>4, <1>6, <1>7, <1>8, RaggedOnes

\* An iterator gives the element where it stands, and moves to the next.
LEMMA NextIsElement ==
  ASSUME NEW p \in PackedFixeds, NEW i \in Nat
  PROVE  /\ next(p, i).item = IF i < Len(into_vec(p)) THEN into_vec(p)[i + 1] ELSE None
         /\ next(p, i).index = IF i < Len(into_vec(p)) THEN i + 1 ELSE i
<1>1. len(p) = Len(into_vec(p)) /\ Len(into_vec(p)) \in Nat
  BY IntoVecType
<1>2. i < Len(into_vec(p)) => at(p, i) = into_vec(p)[i + 1]
  <2>1. i < Len(into_vec(p)) => i # len(p)
    BY <1>1
  <2>2. QED
    BY <2>1, AtIsElement
<1>3. QED
  BY <1>1, <1>2 DEF next

\* Values are equal when their numbers are.
LEMMA EqIsEqual ==
  ASSUME NEW p \in PackedFixeds, NEW q \in PackedFixeds
  PROVE  eq(p, q) <=> into_vec(q) = into_vec(p)
<1> DEFINE s == into_vec(p)
           t == into_vec(q)
<1>1. s \in Seq(T) /\ t \in Seq(T) /\ len(p) = Len(s) /\ len(q) = Len(t)
  BY IntoVecType
<1>2. ASSUME s = t PROVE eq(p, q)
  <2>1. \A i \in 0..len(p) : i \in Nat
    BY <1>1
  <2>2. \A i \in 0..len(p) : next(p, i).item = next(q, i).item
    BY <2>1, <1>2, NextIsElement
  <2>3. QED
    BY <1>1, <1>2, <2>2 DEF eq
<1>3. ASSUME eq(p, q) PROVE s = t
  <2>1. Len(s) = Len(t)
    BY <1>1, <1>3 DEF eq
  <2>2. ASSUME NEW k \in 1..Len(s) PROVE s[k] = t[k]
    <3>1. k - 1 \in 0..len(p) /\ k - 1 \in Nat /\ k - 1 < Len(s) /\ (k - 1) + 1 = k
      BY <1>1
    <3>2. next(p, k - 1).item = next(q, k - 1).item
      BY <1>3, <3>1 DEF eq
    <3>3. next(p, k - 1).item = s[k] /\ next(q, k - 1).item = t[k]
      BY <2>1, <3>1, NextIsElement
    <3>4. QED
      BY <3>2, <3>3
  <2> HIDE DEF s, t
  <2>3. QED
    BY <1>1, <2>1, <2>2
<1>4. QED
  BY <1>2, <1>3

----------------------------------------------------------------------------
(* The type invariant.                                                     *)

\* Every call leaves a value, and one of whole numbers unless it is FromBytes
\* or leaves what FromBytes made.
LEMMA TypeStep == PackedFixedTypeOK /\ [Next]_vars => PackedFixedTypeOK'
<1> SUFFICES ASSUME PackedFixedTypeOK, [Next]_vars
             PROVE  PackedFixedTypeOK'
  OBVIOUS
<1> USE DEF PackedFixedTypeOK
<1>1. CASE UNCHANGED <<pf, index, whole>>
  BY <1>1
<1>2. CASE Default
  BY <1>2, RaggedOnes DEF Default, Fill, Become, PackedFixeds
<1>3. CASE FromVec
  BY <1>3, VecsAssumption, RaggedOnes DEF FromVec, Fill, Become, PackedFixeds
<1>4. CASE FromBytes
  <2>1. PICK chunk \in Chunks : Fill(Borrowed(chunk), NumbersIn(chunk)) /\ whole' = (Len(chunk) % Width = 0)
    BY <1>4 DEF FromBytes
  <2>2. pf' = Borrowed(chunk) /\ index' = 0
    BY <2>1 DEF Fill, Become
  <2>3. whole' <=> ~Ragged(pf')
    BY <2>1, <2>2, RaggedOnes
  <2>4. QED
    BY <2>2, <2>3, ChunksAssumption DEF PackedFixeds
<1>5. CASE Receive
  <2>1. PICK chunk \in Chunks : Fill(read_packed_fixed(chunk), NumbersIn(chunk))
    BY <1>5 DEF Receive
  <2>2. read_packed_fixed(chunk) \in PackedFixeds /\ ~Ragged(read_packed_fixed(chunk))
    BY ChunksAssumption, ReadNumbers
  <2>3. QED
    BY <1>5, <2>1, <2>2 DEF Receive, Fill, Become
<1>6. CASE Own \/ ToSlice
  BY <1>6, OwnNumbers DEF Own, ToSlice
<1>7. CASE ToMutSlice
  <2>1. PICK i \in Indices, x \in T :
          /\ pf' = Owned(IF i < Len(own(pf).v) THEN [own(pf).v EXCEPT ![i + 1] = x] ELSE own(pf).v)
          /\ index' = index /\ whole' = TRUE
    BY <1>7 DEF ToMutSlice
  <2>2. own(pf).v = into_vec(pf) /\ into_vec(pf) \in Seq(T)
    BY OwnNumbers, IntoVecType
  <2>3. i \in Nat
    BY IndicesAssumption
  <2>4. (IF i < Len(own(pf).v) THEN [own(pf).v EXCEPT ![i + 1] = x] ELSE own(pf).v) \in Seq(T)
    BY <2>2, <2>3
  <2>5. QED
    BY <2>1, <2>4, RaggedOnes DEF PackedFixeds
<1>8. CASE Next_
  BY <1>8, NextIsElement DEF Next_
<1>9. CASE SaveAndLoad
  BY <1>9, RereadNumbers DEF SaveAndLoad
<1>10. CASE IntoIter \/ DropIter
  BY <1>10 DEF IntoIter, DropIter
<1>11. CASE Length \/ IsEmpty \/ At \/ Eq \/ IntoVec \/ CopyOverruns
  BY <1>11, <1>1 DEF Length, IsEmpty, At, Eq, IntoVec, CopyOverruns, Look
<1>12. QED
  BY <1>1, <1>2, <1>3, <1>4, <1>5, <1>6, <1>7, <1>8, <1>9, <1>10, <1>11 DEF Next, vars

(* A value is left between two numbers by no other call than a From impl   *)
(* that is given bytes, and has its own numbers again once it is made its  *)
(* own or read back: whatever chunk a message announces for the field,     *)
(* what is kept of it is cut to whole numbers.  An iterator never stands   *)
(* before its first number.                                                *)
THEOREM PackedFixedTypeCorrect == Spec => []PackedFixedTypeOK
<1>1. Init => PackedFixedTypeOK
  BY RaggedOnes DEF Init, PackedFixedTypeOK, PackedFixeds
<1>2. QED
  BY <1>1, TypeStep, PTL DEF Spec

(* get_size counts elements, the writer dumps bytes: for any width and any *)
(* value the length that is announced is that of the bytes, unless the     *)
(* value was made by a From impl of bytes that are not whole numbers, and  *)
(* then it is less.                                                        *)
THEOREM AnnouncedIsWritten == Spec => []SizeAnnounced
<1>1. PackedFixedTypeOK => SizeAnnounced
  <2> SUFFICES ASSUME pf \in PackedFixeds, (whole <=> ~Ragged(pf))
               PROVE  SizeAnnounced
    BY DEF PackedFixedTypeOK
  <2>1. len(pf) = Len(into_vec(pf)) /\ Len(into_vec(pf)) \in Nat
    BY IntoVecType
  <2>2. CASE is_empty(pf)
    <3>1. into_vec(pf) = <<>> /\ ~Ragged(pf)
      BY <2>2, EmptyIsEmpty
    <3>2. len(pf) = 0
      BY <2>1, <3>1
    <3>3. Announced(pf) = 0
      BY <3>2, WidthType DEF Announced
    <3>4. QED
      BY <2>2, <3>1, <3>3 DEF SizeAnnounced, write_packed_fixed_with_tag
  <2>3. CASE ~is_empty(pf)
    <3>1. pf # NoDataYet
      BY <2>3, OfNoDataYet
    <3>2. IF Ragged(pf) THEN len(pf) * Width < Len(Dump(pf)) ELSE len(pf) * Width = Len(Dump(pf))
      BY <3>1, DumpNumbers
    <3>3. write_packed_fixed_with_tag(pf) = << Dump(pf) >>
      BY <2>3 DEF write_packed_fixed_with_tag
    <3>4. << Dump(pf) >> # <<>> /\ << Dump(pf) >>[1] = Dump(pf)
      OBVIOUS
    <3>5. IF whole THEN Announced(pf) = Len(Dump(pf)) ELSE Announced(pf) < Len(Dump(pf))
      BY <3>2 DEF Announced
    <3>6. QED
      BY <3>3, <3>4, <3>5 DEF SizeAnnounced
  <2>4. QED
    BY <2>2, <2>3
<1>2. QED
  BY <1>1, PackedFixedTypeCorrect, PTL

----------------------------------------------------------------------------
(* The refinement: what each call is to the sequence of numbers.           *)

Numbers == into_vec(pf)

\* A new value.
LEMMA FillMaps ==
  ASSUME PackedFixedTypeOK, Default \/ FromVec \/ FromBytes \/ Receive
  PROVE  Items!Fill
<1>1. ASSUME NEW p \in PackedFixeds, NEW s, Fill(p, s), into_vec(p) = s
      PROVE  Items!Fill
  <2>1. pf' = p /\ index' = 0 /\ call' = <<"fill", s>> /\ ret' = None
    BY <1>1 DEF Fill, Become, Answer
  <2>2. into_vec(pf') = s /\ s \in Seq(T)
    BY <2>1, <1>1, IntoVecType
  <2>3. QED
    BY <2>1, <2>2 DEF Items!Fill
<1>2. CASE Default
  BY <1>1, <1>2, OfNoDataYet DEF Default, PackedFixeds
<1>3. CASE FromVec
  <2>1. PICK s \in Vecs : Fill(Owned(s), s)
    BY <1>3 DEF FromVec
  <2>2. Owned(s) \in PackedFixeds /\ into_vec(Owned(s)) = s
    BY VecsAssumption, OfOwned DEF PackedFixeds
  <2>3. QED
    BY <1>1, <2>1, <2>2
<1>4. CASE FromBytes
  <2>1. PICK chunk \in Chunks : Fill(Borrowed(chunk), NumbersIn(chunk))
    BY <1>4 DEF FromBytes
  <2>2. Borrowed(chunk) \in PackedFixeds /\ into_vec(Borrowed(chunk)) = NumbersIn(chunk)
    BY ChunksAssumption, NumbersAreCopied, OfBorrowed DEF PackedFixeds
  <2>3. QED
    BY <1>1, <2>1, <2>2
<1>5. CASE Receive
  <2>1. PICK chunk \in Chunks : Fill(read_packed_fixed(chunk), NumbersIn(chunk))
    BY <1>5 DEF Receive
  <2>2. QED
    BY <1>1, <2>1, ChunksAssumption, ReadNumbers
<1>6. QED
  BY <1>2, <1>3, <1>4, <1>5

\* A call that answers, and leaves the numbers as they are, unless it goes
\* astray on a partial one.
LEMMA AskMaps ==
  ASSUME PackedFixedTypeOK, ~Astray,
         Length \/ IsEmpty \/ At \/ Eq \/ Own \/ ToSlice \/ IntoVec \/ CopyOverruns \/ SaveAndLoad
  PROVE  Items!Ask
<1> DEFINE s == into_vec(pf)
<1>1. pf \in PackedFixeds /\ s \in Seq(T) /\ len(pf) = Len(s) /\ (whole <=> ~Ragged(pf))
  BY IntoVecType DEF PackedFixedTypeOK
<1>2. ASSUME pf' = pf, index' = index
      PROVE  into_vec(pf') = into_vec(pf) /\ index' = index
  BY <1>2
<1>3. CASE Length
  <2>1. call' = <<"len">> /\ ret' = Len(s) /\ pf' = pf /\ index' = index
    BY <1>1, <1>3 DEF Length, Look, Answer
  <2>2. QED
    BY <1>2, <2>1 DEF Items!Ask, Items!Returns
<1>4. CASE IsEmpty
  <2>1. call' = <<"is_empty">> /\ ret' = is_empty(pf) /\ pf' = pf /\ index' = index
    BY <1>4 DEF IsEmpty, Look, Answer
  <2>2. is_empty(pf) = (s = <<>>)
    <3>1. ~Ragged(pf) \/ len(pf) # 0
      BY <1>1, <2>1 DEF Astray
    <3>2. QED
      BY <1>1, <3>1, EmptyIsEmpty
  <2>3. QED
    BY <1>2, <2>1, <2>2 DEF Items!Ask, Items!Returns
<1>5. CASE At
  <2>1. PICK i \in Indices : call' = <<"at", i>> /\ ret' = at(pf, i) /\ pf' = pf /\ index' = index
    BY <1>5 DEF At, Look, Answer
  <2>2. at(pf, i) = IF i < Len(s) THEN s[i + 1] ELSE Panic
    <3>1. ~Ragged(pf) \/ i # len(pf)
      BY <1>1, <2>1 DEF Astray
    <3>2. QED
      BY <1>1, <3>1, IndicesAssumption, AtIsElement
  <2>3. QED
    BY <1>2, <2>1, <2>2 DEF Items!Ask, Items!Returns
<1>6. CASE Eq
  <2>0. PICK t \in Vecs : \E q \in Like(t) :
          call' = <<"eq", t>> /\ ret' = eq(pf, q) /\ pf' = pf /\ index' = index
    BY <1>6 DEF Eq, Look, Answer
  <2>1. PICK q \in Like(t) : call' = <<"eq", t>> /\ ret' = eq(pf, q) /\ pf' = pf /\ index' = index
    BY <2>0
  <2>2. q \in PackedFixeds /\ into_vec(q) = t
    <3>1. t \in Seq(T)
      BY VecsAssumption
    <3>2. CASE q = Owned(t)
      BY <3>1, <3>2, OfOwned DEF PackedFixeds
    <3>3. ASSUME NEW chunk \in Chunks, NumbersIn(chunk) = t, q = Borrowed(chunk)
          PROVE  q \in PackedFixeds /\ into_vec(q) = t
      BY <3>3, ChunksAssumption, NumbersAreCopied, OfBorrowed DEF PackedFixeds
    <3>4. CASE q = NoDataYet /\ t = <<>>
      BY <3>4, OfNoDataYet DEF PackedFixeds
    <3>5. q = Owned(t) \/ (\E chunk \in Chunks : NumbersIn(chunk) = t /\ q = Borrowed(chunk))
          \/ (q = NoDataYet /\ t = <<>>)
      BY <2>1 DEF Like
    <3>6. QED
      BY <3>2, <3>3, <3>4, <3>5
  <2>3. eq(pf, q) = (t = s)
    BY <1>1, <2>2, EqIsEqual DEF eq
  <2>4. QED
    BY <1>2, <2>1, <2>3 DEF Items!Ask, Items!Returns
<1>7. CASE Own
  BY <1>1, <1>7, OwnNumbers DEF Own, Answer, Items!Ask, Items!Returns
<1>8. CASE ToSlice
  <2>1. pf' = own(pf) /\ call' = <<"all">> /\ ret' = pf'.v /\ index' = index
    BY <1>8 DEF ToSlice, Answer
  <2>2. ret' = s /\ into_vec(pf') = s
    BY <1>1, <2>1, OwnNumbers
  <2>3. QED
    BY <2>1, <2>2 DEF Items!Ask, Items!Returns
<1>9. CASE IntoVec
  BY <1>9, <1>2 DEF IntoVec, Answer, Items!Ask, Items!Returns
<1>10. CASE SaveAndLoad
  BY <1>1, <1>10, RereadNumbers DEF SaveAndLoad, Answer, Items!Ask, Items!Returns
<1>11. CASE CopyOverruns
  BY <1>1, <1>11 DEF CopyOverruns, Answer, Astray
<1>12. QED
  BY <1>3, <1>4, <1>5, <1>6, <1>7, <1>8, <1>9, <1>10, <1>11

\* The one call that changes a number.
LEMMA AssignMaps ==
  ASSUME PackedFixedTypeOK, ToMutSlice
  PROVE  Items!Assign
<1> DEFINE s == into_vec(pf)
<1>1. s \in Seq(T) /\ own(pf).v = s
  BY IntoVecType, OwnNumbers DEF PackedFixedTypeOK
<1>2. PICK i \in Indices, x \in T :
        /\ pf' = Owned(IF i < Len(s) THEN [s EXCEPT ![i + 1] = x] ELSE s)
        /\ call' = <<"assign", i, x>>
        /\ ret' = IF i < Len(s) THEN None ELSE Panic
        /\ index' = index
  BY <1>1 DEF ToMutSlice, Answer
<1>3. into_vec(pf') = IF i < Len(s) THEN [s EXCEPT ![i + 1] = x] ELSE s
  BY <1>2, OfOwned
<1>4. QED
  BY <1>2, <1>3 DEF Items!Assign, Items!Returns

\* A step of an iterator.
LEMMA YieldMaps ==
  ASSUME PackedFixedTypeOK, Next_
  PROVE  Items!Yield
<1>1. pf \in PackedFixeds /\ index \in Nat
  BY DEF PackedFixedTypeOK
<1>2. call' = <<"next">> /\ index' = next(pf, index).index /\ ret' = next(pf, index).item /\ pf' = pf
  BY DEF Next_, Answer
<1>3. QED
  BY <1>1, <1>2, NextIsElement DEF Items!Yield

\* An iterator comes, or goes.
LEMMA IterateMaps ==
  ASSUME IntoIter \/ DropIter
  PROVE  Items!Iterate
BY DEF IntoIter, DropIter, Answer, Items!Iterate

(* Every behaviour of a PackedFixed, however it is kept, is one of a plain *)
(* sequence of numbers: at() and the iterators give its elements, len()    *)
(* counts them, own(), to_slice(), into_vec() and a trip over the wire     *)
(* leave them, for all widths, bytes, Vecs and chunks.  It is not, and     *)
(* nothing is said, where Astray says so: at(len()), is_empty() without a  *)
(* whole number and a copy that overruns, of a value that a From impl made *)
(* of bytes that are not whole numbers.                                    *)
THEOREM BehavesAsItems == Spec => ImplementsFixedItems
<1>1. Init => Items!ItemsInit
  BY OfNoDataYet DEF Init, Items!ItemsInit
<1>2. PackedFixedTypeOK /\ [Next]_vars => [Astray \/ Items!ItemsNext]_(Items!itemVars)
  <2> SUFFICES ASSUME PackedFixedTypeOK, [Next]_vars, ~Astray
               PROVE  Items!ItemsNext \/ UNCHANGED (Items!itemVars)
    OBVIOUS
  <2>1. CASE UNCHANGED vars
    BY <2>1 DEF vars, Items!itemVars
  <2>2. CASE Next
    BY <2>2, FillMaps, AskMaps, AssignMaps, YieldMaps, IterateMaps DEF Next, Items!ItemsNext
  <2>3. QED
    BY <2>1, <2>2
<1>3. QED
  BY <1>1, <1>2, PackedFixedTypeCorrect, PTL DEF Spec, ImplementsFixedItems

-----------------------------------------------------------------------------
(* Varints.                                                                *)

(* Induction over the numbers up to a limit, for sets instead of operators. *)
LEMMA UpTo ==
  ASSUME NEW S, NEW n \in Nat, 0 \in S,
         \A k \in Nat : k < n /\ k \in S => k + 1 \in S
  PROVE  \A k \in 0 .. n : k \in S
<1> DEFINE Smaller == OpToRel(<, Nat)
           Missing == {k \in 0 .. n : k \notin S}
<1>1. IsWellFoundedOn(Smaller, Nat)
  BY NatLessThanWellFounded, Zenon DEF OpToRel
<1>2. SUFFICES ASSUME Missing # {}
               PROVE  FALSE
  OBVIOUS
<1>3. Missing \subseteq Nat
  OBVIOUS
<1>4. PICK least \in Missing : \A k \in Missing : ~(<<k, least>> \in Smaller)
  <2> HIDE DEF Smaller, Missing
  <2> QED BY <1>1, <1>2, <1>3, WFMin, Zenon
<1>5. least \in Nat /\ least # 0 /\ least <= n /\ least \notin S
  OBVIOUS
<1>6. least - 1 \in Nat /\ least - 1 < n /\ (least - 1) + 1 = least
  BY <1>5
<1>7. least - 1 \notin S
  BY <1>5, <1>6
<1>8. least - 1 \in Missing
  BY <1>6, <1>7
<1>9. <<least - 1, least>> \in Smaller
  BY <1>5, <1>6 DEF OpToRel
<1> QED BY <1>4, <1>8, <1>9

-----------------------------------------------------------------------------
(* Powers of two.                                                          *)

LEMMA Widths ==
  /\ Group \in Nat /\ Group >= 1
  /\ Word \in Nat /\ Word >= 1 /\ Long \in Nat /\ Long >= 2 /\ Word < Long
  /\ MaxBytes \in Nat /\ MaxBytes >= 1
  /\ Group * MaxBytes \in Nat /\ Long <= Group * MaxBytes
  /\ Group * (MaxBytes - 1) < Long
<1>1. Group \in Nat /\ Group >= 1 /\ Word \in Nat /\ Word >= 1 /\ Long \in Nat /\ Word < Long
  BY WidthsAssumption
<1>2. ASSUME NEW g \in Nat, NEW w \in Nat, NEW m, g >= 1, w >= 2, m = (w + g - 1) \div g
      PROVE  m \in Nat /\ m >= 1 /\ g * m \in Nat /\ w <= g * m /\ g * (m - 1) < w
  <2> DEFINE total == w + g - 1
             over == total % g
  <2>1. total \in Nat
    BY <1>2
  <2>2. m \in Int /\ over \in 0 .. g - 1 /\ total = g * m + over
    BY <1>2, <2>1
  <2> HIDE DEF over
  <2>3. g * (m - 1) = g * m - g
    BY <1>2, <2>2
  <2>4. g * m \in Int
    BY <1>2, <2>2
  <2>5. w <= g * m /\ g * m - g < w
    BY <1>2, <2>2, <2>4
  <2>6. m >= 1
    <3>1. ASSUME m <= 0 PROVE g * m <= 0
      BY <1>2, <2>2, <3>1
    <3> QED BY <1>2, <2>2, <2>4, <2>5, <3>1
  <2> QED BY <1>2, <2>2, <2>3, <2>4, <2>5, <2>6
<1> QED BY <1>1, <1>2 DEF MaxBytes, BytesOf

LEMMA PowDef ==
  Pow2 = [n \in 0 .. Group * MaxBytes |-> IF n = 0 THEN 1 ELSE 2 * Pow2[n - 1]]
<1> DEFINE top == Group * MaxBytes
           Begun(g, n) == g = [i \in 0 .. n |-> IF i = 0 THEN 1 ELSE 2 * g[i - 1]]
           S == {n \in Nat : \E g : Begun(g, n)}
<1>0. top \in Nat
  BY Widths
<1>1. 0 \in S
  <2>1. Begun([i \in 0 .. 0 |-> 1], 0)
    OBVIOUS
  <2> QED BY <2>1
<1>2. ASSUME NEW n \in Nat, n \in S
      PROVE  n + 1 \in S
  <2>1. PICK g : Begun(g, n)
    BY <1>2
  <2> DEFINE h == [i \in 0 .. (n + 1) |-> IF i = n + 1 THEN 2 * g[n] ELSE g[i]]
  <2>2. ASSUME NEW i \in 0 .. (n + 1)
        PROVE  h[i] = IF i = 0 THEN 1 ELSE 2 * h[i - 1]
    <3>1. CASE i = n + 1
      BY <3>1
    <3>2. CASE i \in 0 .. n
      <4>1. g[i] = IF i = 0 THEN 1 ELSE 2 * g[i - 1]
        BY <2>1, <3>2
      <4>2. h[i] = g[i] /\ (i # 0 => h[i - 1] = g[i - 1])
        BY <3>2
      <4> QED BY <4>1, <4>2
    <3> QED BY <3>1, <3>2
  <2>3. Begun(h, n + 1)
    BY <2>2
  <2>4. \E f : Begun(f, n + 1)
    <3> HIDE DEF h, Begun
    <3> QED BY <2>3
  <2> QED
    <3> HIDE DEF Begun
    <3> QED BY <2>4
<1>3. top \in S
  <2> HIDE DEF S, top
  <2>1. \A k \in 0 .. top : k \in S
    BY <1>0, <1>1, <1>2, UpTo
  <2> QED BY <1>0, <2>1
<1>4. \E g : g = [i \in 0 .. Group * MaxBytes |-> IF i = 0 THEN 1 ELSE 2 * g[i - 1]]
  BY <1>3
<1> QED BY <1>4, Zenon DEF Pow2

LEMMA PowFacts ==
  /\ Pow2[0] = 1 /\ Pow2[1] = 2
  /\ \A n \in 0 .. Group * MaxBytes : Pow2[n] \in Nat /\ Pow2[n] >= 1
  /\ \A n \in 1 .. Group * MaxBytes : Pow2[n] = 2 * Pow2[n - 1]
<1>0. PICK top \in Nat : top = Group * MaxBytes /\ top >= 2
  BY Widths
<1>1. Pow2[0] = 1
  BY <1>0, PowDef
<1>2. \A n \in 1 .. top : Pow2[n] = 2 * Pow2[n - 1]
  <2> SUFFICES ASSUME NEW n \in 1 .. top
               PROVE  Pow2[n] = 2 * Pow2[n - 1]
    OBVIOUS
  <2>1. n \in 0 .. top /\ n # 0
    BY <1>0
  <2> QED BY <1>0, <2>1, PowDef
<1>3. Pow2[1] = 2
  BY <1>0, <1>1, <1>2
<1> DEFINE S == {n \in Nat : n <= top => Pow2[n] \in Nat /\ Pow2[n] >= 1}
<1>4. 0 \in S
  BY <1>1
<1>5. ASSUME NEW n \in Nat, n < top, n \in S
      PROVE  n + 1 \in S
  <2>1. Pow2[n] \in Nat /\ Pow2[n] >= 1
    BY <1>0, <1>5
  <2>2. n + 1 \in 1 .. top /\ (n + 1) - 1 = n
    BY <1>0, <1>5
  <2>3. Pow2[n + 1] = 2 * Pow2[n]
    BY <1>2, <2>2
  <2> QED BY <2>1, <2>3
<1>6. \A n \in 0 .. top : n \in S
  <2> HIDE DEF S
  <2> QED BY <1>4, <1>5, UpTo
<1> QED BY <1>0, <1>1, <1>2, <1>3, <1>6

LEMMA PowSum ==
  ASSUME NEW a \in Nat, NEW b \in Nat, a + b <= Group * MaxBytes
  PROVE  Pow2[a + b] = Pow2[a] * Pow2[b]
<1>0. PICK top \in Nat : top = Group * MaxBytes
  BY Widths
<1> DEFINE S == {n \in Nat : n <= b => Pow2[a + n] = Pow2[a] * Pow2[n]}
<1>1. Pow2[a] \in Nat
  BY <1>0, PowFacts
<1>2. 0 \in S
  BY <1>1, PowFacts
<1>3. ASSUME NEW n \in Nat, n < b, n \in S
      PROVE  n + 1 \in S
  <2>1. Pow2[a + n] = Pow2[a] * Pow2[n]
    BY <1>3
  <2>2. a + n + 1 \in 1 .. top /\ n + 1 \in 1 .. top /\ n \in 0 .. top
        /\ (a + n + 1) - 1 = a + n /\ (n + 1) - 1 = n
    BY <1>0, <1>3
  <2>3. Pow2[a + n + 1] = 2 * Pow2[a + n] /\ Pow2[n + 1] = 2 * Pow2[n] /\ Pow2[n] \in Nat
    BY <1>0, <2>2, PowFacts
  <2>4. ASSUME NEW x \in Nat, NEW y \in Nat
        PROVE  2 * (x * y) = x * (2 * y)
    OBVIOUS
  <2>5. Pow2[a + n + 1] = Pow2[a] * Pow2[n + 1]
    BY <1>1, <2>1, <2>3, <2>4
  <2>6. a + (n + 1) = a + n + 1
    OBVIOUS
  <2> QED BY <2>5, <2>6
<1>4. \A n \in 0 .. b : n \in S
  <2> HIDE DEF S
  <2> QED BY <1>2, <1>3, UpTo
<1> QED BY <1>4

LEMMA PowMono ==
  ASSUME NEW a \in Nat, NEW b \in Nat, a <= b, b <= Group * MaxBytes
  PROVE  /\ Pow2[a] \in Nat /\ Pow2[a] >= 1 /\ Pow2[b] \in Nat
         /\ Pow2[b - a] \in Nat /\ Pow2[b] = Pow2[b - a] * Pow2[a]
         /\ Pow2[a] <= Pow2[b]
         /\ a < b => Pow2[b - a] >= 2 /\ Pow2[a] < Pow2[b]
<1>0. PICK top \in Nat : top = Group * MaxBytes
  BY Widths
<1>1. b - a \in 0 .. top /\ a \in 0 .. top /\ b \in 0 .. top
  BY <1>0
<1>2. /\ Pow2[a] \in Nat /\ Pow2[a] >= 1 /\ Pow2[b] \in Nat
      /\ Pow2[b - a] \in Nat /\ Pow2[b - a] >= 1
  BY <1>0, <1>1, PowFacts
<1>3. Pow2[b] = Pow2[b - a] * Pow2[a]
  <2>1. (b - a) \in Nat /\ (b - a) + a = b
    BY <1>1
  <2> QED BY <2>1, PowSum
<1>4. a < b => Pow2[b - a] >= 2
  <2> SUFFICES ASSUME a < b PROVE Pow2[b - a] >= 2
    OBVIOUS
  <2>1. b - a \in 1 .. top /\ b - a - 1 \in 0 .. top
    BY <1>1
  <2>2. Pow2[b - a] = 2 * Pow2[b - a - 1] /\ Pow2[b - a - 1] \in Nat /\ Pow2[b - a - 1] >= 1
    BY <1>0, <2>1, PowFacts
  <2> QED BY <2>2
<1>5. ASSUME NEW x \in Nat, NEW y \in Nat, x >= 1, y >= 1
      PROVE  y <= x * y /\ (x >= 2 => y < x * y)
  BY <1>5
<1>6. Pow2[a] <= Pow2[b] /\ (Pow2[b - a] >= 2 => Pow2[a] < Pow2[b])
  BY <1>2, <1>3, <1>5
<1> QED BY <1>2, <1>3, <1>4, <1>6

-----------------------------------------------------------------------------
(* Numbers modulo a power of two. *)
LEMMA ModFacts ==
  ASSUME NEW n \in Int, NEW m \in Nat, m >= 1
  PROVE  n % m \in Nat /\ n % m < m /\ n \div m \in Int /\ n = m * (n \div m) + (n % m)
OBVIOUS

LEMMA Apart ==
  ASSUME NEW m \in Nat, NEW q \in Int, NEW p \in Int, NEW s \in Int,
         NEW t \in Int, 0 <= s, s < m, 0 <= t, t < m, m * q + s = m * p + t
  PROVE  q = p /\ s = t
<1>1. ASSUME NEW x \in Int, NEW y \in Int, x < y PROVE m * x + m <= m * y
  <2>1. m * (y - x - 1) >= 0
    BY <1>1
  <2>2. m * (y - x - 1) = m * y - m * x - m
    OBVIOUS
  <2> QED BY <2>1, <2>2
<1>2. ~(q < p)
  BY <1>1
<1>3. ~(p < q)
  BY <1>1
<1>4. q = p
  BY <1>2, <1>3
<1> QED BY <1>4

LEMMA ModUnique ==
  ASSUME NEW m \in Nat, m >= 1, NEW q \in Int, NEW s \in Int, 0 <= s, s < m
  PROVE  (m * q + s) % m = s
<1> DEFINE n == m * q + s
<1>1. n \in Int
  OBVIOUS
<1>2. n % m \in Nat /\ n % m < m /\ n \div m \in Int /\ n = m * (n \div m) + (n % m)
  BY <1>1, ModFacts
<1> HIDE DEF n
<1>3. m * q + s = m * (n \div m) + (n % m)
  BY <1>2 DEF n
<1>4. PICK p \in Int, t \in Int : p = n \div m /\ t = n % m
  BY <1>2
<1>5. 0 <= t /\ t < m /\ m * q + s = m * p + t
  BY <1>2, <1>3, <1>4
<1>6. s = t
  BY <1>5, Apart
<1> QED BY <1>4, <1>6 DEF n

LEMMA ModSmall ==
  ASSUME NEW m \in Nat, m >= 1, NEW n \in Nat, n < m
  PROVE  n % m = n
OBVIOUS

LEMMA ModAdd ==
  ASSUME NEW m \in Nat, m >= 1, NEW n \in Int, NEW k \in Int
  PROVE  (n + m * k) % m = n % m
<1>1. PICK q \in Int, s \in Int : q = n \div m /\ s = n % m /\ 0 <= s /\ s < m /\ n = m * q + s
  BY ModFacts
<1>2. n + m * k = m * (q + k) + s /\ q + k \in Int
  <2>1. m * (q + k) = m * q + m * k
    OBVIOUS
  <2> QED BY <1>1, <2>1
<1>3. (m * (q + k) + s) % m = s
  BY <1>1, <1>2, ModUnique
<1> QED BY <1>1, <1>2, <1>3

LEMMA ModMod ==
  ASSUME NEW m \in Nat, m >= 1, NEW k \in Nat, k >= 1, NEW n \in Int
  PROVE  (n % (k * m)) % m = n % m
<1>0. PICK km \in Nat : km = k * m /\ km >= 1
  <2>1. k * m \in Nat /\ k * m >= 1
    OBVIOUS
  <2> QED BY <2>1
<1>1. PICK q \in Int, s \in Int : q = n \div km /\ s = n % km /\ n = km * q + s
  BY <1>0, ModFacts
<1>2. km * q = m * (k * q) /\ k * q \in Int
  <2>1. (k * m) * q = m * (k * q)
    OBVIOUS
  <2> QED BY <2>1, <1>0
<1>3. (s + m * (k * q)) % m = s % m
  BY <1>2, ModAdd
<1>4. n = s + m * (k * q)
  BY <1>1, <1>2
<1> QED BY <1>0, <1>1, <1>3, <1>4

(* Bits above others: a number below a, and others that a places. *)
LEMMA ModAbove ==
  ASSUME NEW a \in Nat, a >= 1, NEW b \in Nat, b >= 1, NEW w \in Nat, w < a, NEW n \in Nat
  PROVE  (w + n * a) % (b * a) = w + (n % b) * a
<1>1. PICK q \in Int, s \in Int : q = n \div b /\ s = n % b /\ 0 <= s /\ s < b /\ n = b * q + s
  BY ModFacts
<1>2. PICK ba \in Nat : ba = b * a /\ ba >= 1
  <2>1. b * a \in Nat /\ b * a >= 1
    OBVIOUS
  <2> QED BY <2>1
<1>3. n * a = ba * q + s * a
  <2>1. (b * q + s) * a = (b * a) * q + s * a
    OBVIOUS
  <2> QED BY <1>1, <1>2, <2>1
<1>4. s * a \in Int /\ 0 <= s * a /\ s * a + a <= ba
  <2>1. (b - s - 1) * a >= 0
    BY <1>1
  <2>2. (b - s - 1) * a = b * a - s * a - a
    OBVIOUS
  <2>3. s * a \in Int /\ s * a >= 0
    BY <1>1
  <2> QED BY <1>2, <2>1, <2>2, <2>3
<1>5. (ba * q + (w + s * a)) % ba = w + s * a
  <2>1. w + s * a \in Int /\ 0 <= w + s * a /\ w + s * a < ba
    BY <1>2, <1>4
  <2> QED BY <1>1, <1>2, <2>1, ModUnique
<1>6. w + n * a = ba * q + (w + s * a)
  BY <1>3, <1>4, <1>1
<1> QED BY <1>1, <1>2, <1>5, <1>6

LEMMA ModZero ==
  ASSUME NEW m \in Nat, m >= 1, NEW n \in Int, -m < n, n < m
  PROVE  n % m = 0 <=> n = 0
<1>1. PICK q \in Int, s \in Int : q = n \div m /\ s = n % m /\ 0 <= s /\ s < m /\ n = m * q + s
  BY ModFacts
<1>2. CASE n >= 0
  BY <1>2, ModSmall
<1>3. CASE n < 0
  <2>1. n = m * (-1) + (n + m) /\ 0 <= n + m /\ n + m < m
    <3>1. m * (-1) = -m
      OBVIOUS
    <3> QED BY <1>3, <3>1
  <2>2. (m * (-1) + (n + m)) % m = n + m
    BY <2>1, ModUnique
  <2> QED BY <1>3, <2>1, <2>2
<1> QED BY <1>2, <1>3
-----------------------------------------------------------------------------
(* The number that bytes stand for.                                        *)

LEMMA Bytes ==
  ASSUME NEW b \in VarintByte
  PROVE  b.low \in Nat /\ b.low < Pow2[Group] /\ b.more \in BOOLEAN
<1>1. Group <= Group * MaxBytes /\ Group \in Nat
  <2>1. ASSUME NEW g \in Nat, NEW m \in Nat, m >= 1 PROVE g <= g * m
    BY <2>1
  <2> QED BY <2>1, Widths
<1>2. Pow2[Group] \in Nat
  BY <1>1, Widths, PowFacts
<1> QED BY <1>2 DEF VarintByte

LEMMA WeightStep ==
  ASSUME NEW s \in Seq(VarintByte)
  PROVE  /\ Weight(s, 0) = 0
         /\ \A n \in 1 .. Len(s) :
              Weight(s, n) = Weight(s, n - 1) + s[n].low * Pow2[Group * (n - 1)]
<1> DEFINE Begun(g, n) == g = [k \in 0 .. n |->
                            IF k = 0 THEN 0 ELSE g[k - 1] + s[k].low * Pow2[Group * (k - 1)]]
           S == {n \in Nat : \E g : Begun(g, n)}
<1>0. Len(s) \in Nat
  OBVIOUS
<1>1. 0 \in S
  <2>1. Begun([i \in 0 .. 0 |-> 0], 0)
    OBVIOUS
  <2> QED BY <2>1
<1>2. ASSUME NEW n \in Nat, n \in S
      PROVE  n + 1 \in S
  <2>1. PICK g : Begun(g, n)
    BY <1>2
  <2> DEFINE h == [i \in 0 .. (n + 1) |->
                     IF i = n + 1 THEN g[n] + s[n + 1].low * Pow2[Group * n] ELSE g[i]]
  <2>2. ASSUME NEW i \in 0 .. (n + 1)
        PROVE  h[i] = IF i = 0 THEN 0 ELSE h[i - 1] + s[i].low * Pow2[Group * (i - 1)]
    <3>1. CASE i = n + 1
      <4>1. h[i] = g[n] + s[n + 1].low * Pow2[Group * n] /\ h[i - 1] = g[n] /\ i - 1 = n
        BY <3>1
      <4> QED BY <3>1, <4>1
    <3>2. CASE i \in 0 .. n
      <4>1. g[i] = IF i = 0 THEN 0 ELSE g[i - 1] + s[i].low * Pow2[Group * (i - 1)]
        BY <2>1, <3>2
      <4>2. h[i] = g[i] /\ (i # 0 => h[i - 1] = g[i - 1])
        BY <3>2
      <4> QED BY <4>1, <4>2
    <3> QED BY <3>1, <3>2
  <2>3. Begun(h, n + 1)
    BY <2>2
  <2>4. \E f : Begun(f, n + 1)
    <3> HIDE DEF h, Begun
    <3> QED BY <2>3
  <2> QED
    <3> HIDE DEF Begun
    <3> QED BY <2>4
<1>3. Len(s) \in S
  <2> HIDE DEF S
  <2>1. \A k \in 0 .. Len(s) : k \in S
    BY <1>0, <1>1, <1>2, UpTo
  <2> QED BY <1>0, <2>1
<1>4. \E g : g = [k \in 0 .. Len(s) |->
                    IF k = 0 THEN 0 ELSE g[k - 1] + s[k].low * Pow2[Group * (k - 1)]]
  BY <1>3
<1> DEFINE w == CHOOSE g : g = [k \in 0 .. Len(s) |->
                    IF k = 0 THEN 0 ELSE g[k - 1] + s[k].low * Pow2[Group * (k - 1)]]
<1>5. w = [k \in 0 .. Len(s) |->
                    IF k = 0 THEN 0 ELSE w[k - 1] + s[k].low * Pow2[Group * (k - 1)]]
  BY <1>4, Zenon
<1>6. \A n : Weight(s, n) = w[n]
  BY Zenon DEF Weight
<1> HIDE DEF w
<1>7. w[0] = 0
  BY <1>0, <1>5
<1>8. ASSUME NEW n \in 1 .. Len(s)
      PROVE  w[n] = w[n - 1] + s[n].low * Pow2[Group * (n - 1)]
  <2>1. n \in 0 .. Len(s) /\ n # 0
    BY <1>0
  <2> QED BY <1>5, <2>1
<1> QED BY <1>6, <1>7, <1>8

LEMMA WeightPrefix ==
  ASSUME NEW s \in Seq(VarintByte), NEW t \in Seq(VarintByte), NEW n \in Nat,
         n <= Len(s), n <= Len(t), \A i \in 1 .. n : s[i] = t[i]
  PROVE  Weight(s, n) = Weight(t, n)
<1> DEFINE S == {k \in Nat : k <= n => Weight(s, k) = Weight(t, k)}
<1>1. 0 \in S
  BY WeightStep
<1>2. ASSUME NEW k \in Nat, k < n, k \in S
      PROVE  k + 1 \in S
  <2>1. k + 1 \in 1 .. Len(s) /\ k + 1 \in 1 .. Len(t) /\ (k + 1) - 1 = k /\ s[k + 1] = t[k + 1]
    BY <1>2
  <2>2. Weight(s, k + 1) = Weight(s, k) + s[k + 1].low * Pow2[Group * k]
    BY <2>1, WeightStep
  <2>3. Weight(t, k + 1) = Weight(t, k) + t[k + 1].low * Pow2[Group * k]
    BY <2>1, WeightStep
  <2>4. Weight(s, k) = Weight(t, k)
    BY <1>2
  <2> QED BY <2>1, <2>2, <2>3, <2>4
<1>3. \A k \in 0 .. n : k \in S
  <2> HIDE DEF S
  <2> QED BY <1>1, <1>2, UpTo
<1> QED BY <1>3

(* So many groups of bits are within what the powers are counted for. *)
LEMMA Groups ==
  ASSUME NEW n \in Nat, n <= MaxBytes
  PROVE  /\ Group * n \in Nat /\ Group * n <= Group * MaxBytes
         /\ Pow2[Group * n] \in Nat /\ Pow2[Group * n] >= 1
         /\ n < MaxBytes => /\ Group * (n + 1) = Group + Group * n
                            /\ Group + Group * n <= Group * MaxBytes
                            /\ Pow2[Group * (n + 1)] = Pow2[Group] * Pow2[Group * n]
                            /\ Group * n < Long
         /\ n > 0 => Group * (n - 1) < Long /\ Group * n >= Group
<1>1. ASSUME NEW g \in Nat, NEW k \in Nat, NEW m \in Nat, k <= m
      PROVE  g * k \in Nat /\ g * m \in Nat /\ g * k <= g * m /\ g * (k + 1) = g + g * k
             /\ g * (m - 1) = g * m - g
             /\ (k > 0 => g * k >= g /\ g * (k - 1) = g * k - g)
  <2>1. g * (m - k) >= 0 /\ g * (m - k) = g * m - g * k
    BY <1>1
  <2>2. ASSUME k > 0 PROVE g * (k - 1) >= 0 /\ g * (k - 1) = g * k - g
    BY <2>2
  <2>3. g * k \in Nat /\ g * m \in Nat /\ g * (k + 1) = g + g * k /\ g * (m - 1) = g * m - g
    OBVIOUS
  <2> QED BY <2>1, <2>2, <2>3
<1>2. Group * n \in Nat /\ Group * n <= Group * MaxBytes /\ Group * (n + 1) = Group + Group * n
  BY <1>1, Widths
<1>3. Pow2[Group * n] \in Nat /\ Pow2[Group * n] >= 1
  BY <1>2, Widths, PowFacts
<1>4. ASSUME n < MaxBytes
      PROVE  /\ Group + Group * n <= Group * MaxBytes
             /\ Pow2[Group * (n + 1)] = Pow2[Group] * Pow2[Group * n]
             /\ Group * n < Long
  <2>1. n + 1 \in Nat /\ n + 1 <= MaxBytes /\ MaxBytes - 1 \in Nat /\ n <= MaxBytes - 1
    BY <1>4, Widths
  <2>2. Group * (n + 1) <= Group * MaxBytes
    BY <1>1, <2>1, Widths
  <2>3. Pow2[Group + Group * n] = Pow2[Group] * Pow2[Group * n]
    BY <1>2, <2>2, PowSum, Widths
  <2>4. Group * n <= Group * (MaxBytes - 1)
    BY <1>1, <2>1, Widths
  <2>5. Group * (MaxBytes - 1) \in Nat
    BY <1>1, <2>1, Widths
  <2> QED BY <1>2, <2>2, <2>3, <2>4, <2>5, Widths
<1>5. ASSUME n > 0
      PROVE  Group * (n - 1) < Long /\ Group * n >= Group
  <2>1. Group * n >= Group
    BY <1>1, <1>5, Widths
  <2>2. n - 1 \in Nat /\ MaxBytes - 1 \in Nat /\ n - 1 <= MaxBytes - 1
    BY <1>5, Widths
  <2>3. Group * (n - 1) <= Group * (MaxBytes - 1) /\ Group * (n - 1) \in Nat
        /\ Group * (MaxBytes - 1) \in Nat
    BY <1>1, <2>2, Widths
  <2> QED BY <2>1, <2>3, Widths
<1> QED BY <1>2, <1>3, <1>4, <1>5

LEMMA OnTop ==
  ASSUME NEW a \in Nat, NEW b \in Nat, NEW w \in Nat, NEW n \in Nat, w < a, n < b
  PROVE  w + n * a \in Nat /\ w + n * a < b * a
<1>1. (b - n - 1) * a >= 0
  OBVIOUS
<1>2. (b - n - 1) * a = b * a - n * a - a
  OBVIOUS
<1>3. n * a \in Nat /\ b * a \in Nat
  OBVIOUS
<1> QED BY <1>1, <1>2, <1>3

LEMMA WeightBound ==
  ASSUME NEW s \in Seq(VarintByte), NEW n \in Nat, n <= Len(s), n <= MaxBytes
  PROVE  Weight(s, n) \in Nat /\ Weight(s, n) < Pow2[Group * n]
<1> DEFINE S == {k \in Nat : k <= n => Weight(s, k) \in Nat /\ Weight(s, k) < Pow2[Group * k]}
<1>1. 0 \in S
  <2>1. Group * 0 = 0
    BY Widths
  <2> QED BY <2>1, WeightStep, PowFacts
<1>2. ASSUME NEW k \in Nat, k < n, k \in S
      PROVE  k + 1 \in S
  <2>1. k + 1 \in 1 .. Len(s) /\ (k + 1) - 1 = k /\ k < MaxBytes
    BY <1>2, Widths
  <2>2. Weight(s, k + 1) = Weight(s, k) + s[k + 1].low * Pow2[Group * k]
    BY <2>1, WeightStep
  <2>3. Weight(s, k) \in Nat /\ Weight(s, k) < Pow2[Group * k]
    BY <1>2
  <2>4. s[k + 1] \in VarintByte
    BY <2>1
  <2>5. s[k + 1].low \in Nat /\ s[k + 1].low < Pow2[Group]
    BY <2>4, Bytes
  <2>6. Pow2[Group * (k + 1)] = Pow2[Group] * Pow2[Group * k]
        /\ Pow2[Group * k] \in Nat
    <3>1. k <= MaxBytes
      BY <2>1, Widths
    <3> HIDE DEF S
    <3> QED BY <2>1, <3>1, Groups
  <2>7. Pow2[Group] \in Nat
    <3>1. 1 \in Nat /\ 1 <= MaxBytes /\ Group * 1 = Group
      BY Widths
    <3> QED BY <3>1, Groups
  <2>8. /\ Weight(s, k) + s[k + 1].low * Pow2[Group * k] \in Nat
        /\ Weight(s, k) + s[k + 1].low * Pow2[Group * k] < Pow2[Group] * Pow2[Group * k]
    BY <2>3, <2>5, <2>6, <2>7, OnTop
  <2> QED BY <2>2, <2>6, <2>8
<1>3. \A k \in 0 .. n : k \in S
  <2> HIDE DEF S
  <2> QED BY <1>1, <1>2, UpTo
<1> QED BY <1>3

-----------------------------------------------------------------------------
(* What the reader keeps of a byte.                                        *)

LEMMA BitsAdd ==
  ASSUME NEW s \in Seq(VarintByte), NEW i \in Nat, i < Len(s), i < MaxBytes,
         NEW width \in {Word, Long}
  PROVE  /\ Pow2[width] \in Nat /\ Pow2[width] >= 1
         /\ Weight(s, i + 1) % Pow2[width]
              = (Weight(s, i) % Pow2[width]) + Bits(width, i, s[i + 1].low)
<1> DEFINE A == Pow2[Group * i]
           W == Weight(s, i)
           n == s[i + 1].low
           P == Pow2[width]
<1>1. Weight(s, i + 1) = W + n * A
  <2>1. i + 1 \in 1 .. Len(s) /\ (i + 1) - 1 = i
    OBVIOUS
  <2> QED BY <2>1, WeightStep
<1>2. /\ width \in Nat /\ width >= 1 /\ width <= Long /\ width <= Group * MaxBytes
      /\ Group * MaxBytes \in Nat
  BY Widths
<1>3. P \in Nat /\ P >= 1
  BY <1>2, PowFacts
<1>4. /\ Group \in Nat /\ Group * i \in Nat /\ Group * (i + 1) = Group + Group * i
      /\ Group + Group * i <= Group * MaxBytes
      /\ Pow2[Group * (i + 1)] = Pow2[Group] * A
      /\ A \in Nat /\ A >= 1
  BY Groups, Widths
<1>5. n \in Nat /\ n < Pow2[Group]
  <2>1. s[i + 1] \in VarintByte
    OBVIOUS
  <2> QED BY <2>1, Bytes
<1>6. W \in Nat /\ W < A
  <2>1. i <= Len(s) /\ i <= MaxBytes
    BY Widths
  <2> QED BY <2>1, WeightBound
<1>7. CASE Group * (i + 1) <= width
  <2>1. BitsKept(width, i) = Group
    BY <1>2, <1>4, <1>7 DEF BitsKept
  <2>2. Pow2[Group] \in Nat /\ Pow2[Group] >= 1 /\ A <= P /\ Pow2[Group * (i + 1)] <= P
    <3>1. Group <= Group * MaxBytes /\ Group * i <= width
      BY <1>2, <1>4, <1>7, Widths
    <3>2. Pow2[Group] \in Nat /\ Pow2[Group] >= 1
      BY <1>2, <1>4, <3>1, PowFacts
    <3>3. A <= P
      BY <1>2, <1>4, <3>1, PowMono
    <3>4. Group * (i + 1) \in Nat
      BY <1>4
    <3>5. Pow2[Group * (i + 1)] <= P
      BY <1>2, <1>7, <3>4, PowMono
    <3> QED BY <3>2, <3>3, <3>5
  <2>3. n % Pow2[Group] = n
    BY <1>5, <2>2, ModSmall
  <2>4. W + n * A \in Nat /\ W + n * A < Pow2[Group] * A
    BY <1>4, <1>5, <1>6, <2>2, OnTop
  <2> HIDE DEF A, W, n, P
  <2>5. Bits(width, i, n) = n * A
    BY <2>1, <2>3 DEF Bits, A
  <2>6. (W + n * A) < P /\ W < P
    <3>1. Pow2[Group] * A \in Nat
      BY <1>4, <2>2
    <3> QED BY <1>3, <1>4, <1>6, <2>2, <2>4, <3>1
  <2>7. (W + n * A) % P = W + n * A
    <3>1. PICK sum \in Nat : sum = W + n * A
      BY <2>4
    <3> QED BY <1>3, <2>6, <3>1, ModSmall
  <2>8. W % P = W
    BY <1>3, <1>6, <2>6, ModSmall
  <2> QED BY <1>1, <1>3, <2>5, <2>7, <2>8 DEF A, W, n, P
<1>8. CASE Group * (i + 1) > width /\ Group * i < width
  <2>1. BitsKept(width, i) = width - Group * i
    BY <1>2, <1>4, <1>8 DEF BitsKept
  <2> DEFINE B == Pow2[width - Group * i]
  <2>2. B \in Nat /\ P = B * A /\ B >= 2 /\ A <= P
    BY <1>2, <1>4, <1>8, PowMono
  <2> HIDE DEF A, W, n, P, B
  <2>3. Bits(width, i, n) = (n % B) * A
    BY <2>1 DEF Bits, A, B
  <2>4. (W + n * A) % (B * A) = W + (n % B) * A
    <3>1. B >= 1
      BY <2>2
    <3> QED BY <1>4, <1>5, <1>6, <2>2, <3>1, ModAbove
  <2>5. W % P = W
    <3>1. W < P
      BY <1>3, <1>4, <1>6, <2>2
    <3> QED BY <1>3, <1>6, <3>1, ModSmall
  <2> QED BY <1>1, <1>3, <2>2, <2>3, <2>4, <2>5 DEF A, W, n, P
<1>9. CASE Group * i >= width
  <2>1. BitsKept(width, i) = 0
    BY <1>2, <1>4, <1>9, Widths DEF BitsKept
  <2>2. PICK B \in Nat : A = B * P
    <3>1. Pow2[Group * i - width] \in Nat /\ A = Pow2[Group * i - width] * P
      <4>1. Group * i <= Group * MaxBytes
        BY <1>2, <1>4
      <4> QED BY <1>2, <1>4, <1>9, <4>1, PowMono
    <3> QED BY <3>1
  <2>3. n % Pow2[0] = 0
    BY <1>5, PowFacts
  <2> HIDE DEF A, W, n, P
  <2>4. Bits(width, i, n) = 0
    <3>1. Bits(width, i, n) = 0 * A
      BY <2>1, <2>3 DEF Bits, A
    <3> QED BY <1>4, <3>1
  <2>5. n * A = P * (n * B) /\ n * B \in Int
    <3>1. n * (B * P) = P * (n * B)
      BY <1>3, <1>5
    <3> QED BY <1>5, <2>2, <3>1
  <2>6. (W + P * (n * B)) % P = W % P
    <3>1. PICK k \in Int : k = n * B
      BY <2>5
    <3>2. W \in Int /\ P \in Nat /\ P >= 1
      BY <1>3, <1>6
    <3>3. (W + P * k) % P = W % P
      BY <3>2, ModAdd
    <3> QED BY <3>1, <3>3
  <2>7. W % P \in Nat
    BY <1>3, <1>6
  <2> QED BY <1>1, <1>3, <2>4, <2>5, <2>6, <2>7 DEF A, W, n, P
<1> QED BY <1>2, <1>4, <1>7, <1>8, <1>9

-----------------------------------------------------------------------------
(* Numbers of a type, and the numbers that stand for them.                 *)

LEMMA WidthPowers ==
  ASSUME NEW width \in {Word, Long}
  PROVE  /\ Pow2[width - 1] \in Nat /\ Pow2[width - 1] >= 1
         /\ Pow2[width] \in Nat /\ Pow2[width] = 2 * Pow2[width - 1]
         /\ Pow2[Long] \in Nat /\ Pow2[Long] >= 1
         /\ \E k \in Nat : k >= 1 /\ Pow2[Long] = k * Pow2[width]
<1>1. PICK top \in Nat : /\ top = Group * MaxBytes /\ width \in 1 .. top /\ width - 1 \in 0 .. top
                         /\ Long \in 0 .. top /\ width <= Long
  BY Widths
<1>2. Pow2[width] = 2 * Pow2[width - 1] /\ Pow2[width - 1] \in Nat /\ Pow2[width - 1] >= 1
  BY <1>1, PowFacts
<1>3. Pow2[Long] \in Nat /\ Pow2[Long] >= 1
  BY <1>1, PowFacts
<1>4. Pow2[Long - width] \in Nat /\ Pow2[Long] = Pow2[Long - width] * Pow2[width]
  BY <1>1, PowMono
<1>5. Pow2[Long - width] >= 1
  <2>1. Long - width \in 0 .. top
    BY <1>1
  <2> QED BY <1>1, <2>1, PowFacts
<1> QED BY <1>2, <1>3, <1>4, <1>5

(* Zig-zagged in as many bits, a number becomes a natural one: twice what  *)
(* it was, or one less than twice its opposite.                            *)
LEMMA ZigZagBits ==
  ASSUME NEW width \in {Word, Long},
         NEW n \in -(Pow2[width - 1]) .. Pow2[width - 1] - 1
  PROVE  /\ ZigZag(n, width) \in Int
         /\ ZigZag(n, width) % Pow2[width] = IF n < 0 THEN -(2 * n) - 1 ELSE 2 * n
<1>1. PICK H \in Nat, P \in Nat :
           /\ H = Pow2[width - 1] /\ P = Pow2[width] /\ H >= 1 /\ P = 2 * H
           /\ n \in -H .. H - 1
  BY WidthPowers
<1>2. n \in Int /\ P >= 1 /\ -H <= n /\ n <= H - 1
  BY <1>1
<1> DEFINE m == (2 * n) % P
           d == Signed(m, width)
           z == IF n < 0 THEN -d - 1 ELSE d
<1>3. ZigZag(n, width) = z
  BY <1>1 DEF ZigZag
<1>4. m = IF n < 0 THEN 2 * n + P ELSE 2 * n
  <2>1. CASE n < 0
    <3>1. 2 * n + P \in Int /\ 0 <= 2 * n + P /\ 2 * n + P < P
      BY <1>1, <1>2, <2>1
    <3>2. (P * (-1) + (2 * n + P)) % P = 2 * n + P
      BY <1>2, <3>1, ModUnique
    <3>3. P * (-1) + (2 * n + P) = 2 * n
      BY <1>1, <1>2
    <3> QED BY <2>1, <3>2, <3>3
  <2>2. CASE ~(n < 0)
    <3>1. 2 * n \in Nat /\ 2 * n < P
      BY <1>1, <1>2, <2>2
    <3>2. (2 * n) % P = 2 * n
      BY <1>2, <3>1, ModSmall
    <3> QED BY <2>2, <3>2
  <2> QED BY <2>1, <2>2
<1> HIDE DEF m
<1>5. d = IF m >= H THEN m - P ELSE m
  BY <1>1 DEF Signed
<1> HIDE DEF d
<1>6. z = (IF n < 0 THEN -(2 * n) - 1 ELSE 2 * n) \/ z = (IF n < 0 THEN -(2 * n) - 1 ELSE 2 * n) - P
  <2>1. m \in Int /\ d \in Int
    BY <1>1, <1>2, <1>4, <1>5
  <2>2. CASE n < 0
    BY <1>1, <1>2, <1>4, <1>5, <2>1, <2>2
  <2>3. CASE ~(n < 0)
    BY <1>1, <1>2, <1>4, <1>5, <2>1, <2>3
  <2> QED BY <2>2, <2>3
<1> HIDE DEF z
<1>7. PICK u \in Nat : u = (IF n < 0 THEN -(2 * n) - 1 ELSE 2 * n) /\ u < P
  BY <1>1, <1>2
<1>8. z = u \/ z = P * (-1) + u
  BY <1>1, <1>6, <1>7
<1>9. z \in Int /\ z % P = u
  <2>1. u % P = u
    BY <1>2, <1>7, ModSmall
  <2>2. (P * (-1) + u) % P = u
    <3>1. -1 \in Int /\ u \in Int /\ 0 <= u
      OBVIOUS
    <3> QED BY <1>2, <1>7, <3>1, ModUnique
  <2>3. P * (-1) + u \in Int
    OBVIOUS
  <2> QED BY <1>8, <2>1, <2>2, <2>3
<1> QED BY <1>1, <1>3, <1>7, <1>9

LEMMA ValueTypes ==
  ASSUME NEW t \in Types, NEW n \in Values(t)
  PROVE  /\ n \in Int /\ WidthOf(t) \in {Word, Long}
         /\ -(Pow2[WidthOf(t)]) < n /\ n < Pow2[WidthOf(t)]
         /\ t \in {"sint32", "sint64"} =>
              n \in -(Pow2[WidthOf(t) - 1]) .. Pow2[WidthOf(t) - 1] - 1
         /\ t = "bool" => n \in {0, 1}
<1>1. WidthOf(t) \in {Word, Long}
  BY DEF WidthOf
<1>2. PICK H \in Nat, P \in Nat : /\ H = Pow2[WidthOf(t) - 1] /\ P = Pow2[WidthOf(t)]
                                  /\ P = 2 * H /\ H >= 1
  BY <1>1, WidthPowers
<1>3. CASE t \in {"int32", "sint32", "enum", "int64", "sint64"}
  <2>1. n \in -H .. H - 1
    BY <1>2, <1>3 DEF Values
  <2> QED BY <1>1, <1>2, <1>3, <2>1
<1>4. CASE t \in {"uint32", "uint64"}
  <2>1. n \in 0 .. P - 1
    BY <1>2, <1>4 DEF Values
  <2> QED BY <1>1, <1>2, <1>4, <2>1
<1>5. CASE t = "bool"
  <2>1. n \in {0, 1}
    BY <1>5 DEF Values
  <2> QED BY <1>1, <1>2, <1>5, <2>1
<1> QED BY <1>3, <1>4, <1>5 DEF Types, Narrow

LEMMA ArgumentRange ==
  ASSUME NEW t \in Types, NEW n \in Values(t)
  PROVE  ToU64(t, n) \in Nat /\ ToU64(t, n) < Pow2[Long]
<1>1. n \in Int /\ WidthOf(t) \in {Word, Long} /\ Pow2[Long] \in Nat /\ Pow2[Long] >= 1
  BY ValueTypes, WidthPowers
<1>2. \A x \in Int : x % Pow2[Long] \in Nat /\ x % Pow2[Long] < Pow2[Long]
  BY <1>1, ModFacts
<1>3. CASE t \in {"sint32", "sint64"}
  <2>1. ZigZag(n, WidthOf(t)) \in Int
    BY <1>1, <1>3, ValueTypes, ZigZagBits
  <2>2. ToU64(t, n) = ZigZag(n, WidthOf(t)) % Pow2[Long]
    BY <1>3 DEF ToU64
  <2> QED BY <1>2, <2>1, <2>2
<1>4. CASE t \notin {"sint32", "sint64"}
  <2>1. ToU64(t, n) = n % Pow2[Long]
    BY <1>4 DEF ToU64
  <2> QED BY <1>1, <1>2, <2>1
<1> QED BY <1>3, <1>4

(* Reading it back. *)
LEMMA CastRight ==
  ASSUME NEW t \in Types, NEW n \in Values(t), NEW u \in Readers(t)
  PROVE  FromBits(u, ToU64(t, n) % Pow2[WidthOf(u)]) = Cast(u, n)
<1>1. u \in Types /\ WidthOf(u) \in {Word, Long}
  BY DEF Readers, Types, Narrow, Plain, WidthOf
<1>2. n \in Int
  BY ValueTypes
<1>3. PICK k \in Nat, P \in Nat, Q \in Nat :
         k >= 1 /\ P = Pow2[WidthOf(u)] /\ P >= 1 /\ Q = Pow2[Long] /\ Q = k * P
  <2>1. PICK k \in Nat : k >= 1 /\ Pow2[Long] = k * Pow2[WidthOf(u)]
    BY <1>1, WidthPowers
  <2>2. /\ Pow2[WidthOf(u) - 1] \in Nat /\ Pow2[WidthOf(u) - 1] >= 1
        /\ Pow2[WidthOf(u)] \in Nat /\ Pow2[WidthOf(u)] = 2 * Pow2[WidthOf(u) - 1]
        /\ Pow2[Long] \in Nat
    BY <1>1, WidthPowers
  <2>3. Pow2[WidthOf(u)] >= 1
    BY <2>2
  <2> QED BY <2>1, <2>2, <2>3
<1>4. \A x \in Int : (x % Q) % P = x % P
  BY <1>3, ModMod
<1>5. CASE t \in {"sint32", "sint64"}
  <2>1. u = t
    <3>1. Readers(t) = {t}
      BY <1>5 DEF Readers, Plain
    <3> QED BY <3>1
  <2>2. /\ n \in -(Pow2[WidthOf(t) - 1]) .. Pow2[WidthOf(t) - 1] - 1
        /\ WidthOf(t) \in {Word, Long}
    BY <1>5, ValueTypes
  <2>3. ZigZag(n, WidthOf(t)) \in Int
        /\ ZigZag(n, WidthOf(t)) % P = IF n < 0 THEN -(2 * n) - 1 ELSE 2 * n
    BY <1>3, <2>1, <2>2, ZigZagBits
  <2>4. ToU64(t, n) % P = IF n < 0 THEN -(2 * n) - 1 ELSE 2 * n
    <3>1. ToU64(t, n) = ZigZag(n, WidthOf(t)) % Q
      BY <1>3, <1>5 DEF ToU64
    <3> QED BY <1>4, <2>3, <3>1
  <2>5. PICK m \in Nat : m = ToU64(t, n) % P /\ m = IF n < 0 THEN -(2 * n) - 1 ELSE 2 * n
    BY <1>2, <2>4
  <2>6. FromBits(u, m) = IF m % 2 = 1 THEN -(m \div 2) - 1 ELSE m \div 2
    BY <1>5, <2>1 DEF FromBits
  <2>7. (IF m % 2 = 1 THEN -(m \div 2) - 1 ELSE m \div 2) = n
    BY <1>2, <2>5
  <2>8. Cast(u, n) = n
    BY <1>5, <2>1 DEF Cast
  <2> QED BY <1>3, <2>5, <2>6, <2>7, <2>8
<1>6. CASE t \notin {"sint32", "sint64"}
  <2>1. ToU64(t, n) % P = n % P
    <3>1. ToU64(t, n) = n % Q
      BY <1>3, <1>6 DEF ToU64
    <3> QED BY <1>2, <1>4, <3>1
  <2>2. u \in {"int32", "int64", "uint32", "uint64", "enum", "bool"}
    BY <1>6 DEF Readers, Types, Narrow, Plain
  <2>3. CASE u \in {"int32", "int64", "enum"}
    BY <1>3, <2>1, <2>3 DEF FromBits, Cast
  <2>4. CASE u \in {"uint32", "uint64"}
    BY <1>3, <2>1, <2>4 DEF FromBits, Cast
  <2>5. CASE u = "bool"
    <3>1. t \in Narrow
      BY <1>6, <2>5 DEF Readers, Types, Narrow, Plain
    <3>2. WidthOf(t) = WidthOf(u)
      BY <2>5, <3>1 DEF WidthOf, Narrow
    <3>3. -P < n /\ n < P
      BY <1>3, <3>2, ValueTypes
    <3>4. n % P = 0 <=> n = 0
      BY <1>2, <1>3, <3>3, ModZero
    <3>5. FromBits(u, n % P) = IF n % P = 0 THEN 0 ELSE 1
      BY <2>5 DEF FromBits
    <3>6. Cast(u, n) = IF n = 0 THEN 0 ELSE 1
      BY <2>5 DEF Cast
    <3> QED BY <1>3, <2>1, <3>4, <3>5, <3>6
  <2> QED BY <2>2, <2>3, <2>4, <2>5
<1> QED BY <1>5, <1>6

(* sizeof_varint is a count of the bytes. *)
LEMMA SizeOfBytes ==
  ASSUME NEW n \in Nat, NEW k \in Nat, k >= 1, k <= MaxBytes, n < Pow2[Group * k],
         k > 1 => Pow2[Group * (k - 1)] <= n
  PROVE  sizeof_varint(n) = k
<1> DEFINE S == {j \in 1 .. MaxBytes - 1 : n >= Pow2[Group * j]}
<1>1. ASSUME NEW i \in Nat, NEW j \in Nat, i <= j, j <= MaxBytes
      PROVE  /\ Pow2[Group * i] \in Nat /\ Pow2[Group * j] \in Nat
             /\ Pow2[Group * i] <= Pow2[Group * j]
  <2>1. ASSUME NEW g \in Nat PROVE g * i <= g * j
    <3>1. g * (j - i) >= 0 /\ g * (j - i) = g * j - g * i
      BY <1>1
    <3> QED BY <3>1
  <2>2. Group * i <= Group * j
    BY <2>1, Widths
  <2>3. Group * i \in Nat /\ Group * j \in Nat /\ Group * j <= Group * MaxBytes
    BY <1>1, Groups, Widths
  <2> QED BY <2>2, <2>3, PowMono
<1>2. S = 1 .. k - 1
  <2>1. ASSUME NEW j \in S
        PROVE  j \in 1 .. k - 1
    <3>1. j \in Nat /\ j >= 1 /\ j <= MaxBytes /\ n >= Pow2[Group * j]
      BY Widths
    <3>2. ~(k <= j)
      BY <1>1, <3>1
    <3> QED BY <3>1, <3>2
  <2>2. ASSUME NEW j \in 1 .. k - 1
        PROVE  j \in S
    <3>1. j \in Nat /\ j \in 1 .. MaxBytes - 1 /\ j <= k - 1 /\ k > 1 /\ k - 1 \in Nat /\ k - 1 <= MaxBytes
      BY Widths
    <3>2. Pow2[Group * j] <= Pow2[Group * (k - 1)] /\ Pow2[Group * (k - 1)] <= n
          /\ Pow2[Group * j] \in Nat /\ Pow2[Group * (k - 1)] \in Nat
      BY <1>1, <3>1
    <3> QED BY <3>1, <3>2
  <2> QED BY <2>1, <2>2
<1>3. Cardinality(1 .. k - 1) = k - 1
  <2>1. 1 \in Int /\ k - 1 \in Int
    OBVIOUS
  <2>2. Cardinality(1 .. k - 1) = IF 1 > k - 1 THEN 0 ELSE (k - 1) - 1 + 1
    BY <2>1, FS_Interval
  <2> QED BY <2>2
<1>4. sizeof_varint(n) = 1 + Cardinality(S)
  BY Zenon DEF sizeof_varint
<1> HIDE DEF S
<1> QED BY <1>2, <1>3, <1>4

-----------------------------------------------------------------------------
(* The inductive invariant.                                                *)

(* What has been written and what is left of the argument make it up; the  *)
(* bytes are few enough, as something is left after each of them.          *)
Writing ==
  phase = "write" =>
    /\ as \in Types /\ start = 0 /\ number = 0
    /\ Len(buffer) < MaxBytes
    /\ \A i \in 1 .. Len(buffer) : buffer[i].more
    /\ rest \in Nat
    /\ Weight(buffer, Len(buffer)) + rest * Pow2[Group * Len(buffer)] = ToU64(as, value)
    /\ Len(buffer) > 0 => rest >= 1

(* The bytes that were written stand for the argument, none too many.      *)
Written ==
  phase # "write" /\ as # "foreign" =>
    /\ length \in 1 .. Len(buffer) /\ length <= MaxBytes
    /\ \A i \in 1 .. length - 1 : buffer[i].more
    /\ ~buffer[length].more
    /\ Weight(buffer, length) = ToU64(as, value)
    /\ length > 1 => Pow2[Group * (length - 1)] <= ToU64(as, value)

(* The reader has what its width keeps of the bytes it went through.       *)
BeingRead ==
  phase = "read" =>
    /\ start \in 0 .. Len(buffer) /\ start < MaxBytes
    /\ \A i \in 1 .. start : buffer[i].more
    /\ number = Weight(buffer, start) % Pow2[WidthOf(to)]

ReadOk ==
  /\ start \in 1 .. Len(buffer) /\ start <= MaxBytes
  /\ \A i \in 1 .. start - 1 : buffer[i].more
  /\ ~buffer[start].more
  /\ res = [is |-> "Ok", value |-> FromBits(to, Weight(buffer, start) % Pow2[WidthOf(to)])]
TooLong ==
  /\ Len(buffer) >= MaxBytes
  /\ \A i \in 1 .. MaxBytes : buffer[i].more
  /\ res.is = "Varint"
CutOff ==
  /\ Len(buffer) < MaxBytes
  /\ \A i \in 1 .. Len(buffer) : buffer[i].more
  /\ res.is = "UnexpectedEndOfBuffer"

CodecIInv ==
  /\ phase \in {"write", "read", "done"}
  /\ to \in Types /\ as \in Types \cup {"foreign"}
  /\ as # "foreign" => value \in Values(as)
  /\ buffer \in Seq(VarintByte)
  /\ Writing
  /\ Written
  /\ BeingRead
  /\ phase = "done" => ReadOk \/ TooLong \/ CutOff

LEMMA CodecInitInv ==
  ASSUME CodecInit
  PROVE  CodecIInv
<1>1. to \in Types /\ start = 0 /\ number = 0
  BY DEF CodecInit
<1>2. WidthOf(to) \in {Word, Long}
  BY DEF WidthOf
<1>3. \A s \in Seq(VarintByte) : Weight(s, 0) = 0
  BY WeightStep
<1>4. CASE phase = "write"
  <2>1. buffer = <<>> /\ as \in Types /\ value \in Values(as) /\ rest = ToU64(as, value)
    BY <1>4 DEF CodecInit
  <2>2. as # "foreign"
    BY <2>1 DEF Types, Narrow
  <2>3. Len(buffer) = 0 /\ buffer \in Seq(VarintByte)
    BY <2>1
  <2>4. rest \in Nat
    BY <2>1, ArgumentRange
  <2>5. Pow2[Group * 0] = 1
    <3>1. Group * 0 = 0
      BY Widths
    <3> QED BY <3>1, PowFacts
  <2>6. Weight(buffer, Len(buffer)) + rest * Pow2[Group * Len(buffer)] = rest
    <3>1. Weight(buffer, Len(buffer)) = 0 /\ Pow2[Group * Len(buffer)] = 1
      BY <1>3, <2>3, <2>5
    <3> QED BY <2>4, <3>1
  <2>7. Writing
    <3>1. Len(buffer) < MaxBytes /\ \A i \in 1 .. Len(buffer) : buffer[i].more
      BY <2>3, Widths
    <3>2. ~(Len(buffer) > 0)
      BY <2>3
    <3> QED BY <1>1, <2>1, <2>4, <2>6, <3>1, <3>2 DEF Writing
  <2> QED BY <1>1, <1>4, <2>1, <2>3, <2>7 DEF CodecIInv, Written, BeingRead
<1>5. CASE phase # "write"
  <2>1. phase = "read" /\ buffer \in Foreign /\ as = "foreign"
    BY <1>5 DEF CodecInit
  <2>2. buffer \in Seq(VarintByte)
    BY <2>1, ForeignAssumption
  <2>3. Weight(buffer, start) % Pow2[WidthOf(to)] = 0
    <3>1. Pow2[WidthOf(to)] \in Nat /\ Pow2[WidthOf(to)] >= 1
      <4>1. PICK h \in Nat : h = Pow2[WidthOf(to) - 1] /\ h >= 1 /\ Pow2[WidthOf(to)] = 2 * h
        BY <1>2, WidthPowers
      <4> QED BY <4>1
    <3>2. 0 % Pow2[WidthOf(to)] = 0
      BY <3>1, ModSmall
    <3> QED BY <1>1, <1>3, <2>2, <3>2
  <2>4. BeingRead
    BY <1>1, <2>2, <2>3, Widths DEF BeingRead
  <2> QED BY <1>1, <2>1, <2>2, <2>4 DEF CodecIInv, Writing, Written
<1> QED BY <1>4, <1>5

(* Another byte, and more to come.                                         *)
LEMMA WriteByteInv ==
  ASSUME CodecIInv, WriteByte
  PROVE  CodecIInv'
<1> DEFINE low == rest % Pow2[Group]
           b == [more |-> TRUE, low |-> low]
<1>1. PICK k \in Nat : k = Len(buffer)
  BY DEF CodecIInv
<1>2. /\ phase = "write" /\ buffer \in Seq(VarintByte) /\ k < MaxBytes /\ as \in Types
      /\ value \in Values(as)
      /\ \A i \in 1 .. k : buffer[i].more
      /\ rest \in Nat /\ rest >= Pow2[Group]
      /\ Weight(buffer, k) + rest * Pow2[Group * k] = ToU64(as, value)
      /\ start = 0 /\ number = 0
  <2>1. as # "foreign" \/ as \notin Types
    BY DEF Types, Narrow
  <2> QED BY <1>1, <2>1 DEF CodecIInv, Writing, WriteByte, More
<1>3. /\ buffer' = Append(buffer, b) /\ rest' = rest \div Pow2[Group]
      /\ phase' = phase /\ as' = as /\ value' = value /\ to' = to /\ start' = start
      /\ number' = number
  BY DEF WriteByte
<1>4. Pow2[Group] \in Nat /\ Pow2[Group] >= 1
  <2>1. 1 \in Nat /\ 1 <= MaxBytes /\ Group * 1 = Group
    BY Widths
  <2> QED BY <2>1, Groups
<1>5. /\ low \in Nat /\ low < Pow2[Group] /\ rest \div Pow2[Group] \in Nat
      /\ rest = Pow2[Group] * (rest \div Pow2[Group]) + low
      /\ rest \div Pow2[Group] >= 1
  <2>1. PICK q \in Int, l \in Nat, p \in Nat :
           /\ q = rest \div Pow2[Group] /\ l = low /\ p = Pow2[Group] /\ l < p
           /\ rest = p * q + l /\ p >= 1
    BY <1>2, <1>4, ModFacts
  <2>2. q >= 1
    <3>1. ASSUME q <= 0 PROVE p * q <= 0
      BY <3>1
    <3> QED BY <1>2, <2>1, <3>1
  <2> QED BY <2>1, <2>2
<1>6. b \in VarintByte /\ b.more /\ b.low = low
  BY <1>4, <1>5 DEF VarintByte
<1> HIDE DEF b
<1>7. PICK s \in Seq(VarintByte) : s = Append(buffer, b)
  <2>1. Append(buffer, b) \in Seq(VarintByte)
    BY <1>2, <1>6
  <2> QED BY <2>1
<1>8. Len(s) = k + 1 /\ (\A i \in 1 .. k : s[i] = buffer[i]) /\ s[k + 1] = b
  BY <1>1, <1>2, <1>6, <1>7
<1>9. Weight(s, k + 1) = Weight(buffer, k) + low * Pow2[Group * k]
  <2>1. k + 1 \in 1 .. Len(s) /\ (k + 1) - 1 = k
    BY <1>8
  <2>2. Weight(s, k + 1) = Weight(s, k) + s[k + 1].low * Pow2[Group * k]
    BY <2>1, WeightStep
  <2>3. Weight(s, k) = Weight(buffer, k)
    <3>1. k <= Len(s) /\ k <= Len(buffer)
      BY <1>1, <1>8
    <3> QED BY <1>2, <1>8, <3>1, WeightPrefix
  <2> QED BY <1>6, <1>8, <2>2, <2>3
<1> HIDE DEF low
<1>10. PICK A \in Nat, q \in Nat, p \in Nat, W \in Nat :
          /\ A = Pow2[Group * k] /\ A >= 1 /\ q = rest \div Pow2[Group] /\ q >= 1
          /\ p = Pow2[Group] /\ W = Weight(buffer, k) /\ rest = p * q + low
          /\ Pow2[Group * (k + 1)] = p * A
  <2>1. k <= MaxBytes /\ k <= Len(buffer)
    BY <1>1, <1>2, Widths
  <2>2. Weight(buffer, k) \in Nat
    BY <1>2, <2>1, WeightBound
  <2>3. /\ Pow2[Group * k] \in Nat /\ Pow2[Group * k] >= 1
        /\ Pow2[Group * (k + 1)] = Pow2[Group] * Pow2[Group * k]
    BY <1>2, <2>1, Groups
  <2> QED BY <1>4, <1>5, <2>2, <2>3
<1>11. Weight(s, k + 1) + q * Pow2[Group * (k + 1)] = ToU64(as, value)
  <2>1. (W + low * A) + q * (p * A) = W + (p * q + low) * A
    BY <1>5
  <2> QED BY <1>2, <1>9, <1>10, <2>1
<1>12. k + 1 < MaxBytes
  <2>1. k + 1 \in Nat /\ k + 1 <= MaxBytes
    BY <1>2, Widths
  <2>2. SUFFICES ASSUME k + 1 = MaxBytes PROVE FALSE
    BY <2>1, Widths
  <2>3. Pow2[Long] <= Pow2[Group * (k + 1)]
    <3>1. Group * (k + 1) = Group * MaxBytes
      BY <2>2
    <3>2. Long \in Nat /\ Group * (k + 1) \in Nat /\ Long <= Group * (k + 1)
          /\ Group * (k + 1) <= Group * MaxBytes
      BY <3>1, Widths
    <3> QED BY <3>2, PowMono
  <2>4. Pow2[Group * (k + 1)] \in Nat
    BY <2>1, Groups
  <2>5. Pow2[Group * (k + 1)] <= q * Pow2[Group * (k + 1)]
    <3>1. ASSUME NEW x \in Nat, NEW y \in Nat, x >= 1 PROVE y <= x * y
      BY <3>1
    <3> QED BY <1>10, <2>4, <3>1
  <2>6. Weight(s, k + 1) \in Nat
    <3>1. k + 1 <= Len(s)
      BY <1>8
    <3> QED BY <2>1, <3>1, WeightBound
  <2>7. ToU64(as, value) \in Nat /\ ToU64(as, value) < Pow2[Long]
    BY <1>2, ArgumentRange
  <2>8. q * Pow2[Group * (k + 1)] \in Nat /\ Pow2[Long] \in Nat
    <3>1. Pow2[Long] \in Nat
      BY WidthPowers
    <3> QED BY <1>10, <2>4, <3>1
  <2>9. PICK w \in Nat, x \in Nat, y \in Nat, z \in Nat, u \in Nat :
           /\ w = Weight(s, k + 1) /\ x = q * Pow2[Group * (k + 1)] /\ u = ToU64(as, value)
           /\ y = Pow2[Group * (k + 1)] /\ z = Pow2[Long]
    BY <2>4, <2>6, <2>7, <2>8
  <2>10. w + x = u /\ z <= y /\ y <= x /\ u < z
    BY <1>11, <2>3, <2>5, <2>7, <2>9
  <2> QED BY <2>10
<1>13. \A i \in 1 .. k + 1 : s[i].more
  <2> SUFFICES ASSUME NEW i \in 1 .. k + 1 PROVE s[i].more
    OBVIOUS
  <2>1. CASE i \in 1 .. k
    BY <1>2, <1>8, <2>1
  <2>2. CASE i = k + 1
    BY <1>6, <1>8, <2>2
  <2> QED BY <2>1, <2>2
<1>14. buffer' = s /\ Len(buffer') = k + 1 /\ rest' = q
  BY <1>3, <1>7, <1>8, <1>10
<1>15. Writing'
  BY <1>2, <1>3, <1>10, <1>11, <1>12, <1>13, <1>14 DEF Writing
<1>16. phase' = "write" /\ to' \in Types /\ as' \in Types /\ value' \in Values(as')
       /\ buffer' \in Seq(VarintByte)
  BY <1>2, <1>3, <1>14 DEF CodecIInv
<1> QED BY <1>15, <1>16 DEF CodecIInv, Written, BeingRead

(* The last byte, and what follows it in the buffer.                       *)
LEMMA WriteLastInv ==
  ASSUME CodecIInv, WriteLast
  PROVE  CodecIInv'
<1> DEFINE b == [more |-> FALSE, low |-> rest]
<1>1. PICK k \in Nat : k = Len(buffer)
  BY DEF CodecIInv
<1>2. /\ phase = "write" /\ buffer \in Seq(VarintByte) /\ k < MaxBytes /\ as \in Types
      /\ value \in Values(as)
      /\ \A i \in 1 .. k : buffer[i].more
      /\ rest \in Nat /\ ~(rest >= Pow2[Group])
      /\ Weight(buffer, k) + rest * Pow2[Group * k] = ToU64(as, value)
      /\ start = 0 /\ number = 0 /\ (k > 0 => rest >= 1)
  <2>1. as # "foreign" \/ as \notin Types
    BY DEF Types, Narrow
  <2> QED BY <1>1, <2>1 DEF CodecIInv, Writing, WriteLast, More
<1>3. PICK tail \in Tails : buffer' = Append(buffer, b) \o tail
  BY DEF WriteLast
<1>4. /\ phase' = "read" /\ as' = as /\ value' = value /\ to' = to /\ start' = start
      /\ number' = number /\ length' = k + 1
  BY <1>1 DEF WriteLast
<1>5. b \in VarintByte /\ ~b.more /\ b.low = rest
  <2>1. Pow2[Group] \in Nat
    <3>1. 1 \in Nat /\ 1 <= MaxBytes /\ Group * 1 = Group
      BY Widths
    <3> QED BY <3>1, Groups
  <2> QED BY <1>2, <2>1 DEF VarintByte
<1> HIDE DEF b
<1>6. tail \in Seq(VarintByte)
  BY <1>3, ForeignAssumption
<1>7. PICK s \in Seq(VarintByte) : s = Append(buffer, b) \o tail
  <2>1. Append(buffer, b) \o tail \in Seq(VarintByte)
    BY <1>2, <1>5, <1>6
  <2> QED BY <2>1
<1>8. Len(s) >= k + 1 /\ (\A i \in 1 .. k : s[i] = buffer[i]) /\ s[k + 1] = b
  <2>1. PICK head \in Seq(VarintByte) : head = Append(buffer, b)
    <3>1. Append(buffer, b) \in Seq(VarintByte)
      BY <1>2, <1>5
    <3> QED BY <3>1
  <2>2. Len(head) = k + 1 /\ (\A i \in 1 .. k : head[i] = buffer[i]) /\ head[k + 1] = b
    BY <1>1, <1>2, <1>5, <2>1
  <2>3. Len(s) = Len(head) + Len(tail) /\ \A i \in 1 .. Len(head) : s[i] = head[i]
    BY <1>6, <1>7, <2>1
  <2>4. Len(tail) \in Nat
    BY <1>6
  <2> QED BY <2>2, <2>3, <2>4
<1>9. Weight(s, k + 1) = ToU64(as, value)
  <2>1. k + 1 \in 1 .. Len(s) /\ (k + 1) - 1 = k
    BY <1>8
  <2>2. Weight(s, k + 1) = Weight(s, k) + s[k + 1].low * Pow2[Group * k]
    BY <2>1, WeightStep
  <2>3. Weight(s, k) = Weight(buffer, k)
    <3>1. k <= Len(s) /\ k <= Len(buffer)
      BY <1>1, <1>8
    <3> QED BY <1>2, <1>8, <3>1, WeightPrefix
  <2> QED BY <1>2, <1>5, <1>8, <2>2, <2>3
<1>10. k > 0 => Pow2[Group * k] <= ToU64(as, value)
  <2> SUFFICES ASSUME k > 0 PROVE Pow2[Group * k] <= ToU64(as, value)
    OBVIOUS
  <2>1. k <= MaxBytes /\ k <= Len(buffer)
    BY <1>1, <1>2, Widths
  <2>2. PICK W \in Nat, A \in Nat : W = Weight(buffer, k) /\ A = Pow2[Group * k]
    BY <1>2, <2>1, WeightBound, Groups
  <2>3. ASSUME NEW x \in Nat, x >= 1 PROVE A <= W + x * A
    <3>1. A <= x * A
      BY <2>3
    <3> QED BY <3>1
  <2> QED BY <1>2, <2>2, <2>3
<1>11. buffer' = s
  BY <1>3, <1>7
<1>12. Written'
  <2>1. length' \in 1 .. Len(s) /\ length' <= MaxBytes /\ length' - 1 = k
    BY <1>2, <1>4, <1>8, Widths
  <2>2. \A i \in 1 .. length' - 1 : s[i].more
    BY <1>2, <1>8, <2>1
  <2>3. ~s[length'].more
    BY <1>4, <1>5, <1>8
  <2>4. Weight(s, length') = ToU64(as, value)
    BY <1>4, <1>9
  <2>5. length' > 1 => Pow2[Group * (length' - 1)] <= ToU64(as, value)
    <3>1. k + 1 > 1 => Pow2[Group * k] <= ToU64(as, value)
      <4>1. k + 1 > 1 => k > 0
        OBVIOUS
      <4> QED BY <1>10, <4>1
    <3>2. length' - 1 = k /\ length' = k + 1
      BY <1>4, <2>1
    <3> QED BY <3>1, <3>2
  <2> QED BY <1>4, <1>11, <2>1, <2>2, <2>3, <2>4, <2>5 DEF Written
<1>13. BeingRead'
  <2>1. to \in Types /\ WidthOf(to) \in {Word, Long}
    BY DEF CodecIInv, WidthOf
  <2>2. Weight(s, 0) % Pow2[WidthOf(to)] = 0
    <3>1. Pow2[WidthOf(to)] \in Nat /\ Pow2[WidthOf(to)] >= 1
      <4>1. PICK h \in Nat : h = Pow2[WidthOf(to) - 1] /\ h >= 1 /\ Pow2[WidthOf(to)] = 2 * h
        BY <2>1, WidthPowers
      <4> QED BY <4>1
    <3>2. 0 % Pow2[WidthOf(to)] = 0
      BY <3>1, ModSmall
    <3> QED BY <3>2, WeightStep
  <2>3. start' = 0 /\ number' = 0 /\ to' = to
    BY <1>2, <1>4
  <2>4. start' \in 0 .. Len(s) /\ start' < MaxBytes
    BY <1>8, <2>3, Widths
  <2>5. number' = Weight(s, start') % Pow2[WidthOf(to')]
    BY <2>2, <2>3
  <2>6. \A i \in 1 .. start' : s[i].more
    BY <2>3
  <2> QED BY <1>4, <1>11, <2>4, <2>5, <2>6 DEF BeingRead
<1>14. to' \in Types /\ as' \in Types /\ value' \in Values(as') /\ buffer' \in Seq(VarintByte)
  BY <1>2, <1>4, <1>11 DEF CodecIInv
<1> QED BY <1>4, <1>12, <1>13, <1>14 DEF CodecIInv, Writing

(* Reading changes nothing of what was written.                            *)
LEMMA StillWritten ==
  ASSUME CodecIInv, phase = "read", phase' # "write",
         UNCHANGED <<as, value, rest, buffer, length, to>>
  PROVE  Writing' /\ Written' /\ to' \in Types /\ as' \in Types \cup {"foreign"}
         /\ (as' # "foreign" => value' \in Values(as')) /\ buffer' \in Seq(VarintByte)
BY DEF CodecIInv, Writing, Written

LEMMA ReadByteInv ==
  ASSUME CodecIInv, ReadByte
  PROVE  CodecIInv'
<1> DEFINE b == buffer[start + 1]
           n == Weight(buffer, start + 1) % Pow2[WidthOf(to)]
<1>1. /\ phase = "read" /\ buffer \in Seq(VarintByte) /\ to \in Types
      /\ start \in Nat /\ start < Len(buffer) /\ start < MaxBytes
      /\ \A i \in 1 .. start : buffer[i].more
      /\ number = Weight(buffer, start) % Pow2[WidthOf(to)]
      /\ Len(buffer) \in Nat
  BY DEF CodecIInv, BeingRead, ReadByte
<1>2. WidthOf(to) \in {Word, Long}
  BY DEF WidthOf
<1>3. number' = n
  <2>1. number' = number + Bits(WidthOf(to), start, b.low)
    BY DEF ReadByte
  <2>2. n = number + Bits(WidthOf(to), start, b.low)
    BY <1>1, <1>2, BitsAdd
  <2> QED BY <2>1, <2>2
<1>4. start' = start + 1 /\ UNCHANGED <<as, value, rest, buffer, length, to>>
  BY DEF ReadByte
<1>5. phase' \in {"read", "done"}
  BY <1>1 DEF ReadByte, Return
<1>6. /\ Writing' /\ Written' /\ to' \in Types /\ as' \in Types \cup {"foreign"}
      /\ (as' # "foreign" => value' \in Values(as')) /\ buffer' \in Seq(VarintByte)
  BY <1>1, <1>4, <1>5, StillWritten
<1>7. start + 1 \in 1 .. Len(buffer) /\ start + 1 <= MaxBytes /\ (start + 1) - 1 = start
  BY <1>1, Widths
<1> HIDE DEF n
<1>8. CASE ~b.more
  <2>1. phase' = "done" /\ res' = [is |-> "Ok", value |-> FromBits(to, n)]
    BY <1>3, <1>8 DEF ReadByte, Return
  <2>2. ReadOk'
    BY <1>1, <1>4, <1>7, <1>8, <2>1 DEF ReadOk, n
  <2> QED BY <1>6, <2>1, <2>2 DEF CodecIInv, BeingRead
<1>9. CASE b.more /\ start + 1 = MaxBytes
  <2>1. phase' = "done" /\ res' = [is |-> "Varint"]
    BY <1>9 DEF ReadByte, Return
  <2>2. \A i \in 1 .. MaxBytes : buffer[i].more
    <3> SUFFICES ASSUME NEW i \in 1 .. MaxBytes PROVE buffer[i].more
      OBVIOUS
    <3>1. i \in 1 .. start \/ i = start + 1
      BY <1>1, <1>9
    <3> QED BY <1>1, <1>9, <3>1
  <2>3. TooLong'
    BY <1>4, <1>7, <1>9, <2>1, <2>2 DEF TooLong
  <2> QED BY <1>6, <2>1, <2>3 DEF CodecIInv, BeingRead
<1>10. CASE b.more /\ start + 1 # MaxBytes
  <2>1. phase' = "read"
    BY <1>1, <1>10 DEF ReadByte
  <2>2. \A i \in 1 .. start + 1 : buffer[i].more
    <3> SUFFICES ASSUME NEW i \in 1 .. start + 1 PROVE buffer[i].more
      OBVIOUS
    <3>1. i \in 1 .. start \/ i = start + 1
      BY <1>1
    <3> QED BY <1>1, <1>10, <3>1
  <2>3. start + 1 \in 0 .. Len(buffer) /\ start + 1 < MaxBytes
    BY <1>7, <1>10, Widths
  <2>4. BeingRead'
    BY <1>3, <1>4, <2>2, <2>3 DEF BeingRead, n
  <2> QED BY <1>6, <2>1, <2>4 DEF CodecIInv
<1> QED BY <1>8, <1>9, <1>10

LEMMA ReadPastEndInv ==
  ASSUME CodecIInv, ReadPastEnd
  PROVE  CodecIInv'
<1>1. /\ phase = "read" /\ start = Len(buffer) /\ phase' = "done"
      /\ res' = [is |-> "UnexpectedEndOfBuffer"]
      /\ UNCHANGED <<as, value, rest, buffer, length, to, start>>
  BY DEF ReadPastEnd, Return
<1>2. CutOff'
  BY <1>1 DEF CodecIInv, BeingRead, CutOff
<1>3. /\ Writing' /\ Written' /\ to' \in Types /\ as' \in Types \cup {"foreign"}
      /\ (as' # "foreign" => value' \in Values(as')) /\ buffer' \in Seq(VarintByte)
  BY <1>1, StillWritten
<1> QED BY <1>1, <1>2, <1>3 DEF CodecIInv, BeingRead

LEMMA CodecStepInv ==
  ASSUME CodecIInv, [CodecNext]_codecVars
  PROVE  CodecIInv'
<1>1. CASE UNCHANGED codecVars
  BY <1>1 DEF CodecIInv, codecVars, Writing, Written, BeingRead, ReadOk, TooLong, CutOff
<1> QED BY <1>1, WriteByteInv, WriteLastInv, ReadByteInv, ReadPastEndInv DEF CodecNext

-----------------------------------------------------------------------------

(* While a number is written the bytes and what is left of it make it up,  *)
(* and while it is read the reader has what its width keeps of the bytes.  *)
THEOREM CodecInvariant == CodecSpec => []CodecIInv
<1>1. CodecInit => CodecIInv
  BY CodecInitInv
<1>2. CodecIInv /\ [CodecNext]_codecVars => CodecIInv'
  BY CodecStepInv
<1> QED BY <1>1, <1>2, PTL DEF CodecSpec

(* Every value of every integer type comes back as what Rust casts it to   *)
(* under the type it is read with; the reader stops at the byte where the  *)
(* writer did, as far on as the size function said.                        *)
THEOREM ValuesComeBack == CodecSpec => []ReadAsCast
<1>1. ASSUME CodecIInv, phase = "done", as # "foreign", to \in Readers(as)
      PROVE  /\ res = [is |-> "Ok", value |-> Cast(to, value)]
             /\ start = length
             /\ length = sizeof(as, value)
  <2>1. /\ length \in 1 .. Len(buffer) /\ length <= MaxBytes
        /\ \A i \in 1 .. length - 1 : buffer[i].more
        /\ ~buffer[length].more
        /\ Weight(buffer, length) = ToU64(as, value)
        /\ length > 1 => Pow2[Group * (length - 1)] <= ToU64(as, value)
    BY <1>1 DEF CodecIInv, Written
  <2>2. as \in Types /\ value \in Values(as) /\ buffer \in Seq(VarintByte) /\ Len(buffer) \in Nat
    <3>1. as \in Types /\ value \in Values(as)
      BY <1>1 DEF CodecIInv
    <3>2. buffer \in Seq(VarintByte)
      BY <1>1 DEF CodecIInv
    <3>3. Len(buffer) \in Nat
      BY <3>2
    <3> QED BY <3>1, <3>2, <3>3
  <2>3. ReadOk
    <3>1. ~TooLong
      <4>1. length \in 1 .. MaxBytes
        BY <2>1, <2>2, Widths
      <4> QED BY <2>1, <4>1 DEF TooLong
    <3>2. ~CutOff
      BY <2>1 DEF CutOff
    <3> QED BY <1>1, <3>1, <3>2 DEF CodecIInv
  <2>4. start = length
    <3>1. start \in 1 .. Len(buffer) /\ (\A i \in 1 .. start - 1 : buffer[i].more) /\ ~buffer[start].more
      BY <2>3 DEF ReadOk
    <3>2. ~(start \in 1 .. length - 1) /\ ~(length \in 1 .. start - 1)
      BY <2>1, <3>1
    <3> QED BY <2>1, <2>2, <3>1, <3>2
  <2>5. res = [is |-> "Ok", value |-> Cast(to, value)]
    <3>1. res = [is |-> "Ok", value |-> FromBits(to, ToU64(as, value) % Pow2[WidthOf(to)])]
      BY <2>1, <2>3, <2>4 DEF ReadOk
    <3>2. FromBits(to, ToU64(as, value) % Pow2[WidthOf(to)]) = Cast(to, value)
      BY <1>1, <2>2, CastRight
    <3> QED BY <3>1, <3>2
  <2>6. ToU64(as, value) \in Nat /\ ToU64(as, value) < Pow2[Group * length]
    <3>1. length \in Nat /\ length <= Len(buffer) /\ length <= MaxBytes
      BY <2>1, <2>2
    <3>2. Weight(buffer, length) \in Nat /\ Weight(buffer, length) < Pow2[Group * length]
      BY <2>2, <3>1, WeightBound
    <3> QED BY <2>1, <3>2
  <2>7. CASE as = "bool"
    <3>1. value \in {0, 1}
      BY <2>2, <2>7, ValueTypes
    <3>2. ToU64(as, value) = value % Pow2[Long]
      BY <2>7 DEF ToU64
    <3>3. Pow2[Long] \in Nat /\ Pow2[Long] >= 2
      <4>1. PICK h \in Nat : h = Pow2[Long - 1] /\ h >= 1 /\ Pow2[Long] = 2 * h
        BY WidthPowers
      <4> QED BY <4>1
    <3>4. ToU64(as, value) < 2
      BY <3>1, <3>2, <3>3, ModSmall
    <3>5. ~(length > 1)
      <4> SUFFICES ASSUME length > 1 PROVE FALSE
        OBVIOUS
      <4>1. length - 1 \in Nat /\ length - 1 <= MaxBytes /\ length - 1 > 0
        BY <2>1, <2>2, Widths
      <4>2. 1 <= Group * (length - 1) /\ Group * (length - 1) <= Group * MaxBytes
            /\ Group * (length - 1) \in Nat /\ Pow2[Group * (length - 1)] \in Nat
        <5>1. Group * (length - 1) >= Group
          BY <4>1, Groups
        <5>2. Group * (length - 1) <= Group * MaxBytes
              /\ Group * (length - 1) \in Nat /\ Pow2[Group * (length - 1)] \in Nat
          BY <4>1, Groups
        <5> QED BY <5>1, <5>2, Widths
      <4>3. Pow2[1] <= Pow2[Group * (length - 1)]
        BY <4>2, PowMono
      <4>4. PICK p \in Nat, u \in Nat : p = Pow2[Group * (length - 1)] /\ u = ToU64(as, value)
        BY <2>6, <4>2
      <4>5. p <= u /\ u < 2 /\ 2 <= p
        BY <2>1, <3>4, <4>3, <4>4, PowFacts
      <4> QED BY <4>5
    <3> QED BY <2>1, <2>2, <2>4, <2>5, <2>7, <3>5 DEF sizeof
  <2>8. CASE as # "bool"
    <3>1. sizeof_varint(ToU64(as, value)) = length
      <4>1. length \in Nat /\ length >= 1
        BY <2>1
      <4> QED BY <2>1, <2>6, <4>1, SizeOfBytes
    <3> QED BY <2>4, <2>5, <2>8, <3>1 DEF sizeof
  <2> QED BY <2>7, <2>8
<1>2. CodecIInv => ReadAsCast
  BY <1>1 DEF ReadAsCast
<1> QED BY <1>2, CodecInvariant, PTL

(* Whatever bytes arrive, what is read is the number they stand for modulo *)
(* the width, and only a number of too many bytes, or one that the buffer  *)
(* cuts off, is refused.                                                   *)
THEOREM DecodingIsModular == CodecSpec => []DecodesModulo
<1> DEFINE ends == {n \in 1 .. Len(buffer) : ~buffer[n].more}
           near == {n \in ends : n <= MaxBytes /\ \A k \in ends : n <= k}
           n0 == CHOOSE k \in near : TRUE
           refusal == IF Len(buffer) < MaxBytes THEN "UnexpectedEndOfBuffer" ELSE "Varint"
<1>1. ASSUME CodecIInv, phase = "done"
      PROVE  IF near # {}
             THEN /\ start = n0
                  /\ res = [is |-> "Ok",
                            value |-> FromBits(to, Weight(buffer, n0) % Pow2[WidthOf(to)])]
             ELSE res.is = refusal
  <2>1. Len(buffer) \in Nat /\ MaxBytes \in Nat
    BY <1>1, Widths DEF CodecIInv
  <2>2. CASE ReadOk
    <3>1. /\ start \in 1 .. Len(buffer) /\ start <= MaxBytes
          /\ \A i \in 1 .. start - 1 : buffer[i].more
          /\ ~buffer[start].more
      BY <2>2 DEF ReadOk
    <3>2. \A k \in ends : start <= k
      <4> SUFFICES ASSUME NEW k \in ends PROVE start <= k
        OBVIOUS
      <4>1. k \in Nat /\ start \in Nat /\ k >= 1 /\ ~(k \in 1 .. start - 1)
        BY <2>1, <3>1
      <4> QED BY <4>1
    <3>3. near = {start}
      <4>1. start \in near
        BY <3>1, <3>2
      <4>2. \A k \in near : k = start
        <5> SUFFICES ASSUME NEW k \in near PROVE k = start
          OBVIOUS
        <5>1. k <= start /\ start <= k /\ k \in Nat /\ start \in Nat
          BY <3>1, <3>2, <4>1
        <5> QED BY <5>1
      <4> HIDE DEF near
      <4> QED BY <4>1, <4>2
    <3> HIDE DEF near
    <3>4. n0 = start
      BY <3>3
    <3> HIDE DEF n0
    <3> QED BY <2>2, <3>3, <3>4 DEF ReadOk
  <2>3. CASE TooLong
    <3>1. near = {}
      BY <2>1, <2>3 DEF TooLong
    <3> QED BY <2>1, <2>3, <3>1 DEF TooLong
  <2>4. CASE CutOff
    <3>1. near = {}
      BY <2>1, <2>4 DEF CutOff
    <3> QED BY <2>4, <3>1 DEF CutOff
  <2> QED BY <1>1, <2>2, <2>3, <2>4 DEF CodecIInv
<1>2. CodecIInv => DecodesModulo
  BY <1>1, Zenon DEF DecodesModulo
<1> QED BY <1>2, CodecInvariant, PTL
=============================================================================

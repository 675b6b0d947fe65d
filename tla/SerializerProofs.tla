-------------------------- MODULE SerializerProofs --------------------------
(***************************************************************************)
(* Proofs about Serializer, for every base and length of varints and every *)
(* set of messages whose sizes fit in a word.                              *)
(***************************************************************************)
EXTENDS Serializer, WellFoundedInduction, TLAPS

-----------------------------------------------------------------------------
(* Induction over the numbers up to a limit, for sets instead of operators. *)

LEMMA UpTo ==
  ASSUME NEW S, NEW n \in Nat, 0 \in S,
         \A k \in Nat : k < n /\ k \in S => k + 1 \in S
  PROVE  \A k \in 0..n : k \in S
<1> DEFINE Smaller == OpToRel(<, Nat)
           Missing == {k \in 0..n : k \notin S}
<1>1. IsWellFoundedOn(Smaller, Nat)
  BY NatLessThanWellFounded, Zenon DEF OpToRel
<1>2. SUFFICES ASSUME Missing # {}
               PROVE  FALSE
  OBVIOUS
<1>3. Missing \subseteq Nat
  OBVIOUS
<1>4. PICK least \in Missing : \A k \in Missing : ~(<<k, least>> \in Smaller)
  <2> HIDE DEF Smaller, Missing
  <2>1. QED
    BY <1>1, <1>2, <1>3, WFMin, Zenon
<1>5. least \in Nat /\ least # 0 /\ least <= n /\ least \notin S
  OBVIOUS
<1>6. least - 1 \in Nat /\ least - 1 < n /\ (least - 1) + 1 = least
  BY <1>5
<1>7. least - 1 \notin S
  BY <1>5, <1>6
<1>8. least - 1 \in Missing
  BY <1>6, <1>7
<1>9. <<least - 1, least>> \in Smaller
  BY <1>5, <1>6 DEF OpToRel
<1>10. QED
  BY <1>4, <1>8, <1>9

-----------------------------------------------------------------------------
(* The table of sizeof_varint.                                             *)

LEMMA PowerDef ==
  Power = [i \in 0..VarintMax |-> IF i = 0 THEN 1 ELSE Base * Power[i - 1]]
<1> DEFINE Begun(g, n) == g = [i \in 0..n |-> IF i = 0 THEN 1 ELSE Base * g[i - 1]]
           S == {n \in Nat : \E g : Begun(g, n)}
<1>0. VarintMax \in Nat
  BY SerializerAssumption
<1>1. 0 \in S
  <2>1. Begun([i \in 0..0 |-> 1], 0)
    OBVIOUS
  <2>2. QED
    BY <2>1
<1>2. ASSUME NEW n \in Nat, n \in S
      PROVE  n + 1 \in S
  <2>1. PICK g : Begun(g, n)
    BY <1>2
  <2> DEFINE h == [i \in 0..(n + 1) |-> IF i = n + 1 THEN Base * g[n] ELSE g[i]]
  <2>2. ASSUME NEW i \in 0..(n + 1)
        PROVE  h[i] = IF i = 0 THEN 1 ELSE Base * h[i - 1]
    <3>1. CASE i = n + 1
      BY <3>1
    <3>2. CASE i \in 0..n
      <4>1. g[i] = IF i = 0 THEN 1 ELSE Base * g[i - 1]
        BY <2>1, <3>2
      <4>2. h[i] = g[i] /\ (i # 0 => h[i - 1] = g[i - 1])
        BY <3>2
      <4>3. QED
        BY <4>1, <4>2
    <3>3. QED
      BY <3>1, <3>2
  <2>3. Begun(h, n + 1)
    BY <2>2
  <2>4. \E f : Begun(f, n + 1)
    <3> HIDE DEF h, Begun
    <3>1. QED
      BY <2>3
  <2>5. QED
    <3> HIDE DEF Begun
    <3>1. QED
      BY <2>4
<1>3. VarintMax \in S
  <2> HIDE DEF S
  <2>1. \A k \in 0..VarintMax : k \in S
    BY <1>0, <1>1, <1>2, UpTo
  <2>2. QED
    BY <1>0, <2>1
<1>4. \E g : g = [i \in 0..VarintMax |-> IF i = 0 THEN 1 ELSE Base * g[i - 1]]
  BY <1>3
<1>5. QED
  BY <1>4, Zenon DEF Power

LEMMA Product ==
  ASSUME NEW b \in Nat, NEW p \in Nat, b >= 2, p >= 1
  PROVE  b * p \in Nat /\ b * p > p
OBVIOUS

LEMMA PowerFacts ==
  /\ Power[0] = 1
  /\ \A i \in 0..VarintMax : Power[i] \in Nat /\ Power[i] >= 1
  /\ \A i \in 1..VarintMax : Power[i] = Base * Power[i - 1] /\ Power[i] > Power[i - 1]
<1> DEFINE S == {n \in Nat : n <= VarintMax => Power[n] \in Nat /\ Power[n] >= 1}
<1>0. VarintMax \in Nat /\ Base \in Nat /\ Base >= 2
  BY SerializerAssumption
<1>1. Power[0] = 1
  BY <1>0, PowerDef
<1>2. \A i \in 1..VarintMax : Power[i] = Base * Power[i - 1]
  <2> SUFFICES ASSUME NEW i \in 1..VarintMax
               PROVE  Power[i] = Base * Power[i - 1]
    OBVIOUS
  <2>1. i \in 0..VarintMax /\ i # 0
    BY <1>0
  <2>2. QED
    BY <2>1, PowerDef
<1>3. 0 \in S
  BY <1>1
<1>4. ASSUME NEW n \in Nat, n < VarintMax, n \in S
      PROVE  n + 1 \in S
  <2>1. Power[n] \in Nat /\ Power[n] >= 1
    BY <1>0, <1>4
  <2>2. n + 1 \in 1..VarintMax /\ (n + 1) - 1 = n
    BY <1>0, <1>4
  <2>3. Power[n + 1] = Base * Power[n]
    BY <1>2, <2>2
  <2>4. PICK p \in Nat : p = Power[n]
    BY <2>1
  <2>5. Base * p \in Nat /\ Base * p > p
    BY <1>0, <2>1, <2>4, Product
  <2>6. Power[n + 1] \in Nat /\ Power[n + 1] >= 1
    BY <2>1, <2>3, <2>4, <2>5
  <2>7. QED
    BY <2>6
<1>5. \A i \in 0..VarintMax : i \in S
  <2> HIDE DEF S
  <2>1. QED
    BY <1>0, <1>3, <1>4, UpTo
<1>6. \A i \in 0..VarintMax : Power[i] \in Nat /\ Power[i] >= 1
  BY <1>0, <1>5
<1>7. ASSUME NEW i \in 1..VarintMax
      PROVE  Power[i] > Power[i - 1]
  <2>1. i - 1 \in 0..VarintMax
    BY <1>0
  <2>2. PICK p \in Nat : p = Power[i - 1] /\ p >= 1
    BY <1>6, <2>1
  <2>3. Base * p > p
    BY <1>0, <2>2, Product
  <2>4. QED
    BY <1>2, <2>2, <2>3
<1>8. QED
  BY <1>1, <1>2, <1>6, <1>7

LEMMA PowerOrder ==
  ASSUME NEW i \in 0..VarintMax, NEW j \in i..VarintMax
  PROVE  Power[i] <= Power[j]
<1> DEFINE S == {n \in Nat : i + n <= VarintMax => Power[i] <= Power[i + n]}
<1>0. VarintMax \in Nat
  BY SerializerAssumption
<1>1. 0 \in S
  BY <1>0, PowerFacts
<1>2. ASSUME NEW n \in Nat, n < VarintMax - i, n \in S
      PROVE  n + 1 \in S
  <2>1. i + n \in 0..VarintMax /\ i + (n + 1) \in 1..VarintMax /\ (i + (n + 1)) - 1 = i + n
    BY <1>0, <1>2
  <2>2. Power[i + (n + 1)] > Power[i + n] /\ Power[i + n] \in Nat
    BY <2>1, PowerFacts
  <2>3. i + (n + 1) \in 0..VarintMax
    BY <1>0, <2>1
  <2>4. Power[i] <= Power[i + n] /\ Power[i] \in Nat /\ Power[i + (n + 1)] \in Nat
    BY <1>0, <1>2, <2>1, <2>3, PowerFacts
  <2>5. QED
    BY <2>2, <2>4
<1>3. VarintMax - i \in Nat /\ j - i \in 0..(VarintMax - i) /\ i + (j - i) = j
  BY <1>0
<1>4. j - i \in S
  <2> HIDE DEF S
  <2>1. \A k \in 0..(VarintMax - i) : k \in S
    BY <1>1, <1>2, <1>3, UpTo
  <2>2. QED
    BY <1>3, <2>1
<1>5. QED
  BY <1>0, <1>3, <1>4

(* The row of a number in the table of sizeof_varint. *)
InRow(v, row) ==
  /\ row = 1 \/ v >= Power[row - 1]
  /\ row = VarintMax \/ v < Power[row]

LEMMA RowIsSize ==
  ASSUME NEW v \in Nat, NEW row \in 1..VarintMax, InRow(v, row)
  PROVE  SizeofVarint(v) = row
<1>0. VarintMax \in Nat
  BY SerializerAssumption
<1>1. ASSUME NEW r \in 1..VarintMax, NEW s \in 1..VarintMax, InRow(v, r), InRow(v, s), r < s
      PROVE  FALSE
  <2>1. s - 1 \in r..VarintMax /\ r \in 0..VarintMax /\ s - 1 \in 0..VarintMax
    BY <1>0, <1>1
  <2>2. Power[r] <= Power[s - 1] /\ Power[r] \in Nat /\ Power[s - 1] \in Nat
    BY <2>1, PowerOrder, PowerFacts
  <2>3. v < Power[r] /\ v >= Power[s - 1]
    BY <1>0, <1>1 DEF InRow
  <2>4. QED
    BY <2>2, <2>3
<1>2. \A r \in 1..VarintMax : InRow(v, r) => r = row
  <2> SUFFICES ASSUME NEW r \in 1..VarintMax, InRow(v, r)
               PROVE  r = row
    OBVIOUS
  <2>1. ~(r < row) /\ ~(row < r)
    BY <1>1
  <2>2. QED
    BY <2>1
<1>3. SizeofVarint(v) = CHOOSE r \in 1..VarintMax : InRow(v, r)
  BY DEF SizeofVarint, InRow
<1>4. QED
  <2> DEFINE chosen == CHOOSE r \in 1..VarintMax : InRow(v, r)
  <2>1. chosen \in 1..VarintMax /\ InRow(v, chosen)
    BY Zenon
  <2>2. chosen = row
    BY <1>2, <2>1
  <2>3. QED
    BY <1>3, <2>2

LEMMA SizeIsRow ==
  ASSUME NEW v \in Nat
  PROVE  SizeofVarint(v) \in 1..VarintMax /\ InRow(v, SizeofVarint(v))
<1> DEFINE S == {n \in Nat : n = 0 \/ n >= VarintMax \/ v >= Power[n]}
<1>0. VarintMax \in Nat /\ VarintMax >= 1
  BY SerializerAssumption
<1>1. \E row \in 1..VarintMax : InRow(v, row)
  <2>1. SUFFICES ASSUME \A row \in 1..VarintMax : ~InRow(v, row)
                 PROVE  FALSE
    OBVIOUS
  <2>2. 0 \in S
    OBVIOUS
  <2>3. ASSUME NEW n \in Nat, n < VarintMax - 1, n \in S
        PROVE  n + 1 \in S
    <3>1. n + 1 \in 1..VarintMax /\ (n + 1) - 1 = n /\ n + 1 # VarintMax
      BY <1>0, <2>3
    <3>2. n = 0 \/ v >= Power[n]
      BY <1>0, <2>3
    <3>3. ~(v < Power[n + 1])
      BY <2>1, <3>1, <3>2 DEF InRow
    <3>4. Power[n + 1] \in Nat
      BY <1>0, <3>1, PowerFacts
    <3>5. QED
      BY <3>3, <3>4
  <2>4. VarintMax - 1 \in S
    <3> HIDE DEF S
    <3>1. VarintMax - 1 \in Nat
      BY <1>0
    <3>2. \A k \in 0..(VarintMax - 1) : k \in S
      BY <2>2, <2>3, <3>1, UpTo
    <3>3. QED
      BY <3>1, <3>2
  <2>5. VarintMax - 1 = 0 \/ v >= Power[VarintMax - 1]
    BY <1>0, <2>4
  <2>6. VarintMax \in 1..VarintMax /\ InRow(v, VarintMax)
    BY <1>0, <2>5 DEF InRow
  <2>7. QED
    BY <2>1, <2>6
<1>2. PICK row \in 1..VarintMax : InRow(v, row)
  BY <1>1
<1>3. QED
  BY <1>2, RowIsSize

(* By how much a shift makes a number smaller. *)
LEMMA Shifted ==
  ASSUME NEW b \in Nat \ {0}, NEW v \in Nat, NEW p \in Nat
  PROVE  v \div b \in Nat /\ (v \div b >= p <=> v >= b * p)
<1>1. PICK q \in Nat, r \in 0..(b - 1) : q = v \div b /\ v = b * q + r
  <2>1. v \div b \in Nat /\ (v % b) \in 0..(b - 1) /\ v = b * (v \div b) + (v % b)
    OBVIOUS
  <2>2. QED
    BY <2>1
<1>2. q >= p => b * q >= b * p
  OBVIOUS
<1>3. q < p => b * q + b <= b * p
  OBVIOUS
<1>4. b * q \in Nat /\ b * p \in Nat
  OBVIOUS
<1>5. QED
  BY <1>1, <1>2, <1>3, <1>4

(* write_varint writes a byte for each row of the table: what is left after *)
(* a byte is one row lower.                                                 *)
LEMMA VarintRows ==
  ASSUME NEW v \in Word
  PROVE  /\ v \in Nat /\ SizeofVarint(v) \in Nat /\ SizeofVarint(v) >= 1
         /\ v < Base => SizeofVarint(v) = 1
         /\ v >= Base => /\ v \div Base \in Word
                         /\ SizeofVarint(v) = 1 + SizeofVarint(v \div Base)
<1>0. VarintMax \in Nat /\ VarintMax >= 1 /\ Base \in Nat \ {0} /\ Base >= 2
  BY SerializerAssumption
<1>1. VarintMax \in 0..VarintMax /\ 0 \in 0..VarintMax /\ 1 \in 1..VarintMax
  BY <1>0
<1>2. v \in Nat /\ v < Power[VarintMax] /\ Power[VarintMax] \in Nat
  BY <1>1, PowerFacts DEF Word
<1>3. PICK row \in 1..VarintMax : row = SizeofVarint(v) /\ InRow(v, row)
  BY <1>2, SizeIsRow
<1>4. Power[1] = Base
  BY <1>0, <1>1, PowerFacts
<1>5. ASSUME v < Base
      PROVE  SizeofVarint(v) = 1
  <2>1. InRow(v, 1)
    BY <1>4, <1>5 DEF InRow
  <2>2. QED
    BY <1>1, <1>2, <2>1, RowIsSize
<1>6. ASSUME v >= Base
      PROVE  /\ v \div Base \in Word
             /\ SizeofVarint(v) = 1 + SizeofVarint(v \div Base)
  <2>1. v < Power[row]
    BY <1>2, <1>3 DEF InRow
  <2>2. row # 1
    BY <1>0, <1>2, <1>4, <1>6, <2>1
  <2>3. row - 1 \in 1..VarintMax /\ row - 1 \in 0..VarintMax /\ row - 2 \in 0..VarintMax
        /\ (row - 1) - 1 = row - 2
    BY <1>0, <2>2
  <2>4. v >= Power[row - 1]
    BY <1>3, <2>2 DEF InRow
  <2>5. PICK p \in Nat, s \in Nat : p = Power[row - 2] /\ s = Power[row - 1]
    BY <2>3, PowerFacts
  <2>6. Power[row - 1] = Base * p /\ Power[row] = Base * s
    BY <1>3, <2>3, <2>5, PowerFacts
  <2>7. v \div Base \in Nat /\ v \div Base >= p /\ ~(v \div Base >= s)
    <3>1. v >= Base * p /\ ~(v >= Base * s)
      <4>1. Base * s \in Nat
        BY <1>0
      <4>2. QED
        BY <1>2, <2>1, <2>4, <2>6, <4>1
    <3>2. QED
      BY <1>0, <1>2, <3>1, Shifted
  <2>8. v \div Base < s
    BY <2>7
  <2>9. InRow(v \div Base, row - 1)
    BY <2>3, <2>5, <2>7, <2>8 DEF InRow
  <2>10. SizeofVarint(v \div Base) = row - 1
    BY <2>3, <2>7, <2>9, RowIsSize
  <2>11. s <= Power[VarintMax]
    BY <1>1, <2>3, <2>5, PowerOrder
  <2>12. v \div Base \in Word
    BY <1>2, <2>7, <2>8, <2>11 DEF Word
  <2>13. QED
    BY <1>3, <2>10, <2>12
<1>7. QED
  BY <1>2, <1>3, <1>5, <1>6

-----------------------------------------------------------------------------
(* Sums.                                                                   *)

(* f[i] is the sum of the first i numbers of s. *)
Sums(f, s) ==
  /\ f \in [0..Len(s) -> Nat]
  /\ f[0] = 0
  /\ \A i \in 1..Len(s) : f[i] = f[i - 1] + s[i]

LEMMA SumsUpTo ==
  ASSUME NEW s \in Seq(Nat), NEW f, Sums(f, s)
  PROVE  \A i \in 0..Len(s) : f[i] <= f[Len(s)]
<1>0. PICK n \in Nat : n = Len(s)
  OBVIOUS
<1>a. /\ \A i \in 0..n : f[i] \in Nat
      /\ \A i \in 1..n : f[i] = f[i - 1] + s[i] /\ s[i] \in Nat
  <2>1. \A i \in 1..n : s[i] \in Nat
    BY <1>0
  <2>2. /\ \A i \in 0..n : f[i] \in Nat
        /\ \A i \in 1..n : f[i] = f[i - 1] + s[i]
    BY <1>0 DEF Sums
  <2>3. QED
    BY <2>1, <2>2
<1> DEFINE S == {k \in Nat : k <= n => f[n - k] <= f[n]}
<1>1. 0 \in S
  BY <1>0, <1>a
<1>2. ASSUME NEW k \in Nat, k < n, k \in S
      PROVE  k + 1 \in S
  <2>1. n - k \in 1..n /\ n - (k + 1) = (n - k) - 1 /\ n - k \in 0..n /\ (n - k) - 1 \in 0..n
    BY <1>0, <1>2
  <2>2. f[n - k] = f[(n - k) - 1] + s[n - k] /\ s[n - k] \in Nat
    BY <1>a, <2>1
  <2>3. f[n - k] \in Nat /\ f[(n - k) - 1] \in Nat /\ f[n] \in Nat
    BY <1>a, <2>1
  <2>4. f[n - k] <= f[n]
    BY <1>0, <1>2
  <2>5. f[n - (k + 1)] <= f[n]
    <3>1. f[(n - k) - 1] <= f[n]
      BY <2>2, <2>3, <2>4
    <3>2. QED
      BY <2>1, <3>1
  <2>6. QED
    BY <2>5
<1>3. \A k \in 0..n : k \in S
  <2> HIDE DEF S
  <2>1. QED
    BY <1>1, <1>2, UpTo
<1>4. ASSUME NEW i \in 0..n
      PROVE  f[i] <= f[n]
  <2>1. n - i \in 0..n /\ n - (n - i) = i /\ n - i <= n
    BY <1>0
  <2>2. n - i \in S
    BY <1>3, <2>1
  <2>3. QED
    BY <2>1, <2>2
<1>5. QED
  BY <1>0, <1>4

(* What Total adds up. *)
LEMMA TotalSums ==
  ASSUME NEW s \in Seq(Nat)
  PROVE  /\ Total(s) \in Nat
         /\ \E f : Sums(f, s) /\ f[Len(s)] = Total(s)
         /\ \A i \in 1..Len(s) : s[i] <= Total(s)
<1> DEFINE top == Len(s)
           Begun(f, n) ==
             f = [i \in 0..n |-> IF i = 0 THEN 0 ELSE f[i - 1] + s[i]]
           S == {n \in Nat : \E f : Begun(f, n)}
<1>0. top \in Nat /\ DOMAIN s = 1..top /\ {0} \cup DOMAIN s = 0..top
  OBVIOUS
<1>1. 0 \in S
  <2>1. Begun([i \in 0..0 |-> 0], 0)
    OBVIOUS
  <2>2. QED
    BY <2>1
<1>2. ASSUME NEW n \in Nat, n \in S
      PROVE  n + 1 \in S
  <2>1. PICK g : Begun(g, n)
    BY <1>2
  <2> DEFINE h == [i \in 0..(n + 1) |-> IF i = n + 1 THEN g[n] + s[n + 1] ELSE g[i]]
  <2>2. ASSUME NEW i \in 0..(n + 1)
        PROVE  h[i] = IF i = 0 THEN 0 ELSE h[i - 1] + s[i]
    <3>1. CASE i = n + 1
      BY <3>1
    <3>2. CASE i \in 0..n
      <4>1. g[i] = IF i = 0 THEN 0 ELSE g[i - 1] + s[i]
        BY <2>1, <3>2
      <4>2. h[i] = g[i] /\ (i # 0 => h[i - 1] = g[i - 1])
        BY <3>2
      <4>3. QED
        BY <4>1, <4>2
    <3>3. QED
      BY <3>1, <3>2
  <2>3. Begun(h, n + 1)
    BY <2>2
  <2>4. \E f : Begun(f, n + 1)
    <3> HIDE DEF h, Begun
    <3>1. QED
      BY <2>3
  <2>5. QED
    <3> HIDE DEF Begun
    <3>1. QED
      BY <2>4
<1>3. top \in S
  <2> HIDE DEF S, top
  <2>1. \A k \in 0..top : k \in S
    BY <1>0, <1>1, <1>2, UpTo
  <2>2. QED
    BY <1>0, <2>1
<1> DEFINE sum == CHOOSE f : f = [i \in {0} \cup DOMAIN s |->
                                    IF i = 0 THEN 0 ELSE f[i - 1] + s[i]]
<1>4. Total(s) = sum[top]
  BY Zenon DEF Total
<1>5. sum = [i \in {0} \cup DOMAIN s |-> IF i = 0 THEN 0 ELSE sum[i - 1] + s[i]]
  <2>1. \E f : f = [i \in {0} \cup DOMAIN s |-> IF i = 0 THEN 0 ELSE f[i - 1] + s[i]]
    BY <1>0, <1>3
  <2>2. QED
    BY <2>1, Zenon
<1> HIDE DEF sum, top
<1>6. sum[0] = 0 /\ \A i \in 1..top : sum[i] = sum[i - 1] + s[i]
  <2>1. sum = [i \in 0..top |-> IF i = 0 THEN 0 ELSE sum[i - 1] + s[i]]
    BY <1>0, <1>5
  <2>2. QED
    BY <1>0, <2>1
<1>7. \A i \in 0..top : sum[i] \in Nat
  <2> DEFINE U == {n \in Nat : n <= top => sum[n] \in Nat}
  <2>1. 0 \in U
    BY <1>6
  <2>2. ASSUME NEW n \in Nat, n < top, n \in U
        PROVE  n + 1 \in U
    <3>1. n + 1 \in 1..top /\ (n + 1) - 1 = n
      BY <1>0, <2>2
    <3>2. s[n + 1] \in Nat
      BY <3>1 DEF top
    <3>3. sum[n + 1] = sum[n] + s[n + 1]
      BY <1>6, <3>1
    <3>4. sum[n] \in Nat
      BY <1>0, <2>2
    <3>5. QED
      BY <3>2, <3>3, <3>4
  <2>3. \A n \in 0..top : n \in U
    <3> HIDE DEF U
    <3>1. QED
      BY <1>0, <2>1, <2>2, UpTo
  <2>4. QED
    BY <1>0, <2>3
<1>8. Sums(sum, s)
  <2>1. sum \in [0..top -> Nat]
    BY <1>0, <1>5, <1>7
  <2>2. QED
    BY <1>6, <2>1 DEF Sums, top
<1>9. Total(s) \in Nat
  BY <1>0, <1>4, <1>7
<1>10. ASSUME NEW i \in 1..top
       PROVE  s[i] <= Total(s)
  <2>1. i \in 0..top /\ i - 1 \in 0..top
    BY <1>0
  <2>2. sum[i] <= sum[top]
    BY <1>8, <2>1, SumsUpTo DEF top
  <2>3. s[i] \in Nat
    BY DEF top
  <2>4. sum[i] = sum[i - 1] + s[i] /\ sum[i - 1] \in Nat /\ sum[i] \in Nat /\ sum[top] \in Nat
    BY <1>0, <1>6, <1>7, <2>1
  <2>5. QED
    BY <1>4, <2>2, <2>3, <2>4
<1>11. QED
  BY <1>4, <1>8, <1>9, <1>10 DEF top

-----------------------------------------------------------------------------
(* Sizes.                                                                  *)

LEMMA WordType == Word \subseteq Nat /\ 0 \in Word /\ 1 \in Word
<1>0. VarintMax \in Nat /\ VarintMax >= 1 /\ Base >= 2
  BY SerializerAssumption
<1>1. VarintMax \in 1..VarintMax /\ VarintMax \in 0..VarintMax /\ VarintMax - 1 \in 0..VarintMax
  BY <1>0
<1>2. Power[VarintMax] \in Nat /\ Power[VarintMax] > Power[VarintMax - 1]
      /\ Power[VarintMax - 1] >= 1 /\ Power[VarintMax - 1] \in Nat
  BY <1>1, PowerFacts
<1>3. QED
  BY <1>2 DEF Word

LEMMA LenType ==
  ASSUME NEW n \in Nat
  PROVE  SizeofVarint(n) \in Nat /\ SizeofLen(n) \in Nat /\ n <= SizeofLen(n)
<1>1. SizeofVarint(n) \in 1..VarintMax /\ VarintMax \in Nat
  BY SizeIsRow, SerializerAssumption
<1>2. QED
  BY <1>1 DEF SizeofLen

(* A datum, a field, by their types and shapes. *)
LEMMA DatumKinds ==
  ASSUME NEW d \in Datum
  PROVE  \/ d.type = "varint" /\ d.n \in Word
         \/ d.type = "bytes" /\ d.n \in Word
         \/ d.type = "bool" /\ d.n \in {0, 1}
         \/ d.type = "fixed" /\ d.n \in {4, 8}
         \/ d.type = "message" /\ d.m \in Messages
BY DEF Datum

LEMMA FieldKinds ==
  ASSUME NEW f \in Field
  PROVE  /\ f.tag \in Word
         /\ \/ f.shape = "singular" /\ f.set \in BOOLEAN /\ f.datum \in Datum
            \/ f.shape = "oneof" /\ f.set \in BOOLEAN /\ f.datum \in Datum
            \/ f.shape = "repeated" /\ f.data \in Seq(Datum)
            \/ f.shape = "packed" /\ f.data \in Seq(Datum)
            \/ f.shape = "packed_fixed" /\ f.width \in {4, 8} /\ f.bytes \in Word
               /\ f.bytes % f.width = 0
            \/ f.shape = "map" /\ f.entries \in Seq(Entry)
BY DEF Field

LEMMA DatumSizeType ==
  ASSUME NEW d \in Datum, NEW g \in [Messages -> Nat]
  PROVE  DatumSize(d, g) \in Nat
<1>1. CASE d.type = "varint" /\ d.n \in Word
  BY <1>1, LenType, WordType DEF DatumSize
<1>2. CASE d.type = "bytes" /\ d.n \in Word
  BY <1>2, LenType, WordType DEF DatumSize
<1>3. CASE d.type = "bool" /\ d.n \in {0, 1}
  BY <1>3, LenType DEF DatumSize
<1>4. CASE d.type = "fixed" /\ d.n \in {4, 8}
  BY <1>4 DEF DatumSize
<1>5. CASE d.type = "message" /\ d.m \in Messages
  <2>1. g[d.m] \in Nat
    BY <1>5
  <2>2. QED
    BY <1>5, <2>1, LenType DEF DatumSize
<1>6. QED
  BY <1>1, <1>2, <1>3, <1>4, <1>5, DatumKinds

LEMMA DatumSizeSame ==
  ASSUME NEW d \in Datum, NEW g, NEW h, d.type = "message" => g[d.m] = h[d.m]
  PROVE  DatumSize(d, g) = DatumSize(d, h)
<1>1. CASE d.type = "message"
  BY <1>1 DEF DatumSize
<1>2. CASE d.type \in {"varint", "bytes", "bool", "fixed"}
  BY <1>2 DEF DatumSize
<1>3. QED
  BY <1>1, <1>2, DatumKinds

LEMMA EntrySizeType ==
  ASSUME NEW e \in Entry, NEW g \in [Messages -> Nat]
  PROVE  EntrySize(e, g) \in Nat
<1>1. e.key \in Datum /\ e.value \in Datum
  BY DEF Entry
<1>2. DatumSize(e.key, g) \in Nat /\ DatumSize(e.value, g) \in Nat
  BY <1>1, DatumSizeType
<1>3. QED
  BY <1>2 DEF EntrySize

(* The sizes of the elements of a field are numbers. *)
LEMMA SizesOfType ==
  ASSUME NEW data \in Seq(Datum), NEW g \in [Messages -> Nat]
  PROVE  /\ SizesOf(data, g) \in Seq(Nat)
         /\ Len(SizesOf(data, g)) = Len(data)
         /\ \A i \in 1..Len(data) : SizesOf(data, g)[i] = DatumSize(data[i], g)
<1>1. \A i \in 1..Len(data) : DatumSize(data[i], g) \in Nat
  BY DatumSizeType
<1>2. SizesOf(data, g) = [i \in 1..Len(data) |-> DatumSize(data[i], g)]
  BY DEF SizesOf
<1>3. QED
  BY <1>1, <1>2

(* The entries of a map, each with its tag and its length. *)
EntrySizes(f, g) ==
  [i \in DOMAIN f.entries |-> SizeofVarint(f.tag) + SizeofLen(EntrySize(f.entries[i], g))]

LEMMA EntrySizesType ==
  ASSUME NEW f, f.tag \in Word, f.entries \in Seq(Entry), NEW g \in [Messages -> Nat]
  PROVE  /\ EntrySizes(f, g) \in Seq(Nat)
         /\ Len(EntrySizes(f, g)) = Len(f.entries)
         /\ \A i \in 1..Len(f.entries) :
              /\ EntrySizes(f, g)[i] = SizeofVarint(f.tag) + SizeofLen(EntrySize(f.entries[i], g))
              /\ EntrySize(f.entries[i], g) \in Nat
<1>1. PICK s \in Seq(Entry), tag \in Nat : s = f.entries /\ tag = SizeofVarint(f.tag)
  BY LenType, WordType
<1>2. \A i \in 1..Len(s) : EntrySize(s[i], g) \in Nat
  BY EntrySizeType
<1>3. \A i \in 1..Len(s) : tag + SizeofLen(EntrySize(s[i], g)) \in Nat
  <2> SUFFICES ASSUME NEW i \in 1..Len(s)
               PROVE  tag + SizeofLen(EntrySize(s[i], g)) \in Nat
    OBVIOUS
  <2>1. SizeofLen(EntrySize(s[i], g)) \in Nat
    BY <1>2, LenType
  <2>2. QED
    BY <2>1
<1>4. EntrySizes(f, g) = [i \in 1..Len(s) |-> tag + SizeofLen(EntrySize(s[i], g))]
  BY <1>1 DEF EntrySizes
<1>5. QED
  BY <1>1, <1>2, <1>3, <1>4

LEMMA FieldSizeType ==
  ASSUME NEW f \in Field, NEW g \in [Messages -> Nat]
  PROVE  FieldSize(f, g) \in Nat
<1>0. SizeofVarint(f.tag) \in Nat
  BY FieldKinds, LenType, WordType
<1>1. CASE f.shape = "singular" /\ f.datum \in Datum
  <2>1. DatumSize(f.datum, g) \in Nat
    BY <1>1, DatumSizeType
  <2>2. QED
    BY <1>0, <1>1, <2>1 DEF FieldSize
<1>2. CASE f.shape = "oneof" /\ f.datum \in Datum
  <2>1. DatumSize(f.datum, g) \in Nat
    BY <1>2, DatumSizeType
  <2>2. QED
    BY <1>0, <1>2, <2>1 DEF FieldSize, OneOfSize
<1>3. CASE f.shape = "repeated" /\ f.data \in Seq(Datum)
  <2>1. Total(SizesOf(f.data, g)) \in Nat /\ Len(f.data) \in Nat
    BY <1>3, SizesOfType, TotalSums
  <2>2. Len(f.data) * SizeofVarint(f.tag) \in Nat
    BY <1>0, <2>1
  <2>3. QED
    BY <1>3, <2>1, <2>2 DEF FieldSize
<1>4. CASE f.shape = "packed" /\ f.data \in Seq(Datum)
  <2>1. Total(SizesOf(f.data, g)) \in Nat
    BY <1>4, SizesOfType, TotalSums
  <2>2. QED
    BY <1>0, <1>4, <2>1, LenType DEF FieldSize
<1>5. CASE f.shape = "packed_fixed" /\ f.width \in {4, 8} /\ f.bytes \in Word
  <2>1. f.bytes \in Nat
    BY <1>5, WordType
  <2>2. PackedFixedLen(f) * f.width \in Nat
    BY <1>5, <2>1 DEF PackedFixedLen
  <2>3. QED
    BY <1>0, <1>5, <2>2, LenType DEF FieldSize
<1>6. CASE f.shape = "map" /\ f.entries \in Seq(Entry)
  <2>1. Total(EntrySizes(f, g)) \in Nat
    BY <1>6, FieldKinds, EntrySizesType, TotalSums
  <2>2. QED
    BY <1>6, <2>1 DEF FieldSize, EntrySizes
<1>7. QED
  BY <1>1, <1>2, <1>3, <1>4, <1>5, <1>6, FieldKinds

(* A field's size depends on the sizes of the messages in it alone. *)
LEMMA FieldSizeSame ==
  ASSUME NEW f \in Field, NEW g, NEW h,
         \A d \in DataOf(f) : d.type = "message" => g[d.m] = h[d.m]
  PROVE  FieldSize(f, g) = FieldSize(f, h)
<1>1. CASE f.shape = "singular" /\ f.datum \in Datum
  <2>1. DatumSize(f.datum, g) = DatumSize(f.datum, h)
    BY <1>1, DatumSizeSame DEF DataOf
  <2>2. QED
    BY <1>1, <2>1 DEF FieldSize
<1>2. CASE f.shape = "oneof" /\ f.datum \in Datum
  <2>1. DatumSize(f.datum, g) = DatumSize(f.datum, h)
    BY <1>2, DatumSizeSame DEF DataOf
  <2>2. QED
    BY <1>2, <2>1 DEF FieldSize, OneOfSize
<1>3. CASE f.shape \in {"repeated", "packed"} /\ f.data \in Seq(Datum)
  <2>1. \A i \in DOMAIN f.data : DatumSize(f.data[i], g) = DatumSize(f.data[i], h)
    <3> SUFFICES ASSUME NEW i \in DOMAIN f.data
                 PROVE  DatumSize(f.data[i], g) = DatumSize(f.data[i], h)
      OBVIOUS
    <3>1. f.data[i] \in Datum
      BY <1>3
    <3>2. f.data[i] \in DataOf(f)
      BY <1>3 DEF DataOf
    <3>3. QED
      BY <3>1, <3>2, DatumSizeSame
  <2>2. SizesOf(f.data, g) = SizesOf(f.data, h)
    BY <2>1 DEF SizesOf
  <2>3. QED
    BY <1>3, <2>2 DEF FieldSize
<1>4. CASE f.shape = "packed_fixed"
  BY <1>4 DEF FieldSize
<1>5. CASE f.shape = "map" /\ f.entries \in Seq(Entry)
  <2>1. \A i \in DOMAIN f.entries : EntrySize(f.entries[i], g) = EntrySize(f.entries[i], h)
    <3> SUFFICES ASSUME NEW i \in DOMAIN f.entries
                 PROVE  EntrySize(f.entries[i], g) = EntrySize(f.entries[i], h)
      OBVIOUS
    <3>1. f.entries[i] \in Entry
      BY <1>5
    <3>2. f.entries[i].key \in Datum /\ f.entries[i].value \in Datum
      BY <3>1 DEF Entry
    <3>3. f.entries[i].key \in DataOf(f) /\ f.entries[i].value \in DataOf(f)
      BY <1>5 DEF DataOf
    <3>4. /\ DatumSize(f.entries[i].key, g) = DatumSize(f.entries[i].key, h)
          /\ DatumSize(f.entries[i].value, g) = DatumSize(f.entries[i].value, h)
      BY <3>2, <3>3, DatumSizeSame
    <3>5. QED
      BY <3>4 DEF EntrySize
  <2>2. EntrySizes(f, g) = EntrySizes(f, h)
    BY <2>1 DEF EntrySizes
  <2>3. QED
    BY <1>5, <2>2 DEF FieldSize, EntrySizes
<1>6. QED
  BY <1>1, <1>2, <1>3, <1>4, <1>5, FieldKinds

LEMMA DataType ==
  ASSUME NEW f \in Field
  PROVE  DataOf(f) \subseteq Datum
<1>1. CASE f.shape \in {"singular", "oneof"} /\ f.datum \in Datum
  BY <1>1 DEF DataOf
<1>2. CASE f.shape \in {"repeated", "packed"} /\ f.data \in Seq(Datum)
  BY <1>2 DEF DataOf
<1>3. CASE f.shape = "packed_fixed"
  BY <1>3 DEF DataOf
<1>4. CASE f.shape = "map" /\ f.entries \in Seq(Entry)
  <2>1. \A i \in DOMAIN f.entries : f.entries[i].key \in Datum /\ f.entries[i].value \in Datum
    <3> SUFFICES ASSUME NEW i \in DOMAIN f.entries
                 PROVE  f.entries[i].key \in Datum /\ f.entries[i].value \in Datum
      OBVIOUS
    <3>1. f.entries[i] \in Entry
      BY <1>4
    <3>2. QED
      BY <3>1 DEF Entry
  <2>2. QED
    BY <1>4, <2>1 DEF DataOf
<1>5. QED
  BY <1>1, <1>2, <1>3, <1>4, FieldKinds

(* get_size of a message, if g is that of the messages in it. *)
FieldSizes(m, g) == [i \in DOMAIN m |-> FieldSize(m[i], g)]
BodySize(m, g) == Total(FieldSizes(m, g))

LEMMA BodySizeType ==
  ASSUME NEW m \in Messages, NEW g \in [Messages -> Nat]
  PROVE  /\ FieldSizes(m, g) \in Seq(Nat)
         /\ Len(FieldSizes(m, g)) = Len(m)
         /\ \A i \in 1..Len(m) : FieldSizes(m, g)[i] = FieldSize(m[i], g)
         /\ BodySize(m, g) \in Nat
<1>1. PICK s \in Seq(Field) : s = m
  BY MessagesAssumption
<1>2. \A i \in 1..Len(s) : FieldSize(s[i], g) \in Nat
  BY FieldSizeType
<1>3. FieldSizes(m, g) = [i \in 1..Len(s) |-> FieldSize(s[i], g)]
  BY <1>1 DEF FieldSizes
<1>4. FieldSizes(m, g) \in Seq(Nat) /\ Len(FieldSizes(m, g)) = Len(s)
  BY <1>2, <1>3
<1>5. Total(FieldSizes(m, g)) \in Nat
  BY <1>4, TotalSums
<1>6. QED
  BY <1>1, <1>3, <1>4, <1>5 DEF BodySize

LEMMA BodySizeSame ==
  ASSUME NEW m \in Messages, NEW g, NEW h,
         \A e \in Messages : Depth(e) < Depth(m) => g[e] = h[e]
  PROVE  BodySize(m, g) = BodySize(m, h)
<1>1. \A i \in DOMAIN m : FieldSize(m[i], g) = FieldSize(m[i], h)
  <2> SUFFICES ASSUME NEW i \in DOMAIN m
               PROVE  FieldSize(m[i], g) = FieldSize(m[i], h)
    OBVIOUS
  <2>1. m[i] \in Field
    BY MessagesAssumption
  <2>2. \A d \in DataOf(m[i]) : d.type = "message" => g[d.m] = h[d.m]
    <3> SUFFICES ASSUME NEW d \in DataOf(m[i]), d.type = "message"
                 PROVE  g[d.m] = h[d.m]
      OBVIOUS
    <3>1. d \in Datum
      BY <2>1, DataType
    <3>2. d.m \in Messages
      BY <3>1, DatumKinds
    <3>3. Depth(d.m) < Depth(m)
      BY MessagesAssumption
    <3>4. QED
      BY <3>2, <3>3
  <2>3. QED
    BY <2>1, <2>2, FieldSizeSame
<1>2. FieldSizes(m, g) = FieldSizes(m, h)
  BY <1>1 DEF FieldSizes
<1>3. QED
  BY <1>2 DEF BodySize

(* g gives the sizes of the messages that are nested less than n deep. *)
Solves(g, n) == \A m \in Messages : Depth(m) < n => g[m] = BodySize(m, g)

LEMMA SolutionExists ==
  ASSUME NEW n \in Nat
  PROVE  \E g \in [Messages -> Nat] : Solves(g, n)
<1> DEFINE S == {k \in Nat : \E g \in [Messages -> Nat] : Solves(g, k)}
<1>0. \A m \in Messages : Depth(m) \in Nat
  BY MessagesAssumption
<1>1. 0 \in S
  <2>1. [m \in Messages |-> 0] \in [Messages -> Nat]
    OBVIOUS
  <2>2. Solves([m \in Messages |-> 0], 0)
    BY <1>0 DEF Solves
  <2>3. QED
    BY <2>1, <2>2
<1>2. ASSUME NEW k \in Nat, k \in S
      PROVE  k + 1 \in S
  <2>1. PICK g \in [Messages -> Nat] : Solves(g, k)
    BY <1>2
  <2>2. PICK h \in [Messages -> Nat] : h = [m \in Messages |-> BodySize(m, g)]
    <3>1. \A m \in Messages : BodySize(m, g) \in Nat
      BY BodySizeType
    <3>2. QED
      BY <3>1
  <2>3. ASSUME NEW m \in Messages, Depth(m) < k + 1
        PROVE  h[m] = BodySize(m, h)
    <3>1. ASSUME NEW e \in Messages, Depth(e) < Depth(m)
          PROVE  g[e] = h[e]
      <4>1. Depth(e) < k
        BY <1>0, <2>3, <3>1
      <4>2. g[e] = BodySize(e, g)
        BY <2>1, <4>1 DEF Solves
      <4>3. QED
        BY <2>2, <4>2
    <3>2. BodySize(m, g) = BodySize(m, h)
      BY <3>1, BodySizeSame
    <3>3. QED
      BY <2>2, <3>2
  <2>4. Solves(h, k + 1)
    BY <2>3 DEF Solves
  <2>5. QED
    BY <2>4
<1>3. \A k \in 0..n : k \in S
  <2> HIDE DEF S
  <2>1. QED
    BY <1>1, <1>2, UpTo
<1>4. n \in S
  BY <1>3
<1>5. QED
  BY <1>4

LEMMA SolutionsAgree ==
  ASSUME NEW g, NEW h, NEW n \in Nat, NEW k \in Nat, Solves(g, n), Solves(h, k),
         NEW m \in Messages, Depth(m) < n, Depth(m) < k
  PROVE  g[m] = h[m]
<1> DEFINE S == {j \in Nat : \A e \in Messages :
                               Depth(e) < j /\ Depth(e) < n /\ Depth(e) < k => g[e] = h[e]}
<1>0. \A e \in Messages : Depth(e) \in Nat
  BY MessagesAssumption
<1>1. 0 \in S
  BY <1>0
<1>2. ASSUME NEW j \in Nat, j \in S
      PROVE  j + 1 \in S
  <2>1. ASSUME NEW e \in Messages, Depth(e) < j + 1, Depth(e) < n, Depth(e) < k
        PROVE  g[e] = h[e]
    <3>1. ASSUME NEW d \in Messages, Depth(d) < Depth(e)
          PROVE  g[d] = h[d]
      <4>1. Depth(d) < j /\ Depth(d) < n /\ Depth(d) < k
        BY <1>0, <2>1, <3>1
      <4>2. QED
        BY <1>2, <4>1
    <3>2. BodySize(e, g) = BodySize(e, h)
      BY <3>1, BodySizeSame
    <3>3. g[e] = BodySize(e, g) /\ h[e] = BodySize(e, h)
      BY <2>1 DEF Solves
    <3>4. QED
      BY <3>2, <3>3
  <2>2. QED
    BY <2>1
<1>3. n \in S
  <2> HIDE DEF S
  <2>1. \A j \in 0..n : j \in S
    BY <1>1, <1>2, UpTo
  <2>2. QED
    BY <2>1
<1>4. QED
  BY <1>3

(* The recursion of get_size ends: what it returns for a message is what it *)
(* makes of its own results for the messages in that one.                   *)
LEMMA GetSizeDef ==
  /\ GetSize \in [Messages -> Nat]
  /\ \A m \in Messages : GetSize[m] = BodySize(m, GetSize) /\ GetSize[m] \in Word
<1> DEFINE G == [n \in Nat |-> CHOOSE g \in [Messages -> Nat] : Solves(g, n)]
<1>0. \A m \in Messages : Depth(m) \in Nat
  BY MessagesAssumption
<1>1. \A n \in Nat : G[n] \in [Messages -> Nat] /\ Solves(G[n], n)
  <2> SUFFICES ASSUME NEW n \in Nat
               PROVE  G[n] \in [Messages -> Nat] /\ Solves(G[n], n)
    OBVIOUS
  <2>1. G[n] = CHOOSE g \in [Messages -> Nat] : Solves(g, n)
    OBVIOUS
  <2>2. \E g \in [Messages -> Nat] : Solves(g, n)
    BY SolutionExists
  <2> HIDE DEF G
  <2>3. QED
    BY <2>1, <2>2, Zenon
<1> HIDE DEF G
<1>2. PICK f : f = [m \in Messages |-> G[Depth(m) + 1][m]]
  OBVIOUS
<1>3. ASSUME NEW m \in Messages
      PROVE  f[m] = BodySize(m, f)
  <2>1. Depth(m) + 1 \in Nat /\ Depth(m) < Depth(m) + 1
    BY <1>0
  <2>2. PICK g : g = G[Depth(m) + 1]
    OBVIOUS
  <2>3. Solves(g, Depth(m) + 1)
    BY <1>1, <2>1, <2>2
  <2>4. g[m] = BodySize(m, g)
    BY <2>1, <2>3 DEF Solves
  <2>5. ASSUME NEW e \in Messages, Depth(e) < Depth(m)
        PROVE  g[e] = f[e]
    <3>1. Depth(e) + 1 \in Nat /\ Depth(e) < Depth(e) + 1 /\ Depth(e) < Depth(m) + 1
      BY <1>0, <2>5
    <3>2. Solves(G[Depth(e) + 1], Depth(e) + 1)
      BY <1>1, <3>1
    <3>3. g[e] = G[Depth(e) + 1][e]
      BY <2>1, <2>3, <3>1, <3>2, SolutionsAgree
    <3>4. QED
      BY <1>2, <3>3
  <2>6. BodySize(m, g) = BodySize(m, f)
    BY <2>5, BodySizeSame
  <2>7. QED
    BY <1>2, <2>2, <2>4, <2>6
<1>4. f = [m \in Messages |-> Total([i \in DOMAIN m |-> FieldSize(m[i], f)])]
  BY <1>2, <1>3 DEF BodySize, FieldSizes
<1>5. GetSize = [m \in Messages |-> Total([i \in DOMAIN m |-> FieldSize(m[i], GetSize)])]
  BY <1>4, Zenon DEF GetSize
<1>6. \A m \in Messages : GetSize[m] = BodySize(m, GetSize)
  BY <1>5 DEF BodySize, FieldSizes
<1>7. \A m \in Messages : GetSize[m] \in Word
  BY SizesFit
<1>8. GetSize \in [Messages -> Nat]
  BY <1>5, <1>7, WordType
<1>9. QED
  BY <1>6, <1>7, <1>8

-----------------------------------------------------------------------------
(* What the calls in `todo` are, and how many bytes each one writes.       *)

(* The calls that write a datum or an entry. *)
Inner ==
  { Varint(n) : n \in Word } \cup { All(n) : n \in Nat } \cup { WriteBytes(n) : n \in Word }
  \cup { WriteMessage(m) : m \in Messages }
  \cup { WriteMap(e) : e \in { x \in Entry : EntrySize(x, GetSize) \in Word } }

(* All calls but the two marks of a chunk. *)
Plain ==
  Inner
  \cup { WritePacked(data) : data \in { x \in Seq(Datum) : Total(SizesOf(x, GetSize)) \in Word } }
  \cup { WithTag(tag, write) : tag \in Word, write \in Inner }
  \cup { WriteField(f) : f \in { x \in Field : FieldSize(x, GetSize) \in Word } }

OpenMark(n) == [call |-> "open", n |-> n]
CloseMark == [call |-> "close"]

InnerSize(c) ==
  CASE c.call = "write_varint" -> SizeofVarint(c.n)
    [] c.call = "pb_write_all" -> c.n
    [] c.call = "write_bytes" -> SizeofLen(c.n)
    [] c.call = "write_message" -> SizeofLen(GetSize[c.m])
    [] c.call = "write_map" -> SizeofLen(EntrySize(c.e, GetSize))
    [] OTHER -> 0

CallSize(c) ==
  CASE c.call = "write_packed" -> SizeofLen(Total(SizesOf(c.data, GetSize)))
    [] c.call = "write_with_tag" -> SizeofVarint(c.tag) + InnerSize(c.write)
    [] c.call = "write_field" -> FieldSize(c.f, GetSize)
    [] OTHER -> InnerSize(c)

LEMMA InnerKinds ==
  ASSUME NEW c \in Inner
  PROVE  \/ c.call = "write_varint" /\ c.n \in Word
         \/ c.call = "pb_write_all" /\ c.n \in Nat
         \/ c.call = "write_bytes" /\ c.n \in Word
         \/ c.call = "write_message" /\ c.m \in Messages
         \/ c.call = "write_map" /\ c.e \in Entry /\ EntrySize(c.e, GetSize) \in Word
<1>1. CASE c \in { Varint(n) : n \in Word }
  BY <1>1 DEF Varint
<1>2. CASE c \in { All(n) : n \in Nat }
  BY <1>2 DEF All
<1>3. CASE c \in { WriteBytes(n) : n \in Word }
  BY <1>3 DEF WriteBytes
<1>4. CASE c \in { WriteMessage(m) : m \in Messages }
  BY <1>4 DEF WriteMessage
<1>5. CASE c \in { WriteMap(e) : e \in { x \in Entry : EntrySize(x, GetSize) \in Word } }
  BY <1>5 DEF WriteMap
<1>6. QED
  BY <1>1, <1>2, <1>3, <1>4, <1>5 DEF Inner

LEMMA PlainKinds ==
  ASSUME NEW c \in Plain
  PROVE  \/ c \in Inner
         \/ c.call = "write_packed" /\ c.data \in Seq(Datum)
            /\ Total(SizesOf(c.data, GetSize)) \in Word
         \/ c.call = "write_with_tag" /\ c.tag \in Word /\ c.write \in Inner
         \/ c.call = "write_field" /\ c.f \in Field /\ FieldSize(c.f, GetSize) \in Word
<1>1. CASE c \in { WritePacked(data) : data \in { x \in Seq(Datum) :
                                                    Total(SizesOf(x, GetSize)) \in Word } }
  BY <1>1 DEF WritePacked
<1>2. CASE c \in { WithTag(tag, write) : tag \in Word, write \in Inner }
  BY <1>2 DEF WithTag
<1>3. CASE c \in { WriteField(f) : f \in { x \in Field : FieldSize(x, GetSize) \in Word } }
  BY <1>3 DEF WriteField
<1>4. QED
  BY <1>1, <1>2, <1>3 DEF Plain

LEMMA InnerSizes ==
  ASSUME NEW c \in Inner
  PROVE  InnerSize(c) \in Nat /\ CallSize(c) = InnerSize(c)
<1>1. CASE c.call = "write_varint" /\ c.n \in Word
  BY <1>1, LenType, WordType DEF InnerSize, CallSize
<1>2. CASE c.call = "pb_write_all" /\ c.n \in Nat
  BY <1>2 DEF InnerSize, CallSize
<1>3. CASE c.call = "write_bytes" /\ c.n \in Word
  BY <1>3, LenType, WordType DEF InnerSize, CallSize
<1>4. CASE c.call = "write_message" /\ c.m \in Messages
  <2>1. GetSize[c.m] \in Nat
    BY <1>4, GetSizeDef
  <2>2. QED
    BY <1>4, <2>1, LenType DEF InnerSize, CallSize
<1>5. CASE c.call = "write_map" /\ EntrySize(c.e, GetSize) \in Word
  BY <1>5, LenType, WordType DEF InnerSize, CallSize
<1>6. QED
  BY <1>1, <1>2, <1>3, <1>4, <1>5, InnerKinds

LEMMA PlainSizes ==
  ASSUME NEW c \in Plain
  PROVE  CallSize(c) \in Nat /\ c.call \notin {"open", "close"}
<1>1. CASE c \in Inner
  BY <1>1, InnerKinds, InnerSizes
<1>2. CASE c.call = "write_packed" /\ Total(SizesOf(c.data, GetSize)) \in Word
  BY <1>2, LenType, WordType DEF CallSize
<1>3. CASE c.call = "write_with_tag" /\ c.tag \in Word /\ c.write \in Inner
  <2>1. SizeofVarint(c.tag) \in Nat /\ InnerSize(c.write) \in Nat
    BY <1>3, LenType, WordType, InnerSizes
  <2>2. QED
    BY <1>3, <2>1 DEF CallSize
<1>4. CASE c.call = "write_field" /\ FieldSize(c.f, GetSize) \in Word
  BY <1>4, WordType DEF CallSize
<1>5. QED
  BY <1>1, <1>2, <1>3, <1>4, PlainKinds

(* The calls by name. *)
LEMMA CallFacts ==
  /\ \A n \in Word : Varint(n) \in Inner /\ CallSize(Varint(n)) = SizeofVarint(n)
  /\ \A n \in Nat : All(n) \in Inner /\ CallSize(All(n)) = n
  /\ \A n \in Word : WriteBytes(n) \in Inner /\ CallSize(WriteBytes(n)) = SizeofLen(n)
  /\ \A m \in Messages : /\ WriteMessage(m) \in Inner
                         /\ CallSize(WriteMessage(m)) = SizeofLen(GetSize[m])
  /\ \A e \in Entry : EntrySize(e, GetSize) \in Word =>
                        /\ WriteMap(e) \in Inner
                        /\ CallSize(WriteMap(e)) = SizeofLen(EntrySize(e, GetSize))
  /\ \A data \in Seq(Datum) : Total(SizesOf(data, GetSize)) \in Word =>
       /\ WritePacked(data) \in Plain
       /\ CallSize(WritePacked(data)) = SizeofLen(Total(SizesOf(data, GetSize)))
  /\ \A tag \in Word, write \in Inner :
       /\ WithTag(tag, write) \in Plain
       /\ CallSize(WithTag(tag, write)) = SizeofVarint(tag) + CallSize(write)
  /\ \A f \in Field : FieldSize(f, GetSize) \in Word =>
                        /\ WriteField(f) \in Plain
                        /\ CallSize(WriteField(f)) = FieldSize(f, GetSize)
<1>1. \A n \in Word : Varint(n) \in Inner /\ CallSize(Varint(n)) = SizeofVarint(n)
  BY DEF Varint, Inner, CallSize, InnerSize
<1>2. \A n \in Nat : All(n) \in Inner /\ CallSize(All(n)) = n
  BY DEF All, Inner, CallSize, InnerSize
<1>3. \A n \in Word : WriteBytes(n) \in Inner /\ CallSize(WriteBytes(n)) = SizeofLen(n)
  BY DEF WriteBytes, Inner, CallSize, InnerSize
<1>4. \A m \in Messages : /\ WriteMessage(m) \in Inner
                          /\ CallSize(WriteMessage(m)) = SizeofLen(GetSize[m])
  BY DEF WriteMessage, Inner, CallSize, InnerSize
<1>5. \A e \in Entry : EntrySize(e, GetSize) \in Word =>
                         /\ WriteMap(e) \in Inner
                         /\ CallSize(WriteMap(e)) = SizeofLen(EntrySize(e, GetSize))
  BY DEF WriteMap, Inner, CallSize, InnerSize
<1>6. \A data \in Seq(Datum) : Total(SizesOf(data, GetSize)) \in Word =>
        /\ WritePacked(data) \in Plain
        /\ CallSize(WritePacked(data)) = SizeofLen(Total(SizesOf(data, GetSize)))
  BY DEF WritePacked, Plain, CallSize
<1>7. ASSUME NEW tag \in Word, NEW write \in Inner
      PROVE  /\ WithTag(tag, write) \in Plain
             /\ CallSize(WithTag(tag, write)) = SizeofVarint(tag) + CallSize(write)
  <2>1. WithTag(tag, write) \in Plain
    BY DEF Plain
  <2>2. CallSize(WithTag(tag, write)) = SizeofVarint(tag) + InnerSize(write)
    BY DEF CallSize, WithTag
  <2>3. QED
    BY <2>1, <2>2, InnerSizes
<1>8. \A f \in Field : FieldSize(f, GetSize) \in Word =>
                         /\ WriteField(f) \in Plain
                         /\ CallSize(WriteField(f)) = FieldSize(f, GetSize)
  BY DEF WriteField, Plain, CallSize
<1>9. QED
  BY <1>1, <1>2, <1>3, <1>4, <1>5, <1>6, <1>7, <1>8

(* A datum is written with as many bytes as were counted for it. *)
LEMMA DatumCallSize ==
  ASSUME NEW d \in Datum
  PROVE  DatumCall(d) \in Inner /\ CallSize(DatumCall(d)) = DatumSize(d, GetSize)
<1>1. CASE d.type = "varint" /\ d.n \in Word
  BY <1>1, CallFacts DEF DatumCall, DatumSize
<1>2. CASE d.type = "bytes" /\ d.n \in Word
  BY <1>2, CallFacts DEF DatumCall, DatumSize
<1>3. CASE d.type = "bool" /\ d.n \in {0, 1}
  <2>1. d.n \in Word /\ d.n < Base
    BY <1>3, WordType, SerializerAssumption
  <2>2. SizeofVarint(d.n) = 1
    BY <2>1, VarintRows
  <2>3. QED
    BY <1>3, <2>2, CallFacts DEF DatumCall, DatumSize
<1>4. CASE d.type = "fixed" /\ d.n \in {4, 8}
  BY <1>4, CallFacts DEF DatumCall, DatumSize
<1>5. CASE d.type = "message" /\ d.m \in Messages
  BY <1>5, CallFacts DEF DatumCall, DatumSize
<1>6. QED
  BY <1>1, <1>2, <1>3, <1>4, <1>5, DatumKinds

-----------------------------------------------------------------------------
(* Where a list of calls leads.                                            *)

(* A cursor at x is inside all open chunks, and each in the one around it. *)
Within(x, E) ==
  /\ \A i \in DOMAIN E : x <= E[i]
  /\ \A i \in 2..Len(E) : E[i] <= E[i - 1]

(* A call takes the cursor from x to y and the open chunks from E to F. *)
Step(c, x, E, y, F) ==
  \/ c \in Plain /\ y = x + CallSize(c) /\ F = E
  \/ \E n \in Nat : c = OpenMark(n) /\ y = x /\ F = Append(E, x + n)
  \/ c = CloseMark /\ y = x /\ E # <<>> /\ x = Last(E) /\ F = Front(E)

(* So do the calls of a list, one after the other. *)
Leads(calls, x, E, y, F) ==
  \E at \in [1..(Len(calls) + 1) -> Nat], open \in [1..(Len(calls) + 1) -> Seq(Nat)] :
    /\ at[1] = x /\ open[1] = E
    /\ at[Len(calls) + 1] = y /\ open[Len(calls) + 1] = F
    /\ \A p \in 1..(Len(calls) + 1) : at[p] <= y /\ Within(at[p], open[p])
    /\ \A p \in 1..Len(calls) : Step(calls[p], at[p], open[p], at[p + 1], open[p + 1])

LEMMA LeadsNowhere ==
  ASSUME NEW x \in Nat, NEW E \in Seq(Nat), Within(x, E)
  PROVE  Leads(<<>>, x, E, x, E)
<1> DEFINE at == [p \in 1..1 |-> x]
           open == [p \in 1..1 |-> E]
<1>1. at \in [1..1 -> Nat] /\ open \in [1..1 -> Seq(Nat)]
  OBVIOUS
<1>2. at[1] = x /\ open[1] = E
  OBVIOUS
<1>3. \A p \in 1..1 : at[p] <= x /\ Within(at[p], open[p])
  OBVIOUS
<1>4. Len(<<>>) = 0 /\ 0 + 1 = 1
  OBVIOUS
<1> HIDE DEF at, open
<1>5. QED
  BY <1>1, <1>2, <1>3, <1>4 DEF Leads

LEMMA LeadsOne ==
  ASSUME NEW c, NEW x \in Nat, NEW E \in Seq(Nat), NEW y \in Nat, NEW F \in Seq(Nat),
         Step(c, x, E, y, F), x <= y, Within(x, E), Within(y, F)
  PROVE  Leads(<<c>>, x, E, y, F)
<1> DEFINE at == [p \in 1..2 |-> IF p = 1 THEN x ELSE y]
           open == [p \in 1..2 |-> IF p = 1 THEN E ELSE F]
<1>1. at \in [1..2 -> Nat] /\ open \in [1..2 -> Seq(Nat)]
  OBVIOUS
<1>2. at[1] = x /\ open[1] = E /\ at[2] = y /\ open[2] = F
  OBVIOUS
<1> HIDE DEF at, open
<1>3. \A p \in 1..2 : at[p] <= y /\ Within(at[p], open[p])
  <2> SUFFICES ASSUME NEW p \in 1..2
               PROVE  at[p] <= y /\ Within(at[p], open[p])
    OBVIOUS
  <2>1. CASE p = 1
    BY <1>2, <2>1
  <2>2. CASE p = 2
    BY <1>2, <2>2
  <2>3. QED
    BY <2>1, <2>2
<1>4. Len(<<c>>) = 1 /\ <<c>>[1] = c
  OBVIOUS
<1>5. \A p \in 1..1 : Step(<<c>>[p], at[p], open[p], at[p + 1], open[p + 1])
  <2> SUFFICES ASSUME NEW p \in 1..1
               PROVE  Step(<<c>>[p], at[p], open[p], at[p + 1], open[p + 1])
    OBVIOUS
  <2>1. p = 1 /\ p + 1 = 2
    OBVIOUS
  <2>2. QED
    BY <1>2, <1>4, <2>1
<1>6. 1 + 1 = 2
  OBVIOUS
<1>7. QED
  BY <1>1, <1>2, <1>3, <1>4, <1>5, <1>6 DEF Leads

LEMMA LeadsOn ==
  ASSUME NEW C, NEW calls \in Seq(C), NEW rest \in Seq(C),
         NEW x, NEW E, NEW y, NEW F, NEW z, NEW G,
         Leads(calls, x, E, y, F), Leads(rest, y, F, z, G)
  PROVE  Leads(calls \o rest, x, E, z, G)
<1>0. PICK m \in Nat, n \in Nat : m = Len(calls) /\ n = Len(rest)
  OBVIOUS
<1>1. PICK a \in [1..(m + 1) -> Nat], g \in [1..(m + 1) -> Seq(Nat)] :
        /\ a[1] = x /\ g[1] = E /\ a[m + 1] = y /\ g[m + 1] = F
        /\ \A p \in 1..(m + 1) : a[p] <= y /\ Within(a[p], g[p])
        /\ \A p \in 1..m : Step(calls[p], a[p], g[p], a[p + 1], g[p + 1])
  BY <1>0 DEF Leads
<1>2. PICK b \in [1..(n + 1) -> Nat], h \in [1..(n + 1) -> Seq(Nat)] :
        /\ b[1] = y /\ h[1] = F /\ b[n + 1] = z /\ h[n + 1] = G
        /\ \A p \in 1..(n + 1) : b[p] <= z /\ Within(b[p], h[p])
        /\ \A p \in 1..n : Step(rest[p], b[p], h[p], b[p + 1], h[p + 1])
  BY <1>0 DEF Leads
<1> DEFINE at == [p \in 1..(m + n + 1) |-> IF p <= m THEN a[p] ELSE b[p - m]]
           open == [p \in 1..(m + n + 1) |-> IF p <= m THEN g[p] ELSE h[p - m]]
<1>3. \A p \in 1..(m + 1) : at[p] = a[p] /\ open[p] = g[p]
  <2> SUFFICES ASSUME NEW p \in 1..(m + 1)
               PROVE  at[p] = a[p] /\ open[p] = g[p]
    OBVIOUS
  <2>1. CASE p <= m
    BY <2>1
  <2>2. CASE p = m + 1
    <3>1. p - m = 1 /\ ~(p <= m) /\ p \in 1..(m + n + 1)
      BY <2>2
    <3>2. QED
      BY <1>1, <1>2, <2>2, <3>1
  <2>3. QED
    BY <2>1, <2>2
<1>4. \A p \in 1..(n + 1) : at[m + p] = b[p] /\ open[m + p] = h[p]
  <2> SUFFICES ASSUME NEW p \in 1..(n + 1)
               PROVE  at[m + p] = b[p] /\ open[m + p] = h[p]
    OBVIOUS
  <2>1. m + p \in 1..(m + n + 1) /\ ~(m + p <= m) /\ (m + p) - m = p
    OBVIOUS
  <2>2. QED
    BY <2>1
<1>5. \A p \in 1..(m + n + 1) : p \in 1..(m + 1) \/ \E q \in 1..(n + 1) : p = m + q
  <2> SUFFICES ASSUME NEW p \in 1..(m + n + 1), p \notin 1..(m + 1)
               PROVE  \E q \in 1..(n + 1) : p = m + q
    OBVIOUS
  <2>1. p - m \in 1..(n + 1) /\ p = m + (p - m)
    OBVIOUS
  <2>2. QED
    BY <2>1
<1>6. at \in [1..(m + n + 1) -> Nat] /\ open \in [1..(m + n + 1) -> Seq(Nat)]
  <2>1. ASSUME NEW p \in 1..(m + n + 1)
        PROVE  at[p] \in Nat /\ open[p] \in Seq(Nat)
    <3>1. CASE p \in 1..(m + 1)
      BY <1>3, <3>1
    <3>2. CASE \E q \in 1..(n + 1) : p = m + q
      BY <1>4, <3>2
    <3>3. QED
      BY <1>5, <3>1, <3>2
  <2>2. QED
    BY <2>1
<1> HIDE DEF at, open
<1>7. y <= z
  <2>1. 1 \in 1..(n + 1)
    OBVIOUS
  <2>2. QED
    BY <1>2, <2>1
<1>8. \A p \in 1..(m + n + 1) : at[p] <= z /\ Within(at[p], open[p])
  <2> SUFFICES ASSUME NEW p \in 1..(m + n + 1)
               PROVE  at[p] <= z /\ Within(at[p], open[p])
    OBVIOUS
  <2>1. CASE p \in 1..(m + 1)
    <3>1. a[p] <= y /\ a[p] \in Nat /\ y \in Nat /\ z \in Nat
      <4>1. m + 1 \in 1..(m + 1) /\ n + 1 \in 1..(n + 1)
        OBVIOUS
      <4>2. QED
        BY <1>1, <1>2, <2>1, <4>1
    <3>2. QED
      BY <1>1, <1>3, <1>7, <2>1, <3>1
  <2>2. ASSUME NEW q \in 1..(n + 1), p = m + q
        PROVE  at[p] <= z /\ Within(at[p], open[p])
    BY <1>2, <1>4, <2>2
  <2>3. QED
    BY <1>5, <2>1, <2>2
<1>9. \A p \in 1..(m + n) : Step((calls \o rest)[p], at[p], open[p], at[p + 1], open[p + 1])
  <2> SUFFICES ASSUME NEW p \in 1..(m + n)
               PROVE  Step((calls \o rest)[p], at[p], open[p], at[p + 1], open[p + 1])
    OBVIOUS
  <2>1. CASE p \in 1..m
    <3>1. p \in 1..(m + 1) /\ p + 1 \in 1..(m + 1)
      BY <2>1
    <3>2. (calls \o rest)[p] = calls[p]
      BY <1>0, <2>1
    <3>3. QED
      BY <1>1, <1>3, <2>1, <3>1, <3>2
  <2>2. CASE p \notin 1..m
    <3>1. PICK q \in 1..n : p = m + q
      <4>1. p - m \in 1..n /\ p = m + (p - m)
        BY <2>2
      <4>2. QED
        BY <4>1
    <3>2. q \in 1..(n + 1) /\ q + 1 \in 1..(n + 1) /\ p + 1 = m + (q + 1)
      BY <3>1
    <3>3. (calls \o rest)[p] = rest[q]
      BY <1>0, <3>1
    <3>4. at[p] = b[q] /\ open[p] = h[q] /\ at[p + 1] = b[q + 1] /\ open[p + 1] = h[q + 1]
      BY <1>4, <3>1, <3>2
    <3>5. QED
      BY <1>2, <3>3, <3>4
  <2>3. QED
    BY <2>1, <2>2
<1>10. Len(calls \o rest) = m + n
  BY <1>0
<1>11. at[1] = x /\ open[1] = E /\ at[m + n + 1] = z /\ open[m + n + 1] = G
  <2>1. 1 \in 1..(m + 1) /\ n + 1 \in 1..(n + 1) /\ m + (n + 1) = m + n + 1
    OBVIOUS
  <2>2. at[m + (n + 1)] = b[n + 1] /\ open[m + (n + 1)] = h[n + 1]
    BY <1>4, <2>1
  <2>3. QED
    BY <1>1, <1>2, <1>3, <2>1, <2>2
<1>12. QED
  BY <1>6, <1>8, <1>9, <1>10, <1>11 DEF Leads

(* The first call, and then the others. *)
LEMMA LeadsFirst ==
  ASSUME NEW C, NEW calls \in Seq(C), calls # <<>>,
         NEW x, NEW E, NEW z, NEW G, Leads(calls, x, E, z, G)
  PROVE  /\ x \in Nat /\ E \in Seq(Nat) /\ z \in Nat /\ Within(x, E) /\ x <= z
         /\ \E y \in Nat, F \in Seq(Nat) :
              /\ Step(Head(calls), x, E, y, F) /\ Within(y, F) /\ y <= z
              /\ Leads(Tail(calls), y, F, z, G)
<1>0. PICK n \in Nat : Len(calls) = n + 1
  <2>1. Len(calls) \in Nat /\ Len(calls) # 0
    OBVIOUS
  <2>2. Len(calls) - 1 \in Nat /\ Len(calls) = (Len(calls) - 1) + 1
    BY <2>1
  <2>3. QED
    BY <2>2
<1>1. PICK a \in [1..(n + 2) -> Nat], g \in [1..(n + 2) -> Seq(Nat)] :
        /\ a[1] = x /\ g[1] = E /\ a[n + 2] = z /\ g[n + 2] = G
        /\ \A p \in 1..(n + 2) : a[p] <= z /\ Within(a[p], g[p])
        /\ \A p \in 1..(n + 1) : Step(calls[p], a[p], g[p], a[p + 1], g[p + 1])
  <2>1. (n + 1) + 1 = n + 2
    OBVIOUS
  <2>2. QED
    BY <1>0, <2>1 DEF Leads
<1>2. 1 \in 1..(n + 2) /\ 2 \in 1..(n + 2) /\ 1 \in 1..(n + 1) /\ 1 + 1 = 2 /\ n + 2 \in 1..(n + 2)
  OBVIOUS
<1>3. /\ x \in Nat /\ E \in Seq(Nat) /\ z \in Nat /\ Within(x, E) /\ x <= z
      /\ a[2] \in Nat /\ g[2] \in Seq(Nat) /\ Within(a[2], g[2]) /\ a[2] <= z
  BY <1>1, <1>2
<1>4. Head(calls) = calls[1]
  OBVIOUS
<1>5. Step(Head(calls), x, E, a[2], g[2])
  BY <1>1, <1>2, <1>4
<1> DEFINE at == [p \in 1..(n + 1) |-> a[p + 1]]
           open == [p \in 1..(n + 1) |-> g[p + 1]]
<1>6. \A p \in 1..(n + 1) : p + 1 \in 1..(n + 2) /\ at[p] = a[p + 1] /\ open[p] = g[p + 1]
  OBVIOUS
<1>7. at \in [1..(n + 1) -> Nat] /\ open \in [1..(n + 1) -> Seq(Nat)]
  OBVIOUS
<1> HIDE DEF at, open
<1>8. Len(Tail(calls)) = n /\ \A p \in 1..n : Tail(calls)[p] = calls[p + 1]
  BY <1>0
<1>9. \A p \in 1..(n + 1) : at[p] <= z /\ Within(at[p], open[p])
  BY <1>1, <1>6
<1>10. \A p \in 1..n : Step(Tail(calls)[p], at[p], open[p], at[p + 1], open[p + 1])
  <2> SUFFICES ASSUME NEW p \in 1..n
               PROVE  Step(Tail(calls)[p], at[p], open[p], at[p + 1], open[p + 1])
    OBVIOUS
  <2>1. p \in 1..(n + 1) /\ p + 1 \in 1..(n + 1)
    OBVIOUS
  <2>2. Step(calls[p + 1], a[p + 1], g[p + 1], a[(p + 1) + 1], g[(p + 1) + 1])
    BY <1>1, <2>1
  <2>3. QED
    BY <1>6, <1>8, <2>1, <2>2
<1>11. at[1] = a[2] /\ open[1] = g[2] /\ at[n + 1] = z /\ open[n + 1] = G
  <2>1. n + 1 \in 1..(n + 1) /\ (n + 1) + 1 = n + 2
    OBVIOUS
  <2>2. QED
    BY <1>1, <1>2, <1>6, <2>1
<1>12. Leads(Tail(calls), a[2], g[2], z, G)
  BY <1>7, <1>8, <1>9, <1>10, <1>11 DEF Leads
<1>13. QED
  BY <1>3, <1>5, <1>12

(* Earlier in a chunk is still in it. *)
LEMMA WithinEarlier ==
  ASSUME NEW x \in Nat, NEW y \in Nat, x <= y, NEW E \in Seq(Nat), Within(y, E)
  PROVE  Within(x, E)
<1>1. ASSUME NEW i \in DOMAIN E
      PROVE  x <= E[i]
  <2>1. y <= E[i] /\ E[i] \in Nat
    BY DEF Within
  <2>2. QED
    BY <2>1
<1>2. QED
  BY <1>1 DEF Within

(* Calls that open and close nothing lead as far as their sizes say. *)
LEMMA LeadsRow ==
  ASSUME NEW calls \in Seq(Plain), NEW s \in Seq(Nat), Len(s) = Len(calls),
         \A i \in 1..Len(calls) : CallSize(calls[i]) = s[i],
         NEW x \in Nat, NEW E \in Seq(Nat), Within(x + Total(s), E)
  PROVE  Leads(calls, x, E, x + Total(s), E)
<1>0. PICK n \in Nat : n = Len(calls) /\ n = Len(s)
  OBVIOUS
<1>1. PICK f : Sums(f, s) /\ f[n] = Total(s)
  BY <1>0, TotalSums
<1>2. /\ \A i \in 0..n : f[i] \in Nat /\ f[i] <= f[n]
      /\ f[0] = 0
      /\ \A i \in 1..n : f[i] = f[i - 1] + s[i]
  <2>1. \A i \in 0..n : f[i] <= f[n]
    BY <1>0, <1>1, SumsUpTo
  <2>2. QED
    BY <1>0, <1>1, <2>1 DEF Sums
<1>3. PICK y \in Nat : y = x + f[n] /\ y = x + Total(s)
  <2>1. n \in 0..n
    OBVIOUS
  <2>2. f[n] \in Nat
    BY <1>2, <2>1
  <2>3. QED
    BY <1>1, <2>2
<1> DEFINE at == [p \in 1..(n + 1) |-> x + f[p - 1]]
           open == [p \in 1..(n + 1) |-> E]
<1>4. \A p \in 1..(n + 1) : at[p] = x + f[p - 1] /\ p - 1 \in 0..n /\ open[p] = E
  OBVIOUS
<1>5. \A p \in 1..(n + 1) : at[p] \in Nat /\ at[p] <= y
  <2> SUFFICES ASSUME NEW p \in 1..(n + 1)
               PROVE  at[p] \in Nat /\ at[p] <= y
    OBVIOUS
  <2> HIDE DEF at, open
  <2>1. f[p - 1] \in Nat /\ f[p - 1] <= f[n] /\ f[n] \in Nat
    <3>1. n \in 0..n
      OBVIOUS
    <3>2. QED
      BY <1>2, <1>4, <3>1
  <2>2. QED
    BY <1>3, <1>4, <2>1
<1>6. at \in [1..(n + 1) -> Nat] /\ open \in [1..(n + 1) -> Seq(Nat)]
  BY <1>5
<1> HIDE DEF at, open
<1>7. \A p \in 1..(n + 1) : at[p] <= y /\ Within(at[p], open[p])
  <2> SUFFICES ASSUME NEW p \in 1..(n + 1)
               PROVE  Within(at[p], open[p])
    BY <1>5
  <2>1. Within(y, E)
    BY <1>3
  <2>2. QED
    BY <1>4, <1>5, <2>1, WithinEarlier
<1>8. \A p \in 1..n : Step(calls[p], at[p], open[p], at[p + 1], open[p + 1])
  <2> SUFFICES ASSUME NEW p \in 1..n
               PROVE  Step(calls[p], at[p], open[p], at[p + 1], open[p + 1])
    OBVIOUS
  <2>1. p \in 1..(n + 1) /\ p + 1 \in 1..(n + 1) /\ (p + 1) - 1 = p /\ p \in 0..n /\ p - 1 \in 0..n
    OBVIOUS
  <2>2. calls[p] \in Plain /\ CallSize(calls[p]) = s[p] /\ s[p] \in Nat
    BY <1>0
  <2>3. at[p + 1] = x + f[p] /\ at[p] = x + f[p - 1]
    BY <1>4, <2>1
  <2>4. f[p] = f[p - 1] + s[p] /\ f[p - 1] \in Nat
    BY <1>2, <2>1
  <2>5. at[p + 1] = at[p] + CallSize(calls[p])
    BY <2>2, <2>3, <2>4
  <2>6. open[p + 1] = open[p]
    BY <1>4, <2>1
  <2>7. QED
    BY <2>2, <2>5, <2>6 DEF Step
<1>9. at[1] = x /\ open[1] = E /\ at[n + 1] = y /\ open[n + 1] = E
  <2>1. 1 \in 1..(n + 1) /\ n + 1 \in 1..(n + 1) /\ 1 - 1 = 0 /\ (n + 1) - 1 = n
    OBVIOUS
  <2>2. QED
    BY <1>2, <1>3, <1>4, <2>1
<1>10. Leads(calls, x, E, y, E)
  BY <1>0, <1>6, <1>7, <1>8, <1>9 DEF Leads
<1>11. QED
  BY <1>3, <1>10

LEMMA PairOfOnes ==
  ASSUME NEW c, NEW d
  PROVE  << c >> \o << d >> = << c, d >>
<1>1. << c >> \in Seq({c, d})
  OBVIOUS
<1>2. << d >> \in Seq({c, d})
  OBVIOUS
<1>3. Len(<< c >>) = 1 /\ Len(<< d >>) = 1
  OBVIOUS
<1>4. PICK a \in Seq({c, d}) : a = << c >>
  BY <1>1
<1>5. PICK b \in Seq({c, d}) : b = << d >>
  BY <1>2
<1>6. Len(a) = 1 /\ a[1] = c
  BY <1>4
<1>7. Len(b) = 1 /\ b[1] = d
  BY <1>5
<1>8. a \o b \in Seq({c, d})
  OBVIOUS
<1>9. Len(a \o b) = Len(a) + Len(b)
  OBVIOUS
<1>10. \A i \in 1..(Len(a) + Len(b)) : (a \o b)[i] = IF i <= Len(a) THEN a[i] ELSE b[i - Len(a)]
  OBVIOUS
<1>11. 1 \in 1..(1 + 1) /\ 2 \in 1..(1 + 1) /\ 2 - 1 = 1 /\ ~(2 <= 1) /\ 1 <= 1 /\ 1 + 1 = 2
  OBVIOUS
<1>12. PICK t \in Seq({c, d}) : t = a \o b
  BY <1>8
<1>13. Len(t) = 2
  BY <1>6, <1>7, <1>9, <1>11, <1>12
<1>14. t[1] = c
  BY <1>6, <1>7, <1>10, <1>11, <1>12
<1>15. t[2] = d
  BY <1>6, <1>7, <1>10, <1>11, <1>12
<1>16. t = << c, d >>
  BY <1>13, <1>14, <1>15
<1>17. QED
  BY <1>16, <1>4, <1>5, <1>12

AnyCall == Plain \cup { OpenMark(n) : n \in Nat } \cup {CloseMark}

LEMMA AppendFacts ==
  ASSUME NEW E \in Seq(Nat), NEW e \in Nat
  PROVE  /\ Append(E, e) \in Seq(Nat) /\ Append(E, e) # <<>>
         /\ Last(Append(E, e)) = e /\ Front(Append(E, e)) = E
<1>0. Append(E, e) \in Seq(Nat)
  OBVIOUS
<1>1. PICK A \in Seq(Nat) : A = Append(E, e)
  BY <1>0
<1>2. Len(A) = Len(E) + 1 /\ A[Len(E) + 1] = e /\ \A i \in 1..Len(E) : A[i] = E[i]
  BY <1>1
<1>3. A # <<>>
  BY <1>2
<1>4. Last(A) = e
  BY <1>2 DEF Last
<1>5. Front(A) = E
  <2>1. Front(A) = SubSeq(A, 1, Len(E))
    BY <1>2 DEF Front
  <2>2. SubSeq(A, 1, Len(E)) = E
    BY <1>2
  <2>3. QED
    BY <2>1, <2>2
<1>6. QED
  BY <1>1, <1>3, <1>4, <1>5

(* A chunk in which the calls write what the length says. *)
LEMMA LeadsChunk ==
  ASSUME NEW calls \in Seq(Plain), NEW s \in Seq(Nat), Len(s) = Len(calls),
         \A i \in 1..Len(calls) : CallSize(calls[i]) = s[i],
         NEW len \in Word, Total(s) = len,
         NEW x \in Nat, NEW E \in Seq(Nat), Within(x + SizeofLen(len), E)
  PROVE  /\ Chunk(len, calls) \in Seq(AnyCall)
         /\ Leads(Chunk(len, calls), x, E, x + SizeofLen(len), E)
<1>0. len \in Nat /\ SizeofVarint(len) \in Nat
  BY WordType, LenType
<1>1. PICK v \in Nat, y \in Nat : v = x + SizeofVarint(len) /\ y = v + len /\ y = x + SizeofLen(len)
  BY <1>0 DEF SizeofLen
<1>2. Within(y, E) /\ Within(v, E) /\ Within(x, E) /\ x <= v /\ v <= y
  <2>1. Within(y, E) /\ x <= v /\ v <= y
    BY <1>0, <1>1
  <2>2. x <= y
    BY <2>1
  <2>3. QED
    BY <2>1, <2>2, WithinEarlier
<1>3. PICK F \in Seq(Nat) : /\ F = Append(E, y)
                            /\ F # <<>> /\ Last(F) = y /\ Front(F) = E
                            /\ Len(F) = Len(E) + 1 /\ F[Len(E) + 1] = y
                            /\ \A i \in 1..Len(E) : F[i] = E[i]
  <2>1. PICK F \in Seq(Nat) : F = Append(E, y) /\ F # <<>> /\ Last(F) = y /\ Front(F) = E
    BY AppendFacts
  <2>2. Len(F) = Len(E) + 1 /\ F[Len(E) + 1] = y /\ \A i \in 1..Len(E) : F[i] = E[i]
    BY <2>1
  <2>3. QED
    BY <2>1, <2>2
<1>4. Within(y, F)
  <2>1. \A i \in DOMAIN F : y <= F[i]
    <3> SUFFICES ASSUME NEW i \in 1..(Len(E) + 1)
                 PROVE  y <= F[i]
      BY <1>3
    <3>1. CASE i \in 1..Len(E)
      BY <1>2, <1>3, <3>1 DEF Within
    <3>2. CASE i = Len(E) + 1
      BY <1>3, <3>2
    <3>3. QED
      BY <3>1, <3>2
  <2>2. \A i \in 2..Len(F) : F[i] <= F[i - 1]
    <3> SUFFICES ASSUME NEW i \in 2..(Len(E) + 1)
                 PROVE  F[i] <= F[i - 1]
      BY <1>3
    <3>0. i - 1 \in 1..Len(E)
      OBVIOUS
    <3>1. CASE i \in 2..Len(E)
      <4>1. E[i] <= E[i - 1]
        BY <1>2, <3>1 DEF Within
      <4>2. i \in 1..Len(E)
        BY <3>1
      <4>3. QED
        BY <1>3, <3>0, <4>1, <4>2
    <3>2. CASE i = Len(E) + 1
      <4>1. y <= E[i - 1]
        BY <1>2, <3>0 DEF Within
      <4>2. QED
        BY <1>3, <3>0, <3>2, <4>1
    <3>3. QED
      BY <3>1, <3>2
  <2>3. QED
    BY <2>1, <2>2 DEF Within
<1>5. Within(v, F)
  BY <1>2, <1>4, WithinEarlier
<1>6. Leads(<< Varint(len) >>, x, E, v, E)
  <2>1. Varint(len) \in Plain /\ CallSize(Varint(len)) = SizeofVarint(len)
    BY CallFacts DEF Plain
  <2>2. Step(Varint(len), x, E, v, E)
    BY <1>1, <2>1 DEF Step
  <2>3. QED
    BY <1>2, <2>2, LeadsOne
<1>7. Leads(<< OpenMark(len) >>, v, E, v, F)
  <2>1. Step(OpenMark(len), v, E, v, F)
    BY <1>0, <1>1, <1>3 DEF Step
  <2>2. v <= v
    OBVIOUS
  <2>3. QED
    BY <1>2, <1>5, <2>1, <2>2, LeadsOne
<1>8. Leads(calls, v, F, y, F)
  <2>1. y = v + Total(s)
    BY <1>1
  <2>2. QED
    BY <1>4, <2>1, LeadsRow
<1>9. Leads(<< CloseMark >>, y, F, y, E)
  <2>1. Step(CloseMark, y, F, y, E)
    BY <1>3 DEF Step
  <2>2. y <= y
    OBVIOUS
  <2>3. QED
    BY <1>2, <1>4, <2>1, <2>2, LeadsOne
<1>10. /\ << Varint(len) >> \in Seq(AnyCall) /\ << OpenMark(len) >> \in Seq(AnyCall)
       /\ calls \in Seq(AnyCall) /\ << CloseMark >> \in Seq(AnyCall)
  <2>1. Varint(len) \in AnyCall /\ OpenMark(len) \in AnyCall /\ CloseMark \in AnyCall
    BY <1>0, CallFacts DEF Plain, AnyCall
  <2>2. Plain \subseteq AnyCall
    BY DEF AnyCall
  <2>3. QED
    BY <2>1, <2>2
<1>11. PICK two \in Seq(AnyCall) : two = << Varint(len), OpenMark(len) >> /\ Leads(two, x, E, v, F)
  <2>1. PICK a \in Seq(AnyCall), b \in Seq(AnyCall) : a = << Varint(len) >> /\ b = << OpenMark(len) >>
    BY <1>10
  <2>2. Leads(a \o b, x, E, v, F)
    BY <1>6, <1>7, <2>1, LeadsOn
  <2>3. a \o b \in Seq(AnyCall)
    OBVIOUS
  <2>4. a \o b = << Varint(len), OpenMark(len) >>
    BY <2>1, PairOfOnes
  <2>5. QED
    BY <2>2, <2>3, <2>4
<1>12. Leads(two \o calls, x, E, y, F)
  BY <1>8, <1>10, <1>11, LeadsOn
<1>13. two \o calls \in Seq(AnyCall)
  BY <1>10
<1>14. PICK three \in Seq(AnyCall), last \in Seq(AnyCall) :
         three = two \o calls /\ last = << CloseMark >>
  BY <1>10, <1>13
<1>15. Leads(three \o last, x, E, y, E)
  BY <1>9, <1>12, <1>14, LeadsOn
<1>16. three \o last \in Seq(AnyCall)
  OBVIOUS
<1>17. Chunk(len, calls) = three \o last
  BY <1>11, <1>14 DEF Chunk, OpenMark, CloseMark
<1>18. QED
  BY <1>1, <1>15, <1>16, <1>17

-----------------------------------------------------------------------------
(* What each call expands to leads as far as the call.                     *)

(* A sequence of sums adds up to the total. *)
LEMMA SumsTotal ==
  ASSUME NEW s \in Seq(Nat), NEW g, Sums(g, s)
  PROVE  Total(s) = g[Len(s)]
<1>0. PICK n \in Nat : n = Len(s)
  OBVIOUS
<1>1. PICK f : Sums(f, s) /\ f[n] = Total(s)
  BY <1>0, TotalSums
<1> DEFINE S == {k \in Nat : k <= n => f[k] = g[k]}
<1>2. 0 \in S
  BY <1>1 DEF Sums
<1>3. ASSUME NEW k \in Nat, k < n, k \in S
      PROVE  k + 1 \in S
  <2>1. k + 1 \in 1..n /\ (k + 1) - 1 = k
    BY <1>3
  <2>2. f[k + 1] = f[k] + s[k + 1] /\ g[k + 1] = g[k] + s[k + 1]
    BY <1>0, <1>1, <2>1 DEF Sums
  <2>3. f[k] = g[k]
    BY <1>3
  <2>4. QED
    BY <2>2, <2>3
<1>4. n \in S
  <2> HIDE DEF S
  <2>1. \A k \in 0..n : k \in S
    BY <1>2, <1>3, UpTo
  <2>2. QED
    BY <2>1
<1>5. QED
  BY <1>0, <1>1, <1>4

LEMMA FewNumbers ==
  /\ \A a \in Nat : <<a>> \in Seq(Nat) /\ Len(<<a>>) = 1 /\ <<a>>[1] = a
  /\ \A a, b \in Nat : <<a, b>> \in Seq(Nat) /\ Len(<<a, b>>) = 2
  /\ \A a, b \in Nat : <<a, b>>[1] = a /\ <<a, b>>[2] = b
  /\ \A a, b, c, d \in Nat : <<a, b, c, d>> \in Seq(Nat) /\ Len(<<a, b, c, d>>) = 4
  /\ \A a, b, c, d \in Nat : /\ <<a, b, c, d>>[1] = a /\ <<a, b, c, d>>[2] = b
                             /\ <<a, b, c, d>>[3] = c /\ <<a, b, c, d>>[4] = d
<1>1. \A a \in Nat : <<a>> \in Seq(Nat) /\ Len(<<a>>) = 1 /\ <<a>>[1] = a
  OBVIOUS
<1>2. \A a, b \in Nat : <<a, b>> \in Seq(Nat) /\ Len(<<a, b>>) = 2
  OBVIOUS
<1>3. \A a, b \in Nat : <<a, b>>[1] = a /\ <<a, b>>[2] = b
  OBVIOUS
<1>4. \A a, b, c, d \in Nat : <<a, b, c, d>> \in Seq(Nat) /\ Len(<<a, b, c, d>>) = 4
  OBVIOUS
<1>5. \A a, b, c, d \in Nat : /\ <<a, b, c, d>>[1] = a /\ <<a, b, c, d>>[2] = b
                              /\ <<a, b, c, d>>[3] = c /\ <<a, b, c, d>>[4] = d
  OBVIOUS
<1>6. QED
  BY <1>1, <1>2, <1>3, <1>4, <1>5

LEMMA TotalsOfFew ==
  /\ Total(<<>>) = 0
  /\ \A a \in Nat : Total(<<a>>) = a
  /\ \A a, b \in Nat : Total(<<a, b>>) = a + b
  /\ \A a, b, c, d \in Nat : Total(<<a, b, c, d>>) = a + b + c + d
<1>1. Total(<<>>) = 0
  <2>1. Sums([i \in 0..0 |-> 0], <<>>)
    BY DEF Sums
  <2>2. QED
    BY <2>1, SumsTotal
<1>2. ASSUME NEW a \in Nat
      PROVE  Total(<<a>>) = a
  <2>1. PICK s \in Seq(Nat) : s = <<a>> /\ Len(s) = 1 /\ s[1] = a
    BY FewNumbers
  <2>2. PICK f : Sums(f, s) /\ f[1] = Total(s)
    BY <2>1, TotalSums
  <2>3. f[0] = 0 /\ f[1] = f[0] + s[1]
    BY <2>1, <2>2 DEF Sums
  <2>4. QED
    BY <2>1, <2>2, <2>3
<1>3. ASSUME NEW a \in Nat, NEW b \in Nat
      PROVE  Total(<<a, b>>) = a + b
  <2>1. PICK s \in Seq(Nat) : s = <<a, b>> /\ Len(s) = 2 /\ s[1] = a /\ s[2] = b
    <3>1. <<a, b>> \in Seq(Nat) /\ Len(<<a, b>>) = 2
      BY FewNumbers
    <3>2. PICK s \in Seq(Nat) : s = <<a, b>> /\ Len(s) = 2
      BY <3>1
    <3>3. s[1] = a /\ s[2] = b
      BY <3>2
    <3>4. QED
      BY <3>2, <3>3
  <2>2. PICK f : Sums(f, s) /\ f[2] = Total(s)
    BY <2>1, TotalSums
  <2>3. f[0] = 0 /\ f[1] = f[0] + s[1] /\ f[2] = f[1] + s[2]
    BY <2>1, <2>2 DEF Sums
  <2>4. QED
    BY <2>1, <2>2, <2>3
<1>4. ASSUME NEW a \in Nat, NEW b \in Nat, NEW c \in Nat, NEW d \in Nat
      PROVE  Total(<<a, b, c, d>>) = a + b + c + d
  <2>1. PICK s \in Seq(Nat) :
          s = <<a, b, c, d>> /\ Len(s) = 4 /\ s[1] = a /\ s[2] = b /\ s[3] = c /\ s[4] = d
    <3>1. <<a, b, c, d>> \in Seq(Nat) /\ Len(<<a, b, c, d>>) = 4
      BY FewNumbers
    <3>2. PICK s \in Seq(Nat) : s = <<a, b, c, d>> /\ Len(s) = 4
      BY <3>1
    <3>3. s[1] = a /\ s[2] = b /\ s[3] = c /\ s[4] = d
      BY <3>2
    <3>4. QED
      BY <3>2, <3>3
  <2>2. PICK f : Sums(f, s) /\ f[4] = Total(s)
    BY <2>1, TotalSums
  <2>3. f[0] = 0 /\ f[1] = f[0] + s[1] /\ f[2] = f[1] + s[2]
        /\ f[3] = f[2] + s[3] /\ f[4] = f[3] + s[4]
    BY <2>1, <2>2 DEF Sums
  <2>4. QED
    BY <2>1, <2>2, <2>3
<1>5. QED
  BY <1>1, <1>2, <1>3, <1>4

LEMMA OneMoreTag ==
  ASSUME NEW i \in Nat, NEW tag \in Nat
  PROVE  i * tag \in Nat /\ (i + 1) * tag = i * tag + tag /\ 0 * tag = 0
OBVIOUS

(* A tag with each element, or all the tags and then the elements. *)
LEMMA TotalTagged ==
  ASSUME NEW s \in Seq(Nat), NEW tag \in Nat, NEW t \in Seq(Nat), Len(t) = Len(s),
         \A i \in 1..Len(s) : t[i] = tag + s[i]
  PROVE  Total(t) = Len(s) * tag + Total(s)
<1>0. PICK n \in Nat : n = Len(s)
  OBVIOUS
<1>1. PICK f : Sums(f, s) /\ f[n] = Total(s)
  BY <1>0, TotalSums
<1>2. /\ \A i \in 0..n : f[i] \in Nat
      /\ f[0] = 0
      /\ \A i \in 1..n : f[i] = f[i - 1] + s[i]
  BY <1>0, <1>1 DEF Sums
<1>3. PICK g \in [0..n -> Nat] : \A i \in 0..n : g[i] = i * tag + f[i]
  <2>1. \A i \in 0..n : i * tag + f[i] \in Nat
    <3> SUFFICES ASSUME NEW i \in 0..n
                 PROVE  i * tag + f[i] \in Nat
      OBVIOUS
    <3>1. PICK u \in Nat : u = i * tag
      BY OneMoreTag
    <3>2. f[i] \in Nat
      BY <1>2
    <3>3. u + f[i] \in Nat
      BY <3>2
    <3>4. QED
      BY <3>1, <3>3
  <2>2. [i \in 0..n |-> i * tag + f[i]] \in [0..n -> Nat]
    BY <2>1
  <2>3. QED
    BY <2>2
<1>4. g[0] = 0
  <2>1. 0 \in 0..n /\ 0 * tag = 0
    BY OneMoreTag
  <2>2. QED
    BY <1>2, <1>3, <2>1
<1>5. ASSUME NEW i \in 1..n
      PROVE  g[i] = g[i - 1] + t[i]
  <2>1. i - 1 \in 0..n /\ i \in 0..n /\ i - 1 \in Nat /\ (i - 1) + 1 = i
    OBVIOUS
  <2>2. PICK u \in Nat, v \in Nat : u = (i - 1) * tag /\ v = i * tag /\ v = u + tag
    BY <2>1, OneMoreTag
  <2>3. g[i] = v + f[i] /\ g[i - 1] = u + f[i - 1]
    BY <1>3, <2>1, <2>2
  <2>4. f[i] = f[i - 1] + s[i] /\ t[i] = tag + s[i] /\ f[i - 1] \in Nat /\ s[i] \in Nat
    BY <1>0, <1>2, <2>1
  <2>5. PICK p \in Nat, q \in Nat, r \in Nat : p = f[i - 1] /\ q = s[i] /\ r = t[i]
    <3>1. t[i] \in Nat
      BY <1>0
    <3>2. QED
      BY <2>4, <3>1
  <2>6. f[i] = p + q /\ r = tag + q
    BY <2>4, <2>5
  <2>7. g[i] = (u + tag) + (p + q) /\ g[i - 1] = u + p
    BY <2>2, <2>3, <2>5, <2>6
  <2>8. (u + tag) + (p + q) = (u + p) + (tag + q)
    OBVIOUS
  <2>9. QED
    BY <2>5, <2>6, <2>7, <2>8
<1>6. Sums(g, t)
  BY <1>0, <1>4, <1>5 DEF Sums
<1>7. Total(t) = g[n]
  BY <1>0, <1>6, SumsTotal
<1>8. n \in 0..n
  OBVIOUS
<1>9. QED
  BY <1>0, <1>1, <1>3, <1>7, <1>8

LEMMA WordBelow ==
  ASSUME NEW k \in Word, NEW n \in Nat, n <= k
  PROVE  n \in Word
<1>1. VarintMax \in 0..VarintMax
  BY SerializerAssumption
<1>2. Power[VarintMax] \in Nat
  BY <1>1, PowerFacts
<1>3. QED
  BY <1>2 DEF Word
(* The calls of a list write `size` bytes, and leave no chunk open. *)
Fills(calls, size) ==
  /\ calls \in Seq(AnyCall)
  /\ \A x \in Nat, E \in Seq(Nat) : Within(x + size, E) => Leads(calls, x, E, x + size, E)

LEMMA PlainIsCall == Plain \subseteq AnyCall /\ Seq(Plain) \subseteq Seq(AnyCall)
<1>1. Plain \subseteq AnyCall
  BY DEF AnyCall
<1>2. QED
  BY <1>1

(* Calls that write as many bytes as the numbers say. *)
LEMMA FillsRow ==
  ASSUME NEW calls \in Seq(Plain), NEW s \in Seq(Nat), Len(s) = Len(calls),
         \A i \in 1..Len(calls) : CallSize(calls[i]) = s[i]
  PROVE  Fills(calls, Total(s))
<1>1. ASSUME NEW x \in Nat, NEW E \in Seq(Nat), Within(x + Total(s), E)
      PROVE  Leads(calls, x, E, x + Total(s), E)
  BY <1>1, LeadsRow
<1>2. QED
  BY <1>1, PlainIsCall DEF Fills

LEMMA FillsChunk ==
  ASSUME NEW calls \in Seq(Plain), NEW s \in Seq(Nat), Len(s) = Len(calls),
         \A i \in 1..Len(calls) : CallSize(calls[i]) = s[i],
         NEW len \in Word, Total(s) = len
  PROVE  Fills(Chunk(len, calls), SizeofLen(len))
<1>1. Within(0 + SizeofLen(len), <<>>)
  BY DEF Within
<1>2. <<>> \in Seq(Nat) /\ 0 \in Nat
  OBVIOUS
<1>3. Chunk(len, calls) \in Seq(AnyCall)
  BY <1>1, <1>2, LeadsChunk
<1>4. ASSUME NEW x \in Nat, NEW E \in Seq(Nat), Within(x + SizeofLen(len), E)
      PROVE  Leads(Chunk(len, calls), x, E, x + SizeofLen(len), E)
  BY <1>4, LeadsChunk
<1>5. QED
  BY <1>3, <1>4 DEF Fills

LEMMA FillsNone == Fills(<<>>, 0)
<1>1. <<>> \in Seq(AnyCall)
  OBVIOUS
<1>2. ASSUME NEW x \in Nat, NEW E \in Seq(Nat), Within(x + 0, E)
      PROVE  Leads(<<>>, x, E, x + 0, E)
  <2>1. x + 0 = x
    OBVIOUS
  <2>2. QED
    BY <1>2, <2>1, LeadsNowhere
<1>3. QED
  BY <1>1, <1>2 DEF Fills

LEMMA FillsOne ==
  ASSUME NEW c \in Plain
  PROVE  Fills(<<c>>, CallSize(c))
<1>1. <<c>> \in Seq(Plain) /\ Len(<<c>>) = 1 /\ <<c>>[1] = c
  OBVIOUS
<1>2. PICK calls \in Seq(Plain) : calls = <<c>> /\ Len(calls) = 1 /\ calls[1] = c
  BY <1>1
<1>3. PICK n \in Nat : n = CallSize(c)
  BY PlainSizes
<1>4. PICK s \in Seq(Nat) : s = <<n>> /\ Len(s) = 1 /\ s[1] = n
  BY FewNumbers
<1>5. Total(s) = n
  BY <1>4, TotalsOfFew
<1>6. \A i \in 1..Len(calls) : CallSize(calls[i]) = s[i]
  <2> SUFFICES ASSUME NEW i \in 1..1
               PROVE  CallSize(calls[i]) = s[i]
    BY <1>2
  <2>1. i = 1
    OBVIOUS
  <2>2. QED
    BY <1>2, <1>3, <1>4, <2>1
<1>7. Fills(calls, Total(s))
  BY <1>2, <1>4, <1>6, FillsRow
<1>8. QED
  BY <1>2, <1>3, <1>5, <1>7

LEMMA FillsTwo ==
  ASSUME NEW c \in Plain, NEW d \in Plain
  PROVE  Fills(<<c, d>>, CallSize(c) + CallSize(d))
<1>1. <<c, d>> \in Seq(Plain)
  OBVIOUS
<1>2. Len(<<c, d>>) = 2 /\ <<c, d>>[1] = c /\ <<c, d>>[2] = d
  OBVIOUS
<1>3. PICK calls \in Seq(Plain) : calls = <<c, d>> /\ Len(calls) = 2 /\ calls[1] = c /\ calls[2] = d
  BY <1>1, <1>2
<1>4. PICK m \in Nat, n \in Nat : m = CallSize(c) /\ n = CallSize(d)
  BY PlainSizes
<1>5. <<m, n>> \in Seq(Nat) /\ Len(<<m, n>>) = 2
  BY FewNumbers
<1>6. PICK s \in Seq(Nat) : s = <<m, n>> /\ Len(s) = 2
  BY <1>5
<1>7. s[1] = m /\ s[2] = n
  BY <1>6
<1>8. Total(s) = m + n
  BY <1>6, TotalsOfFew
<1>9. \A i \in 1..Len(calls) : CallSize(calls[i]) = s[i]
  <2> SUFFICES ASSUME NEW i \in 1..2
               PROVE  CallSize(calls[i]) = s[i]
    BY <1>3
  <2>1. i = 1 \/ i = 2
    OBVIOUS
  <2>2. QED
    BY <1>3, <1>4, <1>7, <2>1
<1>10. Fills(calls, Total(s))
  BY <1>3, <1>6, <1>9, FillsRow
<1>11. QED
  BY <1>3, <1>4, <1>8, <1>10

(* write_bytes. *)
LEMMA FillsBytes ==
  ASSUME NEW n \in Word
  PROVE  Fills(Chunk(n, << All(n) >>), SizeofLen(n))
<1>0. n \in Nat
  BY WordType
<1>1. All(n) \in Plain /\ CallSize(All(n)) = n
  BY <1>0, CallFacts DEF Plain
<1>2. << All(n) >> \in Seq(Plain) /\ Len(<< All(n) >>) = 1 /\ << All(n) >>[1] = All(n)
  BY <1>1
<1>3. PICK calls \in Seq(Plain) : calls = << All(n) >> /\ Len(calls) = 1 /\ calls[1] = All(n)
  BY <1>2
<1>4. PICK s \in Seq(Nat) : s = <<n>> /\ Len(s) = 1 /\ s[1] = n
  BY <1>0, FewNumbers
<1>5. Total(s) = n
  BY <1>0, <1>4, TotalsOfFew
<1>6. \A i \in 1..Len(calls) : CallSize(calls[i]) = s[i]
  <2> SUFFICES ASSUME NEW i \in 1..1
               PROVE  CallSize(calls[i]) = s[i]
    BY <1>3
  <2>1. i = 1
    OBVIOUS
  <2>2. QED
    BY <1>1, <1>3, <1>4, <2>1
<1>7. Len(s) = Len(calls)
  BY <1>3, <1>4
<1>8. Fills(Chunk(n, calls), SizeofLen(n))
  BY <1>5, <1>6, <1>7, FillsChunk
<1>9. QED
  BY <1>3, <1>8

(* write_packed. *)
LEMMA FillsPacked ==
  ASSUME NEW data \in Seq(Datum), Total(SizesOf(data, GetSize)) \in Word
  PROVE  Fills(PackedCalls(data), SizeofLen(Total(SizesOf(data, GetSize))))
<1>1. PICK s \in Seq(Nat) :
        /\ s = SizesOf(data, GetSize)
        /\ Len(s) = Len(data)
        /\ \A i \in 1..Len(data) : s[i] = DatumSize(data[i], GetSize)
  BY GetSizeDef, SizesOfType
<1> DEFINE row == [i \in DOMAIN data |-> DatumCall(data[i])]
<1>2. \A i \in 1..Len(data) : /\ DatumCall(data[i]) \in Plain
                              /\ CallSize(DatumCall(data[i])) = DatumSize(data[i], GetSize)
  BY DatumCallSize DEF Plain
<1>3. row \in Seq(Plain) /\ Len(row) = Len(data)
      /\ \A i \in 1..Len(data) : row[i] = DatumCall(data[i])
  BY <1>2
<1> HIDE DEF row
<1>4. \A i \in 1..Len(row) : CallSize(row[i]) = s[i]
  BY <1>1, <1>2, <1>3
<1>5. PICK len \in Word : len = Total(s)
  BY <1>1
<1>6. Len(s) = Len(row)
  BY <1>1, <1>3
<1>7. Fills(Chunk(len, row), SizeofLen(len))
  BY <1>3, <1>4, <1>5, <1>6, FillsChunk
<1>8. PackedCalls(data) = Chunk(len, row)
  BY <1>1, <1>5 DEF PackedCalls, row
<1>9. QED
  BY <1>1, <1>5, <1>7, <1>8

(* write_map: the tags take a byte each. *)
LEMMA FillsMap ==
  ASSUME NEW e \in Entry, EntrySize(e, GetSize) \in Word
  PROVE  Fills(EntryCalls(e), SizeofLen(EntrySize(e, GetSize)))
<1>1. e.key \in Datum /\ e.value \in Datum
  BY DEF Entry
<1>2. Varint(1) \in Plain /\ CallSize(Varint(1)) = 1
  <2>1. 1 \in Word /\ 1 < Base
    BY WordType, SerializerAssumption
  <2>2. SizeofVarint(1) = 1
    BY <2>1, VarintRows
  <2>3. QED
    BY <2>1, <2>2, CallFacts DEF Plain
<1>3. PICK c \in Plain : c = DatumCall(e.key) /\ CallSize(c) = DatumSize(e.key, GetSize)
  BY <1>1, DatumCallSize DEF Plain
<1>4. PICK d \in Plain : d = DatumCall(e.value) /\ CallSize(d) = DatumSize(e.value, GetSize)
  BY <1>1, DatumCallSize DEF Plain
<1>5. PICK m \in Nat, n \in Nat : m = CallSize(c) /\ n = CallSize(d)
  BY PlainSizes
<1>6. PICK o \in Plain : o = Varint(1) /\ CallSize(o) = 1
  BY <1>2
<1>7. <<o, c, o, d>> \in Seq(Plain)
  OBVIOUS
<1>8. Len(<<o, c, o, d>>) = 4
  OBVIOUS
<1>9. PICK calls \in Seq(Plain) : calls = <<o, c, o, d>> /\ Len(calls) = 4
  BY <1>7, <1>8
<1>10. calls[1] = o /\ calls[2] = c /\ calls[3] = o /\ calls[4] = d
  BY <1>9
<1>11. <<1, m, 1, n>> \in Seq(Nat) /\ Len(<<1, m, 1, n>>) = 4
  BY FewNumbers
<1>12. PICK s \in Seq(Nat) : s = <<1, m, 1, n>> /\ Len(s) = 4
  BY <1>11
<1>13. s[1] = 1 /\ s[2] = m /\ s[3] = 1 /\ s[4] = n
  BY <1>12
<1>14. PICK len \in Word : len = EntrySize(e, GetSize) /\ len = 2 + m + n
  BY <1>3, <1>4, <1>5 DEF EntrySize
<1>15. Total(s) = len
  <2>1. Total(<<1, m, 1, n>>) = 1 + m + 1 + n
    BY TotalsOfFew
  <2>2. 1 + m + 1 + n = 2 + m + n
    OBVIOUS
  <2>3. QED
    BY <1>12, <1>14, <2>1, <2>2
<1>16. \A i \in 1..Len(calls) : CallSize(calls[i]) = s[i]
  <2> SUFFICES ASSUME NEW i \in 1..4
               PROVE  CallSize(calls[i]) = s[i]
    BY <1>9
  <2>1. i = 1 \/ i = 2 \/ i = 3 \/ i = 4
    OBVIOUS
  <2>2. QED
    BY <1>5, <1>6, <1>10, <1>13, <2>1
<1>17. Len(s) = Len(calls)
  BY <1>9, <1>12
<1>18. Fills(Chunk(len, calls), SizeofLen(len))
  BY <1>15, <1>16, <1>17, FillsChunk
<1>19. EntryCalls(e) = Chunk(len, calls)
  BY <1>3, <1>4, <1>6, <1>9, <1>14 DEF EntryCalls
<1>20. QED
  BY <1>14, <1>18, <1>19

(* write_message, with the length and without. *)
LEMMA FillsMessage ==
  ASSUME NEW m \in Messages
  PROVE  /\ Fills(Body(m), GetSize[m])
         /\ Fills(Chunk(GetSize[m], Body(m)), SizeofLen(GetSize[m]))
<1>0. m \in Seq(Field) /\ GetSize \in [Messages -> Nat]
  BY GetSizeDef, MessagesAssumption
<1>1. PICK s \in Seq(Nat) : /\ s = FieldSizes(m, GetSize)
                            /\ Len(s) = Len(m)
                            /\ \A i \in 1..Len(m) : s[i] = FieldSize(m[i], GetSize)
  BY <1>0, BodySizeType
<1>2. PICK len \in Word : len = GetSize[m] /\ len = Total(s)
  <2>1. GetSize[m] = BodySize(m, GetSize) /\ GetSize[m] \in Word
    BY GetSizeDef
  <2>2. QED
    BY <1>1, <2>1 DEF BodySize
<1>3. ASSUME NEW i \in 1..Len(m)
      PROVE  m[i] \in Field /\ FieldSize(m[i], GetSize) \in Word
  <2>1. m[i] \in Field /\ s[i] \in Nat
    BY <1>0, <1>1
  <2>2. s[i] <= Total(s)
    BY <1>1, TotalSums
  <2>3. s[i] \in Word
    BY <1>2, <2>1, <2>2, WordBelow
  <2>4. QED
    BY <1>1, <2>1, <2>3
<1>4. \A i \in 1..Len(m) : /\ WriteField(m[i]) \in Plain
                           /\ CallSize(WriteField(m[i])) = FieldSize(m[i], GetSize)
  BY <1>3, CallFacts
<1>5. PICK calls \in Seq(Plain) : /\ calls = Body(m)
                                  /\ Len(calls) = Len(m)
                                  /\ \A i \in 1..Len(m) : calls[i] = WriteField(m[i])
  <2> DEFINE calls == [i \in DOMAIN m |-> WriteField(m[i])]
  <2>1. calls = Body(m)
    BY DEF Body
  <2>2. PICK n \in Nat : n = Len(m) /\ DOMAIN m = 1..n
    BY <1>0
  <2>3. \A i \in 1..n : calls[i] = WriteField(m[i])
    BY <2>2
  <2>4. calls = [i \in 1..n |-> calls[i]]
    BY <2>2
  <2> HIDE DEF calls
  <2>5. \A i \in 1..n : calls[i] \in Plain
    BY <1>4, <2>2, <2>3
  <2>6. calls \in Seq(Plain) /\ Len(calls) = n
    BY <2>4, <2>5
  <2>7. QED
    BY <2>1, <2>2, <2>3, <2>6
<1>6. \A i \in 1..Len(calls) : CallSize(calls[i]) = s[i]
  BY <1>1, <1>4, <1>5
<1>7. Len(s) = Len(calls)
  BY <1>1, <1>5
<1>8. Fills(calls, Total(s))
  BY <1>6, <1>7, FillsRow
<1>9. Fills(Chunk(len, calls), SizeofLen(len))
  BY <1>2, <1>6, <1>7, FillsChunk
<1>10. QED
  BY <1>2, <1>5, <1>8, <1>9

(* write_with_tag. *)
LEMMA Tagged ==
  ASSUME NEW tag \in Word, NEW d \in Datum
  PROVE  /\ WithTag(tag, DatumCall(d)) \in Plain
         /\ CallSize(WithTag(tag, DatumCall(d))) = SizeofVarint(tag) + DatumSize(d, GetSize)
BY DatumCallSize, CallFacts

(* A row of calls with one for each element of a field, and their sizes. *)
LEMMA RowOf ==
  ASSUME NEW n \in Nat, NEW calls, calls = [i \in 1..n |-> calls[i]],
         NEW s \in Seq(Nat), Len(s) = n,
         \A i \in 1..n : calls[i] \in Plain /\ CallSize(calls[i]) = s[i]
  PROVE  Fills(calls, Total(s))
<1>1. calls \in Seq(Plain) /\ Len(calls) = n
  OBVIOUS
<1>2. QED
  BY <1>1, FillsRow

(* A field that holds one datum. *)
LEMMA FillsSingle ==
  ASSUME NEW tag \in Word, NEW d \in Datum
  PROVE  Fills(<< WithTag(tag, DatumCall(d)) >>, SizeofVarint(tag) + DatumSize(d, GetSize))
<1>1. PICK c \in Plain : /\ c = WithTag(tag, DatumCall(d))
                         /\ CallSize(c) = SizeofVarint(tag) + DatumSize(d, GetSize)
  BY Tagged
<1>2. Fills(<<c>>, CallSize(c))
  BY FillsOne
<1>3. QED
  BY <1>1, <1>2

(* A repeated field that is not packed: a tag with each element. *)
LEMMA FillsRepeated ==
  ASSUME NEW tag \in Word, NEW data \in Seq(Datum)
  PROVE  Fills([i \in DOMAIN data |-> WithTag(tag, DatumCall(data[i]))],
               Len(data) * SizeofVarint(tag) + Total(SizesOf(data, GetSize)))
<1>1. PICK s \in Seq(Nat) :
        /\ s = SizesOf(data, GetSize)
        /\ Len(s) = Len(data)
        /\ \A i \in 1..Len(data) : s[i] = DatumSize(data[i], GetSize)
  BY GetSizeDef, SizesOfType
<1>2. PICK n \in Nat : n = Len(data) /\ DOMAIN data = 1..n
  OBVIOUS
<1>3. PICK k \in Nat : k = SizeofVarint(tag)
  BY LenType, WordType
<1> DEFINE row == [i \in DOMAIN data |-> WithTag(tag, DatumCall(data[i]))]
           each == [i \in 1..n |-> k + s[i]]
<1>4. /\ row = [i \in 1..n |-> row[i]]
      /\ \A i \in 1..n : row[i] = WithTag(tag, DatumCall(data[i]))
  BY <1>2
<1>5. \A i \in 1..n : each[i] = k + s[i] /\ s[i] \in Nat /\ each[i] \in Nat
  BY <1>1, <1>2
<1>6. each \in Seq(Nat) /\ Len(each) = n
  BY <1>5
<1> HIDE DEF row, each
<1>7. ASSUME NEW i \in 1..n
      PROVE  row[i] \in Plain /\ CallSize(row[i]) = each[i]
  <2>1. data[i] \in Datum
    BY <1>2
  <2>2. row[i] \in Plain /\ CallSize(row[i]) = k + DatumSize(data[i], GetSize)
    BY <1>3, <1>4, <2>1, Tagged
  <2>3. QED
    BY <1>1, <1>2, <1>5, <2>2
<1>8. Fills(row, Total(each))
  BY <1>4, <1>6, <1>7, RowOf
<1>9. Total(each) = Len(s) * k + Total(s)
  <2>1. Len(each) = Len(s) /\ \A i \in 1..Len(s) : each[i] = k + s[i]
    BY <1>1, <1>2, <1>5, <1>6
  <2>2. QED
    BY <1>6, <2>1, TotalTagged
<1>10. QED
  BY <1>1, <1>3, <1>8, <1>9 DEF row

(* A map: a tag with each entry. *)
LEMMA FillsEntries ==
  ASSUME NEW f \in Field, f.tag \in Word, f.entries \in Seq(Entry),
         Total(EntrySizes(f, GetSize)) \in Word
  PROVE  Fills([i \in DOMAIN f.entries |-> WithTag(f.tag, WriteMap(f.entries[i]))],
               Total(EntrySizes(f, GetSize)))
<1>0. PICK k \in Nat : k = SizeofVarint(f.tag)
  BY LenType, WordType
<1>1. PICK s \in Seq(Nat) :
        /\ s = EntrySizes(f, GetSize)
        /\ Len(s) = Len(f.entries)
        /\ \A i \in 1..Len(f.entries) : /\ s[i] = k + SizeofLen(EntrySize(f.entries[i], GetSize))
                                        /\ EntrySize(f.entries[i], GetSize) \in Nat
  BY <1>0, GetSizeDef, EntrySizesType
<1>2. PICK n \in Nat : n = Len(f.entries) /\ DOMAIN f.entries = 1..n
  OBVIOUS
<1> DEFINE row == [i \in DOMAIN f.entries |-> WithTag(f.tag, WriteMap(f.entries[i]))]
<1>3. /\ row = [i \in 1..n |-> row[i]]
      /\ \A i \in 1..n : row[i] = WithTag(f.tag, WriteMap(f.entries[i]))
  BY <1>2
<1> HIDE DEF row
<1>4. ASSUME NEW i \in 1..n
      PROVE  row[i] \in Plain /\ CallSize(row[i]) = s[i]
  <2>1. PICK e \in Entry : e = f.entries[i]
    BY <1>2
  <2>2. PICK z \in Nat : z = EntrySize(e, GetSize) /\ s[i] = k + SizeofLen(z)
    BY <1>1, <1>2, <2>1
  <2>3. SizeofLen(z) \in Nat /\ z <= SizeofLen(z)
    BY LenType
  <2>4. s[i] <= Total(s) /\ s[i] \in Nat
    BY <1>1, <1>2, TotalSums
  <2>5. PICK t \in Word : t = Total(s)
    BY <1>1
  <2>6. t \in Nat
    BY WordType
  <2>7. z <= t
    BY <2>2, <2>3, <2>4, <2>5, <2>6
  <2>8. z \in Word
    BY <2>7, WordBelow
  <2>9. PICK w \in Inner : w = WriteMap(e) /\ CallSize(w) = SizeofLen(z)
    BY <2>2, <2>8, CallFacts
  <2>10. WithTag(f.tag, w) \in Plain /\ CallSize(WithTag(f.tag, w)) = k + CallSize(w)
    BY <1>0, CallFacts
  <2>11. row[i] = WithTag(f.tag, w)
    BY <1>3, <2>1, <2>9
  <2>12. QED
    BY <2>2, <2>9, <2>10, <2>11
<1>5. Len(s) = n
  BY <1>1, <1>2
<1>6. Fills(row, Total(s))
  BY <1>3, <1>4, <1>5, RowOf
<1>7. QED
  BY <1>1, <1>6 DEF row

(* A tag and a packed field. *)
LEMMA FillsPair ==
  ASSUME NEW tag \in Word, NEW c \in Plain
  PROVE  Fills(<< Varint(tag), c >>, SizeofVarint(tag) + CallSize(c))
<1>1. PICK v \in Plain : v = Varint(tag) /\ CallSize(v) = SizeofVarint(tag)
  BY CallFacts DEF Plain
<1>2. Fills(<<v, c>>, CallSize(v) + CallSize(c))
  BY FillsTwo
<1>3. QED
  BY <1>1, <1>2

(* A packed fixed field has whole elements. *)
LEMMA WholeElements ==
  ASSUME NEW bytes \in Nat, NEW width \in {4, 8}, (bytes % width) = 0
  PROVE  (bytes \div width) * width = bytes
<1>1. CASE width = 4
  BY <1>1
<1>2. CASE width = 8
  BY <1>2
<1>3. QED
  BY <1>1, <1>2

(* The two pieces of code that pb-rs generates for a field agree. *)
LEMMA FillsField ==
  ASSUME NEW f \in Field, FieldSize(f, GetSize) \in Word
  PROVE  Fills(FieldCalls(f), FieldSize(f, GetSize))
<1>0. f.tag \in Word /\ SizeofVarint(f.tag) \in Nat
  BY FieldKinds, LenType, WordType
<1>1. CASE f.shape = "singular" /\ f.datum \in Datum
  <2>1. CASE Written(f)
    <3>1. Counted(f)
      BY <2>1 DEF Written, Counted
    <3>2. FieldCalls(f) = << WithTag(f.tag, DatumCall(f.datum)) >>
      BY <1>1, <2>1 DEF FieldCalls
    <3>3. FieldSize(f, GetSize) = SizeofVarint(f.tag) + DatumSize(f.datum, GetSize)
      BY <1>1, <3>1 DEF FieldSize
    <3>4. QED
      BY <1>0, <1>1, <3>2, <3>3, FillsSingle
  <2>2. CASE ~Written(f)
    <3>1. ~Counted(f)
      BY <2>2 DEF Written, Counted
    <3>2. FieldCalls(f) = <<>> /\ FieldSize(f, GetSize) = 0
      BY <1>1, <2>2, <3>1 DEF FieldCalls, FieldSize
    <3>3. QED
      BY <3>2, FillsNone
  <2>3. QED
    BY <2>1, <2>2
<1>2. CASE f.shape = "oneof" /\ f.datum \in Datum
  <2>1. CASE f.set
    <3>1. FieldCalls(f) = << WithTag(f.tag, DatumCall(f.datum)) >>
      BY <1>2, <2>1 DEF FieldCalls, OneOfCalls
    <3>2. FieldSize(f, GetSize) = SizeofVarint(f.tag) + DatumSize(f.datum, GetSize)
      BY <1>2, <2>1 DEF FieldSize, OneOfSize
    <3>3. QED
      BY <1>0, <1>2, <3>1, <3>2, FillsSingle
  <2>2. CASE ~f.set
    <3>1. FieldCalls(f) = <<>> /\ FieldSize(f, GetSize) = 0
      BY <1>2, <2>2 DEF FieldCalls, OneOfCalls, FieldSize, OneOfSize
    <3>2. QED
      BY <3>1, FillsNone
  <2>3. QED
    BY <2>1, <2>2
<1>3. CASE f.shape = "repeated" /\ f.data \in Seq(Datum)
  <2>1. FieldCalls(f) = [i \in DOMAIN f.data |-> WithTag(f.tag, DatumCall(f.data[i]))]
    BY <1>3 DEF FieldCalls
  <2>2. FieldSize(f, GetSize)
          = Len(f.data) * SizeofVarint(f.tag) + Total(SizesOf(f.data, GetSize))
    BY <1>3 DEF FieldSize
  <2>3. QED
    BY <1>0, <1>3, <2>1, <2>2, FillsRepeated
<1>4. CASE f.shape = "packed" /\ f.data \in Seq(Datum)
  <2>1. CASE f.data = <<>>
    <3>1. FieldCalls(f) = <<>> /\ FieldSize(f, GetSize) = 0
      BY <1>4, <2>1 DEF FieldCalls, FieldSize
    <3>2. QED
      BY <3>1, FillsNone
  <2>2. CASE f.data # <<>>
    <3>1. FieldCalls(f) = << Varint(f.tag), WritePacked(f.data) >>
      BY <1>4, <2>2 DEF FieldCalls
    <3>2. FieldSize(f, GetSize)
            = SizeofVarint(f.tag) + SizeofLen(Total(SizesOf(f.data, GetSize)))
      BY <1>4, <2>2 DEF FieldSize
    <3>3. PICK t \in Nat : t = Total(SizesOf(f.data, GetSize))
      BY <1>4, GetSizeDef, SizesOfType, TotalSums
    <3>4. t \in Word
      <4>1. SizeofLen(t) \in Nat /\ t <= SizeofLen(t)
        BY LenType
      <4>2. PICK w \in Word : w = SizeofVarint(f.tag) + SizeofLen(t)
        BY <3>2, <3>3
      <4>3. t <= w
        BY <1>0, <4>1, <4>2
      <4>4. QED
        BY <4>3, WordBelow
    <3>5. PICK c \in Plain : c = WritePacked(f.data) /\ CallSize(c) = SizeofLen(t)
      BY <1>4, <3>3, <3>4, CallFacts
    <3>6. Fills(<< Varint(f.tag), c >>, SizeofVarint(f.tag) + CallSize(c))
      BY <1>0, FillsPair
    <3>7. QED
      BY <3>1, <3>2, <3>3, <3>5, <3>6
  <2>3. QED
    BY <2>1, <2>2
<1>5. CASE f.shape = "packed_fixed" /\ f.width \in {4, 8} /\ f.bytes \in Word
           /\ (f.bytes % f.width) = 0
  <2>1. CASE f.bytes = 0
    <3>1. FieldCalls(f) = <<>> /\ FieldSize(f, GetSize) = 0
      BY <1>5, <2>1 DEF FieldCalls, FieldSize, PackedFixedIsEmpty
    <3>2. QED
      BY <3>1, FillsNone
  <2>2. CASE f.bytes # 0
    <3>1. FieldCalls(f) = << Varint(f.tag), WriteBytes(f.bytes) >>
      BY <1>5, <2>2 DEF FieldCalls, PackedFixedIsEmpty
    <3>2. PackedFixedLen(f) * f.width = f.bytes
      BY <1>5, WordType, WholeElements DEF PackedFixedLen
    <3>3. FieldSize(f, GetSize) = SizeofVarint(f.tag) + SizeofLen(f.bytes)
      BY <1>5, <2>2, <3>2 DEF FieldSize, PackedFixedIsEmpty
    <3>4. PICK c \in Plain : c = WriteBytes(f.bytes) /\ CallSize(c) = SizeofLen(f.bytes)
      BY <1>5, CallFacts DEF Plain
    <3>5. Fills(<< Varint(f.tag), c >>, SizeofVarint(f.tag) + CallSize(c))
      BY <1>0, FillsPair
    <3>6. QED
      BY <3>1, <3>3, <3>4, <3>5
  <2>3. QED
    BY <2>1, <2>2
<1>6. CASE f.shape = "map" /\ f.entries \in Seq(Entry)
  <2>1. FieldCalls(f) = [i \in DOMAIN f.entries |-> WithTag(f.tag, WriteMap(f.entries[i]))]
    BY <1>6 DEF FieldCalls
  <2>2. FieldSize(f, GetSize) = Total(EntrySizes(f, GetSize))
    BY <1>6 DEF FieldSize, EntrySizes
  <2>3. QED
    BY <1>0, <1>6, <2>1, <2>2, FillsEntries
<1>7. QED
  BY <1>1, <1>2, <1>3, <1>4, <1>5, <1>6, FieldKinds

-----------------------------------------------------------------------------
(* The inductive invariant.  The cursor and the open chunks say little on  *)
(* their own; what is kept is that the calls that are left lead from them  *)
(* to the last byte promised, with every chunk closed at its end.          *)

Start == << [call |-> "serialize"] >>

TypeOK ==
  /\ entry \in Entries
  /\ root \in Messages
  /\ cap \in Nat

NotStarted ==
  /\ todo = Start /\ cursor = 0 /\ ends = <<>>
  /\ \/ result = "none"
     \/ result = "OutputBufferTooSmall" /\ cap < Promised

\* Only the slice of Writer::write_message and of MessageWrite::write_message
\* may be too short.
Room ==
  /\ entry = "serialize_into_slice" => Promised <= cap
  /\ entry = "serialize_into_vec" => Promised <= cap

Started ==
  /\ todo \in Seq(AnyCall)
  /\ Leads(todo, cursor, ends, Promised, <<>>)
  /\ Room
  /\ \/ result = "none"
     \/ result = "ok" /\ todo = <<>>
     \/ result = "UnexpectedEndOfBuffer" /\ cap < Promised

IInv == TypeOK /\ (NotStarted \/ Started)

(* What a caller is promised is a number of bytes. *)
LEMMA PromisedType ==
  ASSUME TypeOK
  PROVE  /\ Promised \in Nat
         /\ Promised = IF entry = "MessageWrite::write_message" THEN GetSize[root]
                       ELSE SizeofLen(GetSize[root])
<1>1. GetSize[root] \in Nat
  BY GetSizeDef DEF TypeOK
<1>2. SizeofLen(GetSize[root]) \in Nat
  BY <1>1, LenType
<1>3. QED
  BY <1>1, <1>2 DEF Promised

(* Where calls lead from is inside the open chunks and before the end. *)
LEMMA LeadsEnd ==
  ASSUME NEW C, NEW calls \in Seq(C), NEW x, NEW E, NEW y, NEW F, Leads(calls, x, E, y, F)
  PROVE  /\ x \in Nat /\ E \in Seq(Nat) /\ y \in Nat /\ Within(x, E) /\ x <= y
         /\ calls = <<>> => x = y /\ E = F
<1>1. CASE calls # <<>>
  BY <1>1, LeadsFirst
<1>2. CASE calls = <<>>
  <2>1. Len(calls) = 0 /\ 0 + 1 = 1 /\ 1 \in 1..1
    BY <1>2
  <2>2. PICK at \in [1..1 -> Nat], open \in [1..1 -> Seq(Nat)] :
          /\ at[1] = x /\ open[1] = E /\ at[1] = y /\ open[1] = F
          /\ \A p \in 1..1 : at[p] <= y /\ Within(at[p], open[p])
    BY <2>1 DEF Leads
  <2>3. QED
    BY <2>1, <2>2
<1>3. QED
  BY <1>1, <1>2

(* No call but the first starts the serialization. *)
LEMMA AnyCallKinds ==
  ASSUME NEW c \in AnyCall
  PROVE  /\ c.call # "serialize"
         /\ c.call \notin {"open", "close"} => c \in Plain
         /\ c.call = "open" => \E n \in Nat : c = OpenMark(n)
         /\ c.call = "close" => c = CloseMark
<1>1. CASE c \in Plain
  BY <1>1, PlainKinds, InnerKinds, PlainSizes
<1>2. CASE c \in { OpenMark(n) : n \in Nat }
  BY <1>2 DEF OpenMark
<1>3. CASE c = CloseMark
  BY <1>3 DEF CloseMark
<1>4. QED
  BY <1>1, <1>2, <1>3 DEF AnyCall

(* What carrying out the first call leaves, by what it is. *)
LEMMA LeadsByKind ==
  ASSUME NEW t \in Seq(AnyCall), t # <<>>, NEW x, NEW E, NEW z, NEW G, Leads(t, x, E, z, G)
  PROVE  /\ Head(t) \in AnyCall /\ Tail(t) \in Seq(AnyCall)
         /\ x \in Nat /\ E \in Seq(Nat) /\ z \in Nat
         /\ Head(t) \in Plain =>
              /\ CallSize(Head(t)) \in Nat
              /\ x + CallSize(Head(t)) <= z
              /\ Within(x + CallSize(Head(t)), E)
              /\ Leads(Tail(t), x + CallSize(Head(t)), E, z, G)
         /\ \A n \in Nat : Head(t) = OpenMark(n) => Leads(Tail(t), x, Append(E, x + n), z, G)
         /\ Head(t) = CloseMark => /\ E # <<>> /\ x = Last(E)
                                   /\ Leads(Tail(t), x, Front(E), z, G)
<1>1. PICK c \in AnyCall : c = Head(t)
  OBVIOUS
<1>2. Tail(t) \in Seq(AnyCall)
  OBVIOUS
<1>3. x \in Nat /\ E \in Seq(Nat) /\ z \in Nat
  BY LeadsFirst
<1>4. PICK y \in Nat, F \in Seq(Nat) :
        Step(c, x, E, y, F) /\ Within(y, F) /\ y <= z /\ Leads(Tail(t), y, F, z, G)
  BY <1>1, LeadsFirst
<1>5. ASSUME c \in Plain
      PROVE  /\ CallSize(c) \in Nat
             /\ x + CallSize(c) <= z
             /\ Within(x + CallSize(c), E)
             /\ Leads(Tail(t), x + CallSize(c), E, z, G)
  <2>1. c.call # "open" /\ c.call # "close" /\ CallSize(c) \in Nat
    BY <1>5, PlainSizes
  <2>2. \A n \in Nat : c # OpenMark(n)
    BY <2>1 DEF OpenMark
  <2>3. c # CloseMark
    BY <2>1 DEF CloseMark
  <2>4. y = x + CallSize(c) /\ F = E
    BY <1>4, <2>2, <2>3 DEF Step
  <2>5. QED
    BY <1>4, <2>1, <2>4
<1>6. ASSUME NEW n \in Nat, c = OpenMark(n)
      PROVE  Leads(Tail(t), x, Append(E, x + n), z, G)
  <2>1. c.call = "open" /\ c.n = n
    BY <1>6 DEF OpenMark
  <2>2. c \notin Plain
    BY <2>1, PlainSizes
  <2>3. c # CloseMark
    BY <2>1 DEF CloseMark
  <2>4. PICK k \in Nat : c = OpenMark(k) /\ y = x /\ F = Append(E, x + k)
    BY <1>4, <2>2, <2>3 DEF Step
  <2>5. k = n
    BY <2>1, <2>4 DEF OpenMark
  <2>6. QED
    BY <1>4, <2>4, <2>5
<1>7. ASSUME c = CloseMark
      PROVE  E # <<>> /\ x = Last(E) /\ Leads(Tail(t), x, Front(E), z, G)
  <2>1. c.call = "close"
    BY <1>7 DEF CloseMark
  <2>2. c \notin Plain
    BY <2>1, PlainSizes
  <2>3. \A n \in Nat : c # OpenMark(n)
    BY <2>1 DEF OpenMark
  <2>4. y = x /\ E # <<>> /\ x = Last(E) /\ F = Front(E)
    BY <1>4, <2>2, <2>3 DEF Step
  <2>5. QED
    BY <1>4, <2>4
<1>8. QED
  BY <1>1, <1>2, <1>3, <1>5, <1>6, <1>7

(* A call that is replaced by the calls that it makes. *)
LEMMA LeadsExpanded ==
  ASSUME NEW t \in Seq(AnyCall), t # <<>>, NEW x, NEW E, NEW z, NEW G, Leads(t, x, E, z, G),
         Head(t) \in Plain, NEW calls, Fills(calls, CallSize(Head(t)))
  PROVE  calls \o Tail(t) \in Seq(AnyCall) /\ Leads(calls \o Tail(t), x, E, z, G)
<1>1. PICK n \in Nat, rest \in Seq(AnyCall) :
        /\ n = CallSize(Head(t)) /\ rest = Tail(t)
        /\ Within(x + n, E) /\ Leads(rest, x + n, E, z, G)
  BY LeadsByKind
<1>2. x \in Nat /\ E \in Seq(Nat)
  BY LeadsByKind
<1>3. calls \in Seq(AnyCall) /\ Leads(calls, x, E, x + n, E)
  BY <1>1, <1>2 DEF Fills
<1>4. Leads(calls \o rest, x, E, z, G)
  BY <1>1, <1>3, LeadsOn
<1>5. QED
  BY <1>1, <1>3, <1>4

(* While calls are carried out, the serialization has been started. *)
LEMMA Going ==
  ASSUME IInv, result = "none", todo # <<>>, Head(todo).call # "serialize"
  PROVE  TypeOK /\ Started
<1>1. Head(Start).call = "serialize"
  BY DEF Start
<1>2. todo # Start
  BY <1>1
<1>3. QED
  BY <1>2 DEF IInv, NotStarted

(* Carrying calls out leaves alone what the caller passed. *)
Same == entry' = entry /\ root' = root /\ cap' = cap

LEMMA SamePromised ==
  ASSUME TypeOK, Same
  PROVE  TypeOK' /\ Promised' = Promised /\ Promised \in Nat
<1>1. TypeOK'
  BY DEF TypeOK, Same
<1>2. Promised' = Promised
  BY DEF Promised, Same
<1>3. QED
  BY <1>1, <1>2, PromisedType

(* A step after which the calls that are left lead to the same end. *)
LEMMA StepInv ==
  ASSUME TypeOK, Started, Same, result = "none", result' = "none",
         todo' \in Seq(AnyCall), Leads(todo', cursor', ends', Promised, <<>>)
  PROVE  IInv'
<1>1. TypeOK' /\ Promised' = Promised
  BY SamePromised
<1>2. Room'
  BY <1>1 DEF Started, Room, Same
<1>3. Leads(todo', cursor', ends', Promised', <<>>)
  BY <1>1
<1>4. Started'
  BY <1>2, <1>3 DEF Started
<1>5. QED
  BY <1>1, <1>4 DEF IInv

(* A call that only makes calls, which write what was counted for it. *)
LEMMA ExpandInv ==
  ASSUME IInv, result = "none", todo # <<>>, Head(todo) \in Plain,
         NEW calls, Fills(calls, CallSize(Head(todo))), Expand(calls)
  PROVE  IInv'
<1>1. Head(todo).call # "serialize"
  BY PlainKinds, InnerKinds
<1>2. TypeOK /\ Started
  BY <1>1, Going
<1>3. calls \o Tail(todo) \in Seq(AnyCall)
      /\ Leads(calls \o Tail(todo), cursor, ends, Promised, <<>>)
  BY <1>2, LeadsExpanded DEF Started
<1>4. Same /\ result' = "none"
  BY DEF Expand, Same
<1>5. todo' = calls \o Tail(todo) /\ cursor' = cursor /\ ends' = ends
  BY DEF Expand
<1>6. QED
  BY <1>2, <1>3, <1>4, <1>5, StepInv

(* A call of a name, in a serialization that goes on. *)
LEMMA PlainCall ==
  ASSUME IInv, NEW name, Calls(name), name \notin {"serialize", "open", "close"}
  PROVE  /\ result = "none" /\ todo # <<>> /\ Head(todo) \in Plain /\ Head(todo).call = name
         /\ TypeOK /\ Started
<1>1. result = "none" /\ todo # <<>> /\ Head(todo).call = name
  BY DEF Calls
<1>2. TypeOK /\ Started
  BY <1>1, Going
<1>3. Head(todo) \in AnyCall
  BY <1>1, <1>2, LeadsByKind DEF Started
<1>4. QED
  BY <1>1, <1>2, <1>3, AnyCallKinds

LEMMA EnterMessageInv == IInv /\ EnterMessage => IInv'
<1> SUFFICES ASSUME IInv, EnterMessage
             PROVE  IInv'
  OBVIOUS
<1>1. PICK c \in Plain : c = Head(todo) /\ c.call = "write_message"
  BY PlainCall DEF EnterMessage
<1>2. result = "none" /\ todo # <<>>
  BY DEF EnterMessage, Calls
<1>3. c.m \in Messages /\ CallSize(c) = SizeofLen(GetSize[c.m])
  BY <1>1, PlainKinds, InnerKinds DEF CallSize, InnerSize
<1>4. Fills(Chunk(GetSize[c.m], Body(c.m)), CallSize(c))
  BY <1>3, FillsMessage
<1>5. Expand(Chunk(GetSize[c.m], Body(c.m)))
  BY <1>1 DEF EnterMessage
<1>6. QED
  BY <1>1, <1>2, <1>4, <1>5, ExpandInv

LEMMA EnterFieldInv == IInv /\ EnterField => IInv'
<1> SUFFICES ASSUME IInv, EnterField
             PROVE  IInv'
  OBVIOUS
<1>1. PICK c \in Plain : c = Head(todo) /\ c.call = "write_field"
  BY PlainCall DEF EnterField
<1>2. result = "none" /\ todo # <<>>
  BY DEF EnterField, Calls
<1>3. c.f \in Field /\ FieldSize(c.f, GetSize) \in Word /\ CallSize(c) = FieldSize(c.f, GetSize)
  BY <1>1, PlainKinds, InnerKinds DEF CallSize
<1>4. Fills(FieldCalls(c.f), CallSize(c))
  BY <1>3, FillsField
<1>5. Expand(FieldCalls(c.f))
  BY <1>1 DEF EnterField
<1>6. QED
  BY <1>1, <1>2, <1>4, <1>5, ExpandInv

LEMMA EnterWithTagInv == IInv /\ EnterWithTag => IInv'
<1> SUFFICES ASSUME IInv, EnterWithTag
             PROVE  IInv'
  OBVIOUS
<1>1. PICK c \in Plain : c = Head(todo) /\ c.call = "write_with_tag"
  BY PlainCall DEF EnterWithTag
<1>2. result = "none" /\ todo # <<>>
  BY DEF EnterWithTag, Calls
<1>3. c.tag \in Word /\ c.write \in Inner /\ CallSize(c) = SizeofVarint(c.tag) + CallSize(c.write)
  <2>1. c.tag \in Word /\ c.write \in Inner /\ CallSize(c) = SizeofVarint(c.tag) + InnerSize(c.write)
    BY <1>1, PlainKinds, InnerKinds DEF CallSize
  <2>2. QED
    BY <2>1, InnerSizes
<1>4. c.write \in Plain
  BY <1>3 DEF Plain
<1>5. Fills(<< Varint(c.tag), c.write >>, CallSize(c))
  BY <1>3, <1>4, FillsPair
<1>6. Expand(<< Varint(c.tag), c.write >>)
  BY <1>1 DEF EnterWithTag
<1>7. QED
  BY <1>1, <1>2, <1>5, <1>6, ExpandInv

LEMMA EnterPackedInv == IInv /\ EnterPacked => IInv'
<1> SUFFICES ASSUME IInv, EnterPacked
             PROVE  IInv'
  OBVIOUS
<1>1. PICK c \in Plain : c = Head(todo) /\ c.call = "write_packed"
  BY PlainCall DEF EnterPacked
<1>2. result = "none" /\ todo # <<>>
  BY DEF EnterPacked, Calls
<1>3. /\ c.data \in Seq(Datum) /\ Total(SizesOf(c.data, GetSize)) \in Word
      /\ CallSize(c) = SizeofLen(Total(SizesOf(c.data, GetSize)))
  BY <1>1, PlainKinds, InnerKinds DEF CallSize
<1>4. Fills(PackedCalls(c.data), CallSize(c))
  BY <1>3, FillsPacked
<1>5. Expand(PackedCalls(c.data))
  BY <1>1 DEF EnterPacked
<1>6. QED
  BY <1>1, <1>2, <1>4, <1>5, ExpandInv

LEMMA EnterMapInv == IInv /\ EnterMap => IInv'
<1> SUFFICES ASSUME IInv, EnterMap
             PROVE  IInv'
  OBVIOUS
<1>1. PICK c \in Plain : c = Head(todo) /\ c.call = "write_map"
  BY PlainCall DEF EnterMap
<1>2. result = "none" /\ todo # <<>>
  BY DEF EnterMap, Calls
<1>3. /\ c.e \in Entry /\ EntrySize(c.e, GetSize) \in Word
      /\ CallSize(c) = SizeofLen(EntrySize(c.e, GetSize))
  BY <1>1, PlainKinds, InnerKinds DEF CallSize, InnerSize
<1>4. Fills(EntryCalls(c.e), CallSize(c))
  BY <1>3, FillsMap
<1>5. Expand(EntryCalls(c.e))
  BY <1>1 DEF EnterMap
<1>6. QED
  BY <1>1, <1>2, <1>4, <1>5, ExpandInv

LEMMA EnterBytesInv == IInv /\ EnterBytes => IInv'
<1> SUFFICES ASSUME IInv, EnterBytes
             PROVE  IInv'
  OBVIOUS
<1>1. PICK c \in Plain : c = Head(todo) /\ c.call = "write_bytes"
  BY PlainCall DEF EnterBytes
<1>2. result = "none" /\ todo # <<>>
  BY DEF EnterBytes, Calls
<1>3. c.n \in Word /\ CallSize(c) = SizeofLen(c.n)
  BY <1>1, PlainKinds, InnerKinds DEF CallSize, InnerSize
<1>4. Fills(Chunk(c.n, << All(c.n) >>), CallSize(c))
  BY <1>3, FillsBytes
<1>5. Expand(Chunk(c.n, << All(c.n) >>))
  BY <1>1 DEF EnterBytes
<1>6. QED
  BY <1>1, <1>2, <1>4, <1>5, ExpandInv

(* Bytes that belong to the ones promised: they fit, or the promise does not. *)
LEMMA PutInv ==
  ASSUME TypeOK, Started, result = "none", cursor \in Nat,
         NEW n \in Nat, cursor + n <= Promised,
         NEW rest \in Seq(AnyCall), Leads(rest, cursor + n, ends, Promised, <<>>),
         Put(n, rest)
  PROVE  IInv'
<1>1. CASE Fits(n)
  <2>1. Same /\ result' = "none" /\ todo' = rest /\ cursor' = cursor + n /\ ends' = ends
    BY <1>1 DEF Put, Same
  <2>2. todo' \in Seq(AnyCall) /\ Leads(todo', cursor', ends', Promised, <<>>)
    BY <2>1
  <2>3. QED
    BY <2>1, <2>2, StepInv
<1>2. CASE ~Fits(n)
  <2>1. /\ Same /\ result' = "UnexpectedEndOfBuffer"
        /\ todo' = todo /\ cursor' = cursor /\ ends' = ends
    BY <1>2 DEF Put, Same
  <2>2. TypeOK' /\ Promised' = Promised /\ Promised \in Nat
    BY <2>1, SamePromised
  <2>3. cap < Promised
    <3>1. ~(cap - cursor >= n)
      BY <1>2 DEF Fits
    <3>2. cap \in Nat
      BY DEF TypeOK
    <3>3. QED
      BY <2>2, <3>1, <3>2
  <2>4. cap' < Promised'
    BY <2>1, <2>2, <2>3 DEF Same
  <2>5. Room'
    BY <2>1, <2>2 DEF Started, Room, Same
  <2>6. todo' \in Seq(AnyCall) /\ Leads(todo', cursor', ends', Promised', <<>>)
    BY <2>1, <2>2 DEF Started
  <2>7. Started'
    BY <2>1, <2>4, <2>5, <2>6 DEF Started
  <2>8. QED
    BY <2>2, <2>7 DEF IInv
<1>3. QED
  BY <1>1, <1>2

(* What a call that writes takes off the calls that are left. *)
LEMMA PutFacts ==
  ASSUME Started, todo # <<>>, Head(todo) \in Plain
  PROVE  /\ cursor \in Nat /\ ends \in Seq(Nat) /\ Promised \in Nat
         /\ Tail(todo) \in Seq(AnyCall)
         /\ CallSize(Head(todo)) \in Nat
         /\ cursor + CallSize(Head(todo)) <= Promised
         /\ Within(cursor + CallSize(Head(todo)), ends)
         /\ Leads(Tail(todo), cursor + CallSize(Head(todo)), ends, Promised, <<>>)
<1>1. todo \in Seq(AnyCall) /\ Leads(todo, cursor, ends, Promised, <<>>)
  BY DEF Started
<1>2. QED
  BY <1>1, LeadsByKind

LEMMA PutAllInv == IInv /\ PutAll => IInv'
<1> SUFFICES ASSUME IInv, PutAll
             PROVE  IInv'
  OBVIOUS
<1>1. /\ result = "none" /\ todo # <<>> /\ Head(todo) \in Plain
      /\ Head(todo).call = "pb_write_all" /\ TypeOK /\ Started
  BY PlainCall DEF PutAll
<1>2. PICK c \in Plain : c = Head(todo) /\ c.call = "pb_write_all"
  BY <1>1
<1>3. PICK n \in Nat : n = c.n /\ n = CallSize(c)
  BY <1>2, PlainKinds, InnerKinds DEF CallSize, InnerSize
<1>4. PICK rest \in Seq(AnyCall) :
        /\ rest = Tail(todo) /\ cursor \in Nat /\ cursor + n <= Promised
        /\ Leads(rest, cursor + n, ends, Promised, <<>>)
  BY <1>1, <1>2, <1>3, PutFacts
<1>5. Put(n, rest)
  BY <1>2, <1>3, <1>4 DEF PutAll
<1>6. QED
  BY <1>1, <1>4, <1>5, PutInv

LEMMA PutVarintByteInv == IInv /\ PutVarintByte => IInv'
<1> SUFFICES ASSUME IInv, PutVarintByte
             PROVE  IInv'
  OBVIOUS
<1>1. /\ result = "none" /\ todo # <<>> /\ Head(todo) \in Plain
      /\ Head(todo).call = "write_varint" /\ TypeOK /\ Started
  BY PlainCall DEF PutVarintByte
<1>2. PICK c \in Plain : c = Head(todo) /\ c.call = "write_varint"
  BY <1>1
<1>3. PICK v \in Word : v = c.n /\ CallSize(c) = SizeofVarint(v)
  BY <1>2, PlainKinds, InnerKinds DEF CallSize, InnerSize
<1>4. PICK x \in Nat, E \in Seq(Nat), P \in Nat, size \in Nat, rest \in Seq(AnyCall) :
        /\ x = cursor /\ E = ends /\ P = Promised /\ size = SizeofVarint(v) /\ rest = Tail(todo)
        /\ x + size <= P /\ Within(x + size, E) /\ Leads(rest, x + size, E, P, <<>>)
  BY <1>1, <1>2, <1>3, PutFacts
<1>5. size >= 1
  BY <1>4, VarintRows
<1>6. x + 1 <= P
  BY <1>4, <1>5
<1>7. CASE v < Base
  <2>1. size = 1
    BY <1>4, <1>7, VarintRows
  <2>2. v \in Nat /\ Base \in Nat
    BY WordType, SerializerAssumption
  <2>3. ~(v >= Base)
    BY <1>7, <2>2
  <2>4. Put(1, rest)
    BY <1>2, <1>3, <1>4, <2>3 DEF PutVarintByte
  <2>5. Leads(rest, x + 1, E, P, <<>>)
    BY <1>4, <2>1
  <2>6. QED
    BY <1>1, <1>4, <1>6, <2>4, <2>5, PutInv
<1>8. CASE v >= Base
  <2>1. PICK u \in Word : u = v \div Base /\ size = 1 + SizeofVarint(u)
    BY <1>4, <1>8, VarintRows
  <2>2. PICK k \in Nat : k = SizeofVarint(u)
    BY VarintRows
  <2>3. x + size = (x + 1) + k /\ x + 1 \in Nat
    BY <2>1, <2>2
  <2>4. Varint(u) \in Plain /\ CallSize(Varint(u)) = k
    BY <2>2, CallFacts DEF Plain
  <2>5. Fills(<< Varint(u) >>, k)
    BY <2>4, FillsOne
  <2>6. << Varint(u) >> \in Seq(AnyCall) /\ Leads(<< Varint(u) >>, x + 1, E, (x + 1) + k, E)
    BY <1>4, <2>3, <2>5 DEF Fills
  <2>7. Leads(rest, (x + 1) + k, E, P, <<>>)
    BY <1>4, <2>3
  <2>8. PICK calls \in Seq(AnyCall) :
          calls = << Varint(u) >> \o rest /\ Leads(calls, x + 1, E, P, <<>>)
    <3>1. PICK a \in Seq(AnyCall) :
            a = << Varint(u) >> /\ Leads(a, x + 1, E, (x + 1) + k, E)
      BY <2>6
    <3>2. Leads(a \o rest, x + 1, E, P, <<>>)
      BY <2>7, <3>1, LeadsOn
    <3>3. a \o rest \in Seq(AnyCall)
      OBVIOUS
    <3>4. QED
      BY <3>1, <3>2, <3>3
  <2>9. Put(1, calls)
    BY <1>2, <1>3, <1>4, <1>8, <2>1, <2>8 DEF PutVarintByte
  <2>10. QED
    BY <1>1, <1>4, <1>6, <2>8, <2>9, PutInv
<1>9. QED
  BY <1>7, <1>8, WordType, SerializerAssumption

LEMMA OpenChunkInv == IInv /\ OpenChunk => IInv'
<1> SUFFICES ASSUME IInv, OpenChunk
             PROVE  IInv'
  OBVIOUS
<1>1. result = "none" /\ todo # <<>> /\ Head(todo).call = "open"
  BY DEF OpenChunk, Calls
<1>2. TypeOK /\ Started
  BY <1>1, Going
<1>3. todo \in Seq(AnyCall) /\ Leads(todo, cursor, ends, Promised, <<>>)
  BY <1>2 DEF Started
<1>4. PICK c \in AnyCall : c = Head(todo) /\ c.call = "open"
  BY <1>1, <1>3, LeadsByKind
<1>5. PICK n \in Nat : c = OpenMark(n)
  BY <1>4, AnyCallKinds
<1>6. c.n = n
  BY <1>5 DEF OpenMark
<1>7. Tail(todo) \in Seq(AnyCall) /\ Leads(Tail(todo), cursor, Append(ends, cursor + n), Promised, <<>>)
  BY <1>1, <1>3, <1>4, <1>5, LeadsByKind
<1>8. todo' = Tail(todo) /\ ends' = Append(ends, cursor + n)
  BY <1>4, <1>6 DEF OpenChunk
<1>9. Same /\ result' = "none" /\ cursor' = cursor
  BY <1>1 DEF OpenChunk, Same
<1>10. QED
  BY <1>1, <1>2, <1>7, <1>8, <1>9, StepInv

LEMMA CloseChunkInv == IInv /\ CloseChunk => IInv'
<1> SUFFICES ASSUME IInv, CloseChunk
             PROVE  IInv'
  OBVIOUS
<1>1. result = "none" /\ todo # <<>> /\ Head(todo).call = "close"
  BY DEF CloseChunk, Calls
<1>2. TypeOK /\ Started
  BY <1>1, Going
<1>3. todo \in Seq(AnyCall) /\ Leads(todo, cursor, ends, Promised, <<>>)
  BY <1>2 DEF Started
<1>4. Head(todo) \in AnyCall
  BY <1>1, <1>3, LeadsByKind
<1>5. Head(todo) = CloseMark
  BY <1>1, <1>4, AnyCallKinds
<1>6. Tail(todo) \in Seq(AnyCall) /\ Leads(Tail(todo), cursor, Front(ends), Promised, <<>>)
  BY <1>1, <1>3, <1>5, LeadsByKind
<1>7. todo' = Tail(todo) /\ ends' = Front(ends)
  BY DEF CloseChunk
<1>8. Same /\ result' = "none" /\ cursor' = cursor
  BY <1>1 DEF CloseChunk, Same
<1>9. QED
  BY <1>1, <1>2, <1>6, <1>7, <1>8, StepInv

(* The calls that a serialization starts with write what is promised. *)
LEMMA FirstCalls ==
  ASSUME TypeOK,
         NEW calls, calls = IF entry = "MessageWrite::write_message" THEN Body(root)
                            ELSE << WriteMessage(root) >>
  PROVE  calls \in Seq(AnyCall) /\ Leads(calls, 0, <<>>, Promised, <<>>)
<1>1. root \in Messages
  BY DEF TypeOK
<1>2. Fills(calls, Promised)
  <2>1. CASE entry = "MessageWrite::write_message"
    BY <1>1, <2>1, PromisedType, FillsMessage
  <2>2. CASE entry # "MessageWrite::write_message"
    <3>1. PICK c \in Plain : c = WriteMessage(root) /\ CallSize(c) = SizeofLen(GetSize[root])
      BY <1>1, CallFacts DEF Plain
    <3>2. Fills(<<c>>, CallSize(c))
      BY FillsOne
    <3>3. QED
      BY <2>2, <3>1, <3>2, PromisedType
  <2>3. QED
    BY <2>1, <2>2
<1>3. PICK E \in Seq(Nat) : E = <<>> /\ Within(0 + Promised, E)
  <2>1. <<>> \in Seq(Nat)
    OBVIOUS
  <2>2. Within(0 + Promised, <<>>)
    BY DEF Within
  <2>3. QED
    BY <2>1, <2>2
<1>4. PICK P \in Nat : P = Promised /\ 0 + P = P /\ 0 \in Nat
  BY PromisedType
<1>5. Leads(calls, 0, E, 0 + P, E)
  BY <1>2, <1>3, <1>4 DEF Fills
<1>6. QED
  BY <1>2, <1>3, <1>4, <1>5 DEF Fills

(* A slice that is too short is refused; then there is room where it counts. *)
LEMMA SerializeInv == IInv /\ Serialize => IInv'
<1> SUFFICES ASSUME IInv, Serialize
             PROVE  IInv'
  OBVIOUS
<1>1. result = "none" /\ todo # <<>> /\ Head(todo).call = "serialize"
  BY DEF Serialize, Calls
<1>2. TypeOK /\ NotStarted
  <2>1. ASSUME Started
        PROVE  FALSE
    <3>1. Head(todo) \in AnyCall
      BY <1>1, <2>1, LeadsByKind DEF Started
    <3>2. QED
      BY <1>1, <3>1, AnyCallKinds
  <2>2. QED
    BY <2>1 DEF IInv
<1>3. PICK P \in Nat : P = Promised
  BY <1>2, PromisedType
<1>4. entry' = entry /\ root' = root
  BY DEF Serialize
<1>5. Promised' = P
  BY <1>3, <1>4 DEF Promised
<1>6. CASE entry = "serialize_into_slice" /\ cap < SizeofLen(GetSize[root])
  <2>1. /\ result' = "OutputBufferTooSmall" /\ cap' = cap /\ cursor' = cursor
        /\ todo' = todo /\ ends' = ends
    BY <1>6 DEF Serialize
  <2>2. cap < P
    BY <1>2, <1>3, <1>6, PromisedType
  <2>3. cap' < Promised'
    BY <1>5, <2>1, <2>2
  <2>4. NotStarted'
    BY <1>2, <2>1, <2>3 DEF NotStarted
  <2>5. TypeOK'
    BY <1>2, <1>4, <2>1 DEF TypeOK
  <2>6. QED
    BY <2>4, <2>5 DEF IInv
<1>7. CASE ~(entry = "serialize_into_slice" /\ cap < SizeofLen(GetSize[root]))
  <2>1. /\ cap' = IF entry = "serialize_into_vec" THEN SizeofLen(GetSize[root]) ELSE cap
        /\ todo' = IF entry = "MessageWrite::write_message" THEN Body(root)
                   ELSE << WriteMessage(root) >>
        /\ cursor' = cursor /\ ends' = ends /\ result' = result
    BY <1>7 DEF Serialize
  <2>2. PICK n \in Nat : n = SizeofLen(GetSize[root])
    <3>1. GetSize[root] \in Nat
      BY <1>2, GetSizeDef DEF TypeOK
    <3>2. QED
      BY <3>1, LenType
  <2>3. cap \in Nat
    BY <1>2 DEF TypeOK
  <2>4. cap' \in Nat
    BY <2>1, <2>2, <2>3
  <2>5. TypeOK'
    BY <1>2, <1>4, <2>4 DEF TypeOK
  <2>6. entry = "serialize_into_slice" => P <= cap'
    <3>1. SUFFICES ASSUME entry = "serialize_into_slice"
                   PROVE  P <= cap'
      OBVIOUS
    <3>2. P = n /\ cap' = cap /\ ~(cap < n)
      BY <1>2, <1>3, <1>7, <2>1, <2>2, <3>1, PromisedType
    <3>3. QED
      BY <2>3, <3>2
  <2>7. entry = "serialize_into_vec" => P <= cap'
    <3>1. SUFFICES ASSUME entry = "serialize_into_vec"
                   PROVE  P <= cap'
      OBVIOUS
    <3>2. P = n /\ cap' = n
      BY <1>2, <1>3, <2>1, <2>2, <3>1, PromisedType
    <3>3. QED
      BY <3>2
  <2>8. Room'
    BY <1>4, <1>5, <2>6, <2>7 DEF Room
  <2>9. PICK calls \in Seq(AnyCall) : calls = todo' /\ Leads(calls, 0, <<>>, P, <<>>)
    BY <1>2, <1>3, <2>1, FirstCalls
  <2>10. cursor' = 0 /\ ends' = <<>> /\ result' = "none"
    BY <1>1, <1>2, <2>1 DEF NotStarted
  <2>11. todo' \in Seq(AnyCall) /\ Leads(todo', cursor', ends', Promised', <<>>)
    BY <1>5, <2>9, <2>10
  <2>12. Started'
    BY <2>8, <2>10, <2>11 DEF Started
  <2>13. QED
    BY <2>5, <2>12 DEF IInv
<1>8. QED
  BY <1>6, <1>7

LEMMA FinishInv == IInv /\ Finish => IInv'
<1> SUFFICES ASSUME IInv, Finish
             PROVE  IInv'
  OBVIOUS
<1>1. todo = <<>> /\ Same /\ result' = "ok" /\ todo' = todo /\ cursor' = cursor /\ ends' = ends
  BY DEF Finish, Same
<1>2. todo # Start
  BY <1>1 DEF Start
<1>3. TypeOK /\ Started
  BY <1>2 DEF IInv, NotStarted
<1>4. TypeOK' /\ Promised' = Promised
  BY <1>1, <1>3, SamePromised
<1>5. Room'
  BY <1>1, <1>3, <1>4 DEF Started, Room, Same
<1>6. todo' \in Seq(AnyCall) /\ Leads(todo', cursor', ends', Promised', <<>>)
  BY <1>1, <1>3, <1>4 DEF Started
<1>7. Started'
  BY <1>1, <1>5, <1>6 DEF Started
<1>8. QED
  BY <1>4, <1>7 DEF IInv

LEMMA InitInv == Init => IInv
<1> SUFFICES ASSUME Init
             PROVE  IInv
  OBVIOUS
<1>1. entry \in Entries /\ root \in Messages /\ root \in Roots
  BY SerializerAssumption DEF Init
<1>2. cap \in Nat
  <2>1. CASE entry = "serialize_into_vec"
    BY <2>1 DEF Init
  <2>2. CASE entry # "serialize_into_vec"
    BY <1>1, <2>2, SerializerAssumption DEF Init
  <2>3. QED
    BY <2>1, <2>2
<1>3. NotStarted
  BY DEF Init, NotStarted, Start
<1>4. QED
  BY <1>1, <1>2, <1>3 DEF IInv, TypeOK

LEMMA NextInv == IInv /\ [Next]_vars => IInv'
<1>1. ASSUME IInv, UNCHANGED vars
      PROVE  IInv'
  <2>1. Same /\ todo' = todo /\ cursor' = cursor /\ ends' = ends /\ result' = result
    BY <1>1 DEF vars, Same
  <2>2. TypeOK' /\ Promised' = Promised
    BY <1>1, <2>1, SamePromised DEF IInv
  <2>3. CASE NotStarted
    <3>1. NotStarted'
      BY <2>1, <2>2, <2>3 DEF NotStarted, Same
    <3>2. QED
      BY <2>2, <3>1 DEF IInv
  <2>4. CASE Started
    <3>1. Room'
      BY <2>1, <2>2, <2>4 DEF Started, Room, Same
    <3>2. todo' \in Seq(AnyCall) /\ Leads(todo', cursor', ends', Promised', <<>>)
      BY <2>1, <2>2, <2>4 DEF Started
    <3>3. Started'
      BY <2>1, <2>2, <2>4, <3>1, <3>2 DEF Started, Same
    <3>4. QED
      BY <2>2, <3>3 DEF IInv
  <2>5. QED
    BY <1>1, <2>3, <2>4 DEF IInv
<1>2. QED
  BY <1>1, SerializeInv, EnterMessageInv, EnterFieldInv, EnterWithTagInv, EnterPackedInv,
     EnterMapInv, EnterBytesInv, PutVarintByteInv, PutAllInv, OpenChunkInv, CloseChunkInv,
     FinishInv DEF Next

(* The invariant gives each of the properties. *)
LEMMA EndsFromInv == IInv => ChunksEndWhereAnnounced
<1> SUFFICES ASSUME IInv
             PROVE  ChunksEndWhereAnnounced
  OBVIOUS
<1>1. CASE NotStarted
  <2>1. Head(todo).call = "serialize" /\ ends = <<>>
    BY <1>1 DEF NotStarted, Start
  <2>2. ~Calls("close")
    BY <2>1 DEF Calls
  <2>3. QED
    BY <2>1, <2>2 DEF ChunksEndWhereAnnounced
<1>2. CASE Started
  <2>1. todo \in Seq(AnyCall) /\ Leads(todo, cursor, ends, Promised, <<>>)
    BY <1>2 DEF Started
  <2>2. Within(cursor, ends)
    BY <2>1, LeadsEnd
  <2>3. Calls("close") => cursor = Last(ends)
    <3>1. SUFFICES ASSUME todo # <<>>, Head(todo).call = "close"
                   PROVE  cursor = Last(ends)
      BY DEF Calls
    <3>2. Head(todo) = CloseMark
      BY <2>1, <3>1, LeadsByKind, AnyCallKinds
    <3>3. QED
      BY <2>1, <3>1, <3>2, LeadsByKind
  <2>4. QED
    BY <2>2, <2>3 DEF ChunksEndWhereAnnounced, Within
<1>3. QED
  BY <1>1, <1>2 DEF IInv

LEMMA ExactFromInv == IInv => SizeIsExact
<1> SUFFICES ASSUME IInv, result = "ok"
             PROVE  cursor = Promised
  BY DEF SizeIsExact
<1>1. todo \in Seq(AnyCall) /\ todo = <<>> /\ Leads(todo, cursor, ends, Promised, <<>>)
  BY DEF IInv, NotStarted, Started
<1>2. QED
  BY <1>1, LeadsEnd

LEMMA SufficesFromInv == IInv => SizeCheckSuffices
<1> SUFFICES ASSUME IInv
             PROVE  SizeCheckSuffices
  OBVIOUS
<1>1. cap \in Nat /\ Promised \in Nat
  BY PromisedType DEF IInv, TypeOK
<1>2. entry = "serialize_into_slice" => result # "UnexpectedEndOfBuffer"
  BY <1>1 DEF IInv, NotStarted, Started, Room
<1>3. entry = "serialize_into_vec" /\ todo # Start => cursor <= cap
  <2>1. SUFFICES ASSUME entry = "serialize_into_vec", todo # Start
                 PROVE  cursor <= cap
    OBVIOUS
  <2>2. Promised <= cap /\ todo \in Seq(AnyCall) /\ Leads(todo, cursor, ends, Promised, <<>>)
    BY <2>1 DEF IInv, NotStarted, Started, Room
  <2>3. cursor \in Nat /\ cursor <= Promised
    BY <2>2, LeadsEnd
  <2>4. QED
    BY <1>1, <2>2, <2>3
<1>4. QED
  BY <1>2, <1>3 DEF SizeCheckSuffices, Start

LEMMA RefusedFromInv == IInv => RefusedOnlyWhenTooSmall
BY DEF IInv, NotStarted, Started, RefusedOnlyWhenTooSmall

-----------------------------------------------------------------------------
(* The theorems.                                                           *)

(* The calls that are left always lead to the last byte promised.  This is *)
(* what the properties below rest on.                                      *)
THEOREM SerializerInvariant == Spec => []IInv
BY InitInv, NextInv, PTL DEF Spec

(* Every message, map entry and packed field, however deeply messages are  *)
(* nested, ends at the byte that its length announced (Writer's            *)
(* write_message, write_map, write_packed and write_bytes).                *)
THEOREM ChunksEndThere == Spec => []ChunksEndWhereAnnounced
BY SerializerInvariant, EndsFromInv, PTL

(* get_size counts the bytes that write_message writes, for every message  *)
(* whose size fits in a usize, whatever fields it has and however they are *)
(* encoded.                                                                *)
THEOREM SizesExact == Spec => []SizeIsExact
BY SerializerInvariant, ExactFromInv, PTL

(* A slice that passes the check of serialize_into_slice is long enough,   *)
(* and the Vec of serialize_into_vec never grows.                          *)
THEOREM CheckSuffices == Spec => []SizeCheckSuffices
BY SerializerInvariant, SufficesFromInv, PTL

(* No slice that is long enough is refused, by the check or by the writer. *)
THEOREM RefusedRightly == Spec => []RefusedOnlyWhenTooSmall
BY SerializerInvariant, RefusedFromInv, PTL

=============================================================================

------------------------------- MODULE Codec -------------------------------
(***************************************************************************)
(* Varints, byte by byte: Writer::write_varint and the methods that call   *)
(* it (writer.rs), read_varint32, read_varint64 and the methods that call  *)
(* them (reader.rs), and the sizes of sizeofs.rs.  The widths are          *)
(* parameters; in the code a byte carries 7 bits of a number, and numbers  *)
(* have 32 or 64 of them.                                                  *)
(*                                                                         *)
(* A value is written with one method and read with another, or the bytes  *)
(* are someone else's.  A byte is its low bits and whether more follow.    *)
(***************************************************************************)
EXTENDS Integers, Sequences, FiniteSets

CONSTANTS
  Group,    \* the bits of a number that a byte carries (7)
  Word,     \* the width of u32 and i32
  Long,     \* the width of u64 and i64
  Foreign,  \* byte strings that were not written here
  Tails     \* what may follow in the buffer

ASSUME WidthsAssumption == Group \in Nat \ {0} /\ Word \in Nat \ {0} /\ Long \in Nat /\ Word < Long

\* The bytes that a number of a width takes, and the most that one may have.
BytesOf(width) == (width + Group - 1) \div Group
MaxBytes == BytesOf(Long)

\* The powers of two that the bits of so many bytes need.
Pow2[n \in 0 .. Group * MaxBytes] == IF n = 0 THEN 1 ELSE 2 * Pow2[n - 1]

VarintByte == [more : BOOLEAN, low : 0 .. Pow2[Group] - 1]
ASSUME ForeignAssumption == Foreign \subseteq Seq(VarintByte) /\ Tails \subseteq Seq(VarintByte)

VARIABLES
  phase,   \* "write", "read" or "done"
  as,      \* the type whose write_ method is called, or "foreign"
  value,   \* what it is called with
  rest,    \* write_varint's argument: what is left of it
  buffer,  \* the buffer
  length,  \* how many of its bytes were written here
  to,      \* the type whose read_ method is called
  start,   \* the reader's cursor
  number,  \* the bits that the reader has put together
  res      \* its result

codecVars == <<phase, as, value, rest, buffer, length, to, start, number, res>>

Narrow == {"int32", "uint32", "sint32", "bool", "enum"}
Types == Narrow \cup {"int64", "uint64", "sint64"}
WidthOf(t) == IF t \in Narrow THEN Word ELSE Long

\* `as iN` of a number of N bits
Signed(n, width) == IF n >= Pow2[width - 1] THEN n - Pow2[width] ELSE n

Values(t) ==
  CASE t \in {"int32", "sint32", "enum", "int64", "sint64"} ->
         -(Pow2[WidthOf(t) - 1]) .. Pow2[WidthOf(t) - 1] - 1
    [] t \in {"uint32", "uint64"} -> 0 .. Pow2[WidthOf(t)] - 1
    [] t = "bool" -> {0, 1}

-----------------------------------------------------------------------------
(* Between values and the numbers that varints carry.                      *)

\* (n << 1) ^ (n >> 31): all bits are flipped in a negative number.
ZigZag(n, width) ==
  LET doubled == Signed((2 * n) % Pow2[width], width)
  IN  IF n < 0 THEN -doubled - 1 ELSE doubled

\* `as u64`, which repeats the sign of a narrower number
ToU64(t, n) ==
  CASE t \in {"sint32", "sint64"} -> ZigZag(n, WidthOf(t)) % Pow2[Long]
    [] OTHER -> n % Pow2[Long]

FromBits(t, n) ==
  CASE t \in {"int32", "int64", "enum"} -> Signed(n, WidthOf(t))
    [] t \in {"sint32", "sint64"} -> IF n % 2 = 1 THEN -(n \div 2) - 1 ELSE n \div 2
    [] t \in {"uint32", "uint64"} -> n
    [] t = "bool" -> IF n = 0 THEN 0 ELSE 1

\* One row of the table for each number of bytes.
sizeof_varint(n) == 1 + Cardinality({k \in 1..MaxBytes - 1 : n >= Pow2[Group * k]})

\* Mutant: zig-zagged to 32 bits, as an unsigned number.
SizeofUnsigned(t, n) ==
  IF t = "sint32" THEN sizeof_varint(ZigZag(n, Word) % Pow2[Word]) ELSE sizeof_varint(ToU64(t, n))
sizeof(t, n) == IF t = "bool" THEN 1 ELSE sizeof_varint(ToU64(t, n))

-----------------------------------------------------------------------------

\* The rest of write_varint's argument that still has more than one byte.
More(n) == n >= Pow2[Group]

WriteByte ==
  /\ phase = "write"
  /\ More(rest)
  /\ buffer' = Append(buffer, [more |-> TRUE, low |-> rest % Pow2[Group]])
  /\ rest' = rest \div Pow2[Group]
  /\ UNCHANGED <<phase, as, value, length, to, start, number, res>>

WriteLast ==
  /\ phase = "write"
  /\ ~More(rest)
  /\ \E tail \in Tails : buffer' = Append(buffer, [more |-> FALSE, low |-> rest]) \o tail
  /\ length' = Len(buffer) + 1
  /\ phase' = "read"
  /\ UNCHANGED <<as, value, rest, to, start, number, res>>

\* Mutant: the mask of a number's last byte has a bit too few (0x7 for 0xf).
BitsKeptShort(width, i) ==
  IF Group * (i + 1) <= width THEN Group
  ELSE IF Group * i < width THEN width - Group * i - 1 ELSE 0
\* The bits of the i-th byte that are kept.  The last byte of a u32 is masked
\* (0xf) and later ones are dropped; a u64 loses them in the shift.
BitsKept(width, i) ==
  CASE Group * (i + 1) <= width -> Group
    [] Group * (i + 1) > width /\ Group * i < width -> width - Group * i
    [] OTHER -> 0

Bits(width, i, low) == (low % Pow2[BitsKept(width, i)]) * Pow2[Group * i]

Return(x) == res' = x /\ phase' = "done"

ReadByte ==
  /\ phase = "read"
  /\ start < Len(buffer)
  /\ LET b == buffer[start + 1]
     IN  /\ number' = number + Bits(WidthOf(to), start, b.low)
         /\ IF ~b.more THEN Return([is |-> "Ok", value |-> FromBits(to, number')])
            ELSE IF start + 1 = MaxBytes THEN Return([is |-> "Varint"])
            ELSE UNCHANGED <<res, phase>>
  /\ start' = start + 1
  /\ UNCHANGED <<as, value, rest, buffer, length, to>>

ReadPastEnd ==
  /\ phase = "read"
  /\ start = Len(buffer)
  /\ Return([is |-> "UnexpectedEndOfBuffer"])
  /\ UNCHANGED <<as, value, rest, buffer, length, to, start, number>>

CodecInit ==
  /\ to \in Types
  /\ start = 0 /\ number = 0 /\ res = [is |-> "none"] /\ length = 0
  /\ \/ /\ phase = "write" /\ buffer = <<>>
        /\ as \in Types
        /\ value \in Values(as)
        /\ rest = ToU64(as, value)
     \/ /\ phase = "read" /\ buffer \in Foreign
        /\ as = "foreign" /\ value = 0 /\ rest = 0

CodecNext == WriteByte \/ WriteLast \/ ReadByte \/ ReadPastEnd

CodecSpec == CodecInit /\ [][CodecNext]_codecVars

-----------------------------------------------------------------------------
Plain == {"int32", "int64", "uint32", "uint64", "enum"}

\* The types as which a value may be read.  A bool looks at 32 bits only, and
\* a sint32 is zig-zagged in 32 bits, so that only itself can read it.
Readers(t) ==
  CASE t \in {"sint32", "sint64"} -> {t}
    [] t \in Plain -> Plain \cup IF t \in Narrow THEN {"bool"} ELSE {}
    [] t = "bool" -> Plain \cup {"bool"}

Cast(t, n) ==
  CASE t \in {"int32", "int64", "enum"} -> Signed(n % Pow2[WidthOf(t)], WidthOf(t))
    [] t \in {"uint32", "uint64"} -> n % Pow2[WidthOf(t)]
    [] t = "bool" -> IF n = 0 THEN 0 ELSE 1
    [] OTHER -> n

(* A value that was written is read as itself, and as what Rust casts it   *)
(* to when the other side declares another integer type (for a negative    *)
(* i32 that takes the bytes beyond its width to be written and to be       *)
(* dropped, and a truncated i64 keeps its low bits); the reader stops      *)
(* where the value ends, which is where sizeof_* said.                     *)
ReadAsCast ==
  phase = "done" /\ as # "foreign" /\ to \in Readers(as) =>
    /\ res = [is |-> "Ok", value |-> Cast(to, value)]
    /\ start = length
    /\ length = sizeof(as, value)

\* Reference: the number that the first n bytes of s stand for, however wide.
Weight(s, n) ==
  LET w[k \in 0..Len(s)] == IF k = 0 THEN 0 ELSE w[k - 1] + s[k].low * Pow2[Group * (k - 1)]
  IN  w[n]

(* Whatever bytes arrive, the methods for both widths take the same bytes  *)
(* and the number they stand for modulo the width, however long it is, and *)
(* refuse a number for its length alone: with more than ten bytes          *)
(* (MaxBytes), or with the buffer at its end.                              *)
DecodesModulo ==
  phase = "done" =>
    LET ends == {n \in 1..Len(buffer) : ~buffer[n].more}
        near == {n \in ends : n <= MaxBytes /\ \A k \in ends : n <= k}
    IN  IF near # {}
        THEN LET n == CHOOSE k \in near : TRUE
             IN  /\ start = n
                 /\ res = [is |-> "Ok",
                           value |-> FromBits(to, Weight(buffer, n) % Pow2[WidthOf(to)])]
        ELSE res.is = IF Len(buffer) < MaxBytes THEN "UnexpectedEndOfBuffer" ELSE "Varint"
=============================================================================

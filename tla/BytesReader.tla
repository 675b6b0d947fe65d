---------------------------- MODULE BytesReader ----------------------------
(***************************************************************************)
(* The cursor of quick-protobuf's reader (reader.rs) driven by the         *)
(* `from_reader` loops that pb-rs generates (types.rs).                    *)
(*                                                                         *)
(* A BytesReader is two indices into a buffer it does not own.  `end` is   *)
(* the end of the message being read: read_len moves it to the end of the  *)
(* nested chunk, runs the chunk's own reader, and puts the old value back. *)
(* No length is compared with the enclosing `end`, nor with the length of  *)
(* the buffer: whether a chunk fits is only found out later, by the loops  *)
(* that wait for start = end and by the reads that run off the buffer.     *)
(*                                                                         *)
(* The buffer's content is chosen as it is read.  This loses nothing while *)
(* the cursor does not move back, for then no byte is decoded twice; after *)
(* a skip that wraps, bytes that are decoded again may differ, so that the *)
(* model does all that the code does, and more.                            *)
(*                                                                         *)
(* The target has 64-bit words.  `end - start` of a cursor past `end`      *)
(* panics in a build with overflow checks (cargo's dev and test profiles)  *)
(* and wraps in one without (its release profile; no Cargo.toml here sets  *)
(* overflow-checks), and then read_unknown may move the cursor back.       *)
(***************************************************************************)
EXTENDS Integers, Sequences

CONSTANTS
  N,              \* bytes.len()
  VarintMax,      \* the longest varint, 10 bytes
  FixedSizes,     \* the widths of fixed fields, {4, 8}
  Lens,           \* the lengths a decoded u32 may announce
  Offsets,        \* the lengths a decoded u64 may announce (unknown fields)
  Word,           \* the number of values of a usize, 2^64
  MaxDepth        \* the chunks within each other that the thread's stack holds

ASSUME ReaderAssumption ==
  /\ N \in Nat
  /\ VarintMax \in Nat \ {0}
  /\ FixedSizes \subseteq Nat \ {0}
  /\ Lens \subseteq Nat
  /\ Word \in Nat \ {0}
  /\ Offsets \subseteq 0..(Word - 1)
  /\ N < Word
  /\ \A len \in Lens \cup FixedSizes : N + len < Word
  /\ MaxDepth \in Nat

VARIABLES
  start,   \* the next byte to read
  end,     \* the end of the innermost open chunk
  stack,   \* the reads in progress, innermost last, each with its `cur_end`
  op,      \* "loop", or the read that the tag just decoded selects
  result,  \* "none" while running, then "ok", an error, or a panic
  build,   \* "checked" or "wrapping": the arithmetic of the build
  wrapped  \* history: a skip has gone past the largest usize

vars == <<start, end, stack, op, result, build, wrapped>>

----------------------------------------------------------------------------
(* Who called the reader, and the chunks it opens. *)
Entries == {"from_reader", "read_message", "read_message_by_len", "stream"}
Kinds == Entries \cup {"message", "packed", "map"}

GeneratedLoop == {"from_reader", "message"}
Looping == GeneratedLoop \cup {"packed", "map", "stream"}
OneShot == {"read_message", "read_message_by_len"}

KeyOps == {"varint", "fixed", "bytes"}
MapOps == KeyOps \cup {"message"}
FieldOps == MapOps \cup {"packed", "packed_fixed", "map", "unknown"}
Ops == FieldOps \cup {"loop"}

Errors == {"UnexpectedEndOfBuffer", "Varint", "Map", "Deprecated",
           "UnknownWireType", "Utf8"}
Panics == {"PanicUnknownUnderflow", "PanicLenUnderflow", "PanicSlice",
           "StackOverflow"}
Results == {"none", "ok"} \cup Errors \cup Panics

Words == 0..(Word - 1)
Frame == [kind : Kinds, saved : Words]
Top == stack[Len(stack)]
Pop == SubSeq(stack, 1, Len(stack) - 1)

\* The end of the i-th read in progress: `self.end` for the innermost one,
\* and for the others the `cur_end` that the read they called has kept.
EndOf(i) == IF i = Len(stack) THEN end ELSE stack[i + 1].saved

IsEofOrPast == start >= end  \* mutant
IsEof == start = end
At(kinds) == result = "none" /\ op = "loop" /\ Top.kind \in kinds
Expect(o) == result = "none" /\ op = o

----------------------------------------------------------------------------
(* Outcomes shared by the reads. *)

\* Where a varint that starts at the cursor may end.  read_u8 is bounded by
\* the buffer, not by `end`.
VarintEndsPeeked == { start + w : w \in 0..VarintMax } \cap 0..N  \* mutant
VarintEnds == { start + w : w \in 1..VarintMax } \cap 0..N

\* A read gives its value to the loop that asked for it.
Return(s) ==
  /\ start' = s
  /\ op' = "loop"
  /\ UNCHANGED <<end, stack, result, build, wrapped>>

\* A read fails with the cursor at s: `?` takes the error to the caller, and
\* `end` is not put back on the way.
Fail(error, s) ==
  /\ start' = s
  /\ result' = error
  /\ UNCHANGED <<end, stack, op, build, wrapped>>

\* read_len, up to the call of the chunk's own reader.
Push(kind, s, len) ==
  /\ start' = s
  /\ end' = s + len
  /\ stack' = Append(stack, [kind |-> kind, saved |-> end])
  /\ op' = "loop"
  /\ UNCHANGED <<result, build, wrapped>>

Open(kind, s, len) ==
  IF Len(stack) <= MaxDepth THEN Push(kind, s, len) ELSE Fail("StackOverflow", s)

\* What a build without overflow checks makes of a sum or a difference.
Wrap(n) == IF n < 0 THEN n + Word ELSE IF n >= Word THEN n - Word ELSE n

\* `end - start`: with overflow checks it panics when it underflows.
Underflow(s) == s > end
Subtracts(s) == Underflow(s) => build = "wrapping"
Remaining(s) == Wrap(end - s)

----------------------------------------------------------------------------
(* The reads. *)

\* An iteration of the generated loop: next_tag, then the match on the tag.
NextTag ==
  /\ At(GeneratedLoop) /\ ~IsEof
  /\ start' \in VarintEnds
  /\ op' \in FieldOps
  /\ UNCHANGED <<end, stack, result, build, wrapped>>

\* read_varint32/64 and every reader built on one: a varint field, or an
\* element of a packed field.
ReadVarint ==
  /\ Expect("varint") \/ (At({"packed"}) /\ ~IsEof)
  /\ \E s \in VarintEnds : Return(s)

\* read_fixed.
ReadFixed ==
  /\ Expect("fixed")
  /\ \E len \in FixedSizes :
       \/ start + len <= N /\ Return(start + len)
       \/ start + len > N /\ Fail("UnexpectedEndOfBuffer", start)

\* read_bytes and read_string: read_len around a checked slice.
ReadBytes ==
  /\ Expect("bytes")
  /\ \E s \in VarintEnds, len \in Lens :
       \/ s + len <= N /\ Return(s + len)
       \/ /\ start' = s
          /\ end' = s + len
          /\ result' = IF s + len > N THEN "UnexpectedEndOfBuffer" ELSE "Utf8"
          /\ UNCHANGED <<stack, op, build, wrapped>>

\* read_packed, to the start of its loop.
ReadPacked ==
  /\ Expect("packed")
  /\ \E s \in VarintEnds, len \in Lens : Open("packed", s, len)

\* read_packed_fixed: the only length that is compared with len().
ReadPackedFixed ==
  /\ Expect("packed_fixed")
  /\ \E s \in VarintEnds, len \in Lens, size \in FixedSizes :
       \/ ~Subtracts(s) /\ Fail("PanicLenUnderflow", s)
       \/ Subtracts(s) /\ Remaining(s) < len /\ Fail("UnexpectedEndOfBuffer", s)
       \/ /\ Subtracts(s) /\ Remaining(s) >= len
          /\ IF s + (len \div size) * size <= N
             THEN Return(s + len)
             ELSE Fail("PanicSlice", s)

\* The three ways to ask for a message.
CallsReadMessage ==
  \/ Expect("message")
  \/ At({"read_message"})
  \/ At({"stream"}) /\ ~IsEof

\* read_message and read_message_by_len of a message with fields.
ReadMessage ==
  \/ CallsReadMessage /\ \E s \in VarintEnds, len \in Lens : Open("message", s, len)
  \/ At({"read_message_by_len"}) /\ \E len \in Lens : Open("message", start, len)

\* The same for a message without fields: read_to_end, so that the cursor
\* lands on the announced end without a look at the bytes.
ReadUnitMessage ==
  /\ \E len \in Lens :
       \/ CallsReadMessage /\ \E s \in VarintEnds : start' = s + len
       \/ At({"read_message_by_len"}) /\ start' = start + len
  /\ op' = "loop"
  /\ result' = IF Top.kind \in OneShot THEN "ok" ELSE "none"
  /\ UNCHANGED <<end, stack, build, wrapped>>

\* read_map, to the start of its loop.
ReadMap ==
  /\ Expect("map")
  /\ \E s \in VarintEnds, len \in Lens : Open("map", s, len)

\* Mutant: the end of the buffer is taken for the end of the entry.
MapEntryIgnoringEof ==
  /\ At({"map"}) /\ ~IsEof
  /\ \/ start >= N /\ Return(start)
     \/ /\ start < N
        /\ start' = start + 1
        /\ op' \in MapOps
        /\ UNCHANGED <<end, stack, result, build, wrapped>>

\* An iteration of read_map: one byte of tag, of which only the field number
\* counts, then the key's or the value's reader.
MapEntry ==
  /\ At({"map"}) /\ ~IsEof
  /\ \/ start >= N /\ Fail("UnexpectedEndOfBuffer", start)
     \/ start < N /\ Fail("Map", start + 1)
     \/ /\ start < N
        /\ start' = start + 1
        /\ op' \in MapOps
        /\ UNCHANGED <<end, stack, result, build, wrapped>>

\* `self.start += offset`
Advance(s, offset) ==
  /\ start' = Wrap(s + offset)
  /\ wrapped' = (wrapped \/ s + offset >= Word)
  /\ op' = "loop"
  /\ UNCHANGED <<end, stack, result, build>>

\* Mutant: the differences of a checked build are not looked at, and pass.
SkipUnchecked(s, offset) ==
  \/ Remaining(s) < offset /\ Fail("Varint", s)
  \/ Remaining(s) >= offset /\ Advance(s, offset)
\* The end of read_unknown: skip `offset` bytes unless fewer are left.
Skip(s, offset) ==
  \/ ~Subtracts(s) /\ Fail("PanicUnknownUnderflow", s)
  \/ Subtracts(s) /\ Remaining(s) < offset /\ Fail("Varint", s)
  \/ Subtracts(s) /\ Remaining(s) >= offset /\ Advance(s, offset)

\* read_unknown, by wire type: varint, fixed, length-delimited, group, other.
ReadUnknown ==
  /\ Expect("unknown")
  /\ \/ \E s \in VarintEnds : Return(s)
     \/ \E len \in FixedSizes : Skip(start, len)
     \/ \E s \in VarintEnds, offset \in Offsets : Skip(s, offset)
     \/ Fail("Deprecated", start)
     \/ Fail("UnknownWireType", start)

\* A varint that the next read begins with runs off the buffer, or goes on
\* for more than VarintMax bytes.
BeginsWithVarint ==
  \/ result = "none" /\ op \in FieldOps \ {"fixed"}
  \/ At(GeneratedLoop \cup {"packed", "stream"}) /\ ~IsEof
  \/ At({"read_message"})

VarintError ==
  /\ BeginsWithVarint
  /\ IF start + VarintMax <= N
     THEN Fail("Varint", start + VarintMax)
     ELSE Fail("UnexpectedEndOfBuffer", IF start < N THEN N ELSE start)

\* Mutant: the chunk's end is left in place.
CloseChunkKeepingEnd ==
  /\ At({"message", "packed", "map"}) /\ IsEof
  /\ stack' = Pop
  /\ result' = IF stack[Len(stack) - 1].kind \in OneShot THEN "ok" ELSE "none"
  /\ UNCHANGED <<start, end, op, build, wrapped>>

\* The rest of read_len, when the chunk's loop has ended.
CloseChunk ==
  /\ At({"message", "packed", "map"}) /\ IsEof
  /\ start' = end
  /\ end' = Top.saved
  /\ stack' = Pop
  /\ result' = IF stack[Len(stack) - 1].kind \in OneShot THEN "ok" ELSE "none"
  /\ UNCHANGED <<op, build, wrapped>>

\* The caller's own loop ends.
Finish ==
  /\ At({"from_reader", "stream"}) /\ IsEof
  /\ result' = "ok"
  /\ UNCHANGED <<start, end, stack, op, build, wrapped>>

----------------------------------------------------------------------------
\* BytesReader::from_bytes, and the four ways callers use the reader:
\* M::from_reader, deserialize_from_slice, read_message_by_len, and
\* `while !r.is_eof() { r.read_message(bytes)? }`.
Init ==
  /\ start = 0
  /\ end = N
  /\ \E kind \in Entries : stack = << [kind |-> kind, saved |-> N] >>
  /\ op = "loop"
  /\ result = "none"
  /\ build \in {"checked", "wrapping"}
  /\ wrapped = FALSE

Next ==
  \/ NextTag
  \/ ReadVarint
  \/ ReadFixed
  \/ ReadBytes
  \/ ReadPacked
  \/ ReadPackedFixed
  \/ ReadMessage
  \/ ReadUnitMessage
  \/ ReadMap
  \/ MapEntry
  \/ ReadUnknown
  \/ VarintError
  \/ CloseChunk
  \/ Finish

\* The code is sequential: a caller that waits for it sees it run on.
Fairness == WF_vars(Next)

Spec == Init /\ [][Next]_vars /\ Fairness

----------------------------------------------------------------------------
(* Properties. *)

\* Types; the bottom frame, and only it, is the caller's.  The cursor and the
\* ends are usizes: no sum but that of a skip overflows.
TypeOK ==
  /\ start \in Words
  /\ end \in Words
  /\ stack \in Seq(Frame)
  /\ Len(stack) >= 1
  /\ \A i \in 1..Len(stack) : stack[i].kind \in Entries <=> i = 1
  /\ op \in Ops
  /\ result \in Results
  /\ build \in {"checked", "wrapping"}
  /\ wrapped \in BOOLEAN

\* The cursor is past the end of some chunk whose loop is still running.
Overrun ==
  \E i \in 1..Len(stack) : stack[i].kind \in Looping /\ start > EndOf(i)

\* No length is checked against the enclosing chunk when it is read
\* (read_len).  Still, once a field or a nested message has run past the end
\* of any message that encloses it, nothing that follows in the buffer makes
\* the parse return Ok, unless a skip wraps: every loop above waits for
\* start = end, and the cursor has gone by.
OverrunIsFatal == [](Overrun => [](wrapped \/ result # "ok"))

\* The bytes of tags and lengths that a caller of this kind has not paid for
\* the first message it opens.
Unpaid(kind) ==
  CASE kind = "from_reader" -> 0
    [] kind \in {"read_message", "stream"} -> 1
    [] OTHER -> 2

\* Nested chunks recurse on the program's stack and no counter limits them
\* (read_len calls the nested from_reader).  What limits them, until a skip
\* wraps, is the buffer: a chunk costs a byte of tag and a byte of length, also
\* when the lengths overlap, so the depth is at most half of what has been
\* read.
DepthBound ==
  wrapped \/ 2 * (Len(stack) - 1) <= start + Unpaid(stack[1].kind)

\* A parse that returns Ok has put the caller's `end` back through every chunk
\* it opened, and the callers that loop have read the buffer to its last byte,
\* not one short of it and not one beyond.  This holds in every build, wrapped
\* skips and all.
OkConsumesAll ==
  result = "ok" =>
    /\ Len(stack) = 1
    /\ end = N
    /\ stack[1].kind \in Looping => start = N

\* The cursor moves back at one place only, although read_len assigns to it:
\* in the skip of read_unknown, of a build without overflow checks, when the
\* sum wraps; and then it comes to lie at the `end` that it was past, or before
\* it.  In a build with overflow checks no byte is decoded twice.
MovesBackOnlyByWrapping ==
  [][start' < start =>
       op = "unknown" /\ build = "wrapping" /\ wrapped' /\ start' <= end]_vars

\* Every parse comes to an answer, or to a skip that wraps: no other step of a
\* loop leaves the cursor where it found it, and a cursor that has gone past
\* the `end` a loop waits for runs into the end of the buffer.
Termination == <>(result # "none" \/ wrapped)
=============================================================================

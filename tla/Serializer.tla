----------------------------- MODULE Serializer -----------------------------
(***************************************************************************)
(* The writer of quick-protobuf (writer.rs, sizeofs.rs) driven by the      *)
(* `get_size` and `write_message` methods that pb-rs generates (types.rs). *)
(*                                                                         *)
(* A message is written twice: once to count its bytes (get_size) and once *)
(* to write them (write_message).  Every length on the wire comes from the *)
(* first pass and every byte from the second, and pb-rs generates the two  *)
(* from separate pieces of code.  Here they stay separate: GetSize is      *)
(* arithmetic on the message, and the bytes are counted by `cursor` while  *)
(* the writer's calls are carried out one by one.                          *)
(*                                                                         *)
(* What the bytes are does not matter for this, so a datum is its type and *)
(* the number its size depends on.  A message is the sequence of its       *)
(* fields, with the values they hold.                                      *)
(***************************************************************************)
EXTENDS Integers, Sequences, SequencesExt

CONSTANTS
  Base,        \* one more than the largest one-byte varint, 128
  VarintMax,   \* the longest varint, 10 bytes
  Messages,    \* message values, with those that they embed
  Depth(_),    \* how deep messages are nested in a message
  Roots,       \* the messages to serialize
  Caps(_)      \* the lengths of the output slices tried for a message

ASSUME SerializerAssumption ==
  /\ Base \in Nat \ {0, 1}
  /\ VarintMax \in Nat \ {0}
  /\ Roots \subseteq Messages
  /\ \A m \in Roots : Caps(m) \subseteq Nat

VARIABLES
  entry,    \* the function that the caller uses
  root,     \* the message it passes
  cap,      \* out.len() of a slice, the capacity of a Vec
  cursor,   \* bytes written
  todo,     \* the calls that are still to be made, in order
  ends,     \* where each open chunk has to end, by its length prefix
  result    \* "none" while running, then "ok" or an error

vars == <<entry, root, cap, cursor, todo, ends, result>>

----------------------------------------------------------------------------
(* sizeofs.rs. *)

Power[i \in 0..VarintMax] == IF i = 0 THEN 1 ELSE Base * Power[i - 1]

\* A u64 or a usize: it fits in the longest varint.
Word == 0 .. (Power[VarintMax] - 1)

\* sizeof_varint, which is a table.  pb-rs has a copy of it for the tags.
SizeofVarint(v) ==
  CHOOSE row \in 1..VarintMax :
    /\ row = 1 \/ v >= Power[row - 1]
    /\ row = VarintMax \/ v < Power[row]

SizeofLen(len) == SizeofVarint(len) + len

\* An iterator's sum().
Total(s) ==
  LET sum[n \in {0} \cup DOMAIN s] == IF n = 0 THEN 0 ELSE sum[n - 1] + s[n]
  IN  sum[Len(s)]

----------------------------------------------------------------------------
(* Messages.  A packed fixed field has only whole elements; one made from  *)
(* other bytes announces less than it writes.                              *)

Datum ==
  [type : {"varint", "bytes"}, n : Word] \cup [type : {"bool"}, n : {0, 1}]
  \cup [type : {"fixed"}, n : {4, 8}] \cup [type : {"message"}, m : Messages]

Entry == [key : Datum, value : Datum]

Field ==
  [shape : {"singular"}, kind : {"implicit", "optional", "required"},
   set : BOOLEAN, tag : Word, datum : Datum]
  \cup [shape : {"oneof"}, set : BOOLEAN, tag : Word, datum : Datum]
  \cup [shape : {"repeated", "packed"}, tag : Word, data : Seq(Datum)]
  \cup { f \in [shape : {"packed_fixed"}, tag : Word, width : {4, 8}, bytes : Word] :
           f.bytes % f.width = 0 }
  \cup [shape : {"map"}, tag : Word, entries : Seq(Entry)]

DataOf(f) ==
  CASE f.shape \in {"singular", "oneof"} -> {f.datum}
    [] f.shape \in {"repeated", "packed"} -> {f.data[i] : i \in DOMAIN f.data}
    [] f.shape = "packed_fixed" -> {}
    [] f.shape = "map" -> {f.entries[i].key : i \in DOMAIN f.entries}
                          \cup {f.entries[i].value : i \in DOMAIN f.entries}

\* A struct owns the messages in it, so it cannot be among them.
ASSUME MessagesAssumption ==
  \A m \in Messages :
    /\ m \in Seq(Field)
    /\ Depth(m) \in Nat
    /\ \A i \in DOMAIN m : \A d \in DataOf(m[i]) :
         d.type = "message" => Depth(d.m) < Depth(m)

----------------------------------------------------------------------------
(* get_size, as pb-rs generates it.  `size` is the get_size of messages,   *)
(* called for the ones that a field holds.                                 *)

\* FieldType::get_size.
DatumSize(d, size) ==
  CASE d.type = "varint" -> SizeofVarint(d.n)
    [] d.type = "bool" -> SizeofVarint(d.n)
    [] d.type = "fixed" -> d.n
    [] d.type = "bytes" -> SizeofLen(d.n)
    [] d.type = "message" -> SizeofLen(size[d.m])

\* Mutant: the tags of the key and of the value are not counted.
EntrySizeUntagged(e, size) == DatumSize(e.key, size) + DatumSize(e.value, size)
\* FieldType::get_size of a map: the tags of key and value take a byte each.
EntrySize(e, size) == 2 + DatumSize(e.key, size) + DatumSize(e.value, size)

\* PackedFixed::len, and PackedFixed::is_empty which looks at the bytes.
PackedFixedLen(f) == f.bytes \div f.width
PackedFixedIsEmpty(f) == f.bytes = 0

\* A singular field is written unless it is an empty Option, or has no presence
\* and holds its default: `set` says it is neither.  A required field is
\* written whatever it holds.
Counted(f) == f.kind = "required" \/ f.set

SizesOf(data, size) == [i \in DOMAIN data |-> DatumSize(data[i], size)]

\* OneOf::write_get_size: the variant that is set, or None.
OneOfSize(o, size) ==
  IF o.set THEN SizeofVarint(o.tag) + DatumSize(o.datum, size) ELSE 0

\* Field::write_get_size.
FieldSize(f, size) ==
  LET tag == SizeofVarint(f.tag) IN
  CASE f.shape = "singular" ->
         IF Counted(f) THEN tag + DatumSize(f.datum, size) ELSE 0
    [] f.shape = "oneof" -> OneOfSize(f, size)
    [] f.shape = "repeated" -> Len(f.data) * tag + Total(SizesOf(f.data, size))
    [] f.shape = "packed" ->
         IF f.data = <<>> THEN 0 ELSE tag + SizeofLen(Total(SizesOf(f.data, size)))
    [] f.shape = "packed_fixed" ->
         IF PackedFixedIsEmpty(f) THEN 0
         ELSE tag + SizeofLen(PackedFixedLen(f) * f.width)
    [] f.shape = "map" ->
         Total([i \in DOMAIN f.entries |-> tag + SizeofLen(EntrySize(f.entries[i], size))])

\* Message::write_get_size.
GetSize[m \in Messages] ==
  Total([i \in DOMAIN m |-> FieldSize(m[i], GetSize)])

\* get_size adds up in a usize, and the message is in memory.
ASSUME SizesFit == \A m \in Messages : GetSize[m] \in Word

----------------------------------------------------------------------------
(* The calls on the writer that write_message makes.  A call that only     *)
(* makes others stands for them until it is its turn.                      *)

Varint(v) == [call |-> "write_varint", n |-> v]
All(n) == [call |-> "pb_write_all", n |-> n]
WriteBytes(n) == [call |-> "write_bytes", n |-> n]
WriteMessage(m) == [call |-> "write_message", m |-> m]
WritePacked(data) == [call |-> "write_packed", data |-> data]
WriteMap(e) == [call |-> "write_map", e |-> e]
WithTag(tag, write) == [call |-> "write_with_tag", tag |-> tag, write |-> write]
WriteField(f) == [call |-> "write_field", f |-> f]

\* A length, and the calls that should write as many bytes.
Chunk(len, calls) ==
  << Varint(len), [call |-> "open", n |-> len] >> \o calls \o << [call |-> "close"] >>

\* FieldType::get_write: the writer's write_* for a type.
DatumCall(d) ==
  CASE d.type = "varint" -> Varint(d.n)
    [] d.type = "bool" -> All(1)
    [] d.type = "fixed" -> All(d.n)
    [] d.type = "bytes" -> WriteBytes(d.n)
    [] d.type = "message" -> WriteMessage(d.m)

\* Writer::write_packed.
PackedCalls(data) ==
  Chunk(Total(SizesOf(data, GetSize)), [i \in DOMAIN data |-> DatumCall(data[i])])

\* Writer::write_map; the tags are those of fields 1 and 2.
EntryCalls(e) ==
  Chunk(EntrySize(e, GetSize), << Varint(1), DatumCall(e.key), Varint(1), DatumCall(e.value) >>)

\* Mutant: a required field that holds its default is left out.
WrittenUnlessDefault(f) == f.set
\* The same condition again, in the code that generates write_message.
Written(f) == f.kind = "required" \/ f.set

\* OneOf::write_write.
OneOfCalls(o) == IF o.set THEN << WithTag(o.tag, DatumCall(o.datum)) >> ELSE <<>>

\* Field::write_write, with the writer's write_packed_with_tag and
\* write_packed_fixed_with_tag.
FieldCalls(f) ==
  CASE f.shape = "singular" ->
         IF Written(f) THEN << WithTag(f.tag, DatumCall(f.datum)) >> ELSE <<>>
    [] f.shape = "oneof" -> OneOfCalls(f)
    [] f.shape = "repeated" -> [i \in DOMAIN f.data |-> WithTag(f.tag, DatumCall(f.data[i]))]
    [] f.shape = "packed" ->
         IF f.data = <<>> THEN <<>> ELSE << Varint(f.tag), WritePacked(f.data) >>
    [] f.shape = "packed_fixed" ->
         IF PackedFixedIsEmpty(f) THEN <<>> ELSE << Varint(f.tag), WriteBytes(f.bytes) >>
    [] f.shape = "map" -> [i \in DOMAIN f.entries |-> WithTag(f.tag, WriteMap(f.entries[i]))]

\* Message::write_write_message.
Body(m) == [i \in DOMAIN m |-> WriteField(m[i])]

----------------------------------------------------------------------------
(* Carrying the calls out. *)

Entries == {"serialize_into_slice", "serialize_into_vec",
            "Writer::write_message", "MessageWrite::write_message"}

\* The bytes that the caller gets: all but the last entry put the length first.
Promised ==
  IF entry = "MessageWrite::write_message" THEN GetSize[root]
  ELSE SizeofLen(GetSize[root])

Calls(call) == result = "none" /\ todo # <<>> /\ Head(todo).call = call

\* Mutant: the last byte of the slice is never used.
FitsBefore(n) == entry = "serialize_into_vec" \/ cap - cursor > n
\* A Vec grows; BytesWriter compares with what is left of its slice.
Fits(n) == entry = "serialize_into_vec" \/ cap - cursor >= n

\* A call on the backend, after which the calls `rest` are left.
Put(n, rest) ==
  IF Fits(n)
  THEN /\ cursor' = cursor + n
       /\ todo' = rest
       /\ UNCHANGED <<entry, root, cap, ends, result>>
  ELSE /\ result' = "UnexpectedEndOfBuffer"
       /\ UNCHANGED <<entry, root, cap, cursor, todo, ends>>

\* An iteration of write_varint.
PutVarintByte ==
  /\ Calls("write_varint")
  /\ LET v == Head(todo).n
     IN  Put(1, IF v >= Base THEN << Varint(v \div Base) >> \o Tail(todo)
                ELSE Tail(todo))

\* pb_write_all, pb_write_u32, pb_write_u64 and their like.
PutAll == Calls("pb_write_all") /\ Put(Head(todo).n, Tail(todo))

\* A call that only makes calls.
Expand(calls) ==
  /\ todo' = calls \o Tail(todo)
  /\ UNCHANGED <<entry, root, cap, cursor, ends, result>>

EnterMessage ==
  /\ Calls("write_message")
  /\ LET m == Head(todo).m IN Expand(Chunk(GetSize[m], Body(m)))

EnterField == Calls("write_field") /\ Expand(FieldCalls(Head(todo).f))

EnterWithTag ==
  Calls("write_with_tag") /\ Expand(<< Varint(Head(todo).tag), Head(todo).write >>)

EnterPacked == Calls("write_packed") /\ Expand(PackedCalls(Head(todo).data))

EnterMap == Calls("write_map") /\ Expand(EntryCalls(Head(todo).e))

EnterBytes ==
  Calls("write_bytes") /\ LET n == Head(todo).n IN Expand(Chunk(n, << All(n) >>))

\* The prefix of a chunk is written, and its payload begins.
OpenChunk ==
  /\ Calls("open")
  /\ ends' = Append(ends, cursor + Head(todo).n)
  /\ todo' = Tail(todo)
  /\ UNCHANGED <<entry, root, cap, cursor, result>>

CloseChunk ==
  /\ Calls("close")
  /\ ends' = Front(ends)
  /\ todo' = Tail(todo)
  /\ UNCHANGED <<entry, root, cap, cursor, result>>

\* Mutant: the length prefix is left out of the comparison.
SerializeUnprefixed ==
  /\ Calls("serialize")
  /\ IF entry = "serialize_into_slice" /\ cap < GetSize[root]
     THEN /\ result' = "OutputBufferTooSmall"
          /\ UNCHANGED <<entry, root, cap, cursor, todo, ends>>
     ELSE /\ cap' = IF entry = "serialize_into_vec" THEN SizeofLen(GetSize[root]) ELSE cap
          /\ todo' = IF entry = "MessageWrite::write_message" THEN Body(root)
                     ELSE << WriteMessage(root) >>
          /\ UNCHANGED <<entry, root, cursor, ends, result>>
\* The four ways to start: only serialize_into_slice compares the size with
\* the room there is, and serialize_into_vec reserves that much.
Serialize ==
  /\ Calls("serialize")
  /\ IF entry = "serialize_into_slice" /\ cap < SizeofLen(GetSize[root])
     THEN /\ result' = "OutputBufferTooSmall"
          /\ UNCHANGED <<entry, root, cap, cursor, todo, ends>>
     ELSE /\ cap' = IF entry = "serialize_into_vec" THEN SizeofLen(GetSize[root]) ELSE cap
          /\ todo' = IF entry = "MessageWrite::write_message" THEN Body(root)
                     ELSE << WriteMessage(root) >>
          /\ UNCHANGED <<entry, root, cursor, ends, result>>

Finish ==
  /\ result = "none" /\ todo = <<>>
  /\ result' = "ok"
  /\ UNCHANGED <<entry, root, cap, cursor, todo, ends>>

----------------------------------------------------------------------------
Init ==
  /\ entry \in Entries
  /\ root \in Roots
  /\ cap \in IF entry = "serialize_into_vec" THEN {0} ELSE Caps(root)
  /\ cursor = 0
  /\ todo = << [call |-> "serialize"] >>
  /\ ends = <<>>
  /\ result = "none"

Next ==
  \/ Serialize
  \/ EnterMessage
  \/ EnterField
  \/ EnterWithTag
  \/ EnterPacked
  \/ EnterMap
  \/ EnterBytes
  \/ PutVarintByte
  \/ PutAll
  \/ OpenChunk
  \/ CloseChunk
  \/ Finish

Spec == Init /\ [][Next]_vars

----------------------------------------------------------------------------
(* Properties. *)

\* A length is written before the bytes it announces, from get_size (writer.rs
\* write_message, write_map, write_packed) and is never corrected afterwards.
\* Every message, map entry and packed field, however deeply nested, ends at
\* the byte its prefix announced, and inside the chunk that holds it: readers
\* loop until they stand exactly there.
ChunksEndWhereAnnounced ==
  /\ Calls("close") => cursor = Last(ends)
  /\ \A i \in DOMAIN ends : cursor <= ends[i]
  /\ \A i \in 2..Len(ends) : ends[i] <= ends[i - 1]

\* message.rs, get_size: "Computes necessary binary size of self once
\* serialized in protobuf".  What a caller gets is that many bytes, after the
\* length if the function it uses writes one.
SizeIsExact == result = "ok" => cursor = Promised

\* The check in serialize_into_slice is made once, on the size that get_size
\* computes; a slice that passes it is never too small in the middle of the
\* message, which would leave half a message in the caller's buffer, and a Vec
\* reserved from the same number never has to grow (test_issue_222).
SizeCheckSuffices ==
  /\ entry = "serialize_into_slice" => result # "UnexpectedEndOfBuffer"
  /\ entry = "serialize_into_vec" /\ todo # << [call |-> "serialize"] >> => cursor <= cap

\* Without that check the writer stops wherever the slice ends.  It only does
\* so when the message does not fit: no slice that is long enough, and not one
\* that is filled to its last byte, is refused.
RefusedOnlyWhenTooSmall ==
  result \in {"UnexpectedEndOfBuffer", "OutputBufferTooSmall"} => cap < Promised
=============================================================================

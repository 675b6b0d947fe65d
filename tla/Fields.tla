------------------------------- MODULE Fields -------------------------------
(***************************************************************************)
(* What the code that pb-rs generates keeps of a message: the struct with  *)
(* its defaults, what write_message puts on the wire field by field, and   *)
(* what from_reader stores of each field that arrives, in any order and    *)
(* any number of times.                                                    *)
(*                                                                         *)
(* A schema is a message type after set_defaults:                          *)
(*   [syntax, add_deprecated_fields, fields, oneofs], where a field is     *)
(*   [number, type, label, default, packed, deprecated]                    *)
(* and a oneof a sequence of fields.  `label` is the field's frequency,    *)
(* "Default" that of a proto3 field without one; a boxed message is an     *)
(* optional one.  `type` is "int", "bool", "fixed", "string", "message",   *)
(* "map" (string to int) or an enum.  On the wire a field is its tag, that *)
(* is [number, wire], and its data, a sequence of values: one for most     *)
(* fields, the elements of a packed one, key and value of a map's entry.   *)
(* A message in a field is a value here.                                   *)
(***************************************************************************)
EXTENDS Integers, Sequences, FiniteSets, FiniteSetsExt, Functions

CONSTANTS
  Value,        \* what a field of one type or another may hold
  Schemas,      \* the message types
  Structs(_),   \* the structs that a program makes of a schema
  Foreign(_),   \* the fields in messages that others write for a schema
  Variants,     \* of every enum the numbers of its fields, in the order declared
  NoDefault,    \* no [default = ...]
  None          \* Option::None, and a oneof's None

VARIABLES
  schema,
  sent,   \* the struct that is written, or None for somebody else's message
  slot,   \* how many of its fields and oneofs write_message has been through
  wire,   \* what is written
  pos,    \* how much of it from_reader has read
  msg     \* the struct that it fills

vars == <<schema, sent, slot, wire, pos, msg>>

-----------------------------------------------------------------------------
(* Declarations.                                                           *)

IsOptional(f) == f.label = "Optional"
IsEnum(f) == f.type \in DOMAIN Variants
IsPrimitive(f) == f.type \notin {"message", "string", "map"}
IsVisible(s, f) == s.add_deprecated_fields \/ ~f.deprecated
VisibleFields(s) == {i \in DOMAIN s.fields : IsVisible(s, s.fields[i])}
VisibleVariants(s, o) == {k \in DOMAIN o : IsVisible(s, o[k])}

\* set_repeated_as_packed, then unset_packed_non_primitives
Packed(s, f) ==
  /\ IsPrimitive(f)
  /\ f.packed = "true" \/ (f.packed = "none" /\ s.syntax = "proto3" /\ f.label = "Repeated")

NativeWire(f) ==
  CASE f.type \in {"int", "bool"} \/ IsEnum(f) -> "varint"
    [] f.type = "fixed" -> "fixed"
    [] OTHER -> "len"
Tag(s, f) == [number |-> f.number, wire |-> IF Packed(s, f) THEN "len" ELSE NativeWire(f)]

GeneratedType(f) ==
  CASE f.label = "Map" -> "Map" [] f.label = "Repeated" -> "ArrayLike" [] OTHER -> "Singular"

\* The default that the type of a single value has in Rust.
TypeDefault(f) == IF IsEnum(f) THEN Variants[f.type][1] ELSE 0

HasValidVisibleCustomDefault(s, f) ==
  /\ IsVisible(s, f)
  /\ s.syntax = "proto2"
  /\ f.label \in {"Optional", "Required"}
  /\ f.type # "message"
  /\ f.default # NoDefault

MustGenerateImplDefault(s, f) == HasValidVisibleCustomDefault(s, f) /\ f.label = "Required"

FieldDefault(f) ==
  IF GeneratedType(f) # "Singular" THEN <<>>
  ELSE IF IsOptional(f) THEN None
  ELSE IF f.default # NoDefault THEN f.default
  ELSE TypeDefault(f)

\* #[derive(Default)]
DerivedDefault(f) ==
  CASE GeneratedType(f) # "Singular" -> <<>>
    [] IsOptional(f) -> None
    [] OTHER -> TypeDefault(f)

\* The struct's default: derived, unless a required field has a default of
\* its own.  Fields that are not generated are not in the struct.
StructDefault(s) ==
  LET Own(f) == IF \E i \in DOMAIN s.fields : MustGenerateImplDefault(s, s.fields[i])
                THEN FieldDefault(f) ELSE DerivedDefault(f)
  IN  [fields |-> [i \in VisibleFields(s) |-> Own(s.fields[i])],
       oneofs |-> [i \in DOMAIN s.oneofs |-> None]]

\* The const DEFAULT_<name> and get_<name>(), of optional proto2 fields.
HasGetter(s, f) == HasValidVisibleCustomDefault(s, f) /\ IsOptional(f)
Getter(f, x) == IF x = None THEN f.default ELSE x

-----------------------------------------------------------------------------
(* What protoc and Rust's types see to.                                    *)

ValuesOfType(f) == IF IsEnum(f) THEN Range(Variants[f.type]) ELSE Value

FieldTypes ==
  [number : Nat, type : {"int", "bool", "fixed", "string", "message", "map"} \cup DOMAIN Variants,
   label : {"Optional", "Required", "Default", "Repeated", "Map"}, default : {NoDefault} \cup Value,
   packed : {"none", "true", "false"}, deprecated : BOOLEAN]

\* Only repeated fields are packed; a default is a value of a single field.
Declared(s, f) ==
  /\ f \in FieldTypes
  /\ s.syntax = "proto2" => f.label # "Default"
  /\ f.packed = "true" => f.label = "Repeated"
  /\ f.default # NoDefault => f.type # "message" /\ f.default \in ValuesOfType(f)

DeclaredSchema(s) ==
  /\ s.syntax \in {"proto2", "proto3"} /\ s.add_deprecated_fields \in BOOLEAN
  /\ s.fields \in Seq(FieldTypes) /\ s.oneofs \in Seq(Seq(FieldTypes))
  /\ \A i \in DOMAIN s.fields :
       /\ Declared(s, s.fields[i])
       /\ \A j \in DOMAIN s.fields : s.fields[i].number = s.fields[j].number => i = j
  /\ \A o \in DOMAIN s.oneofs : \A k \in DOMAIN s.oneofs[o] :
       /\ Declared(s, s.oneofs[o][k]) /\ s.oneofs[o][k].label \notin {"Repeated", "Map"}
       /\ \A i \in DOMAIN s.fields : s.oneofs[o][k].number # s.fields[i].number
       /\ \A p \in DOMAIN s.oneofs : \A l \in DOMAIN s.oneofs[p] :
            s.oneofs[o][k].number = s.oneofs[p][l].number => o = p /\ k = l

HeldBy(f) ==
  CASE f.label = "Map" -> UNION {[keys -> Value] : keys \in {k \in SUBSET Value : IsFiniteSet(k)}}
    [] f.label = "Repeated" -> Seq(ValuesOfType(f))
    [] OTHER -> (IF IsOptional(f) THEN {None} ELSE {}) \cup ValuesOfType(f)
HeldByOneOf(s, o) ==
  {None} \cup UNION {[at : {k}, value : ValuesOfType(o[k])] : k \in VisibleVariants(s, o)}

IsStruct(s, m) ==
  /\ m = [fields |-> [i \in VisibleFields(s) |-> m.fields[i]],
          oneofs |-> [o \in DOMAIN s.oneofs |-> m.oneofs[o]]]
  /\ \A i \in VisibleFields(s) : m.fields[i] \in HeldBy(s.fields[i])
  /\ \A o \in DOMAIN s.oneofs : m.oneofs[o] \in HeldByOneOf(s, s.oneofs[o])

WireItem == [tag : [number : Nat, wire : {"varint", "fixed", "len"}], data : Seq(Value)]

\* An item with the tag of a field has data for it: a map's entry has a key
\* and a value, and only what is packed has more or less than one value.
IsReadable(s, item) ==
  /\ \A i \in VisibleFields(s) :
       LET f == s.fields[i]
       IN  Tag(s, f) = item.tag /\ ~Packed(s, f) => Len(item.data) = IF f.label = "Map" THEN 2 ELSE 1
  /\ \A o \in DOMAIN s.oneofs : \A k \in VisibleVariants(s, s.oneofs[o]) :
       Tag(s, s.oneofs[o][k]) = item.tag => Len(item.data) = 1

ASSUME FieldsAssumption ==
  /\ 0 \in Value /\ None \notin Value
  /\ \A e \in DOMAIN Variants : Variants[e] \in Seq(Value) /\ Variants[e] # <<>>
  /\ \A s \in Schemas :
       /\ DeclaredSchema(s)
       /\ \A m \in Structs(s) : IsStruct(s, m)
       /\ \A w \in Foreign(s) : w \in Seq(WireItem) /\ \A p \in DOMAIN w : IsReadable(s, w[p])

-----------------------------------------------------------------------------
(* write_message.                                                          *)

HasPresence(s, f) ==
  /\ GeneratedType(f) = "Singular"
  /\ s.syntax = "proto2" \/ f.type = "message" \/ IsOptional(f)

\* Mutant: what equals the default is not written, present or not.
WrittenUnlessDefault(s, f, x) == x # None /\ x # TypeDefault(f)
Written(s, f, x) ==
  CASE HasPresence(s, f) /\ IsOptional(f) -> x # None
    [] HasPresence(s, f) /\ ~IsOptional(f) -> TRUE
    [] OTHER -> x # FieldDefault(f)

Item(s, f, data) == [tag |-> Tag(s, f), data |-> data]

\* What one field of the struct becomes; a HashMap gives its entries in any
\* order.
WriteField(s, f, x) ==
  CASE GeneratedType(f) = "Singular" -> {IF Written(s, f, x) THEN << Item(s, f, <<x>>) >> ELSE <<>>}
    [] GeneratedType(f) = "ArrayLike" /\ Packed(s, f) ->
         {IF x = <<>> THEN <<>> ELSE << Item(s, f, x) >>}
    [] GeneratedType(f) = "ArrayLike" /\ ~Packed(s, f) -> {[k \in DOMAIN x |-> Item(s, f, <<x[k]>>)]}
    [] GeneratedType(f) = "Map" ->
         { [k \in DOMAIN keys |-> Item(s, f, <<keys[k], x[keys[k]]>>)] :
             keys \in Bijection(1..Cardinality(DOMAIN x), DOMAIN x) }

\* The variant that a oneof has, as [at, value].
WriteOneOf(s, o, x) ==
  IF x = None THEN <<>> ELSE << Item(s, o[x.at], <<x.value>>) >>

\* write_message goes through the fields and then the oneofs.
Slots(s) == Len(s.fields) + Len(s.oneofs)
WriteNth(s, k, m) ==
  IF k > Len(s.fields)
  THEN {WriteOneOf(s, s.oneofs[k - Len(s.fields)], m.oneofs[k - Len(s.fields)])}
  ELSE IF IsVisible(s, s.fields[k]) THEN WriteField(s, s.fields[k], m.fields[k]) ELSE {<<>>}

WriteSlot ==
  /\ slot < Slots(schema)
  /\ slot' = slot + 1
  /\ \E items \in WriteNth(schema, slot + 1, sent) : wire' = wire \o items
  /\ UNCHANGED <<schema, sent, pos, msg>>

-----------------------------------------------------------------------------
(* from_reader.                                                            *)

\* The generated From<i32> of an enum.
FromI32(enum, n) == IF n \in Range(Variants[enum]) THEN n ELSE Variants[enum][1]
ReadFn(f, x) == IF IsEnum(f) THEN FromI32(f.type, x) ELSE x

\* Mutant: as a packed field.
StoredReplacing(s, f, old, data) == [k \in DOMAIN data |-> ReadFn(f, data[k])]
StoredRepeated(s, f, old, data) ==
  LET read == [k \in DOMAIN data |-> ReadFn(f, data[k])]
  IN  IF Packed(s, f) THEN read ELSE old \o read

Stored(s, f, old, data) ==
  CASE GeneratedType(f) = "Singular" -> ReadFn(f, data[1])
    [] GeneratedType(f) = "ArrayLike" -> StoredRepeated(s, f, old, data)
    [] GeneratedType(f) = "Map" -> [k \in DOMAIN old \cup {data[1]} |-> IF k = data[1] THEN data[2] ELSE old[k]]

Reading == slot = Slots(schema) /\ pos < Len(wire)
Here == wire[pos + 1]

FieldsWith(tag) == {i \in VisibleFields(schema) : Tag(schema, schema.fields[i]) = tag}
VariantsWith(tag) ==
  {v \in UNION { {o} \X VisibleVariants(schema, schema.oneofs[o]) : o \in DOMAIN schema.oneofs } :
     Tag(schema, schema.oneofs[v[1]][v[2]]) = tag}

ReadItem(m) == Reading /\ pos' = pos + 1 /\ msg' = m /\ UNCHANGED <<schema, sent, slot, wire>>

ReadField == Reading /\ \E i \in FieldsWith(Here.tag) :
  ReadItem([msg EXCEPT !.fields[i] = Stored(schema, schema.fields[i], msg.fields[i], Here.data)])

ReadOneOf == Reading /\ \E v \in VariantsWith(Here.tag) :
  LET f == schema.oneofs[v[1]][v[2]]
  IN  ReadItem([msg EXCEPT !.oneofs[v[1]] = [at |-> v[2], value |-> ReadFn(f, Here.data[1])]])

\* Ok(t) => { r.read_unknown(bytes, t)?; }
ReadUnknown ==
  /\ Reading
  /\ FieldsWith(Here.tag) = {} /\ VariantsWith(Here.tag) = {}
  /\ ReadItem(msg)

Init ==
  /\ schema \in Schemas
  /\ pos = 0
  /\ msg = StructDefault(schema)
  /\ \/ sent \in Structs(schema) /\ slot = 0 /\ wire = <<>>
     \/ sent = None /\ slot = Slots(schema) /\ wire \in Foreign(schema)

Done == slot = Slots(schema) /\ pos = Len(wire)

\* TryInto<Vec<u8>> of an ...Owned message, which try_from has read from bytes
\* that somebody else wrote: it is written again, and read again by another.
TryInto ==
  /\ Done
  /\ sent = None
  /\ sent' = msg
  /\ slot' = 0
  /\ wire' = <<>>
  /\ pos' = 0
  /\ msg' = StructDefault(schema)
  /\ UNCHANGED schema

Next == WriteSlot \/ ReadField \/ ReadOneOf \/ ReadUnknown \/ TryInto

Spec == Init /\ [][Next]_vars

-----------------------------------------------------------------------------

\* A default that the writer knows and the struct's Default does not.
DefaultsDiffer(s, i) == FieldDefault(s.fields[i]) # StructDefault(s).fields[i]

(* The struct that is read is the one that was written, whatever it holds: *)
(* absent and default values are told apart where the struct can, values   *)
(* that are not written come back as the struct's defaults, and no order   *)
(* of a map's entries matters.  It also holds of a struct that was itself  *)
(* read from somebody else's bytes: to hand a message on does not change   *)
(* it.  Proto3 fields with a default are left to ExactSameMessage.         *)
RoundTrip ==
  Done /\ sent # None =>
    /\ msg.oneofs = sent.oneofs
    /\ \A i \in DOMAIN msg.fields :
         msg.fields[i] = sent.fields[i] \/ (schema.syntax = "proto3" /\ DefaultsDiffer(schema, i))

(* "Try to read it back and confirm that we still have the exact same      *)
(* message" (examples/pb_rs_example_v3.rs).                                *)
ExactSameMessage == Done /\ sent # None => msg = sent

\* Reference: of the first n items those that have one of these tags, by place.
Having(w, n, tags) == [p \in {q \in 1..n : w[q].tag \in tags} |-> w[p]]

\* Reference: that x is what should be kept of a field when these items of its
\* have arrived, and `absent` when none have.
Kept(s, f, items, absent, x) ==
  CASE f.label = "Map" ->
         /\ DOMAIN x = {items[p].data[1] : p \in DOMAIN items}
         /\ \A p \in DOMAIN items :
              (\A q \in DOMAIN items : q > p => items[q].data[1] # items[p].data[1])
                => x[items[p].data[1]] = items[p].data[2]
    [] f.label = "Repeated" /\ Packed(s, f) ->
         x = IF DOMAIN items = {} THEN <<>>
             ELSE LET chunk == items[Max(DOMAIN items)].data
                  IN  [k \in DOMAIN chunk |-> ReadFn(f, chunk[k])]
    [] f.label = "Repeated" /\ ~Packed(s, f) ->
         /\ Len(x) = Cardinality(DOMAIN items)
         /\ \A p \in DOMAIN items :
              x[Cardinality({q \in DOMAIN items : q <= p})] = ReadFn(f, items[p].data[1])
    [] OTHER ->
         x = IF DOMAIN items = {} THEN absent ELSE ReadFn(f, items[Max(DOMAIN items)].data[1])

KeptOneOf(s, o, items, x) ==
  IF DOMAIN items = {} THEN x = None
  ELSE LET item == items[Max(DOMAIN items)]
       IN  \E k \in VisibleVariants(s, o) :
             Tag(s, o[k]) = item.tag /\ x = [at |-> k, value |-> ReadFn(o[k], item.data[1])]

FieldTags(s, i) == {Tag(s, s.fields[i])}
OneOfTags(s, o) == {Tag(s, s.oneofs[o][k]) : k \in VisibleVariants(s, s.oneofs[o])}

(* Whoever wrote a message and in whatever order: at each moment, of a     *)
(* single field the last value counts, for which absence leaves the        *)
(* default that the schema declares where the struct or its getter can     *)
(* give it; of a packed field the last chunk, of a repeated one all values *)
(* in order, of a map the last value of each key, of a oneof the last of   *)
(* all its members.  Items with a wire type that is not the declared one,  *)
(* and fields that are not generated, leave no trace.                      *)
LastOccurrenceCounts ==
  /\ \A i \in DOMAIN schema.fields :
       LET f == schema.fields[i]
           x == msg.fields[i]
           declared == IF f.default # NoDefault /\ schema.syntax = "proto2" THEN f.default
                       ELSE IF IsOptional(f) THEN None ELSE TypeDefault(f)
       IN  IF f.deprecated /\ ~schema.add_deprecated_fields THEN i \notin DOMAIN msg.fields
           ELSE Kept(schema, f, Having(wire, pos, FieldTags(schema, i)), declared,
                     IF HasGetter(schema, f) THEN Getter(f, x) ELSE x)
  /\ \A o \in DOMAIN schema.oneofs :
       KeptOneOf(schema, schema.oneofs[o], Having(wire, pos, OneOfTags(schema, o)), msg.oneofs[o])
=============================================================================

---------------------------- MODULE MCSerializer ----------------------------
(***************************************************************************)
(* Messages of every shape of field, alone, side by side, and nested three *)
(* deep.  Base is 4, so that four bytes already need a prefix of two and   *)
(* the last row of the varint table is reached below 2^20.                 *)
(***************************************************************************)
EXTENDS Serializer

Plain(type, n) == [type |-> type, n |-> n]
Embed(m) == [type |-> "message", m |-> m]

(* Both sides of the first, the second and the last row of the table. *)
Varints == { Plain("varint", v) : v \in {0, 3, 4, 15, 16, 4^9 - 1, 4^9} }
Fixed == { Plain("fixed", w) : w \in {4, 8} }
Bytes == { Plain("bytes", n) : n \in {0, 3, 4} }
Scalars == Varints \cup Fixed \cup Bytes \cup {Plain("bool", 1)}
SomeScalars == { Plain("varint", 4), Plain("fixed", 4), Plain("bytes", 3) }

(* A tag of one byte and one of two. *)
Tags == {1, 4}

Singular(data) ==
  [shape : {"singular"}, kind : {"implicit", "optional", "required"},
   set : BOOLEAN, tag : Tags, datum : data]
OneOf(data) == [shape : {"oneof"}, set : BOOLEAN, tag : Tags, datum : data]
Repeated(data) ==
  [shape : {"repeated"}, tag : Tags,
   data : { <<>> } \cup { <<d>> : d \in data } \cup { <<d, d>> : d \in data }]
Packed == [shape : {"packed"}, tag : {1},
           data : { <<>> } \cup { <<d, e>> : d, e \in Varints }]
PackedFixed(bytes) ==
  [shape : {"packed_fixed"}, tag : {1}, width : {4}, bytes : bytes]
Map(keys, values) ==
  [shape : {"map"}, tag : {1},
   entries : { <<>> } \cup { << [key |-> k, value |-> v] >> : k \in keys, v \in values }
             \cup { << [key |-> k, value |-> v], [key |-> k, value |-> v] >> :
                      k \in keys, v \in values }]

Flat(scalars) == Singular(scalars) \cup OneOf(scalars) \cup Repeated(scalars)
                 \cup Map(SomeScalars, scalars) \cup PackedFixed({0, 4, 8})
Alone(fields) == { <<f>> : f \in fields }
Pairs(fields) == { <<f, g>> : f, g \in fields }

(* One field; two fields; then one field that holds such a message. *)
Level0 == {<<>>} \cup Alone(Flat(Scalars) \cup Packed)
Chosen0 ==
  {<<>>} \cup Alone(Singular({Plain("bytes", 3)}))
         \cup Pairs(Map({Plain("varint", 4)}, {Plain("bytes", 4)}) \cup PackedFixed({8}))
Holding(messages) ==
  LET held == { Embed(m) : m \in messages }
  IN  Singular(held) \cup OneOf(held) \cup Repeated(held) \cup Map({Plain("varint", 4)}, held)
Level1 == Alone(Holding(Chosen0))
Chosen1 == Alone({ f \in Holding(Chosen0) : f.tag = 1 /\ f.shape = "map" })
Level2 == Alone(Holding(Chosen1))

MCRoots == Level0 \cup Chosen0 \cup Level1 \cup Level2
MCMessages == MCRoots

MCDepth(m) ==
  IF m \in Level0 \cup Chosen0 THEN 0 ELSE IF m \in Level1 THEN 1 ELSE 2

(* The slices around the sizes with and without the length prefix, and one  *)
(* that ends in the middle of the message.                                 *)
MCCaps(m) ==
  LET size == GetSize[m]
  IN  {size \div 2, size, SizeofLen(size) - 1, SizeofLen(size), SizeofLen(size) + 1}
=============================================================================

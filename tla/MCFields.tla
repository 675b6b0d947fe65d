------------------------------ MODULE MCFields ------------------------------
(***************************************************************************)
(* The examples' message types, and every type of at most two fields that  *)
(* the examples do not have: defaults of required fields, enums with them, *)
(* packing switched off, deprecated fields, and oneofs of one syntax and   *)
(* the other.                                                              *)
(***************************************************************************)
EXTENDS DataTypes, SequencesExt

MCVariants == [FooEnum |-> FooEnum, NestedEnum |-> NestedEnum, MyEnum |-> MyEnum]

With(f, default) == [f EXCEPT !.default = default]
Unpacked(f) == [f EXCEPT !.packed = "false"]
Deprecated(f) == [f EXCEPT !.deprecated = TRUE]

Kinds2(n) ==
  { F(n, "FooEnum", "Required"), With(F(n, "FooEnum", "Required"), 2),
    With(F(n, "FooEnum", "Optional"), 2), With(F(n, "string", "Required"), 4),
    Deprecated(With(F(n, "int", "Required"), 4)), With(F(n, "int", "Optional"), 4),
    F(n, "FooEnum", "Repeated"), F(n, "string", "Repeated"), F(n, "message", "Required") }
Kinds3(n) ==
  { F(n, "FooEnum", "Default"), Unpacked(F(n, "int", "Repeated")), F(n, "FooEnum", "Repeated"),
    F(n, "int", "Optional"), F(n, "FooEnum", "Optional"), F(n, "map", "Map"),
    Deprecated(F(n, "int", "Repeated")) }
Oneof(label) == << F(3, "FooEnum", label), F(4, "message", label), Deprecated(F(5, "int", label)) >>

Small ==
  { Schema("proto2", <<f, g>>, <<>>) : f \in Kinds2(1), g \in Kinds2(2) }
  \cup { Schema("proto3", <<f, g>>, <<>>) : f \in Kinds3(1), g \in Kinds3(2) }
  \cup { Schema("proto2", <<f>>, <<Oneof("Required")>>) : f \in Kinds2(1) }
  \cup { Schema("proto3", <<f>>, <<Oneof("Optional")>>) : f \in Kinds3(1) }
MCSchemas == DataTypes2 \cup DataTypes3 \cup Small
                \cup { [s EXCEPT !.add_deprecated_fields = TRUE] : s \in Small }

MCExample == {FooMessage3}

ValuesOf(f) ==
  CASE IsEnum(f) -> Range(Variants[f.type])
    [] f.type = "bool" -> {0, 1}
    [] OTHER -> {0, 4}
Keys == {0, 1}

\* What a field of the struct may hold.
Held(f) ==
  CASE f.label = "Map" -> {<<>>} \cup {k :> v : k \in Keys, v \in {0, 4}} \cup [Keys -> {0, 4}]
    [] f.label = "Repeated" -> BoundedSeq(ValuesOf(f), 2)
    [] OTHER -> ValuesOf(f) \cup (IF IsOptional(f) THEN {None} ELSE {})
HeldOneOf(s, o) ==
  {None} \cup UNION { {[at |-> k, value |-> v] : v \in ValuesOf(o[k])} :
                        k \in {j \in DOMAIN o : IsVisible(s, o[j])} }

(* Every struct that differs from the default in at most two places.       *)
OneOff(s, m) ==
  UNION { {[m EXCEPT !.fields[i] = x] : x \in Held(s.fields[i])} : i \in DOMAIN m.fields }
  \cup UNION { {[m EXCEPT !.oneofs[i] = x] : x \in HeldOneOf(s, s.oneofs[i])} : i \in DOMAIN m.oneofs }
MCStructs(s) == UNION { OneOff(s, m) : m \in OneOff(s, StructDefault(s)) }

(* Items with the tag of a field, with what may follow it; and items that  *)
(* nobody declared, among them known fields with another wire type.        *)
AllFields(s) == s.fields \o FlattenSeq(s.oneofs)
RawValues(f) == IF IsEnum(f) THEN {2, 3} ELSE {0, 4}
ItemsOf(s, f) ==
  { [tag |-> Tag(s, f), data |-> d] :
      d \in CASE f.type = "map" -> {<<k, v>> : k \in Keys, v \in {0, 4}}
             [] Packed(s, f) -> {<<>>} \cup {<<x, y>> : x \in RawValues(f), y \in RawValues(f)}
             [] OTHER -> {<<x>> : x \in RawValues(f)} }
Strangers(s, f) ==
  { [tag |-> [number |-> f.number, wire |-> w], data |-> <<4>>] :
      w \in {"varint", "fixed", "len"} \ {Tag(s, f).wire} }
Items(s) ==
  UNION { ItemsOf(s, AllFields(s)[i]) \cup Strangers(s, AllFields(s)[i]) : i \in DOMAIN AllFields(s) }
MCForeign(s) == BoundedSeq(Items(s), IF Len(s.fields) > 3 THEN 2 ELSE 3)
=============================================================================

----------------------------- MODULE DataTypes -----------------------------
(***************************************************************************)
(* The message types of the repository's examples, in both syntaxes:       *)
(* pb_rs/data_types.rs and pb_rs_v3/data_types.rs, as pb-rs generates them *)
(* from data_types.proto, with the messages they import, and those of      *)
(* pb_rs_nostd.  The code of each is Fields with its schema.               *)
(***************************************************************************)
EXTENDS Fields

F(number, type, label) ==
  [number |-> number, type |-> type, label |-> label,
   default |-> NoDefault, packed |-> "none", deprecated |-> FALSE]
Schema(syntax, fields, oneofs) ==
  [syntax |-> syntax, add_deprecated_fields |-> FALSE, fields |-> fields, oneofs |-> oneofs]

Optional(number, type) == F(number, type, "Optional")
Implicit(number, type) == F(number, type, "Default")

FooEnum == <<1, 2>>
NestedEnum == <<0, 1, 2>>
MyEnum == <<0, 1>>

\* f1: int32, f2: bool, f3: string
TestOneof(label) == << F(27, "int", label), F(28, "bool", label), F(29, "string", label) >>

\* f_repeated_int32, f_repeated_packed_int32, f_repeated_packed_float
Repeated ==
  << F(19, "int", "Repeated"),
     [F(20, "int", "Repeated") EXCEPT !.packed = "true"],
     [F(21, "fixed", "Repeated") EXCEPT !.packed = "true"] >>

\* f_int32 .. f_string
Scalars(label) ==
  << F(1, "int", label), F(2, "int", label), F(3, "int", label), F(4, "int", label), F(5, "int", label),
     [F(6, "int", label) EXCEPT !.default = 4],
     [F(7, "bool", label) EXCEPT !.default = 1],
     F(8, "FooEnum", label),
     F(9, "fixed", label), F(10, "fixed", label),
     [F(11, "fixed", label) EXCEPT !.default = 0],
     F(12, "fixed", label), F(13, "fixed", label), F(14, "fixed", label),
     F(15, "string", label), F(16, "string", label) >>

\* f_imported, f_baz, f_nested, f_nested_enum
Embedded(label) ==
  << F(22, "message", label), F(23, "message", label), F(24, "message", label),
     F(25, "NestedEnum", label) >>

FooFields2 ==
  Scalars("Optional")
  \o << Optional(17, "message"), Optional(18, "message") >>
  \o Repeated \o Embedded("Optional") \o << F(26, "map", "Map") >>
FooMessage2 == Schema("proto2", FooFields2, << TestOneof("Required") >>)
BarMessage2 == Schema("proto2", << F(1, "int", "Required") >>, <<>>)
BazMessage2 == Schema("proto2", << Optional(1, "message") >>, <<>>)
Nested2 == Schema("proto2", << F(1, "message", "Required") >>, <<>>)
NestedMessage2 == Schema("proto2", << F(1, "int", "Required") >>, <<>>)

\* f_self_message is boxed, and optional therefore.
FooFields3 ==
  Scalars("Default")
  \o << Optional(17, "message"), Implicit(18, "message") >>
  \o Repeated \o Embedded("Default") \o << F(26, "map", "Map") >>
  \o << F(30, "string", "Repeated"), F(31, "message", "Repeated") >>
FooMessage3 == Schema("proto3", FooFields3, << TestOneof("Optional") >>)
BarMessage3 == Schema("proto3", << Implicit(1, "int") >>, <<>>)
BazMessage3 ==
  Schema("proto3", << Implicit(1, "message"), Implicit(2, "int"), Implicit(3, "string") >>, <<>>)
Nested3 == Schema("proto3", << Implicit(1, "message") >>, <<>>)
NestedMessage3 == Schema("proto3", << Implicit(1, "int") >>, <<>>)
RepeatedMessage3 == Schema("proto3", << F(1, "message", "Repeated") >>, <<>>)

ImportedMessage2 == Schema("proto2", << Optional(1, "bool") >>, <<>>)
ImportedMessage3 == Schema("proto3", << Implicit(1, "bool") >>, <<>>)

EmbeddedMessage == Schema("proto3", << Implicit(1, "int"), Implicit(2, "MyEnum") >>, <<>>)
NoStdMessage ==
  Schema("proto3", << Implicit(1, "fixed"), F(2, "fixed", "Repeated"),
                      Implicit(3, "message"), F(4, "message", "Repeated") >>, <<>>)

DataTypes2 ==
  {FooMessage2, BarMessage2, BazMessage2, Nested2, NestedMessage2, ImportedMessage2}
DataTypes3 ==
  {FooMessage3, BarMessage3, BazMessage3, Nested3, NestedMessage3, RepeatedMessage3,
   ImportedMessage3, EmbeddedMessage, NoStdMessage}
=============================================================================

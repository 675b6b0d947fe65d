------------------------------ MODULE MCParser ------------------------------
(***************************************************************************)
(* Files with a message whose body has up to three statements, out of all  *)
(* those that parser.rs tells apart; files of up to three other statements *)
(* at the top; each with what may stand before and after it.               *)
(***************************************************************************)
EXTENDS Parser

Is(k) == [k |-> k]
Opt(key, value) == [key |-> key, value |-> value]
Fld(label, type, name, number, options) ==
  [k |-> "field", label |-> label, type |-> type, name |-> name, number |-> number,
   options |-> options]
Plain(k, name) == [k |-> k, name |-> name, plain |-> TRUE]
Fancy(k, name) == [k |-> k, name |-> name, plain |-> FALSE]
Option(name, number, plain) ==
  [k |-> "option", name |-> name, number |-> number, plain |-> plain]
Block(k, name, body) == [k |-> k, name |-> name, body |-> body]

f1 == Fld("optional", "scalar", "a", 1, <<>>)
f2 == Fld("none", "named", "b", 2, << Opt("deprecated", "true") >>)
f3 == Fld("repeated", "scalar", "c", 3, << Opt("packed", "false") >>)
packedDeprecated == Fld("repeated", "scalar", "d", 4, << Opt("packed", "true"), Opt("deprecated", "true") >>)
jsonPacked == Fld("repeated", "scalar", "d", 4, << Opt("json_name", "x"), Opt("packed", "true") >>)
stringList == Fld("none", "like_scalar", "s", 5, <<>>)
unquoted == Fld("required", "scalar", "u", 6, << Opt("default", "unquoted") >>)
mapField == Fld("none", "map", "m", 1, <<>>)

Reserved(form, nums, names) == [k |-> "reserved", form |-> form, nums |-> nums, names |-> names]
Extension(form) == [k |-> "extensions", form |-> form, range |-> <<100, 200>>]

Enum(body) == Block("enum", "E", body)

Members ==
  { f1, f2, packedDeprecated, jsonPacked, stringList, unquoted, mapField,
    Reserved("nums", {1, 5}, {}), Reserved("nums", {2}, {}), Reserved("names", {}, {"b", "f"}),
    Reserved("to_max", {9}, {}),
    Extension("range"), Extension("several"), Extension("single"),
    Option("o", 0, TRUE), Option("o", 0, FALSE), Option("n", 5, TRUE),
    Is("br"), Is("semicolon"),
    Enum(<< Plain("value", "v"), Is("br") >>), Enum(<< Reserved("nums", {1}, {}) >>),
    Block("oneof", "O", << Fld("none", "scalar", "f", 5, <<>>) >>),
    Block("oneof", "O", << Is("br") >>),
    Block("message", "N", << f3, Reserved("nums", {3}, {}) >>),
    Block("message", "N", << Block("message", "NN", << f2 >>) >>),
    Block("message", "N", << Block("message", "NN", << f2, stringList >>) >>) }

Bodies(n) == UNION { [1 .. i -> Members] : i \in 0 .. n }

Syntax(v) == [k |-> "syntax", says |-> v]
Package(p) == [k |-> "package", says |-> p]

Heads == { <<>>, << Syntax("proto3") >>, << Is("br"), Syntax("proto3") >> }

Others ==
  { Syntax("proto2"), Syntax("proto3"), Is("br"), Is("semicolon"),
    Package("p"), Package("q"), Plain("import", "i"), Fancy("import", "i"),
    Option("o", 7, TRUE), Option("o", 0, FALSE),
    Block("message", "M", << f1 >>), Enum(<< Fancy("value", "v") >>), Enum(<<>>),
    Block("service", "S", << Plain("rpc", "r"), Is("br") >>),
    Block("service", "S", << Fancy("rpc", "r") >>),
    Block("service", "S", <<>>), Block("service", "S", << Is("br") >>),
    Block("extend", "X", << f2, mapField >>), Block("extend", "X", <<>>) }

MCFiles ==
  { h \o << Block("message", "M", b) >> : h \in Heads, b \in Bodies(2) }
    \cup { << Block("message", "M", b) >> : b \in [1 .. 3 -> Members] }
    \cup UNION { [1 .. n -> Others] : n \in 0 .. 3 }

Innermost ==
  { f3, Plain("value", "v"), Fancy("value", "v"), Fld("none", "scalar", "f", 5, <<>>),
    Reserved("nums", {1}, {}), Reserved("nums", {3}, {}),
    Block("message", "NN", << f2 >>), Block("message", "NN", << f2, stringList >>),
    Plain("rpc", "r"), Fancy("rpc", "r") }

MCStatements ==
  Innermost \cup Members \cup Others
    \cup [k : {"message"}, name : {"M"}, body : Bodies(3)]
=============================================================================

---------------------------- MODULE MCLifetimes ----------------------------
(***************************************************************************)
(* Two messages in a file p, one of them nested, and one in the file q that *)
(* p imports; up to two fields in the first and one in the others.         *)
(***************************************************************************)
EXTENDS Lifetimes

MCFiles == {"p", "q"}
MCSees == [f \in MCFiles |-> IF f = "p" THEN {"p", "q"} ELSE {"q"}]
MCMessages == {"A", "B", "C"}
MCFileOf == [m \in MCMessages |-> IF m = "C" THEN "q" ELSE "p"]
MCNested == {"B"}

Fld(type, of, repeated, packed) ==
  [type |-> type, of |-> of, repeated |-> repeated, packed |-> packed,
   oneof |-> FALSE, deprecated |-> FALSE]
Message(m) == Fld("message", m, FALSE, "unset")

Scalars ==
  { Fld("cow", "none", r, "unset") : r \in BOOLEAN }
  \cup { Fld("fixed", "none", TRUE, p) : p \in {"unset", "yes", "no"} }
  \cup { Fld("varint", "none", TRUE, "unset") }
Deprecated == { [Fld("cow", "none", FALSE, "unset") EXCEPT !.deprecated = TRUE],
                [Message("C") EXCEPT !.deprecated = TRUE] }
InOneOf(fields) == { [f EXCEPT !.oneof = TRUE] : f \in fields }

FieldsA ==
  LET some == Scalars \cup Deprecated \cup { Message(m) : m \in MCMessages }
      variants == InOneOf({ f \in some : ~f.repeated })
  IN  { {f, g} : f \in some, g \in variants \cup { Message(m) : m \in MCMessages } } \cup { {} }
FieldsB == { {} } \cup { {f} : f \in Scalars \cup Deprecated \cup { Message(m) : m \in MCMessages } }
FieldsC == { {} } \cup { {f} : f \in Scalars \cup { Message("C") } }

MCProtos ==
  { [syntax |-> s, dont_use_cow |-> c,
     fields |-> [m \in MCMessages |-> IF m = "A" THEN a ELSE IF m = "B" THEN b ELSE d]] :
      s \in [MCFiles -> {"proto2", "proto3"}], c \in BOOLEAN,
      a \in FieldsA, b \in FieldsB, d \in FieldsC }
=============================================================================

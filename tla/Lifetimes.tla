----------------------------- MODULE Lifetimes -----------------------------
(***************************************************************************)
(* Which generated types borrow from the buffer they are read from, and    *)
(* carry the lifetime 'a for it (types.rs).                                *)
(*                                                                         *)
(* has_lifetime is a search of the messages that a field leads to.  It is  *)
(* asked anew wherever a type is declared and wherever one is used, in     *)
(* the run of pb-rs on the file of the type and in those on files that     *)
(* import it, and rustc accepts the result only if the answers agree.      *)
(* Packed fixed fields are borrowed as well, so that the answers depend on *)
(* the defaults that set_defaults gives to `packed` before.                *)
(*                                                                         *)
(* A message has a set of fields.  Types are told apart as has_lifetime    *)
(* does: "cow" for a string or bytes, "owned" for one that is not a Cow,   *)
(* "fixed", "varint", and "message"; a map is a field that is not repeated *)
(* with the type of its value.  The oneof fields of a message are those of *)
(* its one oneof.                                                          *)
(***************************************************************************)
EXTENDS Naturals, FiniteSets

CONSTANTS
  Files,
  Sees,      \* of each file: itself and all files it imports
  Messages,
  FileOf,    \* of each message
  Nested,    \* the messages declared inside another one
  Protos    \* the schemas to try: syntax of each file, fields, and the option dont_use_cow

Field ==
  [type : {"cow", "fixed", "varint", "message"}, of : Messages \cup {"none"}, repeated : BOOLEAN,
   packed : {"unset", "yes", "no"}, oneof : BOOLEAN, deprecated : BOOLEAN]

\* What protoc demands of the files: every type is found in a file that is
\* imported, and only repeated fields of primitive types are said to be packed.
WellFormed(m, field) ==
  /\ field.type = "message" => field.of \in Messages /\ FileOf[field.of] \in Sees[FileOf[m]]
  /\ field.packed # "unset" => field.repeated /\ field.type \in {"fixed", "varint"}

ASSUME LifetimesAssumption ==
  /\ IsFiniteSet(Messages)
  /\ FileOf \in [Messages -> Files]
  /\ Sees \in [Files -> SUBSET Files]
  /\ \A f \in Files : f \in Sees[f] /\ \A g \in Sees[f] : Sees[g] \subseteq Sees[f]
  /\ Protos \subseteq [syntax : [Files -> {"proto2", "proto3"}], dont_use_cow : BOOLEAN,
                        fields : [Messages -> SUBSET Field]]
  /\ \A s \in Protos : \A m \in Messages : \A f \in s.fields[m] : WellFormed(m, f)

VARIABLES
  protos,
  run,       \* the file that pb-rs runs on, or NoRun
  ran,       \* the files it ran on before
  step,      \* where write_proto is
  desc,      \* the fields of the messages that the run sees
  written    \* the definitions in the generated files

typesVars == <<protos, run, ran, step, desc, written>>

NoRun == "none"

----------------------------------------------------------------------------
(* Operators of the generator, on the state of a run. *)

Sighted(f) == { m \in Messages : FileOf[m] \in Sees[f] }
Own(f) == { m \in Messages : FileOf[m] = f }

\* add_deprecated_fields is off: a deprecated field is not generated.
Visible(field) == ~field.deprecated

\* FieldType::has_lifetime, but for messages.
Lends(field) ==
  \/ field.type = "cow"
  \/ field.type \in {"fixed", "owned"} /\ field.packed = "yes"

\* Mutant: deprecated fields count, as they did (Changelog.md:16).
HasLifetimeDeprecated(m, ignore) ==
  LET has[at \in (DOMAIN desc) \X (SUBSET DOMAIN desc)] ==
        /\ at[1] \notin at[2]
        /\ \E f \in desc[at[1]] :
             Lends(f) \/ (f.type = "message" /\ has[<<f.of, at[2] \cup {at[1]}>>])
  IN  has[<<m, ignore>>]
\* Message::has_lifetime; `ignore` holds the messages on the way.  The function
\* is applied to both, <<self, ignore>>.
HasLifetime(m, ignore) ==
  LET has[at \in (DOMAIN desc) \X (SUBSET DOMAIN desc)] ==
        /\ at[1] \notin at[2]
        /\ \E f \in desc[at[1]] :
             /\ Visible(f)
             /\ Lends(f) \/ (f.type = "message" /\ has[<<f.of, at[2] \cup {at[1]}>>])
  IN  has[<<m, ignore>>]

Plain(m) == { f \in desc[m] : ~f.oneof }
OneOfFields(m) == { f \in desc[m] : f.oneof }

OneOfHasLifetime(m) ==
  \E f \in OneOfFields(m) :
    Visible(f) /\ (Lends(f) \/ (f.type = "message" /\ HasLifetime(f.of, {})))

\* Field::get_type.
Borrowed(field) ==
  \/ field.type = "cow"
  \/ field.type = "fixed" /\ field.packed = "yes" /\ ~protos.dont_use_cow

\* Mutant: the search is started with the message that uses the type.
UsesFrom(m, fields) ==
  { [type |-> <<f.of, "struct">>, lifetime |-> HasLifetime(f.of, {m})] :
      f \in { g \in fields : Visible(g) /\ g.type = "message" } }
\* FieldType::rust_type, of the messages that a definition names.
Uses(m, fields) ==
  { [type |-> <<f.of, "struct">>, lifetime |-> HasLifetime(f.of, {})] :
      f \in { g \in fields : Visible(g) /\ g.type = "message" } }

Definition(declares, m, fields, oneof) ==
  [declares |-> declares,
   borrows |-> \E f \in fields : Visible(f) /\ Borrowed(f),
   uses |-> Uses(m, fields) \cup oneof]

\* The struct and its impl blocks, whose headers are decided in the same way.
\* With dont_use_cow the search starts with the message itself to be ignored,
\* and finds nothing.
StructOf(m) ==
  Definition(HasLifetime(m, IF protos.dont_use_cow THEN {m} ELSE {}), m, Plain(m),
             IF OneOfFields(m) = {} THEN {}
             ELSE { [type |-> <<m, "oneof">>, lifetime |-> OneOfHasLifetime(m)] })
OneOfOf(m) == Definition(OneOfHasLifetime(m), m, OneOfFields(m), {})

----------------------------------------------------------------------------
(* write_proto. *)

Read(f) ==
  /\ run = NoRun /\ f \notin ran
  /\ run' = f /\ step' = "convert"
  /\ desc' = [m \in Sighted(f) |-> protos.fields[m]]
  /\ UNCHANGED <<protos, ran, written>>

ConvertFieldTypes ==
  /\ step = "convert"
  /\ step' = "defaults"
  /\ desc' = IF ~protos.dont_use_cow THEN desc
             ELSE [m \in DOMAIN desc |->
                     { [f EXCEPT !.type = IF @ = "cow" THEN "owned" ELSE @] : f \in desc[m] }]
  /\ UNCHANGED <<protos, run, ran, written>>

\* Mutant: proto3 changes nothing.
AsPackedNever(field) == field
\* set_repeated_as_packed, by the syntax of the file that pb-rs runs on.
AsPacked(field) ==
  IF protos.syntax[run] = "proto3" /\ field.repeated /\ field.packed = "unset"
  THEN [field EXCEPT !.packed = "yes"] ELSE field
Primitive(field) == field.type \in {"fixed", "varint"}
\* unset_packed_non_primitives
Unpacked(field) == IF Primitive(field) THEN field ELSE [field EXCEPT !.packed = "unset"]

\* Only the messages at the top of a file are visited.
SetDefaults ==
  /\ step = "defaults"
  /\ step' = "write"
  /\ desc' = [m \in DOMAIN desc |->
                IF m \in Nested THEN desc[m] ELSE { Unpacked(AsPacked(f)) : f \in desc[m] }]
  /\ UNCHANGED <<protos, run, ran, written>>

\* The definitions of a message and of its oneof, and their impl blocks.
Write(m) ==
  /\ step = "write" /\ m \in Own(run) /\ <<m, "struct">> \notin DOMAIN written
  /\ LET keys == { <<m, "struct">> }
                 \cup (IF OneOfFields(m) = {} THEN {} ELSE { <<m, "oneof">> })
     IN  written' = [k \in DOMAIN written \cup keys |->
                       IF k \in DOMAIN written THEN written[k]
                       ELSE IF k[2] = "struct" THEN StructOf(m) ELSE OneOfOf(m)]
  /\ UNCHANGED <<protos, run, ran, step, desc>>

Finish ==
  /\ step = "write" /\ \A m \in Own(run) : <<m, "struct">> \in DOMAIN written
  /\ run' = NoRun /\ step' = "idle" /\ ran' = ran \cup {run}
  /\ desc' = [m \in {} |-> {}]
  /\ UNCHANGED <<protos, written>>

TypesInit ==
  /\ protos \in Protos
  /\ run = NoRun /\ step = "idle" /\ ran = {}
  /\ desc = [m \in {} |-> {}]
  /\ written = [k \in {} |-> {}]

TypesNext ==
  \/ \E f \in Files : Read(f)
  \/ ConvertFieldTypes
  \/ SetDefaults
  \/ \E m \in Messages : Write(m)
  \/ Finish

TypesSpec == TypesInit /\ [][TypesNext]_typesVars

----------------------------------------------------------------------------
(* Properties. *)

Mentions(d) == d.borrows \/ \E u \in d.uses : u.lifetime

\* With dont_use_cow a message with such a field is an exception, see below.
Packs == \E m \in Messages : \E f \in protos.fields[m] : f.type = "fixed" /\ f.repeated
Regular == ~protos.dont_use_cow \/ ~Packs

\* A definition declares 'a exactly when its text mentions it: rustc refuses an
\* undeclared lifetime and an unused one.  With dont_use_cow, where no struct
\* declares it, strings and bytes have lost it in every place.
DeclaredAsMentioned ==
  Regular =>
    \A k \in DOMAIN written : written[k].declares = Mentions(written[k])

OneSyntax == \A f, g \in Files : protos.syntax[f] = protos.syntax[g]

\* A type is used as it is declared, in its own file and in those that import
\* it, whichever is generated first, if the files are of one syntax: a proto3
\* file that imports a proto2 file packs what is not packed in the other's run.
UsedAsDeclared ==
  Regular /\ OneSyntax =>
    \A k \in DOMAIN written : \A u \in written[k].uses :
      u.type \in DOMAIN written => u.lifetime = written[u.type].declares

\* What a message borrows by its .proto file alone: strings, bytes, and fixed
\* fields that are packed.  By default proto3 packs them; that nested messages
\* are left out (set_defaults visits those at the top) is taken from the code.
BorrowedInSchema(m) ==
  \E f \in protos.fields[m] :
    /\ ~f.deprecated
    /\ \/ f.type = "cow"
       \/ /\ f.type = "fixed" /\ f.repeated
          /\ \/ f.packed = "yes"
             \/ f.packed = "unset" /\ protos.syntax[FileOf[m]] = "proto3" /\ m \notin Nested
LeadsTo(m) == { f.of : f \in { g \in protos.fields[m] : g.type = "message" /\ ~g.deprecated } }
Reaches(m, n) ==
  \A S \in SUBSET Messages : m \in S /\ (\A x \in S : LeadsTo(x) \subseteq S) => n \in S

\* README: "all fields are owned: no lifetime parameter", "has borrowed fields:
\* lifetime parameter", where a field may lead to others, also back to the
\* message itself.  This is so without dont_use_cow and for files of one syntax.
LifetimeMeansBorrowed ==
  ~protos.dont_use_cow /\ OneSyntax =>
    \A m \in Messages : <<m, "struct">> \in DOMAIN written =>
      (written[<<m, "struct">>].declares <=> \E n \in Messages : Reaches(m, n) /\ BorrowedInSchema(n))
=============================================================================

------------------------------- MODULE Parser -------------------------------
(***************************************************************************)
(* The parser of pb-rs (parser.rs), called by `read_proto` (types.rs), and *)
(* the sanity checks on what it returns.                                   *)
(*                                                                         *)
(* parser.rs is recursive descent over the text of a proto file, built     *)
(* from nom's combinators.  A list of statements is `many0(alt(...))`: it  *)
(* ends, without an error, at the first statement that no alternative      *)
(* takes.  In a block the closing brace is then missing and the block      *)
(* fails as a whole; at the top what is left of the file is refused by     *)
(* read_proto.  Events are collected on the way and folded into a Message, *)
(* an Enumerator or the FileDescriptor when their block ends.              *)
(*                                                                         *)
(* The text of a statement is abstracted to what decides which alternative *)
(* takes it.  A file is a sequence of statements, and a block has another  *)
(* one for its body; the descent is a stack of open blocks.  What is kept  *)
(* of a block is a set where the code has a Vec: nothing depends on the    *)
(* order but the last of the reserved and extensions, which LastOf takes.  *)
(***************************************************************************)
EXTENDS Integers, Sequences, SequencesExt, FiniteSetsExt

CONSTANTS
  Statements,   \* what files and blocks consist of
  Files,        \* the files to parse
  Depth         \* how deep the properties look into nested blocks

VARIABLES
  file,        \* the statements of the file
  got_syntax,  \* what scan_syntax found, "none" before it has run
  frames,      \* the open blocks, the file at the bottom
  desc,        \* the FileDescriptor, or NoDesc
  result       \* "none", "ok", an error or "panic"

parserVars == <<file, got_syntax, frames, desc, result>>

NoDesc == [messages |-> {}]

----------------------------------------------------------------------------
(* Statements.  `k` says what a statement is; the rest of the record is    *)
(* what parser.rs looks at.                                                *)

Blocks == {"message", "enum", "oneof", "extend", "service"}
IsBlock(s) == s.k \in Blocks

\* What stands in the brackets of a field.
Options == [key : STRING, value : STRING]

ASSUME ParserAssumption ==
  /\ Files \subseteq Seq(Statements)
  /\ \A s \in Statements :
       /\ IsBlock(s) => s.body \in Seq(Statements)
       /\ s.k = "field" => s.options \in Seq(Options)
       /\ s.k = "syntax" => s.says \in {"proto2", "proto3"}
  /\ Depth \in Nat

\* key_val takes one key and, as its value, all there is up to the bracket:
\* of [packed=true, deprecated=true] the key is `packed` and the value is
\* `true, deprecated=true`.
KeyVal(f) ==
  IF f.options = <<>> THEN [key |-> "none", value |-> "none"]
  ELSE [key |-> Head(f.options).key,
        value |-> IF Len(f.options) = 1 THEN Head(f.options).value ELSE "several"]

\* Mutant: the value of an option is looked for under any key.
ValueOfAny(f, key) == KeyVal(f).value
ValueOf(f, key) == IF KeyVal(f).key = key THEN KeyVal(f).value ELSE "none"

\* field_type tries `bool`, `string`, ... as prefixes and stays with the first
\* that matches: a type called `stringList` is taken for `string`, and `List`
\* is not the white space that has to follow.
FieldTypes == {"scalar", "map", "named"}

\* default_check: in proto2 the default of a string is in inverted commas.
DefaultCheck(syntax, f) ==
  ~ (syntax = "proto2" /\ ValueOf(f, "default") = "unquoted")

\* `option n = 5;` reads like a field n of a type called `option`.
LooksLikeField(s) == s.k = "option" /\ s.number # 0
AsField(s) ==
  IF s.k = "field" THEN s
  ELSE [label |-> "none", type |-> "named", name |-> s.name, number |-> s.number,
        options |-> <<>>]

IsField(syntax, s) ==
  \/ LooksLikeField(s)
  \/ s.k = "field" /\ s.type \in FieldTypes /\ DefaultCheck(syntax, s)

\* reserved_nums and reserved_names: numbers and ranges, or names; `to max`
\* is not among them.
IsReserved(s) == s.k = "reserved" /\ s.form \in {"nums", "names"}

\* extensions: one range; what stands between `to` and the semicolon is the
\* upper limit.
IsExtensions(s) == s.k = "extensions" /\ s.form \in {"range", "several"}

\* The forms that are known of an option (no semicolon in its value), an import
\* (not `public`), an rpc (unqualified types, no `stream`) and a value of an enum
\* (no option but `deprecated`).
IsOption(s) == s.k = "option" /\ s.plain
IsImport(s) == s.k = "import" /\ s.plain
IsRpc(s) == s.k = "rpc" /\ s.plain
IsEnumField(s) == s.k = "value" /\ s.plain

\* White space and comments.
IsBr(s) == s.k = "br"

\* message_event, enum_event, rpc_service, the list of file_descriptor and that
\* of one_of and extend: what each takes.  In a message a field is tried before
\* an option.
MessageEvent(syntax, s) ==
  \/ IsReserved(s)
  \/ IsField(syntax, s)
  \/ s.k \in {"message", "enum", "oneof"}
  \/ IsExtensions(s)
  \/ IsOption(s)
  \/ IsBr(s)
EnumEvent(s) == IsEnumField(s) \/ IsOption(s) \/ IsBr(s)
RpcEvent(s) == IsRpc(s) \/ IsBr(s)
FieldEvent(syntax, s) == IsField(syntax, s) \/ IsBr(s)
FileEvent(s) ==
  \/ s.k \in {"syntax", "package", "message", "enum", "service", "extend"}
  \/ IsImport(s)
  \/ IsOption(s)
  \/ IsBr(s)

Accepts(kind, syntax, s) ==
  CASE kind = "file" -> FileEvent(s)
    [] kind = "message" -> MessageEvent(syntax, s)
    [] kind = "enum" -> EnumEvent(s)
    [] kind = "service" -> RpcEvent(s)
    [] kind \in {"oneof", "extend"} -> FieldEvent(syntax, s)

\* The closing brace: one_of and extend need a field.  White space and comments
\* are taken before or after a field or an rpc only, so that a service with
\* nothing else does not end.
Closes(frame) ==
  CASE frame.kind \in {"oneof", "extend"} -> frame.events # <<>>
    [] frame.kind = "service" -> frame.events # <<>> \/ frame.body = <<>>
    [] OTHER -> TRUE

\* A semicolon after the brace of a message, an enum or an extend is taken with
\* the block, and with what stands before it.
AfterBlock(kind, todo) ==
  LET here == { i \in DOMAIN todo : /\ todo[i].k = "semicolon"
                                    /\ \A j \in 1 .. (i - 1) : todo[j].k = "br" }
  IN  IF kind \in {"message", "enum", "extend"} /\ here # {}
      THEN SubSeq(todo, 1 + CHOOSE i \in here : TRUE, Len(todo))
      ELSE todo

----------------------------------------------------------------------------
(* Fields. *)

\* TryFrom<(Syntax, FieldType, Option<ParsingStageFrequencyToken>)>.
Frequency(syntax, f) ==
  CASE f.type = "map" -> "map"
    [] f.type # "map" /\ f.label = "none" ->
         IF syntax = "proto2" THEN "optional" ELSE "default"
    [] f.type # "map" /\ f.label = "required" ->
         IF syntax = "proto2" THEN "required" ELSE "optional"
    [] f.type # "map" /\ f.label \in {"optional", "repeated"} -> f.label

\* Mutant: the fields of a oneof are always proto2 ones.
OneOfProto2(syntax) == <<"proto2", "required">>
\* oneof_message_field: whatever the label says.
OneOfFrequency(syntax) ==
  <<syntax, IF syntax = "proto2" THEN "required" ELSE "optional">>

\* field_generic.
FieldOf(kind, syntax, f) ==
  [k |-> "field", name |-> f.name, number |-> f.number,
   frequency |-> IF kind = "oneof" THEN OneOfFrequency(syntax)
                 ELSE <<syntax, Frequency(syntax, f)>>,
   default |-> ValueOf(f, "default"),
   packed |-> ValueOf(f, "packed"),
   deprecated |-> ValueOf(f, "deprecated")]

\* `v.parse().expect(...)` of field_generic and `s.parse().unwrap()` of
\* extensions.
Unparsable(s) ==
  \/ /\ s.k = "field"
     /\ "several" \in {ValueOf(s, "packed"), ValueOf(s, "deprecated")}
  \/ s.k = "extensions" /\ s.form = "several"

----------------------------------------------------------------------------
(* Blocks. *)

EventsOf(events, kind) == {events[i] : i \in {j \in DOMAIN events : events[j].k = kind}}

\* `msg.reserved_nums = Some(r)`: a later statement takes the place of an
\* earlier one.
LastOf(events, kind, none) ==
  LET at == {i \in DOMAIN events : events[i].k = kind}
  IN  IF at = {} THEN none ELSE events[Max(at)].said

\* message: the events of its body, folded.
MessageOf(name, events) ==
  [k |-> "message", name |-> name,
   fields |-> EventsOf(events, "field"),
   messages |-> EventsOf(events, "message"),
   enums |-> EventsOf(events, "enum"),
   oneofs |-> EventsOf(events, "oneof"),
   reserved_nums |-> LastOf(events, "reserved_nums", {}),
   reserved_names |-> LastOf(events, "reserved_names", {}),
   extensions |-> LastOf(events, "extensions", {})]

\* The event that a block is for what encloses it: Message, Enumerator, OneOf,
\* Extend or RpcService.
BlockOf(frame) ==
  IF frame.kind = "message" THEN MessageOf(frame.name, frame.events)
  ELSE [k |-> frame.kind, name |-> frame.name, fields |-> ToSet(frame.events)]

TakenForField(kind, s) ==
  s.k = "field" \/ (LooksLikeField(s) /\ kind \in {"message", "oneof", "extend"})

\* The events of a statement that is no block: one, or none if it is ignored.
EventOf(kind, syntax, s) ==
  CASE TakenForField(kind, s) -> << FieldOf(kind, syntax, AsField(s)) >>
    [] s.k = "reserved" /\ s.form = "nums" -> << [k |-> "reserved_nums", said |-> s.nums] >>
    [] s.k = "reserved" /\ s.form = "names" -> << [k |-> "reserved_names", said |-> s.names] >>
    [] s.k = "extensions" -> << [k |-> "extensions", said |-> s.range] >>
    [] s.k \in {"value", "rpc", "import"} -> << [k |-> s.k, name |-> s.name] >>
    [] s.k \in {"syntax", "package"} -> << [k |-> s.k, said |-> s.says] >>
    [] s.k \in {"option", "br"} /\ ~ TakenForField(kind, s) -> <<>>

\* file_descriptor: Syntax is proto2 unless a statement says something else.
DescriptorOf(events) ==
  [syntax |-> LastOf(events, "syntax", "proto2"),
   package |-> LastOf(events, "package", ""),
   import_paths |-> EventsOf(events, "import"),
   messages |-> EventsOf(events, "message"),
   enums |-> EventsOf(events, "enum"),
   rpc_services |-> EventsOf(events, "service"),
   message_extends |-> EventsOf(events, "extend")]

----------------------------------------------------------------------------
(* sanity_checks: the messages at the top, not those inside.  What it asks *)
(* of an enum's default is left out: the types are not resolved here.      *)

\* Mutant: the fields of oneofs are left out.
OwnFields(m) == m.fields
\* Message::all_fields.
AllFields(m) == m.fields \cup UNION {o.fields : o \in m.oneofs}

Conflicts(f, m) == f.number \in m.reserved_nums \/ f.name \in m.reserved_names

IsSane(d) ==
  \A m \in d.messages : \A f \in AllFields(m) : ~ Conflicts(f, m)

----------------------------------------------------------------------------
(* Actions. *)

Top == Last(frames)
Here == Head(Top.todo)

\* separated_list0(many0(anychar), syntax): the statement is looked for where
\* the file begins, and nowhere else.  After it, `anychar` must find something,
\* or the list is an error, which is unwrapped.
ScanSyntax ==
  /\ got_syntax = "none"
  /\ LET first == file # <<>> /\ file[1].k = "syntax" IN
     /\ got_syntax' = IF first THEN file[1].says ELSE "proto2"
     /\ IF first /\ Len(file) = 1
        THEN result' = "panic" /\ UNCHANGED frames
        ELSE /\ frames' = << [kind |-> "file", name |-> "none", body |-> file,
                              todo |-> file, events |-> <<>>] >>
             /\ UNCHANGED result
  /\ UNCHANGED <<file, desc>>

Running == result = "none" /\ frames # <<>>
Taken == Running /\ Top.todo # <<>> /\ Accepts(Top.kind, got_syntax, Here)

\* A statement that is no block.
Take ==
  /\ Taken
  /\ ~ IsBlock(Here)
  /\ ~ Unparsable(Here)
  /\ frames' = Append(Front(frames),
                 [Top EXCEPT !.todo = Tail(@),
                             !.events = @ \o EventOf(Top.kind, got_syntax, Here)])
  /\ UNCHANGED <<file, got_syntax, desc, result>>

Panic ==
  /\ Taken
  /\ Unparsable(Here)
  /\ result' = "panic"
  /\ UNCHANGED <<file, got_syntax, frames, desc>>

Enter ==
  /\ Taken
  /\ IsBlock(Here)
  /\ frames' = Append(frames, [kind |-> Here.k, name |-> Here.name, body |-> Here.body,
                               todo |-> Here.body, events |-> <<>>])
  /\ UNCHANGED <<file, got_syntax, desc, result>>

Leave ==
  /\ Running
  /\ Len(frames) > 1
  /\ Top.todo = <<>>
  /\ Closes(Top)
  /\ LET outer == frames[Len(frames) - 1] IN
     frames' = Append(SubSeq(frames, 1, Len(frames) - 2),
                 [outer EXCEPT !.todo = AfterBlock(Top.kind, Tail(@)),
                               !.events = Append(@, BlockOf(Top))])
  /\ UNCHANGED <<file, got_syntax, desc, result>>

\* A statement or a brace that no alternative takes: every open block fails,
\* the list at the top ends, and read_proto finds text that is left over.
TrailingGarbage ==
  /\ Running
  /\ IF Top.todo = <<>> THEN ~ Closes(Top)
     ELSE ~ Accepts(Top.kind, got_syntax, Here)
  /\ result' = "TrailingGarbage"
  /\ frames' = <<>>
  /\ UNCHANGED <<file, got_syntax, desc>>

\* The end of the file, and the sanity checks.
EndOfFile ==
  /\ Running
  /\ Len(frames) = 1
  /\ Top.todo = <<>>
  /\ desc' = DescriptorOf(Top.events)
  /\ result' = IF IsSane(desc') THEN "ok" ELSE "InvalidMessage"
  /\ frames' = <<>>
  /\ UNCHANGED <<file, got_syntax>>

ParserInit ==
  /\ file \in Files
  /\ got_syntax = "none"
  /\ frames = <<>>
  /\ desc = NoDesc
  /\ result = "none"

ParserNext == ScanSyntax \/ Take \/ Panic \/ Enter \/ Leave \/ TrailingGarbage \/ EndOfFile

ParserSpec == ParserInit /\ [][ParserNext]_parserVars

----------------------------------------------------------------------------
(* Properties. *)

\* What has a name of its own.
Named == Blocks \cup {"field", "value", "rpc", "import"}

\* What the file says at each depth, with the names of the blocks around it.
DeclaredAt[n \in 0 .. Depth] ==
  IF n = 0 THEN { <<<<>>, s>> : s \in ToSet(file) }
  ELSE UNION { { <<Append(d[1], d[2].name), s>> : s \in ToSet(d[2].body) }
               : d \in { x \in DeclaredAt[n - 1] : IsBlock(x[2]) } }

Inside(e) ==
  IF e.k = "message" THEN e.fields \cup e.messages \cup e.enums \cup e.oneofs ELSE e.fields

TopNodes ==
  desc.messages \cup desc.enums \cup desc.rpc_services
    \cup desc.message_extends \cup desc.import_paths

\* And what the parser has made of it.
HeardAt[n \in 0 .. Depth] ==
  IF n = 0 THEN { <<<<>>, e>> : e \in TopNodes }
  ELSE UNION { { <<Append(h[1], h[2].name), e>> : e \in Inside(h[2]) }
               : h \in { x \in HeardAt[n - 1] : IsBlock(x[2]) } }

\* The value of an option, wherever it stands in its brackets.
Said(f, key) ==
  LET S == { o \in ToSet(f.options) : o.key = key }
  IN  IF S = {} THEN "none" ELSE (CHOOSE o \in S : TRUE).value

\* e keeps what s says, its option if it has one only.
Keeps(e, s) ==
  /\ e.k = s.k /\ e.name = s.name
  /\ s.k = "field" /\ Len(s.options) <= 1 =>
       /\ e.packed = Said(s, "packed")
       /\ e.deprecated = Said(s, "deprecated")
       /\ e.default = Said(s, "default")

\* e comes of s: of an option with a number the parser makes a field.
ComesOf(e, s) == (e.k = s.k \/ (e.k = "field" /\ s.k = "option")) /\ e.name = s.name

\* In a file that is accepted, at every depth, nothing that has a name is dropped
\* where nom backtracks or a list of statements ends early, nothing comes out
\* under another block, an option that stands alone is heard, and nothing is
\* heard that is not declared.  The exceptions: with several options the value
\* of the first swallows the others (Keeps), an option with a number is heard as
\* a field (ComesOf), and of reserved statements the last of a form is kept, of
\* which nothing is said here (Named).
OkMeansAllThere ==
  result = "ok" =>
    \A n \in 0 .. Depth :
      /\ \A d \in DeclaredAt[n] :
           d[2].k \in Named => \E h \in HeardAt[n] : h[1] = d[1] /\ Keeps(h[2], d[2])
      /\ \A h \in HeardAt[n] : \E d \in DeclaredAt[n] : d[1] = h[1] /\ ComesOf(h[2], d[2])

\* The statement of the syntax, if there is one, is the first thing in the file.
SyntaxFirst == \A i \in DOMAIN file : file[i].k = "syntax" => i = 1

\* scan_syntax runs over the text before the parser does, and the parser finds
\* the syntax once more.  When the statement is the first thing in the file the
\* two agree for every field at any depth, so that set_defaults, which asks the
\* descriptor, and the code that is generated, which asks the field, do too.
SyntaxGoverns ==
  result = "ok" /\ SyntaxFirst =>
    \A n \in 0 .. Depth : \A h \in HeardAt[n] :
      h[2].k = "field" => h[2].frequency[1] = desc.syntax

\* The fields of a message, with those of its oneofs, as they are in the file.
FieldStatements(body) ==
  LET S == ToSet(body)
  IN  { s \in S \cup UNION { ToSet(o.body) : o \in { s \in S : s.k = "oneof" } }
        : s.k = "field" }

AtMostOne(body, form) ==
  \A i, j \in DOMAIN body :
    /\ body[i].k = "reserved" /\ body[i].form = form
    /\ body[j].k = "reserved" /\ body[j].form = form
    => i = j

\* No file is accepted in which a field of a message at the top has a number or
\* a name that the message reserves - provided that the message has one
\* `reserved` statement of each form: of several the last one is checked.
ReservedHonoured ==
  result = "ok" =>
    \A m \in { s \in ToSet(file) : s.k = "message" } :
      \A r \in { s \in ToSet(m.body) : s.k = "reserved" } :
        AtMostOne(m.body, r.form) =>
          \A f \in FieldStatements(m.body) :
            IF r.form = "nums" THEN f.number \notin r.nums ELSE f.name \notin r.names
=============================================================================

------------------------------ MODULE Imports ------------------------------
(***************************************************************************)
(* read_proto, fetch_imports and resolve_types (types.rs): from one .proto *)
(* file to all the messages and enums it can refer to, and from the names  *)
(* in its fields to those.                                                 *)
(*                                                                         *)
(* read_proto parses a file and calls fetch_imports, which calls           *)
(* read_proto for every import and appends what it returns.  Nothing       *)
(* remembers which files were read: a file reached in two ways is there    *)
(* twice, and files that import each other recurse without end.            *)
(*                                                                         *)
(* A file declares one item, a message or an enum, and a message has at    *)
(* most one field with a name to resolve.  A package, a module and a name  *)
(* are sequences of identifiers.  The search for an import in the          *)
(* directories of the search path is reduced to whether it finds a file.   *)
(***************************************************************************)
EXTENDS Naturals, FiniteSets, Sequences, SequencesExt

CONSTANTS
  Files,      \* the .proto files; the name of a file is its stem
  Root,       \* config.in_file
  Trees,      \* the contents of the files to try
  MaxDepth    \* bound: calls of read_proto that fit on the program's stack

\* The stack is deep enough for the files, each read once.
ASSUME ImportsAssumption ==
  /\ IsFiniteSet(Files) /\ Root \in Files
  /\ MaxDepth \in Nat /\ Cardinality(Files) <= MaxDepth
  /\ \A t \in Trees :
       /\ DOMAIN t \subseteq Files /\ Root \in DOMAIN t
       /\ \A f \in DOMAIN t :
            /\ t[f].imports \in Seq(Files) /\ t[f].package \in Seq(STRING)
            /\ t[f].kind \in {"message", "enum"} /\ t[f].name \in STRING
            /\ t[f].ref \in [absolute : BOOLEAN, name : Seq(STRING)]

VARIABLES
  tree,     \* the files that are there: imports, package, kind, name and ref
  calls,    \* the calls of read_proto in progress, innermost last
  links,    \* the items that the names were resolved to, in order of the items
  result    \* "none" while running, then "ok", an error or "overflow"

vars == <<tree, calls, links, result>>

----------------------------------------------------------------------------
NoRef == [absolute |-> FALSE, name |-> <<>>]

\* "protos with empty packages always have a module corresponding to the file name"
ModuleOf(f) == IF tree[f].package = <<>> THEN <<f>> ELSE tree[f].package

\* What parsing a file gives, after set_package.
Parsed(f) ==
  [file |-> f, package |-> tree[f].package, module |-> ModuleOf(f), imported |-> FALSE]

\* A call of read_proto, at the given import.
Call(f) == [file |-> f, next |-> 1, items |-> << Parsed(f) >>]
Top == Last(calls)
Import == tree[Top.file].imports[Top.next]
Reading == result = "none" /\ calls[1].next <= Len(tree[Root].imports)

\* Mutant: the package is set whether there is one or not.
AdoptAlways(item, f) ==
  [item EXCEPT !.imported = TRUE, !.package = tree[f].package, !.module = ModuleOf(f)]
\* An item of the file f, or of what f imports, goes to the importer of f.  A
\* second set_package finds that the package is empty also when it was the
\* first one that left it so.
Adopt(item, f) ==
  IF item.package = <<>>
  THEN [item EXCEPT !.imported = TRUE, !.package = tree[f].package, !.module = ModuleOf(f)]
  ELSE [item EXCEPT !.imported = TRUE]

Stop(r) == result' = r /\ UNCHANGED <<tree, calls, links>>

\* Mutant: an import that is not found is passed over.
MissingSkipped ==
  /\ Reading /\ Top.next <= Len(tree[Top.file].imports)
  /\ Import \notin DOMAIN tree
  /\ calls' = [calls EXCEPT ![Len(calls)].next = @ + 1]
  /\ UNCHANGED <<tree, links, result>>
MissingImport ==
  /\ Reading /\ Top.next <= Len(tree[Top.file].imports)
  /\ Import \notin DOMAIN tree
  /\ Stop("InvalidImport")

\* The recursive call.
ReadImport ==
  /\ Reading /\ Top.next <= Len(tree[Top.file].imports)
  /\ Import \in DOMAIN tree
  /\ Len(calls) < MaxDepth
  /\ calls' = Append(calls, Call(Import))
  /\ UNCHANGED <<tree, links, result>>

Overflow ==
  /\ Reading /\ Top.next <= Len(tree[Top.file].imports)
  /\ Import \in DOMAIN tree
  /\ Len(calls) = MaxDepth
  /\ Stop("overflow")

\* Mutant: the items of an import that was imported itself are left out.
ExtendOwn ==
  /\ Len(calls) > 1 /\ Top.next > Len(tree[Top.file].imports)
  /\ LET caller == calls[Len(calls) - 1]
     IN  calls' = Append(SubSeq(calls, 1, Len(calls) - 2),
                         [caller EXCEPT !.next = @ + 1,
                                        !.items = Append(@, Adopt(Head(Top.items), Top.file))])
  /\ UNCHANGED <<tree, links, result>>
\* read_proto returns to fetch_imports, which extends its own items.
Extend ==
  /\ Len(calls) > 1 /\ Top.next > Len(tree[Top.file].imports)
  /\ LET caller == calls[Len(calls) - 1]
         adopted == [i \in DOMAIN Top.items |-> Adopt(Top.items[i], Top.file)]
     IN  calls' = Append(SubSeq(calls, 1, Len(calls) - 2),
                         [caller EXCEPT !.next = @ + 1, !.items = @ \o adopted])
  /\ UNCHANGED <<tree, links, result>>

----------------------------------------------------------------------------
(* resolve_types. *)

Items == calls[1].items
FullName(item) == Append(item.package, tree[item.file].name)

\* get_full_names: of the items with one name, `or_insert` keeps the first.
Named(name, kind) ==
  { i \in DOMAIN Items : FullName(Items[i]) = name /\ tree[Items[i].file].kind = kind }
First(S) == CHOOSE i \in S : \A j \in S : i <= j

\* Mutant: the scopes around the package are left out.
CandidatesInside(item, ref) ==
  IF ref.absolute THEN << ref.name >>
  ELSE << FullName(item) \o ref.name, item.package \o ref.name >>
\* The names that are tried: inside the message, then from its package
\* outwards.
Candidates(item, ref) ==
  IF ref.absolute THEN << ref.name >>
  ELSE << FullName(item) \o ref.name >>
       \o [i \in 1..(Len(item.package) + 1) |->
             SubSeq(item.package, 1, Len(item.package) + 1 - i) \o ref.name]

\* The first name that is there, a message before an enum.
Match(names) ==
  LET kinds(name) == IF Named(name, "message") # {} THEN Named(name, "message")
                     ELSE Named(name, "enum")
      hits == { i \in DOMAIN names : kinds(names[i]) # {} }
  IN  IF hits = {} THEN 0 ELSE First(kinds(names[First(hits)]))

Resolving == result = "none" /\ ~Reading /\ Len(calls) = 1

Resolve ==
  /\ Resolving /\ Len(links) < Len(Items)
  /\ LET item == Items[Len(links) + 1]
         ref == tree[item.file].ref
         target == IF ref = NoRef THEN 0 ELSE Match(Candidates(item, ref))
     IN  IF ref # NoRef /\ target = 0
         THEN Stop("MessageOrEnumNotFound")
         ELSE /\ links' = Append(links, target)
              /\ UNCHANGED <<tree, calls, result>>

Finish == Resolving /\ Len(links) = Len(Items) /\ Stop("ok")

----------------------------------------------------------------------------
Init ==
  /\ tree \in Trees
  /\ calls = << Call(Root) >>
  /\ links = <<>>
  /\ result = "none"

Next ==
  \/ MissingImport
  \/ ReadImport
  \/ Overflow
  \/ Extend
  \/ Resolve
  \/ Finish

Spec == Init /\ [][Next]_vars

----------------------------------------------------------------------------
(* Properties. *)

Read == Resolving \/ result \in {"ok", "MessageOrEnumNotFound"}

Imports(f) == IF f \in DOMAIN tree THEN ToSet(tree[f].imports) ELSE {}
ClosedUnder(S) == \A f \in S : Imports(f) \subseteq S
Reaches(f, g) == \A S \in SUBSET Files : ClosedUnder(S) /\ Imports(f) \subseteq S => g \in S
Reachable == {Root} \cup { f \in Files : Reaches(Root, f) }

\* No file is recorded as read.  Every way to import a file gives a copy of
\* its items, no more and no fewer: a file is there once for each copy of each
\* file that imports it, for each time it does.  All but the root's are marked
\* as imported: only what is not is written, so that a type is generated in one
\* run alone, the one for its own file.
CopyPerImport ==
  Read =>
    { i \in DOMAIN Items : ~Items[i].imported } = {1} /\ Items[1].file = Root /\
    LET copies(f) == Cardinality({ i \in DOMAIN Items : Items[i].file = f })
        times(f, g) == { n \in DOMAIN tree[g].imports : tree[g].imports[n] = f }
        ways(f) == UNION { {i} \X times(f, Items[i].file) : i \in DOMAIN Items }
    IN  \A f \in DOMAIN tree :
          copies(f) = Cardinality(ways(f)) + (IF f = Root THEN 1 ELSE 0)

\* The module is the path by which generated code refers to a type.  It is the
\* one that the run on the type's own file writes, if that file has a package
\* or only the root imports it.
ModulesKept ==
  Read =>
    LET inner == UNION { Imports(g) : g \in Reachable \ {Root} } IN
    \A i \in DOMAIN Items :
      LET f == Items[i].file IN
      tree[f].package # <<>> \/ f \notin inner
        => Items[i].module = ModuleOf(f) /\ Items[i].package = tree[f].package

\* A run fails exactly when a file it needs is missing or when files import
\* each other; the stack that suffices without that is as deep as there are
\* files.
FailsForItsFiles ==
  /\ result = "InvalidImport" => ~(Reachable \subseteq DOMAIN tree)
  /\ result = "overflow" => \E f \in Reachable : Reaches(f, f)
  /\ Read => Reachable \subseteq DOMAIN tree /\ \A f \in Reachable : ~Reaches(f, f)

Packaged == \A f \in Reachable : tree[f].package # <<>>

\* A name that cannot be resolved in the run on one file cannot be resolved in
\* the run on the file it stands in either: whoever imports a file sees all
\* that the file sees.  (With a file that has no package this is not so, since
\* ModulesKept is not.)
NotFoundIsNotThere ==
  result = "MessageOrEnumNotFound" /\ Packaged =>
    LET f == Items[Len(links) + 1].file
        scopes == IF tree[f].ref.absolute THEN { <<>> }
                  ELSE Prefixes(Append(tree[f].package, tree[f].name))
    IN  \A g \in DOMAIN tree, s \in scopes :
          g = f \/ Reaches(f, g) =>
            Append(tree[g].package, tree[g].name) # s \o tree[f].ref.name
=============================================================================

------------------------------ MODULE ModFiles ------------------------------
(***************************************************************************)
(* What pb-rs leaves on disk (types.rs, write_proto and update_mod_file).  *)
(*                                                                         *)
(* A file for package a.b goes to a/b.rs.  On the way there, each missing  *)
(* directory is created and declared in the mod.rs of its parent; then the *)
(* file is written and declared in the mod.rs beside it.  A mod.rs is read *)
(* back, line by line, to see what it declares already.  pb-rs runs again  *)
(* and again on the same tree, and a run may be interrupted at any step,   *)
(* or fail there: a failed write leaves what an interruption leaves.       *)
(*                                                                         *)
(* A mod.rs is the sequence of its lines, and a line the sequence of the   *)
(* pieces written to it; the last line has no newline yet.  writeln! on an *)
(* unbuffered File is a write for every piece of its format string.        *)
(* Names are one piece, and none is another with its last byte removed.    *)
(***************************************************************************)
EXTENDS Naturals, FiniteSets, Sequences, SequencesExt

CONSTANTS
  Jobs,        \* runs of pb-rs: the path of the module, and --no-output
  Given,       \* directories that may be there from the start
  MaxRuns,     \* bound: runs of pb-rs
  MaxFaults    \* bound: interruptions and failed writes

Dir(path) == Front(path)

VARIABLES
  given,         \* the directories that were there at the start
  handwritten,   \* those of them with a mod.rs that pb-rs did not write
  blank,         \* those of them with an empty mod.rs
  dirs,          \* the directories that exist
  mods,          \* the mod.rs files, by directory
  outs,          \* the generated files, by path: "partial" or "complete"
  job,           \* the last run
  pc,            \* where it is, or "idle"
  level,         \* the component of the path it is at
  pending,       \* pieces still to be written to the mod.rs
  result,        \* "none", "ok", "panic" or "interrupted"
  runs, faults   \* counters, for the bounds

disk == <<dirs, mods, outs>>
vars == <<given, handwritten, blank, disk, job, pc, level, pending, result, runs, faults>>

----------------------------------------------------------------------------
(* mod.rs. *)

Header == "// Automatically generated mod.rs"
PubMod == "pub mod "
Semicolon == ";"
Newline == "\n"
EntryEnd == ";\n"
Empty == << <<>> >>
Handwritten == << << "// by hand" >>, <<>> >>  \* any first line without the header

\* A write at the end of a file.
AppendPiece(lines, piece) ==
  IF piece \in {Newline, EntryEnd}
  THEN LET last == IF piece = EntryEnd THEN Append(Last(lines), Semicolon) ELSE Last(lines)
       IN  Front(lines) \o << last, <<>> >>
  ELSE Front(lines) \o << Append(Last(lines), piece) >>

\* Mutant: the declaration is written with write! instead of writeln!.
EntryPiecesNoNewline(name) == << PubMod, name, Semicolon >>
EntryPieces(name) == << PubMod, name, EntryEnd >>
HeaderPieces == << Header, Newline >>

\* The pieces that the code writes itself; a name is an identifier and none of
\* them.
Punctuation == { Header, PubMod, Semicolon, Newline, EntryEnd }

ASSUME ModFilesAssumption ==
  /\ \A j \in Jobs : /\ j.path \in Seq(STRING \ Punctuation) /\ j.path # <<>>
                     /\ j.noOutput \in BOOLEAN
  /\ <<>> \in Given
  /\ MaxRuns \in Nat /\ MaxFaults \in Nat

\* What BufRead::lines yields: no last line when nothing follows a newline.
LinesRead(lines) == IF Last(lines) = <<>> THEN Front(lines) ELSE lines

\* Mutant: a file is taken for generated whatever it starts with.
RefusedNever(lines) == FALSE
\* "it is NOT one of our generated mod.rs files": the first line lacks the header.
Refused(lines) ==
  LinesRead(lines) # <<>> /\ \A i \in DOMAIN lines[1] : lines[1][i] # Header

\* What stands between the first "pub mod " of a line and its last byte.
After(line) ==
  LET i == CHOOSE i \in DOMAIN line :
             line[i] = PubMod /\ \A j \in 1..(i - 1) : line[j] # PubMod
  IN  SubSeq(line, i + 1, Len(line))
Mentions(line) == \E i \in DOMAIN line : line[i] = PubMod

\* Mutant: the semicolon is kept, so that no line ever matches.
MatchesWithSemicolon(line, name) == Mentions(line) /\ After(line) = << name >>
Matches(line, name) == Mentions(line) /\ After(line) = << name, Semicolon >>
\* The slice ends before it begins when nothing follows "pub mod ".
SlicePanics(line) == Mentions(line) /\ After(line) = <<>>

\* The loop over the lines stops at the first match, or panics before it.
Present(lines, name) ==
  \E i \in DOMAIN LinesRead(lines) :
    Matches(lines[i], name) /\ \A j \in 1..i : ~SlicePanics(lines[j])
Panics(lines, name) ==
  \E i \in DOMAIN LinesRead(lines) :
    SlicePanics(lines[i]) /\ \A j \in 1..i : ~Matches(lines[j], name)

----------------------------------------------------------------------------
(* A run. *)

At(p) == pc = p
Upto(k) == SubSeq(job.path, 1, k)
ModDir == Upto(level - 1)
Name == job.path[level]
IsFile == level = Len(job.path)

\* What follows a call of update_mod_file.
Updated ==
  IF IsFile THEN pc' = "flush" /\ UNCHANGED level
  ELSE pc' = "dirs" /\ level' = level + 1

End(r) == pc' = "idle" /\ result' = r

Start ==
  /\ At("idle") /\ runs < MaxRuns
  /\ job' \in Jobs
  /\ pc' = "dirs"
  /\ level' = 1
  /\ result' = "none"
  /\ runs' = runs + 1
  /\ UNCHANGED <<given, handwritten, blank, disk, pending, faults>>

\* An iteration of the loop over the components of the package's prefix.
ExistingDir ==
  /\ At("dirs") /\ ~IsFile /\ Upto(level) \in dirs
  /\ level' = level + 1
  /\ UNCHANGED <<given, handwritten, blank, disk, job, pc, pending, result, runs, faults>>

CreateDir ==
  /\ At("dirs") /\ ~IsFile /\ Upto(level) \notin dirs
  /\ dirs' = dirs \cup {Upto(level)}
  /\ pc' = "update"
  /\ UNCHANGED <<given, handwritten, blank, mods, outs, job, level, pending, result, runs, faults>>

\* --no-output is looked at after the directories.
NoOutput ==
  /\ At("dirs") /\ IsFile /\ job.noOutput
  /\ End("ok")
  /\ UNCHANGED <<given, handwritten, blank, disk, job, level, pending, runs, faults>>

\* File::create, and the writes that stay in the BufWriter or reach the disk.
CreateOut ==
  /\ At("dirs") /\ IsFile /\ ~job.noOutput
  /\ outs' = [p \in DOMAIN outs \cup {job.path} |->
                IF p = job.path THEN "partial" ELSE outs[p]]
  /\ pc' = "update"
  /\ UNCHANGED <<given, handwritten, blank, dirs, mods, job, level, pending, result, runs, faults>>

\* update_mod_file, up to its writes.
NothingToDeclare ==
  /\ At("update") /\ ModDir \in DOMAIN mods
  /\ LET lines == mods[ModDir] IN Refused(lines) \/ Present(lines, Name)
  /\ Updated
  /\ UNCHANGED <<given, handwritten, blank, disk, job, pending, result, runs, faults>>

ScanPanics ==
  /\ At("update") /\ ModDir \in DOMAIN mods
  /\ LET lines == mods[ModDir] IN ~Refused(lines) /\ Panics(lines, Name)
  /\ End("panic")
  /\ UNCHANGED <<given, handwritten, blank, disk, job, level, pending, runs, faults>>

\* Mutant: the file is created anew when the name is missing from it.
OpenToAppendTruncating ==
  /\ At("update") /\ ModDir \in DOMAIN mods
  /\ LET lines == mods[ModDir]
     IN  ~(Refused(lines) \/ Present(lines, Name) \/ Panics(lines, Name))
  /\ mods' = [mods EXCEPT ![ModDir] = Empty]
  /\ pending' = HeaderPieces \o EntryPieces(Name)
  /\ pc' = "append"
  /\ UNCHANGED <<given, handwritten, blank, dirs, outs, job, level, result, runs, faults>>
OpenToAppend ==
  /\ At("update") /\ ModDir \in DOMAIN mods
  /\ LET lines == mods[ModDir]
     IN  ~(Refused(lines) \/ Present(lines, Name) \/ Panics(lines, Name))
  /\ pending' = EntryPieces(Name)
  /\ pc' = "append"
  /\ UNCHANGED <<given, handwritten, blank, disk, job, level, result, runs, faults>>

CreateMod ==
  /\ At("update") /\ ModDir \notin DOMAIN mods
  /\ mods' = [d \in DOMAIN mods \cup {ModDir} |-> IF d = ModDir THEN Empty ELSE mods[d]]
  /\ pending' = HeaderPieces \o EntryPieces(Name)
  /\ pc' = "append"
  /\ UNCHANGED <<given, handwritten, blank, dirs, outs, job, level, result, runs, faults>>

WritePiece ==
  /\ At("append")
  /\ mods' = [mods EXCEPT ![ModDir] = AppendPiece(@, Head(pending))]
  /\ pending' = Tail(pending)
  /\ IF Tail(pending) = <<>> THEN Updated ELSE UNCHANGED <<pc, level>>
  /\ UNCHANGED <<given, handwritten, blank, dirs, outs, job, result, runs, faults>>

\* The BufWriter is dropped when write_proto returns; its errors are lost.
Flush ==
  /\ At("flush")
  /\ \/ outs' = [outs EXCEPT ![job.path] = "complete"] /\ UNCHANGED faults
     \/ faults < MaxFaults /\ faults' = faults + 1 /\ UNCHANGED outs
  /\ End("ok")
  /\ UNCHANGED <<given, handwritten, blank, dirs, mods, job, level, pending, runs>>

\* The run is killed, or a call fails and `?` ends it.
Interrupt ==
  /\ pc # "idle" /\ faults < MaxFaults
  /\ faults' = faults + 1
  /\ pending' = <<>>
  /\ End("interrupted")
  /\ UNCHANGED <<given, handwritten, blank, disk, job, level, runs>>

----------------------------------------------------------------------------
Init ==
  /\ given \in { D \in SUBSET Given : <<>> \in D }
  /\ handwritten \in SUBSET given
  /\ blank \in SUBSET (given \ handwritten)
  /\ dirs = given
  /\ mods = [d \in handwritten \cup blank |-> IF d \in blank THEN Empty ELSE Handwritten]
  /\ outs = <<>>
  /\ job = [path |-> <<>>, noOutput |-> FALSE]
  /\ pc = "idle"
  /\ level = 1
  /\ pending = <<>>
  /\ result = "none"
  /\ runs = 0
  /\ faults = 0

Next ==
  \/ Start
  \/ ExistingDir
  \/ CreateDir
  \/ NoOutput
  \/ CreateOut
  \/ NothingToDeclare
  \/ ScanPanics
  \/ OpenToAppend
  \/ CreateMod
  \/ WritePiece
  \/ Flush
  \/ Interrupt

Spec == Init /\ [][Next]_vars

----------------------------------------------------------------------------
(* Properties. *)

Declaration(line) == Len(line) = 3 /\ line[1] = PubMod /\ line[3] = Semicolon
Declared(d, name) ==
  { i \in DOMAIN mods[d] : mods[d][i] = << PubMod, name, Semicolon >> }

\* The point of update_mod_file: when no run has failed, a run that returns Ok
\* leaves a complete file, and every level of its path is declared in the
\* mod.rs above, exactly once however often pb-rs has run (rustc refuses a
\* second declaration).  The exceptions are a directory that pb-rs did not
\* make, which it does not declare, and a mod.rs that it did not write: one
\* with a line in it is left alone, and an empty one gets one declaration,
\* and is taken for somebody else's from then on.
\* It is not all that rustc asks for: the modules a and a::b leave a.rs and
\* a/mod.rs for one `pub mod a;`, which is an error (E0584) that pb-rs does not
\* see.
OkMeansDeclared ==
  faults = 0 /\ result = "ok" /\ ~job.noOutput =>
    /\ outs[job.path] = "complete"
    /\ \A k \in 1..Len(job.path) :
         (k = Len(job.path) \/ Upto(k) \notin given) /\ Upto(k - 1) \notin handwritten \cup blank =>
           /\ Upto(k - 1) \in DOMAIN mods
           /\ Cardinality(Declared(Upto(k - 1), job.path[k])) = 1

\* A mod.rs that pb-rs did not write, and that has a line in it, is never
\* modified, also when runs are interrupted.  An empty one is: nothing in it
\* says whose it is.
HandwrittenUntouched == [][\A d \in handwritten : mods'[d] = mods[d]]_vars

\* What a mod.rs declares is never lost: whatever a run does, and wherever it
\* is interrupted, the lines that were complete before it stay as they were.
DeclarationsStay ==
  [][\A d \in DOMAIN mods :
       d \in DOMAIN mods' /\ IsPrefix(Front(mods[d]), mods'[d])]_vars

\* A line that is neither the header nor a declaration.
Damaged(d) ==
  { i \in DOMAIN mods[d] :
      mods[d][i] \notin { <<>>, <<Header>> } /\ ~Declaration(mods[d][i]) }

\* An interruption damages the line it interrupts, in one mod.rs.  The runs
\* after it do not make it worse: between runs there are at most as many
\* damaged lines, in all files together, as there were interruptions.
OneLinePerInterruption ==
  pc = "idle" =>
    Cardinality(UNION { {d} \X Damaged(d) : d \in DOMAIN mods \ handwritten }) <= faults
=============================================================================

# A verification project for quick-protobuf and pb-rs

quick-protobuf is a protobuf library for Rust in two crates.

* `quick-protobuf` is the runtime: a reader that is a cursor over a borrowed
  buffer, a writer over a byte sink, and the size functions that length
  prefixes are computed with.
* `pb-rs` is the generator: it parses `.proto` files and writes Rust modules
  with, for each message, a struct, a `from_reader` that drives the reader,
  and a `get_size` and a `write_message` that drive the writer.

Both are sequential: no threads, no locks, no I/O besides whole files. What is
hard in them is of another kind.

* The reader trusts every length it decodes. Nothing compares a nested length
  with the enclosing message or with the buffer; errors come out later, in
  other functions, from loops that wait for `start == end`.
* A message is serialized by two pieces of generated code that must agree to
  the byte, one that counts and one that writes.
* The generated code is part of the program but is not in the repository: it
  is in the strings that `types.rs` prints.
* The generator runs graph algorithms over the messages (components, boxing,
  lifetimes), where a wrong answer shows up only in somebody's compile.
* The generator keeps state between runs, in `mod.rs` files that it writes,
  reads back, and appends to.

## 1. Inventory

State, operations and what makes each component correct. "Generated" means
code that `types.rs` prints.

| Component | Source | State | Operations | Correct when |
|---|---|---|---|---|
| Reader | `quick-protobuf/src/reader.rs` 97-582, 687-712 | `start`, `end`; a saved `end` per nested read, on the call stack | `next_tag`, `read_varint*`, `read_fixed`, `read_bytes/string`, `read_packed`, `read_packed_fixed`, `read_message`, `read_message_by_len`, `read_map`, `read_unknown` | Ok only for an exact nesting of chunks; no byte is decoded twice; recursion is bounded by the input; every parse ends (all of it until a skip wraps: see `BytesReader`) |
| Writer and sizes | `writer.rs`, `sizeofs.rs` | bytes written, room left in a slice | `write_varint` and the typed writes, `write_message`, `write_packed*`, `write_map`, `serialize_into_vec/slice` | each length prefix is the number of bytes that follow; a slice that is long enough is never refused, one that is not is never half written by the checked entry |
| PackedFixed | `reader.rs` 714-963 | a borrowed byte slice, or an owned Vec | `len`, `is_empty`, `at`, `own`, `into_vec`, iterators | the two forms are indistinguishable; a slice with part of an element is not misread |
| Message traits | `message.rs` | none | `from_reader`, `get_size`, `write_message`, `write_file` | `get_size` is exact; a file that was reported written is written |
| Generated readers and writers | `types.rs` 451-515, 840-1241, 1705-1956, 2438-2535 | the fields of the struct being filled | the match in `from_reader`; `get_size`; `write_message` | both directions agree with each other and, per field, on presence, order and repetition |
| Owned messages | `types.rs` 1780-1899 | a pinned buffer and a message that borrows from it | `try_from`, `try_into` | a message is handed on unchanged; Rust lifetimes |
| Strongly connected components | `scc.rs` | Tarjan's index and low tables, stack, `sccs` | `sccs`, `scc` | exact components, in reverse topological order |
| Cycle breaking | `types.rs` 2797-2896 | `boxed` and `frequency` of each field | `break_cycles` | every generated struct has a size, boxes only on cycles, `--error-cycle` rejects what it should |
| Generated files and `mod.rs` | `types.rs` 2572-2657, 3156-3214 | directories, `mod.rs` files, generated files | `write_proto`, `update_mod_file` | what was generated is declared in each `mod.rs` above it, once; other files are left alone |
| Imports | `types.rs` 2659-2769 | the tree of file descriptors | `read_proto`, `fetch_imports` | every imported type is found, under the path its own run gives it |
| Name resolution | `types.rs` 2898-3019 | full names of messages and enums | `get_full_names`, `resolve_types` | the innermost scope wins |
| Lifetimes | `types.rs` 1360-1376 | the path of visited messages | `has_lifetime` | a struct gets `'a` exactly when something in it borrows |
| Defaults, packing, checks | `types.rs` 1400-1560, 2771-2796 | the fields of the messages | `set_defaults`, `sanitize_defaults`, `set_repeated_as_packed`, `unset_packed_non_primitives`, `sanity_checks` | every message, nested or not, is treated alike |
| Code output | `types.rs` `write_definition`, `write_uses`, ... | none | printing | prints what the models above say |
| Parser | `pb-rs/src/parser.rs` | none but the descent: the open blocks and the events each has so far | `file_descriptor`, `message`, `one_of`, `enumerator`, `rpc_service`, `extend`, `field_generic`, ... | a file that is accepted is understood as it is written |
| Keywords | `keywords.rs` | none | a table | no generated name is a keyword |
| Configuration, command line | `lib.rs`, `main.rs` | options | `ConfigBuilder`, `compile_proto` | options reach what they control |
| Errors | both `errors.rs` | none | | each failure has its variant |
| Tests, examples, benches | `tests/`, `examples/`, `perftest/` | | | what pb-rs generated for the examples is what the models say |

How they interact. A caller creates a `BytesReader` over a buffer and passes
both to the generated `from_reader`, which calls back into the reader for each
field; `read_message`, `read_map` and `read_packed` call a closure or the
nested `from_reader` from inside `read_len`, so reader and generated code
alternate on one call stack and share `start` and `end`. To write, the caller
asks for `get_size` and then runs `write_message`, which for each nested
message writes the nested `get_size` and then calls the nested
`write_message`. In pb-rs, one run parses a file, fetches its imports, resolves
names, computes components, boxes fields, and writes one module and the
`mod.rs` files on the way to it; the next file, and the next run, start from
the directory tree this one left.

## 2. Modules

| Module | Models | Instances and runs |
|---|---|---|
| `BytesReader` | the reader and the cursor side of generated readers | `MCBytesReader` |
| `BytesReaderProofs` | its theorems | |
| `Serializer` | sizes, writer, and the generated `get_size` / `write_message` | `MCSerializer` |
| `SerializerProofs` | its theorems | |
| `Codec` | varints of every integer type, byte by byte, and their sizes | `MCCodec` |
| `FixedItems` | a sequence of numbers: the abstract specification of `PackedFixed` | |
| `PackedFixed` | the three representations of a `PackedFixed`, its methods, iterators and its way over the wire; implements `FixedItems` | `MCPackedFixed` |
| `NumbersProofs` | theorems about `Codec` and `PackedFixed`, and the refinement | |
| `Fields` | the struct, `write_message` and `from_reader` of a generated message, by what they keep of its fields | |
| `DataTypes` | the message types of the three examples, as schemas of `Fields` | `MCFields` |
| `Parser` | `parser.rs` as a descent over statements, with `read_proto`'s check that nothing is left over and `sanity_checks` | `MCParser` |
| `Scc` | `sccs()` | in `MCCycleBreaking` |
| `BreakCycles` | `break_cycles` over any decomposition into components: the abstract specification of the boxing | `MCBreakCycles` |
| `SchemaProofs` | theorems about `Parser` and `BreakCycles` | |
| `CycleBreaking` | `Scc` driving `BreakCycles`, as in the program; implements `BreakCycles` | `MCCycleBreaking` |
| `CycleBreakingProofs` | theorems about both, with the invariants of Tarjan's algorithm, and the refinement | |
| `ModFiles` | directories, files and `mod.rs` over several runs of pb-rs | `MCModFiles` |
| `ModFilesProofs` | its theorems | |
| `Imports` | `read_proto`, `fetch_imports`, `get_full_names`, `resolve_types` | `MCImports` |
| `ImportsProofs` | its theorems | |
| `Lifetimes` | `has_lifetime` wherever it is asked, and what it depends on in `convert_field_types` and `set_defaults` | `MCLifetimes` |
| `GeneratedCodeProofs` | theorems about `Fields` and `Lifetimes` | |

### BytesReader

State is that of the code: `start`, `end`, and `stack`, the `read_len` calls
in progress with the `cur_end` each has saved. `op` is where the innermost loop
is: at its condition (`"loop"`), or in the read that the tag it just decoded
selects. The bottom frame is the caller, one of the four ways the repository
uses a reader: `M::from_reader` on a whole buffer, `read_message`
(`deserialize_from_slice`), `read_message_by_len`, and
`while !r.is_eof() { r.read_message(..) }`.

| Action | Code |
|---|---|
| `NextTag` | an iteration of the generated loop: `is_eof`, `next_tag`, the match |
| `ReadVarint`, `ReadFixed`, `ReadBytes`, `ReadPackedFixed` | the reads that call nobody back |
| `ReadMessage`, `ReadPacked`, `ReadMap` | `read_len` up to the call of its closure |
| `ReadUnitMessage` | the same for a message without fields, whose `from_reader` is `read_to_end` |
| `MapEntry` | an iteration of the loop in `read_map` |
| `ReadUnknown` | the skip by wire type |
| `VarintError` | a varint that runs off the buffer or is too long, in whichever read |
| `CloseChunk` | the end of `read_len`: `start = end; end = cur_end` |
| `Finish` | the caller's loop ends |

The content of the buffer is not a constant: each read chooses what it decodes.
This is exact while the cursor does not move back, since then no byte is
decoded twice. Values are left out; a varint is the place it ends at, a length
is a number.

Words are those of a 64-bit target (`Word` stands for 2^64), and `build` says
whether overflow checks are on, as in cargo's dev and test profiles, or off, as
in its release profile, which no `Cargo.toml` here changes. It matters in one
place. `end - start` of a cursor past `end` (reader.rs:558, and `len()`) panics
in the one build. In the other it wraps to a number that nearly every offset
passes, and `start += offset` (561) may wrap in turn: then the cursor is back at
`end` or before it. `wrapped` remembers that this has happened. From then on a
byte may be decoded twice, so that the model, which may decode it differently,
does all that the code does and more. `MovesBackOnlyByWrapping` says that the
cursor goes back in no other way, and `CheckedBuildsDoNotWrap` is proved.

### Serializer

`GetSize` is the arithmetic of the generated `get_size`, a recursive function
on messages. The writer is a list of calls still to be made, `todo`; what a call
makes in turn is put in its place when it is at the head, so that the list is
what the call stack of the program holds. Only calls on the backend move
`cursor`.

| Action | Code |
|---|---|
| `Serialize` | the four ways to start: `serialize_into_slice` (checks the size first), `serialize_into_vec` (reserves it), `Writer::write_message` and `MessageWrite::write_message` on a `BytesWriter` (which check nothing first) |
| `EnterMessage`, `EnterBytes`, `EnterMap`, `EnterPacked` | `write_message`, `write_bytes` and `write_string`, `write_map`, `write_packed`: a length, and the calls that should write as many bytes |
| `EnterField`, `EnterWithTag` | the generated lines for a field; `write_with_tag` |
| `PutVarintByte` | an iteration of `write_varint` |
| `PutAll` | a write of a known number of bytes |
| `OpenChunk`, `CloseChunk` | not in the code: they record in `ends` where the length just written said its chunk would end, and that it ends now |
| `Finish` | the return to the caller |

The two sides share only what they share in the code, the sizes that the writer
itself asks for when it writes a length; conditions that the generator prints
twice are written twice (`Counted`, `Written`). `Field`, `Datum` and `Entry` say
what a message may hold: any number of fields of any shape, with messages in
them up to any depth (`Depth`), as long as its size is a number that `usize`
holds (`SizesFit`). A `PackedFixed` has whole elements here; what becomes of
others is in the module `PackedFixed`.

### Codec

A value of one type is written with `WriteByte` and `WriteLast`, the loop of
`write_varint`, and read with `ReadByte` as a value of any type, as happens
when the two sides have different schemas; or the bytes are somebody else's.
`ToU64` is what a `write_` method makes of its argument and `FromBits` what a
`read_` method makes of the bits; `BitsKept` stands for the shifts and masks of
the two unrolled readers. Seven bits to a byte and words of 32 and 64 bits are
the constants `Group`, `Word` and `Long`; `Pow2` has the powers of two they
need.

### PackedFixed, FixedItems

`pf` is one of `NoDataYet`, `Borrowed(bytes)` and `Owned(v)`, and each method of
`reader.rs` an operator on it and an action; `holder` says what Rust's borrow
checker would: shared methods may run beside a borrowing iterator, exclusive
ones may not, and a consumed value is gone. `call` and `ret` are the last call
and its result, so that `FixedItems`, a plain sequence, can say what each call
must answer. The refinement maps `pf` to `into_vec(pf)`.

`FromBytes` is the `From` impls for byte arrays, slices and `Vec<u8>`, which take
any number of bytes; `whole` is false while `pf` is made of bytes with part of an
element at the end. What the unsafe code then does is undefined. `Stray` is a
byte behind the slice, which a read past its end returns; `CopyOverruns` is the
bad outcome of a copy of all the bytes to an allocation for `len()` elements,
after which the value is `"corrupt"` and nothing is said of it; and the other
outcome is that the copy does no harm. `SaveAndLoad` writes the field and reads it
back without a length before it.

### Fields, DataTypes

A schema is what `set_defaults` leaves of a message type. `WriteSlot` writes the
next field or oneof of the struct `sent`, `slot` counts how many it has been
through, the invisible ones included, which write nothing; `ReadField`, `ReadOneOf` and
`ReadUnknown` are the arms of the match in `from_reader`, which fills `msg` from
`wire`. The operators have the names of the functions of `types.rs` that decide:
`FieldDefault` is what the writer compares with, `StructDefault` what
`Default::default()` returns, `HasPresence` which of the conditions is printed.
`wire` is either written here or any sequence of items of this schema with
strangers among them; in the second case `TryInto` writes the message that was
read once more, as an `...Owned` message does. Nested messages
are values, since their own fields are read by code of the same form. A value is
a member of `Value`; an enum holds the numbers of its variants, which is what
makes a foreign number lose its meaning.
`DataTypes` has the message types of `pb_rs`, `pb_rs_v3` and `pb_rs_nostd`
with the numbers, labels, defaults and packing that the generated files have.

### Parser

A file is a sequence of statements, each reduced to what decides who takes it;
blocks have a body of statements. `frames` is the descent: `Take` is a statement
that an alternative of the innermost list accepts, `Enter` and `Leave` are a
block, `Leave` with the fold of its events into a message or an enum, `Panic` is
an `expect` on text that is not what it should be. `TrailingGarbage` is the
only error there is: a list of statements ends silently at what it does not
know, the block around it then misses its brace, and so on up to `read_proto`,
which finds text left over. `ScanSyntax` comes first, since the syntax that
fields are given is looked for before the file is parsed. What a block keeps of
its body is a set where the code has a `Vec`. The properties look at a file and
its descriptor depth by depth (`DeclaredAt`, `HeardAt`), each name with the
blocks around it; `Depth` says how far, and is no bound of the parser.

### Scc, BreakCycles, CycleBreaking

`Scc` has the recursion of `scc()` as an explicit stack of calls, each with the
edges it has yet to look at: `Root` starts a traversal, `VisitNew` calls,
`VisitOpen` and `VisitClosed` look at a message met before, and `Return` (with
`Emit` and `HandToParent`) ends a call and goes on in its caller. `BreakCycles` has the two
loops over a component and the slices `scc[i ..= j]`; its decomposition is any
that satisfies what `sccs()` promises, `AreComponents` and `ArePositions`.
`CycleBreaking` runs the first until it returns and hands its result to the
second, with `comp` and `pos` defined from `sccs`: that is the refinement
mapping, and `ImplementsBreakCycles` the refinement.

### ModFiles

A `mod.rs` is a sequence of lines, a line a sequence of the pieces written to
it, the last line unfinished. The steps are the file system calls:
`ExistingDir` and `CreateDir` for each directory of the package, `OpenToAppend`
or `CreateMod`, one `WritePiece` for each write that `writeln!` makes on the
unbuffered file, `CreateOut` and `Flush` for the module itself. `Interrupt` is
a run that stops anywhere: killed, or by an error returned with `?`, which
leaves the same disk. Matching an existing line is modelled as the code does
it: the text between the first `pub mod ` and the last byte of the line.

### Imports

`read_proto` and `fetch_imports` call each other; `calls` is the stack of the
calls of `read_proto` in progress, each with the import it is at and the
messages and enums it has so far. `ReadImport` is the recursive call, `Extend`
the return from it, with what `fetch_imports` does to each item it takes over
(`Adopt`: `set_package` if the package is empty, `set_imported`). `MissingImport`
is `Error::InvalidImport`, and `Overflow` the end of the program's stack, which
`MaxDepth` stands for. When the outermost call is through its imports,
`Resolve` looks up the name in one item after the other, in the scopes of
`Candidates`. A file declares one item with at most one name to look up; the
directories of the search path are reduced to whether the file is there.

### Lifetimes

One run of pb-rs is `Read`, `ConvertFieldTypes`, `SetDefaults`, a `Write` for
each message of its file, and `Finish`; there is a run for each file, in any
order. `desc` is the descriptor the run works on, with the messages it imports,
and `written` what all runs so far have generated: for each struct and each
oneof whether it declares `'a`, whether it borrows itself, and with which
lifetimes it names other types. `HasLifetime` is the search as in the code,
with the messages on the way as the set to be ignored; the properties compare
it with reachability and with itself as asked elsewhere.

## 3. Runs

Passing runs, with the bounds and why they are enough.

| Run | Question | Bounds |
|---|---|---|
| `reader` | Is Ok only returned for an exact nesting, whatever the lengths say, and does every parse end? | 7 bytes: a chunk costs two bytes, so three nested chunks with a field in the innermost, or a chunk between two others. Lengths 0-3 and 8, one more than the buffer. Words of 16 values, and offsets up to 13, so that a skip wraps to any place before `end`; a stack of 4 chunks (`MaxDepth`), which only overflows after that. Varints of up to 3 bytes and fixed fields of 2 and 4, so that a varint is shorter or longer than a fixed field as with 10 and 4/8 |
| `serializer` | Do the counting and the writing code agree, and is the size check exact? | Base 4 for 128, so that a chunk of 4 bytes needs a prefix of two; varints on both sides of the first, second and last row of the table; every shape of field alone, pairs of fields, messages three deep; slices at, just below and far below both sizes |
| `boxing` | Do the generated structs have a size? | up to four fields of any frequency on three messages, every decomposition; four fields make two cycles that share a message |
| `cycle_breaking` | Are the components those of the graph, in reverse topological order; do they fit what `break_cycles` relies on; and does it all end? | every graph of at most six required fields on four messages (two components of two, a cross edge and a way back take no more), and on three messages every schema of at most four inline fields, or two of any frequency |
| `codec` | Is every value read back as itself or as Rust casts it, from as many bytes as its size says? | 2 bits to a byte, words of 5 and 9 bits: as in the code neither is a multiple of the group, a word's last byte keeps some bits, a long's last one, and bytes follow that a word drops; every value of every type, and all strings of up to four foreign bytes with none, one or all of their bits, or of six that begin so |
| `packed_fixed` | Can a user tell the representations apart? | two-byte numbers with two values a byte, up to two of them, chunks of up to five bytes and so with half a number at the end, for messages and for `From` impls, indices one past the longest |
| `fields` | What of a message survives the wire, and what counts if somebody else wrote it? | the fifteen message types of the examples; small schemas of two fields, or a field and a oneof, of the kinds that the examples lack; structs that differ from their default in up to two places; three items on the wire (two for the long types) |
| `parser` | Is a file that is accepted understood as it is written? | a message with up to three of 26 statements, or two with a syntax statement first or after a comment; up to three of 19 statements at the top; blocks two deep in that message, and `Depth` one more than any of its statements has |
| `mod_files` | What does a tree look like after several runs, some interrupted? | modules `a`, `b`, `a::a`, `a::b`; four runs, so that a file damaged in the first and extended in the second is read in the third and fourth; two interruptions; the root and `a` there before or not, with no `mod.rs`, an empty one, or one with a line |
| `imports` | Does a run see all that its file imports, under the right paths, and does the recursion end? | three files: a diamond, a chain, an import written twice; any one import per file and any files missing, so all cycles up to three; packages of none, one or two names; a stack of four calls, one more than there are files |
| `lifetimes` | Does rustc find each lifetime declared and used alike? | two messages in a file, one of them nested, and one in the file it imports; two fields in the first, so that one can lead back and the other borrow; both syntaxes in each file |

What they show.

* `OkConsumesAll`: in every build, Ok means that each `end` was put back and the
  caller's buffer was read to its last byte.
* `OverrunIsFatal`, `DepthBound`, `Termination`, until a skip wraps, and so always
  in a build with overflow checks: although no nested length is checked, a field
  that runs past the end of any enclosing message makes Ok unreachable; the
  recursion, which nothing limits explicitly, is at most half the number of bytes
  read; and every parse ends. `MovesBackOnlyByWrapping`: the cursor moves back in
  such a skip only.
* `ChunksEndWhereAnnounced`, `SizeIsExact`: for every shape of field and for
  every nesting in the bounds, each length prefix is right.
  `SizeCheckSuffices`, `RefusedOnlyWhenTooSmall`: the check at the start of
  `serialize_into_slice` makes all later ones succeed, and nothing that fits is
  refused.
* `ReadAsCast`, `DecodesModulo`: a value is read as itself or, as another type,
  as Rust's `as` makes it; size and bytes agree, also for the negative numbers
  that take ten bytes; and what the unrolled readers make of overlong numbers is
  the number modulo the width, for both widths from the same bytes.
* `ImplementsFixedItems`, `SizeAnnounced`: no sequence of calls tells a borrowed
  `PackedFixed` from an owned one or from a plain sequence, and what is announced
  is what is written. The exceptions are all of values that a `From` impl made of
  bytes with part of an element: `at(len())`, `is_empty()` where no number is whole,
  and a copy that overruns (`Astray`); and what is announced for them is short.
* `RoundTrip`: a struct comes back as it was, absent values apart from default
  ones where the struct can tell, and so does one that was read from somebody
  else's bytes. `LastOccurrenceCounts`: which of several occurrences of a field
  counts at each moment of reading, what remains of unknown enum numbers, other wire types and deprecated
  fields, and that absence leaves the declared default in proto2.
* `OkMeansAllThere`: although lists end silently, no field, value, rpc, import or
  block of an accepted file is missing, and nothing moves to another block. Of
  options it says that one that stands alone is heard; it excepts `option n = 5`
  (`ComesOf`), fields with several options (`Keeps`), and reserved statements
  (`Named`). `SyntaxGoverns`: with
  the syntax statement first, every field in any block has the descriptor's
  syntax. `ReservedHonoured`: a reserved number or name of a message at the top
  is refused, in a oneof as well, if the message has one statement of each form.
* `EmittedAreComponents`, `EmittedAfterWhatTheyEmbed`, `EachOnce`: `sccs()` is
  Tarjan's algorithm. `Terminates`: it and the loops over its result come to Ok
  or to `Error::Cycle`.
* `Sized`: after `break_cycles` no struct contains itself unboxed.
  `DecidedHoldsEarlierOnly` says why: what a message still holds inline after
  its turn comes earlier in the order. `OnlyCyclesAreBoxed`, `InfiniteSchemasRejected`,
  `AcyclicSchemasAccepted`: boxes are confined, and the error is raised for every
  schema that needs it and for none without recursion.
* `StaleComponentsSuffice`: the components are computed once, before any box
  is put; they stay good enough throughout.
* `OkMeansDeclared`, `OneLinePerInterruption`, `HandwrittenUntouched`,
  `DeclarationsStay`: pb-rs declares what it generates once, leaves other
  people's `mod.rs` alone if there is a line in it, never loses a declaration,
  and one interruption damages at most one line. That the tree compiles is not
  said: see `a` and `a::b` below.
* `CopyPerImport`, `FailsForItsFiles`, `NotFoundIsNotThere` (where every file has
  a package):
  without any record of what was read, the run has exactly one copy of a type
  for each way to import it, writes only the types of its own file, and fails
  only if a file is missing or files import each other, and a name that is not
  found is not there to be found by anybody. `ModulesKept`: the path of an
  imported type is the one its own run uses, for files with a package and for
  those that the root imports itself.
* `DeclaredAsMentioned`, `UsedAsDeclared`, `LifetimeMeansBorrowed`: every
  definition declares `'a` exactly if it mentions it, everybody uses a type as
  it is declared, and both mean that something in it borrows. With
  `--dont_use_cow` this is so where there are no repeated fixed fields; that the
  two runs agree takes files of one syntax.

Violated run: a statement of an example that the generated code does not keep.

| Run | What the code does |
|---|---|
| `exact_same_message` | a proto3 field with a default, like `f_sint64` of the example, is left out by the writer when it has that value (`if self.f_sint64 != 4i64`, types.rs:749), and the reader starts from the derived `Default`, which is 0 (types.rs:553): 4 is read back as 0, where the example (pb_rs_example_v3.rs:76) says the message stays the same |

Also seen in these models, without a run of its own.

* The comparison in `read_unknown` that is "meant to prevent overflowing"
  (reader.rs:555) subtracts `start` from an `end` that may be smaller: a panic
  with overflow checks (`Underflow`). Without them the difference wraps, and the
  skip can wrap in turn and move the cursor back. All three are then reached in
  the model: a loop that never ends, since the cursor is back at a tag it has
  read; nested messages without a bound, down to the end of the stack
  (`StackOverflow`); and Ok after a field has run past its message, since the
  cursor is back at the `end` that it had missed.
* A run stopped between creating a `mod.rs` and writing its header leaves a file
  that every later run takes for a handwritten one (types.rs:3208 and 3187).
* A file without a package, imported by an imported file, gets the package and
  the module of its importer (types.rs:2743), which is not where its own run
  puts it; the comment at types.rs:1996 says such files always have a module of
  their own name.
* With `dont_use_cow` a message with a packed fixed field is declared without a
  lifetime (types.rs:1616) and used with one (types.rs:399).
* Parser. The syntax is found at the first byte only: a file that begins with a
  comment, like `v3/test_enum_alias_pb.proto`, has proto2 fields in a proto3
  descriptor. A file that is nothing but a syntax statement panics. Of
  `[packed=true, deprecated=true]` the first value does not parse and panics;
  of `[json_name="x", packed=true]` the second is lost. `option n = 5;` in a
  message is a field. A type whose name begins like a scalar one (`stringList`)
  is refused, and so are `to max`, `reserved` in an enum, a service with nothing
  but white space, streams and qualified types in an rpc; several ranges of
  extensions panic. The last `reserved` statement of a form replaces the others,
  and nested messages are not checked at all. `required` in proto3 becomes
  optional.
* Values. A `sint32` is sign-extended after zig-zag and takes ten bytes when
  large; read as a `sint64` it is another number. `read_bool` looks at 32 bits.
* Fields. A second packed chunk replaces the first, and a nested message that
  comes twice replaces, not merges. Repeated fields packed on one side and not
  on the other have different tags and are skipped as unknown. A single field
  with `packed = true` has the wire type of a chunk in its tag and is written as
  a plain value.
* An unknown field can be skipped past the end of the buffer (reader.rs:561);
  `OverrunIsFatal` and the proof of it say that this never ends in Ok, unless a
  later skip wraps. A packed
  fixed field in the same position panics, because the check at reader.rs:473
  bounds its slice by `end`, which may lie past the buffer (`PanicSlice`).
* `PackedFixed::len` rounds down and the writer writes all borrowed bytes: for
  a `PackedFixed` that one of the `From` impls for bytes (reader.rs:935-951) made
  of part of an element, `get_size` is short by the rest, `at(len())` reads behind
  the slice (792), `is_empty` may be false where `len` is 0, and `own`, `to_slice`,
  `to_mut_slice` and `into_vec` copy more bytes than they have allocated (839).
  The reader rounds what it keeps down to whole elements, so that this takes a
  caller's slice. `at` multiplies its index by the width of an element, which may
  wrap in a release build.
* `--error-cycle` rejects recursion through repeated fields (`is_cycle` counts
  them, types.rs:2810), and through optional fields where one of the cycle is
  required, against lib.rs:137; the messages that `Error::Cycle` names need not
  contain each other (types.rs:2836); required fields are made optional where
  boxing an optional one would do (types.rs:2848); not all optional fields of a
  component are boxed, against the comment at types.rs:2823.
* `--no-output` creates directories and their `mod.rs` entries (types.rs:2625),
  against lib.rs:130.
* The modules `a` and `a::b` leave `a.rs` and `a/mod.rs` for one `pub mod a;`, which
  rustc refuses (E0584); `OkMeansDeclared` does not see it. An empty `mod.rs` that
  pb-rs did not write gets its declaration (types.rs:3204), without a header, and
  is taken for somebody else's in the next run.
* A `mod.rs` line cut off after `pub mod ` makes the next run panic
  (types.rs:3195).
* Where a proto3 file imports a proto2 file, the run on the first packs the
  repeated fields of the second (types.rs:2774), and the two runs disagree
  about lifetimes: `UsedAsDeclared` is false without its condition `OneSyntax`.
* Repeated fields of nested proto3 messages are not packed by default, because
  `set_defaults` visits the messages at the top only (types.rs:2774);
  `BorrowedInSchema` follows the code there.

Some hazards of this code are not caught by a property, because the bad case does
happen: two options on a field, several reserved statements, a syntax after a
comment, packing that depends on the importer or on nesting, a module that is a
file and a directory. The properties leave these out by the conditions named
above, and `PROJECT.json` lists them with a note. Two more are in the models and
the subject of no property: which of several hits a name resolves to (`Match`),
and that a statement nobody takes ends the whole parse (`TrailingGarbage`, one
step for the way up).

### Fairness

`BytesReader` and `CycleBreaking` assume weak fairness of their whole next-state
relation and nothing finer: the code is one thread that keeps running, so a step
is taken as long as there is one. Which step, and what is decoded, stays open. The other
modules state no liveness.

`CHECK_DEADLOCK FALSE` is in every configuration: each of the programs returns,
and after that nothing happens. A `PackedFixed` can always be called, unless a
copy has overrun.

## 4. Proofs

Each proof module proves an inductive invariant of its component and derives
the properties from it. What the theorems assume of the constants are the named
assumptions of the components, which TLC evaluates in every run.

### The reader

`BytesReaderProofs` proves, for every buffer length, every set of widths and
lengths, any size of a word and of the stack, and both builds
(`ReaderAssumption`: they are natural numbers, varints and fixed fields are not
empty, and no sum but that of a skip overflows a word, which is so with lengths
of 32 bits and words of 64):

| Theorem | Property |
|---|---|
| `TypeCorrect` | `TypeOK` |
| `CheckedBuildsDoNotWrap` | `wrapped` is false where `build` is `"checked"` |
| `DepthIsBounded` | `DepthBound` |
| `OkMeansAllConsumed` | `OkConsumesAll` |
| `OnlyWrappingMovesBack` | `MovesBackOnlyByWrapping` |
| `OverrunNeverReturnsOk` | `OverrunIsFatal` |

The inductive invariant is `IInv`. To `TypeOK` it adds `CallersEnd` (without an
error, the `end` that will finally be put back is the caller's), `OkAtBase` (Ok
is returned with no chunk open), and `Paid`, which is `DepthBound` with the tag
byte of a pending field accounted for: `DepthBound` itself is not inductive,
since opening a chunk needs the byte that `NextTag` read a step earlier.
`OverrunIsFatal` is not an invariant but says that a set of states is never
left: `Overrun` is preserved by every step, because a loop that has been passed
by never sees `start = end` and so never closes, and no step from it returns
Ok; or a skip wraps, and nothing is claimed from then on.

### Boxing

The first part of `SchemaProofs` proves, for every finite set of messages and every set of
schemas over them (`BreakAssumption`):

| Theorem | Property |
|---|---|
| `BoxingTypeCorrect` | `BreakTypeOK` |
| `DecidedInOrder` | `DecidedHoldsEarlierOnly`: what a decided message still holds inline |
| `GeneratedStructsAreSized` | `Sized` |
| `InfiniteSchemasFail` | `InfiniteSchemasRejected` |
| `AcyclicAccepted` | `AcyclicSchemasAccepted` |
| `BoxesOnCyclesOnly` | `OnlyCyclesAreBoxed` |
| `ComponentsIndependent` | `BoxesStayInComponent` |

The argument: `DecidedHoldsEarlierOnly` is preserved by every step because a
slice that has been broken holds no inline field between its messages, and a
field that leads out of its component leads to an earlier one. When the loops
are done every inline field leads strictly back in a finite linear order, so a
set of messages that closes on itself would have no first member.
`AcyclicSchemasAccepted` rests on `FieldOnCycle`: a field between two messages
of one component closes a cycle, namely the messages on the ways back from its
target to its source.

### The writer

`SerializerProofs` proves, for every base and length of varints, every message
of any depth with any fields, and every length of the slice:

| Theorem | Property |
|---|---|
| `SerializerInvariant` | `IInv` |
| `ChunksEndThere` | `ChunksEndWhereAnnounced` |
| `SizesExact` | `SizeIsExact` |
| `CheckSuffices` | `SizeCheckSuffices` |
| `RefusedRightly` | `RefusedOnlyWhenTooSmall` |

It assumes that the messages in a message are less deep than it is
(`MessagesAssumption`; a Rust struct owns them) and that `get_size` does not
overflow (`SizesFit`).

The inductive invariant is `Started`: the calls in `todo` lead, one after the
other, from `cursor` and `ends` to the last byte promised, with no chunk open
(`Leads`). The four properties are what this says of the first call and of none.
A step preserves it if what a call makes in turn leads as far as the size that
was counted for the call (`Fills`), which is one lemma for each function of the
writer; `FillsField`, with a case for each shape, is where the two pieces of
generated code meet. `VarintRows` says the same of the loop of `write_varint`
and the table of `sizeof_varint`.

These are inductions over numbers, sequences and the depth of messages, and
they go by sets: `UpTo` is induction for membership in a set, and `PowerDef`,
`TotalSums` and `GetSizeDef` show that the recursions of `Power`, `Total` and
`GetSize` have a solution, and only one, before anything is said of them.

### Components and boxes together

`CycleBreakingProofs` has the invariants of Tarjan's algorithm as lemmas about
`Scc`, and proves, for every number of messages and every set of fields:

| Theorem | Property |
|---|---|
| `CycleInvariant` | `CycleIInv` |
| `ComponentsAreRight` | `EmittedAreComponents` |
| `ComponentsAreOrdered` | `EmittedAfterWhatTheyEmbed` |
| `MessagesAppearOnce` | `EachOnce` |
| `BreakCyclesImplemented` | `ImplementsBreakCycles` |
| `ComponentsStayGoodEnough` | `StaleComponentsSuffice` |

`SccIInv` has a part for each thing the algorithm relies on: the stack is in
the order of discovery (`StackByMoment`), the calls in progress are a path
(`CallPath`), a field to a message not yet met is still ahead of some call
(`UnvisitedAhead`), a call has led to what is above it on the stack and what is
below the next call leads back (`LedTo`, `LeadsBack`), and `low` is the moment of
an open message that is reached, and no field that was looked at leads to an
earlier one (`LowIsReached`, `LowIsLeast`). When `low = disc` the last two say
that nothing above on the stack leaves it, so it is a component, and that all it
embeds elsewhere is emitted, which is the order.

The refinement is proved step by step: steps of `sccs()` stutter, `HandOver` is
`ComputeSccs`, with `AreComponents` and `ArePositions` of its result from the
two properties above, and the rest are the same steps. So all theorems about
`BreakCycles` hold of the program.

### Generated files

`ModFilesProofs` proves, for every set of jobs with non-empty paths, any number
of runs and of interruptions, and any directories that were there before, with
no `mod.rs` in them, an empty one, or one with a line:

| Theorem | Property |
|---|---|
| `FilesInvariant` | `FilesIInv` |
| `OkIsDeclared` | `OkMeansDeclared` |
| `DamageIsBounded` | `OneLinePerInterruption` |
| `HandwrittenIsUntouched` | `HandwrittenUntouched` |
| `DeclarationsAreKept` | `DeclarationsStay` |

`FilesIInv` says of a file that is being written which pieces are on its last
line and which are to come (`AppendsEntry`, `Tidy`). `BrokenByFaults` is the
count: a line under way is either tidy and not counted, or has been begun on
the rest of a line that an interruption left and is counted already; without
that distinction an append to a damaged file would seem to damage a second
line. Without interruptions `ModsClean` and `DirsDeclared` say that each `mod.rs`
is a header and different entries, and that every directory pb-rs made is one
of them but for the one just made; `PathThere` carries this along the path of
the run.

### Imports

`ImportsProofs` proves, for every finite set of files that import each other in
any way, with any files missing:

| Theorem | Property |
|---|---|
| `ImportsInvariant` | `ImportsIInv` |
| `CopiesAreCounted` | `CopyPerImport` |
| `ModulesAreKept` | `ModulesKept`, for a file with a package or imported by the root only |
| `FailuresHaveCauses` | `FailsForItsFiles` |
| `UnfoundIsNotThere` | `NotFoundIsNotThere`, if `Packaged` |

It assumes that the program's stack has room for a chain of all the files
(`ImportsAssumption`); a chain without a file twice takes no more, so the stack
only overflows on a cycle. Each call in progress (`FrameOK`) has read what the
imports it is done with reach, without cycles (`DoneAreSound`), and its items
stand one to one for the ways to import something (`CopiedPerWay`): the number
of copies that `CopyPerImport` counts is not preserved by a step on its own, the
one-to-one map is.

### PackedFixed

`NumbersProofs` proves, for every width, every set of bytes and numbers,
chunks and indices:

| Theorem | Property |
|---|---|
| `PackedFixedTypeCorrect` | `PackedFixedTypeOK` |
| `AnnouncedIsWritten` | `SizeAnnounced` |
| `BehavesAsItems` | `ImplementsFixedItems` |

The invariant is that `whole` tells: borrowed bytes are a whole number of elements
unless a `From` impl was given others and the value has not been assigned to, made
its own or written and read since. Where they are, `len`, which divides,
and `is_empty`, which looks at the bytes, say the same; where they are not, the
three calls of `Astray` are not claimed and the announced length is proved to be
short. In the refinement each
method answers from its representation what the sequence answers; the proof is
arithmetic on offsets, done once for all widths.

### Varints

`NumbersProofs` proves, for any number of bits to a byte, any widths of words
and longs (`WidthsAssumption`) and any foreign bytes (`ForeignAssumption`):

| Theorem | Property |
|---|---|
| `CodecInvariant` | `CodecIInv` |
| `ValuesComeBack` | `ReadAsCast` |
| `DecodingIsModular` | `DecodesModulo` |

`CodecIInv` follows a number through the buffer. While it is written
(`Writing`), the weight of the bytes so far and what is left of the argument,
shifted by them, make up the argument; since something is left after each byte,
there are never too many of them. Once it is written (`Written`) the bytes weigh
the argument, and no shorter string of bytes could. The reader (`BeingRead`) has
at each byte the weight of what it went through, modulo its width: that a byte
beyond the width adds nothing, and one across its edge only its low bits, is the
arithmetic that `BitsKept` has to get right, and needs no relation between the
bits to a byte and the width. `ReadAsCast` is then about residues: of each pair
of types, that what one makes of a number is the cast of what the other does.

### Lifetimes

`GeneratedCodeProofs` proves, for any finite set of messages in any files, with
fields that lead anywhere, in any order of the runs:

| Theorem | Property |
|---|---|
| `LifetimesInvariant` | `LifetimesIInv` |
| `LifetimesAreDeclared` | `DeclaredAsMentioned`, if `Regular` |
| `LifetimesAgree` | `UsedAsDeclared`, if `Regular` and `OneSyntax` |
| `LifetimesMeanBorrowed` | `LifetimeMeansBorrowed`, without `dont_use_cow` and if `OneSyntax` |

`LifetimesAssumption` is what protoc demands of the files: a type that a field
names is in a file that is imported, and files see what the files they import
see. `LifetimesIInv` says of each run where its descriptor is (`DescOK`) and of each
definition that it is `Right`: that it declares, and says of others, what the
schema tells. What the schema tells is reachability (`Answer`), and the work is
to show that the search of `has_lifetime`, which ignores the messages on its
way, finds what is reachable. `SearchIsFound` proves it for any graph: a message
that is reached is reached without coming back to one on the way
(`OutsideSplit`), by induction on the messages that are not yet on the way. A run
sees only some of the messages, but all that its own can reach
(`SightedIsEnough`), so that runs on different files answer the same.

### Messages

The second part of `GeneratedCodeProofs` is about any set of message types with
any number of fields and oneofs, any values, and any items on the wire:

| Theorem | Property |
|---|---|
| `FieldsInvariant` | `FieldsIInv` |
| `MessagesComeBack` | `RoundTrip` |
| `LastOccurrenceIsKept` | `LastOccurrenceCounts` |

`FieldsAssumption` is what protoc, and `sanity_checks` after it, demand of a
message type (a number has one field, a default is a value of its type, only
repeated fields are packed, an enum has a variant), what Rust's types make of a
struct (`IsStruct`), and of items from elsewhere that those with the tag of a field
have data that its reader accepts (`IsReadable`); on other data the reader would
return an error, which `BytesReader` is about. `FieldsIInv` has three parts.
`FieldsTypeOK`: the struct being read is one of its message throughout.
`AsRead`: for each field and oneof, what the struct holds is `Kept` of the items
read so far with its tags, which is the reference of `LastOccurrenceCounts`
with the struct's own default for absence; one more item changes it for the
field whose tag it has (`FieldIsRead`, `OneOfIsRead`), and tags tell fields
apart (`TagsApart`). `OnWire`: the items written so far with the tags of a field
are what the field is written as (`Delivered`): none, one, a chunk, one for each element
in a row, or one for each key in any order. `FieldComesBack` puts the two
together, label by label. Absence is where it needs an argument: what is not
written is the writer's default, and the exception in `RoundTrip` is exactly
where that of the struct is another. `KeptAsDeclared` shows for the second
property that a getter, or `Default`, gives the declared default.

### Parser

The second part of `SchemaProofs` is about files of any statements, with blocks
of any depth:

| Theorem | Property |
|---|---|
| `ParserInvariant` | `ParserInv` |
| `AcceptedMeansAllThere` | `OkMeansAllThere`, with the exceptions `Keeps`, `ComesOf` and `Named` |
| `OneSyntaxGoverns` | `SyntaxGoverns`, if `SyntaxFirst` |
| `ReservedNumbersHonoured` | `ReservedHonoured`, at the top, for the only statement of its form |

`ParserAssumption` says of statements what the grammar does: a block has
statements for its body, the brackets of a field have options, and a syntax is
proto2 or proto3. `ParserInv` describes the stack: an open block stands before
some statement of its body (`Rest`), has heard of all before it (`HeardOf`), and
is itself the statement before which the block below it stands (`Opened`). To have heard of a
statement is to hold an event that tells it, and the other way round (`Tells`):
`TellsReserved` for what the sanity checks ask, `TellsAll` for names, options and,
of a block, all that is in it. The last is a statement about every depth. It is
made without recursion, by a relation between the blocks of the descriptor
and those of the file that leads from block to block (`Faithful`): when a block
ends, the relations of the blocks in it are joined and the new pair is added
(`Joined`, `BlockTells`). `Settled` says in the same way, by a set closed under
what is inside of its blocks, that the fields at every depth have the
syntax that `scan_syntax` found, and `SyntaxAgrees` that the descriptor has the same if
the statement comes first. `AlikeAtEveryDepth` unrolls the relation into what the
properties say of each depth, by induction up to `Depth`, which can be any
number: nothing is assumed of it but `Depth \in Nat`.

### What is only model-checked

* Termination (`Termination`, `Terminates`): the prover does not handle fairness.

All other properties of the passing runs are stated by a theorem. What a
recursive definition computes is reached by inductions written out with a first
counterexample (`LeastNatural`), since the prover cannot use the library's
induction theorems.

`TypeOK`, `BreakTypeOK`, the inductive invariants and `BoxesStayInComponent` are
proved and not checked by a run of their own: the properties rest on them, or
they hold by the shape of a step.

## 5. Not modelled, and why

* Names of nested messages and enums in the resolution of types, and the search
  path of imports. Nested blocks are in `Parser`, but `Imports` has one item at
  the top of each file.
* Keywords, code output, configuration: text in, text out, no state. What is
  printed is modelled by what it does.
* Words, numbers, white space and comments inside a statement (`qualifiable_name`,
  `word`, `integer`): `Parser` takes a statement as read. `sanitize_default` and
  `sanitize_names` rewrite such words. The check that the default of an enum is
  one of its values is left out with them.
* The bytes of fixed-width numbers: byteorder and `to_le_bytes`.
* Owned messages beyond reading and writing again: what could go wrong in their
  pinned buffer is ruled out, or not, by Rust's lifetimes, which a model would
  have to assume.
* `read_to_end` called by hand, the owning `Reader` (it lends its buffer to a
  `BytesReader`), and `write_packed_fixed_size_with_tag`: not called by
  generated code.
* `write_file`, where the error of the last flush is lost by a `BufWriter` that
  is dropped: the model would be one of std.
* A reader used again after an error, and two runs of pb-rs on one tree at the
  same time: nothing in the repository does either.

## 6. Plan

1. `RoundTrip`: the calls of `Serializer` as the input of the reader, composed
   from the two modules, with `Fields` as their abstraction.
2. `Resolution`: nested messages and enums in `get_full_names`, and the search
   path, on top of `Imports`.
3. `sanitize_default` and the checks of enum defaults, between `Parser` and
   `Fields`.

Proofs: with (1), that it implements `Fields`, from `SerializerProofs` and
`BytesReaderProofs`.

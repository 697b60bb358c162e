# A verification project for zag

zag reads a Zig program into fact tables, decides who owns what every field
points at, and writes the Rust that follows from it.  The modules here model the
passes whose answer depends on order, on reuse of state, or on data nobody
checked, TLC checks them on small programs, and TLAPS proves the most important
properties for programs of every size.

## The system

| component | source | state it keeps | operations |
|---|---|---|---|
| fact tables | `zag-facts/src/tables.rs`, `handles.rs` | columns of equal length; a row is an object, a handle is a row number | read by every pass |
| fact construction | `zag-facts/src/build.rs` | the tables under construction | `push_*`, `declare_*`, `set_*` |
| wire format | `zag-facts/src/wire.rs` | a byte cursor, the columns so far | `encode`, `decode` |
| validation | `zag-facts/src/validate.rs` | the list of problems | one check per table |
| extraction | `zag/tools/extract/main.zig` | the nodes of a body so far | a node after its children |
| frontend | `zag-frontend/src` | the tables, and indexes of types, structs and functions by file and name; for a body, its rows, what each node became, and what its names are | one kind of declaration after another; one node after another |
| project crawl | `zag/src/project.rs` | pending files, visited files, names | one file at a time |
| call graph | `zag-analysis/src/call_graph.rs` | edges in compressed sparse row | build, callees, mark |
| allocator provenance | `zag-analysis/src/provenance.rs` | a class per parameter, a witness per parameter, disagreements | rounds over the call arguments |
| ownership | `zag-analysis/src/ownership.rs` | a class per field, evidence, the deinit closure of one struct | one field after another |
| emitter | `zag-emit/src` | indexes, failure sets, generated names, expressions | lowering to a Rust tree |
| report | `zag-emit/src/report.rs` | text | what became of every field and function |
| renderer | `zag-render/src` | text | a Rust tree to source |
| repair | `zag-repair/src/lib.rs` | spans of a file and their replacements | sort, check, splice |
| driver | `zag/src/main.rs`, `lib.rs`, `zag-verify` | files | read, validate, analyse, emit, write |

A run is a pipeline: the driver crawls the Zig project, the frontend merges the
files into facts, validation refuses tables whose handles do not resolve, the
analysis resolves allocators and classifies fields, and the emitter writes Rust
and a report from the classes.  The parts share the fact tables and nothing
else; there are no threads and no callbacks.  What is hard is inside the parts:
fixed points that read what they are writing, a buffer reused across
questions, evidence recorded while it may still change, tables that may be
damaged, rows that are changed after they are built, and decisions of one part
that another part's output relies on.

## What is hard in it, and what makes each part correct

| part | what is hard | what makes it correct |
|---|---|---|
| project crawl | files import each other, themselves, and one file under two spellings; a limit; the order the modules come out in is not the order of the crawl; names made from paths | every file that is reached becomes one module, the root is the top level, and only what is not there is called missing |
| frontend | names become handles while the tables grow; a bare name may be declared in several files, and twice in one; ranges that only tile if everything is pushed in one order | a row lies in the range of its owner; a name is what its scope says; a call, a free, an allocator and a body belong to the function they were read from; what is merged passes validation |
| wire format | the order of the columns is written down twice and nothing in the file says it; lengths come from the file | what is written is read; what is accepted says what was read and nothing else; nothing past the end is read |
| validation | columns of a damaged file disagree with each other; sums that pass the last index | tables with no problem can be read without another look |
| bodies | a node is translated before the one that says what it is for; casts, brackets, semicolons and wraps are each decided by another function | every row is in one place; the text is read as the tree it was written of; the port of a body does what the body does; what an operator joins is of one type, where the rows say which |
| grouping | three passes over memory allocated up front, through cursors | every slot is written once, inside its bucket, and buckets keep table order |
| allocator provenance | a fixed point that reads classes it is still writing, under a limit on its rounds; a witness that was recorded rounds ago | the least class that accounts for every argument, whatever the order; evidence that is there |
| reachability | one stamp buffer serves every struct and is never cleared; a stack bounded by marking on push | the answer is reachability from the struct that asked |
| ownership | three walks write evidence into one table while a closure is cached across fields; a class that depends on every row about the field | the class fits all the facts; certain only if the owner frees, and when only the owner does; evidence about its own field |
| failure sets | rounds that update in place, capped; a mark for what could not be read; sets shared between functions | what a function fails with is what everything it reaches fails with; a caller's set covers its callees' |
| report, lowering | two modules decide the same question each for itself, function by function; signatures lose parameters that bodies may read; lifetimes come from the `impl` block or from a parameter | what the report says of a function is how it stands in the port; what is written can be read where it stands |
| repair | spans that come in any order and may be empty; only neighbours are compared; signs and machine widths | every repair is about its own span; refused exactly when two are not apart; a conversion that cannot fail cannot |

`PROJECT.json` lists each hazard at its line, with the properties that would
catch it going wrong.

## Modules and code

Handles are row numbers from 0, as in the code; `Has(column, row)` is
`column.get(row).is_some()` and `At(column, row)` its value, so a damaged table,
whose columns have unequal lengths, is read as the code reads it.  `NoIndex` is
`NO_INDEX`.  A constant (`Programs`, `TableSet`, `Inputs`, `Sources`, ...) is the
set of inputs a run starts from, and the theorems hold for every such set.

**Facts, FactTables.**  `Facts` has the reads.  `FactTables` has the columns of
the tables and the pushes of `build.rs`, which return the tables with rows added;
a text is the row of `strings` that holds it.

**Crawl** (`zag/src/project.rs`).  State: the worklist
`pending`, the files `found`, those `visited`, and the project.  `StartAtFile` and `StartAtScript` are
`read_from_root` and `read_from_build_script`; `Read`, `Again` and `TooMany` are
an iteration of `crawl`; `Assemble` is the rest, with names and imports.  What a
file imports and what a build script declares are inputs.  A disk, a limit, and the
order file names have are constants.

**Frontend** (`zag-frontend/src/lib.rs`).  State: the kind of declaration (`pc`)
and the file (`at`) that is next, the tables, and the indexes of types, structs
and functions by file and name.  There is one action for each loop of
`build_project`, in its order: modules, unresolved imports, artifacts, `void`,
containers, members, functions, allocator sources, calls, memory, bodies; a step
is one file, and an operator is one pass of the loop inside.  `Validate` is the call in
`zag::generate`.  A file's text is what
the reader made of it: texts are sequences of the parts between dots.  Of a body
only that there is one is kept here, its expressions are in `Translation`; sizes,
alignments and flags are left out.  `bool`, arrays and floats resolve as `u8` does.

**Validation** (`zag-facts/src/validate.rs`).  An operator for each check, the
set of the problems it reports; `Problems` is `validate` of tables that were
built, and `FileProblems` adds what only a file can get wrong: the offsets of the
strings, the columns of layouts, and the target.  The three range checks are one
operator.

**FactFile, Wire** (`zag-facts/src/wire.rs`).  `FactFile` has the two lists of
columns, kept apart as in the code, and the bytes of a file: a column is its
length and its words.  `Wire` is a file's life: `Write`, the disk (`Open`, after
which the file may be cut, changed or longer), and `decode` a column a step, with
every way it is refused.

**Intake** (`zag/src/main.rs`, `zag/src/lib.rs`) composes them.  `read` is
`FollowImports` (the steps of `Crawl`), `BuildProject`, and the steps of
`Frontend`; `emit` is `ReadFactFile` (the steps of `Wire`), `GenerateFromBytes`, and
validation.  `Crawl` and `Wire` are extended and `Frontend` is an instance over the
variables of `Intake`; `Parsed` and `Decoded` are what one hands the next.  What `read`
built is handed to validation without going through a file; that the file would say
the same is `WrittenIsRead`, which is proved for all tables that fit a file.

**Extraction, Translation** (`zag/tools/extract/main.zig`,
`zag-frontend/src/lib.rs`).  `Extraction` is the list of nodes the extractor reports
of a body.  `Translation` has one action for each kind of node `translate_node`
tells apart, and `DeclareBody` for the end of `declare_body`.  Its state is the
table of expressions, what every node became (`built`), and the types of the names
(`locals`).  A type, a container and a field are named by what they stand for.

**Lowering, Rendering** (`zag-emit/src/body.rs`, `zag-render/src/lib.rs`).
`IsSpellable` and `ReadsTheAllocator` refuse a body, `LowerExpression`,
`LowerStatements` and `LowerBody` make the syntax of it, and `Rendered` the tokens of
that.  They are functions of the finished table, as in the code.

**RustReader, Meaning, Written** have no code of the repository in them; they
are what the four are held to.  `RustReader` parses tokens by the precedence and
the statement rules of Rust.  `Meaning` is what a body does along every path, for a
Zig tree and for a Rust tree: what it decides, calls and stores in which order and
what it gives back.  Values are terms that nothing computes.  `Written` states the
properties.

**Grouping** (`call_graph.rs`, `ownership.rs`, `index.rs`).  The counting sort
that `build_call_graph`, `group_rows` and the emitter's `group` share; they
differ in whether rows that belong nowhere are filtered before or skipped
inside, and in what a loop counts down, not in what is written where.  A step is
one iteration of one of the three loops.  `GroupingInputs` has what it is given.

**CallGraph, Reach** (`call_graph.rs`, `ownership.rs`).  `AskAgain` and
`AskOther` are `closure_holds` for a field of the cached struct and of another;
`Pop`, `PassEdge` and `StampEdge` are the loops of `mark_reachable`, an edge at a
time; `Answer` reads the stamp.  The buffer, the
generation and the cached owner live across questions.

**DeinitClosure** composes `Grouping` and `Reach`: `SortCalls` is the sort of
`build_call_graph`, `Build` hands its result to the questions.  `Reach` is about any
graph `WellFormed` describes; `GraphIsTheCalls` is that the sort makes such a graph of
any calls, and of the calls and nothing else.

**AllocatorLattice, AllocatorFacts, Provenance, ChaoticProvenance**
(`provenance.rs`).  `Provenance` has one step for each iteration of the inner
loop and one for each of the outer; `ChaoticProvenance` is what it promises, any
parameter raised at any time until none can be; `RefinesChaotic` has the one
implement the other.

**OwnershipFacts, Ownership** (`ownership.rs`).  `OwnershipFacts` has the columns
the pass reads.  `Open`, `Free`, `Resize`, `Assign`, `Settle` are
a field's turn: its type, its frees, its resizes, its assignments, the decision.
Each step is an iteration of the walk.  `FreeSaid` takes a free as the answer it is
given says; taken alone, in `Free`, the answer is what `CallGraph` says is reachable.

**Analysis** (`zag-analysis/src/lib.rs`) composes them as `analyze` does.  It extends
`DeinitClosure`, and `Provenance` and `Ownership` are instances over its variables:
`Order` and `Resolve` are the graph and the allocators, `Classify` hands both to the
fields.  A free is taken in three: `AskOfFree` asks the graph about the struct of the
field and the function of the free, `MarkOn` and `AnswerIt` are the steps of `Reach`,
and `Free` takes it as the buffer answered; every other step of the fields is `Walk`.  So the
one buffer is asked what the fields ask, in their order.  `AskAnything` asks a graph
with no fields, so that any order of questions is seen on the graphs of the calls.

**Failures** (`zag-emit/src/failure.rs`).  `ReadFunction`, `Carry`, and
`NameNothing`, `NameDeclared`, `NameGenerated` are each for one
function; `RoundDone` is the end of a round.  An expression's tree is read
level by level down to `MaximumDepth`.

**Signatures, Bodies, Port** (`zag-emit/src/function.rs`, `body.rs`,
`constructor.rs`, `lower.rs`, `report.rs`, `index.rs`).  `Signatures` is what of a
function can be said in a signature: what is passed how, what it fails with, the
lifetimes it declares.  `Bodies` is whether its body, or a constructor in its
place, is written.  `Port` is the walk.  `WriteSet` is an iteration of the first
loop of `lower_module`; `PassContainer`, `WriteEnum` and `WriteStruct` (with
`lower_constructor`) are one of the second; `WriteFunction` is one of the loop of
`signatures_for`, over the functions of a struct until `MethodsWritten` and,
after `ContainersWritten`, over the free ones until `ModuleWritten` goes to the
next module of `lower`.  `ReportFunction` is an iteration of `write_functions`.
`Disposition` is `disposition`, asked by both.  The tables are taken to be
validated, with the answers of the analysis and of `Failures` in them.  A written
function is its form, how its parameters are passed, the lifetimes it declares,
and the expression of every field a constructor fills; the Rust types, the
derives, the layout assertions and the spelling of expressions are left out.
A walk down a body is asked of all rows it reaches, level by level.

**Repair** (`zag-repair/src/lib.rs`).  `Plan` is `repair_for` of one diagnostic;
`Sort`, `RefuseSpan`, `RefuseOverlap`, `Accept`, `Wrap` and `Finish` are
`apply_repairs` from top to bottom.  A byte of the source is known by its place; a
prefix and a suffix are one token each.

**Compiled** composes `Repair` with the writing of a body (`Written`) and extends both.
zag calls neither a compiler nor the repairs; they meet in a source and a
report of it, and that is all it adds.  `WriteBody` is a step of `Translation`; `Compile`
is the compiler, which is not in the repository: of a body it can read it reports one of
the operators whose sides are two integers (`Mismatches`), if there is one, and one body
stands for every other source, with any report and any list of repairs; `RepairIt` is a step of `Repair`.

Each `MC` module gives the constants values; each `Proofs` module holds the
theorems about the module it is named after.  `AnalysisProofs` has those of
`Reach`, `Grouping` and `DeinitClosure` as well, `IntakeProofs` those of `Wire` and `Crawl` and lemmas
of `Validation` and of the frontend's tables, and `FrontendProofs` goes on from it.

## Runs

| run | instance | what it shows |
|---|---|---|
| `intake` | 4 files in 2 directories, each with several choices of imports, cycles, missing files and second spellings among them, root files and build scripts, a limit of 4; projects of up to 3 files whose containers, functions, calls and allocators share names; one sound fact file cut at every place, with every byte one more, one byte longer; fact files with a changed cell, a lost row or moved ranges | one module for each file that is reached, the root on top, what is unresolved is missing, and the limit counts files; what is said of an imported name is about the declaration of that file on the disk; ranges and owners agree after every step; names resolve by scope; facts are about the function they were read from where a file's names are distinct; allocators belong to their function; such projects pass validation; what is written is read; what is accepted was read byte for byte; what validation passes is readable |
| `analysis` | call tables of 3 functions with up to 5 calls in any order, some by or to functions that do not exist, columns of unequal length, 2 or 3 structs and 3 generations; 2 and 3 parameters with every list of 3 arguments, 2 with every list of 4, chains of 4 listed from the far end, damaged tables; a field with up to 2 assignments, 2 frees and a resize, of three types, 3 fields of 2 structs freed inside and outside the closures of both, columns of unequal length | the graph is the calls, in table order, nothing outside a bucket; answers are reachability and every question is answered; the least solution, sound evidence, and the limit of rounds never reached; classes follow the facts, and confidence where they do not contradict each other; evidence tiles and is the facts |
| `failures` | 3 functions, 11 bodies, every graph of 5 calls; a chain of 5; short columns | what is inferred is what is reached; the rounds settle; the same failures, with the same mark, have the same type |
| `bodies` | every expression of up to three operators over a wide and a narrow integer, a field, an element and a literal; every builtin over one; bodies of branches, loops, switches, failures and options under every kind of return; for one of them, as a source of 3 bytes, two diagnostics over ten names of types, every list of up to three repairs over every span, inverted ones included, and of up to two with spans past the end | every row is in one place; the tokens are read as the tree they were written of; the port does what the body does; what is joined is of one integer where its sides carry a type, and no cast of the port's own narrows; each span is wrapped once and nothing else changes; refused exactly when two are not apart; no conversion loses a value |
| `port` | 1920 programs of 2 modules, 6 functions and 3 containers: 5 assignments of owners, a struct or a union, 4 of what is set in the init, 2 of failures, 8 of bodies, 3 of returns | written as reported; returns tied to a lifetime; constructors fill every field from their init; what drop takes over drop frees; names are declared once where they are looked up; bodies read only what is passed |

The bounds are chosen so that the case each property is about occurs and can
still be enumerated.  A parameter turns conflicting with two arguments, is
forwarded before it does with three, and takes a round per call only in a chain.
A stale stamp needs two structs and a question of the first after one of the
second: three generations.  A bucket between two others needs three.  A call that
follows a cycle and leaves it needs three functions.  A fourth file brings the
crawl to its limit, with nothing pending or with files that were read already.  Two files are enough for a name to mean two things, and
the third imports what the second declares under a name it has itself.
The port needs a second module for a call that has no path and a name that is
declared elsewhere.  `MaximumRounds` is 64, as in the code; `MaximumDepth` is 4 for
32 in `failures` and 3 in `port`, and the bodies have one tree that is deeper; `MaximumModules` is 4 for 4096.
A word is four digits of base 4 for 256, so `NoIndex` is 255, and every length and
cell of the fact file has a word of its own.  Three operators are what it takes to
have one bind on either side of another below a third.  A loop is taken at most
twice (`MaximumTurns`): its step runs after the first turn and before the second.
Three spans are the fewest of which two can overlap and not be neighbours, and
three bytes are enough for them to touch, nest and be empty.

Every property has a mutant in `PROJECT.json`: a change to one definition, such
as a bug in that code would make, under which TLC finds the property violated.

### What the code does not do

Each of these runs has TLC find a behaviour that a document, a comment or a test
of the repository says is not one.

| run | what it shows |
|---|---|
| `frontend_unresolved` | every file is declared before any unresolved import is added, so the ranges of all files start at 0 and validation refuses a project in which any file but the last has an unresolved import |
| `frontend_same_name` | functions are looked up by file and bare name, so of two methods of one name in a file the last is given both bodies, all calls and all frees |
| `analysis_contradiction` | a field that is freed by its owner's deinit and by something else is owned with `high` confidence, which docs/PORTING.md:84 has taken as given while line 93 has its owner found out first; README.md:154 says that evidence that contradicts itself lowers the confidence |
| `failures_unreadable` | a function that fails with a known set and with something that could not be attributed is given the known set; zag-emit/src/failure.rs:11 says it gets nothing, and the mark that says so is never asked for |
| `port_unwritten` | the methods of a union or an enum are reported as ported, and the port has no `impl` block for either |
| `bodies_read_apart` | a body is written that rustc does not read as the tree it was written of: of a function that may fail, a last call stands without a semicolon before `Ok(())` |
| `bodies_widths` | `x * (y * 1)`, of a `u32` and a `u8`, is written with no cast: the row of a bracketed side has no type, so nothing is widened on either side of it, though zag-frontend/src/lib.rs:1863 says the narrower side is written as the wider |

## Fairness

Only `analysis` has a liveness property.  `SpecAnalysis` asks weak fairness of `MarkOn`
and of `AnswerIt`: both are iterations of a loop in one thread, and a loop that can
take another iteration takes it.  Nothing obliges anyone to ask.  The other
passes are loops over a finite range, or under a limit on their rounds, and the
limits themselves are what the safety properties are about (`Converges`,
`Settles`, and the part of `WholeProject` about the limit).

## What is proved

All theorems are about every value of the constants: tables of any size, with any
handles in them, under the named assumptions of the modules, which say what a
column holds.

* **Provenance.**  `Typed` is inductive.  `Converges` needs `RoundsPaid`: every
  round that changed something raised a parameter, a parameter can be raised
  three times, so the rounds are at most three times the parameters.
  `LeastInv` adds that no class is above the least solution's, and that a round
  without a change was at a fixed point up to the current row; with it the pass
  returns the least solution.  `EvidenceInv` says of every witness that what it
  passes has only climbed since.  Every step maps to a step or a stutter of
  `ChaoticProvenance`.  `ProvenanceProofs` shows this of the pass alone.
* **Grouping.**  `GroupingInv` has a part for each pass (`CountInv`,
  `CountsInv`, `SumInv`, `FillInv`): the counts are of the rows so far, the starts
  are sums of counts, the cursors are starts plus what was placed.  That the
  starts tile gives the bounds and that nothing is overwritten.
* **DeinitClosure.**  `ClosureInv`, of the questions: everything stamped with the
  generation is reachable; everything stamped is below every closed set; all stamped
  functions that are not pending have had their callees stamped, but for the edges
  that are left of the current one.  With an empty stack the stamped functions are
  closed, so they are what is reachable.  `StackInv`: pending functions are distinct
  and stamped.  `WholeInv` joins them to `GroupingInv` of the sort: what `Build` hands
  over is a well formed graph (`Handed`), so that for every table of calls, damaged
  or not, the answers are reachability by the calls of the table.
* **Ownership.**  In `OwnershipProofs` the pass is alone, and what it is told of a
  free is reachability.  `PassInvariant` is types, tiling, what the walk remembers of
  the rows it passed, and the verdicts so far.  For the evidence itself, `Accounted`
  says what of the field's evidence the rows that have been walked call for, and
  `Kept` that nothing before it is touched again.
* **Analysis.**  The passes in their places.  Every step of the analysis is one of
  the provenance pass or leaves what is its alone, so the analysis implements the
  pass and what is proved of the pass holds of it (`AnalysisResolves`).  Until it is
  handed its facts the classification has classified nothing (`Waiting`); `Classify`
  starts it on whatever graph and whatever allocators there are, and from there on
  the invariant of the pass holds (`OwningInv`).  Nothing asks a graph before it is
  built (`Started`), and what is asked about a free are rows of the tables, there or
  not, so `WholeInv` holds of the closure whoever asks.  A free is taken by the answer
  in the buffer: the answer is about the struct and the function at hand and the graph
  is the one the fields have (`AtHand`), and it is reachability, so the step is the one
  the pass alone takes (`AnswerIsTheOwners`).  The class, the confidence and the
  evidence of a field thus follow from the tables through the sort, the rounds and the
  stamps, with none of them assumed.
* **Failures.**  `RoundInvariant`: what a function has was reached (`Sound`), and
  what a round without a change has passed is complete (`Quiet`).  `Paced` counts:
  after a number of rounds a function has at least what it reaches in as many calls.
  What can be reached can be reached without going through a function twice, so when
  there are no more functions than rounds, the rounds settle.  `NamesFit` is about the
  second loop: a set that was handed out is the set of everyone before who fails alike,
  the mark of what could not be read included.
* **Port.**  `PortInv`: the items so far are, for every row that was passed, the
  item of that row and no other, each once (`Items`, `Past`, `AsExpected`), and the
  lines of the report the same (`Lines`).  The six properties are then about one row
  at a time.  Two of them are not about everything.  `OwnFreesAreDropped` has drop free
  what a left out helper frees, and what a left out deinit frees of its own struct: a
  deinit's frees of other structs' fields are lost by the port.  `NamesResolve` has every
  container that is named be declared once, in its own module and in no other; that its
  name is looked up there leaves out a top-level name used from another module.  `IsProgram` is what is assumed of the tables: handles are in range, as
  validation has it; a function is in the module of its container, which the frontend
  builds so and validation does not ask; what a struct's own deinit frees is freed
  inside its closure, which is how the analysis finds it; and no table reaches
  `NO_INDEX`.
* **Wire**, as part of **Intake**.  `Inside`: the file is bytes, and the cursor is in
  it or at its end, because every read asks for the bytes it takes first.  `SaysSoFar`:
  the columns that have been read are what the bytes before the cursor are the
  encoding of, so a file that is accepted is the encoding of what was read.
  `AsWritten`: as long as the file is the one that was written, each column comes out
  as it went in; that none is refused needs that columns are listed once, and in one
  order on both sides.  They rest on lemmas about the digits of a word, words in a
  row, and rows of columns.  What is assumed is `Fits`: cells and lengths of columns are
  words.  Nothing checks it (`values.len() as u32`, wire.rs:27 and 34).
* **Crawl**, as part of **Intake**.  `Crawls`: what is found or pending can be reached,
  what was found is found once, and it imports nothing that is neither found nor
  pending; so when nothing is pending, what was found is what can be reached.  An
  order puts each of a finite set in a place of its own (`RankedHoldsEach`), which has
  every file become a module and the root, which is before the others, the first.
  The directory all files share is above each of them, so only the root's name is empty.
  `DisksAssumption` is that a disk is finite and that no file is called just `.zig`;
  `PrecedesAssumption`, that paths are ordered.
* **Frontend**, as part of **Intake**.  `Made`: a column is as long as its table
  (`Shaped`); the range of an owner is the rows that say they are its, and the newest
  owner's ends where the rows do (`Tile`); and a name that is remembered is a row there
  is (`Known`).  Every loop that pushes rows is a fold over an operator of its own
  (`FunctionsRead`, `MergeCalls`), so there is one lemma for what an iteration pushes
  and one for the loop.  A call is pushed for the number a function was given files
  before; that there is such a row takes `Counted`, that functions are as many as were
  declared up to here.  `Listed` is that a merged file is what the parser makes of one,
  and `Parsable` that only what lies on the disk is parsed, which comes from what is
  proved of the crawl.  `ProgramsAssumption` is that what a file declares are sequences
  and that every file on the disk has contents, `IndexAssumption` that `NoIndex` is
  above 0.  Nothing is assumed of names: they may be shared, or be of nothing.
  `Attributed`, a part of `Made`, is what `AllocatorIsOfItsFunction` takes: the first
  three sources are no parameters (`Fixed`), an allocator that was passed in belongs to
  the function it was passed in to (`PassesBelong`), and the one of an argument or an
  operation to the caller or the function of its row.  That a parameter is not pushed
  where a fixed source belongs takes `Begun`, that the three are pushed with the first
  file that is read for sources; there is one because `Listed` has at least one module.
  `Told`, the other part, is what `FactsOfDistinctFunctions` takes, where no file declares
  two functions of one name (`NamesApart`): the row of a function is of the declaration
  at its place in the listing of all, a name that is remembered is the name of the
  function it is remembered for, and of one file's functions the one that file declares
  (`NamesTold`); so a call, a free and a body are of the function that is looked up under
  its own name in its own file (`CallsTold`, `FreesTold`, `BodiesTold`).  `Indexed` has
  all names there before the first is looked up, and `Bodied` has every body that was
  passed there, and no more bodies than functions.  That is where the theorem's one
  condition comes from: a body has to have an index that is not `NO_INDEX`
  (handles.rs:1), so it is for programs with no more functions than that.
  `Scopes` is what `NamesResolveByScope` takes.  While containers are declared, those of
  the files up to here can be found by their names, each under its own file (`Homes`), and
  a file that is declared later takes none of them away; when the first member is
  declared they are all there.  So a name in a member's type is resolved to the container
  it means (`InScope`): to one of the module the alias imports, and else of the struct's
  own, the type of a field leads to it through as many rows as it was wrapped
  in, and no type's row is another type's (`TypeApart`), so it does yet when the last member has been
  declared (`Meant`).  Which module and which member a field is of is known by counting:
  fields are as many as the members of the containers declared up to here.
  The theorem's conditions are an index for every type, and that no container is named
  as a scalar or `void` (`Plain`), which Zig does not let a container be and which the code
  relies on: it resolves a scalar's name before any other.
  `ImportsAreOfTheirFile` goes on from there to the disk.  What is merged is what was
  parsed, of a crawl that is done (`Merging`); a module's imports hold, for each file that
  is reached from its own, the name that file's module was given (`Linked`, which is so
  because what was found imports nothing that was not); and a module is known by
  its name from when it is declared, as the first of that name (`Naming`).  So
  where names differ an import leads back to the file it is of.  That a field's struct is of a
  file at all, and not of the top level of a project with a script, is `Populated`.  One
  more condition is that no file imports two under one name (`AliasesDiffer`), which
  Zig does not let it: the first would be taken for both.
* **Validation**, as part of **Intake**.  `Tiles`: where the check of ranges reports
  nothing, the rows of each owner start where those of the one before it end and the
  last end with the table, so every row is in the range of some owner, of no other
  (`RowsAreHeldOnce`), and of the one its handle names.  Callers in order stand together
  (`SortedIsTogether`).  `Validated`: the tables of a file are as they were decoded, and
  nothing is done to tables that were validated.  What a file decodes to is columns of
  numbers, of whatever lengths (`FromFile`), which is `SaysSoFar` of the bytes; what a
  project is merged into is so by `Made`.  Nothing is assumed of the file.
* **Repair.**  `IInv`: the order is a bijection that sorts the spans (`Ordered`), the
  answer is what the comparison of neighbours said (`Answered`), and the writer is not
  past the next span (`AtTheCursor`).  Comparing neighbours is enough because the
  spans are sorted: what ends before its neighbour starts, ends before everything
  after that starts.  `Output` has what is written be the source with the spans up to
  here wrapped, each byte once; `PlannedFor` that a conversion is the one its
  diagnostic calls for.

Model-checked only: liveness (`EveryQuestionAnswered`); of `Intake`, `DistinctNamesValidate`;
and all of `Written`.  What the modules from `Translation` on do
to trees is written with recursive operators, which keeps them from the prover.
Liveness under fairness, and induction over what a recursive definition computes,
are outside what the prover does.

Proved without a run of their own: that classes only climb, that stamps only move
to the newest generation, that no function is pending twice, that no slot is written
twice, that the decoder stays inside its file, and that the repair's slices are in
range.

`Settles` is about programs of at most `MaximumRounds` functions: a chain of more calls
is cut off, and the code says nothing of it.

## What is not modelled

The reader of the extraction's text (it splits lines into fields), what the
extractor reports of declarations, the reflection tool, the Rust types of fields
and their layout, the items, the indentation and the line breaks the renderer
writes, the sections of the report that print what the analysis found, the dump and
the fixtures, and running rustc.  They are functions of their input whose output is
a text, and the golden tests compare it.  Of bodies: shapes the extractor reports as
unsupported are one shape; a `for` over a range, `while` with a capture, `orelse`
and `catch` are such shapes in the code as well.  Allocations are taken out of
bodies before any of this.

`bodies` is about bodies that are read as they are written, and
`Written.ReadsApart` names the shapes that are not: a last value before `Ok(())`; a loop's
body that was no block; an operator that something is read of or called on; `|`
beside `&` or a comparison, which Zig binds otherwise; a cast before `<`; a cast
that is negated; a type Rust has no name for.  `bodies_read_apart` shows that they are
written.  `SidesMeet` leaves out what `CarriesNothing` names, sides whose rows are given
no type: what is in brackets, behind a minus or a `try`, called, or chosen by a branch or
a match, and the names a loop or an arm binds; `bodies_widths` shows that integers of
two widths meet there.  It is about operators and assignments: `wrapping_add`, `min` and
`max` are calls of a method in the port, and what they are given is never widened.

Some passages are read more strictly than the code was written, or are not true of
every program, and no run is about them.  `db/store.zig` and `db_store.zig` are
both called `db_store` (zag/src/project.rs:47), and what is declared in one of them
is then not found; `ImportsAreOfTheirFile` is about projects without such names.  A file called
`.zig` beside the root is given the name of the top level (project.rs:57).
A cast is said
to be to an integer the expression is or may be (zag-frontend/src/lib.rs:1453), and
what `and` joins carries the type of what was compared, so a comparison may be cast.
Two repairs that insert at one place stay in the order they came, though
zag-repair/tests/repair.rs:98 says that order does not matter.  A slice of aligned slices is said
to be aligned itself (zag-analysis/src/ownership.rs:136, docs/PORTING.md:103).
A deinit whose frees are all taken over by drop disappears with whatever else it
does (zag-emit/src/report.rs:134); `DropFreesWhatItFreed` is about the frees of its
own.  A type of the top level is spelled without a path everywhere (lower.rs:79);
`NamesAreDeclared` has it declared once in its module, and says nothing of where it is
looked up from another.  A reference may be returned with no
lifetime to elide from, or two, when a receiver is passed by value or beside
another reference (function.rs:315); `ReturnsAreTied` is about named lifetimes.
A named struct is spelled with the lifetimes it carries (lower.rs:222), and what a
struct declares comes from its own fields' classes only (lower.rs:344), so one that
holds a borrowing struct by value does not declare the lifetime it names.
Further,
a field is said to be allocated globally when another of its allocations is from an
allocator nobody passes (docs/PORTING.md:98 and 368).  A disagreement (line 121) names the class that the first
caller passed when the second arrived, which may have changed since.

## Plan

1. That merged projects pass validation (`DistinctNamesValidate`): `Made` has the ranges
   and the lengths, the order of the names and the handles of bodies are left.
2. The Rust type of a field against its class in `lower.rs`, and the lifetimes of
   containers that hold others.

------------------------------- MODULE Intake -------------------------------
(***************************************************************************)
(* How tables come to the passes (crates/zag/src/main.rs).  `read` follows *)
(* the imports of a project (Crawl), merges the files it found (Frontend)  *)
(* and writes the tables; `emit` reads a fact file (Wire).  Either way the *)
(* tables are validated before anything else is done with them.            *)
(*                                                                         *)
(* What `read` wrote is handed to validation as it is: that the file says  *)
(* the same is WrittenIsRead, which holds of all tables that fit a file.   *)
(***************************************************************************)
EXTENDS Crawl, Wire

CONSTANTS
  NoIndex,
  Programs,       \* a disk, a request, and what every file on the disk declares
  Alias(_),       \* what the import of a path is bound to
  Sources         \* what Frontend asks for, which is made here

\* The index of no row, which Facts asks for too.
ASSUME IndexAssumption == NoIndex \in Nat \ {0}

\* What a file declares is in the order it is written in, and every file on the
\* disk is read.
IsSequence(s) == s \in Seq(ToSet(s))

IsText(text) ==
  /\ IsSequence(text.containers) /\ IsSequence(text.functions)
  /\ \A container \in ToSet(text.containers) :
       /\ IsSequence(container.members)
       /\ \A member \in ToSet(container.members) : IsSequence(member.declared.wraps)
  /\ \A f \in ToSet(text.functions) :
       /\ IsSequence(f.parameters) /\ IsSequence(f.calls) /\ IsSequence(f.initialisers)
       /\ IsSequence(f.returns.wraps)
       /\ \A parameter \in ToSet(f.parameters) : IsSequence(parameter.declared.wraps)

ASSUME ProgramsAssumption ==
  \A program \in Programs :
    /\ DOMAIN program.disk \subseteq DOMAIN program.contents
    /\ \A path \in DOMAIN program.contents : IsText(program.contents[path])

VARIABLES
  command, contents,                                  \* read only
  source, reading, at, by_name, built, problems       \* Frontend's

reader_vars == <<source, reading, at, by_name, built, problems>>
all == <<vars, reader_vars, wire_vars, command, contents>>

Reader == INSTANCE Frontend WITH pc <- reading

-----------------------------------------------------------------------------
(* What is handed on.                                                      *)

NoContents == [containers |-> << >>, functions |-> << >>]

\* The file of every module; the top level of a project with a script has none.
Files == IF request.kind = "File" THEN Ordered ELSE <<NoRoot>> \o Ordered

\* The modules as they are parsed.
Parsed ==
  [ kind      |-> "Project",
    modules   |->
      [ i \in DOMAIN Files |->
          LET module == project.modules[i]
              text   == IF Files[i] = NoRoot THEN NoContents ELSE contents[Files[i]]
          IN  [ name       |-> module.name,
                path       |-> module.path,
                imports    |-> [ j \in DOMAIN module.imports |->
                                   [ alias  |-> Alias(module.imports[j].import.text),
                                     target |-> module.imports[j].module ] ],
                unresolved |-> [ j \in DOMAIN module.unresolved |->
                                   module.unresolved[j].text ],
                containers |-> text.containers,
                functions  |-> text.functions ] ],
    artifacts |->
      [ i \in DOMAIN project.artifacts |->
          [ name |-> i,
            root |-> IF project.artifacts[i] = {} THEN NoRoot
                     ELSE CHOOSE name \in project.artifacts[i] : TRUE ] ] ]

\* What the values of a column of kinds stand for.
KindNames ==
  [ types             |->
      [ kind |-> <<"Void", "Scalar", "Scalar", "Slice", "Pointer", "Struct", "Opaque",
                   "Optional", "Array", "Scalar">> ],
    allocator_sources |-> [kind |-> <<"Global", "Arena", "Parameter", "Unknown">>],
    memory_operations |->
      [ kind  |-> <<"Allocate", "Free", "Resize">>,
        place |-> <<"FieldOfParameter", "Local", "Unknown">> ],
    field_assignments |->
      [ source |-> <<"Allocation", "Parameter", "StaticLiteral", "Unknown">> ] ]

IsOfKinds(name) == name[1] \in DOMAIN KindNames /\ name[2] \in DOMAIN KindNames[name[1]]

\* The cells of a column of the tables: a text is between two offsets, and of what a
\* parameter is only whether it is an allocator is kept.
DecodedCells(name) ==
  CASE name = <<"strings", "text">> ->
         [ i \in 1 .. Len(read.columns[<<"strings", "offsets">>]) - 1 |-> i - 1 ]
    [] name = <<"parameters", "allocator">> ->
         [ i \in DOMAIN read.columns[<<"parameters", "flags">>] |->
             read.columns[<<"parameters", "flags">>][i] % 2 = 1 ]
    [] IsOfKinds(name) ->
         [ i \in DOMAIN read.columns[name] |->
             KindNames[name[1]][name[2]][read.columns[name][i] + 1] ]
    [] OTHER -> read.columns[name]

\* The tables a fact file holds.
Decoded ==
  [ kind    |-> "File",
    target  |-> read.target,
    columns |-> read.columns,
    tables  |-> [ table \in Reader!Table |->
                    [ name \in ToSet(Reader!Columns[table]) |->
                        DecodedCells(<<table, name>>) ] ] ]

-----------------------------------------------------------------------------
NoSource == [kind |-> "None"]

ReaderIdle ==
  /\ source = NoSource /\ reading = "idle"
  /\ at = 0 /\ by_name = << >> /\ built = << >> /\ problems = {}

StartRead ==
  /\ command = "read"
  /\ \E program \in Programs :
       disk = program.disk /\ request = program.request /\ contents = program.contents
  /\ Init
  /\ ReaderIdle
  /\ written = NoTables /\ file = << >> /\ decoding = "idle"
  /\ cursor = 0 /\ column = 0 /\ read = NoTables /\ error = NoError

StartEmit ==
  /\ command = "emit"
  /\ disk = << >> /\ request = [kind |-> "File", path |-> NoRoot] /\ contents = << >>
  /\ pc = "idle" /\ pending = << >> /\ visited = {} /\ found = << >> /\ project = Nothing
  /\ ReaderIdle
  /\ WireInit

Start == StartRead \/ StartEmit

FollowImports ==
  command = "read" /\ Next /\ UNCHANGED <<reader_vars, wire_vars, command, contents>>

\* The frontend, or validation alone, starts with what it is given.
Hand(given) ==
  /\ reading = "idle"
  /\ source' = given
  /\ reading' = Reader!FirstPhase(given)
  /\ built' = Reader!NothingBuilt(given)
  /\ UNCHANGED <<vars, wire_vars, command, contents, at, by_name, problems>>

\* The files that were found are merged.
BuildProject == IsRead /\ Hand(Parsed)

ReadFactFile ==
  command = "emit" /\ WireNext /\ UNCHANGED <<vars, reader_vars, command, contents>>

\* The tables that were decoded are handed to validation.
GenerateFromBytes == decoding = "accepted" /\ Hand(Decoded)

MergeAndValidate ==
  reading # "idle" /\ Reader!Next /\ UNCHANGED <<vars, wire_vars, command, contents>>

NextIntake ==
  \/ FollowImports \/ BuildProject \/ ReadFactFile \/ GenerateFromBytes
  \/ MergeAndValidate

SpecIntake == Start /\ [][NextIntake]_all

-----------------------------------------------------------------------------
(* Properties: those of the frontend, beside the crawl's and the file's,   *)
(* and one of how the parts fit.                                           *)

RangesAreOwners == Reader!RangesAreOwners
NamesResolveByScope == Reader!NamesResolveByScope
FactsOfDistinctFunctions == Reader!FactsOfDistinctFunctions
AllocatorIsOfItsFunction == Reader!AllocatorIsOfItsFunction
ValidatedIsReadable == Reader!ValidatedIsReadable
DistinctNamesValidate == Reader!DistinctNamesValidate
BodyIsItsOwn == Reader!BodyIsItsOwn
UnresolvedImportsReachTheReport == Reader!UnresolvedImportsReachTheReport

ModuleAt(path) == (CHOOSE i \in DOMAIN Files : Files[i] = path) - 1

\* Two files whose paths come to one name: `_` is what separators become.
NamesDiffer == IsInjective([i \in DOMAIN project.modules |-> project.modules[i].name])

\* What a file says of another, by the name it imported it under, is about the
\* declaration in the file on the disk that the import is of, however the paths
\* were spelled, the files ordered and their modules named: unless two of them were
\* given one name (project.rs:44-47), when the later file's declarations are not
\* found.
ImportsAreOfTheirFile ==
  command = "read" /\ reading = "done" /\ NamesDiffer =>
    LET t == built.tables
    IN  \A row \in Reader!RowsIn(t, "fields") :
          LET name == Reader!MemberAt(row).declared.name
              from == Files[Reader!At(t.structs.module, Reader!At(t.fields.owner, row)) + 1]
              type == Reader!Unwrapped(t, Reader!At(t.fields.field_type, row),
                                       Reader!MemberAt(row).declared.wraps)
          IN  \A import \in ToSet(disk[from]) :
                Len(name) > 1 /\ Alias(import.text) = name[Len(name) - 1] =>
                  \A to \in Resolved(from, import) :
                    Reader!DeclaresContainer(ModuleAt(to), Last(name)) =>
                      Reader!IsTypeOf(t, type, ModuleAt(to), Last(name))

=============================================================================

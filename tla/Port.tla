-------------------------------- MODULE Port --------------------------------
(***************************************************************************)
(* What of a program becomes Rust: the lowering of every module to items   *)
(* (crates/zag-emit/src/lower.rs, function.rs) and the line the report has *)
(* for every function (report.rs).                                         *)
(*                                                                         *)
(* The two never speak to each other.  Each asks of every function what    *)
(* becomes of it, and the report is what a person finds the rest of the    *)
(* work by.                                                                *)
(***************************************************************************)
EXTENDS Bodies

CONSTANT Programs    \* the programs the port is made of

Modules(p) == 0 .. p.modules - 1

\* A handle is a row, for which NO_INDEX is never used; a function is in the module
\* of the container it is written in; and a field its struct's own deinit frees is
\* one the analysis found to be freed inside the closure of that deinit.
IsProgram(p) ==
  /\ p \in ProgramType
  /\ NoIndex \notin Rows(p.structs) \cup Rows(p.functions)
  /\ Len(p.failures) = Len(p.functions)
  /\ \A s \in Rows(p.structs) : Struct(p, s).module \in Modules(p)
  /\ \A f \in Rows(p.functions) :
       /\ Function(p, f).module \in Modules(p)
       /\ HasOwner(p, f) =>
            /\ OwnerOf(p, f) \in Rows(p.structs)
            /\ Struct(p, OwnerOf(p, f)).module = Function(p, f).module
       /\ Function(p, f).error_set \in Rows(p.structs) \cup {NoIndex}
       /\ At(p.failures, f).kind = "Generated" => At(p.failures, f).module \in Modules(p)
       /\ At(p.failures, f).kind = "Declared" => At(p.failures, f).set \in Rows(p.structs)
  /\ \A s \in Rows(p.structs), op \in ToSet(p.operations) :
       op.kind = "Free" /\ op.function = Struct(p, s).deinit /\ op.place_field \in FieldsOf(p, s)
         => op.place_field \in p.freed_inside

ASSUME ProgramsAssumption == \A p \in Programs : IsProgram(p)

-----------------------------------------------------------------------------
(* What becomes of a function.                                             *)

\* Mutant of DeinitDisappears: one field that drop frees is enough.
DeinitFreesSome(p, f) ==
  /\ HasOwner(p, f)
  /\ Struct(p, OwnerOf(p, f)).deinit = f
  /\ \E field \in FieldsOf(p, OwnerOf(p, f)) \cap p.freed_inside :
       At(p.class, field) \in FreedByDrop

\* `declared_deinit_disappears`: every field of its own that the deinit frees, or
\* what it calls, is one that drop frees.
DeinitDisappears(p, f) ==
  /\ HasOwner(p, f)
  /\ Struct(p, OwnerOf(p, f)).deinit = f
  /\ LET freed == FieldsOf(p, OwnerOf(p, f)) \cap p.freed_inside
     IN  /\ freed # {}
         /\ \A field \in freed : At(p.class, field) \in FreedByDrop

OperationsOf(p, f) ==
  { row \in Rows(p.operations) : At(p.operations, row).function = f }

\* `frees_and_nothing_else`.
OnlyFrees(p, f) ==
  /\ \A row \in Rows(p.assigned) : At(p.assigned, row).function # f
  /\ OperationsOf(p, f) # {}
  /\ \A row \in OperationsOf(p, f) :
       /\ At(p.operations, row).kind = "Free"
       /\ Has(p.class, At(p.operations, row).place_field)
       /\ At(p.class, At(p.operations, row).place_field) \in FreedByDrop

\* What becomes of a function, asked from module m.
Disposition(p, m, f) ==
  IF HasOwner(p, f) /\ WritableInit(p, OwnerOf(p, f)) = f THEN "Constructor"
  ELSE IF DeinitDisappears(p, f) \/ OnlyFrees(p, f)       THEN "SubsumedByDrop"
  ELSE IF SignatureRefusal(p, f) # "None"                 THEN SignatureRefusal(p, f)
  ELSE IF HasBody(p, m, f)                                THEN "Ported"
  ELSE "Signature"

-----------------------------------------------------------------------------
(* What is written of it.                                                  *)

Written(f, form, signature, values) ==
  [ function   |-> f,
    form       |-> form,
    parameters |-> signature.parameters,
    declares   |-> signature.declares,
    values     |-> values ]

NoValues == << >>

WrittenSignature(p, m, f) ==
  Written(f, IF HasBody(p, m, f) THEN "Ported" ELSE "Signature",
          Signature(p, f), NoValues)

WrittenConstructor(p, s) ==
  LET init == WritableInit(p, s)
  IN  Written(init, "Constructor", ConstructorSignature(p, init),
              [ field \in FieldsOf(p, s) |-> AssignmentFor(p, init, field) ])

\* Mutant of IsToWrite: whatever can be said in Rust is written.
CanBeSaid(p, m, owner, f) ==
  /\ OwnerOf(p, f) = owner
  /\ Function(p, f).module = m
  /\ SignatureRefusal(p, f) = "None"

\* A function with this owner, or with none, whose signature is written.
IsToWrite(p, m, owner, f) ==
  /\ OwnerOf(p, f) = owner
  /\ Function(p, f).module = m
  /\ Disposition(p, m, f) \in {"Signature", "Ported"}

\* The items of a module.  A function is in the `impl` block of its owner, and on
\* its own if it has none.
Set(name)     == [kind |-> "Set", name |-> name]
RustEnum(s)   == [kind |-> "Enum", row |-> s]
RustStruct(s) == [kind |-> "Struct", row |-> s]
RustFunction(owner, written) ==
  [kind |-> "Function", impl |-> owner, written |-> written]

-----------------------------------------------------------------------------
(* The port, and then the report.                                          *)

VARIABLES
  program,    \* what is ported
  pc,         \* what is being written
  module,     \* the module the items are of
  row,        \* the row the pass is at
  owner,      \* whose functions are being written, if they are anyone's
  port,       \* the items of every module so far
  report      \* the lines of the functions so far

vars == <<program, pc, module, row, owner, port, report>>

Init ==
  /\ program \in Programs
  /\ pc = "sets"
  /\ module = RootModule
  /\ row = 0
  /\ owner = NoIndex
  /\ port = [m \in Modules(program) |-> << >>]
  /\ report = << >>

Pass ==
  /\ row' = row + 1
  /\ UNCHANGED <<program, pc, module, owner, port, report>>

Write(item) ==
  /\ port' = [port EXCEPT ![module] = Append(@, item)]
  /\ row' = row + 1
  /\ UNCHANGED <<program, pc, module, owner, report>>

Turn(to, of) ==
  /\ pc' = to
  /\ owner' = of
  /\ row' = 0
  /\ UNCHANGED <<program, module, report>>

\* Mutant of IsToDeclare: a set is written for every function that has it.
IsOfThisModule(failing) ==
  failing.kind = "Generated" /\ failing.module = module

\* A set that was worked out is declared in its own module, and only once.
IsToDeclare(failing) ==
  /\ failing.kind = "Generated"
  /\ failing.module = module
  /\ Set(failing.name) \notin ToSet(port[module])

WriteSet ==
  /\ pc = "sets"
  /\ Has(program.failures, row)
  /\ LET failing == At(program.failures, row)
     IN  IF IsToDeclare(failing) THEN Write(Set(failing.name)) ELSE Pass

SetsWritten ==
  /\ pc = "sets"
  /\ ~ Has(program.failures, row)
  /\ Turn("containers", NoIndex)
  /\ UNCHANGED port

AtContainer == pc = "containers" /\ Has(program.structs, row)

PassContainer ==
  /\ AtContainer
  /\ Struct(program, row).module # module
  /\ Pass

\* A union and an enum are both written as a Rust enum, and that is all that is
\* written of them.
WriteEnum ==
  /\ AtContainer
  /\ Struct(program, row).module = module
  /\ Struct(program, row).kind \in {"Enum", "ErrorSet", "Union"}
  /\ Write(RustEnum(row))

\* A struct has its constructor written, if there is one, and its functions next.
WriteStruct ==
  /\ AtContainer
  /\ Struct(program, row).module = module
  /\ Struct(program, row).kind = "Struct"
  /\ port' = [port EXCEPT ![module] =
                IF WritableInit(program, row) = NoIndex
                  THEN Append(@, RustStruct(row))
                  ELSE Append(Append(@, RustStruct(row)),
                         RustFunction(row, WrittenConstructor(program, row)))]
  /\ Turn("functions", row)

WriteFunction ==
  /\ pc = "functions"
  /\ Has(program.functions, row)
  /\ IF IsToWrite(program, module, owner, row)
       THEN Write(RustFunction(owner, WrittenSignature(program, module, row)))
       ELSE Pass

\* The next container.
MethodsWritten ==
  /\ pc = "functions"
  /\ ~ Has(program.functions, row)
  /\ owner # NoIndex
  /\ pc' = "containers"
  /\ row' = owner + 1
  /\ owner' = NoIndex
  /\ UNCHANGED <<program, module, port, report>>

\* The functions that are nobody's end the module.
ContainersWritten ==
  /\ pc = "containers"
  /\ ~ Has(program.structs, row)
  /\ Turn("functions", NoIndex)
  /\ UNCHANGED port

IsLast(m) == m + 1 = program.modules

ModuleWritten ==
  /\ pc = "functions"
  /\ ~ Has(program.functions, row)
  /\ owner = NoIndex
  /\ IF IsLast(module)
       THEN pc' = "report" /\ UNCHANGED module
       ELSE pc' = "sets" /\ module' = module + 1
  /\ row' = 0
  /\ UNCHANGED <<program, owner, port, report>>

\* What is said of an `init` that became no constructor.
Explained(p, f) ==
  IF Function(p, f).name = "init" /\ HasOwner(p, f)
    THEN ConstructorRefusal(p, OwnerOf(p, f))
    ELSE [why |-> "None", field |-> NoIndex]

ReportFunction ==
  /\ pc = "report"
  /\ Has(program.functions, row)
  /\ report' = Append(report,
       [ disposition |->
           Disposition(program, Function(program, row).module, row),
         explained   |-> Explained(program, row) ])
  /\ row' = row + 1
  /\ UNCHANGED <<program, pc, module, owner, port>>

Reported ==
  /\ pc = "report"
  /\ ~ Has(program.functions, row)
  /\ Turn("done", NoIndex)
  /\ UNCHANGED port

Next ==
  \/ WriteSet
  \/ SetsWritten
  \/ PassContainer
  \/ WriteEnum
  \/ WriteStruct
  \/ WriteFunction
  \/ MethodsWritten
  \/ ContainersWritten
  \/ ModuleWritten
  \/ ReportFunction
  \/ Reported

Spec == Init /\ [][Next]_vars

-----------------------------------------------------------------------------
(* What the port is checked for.                                           *)

\* Every Rust function of a module, with the `impl` block it is in.
WrittenIn(m) == { item \in ToSet(port[m]) : item.kind = "Function" }

\* Where a function is written, and as what.
PlacesOf(f) ==
  UNION { { [module |-> m, item |-> port[m][i], at |-> i] :
              i \in { i \in DOMAIN port[m] :
                        /\ port[m][i].kind = "Function"
                        /\ port[m][i].written.function = f } } :
            m \in DOMAIN port }

InThePort == {"Constructor", "Ported", "Signature"}

Outcomes ==
  InThePort \cup
  {"SubsumedByDrop", "ReturnTypeUnresolved", "UnnamedErrorSet",
   "ReturnBorrowsAnArena", "ReturnBorrowsFromNothingPassedIn",
   "ReturnBorrowsWithNothingToTieItTo"}

\* The stages, the place in the tables and the lines of the report stay what they
\* are written to be.
TypeOK ==
  /\ pc \in {"sets", "containers", "functions", "report", "done"}
  /\ module \in Modules(program)
  /\ row \in Nat
  /\ owner \in Rows(program.structs) \cup {NoIndex}
  /\ DOMAIN port = Modules(program)
  /\ \A m \in DOMAIN port : \A item \in ToSet(port[m]) :
       item.kind \in {"Set", "Enum", "Struct", "Function"}
  /\ \A line \in ToSet(report) : line.disposition \in Outcomes

\* The functions of enums and unions, whose `impl` blocks are not written.
OfAnEnum(f) ==
  HasOwner(program, f) /\ Struct(program, OwnerOf(program, f)).kind # "Struct"

IsWrittenAs(f, outcome) ==
  IF outcome \in InThePort
    THEN \E place \in PlacesOf(f) :
           /\ PlacesOf(f) = {place}
           /\ place.item.written.form = outcome
           /\ place.module = Function(program, f).module
           /\ place.item.impl = OwnerOf(program, f)
    ELSE PlacesOf(f) = {}

\* report.rs:222, "The port and the report disagreeing about whether a body came
\* across is worse than either answer": what the report says of a function, as a
\* constructor, with its body or with a signature alone, is how it stands in the
\* port, once and in its own place; and what it says is not there is not.
WrittenAsReported ==
  pc = "done" =>
    \A f \in Rows(program.functions) :
      OfAnEnum(f) \/ IsWrittenAs(f, At(report, f).disposition)

\* The same of every function.  It does not hold: lower_module leaves an enum
\* before its `impl` block, and disposition does not ask what the owner is.
ReportedIsWritten ==
  pc = "done" =>
    \A f \in Rows(program.functions) : IsWrittenAs(f, At(report, f).disposition)

\* function.rs:432: whatever a written function returns that borrows for a named
\* lifetime, the `impl` block supplies that lifetime or the function declares it,
\* and then some parameter that is still there carries it; no function declares
\* the lifetime of an arena.
Tied(p, item) ==
  LET written  == item.written
      supplied == IF item.impl = NoIndex THEN {} ELSE Lifetimes(p, item.impl)
  IN  /\ written.form # "Constructor" =>
           LifetimesIn(p, Function(p, written.function).returns)
             \subseteq supplied \cup written.declares
      /\ written.declares \subseteq {"Borrowed"}
      /\ written.declares # {} =>
           \E i \in DOMAIN written.parameters : written.parameters[i] = "Borrowed"

ReturnsAreTied ==
  \A m \in DOMAIN port : \A item \in WrittenIn(m) : Tied(program, item)

\* constructor.rs:1: a `new` fills every field of its struct, each from what the
\* `init` it stands for assigns, with nothing in it that could not be spelled and
\* no field nobody is known to own.
FilledByItsInit(p, item) ==
  /\ DOMAIN item.written.values = FieldsOf(p, item.impl)
  /\ \A field \in DOMAIN item.written.values :
       LET value == item.written.values[field]
       IN  /\ At(p.class, field) # "Unknown"
           /\ \E a \in Rows(p.assigned) :
                /\ At(p.assigned, a).field = field
                /\ At(p.assigned, a).function = item.written.function
                /\ At(p.assigned, a).expression = value
           /\ \A below \in Under(p, value) :
                Expression(p, below).kind # "Unsupported"

ConstructorIsTheInit ==
  \A m \in DOMAIN port : \A item \in WrittenIn(m) :
    item.written.form = "Constructor" => FilledByItsInit(program, item)

\* PORTING.md:159, "only disappears when every field it frees is one the analysis
\* proved": no field a left out helper freed is left to leak, and no field of its own
\* struct a left out deinit freed.  A deinit's frees of other structs' fields are left
\* out here: report.rs:136 never asks about them, and the port loses them.
DropFreesWhatItFreed ==
  \A f \in Rows(report) :
    At(report, f).disposition = "SubsumedByDrop" =>
      LET isDeinit == HasOwner(program, f) /\ Struct(program, OwnerOf(program, f)).deinit = f
      IN  \A op \in ToSet(program.operations) :
            /\ op.function = f
            /\ op.kind = "Free"
            /\ isDeinit => op.place_field \in FieldsOf(program, OwnerOf(program, f))
            => At(program.class, op.place_field) \in FreedByDrop

\* How often a name is declared in a module.
Declarations(m, item) == Cardinality({ i \in DOMAIN port[m] : port[m][i] = item })

ContainerItem(s) ==
  IF Struct(program, s).kind = "Struct" THEN RustStruct(s) ELSE RustEnum(s)

\* The containers a written function names, its declared error set among them.
NamedBy(f) ==
  Names(program, Function(program, f).returns)
    \cup (UNION { Names(program, Parameters(program, f)[i].type) :
                    i \in DOMAIN Parameters(program, f) })
    \cup (IF Fails(program, f).kind = "Declared" THEN {Fails(program, f).set} ELSE {})

\* function.rs:195, lower.rs:82: every container a function names is declared once in
\* the module it is of and in no other, and every set once in its own; and where the
\* name is spelled with its path the container is where it is looked up.  What is at
\* the top level is spelled without a path (lower.rs:79), so a function of another
\* module looks for it in its own, where it is not.
NamesAreDeclared ==
  pc \in {"report", "done"} =>
    \A m \in DOMAIN port : \A item \in WrittenIn(m) :
      LET f == item.written.function
      IN  /\ \A s \in NamedBy(f) :
               LET home == Struct(program, s).module
               IN  /\ \A n \in DOMAIN port :
                        Declarations(n, ContainerItem(s)) = IF n = home THEN 1 ELSE 0
                   /\ home # RootModule \/ m = RootModule
                        => Declarations(LookedUpIn(m, home), ContainerItem(s)) = 1
          /\ Fails(program, f).kind = "Generated" =>
               Declarations(Fails(program, f).module, Set(Fails(program, f).name)) = 1

\* body.rs:583: no body that is written reads, at any depth, a parameter that the
\* signature above it no longer has.
BodiesReadWhatIsPassed ==
  \A m \in DOMAIN port : \A item \in WrittenIn(m) :
    item.written.form = "Ported" =>
      LET f == item.written.function
      IN  \A e \in Under(program, Function(program, f).body) :
            \A i \in DOMAIN Parameters(program, f) :
              /\ Expression(program, e).kind = "Identifier"
              /\ Expression(program, e).text = Parameters(program, f)[i].name
              => i \in DOMAIN item.written.parameters

=============================================================================

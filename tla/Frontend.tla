------------------------------ MODULE Frontend ------------------------------
(***************************************************************************)
(* What becomes of a Zig project before any pass sees it.  build_project   *)
(* (crates/zag-frontend/src/lib.rs) merges the files the crawl found into  *)
(* one set of fact tables, one kind of declaration after another and, for  *)
(* each, one file after another; a fact file is decoded into tables as it  *)
(* is.  Either way validation decides whether they are handed on.          *)
(*                                                                         *)
(* Names become handles on the way.  What a file declares is remembered    *)
(* under the file and the name, and under the name alone for whoever is    *)
(* first; what a file mentions is looked up the same way.                  *)
(***************************************************************************)
EXTENDS Validation

CONSTANT Sources    \* projects as they are parsed, and decoded fact files

\* A text of Zig is the sequence of the parts between its dots.  A type as it is
\* written is the sequence of what it is wrapped in and the text of a name.
Scalars == {"u8"}
Void == 0      \* the type that is declared before any other
Literals == { <<"null">>, <<"0">> }
GlobalAllocators == {"page_allocator"}
Allocating == {"dupe()"}
Freeing == {"free"}
Resizing == {"resize"}

VARIABLES
  source,       \* what is being read
  pc,           \* which kind of declaration is added next
  at,           \* from which file, or which artifact
  by_name,      \* the first file of every name
  built,        \* the tables so far, and what their rows are known by
  problems      \* what validation found

vars == <<source, pc, at, by_name, built, problems>>

ModuleAt(m) == source.modules[m + 1]

Positions(s) == [i \in DOMAIN s |-> i]

\* The first of some positions.
Earliest(positions) == { i \in positions : \A j \in positions : i =< j }

-----------------------------------------------------------------------------
(* Names.                                                                  *)

EmptyIndex == [scoped |-> << >>, anywhere |-> << >>]

Put(map, key, value) ==
  [k \in DOMAIN map \cup {key} |-> IF k = key THEN value ELSE map[k]]

PutIfAbsent(map, key, value) ==
  IF key \in DOMAIN map THEN map ELSE Put(map, key, value)

Remember(index, module, name, handle) ==
  [ scoped   |-> Put(index.scoped, <<module, name>>, handle),
    anywhere |-> PutIfAbsent(index.anywhere, name, handle) ]

\* Where the imports of a module are that are of a module there is.
ImportsOf(m) ==
  { i \in DOMAIN ModuleAt(m).imports : ModuleAt(m).imports[i].target \in DOMAIN by_name }

\* The module a text says its last part is in, if it says one that is read.
Qualified(m, text) ==
  LET imports == ModuleAt(m).imports
      named == { i \in ImportsOf(m) : imports[i].alias = text[Len(text) - 1] }
  IN  IF Len(text) = 1 THEN {m}
      ELSE { by_name[imports[i].target] : i \in Earliest(named) }

\* Mutant of LookUp: what a name is qualified with is not asked.
LookUpAnywhere(index, m, text) ==
  IF Last(text) \in DOMAIN index.anywhere THEN index.anywhere[Last(text)]
                                          ELSE NoIndex

LookUp(index, m, text) ==
  LET here == { <<module, Last(text)>> : module \in Qualified(m, text) }
                \cap DOMAIN index.scoped
  IN  IF here # {} THEN index.scoped[CHOOSE key \in here : TRUE]
      ELSE IF Last(text) \in DOMAIN index.anywhere
             THEN index.anywhere[Last(text)] ELSE NoIndex

-----------------------------------------------------------------------------
(* Types.  What is being built is threaded through, with the type that was *)
(* resolved last.                                                          *)

Typed(b, t) == [b EXCEPT !.tables = t, !.type = Newest(t, "types")]

PushOpaque(b, m, name) ==
  LET written == PushString(b.tables, name)
      next == Typed(b, PushType(written, "Opaque", NoIndex,
                                Newest(written, "strings"), m))
  IN  [next EXCEPT !.names = Remember(@, m, name, next.type)]

ResolveName(b, m, name) ==
  IF name \in { <<scalar>> : scalar \in Scalars }
    THEN Typed(b, PushType(b.tables, "Scalar", NoIndex, NoIndex, RootModule))
  ELSE IF name = <<"void">> THEN [b EXCEPT !.type = Void]
  ELSE IF LookUp(b.names, m, name) # NoIndex
    THEN [b EXCEPT !.type = LookUp(b.names, m, name)]
    ELSE PushOpaque(b, m, Last(name))

Wrap(b, kind) == Typed(b, PushType(b.tables, kind, b.type, NoIndex, RootModule))

\* What is written last is next to the name.
EachWrap(b, wraps) == FoldLeft(Wrap, b, wraps)

Resolve(b, m, declared) ==
  EachWrap(ResolveName(b, m, declared.name), Reverse(declared.wraps))

IsAllocator(declared) == "Allocator" \in ToSet(declared.name)

\* What is left of a type after its last dot; a name without a dot keeps what it
\* is wrapped in, which is the name of nothing.
LastSegment(wraps, name) ==
  IF wraps # << >> /\ Len(name) = 1 THEN "wrapped" ELSE Last(name)

-----------------------------------------------------------------------------
(* Declarations.  Every step adds what one file declares of one kind, and  *)
(* every loop of the code is a fold, of what one turn of it does.          *)

\* A project is merged first; the tables of a file are there.
FirstPhase(from) == IF from.kind = "Project" THEN "modules" ELSE "check"

NothingBuilt(from) ==
  [ tables    |-> IF from.kind = "Project" THEN EmptyTables ELSE from.tables,
    type      |-> NoIndex,
    names     |-> EmptyIndex,
    structs   |-> EmptyIndex,
    functions |-> EmptyIndex,
    passed_in |-> << >> ]

Init ==
  /\ source \in Sources
  /\ pc = FirstPhase(source)
  /\ at = 0
  /\ by_name = << >>
  /\ built = NothingBuilt(source)
  /\ problems = {}

Items(phase) == Len(IF phase = "artifacts" THEN source.artifacts ELSE source.modules)

\* The step for the next file, or artifact.
ForNext(phase) ==
  /\ pc = phase
  /\ at < Items(phase)
  /\ at' = at + 1
  /\ UNCHANGED <<source, pc, problems>>

DeclareModules ==
  /\ ForNext("modules")
  /\ LET Declare(t, name, path) ==
           IF at = 0 THEN NameRootModule(t, name, path)
                     ELSE DeclareModule(t, name, path)
     IN  built' = [built EXCEPT !.tables = Declare(@, ModuleAt(at).name,
                                                   ModuleAt(at).path)]
  /\ by_name' = PutIfAbsent(by_name, ModuleAt(at).name, at)

NameUnresolved(b, text) == [b EXCEPT !.tables = PushUnresolvedImport(@, at, text)]

EachUnresolved(b, texts) == FoldLeft(NameUnresolved, b, texts)

DeclareUnresolved ==
  /\ ForNext("unresolved")
  /\ built' = EachUnresolved(built, ModuleAt(at).unresolved)
  /\ UNCHANGED by_name

DeclareArtifact ==
  /\ ForNext("artifacts")
  /\ LET artifact == source.artifacts[at + 1]
         root == IF artifact.root \in DOMAIN by_name THEN by_name[artifact.root]
                                                     ELSE NoIndex
     IN  built' = [built EXCEPT !.tables = PushNamed(@, "artifacts", artifact.name,
                                                     [root |-> root])]
  /\ UNCHANGED by_name

DeclareVoid ==
  /\ pc = "void"
  /\ pc' = "containers"
  /\ LET written == PushString(built.tables, "void")
     IN  built' = [built EXCEPT !.tables =
                     PushType(written, "Void", NoIndex, Newest(written, "strings"),
                              RootModule)]
  /\ UNCHANGED <<source, at, by_name, problems>>

DeclareContainer(b, container) ==
  LET next == Typed(b, PushStructType(b.tables, container.name, at))
  IN  [next EXCEPT !.names = Remember(@, at, container.name, next.type)]

EachContainer(b, containers) == FoldLeft(DeclareContainer, b, containers)

DeclareContainers ==
  /\ ForNext("containers")
  /\ built' = EachContainer(built, ModuleAt(at).containers)
  /\ UNCHANGED by_name

DeclareMember(b, member) ==
  LET typed == Resolve(b, at, member.declared)
  IN  [typed EXCEPT !.tables = PushField(@, Newest(@, "structs"),
                                         member.name, typed.type)]

EachMember(b, members) == FoldLeft(DeclareMember, b, members)

DeclareStruct(b, container) ==
  LET opened == [b EXCEPT !.tables =
                   PushStruct(@, container.name,
                              b.names.scoped[<<at, container.name>>], at)]
      filled == EachMember(opened, container.members)
  IN  [filled EXCEPT !.structs =
         Remember(@, at, container.name, Newest(opened.tables, "structs"))]

EachStruct(b, containers) == FoldLeft(DeclareStruct, b, containers)

DeclareMembers ==
  /\ ForNext("members")
  /\ built' = EachStruct(built, ModuleAt(at).containers)
  /\ UNCHANGED by_name

DeclareSignature(b, function, f) ==
  LET typed == Resolve(b, at, f.returns)
      errors == IF f.errors = << >> THEN NoIndex ELSE LookUp(b.structs, at, f.errors)
  IN  [typed EXCEPT !.tables = SetFunctionSignature(@, function, typed.type, errors)]

DeclareParameter(b, parameter) ==
  LET typed == Resolve(b, at, parameter.declared)
  IN  [typed EXCEPT !.tables =
         PushParameter(@, Newest(@, "functions"), parameter.name, typed.type,
                       IsAllocator(parameter.declared))]

EachParameter(b, parameters) == FoldLeft(DeclareParameter, b, parameters)

DeclareFunction(b, f) ==
  LET owner == LookUp(b.structs, at, f.owner)
      opened == PushFunction(b.tables, f.name, owner, at, f.line)
      function == Newest(opened, "functions")
      signed == DeclareSignature(
                  EachParameter([b EXCEPT !.tables = opened], f.parameters),
                  function, f)
      deinit == IF f.name = "deinit" /\ owner # NoIndex
                  THEN SetCell(signed.tables, "structs", "deinit", owner, function)
                  ELSE signed.tables
  IN  [signed EXCEPT !.tables = deinit,
                     !.functions = Remember(@, at, f.name, function)]

EachFunction(b, functions) == FoldLeft(DeclareFunction, b, functions)

DeclareFunctions ==
  /\ ForNext("functions")
  /\ built' = EachFunction(built, ModuleAt(at).functions)
  /\ UNCHANGED by_name

-----------------------------------------------------------------------------
(* Allocators and calls.                                                   *)

GlobalSource == 0
ArenaSource == 1
UnknownSource == 2

PushSource(t, kind, function, index) ==
  Push(t, "allocator_sources",
       [kind |-> kind, function |-> function, parameter_index |-> index])

\* Mutant of HandleOf: the module is not asked.
HandleOfAnywhere(b, f) == b.functions.anywhere[f.name]

\* The function a name is the name of, as the passes over bodies ask for it.
HandleOf(b, f) == LookUp(b.functions, at, <<f.name>>)

\* The sources there always are, before any other.
PushFixed(t) ==
  LET Fixed(before, kind) == PushSource(before, kind, NoIndex, NoIndex)
  IN  Fixed(Fixed(Fixed(t, "Global"), "Arena"), "Unknown")

DeclareSource(f, b, i) ==
  LET t == PushSource(b.tables, "Parameter", HandleOf(b, f), i - 1)
  IN  IF IsAllocator(f.parameters[i].declared)
        THEN [b EXCEPT !.tables = t,
                       !.passed_in = Append(@,
                         [ function |-> HandleOf(b, f), index |-> i - 1,
                           source |-> Newest(t, "allocator_sources") ])]
        ELSE b

DeclareSourcesOf(b, f) ==
  FoldLeft(LAMBDA before, i : DeclareSource(f, before, i), b, Positions(f.parameters))

SourcesOfEach(b, functions) == FoldLeft(DeclareSourcesOf, b, functions)

DeclareSources ==
  /\ ForNext("sources")
  /\ LET begun == IF at > 0 THEN built ELSE [built EXCEPT !.tables = PushFixed(@)]
     IN  built' = SourcesOfEach(begun, ModuleAt(at).functions)
  /\ UNCHANGED by_name

ThroughLocals(f, text) ==
  LET found == Earliest({ i \in DOMAIN f.locals : <<f.locals[i].name>> = text })
  IN  IF found = {} THEN text ELSE f.locals[CHOOSE i \in found : TRUE].value

IsGlobal(text) == GlobalAllocators \cap ToSet(text) # {}
IsArena(text) == "ArenaAllocator" \in ToSet(text)

\* Mutant of SourcesPassed: the function is not compared.
SourcesPassedToAny(b, f, function, text) ==
  { b.passed_in[j].source :
      j \in Earliest({ j \in DOMAIN b.passed_in :
                         \E i \in DOMAIN f.parameters :
                            /\ <<f.parameters[i].name>> = text
                            /\ b.passed_in[j].index = i - 1 }) }

\* The allocator sources that are the parameter of the function a text names.
SourcesPassed(b, f, function, text) ==
  { b.passed_in[j].source :
      j \in Earliest({ j \in DOMAIN b.passed_in :
                         /\ b.passed_in[j].function = function
                         /\ \E i \in DOMAIN f.parameters :
                              /\ <<f.parameters[i].name>> = text
                              /\ b.passed_in[j].index = i - 1 }) }

ClassifyAllocator(b, f, function, text) ==
  LET origin == ThroughLocals(f, text)
      passed == SourcesPassed(b, f, function, text)
  IN  CASE IsGlobal(text) -> GlobalSource
        [] /\ ~ IsGlobal(text)
           /\ Len(text) > 1 /\ Last(text) = "allocator()"
           /\ IsArena(ThroughLocals(f, Front(text))) -> ArenaSource
        [] OTHER ->
             IF passed # {} THEN CHOOSE handle \in passed : TRUE
             ELSE IF origin # text /\ IsGlobal(origin) THEN GlobalSource
             ELSE IF origin # text /\ IsArena(origin) THEN ArenaSource
             ELSE UnknownSource

\* Functions in the order they are declared in, which is that of their handles:
\* the catalogue of parsed functions is looked up as the handles are.
AllFunctions ==
  FlattenSeq([m \in DOMAIN source.modules |-> source.modules[m].functions])

\* What was written for a parameter, which for a method starts one later.
Argument(call, target, i) ==
  LET shift == IF Len(call.callee) > 1
                    /\ Len(target.parameters) > Len(call.arguments) THEN 1 ELSE 0
  IN  { call.arguments[k] : k \in {i - shift} \cap DOMAIN call.arguments }

\* What is passed for a parameter of the function called, if it is an allocator.
PassAllocator(f, call, target, b, i) ==
  IF IsAllocator(target.parameters[i].declared) /\ Argument(call, target, i) # {}
    THEN [b EXCEPT !.tables =
            Push(@, "call_arguments",
                 [ call            |-> Newest(@, "calls"),
                   parameter_index |-> i - 1,
                   source          |->
                     ClassifyAllocator(b, f, HandleOf(b, f),
                       CHOOSE text \in Argument(call, target, i) : TRUE) ])]
    ELSE b

PassAllocators(f, call, target, b) ==
  FoldLeft(LAMBDA before, i : PassAllocator(f, call, target, before, i), b,
           Positions(target.parameters))

DeclareCall(f, b, call) ==
  LET callee == LookUp(b.functions, at, call.callee)
      target == AllFunctions[callee + 1]
      called == [b EXCEPT !.tables =
                   Push(@, "calls", [caller |-> HandleOf(b, f), callee |-> callee])]
  IN  IF callee = NoIndex THEN b
      ELSE PassAllocators(f, call, target, called)

DeclareCallsOf(b, f) ==
  FoldLeft(LAMBDA before, call : DeclareCall(f, before, call), b, f.calls)

CallsOfEach(b, functions) == FoldLeft(DeclareCallsOf, b, functions)

DeclareCalls ==
  /\ ForNext("calls")
  /\ built' = CallsOfEach(built, ModuleAt(at).functions)
  /\ UNCHANGED by_name

-----------------------------------------------------------------------------
(* Fields: what they are set to and what frees them.                       *)

AllContainers ==
  FlattenSeq([m \in DOMAIN source.modules |-> source.modules[m].containers])

\* The first container of a name, in any file.
ContainerNamed(name) ==
  { AllContainers[i] :
      i \in Earliest({ i \in DOMAIN AllContainers : AllContainers[i].name = name }) }

Declares(name, field) ==
  \E container \in ContainerNamed(name) :
    \E i \in DOMAIN container.members : container.members[i].name = field

UniqueHolder(field) ==
  LET holders == UNION { { <<i, j>> : j \in { j \in DOMAIN AllContainers[i].members :
                                               AllContainers[i].members[j].name = field } } :
                           i \in DOMAIN AllContainers }
  IN  IF Cardinality(holders) # 1 THEN {}
      ELSE { AllContainers[holder[1]].name : holder \in holders }

\* The member of that name, as it is declared in a container.
MemberNamed(container, field) ==
  { container.members[i] :
      i \in Earliest({ i \in DOMAIN container.members :
                         container.members[i].name = field }) }

\* The container every initialiser of a function fills a field of.
OwnersOfInitialisers(f) ==
  LET Of(name, field) == IF Declares(name, field) THEN {name} ELSE UniqueHolder(field)
      owner[i \in DOMAIN f.initialisers] ==
        LET field == f.initialisers[i].field
            parents == Earliest({ j \in DOMAIN f.initialisers :
                                    f.initialisers[j].node = f.initialisers[i].parent })
        IN  IF f.initialisers[i].parent = NoIndex
              THEN Of(LastSegment(f.returns.wraps, f.returns.name), field)
              ELSE UNION { UNION { UNION { Of(LastSegment(member.declared.wraps, member.declared.name),
                             field) :
                     member \in MemberNamed(container, f.initialisers[j].field) } :
                     container \in UNION { ContainerNamed(name) : name \in owner[j] } } :
                     j \in parents }
  IN  owner

FieldOf(b, name, field) ==
  LET struct == LookUp(b.structs, at, <<name>>)
      t == b.tables
      found == Earliest({ row \in Rows(t.fields.owner) :
        /\ struct # NoIndex
        /\ row >= At(t.structs.field_start, struct)
        /\ row < At(t.structs.field_start, struct) + At(t.structs.field_count, struct)
        /\ At(t.strings.text, At(t.fields.name, row)) = field })
  IN  IF found = {} THEN NoIndex ELSE CHOOSE row \in found : TRUE

PushOperation(t, function, kind, allocator, field) ==
  Push(t, "memory_operations",
       [ function |-> function, kind |-> kind, allocator |-> allocator,
         place |-> "FieldOfParameter", place_field |-> field ])

PushAssignment(t, field, function, from, operation) ==
  Push(t, "field_assignments",
       [ field |-> field, function |-> function, source |-> from,
         memory_operation |-> operation ])

DeclareInitialiser(f, b, i) ==
  LET function == HandleOf(b, f)
      owner == OwnersOfInitialisers(f)[i]
      field == FieldOf(b, CHOOSE name \in owner : TRUE, f.initialisers[i].field)
      value == f.initialisers[i].value
      resolved == ThroughLocals(f, value)
      allocator == ClassifyAllocator(b, f, function, Front(resolved))
      allocated == PushOperation(b.tables, function, "Allocate", allocator, field)
      from == IF \E j \in DOMAIN f.parameters : <<f.parameters[j].name>> = value
                THEN "Parameter"
              ELSE IF value \in Literals THEN "StaticLiteral" ELSE "Unknown"
  IN  IF owner = {} \/ field = NoIndex THEN b
      ELSE IF Last(resolved) \in Allocating
        THEN [b EXCEPT !.tables =
                PushAssignment(allocated, field, function, "Allocation",
                               Newest(allocated, "memory_operations"))]
        ELSE [b EXCEPT !.tables =
                PushAssignment(@, field, function, from, NoIndex)]

\* The container whose field a text that is freed or resized is of.  What a
\* parameter points to is looked at, what a slice is of is not.
HolderOf(f, text) ==
  LET holder == Front(text)
      parameters == Earliest({ i \in DOMAIN f.parameters : <<f.parameters[i].name>> = holder })
      locals == Earliest({ i \in DOMAIN f.locals : <<f.locals[i].name>> = holder })
      names == IF parameters # {}
                 THEN { LET declared == f.parameters[i].declared
                        IN  LastSegment(SelectSeq(declared.wraps,
                                          LAMBDA wrap : wrap = "Slice"),
                                        declared.name) : i \in parameters }
                 ELSE { Last(f.locals[i].value) : i \in locals }
  IN  { name \in names : ContainerNamed(name) # {} }

FreedField(b, f, text) ==
  LET holder == IF Len(text) > 1 THEN HolderOf(f, text) ELSE {}
  IN  IF holder = {} THEN NoIndex
      ELSE FieldOf(b, CHOOSE name \in holder : TRUE, Last(text))

DeclareFree(f, b, call) ==
  LET function == HandleOf(b, f)
      kind == IF Last(call.callee) \in Freeing THEN "Free" ELSE "Resize"
      field == FreedField(b, f, call.arguments[1])
  IN  IF \/ Last(call.callee) \notin Freeing \cup Resizing
         \/ call.arguments = << >>
         \/ field = NoIndex
        THEN b
        ELSE [b EXCEPT !.tables =
                PushOperation(@, function, kind,
                              ClassifyAllocator(b, f, function, Front(call.callee)),
                              field)]

DeclareInitialisersOf(b, f) ==
  FoldLeft(LAMBDA before, i : DeclareInitialiser(f, before, i), b,
           Positions(f.initialisers))

DeclareMemoryOf(b, f) ==
  FoldLeft(LAMBDA before, call : DeclareFree(f, before, call),
           DeclareInitialisersOf(b, f), f.calls)

MemoryOfEach(b, functions) == FoldLeft(DeclareMemoryOf, b, functions)

DeclareMemory ==
  /\ ForNext("memory")
  /\ built' = MemoryOfEach(built, ModuleAt(at).functions)
  /\ UNCHANGED by_name

-----------------------------------------------------------------------------
(* Bodies, and the end.  Of a body only the block that it is is kept.      *)

DeclareBody(b, f) ==
  LET t == Push(b.tables, "expressions", [kind |-> "Block", line |-> f.line])
  IN  IF ~ f.body THEN b
      ELSE [b EXCEPT !.tables = SetCell(t, "functions", "body", HandleOf(b, f),
                                        Newest(t, "expressions"))]

BodyOfEach(b, functions) == FoldLeft(DeclareBody, b, functions)

DeclareBodies ==
  /\ ForNext("bodies")
  /\ built' = BodyOfEach(built, ModuleAt(at).functions)
  /\ UNCHANGED by_name

Following ==
  [ modules |-> "unresolved", unresolved |-> "artifacts", artifacts |-> "void",
    containers |-> "members", members |-> "functions", functions |-> "sources",
    sources |-> "calls", calls |-> "memory", memory |-> "bodies", bodies |-> "check" ]

NextPhase ==
  /\ pc \in DOMAIN Following
  /\ at = Items(pc)
  /\ pc' = Following[pc]
  /\ at' = 0
  /\ UNCHANGED <<source, by_name, built, problems>>

Validate ==
  /\ pc = "check"
  /\ pc' = "done"
  /\ problems' = Problems(built.tables)
                   \cup (IF source.kind = "File"
                         THEN FileProblems(source.columns, source.target) ELSE {})
  /\ UNCHANGED <<source, at, by_name, built>>

Returned == pc = "done" /\ UNCHANGED vars

Next ==
  \/ DeclareModules \/ DeclareUnresolved \/ DeclareArtifact \/ DeclareVoid
  \/ DeclareContainers \/ DeclareMembers \/ DeclareFunctions \/ DeclareSources
  \/ DeclareCalls \/ DeclareMemory \/ DeclareBodies \/ NextPhase \/ Validate
  \/ Returned

Spec == Init /\ [][Next]_vars

-----------------------------------------------------------------------------
(* Properties.                                                             *)

FromProject == source.kind = "Project"
Done == pc = "done"

\* The rows that an owner's range holds.
RowsOf(t, table, start, count, owner) ==
  At(t[table][start], owner) .. Ends(t[table][start], t[table][count], owner) - 1

FieldsOf(t, struct) == RowsOf(t, "structs", "field_start", "field_count", struct)
ParametersOf(t, function) ==
  RowsOf(t, "functions", "parameter_start", "parameter_count", function)
UnresolvedOf(t, module) ==
  RowsOf(t, "modules", "unresolved_start", "unresolved_count", module)

\* A pass finds the fields of a struct by its range and the struct of a field by
\* its owner column (build.rs:343-358, tables.rs), and the two agree after every
\* declaration, whatever files are read in whatever order: so do the parameters.
\* No column ever has a row that another of its table lacks.
RangesAreOwners ==
  FromProject =>
    LET t == built.tables
    IN  /\ CheckColumnLengths(t) = {}
        /\ \A struct \in RowsIn(t, "structs") :
             FieldsOf(t, struct) = { row \in RowsIn(t, "fields") :
                                       At(t.fields.owner, row) = struct }
        /\ \A function \in RowsIn(t, "functions") :
             ParametersOf(t, function) = { row \in RowsIn(t, "parameters") :
                                             At(t.parameters.owner, row) = function }

\* The module, and the container of it, that a type is declared by.
IsTypeOf(t, type, m, name) ==
  /\ At(t.types.kind, type) = "Struct"
  /\ At(t.types.module, type) = m
  /\ At(t.strings.text, At(t.types.name, type)) = name

DeclaresContainer(m, name) ==
  \E i \in DOMAIN ModuleAt(m).containers : ModuleAt(m).containers[i].name = name

\* What is left of the type of a field under everything it is wrapped in.
Unwrapped(t, type, wraps) ==
  FoldLeft(LAMBDA outer, wrap : At(t.types.element, outer), type, wraps)

MemberAt(row) ==
  LET members == FlattenSeq([i \in DOMAIN AllContainers |-> AllContainers[i].members])
  IN  members[row + 1]

\* A bare name in a field means this file's container where it has one, and a
\* qualified one the container of the file that was imported under that name
\* ("which is the whole of cross-module name resolution", lib.rs:112-114), even
\* where files that were read earlier declare the same name.
NamesResolveByScope ==
  Done /\ FromProject =>
    LET t == built.tables
    IN  \A row \in RowsIn(t, "fields") :
          LET declared == MemberAt(row).declared
              m == At(t.structs.module, At(t.fields.owner, row))
              type == Unwrapped(t, At(t.fields.field_type, row), declared.wraps)
          IN  \A home \in Qualified(m, declared.name) :
                DeclaresContainer(home, Last(declared.name)) =>
                  IsTypeOf(t, type, home, Last(declared.name))

\* A function was read from the declaration at its place among all of them.
ReadFrom(function) == AllFunctions[function + 1]

\* The body of a function is the one that was written for it.  "A file may hold
\* several structs with a method of the same name, and matching on the bare name
\* piles all of their parameters onto whichever one was read first"
\* (program.rs:20-24).
BodyIsItsOwn ==
  Done /\ FromProject =>
    LET t == built.tables
    IN  \A function \in RowsIn(t, "functions") :
          LET body == At(t.functions.body, function)
          IN  IF ReadFrom(function).body
                THEN body # NoIndex
                     /\ At(t.expressions.line, body) = At(t.functions.line, function)
                ELSE body = NoIndex

\* No file declares two functions of one name.
NamesAreDistinct ==
  \A m \in DOMAIN source.modules :
    IsInjective([i \in DOMAIN source.modules[m].functions |->
                   source.modules[m].functions[i].name])

\* Where no file declares two functions of one name, what a function does is
\* told of the function that does it, though other files have functions of the
\* same name (lib.rs:632-633): its body, the calls it makes and what it frees.
FactsOfDistinctFunctions ==
  Done /\ FromProject /\ NamesAreDistinct =>
    LET t == built.tables
        Makes(function, name) ==
          \E i \in DOMAIN ReadFrom(function).calls :
            Last(ReadFrom(function).calls[i].callee) = name
    IN  /\ BodyIsItsOwn
        /\ \A call \in RowsIn(t, "calls") :
             Makes(At(t.calls.caller, call), ReadFrom(At(t.calls.callee, call)).name)
        /\ \A row \in RowsIn(t, "memory_operations") :
             At(t.memory_operations.kind, row) = "Free" =>
               \E name \in Freeing : Makes(At(t.memory_operations.function, row), name)

\* An allocator that a call passes on, or that something is allocated or freed
\* with, is a parameter of no function but the one that does it
\* (lib.rs:632-633, 688-728), namesakes or not.
AllocatorIsOfItsFunction ==
  Done /\ FromProject =>
    LET t == built.tables
        sources == t.allocator_sources
        BelongsTo(from, function) ==
          At(sources.kind, from) = "Parameter" => At(sources.function, from) = function
    IN  /\ \A row \in RowsIn(t, "call_arguments") :
             BelongsTo(At(t.call_arguments.source, row),
                       At(t.calls.caller, At(t.call_arguments.call, row)))
        /\ \A row \in RowsIn(t, "memory_operations") :
             BelongsTo(At(t.memory_operations.allocator, row),
                       At(t.memory_operations.function, row))

\* Tables that nothing was found wrong with, merged or decoded from a damaged
\* file, can be read without another look: every row with an owner is in the
\* range of exactly one, the calls of a function are together, an allocator that is
\* a parameter is a row of the parameters, and the bytes of a text are there.
ValidatedIsReadable ==
  Done /\ problems = {} =>
    LET t == built.tables
        calls == t.calls.caller
        HeldOnce(table, owners, RowsHeld(_)) ==
          \A row \in RowsIn(t, table) :
            Cardinality({ owner \in RowsIn(t, owners) : row \in RowsHeld(owner) }) = 1
    IN  /\ HeldOnce("fields", "structs", LAMBDA owner : FieldsOf(t, owner))
        /\ HeldOnce("parameters", "functions", LAMBDA owner : ParametersOf(t, owner))
        /\ HeldOnce("unresolved_imports", "modules", LAMBDA owner : UnresolvedOf(t, owner))
        /\ \A i, j, k \in Rows(calls) :
             i < j /\ j < k /\ At(calls, i) = At(calls, k) => At(calls, j) = At(calls, i)
        /\ \A row \in RowsIn(t, "allocator_sources") :
             At(t.allocator_sources.kind, row) = "Parameter" =>
               At(t.functions.parameter_start, At(t.allocator_sources.function, row))
                 + At(t.allocator_sources.parameter_index, row)
                 \in ParametersOf(t, At(t.allocator_sources.function, row))
                       \cap RowsIn(t, "parameters")
        /\ \/ FromProject
           \/ LET offsets == source.columns[<<"strings", "offsets">>]
              IN  \A text \in RowsIn(t, "strings") \cup ({source.target} \ {NoIndex}) :
                    At(offsets, text) =< At(offsets, text + 1)
                      /\ At(offsets, text + 1) =< Len(source.columns[<<"strings", "bytes">>])

\* A project is merged into tables that are handed on where no file declares two
\* functions of one name and every import of all files but the last was found.
DistinctNamesValidate ==
  /\ Done /\ FromProject /\ NamesAreDistinct
  /\ \A m \in 1 .. Len(source.modules) - 1 : source.modules[m].unresolved = << >>
  => problems = {}

\* "Kept so the report can say the program was read with a hole in it"
\* (project.rs:21-22): an import that reaches nothing does not keep a project
\* from the report (crates/zag/tests/project.rs:147-163).
UnresolvedImportsReachTheReport ==
  Done /\ FromProject =>
    { problem \in problems : problem.kind = "UnresolvedImportRangeMismatch" } = {}

=============================================================================

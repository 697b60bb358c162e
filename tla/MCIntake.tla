------------------------------ MODULE MCIntake ------------------------------
(***************************************************************************)
(* Instances of Intake.  Disks hold a root file, one beside it, one in a   *)
(* subdirectory and one whose name is that directory's and a file's,       *)
(*   main.zig   store.zig   db/store.zig   db_store.zig                    *)
(* with several choices of imports for each; or up to three files whose    *)
(* declarations are of interest, among them                                *)
(*                                                                         *)
(*   const store = @import("store.zig");  pub const Node = struct {...};   *)
(*   pub fn main() void {                 pub fn open(a: Allocator) ...    *)
(*       store.open(page_allocator);                                       *)
(*   }                                                                     *)
(*                                                                         *)
(* Fact files are one that is sound, what the disk may make of it, and     *)
(* ones a column of which is cut short or a cell changed.                  *)
(***************************************************************************)
EXTENDS Intake

Main == << <<"main">> >>
Store == << <<"store">> >>
Third == << <<"third">> >>
Deep == << <<"db">>, <<"store">> >>
Flat == << <<"db", "store">> >>

\* "db" < "db_store.zig" < "main.zig" < "store.zig" < "third.zig"
InOrder == <<Deep, Flat, Main, Store, Third>>
MCPrecedes(left, right) ==
  \E i, j \in DOMAIN InOrder : i < j /\ InOrder[i] = left /\ InOrder[j] = right

\* One name for each file, whatever path it is imported by.
MCAlias(text) ==
  CASE Last(text) = <<"db", "store">> -> "flat"
    [] <<"db">> \in ToSet(text)       -> "deep"
    [] Last(text) = <<"main">>        -> "main"
    [] Last(text) = <<"third">>       -> "third"
    [] OTHER                          -> "store"

File(text) == [kind |-> "File", text |-> text]
Std == [kind |-> "Compiler", text |-> << <<"std">> >>]
Package == [kind |-> "Package", text |-> << <<"some", "package">> >>]
MissingFile == File(<< <<"missing">> >>)

-----------------------------------------------------------------------------
(* What files declare.                                                     *)

Type(wraps, name) == [wraps |-> wraps, name |-> name]
Plain(name) == Type(<< >>, <<name>>)
NoValue == Plain("void")
Bytes == Type(<<"Slice">>, <<"u8">>)
Allocator == Type(<< >>, <<"std", "mem", "Allocator">>)

Member(name, declared) == [name |-> name, declared |-> declared]
Container(name, members) == [name |-> name, members |-> members]
Call(callee, arguments) == [callee |-> callee, arguments |-> arguments]
Fill(node, parent, field, value) ==
  [node |-> node, parent |-> parent, field |-> field, value |-> value]

Function(name, owner, line) ==
  [ name |-> name, owner |-> <<owner>>, line |-> line, parameters |-> << >>,
    returns |-> NoValue, errors |-> << >>, calls |-> << >>, locals |-> << >>,
    initialisers |-> << >>, body |-> TRUE ]

\* Containers: one that mentions itself, one that mentions others by their bare
\* and by their qualified name, and one that is a set of errors.
Node == Container("Node", <<Member("next", Type(<<"Optional", "Pointer">>, <<"Node">>)),
                            Member("data", Bytes)>>)
Box == Container("Box", <<Member("node", Plain("Node")),
                          Member("buf", Bytes),
                          Member("far", Type(<<"Pointer">>, <<"store", "Node">>)),
                          Member("alien", Type(<< >>, <<"std", "List">>))>>)
Failure == Container("Failure", <<Member("Lost", NoValue)>>)

\* Functions: what opens a box and closes it, and what is called the same.
Opens(line) ==
  [Function("open", "", line) EXCEPT
     !.parameters = <<Member("size", Plain("u8")), Member("gpa", Allocator)>>,
     !.returns = Plain("Box"), !.errors = <<"Failure">>,
     !.locals = << [name |-> "copy", value |-> <<"gpa", "dupe()">>] >>,
     !.initialisers = <<Fill(1, NoIndex, "buf", <<"copy">>),
                        Fill(2, NoIndex, "node", <<"null">>),
                        Fill(3, 2, "data", <<"size">>)>>]
Close(line) ==
  [Function("deinit", "Box", line) EXCEPT
     !.parameters = <<Member("self", Type(<<"Pointer">>, <<"Box">>)),
                      Member("gpa", Allocator)>>,
     !.calls = <<Call(<<"gpa", "free">>, << <<"self", "buf">> >>),
                 Call(<<"gpa", "free">>, << <<"buf">> >>)>>]
Grow(line) ==
  [Function("grow", "Box", line) EXCEPT
     !.parameters = <<Member("self", Type(<<"Pointer">>, <<"Box">>)),
                      Member("items", Type(<<"Slice">>, <<"Box">>))>>,
     !.locals = << [name |-> "arena", value |-> <<"ArenaAllocator", "init()">>] >>,
     !.calls = <<Call(<<"arena", "allocator()", "resize">>, << <<"self", "buf">> >>),
                 Call(<<"gpa", "free">>, << <<"items", "buf">> >>),
                 Call(<<"gpa", "free">>, << >>)>>,
     !.body = FALSE]
MainFunction(line) ==
  [Function("main", "", line) EXCEPT
     !.locals = << [name |-> "box", value |-> <<"store", "Box">>],
                   [name |-> "arena", value |-> <<"ArenaAllocator", "init()">>],
                   [name |-> "global", value |-> <<"std", "heap", "page_allocator">>],
                   [name |-> "wrapped", value |-> <<"ArenaAllocator">>] >>,
     !.calls = <<Call(<<"store", "open">>, << <<"1">>, <<"heap", "page_allocator">> >>),
                 Call(<<"box", "deinit">>, << <<"arena", "allocator()">> >>),
                 Call(<<"open">>, << <<"1">>, <<"global">> >>),
                 Call(<<"open">>, << <<"1">>, <<"wrapped">> >>),
                 Call(<<"gpa", "free">>, << <<"box", "buf">> >>),
                 Call(<<"open">>, << <<"1">> >>),
                 Call(<<"print">>, << >>)>>]
Through(name, line) ==
  [Function(name, "", line) EXCEPT
     !.parameters = <<Member("gpa", Allocator)>>,
     !.calls = <<Call(<<"open">>, << <<"1">>, <<"gpa">> >>)>>]

\* Methods that share a name: of a file's two structs, only one frees anything.
Namesakes ==
  <<[Close(40) EXCEPT !.name = "drop"],
    [Function("drop", "Node", 50) EXCEPT !.parameters = <<Member("gpa", Allocator)>>]>>

-----------------------------------------------------------------------------
(* Disks where the imports are of interest.                                *)

\* Every file with some of what it may import; a file is spelled in two ways.
AllDisks ==
  { Main :> main @@ Store :> store @@ Deep :> deep @@ Flat :> flat :
      main \in { << >>, <<File(Store)>>, <<Std, File(Deep), MissingFile>>,
                 <<File(Deep), File(Store), File(<<Here>> \o Store)>>,
                 <<File(Deep), Package, File(Flat)>>, <<File(Main), File(Flat)>> },
      store \in { << >>, <<File(Main)>>,
                  <<File(<<<<"db">>, Up, <<"db">>, <<"store">>>>), File(Flat)>> },
      deep \in { << >>, <<File(Store)>>, <<File(<<Up>> \o Store), File(Deep)>>,
                 <<File(<<Up, Up>> \o Main), File(<<Up>> \o Flat)>> },
      flat \in { << >>, <<File(Deep), File(Main)>> } }

Script(declared, present) ==
  [kind |-> "Script", directory |-> << >>, present |-> present, declared |-> declared]

AllRequests ==
  { [kind |-> "File", path |-> path] : path \in {Main, Deep, << <<"missing">> >>} }
    \cup { Script(declared, TRUE) :
             declared \in { << >>, <<NoRoot, MissingFile.text>>, <<Deep>>,
                            <<Store, NoRoot, <<Here>> \o Main, Store>> } }
    \cup { Script(<<Main>>, FALSE),
           [Script(<< <<Up>> \o Store >>, TRUE) EXCEPT !.directory = << <<"db">> >>] }

\* The files all declare a Thing that mentions everyone's.
Thing ==
  Container("Thing", << Member("own", Type(<<"Pointer">>, <<"Thing">>)) >> \o
    [ i \in 1 .. 4 |-> Member("far", Type(<<"Optional", "Pointer">>,
                                <<<<"store", "deep", "flat", "main">>[i], "Thing">>)) ])

EveryThing == [path \in {Main, Store, Deep, Flat} |->
                 [containers |-> <<Thing>>, functions |-> << >>]]

Importing ==
  { [disk |-> d, request |-> r, contents |-> EveryThing] :
      d \in AllDisks, r \in AllRequests }

-----------------------------------------------------------------------------
(* Disks where the declarations are.                                       *)

Contents(containers, functions) == [containers |-> containers, functions |-> functions]

RootFiles ==
  { Contents(containers, functions) :
      containers \in { << >>, <<Box, Node>> },
      functions \in { <<MainFunction(1)>>,
                      <<Opens(1), MainFunction(2), Through("pass", 3)>>,
                      <<Close(1), Opens(2)>>, Namesakes \o <<MainFunction(3)>> } }

StoreFiles ==
  { Contents(containers, functions) :
      containers \in { <<Node>>, <<Failure, Box>> },
      functions \in { << >>, <<Opens(11), Close(12), Grow(13)>>,
                      <<Through("pass", 11), MainFunction(12)>> } }

OfThird == Contents(<<Box>>, <<Through("open", 21), Close(22)>>)

Holes == { << >>, <<MissingFile>> }

FromMain == [kind |-> "File", path |-> Main]

Alone ==
  { [ disk |-> Main :> <<Std>> \o holes, request |-> FromMain, contents |-> Main :> root ] :
      root \in RootFiles, holes \in Holes }

Two(asked) ==
  { [ disk     |-> Main :> <<Std, File(Store)>> \o holes @@ Store :> lost,
      request  |-> asked,
      contents |-> Main :> root @@ Store :> store ] :
      root \in RootFiles, store \in StoreFiles, holes \in Holes,
      lost \in { << >>, <<Package, MissingFile>> } }

Three ==
  { [ disk     |-> Main :> <<File(Store), File(Third)>> @@ Store :> holes
                     @@ Third :> <<File(Store)>>,
      request  |-> FromMain,
      contents |-> Main :> root @@ Store :> store @@ Third :> OfThird ] :
      root \in RootFiles, store \in StoreFiles, holes \in Holes }

Declaring == Alone \cup Two(FromMain) \cup Two(Script(<<Main, NoRoot>>, TRUE)) \cup Three

MCPrograms == Importing \cup Declaring
MCDisks == { program.disk : program \in MCPrograms }
MCRequests == { program.request : program \in MCPrograms }

-----------------------------------------------------------------------------
(* Fact files.                                                             *)

\* A fact file nothing is wrong with: two structs of two fields, two functions
\* of one parameter and two calls.
Sound ==
  [ strings            |-> [text |-> <<"a", "b">>],
    modules            |-> [name |-> <<NoIndex, 0>>, path |-> <<NoIndex, 1>>,
                            unresolved_start |-> <<0, 0>>, unresolved_count |-> <<0, 1>>],
    unresolved_imports |-> [owner |-> <<1>>, name |-> <<0>>],
    artifacts          |-> [name |-> <<1>>, root |-> <<0>>],
    types              |-> [kind |-> <<"Void", "Struct", "Pointer">>,
                            element |-> <<NoIndex, NoIndex, 1>>,
                            module |-> <<0, 1, 0>>, name |-> <<0, 1, NoIndex>>],
    structs            |-> [name |-> <<0, 1>>, module |-> <<0, 1>>, type_id |-> <<1, 1>>,
                            field_start |-> <<0, 2>>, field_count |-> <<2, 2>>,
                            deinit |-> <<NoIndex, 1>>],
    fields             |-> [owner |-> <<0, 0, 1, 1>>, name |-> <<0, 1, 0, 1>>,
                            field_type |-> <<0, 1, 2, 0>>],
    functions          |-> [name |-> <<0, 1>>, module |-> <<0, 1>>,
                            owner |-> <<NoIndex, 1>>, parameter_start |-> <<0, 1>>,
                            parameter_count |-> <<1, 1>>, returns |-> <<0, NoIndex>>,
                            error_set |-> <<NoIndex, 0>>, line |-> <<1, 2>>,
                            body |-> <<NoIndex, NoIndex>>],
    parameters         |-> [owner |-> <<0, 1>>, name |-> <<0, 1>>,
                            parameter_type |-> <<1, 2>>, allocator |-> <<TRUE, TRUE>>],
    allocator_sources  |-> [kind |-> <<"Global", "Parameter">>,
                            function |-> <<NoIndex, 1>>,
                            parameter_index |-> <<NoIndex, 0>>],
    calls              |-> [caller |-> <<0, 1, 1>>, callee |-> <<1, 0, 1>>],
    call_arguments     |-> [call |-> <<0>>, parameter_index |-> <<0>>, source |-> <<1>>],
    memory_operations  |-> [function |-> <<1>>, kind |-> <<"Free">>, allocator |-> <<1>>,
                            place |-> <<"FieldOfParameter">>, place_field |-> <<3>>],
    field_assignments  |-> [field |-> <<3>>, function |-> <<0>>, source |-> <<"Parameter">>,
                            memory_operation |-> <<NoIndex>>],
    expressions        |-> [kind |-> << >>, line |-> << >>] ]


\* The columns of it, as they are written: a text is one byte.
Numbers(name, cells) ==
  [ i \in DOMAIN cells |->
      IF IsOfKinds(name)
        THEN LET names == KindNames[name[1]][name[2]]
             IN  (CHOOSE k \in DOMAIN names : names[k] = cells[i]) - 1
      ELSE cells[i] ]

Whole ==
  [ target  |-> 1,
    columns |->
      [ name \in Column |->
          CASE name = <<"strings", "bytes">>      -> <<1, 2>>
            [] name = <<"strings", "offsets">>    -> <<0, 1, 2>>
            [] name = <<"parameters", "flags">>   -> <<1, 3>>
            [] name[1] \in DOMAIN Sound /\ name[2] \in DOMAIN Sound[name[1]] ->
                 Numbers(name, Sound[name[1]][name[2]])
            [] name[1] = "expressions"            -> << >>
            [] OTHER -> LET table == Sound[name[1]]
                        IN  [ i \in DOMAIN table[CHOOSE c \in DOMAIN table : TRUE] |-> 0 ] ] ]

With(name, cells) == [Whole EXCEPT !.columns[name] = cells]

\* One cell that is not what it was.
Changed ==
  UNION { { With(name, [Whole.columns[name] EXCEPT ![row] = value]) :
              row \in DOMAIN Whole.columns[name], value \in {0, 1, 2, NoIndex} } :
            name \in { <<"modules", "unresolved_start">>, <<"modules", "unresolved_count">>,
                       <<"structs", "field_start">>, <<"structs", "field_count">>,
                       <<"fields", "owner">>, <<"fields", "field_type">>,
                       <<"functions", "parameter_start">>,
                       <<"functions", "parameter_count">>,
                       <<"allocator_sources", "function">>,
                       <<"allocator_sources", "parameter_index">>,
                       <<"calls", "caller">>, <<"calls", "callee">>,
                       <<"call_arguments", "call">>, <<"call_arguments", "parameter_index">>,
                       <<"memory_operations", "place_field">>, <<"strings", "offsets">> } }

\* One column that lost its last row.
Cut ==
  { With(name, Front(Whole.columns[name])) :
      name \in { name \in Column : Whole.columns[name] # << >> } }

\* The ranges of two owners that were exchanged or moved apart and back.
Shifted ==
  { [With(<<"structs", "field_start">>, starts) EXCEPT
       !.columns[<<"structs", "field_count">>] = counts] :
      starts \in { <<0, 2>>, <<2, 0>>, <<0, 0>> }, counts \in { <<2, 2>>, <<1, 3>>, <<4, 4>> } }

Empty == [target |-> 0, columns |-> [name \in Column |-> << >>]]

MCFactFiles == UNION { {Whole, Empty}, Changed, Cut, Shifted }

\* Every cut of the sound file, every byte one more, and one byte too many.
MCDamages ==
  LET n == Len(Encode(Whole))
  IN  [ tables \in MCFactFiles |->
          IF tables # Whole THEN {}
          ELSE [kind : {"Cut"}, at : 0 .. n - 1]
                 \cup [kind : {"Changed"}, at : 1 .. n, by : {1}]
                 \cup [kind : {"Longer"}, by : {0}] ]

MCMagic == <<1, 2>>
NoSources == {}

=============================================================================

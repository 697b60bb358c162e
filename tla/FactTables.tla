----------------------------- MODULE FactTables -----------------------------
(***************************************************************************)
(* The fact tables themselves (crates/zag-facts): their columns, the calls *)
(* of build.rs that add to them, and the checks of validate.rs that decide *)
(* whether a pass may be handed them.                                      *)
(*                                                                         *)
(* A table is a record of columns.  A text is the row of `strings` that    *)
(* holds it, so what the offsets of the texts are is left out, and with it *)
(* the columns that only say how something is laid out or spelled.         *)
(***************************************************************************)
EXTENDS Facts, FiniteSets, SequencesExt

\* The columns of every table, the one its rows are counted by first.
Columns ==
  [ strings            |-> <<"text">>,
    modules            |-> <<"name", "path", "unresolved_start",
                             "unresolved_count">>,
    unresolved_imports |-> <<"owner", "name">>,
    artifacts          |-> <<"name", "root">>,
    types              |-> <<"kind", "element", "module", "name">>,
    structs            |-> <<"name", "module", "type_id", "field_start",
                             "field_count", "deinit">>,
    fields             |-> <<"owner", "name", "field_type">>,
    functions          |-> <<"name", "module", "owner", "parameter_start",
                             "parameter_count", "returns", "error_set", "line",
                             "body">>,
    parameters         |-> <<"owner", "name", "parameter_type", "allocator">>,
    allocator_sources  |-> <<"kind", "function", "parameter_index">>,
    calls              |-> <<"caller", "callee">>,
    call_arguments     |-> <<"call", "parameter_index", "source">>,
    memory_operations  |-> <<"function", "kind", "allocator", "place",
                             "place_field">>,
    field_assignments  |-> <<"field", "function", "source", "memory_operation">>,
    expressions        |-> <<"kind", "line">> ]

Table == DOMAIN Columns

Count(t, table) == Len(t[table][Head(Columns[table])])

\* Every row of a table.
RowsIn(t, table) == 0 .. Count(t, table) - 1

RootModule == 0

-----------------------------------------------------------------------------
(* Building: every operation returns the tables with its rows added, and   *)
(* the handle of the row that was just added is the last one's.            *)

Push(t, table, row) ==
  [t EXCEPT ![table] = [column \in DOMAIN @ |-> Append(@[column], row[column])]]

Newest(t, table) == Count(t, table) - 1

SetCell(t, table, column, row, value) ==
  IF Has(t[table][column], row)
    THEN [t EXCEPT ![table][column][row + 1] = value]
    ELSE t

CountUp(t, table, column, row) ==
  IF Has(t[table][column], row)
    THEN [t EXCEPT ![table][column][row + 1] = @ + 1]
    ELSE t

PushString(t, text) == Push(t, "strings", [text |-> text])

\* The tables with the text added, and `row` with its handle for a name.
PushNamed(t, table, name, row) ==
  LET written == PushString(t, name)
  IN  Push(written, table,
           [column \in DOMAIN row \cup {"name"} |->
              IF column = "name" THEN Newest(written, "strings")
                                 ELSE row[column]])

EmptyTables ==
  LET none == [table \in Table |-> [column \in ToSet(Columns[table]) |-> << >>]]
  IN  Push(none, "modules", [name |-> NoIndex, path |-> NoIndex,
                             unresolved_start |-> 0, unresolved_count |-> 0])

DeclareModule(t, name, path) ==
  LET named == PushString(t, name)
      written == PushString(named, path)
  IN  Push(written, "modules",
           [ name             |-> Newest(named, "strings"),
             path             |-> Newest(written, "strings"),
             unresolved_start |-> Count(t, "unresolved_imports"),
             unresolved_count |-> 0 ])

NameRootModule(t, name, path) ==
  LET named == PushString(t, name)
      written == PushString(named, path)
  IN  [written EXCEPT !.modules.name[1] = Newest(named, "strings"),
                      !.modules.path[1] = Newest(written, "strings")]

PushUnresolvedImport(t, owner, name) ==
  CountUp(PushNamed(t, "unresolved_imports", name, [owner |-> owner]),
          "modules", "unresolved_count", owner)

PushType(t, kind, element, name, module) ==
  Push(t, "types",
       [kind |-> kind, element |-> element, name |-> name, module |-> module])

PushStructType(t, name, module) ==
  LET written == PushString(t, name)
  IN  PushType(written, "Struct", NoIndex, Newest(written, "strings"), module)

\* Mutant of PushStruct: the range starts where the struct before it does.
PushStructLate(t, name, type, module) ==
  PushNamed(t, "structs", name,
            [ module      |-> module,
              type_id     |-> type,
              field_start |-> Count(t, "structs"),
              field_count |-> 0,
              deinit      |-> NoIndex ])

PushStruct(t, name, type, module) ==
  PushNamed(t, "structs", name,
            [ module      |-> module,
              type_id     |-> type,
              field_start |-> Count(t, "fields"),
              field_count |-> 0,
              deinit      |-> NoIndex ])

PushField(t, owner, name, type) ==
  CountUp(PushNamed(t, "fields", name, [owner |-> owner, field_type |-> type]),
          "structs", "field_count", owner)

PushFunction(t, name, owner, module, line) ==
  PushNamed(t, "functions", name,
            [ module          |-> module,
              owner           |-> owner,
              parameter_start |-> Count(t, "parameters"),
              parameter_count |-> 0,
              returns         |-> NoIndex,
              error_set       |-> NoIndex,
              line            |-> line,
              body            |-> NoIndex ])

\* Mutant of PushParameter: the function's count is left as it was.
PushParameterUncounted(t, owner, name, type, allocator) ==
  PushNamed(t, "parameters", name,
            [owner |-> owner, parameter_type |-> type, allocator |-> allocator])

PushParameter(t, owner, name, type, allocator) ==
  CountUp(PushNamed(t, "parameters", name,
                    [owner |-> owner, parameter_type |-> type,
                     allocator |-> allocator]),
          "functions", "parameter_count", owner)

SetFunctionSignature(t, function, returns, errors) ==
  SetCell(SetCell(t, "functions", "returns", function, returns),
          "functions", "error_set", function, errors)

=============================================================================

----------------------------- MODULE Validation -----------------------------
(***************************************************************************)
(* validate.rs: what is wrong with a set of fact tables.  Every check is   *)
(* the set of the problems it reports; tables with none are handed to the  *)
(* passes.                                                                 *)
(***************************************************************************)
EXTENDS FactTables

\* A problem and where it is.  Rows are counted by the first column.
Problem(kind, table, row) == [kind |-> kind, table |-> table, row |-> row]

CheckColumnLengths(t) ==
  { Problem("ColumnLengthMismatch", table, NoIndex) :
      table \in { table \in Table :
                    \E column \in ToSet(Columns[table]) :
                      Len(t[table][column]) # Count(t, table) } }

\* Which table the handles of a column are rows of.
Required(table, column, target) ==
  [table |-> table, column |-> column, target |-> target, optional |-> FALSE]
Optional(table, column, target) ==
  [table |-> table, column |-> column, target |-> target, optional |-> TRUE]

References ==
  { Optional("modules", "name", "strings"),
    Optional("modules", "path", "strings"),
    Required("unresolved_imports", "owner", "modules"),
    Required("unresolved_imports", "name", "strings"),
    Required("artifacts", "name", "strings"),
    Optional("artifacts", "root", "modules"),
    Required("types", "module", "modules"),
    Optional("types", "element", "types"),
    Optional("types", "name", "strings"),
    Required("structs", "module", "modules"),
    Required("functions", "module", "modules"),
    Required("structs", "name", "strings"),
    Required("structs", "type_id", "types"),
    Optional("structs", "deinit", "functions"),
    Required("fields", "owner", "structs"),
    Required("fields", "name", "strings"),
    Required("fields", "field_type", "types"),
    Required("functions", "name", "strings"),
    Optional("functions", "owner", "structs"),
    Optional("functions", "returns", "types"),
    Optional("functions", "error_set", "structs"),
    Required("parameters", "owner", "functions"),
    Required("parameters", "name", "strings"),
    Required("parameters", "parameter_type", "types"),
    Optional("allocator_sources", "function", "functions"),
    Required("calls", "caller", "functions"),
    Required("calls", "callee", "functions"),
    Required("call_arguments", "call", "calls"),
    Required("call_arguments", "source", "allocator_sources"),
    Required("memory_operations", "function", "functions"),
    Optional("memory_operations", "allocator", "allocator_sources"),
    Optional("memory_operations", "place_field", "fields"),
    Required("field_assignments", "field", "fields"),
    Required("field_assignments", "function", "functions"),
    Optional("field_assignments", "memory_operation", "memory_operations") }

Dangles(t, ref, handle) ==
  /\ handle # NoIndex \/ ~ ref.optional
  /\ handle >= Count(t, ref.target)

CheckHandles(t) ==
  UNION { { Problem("HandleOutOfRange", ref.table, row) :
              row \in { row \in Rows(t[ref.table][ref.column]) :
                          Dangles(t, ref, At(t[ref.table][ref.column], row)) } } :
            ref \in References }

\* The ranges of a column of starts and one of counts.  The check stops at the
\* first owner that lacks either or whose range ends past the last index.
Ends(starts, counts, owner) == At(starts, owner) + At(counts, owner)

Ranged(owners, starts, counts, owner) ==
  /\ owner < owners
  /\ Has(starts, owner)
  /\ Has(counts, owner)

EndsInside(starts, counts, owner) == Ends(starts, counts, owner) =< NoIndex

\* Every owner before this one was passed.
Passed(owners, starts, counts, owner) ==
  \A before \in 0 .. owner - 1 :
    /\ Ranged(owners, starts, counts, before)
    /\ EndsInside(starts, counts, before)

ExpectedStart(starts, counts, owner) ==
  IF owner = 0 THEN 0 ELSE Ends(starts, counts, owner - 1)

\* Mutant of CheckRanges: only the total is compared.
CheckRangeTotal(kind, table, owners, starts, counts, rows) ==
  { Problem(kind, table, owner) :
      owner \in { owner \in {owners} :
                    /\ Passed(owners, starts, counts, owners)
                    /\ ExpectedStart(starts, counts, owners) # rows } }

CheckRanges(kind, table, owners, starts, counts, rows) ==
  { Problem(kind, table, owner) :
      owner \in { owner \in 0 .. owners :
        /\ Passed(owners, starts, counts, owner)
        /\ IF owner = owners
             THEN ExpectedStart(starts, counts, owner) # rows
             ELSE /\ Ranged(owners, starts, counts, owner)
                  /\ \/ At(starts, owner) # ExpectedStart(starts, counts, owner)
                     \/ ~ EndsInside(starts, counts, owner) } }

\* The rows of a column that are lower than the one before them.
Descents(column) ==
  { row \in Rows(column) : row > 0 /\ At(column, row) < At(column, row - 1) }

CheckFieldRanges(t) ==
  LET owners == Count(t, "structs")
      starts == t.structs.field_start
      counts == t.structs.field_count
  IN  CheckRanges("FieldRangeMismatch", "structs", owners, starts, counts,
                  Count(t, "fields"))
        \cup { Problem("FieldsNotGroupedByOwner", "fields", row) :
                 row \in { row \in Descents(t.fields.owner) :
                             Passed(owners, starts, counts, owners) } }

CheckParameterRanges(t) ==
  CheckRanges("ParameterRangeMismatch", "functions", Count(t, "functions"),
              t.functions.parameter_start, t.functions.parameter_count,
              Count(t, "parameters"))

CheckModuleRanges(t) ==
  IF Count(t, "modules") = 0
    THEN IF Count(t, "structs") # 0 \/ Count(t, "functions") # 0
           THEN { Problem("NoRootModule", "modules", 0) } ELSE {}
    ELSE CheckRanges("UnresolvedImportRangeMismatch", "modules",
                     Count(t, "modules"), t.modules.unresolved_start,
                     t.modules.unresolved_count,
                     Count(t, "unresolved_imports"))

NamesAParameter(t, function, index) ==
  /\ Has(t.functions.parameter_count, function)
  /\ index < At(t.functions.parameter_count, function)

CheckParameterIndices(t) ==
  LET sources == t.allocator_sources
      arguments == t.call_arguments
      callee(row) == At(t.calls.callee, At(arguments.call, row))
  IN  { Problem("ParameterIndexOutOfRange", "allocator_sources", row) :
          row \in { row \in Rows(sources.kind) :
            /\ At(sources.kind, row) = "Parameter"
            /\ Has(sources.function, row) /\ Has(sources.parameter_index, row)
            /\ ~ NamesAParameter(t, At(sources.function, row),
                                 At(sources.parameter_index, row)) } }
      \cup
      { Problem("ParameterIndexOutOfRange", "call_arguments", row) :
          row \in { row \in Rows(arguments.call) :
            /\ Has(t.calls.callee, At(arguments.call, row))
            /\ Has(arguments.parameter_index, row)
            /\ ~ NamesAParameter(t, callee(row),
                                 At(arguments.parameter_index, row)) } }

CheckPlaces(t) ==
  LET operations == t.memory_operations
  IN  { Problem("PlaceWithoutField", "memory_operations", row) :
          row \in { row \in Rows(operations.place) :
            /\ At(operations.place, row) = "FieldOfParameter"
            /\ ~ Has(operations.place_field, row)
                 \/ At(operations.place_field, row) = NoIndex } }

CheckCallOrder(t) ==
  { Problem("CallsNotSortedByCaller", "calls", row) :
      row \in Descents(t.calls.caller) }

-----------------------------------------------------------------------------
(* What a file has and the tables here leave out: its columns by the names *)
(* of a table and a column.                                                *)

\* Columns that only say how something is laid out are as long as their table's.
CheckLayout(columns) ==
  { Problem("ColumnLengthMismatch", table, NoIndex) :
      table \in { table \in Table \ {"strings"} :
                    \E name \in DOMAIN columns \ { <<"expressions", "children">> } :
                      name[1] = table /\ Len(columns[name]) #
                                           Len(columns[<<table, Head(Columns[table])>>]) } }

\* Where each text starts among the bytes, and where the last one ends.
CheckStrings(bytes, offsets) ==
  IF offsets = << >>
    THEN { Problem("StringBlobNotFullyCovered", "strings", 0) : b \in ToSet(bytes) }
    ELSE { Problem("StringOffsetsNotMonotonic", "strings", row) :
             row \in Descents(offsets) \cup { row \in {0} : Head(offsets) # 0 } }
         \cup { Problem("StringOffsetOutOfRange", "strings", row) :
                  row \in { row \in Rows(offsets) \ {0} : At(offsets, row) > Len(bytes) } }
         \cup { Problem("StringBlobNotFullyCovered", "strings", row) :
                  row \in { row \in {Last(offsets)} : row # Len(bytes) } }

\* The name of the target is a text or is not there.
CheckTarget(target, offsets) ==
  { Problem("HandleOutOfRange", "tables", 0) :
      handle \in { handle \in {target} \ {NoIndex} : handle + 1 >= Len(offsets) } }

FileProblems(columns, target) ==
  CheckLayout(columns) \cup CheckTarget(target, columns[<<"strings", "offsets">>])
    \cup CheckStrings(columns[<<"strings", "bytes">>], columns[<<"strings", "offsets">>])

Problems(t) ==
  UNION { CheckColumnLengths(t), CheckHandles(t), CheckFieldRanges(t),
          CheckParameterRanges(t), CheckModuleRanges(t),
          CheckParameterIndices(t), CheckPlaces(t), CheckCallOrder(t) }

=============================================================================

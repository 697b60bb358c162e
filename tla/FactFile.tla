------------------------------ MODULE FactFile ------------------------------
(***************************************************************************)
(* What a fact file is (crates/zag-facts/src/wire.rs): a magic, a version, *)
(* a target, and every column of every table as its length and its words.  *)
(* Nothing in it says which column is which but the order they come in,    *)
(* which the code spells out once for writing and once for reading.        *)
(*                                                                         *)
(* A word is four digits, the lowest first.  The code's base is 256.       *)
(***************************************************************************)
EXTENDS Naturals, Sequences, SequencesExt

CONSTANTS
  Base, Magic, Version,
  FactFiles,    \* the tables that are written: [target, columns]
  Damages       \* for each, what may become of its file before it is read

-----------------------------------------------------------------------------
(* The columns, as they are written and as they are read.                  *)

Of(table, names) == [i \in DOMAIN names |-> <<table, names[i]>>]

TextBytes == <<"strings", "bytes">>
Strings == Of("strings", <<"bytes", "offsets">>)

WriteModules ==
  Of("modules", <<"name", "path", "unresolved_start", "unresolved_count">>)
    \o Of("unresolved_imports", <<"owner", "name">>)
    \o Of("artifacts", <<"name", "root", "kind">>)
WriteTypes ==
  Of("types", <<"kind", "element", "count", "module", "name", "size", "alignment",
                "bit_width", "flags">>)
WriteStructs ==
  Of("structs", <<"name", "module", "type_id", "field_start", "field_count", "size",
                  "alignment", "flags", "deinit", "kind">>)
WriteFields == Of("fields", <<"owner", "name", "field_type", "offset">>)
WriteFunctions ==
  Of("functions", <<"name", "module", "owner", "parameter_start", "parameter_count",
                    "returns", "error_set", "flags", "line", "body">>)
    \o Of("parameters", <<"owner", "name", "parameter_type", "flags">>)
WriteSides ==
  Of("allocator_sources", <<"kind", "function", "parameter_index">>)
    \o Of("calls", <<"caller", "callee">>)
    \o Of("call_arguments", <<"call", "parameter_index", "source">>)
    \o Of("memory_operations", <<"function", "kind", "allocator", "place", "place_field">>)
    \o Of("expressions", <<"kind", "text", "parameter", "result", "field", "line",
                           "child_start", "child_count", "children">>)
    \o Of("field_assignments", <<"field", "function", "source", "memory_operation",
                                 "expression", "line">>)

ReadModules ==
  Of("modules", <<"name", "path", "unresolved_start", "unresolved_count">>)
    \o Of("unresolved_imports", <<"owner", "name">>)
    \o Of("artifacts", <<"name", "root", "kind">>)
ReadTypes ==
  Of("types", <<"kind", "element", "count", "module", "name", "size", "alignment",
                "bit_width", "flags">>)
ReadStructs ==
  Of("structs", <<"name", "module", "type_id", "field_start", "field_count", "size",
                  "alignment", "flags", "deinit", "kind">>)
ReadFields == Of("fields", <<"owner", "name", "field_type", "offset">>)

\* Mutant of ReadFunctions: the line of a function is read before its flags.
ReadFunctionsSwapped ==
  Of("functions", <<"name", "module", "owner", "parameter_start", "parameter_count",
                    "returns", "error_set", "line", "flags", "body">>)
    \o Of("parameters", <<"owner", "name", "parameter_type", "flags">>)

ReadFunctions ==
  Of("functions", <<"name", "module", "owner", "parameter_start", "parameter_count",
                    "returns", "error_set", "flags", "line", "body">>)
    \o Of("parameters", <<"owner", "name", "parameter_type", "flags">>)
ReadCalls ==
  Of("allocator_sources", <<"kind", "function", "parameter_index">>)
    \o Of("calls", <<"caller", "callee">>)
    \o Of("call_arguments", <<"call", "parameter_index", "source">>)
ReadMemory ==
  Of("memory_operations", <<"function", "kind", "allocator", "place", "place_field">>)
    \o Of("expressions", <<"kind", "text", "parameter", "result", "field", "line",
                           "child_start", "child_count", "children">>)
    \o Of("field_assignments", <<"field", "function", "source", "memory_operation",
                                 "expression", "line">>)

WriteOrder ==
  Strings \o WriteModules \o WriteTypes \o WriteStructs \o WriteFields
    \o WriteFunctions \o WriteSides

ReadOrder ==
  Strings \o ReadModules \o ReadTypes \o ReadStructs \o ReadFields
    \o ReadFunctions \o ReadCalls \o ReadMemory

Column == ToSet(WriteOrder)

\* How many values a column has that says what kind a row is of.
Kinds ==
  (<<"types", "kind">> :> 10) @@ (<<"structs", "kind">> :> 4)
    @@ (<<"artifacts", "kind">> :> 3) @@ (<<"allocator_sources", "kind">> :> 4)
    @@ (<<"memory_operations", "kind">> :> 3) @@ (<<"memory_operations", "place">> :> 3)
    @@ (<<"expressions", "kind">> :> 27) @@ (<<"field_assignments", "source">> :> 4)

Unknown(name, value) == name \in DOMAIN Kinds /\ value >= Kinds[name]

-----------------------------------------------------------------------------
(* Writing.                                                                *)

WordBytes == 4

\* A length past the last word loses its highest digits.
Word(value) ==
  <<value % Base, (value \div Base) % Base, (value \div (Base * Base)) % Base,
    (value \div (Base * Base * Base)) % Base>>

WriteColumn(name, values) ==
  Word(Len(values)) \o (IF name = TextBytes THEN values
                        ELSE FlattenSeq([i \in DOMAIN values |-> Word(values[i])]))

Encode(tables) ==
  Magic \o Word(Version) \o Word(tables.target)
    \o FlattenSeq([i \in DOMAIN WriteOrder |->
                     WriteColumn(WriteOrder[i], tables.columns[WriteOrder[i]])])

-----------------------------------------------------------------------------
(* What is written.                                                        *)

Byte == 0 .. Base - 1
Words == 0 .. Base * Base * Base * Base - 1

\* What a row of a column may say: a kind is one of those there are.
Cell(name) ==
  { value \in IF name = TextBytes THEN Byte ELSE Words : ~ Unknown(name, value) }

\* Tables that fit a file.  The length of a column has to be a word as well, which
\* nothing checks (wire.rs:27 and 34).
Fits(tables) ==
  /\ tables \in [target : Words, columns : [Column -> Seq(Nat)]]
  /\ \A name \in Column :
       /\ tables.columns[name] \in Seq(Cell(name))
       /\ Len(tables.columns[name]) \in Words

Damage ==
  [kind : {"Cut"}, at : Nat] \cup [kind : {"Changed"}, at : Nat, by : Nat]
    \cup [kind : {"Longer"}, by : Byte]

ASSUME FormatAssumption ==
  /\ Base \in Nat \ {0}
  /\ Magic \in Seq(Byte)
  /\ Version \in Words
  /\ \A tables \in FactFiles : Fits(tables) /\ Damages[tables] \subseteq Damage

=============================================================================

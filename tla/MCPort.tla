------------------------------- MODULE MCPort -------------------------------
(***************************************************************************)
(* Programs of two files for the port.  The top level has a struct with an *)
(* init, a deinit, a helper and a view, and an error set; the other file   *)
(* has a container with a method, and a free function.                     *)
(***************************************************************************)
EXTENDS Port

None == 99

Row(type, kind) == [kind |-> kind, element |-> type]

\* 0 void, 1 the struct, 2 a pointer to it, 3 a slice of 4, 4 an integer,
\* 5 the other container, 6 a pointer to it, 7 an optional slice.
MCTypes ==
  << Row(None, "Void"), Row(None, "Struct"), Row(1, "Pointer"), Row(4, "Slice"),
     Row(None, "Integer"), Row(None, "Struct"), Row(5, "Pointer"), Row(3, "Optional") >>

Leaf(kind, text) ==
  [kind |-> kind, text |-> text, children |-> << >>, field |-> None,
   result |-> None, callee |-> None]

Above(kind, text, children) == [Leaf(kind, text) EXCEPT !.children = children]

MCExpressions(callee) ==
  << Leaf("Parameter", ""),                                            \* 0
     Leaf("Literal", "1"),                                             \* 1
     Leaf("Unsupported", ""),                                          \* 2
     Above("Cast", "u32", <<2>>),                                      \* 3
     Above("Block", "", <<5>>), Above("Return", "", <<6>>),            \* 4, 5
     Leaf("Identifier", "source"),                                     \* 6
     Above("Block", "", <<8>>), Above("Return", "", <<9>>),            \* 7, 8
     Leaf("Identifier", "allocator"),                                  \* 9
     Above("Block", "", <<11>>), Above("Let", "taken", <<12>>),        \* 10, 11
     [Leaf("Field", "bytes") EXCEPT !.field = 0],                      \* 12
     Above("Block", "", <<14>>),                                       \* 13
     [Leaf("Call", "") EXCEPT !.callee = callee],                      \* 14
     Above("Block", "", <<16>>), Above("Return", "", <<17>>),          \* 15, 16
     Above("Operator", "", <<9>>),                                     \* 17
     Above("Block", "", <<19>>), Above("Method", "at", <<6, 20>>),     \* 18, 19
     Leaf("Literal", "0"),                                             \* 20
     Above("Block", "", <<22, 23>>),                                   \* 21
     [Above("StructLiteral", "", <<24>>) EXCEPT !.result = 1],         \* 22
     Above("StructLiteral", "", << >>),                                \* 23
     [Above("StructLiteral", "", <<6>>) EXCEPT !.field = 0] >>         \* 24

Parameter(name, type) == [name |-> name, type |-> type, allocator |-> name = "allocator"]

Zig(name, home, of, returns, parameters, body) ==
  [name |-> name, module |-> home, owner |-> of, returns |-> returns,
   error_set |-> None, fallible |-> FALSE, parameters |-> parameters, body |-> body]

\* What differs: who owns the fields, what the other container is, what the init
\* and the helper set, how functions fail, and what the view returns and does.
Classes ==
  { <<"Owned", "Value", "Value">>,   <<"Owned", "Unknown", "Borrowed">>,
    <<"Grown", "Borrowed", "Value">>, <<"Owned", "Arena", "Borrowed">>,
    <<"Owned", "Grown", "Borrowed">> }

Sets(function, field, expression) ==
  [function |-> function, field |-> field, expression |-> expression]

Assignments ==
  { << Sets(2, 0, 1), Sets(0, 0, 0), Sets(0, 1, 1) >>,
    << Sets(0, 0, 0), Sets(0, 1, 1) >>,
    << Sets(0, 0, 0), Sets(0, 1, 3) >>,
    << Sets(0, 0, 0) >> }

Nothing == [kind |-> "Nothing"]
Generated(name, home) == [kind |-> "Generated", name |-> name, module |-> home]

FailuresOf ==
  { << Generated("InitError", 0), Nothing, Nothing, Generated("InitError", 0),
       Generated("MakeError", 1), Generated("MakeError", 1) >>,
    << Nothing, Nothing, Nothing, [kind |-> "Declared", set |-> 2],
       Nothing, Generated("InitError", 0) >> }

Bodies == { <<4, 5>>, <<7, 5>>, <<10, 5>>, <<13, 5>>, <<13, 0>>, <<15, 5>>,
            <<18, 5>>, <<21, 5>> }

Fresh(class) == { i \in 0 .. 1 : class[i + 1] \in {"Owned", "Grown", "Unknown"} }

Frees(function, field) ==
  [function |-> function, kind |-> "Free", place_field |-> field]

Program(class, kind, assigned, failures, body, returns) ==
  [ modules |-> 2,
    types   |-> MCTypes,
    structs |->
      << [kind |-> "Struct", module |-> 0, type_id |-> 1,
          field_start |-> 0, field_count |-> 2, deinit |-> 1],
         [kind |-> kind, module |-> 1, type_id |-> 5,
          field_start |-> 2, field_count |-> 1, deinit |-> None],
         [kind |-> "ErrorSet", module |-> 0, type_id |-> None,
          field_start |-> 3, field_count |-> 0, deinit |-> None] >>,
    class   |-> class,
    freed_inside |-> Fresh(class),
    functions |->
      << [Zig("init", 0, 0, 1, << Parameter("allocator", 0), Parameter("source", 3) >>, None)
            EXCEPT !.fallible = TRUE],
         Zig("deinit", 0, 0, 0, << Parameter("self", 2), Parameter("allocator", 0) >>, 7),
         Zig("release", 0, 0, 0, << Parameter("self", 2) >>, 10),
         Zig("view", 0, 0, returns, << Parameter("self", 2), Parameter("allocator", 0) >>, body[1]),
         Zig("hit", 1, 1, 6, << Parameter("self", 6) >>, 13),
         [Zig("make", 1, None, 5, << Parameter("source", 3), Parameter("allocator", 0) >>, body[1])
            EXCEPT !.fallible = TRUE] >>,
    failures |-> failures,
    assigned |-> assigned,
    operations |->
      << Frees(2, 0) >> \o (IF 1 \in Fresh(class) THEN << Frees(1, 1) >> ELSE << >>),
    expressions |-> MCExpressions(body[2]) ]

\* 1 borrows what its own struct does, 3 is a slice, 5 may borrow what the other
\* container does.
MCPrograms ==
  { Program(class, kind, assigned, failures, body, returns) :
      class \in Classes, kind \in {"Struct", "Union"}, assigned \in Assignments,
      failures \in FailuresOf, body \in Bodies, returns \in {1, 3, 5} }

=============================================================================

----------------------------- MODULE MCFailures -----------------------------
(***************************************************************************)
(* Instances of Failures.                                                  *)
(***************************************************************************)
EXTENDS Failures

MCNoIndex == 99

None == MCNoIndex

\* The bodies there are, each the root of a tree, and what they are made of.
\*   0 Io.Closed   1 Parse.Empty   2 try f1()   4 try list.append()
\*   6 try file.seek()   8 what could not be read, with a `try` in it
\*  10 try store.run()  13 { Io.Closed; try list.append() }
\*  14 { { try store.run() } }, which goes too deep   16 try of nothing
Kinds ==
  <<"Identifier", "Identifier", "Question", "Call", "Question", "Method",
    "Question", "Method", "Unsupported", "Identifier", "Question", "Method",
    "Identifier", "Other", "Other", "Other", "Question">>
Texts ==
  << <<"Io", "Closed">>, <<"Parse", "Empty">>, << >>, <<"f1">>, << >>,
     <<"append">>, << >>, <<"seek">>, <<"try", "x">>, <<"list">>, << >>,
     <<"run">>, <<"store">>, << >>, << >>, << >>, << >> >>
Children ==
  << << >>, << >>, <<3>>, << >>, <<5>>, <<9>>, <<7>>, <<9>>, << >>, << >>,
     <<11>>, <<12>>, << >>, <<0, 4>>, <<15>>, <<10>>, <<40>> >>

\* Nothing, except for the one row that is given.
Only(e, value) == [i \in 1 .. 17 |-> IF i = e + 1 THEN value ELSE None]

\* Structs 0 and 1 are error sets that share a variant, struct 2 has a method
\* `run`, and its type is behind the pointer that is type 0.
Program(names, owners, bodies, sets, calls, allocating) ==
  [ kind        |-> Kinds,
    text        |-> Texts,
    parameter   |-> Only(3, 1),
    result      |-> Only(12, 0),
    children    |-> Children,
    type_kind   |-> <<"Other", "Struct">>,
    element     |-> <<1, None>>,
    struct_name |-> <<"Io", "Parse", "Store">>,
    struct_kind |-> <<"ErrorSet", "ErrorSet", "Other">>,
    struct_type |-> <<None, None, 1>>,
    variants    |-> << <<"Closed", "Empty">>, <<"Empty">>, << >> >>,
    name        |-> names,
    owner       |-> owners,
    module      |-> [i \in DOMAIN names |-> 0],
    body        |-> bodies,
    error_set   |-> sets,
    fallible    |-> [i \in DOMAIN names |-> TRUE],
    caller      |-> [i \in DOMAIN calls |-> calls[i][1]],
    callee      |-> [i \in DOMAIN calls |-> calls[i][2]],
    operation   |-> [i \in DOMAIN allocating |-> "Allocate"],
    function    |-> allocating ]

Three(bodies, sets, calls, allocating) ==
  Program(<<"run", "f1", "f2">>, <<2, None, None>>, bodies, sets, calls, allocating)

Calls == << <<0, 1>>, <<1, 2>>, <<2, 0>>, <<1, 0>>, <<0, 9>> >>

\* Some of the first so many of those calls.
SomeCalls(n) ==
  { SelectSeq(Calls, LAMBDA call : call \in chosen) :
      chosen \in SUBSET ToSet(SubSeq(Calls, 1, n)) }

\* Every body once, under every graph of calls.
EveryBody ==
  { Three(<<None, b, c>>, <<None, None, None>>, calls, << >>) :
      b \in {None, 0, 1, 2, 4, 6, 8, 10, 13, 14, 16}, c \in {None, 4},
      calls \in SomeCalls(5) }

\* Declared sets and functions that are known to allocate.
EverySet ==
  { Three(<<None, 0, c>>, <<a, None, d>>, calls, allocating) :
      c \in {None, 1, 10}, a \in {None, 1}, d \in {None, 0, 2},
      calls \in SomeCalls(3), allocating \in { << >>, <<2>> } }

\* A chain that each round follows one call of.
Chain(length) ==
  Program([i \in 1 .. length |-> "step"], [i \in 1 .. length |-> None],
          [i \in 1 .. length |-> IF i = length THEN 0 ELSE None],
          [i \in 1 .. length |-> None],
          [i \in 1 .. length - 1 |-> <<i - 1, i>>], << >>)

\* Columns that are too short.
Ragged ==
  { [p EXCEPT !.body = <<0>>] : p \in {Chain(3)} } \cup
  { [p EXCEPT !.error_set = << >>, !.owner = << >>] : p \in {Chain(3)} } \cup
  { [p EXCEPT !.fallible = <<TRUE>>, !.callee = <<1>>] : p \in {Chain(3)} } \cup
  { [p EXCEPT !.variants = << >>, !.text = SubSeq(@, 1, 2)] : p \in {Chain(3)} }

AllPrograms ==
  UNION {EveryBody, EverySet, Ragged, { Chain(n) : n \in {0, 1, 5} }}

=============================================================================

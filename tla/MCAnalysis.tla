----------------------------- MODULE MCAnalysis -----------------------------
(***************************************************************************)
(* Instances of Analysis.  Call tables with nothing passed, whose graphs   *)
(* are asked anything; tables of arguments, whose calls are sorted and     *)
(* resolved; and tables of fields, which are classified by both.           *)
(***************************************************************************)
EXTENDS Analysis, SequencesExt

MCNoIndex == 99

-----------------------------------------------------------------------------
(* Calls: three functions and up to five calls in any order, some by or to *)
(* functions that do not exist, and columns that differ in length.         *)

Table(functions, caller, callee, deinit) ==
  [ functions |-> functions, caller |-> caller, callee |-> callee, deinit |-> deinit ]

\* Two structs whose deinits are the first two functions.
TwoDeinits ==
  { Table(3, caller, callee, <<0, 1>>) :
      caller \in { <<2, 0, 1, 0>>, <<1, 1, 0, 2>>, <<3, 0, 0, 1>>, <<2, 2, 1, 3>> },
      callee \in { <<0, 1, 2, 1>>, <<1, 2, 0, 3>>, <<2, 0, 2, 1>>, <<3, 2, 1, 1>>,
                   <<1, 0, 2, 2>> } }

\* Every recursion there is between two functions, and a third that is called or not.
Recursions ==
  { Table(3, <<1, 0, 2, 1, 0>>, <<a, b, c, d, e>>, <<1, 0>>) :
      a \in {0, 1}, b \in 0 .. 2, c \in {0, 2, 3}, d \in {1, 2}, e \in {0, 1} }

\* A struct with a deinit, one without, and one whose deinit does not exist.
SomeDeinits ==
  { Table(3, caller, callee, <<2, MCNoIndex, 7>>) :
      caller \in { <<1, 2, 0, 2>>, <<2, 1, 2, 1>>, <<2, 2, 0, 1>> },
      callee \in { <<1, 0, 2, 1>>, <<0, 2, 1, 0>>, <<2, 1, 2, 3>>, <<1, 3, 0, 0>> } }

\* Calls that have no callee, callees that have no caller, and no functions at all.
DamagedCalls ==
  { Table(2, <<1, 0, 0>>, <<0, 0>>, <<0, 1>>), Table(2, <<1, 0>>, <<0, 1, 1>>, <<1, 0>>),
    Table(1, <<0, 0, 0>>, <<0>>, <<0>>), Table(0, <<0, 1>>, <<0, 0>>, <<0, MCNoIndex>>) }

CallsAlone == TwoDeinits \cup Recursions \cup SomeDeinits \cup DamagedCalls

\* Nothing is passed in any of the calls.
NothingPassed(t) ==
  [ parameters |-> 0, parameter_start |-> << >>, parameter_count |-> << >>,
    callee |-> t.callee, call |-> << >>, parameter_index |-> << >>,
    source |-> << >>, kind |-> << >>, function |-> << >>, index |-> << >> ]

-----------------------------------------------------------------------------
(* Arguments: functions that each take one allocator parameter.  Call i    *)
(* calls function i, so a call argument row is the pair of the call it     *)
(* belongs to and the source it passes.                                    *)

Forwards(parameters, kinds, functions, rows) ==
  [ parameters      |-> parameters,
    parameter_start |-> [f \in 1 .. parameters |-> f - 1],
    parameter_count |-> [f \in 1 .. parameters |-> 1],
    callee          |-> [c \in 1 .. parameters |-> c - 1],
    call            |-> [i \in DOMAIN rows |-> rows[i][1]],
    parameter_index |-> [i \in DOMAIN rows |-> 0],
    source          |-> [i \in DOMAIN rows |-> rows[i][2]],
    kind            |-> kinds,
    function        |-> functions,
    index           |-> [i \in DOMAIN kinds |-> 0] ]

\* Two parameters and three arguments, every source resolvable.
Kinds2 == <<"Global", "Arena", "Parameter", "Parameter">>
Functions2 == <<99, 99, 0, 1>>
Forwarding ==
  { Forwards(2, Kinds2, Functions2, rows) : rows \in [1 .. 3 -> (0..1) \X (0..3)] }

\* Three parameters and three arguments, with a row whose call does not exist,
\* a source of kind Unknown, one that names a function that does not exist and
\* one past the end of the table.
Kinds3 == <<"Global", "Arena", "Parameter", "Parameter", "Parameter",
            "Unknown", "Parameter">>
Functions3 == <<99, 99, 0, 1, 2, 99, 7>>
DamagedSources ==
  { Forwards(3, Kinds3, Functions3, <<a, b, c>>) :
      a, b \in {0, 1, 3} \X {0, 2, 3, 5, 6, 7}, c \in (0..1) \X {1, 3, 5} }

\* A chain of four parameters listed from the far end, so that every round
\* carries the answer one call further: the slowest the fixed point can be.
FarChain ==
  { Forwards(4, <<"Global", "Arena", "Parameter", "Parameter", "Parameter",
                 "Parameter">>,
            <<99, 99, 0, 1, 2, 3>>, rows) :
    rows \in { <<a, b, c, <<0, d>>, <<0, e>> >> :
                 a, b, c \in { <<1, 2>>, <<2, 3>>, <<3, 4>> },
                 d \in {0, 5}, e \in {0, 1} } }

\* Columns of unequal length, which the pass skips past or calls conflicting.
RaggedSources ==
  { [t EXCEPT !.source = << >>] : t \in FarChain } \cup
  { [t EXCEPT !.parameter_index = SubSeq(@, 1, 2)] : t \in FarChain } \cup
  { [t EXCEPT !.index = SubSeq(@, 1, 3)] : t \in FarChain } \cup
  { [t EXCEPT !.parameter_start = <<0, 1, 9, 3>>] : t \in FarChain } \cup
  { [t EXCEPT !.parameter_count = <<1, 0, 1>>] : t \in FarChain }

\* Four arguments: a parameter may be forwarded before it turns conflicting.
Stale ==
  { Forwards(2, Kinds2, Functions2, <<a, b, c, d>>) :
    a, b, c, d \in {0, 1} \X {0, 1, 2} }

Forwarded ==
  { t : t \in Forwarding \cup Stale \cup DamagedSources \cup FarChain \cup RaggedSources }

\* Each of them is called, by the one before it; there are no structs.
CallsInTurn(n) ==
  Table(n, [c \in 1 .. n |-> (c + n - 2) % n], [c \in 1 .. n |-> c - 1], << >>)

-----------------------------------------------------------------------------
(* Fields: what is classified once the calls are sorted and resolved.      *)

\* Struct 0 has function 0 for its deinit and struct 1 has function 2; function
\* 0 calls the functions in a, function 2 those in b.
GraphOf(a, b) ==
  [ edge_start  |-> <<0, Len(a), Len(a), Len(a) + Len(b)>>,
    edge_target |-> a \o b,
    deinit      |-> <<0, 2>> ]

\* A slice, a scalar, an optional slice, an aligned slice, a slice of those.
Types == [ kind    |-> <<"Slice", "Other", "Optional", "Slice", "Slice">>,
           element |-> <<1, MCNoIndex, 0, 1, 3>>,
           aligned |-> <<FALSE, FALSE, FALSE, TRUE, FALSE>> ]

\* Rows of the operation table: a kind, a field and a function.
Op(kind, f, function) == [k |-> kind, f |-> f, fn |-> function]

\* Rows of the assignment table: a source, a field and, for an allocation, the
\* operation that made it, which is the row with the same number.
Put(source, f, allocator) == [s |-> source, f |-> f, al |-> allocator]

Column(rows, Part(_)) == [i \in 1 .. Len(rows) |-> Part(rows[i])]

\* The operation table holds the allocation of every assignment, then ops.
FactsOf(graph, owners, types, ops, puts) ==
  [ graph            |-> graph,
    field_owner      |-> owners,
    field_type       |-> types,
    type_kind        |-> Types.kind,
    element          |-> Types.element,
    over_aligned     |-> Types.aligned,
    operation        |-> Column(puts, LAMBDA q : "Allocate")
                           \o Column(ops, LAMBDA o : o.k),
    place            |-> Column(puts, LAMBDA q : "FieldOfParameter")
                           \o Column(ops, LAMBDA o : "FieldOfParameter"),
    place_field      |-> Column(puts, LAMBDA q : q.f)
                           \o Column(ops, LAMBDA o : o.f),
    function         |-> Column(puts, LAMBDA q : 1)
                           \o Column(ops, LAMBDA o : o.fn),
    allocator        |-> Column(puts, LAMBDA q : q.al),
    assigned         |-> Column(puts, LAMBDA q : q.f),
    source           |-> Column(puts, LAMBDA q : q.s),
    assigned_in      |-> Column(puts, LAMBDA q : 1),
    memory_operation |-> [i \in 1 .. Len(puts) |-> i - 1],
    resolved         |-> <<"Global", "Arena", "Unset", "Conflicting", "Global">> ]

Upto(n, S) == UNION { [1 .. k -> S] : k \in 0 .. n }

\* One field with everything that can be said about it.
AnyPut ==
  { Put("Allocation", 0, allocator) : allocator \in {0, 1, 2, 3, 7} }
    \cup { Put(source, 0, 7) : source \in {"Parameter", "StaticLiteral",
                                           "Unknown"} }
AnyFrees ==
  { << >> } \cup { <<Op("Free", 0, a)>> : a \in 1 .. 2 }
    \cup { <<Op("Free", 0, a), Op("Free", 0, 3 - a)>> : a \in 1 .. 2 }
AnyResizes == { << >>, <<Op("Resize", 0, 1)>> }

OneField ==
  { FactsOf(GraphOf(<<1>>, << >>), <<0>>, <<type>>, resizes \o frees, puts) :
      type \in {0, 2, 4}, resizes \in AnyResizes, frees \in AnyFrees,
      puts \in Upto(2, AnyPut) }

\* Three fields of two structs, freed here and there; the fields of a struct
\* need not be together, and the rows about them are in no order.
Freed(f) == { << >> } \cup { <<Op("Free", f, a)>> : a \in 0 .. 3 }
              \cup { <<Op("Free", f, 1), Op("Free", f, 2)>> }

TwoStructs ==
  { FactsOf(GraphOf(a, b), owners, <<0, 0, 2>>, third \o first \o second,
            <<Put("Allocation", 2, 0), Put("Allocation", 0, 0)>>) :
      a \in {<<1>>, <<2>>}, b \in { << >>, <<0>>, <<1>>, <<3>> },
      owners \in { <<0, 1, 0>>, <<1, 0, 0>>, <<0, 1, 7>> },
      first \in Freed(0), second \in Freed(1),
      third \in { <<Op("Free", 2, a)>> : a \in 1 .. 2 } }

\* Columns of unequal length, as a damaged fact file has them.
RaggedFacts ==
  { [ FactsOf(GraphOf(<<1>>, << >>), <<0, 0>>, <<0, kind>>,
              <<Op("Free", 0, 1), Op("Resize", 1, 2)>>, puts)
      EXCEPT !.field_type = SubSeq(@, 1, types),
             !.function   = SubSeq(@, 1, functions),
             !.source     = SubSeq(@, 1, sources),
             !.allocator  = SubSeq(@, 1, allocators),
             !.place      = SubSeq(@, 1, places) ] :
      kind \in {1, 3}, types \in 0 .. 2, functions \in 1 .. 4,
      sources \in 0 .. 2, allocators \in 0 .. 1, places \in 2 .. 4,
      puts \in { <<Put("Allocation", 0, 0), Put("Parameter", 1, 7)>>,
                 <<Put("StaticLiteral", 1, 7), Put("Allocation", 1, 1)>> } }

AllFacts == { p : p \in OneField \cup TwoStructs \cup RaggedFacts }

\* The calls of GraphOf, those of function 0 first.
CallsOfGraph(a, b) ==
  Table(3, [i \in DOMAIN a |-> 0] \o [i \in DOMAIN b |-> 2], a \o b, <<0, 2>>)

\* Function a is passed the heap by the first call; of the sources it is the first,
\* an arena, what nobody passes and what nobody knows come after it.
Passed(a, b) ==
  [ NothingPassed(CallsOfGraph(<<a>>, b)) EXCEPT
      !.parameters = 2, !.parameter_start = <<0, 0, 1>>,
      !.parameter_count = <<0, 1, 1>>,
      !.call = <<0>>, !.parameter_index = <<0>>, !.source = <<4>>,
      !.kind = <<"Parameter", "Arena", "Parameter", "Unknown", "Global">>,
      !.function = <<a, MCNoIndex, 3 - a, MCNoIndex, MCNoIndex>>,
      !.index = <<0, 0, 0, 0, 0>> ]

Callers == {1, 2}
Callees_ == { << >>, <<0>>, <<1>>, <<3>> }

-----------------------------------------------------------------------------
MCCallTables ==
  { t : t \in CallsAlone \cup { CallsInTurn(n) : n \in 2 .. 4 }
               \cup { CallsOfGraph(<<a>>, b) : a \in Callers, b \in Callees_ } }

MCTableSet ==
  { t : t \in { NothingPassed(calls_) : calls_ \in CallsAlone } \cup Forwarded
               \cup { Passed(a, b) : a \in Callers, b \in Callees_ } }

MCInputs == { CallRows(t) : t \in MCCallTables }

MCPrograms == { NoProgram }

=============================================================================

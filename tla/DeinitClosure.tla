---------------------------- MODULE DeinitClosure ----------------------------
(***************************************************************************)
(* The deinit closure of the ownership pass, from the call table on: the   *)
(* calls are sorted by caller (Grouping), their callees laid out in that   *)
(* order are the call graph, and the graph answers the questions (Reach).  *)
(***************************************************************************)
EXTENDS Reach, GroupingInputs

CONSTANT CallTables   \* functions, the calls column by column, and the deinits

CallTableType ==
  [ functions : Nat, caller : Seq(Nat), callee : Seq(Nat), deinit : Seq(Nat) ]

ASSUME CallTablesAssumption == CallTables \subseteq CallTableType

VARIABLES
  calls,                                        \* the tables, read only
  input, counts, start, cursor, grouped, at,    \* the sort's
  sorting,                                      \* its pc
  built                                         \* the graph is there to be asked

sort_vars == <<input, counts, start, cursor, grouped, at, sorting>>
all == <<vars, sort_vars, calls, built>>

Sort == INSTANCE Grouping WITH pc <- sorting

-----------------------------------------------------------------------------
\* A call is its caller's; one that has no callee is nobody's.
Nobody(t) == t.functions

CallRows(t) ==
  [ buckets |-> t.functions,
    owners  |-> [i \in DOMAIN t.caller |->
                   IF Has(t.callee, i - 1) THEN t.caller[i] ELSE Nobody(t)] ]

NoProgram == [ edge_start |-> <<0>>, edge_target |-> << >>, deinit |-> << >> ]

StartClosure ==
  /\ calls \in CallTables
  /\ input = CallRows(calls)
  /\ Sort!Init
  /\ program = NoProgram
  /\ Init
  /\ built = FALSE

SortCalls == Sort!Next /\ UNCHANGED <<vars, calls, built>>

\* Mutant of Graph: the calls are taken in the order of the table.
GraphInTableOrder ==
  [ edge_start  |-> [i \in 1 .. calls.functions + 1 |-> start[i - 1]],
    edge_target |-> [i \in 1 .. Cardinality(DOMAIN grouped) |-> calls.callee[i]],
    deinit      |-> calls.deinit ]

\* The graph that came out of the sort.
Graph ==
  [ edge_start  |-> [i \in 1 .. calls.functions + 1 |-> start[i - 1]],
    edge_target |-> [i \in 1 .. Cardinality(DOMAIN grouped) |->
                       At(calls.callee, grouped[i - 1])],
    deinit      |-> calls.deinit ]

\* The graph and a stamp buffer of its size are handed to the classification.
Build ==
  /\ sorting = "done" /\ ~ built
  /\ program' = Graph
  /\ stamp' = [f \in 0 .. calls.functions - 1 |-> 0]
  /\ built' = TRUE
  /\ UNCHANGED <<owner, generation, pending, edge, edge_end, asked, answer, pc>>
  /\ UNCHANGED <<sort_vars, calls>>

-----------------------------------------------------------------------------
(* Properties.                                                             *)

\* The calls of a function, where a call is one of both columns.
CallsOf(f) ==
  { row \in Rows(calls.caller) :
      At(calls.caller, row) = f /\ Has(calls.callee, row) }

\* The edges of a function are its calls, each once and in the order of the table.
EdgesAreCalls(f) ==
  \E call \in [Callees(program, f) -> CallsOf(f)] :
    /\ \A row \in CallsOf(f) : \E e \in DOMAIN call : call[e] = row
    /\ \A e1, e2 \in DOMAIN call : e1 < e2 => call[e1] < call[e2]
    /\ \A e \in DOMAIN call : At(program.edge_target, e) = At(calls.callee, call[e])

\* Every call the tables hold, and no other, is an edge of the graph the questions
\* are asked of, in the order of the table: the graph is what Reach asks of one, and
\* calls by functions that do not exist and calls without a callee are no edges
\* (call_graph.rs:11-42).
GraphIsTheCalls ==
  built =>
    /\ WellFormed(program)
    /\ FunctionIds(program) = 0 .. calls.functions - 1
    /\ \A f \in FunctionIds(program) : EdgesAreCalls(f)

\* Rows are written inside the bucket they belong to, in the sort of the whole.
WritesInsideBucket == Sort!WritesInsideBucket

\* The sort returns every caller's calls in the order of the table.
StableGroups == Sort!StableGroups

=============================================================================

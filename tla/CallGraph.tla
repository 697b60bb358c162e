----------------------------- MODULE CallGraph -----------------------------
(***************************************************************************)
(* The call graph crates/zag-analysis/src/call_graph.rs builds, the deinit *)
(* every struct declares, and what such a deinit reaches.                  *)
(***************************************************************************)
EXTENDS Facts

\* The call graph is compressed sparse row: the callees of a function are the
\* targets between its start and the next one.
ProgramType ==
  [ edge_start : Seq(Nat), edge_target : Seq(Nat), deinit : Seq(Nat) ]

FunctionIds(p) == 0 .. Len(p.edge_start) - 2

\* The edges of a function, as build_call_graph lays them out.
Callees(p, f) == At(p.edge_start, f) .. At(p.edge_start, f + 1) - 1

\* A graph whose edges are all in the table.
WellFormed(p) ==
  /\ p \in ProgramType
  /\ Len(p.edge_start) >= 1
  /\ \A f \in FunctionIds(p) : Callees(p, f) \subseteq Rows(p.edge_target)

-----------------------------------------------------------------------------
\* The deinit of a struct that has one.
Deinit(p, o) == IF Has(p.deinit, o) THEN At(p.deinit, o) ELSE NoIndex

\* Where the closure starts: nowhere when the struct declares no deinit, or one
\* that is not a function.
Roots(p, o) == {Deinit(p, o)} \cap FunctionIds(p)

Calls(p, f, g) == \E e \in Callees(p, f) : At(p.edge_target, e) = g

\* A set of functions nothing in it calls out of.
Closed(p, inside) ==
  \A f \in inside, g \in FunctionIds(p) : Calls(p, f, g) => g \in inside

\* What a struct's deinit reaches: the least closed set it is in.
Reached(p, o) ==
  { f \in FunctionIds(p) :
      \A inside \in SUBSET FunctionIds(p) :
        Roots(p, o) \subseteq inside /\ Closed(p, inside) => f \in inside }

=============================================================================

--------------------------- MODULE AllocatorFacts ---------------------------
(***************************************************************************)
(* What crates/zag-analysis/src/provenance.rs reads from the fact tables:  *)
(* the parameter and the class every call argument stands for.             *)
(***************************************************************************)
EXTENDS Facts, AllocatorLattice

CONSTANT TableSet      \* the fact tables the pass may be handed

SourceKind == {"Global", "Arena", "Parameter", "Unknown"}

\* The columns the pass reads, and the number of rows in `parameters`.
FactTables ==
  [ parameters      : Nat,
    parameter_start : Seq(Nat),   \* functions
    parameter_count : Seq(Nat),
    callee          : Seq(Nat),   \* calls
    call            : Seq(Nat),   \* call_arguments
    parameter_index : Seq(Nat),
    source          : Seq(Nat),
    kind            : Seq(SourceKind),   \* allocator_sources
    function        : Seq(Nat),
    index           : Seq(Nat) ]

\* A handle is a u32, so no table has more rows than NO_INDEX.
ASSUME TableSetAssumption ==
  \A t \in TableSet : t \in FactTables /\ t.parameters =< NoIndex

-----------------------------------------------------------------------------
(* The reads.                                                              *)

Slots(t) == 0 .. t.parameters - 1

GlobalParameterIndex(t, function, parameter_index) ==
  IF /\ function # NoIndex
     /\ parameter_index # NoIndex
     /\ Has(t.parameter_start, function)
     /\ Has(t.parameter_count, function)
     /\ parameter_index < At(t.parameter_count, function)
     /\ At(t.parameter_start, function) + parameter_index < t.parameters
  THEN At(t.parameter_start, function) + parameter_index
  ELSE NoIndex

\* The parameter an allocator source names, or NoIndex.
SourceSlot(t, source) ==
  IF Has(t.function, source) /\ Has(t.index, source)
  THEN GlobalParameterIndex(t, At(t.function, source), At(t.index, source))
  ELSE NoIndex

\* Mutant of ClassOfSource: the kind is taken for the class it looks like.
ClassOfSourceCasts(t, classes, source) ==
  IF ~ Has(t.kind, source) THEN "Conflicting"
  ELSE IF At(t.kind, source) # "Parameter" THEN At(t.kind, source)
  ELSE IF SourceSlot(t, source) = NoIndex THEN "Conflicting"
  ELSE classes[SourceSlot(t, source)]

ClassOfSource(t, classes, source) ==
  IF ~ Has(t.kind, source) THEN "Conflicting"
  ELSE IF At(t.kind, source) \in Concrete THEN At(t.kind, source)
  ELSE IF At(t.kind, source) = "Unknown" \/ SourceSlot(t, source) = NoIndex
  THEN "Conflicting"
  ELSE classes[SourceSlot(t, source)]

\* The parameter a call argument fills, or NoIndex where the row is skipped.
Target(t, r) ==
  IF /\ Has(t.callee, At(t.call, r))
     /\ Has(t.parameter_index, r)
     /\ Has(t.source, r)
  THEN GlobalParameterIndex(t, At(t.callee, At(t.call, r)),
                            At(t.parameter_index, r))
  ELSE NoIndex

Fills(t, r, slot) == r \in Rows(t.call) /\ Target(t, r) = slot

Contribution(t, classes, r) == ClassOfSource(t, classes, At(t.source, r))

\* Every argument's contribution is accounted for in the parameter it fills.
IsSolution(t, classes) ==
  \A r \in Rows(t.call) :
    Target(t, r) # NoIndex =>
      Leq(Contribution(t, classes, r), classes[Target(t, r)])

=============================================================================

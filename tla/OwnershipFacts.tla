------------------------- MODULE OwnershipFacts -------------------------
(***************************************************************************)
(* What crates/zag-analysis/src/ownership.rs reads: columns of the tables, *)
(* the call graph and what the allocators resolve to.                      *)
(***************************************************************************)
EXTENDS CallGraph, AllocatorLattice

CONSTANT FactSets

\* The columns the pass reads, a group for each table.  `resolved` is what the
\* provenance pass made of every row of allocator_sources.
FactsType ==
  [ graph             : ProgramType,
    field_owner       : Seq(Nat),           \* fields
    field_type        : Seq(Nat),
    type_kind         : Seq({"Slice", "Pointer", "Optional", "Other"}), \* types
    element           : Seq(Nat),
    over_aligned      : Seq(BOOLEAN),
    operation         : Seq({"Allocate", "Free", "Resize"}),  \* memory_operations
    place             : Seq({"FieldOfParameter", "Elsewhere"}),
    place_field       : Seq(Nat),
    function          : Seq(Nat),
    allocator         : Seq(Nat),
    assigned          : Seq(Nat),           \* field_assignments
    source            : Seq({"Allocation", "Parameter", "StaticLiteral",
                             "Unknown"}),
    assigned_in       : Seq(Nat),
    memory_operation  : Seq(Nat),
    resolved          : Seq(AllocatorClass) ]

\* A handle is a u32, so no table has more rows than NO_INDEX.
ASSUME FactSetsAssumption ==
  \A p \in FactSets :
    /\ p \in FactsType
    /\ Len(p.element) =< NoIndex
    /\ Len(p.over_aligned) =< NoIndex

=============================================================================

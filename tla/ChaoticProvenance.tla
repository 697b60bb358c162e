-------------------------- MODULE ChaoticProvenance --------------------------
(***************************************************************************)
(* What resolve_allocator_provenance promises, with no order in it.        *)
(*                                                                         *)
(* Call arguments are constraints: whatever an argument passes is at or    *)
(* below what the parameter it fills resolves to.  Any argument may be     *)
(* joined in at any time, and the pass may stop only when every constraint *)
(* holds.                                                                  *)
(***************************************************************************)
EXTENDS AllocatorFacts

VARIABLES tables, resolved, settled

vars == <<tables, resolved, settled>>

Init ==
  /\ tables \in FactTables
  /\ resolved = [slot \in Slots(tables) |-> "Unset"]
  /\ settled = FALSE

Absorb(r) ==
  /\ ~ settled
  /\ Target(tables, r) # NoIndex
  /\ resolved' = [resolved EXCEPT ![Target(tables, r)] =
                    Join(@, Contribution(tables, resolved, r))]
  /\ UNCHANGED <<tables, settled>>

Finish ==
  /\ ~ settled
  /\ IsSolution(tables, resolved)
  /\ settled' = TRUE
  /\ UNCHANGED <<tables, resolved>>

Next == (\E r \in Rows(tables.call) : Absorb(r)) \/ Finish

Spec == Init /\ [][Next]_vars

=============================================================================

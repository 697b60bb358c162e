--------------------------- MODULE GroupingInputs ---------------------------
(***************************************************************************)
(* What is grouped: a number of buckets, and the bucket every row of a     *)
(* table belongs to, some of which do not exist.                           *)
(***************************************************************************)
EXTENDS Facts

CONSTANT Inputs

InputType == [ buckets : Nat, owners : Seq(Nat) ]

ASSUME InputsAssumption == Inputs \subseteq InputType

=============================================================================

------------------------------- MODULE Facts -------------------------------
(***************************************************************************)
(* The fact tables every pass reads are columns: a table is a handful of   *)
(* vectors of equal length, a row is a position, and a handle is a row     *)
(* number.  Rows count from zero, as they do in crates/zag-facts.          *)
(*                                                                         *)
(* A damaged fact file may hand a pass columns of unequal length, and the  *)
(* passes read such columns with `.get(row)`.  Has is the test that read   *)
(* makes and At is what it returns when the test succeeds.                 *)
(***************************************************************************)
EXTENDS Integers, Sequences

CONSTANT NoIndex    \* NO_INDEX, the handle that names nothing (u32::MAX)

ASSUME NoIndexAssumption == NoIndex \in Nat \ {0}

Has(column, row) == row < Len(column)

At(column, row) == column[row + 1]

Rows(column) == 0 .. Len(column) - 1

=============================================================================

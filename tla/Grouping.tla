------------------------------ MODULE Grouping ------------------------------
(***************************************************************************)
(* The counting sort into compressed sparse row that the call graph, the   *)
(* field index and the emitter's index are all built with: the rows of a   *)
(* table, grouped by what owns them, without scanning the table once per   *)
(* owner.                                                                  *)
(*                                                                         *)
(* Three passes over memory that is allocated up front: count the rows of  *)
(* every bucket, add the counts up into where each bucket starts, and walk *)
(* the rows again, each going where its bucket's cursor points.            *)
(***************************************************************************)
EXTENDS GroupingInputs, FiniteSets

VARIABLES
  input,     \* read only
  counts,    \* rows per bucket
  start,     \* where each bucket starts, and where the last one ends
  cursor,    \* where the next row of each bucket goes
  grouped,   \* the rows, bucket by bucket
  at,        \* the row or the bucket the current pass is at
  pc         \* "count", "sum", "fill", "done"

vars == <<input, counts, start, cursor, grouped, at, pc>>

Buckets(in) == 0 .. in.buckets - 1

\* Rows owned by nothing that exists are in no bucket.
Placed(in) ==
  { row \in Rows(in.owners) : At(in.owners, row) \in Buckets(in) }

-----------------------------------------------------------------------------
Init ==
  /\ input \in Inputs
  /\ counts = [b \in Buckets(input) |-> 0]
  /\ start = [b \in 0 .. input.buckets |-> 0]
  /\ cursor = [b \in 0 .. input.buckets |-> 0]
  /\ grouped = [slot \in 0 .. Cardinality(Placed(input)) - 1 |-> NoIndex]
  /\ at = 0
  /\ pc = "count"

Owner == At(input.owners, at)

\* The next row is counted where its owner exists.
Count ==
  /\ pc = "count"
  /\ at < Len(input.owners)
  /\ counts' = IF at \in Placed(input)
               THEN [counts EXCEPT ![Owner] = @ + 1] ELSE counts
  /\ at' = at + 1
  /\ UNCHANGED <<input, start, cursor, grouped, pc>>

Counted ==
  /\ pc = "count"
  /\ at = Len(input.owners)
  /\ at' = 0
  /\ pc' = "sum"
  /\ UNCHANGED <<input, counts, start, cursor, grouped>>

\* A bucket ends, and the next starts, where it has room for its rows.
Sum ==
  /\ pc = "sum"
  /\ at < input.buckets
  /\ start' = [start EXCEPT ![at + 1] = start[at] + counts[at]]
  /\ at' = at + 1
  /\ UNCHANGED <<input, counts, cursor, grouped, pc>>

\* Mutant of Summed: the cursors are the ends of the buckets.
SummedAtEnds ==
  /\ pc = "sum"
  /\ at = input.buckets
  /\ cursor' = [b \in 0 .. input.buckets |->
                  start[IF b = input.buckets THEN b ELSE b + 1]]
  /\ at' = 0
  /\ pc' = "fill"
  /\ UNCHANGED <<input, counts, start, grouped>>

Summed ==
  /\ pc = "sum"
  /\ at = input.buckets
  /\ cursor' = start
  /\ at' = 0
  /\ pc' = "fill"
  /\ UNCHANGED <<input, counts, start, grouped>>

\* A row whose owner does not exist is in no bucket.
Pass ==
  /\ pc = "fill"
  /\ at < Len(input.owners)
  /\ at \notin Placed(input)
  /\ at' = at + 1
  /\ UNCHANGED <<input, counts, start, cursor, grouped, pc>>

\* Mutant of Fill: the cursor stays where it is.
FillInPlace ==
  /\ pc = "fill"
  /\ at \in Placed(input)
  /\ grouped' = [grouped EXCEPT ![cursor[Owner]] = at]
  /\ at' = at + 1
  /\ UNCHANGED <<input, counts, start, cursor, pc>>

\* The row goes where its bucket's cursor points.
Fill ==
  /\ pc = "fill"
  /\ at \in Placed(input)
  /\ grouped' = [grouped EXCEPT ![cursor[Owner]] = at]
  /\ cursor' = [cursor EXCEPT ![Owner] = @ + 1]
  /\ at' = at + 1
  /\ UNCHANGED <<input, counts, start, pc>>

Filled ==
  /\ pc = "fill"
  /\ at = Len(input.owners)
  /\ pc' = "done"
  /\ UNCHANGED <<input, counts, start, cursor, grouped, at>>

Returned == pc = "done" /\ UNCHANGED vars

Next ==
  \/ Count \/ Counted \/ Sum \/ Summed \/ Pass \/ Fill \/ Filled \/ Returned

Spec == Init /\ [][Next]_vars

-----------------------------------------------------------------------------
(* Properties.                                                             *)

\* The rows of a bucket among the first n.
RowsOf(in, b, n) == { row \in Placed(in) : At(in.owners, row) = b /\ row < n }

\* The slots of a bucket.
Slots(b) == start[b] .. start[b + 1] - 1

TypeOK ==
  /\ input \in InputType
  /\ counts \in [Buckets(input) -> Nat]
  /\ start \in [0 .. input.buckets -> Nat]
  /\ cursor \in [0 .. input.buckets -> Nat]
  /\ grouped \in [0 .. Cardinality(Placed(input)) - 1 -> Nat]
  /\ at \in Nat
  /\ pc \in {"count", "sum", "fill", "done"}

(***************************************************************************)
(* A row is always written inside its own bucket and inside the table that *)
(* was allocated for the rows: the second pass over the owners agrees with *)
(* the first.                                                              *)
(***************************************************************************)
WritesInsideBucket ==
  pc = "fill" /\ at \in Placed(input) =>
    cursor[Owner] \in Slots(Owner) \cap DOMAIN grouped

(***************************************************************************)
(* A slot is written once: no row overwrites another's.                    *)
(***************************************************************************)
SlotsWrittenOnce ==
  [][\A slot \in DOMAIN grouped :
       grouped'[slot] # grouped[slot] => grouped[slot] = NoIndex]_vars

(***************************************************************************)
(* What comes out is the rows of every bucket and no others, in the order  *)
(* they had in the table, and the buckets tile the table.                  *)
(***************************************************************************)
StableGroups ==
  pc = "done" =>
    /\ start[0] = 0
    /\ start[input.buckets] = Cardinality(Placed(input))
    /\ \A b \in Buckets(input) :
         /\ { grouped[slot] : slot \in Slots(b) }
              = RowsOf(input, b, Len(input.owners))
         /\ \A s1, s2 \in Slots(b) : s1 < s2 => grouped[s1] < grouped[s2]

=============================================================================

-------------------------- MODULE ProvenanceProofs --------------------------
(***************************************************************************)
(* Proofs about resolve_allocator_provenance, for fact tables of any size  *)
(* whose rows are in any order.                                            *)
(***************************************************************************)
EXTENDS Provenance, FiniteSetTheorems, TLAPS

-----------------------------------------------------------------------------
(* The lattice.                                                            *)

\* The join of two classes is a class.
LEMMA JoinType ==
  \A l, r \in AllocatorClass : Join(l, r) \in AllocatorClass
BY DEF Join, AllocatorClass

\* The join is an upper bound of both of its arguments.
LEMMA JoinUpper ==
  \A l, r \in AllocatorClass : Leq(l, Join(l, r)) /\ Leq(r, Join(l, r))
BY DEF Join, Leq, AllocatorClass

\* It is the least one.
LEMMA JoinLeast ==
  \A l, r, u \in AllocatorClass :
    Leq(l, u) /\ Leq(r, u) => Leq(Join(l, r), u)
BY DEF Join, Leq, AllocatorClass

\* Joining what is already below changes nothing, and only that.
LEMMA JoinAbsorbs ==
  \A l, r \in AllocatorClass : Join(l, r) = l <=> Leq(r, l)
BY DEF Join, Leq, AllocatorClass

\* Leq is an order.
LEMMA LeqReflexive == \A c \in AllocatorClass : Leq(c, c)
BY DEF Leq

LEMMA LeqTransitive ==
  \A a, b, c \in AllocatorClass : Leq(a, b) /\ Leq(b, c) => Leq(a, c)
BY DEF Leq, AllocatorClass

-----------------------------------------------------------------------------
(* The reads.                                                              *)

\* A class for every parameter.
Classes(t) == [Slots(t) -> AllocatorClass]

\* A read of a column that has the row returns one of its entries.
LEMMA ReadType ==
  ASSUME NEW S, NEW column \in Seq(S), NEW r \in Nat, Has(column, r)
  PROVE  At(column, r) \in S
BY DEF Has, At

\* A parameter that resolves to a slot resolves to one that exists.
LEMMA SlotType ==
  ASSUME NEW t \in FactTables, NEW f \in Nat, NEW p \in Nat,
         GlobalParameterIndex(t, f, p) # NoIndex
  PROVE  GlobalParameterIndex(t, f, p) \in Slots(t)
<1>1. CASE /\ f # NoIndex
           /\ p # NoIndex
           /\ Has(t.parameter_start, f)
           /\ Has(t.parameter_count, f)
           /\ p < At(t.parameter_count, f)
           /\ At(t.parameter_start, f) + p < t.parameters
  <2>1. At(t.parameter_start, f) \in Nat
    BY <1>1, ReadType DEF FactTables
  <2>2. t.parameters \in Nat
    BY DEF FactTables
  <2> QED BY <1>1, <2>1, <2>2 DEF GlobalParameterIndex, Slots
<1> QED BY <1>1 DEF GlobalParameterIndex

\* The parameter a call argument fills is one of the rows of `parameters`.
LEMMA TargetType ==
  ASSUME NEW t \in FactTables, NEW r \in Rows(t.call),
         Target(t, r) # NoIndex
  PROVE  /\ Target(t, r) \in Slots(t)
         /\ Has(t.source, r)
         /\ At(t.source, r) \in Nat
<1>1. r \in Nat /\ Has(t.call, r)
  BY DEF Rows, Has, FactTables
<1>2. At(t.call, r) \in Nat
  BY <1>1, ReadType DEF FactTables
<1>3. /\ Has(t.callee, At(t.call, r))
      /\ Has(t.parameter_index, r)
      /\ Has(t.source, r)
  BY DEF Target
<1>4. /\ At(t.callee, At(t.call, r)) \in Nat
      /\ At(t.parameter_index, r) \in Nat
      /\ At(t.source, r) \in Nat
  BY <1>1, <1>2, <1>3, ReadType DEF FactTables
<1> QED BY <1>3, <1>4, SlotType DEF Target

\* The slot an allocator source forwards is one of the rows of `parameters`.
LEMMA SourceSlotType ==
  ASSUME NEW t \in FactTables, NEW s \in Nat, SourceSlot(t, s) # NoIndex
  PROVE  SourceSlot(t, s) \in Slots(t)
<1>1. Has(t.function, s) /\ Has(t.index, s)
  BY DEF SourceSlot
<1>2. At(t.function, s) \in Nat /\ At(t.index, s) \in Nat
  BY <1>1, ReadType DEF FactTables
<1> QED BY <1>1, <1>2, SlotType DEF SourceSlot

\* What a call argument contributes is a class.
LEMMA ContributionType ==
  ASSUME NEW t \in FactTables, NEW classes \in Classes(t),
         NEW r \in Rows(t.call), Target(t, r) # NoIndex
  PROVE  Contribution(t, classes, r) \in AllocatorClass
<1> DEFINE s == At(t.source, r)
<1>1. s \in Nat
  BY TargetType
<1> QED BY <1>1, SourceSlotType
        DEF Contribution, ClassOfSource, Classes, AllocatorClass, Concrete

\* A call argument contributes no less once the classes it reads have climbed.
LEMMA ContributionMonotone ==
  ASSUME NEW t \in FactTables,
         NEW low \in Classes(t), NEW high \in Classes(t),
         \A slot \in Slots(t) : Leq(low[slot], high[slot]),
         NEW r \in Rows(t.call), Target(t, r) # NoIndex
  PROVE  Leq(Contribution(t, low, r), Contribution(t, high, r))
<1>1. At(t.source, r) \in Nat
  BY TargetType
<1> QED BY <1>1, SourceSlotType, LeqReflexive, ContributionType
        DEF Contribution, ClassOfSource, Classes, Leq

-----------------------------------------------------------------------------
(* Types.                                                                  *)

\* The types the proofs use, with the table set the tables come from.
Typed == tables \in TableSet /\ TypedProvenance

\* The facts about the tables that hold in every state.
LEMMA TablesType ==
  ASSUME tables \in TableSet
  PROVE  /\ tables \in FactTables
         /\ tables.parameters \in Nat
         /\ Len(tables.call) \in Nat
         /\ tables.call \in Seq(Nat)
BY TableSetAssumption DEF FactTables

\* A raised row raises one parameter, to the join of what it held and what the
\* argument contributes, and leaves every other parameter alone.
LEMMA RaiseRowRaises ==
  ASSUME Typed, RaiseRow
  PROVE  LET slot == Target(tables, row)
             merged == Join(parameter_class[slot],
                            Contribution(tables, parameter_class, row))
         IN  /\ row \in Rows(tables.call)
             /\ slot \in Slots(tables)
             /\ Contribution(tables, parameter_class, row) \in AllocatorClass
             /\ merged \in AllocatorClass
             /\ merged # parameter_class[slot]
             /\ parameter_class' \in Classes(tables)
             /\ parameter_class'[slot] = merged
             /\ \A other \in Slots(tables) :
                  other # slot => parameter_class'[other] = parameter_class[other]
<1> DEFINE slot == Target(tables, row)
           contributed == Contribution(tables, parameter_class, row)
           merged == Join(parameter_class[slot], contributed)
<1>1. row \in Rows(tables.call)
  BY TablesType DEF Typed, TypedProvenance, RaiseRow, AtRow, Rows
<1>2. slot \in Slots(tables)
  BY <1>1, TablesType, TargetType DEF Typed, RaiseRow
<1>3. contributed \in AllocatorClass
  BY <1>1, TablesType, ContributionType DEF Typed, TypedProvenance, RaiseRow, Classes
<1>4. parameter_class[slot] \in AllocatorClass
  BY <1>2 DEF Typed, TypedProvenance
<1>5. merged \in AllocatorClass
  BY <1>3, <1>4, JoinType
<1>6. /\ merged # parameter_class[slot]
      /\ parameter_class' = [parameter_class EXCEPT ![slot] = merged]
  BY DEF RaiseRow
<1>7. parameter_class \in Classes(tables)
  BY DEF Typed, TypedProvenance, Classes
<1> HIDE DEF slot, contributed, merged
<1>8. /\ parameter_class' \in Classes(tables)
      /\ parameter_class'[slot] = merged
      /\ \A other \in Slots(tables) :
           other # slot => parameter_class'[other] = parameter_class[other]
  BY <1>2, <1>5, <1>6, <1>7 DEF Classes
<1> QED BY <1>1, <1>2, <1>3, <1>5, <1>6, <1>8 DEF slot, contributed, merged

\* Every step keeps the types.
LEMMA TypedStep ==
  ASSUME Typed, [Next]_vars
  PROVE  Typed'
<1> USE DEF Typed
<1>0. /\ tables' = tables
      /\ tables.parameters \in Nat
      /\ Len(tables.call) \in Nat
  BY TablesType DEF Next, SkipRow, KeepRow, RaiseRow, Settle, EndRound,
                    Returned, vars
<1>1. CASE SkipRow
  BY <1>0, <1>1 DEF SkipRow, TypedProvenance, AtRow
<1>2. CASE KeepRow
  BY <1>0, <1>2 DEF KeepRow, TypedProvenance, AtRow
<1>3. CASE RaiseRow
  <2>1. /\ Target(tables, row) \in Slots(tables)
        /\ Contribution(tables, parameter_class, row) \in AllocatorClass
        /\ parameter_class' \in Classes(tables)
    BY <1>3, RaiseRowRaises
  <2>2. row \in Nat /\ row' \in 0 .. Len(tables.call)
    BY <1>0, <1>3 DEF RaiseRow, AtRow, TypedProvenance
  <2>3. witness' \in [Slots(tables) -> Nat]
    BY <1>3, <2>1, <2>2 DEF RaiseRow, Witnessed, TypedProvenance
  <2>4. disagreements' \in Seq(Disagreement)
    <3> DEFINE new == [parameter    |-> Target(tables, row),
                       first        |-> witness[Target(tables, row)],
                       second       |-> row,
                       first_class  |-> parameter_class[Target(tables, row)],
                       second_class |->
                         Contribution(tables, parameter_class, row)]
    <3>1. /\ Target(tables, row) \in Nat
          /\ witness[Target(tables, row)] \in Nat
          /\ parameter_class[Target(tables, row)] \in AllocatorClass
      BY <1>0, <2>1 DEF TypedProvenance, Slots
    <3>2. new \in Disagreement
      BY <2>1, <2>2, <3>1 DEF Disagreement
    <3>3. disagreements' = disagreements \/
          disagreements' = Append(disagreements, new)
      BY <1>3 DEF RaiseRow
    <3>4. disagreements \in Seq(Disagreement)
      BY DEF TypedProvenance
    <3> HIDE DEF new, Typed
    <3>5. Append(disagreements, new) \in Seq(Disagreement)
      BY <3>2, <3>4
    <3> QED BY <3>3, <3>4, <3>5
  <2> QED BY <1>0, <1>3, <2>1, <2>2, <2>3, <2>4 DEF RaiseRow, TypedProvenance, Classes
<1>4. CASE Settle
  BY <1>0, <1>4 DEF Settle, TypedProvenance
<1>5. CASE EndRound
  <2>1. row' \in 0 .. Len(tables.call)
    <3>1. row' = 0 \/ row' = row
      BY <1>5 DEF EndRound
    <3>2. row \in 0 .. Len(tables.call)
      BY DEF TypedProvenance
    <3> QED BY <1>0, <3>1, <3>2
  <2>2. changed' \in BOOLEAN /\ pc' \in {"row", "done"}
    BY <1>5 DEF EndRound, TypedProvenance
  <2>3. round' \in Nat
    BY <1>5 DEF EndRound, TypedProvenance
  <2> QED BY <1>0, <1>5, <2>1, <2>2, <2>3 DEF EndRound, TypedProvenance
<1>6. CASE Returned
  BY <1>0, <1>6 DEF Returned, TypedProvenance, vars
<1>7. CASE UNCHANGED vars
  BY <1>0, <1>7 DEF TypedProvenance, vars
<1> QED BY <1>1, <1>2, <1>3, <1>4, <1>5, <1>6, <1>7 DEF Next

\* The initial state has them.
LEMMA TypedInit ==
  ASSUME Init PROVE Typed
<1>1. tables \in TableSet
  BY DEF Init
<1>2. parameter_class \in [Slots(tables) -> AllocatorClass]
  BY DEF Init, AllocatorClass
<1>3. witness \in [Slots(tables) -> Nat]
  BY NoIndexAssumption DEF Init
<1>4. disagreements \in Seq(Disagreement)
  BY DEF Init
<1>5. row \in 0 .. Len(tables.call)
  <2>1. Len(tables.call) \in Nat
    BY <1>1, TablesType
  <2>2. row = 0
    BY DEF Init
  <2> QED BY <2>1, <2>2
<1>6. tables \in FactTables
  BY <1>1, TablesType
<1> QED BY <1>1, <1>2, <1>3, <1>4, <1>5, <1>6 DEF Init, Typed, TypedProvenance

(***************************************************************************)
(* The type invariant of the pass, whatever the fact tables hold: damaged  *)
(* rows never put a value outside the lattice or a witness outside the     *)
(* handles.                                                                *)
(***************************************************************************)
THEOREM TypeCorrect == Spec => []TypedProvenance
<1>1. Init => Typed
  BY TypedInit
<1>2. Typed /\ [Next]_vars => Typed'
  BY TypedStep
<1>3. Typed => TypedProvenance
  BY DEF Typed
<1> QED BY <1>1, <1>2, <1>3, PTL DEF Spec

-----------------------------------------------------------------------------
(* Classes climb.                                                          *)

\* No step lowers a class.
LEMMA ClimbStep ==
  ASSUME Typed, [Next]_vars
  PROVE  \A slot \in Slots(tables) :
           Leq(parameter_class[slot], parameter_class'[slot])
<1>1. CASE RaiseRow
  <2> SUFFICES ASSUME NEW slot \in Slots(tables)
               PROVE  Leq(parameter_class[slot], parameter_class'[slot])
    OBVIOUS
  <2>1. parameter_class[slot] \in AllocatorClass
    BY DEF Typed, TypedProvenance
  <2> QED BY <1>1, <2>1, RaiseRowRaises, JoinUpper, LeqReflexive
<1>2. CASE UNCHANGED parameter_class
  BY <1>2, LeqReflexive DEF Typed, TypedProvenance
<1>3. RaiseRow \/ UNCHANGED parameter_class
  BY DEF Next, SkipRow, KeepRow, Settle, EndRound, Returned, vars
<1> QED BY <1>1, <1>2, <1>3

(***************************************************************************)
(* A class only climbs, whatever order the rows are in.                    *)
(***************************************************************************)
THEOREM Climbing == Spec => ClassesOnlyClimb
<1>1. Typed /\ [Next]_vars =>
        [\A slot \in Slots(tables) :
           Leq(parameter_class[slot], parameter_class'[slot])]_vars
  BY ClimbStep
<1> QED BY <1>1, TypedInit, TypedStep, PTL DEF Spec, ClassesOnlyClimb

-----------------------------------------------------------------------------
(* Convergence.  Every round that goes on to another one raised a class,   *)
(* and a class can be raised twice at most.                                *)

\* How often a class has been raised.
Height(class) ==
  IF class = "Unset" THEN 0 ELSE IF class = "Conflicting" THEN 2 ELSE 1

\* The raises a parameter can have behind it, and those the classes do have.
Raises(t) == Slots(t) \X (1 .. 2)

Raised(t, classes) ==
  { raise \in Raises(t) : raise[2] =< Height(classes[raise[1]]) }

\* A round that changed something has a raise to show for it.
RoundsPaid ==
  (IF changed THEN round + 1 ELSE round)
    =< Cardinality(Raised(tables, parameter_class))

\* A parameter has two raises at most.
LEMMA RaisesBound ==
  ASSUME NEW t \in FactTables
  PROVE  /\ IsFiniteSet(Raises(t))
         /\ Cardinality(Raises(t)) = t.parameters * 2
<1>1. t.parameters \in Nat
  BY DEF FactTables
<1>2. IsFiniteSet(Slots(t)) /\ Cardinality(Slots(t)) = t.parameters
  <2> DEFINE last == t.parameters - 1
  <2>1. last \in Int
    BY <1>1
  <2> HIDE DEF last
  <2>2. /\ IsFiniteSet(0 .. last)
        /\ Cardinality(0 .. last) = IF 0 > last THEN 0 ELSE last - 0 + 1
    BY <2>1, FS_Interval
  <2>3. IsFiniteSet(0 .. last) /\ Cardinality(0 .. last) = t.parameters
    BY <1>1, <2>2 DEF last
  <2> QED BY <2>3 DEF last, Slots
<1>3. IsFiniteSet(1 .. 2) /\ Cardinality(1 .. 2) = 2
  <2>1. /\ IsFiniteSet(1 .. 2)
        /\ Cardinality(1 .. 2) = IF 1 > 2 THEN 0 ELSE 2 - 1 + 1
    BY FS_Interval, 1 \in Int, 2 \in Int, Zenon
  <2> QED BY <2>1
<1> HIDE DEF Slots
<1> QED BY <1>2, <1>3, FS_Product DEF Raises

\* So the raises made so far are at most two a parameter.
LEMMA RaisedBound ==
  ASSUME NEW t \in FactTables, NEW classes
  PROVE  /\ IsFiniteSet(Raised(t, classes))
         /\ Cardinality(Raised(t, classes)) \in Nat
         /\ Cardinality(Raised(t, classes)) =< t.parameters * 2
<1>1. Raised(t, classes) \in SUBSET Raises(t)
  BY DEF Raised
<1> HIDE DEF Raised
<1> QED BY <1>1, RaisesBound, FS_Subset, FS_CardinalityType

\* Raising a class adds to them.
LEMMA RaiseRowPays ==
  ASSUME Typed, RaiseRow
  PROVE  Cardinality(Raised(tables, parameter_class))
           < Cardinality(Raised(tables', parameter_class'))
<1> DEFINE slot == Target(tables, row)
           before == Raised(tables, parameter_class)
           after == Raised(tables', parameter_class')
           newest == <<slot, Height(parameter_class'[slot])>>
<1>1. tables' = tables /\ tables \in FactTables
  BY TablesType DEF Typed, RaiseRow
<1>2. /\ slot \in Slots(tables)
      /\ parameter_class[slot] \in AllocatorClass
      /\ parameter_class'[slot] \in AllocatorClass
      /\ parameter_class'[slot] # parameter_class[slot]
      /\ Leq(parameter_class[slot], parameter_class'[slot])
  BY RaiseRowRaises, JoinUpper DEF Typed, TypedProvenance
<1>3. /\ Height(parameter_class'[slot]) \in 1 .. 2
      /\ ~ (Height(parameter_class'[slot]) =< Height(parameter_class[slot]))
  BY <1>2 DEF Height, Leq, AllocatorClass
<1>4. \A other \in Slots(tables) :
        Height(parameter_class[other]) =< Height(parameter_class'[other])
  <2> SUFFICES ASSUME NEW other \in Slots(tables)
               PROVE  Height(parameter_class[other])
                        =< Height(parameter_class'[other])
    OBVIOUS
  <2>1. /\ parameter_class[other] \in AllocatorClass
        /\ parameter_class'[other] \in AllocatorClass
        /\ Leq(parameter_class[other], parameter_class'[other])
    BY ClimbStep, RaiseRowRaises DEF Next, Typed, TypedProvenance, Classes
  <2> QED BY <2>1 DEF Height, Leq, AllocatorClass
<1>5. \A class : Height(class) \in Int
  BY DEF Height
<1>6. before \in SUBSET after
  BY <1>1, <1>4, <1>5 DEF Raised, Raises
<1>7. newest \in after /\ newest \notin before
  BY <1>1, <1>2, <1>3 DEF Raised, Raises
<1>8. IsFiniteSet(after) /\ Cardinality(before) \in Nat
                        /\ Cardinality(after) \in Nat
  BY <1>1, RaisedBound
<1> HIDE DEF before, after, newest
<1>9. Cardinality(before) < Cardinality(after)
  BY <1>6, <1>7, <1>8, FS_Subset
<1> QED BY <1>9 DEF before, after

ConvergesInv == Typed /\ RoundsPaid /\ Converges

LEMMA ConvergesInit ==
  ASSUME Init PROVE ConvergesInv
<1>1. Typed /\ tables \in FactTables
  BY TypedInit, TablesType DEF Typed
<1>2. Cardinality(Raised(tables, parameter_class)) \in Nat
  BY <1>1, RaisedBound
<1> QED BY <1>1, <1>2 DEF Init, ConvergesInv, RoundsPaid, Converges

\* A round that changed something always has another one to follow it.
LEMMA EndRoundGoesOn ==
  ASSUME ConvergesInv, EndRound
  PROVE  /\ row' = 0 /\ changed' = FALSE /\ UNCHANGED pc
         /\ round' = round + 1
         /\ round' =< Cardinality(Raised(tables, parameter_class))
<1>1. /\ tables \in FactTables
      /\ tables.parameters \in Nat
      /\ round \in Nat
  BY TablesType DEF ConvergesInv, Typed, TypedProvenance
<1>2. /\ Cardinality(Raised(tables, parameter_class)) \in Nat
      /\ Cardinality(Raised(tables, parameter_class))
           =< tables.parameters * 2
  BY <1>1, RaisedBound
<1>3. round + 1 =< Cardinality(Raised(tables, parameter_class))
  BY DEF ConvergesInv, RoundsPaid, EndRound
<1>4. round + 1 < RoundLimit(tables)
  BY <1>1, <1>2, <1>3 DEF RoundLimit
<1> QED BY <1>3, <1>4 DEF EndRound

LEMMA ConvergesStep ==
  ASSUME ConvergesInv, [Next]_vars PROVE ConvergesInv'
<1>1. Typed /\ Typed'
  BY TypedStep DEF ConvergesInv
<1>2. /\ tables \in FactTables
      /\ round \in Nat
      /\ Cardinality(Raised(tables, parameter_class)) \in Nat
  BY <1>1, TablesType, RaisedBound DEF Typed, TypedProvenance
<1>3. CASE RaiseRow
  <2>1. tables' = tables /\ round' = round /\ changed' = TRUE /\ pc' # "done"
    BY <1>3 DEF RaiseRow, AtRow
  <2>2. Cardinality(Raised(tables, parameter_class))
          < Cardinality(Raised(tables', parameter_class'))
    BY <1>1, <1>3, RaiseRowPays
  <2>3. Cardinality(Raised(tables', parameter_class')) \in Nat
    BY <1>2, <2>1, RaisedBound
  <2>4. round =< Cardinality(Raised(tables, parameter_class))
    BY <1>2 DEF ConvergesInv, RoundsPaid
  <2> QED BY <1>1, <1>2, <2>1, <2>2, <2>3, <2>4
          DEF ConvergesInv, RoundsPaid, Converges
<1>4. CASE EndRound
  BY <1>1, <1>4, EndRoundGoesOn
     DEF ConvergesInv, RoundsPaid, Converges, EndRound, AtRoundEnd
<1>5. CASE SkipRow \/ KeepRow
  BY <1>1, <1>5
     DEF ConvergesInv, RoundsPaid, Converges, SkipRow, KeepRow, AtRow
<1>6. CASE Settle
  BY <1>1, <1>6 DEF ConvergesInv, RoundsPaid, Converges, Settle
<1>7. CASE Returned \/ UNCHANGED vars
  BY <1>1, <1>7 DEF ConvergesInv, RoundsPaid, Converges, Returned, vars
<1> QED BY <1>3, <1>4, <1>5, <1>6, <1>7 DEF Next

(***************************************************************************)
(* The round limit never ends the pass, however many parameters there are  *)
(* and whatever chain of forwarding they form.                             *)
(***************************************************************************)
THEOREM AlwaysConverges == Spec => []Converges
<1>1. ConvergesInv => Converges
  BY DEF ConvergesInv
<1> QED BY <1>1, ConvergesInit, ConvergesStep, PTL DEF Spec

-----------------------------------------------------------------------------
(* The least solution.  The classes stay below every solution because each *)
(* join is forced by an argument, and a round that has changed nothing so  *)
(* far has found every argument it passed accounted for.                   *)

Accounted(r) ==
  Target(tables, r) # NoIndex =>
    Leq(Contribution(tables, parameter_class, r),
        parameter_class[Target(tables, r)])

BelowEverySolution ==
  \A other \in Classes(tables) :
    IsSolution(tables, other) =>
      \A slot \in Slots(tables) : Leq(parameter_class[slot], other[slot])

QuietSoFar == ~ changed => \A r \in 0 .. row - 1 : Accounted(r)

SettledIsSolution ==
  converged => pc = "done" /\ IsSolution(tables, parameter_class)

LeastInv ==
  /\ ConvergesInv
  /\ BelowEverySolution
  /\ QuietSoFar
  /\ SettledIsSolution

LEMMA LeastInit ==
  ASSUME Init PROVE LeastInv
<1>1. ConvergesInv
  BY ConvergesInit
<1>2. BelowEverySolution
  BY DEF Init, BelowEverySolution, Leq
<1>3. QuietSoFar
  BY DEF Init, QuietSoFar
<1>4. SettledIsSolution
  BY DEF Init, SettledIsSolution
<1> QED BY <1>1, <1>2, <1>3, <1>4 DEF LeastInv

\* Joining in what an argument passes stays below every solution.
LEMMA BelowStep ==
  ASSUME Typed, BelowEverySolution, RaiseRow
  PROVE  BelowEverySolution'
<1>1. tables' = tables /\ tables \in FactTables
  BY TablesType DEF Typed, RaiseRow
<1> SUFFICES ASSUME NEW other \in Classes(tables),
                    IsSolution(tables, other),
                    NEW slot \in Slots(tables)
             PROVE  Leq(parameter_class'[slot], other[slot])
  BY <1>1 DEF BelowEverySolution
<1>2. \A s \in Slots(tables) : Leq(parameter_class[s], other[s])
  BY DEF BelowEverySolution
<1>3. CASE slot # Target(tables, row)
  BY <1>2, <1>3, RaiseRowRaises
<1>4. CASE slot = Target(tables, row)
  <2> DEFINE contributed == Contribution(tables, parameter_class, row)
  <2>1. /\ row \in Rows(tables.call)
        /\ Target(tables, row) # NoIndex
        /\ contributed \in AllocatorClass
        /\ parameter_class'[slot] = Join(parameter_class[slot], contributed)
    BY <1>4, RaiseRowRaises DEF RaiseRow
  <2>2. /\ parameter_class \in Classes(tables)
        /\ parameter_class[slot] \in AllocatorClass
        /\ other[slot] \in AllocatorClass
    BY DEF Typed, TypedProvenance, Classes
  <2>3. Contribution(tables, other, row) \in AllocatorClass
    BY <1>1, <2>1, ContributionType
  <2>4. Leq(contributed, Contribution(tables, other, row))
    BY <1>1, <1>2, <2>1, <2>2, ContributionMonotone
  <2>5. Leq(Contribution(tables, other, row), other[slot])
    BY <1>4, <2>1 DEF IsSolution
  <2> HIDE DEF contributed
  <2>6. Leq(contributed, other[slot])
    BY <2>1, <2>2, <2>3, <2>4, <2>5, LeqTransitive
  <2> QED BY <1>2, <2>1, <2>2, <2>6, JoinLeast
<1> QED BY <1>3, <1>4

\* A row that changes nothing is accounted for.
LEMMA QuietRow ==
  ASSUME Typed, SkipRow \/ KeepRow
  PROVE  Accounted(row)
<1>1. CASE SkipRow
  BY <1>1 DEF SkipRow, Accounted
<1>2. CASE KeepRow
  <2> DEFINE slot == Target(tables, row)
             contributed == Contribution(tables, parameter_class, row)
  <2>1. /\ row \in Rows(tables.call)
        /\ slot # NoIndex
        /\ Join(parameter_class[slot], contributed) = parameter_class[slot]
    BY <1>2, TablesType DEF KeepRow, AtRow, Rows, Typed, TypedProvenance
  <2>2. tables \in FactTables /\ parameter_class \in Classes(tables)
    BY TablesType DEF Typed, TypedProvenance, Classes
  <2>3. /\ contributed \in AllocatorClass
        /\ parameter_class[slot] \in AllocatorClass
    BY <2>1, <2>2, ContributionType, TargetType DEF Classes
  <2> HIDE DEF slot, contributed
  <2>4. Leq(contributed, parameter_class[slot])
    BY <2>1, <2>3, JoinAbsorbs
  <2> QED BY <2>4 DEF Accounted, slot, contributed
<1> QED BY <1>1, <1>2

LEMMA LeastStep ==
  ASSUME LeastInv, [Next]_vars PROVE LeastInv'
<1>1. Typed /\ ConvergesInv /\ ConvergesInv'
  BY ConvergesStep DEF LeastInv, ConvergesInv
<1>2. tables \in FactTables /\ row \in Nat /\ row \in 0 .. Len(tables.call)
  BY <1>1, TablesType DEF Typed, TypedProvenance
<1>3. CASE SkipRow \/ KeepRow
  <2>1. /\ UNCHANGED <<tables, parameter_class, changed, converged, pc>>
        /\ row' = row + 1
    BY <1>3 DEF SkipRow, KeepRow
  <2>2. Accounted(row)
    BY <1>1, <1>3, QuietRow
  <2>3. BelowEverySolution'
    BY <2>1 DEF LeastInv, BelowEverySolution
  <2>4. QuietSoFar'
    <3> SUFFICES ASSUME ~ changed', NEW r \in 0 .. row' - 1
                 PROVE  Accounted(r)'
      BY DEF QuietSoFar
    <3>1. r \in 0 .. row - 1 \/ r = row
      BY <1>2, <2>1
    <3>2. Accounted(r)
      BY <2>1, <2>2, <3>1 DEF LeastInv, QuietSoFar
    <3> QED BY <2>1, <3>2 DEF Accounted
  <2>5. SettledIsSolution'
    BY <2>1 DEF LeastInv, SettledIsSolution
  <2> QED BY <1>1, <2>3, <2>4, <2>5 DEF LeastInv
<1>4. CASE RaiseRow
  <2>1. changed' = TRUE /\ UNCHANGED converged /\ pc # "done"
    BY <1>4 DEF RaiseRow, AtRow
  <2>2. BelowEverySolution'
    BY <1>1, <1>4, BelowStep DEF LeastInv
  <2>3. QuietSoFar'
    BY <2>1 DEF QuietSoFar
  <2>4. SettledIsSolution'
    \* The pass has not settled while it is still raising a class.
    <3>1. ~ converged
      BY <2>1 DEF LeastInv, SettledIsSolution
    <3> QED BY <2>1, <3>1 DEF SettledIsSolution
  <2> QED BY <1>1, <2>2, <2>3, <2>4 DEF LeastInv
<1>5. CASE Settle
  <2>1. /\ UNCHANGED <<tables, parameter_class, row, changed>>
        /\ ~ changed /\ row = Len(tables.call) /\ pc' = "done"
    BY <1>5 DEF Settle, AtRoundEnd
  <2>2. IsSolution(tables, parameter_class)
    BY <1>2, <2>1 DEF LeastInv, QuietSoFar, Accounted, IsSolution, Rows
  <2> QED BY <1>1, <2>1, <2>2
          DEF LeastInv, BelowEverySolution, QuietSoFar, Accounted,
              SettledIsSolution
<1>6. CASE EndRound
  <2>1. row' = 0 /\ UNCHANGED <<tables, parameter_class, converged, pc>>
    BY <1>1, <1>6, EndRoundGoesOn DEF EndRound
  <2> QED BY <1>1, <2>1
          DEF LeastInv, BelowEverySolution, QuietSoFar, SettledIsSolution
<1>7. CASE Returned \/ UNCHANGED vars
  BY <1>1, <1>7 DEF LeastInv, BelowEverySolution, QuietSoFar, Accounted,
                    SettledIsSolution, Returned, vars
<1> QED BY <1>3, <1>4, <1>5, <1>6, <1>7 DEF Next

(***************************************************************************)
(* At every point the classes are below every assignment of classes that   *)
(* accounts for the call arguments, and the ones the pass returns account  *)
(* for them: the answer does not depend on the order of the rows.          *)
(***************************************************************************)
THEOREM ReturnsLeastSolution == Spec => []LeastSolution
<1>1. LeastInv => LeastSolution
  BY DEF LeastInv, ConvergesInv, Converges, BelowEverySolution,
         SettledIsSolution, LeastSolution, Classes
<1> QED BY <1>1, LeastInit, LeastStep, PTL DEF Spec

-----------------------------------------------------------------------------
(* Refinement.                                                             *)

\* The two specifications read the tables with the same operators.
LEMMA SameSlots ==
  \A t : Chaotic!Slots(t) = Slots(t) /\ Chaotic!Rows(t) = Rows(t)
BY DEF Chaotic!Slots, Slots, Chaotic!Rows, Rows

LEMMA SameLattice ==
  \A l, r : Chaotic!Join(l, r) = Join(l, r) /\ Chaotic!Leq(l, r) = Leq(l, r)
BY DEF Chaotic!Join, Join, Chaotic!Leq, Leq

LEMMA SameParameter ==
  \A t, f, p :
    Chaotic!GlobalParameterIndex(t, f, p) = GlobalParameterIndex(t, f, p)
BY DEF Chaotic!GlobalParameterIndex, GlobalParameterIndex,
       Chaotic!Has, Has, Chaotic!At, At

LEMMA SameTarget ==
  \A t, r : Chaotic!Target(t, r) = Target(t, r)
BY SameParameter DEF Chaotic!Target, Target, Chaotic!Has, Has, Chaotic!At, At

LEMMA SameContribution ==
  \A t, classes, r :
    Chaotic!Contribution(t, classes, r) = Contribution(t, classes, r)
<1>1. \A t, s : Chaotic!SourceSlot(t, s) = SourceSlot(t, s)
  BY SameParameter
     DEF Chaotic!SourceSlot, SourceSlot, Chaotic!Has, Has, Chaotic!At, At
<1> QED BY <1>1
        DEF Chaotic!Contribution, Contribution, Chaotic!ClassOfSource,
            ClassOfSource, Chaotic!Has, Has, Chaotic!At, At,
            Chaotic!Concrete, Concrete

LEMMA SameSolution ==
  \A t, classes : Chaotic!IsSolution(t, classes) <=> IsSolution(t, classes)
BY SameSlots, SameLattice, SameTarget, SameContribution
   DEF Chaotic!IsSolution, IsSolution

\* The initial state of the loops is one of the order-free fixed point.
LEMMA RefinesInit ==
  ASSUME Init PROVE Chaotic!Init
BY SameSlots, TableSetAssumption
   DEF Init, Chaotic!Init, Chaotic!FactTables, FactTables, Chaotic!SourceKind,
       SourceKind

\* A raised row absorbs its argument, settling finishes, the rest stutters.
LEMMA RefinesStep ==
  ASSUME LeastInv, LeastInv', [Next]_vars
  PROVE  [Chaotic!Next]_(Chaotic!vars)
<1>1. CASE RaiseRow
  <2>1. row \in Chaotic!Rows(tables.call)
    BY <1>1, RaiseRowRaises, SameSlots DEF LeastInv, ConvergesInv
  <2>2. Chaotic!Absorb(row)
    BY <1>1, SameTarget, SameLattice, SameContribution
       DEF RaiseRow, AtRow, Chaotic!Absorb
  <2> QED BY <2>1, <2>2 DEF Chaotic!Next
<1>2. CASE Settle
  <2>1. IsSolution(tables, parameter_class)
    BY <1>2, LeastInv' DEF LeastInv, SettledIsSolution, Settle
  <2>2. Chaotic!Finish
    BY <1>2, <2>1, SameSolution DEF Settle, AtRoundEnd, Chaotic!Finish
  <2> QED BY <2>2 DEF Chaotic!Next
<1>3. CASE EndRound
  BY <1>3, EndRoundGoesOn DEF LeastInv, EndRound, Chaotic!vars
<1>4. CASE SkipRow \/ KeepRow \/ Returned \/ UNCHANGED vars
  BY <1>4 DEF SkipRow, KeepRow, Returned, vars, Chaotic!vars
<1> QED BY <1>1, <1>2, <1>3, <1>4 DEF Next

(***************************************************************************)
(* The two loops implement the order-free fixed point.                     *)
(***************************************************************************)
THEOREM LoopsImplementFixedPoint == Spec => RefinesChaotic
<1>1. Init => Chaotic!Init
  BY RefinesInit
<1>2. LeastInv /\ LeastInv' /\ [Next]_vars => [Chaotic!Next]_(Chaotic!vars)
  BY RefinesStep
<1> QED BY <1>1, <1>2, LeastInit, LeastStep, PTL
        DEF Spec, RefinesChaotic, Chaotic!Spec

-----------------------------------------------------------------------------
(* Evidence.  What a witness passes can only turn conflicting after it was *)
(* recorded, so it still tells the two callers of a disagreement apart.    *)

\* A disagreement as evidence, apart from it being the only one of its
\* parameter.
Evidence(found) ==
  /\ found.parameter \in Slots(tables)
  /\ Fills(tables, found.first, found.parameter)
  /\ Fills(tables, found.second, found.parameter)
  /\ found.first # found.second
  /\ {found.first_class, found.second_class} = Concrete
  /\ parameter_class[found.parameter] = "Conflicting"

Evidenced ==
  /\ \A i \in 1 .. Len(disagreements) : Evidence(disagreements[i])
  /\ \A i, j \in 1 .. Len(disagreements) :
       disagreements[i].parameter = disagreements[j].parameter => i = j

\* The conflicts of a state are explained before the pass returns, too.
ConflictExplained(slot) ==
  \/ \E i \in 1 .. Len(disagreements) : disagreements[i].parameter = slot
  \/ \E r \in Rows(tables.call) :
       /\ Fills(tables, r, slot)
       /\ Contribution(tables, parameter_class, r) = "Conflicting"

ConflictsExplainedSoFar ==
  \A slot \in Slots(tables) :
    parameter_class[slot] = "Conflicting" => ConflictExplained(slot)

EvidenceInv ==
  /\ Typed
  /\ WitnessExplains
  /\ Evidenced
  /\ ConflictsExplainedSoFar

LEMMA EvidenceInit ==
  ASSUME Init PROVE EvidenceInv
<1>1. Typed
  BY TypedInit
<1>2. \A slot \in Slots(tables) : parameter_class[slot] = "Unset"
  BY DEF Init
<1>3. disagreements = << >>
  BY DEF Init
<1>4. Evidenced
  BY <1>3 DEF Evidenced
<1> QED BY <1>1, <1>2, <1>4
        DEF EvidenceInv, WitnessExplains, ConflictsExplainedSoFar, Concrete

\* What an argument passes climbs along with the classes.
LEMMA ContributionClimbs ==
  ASSUME Typed, RaiseRow,
         NEW r \in Rows(tables.call), Target(tables, r) # NoIndex
  PROVE  /\ Contribution(tables, parameter_class, r) \in AllocatorClass
         /\ Contribution(tables, parameter_class', r) \in AllocatorClass
         /\ Leq(Contribution(tables, parameter_class, r),
                Contribution(tables, parameter_class', r))
<1>1. tables \in FactTables
  BY TablesType DEF Typed
<1>2. parameter_class \in Classes(tables)
  BY DEF Typed, TypedProvenance, Classes
<1>3. parameter_class' \in Classes(tables)
  BY RaiseRowRaises
<1>4. \A slot \in Slots(tables) :
        Leq(parameter_class[slot], parameter_class'[slot])
  BY ClimbStep DEF Next
<1> QED BY <1>1, <1>2, <1>3, <1>4, ContributionType, ContributionMonotone

\* A slot is never NoIndex, so what fills one is an argument that is read.
LEMMA SlotsAreNamed ==
  ASSUME Typed, NEW slot \in Slots(tables)
  PROVE  slot # NoIndex
BY TableSetAssumption, NoIndexAssumption, TablesType DEF Typed, Slots

\* Raising a class leaves every witness an explanation.
LEMMA WitnessStep ==
  ASSUME Typed, WitnessExplains, RaiseRow
  PROVE  WitnessExplains'
<1>1. tables' = tables
  BY DEF RaiseRow
<1> SUFFICES ASSUME NEW slot \in Slots(tables),
                    parameter_class'[slot] \in Concrete
             PROVE  /\ Fills(tables, witness'[slot], slot)
                    /\ Contribution(tables, parameter_class', witness'[slot])
                         \in {parameter_class'[slot], "Conflicting"}
  BY <1>1 DEF WitnessExplains
<1> DEFINE raised == Target(tables, row)
           contributed == Contribution(tables, parameter_class, row)
<1>2. slot # NoIndex
  BY SlotsAreNamed
<1>3. /\ raised \in Slots(tables)
      /\ row \in Rows(tables.call)
      /\ contributed \in AllocatorClass
      /\ parameter_class[raised] \in AllocatorClass
      /\ parameter_class'[raised] = Join(parameter_class[raised], contributed)
      /\ parameter_class'[raised] # parameter_class[raised]
  BY RaiseRowRaises DEF Typed, TypedProvenance
<1>4. CASE slot = raised
  <2>1. witness'[slot] = row
    <3>1. witness' = Witnessed(witness, raised, parameter_class'[raised], row)
      BY <1>3 DEF RaiseRow
    <3>2. parameter_class'[raised] # "Conflicting"
      BY <1>4 DEF Concrete
    <3>3. witness \in [Slots(tables) -> Nat]
      BY DEF Typed, TypedProvenance
    <3> QED BY <1>3, <1>4, <3>1, <3>2, <3>3 DEF Witnessed
  <2>2. contributed = parameter_class'[slot]
    BY <1>3, <1>4 DEF Join, Concrete
  <2>3. /\ Contribution(tables, parameter_class', row) \in AllocatorClass
        /\ Leq(contributed, Contribution(tables, parameter_class', row))
    BY <1>2, <1>3, <1>4, ContributionClimbs
  <2> QED BY <1>3, <1>4, <2>1, <2>2, <2>3 DEF Fills, Leq, Concrete
<1>5. CASE slot # raised
  <2>1. parameter_class'[slot] = parameter_class[slot]
    BY <1>5, RaiseRowRaises
  <2>2. witness'[slot] = witness[slot]
    <3>1. witness' = Witnessed(witness, raised, parameter_class'[raised], row)
      BY <1>3 DEF RaiseRow
    <3>2. witness \in [Slots(tables) -> Nat]
      BY DEF Typed, TypedProvenance
    <3> QED BY <1>5, <3>1, <3>2 DEF Witnessed
  <2>3. /\ Fills(tables, witness[slot], slot)
        /\ Contribution(tables, parameter_class, witness[slot])
             \in {parameter_class[slot], "Conflicting"}
    BY <2>1 DEF WitnessExplains
  <2>4. /\ Contribution(tables, parameter_class', witness[slot])
             \in AllocatorClass
        /\ Leq(Contribution(tables, parameter_class, witness[slot]),
               Contribution(tables, parameter_class', witness[slot]))
    BY <1>2, <2>3, ContributionClimbs DEF Fills
  <2> QED BY <2>1, <2>2, <2>3, <2>4 DEF Leq, Concrete
<1> QED BY <1>4, <1>5

\* What a step that reports a disagreement reports.
Found ==
  [parameter    |-> Target(tables, row),
   first        |-> witness[Target(tables, row)],
   second       |-> row,
   first_class  |-> parameter_class[Target(tables, row)],
   second_class |-> Contribution(tables, parameter_class, row)]

\* A raise reports a disagreement exactly when both sides are concrete.
LEMMA RaiseRowReports ==
  ASSUME Typed, RaiseRow
  PROVE  \/ /\ disagreements' = Append(disagreements, Found)
            /\ {Found.first_class, Found.second_class} = Concrete
            /\ Found.first_class # Found.second_class
            /\ parameter_class'[Found.parameter] = "Conflicting"
         \/ /\ disagreements' = disagreements
            /\ parameter_class'[Found.parameter] = "Conflicting" =>
                 Contribution(tables, parameter_class, row) = "Conflicting"
<1> DEFINE slot == Target(tables, row)
           held == parameter_class[slot]
           contributed == Contribution(tables, parameter_class, row)
           merged == Join(held, contributed)
<1>1. /\ held \in AllocatorClass
      /\ contributed \in AllocatorClass
      /\ merged # held
      /\ parameter_class'[slot] = merged
  BY RaiseRowRaises DEF Typed, TypedProvenance
<1>2. disagreements' =
        IF merged = "Conflicting" /\ Disagrees(held, contributed)
        THEN Append(disagreements, Found) ELSE disagreements
  BY DEF RaiseRow, Found
<1>3. /\ Found.parameter = slot
      /\ Found.first_class = held
      /\ Found.second_class = contributed
  BY DEF Found
<1> HIDE DEF slot, held, contributed
<1>4. CASE merged = "Conflicting" /\ Disagrees(held, contributed)
  <2>1. held \in Concrete /\ contributed \in Concrete /\ held # contributed
    BY <1>1, <1>4 DEF Disagrees, Join, AllocatorClass, Concrete
  <2>2. {held, contributed} = Concrete
    BY <2>1 DEF Concrete
  <2> QED BY <1>1, <1>2, <1>3, <1>4, <2>1, <2>2
<1>5. CASE ~ (merged = "Conflicting" /\ Disagrees(held, contributed))
  <2>1. merged = "Conflicting" => contributed = "Conflicting"
    BY <1>1, <1>5 DEF Disagrees, Join, AllocatorClass
  <2> QED BY <1>1, <1>2, <1>3, <1>5, <2>1 DEF contributed
<1> QED BY <1>4, <1>5

\* The witness of a disagreement is not the argument that disagreed with it.
LEMMA WitnessIsAnother ==
  ASSUME Typed, WitnessExplains, RaiseRow,
         parameter_class[Found.parameter] \in Concrete,
         {Found.first_class, Found.second_class} = Concrete,
         Found.first_class # Found.second_class
  PROVE  /\ Fills(tables, Found.first, Found.parameter)
         /\ Fills(tables, Found.second, Found.parameter)
         /\ Found.first # Found.second
<1>1. /\ Found.parameter = Target(tables, row)
      /\ Found.parameter \in Slots(tables)
      /\ row \in Rows(tables.call)
      /\ Found.first = witness[Found.parameter]
      /\ Found.second = row
      /\ Found.first_class = parameter_class[Found.parameter]
      /\ Found.second_class = Contribution(tables, parameter_class, row)
  BY RaiseRowRaises DEF Found
<1>2. /\ Fills(tables, witness[Found.parameter], Found.parameter)
      /\ Contribution(tables, parameter_class, witness[Found.parameter])
           \in {parameter_class[Found.parameter], "Conflicting"}
  BY <1>1 DEF WitnessExplains
<1>3. witness[Found.parameter] # row
  <2> SUFFICES ASSUME witness[Found.parameter] = row PROVE FALSE
    OBVIOUS
  <2>1. Found.second_class \in {Found.first_class, "Conflicting"}
    BY <1>1, <1>2
  <2>2. Found.second_class \in Concrete
    OBVIOUS
  <2> QED BY <2>1, <2>2 DEF Concrete
<1> QED BY <1>1, <1>2, <1>3 DEF Fills

\* A raise leaves every disagreement evidence, and adds one of a parameter
\* that had none.
LEMMA DisagreementStep ==
  ASSUME Typed, WitnessExplains, Evidenced, RaiseRow
  PROVE  Evidenced'
<1>0. tables' = tables /\ disagreements \in Seq(Disagreement)
  BY DEF RaiseRow, Typed, TypedProvenance
<1> PICK n \in Nat : n = Len(disagreements)
  BY <1>0
<1>1. /\ tables' = tables
      /\ disagreements \in Seq(Disagreement)
      /\ n = Len(disagreements)
  BY <1>0
<1>2. \A i \in 1 .. n :
        /\ disagreements'[i] = disagreements[i]
        /\ i \in 1 .. Len(disagreements')
  BY <1>1, RaiseRowReports
<1>3. \A i \in 1 .. n : Evidence(disagreements[i])'
  <2> SUFFICES ASSUME NEW i \in 1 .. n
               PROVE  Evidence(disagreements[i])'
    OBVIOUS
  <2>1. Evidence(disagreements[i])
    BY DEF Evidenced
  <2>2. parameter_class'[disagreements[i].parameter] = "Conflicting"
    BY <2>1, ClimbStep DEF Evidence, Leq, Next
  <2> QED BY <1>1, <1>2, <2>1, <2>2 DEF Evidence
<1>4. Found.parameter \in Slots(tables)
  BY RaiseRowRaises DEF Found
<1>5. CASE /\ disagreements' = Append(disagreements, Found)
           /\ {Found.first_class, Found.second_class} = Concrete
           /\ Found.first_class # Found.second_class
           /\ parameter_class'[Found.parameter] = "Conflicting"
  <2>1. parameter_class[Found.parameter] \in Concrete
    BY <1>5 DEF Found
  <2>2. /\ Len(disagreements') = n + 1
        /\ disagreements'[n + 1] = Found
    BY <1>1, <1>5
  <2>3. Evidence(disagreements[n + 1])'
    <3>1. /\ Fills(tables, Found.first, Found.parameter)
          /\ Fills(tables, Found.second, Found.parameter)
          /\ Found.first # Found.second
      BY <1>5, <2>1, WitnessIsAnother
    <3> QED BY <1>1, <1>4, <1>5, <2>2, <3>1 DEF Evidence
  <2>4. \A i \in 1 .. n : disagreements[i].parameter # Found.parameter
    BY <2>1 DEF Evidenced, Evidence, Concrete
  <2>5. \A i \in 1 .. n + 1 : i \in 1 .. n \/ i = n + 1
    BY <1>1
  <2>6. \A i, j \in 1 .. n + 1 :
          disagreements'[i].parameter = disagreements'[j].parameter => i = j
    BY <1>1, <1>2, <2>2, <2>4, <2>5 DEF Evidenced
  <2>7. \A i \in 1 .. n + 1 : Evidence(disagreements[i])'
    BY <1>3, <2>3, <2>5
  <2> QED BY <2>2, <2>6, <2>7 DEF Evidenced
<1>6. CASE disagreements' = disagreements
  BY <1>3, <1>6 DEF Evidenced
<1> QED BY <1>5, <1>6, RaiseRowReports

\* A raise explains the conflict it starts and keeps the ones it found.
LEMMA ConflictStep ==
  ASSUME Typed, ConflictsExplainedSoFar, RaiseRow
  PROVE  ConflictsExplainedSoFar'
<1>1. /\ tables' = tables
      /\ disagreements \in Seq(Disagreement)
      /\ Found.parameter = Target(tables, row)
      /\ row \in Rows(tables.call)
  BY RaiseRowRaises DEF RaiseRow, Typed, TypedProvenance, Found
<1> SUFFICES ASSUME NEW slot \in Slots(tables),
                    parameter_class'[slot] = "Conflicting"
             PROVE  ConflictExplained(slot)'
  BY <1>1 DEF ConflictsExplainedSoFar
<1>2. slot # NoIndex
  BY SlotsAreNamed
<1>3. \A r \in Rows(tables.call) :
        Fills(tables, r, slot)
        /\ Contribution(tables, parameter_class, r) = "Conflicting"
        => Contribution(tables, parameter_class', r) = "Conflicting"
  BY <1>2, ContributionClimbs DEF Fills, Leq
<1>4. \A i \in 1 .. Len(disagreements) :
        /\ disagreements'[i] = disagreements[i]
        /\ i \in 1 .. Len(disagreements')
  BY <1>1, RaiseRowReports
<1>5. CASE slot # Target(tables, row)
  <2>1. ConflictExplained(slot)
    BY <1>5, RaiseRowRaises DEF ConflictsExplainedSoFar
  <2> QED BY <1>1, <1>3, <1>4, <2>1 DEF ConflictExplained
<1>6. CASE slot = Target(tables, row)
  <2>1. CASE disagreements' = Append(disagreements, Found)
    <3>1. /\ Len(disagreements') = Len(disagreements) + 1
          /\ disagreements'[Len(disagreements) + 1] = Found
      BY <1>1, <2>1
    <3>2. Len(disagreements) + 1 \in 1 .. Len(disagreements')
      BY <1>1, <3>1
    <3> QED BY <1>1, <1>6, <3>1, <3>2 DEF ConflictExplained
  <2>2. CASE Contribution(tables, parameter_class, row) = "Conflicting"
    <3>1. Fills(tables, row, slot)
      BY <1>1, <1>6 DEF Fills
    <3> QED BY <1>1, <1>3, <2>2, <3>1 DEF ConflictExplained
  <2> QED BY <1>1, <1>6, <2>1, <2>2, RaiseRowReports
<1> QED BY <1>5, <1>6

LEMMA EvidenceStep ==
  ASSUME EvidenceInv, [Next]_vars PROVE EvidenceInv'
<1>1. Typed'
  BY TypedStep DEF EvidenceInv
<1>2. CASE RaiseRow
  BY <1>1, <1>2, WitnessStep, DisagreementStep, ConflictStep DEF EvidenceInv
<1>3. CASE UNCHANGED <<tables, parameter_class, witness, disagreements>>
  BY <1>1, <1>3
     DEF EvidenceInv, WitnessExplains, Evidenced, Evidence,
         ConflictsExplainedSoFar, ConflictExplained
<1>4. RaiseRow
      \/ UNCHANGED <<tables, parameter_class, witness, disagreements>>
  BY DEF Next, SkipRow, KeepRow, Settle, EndRound, Returned, vars
<1> QED BY <1>2, <1>3, <1>4

(***************************************************************************)
(* While a parameter has one allocator its witness passed that allocator,  *)
(* every disagreement names two different arguments that filled the        *)
(* parameter with different allocators, and every conflict is explained.   *)
(***************************************************************************)
THEOREM EvidenceIsSound == Spec => []SoundEvidence
<1>1. Evidenced => DisagreementsAreEvidence
  BY DEF Evidenced, Evidence, DisagreementsAreEvidence
<1>2. ConflictsExplainedSoFar => ConflictsAreExplained
  BY DEF ConflictsExplainedSoFar, ConflictExplained, ConflictsAreExplained
<1>3. EvidenceInv => SoundEvidence
  BY <1>1, <1>2 DEF EvidenceInv, SoundEvidence
<1> QED BY <1>3, EvidenceInit, EvidenceStep, PTL DEF Spec

=============================================================================

-------------------------- MODULE OwnershipProofs --------------------------
(***************************************************************************)
(* Proofs about the ownership pass, for any program: every field is        *)
(* classified once, by everything the tables say about it and by the       *)
(* closure of its own struct, and its evidence is all of that and no more. *)
(***************************************************************************)
EXTENDS Ownership, FiniteSetTheorems, WellFoundedInduction, TLAPS

WellTyped == program \in FactSets /\ TypeOK

\* Where the evidence of the next field to be closed starts.
Base == IF row = 0 THEN 0 ELSE EvidenceEnd(row - 1)

Tiled ==
  /\ EvidenceTiles
  /\ pc # "field" => found.start = Base /\ found.start =< Len(evidence)

-----------------------------------------------------------------------------
(* The tables.                                                             *)

LEMMA ProgramShape ==
  ASSUME NEW p \in FactSets
  PROVE  /\ p \in FactsType
         /\ Len(p.field_owner) \in Nat
         /\ \A f \in Fields(p) : f \in Nat /\ At(p.field_owner, f) \in Nat
<1>1. p \in FactsType
  BY FactSetsAssumption
<1>2. p.field_owner \in Seq(Nat)
  BY <1>1 DEF FactsType
<1>3. Len(p.field_owner) \in Nat
  BY <1>2
<1>4. \A f \in Fields(p) : f \in Nat /\ At(p.field_owner, f) \in Nat
  BY <1>2, <1>3 DEF Fields, Rows, At
<1> QED BY <1>1, <1>3, <1>4

\* The rows a walk goes through are rows of a table, finitely many.
LEMMA WalkShape ==
  ASSUME NEW p \in FactSets, NEW f
  PROVE  /\ \A kind : Operations(p, kind, f) \in SUBSET Nat
         /\ \A kind : IsFiniteSet(Operations(p, kind, f))
         /\ Assignments(p, f) \in SUBSET Nat
         /\ IsFiniteSet(Assignments(p, f))
<1>1. p \in FactsType
  BY ProgramShape
<1>2. Len(p.operation) \in Nat /\ Len(p.assigned) \in Nat
  <2>1. Len(p.operation) \in Nat
    BY <1>1 DEF FactsType
  <2>2. Len(p.assigned) \in Nat
    BY <1>1 DEF FactsType
  <2> QED BY <2>1, <2>2
<1>3. ASSUME NEW n \in Nat PROVE IsFiniteSet(0 .. n - 1) /\ 0 .. n - 1 \subseteq Nat
  <2> DEFINE last == n - 1
  <2>1. last \in Int /\ 0 \in Int
    OBVIOUS
  <2>2. 0 .. last \subseteq Nat
    OBVIOUS
  <2> HIDE DEF last
  <2>3. IsFiniteSet(0 .. last)
    BY <2>1, FS_Interval
  <2> QED BY <2>2, <2>3 DEF last
<1>4. /\ IsFiniteSet(Rows(p.operation)) /\ Rows(p.operation) \subseteq Nat
      /\ IsFiniteSet(Rows(p.assigned)) /\ Rows(p.assigned) \subseteq Nat
  BY <1>2, <1>3 DEF Rows
<1>5. \A kind : Operations(p, kind, f) \in SUBSET Rows(p.operation)
  BY DEF Operations
<1>6. Assignments(p, f) \in SUBSET Rows(p.assigned)
  BY DEF Assignments
<1> QED BY <1>4, <1>5, <1>6, FS_Subset

\* There is a first row wherever there is one at all.
LEMMA FirstIsLeft ==
  ASSUME left \in SUBSET Nat, left # {}
  PROVE  First \in left
<1> DEFINE R == OpToRel(<, Nat)
<1>1. IsWellFoundedOn(R, Nat)
  BY NatLessThanWellFounded
<1> HIDE DEF R
<1>2. \E r \in left : \A other \in left : ~ (<<other, r>> \in R)
  BY <1>1, WFMin
<1>3. \A r, other \in Nat : other < r => <<other, r>> \in R
  BY DEF R, OpToRel
<1>4. \E r \in left : \A other \in left : r =< other
  <2>1. PICK r \in left : \A other \in left : ~ (<<other, r>> \in R)
    BY <1>2
  <2>2. r \in Nat
    OBVIOUS
  <2>3. ASSUME NEW other \in left PROVE r =< other
    <3>1. other \in Nat /\ ~ (other < r)
      BY <1>3, <2>1, <2>2
    <3> QED BY <2>2, <3>1
  <2> QED BY <2>3
<1> QED BY <1>4 DEF First

LEMMA FunctionOfType ==
  ASSUME NEW column \in Seq(Nat), NEW r \in Nat
  PROVE  FunctionOf(column, r) \in Nat
BY NoIndexAssumption DEF FunctionOf, Has, At

LEMMA AllocatedFromType ==
  ASSUME NEW p \in FactSets, NEW a \in Nat
  PROVE  AllocatedFrom(p, a) \in AllocatorClass
<1>1. p \in FactsType
  BY ProgramShape
<1>2. /\ p.memory_operation \in Seq(Nat)
      /\ p.allocator \in Seq(Nat)
      /\ p.resolved \in Seq(AllocatorClass)
  BY <1>1 DEF FactsType
<1>3. \A op \in Nat : Has(p.allocator, op) => At(p.allocator, op) \in Nat
  BY <1>2 DEF Has, At
<1>4. Has(p.memory_operation, a) => At(p.memory_operation, a) \in Nat
  BY <1>2 DEF Has, At
<1>5. \A s \in Nat : Has(p.resolved, s) => At(p.resolved, s) \in AllocatorClass
  BY <1>2 DEF Has, At
<1>6. "Conflicting" \in AllocatorClass
  BY DEF AllocatorClass
<1> QED BY <1>3, <1>4, <1>5, <1>6 DEF AllocatedFrom

LEMMA JoinType ==
  ASSUME NEW l \in AllocatorClass, NEW r \in AllocatorClass
  PROVE  Join(l, r) \in AllocatorClass
BY DEF Join, AllocatorClass

LEMMA DecideType ==
  ASSUME NEW f PROVE /\ Decide(f).class \in OwnershipClass
                     /\ Decide(f).confidence \in Confidence
BY DEF Decide, Decision, Undecided, OwnershipClass, Confidence

LEMMA AppendType ==
  ASSUME NEW S, NEW n \in Nat, NEW s \in [1 .. n -> S], NEW e \in S
  PROVE  /\ Append(s, e) \in [1 .. n + 1 -> S]
         /\ Append(s, e)[n + 1] = e
         /\ \A i \in 1 .. n : Append(s, e)[i] = s[i]
<1>1. s \in Seq(S) /\ Len(s) = n
  OBVIOUS
<1>2. Append(s, e) \in Seq(S) /\ Len(Append(s, e)) = n + 1
  BY <1>1
<1>3. Append(s, e)[n + 1] = e /\ \A i \in 1 .. n : Append(s, e)[i] = s[i]
  BY <1>1
<1>4. \A q \in Seq(S) : q \in [1 .. Len(q) -> S]
  OBVIOUS
<1> DEFINE longer == Append(s, e)
<1>5. longer \in Seq(S) /\ Len(longer) = n + 1
  BY <1>2
<1> HIDE DEF longer
<1>6. longer \in [1 .. n + 1 -> S]
  BY <1>4, <1>5
<1> QED BY <1>3, <1>6 DEF longer

-----------------------------------------------------------------------------
(* Type correctness.                                                       *)

LEMMA TypedInit == Init => WellTyped
<1> SUFFICES ASSUME Init PROVE WellTyped
  OBVIOUS
<1>1. program \in FactsType /\ Len(program.field_owner) \in Nat
  BY ProgramShape DEF Init
<1>2. row \in 0 .. Len(program.field_owner)
  BY <1>1 DEF Init
<1>3. /\ class \in [1 .. row -> OwnershipClass]
      /\ confidence \in [1 .. row -> Confidence]
      /\ evidence_start \in [1 .. row -> Nat]
      /\ evidence_count \in [1 .. row -> Nat]
  BY DEF Init
<1>4. found \in [aligned : BOOLEAN, freed : BOOLEAN, inside : BOOLEAN,
                 resized : BOOLEAN, sources : SUBSET AssignmentSource,
                 allocator : AllocatorClass, start : Nat]
  BY DEF Init, NothingFound, AllocatorClass
<1>5. evidence \in Seq([kind : EvidenceKind, function : Nat])
  BY DEF Init
<1> QED BY <1>1, <1>2, <1>3, <1>4, <1>5 DEF Init, WellTyped, TypeOK

EvidenceRow == [kind : EvidenceKind, function : Nat]

\* Closing a field adds one entry to every column of the result.
LEMMA CloseType ==
  ASSUME WellTyped, NEW d, NEW start \in Nat, NEW upto \in Nat, start =< upto,
         d.class \in OwnershipClass, d.confidence \in Confidence,
         row < Len(program.field_owner), Close(d, start, upto)
  PROVE  /\ row' \in 0 .. Len(program.field_owner) /\ row' = row + 1
         /\ pc' = "field"
         /\ class' \in [1 .. row' -> OwnershipClass]
         /\ confidence' \in [1 .. row' -> Confidence]
         /\ evidence_start' \in [1 .. row' -> Nat]
         /\ evidence_count' \in [1 .. row' -> Nat]
<1>1. row \in Nat /\ Len(program.field_owner) \in Nat
  BY ProgramShape DEF WellTyped, TypeOK
<1>2. upto - start \in Nat
  OBVIOUS
<1>3. row' = row + 1 /\ pc' = "field"
  BY DEF Close
<1>4. class' \in [1 .. row' -> OwnershipClass]
  BY <1>1, <1>3, AppendType DEF Close, WellTyped, TypeOK
<1>5. confidence' \in [1 .. row' -> Confidence]
  BY <1>1, <1>3, AppendType DEF Close, WellTyped, TypeOK
<1>6. evidence_start' \in [1 .. row' -> Nat]
  BY <1>1, <1>3, AppendType DEF Close, WellTyped, TypeOK
<1>7. evidence_count' \in [1 .. row' -> Nat]
  BY <1>1, <1>2, <1>3, AppendType DEF Close, WellTyped, TypeOK
<1>8. row' \in 0 .. Len(program.field_owner)
  BY <1>1, <1>3
<1> QED BY <1>3, <1>4, <1>5, <1>6, <1>7, <1>8

\* A row of evidence is written at the end of the table.
LEMMA WriteType ==
  ASSUME WellTyped, NEW kind \in EvidenceKind, NEW function \in Nat
  PROVE  /\ Evidence(kind, function) \in EvidenceRow
         /\ Append(evidence, Evidence(kind, function)) \in Seq(EvidenceRow)
         /\ Len(Append(evidence, Evidence(kind, function))) = Len(evidence) + 1
<1>1. Evidence(kind, function) \in EvidenceRow
  BY DEF Evidence, EvidenceRow
<1>2. evidence \in Seq(EvidenceRow)
  BY DEF WellTyped, TypeOK, EvidenceRow
<1> QED BY <1>1, <1>2

\* The assignments end with one row, or with none.
LEMMA SummaryType ==
  ASSUME WellTyped
  PROVE  /\ Summary \in Seq(EvidenceRow)
         /\ evidence \o Summary \in Seq(EvidenceRow)
         /\ Len(Summary) \in Nat
         /\ Len(evidence \o Summary) = Len(evidence) + Len(Summary)
<1>1. \A kind \in EvidenceKind : << Evidence(kind, NoIndex) >> \in Seq(EvidenceRow)
  BY NoIndexAssumption DEF Evidence, EvidenceRow
<1>2. Summary \in Seq(EvidenceRow)
  BY <1>1 DEF Summary, EvidenceKind
<1>3. evidence \in Seq(EvidenceRow)
  BY DEF WellTyped, TypeOK, EvidenceRow
<1> HIDE DEF Summary
<1> QED BY <1>2, <1>3

\* Every action leaves the program alone, and the walks only the rows they
\* have yet to look at.
LEMMA TypedStep ==
  ASSUME WellTyped, Tiled, [Next]_vars PROVE WellTyped'
<1> USE DEF WellTyped
<1>0. /\ program' = program
      /\ row \in Nat /\ Len(program.field_owner) \in Nat
      /\ Len(evidence) \in Nat
      /\ program \in FactsType
  <2>1. program' = program
    BY DEF Next, Step, vars, result, CloseAtOnce, Open, Free, FreeSaid, FreesDone, Resize,
           ResizesDone, Assign, Settle, Returned
  <2>2. Len(evidence) \in Nat
    <3>1. evidence \in Seq(EvidenceRow)
      BY DEF TypeOK, EvidenceRow
    <3> QED BY <3>1
  <2> QED BY <2>1, <2>2, ProgramShape DEF TypeOK
<1>1. CASE CloseAtOnce
  <2> DEFINE d == IF Has(program.field_type, row)
                  THEN Decision("Value", "High") ELSE Undecided
  <2>1. d.class \in OwnershipClass /\ d.confidence \in Confidence
    BY DEF Decision, Undecided, OwnershipClass, Confidence
  <2>2. Close(d, Len(evidence), Len(evidence)) /\ row < Len(program.field_owner)
    BY <1>1 DEF CloseAtOnce, AtField
  <2> HIDE DEF d
  <2>3. /\ row' \in 0 .. Len(program.field_owner)
        /\ pc' = "field"
        /\ class' \in [1 .. row' -> OwnershipClass]
        /\ confidence' \in [1 .. row' -> Confidence]
        /\ evidence_start' \in [1 .. row' -> Nat]
        /\ evidence_count' \in [1 .. row' -> Nat]
    BY <1>0, <2>1, <2>2, CloseType
  <2>4. UNCHANGED <<left, found, evidence>>
    BY <1>1 DEF CloseAtOnce
  <2> QED BY <1>0, <2>3, <2>4 DEF TypeOK
<1>2. CASE Open
  <2>1. left' \in SUBSET Nat
    BY <1>2, WalkShape DEF Open
  <2>2. evidence' \in Seq(EvidenceRow)
    <3>1. "AlignmentCannotBeCarried" \in EvidenceKind
      BY DEF EvidenceKind
    <3>2. Append(evidence, Evidence("AlignmentCannotBeCarried", NoIndex))
            \in Seq(EvidenceRow)
      BY <3>1, WriteType, NoIndexAssumption
    <3>3. evidence \in Seq(EvidenceRow)
      BY DEF TypeOK, EvidenceRow
    <3> QED BY <1>2, <3>2, <3>3 DEF Open
  <2>3. found' \in [aligned : BOOLEAN, freed : BOOLEAN, inside : BOOLEAN,
                    resized : BOOLEAN, sources : SUBSET AssignmentSource,
                    allocator : AllocatorClass, start : Nat]
    <3>1. OverAligned(program, Type) \in BOOLEAN
      BY DEF OverAligned
    <3> QED BY <1>0, <1>2, <3>1 DEF Open, NothingFound, AllocatorClass
  <2>4. row' \in Fields(program)
    BY <1>0, <1>2 DEF Open, AtField, Fields, Rows
  <2> QED BY <1>0, <1>2, <2>1, <2>2, <2>3, <2>4
          DEF Open, TypeOK, result, EvidenceRow
<1>3. CASE Free
  <2>1. First \in Nat
    BY <1>3, FirstIsLeft DEF Free, FreeSaid, TypeOK
  <2>2. FunctionOf(program.function, First) \in Nat
    <3>1. program.function \in Seq(Nat)
      BY <1>0 DEF FactsType
    <3> QED BY <2>1, <3>1, FunctionOfType
  <2>4. evidence' \in Seq(EvidenceRow)
    <3>1. "FreedInDeinitClosure" \in EvidenceKind /\
          "FreedOutsideDeinitClosure" \in EvidenceKind
      BY DEF EvidenceKind
    <3> QED BY <1>3, <2>2, <3>1, WriteType DEF Free, FreeSaid
  <2>5. found' \in [aligned : BOOLEAN, freed : BOOLEAN, inside : BOOLEAN,
                    resized : BOOLEAN, sources : SUBSET AssignmentSource,
                    allocator : AllocatorClass, start : Nat]
    BY <1>3 DEF Free, FreeSaid, TypeOK
  <2> QED BY <1>0, <1>3, <2>4, <2>5
          DEF Free, FreeSaid, TypeOK, result, EvidenceRow
<1>4. CASE FreesDone
  BY <1>0, <1>4, WalkShape DEF FreesDone, TypeOK, result
<1>5. CASE Resize
  <2>1. First \in Nat
    BY <1>5, FirstIsLeft DEF Resize, TypeOK
  <2>2. FunctionOf(program.function, First) \in Nat
    <3>1. program.function \in Seq(Nat)
      BY <1>0 DEF FactsType
    <3> QED BY <2>1, <3>1, FunctionOfType
  <2>3. evidence' \in Seq(EvidenceRow)
    <3>1. "ResizedAfterAllocation" \in EvidenceKind
      BY DEF EvidenceKind
    <3> QED BY <1>5, <2>2, <3>1, WriteType DEF Resize
  <2>4. found' \in [aligned : BOOLEAN, freed : BOOLEAN, inside : BOOLEAN,
                    resized : BOOLEAN, sources : SUBSET AssignmentSource,
                    allocator : AllocatorClass, start : Nat]
    BY <1>5 DEF Resize, TypeOK
  <2> QED BY <1>0, <1>5, <2>3, <2>4 DEF Resize, TypeOK, result, EvidenceRow
<1>6. CASE ResizesDone
  BY <1>0, <1>6, WalkShape DEF ResizesDone, TypeOK, result
<1>7. CASE Assign
  <2>1. First \in Nat
    BY <1>7, FirstIsLeft DEF Assign, TypeOK
  <2>2. CASE ~ Has(program.source, First)
    BY <1>0, <1>7, <2>2 DEF Assign, TypeOK, result
  <2>3. CASE Has(program.source, First)
    <3>1. At(program.source, First) \in AssignmentSource
      <4>1. program.source \in Seq(AssignmentSource)
        BY <1>0 DEF FactsType, AssignmentSource
      <4> QED BY <2>1, <2>3, <4>1 DEF Has, At
    <3>2. AssignedFrom[At(program.source, First)] \in EvidenceKind
      BY <3>1 DEF AssignedFrom, EvidenceKind, AssignmentSource
    <3>3. FunctionOf(program.assigned_in, First) \in Nat
      <4>1. program.assigned_in \in Seq(Nat)
        BY <1>0 DEF FactsType
      <4> QED BY <2>1, <4>1, FunctionOfType
    <3>4. evidence' \in Seq(EvidenceRow)
      BY <1>7, <2>3, <3>2, <3>3, WriteType DEF Assign
    <3>5. Join(found.allocator, AllocatedFrom(program, First)) \in AllocatorClass
      BY <2>1, AllocatedFromType, JoinType DEF TypeOK
    <3>6. found' \in [aligned : BOOLEAN, freed : BOOLEAN, inside : BOOLEAN,
                      resized : BOOLEAN, sources : SUBSET AssignmentSource,
                      allocator : AllocatorClass, start : Nat]
      <4> DEFINE source == At(program.source, First)
                 more == IF source = "Allocation"
                         THEN Join(found.allocator, AllocatedFrom(program, First))
                         ELSE found.allocator
      <4>1. found' = [found EXCEPT !.sources = found.sources \cup {source},
                                   !.allocator = more]
        BY <1>7, <2>3 DEF Assign
      <4>2. found \in [aligned : BOOLEAN, freed : BOOLEAN, inside : BOOLEAN,
                      resized : BOOLEAN, sources : SUBSET AssignmentSource,
                      allocator : AllocatorClass, start : Nat]
        BY DEF TypeOK
      <4>3. found.sources \cup {source} \in SUBSET AssignmentSource
        BY <3>1, <4>2
      <4>4. more \in AllocatorClass
        BY <3>5, <4>2
      <4> HIDE DEF source, more
      <4> QED BY <4>1, <4>2, <4>3, <4>4
    <3>7. left' \in SUBSET Nat
      BY <1>7 DEF Assign, TypeOK
    <3>8. UNCHANGED <<row, pc, class, confidence, evidence_start,
                      evidence_count>>
      BY <1>7 DEF Assign, result
    <3> QED BY <1>0, <3>4, <3>6, <3>7, <3>8 DEF TypeOK, EvidenceRow
  <2> QED BY <2>2, <2>3
<1>8. CASE Settle
  <2>1. /\ Decide(found).class \in OwnershipClass
        /\ Decide(found).confidence \in Confidence
    BY DecideType
  <2>2. /\ evidence' \in Seq(EvidenceRow)
        /\ Len(evidence') = Len(evidence) + Len(Summary)
        /\ Len(Summary) \in Nat
    BY <1>8, SummaryType DEF Settle
  <2>3. /\ found.start \in Nat /\ found.start =< Len(evidence)
        /\ row < Len(program.field_owner)
    BY <1>0, <1>8 DEF Settle, TypeOK, Tiled, Fields, Rows
  <2>4. Close(Decide(found), found.start, Len(evidence'))
    BY <1>8 DEF Settle
  <2>5. Len(evidence') \in Nat /\ found.start =< Len(evidence')
    BY <1>0, <2>2, <2>3
  <2>6. /\ row' \in 0 .. Len(program.field_owner)
        /\ pc' = "field"
        /\ class' \in [1 .. row' -> OwnershipClass]
        /\ confidence' \in [1 .. row' -> Confidence]
        /\ evidence_start' \in [1 .. row' -> Nat]
        /\ evidence_count' \in [1 .. row' -> Nat]
    BY <2>1, <2>3, <2>4, <2>5, CloseType
  <2>7. UNCHANGED <<left, found>>
    BY <1>8 DEF Settle
  <2> QED BY <1>0, <2>2, <2>6, <2>7 DEF TypeOK, EvidenceRow
<1>9. CASE Returned \/ UNCHANGED vars
  <2>1. UNCHANGED <<program, row, pc, left, found, class, confidence,
                    evidence_start, evidence_count, evidence>>
    BY <1>9 DEF Returned, vars, result
  <2> QED BY <2>1 DEF TypeOK
<1> QED BY <1>1, <1>2, <1>3, <1>4, <1>5, <1>6, <1>7, <1>8, <1>9 DEF Next, Step

-----------------------------------------------------------------------------
(* The evidence table is cut into the fields.                              *)

\* A field closed from Base up to a row moves Base to that row.
LEMMA CloseTiles ==
  ASSUME WellTyped, Tiled, NEW d, NEW start \in Nat, NEW upto \in Nat,
         start = Base, start =< upto, Close(d, start, upto)
  PROVE  /\ \A f \in Classified' :
              At(evidence_start, f)' =
                IF f = 0 THEN 0 ELSE EvidenceEnd(f - 1)'
         /\ Base' = upto
<1>1. row \in Nat /\ row' = row + 1
  BY ProgramShape DEF WellTyped, TypeOK, Close
<1>2. /\ evidence_start \in [1 .. row -> Nat]
      /\ evidence_count \in [1 .. row -> Nat]
      /\ upto - start \in Nat
  BY DEF WellTyped, TypeOK
<1>3. /\ evidence_start'[row + 1] = start
      /\ \A i \in 1 .. row : evidence_start'[i] = evidence_start[i]
  BY <1>1, <1>2, AppendType DEF Close
<1>4. /\ evidence_count'[row + 1] = upto - start
      /\ \A i \in 1 .. row : evidence_count'[i] = evidence_count[i]
  BY <1>1, <1>2, AppendType DEF Close
<1>5. \A f \in 0 .. row - 1 :
        /\ At(evidence_start', f) = At(evidence_start, f)
        /\ At(evidence_count', f) = At(evidence_count, f)
  <2> TAKE f \in 0 .. row - 1
  <2>1. f + 1 \in 1 .. row
    BY <1>1
  <2> QED BY <1>3, <1>4, <2>1 DEF At
<1>6. /\ At(evidence_start', row) = start
      /\ At(evidence_start', row) + At(evidence_count', row) = upto
  <2>1. upto = start + (upto - start)
    OBVIOUS
  <2> QED BY <1>3, <1>4, <2>1 DEF At
<1>7. \A f \in Classified' :
        At(evidence_start', f) =
          IF f = 0 THEN 0
          ELSE At(evidence_start', f - 1) + At(evidence_count', f - 1)
  <2> TAKE f \in Classified'
  <2>1. f \in 0 .. row
    BY <1>1 DEF Classified
  <2>2. CASE f < row
    <3>1. /\ f \in 0 .. row - 1
          /\ f # 0 => f - 1 \in 0 .. row - 1
      BY <1>1, <2>1, <2>2
    <3>2. At(evidence_start, f) = IF f = 0 THEN 0 ELSE EvidenceEnd(f - 1)
      BY <3>1 DEF Tiled, EvidenceTiles, Classified
    <3> QED BY <1>5, <3>1, <3>2 DEF EvidenceEnd
  <2>3. CASE f = row
    <3>1. f # 0 => f - 1 \in 0 .. row - 1
      BY <1>1, <2>1, <2>3
    <3> QED BY <1>5, <1>6, <2>3, <3>1 DEF EvidenceEnd, Base
  <2> QED BY <1>1, <2>1, <2>2, <2>3
<1>8. Base' = upto
  <2>1. row' # 0 /\ row' - 1 = row
    BY <1>1
  <2>2. EvidenceEnd(row - 1)' = At(evidence_start', row' - 1)
                                  + At(evidence_count', row' - 1)
    BY DEF EvidenceEnd
  <2> QED BY <1>6, <2>1, <2>2 DEF Base
<1> QED BY <1>7, <1>8 DEF EvidenceEnd

LEMMA TiledInit == Init => Tiled
BY DEF Init, Tiled, EvidenceTiles, Classified

\* A step that closes no field writes at the end of the table.
LEMMA WalkTiles ==
  ASSUME WellTyped, Tiled,
         UNCHANGED <<row, evidence_start, evidence_count>>,
         pc' # "field", found'.start = Base,
         Len(evidence) \in Nat, Len(evidence') \in Nat,
         Base =< Len(evidence'), Base \in Nat
  PROVE  Tiled'
<1>1. Base' = Base
  BY DEF Base, EvidenceEnd
<1>2. \A f : EvidenceEnd(f)' = EvidenceEnd(f)
  BY DEF EvidenceEnd
<1>3. \A f \in Classified' :
        At(evidence_start, f)' = IF f = 0 THEN 0 ELSE EvidenceEnd(f - 1)'
  BY <1>2 DEF Tiled, EvidenceTiles, Classified
<1> QED BY <1>1, <1>3 DEF Tiled, EvidenceTiles

LEMMA TiledStep ==
  ASSUME WellTyped, Tiled, [Next]_vars PROVE Tiled'
<1>1. WellTyped'
  BY TypedStep
<1>2. Len(evidence) \in Nat /\ Len(evidence') \in Nat
  <2>1. evidence \in Seq(EvidenceRow) /\ evidence' \in Seq(EvidenceRow)
    BY <1>1 DEF WellTyped, TypeOK, EvidenceRow
  <2> QED BY <2>1
<1>3. /\ pc = "field" => Base = Len(evidence)
      /\ pc # "field" => found.start = Base
      /\ found.start \in Nat
      /\ Base \in Nat /\ Base =< Len(evidence)
  <2>1. pc = "field" => Base = Len(evidence)
    BY DEF Tiled, EvidenceTiles, Base
  <2>2. found.start \in Nat
    BY DEF WellTyped, TypeOK
  <2> QED BY <1>2, <2>1, <2>2 DEF Tiled
\* What is written is written behind what is there.
<1>4. \A kind, function : Len(Append(evidence, Evidence(kind, function)))
                            = Len(evidence) + 1
  <2>1. evidence \in Seq(EvidenceRow)
    BY DEF WellTyped, TypeOK, EvidenceRow
  <2> QED BY <2>1
<1>5. CASE CloseAtOnce
  <2> DEFINE d == IF Has(program.field_type, row)
                  THEN Decision("Value", "High") ELSE Undecided
  <2>1. Close(d, Len(evidence), Len(evidence)) /\ pc = "field"
        /\ evidence' = evidence
    BY <1>5 DEF CloseAtOnce, AtField
  <2> HIDE DEF d
  <2>2. pc' = "field"
    BY <2>1 DEF Close
  <2>3. /\ \A f \in Classified' :
              At(evidence_start, f)' =
                IF f = 0 THEN 0 ELSE EvidenceEnd(f - 1)'
        /\ Base' = Len(evidence)
    BY <1>2, <1>3, <2>1, CloseTiles
  <2> QED BY <2>1, <2>2, <2>3 DEF Tiled, EvidenceTiles, Base
<1>6. CASE Open
  <2>1. UNCHANGED <<row, evidence_start, evidence_count>> /\ pc' # "field"
    BY <1>6 DEF Open, result
  <2>2. found'.start = Base
    BY <1>3, <1>6 DEF Open, AtField, NothingFound
  <2>3. Base =< Len(evidence')
    BY <1>2, <1>3, <1>4, <1>6 DEF Open
  <2> QED BY <1>2, <1>3, <2>1, <2>2, <2>3, WalkTiles
<1>7. CASE Free
  <2>1. UNCHANGED <<row, evidence_start, evidence_count>> /\ pc' # "field"
    BY <1>7 DEF Free, FreeSaid, result
  <2>2. found'.start = found.start
    BY <1>7 DEF Free, FreeSaid, WellTyped, TypeOK
  <2>3. Base =< Len(evidence')
    BY <1>2, <1>3, <1>4, <1>7 DEF Free, FreeSaid
  <2> QED BY <1>2, <1>3, <1>7, <2>1, <2>2, <2>3, WalkTiles DEF Free, FreeSaid
<1>8. CASE Resize
  <2>1. UNCHANGED <<row, evidence_start, evidence_count>> /\ pc' # "field"
    BY <1>8 DEF Resize, result
  <2>2. found'.start = found.start
    BY <1>8 DEF Resize, WellTyped, TypeOK
  <2>3. Base =< Len(evidence')
    BY <1>2, <1>3, <1>4, <1>8 DEF Resize
  <2> QED BY <1>2, <1>3, <1>8, <2>1, <2>2, <2>3, WalkTiles DEF Resize
<1>9. CASE Assign
  <2>1. UNCHANGED <<row, evidence_start, evidence_count>> /\ pc' # "field"
    BY <1>9 DEF Assign, result
  <2>2. found'.start = found.start
    BY <1>9 DEF Assign, WellTyped, TypeOK
  <2>3. Base =< Len(evidence')
    BY <1>2, <1>3, <1>4, <1>9 DEF Assign
  <2> QED BY <1>2, <1>3, <1>9, <2>1, <2>2, <2>3, WalkTiles DEF Assign
<1>10. CASE FreesDone \/ ResizesDone
  <2>1. UNCHANGED <<row, found, evidence, evidence_start, evidence_count>>
        /\ pc # "field" /\ pc' # "field"
    BY <1>10 DEF FreesDone, ResizesDone, result
  <2> QED BY <1>2, <1>3, <2>1, WalkTiles
<1>11. CASE Settle
  <2>1. Close(Decide(found), found.start, Len(evidence')) /\ pc # "field"
    BY <1>11 DEF Settle
  <2>2. Len(evidence') = Len(evidence) + Len(Summary) /\ Len(Summary) \in Nat
    BY <1>11, SummaryType DEF Settle
  <2>3. pc' = "field"
    BY <2>1 DEF Close
  <2>4. found.start =< Len(evidence')
    BY <1>2, <1>3, <2>1, <2>2
  <2>5. /\ \A f \in Classified' :
              At(evidence_start, f)' =
                IF f = 0 THEN 0 ELSE EvidenceEnd(f - 1)'
        /\ Base' = Len(evidence')
    BY <1>2, <1>3, <2>1, <2>4, CloseTiles
  <2> QED BY <2>3, <2>5 DEF Tiled, EvidenceTiles, Base
<1>12. CASE Returned \/ UNCHANGED vars
  <2>1. UNCHANGED <<program, row, pc, left, found, class, confidence,
                    evidence_start, evidence_count, evidence>>
    BY <1>12 DEF Returned, vars, result
  <2> QED BY <2>1 DEF Tiled, EvidenceTiles, Base, EvidenceEnd, Classified
<1> QED BY <1>5, <1>6, <1>7, <1>8, <1>9, <1>10, <1>11, <1>12 DEF Next, Step

(***************************************************************************)
(* Whatever the program, the pass keeps its state well formed: every field *)
(* passed has exactly one entry in every column of the result, and every   *)
(* entry and row of evidence is of its kind.                               *)
(***************************************************************************)
THEOREM TypeCorrect == Spec => []TypeOK
<1>1. Init => WellTyped /\ Tiled
  BY TypedInit, TiledInit
<1>2. WellTyped /\ Tiled /\ [Next]_vars => (WellTyped /\ Tiled)'
  BY TypedStep, TiledStep
<1>3. WellTyped => TypeOK
  BY DEF WellTyped
<1> QED BY <1>1, <1>2, <1>3, PTL DEF Spec

(***************************************************************************)
(* The ranges of evidence the fields are closed with tile the evidence     *)
(* table, so a report of one field prints that field's evidence, all of it *)
(* and nothing else.                                                       *)
(***************************************************************************)
THEOREM EvidenceIsTiled == Spec => []EvidenceTiles
<1>1. Init => WellTyped /\ Tiled
  BY TypedInit, TiledInit
<1>2. WellTyped /\ Tiled /\ [Next]_vars => (WellTyped /\ Tiled)'
  BY TypedStep, TiledStep
<1>3. Tiled => EvidenceTiles
  BY DEF Tiled
<1> QED BY <1>1, <1>2, <1>3, PTL DEF Spec

-----------------------------------------------------------------------------
(* What a walk knows.                                                      *)

\* The least class above all the classes of a set.
JoinOf(S) ==
  IF S \subseteq {"Unset"} THEN "Unset"
  ELSE IF S \subseteq {"Unset", "Global"} THEN "Global"
  ELSE IF S \subseteq {"Unset", "Arena"} THEN "Arena"
  ELSE "Conflicting"

LEMMA JoinOfMore ==
  ASSUME NEW S \in SUBSET AllocatorClass, NEW c \in AllocatorClass
  PROVE  Join(JoinOf(S), c) = JoinOf(S \cup {c})
<1>1. CASE c = "Unset"
  BY <1>1 DEF Join, JoinOf, AllocatorClass
<1>2. CASE c = "Global"
  BY <1>2 DEF Join, JoinOf, AllocatorClass
<1>3. CASE c = "Arena"
  BY <1>3 DEF Join, JoinOf, AllocatorClass
<1>4. CASE c = "Conflicting"
  BY <1>4 DEF Join, JoinOf, AllocatorClass
<1> QED BY <1>1, <1>2, <1>3, <1>4 DEF AllocatorClass

FoundType ==
  [aligned : BOOLEAN, freed : BOOLEAN, inside : BOOLEAN, resized : BOOLEAN,
   sources : SUBSET AssignmentSource, allocator : AllocatorClass, start : Nat]

\* Those of some assignments that have a source, and that are allocations.
SourcedOf(p, assigned) == { a \in assigned : Has(p.source, a) }
AllocationsOf(p, assigned) ==
  { a \in SourcedOf(p, assigned) : At(p.source, a) = "Allocation" }

\* A record says of a field what these frees, resizes and assignments do.
Knows(p, f, x, frees, resizes, assigned) ==
  /\ x.aligned <=> Aligned(p, f)
  /\ x.freed <=> frees # {}
  /\ x.inside <=> \E op \in frees : FreedByOwner(p, f, op)
  /\ x.resized <=> resizes # {}
  /\ x.sources = { At(p.source, a) : a \in SourcedOf(p, assigned) }
  /\ x.allocator =
       JoinOf({ AllocatedFrom(p, a) : a \in AllocationsOf(p, assigned) })

\* A decision that fits a field.
Fits(p, f, d) ==
  /\ Fitting(p, f) = IF d.class = "Unknown" THEN {} ELSE {d.class}
  /\ d.confidence = "Low" <=> d.class = "Unknown"
  /\ d.confidence = "High" <=>
       \/ d.class \in {"Value", "Static"}
       \/ d.class = "Arena" /\ Frees(p, f) = {} /\ Sources(p, f) = {"Allocation"}
       \/ /\ d.class \in {"Owned", "Grown"}
          /\ \E op \in Frees(p, f) : FreedByOwner(p, f, op)

\* All of a field's assignments together say which allocators it has.
LEMMA KnowsAllocators ==
  ASSUME NEW p \in FactSets, NEW f \in Nat, NEW x \in FoundType,
         NEW frees, NEW resizes,
         Knows(p, f, x, frees, resizes, Assignments(p, f))
  PROVE  /\ Sources(p, f) = x.sources
         /\ "Allocation" \in x.sources <=> Allocations(p, f) # {}
         /\ OnlyFrom(p, f, "Arena")
              <=> "Allocation" \in x.sources /\ x.allocator = "Arena"
         /\ OnlyFrom(p, f, "Global")
              <=> "Allocation" \in x.sources /\ x.allocator = "Global"
<1>1. Sources(p, f) = x.sources
  BY DEF Knows, SourcedOf, Sources, Sourced
<1>2. Allocators(p, f) \in SUBSET AllocatorClass
      /\ x.allocator = JoinOf(Allocators(p, f))
  <2>1. Assignments(p, f) \in SUBSET Nat
    BY WalkShape
  <2>2. Allocators(p, f) \in SUBSET AllocatorClass
    BY <2>1, AllocatedFromType DEF Allocators, Allocations, Sourced
  <2>3. AllocationsOf(p, Assignments(p, f)) = Allocations(p, f)
    BY DEF AllocationsOf, SourcedOf, Allocations, Sourced
  <2> QED BY <2>2, <2>3 DEF Knows, Allocators
<1>3. /\ "Allocation" \in x.sources <=> Allocations(p, f) # {}
      /\ "Allocation" \in x.sources <=> Allocators(p, f) # {}
  <2>1. "Allocation" \in Sources(p, f) <=> Allocations(p, f) # {}
    BY DEF Sources, Allocations
  <2>2. Allocations(p, f) # {} <=> Allocators(p, f) # {}
    BY DEF Allocators
  <2> QED BY <1>1, <2>1, <2>2
<1>4. OnlyFrom(p, f, "Arena") <=> "Allocation" \in x.sources /\ x.allocator = "Arena"
  BY <1>2, <1>3 DEF OnlyFrom, JoinOf, AllocatorClass
<1>5. OnlyFrom(p, f, "Global") <=> "Allocation" \in x.sources /\ x.allocator = "Global"
  BY <1>2, <1>3 DEF OnlyFrom, JoinOf, AllocatorClass
<1> QED BY <1>1, <1>3, <1>4, <1>5

\* Deciding by all of a field's rows fits it.
LEMMA DecideFits ==
  ASSUME NEW p \in FactSets, NEW f \in Nat, NEW x \in FoundType,
         HoldsReference(p, f),
         Knows(p, f, x, Frees(p, f), Resizes(p, f), Assignments(p, f))
  PROVE  Fits(p, f, Decide(x))
<1>1. Sources(p, f) = x.sources
  BY KnowsAllocators
<1>2. OnlyFrom(p, f, "Arena") <=> "Allocation" \in x.sources /\ x.allocator = "Arena"
  BY KnowsAllocators
<1>3. OnlyFrom(p, f, "Global") <=> "Allocation" \in x.sources /\ x.allocator = "Global"
  BY KnowsAllocators
<1>4. /\ x.aligned <=> Aligned(p, f)
      /\ x.freed <=> Frees(p, f) # {}
      /\ x.inside <=> \E op \in Frees(p, f) : FreedByOwner(p, f, op)
      /\ x.resized <=> Resizes(p, f) # {}
  BY DEF Knows
<1>5. Carried(p, f) <=> ~ x.aligned
  BY <1>4 DEF Carried
<1>6. Fitting(p, f) =
        { c \in OwnershipClass \ {"Unknown"} :
            \/ c = "Arena" /\ ~ x.aligned /\ "Allocation" \in x.sources
                           /\ x.allocator = "Arena" /\ ~ x.resized
            \/ c = "Owned" /\ ~ x.aligned /\ x.sources = {"Allocation"}
                           /\ x.allocator = "Global" /\ x.freed /\ ~ x.resized
            \/ c = "Grown" /\ ~ x.aligned /\ x.sources = {"Allocation"}
                           /\ x.allocator = "Global" /\ x.freed /\ x.resized
            \/ c = "Static" /\ ~ x.aligned /\ ~ x.freed
                            /\ x.sources = {"StaticLiteral"}
            \/ c = "Borrowed" /\ ~ x.aligned /\ ~ x.freed
                              /\ x.sources = {"Parameter"} }
  BY <1>1, <1>2, <1>3, <1>4, <1>5 DEF Fitting, HeapOwned
<1>7. /\ x.aligned \in BOOLEAN /\ x.freed \in BOOLEAN /\ x.inside \in BOOLEAN
      /\ x.resized \in BOOLEAN
  BY DEF FoundType
<1>8. Fitting(p, f) = IF Decide(x).class = "Unknown" THEN {}
                       ELSE {Decide(x).class}
  BY <1>6, <1>7 DEF Decide, Decision, Undecided, OwnershipClass
<1>9. Decide(x).confidence = "Low" <=> Decide(x).class = "Unknown"
  BY <1>7 DEF Decide, Decision, Undecided
<1>10. Decide(x).confidence = "High" <=>
         \/ Decide(x).class \in {"Value", "Static"}
         \/ Decide(x).class = "Arena" /\ ~ x.freed /\ x.sources = {"Allocation"}
         \/ Decide(x).class \in {"Owned", "Grown"} /\ x.inside
  BY <1>7 DEF Decide, Decision, Undecided
<1> QED BY <1>1, <1>4, <1>8, <1>9, <1>10 DEF Fits

\* So does the verdict on a field that is closed at once.
LEMMA AtOnceFits ==
  ASSUME NEW p \in FactSets, NEW f \in Nat, ~ HoldsReference(p, f)
  PROVE  Fits(p, f, IF Has(p.field_type, f)
                    THEN Decision("Value", "High") ELSE Undecided)
<1>1. Fitting(p, f) = IF Has(p.field_type, f) THEN {"Value"} ELSE {}
  <2>1. ~ Carried(p, f) /\ ~ HeapOwned(p, f)
    BY DEF Carried, HeapOwned
  <2>2. Fitting(p, f) = { c \in OwnershipClass \ {"Unknown"} :
                            c = "Value" /\ Has(p.field_type, f) }
    BY <2>1 DEF Fitting, Typed
  <2> QED BY <2>2 DEF OwnershipClass
<1> QED BY <1>1 DEF Fits, Decision, Undecided

\* The rows of each table that a walk has been over.
SeenFrees ==
  IF pc = "frees" THEN Frees(program, row) \ left ELSE Frees(program, row)
SeenResizes ==
  IF pc = "frees" THEN {}
  ELSE IF pc = "resizes" THEN Resizes(program, row) \ left
  ELSE Resizes(program, row)
SeenAssigned ==
  IF pc = "assignments" THEN Assignments(program, row) \ left ELSE {}

\* Inside a field, what is found is what the rows seen so far say, and what is
\* left of a walk is left of the rows of that table about the field.
Walking ==
  pc # "field" =>
    /\ HoldsReference(program, row)
    /\ Knows(program, row, found, SeenFrees, SeenResizes, SeenAssigned)
    /\ pc = "frees" => left \subseteq Frees(program, row)
    /\ pc = "resizes" => left \subseteq Resizes(program, row)
    /\ pc = "assignments" => left \subseteq Assignments(program, row)

\* Another free.
LEMMA KnowsFree ==
  ASSUME NEW p, NEW f, NEW x \in FoundType, NEW frees, NEW resizes,
         NEW assigned, Knows(p, f, x, frees, resizes, assigned),
         NEW op, NEW y,
         y = [x EXCEPT !.freed = TRUE,
                       !.inside = x.inside \/ FreedByOwner(p, f, op)]
  PROVE  Knows(p, f, y, frees \cup {op}, resizes, assigned)
<1>1. /\ y.aligned = x.aligned /\ y.resized = x.resized
      /\ y.sources = x.sources /\ y.allocator = x.allocator
      /\ y.freed = TRUE
  BY DEF FoundType
<1>2. y.inside = (x.inside \/ FreedByOwner(p, f, op))
  BY DEF FoundType
<1>3. y.freed <=> frees \cup {op} # {}
  BY <1>1
<1>4. y.inside <=> \E other \in frees \cup {op} : FreedByOwner(p, f, other)
  BY <1>2 DEF Knows
<1> QED BY <1>1, <1>3, <1>4 DEF Knows

\* Another resize.
LEMMA KnowsResize ==
  ASSUME NEW p, NEW f, NEW x \in FoundType, NEW frees, NEW resizes,
         NEW assigned, Knows(p, f, x, frees, resizes, assigned),
         NEW op, NEW y, y = [x EXCEPT !.resized = TRUE]
  PROVE  Knows(p, f, y, frees, resizes \cup {op}, assigned)
<1>1. /\ y.aligned = x.aligned /\ y.freed = x.freed /\ y.inside = x.inside
      /\ y.sources = x.sources /\ y.allocator = x.allocator
      /\ y.resized = TRUE
  BY DEF FoundType
<1>2. y.resized <=> resizes \cup {op} # {}
  BY <1>1
<1> QED BY <1>1, <1>2 DEF Knows

\* Another assignment with a source.
LEMMA KnowsAssignment ==
  ASSUME NEW p \in FactSets, NEW f, NEW x \in FoundType, NEW frees,
         NEW resizes, NEW assigned \in SUBSET Nat,
         Knows(p, f, x, frees, resizes, assigned),
         NEW a \in Nat, Has(p.source, a), NEW y,
         y = [x EXCEPT !.sources = x.sources \cup {At(p.source, a)},
                       !.allocator = IF At(p.source, a) = "Allocation"
                                     THEN Join(x.allocator, AllocatedFrom(p, a))
                                     ELSE x.allocator]
  PROVE  Knows(p, f, y, frees, resizes, assigned \cup {a})
<1>1. /\ y.aligned = x.aligned /\ y.freed = x.freed /\ y.inside = x.inside
      /\ y.resized = x.resized
      /\ y.sources = x.sources \cup {At(p.source, a)}
      /\ y.allocator = IF At(p.source, a) = "Allocation"
                       THEN Join(x.allocator, AllocatedFrom(p, a))
                       ELSE x.allocator
  BY DEF FoundType
<1>2. SourcedOf(p, assigned \cup {a}) = SourcedOf(p, assigned) \cup {a}
  BY DEF SourcedOf
<1>3. y.sources = { At(p.source, b) : b \in SourcedOf(p, assigned \cup {a}) }
  BY <1>1, <1>2 DEF Knows
<1> DEFINE classes == { AllocatedFrom(p, b) : b \in AllocationsOf(p, assigned) }
<1>4. classes \in SUBSET AllocatorClass
  BY AllocatedFromType DEF AllocationsOf, SourcedOf
<1>5. AllocatedFrom(p, a) \in AllocatorClass
  BY AllocatedFromType
<1>6. x.allocator = JoinOf(classes)
  BY DEF Knows
<1>7. y.allocator = JoinOf({ AllocatedFrom(p, b) :
                               b \in AllocationsOf(p, assigned \cup {a}) })
  <2>1. CASE At(p.source, a) = "Allocation"
    <3>1. AllocationsOf(p, assigned \cup {a}) = AllocationsOf(p, assigned) \cup {a}
      BY <1>2, <2>1 DEF AllocationsOf
    <3>2. { AllocatedFrom(p, b) : b \in AllocationsOf(p, assigned \cup {a}) }
            = classes \cup {AllocatedFrom(p, a)}
      BY <3>1
    <3> HIDE DEF classes
    <3>3. Join(JoinOf(classes), AllocatedFrom(p, a))
            = JoinOf(classes \cup {AllocatedFrom(p, a)})
      BY <1>4, <1>5, JoinOfMore
    <3> QED BY <1>1, <1>6, <2>1, <3>2, <3>3
  <2>2. CASE At(p.source, a) # "Allocation"
    <3>1. AllocationsOf(p, assigned \cup {a}) = AllocationsOf(p, assigned)
      BY <1>2, <2>2 DEF AllocationsOf
    <3> QED BY <1>1, <1>6, <2>2, <3>1
  <2> QED BY <2>1, <2>2
<1> QED BY <1>1, <1>3, <1>7 DEF Knows

-----------------------------------------------------------------------------
(* The walks.                                                              *)

LEMMA WalkingStep ==
  ASSUME WellTyped, Walking, [Next]_vars PROVE Walking'
<1>1. program' = program
  BY DEF Next, Step, vars, result, CloseAtOnce, Open, Free, FreeSaid, FreesDone, Resize,
         ResizesDone, Assign, Settle, Returned
<1>2. /\ found \in FoundType
      /\ left \in SUBSET Nat
      /\ program \in FactSets
  BY DEF WellTyped, TypeOK, FoundType
<1>3. CASE pc' = "field"
  BY <1>3 DEF Walking
<1>4. CASE Open
  <2>1. /\ row' = row /\ pc' = "frees"
        /\ left' = Frees(program, row)
        /\ HoldsReference(program, row)
    BY <1>4 DEF Open, HoldsReference, Typed, Type, Frees
  <2>2. SeenFrees' = {} /\ SeenResizes' = {} /\ SeenAssigned' = {}
    BY <1>1, <2>1 DEF SeenFrees, SeenResizes, SeenAssigned
  <2>3. Knows(program, row, found', {}, {}, {})
    <3>1. found' = [ aligned |-> OverAligned(program, Type), freed |-> FALSE,
                     inside |-> FALSE, resized |-> FALSE, sources |-> {},
                     allocator |-> "Unset", start |-> Len(evidence) ]
      BY <1>4 DEF Open, NothingFound
    <3>2. SourcedOf(program, {}) = {} /\ AllocationsOf(program, {}) = {}
      BY DEF SourcedOf, AllocationsOf
    <3>3. JoinOf({ AllocatedFrom(program, a) : a \in {} }) = "Unset"
      BY DEF JoinOf
    <3>4. found'.sources = { At(program.source, a) : a \in {} }
      BY <3>1
    <3> QED BY <3>1, <3>2, <3>3, <3>4 DEF Knows, Aligned, Type
  <2> QED BY <1>1, <2>1, <2>2, <2>3 DEF Walking
<1>5. CASE Free
  <2> DEFINE op == First
  <2>1. op \in left /\ op \in Nat
    BY <1>2, <1>5, FirstIsLeft DEF Free, FreeSaid
  <2>2. /\ pc = "frees" /\ pc' = "frees" /\ row' = row /\ left' = left \ {op}
    BY <1>5 DEF Free, FreeSaid
  <2>3. /\ SeenFrees' = SeenFrees \cup {op}
        /\ SeenResizes' = SeenResizes
        /\ SeenAssigned' = SeenAssigned
    BY <1>1, <2>1, <2>2 DEF SeenFrees, SeenResizes, SeenAssigned, Walking
  <2>5. found' = [found EXCEPT !.freed = TRUE,
                    !.inside = found.inside \/ FreedByOwner(program, row, op)]
    BY <1>5 DEF Free, FreeSaid
  <2>6. Knows(program, row, found, SeenFrees, SeenResizes, SeenAssigned)
    BY <2>2 DEF Walking
  <2> HIDE DEF op
  <2>7. Knows(program, row, found', SeenFrees \cup {op}, SeenResizes, SeenAssigned)
    BY <1>2, <2>5, <2>6, KnowsFree
  <2> QED BY <1>1, <2>2, <2>3, <2>7 DEF Walking
<1>6. CASE FreesDone
  <2>1. /\ pc = "frees" /\ pc' = "resizes" /\ row' = row /\ found' = found
        /\ left = {} /\ left' = Resizes(program, row)
    BY <1>6 DEF FreesDone, Resizes
  <2>2. /\ SeenFrees' = SeenFrees
        /\ SeenResizes' = SeenResizes
        /\ SeenAssigned' = SeenAssigned
    BY <1>1, <2>1 DEF SeenFrees, SeenResizes, SeenAssigned
  <2> QED BY <1>1, <2>1, <2>2 DEF Walking
<1>7. CASE Resize
  <2> DEFINE op == First
  <2>1. op \in left /\ op \in Nat
    BY <1>2, <1>7, FirstIsLeft DEF Resize
  <2>2. /\ pc = "resizes" /\ pc' = "resizes" /\ row' = row
        /\ left' = left \ {op}
    BY <1>7 DEF Resize
  <2>3. /\ SeenFrees' = SeenFrees
        /\ SeenResizes' = SeenResizes \cup {op}
        /\ SeenAssigned' = SeenAssigned
    BY <1>1, <2>1, <2>2 DEF SeenFrees, SeenResizes, SeenAssigned, Walking
  <2>4. found' = [found EXCEPT !.resized = TRUE]
    BY <1>7 DEF Resize
  <2>5. Knows(program, row, found, SeenFrees, SeenResizes, SeenAssigned)
    BY <2>2 DEF Walking
  <2> HIDE DEF op
  <2>6. Knows(program, row, found', SeenFrees, SeenResizes \cup {op}, SeenAssigned)
    BY <1>2, <2>4, <2>5, KnowsResize
  <2> QED BY <1>1, <2>2, <2>3, <2>6 DEF Walking
<1>8. CASE ResizesDone
  <2>1. /\ pc = "resizes" /\ pc' = "assignments" /\ row' = row
        /\ found' = found /\ left = {} /\ left' = Assignments(program, row)
    BY <1>8 DEF ResizesDone
  <2>2. /\ SeenFrees' = SeenFrees
        /\ SeenResizes' = SeenResizes
        /\ SeenAssigned' = SeenAssigned
    BY <1>1, <2>1 DEF SeenFrees, SeenResizes, SeenAssigned
  <2> QED BY <1>1, <2>1, <2>2 DEF Walking
<1>9. CASE Assign
  <2> DEFINE a == First
  <2>1. a \in left /\ a \in Nat
    BY <1>2, <1>9, FirstIsLeft DEF Assign
  <2>2. /\ pc = "assignments" /\ pc' = "assignments" /\ row' = row
        /\ left' = left \ {a}
    BY <1>9 DEF Assign
  <2>3. /\ SeenFrees' = SeenFrees
        /\ SeenResizes' = SeenResizes
        /\ SeenAssigned' = SeenAssigned \cup {a}
    BY <1>1, <2>1, <2>2 DEF SeenFrees, SeenResizes, SeenAssigned, Walking
  <2>4. Knows(program, row, found, SeenFrees, SeenResizes, SeenAssigned)
    BY <2>2 DEF Walking
  <2>5. SeenAssigned \in SUBSET Nat
    BY <1>2, WalkShape DEF SeenAssigned
  <2>6. CASE ~ Has(program.source, a)
    <3>1. found' = found
      BY <1>9, <2>6 DEF Assign
    <3>2. SourcedOf(program, SeenAssigned \cup {a})
            = SourcedOf(program, SeenAssigned)
      BY <2>6 DEF SourcedOf
    <3>3. Knows(program, row, found, SeenFrees, SeenResizes,
                SeenAssigned \cup {a})
      BY <2>4, <3>2 DEF Knows, AllocationsOf
    <3> QED BY <1>1, <2>2, <2>3, <3>1, <3>3 DEF Walking
  <2>7. CASE Has(program.source, a)
    <3>1. found' = [found EXCEPT
             !.sources = found.sources \cup {At(program.source, a)},
             !.allocator = IF At(program.source, a) = "Allocation"
                           THEN Join(found.allocator, AllocatedFrom(program, a))
                           ELSE found.allocator]
      BY <1>9, <2>7 DEF Assign
    <3> HIDE DEF a
    <3>2. Knows(program, row, found', SeenFrees, SeenResizes,
                SeenAssigned \cup {a})
      BY <1>2, <2>1, <2>4, <2>5, <2>7, <3>1, KnowsAssignment
    <3> QED BY <1>1, <2>2, <2>3, <3>2 DEF Walking
  <2> QED BY <2>6, <2>7
<1>10. CASE CloseAtOnce \/ Settle
  BY <1>3, <1>10 DEF CloseAtOnce, Settle, Close
<1>11. CASE Returned \/ UNCHANGED vars
  <2>1. UNCHANGED <<program, row, pc, left, found>>
    BY <1>11 DEF Returned, vars
  <2> QED BY <2>1 DEF Walking, SeenFrees, SeenResizes, SeenAssigned
<1> QED BY <1>4, <1>5, <1>6, <1>7, <1>8, <1>9, <1>10, <1>11 DEF Next, Step

-----------------------------------------------------------------------------
(* The verdicts.                                                           *)

\* What the code calls certain: of a heap field one free by its owner is enough.
CertainByOneFree ==
  \A f \in Classified :
    /\ At(confidence, f) = "Low" <=> At(class, f) = "Unknown"
    /\ At(confidence, f) = "High" <=>
         \/ At(class, f) \in {"Value", "Static"}
         \/ At(class, f) = "Arena" /\ Frees(program, f) = {}
                                   /\ Sources(program, f) = {"Allocation"}
         \/ /\ At(class, f) \in {"Owned", "Grown"}
            /\ \E op \in Frees(program, f) : FreedByOwner(program, f, op)

Verdicts == VerdictsFollowFacts /\ CertainByOneFree

\* A field closed with a decision that fits it leaves every verdict fitting.
LEMMA CloseVerdicts ==
  ASSUME WellTyped, Verdicts, program' = program, NEW d, NEW start, NEW upto,
         d.class \in OwnershipClass, d.confidence \in Confidence,
         Fits(program, row, d), Close(d, start, upto)
  PROVE  Verdicts'
<1>1. row \in Nat /\ row' = row + 1
  BY ProgramShape DEF WellTyped, TypeOK, Close
<1>2. /\ class'[row + 1] = d.class
      /\ \A i \in 1 .. row : class'[i] = class[i]
  BY <1>1, AppendType DEF Close, WellTyped, TypeOK
<1>3. /\ confidence'[row + 1] = d.confidence
      /\ \A i \in 1 .. row : confidence'[i] = confidence[i]
  BY <1>1, AppendType DEF Close, WellTyped, TypeOK
<1> DEFINE Verdict(f) == [class |-> At(class', f), confidence |-> At(confidence', f)]
<1>4. ASSUME NEW f \in Classified' PROVE Fits(program, f, Verdict(f))
  <2>1. f \in 0 .. row
    BY <1>1 DEF Classified
  <2>2. CASE f < row
    <3>1. f \in Classified /\ f + 1 \in 1 .. row
      BY <1>1, <2>1, <2>2 DEF Classified
    <3>2. Verdict(f).class = At(class, f) /\ Verdict(f).confidence = At(confidence, f)
      BY <1>2, <1>3, <3>1 DEF At
    <3> HIDE DEF Verdict
    <3> QED BY <3>1, <3>2 DEF Verdicts, VerdictsFollowFacts,
                             CertainByOneFree, Fits
  <2>3. CASE f = row
    <3>1. Verdict(f).class = d.class /\ Verdict(f).confidence = d.confidence
      BY <1>2, <1>3, <2>3 DEF At
    <3> HIDE DEF Verdict
    <3> QED BY <2>3, <3>1 DEF Fits
  <2> QED BY <1>1, <2>1, <2>2, <2>3
<1>5. \A f \in Classified' :
        Fitting(program, f) = IF At(class', f) = "Unknown" THEN {}
                              ELSE {At(class', f)}
  BY <1>4 DEF Fits
<1>6. \A f \in Classified' :
        /\ At(confidence', f) = "Low" <=> At(class', f) = "Unknown"
        /\ At(confidence', f) = "High" <=>
             \/ At(class', f) \in {"Value", "Static"}
             \/ At(class', f) = "Arena" /\ Frees(program, f) = {}
                                        /\ Sources(program, f) = {"Allocation"}
             \/ /\ At(class', f) \in {"Owned", "Grown"}
                /\ \E op \in Frees(program, f) : FreedByOwner(program, f, op)
  BY <1>4 DEF Fits
<1> QED BY <1>5, <1>6 DEF Verdicts, VerdictsFollowFacts, CertainByOneFree

LEMMA VerdictsStep ==
  ASSUME WellTyped, Walking, Verdicts, [Next]_vars PROVE Verdicts'
<1>1. program' = program
  BY DEF Next, Step, vars, result, CloseAtOnce, Open, Free, FreeSaid, FreesDone, Resize,
         ResizesDone, Assign, Settle, Returned
<1>2. program \in FactSets /\ row \in Nat /\ found \in FoundType
  BY ProgramShape DEF WellTyped, TypeOK, FoundType
<1>3. CASE CloseAtOnce
  <2> DEFINE d == IF Has(program.field_type, row)
                  THEN Decision("Value", "High") ELSE Undecided
  <2>1. d.class \in OwnershipClass /\ d.confidence \in Confidence
    BY DEF Decision, Undecided, OwnershipClass, Confidence
  <2>2. ~ HoldsReference(program, row)
    BY <1>3 DEF CloseAtOnce, HoldsReference, Typed, Type
  <2>3. Fits(program, row, d)
    BY <1>2, <2>2, AtOnceFits
  <2>4. Close(d, Len(evidence), Len(evidence))
    BY <1>3 DEF CloseAtOnce
  <2> HIDE DEF d
  <2> QED BY <1>1, <2>1, <2>3, <2>4, CloseVerdicts
<1>4. CASE Settle
  <2>1. pc = "assignments" /\ left = {}
    BY <1>4 DEF Settle
  <2>2. /\ SeenFrees = Frees(program, row)
        /\ SeenResizes = Resizes(program, row)
        /\ SeenAssigned = Assignments(program, row)
    BY <2>1 DEF SeenFrees, SeenResizes, SeenAssigned
  <2>3. Fits(program, row, Decide(found))
    BY <1>2, <2>1, <2>2, DecideFits DEF Walking
  <2>4. Close(Decide(found), found.start, Len(evidence'))
    BY <1>4 DEF Settle
  <2> QED BY <1>1, <2>3, <2>4, DecideType, CloseVerdicts
<1>5. CASE ~ (CloseAtOnce \/ Settle)
  <2>1. UNCHANGED <<row, class, confidence>>
    BY <1>5 DEF Next, Step, vars, result, Open, Free, FreeSaid, FreesDone, Resize,
                ResizesDone, Assign, Returned
  <2> QED BY <1>1, <2>1 DEF Verdicts, VerdictsFollowFacts,
                            CertainByOneFree, Classified
<1> QED BY <1>3, <1>4, <1>5

\* What every step keeps.
PassInvariant == WellTyped /\ Tiled /\ Walking /\ Verdicts

LEMMA PassInvariantStarts == Init => PassInvariant
<1>1. Init => Walking /\ Verdicts
  BY DEF Init, Walking, Verdicts, VerdictsFollowFacts,
         CertainByOneFree, Classified
<1> QED BY <1>1, TypedInit, TiledInit DEF PassInvariant

LEMMA PassInvariantStep == PassInvariant /\ [Next]_vars => PassInvariant'
BY TypedStep, TiledStep, WalkingStep, VerdictsStep
   DEF PassInvariant

LEMMA PassInvariantHolds == Spec => []PassInvariant
BY PassInvariantStarts, PassInvariantStep, PTL DEF Spec

(***************************************************************************)
(* Whatever the program, a field is given the one class that fits all its  *)
(* assignments, frees and resizes, and is unknown only where none fits:    *)
(* the order in which the pass comes to them does not matter.              *)
(***************************************************************************)
THEOREM EveryVerdictFollowsFacts == Spec => []VerdictsFollowFacts
<1>1. PassInvariant => VerdictsFollowFacts
  BY DEF PassInvariant, Verdicts
<1> QED BY <1>1, PassInvariantHolds, PTL

LEMMA VerdictsAreConfident == Verdicts => ConfidenceFollowsFacts
<1> SUFFICES ASSUME Verdicts, NEW f \in Classified
    PROVE  /\ At(confidence, f) = "Low" <=> At(class, f) = "Unknown"
           /\ At(confidence, f) = "High" =>
                \/ Plain(program, f, At(class, f))
                \/ OnHeap(At(class, f)) /\ OwnFrees(program, f) # {}
           /\ \/ Plain(program, f, At(class, f))
              \/ OnHeap(At(class, f)) /\ Frees(program, f) = OwnFrees(program, f)
              => At(confidence, f) = "High"
  BY DEF ConfidenceFollowsFacts
<1>1. /\ At(confidence, f) = "Low" <=> At(class, f) = "Unknown"
      /\ At(confidence, f) = "High" <=>
           \/ Plain(program, f, At(class, f))
           \/ /\ OnHeap(At(class, f))
              /\ \E op \in Frees(program, f) : FreedByOwner(program, f, op)
  BY DEF Verdicts, CertainByOneFree, Plain, OnHeap
<1>2. (\E op \in Frees(program, f) : FreedByOwner(program, f, op))
        <=> OwnFrees(program, f) # {}
  BY DEF OwnFrees
<1>3. ASSUME OnHeap(At(class, f)) PROVE Frees(program, f) # {}
  <2>1. /\ At(class, f) \in {"Owned", "Grown"}
        /\ Fitting(program, f) = {At(class, f)}
    BY <1>3 DEF Verdicts, VerdictsFollowFacts, OnHeap
  <2> QED BY <2>1 DEF Fitting, HeapOwned
<1> QED BY <1>1, <1>2, <1>3

(***************************************************************************)
(* Whatever the program, no heap field is called certain unless its owner  *)
(* frees it, and every one that nothing but its owner frees is.            *)
(***************************************************************************)
THEOREM EveryConfidenceFollowsFacts == Spec => []ConfidenceFollowsFacts
<1>1. PassInvariant => ConfidenceFollowsFacts
  BY VerdictsAreConfident DEF PassInvariant
<1> QED BY <1>1, PassInvariantHolds, PTL

-----------------------------------------------------------------------------
(* The evidence.                                                           *)

FreeRow(p, f, op) ==
  Evidence(IF FreedByOwner(p, f, op) THEN "FreedInDeinitClosure"
           ELSE "FreedOutsideDeinitClosure", FunctionOf(p.function, op))
ResizeRow(p, op) ==
  Evidence("ResizedAfterAllocation", FunctionOf(p.function, op))
AssignmentRow(p, a) ==
  Evidence(AssignedFrom[At(p.source, a)], FunctionOf(p.assigned_in, a))
OddType(p, f) == IF Aligned(p, f) THEN {"AlignmentCannotBeCarried"} ELSE {}

\* The rows these frees, resizes and assignments of a field are evidence of.
Written(p, f, frees, resizes, assigned) ==
  { FreeRow(p, f, op) : op \in frees } \cup { ResizeRow(p, op) : op \in resizes }
    \cup { AssignmentRow(p, a) : a \in SourcedOf(p, assigned) }
    \cup { Evidence(kind, NoIndex) : kind \in OddType(p, f) }

CountOf(p, f, frees, resizes, assigned) ==
  Cardinality(frees) + Cardinality(resizes)
    + Cardinality(SourcedOf(p, assigned)) + Cardinality(OddType(p, f))

RowsFrom(rows, from) == { rows[i] : i \in from + 1 .. Len(rows) }

\* The rows from one on are these, and as many as they should be.
Accounts(p, f, rows, from, frees, resizes, assigned) ==
  /\ RowsFrom(rows, from) = Written(p, f, frees, resizes, assigned)
  /\ Len(rows) = from + CountOf(p, f, frees, resizes, assigned)

\* One more row.
LEMMA RowsOfMore ==
  ASSUME NEW rows \in Seq(EvidenceRow), NEW e \in EvidenceRow,
         NEW from \in Nat, from =< Len(rows)
  PROVE  /\ Append(rows, e) \in Seq(EvidenceRow)
         /\ Len(Append(rows, e)) = Len(rows) + 1
         /\ \A i \in 1 .. Len(rows) : Append(rows, e)[i] = rows[i]
         /\ RowsFrom(Append(rows, e), from) = RowsFrom(rows, from) \cup {e}
<1> DEFINE more == Append(rows, e)
<1>1. /\ more \in Seq(EvidenceRow)
      /\ Len(more) = Len(rows) + 1
      /\ \A i \in 1 .. Len(rows) : more[i] = rows[i]
      /\ more[Len(rows) + 1] = e
      /\ Len(rows) \in Nat
  OBVIOUS
<1> HIDE DEF more
<1>2. RowsFrom(more, from) \subseteq RowsFrom(rows, from) \cup {e}
  <2> SUFFICES ASSUME NEW i \in from + 1 .. Len(more)
               PROVE  more[i] \in RowsFrom(rows, from) \cup {e}
    BY DEF RowsFrom
  <2>1. CASE i = Len(rows) + 1
    BY <1>1, <2>1
  <2>2. CASE i # Len(rows) + 1
    <3>1. i \in from + 1 .. Len(rows) /\ i \in 1 .. Len(rows)
      BY <1>1, <2>2
    <3> QED BY <1>1, <3>1 DEF RowsFrom
  <2> QED BY <2>1, <2>2
<1>3. e \in RowsFrom(more, from)
  <2>1. Len(rows) + 1 \in from + 1 .. Len(more)
    BY <1>1
  <2> QED BY <1>1, <2>1 DEF RowsFrom
<1>4. RowsFrom(rows, from) \subseteq RowsFrom(more, from)
  <2> SUFFICES ASSUME NEW i \in from + 1 .. Len(rows)
               PROVE  rows[i] \in RowsFrom(more, from)
    BY DEF RowsFrom
  <2>1. i \in from + 1 .. Len(more) /\ i \in 1 .. Len(rows)
    BY <1>1
  <2>2. rows[i] = more[i]
    BY <1>1, <2>1
  <2> QED BY <2>1, <2>2 DEF RowsFrom
<1> QED BY <1>1, <1>2, <1>3, <1>4 DEF more

\* The counts are numbers.
LEMMA CountType ==
  ASSUME NEW p, NEW f, NEW frees, NEW resizes, NEW assigned,
         IsFiniteSet(frees), IsFiniteSet(resizes), IsFiniteSet(assigned)
  PROVE  /\ Cardinality(frees) \in Nat /\ Cardinality(resizes) \in Nat
         /\ IsFiniteSet(SourcedOf(p, assigned))
         /\ Cardinality(SourcedOf(p, assigned)) \in Nat
         /\ Cardinality(OddType(p, f)) \in Nat
<1>1. IsFiniteSet(SourcedOf(p, assigned))
  <2>1. SourcedOf(p, assigned) \in SUBSET assigned
    BY DEF SourcedOf
  <2> QED BY <2>1, FS_Subset
<1>2. Cardinality(OddType(p, f)) \in Nat
  BY FS_Singleton, FS_EmptySet DEF OddType
<1> QED BY <1>1, <1>2, FS_CardinalityType

\* A row for another free.
LEMMA AccountsFree ==
  ASSUME NEW p, NEW f, NEW rows \in Seq(EvidenceRow), NEW from \in Nat,
         NEW frees, NEW resizes, NEW assigned,
         IsFiniteSet(frees), IsFiniteSet(resizes), IsFiniteSet(assigned),
         Accounts(p, f, rows, from, frees, resizes, assigned),
         NEW op, op \notin frees, FreeRow(p, f, op) \in EvidenceRow
  PROVE  Accounts(p, f, Append(rows, FreeRow(p, f, op)), from,
                  frees \cup {op}, resizes, assigned)
<1> DEFINE e == FreeRow(p, f, op)
           more == Append(rows, e)
<1>1. /\ Cardinality(frees) \in Nat /\ Cardinality(resizes) \in Nat
      /\ Cardinality(SourcedOf(p, assigned)) \in Nat
      /\ Cardinality(OddType(p, f)) \in Nat
  BY CountType
<1>2. Cardinality(frees \cup {op}) = Cardinality(frees) + 1
  BY FS_AddElement
<1>3. from =< Len(rows) /\ Len(rows) \in Nat
  BY <1>1 DEF Accounts, CountOf
<1>4. Len(more) = Len(rows) + 1 /\ RowsFrom(more, from) = RowsFrom(rows, from) \cup {e}
  BY <1>3, RowsOfMore
<1> HIDE DEF more
<1>5. Written(p, f, frees \cup {op}, resizes, assigned)
        = Written(p, f, frees, resizes, assigned) \cup {e}
  BY DEF Written
<1>6. Len(more) = from + CountOf(p, f, frees \cup {op}, resizes, assigned)
  BY <1>1, <1>2, <1>3, <1>4 DEF Accounts, CountOf
<1> HIDE DEF e
<1>7. Accounts(p, f, more, from, frees \cup {op}, resizes, assigned)
  BY <1>4, <1>5, <1>6 DEF Accounts
<1> QED BY <1>7 DEF more, e

\* A row for another resize.
LEMMA AccountsResize ==
  ASSUME NEW p, NEW f, NEW rows \in Seq(EvidenceRow), NEW from \in Nat,
         NEW frees, NEW resizes, NEW assigned,
         IsFiniteSet(frees), IsFiniteSet(resizes), IsFiniteSet(assigned),
         Accounts(p, f, rows, from, frees, resizes, assigned),
         NEW op, op \notin resizes, ResizeRow(p, op) \in EvidenceRow
  PROVE  Accounts(p, f, Append(rows, ResizeRow(p, op)), from,
                  frees, resizes \cup {op}, assigned)
<1> DEFINE e == ResizeRow(p, op)
           more == Append(rows, e)
<1>1. /\ Cardinality(frees) \in Nat /\ Cardinality(resizes) \in Nat
      /\ Cardinality(SourcedOf(p, assigned)) \in Nat
      /\ Cardinality(OddType(p, f)) \in Nat
  BY CountType
<1>2. Cardinality(resizes \cup {op}) = Cardinality(resizes) + 1
  BY FS_AddElement
<1>3. from =< Len(rows) /\ Len(rows) \in Nat
  BY <1>1 DEF Accounts, CountOf
<1>4. Len(more) = Len(rows) + 1 /\ RowsFrom(more, from) = RowsFrom(rows, from) \cup {e}
  BY <1>3, RowsOfMore
<1> HIDE DEF more
<1>5. Written(p, f, frees, resizes \cup {op}, assigned)
        = Written(p, f, frees, resizes, assigned) \cup {e}
  BY DEF Written
<1>6. Len(more) = from + CountOf(p, f, frees, resizes \cup {op}, assigned)
  BY <1>1, <1>2, <1>3, <1>4 DEF Accounts, CountOf
<1> HIDE DEF e
<1>7. Accounts(p, f, more, from, frees, resizes \cup {op}, assigned)
  BY <1>4, <1>5, <1>6 DEF Accounts
<1> QED BY <1>7 DEF more, e

\* A row for another assignment with a source.
LEMMA AccountsAssignment ==
  ASSUME NEW p, NEW f, NEW rows \in Seq(EvidenceRow), NEW from \in Nat,
         NEW frees, NEW resizes, NEW assigned,
         IsFiniteSet(frees), IsFiniteSet(resizes), IsFiniteSet(assigned),
         Accounts(p, f, rows, from, frees, resizes, assigned),
         NEW a, a \notin assigned, Has(p.source, a),
         AssignmentRow(p, a) \in EvidenceRow
  PROVE  Accounts(p, f, Append(rows, AssignmentRow(p, a)), from,
                  frees, resizes, assigned \cup {a})
<1> DEFINE e == AssignmentRow(p, a)
           more == Append(rows, e)
<1>1. /\ Cardinality(frees) \in Nat /\ Cardinality(resizes) \in Nat
      /\ Cardinality(SourcedOf(p, assigned)) \in Nat
      /\ Cardinality(OddType(p, f)) \in Nat
      /\ IsFiniteSet(SourcedOf(p, assigned))
  BY CountType
<1>2. SourcedOf(p, assigned \cup {a}) = SourcedOf(p, assigned) \cup {a}
      /\ a \notin SourcedOf(p, assigned)
  BY DEF SourcedOf
<1>3. Cardinality(SourcedOf(p, assigned \cup {a})) = Cardinality(SourcedOf(p, assigned)) + 1
  BY <1>1, <1>2, FS_AddElement
<1>4. from =< Len(rows) /\ Len(rows) \in Nat
  BY <1>1 DEF Accounts, CountOf
<1>5. Len(more) = Len(rows) + 1 /\ RowsFrom(more, from) = RowsFrom(rows, from) \cup {e}
  BY <1>4, RowsOfMore
<1> HIDE DEF more
<1>6. Written(p, f, frees, resizes, assigned \cup {a})
        = Written(p, f, frees, resizes, assigned) \cup {e}
  BY <1>2 DEF Written
<1>7. Len(more) = from + CountOf(p, f, frees, resizes, assigned \cup {a})
  BY <1>1, <1>3, <1>4, <1>5 DEF Accounts, CountOf
<1> HIDE DEF e
<1>8. Accounts(p, f, more, from, frees, resizes, assigned \cup {a})
  BY <1>5, <1>6, <1>7 DEF Accounts
<1> QED BY <1>8 DEF more, e

\* The kind of the row the assignments end with, if there is one.
Amount(x) ==
  IF "Allocation" \in x.sources
  THEN {CASE x.allocator = "Arena"  -> "AllocatorIsArena"
          [] x.allocator = "Global" -> "AllocatorIsGlobal"
          [] OTHER                  -> "AllocatorIsConflicting"}
  ELSE IF x.sources = {} THEN {"NoAssignmentsFound"} ELSE {}

\* What is said overall is what is odd about the type and what the
\* assignments amount to.
LEMMA OverallIsWritten ==
  ASSUME NEW p \in FactSets, NEW f \in Nat, NEW x \in FoundType,
         NEW frees, NEW resizes,
         Knows(p, f, x, frees, resizes, Assignments(p, f))
  PROVE  /\ Overall(p, f) = OddType(p, f) \cup Amount(x)
         /\ Cardinality(Overall(p, f))
              = Cardinality(OddType(p, f)) + Cardinality(Amount(x))
         /\ Cardinality(OddType(p, f)) \in Nat
         /\ Cardinality(Amount(x)) \in Nat
<1>1. /\ Sources(p, f) = x.sources
      /\ "Allocation" \in x.sources <=> Allocations(p, f) # {}
      /\ OnlyFrom(p, f, "Arena")
           <=> "Allocation" \in x.sources /\ x.allocator = "Arena"
      /\ OnlyFrom(p, f, "Global")
           <=> "Allocation" \in x.sources /\ x.allocator = "Global"
  BY KnowsAllocators
<1>2. Overall(p, f) =
        { kind \in EvidenceKind :
            \/ kind = "AlignmentCannotBeCarried" /\ Aligned(p, f)
            \/ kind = "NoAssignmentsFound" /\ x.sources = {}
            \/ kind = "AllocatorIsGlobal" /\ "Allocation" \in x.sources
                                          /\ x.allocator = "Global"
            \/ kind = "AllocatorIsArena" /\ "Allocation" \in x.sources
                                         /\ x.allocator = "Arena"
            \/ kind = "AllocatorIsConflicting" /\ "Allocation" \in x.sources
                 /\ x.allocator # "Global" /\ x.allocator # "Arena" }
  BY <1>1 DEF Overall
<1>3. OddType(p, f) \cap Amount(x) = {}
  BY DEF OddType, Amount
<1>4. Overall(p, f) = OddType(p, f) \cup Amount(x)
  BY <1>2 DEF OddType, Amount, EvidenceKind
<1>5. /\ IsFiniteSet(OddType(p, f)) /\ Cardinality(OddType(p, f)) \in Nat
      /\ IsFiniteSet(Amount(x)) /\ Cardinality(Amount(x)) \in Nat
  <2>1. IsFiniteSet(OddType(p, f))
    BY FS_Singleton, FS_EmptySet DEF OddType
  <2>2. IsFiniteSet(Amount(x))
    BY FS_Singleton, FS_EmptySet DEF Amount
  <2> QED BY <2>1, <2>2, FS_CardinalityType
<1>6. Cardinality(OddType(p, f) \cup Amount(x))
        = Cardinality(OddType(p, f)) + Cardinality(Amount(x))
        - Cardinality(OddType(p, f) \cap Amount(x))
  BY <1>5, FS_Union
<1>7. Cardinality(OddType(p, f) \cap Amount(x)) = 0
  BY <1>3, FS_EmptySet
<1>8. Cardinality(Overall(p, f))
        = Cardinality(OddType(p, f)) + Cardinality(Amount(x))
  <2>1. Cardinality(OddType(p, f) \cup Amount(x))
          = Cardinality(OddType(p, f)) + Cardinality(Amount(x)) - 0
    BY <1>6, <1>7
  <2> QED BY <1>4, <1>5, <2>1
<1> QED BY <1>4, <1>5, <1>8

\* All the rows of a field and what they amount to is all that is expected.
LEMMA ExpectedIsWritten ==
  ASSUME NEW p \in FactSets, NEW f \in Nat, NEW x \in FoundType,
         Knows(p, f, x, Frees(p, f), Resizes(p, f), Assignments(p, f))
  PROVE  Expected(p, f)
           = Written(p, f, Frees(p, f), Resizes(p, f), Assignments(p, f))
               \cup { Evidence(kind, NoIndex) : kind \in Amount(x) }
<1>1. Overall(p, f) = OddType(p, f) \cup Amount(x)
  BY OverallIsWritten
<1>2. SourcedOf(p, Assignments(p, f)) = Sourced(p, f)
  BY DEF SourcedOf, Sourced
<1> DEFINE freed    == { FreeRow(p, f, op) : op \in Frees(p, f) }
           resized  == { ResizeRow(p, op) : op \in Resizes(p, f) }
           assigned == { AssignmentRow(p, a) : a \in Sourced(p, f) }
<1>3. Expected(p, f)
        = freed \cup resized \cup assigned
            \cup { Evidence(kind, NoIndex) : kind \in Overall(p, f) }
  BY DEF Expected, FreeRow, ResizeRow, AssignmentRow
<1>4. Written(p, f, Frees(p, f), Resizes(p, f), Assignments(p, f))
        = freed \cup resized \cup assigned
            \cup { Evidence(kind, NoIndex) : kind \in OddType(p, f) }
  BY <1>2 DEF Written
<1>5. { Evidence(kind, NoIndex) : kind \in Overall(p, f) }
        = { Evidence(kind, NoIndex) : kind \in OddType(p, f) }
            \cup { Evidence(kind, NoIndex) : kind \in Amount(x) }
  BY <1>1
<1> HIDE DEF freed, resized, assigned
<1> QED BY <1>3, <1>4, <1>5

\* Inside a field, the evidence since it was opened is that of the rows seen.
Accounted ==
  pc # "field" => Accounts(program, row, evidence, found.start,
                           SeenFrees, SeenResizes, SeenAssigned)

\* The rows of a field that has been closed are all there.
Kept == \A f \in Classified : EvidenceEnd(f) =< Len(evidence)

\* The rows that the walks have been over are finitely many.
LEMMA SeenShape ==
  ASSUME WellTyped
  PROVE  /\ IsFiniteSet(SeenFrees) /\ IsFiniteSet(SeenResizes)
         /\ IsFiniteSet(SeenAssigned)
<1>1. /\ IsFiniteSet(Frees(program, row)) /\ IsFiniteSet(Resizes(program, row))
      /\ IsFiniteSet(Assignments(program, row))
  BY WalkShape DEF WellTyped, Frees, Resizes
<1>2. /\ SeenFrees \in SUBSET Frees(program, row)
      /\ SeenResizes \in SUBSET Resizes(program, row)
      /\ SeenAssigned \in SUBSET Assignments(program, row)
  BY DEF SeenFrees, SeenResizes, SeenAssigned
<1> QED BY <1>1, <1>2, FS_Subset

LEMMA AccountedStep ==
  ASSUME WellTyped, Tiled, Walking, Accounted, [Next]_vars
  PROVE  Accounted'
<1>1. program' = program
  BY DEF Next, Step, vars, result, CloseAtOnce, Open, Free, FreeSaid, FreesDone, Resize,
         ResizesDone, Assign, Settle, Returned
<1>2. /\ found \in FoundType /\ found.start \in Nat
      /\ left \in SUBSET Nat
      /\ program \in FactSets /\ program \in FactsType
      /\ evidence \in Seq(EvidenceRow)
      /\ IsFiniteSet(SeenFrees) /\ IsFiniteSet(SeenResizes)
      /\ IsFiniteSet(SeenAssigned)
  BY SeenShape DEF WellTyped, TypeOK, FoundType, EvidenceRow
<1>3. \A op \in Nat : FunctionOf(program.function, op) \in Nat
  <2>1. program.function \in Seq(Nat)
    BY <1>2 DEF FactsType
  <2> QED BY <2>1, FunctionOfType
<1>4. CASE pc' = "field"
  BY <1>4 DEF Accounted
<1>5. CASE Open
  <2>1. /\ row' = row /\ pc' = "frees" /\ left' = Frees(program, row)
        /\ Aligned(program, row) <=> OverAligned(program, Type)
    BY <1>5 DEF Open, Frees, Aligned, Type
  <2>2. SeenFrees' = {} /\ SeenResizes' = {} /\ SeenAssigned' = {}
    BY <1>1, <2>1 DEF SeenFrees, SeenResizes, SeenAssigned
  <2>3. found'.start = Len(evidence)
    BY <1>5 DEF Open, NothingFound
  <2>4. /\ SourcedOf(program, {}) = {}
        /\ Written(program, row, {}, {}, {})
             = { Evidence(kind, NoIndex) : kind \in OddType(program, row) }
    BY DEF SourcedOf, Written
  <2>5. CountOf(program, row, {}, {}, {}) = IF Aligned(program, row) THEN 1 ELSE 0
    <3>1. Cardinality({}) = 0
      BY FS_EmptySet
    <3>2. Cardinality(OddType(program, row)) = IF Aligned(program, row) THEN 1 ELSE 0
      BY <3>1, FS_Singleton DEF OddType
    <3> QED BY <2>4, <3>1, <3>2 DEF CountOf
  <2>6. Len(evidence) \in Nat /\ RowsFrom(evidence, Len(evidence)) = {}
    BY <1>2 DEF RowsFrom
  <2>7. Accounts(program, row, evidence', Len(evidence), {}, {}, {})
    <3>1. CASE Aligned(program, row)
      <4> DEFINE e == Evidence("AlignmentCannotBeCarried", NoIndex)
      <4>1. evidence' = Append(evidence, e)
        BY <1>5, <2>1, <3>1 DEF Open
      <4>2. e \in EvidenceRow
        BY NoIndexAssumption DEF Evidence, EvidenceRow, EvidenceKind
      <4>3. Written(program, row, {}, {}, {}) = {e}
        BY <2>4, <3>1 DEF OddType
      <4> HIDE DEF e
      <4>4. /\ Len(evidence') = Len(evidence) + 1
            /\ RowsFrom(evidence', Len(evidence)) = {} \cup {e}
        BY <1>2, <2>6, <4>1, <4>2, RowsOfMore
      <4> QED BY <2>5, <3>1, <4>3, <4>4 DEF Accounts
    <3>2. CASE ~ Aligned(program, row)
      <4>1. evidence' = evidence
        BY <1>5, <2>1, <3>2 DEF Open
      <4>2. Written(program, row, {}, {}, {}) = {}
        BY <2>4, <3>2 DEF OddType
      <4>3. CountOf(program, row, {}, {}, {}) = 0
        BY <2>5, <3>2
      <4>4. /\ RowsFrom(evidence', Len(evidence)) = {}
            /\ Len(evidence') = Len(evidence) + 0
        BY <2>6, <4>1
      <4> QED BY <4>2, <4>3, <4>4 DEF Accounts
    <3> QED BY <3>1, <3>2
  <2> QED BY <1>1, <2>1, <2>2, <2>3, <2>7 DEF Accounted
<1>6. CASE Free
  <2> DEFINE op == First
  <2>1. op \in left /\ op \in Nat
    BY <1>2, <1>6, FirstIsLeft DEF Free, FreeSaid
  <2>2. /\ pc = "frees" /\ pc' = "frees" /\ row' = row /\ left' = left \ {op}
        /\ found'.start = found.start
    BY <1>2, <1>6 DEF Free, FreeSaid, FoundType
  <2>3. /\ SeenFrees' = SeenFrees \cup {op}
        /\ SeenResizes' = SeenResizes
        /\ SeenAssigned' = SeenAssigned
        /\ op \notin SeenFrees
    BY <1>1, <2>1, <2>2 DEF SeenFrees, SeenResizes, SeenAssigned, Walking
  <2>5. evidence' = Append(evidence, FreeRow(program, row, op))
    BY <1>6 DEF Free, FreeSaid, FreeRow
  <2>6. FreeRow(program, row, op) \in EvidenceRow
    BY <1>3, <2>1 DEF FreeRow, Evidence, EvidenceRow, EvidenceKind
  <2>7. Accounts(program, row, evidence, found.start, SeenFrees, SeenResizes,
                 SeenAssigned)
    BY <2>2 DEF Accounted
  <2> HIDE DEF op
  <2>8. Accounts(program, row, evidence', found.start, SeenFrees \cup {op},
                 SeenResizes, SeenAssigned)
    BY <1>2, <2>3, <2>5, <2>6, <2>7, AccountsFree
  <2> QED BY <1>1, <2>2, <2>3, <2>8 DEF Accounted
<1>7. CASE Resize
  <2> DEFINE op == First
  <2>1. op \in left /\ op \in Nat
    BY <1>2, <1>7, FirstIsLeft DEF Resize
  <2>2. /\ pc = "resizes" /\ pc' = "resizes" /\ row' = row /\ left' = left \ {op}
        /\ found'.start = found.start
    BY <1>2, <1>7 DEF Resize, FoundType
  <2>3. /\ SeenFrees' = SeenFrees
        /\ SeenResizes' = SeenResizes \cup {op}
        /\ SeenAssigned' = SeenAssigned
        /\ op \notin SeenResizes
    BY <1>1, <2>1, <2>2 DEF SeenFrees, SeenResizes, SeenAssigned, Walking
  <2>4. evidence' = Append(evidence, ResizeRow(program, op))
    BY <1>7 DEF Resize, ResizeRow
  <2>5. ResizeRow(program, op) \in EvidenceRow
    BY <1>3, <2>1 DEF ResizeRow, Evidence, EvidenceRow, EvidenceKind
  <2>6. Accounts(program, row, evidence, found.start, SeenFrees, SeenResizes,
                 SeenAssigned)
    BY <2>2 DEF Accounted
  <2> HIDE DEF op
  <2>7. Accounts(program, row, evidence', found.start, SeenFrees,
                 SeenResizes \cup {op}, SeenAssigned)
    BY <1>2, <2>3, <2>4, <2>5, <2>6, AccountsResize
  <2> QED BY <1>1, <2>2, <2>3, <2>7 DEF Accounted
<1>8. CASE FreesDone \/ ResizesDone
  <2>1. /\ pc # "field" /\ row' = row /\ found' = found /\ evidence' = evidence
        /\ left = {}
        /\ \/ pc = "frees" /\ pc' = "resizes" /\ left' = Resizes(program, row)
           \/ /\ pc = "resizes" /\ pc' = "assignments"
              /\ left' = Assignments(program, row)
    BY <1>8 DEF FreesDone, ResizesDone, Resizes
  <2>2. /\ SeenFrees' = SeenFrees
        /\ SeenResizes' = SeenResizes
        /\ SeenAssigned' = SeenAssigned
    BY <1>1, <2>1 DEF SeenFrees, SeenResizes, SeenAssigned
  <2> QED BY <1>1, <2>1, <2>2 DEF Accounted
<1>9. CASE Assign
  <2> DEFINE a == First
  <2>1. a \in left /\ a \in Nat
    BY <1>2, <1>9, FirstIsLeft DEF Assign
  <2>2. /\ pc = "assignments" /\ pc' = "assignments" /\ row' = row
        /\ left' = left \ {a} /\ found'.start = found.start
    BY <1>2, <1>9 DEF Assign, FoundType
  <2>3. /\ SeenFrees' = SeenFrees
        /\ SeenResizes' = SeenResizes
        /\ SeenAssigned' = SeenAssigned \cup {a}
        /\ a \notin SeenAssigned
    BY <1>1, <2>1, <2>2 DEF SeenFrees, SeenResizes, SeenAssigned, Walking
  <2>4. Accounts(program, row, evidence, found.start, SeenFrees, SeenResizes,
                 SeenAssigned)
    BY <2>2 DEF Accounted
  <2>5. CASE ~ Has(program.source, a)
    <3>1. evidence' = evidence
      BY <1>9, <2>5 DEF Assign
    <3>2. SourcedOf(program, SeenAssigned \cup {a})
            = SourcedOf(program, SeenAssigned)
      BY <2>5 DEF SourcedOf
    <3> HIDE DEF a
    <3>3. Accounts(program, row, evidence, found.start, SeenFrees, SeenResizes,
                   SeenAssigned \cup {a})
      BY <2>4, <3>2 DEF Accounts, Written, CountOf
    <3> QED BY <1>1, <2>2, <2>3, <3>1, <3>3 DEF Accounted
  <2>6. CASE Has(program.source, a)
    <3>1. evidence' = Append(evidence, AssignmentRow(program, a))
      BY <1>9, <2>6 DEF Assign, AssignmentRow
    <3>2. AssignmentRow(program, a) \in EvidenceRow
      <4>1. program.source \in Seq(AssignmentSource)
        BY <1>2 DEF FactsType, AssignmentSource
      <4>2. At(program.source, a) \in AssignmentSource
        BY <2>1, <2>6, <4>1 DEF Has, At
      <4>3. AssignedFrom[At(program.source, a)] \in EvidenceKind
        BY <4>2 DEF AssignedFrom, EvidenceKind, AssignmentSource
      <4>4. program.assigned_in \in Seq(Nat)
        BY <1>2 DEF FactsType
      <4>5. FunctionOf(program.assigned_in, a) \in Nat
        BY <2>1, <4>4, FunctionOfType
      <4> QED BY <4>3, <4>5 DEF AssignmentRow, Evidence, EvidenceRow
    <3> HIDE DEF a
    <3>3. Accounts(program, row, evidence', found.start, SeenFrees, SeenResizes,
                   SeenAssigned \cup {a})
      BY <1>2, <2>3, <2>4, <2>6, <3>1, <3>2, AccountsAssignment
    <3> QED BY <1>1, <2>2, <2>3, <3>3 DEF Accounted
  <2> QED BY <2>5, <2>6
<1>10. CASE CloseAtOnce \/ Settle
  BY <1>4, <1>10 DEF CloseAtOnce, Settle, Close
<1>11. CASE Returned \/ UNCHANGED vars
  <2>1. UNCHANGED <<program, row, pc, left, found, evidence>>
    BY <1>11 DEF Returned, vars
  <2> QED BY <2>1 DEF Accounted, SeenFrees, SeenResizes, SeenAssigned
<1> QED BY <1>5, <1>6, <1>7, <1>8, <1>9, <1>10, <1>11 DEF Next, Step

\* The evidence table is only ever added to.
LEMMA EvidenceGrows ==
  ASSUME WellTyped, WellTyped', [Next]_vars
  PROVE  /\ Len(evidence) \in Nat /\ Len(evidence') \in Nat
         /\ Len(evidence) =< Len(evidence')
         /\ \A i \in 1 .. Len(evidence) : evidence'[i] = evidence[i]
<1>1. evidence \in Seq(EvidenceRow) /\ evidence' \in Seq(EvidenceRow)
  BY DEF WellTyped, TypeOK, EvidenceRow
<1>2. Len(evidence) \in Nat /\ Len(evidence') \in Nat
  BY <1>1
<1>3. Summary \in Seq(EvidenceRow)
  BY SummaryType
<1>4. \/ evidence' = evidence
      \/ \E kind, function : evidence' = Append(evidence, Evidence(kind, function))
      \/ evidence' = evidence \o Summary
  BY Zenon DEF Next, Step, vars, CloseAtOnce, Open, Free, FreeSaid, FreesDone, Resize, ResizesDone,
            Assign, Settle, Returned
<1>5. ASSUME NEW e, evidence' = Append(evidence, e)
      PROVE  /\ Len(evidence) =< Len(evidence')
             /\ \A i \in 1 .. Len(evidence) : evidence'[i] = evidence[i]
  BY <1>1, <1>2, <1>5
<1>6. CASE evidence' = evidence \o Summary
  <2> HIDE DEF Summary
  <2> QED BY <1>1, <1>2, <1>3, <1>6
<1> QED BY <1>2, <1>4, <1>5, <1>6

\* The evidence of a field that has been closed is left as it is.
LEMMA ClosedStays ==
  ASSUME WellTyped, WellTyped', Kept, [Next]_vars, NEW f \in Classified,
         At(evidence_start, f)' = At(evidence_start, f),
         At(evidence_count, f)' = At(evidence_count, f)
  PROVE  EvidenceEnd(f)' =< Len(evidence') /\ EvidenceOf(f)' = EvidenceOf(f)
<1>1. EvidenceEnd(f)' = EvidenceEnd(f)
  BY DEF EvidenceEnd
<1>2. /\ At(evidence_start, f) \in Nat /\ At(evidence_count, f) \in Nat
      /\ EvidenceEnd(f) \in Nat
  <2>1. row \in Nat /\ f + 1 \in 1 .. row
    BY ProgramShape DEF WellTyped, TypeOK, Classified
  <2>2. evidence_start \in [1 .. row -> Nat] /\ evidence_count \in [1 .. row -> Nat]
    BY DEF WellTyped, TypeOK
  <2>3. At(evidence_start, f) \in Nat /\ At(evidence_count, f) \in Nat
    BY <2>1, <2>2 DEF At
  <2> QED BY <2>3 DEF EvidenceEnd
<1>3. /\ EvidenceEnd(f) =< Len(evidence)
      /\ Len(evidence) \in Nat /\ Len(evidence') \in Nat
      /\ Len(evidence) =< Len(evidence')
      /\ \A i \in 1 .. Len(evidence) : evidence'[i] = evidence[i]
  BY EvidenceGrows DEF Kept
<1>4. \A i \in At(evidence_start, f) + 1 .. EvidenceEnd(f) : evidence'[i] = evidence[i]
  BY <1>2, <1>3
<1>5. EvidenceOf(f)' = EvidenceOf(f)
  BY <1>1, <1>4 DEF EvidenceOf
<1> QED BY <1>1, <1>2, <1>3, <1>5

\* A column with an entry for each of so many rows.
LEMMA ColumnIsSequence ==
  ASSUME NEW n \in Nat, NEW column \in [1 .. n -> Nat]
  PROVE  column \in Seq(Nat) /\ Len(column) = n
OBVIOUS

\* What is said of the evidence of a field.
SaysTheFacts(f, rows, count) ==
  IF HoldsReference(program, f)
  THEN /\ rows = Expected(program, f)
       /\ count = Cardinality(Frees(program, f)) + Cardinality(Resizes(program, f))
                    + Cardinality(Sourced(program, f))
                    + Cardinality(Overall(program, f))
  ELSE count = 0

\* A field closed with its evidence at the end of the table.
LEMMA CloseAccounts ==
  ASSUME WellTyped, WellTyped', Kept, EvidenceIsTheFacts, [Next]_vars,
         program' = program, NEW d, NEW start \in Nat, NEW upto \in Nat,
         Close(d, start, upto), upto = Len(evidence'),
         SaysTheFacts(row, RowsFrom(evidence', start), upto - start)
  PROVE  Kept' /\ EvidenceIsTheFacts'
<1>1. row \in Nat /\ row' = row + 1
  BY ProgramShape DEF WellTyped, TypeOK, Close
<1>2. /\ evidence_start' = Append(evidence_start, start)
      /\ evidence_count' = Append(evidence_count, upto - start)
      /\ evidence_start' \in [1 .. row' -> Nat]
      /\ evidence_count' \in [1 .. row' -> Nat]
      /\ evidence_start \in [1 .. row -> Nat]
      /\ evidence_count \in [1 .. row -> Nat]
  BY DEF Close, WellTyped, TypeOK
<1>3. /\ At(evidence_start', row) = start
      /\ At(evidence_count', row) = upto - start
      /\ \A f \in Classified : /\ At(evidence_start', f) = At(evidence_start, f)
                               /\ At(evidence_count', f) = At(evidence_count, f)
  <2>1. \A f \in Classified : f + 1 \in 1 .. row
    BY <1>1 DEF Classified
  <2>2. evidence_start \in Seq(Nat) /\ Len(evidence_start) = row
    BY <1>1, <1>2, ColumnIsSequence
  <2>3. evidence_count \in Seq(Nat) /\ Len(evidence_count) = row
    BY <1>1, <1>2, ColumnIsSequence
  <2>4. /\ evidence_start'[row + 1] = start
        /\ \A i \in 1 .. row : evidence_start'[i] = evidence_start[i]
    BY <1>1, <1>2, <2>2
  <2> DEFINE count == upto - start
  <2> HIDE DEF count
  <2>5. /\ evidence_count'[row + 1] = count
        /\ \A i \in 1 .. row : evidence_count'[i] = evidence_count[i]
    BY <1>1, <1>2, <2>3 DEF count
  <2> QED BY <2>1, <2>4, <2>5 DEF At, count
<1>4. ASSUME NEW f \in Classified'
      PROVE  /\ EvidenceEnd(f)' =< Len(evidence')
             /\ SaysTheFacts(f, EvidenceOf(f)', At(evidence_count', f))
  <2>1. CASE f \in Classified
    <3>1. EvidenceEnd(f)' =< Len(evidence') /\ EvidenceOf(f)' = EvidenceOf(f)
      BY <1>3, <2>1, ClosedStays
    <3>2. SaysTheFacts(f, EvidenceOf(f), At(evidence_count, f))
      BY <2>1 DEF EvidenceIsTheFacts, SaysTheFacts
    <3> QED BY <1>3, <2>1, <3>1, <3>2
  <2>2. CASE f \notin Classified
    <3>1. f = row
      BY <1>1, <2>2 DEF Classified
    <3>2. EvidenceEnd(f)' = start + (upto - start)
      BY <1>3, <3>1 DEF EvidenceEnd
    <3>3. EvidenceEnd(f)' = upto
      BY <3>2
    <3>4. EvidenceOf(f)' = RowsFrom(evidence', start)
      BY <1>3, <3>1, <3>3 DEF EvidenceOf, RowsFrom
    <3> QED BY <1>3, <3>1, <3>3, <3>4
  <2> QED BY <2>1, <2>2
<1>5. Kept'
  BY <1>4 DEF Kept
<1>6. EvidenceIsTheFacts'
  BY <1>4 DEF EvidenceIsTheFacts, SaysTheFacts
<1> QED BY <1>5, <1>6

LEMMA FactsStep ==
  ASSUME WellTyped, WellTyped', Tiled, Walking, Accounted, Kept,
         EvidenceIsTheFacts, [Next]_vars
  PROVE  Kept' /\ EvidenceIsTheFacts'
<1>1. program' = program
  BY DEF Next, Step, vars, result, CloseAtOnce, Open, Free, FreeSaid, FreesDone, Resize,
         ResizesDone, Assign, Settle, Returned
<1>2. /\ program \in FactSets /\ row \in Nat /\ found \in FoundType
      /\ found.start \in Nat /\ evidence \in Seq(EvidenceRow)
  BY ProgramShape DEF WellTyped, TypeOK, FoundType, EvidenceRow
<1>3. Len(evidence) \in Nat /\ Len(evidence') \in Nat
  BY EvidenceGrows
<1>4. CASE CloseAtOnce
  <2> DEFINE d == IF Has(program.field_type, row)
                  THEN Decision("Value", "High") ELSE Undecided
  <2>1. ~ HoldsReference(program, row)
    BY <1>4 DEF CloseAtOnce, HoldsReference, Typed, Type
  <2>2. Close(d, Len(evidence), Len(evidence)) /\ evidence' = evidence
    BY <1>4 DEF CloseAtOnce
  <2> HIDE DEF d
  <2>3. SaysTheFacts(row, RowsFrom(evidence', Len(evidence)),
                     Len(evidence) - Len(evidence))
    BY <1>3, <2>1 DEF SaysTheFacts
  <2> QED BY <1>1, <1>3, <2>2, <2>3, CloseAccounts
<1>5. CASE Settle
  <2>1. pc = "assignments" /\ left = {}
    BY <1>5 DEF Settle
  <2>2. /\ SeenFrees = Frees(program, row)
        /\ SeenResizes = Resizes(program, row)
        /\ SeenAssigned = Assignments(program, row)
    BY <2>1 DEF SeenFrees, SeenResizes, SeenAssigned
  <2> DEFINE written == Written(program, row, Frees(program, row),
                                Resizes(program, row), Assignments(program, row))
             counted == CountOf(program, row, Frees(program, row),
                                Resizes(program, row), Assignments(program, row))
             more    == { Evidence(kind, NoIndex) : kind \in Amount(found) }
  <2>3. /\ Knows(program, row, found, Frees(program, row), Resizes(program, row),
                 Assignments(program, row))
        /\ HoldsReference(program, row)
        /\ RowsFrom(evidence, found.start) = written
        /\ Len(evidence) = found.start + counted
        /\ found.start =< Len(evidence)
    BY <2>1, <2>2 DEF Walking, Accounted, Accounts, Tiled
  <2>4. Expected(program, row) = written \cup more
    <3> HIDE DEF written, more
    <3> QED BY <1>2, <2>3, ExpectedIsWritten DEF written, more
  <2>5. /\ RowsFrom(evidence', found.start) = RowsFrom(evidence, found.start) \cup more
        /\ Len(evidence') = Len(evidence) + Cardinality(Amount(found))
    <3>1. CASE Summary = << >>
      <4>1. Amount(found) = {}
        BY <3>1 DEF Summary, Amount
      <4>2. evidence' = evidence
        BY <1>2, <1>5, <3>1 DEF Settle
      <4>3. Cardinality(Amount(found)) = 0 /\ more = {}
        BY <4>1, FS_EmptySet
      <4> QED BY <1>3, <4>2, <4>3
    <3>2. CASE Summary # << >>
      <4>1. PICK kind \in EvidenceKind : /\ Summary = << Evidence(kind, NoIndex) >>
                                         /\ Amount(found) = {kind}
        BY <3>2 DEF Summary, Amount, EvidenceKind
      <4> DEFINE e == Evidence(kind, NoIndex)
      <4>2. e \in EvidenceRow
        BY NoIndexAssumption DEF Evidence, EvidenceRow
      <4>3. evidence' = evidence \o << e >>
        BY <1>5, <4>1 DEF Settle
      <4>4. more = {e} /\ Cardinality(Amount(found)) = 1
        <5>1. Cardinality({kind}) = 1
          BY FS_Singleton
        <5> QED BY <4>1, <5>1
      <4> HIDE DEF e, more
      <4>5. evidence' = Append(evidence, e)
        BY <1>2, <4>2, <4>3
      <4> QED BY <1>2, <2>3, <4>2, <4>4, <4>5, RowsOfMore
    <3> QED BY <3>1, <3>2
  <2>6. /\ Cardinality(Overall(program, row))
             = Cardinality(OddType(program, row)) + Cardinality(Amount(found))
        /\ Cardinality(OddType(program, row)) \in Nat
        /\ Cardinality(Amount(found)) \in Nat
    BY <1>2, <2>3, OverallIsWritten
  <2>7. /\ SourcedOf(program, Assignments(program, row)) = Sourced(program, row)
        /\ Cardinality(Frees(program, row)) \in Nat
        /\ Cardinality(Resizes(program, row)) \in Nat
        /\ Cardinality(Sourced(program, row)) \in Nat
    <3>1. SourcedOf(program, Assignments(program, row)) = Sourced(program, row)
      BY DEF SourcedOf, Sourced
    <3>2. /\ IsFiniteSet(Frees(program, row)) /\ IsFiniteSet(Resizes(program, row))
          /\ IsFiniteSet(Assignments(program, row))
      BY <1>2, WalkShape DEF Frees, Resizes
    <3> QED BY <3>1, <3>2, CountType
  <2>8. Len(evidence') - found.start
          = Cardinality(Frees(program, row)) + Cardinality(Resizes(program, row))
              + Cardinality(Sourced(program, row))
              + Cardinality(Overall(program, row))
    <3>1. counted = Cardinality(Frees(program, row)) + Cardinality(Resizes(program, row))
                      + Cardinality(Sourced(program, row))
                      + Cardinality(OddType(program, row))
      BY <2>7 DEF CountOf
    <3>2. Len(evidence') = found.start + counted + Cardinality(Amount(found))
      BY <2>3, <2>5
    <3> HIDE DEF counted
    <3>3. found.start \in Nat
      BY <1>2
    <3> QED BY <2>6, <2>7, <3>1, <3>2, <3>3
  <2>9. SaysTheFacts(row, RowsFrom(evidence', found.start),
                     Len(evidence') - found.start)
    BY <2>3, <2>4, <2>5, <2>8 DEF SaysTheFacts
  <2>10. Close(Decide(found), found.start, Len(evidence'))
    BY <1>5 DEF Settle
  <2> QED BY <1>1, <1>2, <1>3, <2>9, <2>10, CloseAccounts
<1>6. CASE ~ (CloseAtOnce \/ Settle)
  <2>1. UNCHANGED <<row, evidence_start, evidence_count>>
    BY <1>6 DEF Next, Step, vars, result, Open, Free, FreeSaid, FreesDone, Resize,
                ResizesDone, Assign, Returned
  <2>2. Classified' = Classified
    BY <2>1 DEF Classified
  <2>3. ASSUME NEW f \in Classified
        PROVE  EvidenceEnd(f)' =< Len(evidence') /\ EvidenceOf(f)' = EvidenceOf(f)
    BY <2>1, ClosedStays
  <2>4. Kept'
    BY <2>2, <2>3 DEF Kept
  <2>5. EvidenceIsTheFacts'
    BY <1>1, <2>1, <2>2, <2>3 DEF EvidenceIsTheFacts
  <2> QED BY <2>4, <2>5
<1> QED BY <1>4, <1>5, <1>6

\* All of it together.
FactsInvariant == PassInvariant /\ Accounted /\ Kept /\ EvidenceIsTheFacts

LEMMA FactsInvariantStarts == Init => FactsInvariant
<1>1. Init => Accounted /\ Kept /\ EvidenceIsTheFacts
  BY DEF Init, Accounted, Kept, EvidenceIsTheFacts, Classified
<1> QED BY <1>1, PassInvariantStarts DEF FactsInvariant

LEMMA FactsInvariantStep == FactsInvariant /\ [Next]_vars => FactsInvariant'
<1> SUFFICES ASSUME FactsInvariant, [Next]_vars PROVE FactsInvariant'
  OBVIOUS
<1>1. PassInvariant'
  BY PassInvariantStep DEF FactsInvariant
<1>2. Accounted'
  BY AccountedStep DEF FactsInvariant, PassInvariant
<1>3. Kept' /\ EvidenceIsTheFacts'
  BY <1>1, FactsStep DEF FactsInvariant, PassInvariant
<1> QED BY <1>1, <1>2, <1>3 DEF FactsInvariant

\* And what the pass promises is part of it.
LEMMA FactsInvariantPromises ==
  FactsInvariant =>
    /\ EvidenceTiles /\ VerdictsFollowFacts
    /\ ConfidenceFollowsFacts /\ EvidenceIsTheFacts
BY VerdictsAreConfident DEF FactsInvariant, PassInvariant, Tiled, Verdicts

(***************************************************************************)
(* Whatever the program, the evidence of a field that holds a reference is *)
(* a row for every free, resize and assignment of it and what they amount  *)
(* to, none of them twice and none of another field's, and a free is said  *)
(* to be the owner's own exactly when the owner's deinit reaches it.       *)
(***************************************************************************)
THEOREM EvidenceSaysTheFacts == Spec => []EvidenceIsTheFacts
<1>1. FactsInvariant => EvidenceIsTheFacts
  BY DEF FactsInvariant
<1> QED BY <1>1, FactsInvariantStarts, FactsInvariantStep, PTL DEF Spec

=============================================================================

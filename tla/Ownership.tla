----------------------------- MODULE Ownership -----------------------------
(***************************************************************************)
(* The class of every field, and the evidence it is given on               *)
(* (crates/zag-analysis/src/ownership.rs).  The pass takes one field after *)
(* another; for one that holds a reference it walks the frees of the       *)
(* field, then the resizes, then the assignments, writes down a row of     *)
(* evidence for each, and decides.  Whether a free is the owner's own is   *)
(* asked of the cached deinit closure (module Reach): FreeSaid takes what  *)
(* it is told, and Free is told what the graph says.                       *)
(***************************************************************************)
EXTENDS OwnershipFacts, FiniteSets

VARIABLES
  program,      \* read only
  row,          \* the field that is being classified
  pc,           \* "field" between fields, and what is walked inside one
  left,         \* the rows of that walk that have not been looked at
  found,        \* what the walks found out about the field
  class,        \* one entry per classified field
  confidence,
  evidence_start,
  evidence_count,
  evidence      \* evidence_kind and evidence_function

result == <<class, confidence, evidence_start, evidence_count>>
vars == <<program, row, pc, left, found, result, evidence>>

-----------------------------------------------------------------------------
(* The type of a field.                                                    *)

\* What the types of a chain of elements are, as far as either walk goes.
Chain(p, type) ==
  LET chain[depth \in 0 .. 7] ==
        IF depth = 0 THEN type
        ELSE IF Has(p.element, chain[depth - 1])
             THEN At(p.element, chain[depth - 1]) ELSE NoIndex
  IN  chain

IsKind(p, type, kinds) ==
  Has(p.type_kind, type) /\ At(p.type_kind, type) \in kinds

\* A slice or a pointer, however many optionals are around it.
IsReference(p, type) ==
  \E depth \in 0 .. 7 :
    /\ IsKind(p, Chain(p, type)[depth], {"Slice", "Pointer"})
    /\ \A outer \in 0 .. depth - 1 :
         IsKind(p, Chain(p, type)[outer], {"Optional"})

\* An alignment on the type, on its element, on the element of that.
OverAligned(p, type) ==
  \E depth \in 0 .. 7 :
    LET inner == Chain(p, type)[depth]
    IN  Has(p.over_aligned, inner) /\ At(p.over_aligned, inner)

-----------------------------------------------------------------------------
(* The rows about a field.                                                 *)

Fields(p) == Rows(p.field_owner)

Operations(p, kind, f) ==
  { op \in Rows(p.operation) :
      /\ At(p.operation, op) = kind
      /\ Has(p.place, op) /\ At(p.place, op) = "FieldOfParameter"
      /\ Has(p.place_field, op) /\ At(p.place_field, op) = f }

Assignments(p, f) == { a \in Rows(p.assigned) : At(p.assigned, a) = f }

FunctionOf(column, r) == IF Has(column, r) THEN At(column, r) ELSE NoIndex

\* The deinit of the struct the field is in gets to the free.
FreedByOwner(p, f, op) ==
  FunctionOf(p.function, op) \in Reached(p.graph, At(p.field_owner, f))

\* What an allocation that is assigned to a field was made from.
AllocatedFrom(p, a) ==
  IF /\ Has(p.memory_operation, a)
     /\ Has(p.allocator, At(p.memory_operation, a))
     /\ Has(p.resolved, At(p.allocator, At(p.memory_operation, a)))
  THEN At(p.resolved, At(p.allocator, At(p.memory_operation, a)))
  ELSE "Conflicting"

-----------------------------------------------------------------------------
(* The decision.                                                           *)

NothingFound ==
  [ aligned |-> FALSE, freed |-> FALSE, inside |-> FALSE, resized |-> FALSE,
    sources |-> {}, allocator |-> "Unset", start |-> 0 ]

Decision(kind, sure) == [ class |-> kind, confidence |-> sure ]
Undecided == Decision("Unknown", "Low")

\* Mutant of Decide: a field assigned from several places is owned as well.
DecideMixed(f) ==
  IF f.aligned THEN Undecided
  ELSE IF "Allocation" \in f.sources /\ f.allocator = "Arena"
  THEN IF f.resized THEN Undecided
       ELSE Decision("Arena", "Medium")
  ELSE IF f.freed /\ "Allocation" \in f.sources /\ f.allocator = "Global"
  THEN Decision(IF f.resized THEN "Grown" ELSE "Owned",
                IF f.inside THEN "High" ELSE "Medium")
  ELSE IF ~ f.freed /\ f.sources = {"StaticLiteral"}
  THEN Decision("Static", "High")
  ELSE IF ~ f.freed /\ f.sources = {"Parameter"}
  THEN Decision("Borrowed", "Medium")
  ELSE Undecided

Decide(f) ==
  IF f.aligned THEN Undecided
  ELSE IF "Allocation" \in f.sources /\ f.allocator = "Arena"
  THEN IF f.resized THEN Undecided
       ELSE Decision("Arena", IF f.sources = {"Allocation"} /\ ~ f.freed
                              THEN "High" ELSE "Medium")
  ELSE IF f.freed /\ f.sources = {"Allocation"} /\ f.allocator = "Global"
  THEN Decision(IF f.resized THEN "Grown" ELSE "Owned",
                IF f.inside THEN "High" ELSE "Medium")
  ELSE IF ~ f.freed /\ f.sources = {"StaticLiteral"}
  THEN Decision("Static", "High")
  ELSE IF ~ f.freed /\ f.sources = {"Parameter"}
  THEN Decision("Borrowed", "Medium")
  ELSE Undecided

-----------------------------------------------------------------------------
Init ==
  /\ program \in FactSets
  /\ row = 0
  /\ pc = "field"
  /\ left = {}
  /\ found = NothingFound
  /\ class = << >>
  /\ confidence = << >>
  /\ evidence_start = << >>
  /\ evidence_count = << >>
  /\ evidence = << >>

Evidence(kind, function) == [ kind |-> kind, function |-> function ]

\* The rows of a walk are taken in table order.
First == CHOOSE r \in left : \A other \in left : r =< other

AtField == pc = "field" /\ row < Len(program.field_owner)

\* A field is closed with the evidence written since the pass came to it.
Close(decision, start, upto) ==
  /\ class' = Append(class, decision.class)
  /\ confidence' = Append(confidence, decision.confidence)
  /\ evidence_start' = Append(evidence_start, start)
  /\ evidence_count' = Append(evidence_count, upto - start)
  /\ row' = row + 1
  /\ pc' = "field"

Type == At(program.field_type, row)

\* A field that holds no reference, or whose type is not there.
CloseAtOnce ==
  /\ AtField
  /\ Has(program.field_type, row) => ~ IsReference(program, Type)
  /\ Close(IF Has(program.field_type, row)
           THEN Decision("Value", "High") ELSE Undecided,
           Len(evidence), Len(evidence))
  /\ UNCHANGED <<program, left, found, evidence>>

\* Mutant of Open: what was found inside a closure is not forgotten.
OpenInside ==
  /\ AtField
  /\ Has(program.field_type, row)
  /\ IsReference(program, Type)
  /\ found' = [NothingFound EXCEPT !.aligned = OverAligned(program, Type),
                                  !.inside = found.inside,
                                  !.start = Len(evidence)]
  /\ evidence' = IF OverAligned(program, Type)
                 THEN Append(evidence,
                        Evidence("AlignmentCannotBeCarried", NoIndex))
                 ELSE evidence
  /\ left' = Operations(program, "Free", row)
  /\ pc' = "frees"
  /\ UNCHANGED <<program, row, result>>

\* A field that holds one: its evidence starts with what is odd about its type.
Open ==
  /\ AtField
  /\ Has(program.field_type, row)
  /\ IsReference(program, Type)
  /\ found' = [NothingFound EXCEPT !.aligned = OverAligned(program, Type),
                                  !.start = Len(evidence)]
  /\ evidence' = IF OverAligned(program, Type)
                 THEN Append(evidence,
                        Evidence("AlignmentCannotBeCarried", NoIndex))
                 ELSE evidence
  /\ left' = Operations(program, "Free", row)
  /\ pc' = "frees"
  /\ UNCHANGED <<program, row, result>>

\* The answer is whether the owner's deinit gets to the free.
FreeSaid(own) ==
  /\ pc = "frees"
  /\ left # {}
  /\ found' = [found EXCEPT !.freed = TRUE, !.inside = @ \/ own]
  /\ evidence' = Append(evidence,
       Evidence(IF own THEN "FreedInDeinitClosure"
                ELSE "FreedOutsideDeinitClosure",
                FunctionOf(program.function, First)))
  /\ left' = left \ {First}
  /\ UNCHANGED <<program, row, pc, result>>

Free == left # {} /\ FreeSaid(FreedByOwner(program, row, First))

FreesDone ==
  /\ pc = "frees"
  /\ left = {}
  /\ left' = Operations(program, "Resize", row)
  /\ pc' = "resizes"
  /\ UNCHANGED <<program, row, found, result, evidence>>

Resize ==
  /\ pc = "resizes"
  /\ left # {}
  /\ found' = [found EXCEPT !.resized = TRUE]
  /\ evidence' = Append(evidence,
       Evidence("ResizedAfterAllocation", FunctionOf(program.function, First)))
  /\ left' = left \ {First}
  /\ UNCHANGED <<program, row, pc, result>>

ResizesDone ==
  /\ pc = "resizes"
  /\ left = {}
  /\ left' = Assignments(program, row)
  /\ pc' = "assignments"
  /\ UNCHANGED <<program, row, found, result, evidence>>

\* The evidence an assignment from each source is.
AssignedFrom ==
  [ Allocation    |-> "AssignedFromAllocation",
    Parameter     |-> "AssignedFromParameter",
    StaticLiteral |-> "AssignedFromLiteral",
    Unknown       |-> "AssignedFromUnknown" ]

\* An assignment with no source recorded is passed over.
Assign ==
  /\ pc = "assignments"
  /\ left # {}
  /\ IF Has(program.source, First)
     THEN LET source == At(program.source, First)
          IN  /\ found' = [found EXCEPT !.sources = @ \cup {source},
                             !.allocator =
                               IF source = "Allocation"
                               THEN Join(@, AllocatedFrom(program, First))
                               ELSE @]
              /\ evidence' = Append(evidence,
                   Evidence(AssignedFrom[source],
                            FunctionOf(program.assigned_in, First)))
     ELSE UNCHANGED <<found, evidence>>
  /\ left' = left \ {First}
  /\ UNCHANGED <<program, row, pc, result>>

\* What the assignments amount to, the last rows of evidence about a field.
Summary ==
  IF "Allocation" \in found.sources
  THEN << Evidence(CASE found.allocator = "Arena"  -> "AllocatorIsArena"
                     [] found.allocator = "Global" -> "AllocatorIsGlobal"
                     [] OTHER                      -> "AllocatorIsConflicting",
                   NoIndex) >>
  ELSE IF found.sources = {}
  THEN << Evidence("NoAssignmentsFound", NoIndex) >>
  ELSE << >>

\* Mutant of Settle: the rows the assignments end with are not counted.
SettleShort ==
  /\ pc = "assignments"
  /\ left = {}
  /\ evidence' = evidence \o Summary
  /\ Close(Decide(found), found.start, Len(evidence))
  /\ UNCHANGED <<program, left, found>>

Settle ==
  /\ pc = "assignments"
  /\ left = {}
  /\ evidence' = evidence \o Summary
  /\ Close(Decide(found), found.start, Len(evidence'))
  /\ UNCHANGED <<program, left, found>>

Returned ==
  /\ pc = "field"
  /\ row = Len(program.field_owner)
  /\ UNCHANGED vars

Step ==
  \/ CloseAtOnce \/ Open \/ FreesDone \/ Resize \/ ResizesDone
  \/ Assign \/ Settle \/ Returned

Next == Free \/ Step

Spec == Init /\ [][Next]_vars

-----------------------------------------------------------------------------
(* Properties.                                                             *)

OwnershipClass ==
  {"Value", "Owned", "Borrowed", "Static", "Arena", "Unknown", "Grown"}
Confidence == {"High", "Medium", "Low"}
EvidenceKind ==
  {"FreedInDeinitClosure", "FreedOutsideDeinitClosure",
   "AssignedFromAllocation", "AssignedFromParameter", "AssignedFromLiteral",
   "AssignedFromUnknown", "AllocatorIsGlobal", "AllocatorIsArena",
   "AllocatorIsConflicting", "NoAssignmentsFound", "ResizedAfterAllocation",
   "AlignmentCannotBeCarried"}
AssignmentSource == {"Allocation", "Parameter", "StaticLiteral", "Unknown"}

TypeOK ==
  /\ program \in FactsType
  /\ row \in 0 .. Len(program.field_owner)
  /\ pc \in {"field", "frees", "resizes", "assignments"}
  /\ pc # "field" => row \in Fields(program)
  /\ left \in SUBSET Nat
  /\ found \in [aligned : BOOLEAN, freed : BOOLEAN, inside : BOOLEAN,
                resized : BOOLEAN, sources : SUBSET AssignmentSource,
                allocator : AllocatorClass, start : Nat]
  /\ class \in [1 .. row -> OwnershipClass]
  /\ confidence \in [1 .. row -> Confidence]
  /\ evidence_start \in [1 .. row -> Nat]
  /\ evidence_count \in [1 .. row -> Nat]
  /\ evidence \in Seq([kind : EvidenceKind, function : Nat])

Classified == 0 .. row - 1

EvidenceEnd(f) == At(evidence_start, f) + At(evidence_count, f)

(***************************************************************************)
(* The evidence of the fields tiles the evidence table: a report that      *)
(* prints the range of one field prints nothing of another's and leaves    *)
(* nothing out.                                                            *)
(***************************************************************************)
EvidenceTiles ==
  /\ \A f \in Classified :
       At(evidence_start, f) = IF f = 0 THEN 0 ELSE EvidenceEnd(f - 1)
  /\ pc = "field" =>
       Len(evidence) = IF row = 0 THEN 0 ELSE EvidenceEnd(row - 1)

\* What the tables say about a field.
Typed(p, f) == Has(p.field_type, f)
HoldsReference(p, f) == Typed(p, f) /\ IsReference(p, At(p.field_type, f))
Aligned(p, f) == OverAligned(p, At(p.field_type, f))
Frees(p, f) == Operations(p, "Free", f)
Resizes(p, f) == Operations(p, "Resize", f)
Sourced(p, f) == { a \in Assignments(p, f) : Has(p.source, a) }
Sources(p, f) == { At(p.source, a) : a \in Sourced(p, f) }
Allocations(p, f) == { a \in Sourced(p, f) : At(p.source, a) = "Allocation" }
Allocators(p, f) == { AllocatedFrom(p, a) : a \in Allocations(p, f) }

\* An allocator nobody passes is left out of account.
OnlyFrom(p, f, allocator) ==
  /\ allocator \in Allocators(p, f)
  /\ Allocators(p, f) \subseteq {"Unset", allocator}

\* The reference is there and can be carried.
Carried(p, f) == HoldsReference(p, f) /\ ~ Aligned(p, f)

HeapOwned(p, f) ==
  /\ Carried(p, f)
  /\ Sources(p, f) = {"Allocation"}
  /\ OnlyFrom(p, f, "Global")
  /\ Frees(p, f) # {}

Fitting(p, f) ==
  { c \in OwnershipClass \ {"Unknown"} :
      \/ c = "Value" /\ Typed(p, f) /\ ~ HoldsReference(p, f)
      \/ c = "Arena" /\ Carried(p, f) /\ OnlyFrom(p, f, "Arena")
                     /\ Resizes(p, f) = {}
      \/ c = "Owned" /\ HeapOwned(p, f) /\ Resizes(p, f) = {}
      \/ c = "Grown" /\ HeapOwned(p, f) /\ Resizes(p, f) # {}
      \/ c = "Static" /\ Carried(p, f) /\ Frees(p, f) = {}
                      /\ Sources(p, f) = {"StaticLiteral"}
      \/ c = "Borrowed" /\ Carried(p, f) /\ Frees(p, f) = {}
                        /\ Sources(p, f) = {"Parameter"} }

(***************************************************************************)
(* The class of a field is the one that fits what the tables say about it, *)
(* all of its assignments, frees and resizes taken together, and unknown   *)
(* exactly where none does: in particular nothing is owned, and dropped,   *)
(* that an arena frees, a caller keeps or a literal is.                    *)
(***************************************************************************)
VerdictsFollowFacts ==
  \A f \in Classified :
    Fitting(program, f) =
      IF At(class, f) = "Unknown" THEN {} ELSE {At(class, f)}

\* The class leaves no doubt, as far as it goes.
Plain(p, f, c) ==
  \/ c \in {"Value", "Static"}
  \/ c = "Arena" /\ Frees(p, f) = {} /\ Sources(p, f) = {"Allocation"}

OnHeap(c) == c \in {"Owned", "Grown"}

OwnFrees(p, f) == { op \in Frees(p, f) : FreedByOwner(p, f, op) }

(***************************************************************************)
(* What is called certain has its owner's word for it: a value, a literal, *)
(* an arena field nothing frees, and a heap field the deinit of its own    *)
(* struct frees, however many calls away and whichever struct was asked    *)
(* about before; and all of those are, the heap fields where every free is *)
(* the owner's.  A heap field freed on both sides may be called either     *)
(* here: ContradictionLowersConfidence says which.                         *)
(***************************************************************************)
ConfidenceFollowsFacts ==
  \A f \in Classified :
    /\ At(confidence, f) = "Low" <=> At(class, f) = "Unknown"
    /\ At(confidence, f) = "High" =>
         \/ Plain(program, f, At(class, f))
         \/ OnHeap(At(class, f)) /\ OwnFrees(program, f) # {}
    /\ \/ Plain(program, f, At(class, f))
       \/ OnHeap(At(class, f)) /\ Frees(program, f) = OwnFrees(program, f)
       => At(confidence, f) = "High"

\* What the whole of the tables says about a reference.
Overall(p, f) ==
  { kind \in EvidenceKind :
      \/ kind = "AlignmentCannotBeCarried" /\ Aligned(p, f)
      \/ kind = "NoAssignmentsFound" /\ Sources(p, f) = {}
      \/ kind = "AllocatorIsGlobal" /\ OnlyFrom(p, f, "Global")
      \/ kind = "AllocatorIsArena" /\ OnlyFrom(p, f, "Arena")
      \/ /\ kind = "AllocatorIsConflicting"
         /\ Allocations(p, f) # {}
         /\ ~ OnlyFrom(p, f, "Global") /\ ~ OnlyFrom(p, f, "Arena") }

\* The evidence a reference calls for.
Expected(p, f) ==
  { Evidence(IF FreedByOwner(p, f, op) THEN "FreedInDeinitClosure"
             ELSE "FreedOutsideDeinitClosure", FunctionOf(p.function, op)) :
      op \in Frees(p, f) }
  \cup { Evidence("ResizedAfterAllocation", FunctionOf(p.function, op)) :
           op \in Resizes(p, f) }
  \cup { Evidence(AssignedFrom[At(p.source, a)], FunctionOf(p.assigned_in, a)) :
           a \in Sourced(p, f) }
  \cup { Evidence(kind, NoIndex) : kind \in Overall(p, f) }

EvidenceOf(f) ==
  { evidence[i] : i \in At(evidence_start, f) + 1 .. EvidenceEnd(f) }

(***************************************************************************)
(* The evidence of a field is a row for every free, resize and assignment  *)
(* of it with the function it is in, and what they amount to; a free is    *)
(* said to be the owner's own exactly when it is.                          *)
(***************************************************************************)
EvidenceIsTheFacts ==
  \A f \in Classified :
    IF HoldsReference(program, f)
    THEN /\ EvidenceOf(f) = Expected(program, f)
         /\ At(evidence_count, f) =
              Cardinality(Frees(program, f)) + Cardinality(Resizes(program, f))
                + Cardinality(Sourced(program, f))
                + Cardinality(Overall(program, f))
    ELSE At(evidence_count, f) = 0

(***************************************************************************)
(* A field that something else than its owner frees is not to be taken as  *)
(* given: "evidence that contradicts itself lowers the confidence rather   *)
(* than picking a side" (README.md, docs/PORTING.md).  The code calls an   *)
(* owned field certain once one of its frees is the owner's, whatever the  *)
(* others are.                                                             *)
(***************************************************************************)
ContradictionLowersConfidence ==
  \A f \in Classified :
    At(confidence, f) = "High" =>
      \A row_ \in EvidenceOf(f) : row_.kind # "FreedOutsideDeinitClosure"

=============================================================================

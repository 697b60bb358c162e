------------------------------ MODULE Analysis ------------------------------
(***************************************************************************)
(* analyze (crates/zag-analysis/src/lib.rs): the call graph is built       *)
(* (DeinitClosure), the allocators are resolved (Provenance), and the      *)
(* fields are classified (Ownership) by that graph and what the allocators *)
(* resolved to.  A free that the classification comes to is a question of  *)
(* the graph (Reach), and is taken once the question has its answer.       *)
(*                                                                         *)
(* A graph may also be asked anything, with no classification to say what. *)
(***************************************************************************)
EXTENDS DeinitClosure, AllocatorFacts, OwnershipFacts

VARIABLES
  tables, parameter_class, witness, disagreements, round,    \* Provenance's
  argument, changed, converged,
  resolving,                                                 \* its pc
  facts, field, left, found, class, confidence,     \* Ownership's
  evidence_start, evidence_count, evidence,
  walk,                                                      \* its pc
  asking        \* the question about the free at hand has been asked

provenance_vars ==
  <<tables, parameter_class, witness, disagreements, round, argument, changed,
    converged, resolving>>

ownership_vars ==
  <<facts, field, left, found, class, confidence, evidence_start,
    evidence_count, evidence, walk>>

whole == <<all, provenance_vars, ownership_vars, asking>>

Resolving == INSTANCE Provenance WITH row <- argument, pc <- resolving

Owning == INSTANCE Ownership WITH program <- facts, row <- field, pc <- walk

-----------------------------------------------------------------------------
\* There are no facts to classify by before there is a graph.
NoFacts ==
  [ graph |-> NoProgram, field_owner |-> << >>, field_type |-> << >>,
    type_kind |-> << >>, element |-> << >>, over_aligned |-> << >>,
    operation |-> << >>, place |-> << >>, place_field |-> << >>,
    function |-> << >>, allocator |-> << >>, assigned |-> << >>,
    source |-> << >>, assigned_in |-> << >>, memory_operation |-> << >>,
    resolved |-> << >> ]

\* Both passes read one table of calls.
StartAnalysis ==
  /\ StartClosure
  /\ Resolving!Init
  /\ tables.callee = calls.callee
  /\ facts = NoFacts
  /\ field = 0
  /\ left = {}
  /\ found = Owning!NothingFound
  /\ class = << >>
  /\ confidence = << >>
  /\ evidence_start = << >>
  /\ evidence_count = << >>
  /\ evidence = << >>
  /\ walk = "waiting"
  /\ asking = FALSE

Order ==
  (SortCalls \/ Build) /\ UNCHANGED <<provenance_vars, ownership_vars, asking>>

Resolve ==
  /\ built
  /\ walk = "waiting"
  /\ Resolving!Next
  /\ UNCHANGED <<all, ownership_vars, asking>>

\* What every allocator source resolved to.
Resolved ==
  [ i \in 1 .. Len(tables.kind) |-> ClassOfSource(tables, parameter_class, i - 1) ]

\* The classification starts, on a buffer nothing has been stamped in; there are no
\* fields where there are no structs.
Classify ==
  /\ calls.deinit # << >>
  /\ resolving = "done"
  /\ walk = "waiting"
  /\ generation = 0
  /\ facts' \in { f \in FactSets : f.graph = program /\ f.resolved = Resolved }
  /\ walk' = "field"
  /\ UNCHANGED <<field, left, found, class, confidence,
                 evidence_start, evidence_count, evidence>>
  /\ UNCHANGED <<all, provenance_vars, asking>>

AtFree == walk = "frees" /\ left # {}

\* The struct of the field and the function of the free are what is asked about.
AskOfFree ==
  /\ AtFree
  /\ ~ asking
  /\ LET o == At(facts.field_owner, field)
         f == Owning!FunctionOf(facts.function, Owning!First)
     IN  AskAgain(o, f) \/ AskOther(o, f)
  /\ asking' = TRUE
  /\ UNCHANGED <<sort_vars, calls, built, provenance_vars, ownership_vars>>

AskAnything ==
  /\ calls.deinit # << >>
  /\ resolving = "done"
  /\ walk = "waiting"
  /\ \E o \in Owners(program), f \in Askable(program) :
       AskAgain(o, f) \/ AskOther(o, f)
  /\ UNCHANGED <<sort_vars, calls, built, provenance_vars, ownership_vars, asking>>

MarkOn ==
  /\ Mark
  /\ UNCHANGED <<sort_vars, calls, built, provenance_vars, ownership_vars, asking>>

AnswerIt ==
  /\ Answer
  /\ UNCHANGED <<sort_vars, calls, built, provenance_vars, ownership_vars, asking>>

\* Mutant of Free: what was answered for one free is taken for the next.
FreeByLastAnswer ==
  /\ AtFree
  /\ asking /\ pc = "idle"
  /\ Owning!FreeSaid(answer)
  /\ UNCHANGED <<all, provenance_vars, asking>>

\* The free is looked at with the answer the buffer gave.
Free ==
  /\ AtFree
  /\ asking /\ pc = "idle"
  /\ Owning!FreeSaid(answer)
  /\ asking' = FALSE
  /\ UNCHANGED <<all, provenance_vars>>

\* Any other step of the classification.
Walk ==
  /\ Owning!Step
  /\ UNCHANGED <<all, provenance_vars, asking>>

NextAnalysis ==
  \/ Order \/ Resolve \/ Classify
  \/ AskOfFree \/ AskAnything \/ MarkOn \/ AnswerIt
  \/ Free \/ Walk

\* A question that was asked is worked on until it is answered.
SpecAnalysis ==
  StartAnalysis /\ [][NextAnalysis]_whole /\ WF_whole(MarkOn) /\ WF_whole(AnswerIt)

-----------------------------------------------------------------------------
(* Properties: what each pass promises, of the pass in its place.          *)

\* Whatever the tables hold, the columns of the provenance pass keep their types.
TypedProvenance == Resolving!TypedProvenance

\* The classes are the least that account for every call argument (provenance.rs).
LeastSolution == Resolving!LeastSolution

\* Witnesses and disagreements are true of the tables, in every round.
SoundEvidence == Resolving!SoundEvidence

\* The limit on the rounds is never what ends the pass.
Converges == Resolving!Converges

\* The rounds implement the order-free fixed point.
RefinesChaotic == Resolving!RefinesChaotic

\* The evidence table is cut into the fields (ownership.rs).
EvidenceTiles == Owning!EvidenceTiles

\* The class of a field fits all that the tables say of it.
VerdictsFollowFacts == Owning!VerdictsFollowFacts

\* No heap field is certain that its owner does not free.
ConfidenceFollowsFacts == Owning!ConfidenceFollowsFacts

\* Evidence is what the tables say; a free is the owner's own exactly when it is.
EvidenceIsTheFacts == Owning!EvidenceIsTheFacts

\* No field is certain that something else than its owner frees (README.md, which
\* the code does not keep to).
ContradictionLowersConfidence == Owning!ContradictionLowersConfidence

=============================================================================

----------------------------- MODULE Provenance -----------------------------
(***************************************************************************)
(* resolve_allocator_provenance, the fixed point that gives every          *)
(* allocator parameter the allocator its callers pass.                     *)
(*                                                                         *)
(* The pass is two nested loops.  The outer one runs rounds, at most       *)
(* RoundLimit of them, until a round changes nothing.  The inner one walks *)
(* the call argument rows in order and joins what each argument passes     *)
(* into the parameter it fills, so a row reads what earlier rows of the    *)
(* same round just wrote.  Each iteration of the inner loop is one step.   *)
(***************************************************************************)
EXTENDS AllocatorFacts

VARIABLES
  tables,           \* the fact tables, read only
  parameter_class,  \* what each row of `parameters` resolves to so far
  witness,          \* the call argument that put it there
  disagreements,    \* pairs of callers that passed different allocators
  round,            \* rounds finished that changed something
  row,              \* the call argument the inner loop is at
  changed,          \* did this round raise anything?
  converged,
  pc                \* "row", and "done" once the pass has returned

vars == <<tables, parameter_class, witness, disagreements, round, row,
          changed, converged, pc>>

-----------------------------------------------------------------------------
\* Mutant of RoundLimit: one round per parameter.
RoundLimitPerParameter(t) == t.parameters

RoundLimit(t) == t.parameters * 3 + 4

-----------------------------------------------------------------------------
Init ==
  /\ tables \in TableSet
  /\ parameter_class = [slot \in Slots(tables) |-> "Unset"]
  /\ witness = [slot \in Slots(tables) |-> NoIndex]
  /\ disagreements = << >>
  /\ round = 0
  /\ row = 0
  /\ changed = FALSE
  /\ converged = FALSE
  /\ pc = "row"

AtRow == pc = "row" /\ row < Len(tables.call)

\* The argument names no call, no parameter or no source: `continue`.
SkipRow ==
  /\ AtRow
  /\ Target(tables, row) = NoIndex
  /\ row' = row + 1
  /\ UNCHANGED <<tables, parameter_class, witness, disagreements, round,
                 changed, converged, pc>>

\* What the argument passes is already accounted for.
KeepRow ==
  /\ AtRow
  /\ Target(tables, row) # NoIndex
  /\ LET held == parameter_class[Target(tables, row)]
     IN  Join(held, Contribution(tables, parameter_class, row)) = held
  /\ row' = row + 1
  /\ UNCHANGED <<tables, parameter_class, witness, disagreements, round,
                 changed, converged, pc>>

\* Two concrete allocators meet in one parameter; a class that was already
\* conflicting when it arrived was somebody else's disagreement.
\*
\* Mutant of Disagrees: only the arena is recognised as the newcomer.
DisagreesArenaLast(held, contributed) ==
  held = "Global" /\ contributed = "Arena"

Disagrees(held, contributed) == held # "Unset" /\ contributed # "Conflicting"

\* The argument that put the parameter in the class it now holds.
Witnessed(witnesses, slot, merged, r) ==
  IF merged = "Conflicting" THEN witnesses ELSE [witnesses EXCEPT ![slot] = r]

\* The argument says something new about the parameter it fills.
RaiseRow ==
  /\ AtRow
  /\ Target(tables, row) # NoIndex
  /\ LET slot        == Target(tables, row)
         held        == parameter_class[slot]
         contributed == Contribution(tables, parameter_class, row)
         merged      == Join(held, contributed)
     IN  /\ merged # held
         /\ parameter_class' = [parameter_class EXCEPT ![slot] = merged]
         /\ disagreements' =
              IF merged = "Conflicting" /\ Disagrees(held, contributed)
              THEN Append(disagreements,
                     [parameter    |-> slot,
                      first        |-> witness[slot],
                      second       |-> row,
                      first_class  |-> held,
                      second_class |-> contributed])
              ELSE disagreements
         /\ witness' = Witnessed(witness, slot, merged, row)
  /\ changed' = TRUE
  /\ row' = row + 1
  /\ UNCHANGED <<tables, round, converged, pc>>

AtRoundEnd == pc = "row" /\ row = Len(tables.call)

\* Mutant of Settle: the first round is taken for the answer.
SettleAfterOneRound ==
  /\ AtRoundEnd
  /\ converged' = TRUE
  /\ pc' = "done"
  /\ UNCHANGED <<tables, parameter_class, witness, disagreements, round, row,
                 changed>>

\* A round that changed nothing is the answer.
Settle ==
  /\ AtRoundEnd
  /\ ~ changed
  /\ converged' = TRUE
  /\ pc' = "done"
  /\ UNCHANGED <<tables, parameter_class, witness, disagreements, round, row,
                 changed>>

\* Another round, or the end of the loop where they have run out.
EndRound ==
  /\ AtRoundEnd
  /\ changed
  /\ round' = round + 1
  /\ IF round' < RoundLimit(tables)
     THEN row' = 0 /\ changed' = FALSE /\ UNCHANGED pc
     ELSE pc' = "done" /\ UNCHANGED <<row, changed>>
  /\ UNCHANGED <<tables, parameter_class, witness, disagreements, converged>>

Returned == pc = "done" /\ UNCHANGED vars

Next ==
  \/ SkipRow
  \/ KeepRow
  \/ RaiseRow
  \/ Settle
  \/ EndRound
  \/ Returned

Spec == Init /\ [][Next]_vars

-----------------------------------------------------------------------------
(* Properties.                                                             *)

Disagreement ==
  [parameter : Nat, first : Nat, second : Nat,
   first_class : AllocatorClass, second_class : AllocatorClass]

TypedProvenance ==
  /\ tables \in FactTables
  /\ parameter_class \in [Slots(tables) -> AllocatorClass]
  /\ witness \in [Slots(tables) -> Nat]
  /\ disagreements \in Seq(Disagreement)
  /\ round \in Nat
  /\ row \in 0 .. Len(tables.call)
  /\ changed \in BOOLEAN
  /\ converged \in BOOLEAN
  /\ pc \in {"row", "done"}

(***************************************************************************)
(* The bound on rounds is never what ends the pass: it always returns with *)
(* `converged` set, so the report never prints the warning that allocator  *)
(* provenance did not settle.                                              *)
(***************************************************************************)
Converges == pc = "done" => converged

(***************************************************************************)
(* The answer is the least one that accounts for every call argument:      *)
(* nothing is raised without a caller to blame, whatever order the rows    *)
(* are in, and no argument is forgotten once the pass returns.             *)
(***************************************************************************)
LeastSolution ==
  /\ \A other \in [Slots(tables) -> AllocatorClass] :
       \/ \A slot \in Slots(tables) : Leq(parameter_class[slot], other[slot])
       \/ ~ IsSolution(tables, other)
  /\ pc = "done" => IsSolution(tables, parameter_class)

(***************************************************************************)
(* While a parameter has one allocator, its witness is an argument that    *)
(* fills it and that passed exactly that allocator, unless what that       *)
(* argument forwards has itself turned conflicting since.                  *)
(***************************************************************************)
WitnessExplains ==
  \A slot \in Slots(tables) :
    parameter_class[slot] \in Concrete =>
      /\ Fills(tables, witness[slot], slot)
      /\ Contribution(tables, parameter_class, witness[slot])
           \in {parameter_class[slot], "Conflicting"}

(***************************************************************************)
(* A disagreement is evidence: it names two different arguments that fill  *)
(* the parameter, one that passed the heap and one that passed an arena,   *)
(* the parameter did turn conflicting, and it is reported once however     *)
(* many rounds the fixed point takes.                                      *)
(***************************************************************************)
DisagreementsAreEvidence ==
  \A i \in 1 .. Len(disagreements) :
    LET found == disagreements[i]
    IN  /\ Fills(tables, found.first, found.parameter)
        /\ Fills(tables, found.second, found.parameter)
        /\ found.first # found.second
        /\ {found.first_class, found.second_class} = Concrete
        /\ parameter_class[found.parameter] = "Conflicting"
        /\ \A j \in 1 .. Len(disagreements) :
             disagreements[j].parameter = found.parameter => j = i

(***************************************************************************)
(* A parameter that ends up conflicting is either reported with the two    *)
(* callers that disagreed, or filled by an argument that was conflicting   *)
(* before it arrived: no conflict starts here and goes unreported.         *)
(***************************************************************************)
ConflictsAreExplained ==
  pc = "done" =>
    \A slot \in Slots(tables) :
      parameter_class[slot] = "Conflicting" =>
        \/ \E i \in 1 .. Len(disagreements) :
             disagreements[i].parameter = slot
        \/ \E r \in Rows(tables.call) :
             /\ Fills(tables, r, slot)
             /\ Contribution(tables, parameter_class, r) = "Conflicting"

(***************************************************************************)
(* What the pass hands on as evidence (provenance.rs:118-141) is true of   *)
(* the tables when it is done, and while it runs: of one allocator the     *)
(* witness, of two the disagreement, and of every conflict one of them.    *)
(***************************************************************************)
SoundEvidence ==
  WitnessExplains /\ DisagreementsAreEvidence /\ ConflictsAreExplained

(***************************************************************************)
(* A class only climbs: no step takes back what an earlier argument        *)
(* established.                                                            *)
(***************************************************************************)
ClassesOnlyClimb ==
  [][\A slot \in Slots(tables) :
       Leq(parameter_class[slot], parameter_class'[slot])]_vars

\* The chaotic iteration this loop is one schedule of.
Chaotic == INSTANCE ChaoticProvenance
             WITH resolved <- parameter_class, settled <- pc = "done"

(***************************************************************************)
(* The two loops implement the order-free fixed point of ChaoticProvenance.*)
(***************************************************************************)
RefinesChaotic == Chaotic!Spec

=============================================================================

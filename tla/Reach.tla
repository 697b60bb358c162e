------------------------------- MODULE Reach -------------------------------
(***************************************************************************)
(* Which functions a struct's deinit reaches.  The ownership pass asks it  *)
(* of one field after another, and one stamp buffer serves every struct:   *)
(* mark_reachable stamps what a root reaches with a generation of its own  *)
(* and leaves what earlier generations wrote in place.  closure_holds      *)
(* marks again only when a field of another struct than the last one asks. *)
(***************************************************************************)
EXTENDS CallGraph, FiniteSets

CONSTANTS
  Programs,        \* a call graph with the deinit of every struct
  MaxGeneration    \* how many times the buffer is reused

ASSUME ProgramsAssumption == \A p \in Programs : WellFormed(p)

ASSUME MaxGenerationAssumption == MaxGeneration \in Nat

VARIABLES
  program,      \* read only
  owner,        \* the struct the buffer holds the closure of, if any
  stamp,        \* per function, the generation that last reached it
  generation,
  pending,      \* stamped functions whose callees have not been looked at
  edge,         \* the next callee of the one that is being looked at
  edge_end,
  asked,        \* the function the question is about
  answer,       \* what the last question was answered
  pc            \* "idle", "mark" inside mark_reachable, "look" at the stamp

vars == <<program, owner, stamp, generation, pending, edge, edge_end, asked,
          answer, pc>>

-----------------------------------------------------------------------------
Init ==
  /\ program \in Programs
  /\ owner = {}
  /\ stamp = [f \in FunctionIds(program) |-> 0]
  /\ generation = 0
  /\ pending = << >>
  /\ edge = 0
  /\ edge_end = 0
  /\ asked = NoIndex
  /\ answer = FALSE
  /\ pc = "idle"

\* Another question about the struct the buffer already describes.
AskAgain(o, f) ==
  /\ pc = "idle"
  /\ owner = {o}
  /\ asked' = f
  /\ pc' = "look"
  /\ UNCHANGED <<program, owner, stamp, generation, pending, edge, edge_end,
                 answer>>

\* Mutant of AskOther: the stamps of the last struct are still believed.
AskOtherStale(o, f) ==
  /\ pc = "idle"
  /\ owner # {o}
  /\ owner' = {o}
  /\ asked' = f
  /\ UNCHANGED <<program, edge, edge_end, answer>>
  /\ IF Roots(program, o) = {}
     THEN /\ pc' = "look"
          /\ UNCHANGED <<generation, stamp, pending>>
     ELSE /\ generation < MaxGeneration
          /\ generation' = generation + 1
          /\ stamp' = [stamp EXCEPT ![Deinit(program, o)] = generation + 1]
          /\ pending' = <<Deinit(program, o)>>
          /\ pc' = "mark"

\* A field of another struct: a new generation, marked from its deinit.
AskOther(o, f) ==
  /\ pc = "idle"
  /\ owner # {o}
  /\ generation < MaxGeneration
  /\ owner' = {o}
  /\ asked' = f
  /\ generation' = generation + 1
  /\ UNCHANGED <<program, edge, edge_end, answer>>
  /\ IF Roots(program, o) = {}
     THEN /\ pc' = "look"
          /\ UNCHANGED <<stamp, pending>>
     ELSE /\ stamp' = [stamp EXCEPT ![Deinit(program, o)] = generation + 1]
          /\ pending' = <<Deinit(program, o)>>
          /\ pc' = "mark"

Scanning == pc = "mark" /\ edge < edge_end

\* A call to something that does not exist, or that is stamped already.
PassEdge ==
  /\ Scanning
  /\ LET target == At(program.edge_target, edge)
     IN  target \in FunctionIds(program) => stamp[target] = generation
  /\ edge' = edge + 1
  /\ UNCHANGED <<program, owner, stamp, generation, pending, edge_end, asked,
                 answer, pc>>

\* A call to a function this generation reaches for the first time.
StampEdge ==
  /\ Scanning
  /\ LET target == At(program.edge_target, edge)
     IN  /\ target \in FunctionIds(program)
         /\ stamp[target] # generation
         /\ stamp' = [stamp EXCEPT ![target] = generation]
         /\ pending' = Append(pending, target)
  /\ edge' = edge + 1
  /\ UNCHANGED <<program, owner, generation, edge_end, asked, answer, pc>>

\* Mutant of Pop: the function stays on the stack while it is looked at.
PopPeeks ==
  /\ pc = "mark"
  /\ edge = edge_end
  /\ pending # << >>
  /\ LET current == pending[Len(pending)]
     IN  /\ edge' = At(program.edge_start, current)
         /\ edge_end' = At(program.edge_start, current + 1)
  /\ UNCHANGED <<program, owner, stamp, generation, pending, asked, answer, pc>>

\* The last function stamped is looked at next.
Pop ==
  /\ pc = "mark"
  /\ edge = edge_end
  /\ pending # << >>
  /\ LET current == pending[Len(pending)]
     IN  /\ edge' = At(program.edge_start, current)
         /\ edge_end' = At(program.edge_start, current + 1)
  /\ pending' = SubSeq(pending, 1, Len(pending) - 1)
  /\ UNCHANGED <<program, owner, stamp, generation, asked, answer, pc>>

Marked ==
  /\ pc = "mark"
  /\ edge = edge_end
  /\ pending = << >>
  /\ pc' = "look"
  /\ UNCHANGED <<program, owner, stamp, generation, pending, edge, edge_end,
                 asked, answer>>

\* A function is inside when the generation of the buffer reached it.
Answer ==
  /\ pc = "look"
  /\ answer' = (asked \in FunctionIds(program) /\ stamp[asked] = generation)
  /\ pc' = "idle"
  /\ UNCHANGED <<program, owner, stamp, generation, pending, edge, edge_end,
                 asked>>

\* The structs and the functions a field or a free may name, rows that are not
\* there among them.
Owners(p) == 0 .. Len(p.deinit)
Askable(p) == 0 .. Len(p.edge_start) - 1

Mark == PassEdge \/ StampEdge \/ Pop \/ Marked

Next ==
  \/ \E o \in Owners(program), f \in Askable(program) :
       AskAgain(o, f) \/ AskOther(o, f)
  \/ Mark
  \/ Answer

Spec == Init /\ [][Next]_vars

\* A question that was asked is worked on until it is answered.
FairSpec == Spec /\ WF_vars(Mark) /\ WF_vars(Answer)

-----------------------------------------------------------------------------
(* Properties.                                                             *)

TypeOK ==
  /\ program \in ProgramType
  /\ owner \subseteq Nat
  /\ stamp \in [FunctionIds(program) -> 0 .. generation]
  /\ generation \in 0 .. MaxGeneration
  /\ pending \in Seq(FunctionIds(program))
  /\ edge \in Nat
  /\ edge_end \in Nat
  /\ asked \in Nat
  /\ answer \in BOOLEAN
  /\ pc \in {"idle", "mark", "look"}

(***************************************************************************)
(* A function is answered to be inside the deinit closure exactly when the *)
(* deinit of the struct that asked calls it, however many calls away:      *)
(* stamps of earlier structs are never mistaken for this one's, and a      *)
(* struct without a deinit has nothing inside.                             *)
(***************************************************************************)
AnswersReachability ==
  pc = "idle" =>
    \A o \in owner : answer <=> asked \in Reached(program, o)

(***************************************************************************)
(* A function is pending once per struct at most, so the stack holds no    *)
(* more entries than there are functions, and it has been stamped.         *)
(***************************************************************************)
PendingOnce ==
  /\ \A i, j \in 1 .. Len(pending) : pending[i] = pending[j] => i = j
  /\ \A i \in 1 .. Len(pending) : stamp[pending[i]] = generation

(***************************************************************************)
(* A stamp only ever moves to the newest generation: what earlier          *)
(* generations wrote stays in place, and no function is stamped twice.     *)
(***************************************************************************)
StampsMoveToNewest ==
  [][\A f \in FunctionIds(program) :
       stamp'[f] # stamp[f] =>
         stamp'[f] = generation' /\ stamp[f] < generation']_vars

(***************************************************************************)
(* Every question is answered, recursion in the program notwithstanding.   *)
(***************************************************************************)
EveryQuestionAnswered == pc # "idle" ~> pc = "idle"

=============================================================================

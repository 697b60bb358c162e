------------------------- MODULE AnalysisProofs -------------------------
(***************************************************************************)
(* Proofs about the analysis: of Reach, for call graphs of any shape and   *)
(* any sequence of questions; of Grouping, for any number of rows and      *)
(* buckets; and of the whole of it, from call tables of any size and in    *)
(* any order to the answers and the verdicts.  What ProvenanceProofs and   *)
(* OwnershipProofs have of a pass alone is shown of it in its place.       *)
(***************************************************************************)
EXTENDS Analysis, FiniteSetTheorems, WellFoundedInduction, TLAPS

\* What the newest generation has reached.
Stamped == { f \in FunctionIds(program) : stamp[f] = generation }

\* An edge that is still to be scanned.
Left(e) == e \in edge .. edge_end - 1

\* The types the proofs use, and that the edges are in the table.
Typed == WellFormed(program) /\ TypeOK

\* Any question at all, of rows that are there or not, and the work on it.
Question ==
  \/ \E o, f \in Nat : AskAgain(o, f) \/ AskOther(o, f)
  \/ Mark
  \/ Answer

LEMMA NextIsQuestion == [Next]_vars => [Question]_vars
BY DEF Next, Question, Owners, Askable

-----------------------------------------------------------------------------
(* Types.                                                                  *)

\* What the tables are, in every state.
LEMMA ProgramShape ==
  ASSUME NEW p, WellFormed(p)
  PROVE  /\ p \in ProgramType
         /\ Len(p.edge_start) \in Nat /\ Len(p.edge_start) >= 1
         /\ FunctionIds(p) \subseteq Nat
         /\ \A f \in FunctionIds(p) :
              /\ At(p.edge_start, f) \in Nat
              /\ At(p.edge_start, f + 1) \in Nat
              /\ \A e \in Callees(p, f) :
                   e \in Nat /\ At(p.edge_target, e) \in Nat
         /\ \A o \in Nat : Deinit(p, o) \in Nat
<1>1. /\ p \in ProgramType
      /\ Len(p.edge_start) >= 1
      /\ \A f \in FunctionIds(p) : Callees(p, f) \subseteq Rows(p.edge_target)
  BY DEF WellFormed
<1>2. /\ p.edge_start \in Seq(Nat)
      /\ p.edge_target \in Seq(Nat)
      /\ p.deinit \in Seq(Nat)
  BY <1>1 DEF ProgramType
<1>3. Len(p.edge_start) \in Nat
  BY <1>2
<1>4. FunctionIds(p) \subseteq Nat
  BY <1>3 DEF FunctionIds
<1>5. \A f \in FunctionIds(p) :
        At(p.edge_start, f) \in Nat /\ At(p.edge_start, f + 1) \in Nat
  BY <1>2, <1>3 DEF FunctionIds, At
<1>6. \A e \in Rows(p.edge_target) :
        e \in Nat /\ At(p.edge_target, e) \in Nat
  BY <1>2 DEF Rows, At
<1>7. \A o \in Nat : Deinit(p, o) \in Nat
  BY <1>2, NoIndexAssumption DEF Deinit, Has, At
<1> QED BY <1>1, <1>3, <1>4, <1>5, <1>6, <1>7

\* The initial state has its types.
LEMMA TypedInit ==
  ASSUME Init PROVE Typed
<1>1. WellFormed(program)
  BY ProgramsAssumption DEF Init
<1>2. program \in ProgramType
  BY <1>1, ProgramShape
<1>3. stamp \in [FunctionIds(program) -> 0 .. generation]
  BY DEF Init
<1>4. pending \in Seq(FunctionIds(program))
  BY DEF Init
<1>5. generation \in 0 .. MaxGeneration
  BY MaxGenerationAssumption DEF Init
<1>6. asked \in Nat
  BY NoIndexAssumption DEF Init
<1> QED BY <1>1, <1>2, <1>3, <1>4, <1>5, <1>6 DEF Init, Typed, TypeOK

\* A question about another struct keeps them.
LEMMA AskOtherTyped ==
  ASSUME Typed, NEW o \in Nat, NEW f \in Nat, AskOther(o, f)
  PROVE  Typed'
<1>1. program' = program /\ WellFormed(program)
  BY DEF AskOther, Typed
<1>2. generation \in Nat /\ generation' = generation + 1
      /\ generation' \in 0 .. MaxGeneration
  BY MaxGenerationAssumption DEF AskOther, Typed, TypeOK
<1>3. /\ \A n \in 0 .. generation : n \in 0 .. generation'
      /\ generation + 1 \in 0 .. generation'
  BY <1>2
<1>4. stamp' \in [FunctionIds(program) -> 0 .. generation']
      /\ pending' \in Seq(FunctionIds(program))
      /\ pc' \in {"mark", "look"}
  <2>1. CASE Roots(program, o) = {}
    BY <1>2, <1>3, <2>1 DEF AskOther, Typed, TypeOK
  <2>2. CASE Roots(program, o) # {}
    <3>1. Deinit(program, o) \in FunctionIds(program)
      BY <2>2 DEF Roots
    <3>2. /\ stamp' = [stamp EXCEPT ![Deinit(program, o)] = generation + 1]
          /\ pending' = <<Deinit(program, o)>>
          /\ pc' = "mark"
      BY <2>2 DEF AskOther
    <3>3. stamp' \in [FunctionIds(program) -> 0 .. generation']
      <4>1. stamp \in [FunctionIds(program) -> 0 .. generation]
        BY DEF Typed, TypeOK
      <4> HIDE DEF FunctionIds
      <4> QED BY <1>3, <3>2, <4>1
    <3>4. pending' \in Seq(FunctionIds(program))
      BY <3>1, <3>2
    <3> QED BY <3>2, <3>3, <3>4
  <2> QED BY <2>1, <2>2
<1> QED BY <1>1, <1>2, <1>4 DEF AskOther, Typed, TypeOK

\* So does every other step.
LEMMA TypedStep ==
  ASSUME Typed, [Question]_vars PROVE Typed'
<1>1. CASE \E o, f \in Nat :
             AskAgain(o, f) \/ AskOther(o, f)
  <2>1. PICK o, f \in Nat :
               AskAgain(o, f) \/ AskOther(o, f)
    BY <1>1
  <2>3. CASE AskAgain(o, f)
    BY <2>3 DEF AskAgain, Typed, TypeOK
  <2>4. CASE AskOther(o, f)
    BY <2>4, AskOtherTyped
  <2> QED BY <2>1, <2>3, <2>4
<1>2. CASE PassEdge
  BY <1>2 DEF PassEdge, Typed, TypeOK
<1>3. CASE StampEdge
  <2>1. /\ generation \in Nat /\ generation' = generation
        /\ generation \in 0 .. generation
    BY <1>3 DEF StampEdge, Typed, TypeOK
  <2>2. /\ stamp' \in [FunctionIds(program) -> 0 .. generation]
        /\ pending' \in Seq(FunctionIds(program))
    BY <1>3, <2>1 DEF StampEdge, Typed, TypeOK
  <2>3. edge' \in Nat
    BY <1>3 DEF StampEdge, Typed, TypeOK
  <2> QED BY <1>3, <2>1, <2>2, <2>3 DEF StampEdge, Typed, TypeOK
<1>4. CASE Pop
  <2>1. /\ Len(pending) \in 1 .. Len(pending)
        /\ pending[Len(pending)] \in FunctionIds(program)
        /\ pending' \in Seq(FunctionIds(program))
    BY <1>4 DEF Pop, Typed, TypeOK
  <2>2. edge' \in Nat /\ edge_end' \in Nat
    BY <1>4, <2>1, ProgramShape DEF Pop, Typed
  <2> QED BY <1>4, <2>1, <2>2 DEF Pop, Typed, TypeOK
<1>5. CASE Marked
  BY <1>5 DEF Marked, Typed, TypeOK
<1>6. CASE Answer
  BY <1>6 DEF Answer, Typed, TypeOK
<1>7. CASE UNCHANGED vars
  BY <1>7 DEF vars, Typed, TypeOK
<1> QED BY <1>1, <1>2, <1>3, <1>4, <1>5, <1>6, <1>7 DEF Question, Mark

(***************************************************************************)
(* The type invariant, for every call graph and every number of structs.   *)
(***************************************************************************)
THEOREM TypeCorrect == Spec => []TypeOK
<1>1. Typed => TypeOK
  BY DEF Typed
<1> QED BY <1>1, TypedInit, TypedStep, NextIsQuestion, PTL DEF Spec

-----------------------------------------------------------------------------
(* The invariant.  Everything stamped is either pending, or all its calls  *)
(* lead to what is stamped except those still to be scanned; nothing is    *)
(* stamped that a closed set holding the root could leave out.             *)

Pending(f) == \E i \in 1 .. Len(pending) : pending[i] = f

Rooted == \A o \in owner : Roots(program, o) \subseteq Stamped

BelowEveryClosed ==
  \A o \in owner : \A inside \in SUBSET FunctionIds(program) :
    Roots(program, o) \subseteq inside /\ Closed(program, inside) =>
      Stamped \subseteq inside

Worklist ==
  \A f \in Stamped :
    \/ Pending(f)
    \/ \A e \in Callees(program, f) :
         At(program.edge_target, e) \in FunctionIds(program) =>
           At(program.edge_target, e) \in Stamped \/ Left(e)

LeftIsCalled ==
  \A e \in edge .. edge_end - 1 :
    \E f \in Stamped : e \in Callees(program, f)

PendingStamped == \A i \in 1 .. Len(pending) : pending[i] \in Stamped

Quiet == pc # "mark" => pending = << >> /\ edge = edge_end

Answered == pc = "idle" => \A o \in owner : answer <=> asked \in Stamped

ClosureInv ==
  /\ Typed
  /\ Rooted
  /\ BelowEveryClosed
  /\ Worklist
  /\ LeftIsCalled
  /\ PendingStamped
  /\ Quiet
  /\ Answered

LEMMA ClosureInit ==
  ASSUME Init PROVE ClosureInv
<1>1. Typed
  BY TypedInit
<1>2. Stamped = FunctionIds(program)
  BY DEF Init, Stamped
<1>3. /\ owner = {} /\ pending = << >> /\ edge = 0 /\ edge_end = 0
  BY DEF Init
<1>4. Worklist
  BY <1>2 DEF Worklist
<1>5. LeftIsCalled
  BY <1>3 DEF LeftIsCalled
<1> QED BY <1>1, <1>3, <1>4, <1>5
        DEF ClosureInv, Rooted, BelowEveryClosed, PendingStamped, Quiet,
            Answered

\* A question about another struct starts a closure that is its roots alone.
LEMMA AskOtherClosure ==
  ASSUME ClosureInv, NEW o \in Nat, NEW f \in Nat, AskOther(o, f)
  PROVE  ClosureInv'
<1>1. Typed /\ Typed'
  BY AskOtherTyped DEF ClosureInv
<1>2. /\ program' = program
      /\ owner' = {o}
      /\ generation' = generation + 1
      /\ edge' = edge /\ edge_end' = edge_end
      /\ pending = << >> /\ edge = edge_end
      /\ pc' # "idle"
  BY DEF AskOther, ClosureInv, Quiet
<1>3. generation \in Nat /\ stamp \in [FunctionIds(program) -> 0 .. generation]
  BY <1>1 DEF Typed, TypeOK
<1>4. \A g \in FunctionIds(program) : stamp[g] # generation + 1
  BY <1>3
<1>5. \/ /\ Roots(program, o) = {}
         /\ stamp' = stamp /\ pending' = << >> /\ pc' = "look"
      \/ /\ Roots(program, o) = {Deinit(program, o)}
         /\ stamp' = [stamp EXCEPT ![Deinit(program, o)] = generation + 1]
         /\ pending' = <<Deinit(program, o)>>
         /\ pc' = "mark"
  BY <1>2 DEF AskOther, Roots
<1>6. Stamped' = Roots(program, o)
  BY <1>2, <1>3, <1>4, <1>5 DEF Stamped, Roots
<1>7. \A g \in Stamped' : Pending(g)'
  BY <1>5, <1>6 DEF Pending
<1>8. PendingStamped'
  BY <1>5, <1>6 DEF PendingStamped
<1>9. LeftIsCalled'
  BY <1>1, <1>2 DEF LeftIsCalled, Typed, TypeOK
<1>10. Rooted' /\ BelowEveryClosed'
  BY <1>2, <1>6 DEF Rooted, BelowEveryClosed
<1>11. Worklist'
  BY <1>7 DEF Worklist
<1>12. Quiet' /\ Answered'
  BY <1>2, <1>5 DEF Quiet, Answered
<1> QED BY <1>1, <1>8, <1>9, <1>10, <1>11, <1>12 DEF ClosureInv

\* Passing an edge leaves a call that leads to something stamped, or nowhere.
LEMMA PassEdgeClosure ==
  ASSUME ClosureInv, PassEdge PROVE ClosureInv'
<1>1. Typed /\ Typed'
  BY TypedStep DEF ClosureInv, Question, Mark
<1>2. /\ UNCHANGED <<program, owner, stamp, generation, pending, edge_end, pc>>
      /\ edge' = edge + 1
      /\ edge \in Nat /\ edge_end \in Nat
      /\ pc = "mark"
  BY <1>1 DEF PassEdge, Scanning, Typed, TypeOK
<1>3. Stamped' = Stamped
  BY <1>2 DEF Stamped
<1>4. At(program.edge_target, edge) \in FunctionIds(program) =>
        At(program.edge_target, edge) \in Stamped
  BY DEF PassEdge, Stamped
<1>5. \A e : Left(e) => Left(e)' \/ e = edge
  BY <1>2 DEF Left
<1>6. Worklist'
  BY <1>2, <1>3, <1>4, <1>5 DEF ClosureInv, Worklist, Pending
<1>7. LeftIsCalled'
  BY <1>2, <1>3 DEF ClosureInv, LeftIsCalled
<1> QED BY <1>1, <1>2, <1>3, <1>6, <1>7
        DEF ClosureInv, Rooted, BelowEveryClosed, PendingStamped, Quiet,
            Answered

\* Stamping the target of an edge adds what every closed set must hold.
LEMMA StampEdgeClosure ==
  ASSUME ClosureInv, StampEdge PROVE ClosureInv'
<1> DEFINE target == At(program.edge_target, edge)
<1>1. Typed /\ Typed'
  BY TypedStep DEF ClosureInv, Question, Mark
<1>2. /\ UNCHANGED <<program, owner, generation, edge_end, pc>>
      /\ edge' = edge + 1
      /\ edge \in Nat /\ edge_end \in Nat /\ edge < edge_end
      /\ pc = "mark"
      /\ target \in FunctionIds(program)
      /\ stamp' = [stamp EXCEPT ![target] = generation]
      /\ pending' = Append(pending, target)
      /\ stamp \in [FunctionIds(program) -> 0 .. generation]
      /\ pending \in Seq(FunctionIds(program))
  BY <1>1 DEF StampEdge, Scanning, Typed, TypeOK
<1>3. Stamped' = Stamped \cup {target}
  BY <1>2 DEF Stamped
<1>4. \A g : Pending(g) \/ g = target => Pending(g)'
  <2>1. /\ Len(pending') = Len(pending) + 1
        /\ pending'[Len(pending) + 1] = target
        /\ Len(pending) \in Nat
        /\ \A i \in 1 .. Len(pending) : pending'[i] = pending[i]
    BY <1>2
  <2> QED BY <2>1 DEF Pending
<1>5. \A e : Left(e) => Left(e)' \/ e = edge
  BY <1>2 DEF Left
<1>6. Worklist'
  <2> SUFFICES ASSUME NEW g \in Stamped', ~ Pending(g)',
                      NEW e \in Callees(program, g),
                      At(program.edge_target, e) \in FunctionIds(program)
               PROVE  At(program.edge_target, e) \in Stamped' \/ Left(e)'
    BY <1>2 DEF Worklist
  <2>1. g \in Stamped /\ ~ Pending(g)
    BY <1>3, <1>4
  <2>2. At(program.edge_target, e) \in Stamped \/ Left(e)
    BY <2>1 DEF ClosureInv, Worklist
  <2> QED BY <1>3, <1>5, <2>2
<1>7. LeftIsCalled'
  BY <1>2, <1>3 DEF ClosureInv, LeftIsCalled
<1>8. BelowEveryClosed'
  <2> SUFFICES ASSUME NEW o \in owner,
                      NEW inside \in SUBSET FunctionIds(program),
                      Roots(program, o) \subseteq inside,
                      Closed(program, inside)
               PROVE  Stamped' \subseteq inside
    BY <1>2 DEF BelowEveryClosed
  <2>1. Stamped \subseteq inside
    BY DEF ClosureInv, BelowEveryClosed
  <2>2. PICK g \in Stamped : edge \in Callees(program, g)
    BY <1>2 DEF ClosureInv, LeftIsCalled
  <2>3. Calls(program, g, target)
    BY <2>2 DEF Calls
  <2>4. target \in inside
    BY <1>2, <2>1, <2>2, <2>3 DEF Closed
  <2> QED BY <1>3, <2>1, <2>4
<1>9. PendingStamped'
  BY <1>2, <1>3 DEF ClosureInv, PendingStamped
<1>10. Rooted'
  BY <1>2, <1>3 DEF ClosureInv, Rooted
<1> QED BY <1>1, <1>2, <1>6, <1>7, <1>8, <1>9, <1>10
        DEF ClosureInv, Quiet, Answered

\* A sequence without its last element.
LEMMA FrontShape ==
  ASSUME NEW S, NEW s \in Seq(S), s # << >>
  PROVE  /\ Len(SubSeq(s, 1, Len(s) - 1)) = Len(s) - 1
         /\ \A i \in 1 .. Len(s) - 1 : SubSeq(s, 1, Len(s) - 1)[i] = s[i]
<1>1. Len(s) \in Nat /\ Len(s) >= 1
  OBVIOUS
<1>2. Len(SubSeq(s, 1, Len(s) - 1)) = Len(s) - 1
  BY <1>1
<1> QED BY <1>1, <1>2

\* The function popped is the one whose calls are left to scan.
LEMMA PopClosure ==
  ASSUME ClosureInv, Pop PROVE ClosureInv'
<1> DEFINE n == Len(pending)
           current == pending[n]
<1>1. Typed /\ Typed'
  BY TypedStep DEF ClosureInv, Question, Mark
<1>2. /\ UNCHANGED <<program, owner, stamp, generation, pc>>
      /\ pc = "mark" /\ edge = edge_end
      /\ pending \in Seq(FunctionIds(program)) /\ pending # << >>
      /\ n \in Nat /\ n \in 1 .. n
      /\ pending' = SubSeq(pending, 1, n - 1)
      /\ edge' = At(program.edge_start, current)
      /\ edge_end' = At(program.edge_start, current + 1)
  BY <1>1 DEF Pop, Typed, TypeOK
<1>3. /\ Len(pending') = n - 1
      /\ \A i \in 1 .. n - 1 : pending'[i] = pending[i]
  BY <1>2, FrontShape
<1>4. \A e : ~ Left(e)
  BY <1>1, <1>2 DEF Left, Typed, TypeOK
<1>5. \A e : Left(e)' <=> e \in Callees(program, current)
  BY <1>2 DEF Left, Callees
<1>6. Stamped' = Stamped
  BY <1>2 DEF Stamped
<1>7. \A f : Pending(f) => Pending(f)' \/ f = current
  BY <1>2, <1>3 DEF Pending
<1>8. Worklist'
  <2> SUFFICES ASSUME NEW f \in Stamped, ~ Pending(f)',
                      NEW e \in Callees(program, f),
                      At(program.edge_target, e) \in FunctionIds(program)
               PROVE  At(program.edge_target, e) \in Stamped \/ Left(e)'
    BY <1>2, <1>6 DEF Worklist
  <2>1. CASE f = current
    BY <1>5, <2>1
  <2>2. CASE f # current
    BY <1>4, <1>7, <2>2 DEF ClosureInv, Worklist
  <2> QED BY <2>1, <2>2
<1>9. PendingStamped' /\ current \in Stamped
  BY <1>2, <1>3, <1>6 DEF ClosureInv, PendingStamped
<1>10. LeftIsCalled'
  BY <1>2, <1>5, <1>6, <1>9 DEF LeftIsCalled, Left
<1> QED BY <1>1, <1>2, <1>6, <1>8, <1>9, <1>10
        DEF ClosureInv, Rooted, BelowEveryClosed, Quiet, Answered

LEMMA ClosureStep ==
  ASSUME ClosureInv, [Question]_vars PROVE ClosureInv'
<1>1. Typed /\ Typed'
  BY TypedStep DEF ClosureInv
<1>2. CASE \E o, f \in Nat :
             AskAgain(o, f) \/ AskOther(o, f)
  <2>1. PICK o, f \in Nat :
               AskAgain(o, f) \/ AskOther(o, f)
    BY <1>2
  <2>3. CASE AskAgain(o, f)
    BY <1>1, <2>3
       DEF AskAgain, ClosureInv, Stamped, Rooted, BelowEveryClosed, Worklist,
           Pending, Left, LeftIsCalled, PendingStamped, Quiet, Answered
  <2> QED BY <2>1, <2>3, AskOtherClosure
<1>3. CASE PassEdge
  BY <1>3, PassEdgeClosure
<1>4. CASE StampEdge
  BY <1>4, StampEdgeClosure
<1>5. CASE Pop
  BY <1>5, PopClosure
<1>6. CASE Marked
  BY <1>1, <1>6
     DEF Marked, ClosureInv, Stamped, Rooted, BelowEveryClosed, Worklist,
         Pending, Left, LeftIsCalled, PendingStamped, Quiet, Answered
<1>7. CASE Answer
  <2>1. UNCHANGED <<program, owner, stamp, generation, pending, edge, edge_end,
                    asked>>
        /\ pc = "look" /\ pc' = "idle"
        /\ answer' = (asked \in Stamped)
    BY <1>7 DEF Answer, Stamped
  <2> QED BY <1>1, <2>1
          DEF ClosureInv, Stamped, Rooted, BelowEveryClosed, Worklist,
              Pending, Left, LeftIsCalled, PendingStamped, Quiet, Answered
<1>8. CASE UNCHANGED vars
  BY <1>1, <1>8
     DEF vars, ClosureInv, Stamped, Rooted, BelowEveryClosed, Worklist,
         Pending, Left, LeftIsCalled, PendingStamped, Quiet, Answered
<1> QED BY <1>2, <1>3, <1>4, <1>5, <1>6, <1>7, <1>8 DEF Question, Mark

\* Once nothing is pending, what is stamped is what the roots reach.
LEMMA StampedIsReached ==
  ASSUME ClosureInv, pc # "mark", NEW o \in owner
  PROVE  Stamped = Reached(program, o)
<1>1. Stamped \in SUBSET FunctionIds(program)
  BY DEF Stamped
<1>2. Roots(program, o) \subseteq Stamped
  BY DEF ClosureInv, Rooted
<1>3. Closed(program, Stamped)
  <2> SUFFICES ASSUME NEW f \in Stamped, NEW g \in FunctionIds(program),
                      Calls(program, f, g)
               PROVE  g \in Stamped
    BY DEF Closed
  <2>1. PICK e \in Callees(program, f) : At(program.edge_target, e) = g
    BY DEF Calls
  <2>2. ~ Pending(f) /\ ~ Left(e)
    BY DEF ClosureInv, Quiet, Pending, Left, Typed, TypeOK
  <2> QED BY <2>1, <2>2 DEF ClosureInv, Worklist
<1>4. Reached(program, o) \subseteq Stamped
  BY <1>1, <1>2, <1>3 DEF Reached
<1>5. Stamped \subseteq Reached(program, o)
  BY <1>1 DEF ClosureInv, BelowEveryClosed, Reached
<1> QED BY <1>4, <1>5

(***************************************************************************)
(* Whatever order the questions come in and whatever the buffer held       *)
(* before, the answer is reachability from the deinit that was asked about.*)
(***************************************************************************)
THEOREM AnswersAreReachability == Spec => []AnswersReachability
<1>1. ClosureInv => AnswersReachability
  BY StampedIsReached DEF ClosureInv, Answered, AnswersReachability
<1> QED BY <1>1, ClosureInit, ClosureStep, NextIsQuestion, PTL DEF Spec

-----------------------------------------------------------------------------
(* The buffer.                                                             *)

\* A step either leaves the stamps alone or stamps one function that the
\* newest generation has not reached yet.
LEMMA StampsMove ==
  ASSUME Typed, [Question]_vars
  PROVE  \A f \in FunctionIds(program) :
           stamp'[f] # stamp[f] =>
             stamp'[f] = generation' /\ stamp[f] < generation'
<1> SUFFICES ASSUME NEW f \in FunctionIds(program), stamp'[f] # stamp[f]
             PROVE  stamp'[f] = generation' /\ stamp[f] < generation'
  OBVIOUS
<1>1. /\ stamp \in [FunctionIds(program) -> 0 .. generation]
      /\ stamp[f] \in 0 .. generation
      /\ generation \in Nat
  BY DEF Typed, TypeOK
<1>2. CASE StampEdge
  BY <1>1, <1>2 DEF StampEdge
<1>3. CASE \E o, g \in Nat : AskOther(o, g)
  BY <1>1, <1>3 DEF AskOther
<1>4. StampEdge
      \/ (\E o, g \in Nat : AskOther(o, g))
      \/ stamp' = stamp
  BY DEF Question, AskAgain, Mark, PassEdge, Pop, Marked, Answer, vars
<1> QED BY <1>2, <1>3, <1>4

(***************************************************************************)
(* What earlier generations wrote stays in place until the newest one      *)
(* reaches the function, and it is stamped once.                           *)
(***************************************************************************)
THEOREM BufferIsReused == Spec => StampsMoveToNewest
<1>1. Typed /\ [Question]_vars =>
        [\A f \in FunctionIds(program) :
           stamp'[f] # stamp[f] =>
             stamp'[f] = generation' /\ stamp[f] < generation']_vars
  BY StampsMove
<1> QED BY <1>1, TypedInit, TypedStep, NextIsQuestion, PTL DEF Spec, StampsMoveToNewest

\* The invariant with the entries of the stack told apart.
StackInv ==
  /\ ClosureInv
  /\ \A i, j \in 1 .. Len(pending) : pending[i] = pending[j] => i = j

LEMMA StackStep ==
  ASSUME StackInv, [Question]_vars PROVE StackInv'
<1>1. ClosureInv /\ ClosureInv'
  BY ClosureStep DEF StackInv
<1>2. pending \in Seq(FunctionIds(program))
  BY <1>1 DEF ClosureInv, Typed, TypeOK
<1>3. CASE StampEdge
  <2> DEFINE target == At(program.edge_target, edge)
  <2>1. pending' = Append(pending, target) /\ target \notin Stamped
    BY <1>3 DEF StampEdge, Stamped
  <2>2. \A i \in 1 .. Len(pending) : pending[i] # target
    BY <1>1, <2>1 DEF ClosureInv, PendingStamped
  <2> QED BY <1>1, <1>2, <2>1, <2>2 DEF StackInv
<1>4. CASE Pop
  BY <1>1, <1>2, <1>4 DEF Pop, StackInv
<1>5. CASE \E o, f \in Nat : AskOther(o, f)
  <2>1. pending' = pending \/ \E r \in Nat : pending' = <<r>>
    <3>1. PICK o, f \in Nat : AskOther(o, f)
      BY <1>5
    <3>2. WellFormed(program) /\ o \in Nat
      BY <1>1 DEF ClosureInv, Typed
    <3>3. Deinit(program, o) \in Nat
      BY <3>2, ProgramShape
    <3> QED BY <3>1, <3>3 DEF AskOther
  <2> QED BY <1>1, <2>1 DEF StackInv
<1>6. CASE pending' = pending
  BY <1>1, <1>6 DEF StackInv
<1>7. StampEdge \/ Pop \/ pending' = pending
      \/ \E o, f \in Nat : AskOther(o, f)
  BY DEF Question, AskAgain, Mark, PassEdge, Marked, Answer, vars
<1> QED BY <1>3, <1>4, <1>5, <1>6, <1>7

(***************************************************************************)
(* The stack holds each function once at most, so it never grows past the  *)
(* number of functions, however many calls there are.                      *)
(***************************************************************************)
THEOREM StackHoldsEachOnce == Spec => []PendingOnce
<1>1. Init => StackInv
  <2>1. Init => pending = << >>
    BY DEF Init
  <2> QED BY <2>1, ClosureInit DEF StackInv
<1>2. StackInv => PendingOnce
  BY DEF StackInv, ClosureInv, PendingStamped, PendingOnce, Stamped
<1> QED BY <1>1, <1>2, StackStep, NextIsQuestion, PTL DEF Spec

-----------------------------------------------------------------------------
(* The counting sort, for any number of rows and buckets.                  *)

\* It counts as this module does.
LEMMA SortCounts == \A S : Sort!Cardinality(S) = Cardinality(S)
BY DEF Sort!Cardinality, Cardinality

\* The rows whose owner is below k.
Below(in, k) == { row \in Sort!Placed(in) : Sort!At(in.owners, row) < k }

All(in) == Len(in.owners)

SortTyped == input \in Inputs /\ Sort!TypeOK

-----------------------------------------------------------------------------
(* Sets of rows and their sizes.                                           *)

\* An input is a number of buckets and a sequence of owners.
LEMMA InputShape ==
  ASSUME NEW in \in Inputs
  PROVE  /\ in \in Sort!InputType
         /\ in.buckets \in Nat
         /\ All(in) \in Nat
         /\ \A row \in Sort!Rows(in.owners) : row \in Nat /\ row < All(in)
         /\ \A row \in Sort!Rows(in.owners) : Sort!At(in.owners, row) \in Nat
         /\ IsFiniteSet(Sort!Placed(in))
<1>1. /\ in \in Sort!InputType
      /\ in.buckets \in Nat
      /\ in.owners \in Seq(Nat)
  BY InputsAssumption DEF InputType, Sort!InputType
<1>2. All(in) \in Nat
  BY <1>1 DEF All
<1>3. \A row \in Sort!Rows(in.owners) :
        row \in Nat /\ row < All(in) /\ Sort!At(in.owners, row) \in Nat
  BY <1>1, <1>2 DEF Sort!Rows, Sort!At, All
<1>4. IsFiniteSet(Sort!Rows(in.owners))
  <2> DEFINE last == Len(in.owners) - 1
  <2>1. last \in Int
    BY <1>2 DEF All
  <2> HIDE DEF last
  <2>2. IsFiniteSet(0 .. last)
    BY <2>1, FS_Interval
  <2> QED BY <2>2 DEF last, Sort!Rows
<1>5. Sort!Placed(in) \in SUBSET Sort!Rows(in.owners)
  BY DEF Sort!Placed
<1>6. IsFiniteSet(Sort!Placed(in))
  BY <1>4, <1>5, FS_Subset
<1> QED BY <1>1, <1>2, <1>3, <1>6

\* Any set of placed rows is finite, and no larger than one that holds it.
LEMMA SizeMonotone ==
  ASSUME NEW in \in Inputs, NEW T \in SUBSET Sort!Placed(in), NEW S \in SUBSET T
  PROVE  /\ IsFiniteSet(S) /\ IsFiniteSet(T)
         /\ Cardinality(S) \in Nat /\ Cardinality(T) \in Nat
         /\ Cardinality(S) =< Cardinality(T)
         /\ S # T => Cardinality(S) < Cardinality(T)
<1>1. IsFiniteSet(Sort!Placed(in))
  BY InputShape
<1>2. IsFiniteSet(T)
  BY <1>1, FS_Subset
<1>3. /\ IsFiniteSet(S)
      /\ Cardinality(S) =< Cardinality(T)
      /\ Cardinality(T) = Cardinality(S) => T = S
  BY <1>2, FS_Subset
<1>4. Cardinality(S) \in Nat /\ Cardinality(T) \in Nat
  BY <1>2, <1>3, FS_CardinalityType
<1> QED BY <1>2, <1>3, <1>4

\* The first row past the first n joins its bucket and no other.
LEMMA RowsOfNext ==
  ASSUME NEW in \in Inputs, NEW b \in Sort!Buckets(in), NEW n \in Nat
  PROVE  /\ n \in Sort!Placed(in) /\ Sort!At(in.owners, n) = b =>
              /\ Sort!RowsOf(in, b, n + 1) = Sort!RowsOf(in, b, n) \cup {n}
              /\ n \notin Sort!RowsOf(in, b, n)
         /\ ~ (n \in Sort!Placed(in) /\ Sort!At(in.owners, n) = b) =>
              Sort!RowsOf(in, b, n + 1) = Sort!RowsOf(in, b, n)
<1>1. \A row \in Sort!Placed(in) : row \in Nat
  BY InputShape DEF Sort!Placed
<1>2. \A row \in Nat : row < n + 1 <=> row < n \/ row = n
  OBVIOUS
<1> QED BY <1>1, <1>2 DEF Sort!RowsOf

\* And its bucket grows by one.
LEMMA CountNext ==
  ASSUME NEW in \in Inputs, NEW b \in Sort!Buckets(in), NEW n \in Nat
  PROVE  /\ Cardinality(Sort!RowsOf(in, b, n)) \in Nat
         /\ Cardinality(Sort!RowsOf(in, b, n + 1)) =
              IF n \in Sort!Placed(in) /\ Sort!At(in.owners, n) = b
              THEN Cardinality(Sort!RowsOf(in, b, n)) + 1
              ELSE Cardinality(Sort!RowsOf(in, b, n))
<1>1. Sort!RowsOf(in, b, n) \in SUBSET Sort!Placed(in)
  BY DEF Sort!RowsOf
<1>2. IsFiniteSet(Sort!RowsOf(in, b, n)) /\ Cardinality(Sort!RowsOf(in, b, n)) \in Nat
  BY <1>1, SizeMonotone
<1>3. CASE n \in Sort!Placed(in) /\ Sort!At(in.owners, n) = b
  <2>1. /\ Sort!RowsOf(in, b, n + 1) = Sort!RowsOf(in, b, n) \cup {n}
        /\ n \notin Sort!RowsOf(in, b, n)
    BY <1>3, RowsOfNext
  <2> QED BY <1>2, <1>3, <2>1, FS_AddElement
<1>4. CASE ~ (n \in Sort!Placed(in) /\ Sort!At(in.owners, n) = b)
  BY <1>2, <1>4, RowsOfNext
<1> QED BY <1>3, <1>4

\* The rows below the next bucket are those below this one and its own.
LEMMA BelowNext ==
  ASSUME NEW in \in Inputs, NEW b \in Sort!Buckets(in)
  PROVE  /\ Cardinality(Below(in, b)) \in Nat
         /\ Cardinality(Below(in, b + 1)) =
              Cardinality(Below(in, b)) + Cardinality(Sort!RowsOf(in, b, All(in)))
<1>1. /\ Below(in, b) \in SUBSET Sort!Placed(in)
      /\ Sort!RowsOf(in, b, All(in)) \in SUBSET Sort!Placed(in)
  BY DEF Below, Sort!RowsOf
<1>2. \A row \in Sort!Placed(in) :
        Sort!At(in.owners, row) \in Nat /\ row \in Nat /\ row < All(in)
  BY InputShape DEF Sort!Placed
<1>3. b \in Nat
  BY InputShape DEF Sort!Buckets
<1>4. Below(in, b + 1) = Below(in, b) \cup Sort!RowsOf(in, b, All(in))
  BY <1>2, <1>3 DEF Below, Sort!RowsOf
<1>5. Below(in, b) \cap Sort!RowsOf(in, b, All(in)) = {}
  BY <1>2, <1>3 DEF Below, Sort!RowsOf
<1>6. /\ IsFiniteSet(Below(in, b)) /\ Cardinality(Below(in, b)) \in Nat
      /\ IsFiniteSet(Sort!RowsOf(in, b, All(in)))
      /\ Cardinality(Sort!RowsOf(in, b, All(in))) \in Nat
  BY <1>1, SizeMonotone
<1> HIDE DEF Below, Sort!RowsOf
<1>7. Cardinality(Below(in, b + 1)) =
        Cardinality(Below(in, b)) + Cardinality(Sort!RowsOf(in, b, All(in)))
        - Cardinality({})
  BY <1>4, <1>5, <1>6, FS_Union
<1> QED BY <1>6, <1>7, FS_EmptySet

-----------------------------------------------------------------------------
(* The invariant, pass by pass.                                            *)

\* While counting, a bucket has been given its rows among those walked.
CountInv ==
  sorting = "count" =>
    /\ at =< All(input)
    /\ \A b \in Sort!Buckets(input) :
         counts[b] = Cardinality(Sort!RowsOf(input, b, at))

\* After that, all of its rows.
CountsInv ==
  sorting # "count" =>
    \A b \in Sort!Buckets(input) :
      counts[b] = Cardinality(Sort!RowsOf(input, b, All(input)))

\* Where the first `upto` buckets start, and the end of the last of them.
SummedUpTo(upto) ==
  \A k \in 0 .. upto : start[k] = Cardinality(Below(input, k))

SumInv ==
  /\ sorting = "count" => start[0] = 0
  /\ sorting = "sum" => at =< input.buckets /\ SummedUpTo(at)
  /\ sorting \in {"fill", "done"} => SummedUpTo(input.buckets)

\* While filling, a bucket holds its rows among those walked, in order, and
\* the rest of it is empty.
FilledUpTo(n) ==
  \A b \in Sort!Buckets(input) :
    /\ cursor[b] = start[b] + Cardinality(Sort!RowsOf(input, b, n))
    /\ \A slot \in start[b] .. cursor[b] - 1 :
         grouped[slot] \in Sort!RowsOf(input, b, n)
    /\ \A row \in Sort!RowsOf(input, b, n) :
         \E slot \in start[b] .. cursor[b] - 1 : grouped[slot] = row
    /\ \A s1, s2 \in start[b] .. cursor[b] - 1 :
         s1 < s2 => grouped[s1] < grouped[s2]
    /\ \A slot \in cursor[b] .. start[b + 1] - 1 : grouped[slot] = NoIndex

FillInv ==
  /\ sorting \in {"count", "sum"} => \A slot \in DOMAIN grouped : grouped[slot] = NoIndex
  /\ sorting = "fill" => at =< All(input) /\ FilledUpTo(at)
  /\ sorting = "done" => FilledUpTo(All(input))

GroupingInv ==
  /\ SortTyped
  /\ CountInv
  /\ CountsInv
  /\ SumInv
  /\ FillInv

\* Buckets start one after the other and end with the table.
LEMMA StartsTile ==
  ASSUME SortTyped, SummedUpTo(input.buckets)
  PROVE  /\ \A a, b \in 0 .. input.buckets : a =< b => start[a] =< start[b]
         /\ \A b \in Sort!Buckets(input) :
              start[b + 1] =
                start[b] + Cardinality(Sort!RowsOf(input, b, All(input)))
         /\ start[0] = 0
         /\ start[input.buckets] = Cardinality(Sort!Placed(input))
<1>0. input \in Inputs /\ input.buckets \in Nat
  BY InputShape DEF SortTyped
<1>1. \A a, b \in 0 .. input.buckets : a =< b => start[a] =< start[b]
  <2> SUFFICES ASSUME NEW a \in 0 .. input.buckets,
                      NEW b \in 0 .. input.buckets, a =< b
               PROVE  start[a] =< start[b]
    OBVIOUS
  <2>1. \A row \in Sort!Placed(input) : Sort!At(input.owners, row) \in Nat
    BY <1>0, InputShape DEF Sort!Placed
  <2>2. /\ Below(input, b) \in SUBSET Sort!Placed(input)
        /\ Below(input, a) \in SUBSET Below(input, b)
    BY <1>0, <2>1 DEF Below
  <2>3. Cardinality(Below(input, a)) =< Cardinality(Below(input, b))
    BY <1>0, <2>2, SizeMonotone
  <2> QED BY <2>3 DEF SummedUpTo
<1>2. \A b \in Sort!Buckets(input) :
        start[b + 1] = start[b] + Cardinality(Sort!RowsOf(input, b, All(input)))
  <2> SUFFICES ASSUME NEW b \in Sort!Buckets(input)
               PROVE  start[b + 1] =
                        start[b] + Cardinality(Sort!RowsOf(input, b, All(input)))
    OBVIOUS
  <2>1. b \in 0 .. input.buckets /\ b + 1 \in 0 .. input.buckets
    BY <1>0 DEF Sort!Buckets
  <2> QED BY <1>0, <2>1, BelowNext DEF SummedUpTo
<1>3. start[0] = 0
  <2>1. \A row \in Sort!Placed(input) : Sort!At(input.owners, row) \in Nat
    BY <1>0, InputShape DEF Sort!Placed
  <2>2. Below(input, 0) = {}
    BY <2>1 DEF Below
  <2> QED BY <1>0, <2>2, FS_EmptySet DEF SummedUpTo
<1>4. start[input.buckets] = Cardinality(Sort!Placed(input))
  <2>1. Below(input, input.buckets) = Sort!Placed(input)
    BY <1>0 DEF Below, Sort!Placed, Sort!Buckets
  <2> QED BY <1>0, <2>1 DEF SummedUpTo
<1> QED BY <1>1, <1>2, <1>3, <1>4

LEMMA GroupingInit ==
  ASSUME Sort!Init PROVE GroupingInv
<1>1. input \in Inputs /\ input \in Sort!InputType /\ input.buckets \in Nat
      /\ All(input) \in Nat
  BY InputShape DEF Sort!Init
<1>2. /\ counts \in [Sort!Buckets(input) -> Nat]
      /\ start \in [0 .. input.buckets -> Nat]
      /\ cursor \in [0 .. input.buckets -> Nat]
      /\ grouped \in [0 .. Cardinality(Sort!Placed(input)) - 1 -> Nat]
  BY SortCounts, NoIndexAssumption DEF Sort!Init
<1>3. SortTyped
  <2>1. at = 0 /\ sorting = "count"
    BY DEF Sort!Init
  <2> QED BY SortCounts, <1>1, <1>2, <2>1 DEF SortTyped, Sort!TypeOK
<1>4. CountInv
  <2> SUFFICES ASSUME NEW b \in Sort!Buckets(input)
               PROVE  counts[b] = Cardinality(Sort!RowsOf(input, b, at))
    BY <1>1 DEF Sort!Init, CountInv
  <2>1. \A row \in Sort!Placed(input) : row \in Nat
    BY <1>1, InputShape DEF Sort!Placed
  <2>2. Sort!RowsOf(input, b, 0) = {}
    BY <2>1 DEF Sort!RowsOf
  <2> QED BY <2>2, FS_EmptySet DEF Sort!Init
<1>5. SumInv
  <2>1. start[0] = 0 /\ sorting = "count"
    BY <1>1 DEF Sort!Init
  <2> QED BY <2>1 DEF SumInv
<1>6. CountsInv /\ FillInv
  BY DEF Sort!Init, CountsInv, FillInv
<1> QED BY <1>3, <1>4, <1>5, <1>6 DEF GroupingInv

\* Counting the next row.
LEMMA CountStep ==
  ASSUME GroupingInv, Sort!Count PROVE GroupingInv'
<1>1. /\ UNCHANGED <<input, start, cursor, grouped, sorting>>
      /\ at' = at + 1 /\ at \in Nat /\ at < All(input)
      /\ input \in Inputs /\ All(input) \in Nat
      /\ sorting = "count"
      /\ counts \in [Sort!Buckets(input) -> Nat]
  BY InputShape DEF Sort!Count, GroupingInv, SortTyped, Sort!TypeOK, All
<1>2. \A b \in Sort!Buckets(input) :
        counts'[b] = IF at \in Sort!Placed(input) /\ Sort!At(input.owners, at) = b
                     THEN counts[b] + 1 ELSE counts[b]
  BY <1>1 DEF Sort!Count, Sort!Owner
<1>3. CountInv'
  <2> SUFFICES ASSUME NEW b \in Sort!Buckets(input)
               PROVE  counts'[b] = Cardinality(Sort!RowsOf(input, b, at + 1))
    BY <1>1 DEF CountInv, All
  <2>1. counts[b] = Cardinality(Sort!RowsOf(input, b, at))
    BY <1>1 DEF GroupingInv, CountInv
  <2> QED BY <1>1, <1>2, <2>1, CountNext
<1>4. counts' \in [Sort!Buckets(input) -> Nat]
  <2>1. counts' = counts \/ counts' = [counts EXCEPT ![Sort!Owner] = counts[Sort!Owner] + 1]
    BY DEF Sort!Count
  <2>2. Sort!Owner \in Sort!Buckets(input) => counts[Sort!Owner] + 1 \in Nat
    BY <1>1
  <2> HIDE DEF Sort!Owner
  <2> QED BY <1>1, <2>1, <2>2
<1>5. SortTyped'
  BY <1>1, <1>4 DEF GroupingInv, SortTyped, Sort!TypeOK
<1> QED BY <1>1, <1>3, <1>5
        DEF GroupingInv, CountsInv, SumInv, FillInv

\* The counts are complete when every row has been walked.
LEMMA CountedStep ==
  ASSUME GroupingInv, Sort!Counted PROVE GroupingInv'
<1>1. /\ UNCHANGED <<input, counts, start, cursor, grouped>>
      /\ at = All(input) /\ at' = 0 /\ sorting = "count" /\ sorting' = "sum"
      /\ input \in Inputs /\ input.buckets \in Nat
  BY InputShape DEF Sort!Counted, GroupingInv, SortTyped, All
<1>2. SortTyped'
  BY <1>1 DEF GroupingInv, SortTyped, Sort!TypeOK
<1>3. SumInv'
  <2>1. Below(input, 0) = {}
    <3>1. \A row \in Sort!Placed(input) : Sort!At(input.owners, row) \in Nat
      BY <1>1, InputShape DEF Sort!Placed
    <3> QED BY <3>1 DEF Below
  <2>2. start[0] = Cardinality(Below(input, 0))
    BY <1>1, <2>1, FS_EmptySet DEF GroupingInv, SumInv
  <2> QED BY <1>1, <2>2 DEF SumInv, SummedUpTo
<1> QED BY <1>1, <1>2, <1>3
        DEF GroupingInv, CountInv, CountsInv, FillInv, All

\* Adding up the next bucket.
LEMMA SumStep ==
  ASSUME GroupingInv, Sort!Sum PROVE GroupingInv'
<1>1. /\ UNCHANGED <<input, counts, cursor, grouped, sorting>>
      /\ at' = at + 1 /\ at \in Nat /\ at < input.buckets
      /\ start' = [start EXCEPT ![at + 1] = start[at] + counts[at]]
      /\ start \in [0 .. input.buckets -> Nat]
      /\ counts \in [Sort!Buckets(input) -> Nat]
      /\ input \in Inputs /\ input.buckets \in Nat
      /\ sorting = "sum"
  BY InputShape DEF Sort!Sum, GroupingInv, SortTyped, Sort!TypeOK
<1>2. at \in Sort!Buckets(input) /\ at \in 0 .. input.buckets
      /\ at + 1 \in 0 .. input.buckets
  BY <1>1 DEF Sort!Buckets
<1>3. start[at] + counts[at] \in Nat
  BY <1>1, <1>2
<1>4. start' \in [0 .. input.buckets -> Nat]
  BY <1>1, <1>3
<1>5. SortTyped'
  BY <1>1, <1>4 DEF GroupingInv, SortTyped, Sort!TypeOK
<1>6. start'[at + 1] = Cardinality(Below(input, at + 1))
  <2>1. counts[at] = Cardinality(Sort!RowsOf(input, at, All(input)))
    BY <1>1, <1>2 DEF GroupingInv, CountsInv
  <2>2. start[at] = Cardinality(Below(input, at))
    BY <1>1, <1>2 DEF GroupingInv, SumInv, SummedUpTo
  <2>3. start'[at + 1] = start[at] + counts[at]
    BY <1>1, <1>2
  <2> QED BY <1>1, <1>2, <2>1, <2>2, <2>3, BelowNext
<1>7. \A k \in 0 .. at : start'[k] = Cardinality(Below(input, k))
  <2> SUFFICES ASSUME NEW k \in 0 .. at
               PROVE  start'[k] = Cardinality(Below(input, k))
    OBVIOUS
  <2>1. k \in 0 .. input.buckets /\ k # at + 1
    BY <1>1
  <2>2. start'[k] = start[k]
    BY <1>1, <2>1
  <2> QED BY <1>1, <2>2 DEF GroupingInv, SumInv, SummedUpTo
<1>8. SumInv'
  <2>1. \A k \in 0 .. at + 1 : k \in 0 .. at \/ k = at + 1
    BY <1>1
  <2> QED BY <1>1, <1>6, <1>7, <2>1 DEF SumInv, SummedUpTo
<1> QED BY <1>1, <1>5, <1>8 DEF GroupingInv, CountInv, CountsInv, FillInv

\* Filling starts with every bucket empty.
LEMMA SummedStep ==
  ASSUME GroupingInv, Sort!Summed PROVE GroupingInv'
<1>1. /\ UNCHANGED <<input, counts, start, grouped>>
      /\ at = input.buckets /\ at' = 0
      /\ cursor' = start
      /\ sorting = "sum" /\ sorting' = "fill"
      /\ start \in [0 .. input.buckets -> Nat]
      /\ input \in Inputs /\ input.buckets \in Nat /\ All(input) \in Nat
      /\ SortTyped
  BY InputShape DEF Sort!Summed, GroupingInv, SortTyped, Sort!TypeOK
<1>2. SortTyped'
  BY <1>1 DEF SortTyped, Sort!TypeOK
<1>3. SummedUpTo(input.buckets)
  BY <1>1 DEF GroupingInv, SumInv
<1>4. SumInv'
  BY <1>1, <1>3 DEF SumInv, SummedUpTo
<1>5. FilledUpTo(0)'
  <2> SUFFICES ASSUME NEW b \in Sort!Buckets(input)
               PROVE
      /\ start[b] = start[b] + Cardinality(Sort!RowsOf(input, b, 0))
      /\ \A slot \in start[b] .. start[b] - 1 :
           grouped[slot] \in Sort!RowsOf(input, b, 0)
      /\ \A row \in Sort!RowsOf(input, b, 0) :
           \E slot \in start[b] .. start[b] - 1 : grouped[slot] = row
      /\ \A s1, s2 \in start[b] .. start[b] - 1 :
           s1 < s2 => grouped[s1] < grouped[s2]
      /\ \A slot \in start[b] .. start[b + 1] - 1 : grouped[slot] = NoIndex
    BY <1>1 DEF FilledUpTo
  <2>1. Sort!RowsOf(input, b, 0) = {}
    <3>1. \A row \in Sort!Placed(input) : row \in Nat
      BY <1>1, InputShape DEF Sort!Placed
    <3> QED BY <3>1 DEF Sort!RowsOf
  <2>2. /\ b \in 0 .. input.buckets /\ b + 1 \in 0 .. input.buckets
        /\ input.buckets \in 0 .. input.buckets
        /\ 0 \in 0 .. input.buckets
        /\ 0 =< b /\ b + 1 =< input.buckets
    BY <1>1 DEF Sort!Buckets
  <2>3. start[b] \in Nat /\ start[b + 1] \in Nat /\ start[b] =< start[b + 1]
        /\ start[b + 1] =< start[input.buckets] /\ start[0] =< start[b]
    BY <1>1, <1>3, <2>2, StartsTile
  <2>4. DOMAIN grouped = 0 .. start[input.buckets] - 1
        /\ start[input.buckets] \in Nat
    BY SortCounts, <1>1, <1>3, <2>2, StartsTile DEF SortTyped, Sort!TypeOK
  <2>5. \A slot \in start[b] .. start[b + 1] - 1 : grouped[slot] = NoIndex
    BY <1>1, <2>3, <2>4 DEF GroupingInv, FillInv
  <2>6. start[b] .. start[b] - 1 = {}
    BY <2>3
  <2>7. start[b] = start[b] + Cardinality(Sort!RowsOf(input, b, 0))
    BY <2>1, <2>3, FS_EmptySet
  <2> QED BY <2>1, <2>5, <2>6, <2>7
<1>6. FillInv'
  BY <1>1, <1>5 DEF FillInv
<1> QED BY <1>1, <1>2, <1>4, <1>6 DEF GroupingInv, CountInv, CountsInv

\* A row in no bucket leaves every bucket as it was.
LEMMA PassStep ==
  ASSUME GroupingInv, Sort!Pass PROVE GroupingInv'
<1>1. /\ UNCHANGED <<input, counts, start, cursor, grouped, sorting>>
      /\ at' = at + 1 /\ at \in Nat /\ at < All(input)
      /\ at \notin Sort!Placed(input)
      /\ input \in Inputs /\ All(input) \in Nat
      /\ sorting = "fill"
  BY InputShape DEF Sort!Pass, GroupingInv, SortTyped, Sort!TypeOK, All
<1>2. SortTyped'
  BY <1>1 DEF GroupingInv, SortTyped, Sort!TypeOK
<1>3. \A b \in Sort!Buckets(input) :
        Sort!RowsOf(input, b, at + 1) = Sort!RowsOf(input, b, at)
  BY <1>1, RowsOfNext
<1>4. FilledUpTo(at)
  BY <1>1 DEF GroupingInv, FillInv
<1>5. FilledUpTo(at + 1)
  BY <1>3, <1>4 DEF FilledUpTo
<1>6. FillInv'
  BY <1>1, <1>5 DEF FillInv, FilledUpTo, All
<1> QED BY <1>1, <1>2, <1>6 DEF GroupingInv, CountInv, CountsInv, SumInv,
                                SummedUpTo

\* There is room for the next row in its bucket, and nothing is there yet.
LEMMA Room ==
  ASSUME GroupingInv, sorting = "fill", at \in Sort!Placed(input)
  PROVE  /\ Sort!Owner \in Sort!Buckets(input)
         /\ cursor[Sort!Owner] \in Sort!Slots(Sort!Owner)
         /\ cursor[Sort!Owner] \in DOMAIN grouped
         /\ grouped[cursor[Sort!Owner]] = NoIndex
         /\ cursor[Sort!Owner] = start[Sort!Owner]
              + Cardinality(Sort!RowsOf(input, Sort!Owner, at))
<1>1. /\ SortTyped /\ input \in Inputs /\ input.buckets \in Nat
      /\ All(input) \in Nat /\ at \in Nat /\ at < All(input)
      /\ Sort!Owner \in Sort!Buckets(input)
      /\ start \in [0 .. input.buckets -> Nat]
  BY InputShape DEF GroupingInv, SortTyped, Sort!TypeOK, Sort!Placed, Sort!Owner
<1>2. SummedUpTo(input.buckets) /\ FilledUpTo(at)
  BY DEF GroupingInv, SumInv, FillInv
<1>3. Cardinality(Sort!RowsOf(input, Sort!Owner, at))
        < Cardinality(Sort!RowsOf(input, Sort!Owner, All(input)))
      /\ Cardinality(Sort!RowsOf(input, Sort!Owner, at)) \in Nat
      /\ Cardinality(Sort!RowsOf(input, Sort!Owner, All(input))) \in Nat
  <2>1. /\ Sort!RowsOf(input, Sort!Owner, All(input)) \in SUBSET Sort!Placed(input)
        /\ \A row \in Sort!Placed(input) : row \in Nat
    BY <1>1, InputShape DEF Sort!RowsOf, Sort!Placed
  <2>2. Sort!RowsOf(input, Sort!Owner, at) \in SUBSET Sort!RowsOf(input, Sort!Owner, All(input))
    <3>1. \A row \in Nat : row < at => row < All(input)
      BY <1>1
    <3> QED BY <2>1, <3>1 DEF Sort!RowsOf
  <2>3. at \in Sort!RowsOf(input, Sort!Owner, All(input))
        /\ at \notin Sort!RowsOf(input, Sort!Owner, at)
    BY <1>1 DEF Sort!RowsOf, Sort!Owner
  <2> QED BY <1>1, <2>1, <2>2, <2>3, SizeMonotone
<1>4. /\ Sort!Owner \in 0 .. input.buckets /\ Sort!Owner + 1 \in 0 .. input.buckets
      /\ input.buckets \in 0 .. input.buckets /\ Sort!Owner + 1 =< input.buckets
  BY <1>1 DEF Sort!Buckets
<1>5. /\ start[Sort!Owner + 1] =
           start[Sort!Owner] + Cardinality(Sort!RowsOf(input, Sort!Owner, All(input)))
      /\ start[Sort!Owner + 1] =< start[input.buckets]
      /\ start[input.buckets] = Cardinality(Sort!Placed(input))
      /\ start[Sort!Owner] \in Nat /\ start[input.buckets] \in Nat
  BY <1>1, <1>2, <1>4, StartsTile
<1>6. cursor[Sort!Owner] = start[Sort!Owner] + Cardinality(Sort!RowsOf(input, Sort!Owner, at))
  BY <1>1, <1>2 DEF FilledUpTo
<1>7. cursor[Sort!Owner] \in Sort!Slots(Sort!Owner)
  BY <1>3, <1>5, <1>6 DEF Sort!Slots
<1>8. cursor[Sort!Owner] \in DOMAIN grouped
  <2>1. DOMAIN grouped = 0 .. start[input.buckets] - 1
    BY SortCounts, <1>1, <1>5 DEF SortTyped, Sort!TypeOK
  <2> DEFINE a == start[Sort!Owner]
             c == Cardinality(Sort!RowsOf(input, Sort!Owner, at))
             d == Cardinality(Sort!RowsOf(input, Sort!Owner, All(input)))
             last == start[input.buckets]
  <2>2. /\ a \in Nat /\ c \in Nat /\ d \in Nat /\ last \in Nat
        /\ c < d /\ a + d =< last /\ cursor[Sort!Owner] = a + c
        /\ DOMAIN grouped = 0 .. last - 1
    BY <1>3, <1>5, <1>6, <2>1
  <2> HIDE DEF a, c, d, last
  <2> QED BY <2>2
<1>9. cursor[Sort!Owner] \in cursor[Sort!Owner] .. start[Sort!Owner + 1] - 1
  BY <1>3, <1>5, <1>6
<1>10. grouped[cursor[Sort!Owner]] = NoIndex
  BY <1>1, <1>2, <1>9 DEF FilledUpTo
<1> QED BY <1>1, <1>6, <1>7, <1>8, <1>10

\* A cursor stays between the ends of its bucket.
LEMMA CursorInBucket ==
  ASSUME GroupingInv, sorting = "fill", NEW b \in Sort!Buckets(input)
  PROVE  /\ start[b] \in Nat /\ cursor[b] \in Nat /\ start[b + 1] \in Nat
         /\ start[b] =< cursor[b] /\ cursor[b] =< start[b + 1]
<1>1. /\ SortTyped /\ input \in Inputs /\ input.buckets \in Nat
      /\ All(input) \in Nat /\ at \in Nat /\ at =< All(input)
      /\ start \in [0 .. input.buckets -> Nat]
      /\ cursor \in [0 .. input.buckets -> Nat]
      /\ SummedUpTo(input.buckets) /\ FilledUpTo(at)
  BY InputShape DEF GroupingInv, SortTyped, Sort!TypeOK, SumInv, FillInv
<1>2. b \in 0 .. input.buckets /\ b + 1 \in 0 .. input.buckets
  BY <1>1 DEF Sort!Buckets
<1>3. start[b] \in Nat /\ cursor[b] \in Nat /\ start[b + 1] \in Nat
  BY <1>1, <1>2
<1>4. /\ Cardinality(Sort!RowsOf(input, b, at))
           =< Cardinality(Sort!RowsOf(input, b, All(input)))
      /\ Cardinality(Sort!RowsOf(input, b, at)) \in Nat
      /\ Cardinality(Sort!RowsOf(input, b, All(input))) \in Nat
  <2>1. /\ Sort!RowsOf(input, b, All(input)) \in SUBSET Sort!Placed(input)
        /\ \A row \in Sort!Placed(input) : row \in Nat
    BY <1>1, InputShape DEF Sort!RowsOf, Sort!Placed
  <2>2. \A row \in Nat : row < at => row < All(input)
    BY <1>1
  <2>3. Sort!RowsOf(input, b, at) \in SUBSET Sort!RowsOf(input, b, All(input))
    BY <2>1, <2>2 DEF Sort!RowsOf
  <2> QED BY <1>1, <2>1, <2>3, SizeMonotone
<1>5. cursor[b] = start[b] + Cardinality(Sort!RowsOf(input, b, at))
  BY <1>1 DEF FilledUpTo
<1>6. start[b + 1] = start[b] + Cardinality(Sort!RowsOf(input, b, All(input)))
  BY <1>1, StartsTile
<1> QED BY <1>3, <1>4, <1>5, <1>6

\* Another bucket's slots are not the one the cursor of this bucket points to.
LEMMA BucketsApart ==
  ASSUME GroupingInv, sorting = "fill",
         NEW b \in Sort!Buckets(input), NEW c \in Sort!Buckets(input), b # c
  PROVE  \A s \in Sort!Slots(b), t \in Sort!Slots(c) : s # t
<1>1. /\ SortTyped /\ input.buckets \in Nat /\ SummedUpTo(input.buckets)
  BY InputShape DEF GroupingInv, SortTyped, SumInv
<1>2. /\ b \in 0 .. input.buckets /\ b + 1 \in 0 .. input.buckets
      /\ c \in 0 .. input.buckets /\ c + 1 \in 0 .. input.buckets
      /\ b \in Nat /\ c \in Nat
      /\ (b + 1 =< c \/ c + 1 =< b)
  BY <1>1 DEF Sort!Buckets
<1>3. start[b + 1] =< start[c] \/ start[c + 1] =< start[b]
  BY <1>1, <1>2, StartsTile
<1>4. /\ start[b] \in Nat /\ start[b + 1] \in Nat
      /\ start[c] \in Nat /\ start[c + 1] \in Nat
  BY <1>2 DEF GroupingInv, SortTyped, Sort!TypeOK
<1> QED BY <1>3, <1>4 DEF Sort!Slots

\* A row goes into its bucket after the rows that came before it.
LEMMA FillStep ==
  ASSUME GroupingInv, Sort!Fill PROVE GroupingInv'
<1>1. /\ UNCHANGED <<input, counts, start, sorting>>
      /\ at' = at + 1 /\ at \in Nat
      /\ at \in Sort!Placed(input)
      /\ input \in Inputs /\ All(input) \in Nat /\ at < All(input)
      /\ input.buckets \in Nat
      /\ sorting = "fill"
      /\ start \in [0 .. input.buckets -> Nat]
      /\ cursor \in [0 .. input.buckets -> Nat]
      /\ grouped \in [0 .. Cardinality(Sort!Placed(input)) - 1 -> Nat]
      /\ cursor' = [cursor EXCEPT ![Sort!Owner] = cursor[Sort!Owner] + 1]
      /\ grouped' = [grouped EXCEPT ![cursor[Sort!Owner]] = at]
  BY SortCounts, InputShape DEF Sort!Fill, GroupingInv, SortTyped, Sort!TypeOK, Sort!Placed
<1>2. /\ Sort!Owner \in Sort!Buckets(input)
      /\ cursor[Sort!Owner] \in Sort!Slots(Sort!Owner)
      /\ cursor[Sort!Owner] \in DOMAIN grouped
  BY <1>1, Room
<1>3. \A b \in Sort!Buckets(input) :
        /\ b \in 0 .. input.buckets /\ b + 1 \in 0 .. input.buckets
        /\ start[b] \in Nat /\ start[b + 1] \in Nat /\ cursor[b] \in Nat
  <2>1. \A b \in Sort!Buckets(input) :
          b \in 0 .. input.buckets /\ b + 1 \in 0 .. input.buckets
    BY <1>1 DEF Sort!Buckets
  <2> QED BY <1>1, <2>1
<1>4. SortTyped'
  <2>1. cursor' \in [0 .. input.buckets -> Nat]
    BY <1>1, <1>2, <1>3
  <2>2. grouped' \in [0 .. Cardinality(Sort!Placed(input)) - 1 -> Nat]
    BY <1>1
  <2> QED BY SortCounts, <1>1, <2>1, <2>2 DEF GroupingInv, SortTyped, Sort!TypeOK
<1>5. SummedUpTo(input.buckets) /\ FilledUpTo(at)
  BY <1>1 DEF GroupingInv, SumInv, FillInv
<1>6. \A slot \in DOMAIN grouped :
        grouped'[slot] = IF slot = cursor[Sort!Owner] THEN at ELSE grouped[slot]
  BY <1>1
<1>7. \A b \in Sort!Buckets(input) : Sort!Slots(b) \subseteq DOMAIN grouped
  <2> SUFFICES ASSUME NEW b \in Sort!Buckets(input)
               PROVE  Sort!Slots(b) \subseteq DOMAIN grouped
    OBVIOUS
  <2>1. /\ b \in 0 .. input.buckets /\ b + 1 \in 0 .. input.buckets
        /\ input.buckets \in 0 .. input.buckets /\ b + 1 =< input.buckets
    BY <1>1 DEF Sort!Buckets
  <2>2. /\ start[b + 1] =< start[input.buckets]
        /\ start[b] \in Nat /\ start[b + 1] \in Nat
        /\ start[input.buckets] \in Nat
        /\ start[input.buckets] = Cardinality(Sort!Placed(input))
    BY <1>1, <1>5, <2>1, StartsTile DEF GroupingInv
  <2>3. DOMAIN grouped = 0 .. start[input.buckets] - 1
    BY <1>1, <2>2
  <2> QED BY <2>2, <2>3 DEF Sort!Slots
<1>8. FilledUpTo(at)'
  <2> SUFFICES ASSUME NEW b \in Sort!Buckets(input)
               PROVE
      /\ cursor'[b] = start[b] + Cardinality(Sort!RowsOf(input, b, at + 1))
      /\ \A slot \in start[b] .. cursor'[b] - 1 :
           grouped'[slot] \in Sort!RowsOf(input, b, at + 1)
      /\ \A row \in Sort!RowsOf(input, b, at + 1) :
           \E slot \in start[b] .. cursor'[b] - 1 : grouped'[slot] = row
      /\ \A s1, s2 \in start[b] .. cursor'[b] - 1 :
           s1 < s2 => grouped'[s1] < grouped'[s2]
      /\ \A slot \in cursor'[b] .. start[b + 1] - 1 :
           grouped'[slot] = NoIndex
    BY <1>1 DEF FilledUpTo
  <2>1. /\ start[b] \in Nat /\ cursor[b] \in Nat /\ start[b + 1] \in Nat
        /\ start[b] =< cursor[b] /\ cursor[b] =< start[b + 1]
    BY <1>1, CursorInBucket
  <2>2. /\ cursor[b] = start[b] + Cardinality(Sort!RowsOf(input, b, at))
        /\ \A slot \in start[b] .. cursor[b] - 1 :
             grouped[slot] \in Sort!RowsOf(input, b, at)
        /\ \A row \in Sort!RowsOf(input, b, at) :
             \E slot \in start[b] .. cursor[b] - 1 : grouped[slot] = row
        /\ \A s1, s2 \in start[b] .. cursor[b] - 1 :
             s1 < s2 => grouped[s1] < grouped[s2]
        /\ \A slot \in cursor[b] .. start[b + 1] - 1 : grouped[slot] = NoIndex
    BY <1>5 DEF FilledUpTo
  <2>3. /\ Cardinality(Sort!RowsOf(input, b, at)) \in Nat
        /\ Cardinality(Sort!RowsOf(input, b, at + 1)) =
             IF at \in Sort!Placed(input) /\ Sort!At(input.owners, at) = b
             THEN Cardinality(Sort!RowsOf(input, b, at)) + 1
             ELSE Cardinality(Sort!RowsOf(input, b, at))
    BY <1>1, CountNext
  <2>4. \A slot \in Sort!Slots(b) :
          grouped'[slot] = IF slot = cursor[Sort!Owner] THEN at ELSE grouped[slot]
    BY <1>6, <1>7
  <2>5. CASE b # Sort!Owner
    <3>1. \A slot \in Sort!Slots(b) : grouped'[slot] = grouped[slot]
      BY <1>1, <1>2, <2>4, <2>5, BucketsApart
    <3>2. cursor'[b] = cursor[b]
      BY <1>1, <1>3, <2>5
    <3>3. Sort!RowsOf(input, b, at + 1) = Sort!RowsOf(input, b, at)
      BY <1>1, <2>5, RowsOfNext DEF Sort!Owner
    <3>4. \A slot : \/ slot \in start[b] .. cursor[b] - 1
                    \/ slot \in cursor[b] .. start[b + 1] - 1
                    => slot \in Sort!Slots(b)
      BY <2>1 DEF Sort!Slots
    <3> QED BY <2>2, <3>1, <3>2, <3>3, <3>4
  <2>6. CASE b = Sort!Owner
    <3> DEFINE n == cursor[b]
    <3>1. cursor'[b] = n + 1 /\ n \in Sort!Slots(b) /\ n \in Nat
      BY <1>1, <1>2, <1>3, <2>1, <2>6
    <3>2. \A slot \in Sort!Slots(b) :
            grouped'[slot] = IF slot = n THEN at ELSE grouped[slot]
      BY <2>4, <2>6
    <3>3. Sort!RowsOf(input, b, at + 1) = Sort!RowsOf(input, b, at) \cup {at}
      BY <1>1, <2>6, RowsOfNext DEF Sort!Owner
    <3>4. \A row \in Sort!RowsOf(input, b, at) : row < at
      BY DEF Sort!RowsOf
    <3>5. cursor'[b] = start[b] + Cardinality(Sort!RowsOf(input, b, at + 1))
      <4>1. Cardinality(Sort!RowsOf(input, b, at + 1)) =
              Cardinality(Sort!RowsOf(input, b, at)) + 1
        BY <1>1, <2>3, <2>6 DEF Sort!Owner
      <4>2. n = start[b] + Cardinality(Sort!RowsOf(input, b, at))
        BY <2>2
      <4> HIDE DEF n
      <4> QED BY <2>1, <2>3, <3>1, <4>1, <4>2
    <3>6. /\ n \in start[b] .. n
          /\ \A slot \in start[b] .. n :
               slot \in Sort!Slots(b) /\ (slot = n \/ slot \in start[b] .. n - 1)
          /\ \A slot \in start[b] .. n - 1 : slot \in start[b] .. n /\ slot # n
          /\ \A slot \in n + 1 .. start[b + 1] - 1 :
               /\ slot \in Sort!Slots(b) /\ slot # n
               /\ slot \in n .. start[b + 1] - 1
          /\ n + 1 - 1 = n
      BY <2>1, <3>1 DEF Sort!Slots
    <3> HIDE DEF n
    <3>7. \A slot \in start[b] .. n :
            grouped'[slot] \in Sort!RowsOf(input, b, at + 1)
      BY <2>2, <3>2, <3>3, <3>6 DEF n
    <3>8. \A row \in Sort!RowsOf(input, b, at + 1) :
            \E slot \in start[b] .. n : grouped'[slot] = row
      BY <2>2, <3>2, <3>3, <3>6 DEF n
    <3>9. \A s1, s2 \in start[b] .. n : s1 < s2 => grouped'[s1] < grouped'[s2]
      <4> SUFFICES ASSUME NEW s1 \in start[b] .. n, NEW s2 \in start[b] .. n,
                          s1 < s2
                   PROVE  grouped'[s1] < grouped'[s2]
        OBVIOUS
      <4>1. s1 \in start[b] .. n - 1 /\ s1 # n
        BY <2>1, <3>1, <3>6
      <4>2. grouped'[s1] = grouped[s1] /\ grouped[s1] \in Sort!RowsOf(input, b, at)
        BY <2>2, <3>2, <3>6, <4>1 DEF n
      <4>3. CASE s2 = n
        BY <3>2, <3>4, <3>6, <4>2, <4>3
      <4>4. CASE s2 \in start[b] .. n - 1
        BY <2>2, <3>2, <3>6, <4>1, <4>2, <4>4 DEF n
      <4> QED BY <3>6, <4>3, <4>4
    <3>10. \A slot \in n + 1 .. start[b + 1] - 1 : grouped'[slot] = NoIndex
      BY <2>2, <3>2, <3>6 DEF n
    <3> QED BY <3>1, <3>5, <3>6, <3>7, <3>8, <3>9, <3>10
  <2> QED BY <2>5, <2>6
<1>9. FillInv'
  BY <1>1, <1>8 DEF FillInv, All
<1> QED BY <1>1, <1>4, <1>9 DEF GroupingInv, CountInv, CountsInv, SumInv,
                                SummedUpTo

LEMMA GroupingStep ==
  ASSUME GroupingInv, [Sort!Next]_(Sort!vars) PROVE GroupingInv'
<1>1. CASE Sort!Filled
  <2>1. /\ UNCHANGED <<input, counts, start, cursor, grouped, at>>
        /\ at = All(input) /\ sorting = "fill" /\ sorting' = "done"
    BY <1>1 DEF Sort!Filled, All
  <2>2. SortTyped'
    BY <2>1 DEF GroupingInv, SortTyped, Sort!TypeOK
  <2>3. FilledUpTo(All(input))
    BY <2>1 DEF GroupingInv, FillInv
  <2> QED BY <2>1, <2>2, <2>3
          DEF GroupingInv, CountInv, CountsInv, SumInv, SummedUpTo, FillInv,
              FilledUpTo, All
<1>2. CASE Sort!Returned \/ UNCHANGED Sort!vars
  <2>1. UNCHANGED <<input, counts, start, cursor, grouped, at, sorting>>
    BY <1>2 DEF Sort!Returned, Sort!vars
  <2>2. SortTyped'
    BY <2>1 DEF GroupingInv, SortTyped, Sort!TypeOK
  <2>3. CountInv' /\ CountsInv' /\ SumInv'
    BY <2>1 DEF GroupingInv, CountInv, CountsInv, SumInv, SummedUpTo
  <2>4. FillInv'
    <3>1. FilledUpTo(at) => FilledUpTo(at)'
      BY <2>1 DEF FilledUpTo
    <3>2. FilledUpTo(All(input)) => FilledUpTo(All(input))'
      BY <2>1 DEF FilledUpTo
    <3> QED BY <2>1, <3>1, <3>2 DEF GroupingInv, FillInv
  <2> QED BY <2>2, <2>3, <2>4 DEF GroupingInv
<1> QED BY <1>1, <1>2, CountStep, CountedStep, SumStep, SummedStep, PassStep,
           FillStep DEF Sort!Next

(***************************************************************************)
(* The types of the sort, for any number of rows and buckets.              *)
(***************************************************************************)
THEOREM SortTypeCorrect == Sort!Spec => []Sort!TypeOK
<1>1. GroupingInv => Sort!TypeOK
  BY DEF GroupingInv, SortTyped
<1> QED BY <1>1, GroupingInit, GroupingStep, PTL DEF Sort!Spec

(***************************************************************************)
(* No row is ever written outside its bucket or outside the table.         *)
(***************************************************************************)
THEOREM NeverOutOfBounds == Sort!Spec => []Sort!WritesInsideBucket
<1>1. GroupingInv => Sort!WritesInsideBucket
  BY Room DEF Sort!WritesInsideBucket
<1> QED BY <1>1, GroupingInit, GroupingStep, PTL DEF Sort!Spec

(***************************************************************************)
(* No row overwrites another.                                              *)
(***************************************************************************)
THEOREM NothingOverwritten == Sort!Spec => Sort!SlotsWrittenOnce
<1>1. ASSUME GroupingInv, [Sort!Next]_(Sort!vars)
      PROVE  \A slot \in DOMAIN grouped :
               grouped'[slot] # grouped[slot] => grouped[slot] = NoIndex
  <2>1. CASE Sort!Fill
    <3>1. /\ grouped[cursor[Sort!Owner]] = NoIndex
          /\ grouped' = [grouped EXCEPT ![cursor[Sort!Owner]] = at]
          /\ grouped \in [DOMAIN grouped -> Nat]
      BY <1>1, <2>1, Room DEF Sort!Fill, GroupingInv, SortTyped, Sort!TypeOK
    <3> QED BY <3>1
  <2>2. CASE UNCHANGED grouped
    BY <2>2
  <2> QED BY <1>1, <2>1, <2>2
          DEF Sort!Next, Sort!Count, Sort!Counted, Sort!Sum, Sort!Summed, Sort!Pass,
              Sort!Filled, Sort!Returned, Sort!vars
<1>2. GroupingInv /\ [Sort!Next]_(Sort!vars) =>
        [\A slot \in DOMAIN grouped :
           grouped'[slot] # grouped[slot] => grouped[slot] = NoIndex]_(Sort!vars)
  BY <1>1
<1> QED BY <1>2, GroupingInit, GroupingStep, PTL DEF Sort!Spec, Sort!SlotsWrittenOnce

\* A bucket that has been given all of its rows is full.
LEMMA FullBucket ==
  ASSUME GroupingInv, sorting = "done", NEW b \in Sort!Buckets(input)
  PROVE  /\ { grouped[slot] : slot \in Sort!Slots(b) }
              = Sort!RowsOf(input, b, Len(input.owners))
         /\ \A s1, s2 \in Sort!Slots(b) : s1 < s2 => grouped[s1] < grouped[s2]
<1>1. SortTyped /\ SummedUpTo(input.buckets) /\ FilledUpTo(All(input))
  BY DEF GroupingInv, SumInv, FillInv
<1>2. cursor[b] = start[b + 1]
  BY <1>1, StartsTile DEF FilledUpTo
<1>3. Sort!Slots(b) = start[b] .. cursor[b] - 1
  BY <1>2 DEF Sort!Slots
<1> QED BY <1>1, <1>3 DEF FilledUpTo, All

\* A set of natural numbers has a least one.
LEMMA LeastNatural ==
  ASSUME NEW S \in SUBSET Nat, S # {}
  PROVE  \E m \in S : \A k \in S : m =< k
<1> DEFINE R == OpToRel(<, Nat)
<1>1. IsWellFoundedOn(R, Nat)
  BY NatLessThanWellFounded
<1> HIDE DEF R
<1>2. PICK m \in S : \A k \in S : ~ (<<k, m>> \in R)
  BY <1>1, WFMin
<1>3. ASSUME NEW k \in S PROVE m =< k
  <2>1. m \in Nat /\ k \in Nat
    OBVIOUS
  <2>2. k < m => <<k, m>> \in R
    BY <2>1 DEF R, OpToRel
  <2> QED BY <1>2, <2>1, <2>2
<1> QED BY <1>3

\* Every slot is some bucket's.
LEMMA SlotIsOwned ==
  ASSUME SortTyped, SummedUpTo(input.buckets),
         NEW slot \in 0 .. start[input.buckets] - 1
  PROVE  \E b \in Sort!Buckets(input) : slot \in Sort!Slots(b)
<1> DEFINE n == input.buckets
           ends == { k \in 0 .. n : slot < start[k] }
<1>1. n \in Nat /\ start \in [0 .. n -> Nat] /\ start[0] = 0
  BY InputShape, StartsTile DEF SortTyped, Sort!TypeOK
<1>2. ends \in SUBSET Nat /\ n \in ends
  BY <1>1
<1> HIDE DEF n
<1>3. PICK k \in ends : \A l \in ends : k =< l
  BY <1>2, LeastNatural
<1>4. k # 0 /\ k - 1 \in 0 .. n - 1 /\ k - 1 \in 0 .. n /\ k - 1 \notin ends
  BY <1>1, <1>3
<1>5. start[k - 1] \in Nat /\ start[k - 1] =< slot /\ slot < start[k] /\ start[k] \in Nat
  BY <1>1, <1>3, <1>4
<1>6. slot \in start[k - 1] .. start[(k - 1) + 1] - 1
  <2>1. (k - 1) + 1 = k
    BY <1>3
  <2> QED BY <1>1, <1>5, <2>1
<1> QED BY <1>4, <1>6 DEF n, Sort!Buckets, Sort!Slots

\* What the sort returns: the buckets tile the table and each holds its rows.
LEMMA Grouped ==
  ASSUME GroupingInv, sorting = "done"
  PROVE  /\ start \in [0 .. input.buckets -> Nat]
         /\ grouped \in [0 .. start[input.buckets] - 1 -> Nat]
         /\ \A a, b \in 0 .. input.buckets : a =< b => start[a] =< start[b]
         /\ \A slot \in DOMAIN grouped : \E b \in Sort!Buckets(input) : slot \in Sort!Slots(b)
         /\ \A b \in Sort!Buckets(input) :
              /\ { grouped[slot] : slot \in Sort!Slots(b) }
                   = Sort!RowsOf(input, b, Len(input.owners))
              /\ \A s1, s2 \in Sort!Slots(b) : s1 < s2 => grouped[s1] < grouped[s2]
<1>1. SortTyped /\ SummedUpTo(input.buckets)
  BY DEF GroupingInv, SumInv
<1>2. start[input.buckets] = Cardinality(Sort!Placed(input)) /\ input.buckets \in Nat
  BY <1>1, StartsTile, InputShape DEF SortTyped
<1>3. /\ start \in [0 .. input.buckets -> Nat]
      /\ grouped \in [0 .. start[input.buckets] - 1 -> Nat]
  BY SortCounts, <1>1, <1>2 DEF SortTyped, Sort!TypeOK
<1>4. \A a, b \in 0 .. input.buckets : a =< b => start[a] =< start[b]
  BY <1>1, StartsTile
<1>5. \A slot \in DOMAIN grouped : \E b \in Sort!Buckets(input) : slot \in Sort!Slots(b)
  BY <1>1, <1>3, SlotIsOwned
<1> QED BY <1>3, <1>4, <1>5, FullBucket

LEMMA Stable ==
  ASSUME GroupingInv PROVE Sort!StableGroups
<1>1. ASSUME sorting = "done"
      PROVE  start[0] = 0 /\ start[input.buckets] = Cardinality(Sort!Placed(input))
  BY <1>1, StartsTile DEF GroupingInv, SumInv
<1> QED BY SortCounts, <1>1, FullBucket DEF Sort!StableGroups

(***************************************************************************)
(* The rows come out grouped by owner, in the order they had.              *)
(***************************************************************************)
THEOREM GroupsAreStable == Sort!Spec => []Sort!StableGroups
BY Stable, GroupingInit, GroupingStep, PTL DEF Sort!Spec

-----------------------------------------------------------------------------
(* The whole of it.  The sort takes the steps Grouping takes, and leaves   *)
(* what Grouping promises when it is done; so the graph is well formed and *)
(* its questions are those Reach answers.                                  *)

\* The questions before there is a graph to ask them of.
Unasked ==
  /\ program = NoProgram
  /\ owner = {}
  /\ stamp = [f \in FunctionIds(program) |-> 0]
  /\ generation = 0
  /\ pending = << >>
  /\ edge = 0 /\ edge_end = 0
  /\ pc = "idle"

\* What is sorted is the calls, and what is asked is the sorted calls.
Handed ==
  /\ calls \in CallTables
  /\ input = CallRows(calls)
  /\ ~ built => Unasked
  /\ built => sorting = "done" /\ program = Graph

WholeInv == GroupingInv /\ StackInv /\ Handed

\* The rows of a call table are its calls.
LEMMA CallRowsShape ==
  ASSUME NEW t \in CallTables
  PROVE  /\ t.functions \in Nat
         /\ t.caller \in Seq(Nat) /\ t.callee \in Seq(Nat) /\ t.deinit \in Seq(Nat)
         /\ CallRows(t).buckets = t.functions
         /\ Len(CallRows(t).owners) = Len(t.caller)
         /\ \A row \in Rows(t.caller) :
              At(CallRows(t).owners, row)
                = IF Has(t.callee, row) THEN At(t.caller, row) ELSE Nobody(t)
<1>1. /\ t.functions \in Nat
      /\ t.caller \in Seq(Nat) /\ t.callee \in Seq(Nat) /\ t.deinit \in Seq(Nat)
  BY CallTablesAssumption DEF CallTableType
<1> DEFINE n == Len(t.caller)
           owned(i) == IF Has(t.callee, i - 1) THEN t.caller[i] ELSE Nobody(t)
           owners == [i \in 1 .. n |-> owned(i)]
<1>2. n \in Nat /\ DOMAIN t.caller = 1 .. n
  BY <1>1
<1>3. CallRows(t) = [buckets |-> t.functions, owners |-> owners]
  BY <1>2 DEF CallRows
<1>4. \A i \in 1 .. n : owned(i) \in Nat
  BY <1>1 DEF Nobody
<1>5. owners \in Seq(Nat) /\ Len(owners) = n
  <2> HIDE DEF owned, n
  <2> QED BY <1>2, <1>4
<1>6. \A row \in Rows(t.caller) :
        owners[row + 1] = IF Has(t.callee, row) THEN At(t.caller, row) ELSE Nobody(t)
  <2> SUFFICES ASSUME NEW row \in Rows(t.caller)
               PROVE  owners[row + 1]
                        = IF Has(t.callee, row) THEN At(t.caller, row) ELSE Nobody(t)
    OBVIOUS
  <2>1. row \in Nat /\ row + 1 \in 1 .. n /\ (row + 1) - 1 = row
    BY <1>2 DEF Rows
  <2>2. owners[row + 1] = owned(row + 1)
    <3> HIDE DEF owned, n
    <3> QED BY <2>1
  <2> QED BY <2>1, <2>2 DEF At
<1> HIDE DEF owned, owners
<1>7. \A row \in Rows(t.caller) : At(CallRows(t).owners, row) = owners[row + 1]
  BY <1>3 DEF At
<1>8. CallRows(t).owners = owners /\ CallRows(t).buckets = t.functions
  BY <1>3
<1> QED BY <1>1, <1>5, <1>6, <1>7, <1>8

\* What comes out of the sort, said of the calls.
LEMMA SortedCalls ==
  ASSUME GroupingInv, Handed, sorting = "done"
  PROVE  /\ calls.functions \in Nat
         /\ start \in [0 .. calls.functions -> Nat]
         /\ grouped \in [0 .. start[calls.functions] - 1 -> Nat]
         /\ Cardinality(DOMAIN grouped) = start[calls.functions]
         /\ \A a, b \in 0 .. calls.functions : a =< b => start[a] =< start[b]
         /\ \A slot \in DOMAIN grouped :
              \E f \in 0 .. calls.functions - 1 : slot \in start[f] .. start[f + 1] - 1
         /\ \A f \in 0 .. calls.functions - 1 :
              /\ { grouped[slot] : slot \in start[f] .. start[f + 1] - 1 } = CallsOf(f)
              /\ \A s1, s2 \in start[f] .. start[f + 1] - 1 :
                   s1 < s2 => grouped[s1] < grouped[s2]
<1>1. calls \in CallTables /\ input = CallRows(calls)
  BY DEF Handed
<1>2. /\ input.buckets = calls.functions /\ calls.functions \in Nat
      /\ Len(input.owners) = Len(calls.caller) /\ Len(calls.caller) \in Nat
  BY <1>1, CallRowsShape
<1>3. \A f \in 0 .. calls.functions - 1 :
        Sort!RowsOf(input, f, Len(input.owners)) = CallsOf(f)
  <2> SUFFICES ASSUME NEW f \in 0 .. calls.functions - 1
               PROVE  Sort!RowsOf(input, f, Len(input.owners)) = CallsOf(f)
    OBVIOUS
  <2>1. Rows(input.owners) = Rows(calls.caller)
    BY <1>2 DEF Rows
  <2>2. \A row \in Rows(calls.caller) : row < Len(input.owners)
    BY <1>2 DEF Rows
  <2>3. f \in 0 .. input.buckets - 1 /\ f # Nobody(calls)
    BY <1>2 DEF Nobody
  <2>4. \A row \in Rows(calls.caller) :
          At(input.owners, row) = f
            <=> At(calls.caller, row) = f /\ Has(calls.callee, row)
    BY <1>1, <2>3, CallRowsShape
  <2> QED BY <2>1, <2>2, <2>3, <2>4
          DEF Sort!RowsOf, Sort!Placed, Sort!Buckets,
              Sort!Rows, Sort!At, Rows, At, CallsOf
<1>4. /\ start \in [0 .. input.buckets -> Nat]
      /\ grouped \in [0 .. start[input.buckets] - 1 -> Nat]
      /\ \A a, b \in 0 .. input.buckets : a =< b => start[a] =< start[b]
  BY Grouped
<1>5. \A slot \in DOMAIN grouped :
        \E b \in 0 .. input.buckets - 1 : slot \in start[b] .. start[b + 1] - 1
  BY Grouped DEF Sort!Slots, Sort!Buckets
<1>6. \A b \in 0 .. input.buckets - 1 :
        /\ { grouped[slot] : slot \in start[b] .. start[b + 1] - 1 }
             = Sort!RowsOf(input, b, Len(input.owners))
        /\ \A s1, s2 \in start[b] .. start[b + 1] - 1 :
             s1 < s2 => grouped[s1] < grouped[s2]
  BY Grouped DEF Sort!Slots, Sort!Buckets
<1>7. Cardinality(DOMAIN grouped) = start[calls.functions]
  <2> DEFINE m == start[calls.functions]
  <2>1. m \in Nat /\ DOMAIN grouped = 0 .. m - 1
    BY <1>2, <1>4
  <2> HIDE DEF m
  <2>2. Cardinality(0 .. m - 1) = m
    BY <2>1, FS_Interval
  <2> QED BY <2>1, <2>2 DEF m
<1> QED BY <1>2, <1>3, <1>4, <1>5, <1>6, <1>7

\* The graph that is laid out in that order.
LEMMA GraphShape ==
  ASSUME GroupingInv, Handed, sorting = "done"
  PROVE  /\ Graph \in ProgramType
         /\ Len(Graph.edge_start) = calls.functions + 1
         /\ Len(Graph.edge_target) = start[calls.functions]
         /\ FunctionIds(Graph) = 0 .. calls.functions - 1
         /\ \A f \in 0 .. calls.functions : At(Graph.edge_start, f) = start[f]
         /\ \A e \in 0 .. start[calls.functions] - 1 :
              At(Graph.edge_target, e) = At(calls.callee, grouped[e])
<1> DEFINE n == calls.functions
           m == start[n]
           starts == [i \in 1 .. n + 1 |-> start[i - 1]]
           target(i) == At(calls.callee, grouped[i - 1])
           targets == [i \in 1 .. m |-> target(i)]
<1>1. /\ n \in Nat /\ m \in Nat
      /\ start \in [0 .. n -> Nat]
      /\ grouped \in [0 .. m - 1 -> Nat]
  BY SortedCalls
<1>2. /\ calls.callee \in Seq(Nat) /\ calls.deinit \in Seq(Nat)
  BY CallRowsShape DEF Handed
<1>3. Cardinality(DOMAIN grouped) = m
  BY SortedCalls
<1>4. Graph = [edge_start |-> starts, edge_target |-> targets, deinit |-> calls.deinit]
  <2> HIDE DEF m
  <2> QED BY <1>3 DEF Graph
<1>5. starts \in Seq(Nat) /\ Len(starts) = n + 1
  <2> HIDE DEF n
  <2>1. \A i \in 1 .. n + 1 : start[i - 1] \in Nat
    BY <1>1
  <2> QED BY <1>1, <2>1
<1>6. \A e \in 0 .. m - 1 : Has(calls.callee, grouped[e]) /\ grouped[e] \in Nat
  <2> SUFFICES ASSUME NEW e \in 0 .. m - 1
               PROVE  Has(calls.callee, grouped[e]) /\ grouped[e] \in Nat
    OBVIOUS
  <2>1. PICK f \in 0 .. n - 1 : e \in start[f] .. start[f + 1] - 1
    BY <1>1, SortedCalls
  <2>2. grouped[e] \in CallsOf(f)
    BY <2>1, SortedCalls
  <2> QED BY <1>1, <2>2 DEF CallsOf
<1>7. \A i \in 1 .. m : target(i) \in Nat
  <2> SUFFICES ASSUME NEW i \in 1 .. m PROVE target(i) \in Nat
    OBVIOUS
  <2>1. i - 1 \in 0 .. m - 1
    BY <1>1
  <2>2. grouped[i - 1] \in Nat /\ grouped[i - 1] < Len(calls.callee)
    BY <2>1, <1>6 DEF Has
  <2> QED BY <1>2, <2>2 DEF At
<1>8. targets \in Seq(Nat) /\ Len(targets) = m
  <2> HIDE DEF target, m
  <2> QED BY <1>1, <1>7
<1>9. Graph \in ProgramType
  BY <1>2, <1>4, <1>5, <1>8 DEF ProgramType
<1>10. FunctionIds(Graph) = 0 .. n - 1
  BY <1>1, <1>4, <1>5 DEF FunctionIds
<1>11. \A f \in 0 .. n : At(Graph.edge_start, f) = start[f]
  BY <1>1, <1>4 DEF At
<1>12. \A e \in 0 .. m - 1 : At(Graph.edge_target, e) = At(calls.callee, grouped[e])
  <2> SUFFICES ASSUME NEW e \in 0 .. m - 1
               PROVE  targets[e + 1] = At(calls.callee, grouped[e])
    BY <1>4 DEF At
  <2>1. e + 1 \in 1 .. m /\ (e + 1) - 1 = e
    BY <1>1
  <2> QED BY <2>1
<1> QED BY <1>4, <1>5, <1>8, <1>9, <1>10, <1>11, <1>12

\* It is a graph one can ask, and its edges are the calls.
LEMMA GraphIsWellFormed ==
  ASSUME GroupingInv, Handed, sorting = "done"
  PROVE  WellFormed(Graph)
<1> DEFINE n == calls.functions
           m == start[n]
<1>1. /\ n \in Nat /\ start \in [0 .. n -> Nat]
      /\ \A a, b \in 0 .. n : a =< b => start[a] =< start[b]
  BY SortedCalls
<1>2. /\ Graph \in ProgramType
      /\ Len(Graph.edge_start) = n + 1 /\ Len(Graph.edge_target) = m
      /\ FunctionIds(Graph) = 0 .. n - 1
      /\ \A f \in 0 .. n : At(Graph.edge_start, f) = start[f]
  BY GraphShape
<1>3. \A f \in FunctionIds(Graph) : Callees(Graph, f) \subseteq Rows(Graph.edge_target)
  <2> SUFFICES ASSUME NEW f \in 0 .. n - 1
               PROVE  Callees(Graph, f) \subseteq Rows(Graph.edge_target)
    BY <1>2
  <2>1. f \in 0 .. n /\ f + 1 \in 0 .. n /\ n \in 0 .. n /\ f + 1 =< n
    BY <1>1
  <2>2. /\ start[f] \in Nat /\ start[f + 1] \in Nat /\ m \in Nat
        /\ start[f + 1] =< m
    BY <1>1, <2>1
  <2> HIDE DEF m
  <2>3. Callees(Graph, f) = start[f] .. start[f + 1] - 1
    BY <1>2, <2>1 DEF Callees
  <2>4. Rows(Graph.edge_target) = 0 .. m - 1
    BY <1>2 DEF Rows
  <2> QED BY <2>2, <2>3, <2>4
<1> QED BY <1>1, <1>2, <1>3 DEF WellFormed

LEMMA GraphHasTheCalls ==
  ASSUME GroupingInv, Handed, sorting = "done", program = Graph
  PROVE  /\ FunctionIds(program) = 0 .. calls.functions - 1
         /\ \A f \in FunctionIds(program) : EdgesAreCalls(f)
<1> DEFINE n == calls.functions
<1>1. FunctionIds(program) = 0 .. n - 1
  BY GraphShape
<1>2. SUFFICES ASSUME NEW f \in 0 .. n - 1 PROVE EdgesAreCalls(f)
  BY <1>1
<1> DEFINE call == [e \in Callees(program, f) |-> grouped[e]]
<1>3. /\ n \in Nat /\ start \in [0 .. n -> Nat]
      /\ \A a, b \in 0 .. n : a =< b => start[a] =< start[b]
  BY SortedCalls
<1>4. f \in 0 .. n /\ f + 1 \in 0 .. n /\ n \in 0 .. n /\ f + 1 =< n
  BY <1>3
<1>5. Callees(program, f) = start[f] .. start[f + 1] - 1
  BY <1>4, GraphShape DEF Callees
<1>6. /\ { grouped[slot] : slot \in start[f] .. start[f + 1] - 1 } = CallsOf(f)
      /\ \A s1, s2 \in start[f] .. start[f + 1] - 1 :
           s1 < s2 => grouped[s1] < grouped[s2]
  BY SortedCalls
<1>7. \A e \in Callees(program, f) :
        At(program.edge_target, e) = At(calls.callee, grouped[e])
  <2>1. start[f] \in Nat /\ start[f + 1] \in Nat /\ start[n] \in Nat
        /\ start[f + 1] =< start[n]
    BY <1>3, <1>4
  <2>2. \A e \in Callees(program, f) : e \in 0 .. start[n] - 1
    BY <1>5, <2>1
  <2> QED BY <2>2, GraphShape
<1>8. call \in [Callees(program, f) -> CallsOf(f)]
  BY <1>5, <1>6
<1>9. \A row \in CallsOf(f) : \E e \in DOMAIN call : call[e] = row
  BY <1>5, <1>6
<1>10. \A e1, e2 \in DOMAIN call : e1 < e2 => call[e1] < call[e2]
  BY <1>5, <1>6
<1>11. \A e \in DOMAIN call : At(program.edge_target, e) = At(calls.callee, call[e])
  BY <1>7
<1> HIDE DEF call
<1> QED BY <1>8, <1>9, <1>10, <1>11 DEF EdgesAreCalls

-----------------------------------------------------------------------------
(* The steps of the whole.                                                 *)

LEMMA WholeInit ==
  ASSUME StartClosure PROVE WholeInv
<1>1. Sort!Init
  BY DEF StartClosure
<1>2. GroupingInv
  BY <1>1, GroupingInit
<1>3. StackInv
  <2>1. Init /\ pending = << >>
    BY DEF StartClosure, Init
  <2> QED BY <2>1, ClosureInit DEF StackInv
<1>4. Handed
  BY DEF StartClosure, Init, Handed, Unasked
<1> QED BY <1>2, <1>3, <1>4 DEF WholeInv

\* The sort's steps are Grouping's, and a sort that is done stays as it is.
LEMMA SortCallsStep ==
  ASSUME WholeInv, SortCalls PROVE WholeInv'
<1>1. Sort!Next /\ UNCHANGED <<vars, calls, built>>
  BY DEF SortCalls
<1>3. GroupingInv'
  BY <1>1, GroupingStep DEF WholeInv
<1>4. StackInv'
  BY <1>1, StackStep DEF WholeInv
<1>5. input' = input
  BY <1>1
     DEF Sort!Next, Sort!Count, Sort!Counted, Sort!Sum, Sort!Summed, Sort!Pass,
         Sort!Fill, Sort!Filled, Sort!Returned, Sort!vars
<1>6. sorting = "done" => sorting' = "done" /\ UNCHANGED <<start, grouped>>
  BY <1>1
     DEF Sort!Next, Sort!Count, Sort!Counted, Sort!Sum, Sort!Summed, Sort!Pass,
         Sort!Fill, Sort!Filled, Sort!Returned, Sort!vars
<1>7. /\ UNCHANGED <<calls, built, program, owner, stamp, generation, pending, edge,
                     edge_end, pc>>
  BY <1>1 DEF vars
<1>8. Handed'
  <2>1. Unasked => Unasked'
    BY <1>7 DEF Unasked
  <2>2. built => Graph' = Graph
    BY <1>6, <1>7 DEF Graph, WholeInv, Handed
  <2> QED BY <1>5, <1>6, <1>7, <2>1, <2>2 DEF WholeInv, Handed
<1> QED BY <1>3, <1>4, <1>8 DEF WholeInv

\* The graph is handed over with a buffer that no question has used.
LEMMA BuildStep ==
  ASSUME WholeInv, Build PROVE WholeInv'
<1>1. /\ sorting = "done" /\ ~ built /\ built'
      /\ program' = Graph
      /\ stamp' = [f \in 0 .. calls.functions - 1 |-> 0]
      /\ UNCHANGED <<owner, generation, pending, edge, edge_end, asked, answer, pc>>
      /\ UNCHANGED <<input, counts, start, cursor, grouped, at, sorting, calls>>
  BY DEF Build, sort_vars
<1>2. GroupingInv /\ StackInv /\ Handed
  BY DEF WholeInv
<1>3. /\ owner' = {} /\ generation' = 0 /\ pending' = << >>
      /\ edge' = 0 /\ edge_end' = 0 /\ pc' = "idle"
  BY <1>1, <1>2 DEF Handed, Unasked
<1>4. GroupingInv'
  <2>1. Sort!vars' = Sort!vars
    BY <1>1 DEF Sort!vars
  <2> QED BY <1>2, <2>1, GroupingStep
<1>5. WellFormed(program')
  BY <1>1, <1>2, GraphIsWellFormed
<1>6. FunctionIds(program') = 0 .. calls.functions - 1
  BY <1>1, <1>2, GraphShape
<1>7. Typed'
  <2>1. asked \in Nat /\ answer \in BOOLEAN
    BY <1>2 DEF StackInv, ClosureInv, Typed, TypeOK
  <2>2. stamp' \in [FunctionIds(program') -> 0 .. generation']
    BY <1>1, <1>3, <1>6
  <2>3. pending' \in Seq(FunctionIds(program'))
    BY <1>3
  <2>4. generation' \in 0 .. MaxGeneration
    BY <1>3, MaxGenerationAssumption
  <2>5. program' \in ProgramType
    BY <1>5 DEF WellFormed
  <2> QED BY <1>1, <1>3, <1>5, <2>1, <2>2, <2>3, <2>4, <2>5 DEF Typed, TypeOK
<1>8. Stamped' = FunctionIds(program')
  BY <1>1, <1>3, <1>6 DEF Stamped
<1>9. Worklist'
  BY <1>8 DEF Worklist
<1>10. LeftIsCalled'
  BY <1>3 DEF LeftIsCalled
<1>11. StackInv'
  BY <1>3, <1>7, <1>9, <1>10
     DEF StackInv, ClosureInv, Rooted, BelowEveryClosed, PendingStamped, Quiet,
         Answered
<1>12. Handed'
  <2>1. Graph' = Graph
    BY <1>1 DEF Graph
  <2> QED BY <1>1, <1>2, <2>1 DEF Handed
<1> QED BY <1>4, <1>11, <1>12 DEF WholeInv

\* A question leaves the graph and the tables alone.
Questioned == built /\ Question /\ UNCHANGED <<sort_vars, calls, built>>

LEMMA QuestionedStep ==
  ASSUME WholeInv, Questioned PROVE WholeInv'
<1>1. /\ built /\ Question
      /\ UNCHANGED <<input, counts, start, cursor, grouped, at, sorting, calls, built>>
  BY DEF Questioned, sort_vars
<1>2. GroupingInv'
  <2>1. Sort!vars' = Sort!vars
    BY <1>1 DEF Sort!vars
  <2> QED BY <2>1, GroupingStep DEF WholeInv
<1>3. StackInv'
  BY <1>1, StackStep DEF WholeInv
<1>4. program' = program
  BY <1>1
     DEF Question, AskAgain, AskOther, Mark, PassEdge, StampEdge, Pop, Marked,
         Answer
<1>5. Graph' = Graph
  BY <1>1 DEF Graph
<1> QED BY <1>1, <1>2, <1>3, <1>4, <1>5 DEF WholeInv, Handed

LEMMA RestStep ==
  ASSUME WholeInv, UNCHANGED all PROVE WholeInv'
<1>1. /\ UNCHANGED vars
      /\ UNCHANGED <<input, counts, start, cursor, grouped, at, sorting, calls, built>>
  BY DEF all, sort_vars
<1>2. GroupingInv'
  <2>1. Sort!vars' = Sort!vars
    BY <1>1 DEF Sort!vars
  <2> QED BY <2>1, GroupingStep DEF WholeInv
<1>3. StackInv'
  BY <1>1, StackStep DEF WholeInv
<1>4. Handed'
  BY <1>1 DEF WholeInv, Handed, Unasked, Graph, vars
<1> QED BY <1>2, <1>3, <1>4 DEF WholeInv

-----------------------------------------------------------------------------
(* The passes and the proofs about them.  A pass of the analysis is the    *)
(* module its proofs are about, with the variables of the analysis for its *)
(* own; the formulas are one, under two names.                             *)

ResolvingFacts ==
  INSTANCE ProvenanceProofs WITH row <- argument, pc <- resolving

OwningFacts ==
  INSTANCE OwnershipProofs WITH program <- facts, row <- field, pc <- walk

\* They count rows alike.
LEMMA SameCount == \A S : Owning!Cardinality(S) = OwningFacts!Cardinality(S)
BY DEF Owning!Cardinality, OwningFacts!Cardinality

\* The same formulas, of the same variables, under two names.
LEMMA SameResolving ==
  /\ Resolving!Init <=> ResolvingFacts!Init
  /\ Resolving!Next <=> ResolvingFacts!Next
  /\ Resolving!vars = ResolvingFacts!vars
  /\ Resolving!TypedProvenance <=> ResolvingFacts!TypedProvenance
  /\ Resolving!LeastSolution <=> ResolvingFacts!LeastSolution
  /\ Resolving!SoundEvidence <=> ResolvingFacts!SoundEvidence
  /\ Resolving!Converges <=> ResolvingFacts!Converges
<1> USE DEF Resolving!Has, ResolvingFacts!Has, Resolving!At,
            ResolvingFacts!At, Resolving!Rows, ResolvingFacts!Rows,
            Resolving!Concrete, ResolvingFacts!Concrete,
            Resolving!AllocatorClass, ResolvingFacts!AllocatorClass,
            Resolving!Join, ResolvingFacts!Join, Resolving!Leq,
            ResolvingFacts!Leq, Resolving!Slots, ResolvingFacts!Slots,
            Resolving!GlobalParameterIndex,
            ResolvingFacts!GlobalParameterIndex, Resolving!SourceSlot,
            ResolvingFacts!SourceSlot, Resolving!ClassOfSource,
            ResolvingFacts!ClassOfSource, Resolving!Target,
            ResolvingFacts!Target, Resolving!Contribution,
            ResolvingFacts!Contribution
<1>1. Resolving!Init <=> ResolvingFacts!Init
  BY DEF Resolving!Init, ResolvingFacts!Init
<1>2. Resolving!Next <=> ResolvingFacts!Next
  BY DEF Resolving!vars, ResolvingFacts!vars, Resolving!RoundLimit,
         ResolvingFacts!RoundLimit, Resolving!AtRow, ResolvingFacts!AtRow,
         Resolving!SkipRow, ResolvingFacts!SkipRow, Resolving!KeepRow,
         ResolvingFacts!KeepRow, Resolving!Disagrees,
         ResolvingFacts!Disagrees, Resolving!Witnessed,
         ResolvingFacts!Witnessed, Resolving!RaiseRow,
         ResolvingFacts!RaiseRow, Resolving!AtRoundEnd,
         ResolvingFacts!AtRoundEnd, Resolving!Settle, ResolvingFacts!Settle,
         Resolving!EndRound, ResolvingFacts!EndRound, Resolving!Returned,
         ResolvingFacts!Returned, Resolving!Next, ResolvingFacts!Next
<1>3. Resolving!vars = ResolvingFacts!vars
  BY DEF Resolving!vars, ResolvingFacts!vars
<1>4. Resolving!TypedProvenance <=> ResolvingFacts!TypedProvenance
  BY DEF Resolving!SourceKind, ResolvingFacts!SourceKind,
         Resolving!FactTables, ResolvingFacts!FactTables,
         Resolving!Disagreement, ResolvingFacts!Disagreement,
         Resolving!TypedProvenance, ResolvingFacts!TypedProvenance
<1>5. Resolving!LeastSolution <=> ResolvingFacts!LeastSolution
  BY DEF Resolving!IsSolution, ResolvingFacts!IsSolution,
         Resolving!LeastSolution, ResolvingFacts!LeastSolution
<1>6. Resolving!SoundEvidence <=> ResolvingFacts!SoundEvidence
  BY DEF Resolving!Fills, ResolvingFacts!Fills, Resolving!WitnessExplains,
         ResolvingFacts!WitnessExplains, Resolving!DisagreementsAreEvidence,
         ResolvingFacts!DisagreementsAreEvidence,
         Resolving!ConflictsAreExplained,
         ResolvingFacts!ConflictsAreExplained, Resolving!SoundEvidence,
         ResolvingFacts!SoundEvidence
<1>7. Resolving!Converges <=> ResolvingFacts!Converges
  BY DEF Resolving!Converges, ResolvingFacts!Converges
<1> QED BY <1>1, <1>2, <1>3, <1>4, <1>5, <1>6, <1>7

\* The pass that classifies fields.
LEMMA SameOwning ==
  /\ Owning!Init <=> OwningFacts!Init
  /\ Owning!Next <=> OwningFacts!Next
  /\ Owning!vars = OwningFacts!vars
<1> USE DEF Owning!Has, OwningFacts!Has, Owning!At, OwningFacts!At,
            Owning!Rows, OwningFacts!Rows, Owning!FunctionIds,
            OwningFacts!FunctionIds, Owning!Callees, OwningFacts!Callees,
            Owning!Deinit, OwningFacts!Deinit, Owning!Roots,
            OwningFacts!Roots, Owning!Calls, OwningFacts!Calls, Owning!Closed,
            OwningFacts!Closed, Owning!Reached, OwningFacts!Reached,
            Owning!Join, OwningFacts!Join, Owning!Chain, OwningFacts!Chain,
            Owning!IsKind, OwningFacts!IsKind, Owning!IsReference,
            OwningFacts!IsReference, Owning!OverAligned,
            OwningFacts!OverAligned, Owning!Operations,
            OwningFacts!Operations, Owning!Assignments,
            OwningFacts!Assignments, Owning!FunctionOf,
            OwningFacts!FunctionOf, Owning!AllocatedFrom,
            OwningFacts!AllocatedFrom, Owning!Evidence, OwningFacts!Evidence
<1>1. Owning!Init <=> OwningFacts!Init
  BY DEF Owning!NothingFound, OwningFacts!NothingFound, Owning!Init,
         OwningFacts!Init
<1>2. Owning!Next <=> OwningFacts!Next
  BY DEF Owning!result, OwningFacts!result, Owning!vars, OwningFacts!vars,
         Owning!NothingFound, OwningFacts!NothingFound, Owning!Decision,
         OwningFacts!Decision, Owning!Undecided, OwningFacts!Undecided,
         Owning!Decide, OwningFacts!Decide, Owning!First, OwningFacts!First,
         Owning!AtField, OwningFacts!AtField, Owning!Close, OwningFacts!Close,
         Owning!Type, OwningFacts!Type, Owning!CloseAtOnce,
         OwningFacts!CloseAtOnce, Owning!Open, OwningFacts!Open,
         Owning!FreedByOwner, OwningFacts!FreedByOwner, Owning!FreeSaid,
         OwningFacts!FreeSaid, Owning!Free, OwningFacts!Free, Owning!FreesDone,
         OwningFacts!FreesDone, Owning!Resize, OwningFacts!Resize,
         Owning!ResizesDone, OwningFacts!ResizesDone, Owning!AssignedFrom,
         OwningFacts!AssignedFrom, Owning!Assign, OwningFacts!Assign,
         Owning!Summary, OwningFacts!Summary, Owning!Settle,
         OwningFacts!Settle, Owning!Returned, OwningFacts!Returned,
         Owning!Step, OwningFacts!Step, Owning!Next, OwningFacts!Next
<1>3. Owning!vars = OwningFacts!vars
  BY DEF Owning!result, OwningFacts!result, Owning!vars, OwningFacts!vars
<1> QED BY <1>1, <1>2, <1>3

\* The evidence it says a field has.
LEMMA SameEvidence ==
  Owning!EvidenceIsTheFacts <=> OwningFacts!EvidenceIsTheFacts
<1>1. ASSUME NEW f
      PROVE  /\ Owning!HoldsReference(facts, f) <=> OwningFacts!HoldsReference(facts, f)
             /\ Owning!Aligned(facts, f) <=> OwningFacts!Aligned(facts, f)
  BY DEF Owning!HoldsReference, OwningFacts!HoldsReference, Owning!Aligned,
         OwningFacts!Aligned, Owning!Typed, OwningFacts!Typed,
         Owning!IsReference, OwningFacts!IsReference, Owning!OverAligned,
         OwningFacts!OverAligned, Owning!IsKind, OwningFacts!IsKind,
         Owning!Chain, OwningFacts!Chain, Owning!Has, OwningFacts!Has,
         Owning!At, OwningFacts!At
<1>2. ASSUME NEW f
      PROVE  /\ Owning!Frees(facts, f) = OwningFacts!Frees(facts, f)
             /\ Owning!Resizes(facts, f) = OwningFacts!Resizes(facts, f)
             /\ Owning!Sourced(facts, f) = OwningFacts!Sourced(facts, f)
             /\ Owning!Sources(facts, f) = OwningFacts!Sources(facts, f)
             /\ Owning!Allocations(facts, f) = OwningFacts!Allocations(facts, f)
  BY DEF Owning!Frees, OwningFacts!Frees, Owning!Resizes,
         OwningFacts!Resizes, Owning!Operations, OwningFacts!Operations,
         Owning!Sourced, OwningFacts!Sourced, Owning!Assignments,
         OwningFacts!Assignments, Owning!Sources, OwningFacts!Sources,
         Owning!Allocations, OwningFacts!Allocations, Owning!Rows,
         OwningFacts!Rows, Owning!Has, OwningFacts!Has, Owning!At,
         OwningFacts!At
<1>3. ASSUME NEW f
      PROVE  Owning!Allocators(facts, f) = OwningFacts!Allocators(facts, f)
  BY <1>2 DEF Owning!Allocators, OwningFacts!Allocators, Owning!AllocatedFrom,
         OwningFacts!AllocatedFrom, Owning!Has, OwningFacts!Has, Owning!At,
         OwningFacts!At
<1>4. ASSUME NEW f
      PROVE  Owning!Overall(facts, f) = OwningFacts!Overall(facts, f)
  BY <1>1, <1>2, <1>3 DEF Owning!Overall, OwningFacts!Overall, Owning!OnlyFrom,
         OwningFacts!OnlyFrom, Owning!EvidenceKind,
         OwningFacts!EvidenceKind
<1>5. ASSUME NEW f, NEW op
      PROVE  Owning!FreedByOwner(facts, f, op) <=> OwningFacts!FreedByOwner(facts, f, op)
  BY DEF Owning!FreedByOwner, OwningFacts!FreedByOwner, Owning!FunctionOf,
         OwningFacts!FunctionOf, Owning!Reached, OwningFacts!Reached,
         Owning!Closed, OwningFacts!Closed, Owning!Calls,
         OwningFacts!Calls, Owning!Roots, OwningFacts!Roots, Owning!Deinit,
         OwningFacts!Deinit, Owning!Callees, OwningFacts!Callees,
         Owning!FunctionIds, OwningFacts!FunctionIds, Owning!Rows,
         OwningFacts!Rows, Owning!Has, OwningFacts!Has, Owning!At,
         OwningFacts!At
<1>6. ASSUME NEW f
      PROVE  Owning!Expected(facts, f) = OwningFacts!Expected(facts, f)
  BY <1>2, <1>4, <1>5 DEF Owning!Expected, OwningFacts!Expected, Owning!Evidence,
         OwningFacts!Evidence, Owning!FunctionOf, OwningFacts!FunctionOf,
         Owning!AssignedFrom, OwningFacts!AssignedFrom, Owning!Has,
         OwningFacts!Has, Owning!At, OwningFacts!At
<1>7. ASSUME NEW f
      PROVE  Owning!EvidenceOf(f) = OwningFacts!EvidenceOf(f)
  BY DEF Owning!EvidenceOf, OwningFacts!EvidenceOf, Owning!EvidenceEnd,
         OwningFacts!EvidenceEnd, Owning!At, OwningFacts!At
<1> QED
  BY <1>1, <1>2, <1>4, <1>6, <1>7, SameCount DEF Owning!EvidenceIsTheFacts, OwningFacts!EvidenceIsTheFacts,
         Owning!Classified, OwningFacts!Classified, Owning!At,
         OwningFacts!At

\* What it promises.
LEMMA SameVerdicts ==
  /\ Owning!EvidenceTiles <=> OwningFacts!EvidenceTiles
  /\ Owning!VerdictsFollowFacts <=> OwningFacts!VerdictsFollowFacts
  /\ Owning!ConfidenceFollowsFacts <=> OwningFacts!ConfidenceFollowsFacts
  /\ Owning!EvidenceIsTheFacts <=> OwningFacts!EvidenceIsTheFacts
<1> USE SameCount
<1> USE DEF Owning!Has, OwningFacts!Has, Owning!At, OwningFacts!At,
            Owning!Rows, OwningFacts!Rows, Owning!FunctionIds,
            OwningFacts!FunctionIds, Owning!Callees, OwningFacts!Callees,
            Owning!Deinit, OwningFacts!Deinit, Owning!Roots,
            OwningFacts!Roots, Owning!Calls, OwningFacts!Calls, Owning!Closed,
            OwningFacts!Closed, Owning!Reached, OwningFacts!Reached,
            Owning!Join, OwningFacts!Join, Owning!Chain, OwningFacts!Chain,
            Owning!IsKind, OwningFacts!IsKind, Owning!IsReference,
            OwningFacts!IsReference, Owning!OverAligned,
            OwningFacts!OverAligned, Owning!Operations,
            OwningFacts!Operations, Owning!Assignments,
            OwningFacts!Assignments, Owning!FunctionOf,
            OwningFacts!FunctionOf, Owning!AllocatedFrom,
            OwningFacts!AllocatedFrom, Owning!Evidence, OwningFacts!Evidence,
            Owning!HoldsReference, OwningFacts!HoldsReference, Owning!Aligned,
            OwningFacts!Aligned, Owning!Typed, OwningFacts!Typed,
            Owning!Frees, OwningFacts!Frees, Owning!Resizes,
            OwningFacts!Resizes, Owning!Sourced, OwningFacts!Sourced,
            Owning!Sources, OwningFacts!Sources, Owning!Allocations,
            OwningFacts!Allocations, Owning!Allocators,
            OwningFacts!Allocators, Owning!FreedByOwner,
            OwningFacts!FreedByOwner, Owning!OnlyFrom, OwningFacts!OnlyFrom,
            Owning!Classified, OwningFacts!Classified, Owning!EvidenceEnd,
            OwningFacts!EvidenceEnd
<1>1. Owning!EvidenceTiles <=> OwningFacts!EvidenceTiles
  BY DEF Owning!EvidenceTiles, OwningFacts!EvidenceTiles
<1>2. Owning!VerdictsFollowFacts <=> OwningFacts!VerdictsFollowFacts
  BY DEF Owning!OwnershipClass, OwningFacts!OwnershipClass, Owning!Carried,
         OwningFacts!Carried, Owning!HeapOwned, OwningFacts!HeapOwned,
         Owning!Fitting, OwningFacts!Fitting, Owning!VerdictsFollowFacts,
         OwningFacts!VerdictsFollowFacts
<1>3. Owning!ConfidenceFollowsFacts <=> OwningFacts!ConfidenceFollowsFacts
  BY DEF Owning!Plain, OwningFacts!Plain, Owning!OnHeap, OwningFacts!OnHeap,
         Owning!OwnFrees, OwningFacts!OwnFrees, Owning!ConfidenceFollowsFacts,
         OwningFacts!ConfidenceFollowsFacts
<1>4. Owning!EvidenceIsTheFacts <=> OwningFacts!EvidenceIsTheFacts
  BY SameEvidence
<1> QED BY <1>1, <1>2, <1>3, <1>4

\* And the fixed point the pass implements is one.
LEMMA SameChaotic ==
  /\ Resolving!Chaotic!Init <=> ResolvingFacts!Chaotic!Init
  /\ Resolving!Chaotic!Next <=> ResolvingFacts!Chaotic!Next
  /\ Resolving!Chaotic!vars = ResolvingFacts!Chaotic!vars
BY DEF Resolving!Chaotic!Has, ResolvingFacts!Chaotic!Has,
       Resolving!Chaotic!At, ResolvingFacts!Chaotic!At,
       Resolving!Chaotic!Rows, ResolvingFacts!Chaotic!Rows,
       Resolving!Chaotic!Concrete, ResolvingFacts!Chaotic!Concrete,
       Resolving!Chaotic!Join, ResolvingFacts!Chaotic!Join,
       Resolving!Chaotic!Leq, ResolvingFacts!Chaotic!Leq,
       Resolving!Chaotic!SourceKind, ResolvingFacts!Chaotic!SourceKind,
       Resolving!Chaotic!FactTables, ResolvingFacts!Chaotic!FactTables,
       Resolving!Chaotic!Slots, ResolvingFacts!Chaotic!Slots,
       Resolving!Chaotic!GlobalParameterIndex,
       ResolvingFacts!Chaotic!GlobalParameterIndex,
       Resolving!Chaotic!SourceSlot, ResolvingFacts!Chaotic!SourceSlot,
       Resolving!Chaotic!ClassOfSource, ResolvingFacts!Chaotic!ClassOfSource,
       Resolving!Chaotic!Target, ResolvingFacts!Chaotic!Target,
       Resolving!Chaotic!Contribution, ResolvingFacts!Chaotic!Contribution,
       Resolving!Chaotic!IsSolution, ResolvingFacts!Chaotic!IsSolution,
       Resolving!Chaotic!vars, ResolvingFacts!Chaotic!vars,
       Resolving!Chaotic!Init, ResolvingFacts!Chaotic!Init,
       Resolving!Chaotic!Absorb, ResolvingFacts!Chaotic!Absorb,
       Resolving!Chaotic!Finish, ResolvingFacts!Chaotic!Finish,
       Resolving!Chaotic!Next, ResolvingFacts!Chaotic!Next

\* They are handed what the analysis declares.
LEMMA SameFactSets ==
  \A p \in FactSets :
    /\ p \in OwningFacts!FactsType
    /\ Len(p.element) =< NoIndex
    /\ Len(p.over_aligned) =< NoIndex
BY FactSetsAssumption
   DEF OwningFacts!FactsType, FactsType, OwningFacts!ProgramType, ProgramType,
       OwningFacts!AllocatorClass, AllocatorClass

LEMMA SameTables ==
  \A t \in TableSet :
    t \in ResolvingFacts!FactTables /\ t.parameters =< NoIndex
BY TableSetAssumption
   DEF ResolvingFacts!FactTables, FactTables, ResolvingFacts!SourceKind, SourceKind

-----------------------------------------------------------------------------
(* The provenance pass in the whole.                                       *)

\* Every step of the analysis is one of the pass, or leaves what is its alone.
LEMMA ResolvingSteps ==
  [NextAnalysis]_whole => [ResolvingFacts!Next]_(ResolvingFacts!vars)
<1>1. Resolve => ResolvingFacts!Next
  BY SameResolving DEF Resolve
<1>2. ~ Resolve /\ [NextAnalysis]_whole => UNCHANGED provenance_vars
  BY DEF NextAnalysis, Order, Classify, AskOfFree, AskAnything, MarkOn,
         AnswerIt, Free, Walk, whole
<1>3. UNCHANGED provenance_vars => UNCHANGED ResolvingFacts!vars
  BY DEF provenance_vars, ResolvingFacts!vars
<1> QED BY <1>1, <1>2, <1>3

\* So the analysis is an implementation of the pass.
LEMMA AnalysisResolves == SpecAnalysis => ResolvingFacts!Spec
<1>1. StartAnalysis => ResolvingFacts!Init
  BY SameResolving DEF StartAnalysis
<1> QED BY <1>1, ResolvingSteps, PTL DEF SpecAnalysis, ResolvingFacts!Spec

(***************************************************************************)
(* In the analysis as in the pass, for tables of any size with rows in any *)
(* order: the columns keep their types whatever the tables hold,           *)
(***************************************************************************)
THEOREM AnalysisTyped == SpecAnalysis => []TypedProvenance
<1>1. ResolvingFacts!Spec => []ResolvingFacts!TypedProvenance
  BY ResolvingFacts!TypeCorrect, SameTables, NoIndexAssumption
<1>2. ResolvingFacts!TypedProvenance => TypedProvenance
  BY SameResolving DEF TypedProvenance
<1> QED BY <1>1, <1>2, AnalysisResolves, PTL

(***************************************************************************)
(* the limit on the rounds is never what ends the pass,                    *)
(***************************************************************************)
THEOREM AnalysisConverges == SpecAnalysis => []Converges
<1>1. ResolvingFacts!Spec => []ResolvingFacts!Converges
  BY ResolvingFacts!AlwaysConverges, SameTables, NoIndexAssumption
<1>2. ResolvingFacts!Converges => Converges
  BY SameResolving DEF Converges
<1> QED BY <1>1, <1>2, AnalysisResolves, PTL

(***************************************************************************)
(* the classes the classification reads are the least that account for     *)
(* every call argument,                                                    *)
(***************************************************************************)
THEOREM AnalysisReadsLeastSolution == SpecAnalysis => []LeastSolution
<1>1. ResolvingFacts!Spec => []ResolvingFacts!LeastSolution
  BY ResolvingFacts!ReturnsLeastSolution, SameTables, NoIndexAssumption
<1>2. ResolvingFacts!LeastSolution => LeastSolution
  BY SameResolving DEF LeastSolution
<1> QED BY <1>1, <1>2, AnalysisResolves, PTL

(***************************************************************************)
(* witnesses and disagreements are true of the tables in every round,      *)
(***************************************************************************)
THEOREM AnalysisEvidenceIsSound == SpecAnalysis => []SoundEvidence
<1>1. ResolvingFacts!Spec => []ResolvingFacts!SoundEvidence
  BY ResolvingFacts!EvidenceIsSound, SameTables, NoIndexAssumption
<1>2. ResolvingFacts!SoundEvidence => SoundEvidence
  BY SameResolving DEF SoundEvidence
<1> QED BY <1>1, <1>2, AnalysisResolves, PTL

(***************************************************************************)
(* and the rounds implement the fixed point that has no order in it.       *)
(***************************************************************************)
THEOREM AnalysisImplementsFixedPoint == SpecAnalysis => RefinesChaotic
<1>1. ResolvingFacts!Chaotic!Init => Resolving!Chaotic!Init
  BY SameChaotic
<1>2. [ResolvingFacts!Chaotic!Next]_(ResolvingFacts!Chaotic!vars)
        => [Resolving!Chaotic!Next]_(Resolving!Chaotic!vars)
  BY SameChaotic DEF Resolving!Chaotic!vars, ResolvingFacts!Chaotic!vars
<1>3. ResolvingFacts!Spec => ResolvingFacts!RefinesChaotic
  BY ResolvingFacts!LoopsImplementFixedPoint, SameTables, NoIndexAssumption
<1> QED BY <1>1, <1>2, <1>3, AnalysisResolves, PTL
        DEF RefinesChaotic, Resolving!RefinesChaotic, ResolvingFacts!RefinesChaotic,
            Resolving!Chaotic!Spec, ResolvingFacts!Chaotic!Spec

-----------------------------------------------------------------------------
(* The classification in the whole.  Until it is handed its facts it has   *)
(* classified nothing, and from then on every step is one of the pass or   *)
(* leaves what is its alone.                                               *)

Waiting ==
  /\ walk = "waiting"
  /\ field = 0
  /\ left = {}
  /\ found = Owning!NothingFound
  /\ class = << >>
  /\ confidence = << >>
  /\ evidence_start = << >>
  /\ evidence_count = << >>
  /\ evidence = << >>

Classifying == walk # "waiting" /\ OwningFacts!FactsInvariant

OwningInv == Waiting \/ Classifying

\* Nothing is classified while the classification waits.
LEMMA NothingIsClassifiedYet ==
  ASSUME Waiting
  PROVE  /\ Owning!EvidenceTiles /\ Owning!VerdictsFollowFacts
         /\ Owning!ConfidenceFollowsFacts /\ Owning!EvidenceIsTheFacts
<1>1. field = 0 /\ walk # "field"
  BY DEF Waiting
<1>2. Owning!Classified = {}
  BY <1>1 DEF Owning!Classified
<1> QED BY <1>1, <1>2
        DEF Owning!EvidenceTiles, Owning!VerdictsFollowFacts,
            Owning!ConfidenceFollowsFacts, Owning!EvidenceIsTheFacts

LEMMA OwningPromises ==
  OwningInv =>
    /\ EvidenceTiles /\ VerdictsFollowFacts
    /\ ConfidenceFollowsFacts /\ EvidenceIsTheFacts
BY NothingIsClassifiedYet, OwningFacts!FactsInvariantPromises, SameFactSets,
   NoIndexAssumption, SameVerdicts
   DEF OwningInv, Classifying, EvidenceTiles, VerdictsFollowFacts,
       ConfidenceFollowsFacts, EvidenceIsTheFacts

\* The invariant of the pass, for facts as the analysis declares them.
LEMMA FactsInvariantStarts == OwningFacts!Init => OwningFacts!FactsInvariant
BY OwningFacts!FactsInvariantStarts, SameFactSets, NoIndexAssumption

LEMMA FactsInvariantStep ==
  OwningFacts!FactsInvariant /\ [OwningFacts!Next]_(OwningFacts!vars)
    => OwningFacts!FactsInvariant'
BY OwningFacts!FactsInvariantStep, SameFactSets, NoIndexAssumption

\* The graph and what the allocators resolved to are handed over as facts.
LEMMA ClassifyStarts ==
  ASSUME Waiting, Classify PROVE Classifying'
<1>1. Owning!Init'
  BY DEF Waiting, Classify, Owning!Init
<1>2. OwningFacts!Init' => OwningFacts!FactsInvariant'
  BY FactsInvariantStarts, PTL
<1>3. Owning!Init' => OwningFacts!Init'
  BY SameOwning, PTL
<1>4. walk' # "waiting"
  BY DEF Classify
<1> QED BY <1>1, <1>2, <1>3, <1>4 DEF Classifying

\* The pass only ever walks.
LEMMA WalkingGoesOn ==
  OwningFacts!FactsInvariant => walk # "waiting"
BY DEF OwningFacts!FactsInvariant, OwningFacts!PassInvariant,
       OwningFacts!WellTyped, OwningFacts!TypeOK

\* It takes no step before it is handed its facts, and only Free at a free.
LEMMA WaitingRests == Owning!Step => walk # "waiting" /\ ~ AtFree
BY DEF AtFree, Owning!Step, Owning!CloseAtOnce, Owning!AtField, Owning!Open,
       Owning!FreesDone, Owning!Resize, Owning!ResizesDone,
       Owning!Assign, Owning!Settle, Owning!Returned

-----------------------------------------------------------------------------
(* The two together.  Only a graph that is there is asked, what is asked   *)
(* about a free is of its struct and its function, and nothing else is     *)
(* asked before the free has had the answer.                               *)

\* Nothing reads the graph before it is built.
Started == ~ built => resolving = "row" /\ walk = "waiting"

\* The classification has the graph that is asked, and the question is its own.
AtHand ==
  /\ walk # "waiting" => facts.graph = program
  /\ asking =>
       /\ AtFree
       /\ owner = {At(facts.field_owner, field)}
       /\ asked = Owning!FunctionOf(facts.function, Owning!First)

AnalysisInv == WholeInv /\ OwningInv /\ Started /\ AtHand

\* The struct and the function of the free at hand.
LEMMA FreeNamesRows ==
  ASSUME OwningInv, AtFree
  PROVE  /\ At(facts.field_owner, field) \in Nat
         /\ Owning!FunctionOf(facts.function, Owning!First) \in Nat
<1>1. /\ facts \in FactSets
      /\ left \in SUBSET Nat /\ left # {}
      /\ field \in OwningFacts!Fields(facts)
  BY DEF AtFree, OwningInv, Waiting, Classifying, OwningFacts!FactsInvariant,
         OwningFacts!PassInvariant, OwningFacts!WellTyped, OwningFacts!TypeOK
<1>2. facts.field_owner \in Seq(Nat) /\ facts.function \in Seq(Nat)
  BY <1>1, FactSetsAssumption DEF FactsType
<1>3. At(facts.field_owner, field) \in Nat
  BY <1>1, <1>2 DEF OwningFacts!Fields, OwningFacts!Rows, At
<1>4. Owning!First \in Nat
  <2>1. OwningFacts!First \in left
    BY <1>1, OwningFacts!FirstIsLeft, SameFactSets, NoIndexAssumption
  <2> QED BY <1>1, <2>1 DEF OwningFacts!First, Owning!First
<1>5. Owning!FunctionOf(facts.function, Owning!First) \in Nat
  BY <1>2, <1>4, NoIndexAssumption DEF Owning!FunctionOf, Owning!Has, Owning!At
<1> QED BY <1>3, <1>5

\* Of what the graph is made from and of its answers the analysis changes nothing
\* but by the sort, by handing it over and by questions.
LEMMA AnalysisAsks ==
  ASSUME AnalysisInv, [NextAnalysis]_whole
  PROVE  SortCalls \/ Build \/ Questioned \/ UNCHANGED all
<1>1. CASE Order
  BY <1>1 DEF Order
<1>2. CASE AskOfFree
  <2> DEFINE o == At(facts.field_owner, field)
             f == Owning!FunctionOf(facts.function, Owning!First)
  <2>1. AtFree /\ (AskAgain(o, f) \/ AskOther(o, f))
        /\ UNCHANGED <<sort_vars, calls, built>>
    BY <1>2 DEF AskOfFree
  <2>2. built
    BY <2>1 DEF AnalysisInv, Started, AtFree
  <2>3. o \in Nat /\ f \in Nat
    BY <2>1, FreeNamesRows DEF AnalysisInv
  <2> HIDE DEF o, f
  <2>4. Question
    BY <2>1, <2>3 DEF Question
  <2> QED BY <2>1, <2>2, <2>4 DEF Questioned
<1>3. CASE AskAnything
  <2>1. PICK o \in Owners(program), f \in Askable(program) :
          AskAgain(o, f) \/ AskOther(o, f)
    BY <1>3 DEF AskAnything
  <2>2. o \in Nat /\ f \in Nat
    BY DEF Owners, Askable
  <2>3. Question
    BY <2>1, <2>2 DEF Question
  <2>4. built /\ UNCHANGED <<sort_vars, calls, built>>
    BY <1>3 DEF AskAnything, AnalysisInv, Started
  <2> QED BY <2>3, <2>4 DEF Questioned
<1>4. CASE MarkOn \/ AnswerIt
  <2>1. /\ Question
        /\ UNCHANGED <<sort_vars, calls, built>>
    BY <1>4 DEF MarkOn, AnswerIt, Question
  <2>2. pc # "idle"
    BY <1>4
       DEF MarkOn, AnswerIt, Mark, Scanning, PassEdge, StampEdge, Pop, Marked,
           Answer
  <2>3. built
    BY <2>2 DEF AnalysisInv, WholeInv, Handed, Unasked
  <2> QED BY <2>1, <2>3 DEF Questioned
<1>5. CASE ~ (Order \/ AskOfFree \/ AskAnything \/ MarkOn \/ AnswerIt)
  BY <1>5 DEF NextAnalysis, Resolve, Classify, Free, Walk, whole
<1> QED BY <1>1, <1>2, <1>3, <1>4, <1>5

\* A graph that is there stays as it is.
LEMMA GraphStays ==
  ASSUME AnalysisInv, built, [NextAnalysis]_whole
  PROVE  built' /\ program' = program
BY AnalysisAsks
   DEF SortCalls, Build, Questioned, Question, AskAgain, AskOther, Mark,
       PassEdge, StampEdge, Pop, Marked, Answer, all, vars

\* An answer is what the deinit of the struct reaches.
LEMMA AnswersAreRight == AnalysisInv => AnswersReachability
BY StampedIsReached
   DEF AnalysisInv, WholeInv, StackInv, ClosureInv, Answered,
       AnswersReachability

\* A free that is taken with the answer is taken as the pass alone takes it.
LEMMA AnswerIsTheOwners ==
  ASSUME AnalysisInv, Free PROVE Owning!Free
<1> DEFINE o == At(facts.field_owner, field)
           f == Owning!FunctionOf(facts.function, Owning!First)
<1>1. /\ AtFree /\ asking /\ pc = "idle"
      /\ Owning!FreeSaid(answer)
  BY DEF Free
<1>2. owner = {o} /\ asked = f /\ facts.graph = program
  BY <1>1 DEF AnalysisInv, AtHand, AtFree
<1>3. answer <=> f \in Reached(facts.graph, o)
  BY <1>1, <1>2, AnswersAreRight DEF AnswersReachability
<1>4. answer \in BOOLEAN
  BY DEF AnalysisInv, WholeInv, StackInv, ClosureInv, Typed, TypeOK
<1>5. Reached(facts.graph, o) = Owning!Reached(facts.graph, o)
  BY DEF Reached, Owning!Reached, Closed, Owning!Closed, Calls, Owning!Calls,
         Roots, Owning!Roots, Deinit, Owning!Deinit, Callees, Owning!Callees,
         FunctionIds, Owning!FunctionIds, Has, Owning!Has, At, Owning!At,
         Rows, Owning!Rows
<1>6. answer = Owning!FreedByOwner(facts, field, Owning!First)
  <2>1. At(facts.field_owner, field) = Owning!At(facts.field_owner, field)
    BY DEF At, Owning!At
  <2> QED BY <1>3, <1>4, <1>5, <2>1 DEF Owning!FreedByOwner
<1>7. left # {}
  BY <1>1 DEF AtFree
<1> QED BY <1>1, <1>6, <1>7 DEF Owning!Free

LEMMA OwningStep ==
  ASSUME AnalysisInv, [NextAnalysis]_whole PROVE OwningInv'
<1>1. CASE Classify
  BY <1>1, ClassifyStarts
     DEF AnalysisInv, OwningInv, Classifying, Classify
<1>2. CASE Free \/ Walk
  <2>1. Owning!Next
    BY <1>2, AnswerIsTheOwners DEF Walk, Owning!Next
  <2>2. walk # "waiting"
    BY <1>2, WaitingRests DEF Free, AtFree, Walk
  <2>3. OwningFacts!FactsInvariant /\ OwningFacts!Next
    BY <2>1, <2>2, SameOwning DEF AnalysisInv, OwningInv, Waiting, Classifying
  <2>4. OwningFacts!FactsInvariant'
    BY <2>3, FactsInvariantStep
  <2>5. OwningFacts!FactsInvariant' => (walk # "waiting")'
    BY WalkingGoesOn, PTL
  <2> QED BY <2>4, <2>5 DEF OwningInv, Classifying
<1>3. CASE ~ (Classify \/ Free \/ Walk)
  <2>1. UNCHANGED ownership_vars
    BY <1>3
       DEF NextAnalysis, Order, Resolve, AskOfFree, AskAnything, MarkOn,
           AnswerIt, whole
  <2>2. CASE Waiting
    BY <2>1, <2>2 DEF Waiting, OwningInv, ownership_vars, Owning!NothingFound
  <2>3. CASE Classifying
    <3>1. UNCHANGED OwningFacts!vars
      BY <2>1 DEF ownership_vars, OwningFacts!vars, OwningFacts!result
    <3>2. OwningFacts!FactsInvariant'
      BY <2>3, <3>1, FactsInvariantStep DEF Classifying
    <3>3. walk' # "waiting"
      BY <2>1, <2>3 DEF ownership_vars, Classifying
    <3> QED BY <3>2, <3>3 DEF OwningInv, Classifying
  <2> QED BY <2>2, <2>3 DEF AnalysisInv, OwningInv
<1> QED BY <1>1, <1>2, <1>3

LEMMA StartedStep ==
  ASSUME AnalysisInv, [NextAnalysis]_whole PROVE Started'
<1>1. built => built'
  BY AnalysisAsks DEF SortCalls, Build, Questioned, all
<1>2. CASE built
  BY <1>1, <1>2 DEF Started
<1>3. CASE ~ built
  <2>1. resolving = "row" /\ walk = "waiting"
    BY <1>3 DEF AnalysisInv, Started
  <2>2. ~ Resolve /\ ~ Classify
    BY <1>3, <2>1 DEF Resolve, Classify
  <2>3. ~ Free /\ ~ Walk
    BY <2>1, WaitingRests DEF Free, AtFree, Walk
  <2>4. UNCHANGED <<provenance_vars, ownership_vars>>
    BY <2>2, <2>3
       DEF NextAnalysis, Order, AskOfFree, AskAnything, MarkOn, AnswerIt, whole
  <2> QED BY <2>1, <2>4 DEF Started, provenance_vars, ownership_vars
<1> QED BY <1>2, <1>3

LEMMA AtHandStep ==
  ASSUME AnalysisInv, [NextAnalysis]_whole PROVE AtHand'
<1>1. CASE Classify
  <2>1. facts'.graph = program /\ program' = program
    BY <1>1 DEF Classify, all, vars
  <2>2. ~ asking /\ asking' = asking
    BY <1>1 DEF Classify, AnalysisInv, AtHand, AtFree
  <2> QED BY <2>1, <2>2 DEF AtHand
<1>2. CASE Free \/ Walk
  <2>1. walk # "waiting"
    BY <1>2, WaitingRests DEF Free, AtFree, Walk
  <2>2. facts' = facts /\ program' = program
    BY <1>2
       DEF Free, Walk, all, vars, Owning!FreeSaid, Owning!Step,
           Owning!CloseAtOnce, Owning!Open, Owning!FreesDone, Owning!Resize,
           Owning!ResizesDone, Owning!Assign, Owning!Settle, Owning!Returned,
           Owning!vars
  <2>3. ~ asking'
    BY <1>2, WaitingRests DEF Free, Walk, AnalysisInv, AtHand
  <2> QED BY <2>1, <2>2, <2>3 DEF AnalysisInv, AtHand
<1>3. CASE ~ (Classify \/ Free \/ Walk)
  <2>1. UNCHANGED <<facts, field, left, walk>>
    BY <1>3
       DEF NextAnalysis, Order, Resolve, AskOfFree, AskAnything, MarkOn,
           AnswerIt, whole, ownership_vars
  <2>2. /\ AtFree' <=> AtFree
        /\ At(facts.field_owner, field)' = At(facts.field_owner, field)
        /\ Owning!FunctionOf(facts.function, Owning!First)'
             = Owning!FunctionOf(facts.function, Owning!First)
    BY <2>1 DEF AtFree, At, Owning!FunctionOf, Owning!First, Owning!Has, Owning!At
  <2>3. walk' # "waiting" => facts'.graph = program'
    BY <2>1, GraphStays DEF AnalysisInv, AtHand, Started
  <2>4. CASE AskOfFree
    <3> DEFINE o == At(facts.field_owner, field)
               f == Owning!FunctionOf(facts.function, Owning!First)
    <3>1. AtFree /\ (AskAgain(o, f) \/ AskOther(o, f))
      BY <2>4 DEF AskOfFree
    <3> HIDE DEF o, f
    <3>2. owner' = {o} /\ asked' = f
      BY <3>1 DEF AskAgain, AskOther
    <3> USE DEF o, f
    <3> QED BY <2>2, <2>3, <3>1, <3>2 DEF AtHand
  <2>5. CASE ~ AskOfFree
    <3>1. asking' = asking
      BY <1>3, <2>5
         DEF NextAnalysis, Order, Resolve, AskAnything, MarkOn, AnswerIt, whole
    <3>2. asking => UNCHANGED <<owner, asked>>
      BY <1>3, <2>5
         DEF AnalysisInv, AtHand, AtFree, NextAnalysis, Order, SortCalls, Build,
             Resolve, AskAnything, MarkOn, Mark, PassEdge, StampEdge, Pop,
             Marked, AnswerIt, Answer, whole, all, vars
    <3> QED BY <2>2, <2>3, <3>1, <3>2 DEF AnalysisInv, AtHand
  <2> QED BY <2>4, <2>5
<1> QED BY <1>1, <1>2, <1>3

LEMMA AnalysisStarts ==
  ASSUME StartAnalysis PROVE AnalysisInv
<1>1. WholeInv
  BY WholeInit DEF StartAnalysis
<1>2. OwningInv
  BY DEF StartAnalysis, OwningInv, Waiting
<1>3. Started
  BY DEF StartAnalysis, Started, Resolving!Init
<1>4. AtHand
  BY DEF StartAnalysis, AtHand
<1> QED BY <1>1, <1>2, <1>3, <1>4 DEF AnalysisInv

LEMMA AnalysisStep ==
  ASSUME AnalysisInv, [NextAnalysis]_whole PROVE AnalysisInv'
<1>1. WholeInv'
  BY AnalysisAsks, SortCallsStep, BuildStep, QuestionedStep, RestStep
     DEF AnalysisInv
<1> QED BY <1>1, OwningStep, StartedStep, AtHandStep DEF AnalysisInv

LEMMA AnalysisHolds == SpecAnalysis => []AnalysisInv
BY AnalysisStarts, AnalysisStep, PTL DEF SpecAnalysis

(***************************************************************************)
(* Whatever graph and whatever allocators the classification is handed,    *)
(* the evidence table is cut into the fields,                              *)
(***************************************************************************)
THEOREM AnalysisEvidenceIsTiled == SpecAnalysis => []EvidenceTiles
<1>1. AnalysisInv => EvidenceTiles
  BY OwningPromises DEF AnalysisInv
<1> QED BY <1>1, AnalysisHolds, PTL

(***************************************************************************)
(* a field has the one class that fits all its assignments, frees and      *)
(* resizes, and is unknown only where none fits, in whatever order the     *)
(* pass comes to them,                                                     *)
(***************************************************************************)
THEOREM AnalysisVerdictsFollowFacts == SpecAnalysis => []VerdictsFollowFacts
<1>1. AnalysisInv => VerdictsFollowFacts
  BY OwningPromises DEF AnalysisInv
<1> QED BY <1>1, AnalysisHolds, PTL

(***************************************************************************)
(* no heap field is called certain unless its owner frees it, and every    *)
(* one that nothing but its owner frees is, as the one buffer of stamps    *)
(* answers whatever the fields before it left there,                       *)
(***************************************************************************)
THEOREM AnalysisConfidenceFollowsFacts ==
  SpecAnalysis => []ConfidenceFollowsFacts
<1>1. AnalysisInv => ConfidenceFollowsFacts
  BY OwningPromises DEF AnalysisInv
<1> QED BY <1>1, AnalysisHolds, PTL

(***************************************************************************)
(* and the evidence of a field is all that the tables say of it, and no    *)
(* more.                                                                   *)
(***************************************************************************)
THEOREM AnalysisEvidenceSaysTheFacts == SpecAnalysis => []EvidenceIsTheFacts
<1>1. AnalysisInv => EvidenceIsTheFacts
  BY OwningPromises DEF AnalysisInv
<1> QED BY <1>1, AnalysisHolds, PTL

(***************************************************************************)
(* The graph the questions are asked of holds every call of the tables and *)
(* no other, in the order of the tables, for tables of any size whose      *)
(* columns need not be equally long.                                       *)
(***************************************************************************)
THEOREM GraphHoldsTheCalls == SpecAnalysis => []GraphIsTheCalls
<1>1. AnalysisInv => GraphIsTheCalls
  BY GraphIsWellFormed, GraphHasTheCalls
     DEF AnalysisInv, WholeInv, Handed, GraphIsTheCalls
<1> QED BY <1>1, AnalysisHolds, PTL

(***************************************************************************)
(* Asked of the graph the sort produced, too, by the classification or by  *)
(* anyone else, a question is answered by what the deinit reaches: nothing *)
(* is assumed of the graph here.                                           *)
(***************************************************************************)
THEOREM SortedGraphAnswersReachability == SpecAnalysis => []AnswersReachability
<1>1. AnalysisInv => AnswersReachability
  BY AnswersAreRight
<1> QED BY <1>1, AnalysisHolds, PTL

(***************************************************************************)
(* The sort the graph is built with writes no row outside its bucket.      *)
(***************************************************************************)
THEOREM SortsInsideBuckets == SpecAnalysis => []WritesInsideBucket
<1>1. AnalysisInv => WritesInsideBucket
  BY Room DEF AnalysisInv, WholeInv, WritesInsideBucket, Sort!WritesInsideBucket
<1> QED BY <1>1, AnalysisHolds, PTL

(***************************************************************************)
(* The same sort returns every caller's calls in the order of the table,   *)
(* so that the graph's edges are in it too.                                *)
(***************************************************************************)
THEOREM SortKeepsTheOrder == SpecAnalysis => []StableGroups
<1>1. AnalysisInv => StableGroups
  BY Stable DEF AnalysisInv, WholeInv, StableGroups
<1> QED BY <1>1, AnalysisHolds, PTL

=============================================================================

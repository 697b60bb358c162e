------------------------------- MODULE Compiled -------------------------------
(***************************************************************************)
(* A body is ported, a Rust compiler reads the port, and what the compiler *)
(* says of it is repaired.  zag calls neither the compiler nor             *)
(* crates/zag-repair: the two parts meet in a source and in a report made  *)
(* of it, which is all this module adds.  A body whose operators have two  *)
(* integers on their sides, which Written shows there are, is reported for *)
(* one of them, as rustc does; one body, ReportedOn, stands for every      *)
(* other source, with every report and every list of repairs given to it.  *)
(***************************************************************************)
EXTENDS Repair, Written

CONSTANTS
  ReportedOn,   \* the body that Reports and Given are about
  Spelling      \* the letter and the rest of a number's name

VARIABLE compiled    \* whether the compiler has read the port

InitCompiled ==
  /\ InitBody
  /\ phase = "Planning" /\ report = << >> /\ repairs = << >>
  /\ read = 0 /\ order = << >> /\ next = 1 /\ out = << >> /\ cursor = 0
  /\ compiled = FALSE

WriteBody == NextBody /\ UNCHANGED <<vars, compiled>>

\* What rustc says of an operator whose sides are two integers, in a body it can read:
\* the left one is what it expects.
Mismatch(n) ==
  [ code |-> "MismatchedTypes", span_start |-> 0, span_end |-> Length,
    expected |-> Spelling[NumberOf(n.children[1])],
    found |-> Spelling[NumberOf(n.children[2])] ]

Mismatches ==
  IF HasABody /\ ~ ReadsApart
  THEN { Mismatch(n) : n \in { m \in WrittenNodes : IsJoined(m) /\ ~ Meet(m) } }
  ELSE {}

\* A body nothing is said of needs no repair.
Compile ==
  /\ body # 0 /\ ~ compiled
  /\ compiled' = TRUE
  /\ \/ /\ report' \in IF function = ReportedOn THEN Reports
                       ELSE { <<mismatch>> : mismatch \in Mismatches }
        /\ UNCHANGED <<phase, repairs>>
     \/ /\ function = ReportedOn
        /\ phase' = "Sorting" /\ repairs' \in Given
        /\ UNCHANGED report
  /\ UNCHANGED <<read, order, next, out, cursor, writing>>

RepairIt == compiled /\ Next /\ UNCHANGED <<writing, compiled>>

NextCompiled == WriteBody \/ Compile \/ RepairIt

SpecCompiled == InitCompiled /\ [][NextCompiled]_<<vars, writing, compiled>>

===============================================================================

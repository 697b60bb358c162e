------------------------------- MODULE Repair -------------------------------
(***************************************************************************)
(* Repairing what the compiler refuses (crates/zag-repair/src/lib.rs).     *)
(* plan_repairs makes a conversion of every mismatch between two integer   *)
(* types the compiler reports; apply_repairs sorts the repairs by the      *)
(* spans they wrap, refuses spans that are not in the source and spans     *)
(* that overlap, and copies the source with each span wrapped.             *)
(*                                                                         *)
(* The bytes of a source are told apart by where they are.  What a repair  *)
(* puts in is one member of the output before its span and one after.      *)
(***************************************************************************)
EXTENDS Naturals, Sequences, SequencesExt, FiniteSets

CONSTANTS
  Length,     \* of the source, in bytes
  Reports,    \* what the compiler may report, each a sequence of diagnostics
  Given       \* repairs that are applied without being planned

Diagnostic ==
  [ code : {"MismatchedTypes", "Unhandled"}, span_start : Nat, span_end : Nat,
    expected : Seq(STRING), found : Seq(STRING) ]

\* What a repair puts in: a conversion by from or try_from to a type, or a mark
\* of its own.
Inserted == {"from", "try_from", "mark"} \X Seq(STRING)
RepairType == [span_start : Nat, span_end : Nat, wrap : Inserted]

ASSUME RepairAssumption ==
  /\ Length \in Nat
  /\ Reports \subseteq Seq(Diagnostic)
  /\ Given \subseteq Seq(RepairType)

VARIABLES
  phase,      \* "Planning", "Sorting", "Checking", "Writing", "Done" or "Refused"
  report,
  read,       \* how many of its diagnostics are planned for
  repairs,
  order,      \* the repairs by their spans
  next,       \* where in order the writer is
  out,
  cursor      \* how much of the source is written

vars == <<phase, report, read, repairs, order, next, out, cursor>>

-----------------------------------------------------------------------------
(* Planning.                                                               *)

\* The name of a type is its first letter and the rest, or a word of its own.
\* No compiler writes a width with a sign or a leading zero, which parse takes.
Widths == [rest \in {"8", "16", "32", "64", "128"} |->
             CASE rest = "8" -> 8 [] rest = "16" -> 16 [] rest = "32" -> 32
               [] rest = "64" -> 64 [] rest = "128" -> 128]
MachineWidth == 0

IsInteger(name) ==
  /\ Len(name) = 2
  /\ name[1] \in {"u", "i"}
  /\ name[2] \in DOMAIN Widths \cup {"size"}

IntegerType(name) ==
  [ signed |-> name[1] = "i",
    width |-> IF name[2] = "size" THEN MachineWidth ELSE Widths[name[2]] ]

\* Mutant of Widens: a wider type is taken for one that holds more.
WidensUnsigned(found, expected) ==
  /\ MachineWidth \notin {found.width, expected.width}
  /\ found.width < expected.width

Widens(found, expected) ==
  /\ found.signed = expected.signed
  /\ MachineWidth \notin {found.width, expected.width}
  /\ found.width < expected.width

IsRepaired(diagnostic) ==
  /\ diagnostic.code = "MismatchedTypes"
  /\ diagnostic.span_start <= diagnostic.span_end
  /\ IsInteger(diagnostic.expected) /\ IsInteger(diagnostic.found)
  /\ IntegerType(diagnostic.expected) # IntegerType(diagnostic.found)

RepairFor(diagnostic) ==
  [ span_start |-> diagnostic.span_start, span_end |-> diagnostic.span_end,
    wrap |-> << IF Widens(IntegerType(diagnostic.found),
                          IntegerType(diagnostic.expected))
                THEN "from" ELSE "try_from",
                diagnostic.expected >> ]

Plan ==
  /\ phase = "Planning"
  /\ read < Len(report)
  /\ read' = read + 1
  /\ repairs' = IF IsRepaired(report[read + 1])
                THEN Append(repairs, RepairFor(report[read + 1])) ELSE repairs
  /\ UNCHANGED <<phase, report, order, next, out, cursor>>

Planned ==
  /\ phase = "Planning"
  /\ read = Len(report)
  /\ phase' = "Sorting"
  /\ UNCHANGED <<report, read, repairs, order, next, out, cursor>>

-----------------------------------------------------------------------------
(* Applying.                                                               *)

\* Mutant of ComesBefore: the repairs are sorted by where their spans start.
StartsBefore(i, j) ==
  \/ repairs[i].span_start < repairs[j].span_start
  \/ repairs[i].span_start = repairs[j].span_start /\ i < j

\* The sort is stable.
ComesBefore(i, j) ==
  LET a == repairs[i]  b == repairs[j]
  IN \/ a.span_start < b.span_start
     \/ a.span_start = b.span_start /\ a.span_end < b.span_end
     \/ a.span_start = b.span_start /\ a.span_end = b.span_end /\ i < j

Sort ==
  /\ phase = "Sorting"
  /\ phase' = "Checking"
  /\ \E sorted \in Bijection(DOMAIN repairs, DOMAIN repairs) :
       /\ \A i, j \in DOMAIN repairs : i < j => ComesBefore(sorted[i], sorted[j])
       /\ order' = sorted
  /\ UNCHANGED <<report, read, repairs, next, out, cursor>>

InRange(repair) == repair.span_start <= repair.span_end /\ repair.span_end <= Length

AllInRange == \A i \in DOMAIN repairs : InRange(repairs[i])

NeighboursAreApart ==
  \A i \in DOMAIN order :
    i + 1 \in DOMAIN order
      => repairs[order[i]].span_end <= repairs[order[i + 1]].span_start

\* Which repair the refusal names is left out.
RefuseSpan ==
  /\ phase = "Checking"
  /\ ~ AllInRange
  /\ phase' = "Refused"
  /\ UNCHANGED <<report, read, repairs, order, next, out, cursor>>

RefuseOverlap ==
  /\ phase = "Checking"
  /\ AllInRange /\ ~ NeighboursAreApart
  /\ phase' = "Refused"
  /\ UNCHANGED <<report, read, repairs, order, next, out, cursor>>

Accept ==
  /\ phase = "Checking"
  /\ AllInRange /\ NeighboursAreApart
  /\ phase' = "Writing"
  /\ UNCHANGED <<report, read, repairs, order, next, out, cursor>>

Byte(at) == [kind |-> "byte", at |-> at]
Opens(repair) == [kind |-> "opens", wrap |-> repair.wrap]
Closes(repair) == [kind |-> "closes", wrap |-> repair.wrap]

\* source[from..to]
Slice(from, to) == [i \in 1 .. to - from |-> Byte(from + i)]

\* Mutant of Rest: what follows a span is copied from where the span starts.
RestOfTheSpan(repair) == repair.span_start

Rest(repair) == repair.span_end

Wrap ==
  /\ phase = "Writing"
  /\ next <= Len(order)
  /\ LET repair == repairs[order[next]]
     IN /\ out' = out \o Slice(cursor, repair.span_start)
                      \o <<Opens(repair)>>
                      \o Slice(repair.span_start, repair.span_end)
                      \o <<Closes(repair)>>
        /\ cursor' = Rest(repair)
  /\ next' = next + 1
  /\ UNCHANGED <<phase, report, read, repairs, order>>

Finish ==
  /\ phase = "Writing"
  /\ next > Len(order)
  /\ phase' = "Done"
  /\ out' = out \o Slice(cursor, Length)
  /\ UNCHANGED <<report, read, repairs, order, next, cursor>>

Init ==
  /\ \/ phase = "Planning" /\ report \in Reports /\ repairs = << >>
     \/ phase = "Sorting" /\ report = << >> /\ repairs \in Given
  /\ read = 0
  /\ order = << >>
  /\ next = 1
  /\ out = << >>
  /\ cursor = 0

Next ==
  Plan \/ Planned \/ Sort \/ RefuseSpan \/ RefuseOverlap \/ Accept \/ Wrap \/ Finish

Spec == Init /\ [][Next]_vars

-----------------------------------------------------------------------------
(* What is true of it.                                                     *)

\* The bytes of the source that are in the output.
Bytes == { i \in DOMAIN out : out[i].kind = "byte" }

\* Where the k-th of the sorted repairs opens: behind the source up to its span and
\* the two that each repair before it put in.
OpensAt(k) == repairs[order[k]].span_start + 2 * k - 1

\* From there a repair opens, has its span behind it, and closes.
Wraps(repair, at) ==
  LET width == repair.span_end - repair.span_start
  IN /\ at \in DOMAIN out /\ at + width + 1 \in DOMAIN out
     /\ out[at] = Opens(repair)
     /\ \A i \in 1 .. width : out[at + i] = Byte(repair.span_start + i)
     /\ out[at + width + 1] = Closes(repair)

\* A source that was repaired is the source as it was once what was put in is
\* taken out, and every repair is in it once, about its own span and nothing
\* else (lib.rs, apply_repairs).  Where the spans differ this leaves one output,
\* so the order the repairs arrive in does not change it; two that insert at
\* one place are in the order they came.
EachSpanIsWrapped ==
  phase = "Done" =>
    /\ \A i, j \in Bytes : i < j => out[i].at < out[j].at
    /\ { out[i].at : i \in Bytes } = 1 .. Length
    /\ Len(out) = Length + 2 * Len(repairs)
    /\ \A k \in DOMAIN repairs : Wraps(repairs[order[k]], OpensAt(k))

Apart(a, b) == a.span_end <= b.span_start \/ b.span_end <= a.span_start

\* Repairs are refused when a span is not in the source or two of them have a
\* byte in common or one is inside the other, whatever order they come in, and
\* never otherwise (lib.rs, apply_repairs, which compares neighbours only).
RefusedWhenNotApart ==
  phase \in {"Done", "Refused"} =>
    (phase = "Done" <=>
       /\ \A i \in DOMAIN repairs : InRange(repairs[i])
       /\ \A i, j \in DOMAIN repairs : i # j => Apart(repairs[i], repairs[j]))

\* How many bits say how far from zero a value of a type may be.
Bits(type, machine) ==
  LET width == IF type.width = MachineWidth THEN machine ELSE type.width
  IN IF type.signed THEN width - 1 ELSE width

Holds(expected, found) ==
  \A machine \in {16, 32, 64} :
    /\ found.signed => expected.signed
    /\ Bits(found, machine) <= Bits(expected, machine)

\* Every mismatch of integers is repaired to the type that was expected, and by
\* a conversion that cannot fail only if every value of what was found is one of
\* what was expected, whatever the machine (lib.rs, widens and repair_for).
ConversionsKeepTheValue ==
  phase # "Planning" =>
    \A i \in DOMAIN report :
      IsRepaired(report[i]) =>
        \E k \in DOMAIN repairs :
          /\ repairs[k].span_start = report[i].span_start
          /\ repairs[k].span_end = report[i].span_end
          /\ repairs[k].wrap[2] = report[i].expected
          /\ repairs[k].wrap[1] = "from"
               => Holds(IntegerType(report[i].expected), IntegerType(report[i].found))

\* What is sliced is in order and in the source: apply_repairs never panics
\* (lib.rs, source[cursor..repair.span_start], crates/zag-repair/tests/repair.rs).
SlicesAreInside ==
  /\ phase \in {"Writing", "Done"} => cursor <= Length
  /\ phase = "Writing" /\ next \in DOMAIN order =>
       LET repair == repairs[order[next]]
       IN /\ cursor <= repair.span_start
          /\ repair.span_start <= repair.span_end
          /\ repair.span_end <= Length

=============================================================================

---------------------------- MODULE RepairProofs ----------------------------
(***************************************************************************)
(* For every source, every report and every list of repairs: what is       *)
(* refused is what is not apart, and what is written is sliced in order    *)
(* and inside the source.                                                  *)
(*                                                                         *)
(* Neighbours are all the code compares.  That is enough because the       *)
(* repairs are sorted: what ends before its neighbour starts ends before   *)
(* everything after that starts.                                           *)
(***************************************************************************)
EXTENDS Repair, SequenceTheorems, TLAPS

\* What is planned so far, and what of it there is to read.
Typed ==
  /\ repairs \in Seq(RepairType)
  /\ report \in Seq(Diagnostic)
  /\ read \in 0 .. Len(report)
  /\ next \in Nat \ {0}
  /\ cursor \in Nat
  /\ phase \in {"Planning", "Sorting", "Checking", "Writing", "Done", "Refused"}

\* From when it is made, the order is every repair once, by its span.
Ordered ==
  phase \in {"Checking", "Writing", "Done", "Refused"} =>
    /\ order \in Bijection(DOMAIN repairs, DOMAIN repairs)
    /\ \A i, j \in DOMAIN repairs : i < j => ComesBefore(order[i], order[j])

\* The answer is what the comparison of neighbours said.
Answered ==
  /\ phase \in {"Writing", "Done"} => AllInRange /\ NeighboursAreApart
  /\ phase = "Refused" => ~ (AllInRange /\ NeighboursAreApart)

\* The writer is where the last span ended, which is not past the next.
AtTheCursor ==
  /\ phase \in {"Planning", "Sorting", "Checking"} => next = 1 /\ cursor = 0
  /\ phase \in {"Writing", "Done"} => cursor <= Length
  /\ phase = "Writing" /\ next \in DOMAIN order =>
       cursor <= repairs[order[next]].span_start

IInv == Typed /\ Ordered /\ Answered /\ AtTheCursor

-----------------------------------------------------------------------------
(* The order.                                                              *)

LEMMA RepairIsTyped ==
  ASSUME Typed, NEW i \in DOMAIN repairs
  PROVE  /\ repairs[i] \in RepairType
         /\ repairs[i].span_start \in Nat
         /\ repairs[i].span_end \in Nat
<1>1. repairs[i] \in RepairType
  BY ElementOfSeq DEF Typed
<1> QED BY <1>1 DEF RepairType

LEMMA Positions ==
  ASSUME Typed, order \in Bijection(DOMAIN repairs, DOMAIN repairs)
  PROVE  /\ DOMAIN order = DOMAIN repairs
         /\ DOMAIN repairs = 1 .. Len(repairs)
         /\ Len(repairs) \in Nat
         /\ Len(order) = Len(repairs)
         /\ \A i \in DOMAIN repairs : order[i] \in DOMAIN repairs
         /\ \A k \in DOMAIN repairs : \E i \in DOMAIN repairs : order[i] = k
<1>1. order \in [DOMAIN repairs -> DOMAIN repairs]
  BY DEF Bijection, Injection
<1>2. DOMAIN repairs = 1 .. Len(repairs) /\ Len(repairs) \in Nat
  BY DEF Typed
<1>3. Len(order) = Len(repairs)
  <2>1. order \in Seq(DOMAIN repairs)
    BY <1>1, <1>2, SeqDef
  <2> QED BY <2>1, <1>1, <1>2
<1>4. \A k \in DOMAIN repairs : \E i \in DOMAIN repairs : order[i] = k
  BY DEF Bijection, Surjection
<1> QED BY <1>1, <1>2, <1>3, <1>4

LEMMA NeighboursAreEnough ==
  ASSUME Typed, NEW i \in DOMAIN repairs, NEW j \in DOMAIN repairs, i < j,
         order \in Bijection(DOMAIN repairs, DOMAIN repairs),
         \A k, l \in DOMAIN repairs : k < l => ComesBefore(order[k], order[l]),
         NeighboursAreApart
  PROVE  repairs[order[i]].span_end <= repairs[order[j]].span_start
<1>1. i + 1 \in DOMAIN repairs /\ i + 1 <= j /\ i \in Nat /\ j \in Nat
  <2>1. DOMAIN repairs = 1 .. Len(repairs) /\ Len(repairs) \in Nat
    BY Positions
  <2> QED BY <2>1
<1>2. repairs[order[i]].span_end <= repairs[order[i + 1]].span_start
  BY <1>1, Positions DEF NeighboursAreApart
<1>3. CASE i + 1 = j
  BY <1>2, <1>3
<1>4. CASE i + 1 < j
  <2>1. ComesBefore(order[i + 1], order[j])
    BY <1>1, <1>4
  <2>2. order[i] \in DOMAIN repairs /\ order[i + 1] \in DOMAIN repairs
        /\ order[j] \in DOMAIN repairs
    BY <1>1, Positions
  <2>3. /\ repairs[order[i]].span_end \in Nat
        /\ repairs[order[i + 1]].span_start \in Nat
        /\ repairs[order[j]].span_start \in Nat
    BY <2>2, RepairIsTyped
  <2>4. repairs[order[i + 1]].span_start <= repairs[order[j]].span_start
    BY <2>1, <2>3 DEF ComesBefore
  <2> QED BY <1>2, <2>3, <2>4
<1> QED BY <1>1, <1>3, <1>4

-----------------------------------------------------------------------------
(* The verdict.                                                            *)

LEMMA AcceptedIsApart ==
  ASSUME Typed, order \in Bijection(DOMAIN repairs, DOMAIN repairs),
         \A k, l \in DOMAIN repairs : k < l => ComesBefore(order[k], order[l]),
         NeighboursAreApart,
         NEW a \in DOMAIN repairs, NEW b \in DOMAIN repairs, a # b
  PROVE  Apart(repairs[a], repairs[b])
<1>1. PICK i \in DOMAIN repairs : order[i] = a
  BY Positions
<1>2. PICK j \in DOMAIN repairs : order[j] = b
  BY Positions
<1>3. i < j \/ j < i
  BY <1>1, <1>2, Positions
<1>4. CASE i < j
  BY <1>1, <1>2, <1>4, NeighboursAreEnough DEF Apart
<1>5. CASE j < i
  BY <1>1, <1>2, <1>5, NeighboursAreEnough DEF Apart
<1> QED BY <1>3, <1>4, <1>5

LEMMA RefusedIsNotApart ==
  ASSUME Typed, order \in Bijection(DOMAIN repairs, DOMAIN repairs),
         \A k, l \in DOMAIN repairs : k < l => ComesBefore(order[k], order[l]),
         AllInRange, ~ NeighboursAreApart
  PROVE  \E a, b \in DOMAIN repairs : a # b /\ ~ Apart(repairs[a], repairs[b])
<1>1. PICK i \in DOMAIN order :
        /\ i + 1 \in DOMAIN order
        /\ ~ (repairs[order[i]].span_end <= repairs[order[i + 1]].span_start)
  BY DEF NeighboursAreApart
<1> DEFINE a == order[i]
<1> DEFINE b == order[i + 1]
<1>2. a \in DOMAIN repairs /\ b \in DOMAIN repairs
  BY <1>1, Positions
<1>3. ComesBefore(a, b)
  BY <1>1, Positions
<1>4. /\ repairs[a].span_start \in Nat /\ repairs[a].span_end \in Nat
      /\ repairs[b].span_start \in Nat /\ repairs[b].span_end \in Nat
  BY <1>2, RepairIsTyped
<1>5. repairs[a].span_start <= repairs[a].span_end
      /\ repairs[b].span_start <= repairs[b].span_end
  BY <1>2 DEF AllInRange, InRange
<1>6. ~ Apart(repairs[a], repairs[b])
  <2>1. repairs[b].span_start < repairs[a].span_end
    BY <1>1, <1>4
  <2> HIDE DEF a, b
  <2> QED BY <2>1, <1>3, <1>4, <1>5 DEF ComesBefore, Apart
<1>7. a # b
  <2> a \in Nat /\ b \in Nat
    <3>1. DOMAIN repairs = 1 .. Len(repairs)
      BY Positions
    <3> HIDE DEF a, b
    <3> QED BY <3>1, <1>2
  <2> HIDE DEF a, b
  <2> QED BY <1>3, <1>4 DEF ComesBefore
<1> QED BY <1>2, <1>6, <1>7

-----------------------------------------------------------------------------
(* The invariant.                                                          *)

LEMMA Initially == Init => IInv
<1> SUFFICES ASSUME Init PROVE IInv
  OBVIOUS
<1>1. Typed
  <2> << >> \in Seq(RepairType) /\ << >> \in Seq(Diagnostic)
    OBVIOUS
  <2>1. repairs \in Seq(RepairType)
    BY RepairAssumption DEF Init
  <2>2. report \in Seq(Diagnostic)
    BY RepairAssumption DEF Init
  <2>3. read \in 0 .. Len(report)
    BY <2>2 DEF Init
  <2> QED BY <2>1, <2>2, <2>3 DEF Init, Typed
<1> QED BY <1>1 DEF Init, IInv, Ordered, Answered, AtTheCursor

LEMMA PlannedIsTyped ==
  ASSUME NEW diagnostic \in Diagnostic
  PROVE  RepairFor(diagnostic) \in RepairType
<1>1. /\ diagnostic.span_start \in Nat /\ diagnostic.span_end \in Nat
      /\ diagnostic.expected \in Seq(STRING)
  BY DEF Diagnostic
<1>2. RepairFor(diagnostic).wrap \in Inserted
  <2> DEFINE how == IF Widens(IntegerType(diagnostic.found),
                              IntegerType(diagnostic.expected))
                    THEN "from" ELSE "try_from"
  <2>1. how \in {"from", "try_from", "mark"}
    OBVIOUS
  <2>2. RepairFor(diagnostic).wrap = <<how, diagnostic.expected>>
    BY DEF RepairFor
  <2> HIDE DEF how
  <2> QED BY <1>1, <2>1, <2>2 DEF Inserted
<1> QED BY <1>1, <1>2 DEF RepairFor, RepairType

LEMMA PlanStep == IInv /\ Plan => IInv'
<1> SUFFICES ASSUME IInv, Plan PROVE IInv'
  OBVIOUS
<1> USE DEF IInv
<1>1. report[read + 1] \in Diagnostic
  <2>1. read + 1 \in 1 .. Len(report)
    BY DEF Typed, Plan
  <2> QED BY <2>1 DEF Typed
<1>2. repairs' \in Seq(RepairType)
  BY <1>1, PlannedIsTyped DEF Typed, Plan
<1>3. read' \in 0 .. Len(report)
  BY DEF Typed, Plan
<1>4. Typed'
  BY <1>2, <1>3 DEF Typed, Plan
<1> QED BY <1>4 DEF Plan, Ordered, Answered, AtTheCursor

LEMMA PlannedStep == IInv /\ Planned => IInv'
BY DEF IInv, Planned, Typed, Ordered, Answered, AtTheCursor

LEMMA SortStep == IInv /\ Sort => IInv'
<1> SUFFICES ASSUME IInv, Sort PROVE IInv'
  OBVIOUS
<1>1. Typed'
  BY DEF IInv, Sort, Typed
<1>2. Ordered'
  <2>1. PICK sorted \in Bijection(DOMAIN repairs, DOMAIN repairs) :
          /\ \A i, j \in DOMAIN repairs : i < j => ComesBefore(sorted[i], sorted[j])
          /\ order' = sorted
    BY DEF Sort
  <2>2. repairs' = repairs
    BY DEF Sort
  <2> QED BY <2>1, <2>2 DEF Ordered, ComesBefore
<1>3. Answered' /\ AtTheCursor'
  BY DEF IInv, Sort, Answered, AtTheCursor
<1> QED BY <1>1, <1>2, <1>3 DEF IInv

LEMMA RefuseStep == IInv /\ (RefuseSpan \/ RefuseOverlap) => IInv'
<1> SUFFICES ASSUME IInv, RefuseSpan \/ RefuseOverlap PROVE IInv'
  OBVIOUS
<1>1. phase = "Checking" /\ phase' = "Refused"
      /\ UNCHANGED <<report, read, repairs, order, next, out, cursor>>
  BY DEF RefuseSpan, RefuseOverlap
<1>2. ~ (AllInRange /\ NeighboursAreApart)
  BY DEF RefuseSpan, RefuseOverlap
<1>3. (~ (AllInRange /\ NeighboursAreApart))'
  BY <1>1, <1>2 DEF AllInRange, InRange, NeighboursAreApart
<1>4. Typed' /\ Ordered'
  BY <1>1 DEF IInv, Typed, Ordered, ComesBefore
<1> QED BY <1>1, <1>3, <1>4 DEF IInv, Answered, AtTheCursor

LEMMA AcceptStep == IInv /\ Accept => IInv'
<1> SUFFICES ASSUME IInv, Accept PROVE IInv'
  OBVIOUS
<1>1. phase = "Checking" /\ phase' = "Writing"
      /\ UNCHANGED <<report, read, repairs, order, next, out, cursor>>
  BY DEF Accept
<1>2. (AllInRange /\ NeighboursAreApart)'
  BY <1>1 DEF Accept, AllInRange, InRange, NeighboursAreApart
<1>3. Typed' /\ Ordered'
  BY <1>1 DEF IInv, Typed, Ordered, ComesBefore
<1>4. next = 1 /\ cursor = 0
  BY <1>1 DEF IInv, AtTheCursor
<1>5. cursor <= Length
  BY <1>4, RepairAssumption
<1>6. next \in DOMAIN order => cursor <= repairs[order[next]].span_start
  <2> SUFFICES ASSUME next \in DOMAIN order
               PROVE  cursor <= repairs[order[next]].span_start
    OBVIOUS
  <2>1. order[next] \in DOMAIN repairs
    BY <1>1, Positions DEF IInv, Ordered
  <2>2. repairs[order[next]].span_start \in Nat
    BY <2>1, RepairIsTyped DEF IInv
  <2> QED BY <2>2, <1>4
<1> QED BY <1>1, <1>2, <1>3, <1>5, <1>6 DEF IInv, Answered, AtTheCursor

LEMMA WrapStep == IInv /\ Wrap => IInv'
<1> SUFFICES ASSUME IInv, Wrap PROVE IInv'
  OBVIOUS
<1>1. phase = "Writing" /\ next <= Len(order) /\ next' = next + 1
      /\ cursor' = repairs[order[next]].span_end
      /\ UNCHANGED <<phase, report, read, repairs, order>>
  BY DEF Wrap, Rest
<1>2. Typed /\ order \in Bijection(DOMAIN repairs, DOMAIN repairs)
  BY <1>1 DEF IInv, Ordered
<1>3. next \in DOMAIN repairs /\ next \in Nat
  BY <1>1, <1>2, Positions DEF Typed
<1>4. order[next] \in DOMAIN repairs
  BY <1>2, <1>3, Positions
<1>5. repairs[order[next]].span_end \in Nat
  BY <1>2, <1>4, RepairIsTyped
<1>6. Typed'
  BY <1>1, <1>2, <1>3, <1>5 DEF Typed
<1>7. Ordered'
  BY <1>1 DEF IInv, Ordered, ComesBefore
<1>8. AllInRange /\ NeighboursAreApart
  BY <1>1 DEF IInv, Answered
<1>9. Answered'
  BY <1>1, <1>8 DEF Answered, AllInRange, InRange, NeighboursAreApart
<1>10. cursor' <= Length
  BY <1>1, <1>4, <1>8 DEF AllInRange, InRange
<1>11. next' \in DOMAIN order' => cursor' <= repairs'[order'[next']].span_start
  BY <1>1, <1>2, <1>3, <1>8, Positions DEF NeighboursAreApart
<1> QED BY <1>1, <1>6, <1>7, <1>9, <1>10, <1>11 DEF IInv, AtTheCursor

LEMMA FinishStep == IInv /\ Finish => IInv'
<1> SUFFICES ASSUME IInv, Finish PROVE IInv'
  OBVIOUS
<1>1. phase = "Writing" /\ phase' = "Done"
      /\ UNCHANGED <<report, read, repairs, order, next, cursor>>
  BY DEF Finish
<1>2. Typed' /\ Ordered'
  BY <1>1 DEF IInv, Typed, Ordered, ComesBefore
<1>3. Answered'
  BY <1>1 DEF IInv, Answered, AllInRange, InRange, NeighboursAreApart
<1> QED BY <1>1, <1>2, <1>3 DEF IInv, AtTheCursor

\* The order is sorted, the verdict is the comparison's, and the writer is never
\* past the next span (lib.rs, apply_repairs).
THEOREM Invariant == Spec => []IInv
<1>1. IInv /\ [Next]_vars => IInv'
  <2> SUFFICES ASSUME IInv, [Next]_vars PROVE IInv'
    OBVIOUS
  <2>1. CASE UNCHANGED vars
    BY <2>1 DEF vars, IInv, Typed, Ordered, Answered, AtTheCursor, ComesBefore,
                AllInRange, InRange, NeighboursAreApart
  <2>2. CASE Next
    BY <2>2, PlanStep, PlannedStep, SortStep, RefuseStep, AcceptStep, WrapStep,
       FinishStep DEF Next
  <2> QED BY <2>1, <2>2
<1> QED BY Initially, <1>1, PTL DEF Spec

\* Comparing neighbours refuses exactly the repairs of which one is not in the
\* source or two are not apart (lib.rs, apply_repairs).
THEOREM RefusalsAreRight == Spec => []RefusedWhenNotApart
<1>1. IInv => RefusedWhenNotApart
  <2> SUFFICES ASSUME IInv PROVE RefusedWhenNotApart
    OBVIOUS
  <2>1. CASE phase = "Done"
    BY <2>1, AcceptedIsApart
      DEF IInv, Ordered, Answered, AllInRange, RefusedWhenNotApart
  <2>2. CASE phase = "Refused" /\ AllInRange
    BY <2>2, RefusedIsNotApart DEF IInv, Ordered, Answered, RefusedWhenNotApart
  <2>3. CASE phase = "Refused" /\ ~ AllInRange
    BY <2>3 DEF AllInRange, RefusedWhenNotApart
  <2> QED BY <2>1, <2>2, <2>3 DEF RefusedWhenNotApart
<1> QED BY Invariant, <1>1, PTL

\* What is sliced is in order and inside the source: no panic, whatever repairs
\* are given (lib.rs, apply_repairs).
THEOREM NothingPanics == Spec => []SlicesAreInside
<1>1. IInv => SlicesAreInside
  <2> SUFFICES ASSUME IInv, phase = "Writing", next \in DOMAIN order
               PROVE  /\ repairs[order[next]].span_start <= repairs[order[next]].span_end
                      /\ repairs[order[next]].span_end <= Length
    BY DEF IInv, AtTheCursor, SlicesAreInside
  <2>1. order[next] \in DOMAIN repairs
    BY Positions DEF IInv, Ordered
  <2> QED BY <2>1 DEF IInv, Answered, AllInRange, InRange
<1> QED BY Invariant, <1>1, PTL

-----------------------------------------------------------------------------
(* The output.                                                             *)

\* What an output is made of.
Elements ==
  [kind : {"byte"}, at : Nat] \cup [kind : {"opens", "closes"}, wrap : Inserted]

\* The bytes in a sequence are those of the source up to one of them, in order.
BytesIn(seq) == { i \in DOMAIN seq : seq[i].kind = "byte" }

IsSource(seq, upto) ==
  /\ \A i, j \in BytesIn(seq) : i < j => seq[i].at < seq[j].at
  /\ \A i \in BytesIn(seq) : seq[i].at \in 1 .. upto
  /\ \A b \in 1 .. upto : \E i \in BytesIn(seq) : seq[i].at = b

WrapsIn(seq, repair, at) ==
  LET width == repair.span_end - repair.span_start
  IN /\ at \in DOMAIN seq /\ at + width + 1 \in DOMAIN seq
     /\ seq[at] = Opens(repair)
     /\ \A i \in 1 .. width : seq[at + i] = Byte(repair.span_start + i)
     /\ seq[at + width + 1] = Closes(repair)

\* The output has the source up to a place, and the first of the repairs, each
\* where it opens.
Copied(upto, first) ==
  /\ out \in Seq(Elements)
  /\ Len(out) = upto + 2 * first
  /\ IsSource(out, upto)
  /\ \A k \in 1 .. first : WrapsIn(out, repairs[order[k]], OpensAt(k))

Output ==
  /\ phase \in {"Planning", "Sorting", "Checking"} => out = << >>
  /\ phase = "Writing" => next <= Len(order) + 1 /\ Copied(cursor, next - 1)
  /\ phase = "Done" => Copied(Length, Len(repairs))

\* What is in a sequence is in it when it goes on.
LEMMA Longer ==
  ASSUME NEW seq \in Seq(Elements), NEW more \in Seq(Elements)
  PROVE  /\ seq \o more \in Seq(Elements)
         /\ Len(seq \o more) = Len(seq) + Len(more)
         /\ Len(seq) \in Nat /\ DOMAIN seq = 1 .. Len(seq)
         /\ DOMAIN (seq \o more) = 1 .. Len(seq) + Len(more)
         /\ \A i \in DOMAIN seq : (seq \o more)[i] = seq[i]
         /\ \A i \in 1 .. Len(more) : (seq \o more)[Len(seq) + i] = more[i]
BY ConcatProperties

\* The next of the source is copied behind what is there of it.
LEMMA SliceMore ==
  ASSUME NEW seq \in Seq(Elements), NEW from \in Nat, NEW to \in Nat, from <= to,
         IsSource(seq, from)
  PROVE  /\ seq \o Slice(from, to) \in Seq(Elements)
         /\ Len(seq \o Slice(from, to)) = Len(seq) + (to - from)
         /\ \A i \in DOMAIN seq : (seq \o Slice(from, to))[i] = seq[i]
         /\ \A i \in 1 .. to - from :
              (seq \o Slice(from, to))[Len(seq) + i] = Byte(from + i)
         /\ IsSource(seq \o Slice(from, to), to)
<1> DEFINE more == Slice(from, to)
           long == seq \o more
<1>1. /\ more \in Seq(Elements) /\ Len(more) = to - from
      /\ \A i \in 1 .. to - from : more[i] = Byte(from + i)
  <2>1. to - from \in Nat
    OBVIOUS
  <2>2. \A i \in 1 .. to - from : Byte(from + i) \in Elements
    BY <2>1 DEF Byte, Elements
  <2> QED BY <2>1, <2>2 DEF Slice
<1> HIDE DEF more
<1>2. /\ long \in Seq(Elements)
      /\ Len(long) = Len(seq) + (to - from)
      /\ Len(seq) \in Nat /\ to - from \in Nat
      /\ DOMAIN seq = 1 .. Len(seq)
      /\ DOMAIN long = 1 .. Len(seq) + (to - from)
      /\ \A i \in DOMAIN seq : long[i] = seq[i]
      /\ \A i \in 1 .. to - from : long[Len(seq) + i] = Byte(from + i)
  <2>1. /\ long \in Seq(Elements)
        /\ Len(long) = Len(seq) + Len(more)
        /\ Len(seq) \in Nat /\ DOMAIN seq = 1 .. Len(seq)
        /\ DOMAIN long = 1 .. Len(seq) + Len(more)
        /\ \A i \in DOMAIN seq : long[i] = seq[i]
        /\ \A i \in 1 .. Len(more) : long[Len(seq) + i] = more[i]
    <3> HIDE DEF long
    <3>1. long = seq \o more
      BY DEF long
    <3> QED BY <1>1, <3>1, Longer
  <2>2. to - from \in Nat
    OBVIOUS
  <2> HIDE DEF long
  <2> QED BY <1>1, <2>1, <2>2
<1> HIDE DEF long
<1>3. \A i \in DOMAIN long :
        \/ i \in DOMAIN seq /\ long[i] = seq[i]
        \/ /\ i > Len(seq) /\ i - Len(seq) \in 1 .. to - from
           /\ long[i] = Byte(from + (i - Len(seq)))
  <2> SUFFICES ASSUME NEW i \in DOMAIN long, i \notin DOMAIN seq
               PROVE  /\ i > Len(seq) /\ i - Len(seq) \in 1 .. to - from
                      /\ long[i] = Byte(from + (i - Len(seq)))
    BY <1>2
  <2>1. i > Len(seq) /\ i - Len(seq) \in 1 .. to - from /\ Len(seq) + (i - Len(seq)) = i
    BY <1>2
  <2> QED BY <1>2, <2>1
<1>4. \A n \in Nat : Byte(n).kind = "byte" /\ Byte(n).at = n
  BY DEF Byte
<1>5. \A i \in BytesIn(long) :
        \/ i \in BytesIn(seq) /\ long[i].at = seq[i].at /\ i <= Len(seq)
           /\ seq[i].at \in 1 .. from
        \/ i > Len(seq) /\ i - Len(seq) \in 1 .. to - from
           /\ long[i].at = from + (i - Len(seq))
  <2> SUFFICES ASSUME NEW i \in BytesIn(long)
               PROVE  \/ i \in BytesIn(seq) /\ long[i].at = seq[i].at /\ i <= Len(seq)
                         /\ seq[i].at \in 1 .. from
                      \/ i > Len(seq) /\ i - Len(seq) \in 1 .. to - from
                         /\ long[i].at = from + (i - Len(seq))
    OBVIOUS
  <2>1. i \in DOMAIN long /\ long[i].kind = "byte"
    BY DEF BytesIn
  <2>2. CASE i \in DOMAIN seq /\ long[i] = seq[i]
    BY <1>2, <2>1, <2>2 DEF BytesIn, IsSource
  <2>3. CASE /\ i > Len(seq) /\ i - Len(seq) \in 1 .. to - from
             /\ long[i] = Byte(from + (i - Len(seq)))
    BY <1>4, <2>3
  <2> QED BY <1>3, <2>1, <2>2, <2>3
<1>6. \A i, j \in BytesIn(long) : i < j => long[i].at < long[j].at
  <2> SUFFICES ASSUME NEW i \in BytesIn(long), NEW j \in BytesIn(long), i < j
               PROVE  long[i].at < long[j].at
    OBVIOUS
  <2>1. i \in Nat /\ j \in Nat
    BY <1>2 DEF BytesIn
  <2>2. CASE i \in BytesIn(seq) /\ j \in BytesIn(seq)
    <3>1. i <= Len(seq) /\ j <= Len(seq)
      BY <1>2, <2>2 DEF BytesIn
    <3>2. long[i].at = seq[i].at /\ long[j].at = seq[j].at
      BY <1>2, <1>5, <2>1, <3>1
    <3> QED BY <2>2, <3>2 DEF IsSource
  <2>3. CASE i > Len(seq) /\ j > Len(seq)
    BY <1>2, <1>5, <2>1, <2>3
  <2>4. CASE i \in BytesIn(seq) /\ j > Len(seq)
    BY <1>2, <1>5, <2>1, <2>4
  <2> QED BY <1>2, <1>5, <2>1, <2>2, <2>3, <2>4
<1>7. \A i \in BytesIn(long) : long[i].at \in 1 .. to
  BY <1>2, <1>5
<1>8. ASSUME NEW b \in 1 .. to PROVE \E i \in BytesIn(long) : long[i].at = b
  <2>1. CASE b <= from
    <3>1. PICK i \in BytesIn(seq) : seq[i].at = b
      BY <2>1 DEF IsSource
    <3>2. i \in BytesIn(long) /\ long[i].at = b
      BY <1>2, <3>1 DEF BytesIn
    <3> QED BY <3>2
  <2>2. CASE b > from
    <3>1. b - from \in 1 .. to - from /\ from + (b - from) = b /\ b \in Nat
      BY <2>2
    <3>2. long[Len(seq) + (b - from)] = Byte(b)
      BY <1>2, <3>1
    <3>3. Len(seq) + (b - from) \in DOMAIN long
      BY <1>2, <3>1
    <3> QED BY <1>4, <3>1, <3>2, <3>3 DEF BytesIn
  <2> QED BY <2>1, <2>2
<1>9. IsSource(long, to)
  BY <1>6, <1>7, <1>8 DEF IsSource
<1> QED BY <1>2, <1>9 DEF long, more

\* What a repair puts in is none of the source.
LEMMA MarkMore ==
  ASSUME NEW seq \in Seq(Elements), NEW upto \in Nat, IsSource(seq, upto),
         NEW mark \in Elements, mark.kind # "byte"
  PROVE  /\ seq \o <<mark>> \in Seq(Elements)
         /\ Len(seq \o <<mark>>) = Len(seq) + 1
         /\ \A i \in DOMAIN seq : (seq \o <<mark>>)[i] = seq[i]
         /\ (seq \o <<mark>>)[Len(seq) + 1] = mark
         /\ IsSource(seq \o <<mark>>, upto)
<1> DEFINE long == seq \o <<mark>>
<1>1. <<mark>> \in Seq(Elements) /\ Len(<<mark>>) = 1 /\ <<mark>>[1] = mark
  OBVIOUS
<1>2. /\ long \in Seq(Elements)
      /\ Len(long) = Len(seq) + 1
      /\ Len(seq) \in Nat
      /\ DOMAIN seq = 1 .. Len(seq)
      /\ DOMAIN long = 1 .. Len(seq) + 1
      /\ \A i \in DOMAIN seq : long[i] = seq[i]
      /\ long[Len(seq) + 1] = mark
  BY <1>1, Longer
<1> HIDE DEF long
<1>3. BytesIn(long) = BytesIn(seq)
  BY <1>2 DEF BytesIn
<1>4. \A i \in BytesIn(seq) : long[i] = seq[i]
  BY <1>2 DEF BytesIn
<1>5. IsSource(long, upto)
  BY <1>3, <1>4 DEF IsSource
<1> QED BY <1>2, <1>5 DEF long

\* A repair that is wrapped stays so.
LEMMA WrappedStays ==
  ASSUME NEW seq \in Seq(Elements), NEW long \in Seq(Elements), Len(seq) <= Len(long),
         \A i \in DOMAIN seq : long[i] = seq[i],
         NEW repair \in RepairType, repair.span_start <= repair.span_end,
         NEW at \in Nat, WrapsIn(seq, repair, at)
  PROVE  WrapsIn(long, repair, at)
<1> DEFINE width == repair.span_end - repair.span_start
<1>1. width \in Nat
  BY DEF RepairType
<1>2. /\ DOMAIN seq = 1 .. Len(seq) /\ Len(seq) \in Nat
      /\ DOMAIN long = 1 .. Len(long) /\ Len(long) \in Nat
  OBVIOUS
<1>3. /\ at \in DOMAIN seq /\ at + width + 1 \in DOMAIN seq
      /\ seq[at] = Opens(repair)
      /\ \A i \in 1 .. width : seq[at + i] = Byte(repair.span_start + i)
      /\ seq[at + width + 1] = Closes(repair)
  BY DEF WrapsIn
<1> HIDE DEF width
<1>4. at \in DOMAIN long /\ at + width + 1 \in DOMAIN long
  BY <1>2, <1>3
<1>5. \A i \in 1 .. width : at + i \in DOMAIN seq
  BY <1>1, <1>2, <1>3
<1>6. \A i \in 1 .. width : long[at + i] = Byte(repair.span_start + i)
  BY <1>3, <1>5
<1>7. long[at] = Opens(repair) /\ long[at + width + 1] = Closes(repair)
  BY <1>3
<1> QED BY <1>4, <1>6, <1>7 DEF WrapsIn, width

\* The next of the repairs is wrapped where it opens.
LEMMA WrapCopies ==
  ASSUME IInv, Output, Wrap PROVE Output'
<1> DEFINE repair == repairs[order[next]]
           copied  == out \o Slice(cursor, repair.span_start)
           opened  == copied \o <<Opens(repair)>>
           spanned == opened \o Slice(repair.span_start, repair.span_end)
           closed  == spanned \o <<Closes(repair)>>
<1>1. /\ phase = "Writing" /\ phase' = "Writing" /\ next <= Len(order)
      /\ next' = next + 1 /\ cursor' = repair.span_end /\ out' = closed
      /\ UNCHANGED <<repairs, order>>
  BY DEF Wrap, Rest
<1>2. Typed /\ order \in Bijection(DOMAIN repairs, DOMAIN repairs) /\ AllInRange
      /\ next \in Nat \ {0} /\ cursor \in Nat
  BY <1>1 DEF IInv, Ordered, Answered, Typed
<1>3. /\ next \in DOMAIN repairs /\ next \in DOMAIN order
      /\ \A k \in 1 .. next : order[k] \in DOMAIN repairs
      /\ Len(order) \in Nat
  <2>1. /\ DOMAIN order = DOMAIN repairs
        /\ DOMAIN repairs = 1 .. Len(repairs)
        /\ Len(repairs) \in Nat
        /\ Len(order) = Len(repairs)
        /\ \A i \in DOMAIN repairs : order[i] \in DOMAIN repairs
    BY <1>2, Positions
  <2>2. next <= Len(order)
    BY <1>1
  <2>3. \A k \in 1 .. next : k \in 1 .. Len(repairs)
    BY <1>2, <2>1, <2>2
  <2> QED BY <1>2, <2>1, <2>2, <2>3
<1>4. \A k \in 1 .. next :
        /\ repairs[order[k]] \in RepairType
        /\ repairs[order[k]].span_start \in Nat
        /\ repairs[order[k]].span_end \in Nat
        /\ repairs[order[k]].span_start <= repairs[order[k]].span_end
  BY <1>2, <1>3, RepairIsTyped DEF AllInRange, InRange
<1>5. /\ repair \in RepairType
      /\ repair.span_start \in Nat /\ repair.span_end \in Nat
      /\ repair.span_start <= repair.span_end
      /\ cursor <= repair.span_start
  <2>1. next \in 1 .. next
    BY <1>2
  <2> QED BY <1>1, <1>3, <1>4, <2>1 DEF IInv, AtTheCursor
<1>6. /\ out \in Seq(Elements) /\ Len(out) = cursor + 2 * (next - 1)
      /\ IsSource(out, cursor)
      /\ \A k \in 1 .. next - 1 : WrapsIn(out, repairs[order[k]], OpensAt(k))
  BY <1>1 DEF Output, Copied
<1>7. /\ Opens(repair) \in Elements /\ Opens(repair).kind # "byte"
      /\ Closes(repair) \in Elements /\ Closes(repair).kind # "byte"
  <2> HIDE DEF repair
  <2>1. repair.wrap \in Inserted
    BY <1>5 DEF RepairType
  <2> QED BY <2>1 DEF Opens, Closes, Elements
<1> HIDE DEF repair
<1>8. /\ copied \in Seq(Elements)
      /\ Len(copied) = Len(out) + (repair.span_start - cursor)
      /\ \A i \in DOMAIN out : copied[i] = out[i]
      /\ IsSource(copied, repair.span_start)
  BY <1>2, <1>5, <1>6, SliceMore
<1> HIDE DEF copied
<1>9. /\ opened \in Seq(Elements)
      /\ Len(opened) = Len(copied) + 1
      /\ \A i \in DOMAIN copied : opened[i] = copied[i]
      /\ opened[Len(copied) + 1] = Opens(repair)
      /\ IsSource(opened, repair.span_start)
  BY <1>5, <1>7, <1>8, MarkMore
<1> HIDE DEF opened
<1>10. /\ spanned \in Seq(Elements)
       /\ Len(spanned) = Len(opened) + (repair.span_end - repair.span_start)
       /\ \A i \in DOMAIN opened : spanned[i] = opened[i]
       /\ \A i \in 1 .. repair.span_end - repair.span_start :
            spanned[Len(opened) + i] = Byte(repair.span_start + i)
       /\ IsSource(spanned, repair.span_end)
  BY <1>5, <1>9, SliceMore
<1> HIDE DEF spanned
<1>11. /\ closed \in Seq(Elements)
       /\ Len(closed) = Len(spanned) + 1
       /\ \A i \in DOMAIN spanned : closed[i] = spanned[i]
       /\ closed[Len(spanned) + 1] = Closes(repair)
       /\ IsSource(closed, repair.span_end)
  BY <1>5, <1>7, <1>10, MarkMore
<1> HIDE DEF closed
<1> DEFINE width == repair.span_end - repair.span_start
           at == Len(copied) + 1
<1>12. /\ width \in Nat
       /\ Len(out) \in Nat /\ Len(copied) \in Nat /\ at \in Nat
       /\ Len(out) <= Len(copied)
  BY <1>2, <1>5, <1>6, <1>8
<1>13. at = repair.span_start + 2 * next - 1
  BY <1>2, <1>5, <1>6, <1>8
<1>14. at + width + 1 = repair.span_end + 2 * next
  BY <1>2, <1>5, <1>13
<1>15. /\ Len(opened) = at
       /\ Len(spanned) = at + width
       /\ Len(closed) = at + width + 1
  BY <1>9, <1>10, <1>11
<1> HIDE DEF width, at
<1>16. /\ DOMAIN out = 1 .. Len(out) /\ DOMAIN copied = 1 .. Len(copied)
       /\ DOMAIN opened = 1 .. at /\ DOMAIN spanned = 1 .. at + width
       /\ DOMAIN closed = 1 .. at + width + 1
  BY <1>6, <1>8, <1>9, <1>10, <1>11, <1>15
<1>17. WrapsIn(closed, repair, at)
  <2>1. at \in DOMAIN closed /\ at + width + 1 \in DOMAIN closed
    BY <1>12, <1>16 DEF at
  <2>2. closed[at] = Opens(repair)
    <3>1. at \in DOMAIN opened /\ at \in DOMAIN spanned
      BY <1>12, <1>16 DEF at
    <3> QED BY <1>9, <1>10, <1>11, <3>1 DEF at
  <2>3. closed[at + width + 1] = Closes(repair)
    BY <1>11, <1>15
  <2>4. \A i \in 1 .. width : closed[at + i] = Byte(repair.span_start + i)
    <3> SUFFICES ASSUME NEW i \in 1 .. width
                 PROVE  closed[at + i] = Byte(repair.span_start + i)
      OBVIOUS
    <3>1. spanned[at + i] = Byte(repair.span_start + i)
      BY <1>10, <1>15 DEF width
    <3>2. at + i \in DOMAIN spanned
      BY <1>12, <1>16
    <3> QED BY <1>11, <3>1, <3>2
  <2> QED BY <2>1, <2>2, <2>3, <2>4 DEF WrapsIn, width
<1>18. \A i \in DOMAIN out : closed[i] = out[i]
  <2> SUFFICES ASSUME NEW i \in DOMAIN out PROVE closed[i] = out[i]
    OBVIOUS
  <2>1. i \in DOMAIN copied /\ i \in DOMAIN opened /\ i \in DOMAIN spanned
    BY <1>12, <1>16 DEF at
  <2> QED BY <1>8, <1>9, <1>10, <1>11, <2>1
<1>19. \A k \in 1 .. next : WrapsIn(closed, repairs[order[k]], OpensAt(k))
  <2> SUFFICES ASSUME NEW k \in 1 .. next
               PROVE  WrapsIn(closed, repairs[order[k]], OpensAt(k))
    OBVIOUS
  <2>1. CASE k = next
    BY <1>13, <1>17, <2>1 DEF OpensAt, repair
  <2>2. CASE k # next
    <3>1. k \in 1 .. next - 1
      BY <1>2, <2>2
    <3>2. WrapsIn(out, repairs[order[k]], OpensAt(k))
      BY <1>6, <3>1
    <3>3. Len(out) <= Len(closed)
      BY <1>12, <1>15 DEF at
    <3>4. OpensAt(k) \in Nat
      BY <1>4, <3>1 DEF OpensAt
    <3> QED BY <1>4, <1>6, <1>11, <1>18, <3>2, <3>3, <3>4, WrappedStays
  <2> QED BY <2>1, <2>2
<1>20. Copied(cursor, next - 1)'
  <2>1. \A k : repairs'[order'[k]] = repairs[order[k]] /\ OpensAt(k)' = OpensAt(k)
    BY <1>1 DEF OpensAt
  <2>2. next' - 1 = next
    BY <1>1, <1>2
  <2>3. Len(closed) = repair.span_end + 2 * next
    BY <1>14, <1>15
  <2>4. \A k \in 1 .. next : WrapsIn(out', repairs'[order'[k]], OpensAt(k)')
    BY <1>1, <1>19, <2>1
  <2> QED BY <1>1, <1>11, <2>2, <2>3, <2>4 DEF Copied
<1>21. next' <= Len(order') + 1
  BY <1>1, <1>2, <1>3
<1> QED BY <1>1, <1>20, <1>21 DEF Output

\* What is left of the source is copied when the last repair is wrapped.
LEMMA FinishCopies ==
  ASSUME IInv, Output, Finish PROVE Output'
<1>1. /\ phase = "Writing" /\ phase' = "Done" /\ next > Len(order)
      /\ out' = out \o Slice(cursor, Length)
      /\ UNCHANGED <<repairs, order>>
  BY DEF Finish
<1>2. Typed /\ order \in Bijection(DOMAIN repairs, DOMAIN repairs) /\ AllInRange
      /\ next \in Nat \ {0} /\ cursor \in Nat /\ Length \in Nat /\ cursor <= Length
  BY <1>1, RepairAssumption DEF IInv, Ordered, Answered, AtTheCursor, Typed
<1>3. /\ DOMAIN repairs = 1 .. Len(repairs)
      /\ Len(repairs) \in Nat
      /\ Len(order) = Len(repairs)
      /\ \A i \in DOMAIN repairs : order[i] \in DOMAIN repairs
  BY <1>2, Positions
<1>4. next - 1 = Len(repairs)
  BY <1>1, <1>2, <1>3 DEF Output
<1>5. /\ out \in Seq(Elements) /\ Len(out) = cursor + 2 * Len(repairs)
      /\ IsSource(out, cursor)
      /\ \A k \in 1 .. Len(repairs) : WrapsIn(out, repairs[order[k]], OpensAt(k))
  BY <1>1, <1>4 DEF Output, Copied
<1>6. /\ out' \in Seq(Elements)
      /\ Len(out') = Len(out) + (Length - cursor)
      /\ \A i \in DOMAIN out : out'[i] = out[i]
      /\ IsSource(out', Length)
  BY <1>1, <1>2, <1>5, SliceMore
<1>7. Len(out') = Length + 2 * Len(repairs) /\ Len(out) <= Len(out')
  BY <1>2, <1>3, <1>5, <1>6
<1>8. ASSUME NEW k \in 1 .. Len(repairs)
      PROVE  WrapsIn(out', repairs[order[k]], OpensAt(k))
  <2>1. /\ repairs[order[k]] \in RepairType
        /\ repairs[order[k]].span_start \in Nat
        /\ repairs[order[k]].span_start <= repairs[order[k]].span_end
    BY <1>2, <1>3, RepairIsTyped DEF AllInRange, InRange
  <2>2. OpensAt(k) \in Nat
    BY <2>1 DEF OpensAt
  <2>3. WrapsIn(out, repairs[order[k]], OpensAt(k))
    BY <1>5
  <2> QED BY <1>5, <1>6, <1>7, <2>1, <2>2, <2>3, WrappedStays
<1>9. Copied(Length, Len(repairs))'
  <2>1. \A k : repairs'[order'[k]] = repairs[order[k]] /\ OpensAt(k)' = OpensAt(k)
    BY <1>1 DEF OpensAt
  <2>2. \A k \in 1 .. Len(repairs') : WrapsIn(out', repairs'[order'[k]], OpensAt(k)')
    BY <1>1, <1>8, <2>1
  <2> QED BY <1>1, <1>6, <1>7, <2>2 DEF Copied
<1> QED BY <1>1, <1>9 DEF Output

\* At every step the output is the source up to the cursor with the repairs so far
\* in it (lib.rs, apply_repairs).
LEMMA OutputAlways == Spec => []Output
<1>1. Init => Output
  BY DEF Init, Output
<1>2. IInv /\ Output /\ [Next]_vars => Output'
  <2> SUFFICES ASSUME IInv, Output, [Next]_vars PROVE Output'
    OBVIOUS
  <2>1. CASE UNCHANGED vars
    BY <2>1 DEF vars, Output, Copied, OpensAt
  <2>2. CASE Plan \/ Planned \/ Sort \/ RefuseSpan \/ RefuseOverlap
    BY <2>2 DEF Plan, Planned, Sort, RefuseSpan, RefuseOverlap, Output
  <2>3. CASE Accept
    <3>1. /\ phase = "Checking" /\ phase' = "Writing" /\ out = << >>
          /\ next = 1 /\ cursor = 0
          /\ UNCHANGED <<repairs, order, next, out, cursor>>
      BY <2>3 DEF Accept, Output, IInv, AtTheCursor
    <3>2. << >> \in Seq(Elements) /\ Len(<< >>) = 0 /\ DOMAIN << >> = {}
      OBVIOUS
    <3>3. IsSource(<< >>, 0)
      BY <3>2 DEF IsSource, BytesIn
    <3>4. next - 1 = 0 /\ 1 .. 0 = {} /\ 0 = 0 + 2 * 0
      BY <3>1
    <3>5. Copied(cursor, next - 1)'
      BY <3>1, <3>2, <3>3, <3>4 DEF Copied
    <3>6. Len(order) \in Nat
      BY <3>1, Positions DEF IInv, Ordered
    <3>7. next' <= Len(order') + 1
      BY <3>1, <3>6
    <3> QED BY <3>1, <3>5, <3>7 DEF Output
  <2>4. CASE Wrap
    BY <2>4, WrapCopies
  <2>5. CASE Finish
    BY <2>5, FinishCopies
  <2> QED BY <2>1, <2>2, <2>3, <2>4, <2>5 DEF Next
<1> QED BY <1>1, <1>2, Invariant, PTL DEF Spec

\* For every source and whatever repairs are accepted: the output is the source
\* with every repair about its own span, where the sorted spans say, and nothing
\* else (lib.rs, apply_repairs).
THEOREM SpansAreWrapped == Spec => []EachSpanIsWrapped
<1>1. IInv /\ Output => EachSpanIsWrapped
  <2> SUFFICES ASSUME IInv, Output, phase = "Done"
               PROVE  /\ \A i, j \in Bytes : i < j => out[i].at < out[j].at
                      /\ { out[i].at : i \in Bytes } = 1 .. Length
                      /\ Len(out) = Length + 2 * Len(repairs)
                      /\ \A k \in DOMAIN repairs : Wraps(repairs[order[k]], OpensAt(k))
    BY DEF EachSpanIsWrapped
  <2>1. Copied(Length, Len(repairs)) /\ DOMAIN repairs = 1 .. Len(repairs)
    BY DEF Output, IInv, Typed
  <2>2. Bytes = BytesIn(out)
    BY DEF Bytes, BytesIn
  <2>3. { out[i].at : i \in Bytes } = 1 .. Length
    BY <2>1, <2>2 DEF Copied, IsSource
  <2>4. \A k \in DOMAIN repairs : Wraps(repairs[order[k]], OpensAt(k))
    BY <2>1 DEF Copied, Wraps, WrapsIn
  <2> QED BY <2>1, <2>2, <2>3, <2>4 DEF Copied, IsSource
<1> QED BY Invariant, OutputAlways, <1>1, PTL

-----------------------------------------------------------------------------
(* The conversions.                                                        *)

\* What was read of the report has its repairs.
PlannedFor ==
  /\ phase # "Planning" => read = Len(report)
  /\ \A i \in 1 .. read :
       IsRepaired(report[i]) => \E k \in DOMAIN repairs : repairs[k] = RepairFor(report[i])

\* A type that widens another holds what it does, on every machine.
LEMMA WidensIsHolds ==
  ASSUME NEW expected, IsInteger(expected), NEW found, IsInteger(found),
         Widens(IntegerType(found), IntegerType(expected))
  PROVE  Holds(IntegerType(expected), IntegerType(found))
<1>1. \A rest \in {"8", "16", "32", "64", "128"} : Widths[rest] \in Nat
  BY DEF Widths
<1>2. DOMAIN Widths = {"8", "16", "32", "64", "128"}
  BY DEF Widths
<1>3. /\ IntegerType(found).width \in Nat /\ IntegerType(expected).width \in Nat
  BY <1>1, <1>2 DEF IsInteger, IntegerType, MachineWidth
<1> DEFINE f == IntegerType(found)
           e == IntegerType(expected)
<1>4. /\ f.width \in Nat /\ e.width \in Nat /\ f.width < e.width
      /\ f.signed = e.signed
      /\ f.width # MachineWidth /\ e.width # MachineWidth
  BY <1>3 DEF Widens
<1>5. f.signed \in BOOLEAN
  BY DEF IntegerType
<1> HIDE DEF f, e
<1>6. \A machine : Bits(f, machine) = IF f.signed THEN f.width - 1 ELSE f.width
  BY <1>4 DEF Bits
<1>7. \A machine : Bits(e, machine) = IF f.signed THEN e.width - 1 ELSE e.width
  BY <1>4 DEF Bits
<1>8. \A machine : Bits(f, machine) <= Bits(e, machine)
  BY <1>4, <1>5, <1>6, <1>7
<1> QED BY <1>4, <1>8 DEF Holds, f, e

\* Every mismatch of integers has its repair, for every report there may be.
LEMMA PlannedForAlways == Spec => []PlannedFor
<1>1. Init => PlannedFor
  <2> SUFFICES ASSUME Init PROVE PlannedFor
    OBVIOUS
  <2>1. read = 0 /\ (phase # "Planning" => report = << >>)
    BY DEF Init
  <2> QED BY <2>1 DEF PlannedFor
<1>2. IInv /\ PlannedFor /\ [Next]_vars => PlannedFor'
  <2> SUFFICES ASSUME IInv, PlannedFor, [Next]_vars PROVE PlannedFor'
    OBVIOUS
  <2>1. CASE Plan
    <3>1. /\ phase = "Planning" /\ phase' = "Planning" /\ read' = read + 1 /\ read \in Nat
          /\ report' = report /\ repairs \in Seq(RepairType)
          /\ report[read + 1] \in Diagnostic
          /\ repairs' = IF IsRepaired(report[read + 1])
                        THEN Append(repairs, RepairFor(report[read + 1])) ELSE repairs
      <4>1. read \in Nat /\ read + 1 \in 1 .. Len(report) /\ report \in Seq(Diagnostic)
            /\ repairs \in Seq(RepairType)
        BY <2>1 DEF Plan, IInv, Typed
      <4> QED BY <2>1, <4>1 DEF Plan
    <3>2. DOMAIN repairs \subseteq DOMAIN repairs'
          /\ \A k \in DOMAIN repairs : repairs'[k] = repairs[k]
      BY <3>1, PlannedIsTyped
    <3>3. IsRepaired(report[read + 1]) =>
            \E k \in DOMAIN repairs' : repairs'[k] = RepairFor(report[read + 1])
      BY <3>1, PlannedIsTyped
    <3>4. \A i \in 1 .. read' : i \in 1 .. read \/ i = read + 1
      BY <3>1
    <3>5. \A i \in 1 .. read' :
            IsRepaired(report[i]) =>
              \E k \in DOMAIN repairs' : repairs'[k] = RepairFor(report[i])
      BY <3>2, <3>3, <3>4 DEF PlannedFor
    <3> QED BY <3>1, <3>5 DEF PlannedFor
  <2>2. CASE Planned
    BY <2>2 DEF Planned, PlannedFor
  <2>3. CASE Sort \/ RefuseSpan \/ RefuseOverlap \/ Accept \/ Wrap \/ Finish
    BY <2>3 DEF Sort, RefuseSpan, RefuseOverlap, Accept, Wrap, Finish, PlannedFor
  <2>4. CASE UNCHANGED vars
    BY <2>4 DEF vars, PlannedFor
  <2> QED BY <2>1, <2>2, <2>3, <2>4 DEF Next
<1> QED BY <1>1, <1>2, Invariant, PTL DEF Spec

\* Every mismatch of integers is repaired to the type that was expected, and one
\* that is repaired by from loses no value, whatever the machine's width is
\* (lib.rs, widens and repair_for).
THEOREM ConversionsAreRight == Spec => []ConversionsKeepTheValue
<1>1. IInv /\ PlannedFor => ConversionsKeepTheValue
  <2> SUFFICES ASSUME IInv, PlannedFor, phase # "Planning",
                      NEW i \in DOMAIN report, IsRepaired(report[i])
               PROVE  \E k \in DOMAIN repairs :
                        /\ repairs[k].span_start = report[i].span_start
                        /\ repairs[k].span_end = report[i].span_end
                        /\ repairs[k].wrap[2] = report[i].expected
                        /\ repairs[k].wrap[1] = "from"
                             => Holds(IntegerType(report[i].expected),
                                      IntegerType(report[i].found))
    BY DEF ConversionsKeepTheValue
  <2>1. i \in 1 .. read
    BY DEF IInv, Typed, PlannedFor
  <2>2. PICK k \in DOMAIN repairs : repairs[k] = RepairFor(report[i])
    BY <2>1 DEF PlannedFor
  <2>3. /\ repairs[k].span_start = report[i].span_start
        /\ repairs[k].span_end = report[i].span_end
        /\ repairs[k].wrap =
             << IF Widens(IntegerType(report[i].found), IntegerType(report[i].expected))
                THEN "from" ELSE "try_from",
                report[i].expected >>
    BY <2>2 DEF RepairFor
  <2>4. /\ repairs[k].wrap[2] = report[i].expected
        /\ repairs[k].wrap[1] = "from" =>
             Widens(IntegerType(report[i].found), IntegerType(report[i].expected))
    BY <2>3
  <2>5. IsInteger(report[i].expected) /\ IsInteger(report[i].found)
    BY DEF IsRepaired
  <2> QED BY <2>3, <2>4, <2>5, WidensIsHolds
<1> QED BY Invariant, PlannedForAlways, <1>1, PTL

=============================================================================

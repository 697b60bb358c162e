--------------------------- MODULE FailuresProofs ---------------------------
(***************************************************************************)
(* Proofs about the failure sets, for any program and any limits.  What a  *)
(* function is found to fail with is what the functions it reaches fail    *)
(* with, and nothing else; a program of no more functions than rounds      *)
(* settles; and functions that fail the same way are given one type.       *)
(***************************************************************************)
EXTENDS Failures, FiniteSetTheorems, WellFoundedInduction, TLAPS

\* A failure is made of two truth values and a set.
IsFailure(x) ==
  /\ x = Failure(x.sets, x.allocates, x.unreadable)
  /\ x.allocates \in BOOLEAN
  /\ x.unreadable \in BOOLEAN

LEMMA WithinTransitive ==
  ASSUME NEW x, NEW y, NEW z, Within(x, y), Within(y, z)
  PROVE  Within(x, z)
BY DEF Within

LEMMA WithinBoth ==
  ASSUME NEW x, NEW y, IsFailure(x), IsFailure(y), Within(x, y), Within(y, x)
  PROVE  x = y
<1>1. x.sets = y.sets
  BY DEF Within
<1>2. x.allocates = y.allocates
  BY DEF Within, IsFailure
<1>3. x.unreadable = y.unreadable
  BY DEF Within, IsFailure
<1> QED BY <1>1, <1>2, <1>3 DEF IsFailure

LEMMA FailureFields ==
  ASSUME NEW sets, NEW a, NEW u
  PROVE  /\ Failure(sets, a, u).sets = sets
         /\ Failure(sets, a, u).allocates = a
         /\ Failure(sets, a, u).unreadable = u
BY DEF Failure

LEMMA OwnIsFailure ==
  ASSUME NEW p, NEW f
  PROVE  IsFailure(Own(p, f))
<1>1. Allocates(p, f) \in BOOLEAN /\ Unreadable(p, f) \in BOOLEAN
  BY DEF Allocates, Unreadable
<1> QED BY <1>1 DEF IsFailure, Own, Failure

\* Absorbing takes in what is there and all that is absorbed, and no more.
LEMMA AbsorbLeast ==
  ASSUME NEW x, NEW from, IsFailure(x),
         \A y \in from : IsFailure(y)
  PROVE  /\ IsFailure(Absorb(x, from))
         /\ Within(x, Absorb(x, from))
         /\ \A y \in from : Within(y, Absorb(x, from))
         /\ \A z : Within(x, z) /\ (\A y \in from : Within(y, z))
              => Within(Absorb(x, from), z)
<1> DEFINE sum == Absorb(x, from)
<1>1. /\ sum.sets = x.sets \cup UNION { other.sets : other \in from }
      /\ sum.allocates = (x.allocates \/ \E other \in from : other.allocates)
      /\ sum.unreadable = (x.unreadable \/ \E other \in from : other.unreadable)
  BY DEF Absorb, Failure
<1>2. IsFailure(sum)
  BY <1>1 DEF IsFailure, Absorb, Failure
<1>3. Within(x, sum)
  BY <1>1 DEF Within
<1>4. ASSUME NEW y \in from PROVE Within(y, sum)
  <2>1. y.sets \subseteq UNION { other.sets : other \in from }
    OBVIOUS
  <2> QED BY <1>1, <2>1 DEF Within
<1>5. ASSUME NEW z, Within(x, z), \A y \in from : Within(y, z)
      PROVE  Within(sum, z)
  <2>1. UNION { other.sets : other \in from } \subseteq z.sets
    BY <1>5 DEF Within
  <2> QED BY <1>1, <1>5, <2>1 DEF Within
<1> QED BY <1>2, <1>3, <1>4, <1>5

-----------------------------------------------------------------------------
(* Where failures come from.                                               *)

\* The failures of a function come from itself and from where those of its
\* callees come from, and from nowhere that a closed set leaves out.
LEMMA SourcesFacts ==
  ASSUME NEW p, NEW f \in Rows(p.name)
  PROVE  /\ Sources(p, f) \subseteq Rows(p.name)
         /\ f \in Sources(p, f)
         /\ \A g \in Through(p, f) \cap Rows(p.name) :
              Sources(p, g) \subseteq Sources(p, f)
         /\ \A inside \in SUBSET Rows(p.name) :
              f \in inside
                /\ (\A h \in inside : Through(p, h) \cap Rows(p.name) \subseteq inside)
              => Sources(p, f) \subseteq inside
<1> DEFINE IsClosed(inside) ==
             \A h \in inside : Through(p, h) \cap Rows(p.name) \subseteq inside
<1>1. \A g : Sources(p, g) =
        { h \in Rows(p.name) : \A inside \in SUBSET Rows(p.name) :
            g \in inside /\ IsClosed(inside) => h \in inside }
  BY DEF Sources
<1>2. \A inside \in SUBSET Rows(p.name) :
        f \in inside /\ IsClosed(inside) => Sources(p, f) \subseteq inside
  BY <1>1
<1>3. ASSUME NEW g \in Through(p, f) \cap Rows(p.name)
      PROVE  Sources(p, g) \subseteq Sources(p, f)
  <2>1. \A inside \in SUBSET Rows(p.name) :
          f \in inside /\ IsClosed(inside) => g \in inside
    OBVIOUS
  <2> HIDE DEF IsClosed
  <2> QED BY <1>1, <2>1
<1>4. f \in Sources(p, f) /\ Sources(p, f) \subseteq Rows(p.name)
  BY <1>1
<1> QED BY <1>2, <1>3, <1>4

LEMMA WholeLeast ==
  ASSUME NEW p, NEW f
  PROVE  /\ IsFailure(Whole(p, f))
         /\ \A g \in Sources(p, f) : Within(Own(p, g), Whole(p, f))
         /\ \A z : (\A g \in Sources(p, f) : Within(Own(p, g), z))
              => Within(Whole(p, f), z)
<1> DEFINE own == { Own(p, g) : g \in Sources(p, f) }
           whole == Whole(p, f)
<1>1. /\ whole.sets = UNION { failure.sets : failure \in own }
      /\ whole.allocates = (\E failure \in own : failure.allocates)
      /\ whole.unreadable = (\E failure \in own : failure.unreadable)
  BY DEF Whole, Failure
<1>2. IsFailure(whole)
  BY <1>1 DEF IsFailure, Whole, Failure
<1>3. ASSUME NEW g \in Sources(p, f) PROVE Within(Own(p, g), whole)
  <2>1. Own(p, g) \in own
    OBVIOUS
  <2> HIDE DEF own, whole
  <2> QED BY <1>1, <2>1 DEF Within
<1>4. ASSUME NEW z, \A g \in Sources(p, f) : Within(Own(p, g), z)
      PROVE  Within(whole, z)
  <2>1. \A failure \in own : Within(failure, z)
    BY <1>4
  <2> HIDE DEF own, whole
  <2> QED BY <1>1, <2>1 DEF Within
<1> QED BY <1>2, <1>3, <1>4

\* What a callee fails with in all, its callers fail with in all.
LEMMA WholeOfCallee ==
  ASSUME NEW p, NEW f \in Rows(p.name),
         NEW g \in Through(p, f) \cap Rows(p.name)
  PROVE  Within(Whole(p, g), Whole(p, f))
<1>1. Sources(p, g) \subseteq Sources(p, f)
  BY SourcesFacts
<1> QED BY <1>1, WholeLeast

-----------------------------------------------------------------------------
(* Types.                                                                  *)

\* Some naturals have a least one.
LEMMA LeastNatural ==
  ASSUME NEW S \in SUBSET Nat, S # {}
  PROVE  \E m \in S : \A k \in S : m =< k
<1> DEFINE R == OpToRel(<, Nat)
<1>1. IsWellFoundedOn(R, Nat)
  BY NatLessThanWellFounded
<1> HIDE DEF R
<1>2. PICK m \in S : \A k \in S : ~ (<<k, m>> \in R)
  BY <1>1, WFMin
<1>3. ASSUME NEW k \in S PROVE m =< k
  <2>1. m \in Nat /\ k \in Nat
    OBVIOUS
  <2>2. k < m => <<k, m>> \in R
    BY <2>1 DEF R, OpToRel
  <2> QED BY <1>2, <2>1, <2>2
<1> QED BY <1>3

LEMMA FirstOfType ==
  ASSUME NEW rows \in SUBSET Nat
  PROVE  FirstOf(rows) \in Nat /\ (rows # {} => FirstOf(rows) \in rows)
<1>1. CASE rows = {}
  BY <1>1, NoIndexAssumption DEF FirstOf
<1>2. CASE rows # {}
  BY <1>2, LeastNatural DEF FirstOf
<1> QED BY <1>1, <1>2

LEMMA ProgramShape ==
  ASSUME NEW p \in Programs
  PROVE  /\ p \in ProgramType
         /\ Len(p.name) \in Nat
         /\ Rows(p.struct_name) \subseteq Nat
<1>1. p \in ProgramType
  BY ProgramsAssumption
<1>2. Len(p.name) \in Nat
  BY <1>1 DEF ProgramType
<1>3. Len(p.struct_name) \in Nat
  BY <1>1 DEF ProgramType
<1>4. Rows(p.struct_name) \subseteq Nat
  BY <1>3 DEF Rows
<1> QED BY <1>1, <1>2, <1>4

LEMMA OwnType ==
  ASSUME NEW p \in Programs, NEW f \in Nat
  PROVE  Own(p, f) \in FailureType
<1>1. \A text : ErrorSetNamed(p, text) \in Nat
  <2> TAKE text
  <2>1. { s \in Rows(p.struct_name) :
            /\ GetOr(p.struct_kind, s, "Other") = "ErrorSet"
            /\ At(p.struct_name, s) = text[1] } \in SUBSET Nat
    BY ProgramShape
  <2> QED BY <2>1, FirstOfType, NoIndexAssumption DEF ErrorSetNamed
<1>2. SetsRead(p, f) \in SUBSET Nat
  BY <1>1 DEF SetsRead
<1>3. Get(p.error_set, f) \in Nat
  <2>1. p.error_set \in Seq(Nat)
    BY ProgramShape DEF ProgramType
  <2> QED BY <2>1, NoIndexAssumption DEF Get, GetOr, Has, At
<1>4. Allocates(p, f) \in BOOLEAN /\ Unreadable(p, f) \in BOOLEAN
  BY DEF Allocates, Unreadable
<1>5. SetsRead(p, f) \cup ({Get(p.error_set, f)} \ {NoIndex}) \in SUBSET Nat
  BY <1>2, <1>3
<1> QED BY <1>4, <1>5 DEF Own, Failure, FailureType

LEMMA TypedIsFailure ==
  ASSUME NEW x \in FailureType PROVE IsFailure(x)
BY DEF FailureType, IsFailure, Failure

LEMMA AbsorbType ==
  ASSUME NEW x \in FailureType, NEW from \in SUBSET FailureType
  PROVE  Absorb(x, from) \in FailureType
<1>1. x.sets \cup UNION { other.sets : other \in from } \in SUBSET Nat
  <2>1. \A other \in from : other.sets \in SUBSET Nat
    BY DEF FailureType
  <2> QED BY <2>1 DEF FailureType
<1>2. /\ (x.allocates \/ \E other \in from : other.allocates) \in BOOLEAN
      /\ (x.unreadable \/ \E other \in from : other.unreadable) \in BOOLEAN
  OBVIOUS
<1> QED BY <1>1, <1>2 DEF Absorb, Failure, FailureType

LEMMA AppendType ==
  ASSUME NEW S, NEW n \in Nat, NEW s \in [1 .. n -> S], NEW e \in S,
         NEW longer, longer = Append(s, e)
  PROVE  /\ longer \in [1 .. n + 1 -> S]
         /\ longer[n + 1] = e
         /\ \A i \in 1 .. n : longer[i] = s[i]
<1>1. s \in Seq(S) /\ Len(s) = n
  OBVIOUS
<1>2. longer \in Seq(S) /\ Len(longer) = n + 1
  BY <1>1
<1>3. longer[n + 1] = e /\ \A i \in 1 .. n : longer[i] = s[i]
  BY <1>1
<1>4. \A q \in Seq(S) : q \in [1 .. Len(q) -> S]
  OBVIOUS
<1>5. longer \in [1 .. n + 1 -> S]
  BY <1>2, <1>4
<1> QED BY <1>3, <1>5

-----------------------------------------------------------------------------
(* The rounds.                                                             *)

\* The failures and the calls of the functions that have been read.
Shape ==
  /\ program \in Programs
  /\ pc \in {"read", "carry", "name"}
  /\ row \in 0 .. Count
  /\ changed \in BOOLEAN
  /\ failures \in [1 .. ReadSoFar -> FailureType]
  /\ reaches \in [1 .. ReadSoFar -> { Through(program, f) : f \in Rows(program.name) }]
  /\ \A f \in 0 .. ReadSoFar - 1 : At(reaches, f) = Through(program, f)

\* What is known to fail does, and does so because something it reaches does.
Sound ==
  \A f \in 0 .. ReadSoFar - 1 :
    /\ Within(Own(program, f), At(failures, f))
    /\ Within(At(failures, f), Whole(program, f))

Covers(f) ==
  \A g \in Through(program, f) \cap Rows(program.name) :
    Within(At(failures, g), At(failures, f))

\* In a round that has changed nothing the functions passed cover their callees.
Quiet ==
  /\ pc = "carry" /\ ~ changed => \A f \in 0 .. row - 1 : Covers(f)
  /\ Settled => \A f \in Rows(program.name) : Covers(f)

RoundInvariant == Shape /\ Sound /\ Quiet

LEMMA RoundInit == Init => RoundInvariant
<1> SUFFICES ASSUME Init PROVE RoundInvariant
  OBVIOUS
<1>1. program \in Programs /\ Count \in Nat
  BY ProgramShape DEF Init, Count
<1>2. ReadSoFar = 0 /\ ~ Settled
  BY DEF Init, ReadSoFar, Settled
<1>3. failures = << >> /\ reaches = << >>
  BY DEF Init
<1>4. Shape
  <2>1. failures \in [1 .. ReadSoFar -> FailureType]
    BY <1>2, <1>3
  <2>2. reaches \in [1 .. ReadSoFar -> { Through(program, f) : f \in Rows(program.name) }]
    BY <1>2, <1>3
  <2>3. \A f \in 0 .. ReadSoFar - 1 : At(reaches, f) = Through(program, f)
    BY <1>2
  <2>4. row \in 0 .. Count
    <3>1. row = 0
      BY DEF Init
    <3> QED BY <1>1, <3>1
  <2>5. pc \in {"read", "carry", "name"} /\ changed \in BOOLEAN
    BY DEF Init
  <2> QED BY <1>1, <2>1, <2>2, <2>3, <2>4, <2>5 DEF Shape
<1> QED BY <1>2, <1>4 DEF RoundInvariant, Sound, Quiet, Init

\* A step that reads no function and carries nothing keeps what is known.
LEMMA Kept ==
  ASSUME Shape, Sound, UNCHANGED <<program, failures, reaches>>,
         ReadSoFar' = ReadSoFar, pc' \in {"read", "carry", "name"},
         row' \in 0 .. Count, changed' \in BOOLEAN
  PROVE  Shape' /\ Sound'
BY DEF Shape, Sound, Count

LEMMA ReadFunctionKeeps ==
  ASSUME Shape, Sound, ReadFunction PROVE RoundInvariant'
<1>1. /\ program \in Programs /\ program' = program /\ Count' = Count
      /\ Count \in Nat /\ row \in Nat /\ row < Count /\ row' = row + 1
      /\ ReadSoFar = row /\ ReadSoFar' = row + 1 /\ pc' = "read" /\ pc = "read"
  BY ProgramShape DEF Shape, ReadFunction, Count, ReadSoFar
<1>2. Own(program, row) \in FailureType
  BY <1>1, OwnType
<1>3. /\ failures' \in [1 .. row + 1 -> FailureType]
      /\ failures'[row + 1] = Own(program, row)
      /\ \A i \in 1 .. row : failures'[i] = failures[i]
  <2>1. failures \in [1 .. row -> FailureType]
    BY <1>1 DEF Shape
  <2>2. failures' = Append(failures, Own(program, row))
    BY DEF ReadFunction
  <2>3. row \in Nat
    BY <1>1
  <2>4. failures' \in [1 .. row + 1 -> FailureType]
    BY <1>2, <2>1, <2>2, <2>3, AppendType
  <2>5. failures'[row + 1] = Own(program, row)
    BY <1>2, <2>1, <2>2, <2>3, AppendType
  <2>6. \A i \in 1 .. row : failures'[i] = failures[i]
    BY <1>2, <2>1, <2>2, <2>3, AppendType
  <2> QED BY <2>4, <2>5, <2>6
<1> DEFINE S == { Through(program, f) : f \in Rows(program.name) }
<1>4. Through(program, row) \in S
  BY <1>1 DEF Rows, Count
<1>5. /\ reaches' \in [1 .. row + 1 -> S]
      /\ reaches'[row + 1] = Through(program, row)
      /\ \A i \in 1 .. row : reaches'[i] = reaches[i]
  <2>1. reaches \in [1 .. row -> S]
    BY <1>1 DEF Shape
  <2>2. reaches' = Append(reaches, Through(program, row))
    BY DEF ReadFunction
  <2> HIDE DEF S
  <2>3. row \in Nat
    BY <1>1
  <2>4. reaches' \in [1 .. row + 1 -> S]
    BY <1>4, <2>1, <2>2, <2>3, AppendType
  <2>5. reaches'[row + 1] = Through(program, row)
    BY <1>4, <2>1, <2>2, <2>3, AppendType
  <2>6. \A i \in 1 .. row : reaches'[i] = reaches[i]
    BY <1>4, <2>1, <2>2, <2>3, AppendType
  <2> QED BY <2>4, <2>5, <2>6
<1>6. Shape'
  <2>1. \A f \in 0 .. row : At(reaches', f) = Through(program, f)
    BY <1>1, <1>5 DEF At, Shape
  <2>2. row' \in 0 .. Count /\ changed' \in BOOLEAN
    BY <1>1 DEF Shape, ReadFunction
  <2>3. ReadSoFar' - 1 = row
    BY <1>1
  <2> QED BY <1>1, <1>3, <1>5, <2>1, <2>2, <2>3 DEF Shape
<1>7. Sound'
  <2>1. Within(Own(program, row), At(failures', row))
        /\ Within(At(failures', row), Whole(program, row))
    <3>1. Within(Own(program, row), Whole(program, row))
      BY <1>1, SourcesFacts, WholeLeast DEF Rows, Count
    <3>2. Within(Own(program, row), Own(program, row))
      BY DEF Within
    <3> QED BY <1>3, <3>1, <3>2 DEF At
  <2>2. ASSUME NEW f \in 0 .. row - 1
        PROVE  At(failures', f) = At(failures, f)
    BY <1>1, <1>3 DEF At
  <2>3. ReadSoFar' - 1 = row
    BY <1>1
  <2> QED BY <1>1, <2>1, <2>2, <2>3 DEF Sound
<1>8. Quiet'
  BY <1>1 DEF Quiet, Settled
<1> QED BY <1>6, <1>7, <1>8 DEF RoundInvariant

\* Where the functions are once all have been read.
LEMMA AllRead ==
  ASSUME Shape, pc # "read"
  PROVE  /\ program \in Programs
         /\ Count \in Nat
         /\ ReadSoFar = Count
         /\ failures \in [1 .. Count -> FailureType]
         /\ Rows(failures) = Rows(program.name)
         /\ Rows(program.name) = 0 .. Count - 1
         /\ \A f \in Rows(program.name) :
              /\ At(reaches, f) = Through(program, f)
              /\ At(failures, f) \in FailureType
<1>1. program \in Programs /\ Count \in Nat
  BY ProgramShape DEF Shape, Count
<1>2. ReadSoFar = Count
  BY DEF ReadSoFar
<1>3. failures \in [1 .. Count -> FailureType]
  BY <1>2 DEF Shape
<1>4. Rows(program.name) = 0 .. Count - 1
  BY DEF Rows, Count
<1>5. Rows(failures) = 0 .. Count - 1
  <2>1. Len(failures) = Count
    BY <1>1, <1>3
  <2> QED BY <2>1 DEF Rows
<1>6. \A f \in 0 .. Count - 1 : At(reaches, f) = Through(program, f)
  BY <1>2 DEF Shape
<1>7. \A f \in 0 .. Count - 1 : At(failures, f) \in FailureType
  BY <1>1, <1>3 DEF At
<1> QED BY <1>1, <1>2, <1>3, <1>4, <1>5, <1>6, <1>7

LEMMA CarryKeeps ==
  ASSUME Shape, Sound, Quiet, Carry PROVE RoundInvariant'
<1> DEFINE old  == At(failures, row)
           new  == Carried(row)
           from == { At(failures, g) : g \in Through(program, row) \cap Rows(program.name) }
<1>1. /\ pc = "carry" /\ pc' = "carry" /\ program' = program /\ reaches' = reaches
      /\ row < Count /\ row' = row + 1
  BY DEF Carry
<1>2. row \in Nat /\ row \in Rows(program.name)
  BY <1>1, AllRead DEF Shape
<1>3. new = Absorb(old, from)
  BY <1>1, <1>2, AllRead DEF Carried
<1>4. old \in FailureType /\ from \in SUBSET FailureType
  BY <1>1, <1>2, AllRead
<1>5. IsFailure(old) /\ \A y \in from : IsFailure(y)
  BY <1>4, TypedIsFailure
<1>6. /\ new \in FailureType
      /\ Within(old, new)
      /\ \A y \in from : Within(y, new)
      /\ \A z : Within(old, z) /\ (\A y \in from : Within(y, z)) => Within(new, z)
  <2> HIDE DEF old, from, new
  <2> QED BY <1>3, <1>4, <1>5, AbsorbType, AbsorbLeast
<1>7. /\ failures' \in [1 .. Count -> FailureType]
      /\ At(failures', row) = new
      /\ \A f \in Rows(program.name) : f # row => At(failures', f) = At(failures, f)
  <2>1. failures' = [failures EXCEPT ![row + 1] = new]
    BY DEF Carry
  <2>2. row + 1 \in 1 .. Count
    BY <1>1, <1>2, AllRead
  <2>3. failures \in [1 .. Count -> FailureType]
    BY <1>1, AllRead
  <2> HIDE DEF new
  <2>4. failures' \in [1 .. Count -> FailureType]
    BY <1>6, <2>1, <2>3
  <2>5. At(failures', row) = new
    BY <2>1, <2>2, <2>3 DEF At
  <2>6. ASSUME NEW f \in Rows(program.name), f # row
        PROVE  At(failures', f) = At(failures, f)
    <3>1. f + 1 \in 1 .. Count /\ f + 1 # row + 1
      BY <1>1, <1>2, <2>6, AllRead
    <3> QED BY <2>1, <2>3, <3>1 DEF At
  <2> QED BY <2>4, <2>5, <2>6
<1>8. Count' = Count /\ ReadSoFar' = Count /\ ReadSoFar = Count
  BY <1>1, AllRead DEF Count, ReadSoFar
<1>9. Shape'
  <2>1. row' \in 0 .. Count
    BY <1>1, <1>2, AllRead
  <2>2. changed' \in BOOLEAN
    BY DEF Carry, Shape
  <2>3. reaches' \in [1 .. ReadSoFar' -> { Through(program', f) : f \in Rows(program'.name) }]
    BY <1>1, <1>8 DEF Shape
  <2>4. \A f \in 0 .. ReadSoFar' - 1 : At(reaches', f) = Through(program', f)
    BY <1>1, <1>8 DEF Shape
  <2>5. program' \in Programs
    BY <1>1, AllRead
  <2> QED BY <1>1, <1>7, <1>8, <2>1, <2>2, <2>3, <2>4, <2>5 DEF Shape
<1>10. \A f \in Rows(program.name) :
         /\ Within(Own(program, f), At(failures, f))
         /\ Within(At(failures, f), Whole(program, f))
  BY <1>1, AllRead DEF Sound
<1>11. Sound'
  <2>1. Within(Own(program, row), new)
    BY <1>2, <1>6, <1>10, WithinTransitive
  <2>2. Within(new, Whole(program, row))
    <3>1. ASSUME NEW g \in Through(program, row) \cap Rows(program.name)
          PROVE  Within(At(failures, g), Whole(program, row))
      <4>1. Within(At(failures, g), Whole(program, g))
        BY <1>10
      <4>2. Within(Whole(program, g), Whole(program, row))
        BY <1>2, WholeOfCallee
      <4> QED BY <4>1, <4>2, WithinTransitive
    <3>2. \A y \in from : Within(y, Whole(program, row))
      BY <3>1
    <3> QED BY <1>2, <1>6, <1>10, <3>2
  <2>3. ASSUME NEW f \in Rows(program.name)
        PROVE  /\ Within(Own(program, f), At(failures', f))
               /\ Within(At(failures', f), Whole(program, f))
    <3> HIDE DEF new
    <3>1. CASE f = row
      BY <1>7, <2>1, <2>2, <3>1
    <3>2. CASE f # row
      BY <1>7, <1>10, <3>2
    <3> QED BY <3>1, <3>2
  <2>4. 0 .. ReadSoFar' - 1 = Rows(program.name)
    BY <1>1, <1>8, AllRead
  <2> QED BY <1>1, <2>3, <2>4 DEF Sound
<1>12. Quiet'
  <2>1. ASSUME ~ changed' PROVE \A f \in 0 .. row : Covers(f)'
    <3>1. ~ changed /\ new = old
      BY <2>1 DEF Carry
    <3>2. \A g \in Rows(program.name) : At(failures', g) = At(failures, g)
      BY <1>7, <3>1
    <3>3. ASSUME NEW f \in 0 .. row PROVE Covers(f)
      <4>1. CASE f = row
        <5>1. \A y \in from : Within(y, old)
          BY <1>6, <3>1
        <5> QED BY <4>1, <5>1 DEF Covers
      <4>2. CASE f # row
        <5>1. f \in 0 .. row - 1
          BY <1>2, <4>2
        <5> QED BY <1>1, <3>1, <5>1 DEF Quiet
      <4> QED BY <4>1, <4>2
    <3>4. ASSUME NEW f \in 0 .. row PROVE f \in Rows(program.name)
      BY <1>1, <1>2, AllRead
    <3> QED BY <1>1, <3>2, <3>3, <3>4 DEF Covers
  <2>2. row' - 1 = row
    BY <1>1, <1>2
  <2>3. ~ Settled'
    BY <1>1 DEF Settled
  <2> QED BY <2>1, <2>2, <2>3 DEF Quiet
<1> QED BY <1>9, <1>11, <1>12 DEF RoundInvariant

LEMMA ReadDoneKeeps ==
  ASSUME Shape, Sound, ReadDone PROVE RoundInvariant'
<1>1. /\ program \in Programs /\ Count \in Nat
      /\ program' = program /\ failures' = failures /\ reaches' = reaches
      /\ row = Count /\ row' = 0 /\ changed' = changed
      /\ pc = "read" /\ pc' = (IF Count = 0 THEN "name" ELSE "carry")
  BY ProgramShape DEF Shape, ReadDone, Count
<1>2. ReadSoFar = Count /\ ReadSoFar' = Count
  BY <1>1 DEF ReadSoFar, Count
<1>3. Shape' /\ Sound'
  <2>1. row' \in 0 .. Count /\ changed' \in BOOLEAN
    BY <1>1 DEF Shape
  <2>2. pc' \in {"read", "carry", "name"}
    BY <1>1
  <2> QED BY <1>1, <1>2, <2>1, <2>2, Kept
<1>4. Quiet'
  <2>1. 0 .. row' - 1 = {}
    BY <1>1
  <2>2. Count = 0 => Rows(program'.name) = {}
    BY <1>1 DEF Rows, Count
  <2> QED BY <1>1, <2>1, <2>2 DEF Quiet, Settled
<1> QED BY <1>3, <1>4 DEF RoundInvariant

LEMMA RoundDoneKeeps ==
  ASSUME Shape, Sound, Quiet, RoundDone PROVE RoundInvariant'
<1>1. /\ program' = program /\ failures' = failures /\ reaches' = reaches
      /\ row = Count /\ row' = 0 /\ pc = "carry" /\ Count \in Nat
  BY AllRead DEF RoundDone
<1>2. \/ pc' = "carry" /\ changed' = FALSE
      \/ pc' = "name" /\ changed' = changed
  BY <1>1 DEF RoundDone
<1>3. ReadSoFar = Count /\ ReadSoFar' = Count
  BY <1>1, <1>2 DEF ReadSoFar, Count
<1>4. Shape' /\ Sound'
  <2>1. row' \in 0 .. Count /\ changed' \in BOOLEAN
    <3>1. row' \in 0 .. Count
      BY <1>1
    <3>2. changed \in BOOLEAN
      BY DEF Shape
    <3>3. changed' \in BOOLEAN
      BY <1>2, <3>2
    <3> QED BY <3>1, <3>3
  <2>2. pc' \in {"read", "carry", "name"}
    BY <1>2
  <2> QED BY <1>1, <1>3, <2>1, <2>2, Kept
<1>5. Quiet'
  <2>1. 0 .. row' - 1 = {}
    BY <1>1
  <2>2. ASSUME NEW f \in Rows(program.name), ~ changed PROVE Covers(f)
    <3>1. f \in 0 .. row - 1
      BY <1>1, AllRead
    <3> QED BY <1>1, <2>2, <3>1 DEF Quiet
  <2>3. \A f : Covers(f)' <=> Covers(f)
    BY <1>1 DEF Covers
  <2> QED BY <1>1, <1>2, <2>1, <2>2, <2>3 DEF Quiet, Settled
<1> QED BY <1>4, <1>5 DEF RoundInvariant

LEMMA NameKeeps ==
  ASSUME Shape, Sound, Quiet, Naming, NEW failing, Name(failing)
  PROVE  RoundInvariant'
<1>1. /\ program' = program /\ failures' = failures /\ reaches' = reaches
      /\ row < Count /\ row' = row + 1 /\ pc = "name" /\ pc' = "name"
      /\ changed' = changed /\ Count \in Nat
  BY AllRead DEF Naming, Name
<1>2. ReadSoFar' = ReadSoFar
  BY <1>1 DEF ReadSoFar, Count
<1>3. Shape' /\ Sound'
  <2>1. row' \in 0 .. Count /\ changed' \in BOOLEAN
    BY <1>1 DEF Shape
  <2>2. pc' \in {"read", "carry", "name"}
    BY <1>1
  <2> QED BY <1>1, <1>2, <2>1, <2>2, Kept
<1>4. Quiet'
  <2>1. \A f : Covers(f)' <=> Covers(f)
    BY <1>1 DEF Covers
  <2> QED BY <1>1, <2>1 DEF Quiet, Settled
<1> QED BY <1>3, <1>4 DEF RoundInvariant

LEMMA RoundStep == RoundInvariant /\ [Next]_vars => RoundInvariant'
<1> SUFFICES ASSUME Shape, Sound, Quiet, [Next]_vars PROVE RoundInvariant'
  BY DEF RoundInvariant
<1>1. CASE ReadFunction
  BY <1>1, ReadFunctionKeeps
<1>2. CASE ReadDone
  BY <1>2, ReadDoneKeeps
<1>3. CASE Carry
  BY <1>3, CarryKeeps
<1>4. CASE RoundDone
  BY <1>4, RoundDoneKeeps
<1>5. CASE NameNothing
  BY <1>5, NameKeeps DEF NameNothing
<1>6. CASE NameDeclared
  BY <1>6, NameKeeps DEF NameDeclared
<1>7. CASE NameGenerated
  BY <1>7, NameKeeps DEF NameGenerated
<1>8. CASE UNCHANGED vars
  <2>1. /\ program' = program /\ failures' = failures /\ reaches' = reaches
        /\ row' = row /\ pc' = pc /\ changed' = changed
    BY <1>8 DEF vars
  <2>2. Shape' /\ Sound'
    BY <2>1 DEF Shape, Sound, ReadSoFar, Count
  <2>3. \A f : Covers(f)' <=> Covers(f)
    BY <2>1 DEF Covers
  <2>4. Quiet'
    BY <2>1, <2>3 DEF Quiet, Settled
  <2> QED BY <2>2, <2>4 DEF RoundInvariant
<1> QED BY <1>1, <1>2, <1>3, <1>4, <1>5, <1>6, <1>7, <1>8 DEF Next, Returned

\* Once nothing changes, a function covers all it reaches, however far.
LEMMA InvariantFollows == RoundInvariant => FailuresFollowCalls
<1> SUFFICES ASSUME Shape, Sound, Quiet, NEW f \in Rows(failures)
             PROVE  /\ Within(At(failures, f), Whole(program, f))
                    /\ Settled => At(failures, f) = Whole(program, f)
  BY DEF RoundInvariant, FailuresFollowCalls
<1>1. Within(At(failures, f), Whole(program, f))
  <2>1. ReadSoFar \in Nat
    BY ProgramShape DEF Shape, ReadSoFar, Count
  <2>2. failures \in [1 .. ReadSoFar -> FailureType]
    BY DEF Shape
  <2>3. Len(failures) = ReadSoFar
    BY <2>1, <2>2
  <2>4. f \in 0 .. ReadSoFar - 1
    BY <2>3 DEF Rows
  <2> QED BY <2>4 DEF Sound
<1>2. ASSUME Settled PROVE At(failures, f) = Whole(program, f)
  <2>1. pc = "name" /\ \A h \in Rows(program.name) : Covers(h)
    BY <1>2 DEF Settled, Quiet
  <2>2. /\ Rows(failures) = Rows(program.name)
        /\ \A h \in Rows(program.name) : Within(Own(program, h), At(failures, h))
    BY <2>1, AllRead DEF Sound
  <2>3. f \in Rows(program.name) /\ IsFailure(At(failures, f))
    BY <2>1, <2>2, AllRead, TypedIsFailure
  <2> DEFINE inside == { h \in Rows(program.name) : Within(At(failures, h), At(failures, f)) }
  <2>4. f \in inside
    <3>1. Within(At(failures, f), At(failures, f))
      BY DEF Within
    <3> QED BY <2>3, <3>1
  <2>5. ASSUME NEW h \in inside
        PROVE  Through(program, h) \cap Rows(program.name) \subseteq inside
    <3>1. ASSUME NEW g \in Through(program, h) \cap Rows(program.name)
          PROVE  Within(At(failures, g), At(failures, f))
      <4>1. Within(At(failures, g), At(failures, h))
        BY <2>1 DEF Covers
      <4> QED BY <4>1, WithinTransitive
    <3> QED BY <3>1
  <2>6. Sources(program, f) \subseteq inside
    <3>1. inside \in SUBSET Rows(program.name)
      OBVIOUS
    <3> HIDE DEF inside
    <3> QED BY <2>3, <2>4, <2>5, <3>1, SourcesFacts
  <2>7. ASSUME NEW g \in Sources(program, f)
        PROVE  Within(Own(program, g), At(failures, f))
    BY <2>2, <2>6, WithinTransitive
  <2>8. Within(Whole(program, f), At(failures, f))
    BY <2>7, WholeLeast
  <2> QED BY <1>1, <2>3, <2>8, WholeLeast, WithinBoth
<1> QED BY <1>1, <1>2

(***************************************************************************)
(* What resolve_failures finds a function to fail with comes from the      *)
(* functions it reaches, and all of it is found once a round changes       *)
(* nothing, whatever the program and the order of its calls.               *)
(***************************************************************************)
THEOREM FailuresComeFromCalls == Spec => []FailuresFollowCalls
<1>1. Init => RoundInvariant
  BY RoundInit
<1>2. RoundInvariant /\ [Next]_vars => RoundInvariant'
  BY RoundStep
<1>3. RoundInvariant => FailuresFollowCalls
  BY InvariantFollows
<1> QED BY <1>1, <1>2, <1>3, PTL DEF Spec

-----------------------------------------------------------------------------
(* How many rounds the failures need.                                      *)

\* A function and its callees.
Nearest(p, f) == {f} \cup (Through(p, f) \cap Rows(p.name))

\* A walk of so many steps from a function, each along a call or on the spot.
IsWalk(p, f, k, walk) ==
  /\ walk \in [0 .. k -> Rows(p.name)]
  /\ walk[0] = f
  /\ \A i \in 0 .. k - 1 : walk[i + 1] \in Nearest(p, walk[i])

\* The functions so many calls away, or fewer.
Near(p, f, k) == { g \in Rows(p.name) : \E walk : IsWalk(p, f, k, walk) /\ walk[k] = g }

\* A function is near itself, and the only one that no call leads to.
LEMMA NearItself ==
  ASSUME NEW p, NEW f \in Rows(p.name), NEW k \in Nat
  PROVE  f \in Near(p, f, k) /\ Near(p, f, 0) = {f}
<1> DEFINE still == [i \in 0 .. k |-> f]
<1>1. still \in [0 .. k -> Rows(p.name)] /\ still[0] = f /\ still[k] = f
  OBVIOUS
<1>2. \A i \in 0 .. k - 1 : still[i + 1] \in Nearest(p, still[i])
  BY DEF Nearest
<1>3. IsWalk(p, f, k, still)
  BY <1>1, <1>2 DEF IsWalk
<1> HIDE DEF still
<1>4. f \in Near(p, f, k)
  BY <1>1, <1>3, Zenon DEF Near
<1> DEFINE alone == [i \in 0 .. 0 |-> f]
<1>5. IsWalk(p, f, 0, alone) /\ alone[0] = f
  BY DEF IsWalk
<1> HIDE DEF alone
<1>6. f \in Near(p, f, 0)
  BY <1>5, Zenon DEF Near
<1>7. ASSUME NEW g \in Near(p, f, 0) PROVE g = f
  BY <1>7 DEF Near, IsWalk
<1> QED BY <1>4, <1>6, <1>7

\* A call more, made last: what was near stays near, its callees become so.
LEMMA NearGrows ==
  ASSUME NEW p, NEW f \in Rows(p.name), NEW k \in Nat,
         NEW h \in Near(p, f, k), NEW g \in Nearest(p, h)
  PROVE  g \in Near(p, f, k + 1)
<1>1. PICK walk : IsWalk(p, f, k, walk) /\ walk[k] = h
  BY DEF Near
<1>2. h \in Rows(p.name) /\ g \in Rows(p.name)
  BY DEF Near, Nearest
<1> DEFINE longer == [i \in 0 .. k + 1 |-> IF i = k + 1 THEN g ELSE walk[i]]
<1>3. /\ walk \in [0 .. k -> Rows(p.name)] /\ walk[0] = f
      /\ \A i \in 0 .. k - 1 : walk[i + 1] \in Nearest(p, walk[i])
  BY <1>1 DEF IsWalk
<1>4. \A i \in 0 .. k : longer[i] = walk[i]
  OBVIOUS
<1>5. longer[k + 1] = g
  OBVIOUS
<1>6. longer \in [0 .. k + 1 -> Rows(p.name)]
  <2>1. ASSUME NEW i \in 0 .. k + 1, i # k + 1 PROVE i \in 0 .. k
    BY <2>1
  <2> QED BY <1>2, <1>3, <2>1
<1>7. ASSUME NEW i \in 0 .. (k + 1) - 1
      PROVE  longer[i + 1] \in Nearest(p, longer[i])
  <2> HIDE DEF longer
  <2>1. CASE i = k
    BY <1>1, <1>4, <1>5, <2>1
  <2>2. CASE i # k
    <3>1. i \in 0 .. k - 1 /\ i \in 0 .. k /\ i + 1 \in 0 .. k
      BY <2>2
    <3> QED BY <1>3, <1>4, <3>1
  <2> QED BY <2>1, <2>2
<1> HIDE DEF longer
<1>8. longer[0] = f
  BY <1>3, <1>4
<1>9. IsWalk(p, f, k + 1, longer)
  BY <1>6, <1>7, <1>8 DEF IsWalk
<1> QED BY <1>2, <1>5, <1>9, Zenon DEF Near

\* A call more, made first: what is near has been near to a callee.
LEMMA NearOfCallees ==
  ASSUME NEW p, NEW f \in Rows(p.name), NEW k \in Nat,
         NEW g \in Near(p, f, k + 1)
  PROVE  \E h \in Nearest(p, f) : g \in Near(p, h, k)
<1>1. PICK walk : IsWalk(p, f, k + 1, walk) /\ walk[k + 1] = g
  BY DEF Near
<1>2. /\ walk \in [0 .. k + 1 -> Rows(p.name)] /\ walk[0] = f
      /\ \A i \in 0 .. k : walk[i + 1] \in Nearest(p, walk[i])
  <2>1. (k + 1) - 1 = k
    OBVIOUS
  <2> QED BY <1>1, <2>1 DEF IsWalk
<1> DEFINE shorter == [i \in 0 .. k |-> walk[i + 1]]
<1>3. \A i \in 0 .. k : shorter[i] = walk[i + 1]
  OBVIOUS
<1>4. shorter \in [0 .. k -> Rows(p.name)]
  BY <1>2
<1> HIDE DEF shorter
<1>5. ASSUME NEW i \in 0 .. k - 1
      PROVE  shorter[i + 1] \in Nearest(p, shorter[i])
  <2>1. i \in 0 .. k /\ i + 1 \in 0 .. k
    OBVIOUS
  <2> QED BY <1>2, <1>3, <2>1
<1>6. 0 \in 0 .. k /\ k \in 0 .. k
  OBVIOUS
<1>7. shorter[0] = walk[1] /\ shorter[k] = g
  BY <1>1, <1>3, <1>6
<1>8. walk[1] \in Nearest(p, f)
  BY <1>2, <1>6
<1>9. IsWalk(p, walk[1], k, shorter)
  BY <1>4, <1>5, <1>7 DEF IsWalk
<1>10. g \in Rows(p.name)
  BY DEF Near
<1>11. g \in Near(p, walk[1], k)
  BY <1>7, <1>9, <1>10, Zenon DEF Near
<1> QED BY <1>8, <1>11

\* Every call more reaches a function more, until all the sources are near.
LEMMA NearCounts ==
  ASSUME NEW p, NEW f \in Rows(p.name), Len(p.name) \in Nat, NEW n \in Nat
  PROVE  Sources(p, f) \subseteq Near(p, f, n) \/ n < Cardinality(Near(p, f, n))
<1> DEFINE Fine(k) == \/ Sources(p, f) \subseteq Near(p, f, k)
                      \/ k < Cardinality(Near(p, f, k))
           Bad == { k \in Nat : ~ Fine(k) }
<1>1. SUFFICES ASSUME Bad # {} PROVE FALSE
  OBVIOUS
<1>2. PICK k \in Bad : \A j \in Bad : k =< j
  BY <1>1, LeastNatural
<1>3. k \in Nat /\ ~ Fine(k)
  OBVIOUS
<1>4. k # 0
  <2>1. Cardinality(Near(p, f, 0)) = 1
    BY NearItself, FS_Singleton
  <2> QED BY <1>3, <2>1
<1> DEFINE j == k - 1
<1>5. j \in Nat /\ j + 1 = k /\ Fine(j)
  <2>1. j \in Nat /\ j + 1 = k /\ ~ (k =< j)
    BY <1>3, <1>4
  <2>2. j \notin Bad
    BY <1>2, <2>1
  <2> HIDE DEF j, Fine
  <2> QED BY <2>1, <2>2
<1> HIDE DEF j
<1>6. Near(p, f, j) \subseteq Near(p, f, k)
  BY <1>5, NearGrows DEF Nearest
<1>7. CASE Sources(p, f) \subseteq Near(p, f, j)
  BY <1>3, <1>6, <1>7
<1>8. CASE j < Cardinality(Near(p, f, j))
  <2>1. IsFiniteSet(Near(p, f, k)) /\ IsFiniteSet(Near(p, f, j))
    <3>1. IsFiniteSet(Rows(p.name))
      <4>1. Len(p.name) - 1 \in Int
        OBVIOUS
      <4>2. IsFiniteSet(0 .. Len(p.name) - 1)
        <5> HIDE DEF Fine, Bad
        <5> QED BY <4>1, FS_Interval
      <4> QED BY <4>2 DEF Rows
    <3>2. Near(p, f, k) \subseteq Rows(p.name) /\ Near(p, f, j) \subseteq Rows(p.name)
      BY DEF Near
    <3> QED BY <3>1, <3>2, FS_Subset
  <2>2. /\ Cardinality(Near(p, f, j)) \in Nat
        /\ Cardinality(Near(p, f, k)) \in Nat
        /\ Cardinality(Near(p, f, j)) =< Cardinality(Near(p, f, k))
    BY <1>6, <2>1, FS_Subset, FS_CardinalityType
  <2>3. Cardinality(Near(p, f, j)) = Cardinality(Near(p, f, k))
    BY <1>3, <1>5, <1>8, <2>2
  <2>4. Near(p, f, j) = Near(p, f, k)
    BY <1>6, <2>1, <2>3, FS_Subset
  <2>5. \A h \in Near(p, f, j) : Through(p, h) \cap Rows(p.name) \subseteq Near(p, f, j)
    BY <1>5, <2>4, NearGrows DEF Nearest
  <2>6. f \in Near(p, f, j)
    BY <1>5, NearItself
  <2>7. Near(p, f, j) \in SUBSET Rows(p.name)
    BY DEF Near
  <2>8. Sources(p, f) \subseteq Near(p, f, j)
    BY <2>5, <2>6, <2>7, SourcesFacts
  <2> QED BY <1>3, <2>4, <2>8
<1> QED BY <1>5, <1>7, <1>8

\* After so many rounds, a function fails with what is as many calls away.
Paced ==
  /\ round \in Nat
  /\ pc = "read" => ~ changed /\ round = 0
  /\ pc = "carry" =>
       \A f \in Rows(program.name) :
         /\ \A g \in Near(program, f, round) : Within(Own(program, g), At(failures, f))
         /\ f < row => \A g \in Near(program, f, round + 1) :
                         Within(Own(program, g), At(failures, f))
  /\ pc = "carry" /\ Count - 1 =< round => ~ changed
  /\ pc = "name" /\ Count =< MaximumRounds => ~ changed

\* As many rounds as there are functions, less one, find everything.
LEMMA PacedIsWhole ==
  ASSUME Shape, Sound, Paced, pc = "carry", Count - 1 =< round
  PROVE  \A f \in Rows(program.name) : At(failures, f) = Whole(program, f)
<1> SUFFICES ASSUME NEW f \in Rows(program.name)
             PROVE  At(failures, f) = Whole(program, f)
  OBVIOUS
<1>1. /\ Count \in Nat /\ Len(program.name) = Count /\ round \in Nat
      /\ Rows(program.name) = 0 .. Count - 1
      /\ IsFailure(At(failures, f))
      /\ Within(At(failures, f), Whole(program, f))
  <2>1. /\ Count \in Nat /\ Rows(program.name) = 0 .. Count - 1 /\ ReadSoFar = Count
        /\ At(failures, f) \in FailureType
    BY AllRead
  <2> QED BY <2>1, TypedIsFailure DEF Sound, Paced, Count
<1>2. Sources(program, f) \subseteq Near(program, f, round)
  <2>1. CASE round < Cardinality(Near(program, f, round))
    <3>1. IsFiniteSet(0 .. Count - 1) /\ Cardinality(0 .. Count - 1) = Count
      <4>1. Count - 1 \in Int /\ 0 \in Int
        BY <1>1
      <4> QED BY <1>1, <4>1, FS_Interval
    <3>2. Near(program, f, round) \in SUBSET (0 .. Count - 1)
      BY <1>1 DEF Near
    <3>3. /\ IsFiniteSet(Near(program, f, round))
          /\ Cardinality(Near(program, f, round)) =< Count
      BY <3>1, <3>2, FS_Subset
    <3>4. Cardinality(Near(program, f, round)) \in Nat
      BY <3>3, FS_CardinalityType
    <3>5. Cardinality(Near(program, f, round)) = Count
      BY <1>1, <2>1, <3>3, <3>4
    <3>6. Near(program, f, round) = 0 .. Count - 1
      BY <3>1, <3>2, <3>5, FS_Subset
    <3> QED BY <1>1, <3>6, SourcesFacts
  <2> QED BY <1>1, <2>1, NearCounts
<1>3. \A g \in Sources(program, f) : Within(Own(program, g), At(failures, f))
  BY <1>2 DEF Paced
<1>4. Within(Whole(program, f), At(failures, f))
  BY <1>3, WholeLeast
<1> QED BY <1>1, <1>4, WholeLeast, WithinBoth

LEMMA CarryPaces ==
  ASSUME Shape, Sound, Paced, Carry PROVE Paced'
<1> DEFINE from == { At(failures, g) : g \in Through(program, row) \cap Rows(program.name) }
           new  == Carried(row)
<1>1. /\ pc = "carry" /\ pc' = "carry" /\ program' = program /\ round' = round
      /\ row' = row + 1 /\ row < Count /\ Count' = Count /\ round \in Nat
  BY DEF Carry, Paced, Count
<1>2. /\ Count \in Nat /\ row \in Nat /\ row \in Rows(program.name)
      /\ Rows(program.name) = 0 .. Count - 1
      /\ failures \in [1 .. Count -> FailureType]
      /\ new = Absorb(At(failures, row), from)
      /\ IsFailure(At(failures, row)) /\ \A y \in from : IsFailure(y)
  <2>1. row \in Nat
    BY <1>1, AllRead DEF Shape
  <2>2. row \in Rows(program.name)
    BY <1>1, <2>1, AllRead
  <2> QED BY <1>1, <2>1, <2>2, AllRead, TypedIsFailure DEF Carried
<1>3. /\ IsFailure(new)
      /\ Within(At(failures, row), new)
      /\ \A y \in from : Within(y, new)
      /\ \A z : Within(At(failures, row), z) /\ (\A y \in from : Within(y, z))
           => Within(new, z)
  <2> HIDE DEF from, new
  <2> QED BY <1>2, AbsorbLeast
<1> HIDE DEF new
<1>4. /\ At(failures', row) = new
      /\ \A f \in Rows(program.name) : f # row => At(failures', f) = At(failures, f)
  <2>1. failures' = [failures EXCEPT ![row + 1] = new]
    BY DEF Carry, new
  <2>2. row + 1 \in 1 .. Count
    BY <1>1, <1>2
  <2>3. ASSUME NEW f \in Rows(program.name), f # row
        PROVE  At(failures', f) = At(failures, f)
    <3>1. f + 1 \in 1 .. Count /\ f + 1 # row + 1
      BY <1>2, <2>3
    <3> QED BY <1>2, <2>1, <3>1 DEF At
  <2> QED BY <1>2, <2>1, <2>2, <2>3 DEF At
<1>5. \A f \in Rows(program.name) : Within(At(failures, f), At(failures', f))
  BY <1>3, <1>4 DEF Within
<1>6. \A f \in Rows(program.name) : \A g \in Near(program, f, round) :
        Within(Own(program, g), At(failures', f))
  BY <1>1, <1>5, WithinTransitive DEF Paced
<1>7. ASSUME NEW g \in Near(program, row, round + 1)
      PROVE  Within(Own(program, g), At(failures', row))
  <2>1. PICK h \in Nearest(program, row) : g \in Near(program, h, round)
    BY <1>1, <1>2, NearOfCallees
  <2>2. CASE h = row
    BY <1>2, <1>6, <2>1, <2>2
  <2>3. CASE h \in Through(program, row) \cap Rows(program.name)
    <3>1. Within(Own(program, g), At(failures, h))
      BY <1>1, <2>1, <2>3 DEF Paced
    <3>2. Within(At(failures, h), new)
      BY <1>3, <2>3
    <3> QED BY <1>4, <3>1, <3>2, WithinTransitive
  <2> QED BY <2>1, <2>2, <2>3 DEF Nearest
<1>8. ASSUME NEW f \in Rows(program.name), f < row',
             NEW g \in Near(program, f, round + 1)
      PROVE  Within(Own(program, g), At(failures', f))
  <2>1. CASE f = row
    BY <1>7, <2>1
  <2>2. CASE f # row
    <3>1. f < row
      BY <1>1, <1>2, <1>8, <2>2
    <3>2. Within(Own(program, g), At(failures, f))
      BY <1>1, <3>1 DEF Paced
    <3> QED BY <1>5, <3>2, WithinTransitive
  <2> QED BY <2>1, <2>2
<1>9. ASSUME Count - 1 =< round PROVE ~ changed'
  <2>1. \A f \in Rows(program.name) : At(failures, f) = Whole(program, f)
    BY <1>1, <1>9, PacedIsWhole
  <2>2. \A y \in from : Within(y, At(failures, row))
    BY <1>2, <2>1, WholeOfCallee
  <2>3. Within(At(failures, row), At(failures, row))
    BY DEF Within
  <2>4. Within(new, At(failures, row))
    BY <1>3, <2>2, <2>3
  <2>5. new = At(failures, row)
    BY <1>2, <1>3, <2>4, WithinBoth
  <2>6. changed' = (changed \/ new # At(failures, row))
    BY DEF Carry, new
  <2> QED BY <1>1, <1>9, <2>5, <2>6 DEF Paced
<1> QED BY <1>1, <1>6, <1>8, <1>9 DEF Paced

LEMMA RoundDonePaces ==
  ASSUME Shape, Sound, Paced, RoundDone PROVE Paced'
<1>1. /\ pc = "carry" /\ program' = program /\ failures' = failures
      /\ row = Count /\ row' = 0 /\ Count' = Count /\ round \in Nat
  BY DEF RoundDone, Paced, Count
<1>2. Count \in Nat /\ Rows(program.name) = 0 .. Count - 1
  BY <1>1, AllRead
<1>3. CASE changed /\ round + 1 < Limit
  <2>1. round' = round + 1 /\ changed' = FALSE /\ pc' = "carry"
    BY <1>1, <1>3 DEF RoundDone
  <2>2. \A f \in Rows(program.name) : f < row /\ ~ (f < row')
    BY <1>1, <1>2
  <2>3. \A f \in Rows(program.name) : \A g \in Near(program, f, round + 1) :
          Within(Own(program, g), At(failures, f))
    BY <1>1, <2>2 DEF Paced
  <2> QED BY <1>1, <2>1, <2>2, <2>3 DEF Paced
<1>4. CASE ~ (changed /\ round + 1 < Limit)
  <2>1. pc' = "name" /\ round' = round /\ changed' = changed
    BY <1>1, <1>4 DEF RoundDone
  <2>2. ASSUME Count =< MaximumRounds PROVE ~ changed
    <3>1. Limit = Count
      BY <1>2, <2>2, LimitsAssumption DEF Limit
    <3>2. CASE Count - 1 =< round
      BY <1>1, <3>2 DEF Paced
    <3>3. CASE ~ (Count - 1 =< round)
      BY <1>1, <1>2, <1>4, <3>1, <3>3
    <3> QED BY <3>2, <3>3
  <2> QED BY <1>1, <2>1, <2>2 DEF Paced
<1> QED BY <1>3, <1>4

LEMMA ReadDonePaces ==
  ASSUME Shape, Sound, Paced, ReadDone PROVE Paced'
<1>1. /\ program' = program /\ failures' = failures /\ row = Count /\ row' = 0
      /\ pc = "read" /\ changed' = changed /\ round' = round /\ Count' = Count
      /\ pc' \in {"carry", "name"} /\ ~ changed /\ round = 0
      /\ program \in Programs
  BY DEF ReadDone, Paced, Shape, Count
<1>2. Len(program.name) \in Nat
  BY <1>1, ProgramShape
<1>3. ReadSoFar = Count
  BY <1>1 DEF ReadSoFar
<1>4. ASSUME NEW f \in Rows(program.name)
      PROVE  /\ \A g \in Near(program, f, 0) : Within(Own(program, g), At(failures, f))
             /\ ~ (f < row')
  <2>1. f \in 0 .. ReadSoFar - 1
    BY <1>2, <1>3 DEF Rows, Count
  <2>2. Within(Own(program, f), At(failures, f))
    BY <2>1 DEF Sound
  <2>3. ~ (f < 0)
    BY <1>2 DEF Rows
  <2> QED BY <1>1, <2>2, <2>3, NearItself
<1> QED BY <1>1, <1>4 DEF Paced

LEMMA PacedStep ==
  ASSUME Shape, Sound, Paced, [Next]_vars PROVE Paced'
<1>1. CASE ReadFunction
  BY <1>1 DEF ReadFunction, Paced
<1>2. CASE ReadDone
  BY <1>2, ReadDonePaces
<1>3. CASE Carry
  BY <1>3, CarryPaces
<1>4. CASE RoundDone
  BY <1>4, RoundDonePaces
<1>5. ASSUME NEW failing, Naming, Name(failing) PROVE Paced'
  BY <1>5 DEF Naming, Name, Paced, Count
<1>6. CASE NameNothing
  BY <1>5, <1>6 DEF NameNothing
<1>7. CASE NameDeclared
  BY <1>5, <1>7 DEF NameDeclared
<1>8. CASE NameGenerated
  BY <1>5, <1>8 DEF NameGenerated
<1>9. CASE UNCHANGED vars
  BY <1>9 DEF vars, Paced, Count
<1> QED BY <1>1, <1>2, <1>3, <1>4, <1>6, <1>7, <1>8, <1>9 DEF Next, Returned

(***************************************************************************)
(* A program of no more functions than there are rounds settles: the last  *)
(* round follow_calls is allowed changes nothing, however long the chain   *)
(* of calls is that a failure has to come up.                              *)
(***************************************************************************)
THEOREM EveryProgramSettles == Spec => []Settles
<1>1. Init => RoundInvariant /\ Paced
  <2>1. ASSUME Init PROVE Paced
    BY <2>1 DEF Init, Paced
  <2> QED BY <2>1, RoundInit
<1>2. RoundInvariant /\ Paced /\ [Next]_vars => RoundInvariant' /\ Paced'
  BY RoundStep, PacedStep DEF RoundInvariant
<1>3. RoundInvariant /\ Paced => Settles
  BY DEF Paced, Settles, Settled
<1> QED BY <1>1, <1>2, <1>3, PTL DEF Spec

-----------------------------------------------------------------------------
(* The names.                                                              *)

Wanted(f) == Variants(program, At(failures, f))

NamedNothing(f) == ~ Inferred(program, f) \/ Wanted(f) = << >>

\* What a function has been given follows what it fails with.
Fits(f) ==
  /\ NamedNothing(f) => At(named, f) = Nothing
  /\ ~ NamedNothing(f) /\ IsDeclared(At(failures, f)) =>
       At(named, f) = Declared(CHOOSE set \in At(failures, f).sets : TRUE)
  /\ ~ NamedNothing(f) /\ ~ IsDeclared(At(failures, f)) =>
       At(named, f).kind = "Generated" /\ At(named, f).variants = Wanted(f)

\* Two functions that have been given a set to share variants share the set.
Shared(f, g) ==
  At(named, f).kind = "Generated" /\ At(named, g).kind = "Generated"
    /\ At(named, f).variants = At(named, g).variants => At(named, f) = At(named, g)

\* Whom the loop has been to has a name, and keeps it.
NamesFit ==
  /\ pc # "name" => named = << >>
  /\ pc = "name" =>
       /\ row \in Nat
       /\ named \in [1 .. row -> { named[i] : i \in 1 .. row }]
       /\ \A f \in 0 .. row - 1 : Fits(f)
       /\ \A f, g \in 0 .. row - 1 : Shared(f, g)

\* The names there were stay as they were, the new one comes after them.
LEMMA NameAppends ==
  ASSUME NamesFit, Naming, NEW failing, Name(failing)
  PROVE  /\ row \in Nat /\ row' = row + 1 /\ pc' = "name"
         /\ Rows(named) = 0 .. row - 1
         /\ named' \in [1 .. row' -> { named'[i] : i \in 1 .. row' }]
         /\ At(named', row) = failing
         /\ \A f \in 0 .. row - 1 : At(named', f) = At(named, f)
         /\ \A f : /\ Inferred(program, f)' = Inferred(program, f)
                   /\ Wanted(f)' = Wanted(f)
                   /\ NamedNothing(f)' = NamedNothing(f)
                   /\ At(failures, f)' = At(failures, f)
<1>1. /\ row \in Nat /\ row' = row + 1 /\ pc' = "name"
      /\ program' = program /\ failures' = failures
      /\ named' = Append(named, failing)
  BY DEF Naming, Name, NamesFit
<1> DEFINE S == { named[i] : i \in 1 .. row } \cup {failing}
<1>2. named \in [1 .. row -> S] /\ failing \in S
  BY DEF NamesFit, Naming
<1> HIDE DEF S
<1>3. /\ named' \in [1 .. row + 1 -> S]
      /\ named'[row + 1] = failing
      /\ \A i \in 1 .. row : named'[i] = named[i]
  <2>1. row \in Nat
    BY <1>1
  <2>2. named' = Append(named, failing)
    BY <1>1
  <2>3. named' \in [1 .. row + 1 -> S]
    BY <1>2, <2>1, <2>2, AppendType
  <2>4. named'[row + 1] = failing
    BY <1>2, <2>1, <2>2, AppendType
  <2>5. \A i \in 1 .. row : named'[i] = named[i]
    BY <1>2, <2>1, <2>2, AppendType
  <2> QED BY <2>3, <2>4, <2>5
<1>4. named' \in [1 .. row' -> { named'[i] : i \in 1 .. row' }]
  BY <1>1, <1>3
<1>5. Rows(named) = 0 .. row - 1
  <2>1. Len(named) = row
    BY <1>1, <1>2
  <2> QED BY <2>1 DEF Rows
<1>6. \A f \in 0 .. row - 1 : At(named', f) = At(named, f)
  <2> SUFFICES ASSUME NEW f \in 0 .. row - 1 PROVE At(named', f) = At(named, f)
    OBVIOUS
  <2>1. f + 1 \in 1 .. row
    BY <1>1
  <2> QED BY <1>3, <2>1 DEF At
<1>7. At(named', row) = failing
  BY <1>3 DEF At
<1>8. \A f : /\ Inferred(program, f)' = Inferred(program, f)
             /\ Wanted(f)' = Wanted(f)
             /\ NamedNothing(f)' = NamedNothing(f)
             /\ At(failures, f)' = At(failures, f)
  BY <1>1 DEF Wanted, NamedNothing
<1> QED BY <1>1, <1>4, <1>5, <1>6, <1>7, <1>8

\* A name that fits the function, and is the one of all that share its set.
LEMMA NameFits ==
  ASSUME NamesFit, Naming, NEW failing, Name(failing),
         NamedNothing(row) => failing = Nothing,
         ~ NamedNothing(row) /\ IsDeclared(At(failures, row)) =>
           failing = Declared(CHOOSE set \in At(failures, row).sets : TRUE),
         ~ NamedNothing(row) /\ ~ IsDeclared(At(failures, row)) =>
           failing.kind = "Generated" /\ failing.variants = Wanted(row),
         \A f \in 0 .. row - 1 :
           At(named, f).kind = "Generated" /\ failing.kind = "Generated"
             /\ At(named, f).variants = failing.variants => At(named, f) = failing
  PROVE  NamesFit'
<1>1. /\ row \in Nat /\ row' = row + 1 /\ pc' = "name" /\ pc = "name"
      /\ named' \in [1 .. row' -> { named'[i] : i \in 1 .. row' }]
      /\ At(named', row) = failing
      /\ \A f \in 0 .. row - 1 : At(named', f) = At(named, f)
      /\ \A f : /\ Inferred(program, f)' = Inferred(program, f)
                /\ Wanted(f)' = Wanted(f)
                /\ NamedNothing(f)' = NamedNothing(f)
                /\ At(failures, f)' = At(failures, f)
  BY NameAppends DEF Naming
<1>2. Nothing.kind # "Generated" /\ \A set : Declared(set).kind # "Generated"
  BY DEF Nothing, Declared
<1>3. ASSUME NEW f \in 0 .. row' - 1 PROVE Fits(f)'
  <2>1. CASE f \in 0 .. row - 1
    <3>1. Fits(f)
      BY <1>1, <2>1 DEF NamesFit
    <3>2. At(named', f) = At(named, f)
      BY <1>1, <2>1
    <3> QED BY <1>1, <3>1, <3>2 DEF Fits
  <2>2. CASE f \notin 0 .. row - 1
    <3>1. f = row
      BY <1>1, <2>2
    <3>2. At(named', f) = failing
      BY <1>1, <3>1
    <3> QED BY <1>1, <3>1, <3>2 DEF Fits
  <2> QED BY <2>1, <2>2
<1>4. ASSUME NEW f \in 0 .. row' - 1, NEW g \in 0 .. row' - 1 PROVE Shared(f, g)'
  <2>1. /\ f = row \/ f \in 0 .. row - 1
        /\ g = row \/ g \in 0 .. row - 1
    BY <1>1
  <2>2. /\ f \in 0 .. row - 1 => At(named', f) = At(named, f)
        /\ f = row => At(named', f) = failing
        /\ g \in 0 .. row - 1 => At(named', g) = At(named, g)
        /\ g = row => At(named', g) = failing
    BY <1>1
  <2>3. f \in 0 .. row - 1 /\ g \in 0 .. row - 1 => Shared(f, g)
    BY <1>1 DEF NamesFit
  <2> QED BY <2>1, <2>2, <2>3 DEF Shared
<1> QED BY <1>1, <1>3, <1>4 DEF NamesFit

\* A set made for functions before is one they were given.
LEMMA MintedIsShared ==
  ASSUME NamesFit, Naming, NEW variants, Minted(variants) # {}
  PROVE  LET shared == At(named, FirstOf(Minted(variants)))
         IN  /\ shared.kind = "Generated" /\ shared.variants = variants
             /\ \A f \in 0 .. row - 1 :
                  At(named, f).kind = "Generated" /\ At(named, f).variants = variants
                  => At(named, f) = shared
<1>1. row \in Nat /\ named \in [1 .. row -> { named[i] : i \in 1 .. row }]
  BY DEF NamesFit, Naming
<1>2. Rows(named) = 0 .. row - 1
  <2>1. Len(named) = row
    BY <1>1
  <2> QED BY <2>1 DEF Rows
<1>3. Minted(variants) \in SUBSET Nat /\ Minted(variants) \in SUBSET (0 .. row - 1)
  BY <1>1, <1>2 DEF Minted
<1>4. PICK first : first = FirstOf(Minted(variants))
  OBVIOUS
<1>5. first \in Minted(variants)
  BY <1>3, <1>4, FirstOfType
<1>6. /\ first \in 0 .. row - 1
      /\ At(named, first).kind = "Generated" /\ At(named, first).variants = variants
  BY <1>3, <1>5 DEF Minted
<1>7. \A f \in 0 .. row - 1 : Shared(f, first)
  BY <1>6 DEF NamesFit, Naming
<1> QED BY <1>4, <1>6, <1>7 DEF Shared

LEMMA NameNothingFits ==
  ASSUME NamesFit, NameNothing PROVE NamesFit'
<1>1. Naming /\ NamedNothing(row) /\ Name(Nothing)
  BY DEF NameNothing, NamedNothing, Wanted
<1>2. Nothing.kind # "Generated"
  BY DEF Nothing
<1> QED BY <1>1, <1>2, NameFits

LEMMA NameDeclaredFits ==
  ASSUME NamesFit, NameDeclared PROVE NamesFit'
<1> DEFINE declared == Declared(CHOOSE set \in At(failures, row).sets : TRUE)
<1>1. Naming /\ ~ NamedNothing(row) /\ IsDeclared(At(failures, row)) /\ Name(declared)
  BY DEF NameDeclared, NamedNothing, Wanted
<1>2. declared.kind # "Generated"
  BY DEF Declared
<1> QED BY <1>1, <1>2, NameFits

LEMMA NameGeneratedFits ==
  ASSUME NamesFit, NameGenerated PROVE NamesFit'
<1> DEFINE variants == Wanted(row)
           failing  == IF Minted(variants) # {}
                       THEN At(named, FirstOf(Minted(variants)))
                       ELSE Generated(program, row, variants)
<1>1. Naming /\ ~ NamedNothing(row) /\ ~ IsDeclared(At(failures, row)) /\ Name(failing)
  BY DEF NameGenerated, NamedNothing, Wanted
<1>2. CASE Minted(variants) # {}
  <2>1. failing = At(named, FirstOf(Minted(variants)))
    BY <1>2
  <2>2. /\ failing.kind = "Generated" /\ failing.variants = variants
        /\ \A f \in 0 .. row - 1 :
             At(named, f).kind = "Generated" /\ At(named, f).variants = variants
             => At(named, f) = failing
    <3> HIDE DEF variants, failing
    <3> QED BY <1>1, <1>2, <2>1, MintedIsShared
  <2> HIDE DEF failing
  <2> QED BY <1>1, <2>2, NameFits
<1>3. CASE Minted(variants) = {}
  <2>1. failing.kind = "Generated" /\ failing.variants = variants
    BY <1>3 DEF Generated
  <2>2. ASSUME NEW f \in 0 .. row - 1
        PROVE ~ (At(named, f).kind = "Generated" /\ At(named, f).variants = variants)
    <3>1. f \in Rows(named)
      BY <1>1, NameAppends
    <3> QED BY <1>3, <3>1 DEF Minted
  <2> HIDE DEF failing
  <2> QED BY <1>1, <2>1, <2>2, NameFits
<1> QED BY <1>2, <1>3

LEMMA NamesFitStep == NamesFit /\ [Next]_vars => NamesFit'
<1> SUFFICES ASSUME NamesFit, [Next]_vars PROVE NamesFit'
  OBVIOUS
<1>1. CASE ReadFunction
  BY <1>1 DEF ReadFunction, NamesFit
<1>2. CASE ReadDone \/ RoundDone
  <2>1. pc # "name" /\ row' = 0 /\ named' = named
    BY <1>2 DEF ReadDone, RoundDone
  <2>2. named' = << >>
    BY <2>1 DEF NamesFit
  <2>3. 1 .. 0 = {} /\ 0 .. 0 - 1 = {}
    OBVIOUS
  <2>4. << >> \in [1 .. 0 -> {}]
    BY <2>3
  <2>5. { named'[i] : i \in 1 .. row' } = {}
    BY <2>1, <2>3
  <2> QED BY <2>1, <2>2, <2>3, <2>4, <2>5 DEF NamesFit
<1>3. CASE Carry
  BY <1>3 DEF Carry, NamesFit
<1>4. CASE NameNothing
  BY <1>4, NameNothingFits
<1>5. CASE NameDeclared
  BY <1>5, NameDeclaredFits
<1>6. CASE NameGenerated
  BY <1>6, NameGeneratedFits
<1>7. CASE UNCHANGED vars
  BY <1>7 DEF vars, NamesFit, Fits, Shared, Wanted, NamedNothing
<1> QED BY <1>1, <1>2, <1>3, <1>4, <1>5, <1>6, <1>7 DEF Next, Returned

(***************************************************************************)
(* Two functions that resolve_failures finds to fail with the same sets,   *)
(* and alike marked unreadable or not, are given the same type, whichever  *)
(* comes first, however many functions are between them, and whatever the  *)
(* types that are declared.  It says nothing of two that the mark alone    *)
(* tells apart.                                                            *)
(***************************************************************************)
THEOREM SameFailuresAreOneType == Spec => []SameFailuresSameType
<1>1. Init => NamesFit
  BY DEF Init, NamesFit
<1>2. NamesFit => SameFailuresSameType
  <2> SUFFICES ASSUME NamesFit, NEW f \in Rows(named), NEW g \in Rows(named),
                      Inferred(program, f), Inferred(program, g),
                      At(failures, f) = At(failures, g)
               PROVE  At(named, f) = At(named, g)
    BY DEF SameFailuresSameType
  <2>1. CASE pc # "name"
    <3>1. named = << >>
      BY <2>1 DEF NamesFit
    <3>2. Rows(named) = {}
      BY <3>1 DEF Rows
    <3> QED BY <3>2
  <2>2. CASE pc = "name"
    <3>1. f \in 0 .. row - 1 /\ g \in 0 .. row - 1
      <4>1. row \in Nat /\ named \in [1 .. row -> { named[i] : i \in 1 .. row }]
        BY <2>2 DEF NamesFit
      <4>2. Len(named) = row
        BY <4>1
      <4> QED BY <4>2 DEF Rows
    <3>2. Fits(f) /\ Fits(g) /\ Shared(f, g)
      BY <2>2, <3>1 DEF NamesFit
    <3>3. Wanted(f) = Wanted(g)
      BY DEF Wanted
    <3>4. IsDeclared(At(failures, f)) <=> IsDeclared(At(failures, g))
      OBVIOUS
    <3>5. NamedNothing(f) <=> NamedNothing(g)
      BY <3>3 DEF NamedNothing
    <3>6. CASE NamedNothing(f)
      BY <3>2, <3>5, <3>6 DEF Fits
    <3>7. CASE ~ NamedNothing(f) /\ IsDeclared(At(failures, f))
      BY <3>2, <3>4, <3>5, <3>7 DEF Fits
    <3>8. CASE ~ NamedNothing(f) /\ ~ IsDeclared(At(failures, f))
      BY <3>2, <3>3, <3>4, <3>5, <3>8 DEF Fits, Shared
    <3> QED BY <3>6, <3>7, <3>8
  <2> QED BY <2>1, <2>2
<1> QED BY <1>1, <1>2, NamesFitStep, PTL DEF Spec

=============================================================================

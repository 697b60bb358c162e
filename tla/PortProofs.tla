----------------------------- MODULE PortProofs -----------------------------
(***************************************************************************)
(* What holds of the port of every program, whatever its tables are.       *)
(*                                                                         *)
(* The invariant says what the port has at every step: the items of the    *)
(* rows the passes are done with, each where its row is of and each once.  *)
(* A property of an item is then one of the row it stands for, and follows *)
(* from what was asked before it was written.                              *)
(***************************************************************************)
EXTENDS Port, FiniteSetTheorems, WellFoundedInduction, TLAPS

\* A set of natural numbers has a least one.
LEMMA LeastNatural ==
  ASSUME NEW S \in SUBSET Nat, S # {}
  PROVE  \E m \in S : \A k \in S : m =< k
<1> DEFINE R == OpToRel(<, Nat)
<1>1. IsWellFoundedOn(R, Nat)
  BY NatLessThanWellFounded
<1> HIDE DEF R
<1>2. PICK m \in S : \A k \in S : ~ (<<k, m>> \in R)
  BY <1>1, WFMin
<1>3. ASSUME NEW k \in S PROVE m =< k
  <2>1. m \in Nat /\ k \in Nat
    OBVIOUS
  <2>2. k < m => <<k, m>> \in R
    BY <2>1 DEF R, OpToRel
  <2> QED BY <1>2, <2>1, <2>2
<1> QED BY <1>3

\* The levels below an expression are there to any depth.
LEMMA LevelsAre ==
  ASSUME NEW p, NEW e, NEW d \in Nat
  PROVE  Levels(p, e, d)
           = [depth \in 0 .. d |->
                IF depth = 0 THEN {e} ELSE Children(p, Levels(p, e, d)[depth - 1])]
<1> DEFINE AreLevels(f, n) ==
             f = [depth \in 0 .. n |->
                    IF depth = 0 THEN {e} ELSE Children(p, f[depth - 1])]
           Bad == { n \in Nat : ~ \E f : AreLevels(f, n) }
<1>1. SUFFICES \E f : AreLevels(f, d)
  <2>1. Levels(p, e, d) = CHOOSE f : AreLevels(f, d)
    BY DEF Levels
  <2>2. ASSUME \E f : AreLevels(f, d) PROVE AreLevels(Levels(p, e, d), d)
    <3> HIDE DEF AreLevels
    <3> QED BY <2>1, <2>2, Zenon
  <2> HIDE DEF AreLevels
  <2>3. AreLevels(Levels(p, e, d), d) =>
          Levels(p, e, d)
            = [depth \in 0 .. d |->
                 IF depth = 0 THEN {e} ELSE Children(p, Levels(p, e, d)[depth - 1])]
    BY DEF AreLevels
  <2> QED BY <2>2, <2>3, Zenon
<1>2. SUFFICES ASSUME Bad # {} PROVE FALSE
  OBVIOUS
<1>3. PICK n \in Bad : \A k \in Bad : n =< k
  BY <1>2, LeastNatural
<1>4. n # 0
  <2> DEFINE f == [depth \in 0 .. 0 |-> {e}]
  <2>1. AreLevels(f, 0)
    OBVIOUS
  <2> QED BY <2>1
<1>5. n \in Nat /\ n - 1 \in Nat /\ n - 1 \notin Bad
  <2> HIDE DEF AreLevels
  <2>1. n \in Nat
    OBVIOUS
  <2>2. n - 1 \in Nat /\ ~ (n =< n - 1)
    BY <1>4, <2>1
  <2> HIDE DEF Bad
  <2> QED BY <1>3, <2>1, <2>2
<1>6. PICK f : AreLevels(f, n - 1)
  BY <1>5
<1> DEFINE g == [depth \in 0 .. n |->
                   IF depth = n THEN Children(p, f[n - 1]) ELSE f[depth]]
<1>7. AreLevels(g, n)
  <2> SUFFICES ASSUME NEW depth \in 0 .. n
               PROVE  g[depth] = IF depth = 0 THEN {e} ELSE Children(p, g[depth - 1])
    OBVIOUS
  <2>1. CASE depth = n
    <3>1. n \in 0 .. n /\ n - 1 \in 0 .. n /\ n - 1 # n
      BY <1>5
    <3>2. g[n] = Children(p, f[n - 1]) /\ g[n - 1] = f[n - 1]
      BY <3>1
    <3> QED BY <1>4, <2>1, <3>2
  <2>2. CASE depth # n
    <3>1. depth \in 0 .. n - 1
      BY <1>5, <2>2
    <3>2. f[depth] = IF depth = 0 THEN {e} ELSE Children(p, f[depth - 1])
      <4> HIDE DEF g, Bad
      <4> QED BY <1>6, <3>1
    <3>3. g[depth] = f[depth]
      BY <2>2
    <3>4. depth # 0 => depth - 1 \in 0 .. n /\ depth - 1 # n
      BY <1>5, <3>1
    <3>5. depth # 0 => g[depth - 1] = f[depth - 1]
      BY <3>4
    <3> QED BY <3>2, <3>3, <3>5
  <2> QED BY <2>1, <2>2
<1> QED BY <1>5, <1>7

\* The first level is the expression, and the next one its children.
LEMMA LevelsStep ==
  ASSUME NEW p, NEW e, NEW d \in Nat, NEW k \in Nat
  PROVE  /\ Levels(p, e, d)[0] = {e}
         /\ k < d => Levels(p, e, d)[k + 1] = Children(p, Levels(p, e, d)[k])
<1> DEFINE f == Levels(p, e, d)
<1>1. \A depth \in 0 .. d :
        f[depth] = IF depth = 0 THEN {e} ELSE Children(p, f[depth - 1])
  <2>1. f = [depth \in 0 .. d |-> IF depth = 0 THEN {e} ELSE Children(p, f[depth - 1])]
    BY LevelsAre
  <2> HIDE DEF f
  <2> QED BY <2>1
<1> HIDE DEF f
<1>2. 0 \in 0 .. d
  OBVIOUS
<1>3. k < d => k + 1 \in 0 .. d /\ k + 1 # 0 /\ (k + 1) - 1 = k
  OBVIOUS
<1> QED BY <1>1, <1>2, <1>3 DEF f

\* A level is the same however deep one goes on.
LEMMA LevelsAgree ==
  ASSUME NEW p, NEW e, NEW d \in Nat, NEW k \in 0 .. d
  PROVE  Levels(p, e, d)[k] = Level(p, e, k)
<1> DEFINE Bad == { n \in Nat : \E d2 \in Nat : n =< d2 /\ Levels(p, e, d2)[n] # Level(p, e, n) }
<1>1. SUFFICES ASSUME Bad # {} PROVE FALSE
  OBVIOUS
<1>2. PICK n \in Bad : \A m \in Bad : n =< m
  BY <1>1, LeastNatural
<1>3. n \in Nat /\ \E d2 \in Nat : n =< d2 /\ Levels(p, e, d2)[n] # Levels(p, e, n)[n]
  BY <1>2 DEF Level
<1>4. PICK d2 \in Nat : n =< d2 /\ Levels(p, e, d2)[n] # Levels(p, e, n)[n]
  BY <1>3
<1>5. Levels(p, e, d2)[0] = {e} /\ Levels(p, e, n)[0] = {e}
  BY <1>3, LevelsStep
<1>6. n # 0
  BY <1>4, <1>5
<1>7. n - 1 \in Nat /\ ~ (n =< n - 1) /\ n - 1 < n /\ n - 1 < d2 /\ (n - 1) + 1 = n
  BY <1>3, <1>4, <1>6
<1>8. n - 1 \notin Bad
  <2> HIDE DEF Bad
  <2> QED BY <1>2, <1>7
<1>9. /\ Levels(p, e, d2)[n - 1] = Level(p, e, n - 1)
      /\ Levels(p, e, n)[n - 1] = Level(p, e, n - 1)
  BY <1>3, <1>7, <1>8
<1>10. /\ Levels(p, e, d2)[(n - 1) + 1] = Children(p, Levels(p, e, d2)[n - 1])
       /\ Levels(p, e, n)[(n - 1) + 1] = Children(p, Levels(p, e, n)[n - 1])
  BY <1>3, <1>7, LevelsStep
<1> QED BY <1>4, <1>7, <1>9, <1>10

\* What is below a level is the children of it.
LEMMA LevelBelow ==
  ASSUME NEW p, NEW e, NEW k \in Nat
  PROVE  Level(p, e, k + 1) = Children(p, Level(p, e, k))
<1>1. k + 1 \in Nat /\ k < k + 1 /\ k \in 0 .. k + 1
  OBVIOUS
<1>2. Levels(p, e, k + 1)[k] = Level(p, e, k)
  BY <1>1, LevelsAgree
<1>3. Levels(p, e, k + 1)[k + 1] = Children(p, Levels(p, e, k + 1)[k])
  BY <1>1, LevelsStep
<1> QED BY <1>2, <1>3 DEF Level

\* What is within a depth is at some level above it.
LEMMA WithinIsLevels ==
  ASSUME NEW p, NEW e, NEW d \in Nat
  PROVE  \A x : x \in Within(p, e, d) <=> \E k \in 0 .. d : x \in Level(p, e, k)
<1>1. DOMAIN Levels(p, e, d) = 0 .. d
  <2> DEFINE f == Levels(p, e, d)
  <2>1. f = [depth \in 0 .. d |-> IF depth = 0 THEN {e} ELSE Children(p, f[depth - 1])]
    BY LevelsAre
  <2> HIDE DEF f
  <2>2. DOMAIN f = 0 .. d
    BY <2>1
  <2> QED BY <2>2 DEF f
<1>2. \A k \in 0 .. d : Levels(p, e, d)[k] = Level(p, e, k)
  BY LevelsAgree
<1> QED BY <1>1, <1>2 DEF Within, Range

\* A tree with nothing so deep has nothing deeper.
LEMMA DeeperIsEmpty ==
  ASSUME NEW p, NEW e, NEW m \in Nat, Level(p, e, m) = {}
  PROVE  \A k \in Nat : m =< k => Level(p, e, k) = {}
<1> DEFINE Bad == { k \in Nat : m =< k /\ Level(p, e, k) # {} }
<1>1. SUFFICES ASSUME Bad # {} PROVE FALSE
  OBVIOUS
<1>2. PICK n \in Bad : \A k \in Bad : n =< k
  BY <1>1, LeastNatural
<1>3. n # m /\ n \in Nat /\ m =< n
  BY <1>2
<1>0. n - 1 \in Nat /\ m =< n - 1 /\ n - 1 \notin Bad /\ (n - 1) + 1 = n
  BY <1>2, <1>3
<1>4. Level(p, e, n - 1) = {}
  BY <1>0
<1>5. Level(p, e, n) = Children(p, {})
  <2>1. Level(p, e, (n - 1) + 1) = Children(p, Level(p, e, n - 1))
    BY <1>0, LevelBelow
  <2> QED BY <1>0, <1>4, <2>1
<1> QED BY <1>2, <1>5 DEF Children

\* A body that is not too deep is read to its end.
LEMMA ReadIsAll ==
  ASSUME NEW p, NEW e, Len(p.expressions) \in Nat, ~ TooDeep(p, e)
  PROVE  Under(p, e) \subseteq Read(p, e)
<1>1. MaximumDepth \in Nat /\ MaximumDepth - 1 \in Nat
  BY MaximumDepthAssumption
<1>2. \A k \in Nat : MaximumDepth =< k => Level(p, e, k) = {}
  BY <1>1, DeeperIsEmpty DEF TooDeep
<1>3. ASSUME NEW x \in Under(p, e) PROVE x \in Read(p, e)
  <2>1. PICK k \in 0 .. Len(p.expressions) : x \in Level(p, e, k)
    BY WithinIsLevels DEF Under
  <2>2. k \in 0 .. MaximumDepth - 1
    BY <1>1, <1>2, <2>1
  <2> QED BY <1>1, <2>1, <2>2, WithinIsLevels DEF Read
<1> QED BY <1>3

-----------------------------------------------------------------------------
(* The invariant.  Every row is either still to come or was passed, and    *)
(* what the port has is what the rows passed so far have to become, each   *)
(* once.                                                                   *)

Home(f) == Function(program, f).module

IsConstructor(f) ==
  HasOwner(program, f) /\ WritableInit(program, OwnerOf(program, f)) = f

\* Whether a function is to be in the port at all, and as what.
Due(f) ==
  ~ OfAnEnum(f) /\ Disposition(program, Home(f), f) \in InThePort

ItemOf(f) ==
  RustFunction(OwnerOf(program, f),
    IF IsConstructor(f) THEN WrittenConstructor(program, OwnerOf(program, f))
    ELSE WrittenSignature(program, Home(f), f))

SetOf(r) == Set(At(program.failures, r).name)

Generated ==
  { r \in Rows(program.failures) : At(program.failures, r).kind = "Generated" }

Items ==
  { SetOf(r) : r \in Generated }
    \cup { ContainerItem(s) : s \in Rows(program.structs) }
    \cup { ItemOf(f) : f \in Rows(program.functions) }

\* All modules are written; or all of what a module has before this one.
Over == pc \in {"report", "done"}

\* The containers that are done with, their functions among them.
Past ==
  IF pc = "sets" THEN 0
  ELSE IF pc = "containers" THEN row
  ELSE IF owner = NoIndex THEN Len(program.structs) ELSE owner

IsPast(home, here) == Over \/ home < module \/ (home = module /\ here)

SetRows(m) ==
  { r \in Generated :
      /\ At(program.failures, r).module = m
      /\ IsPast(m, pc = "sets" => r < row) }

ContainerRows(m) ==
  { s \in Rows(program.structs) :
      /\ Struct(program, s).module = m
      /\ IsPast(m, s < Past \/ (pc = "functions" /\ s = owner)) }

FunctionRows(m) ==
  { f \in Rows(program.functions) :
      /\ Home(f) = m
      /\ Due(f)
      /\ IsPast(m, \/ HasOwner(program, f) /\ OwnerOf(program, f) < Past
                   \/ /\ pc = "functions" /\ OwnerOf(program, f) = owner
                      /\ f < row \/ IsConstructor(f)) }

Expected(m) ==
  { SetOf(r) : r \in SetRows(m) }
    \cup { ContainerItem(s) : s \in ContainerRows(m) }
    \cup { ItemOf(f) : f \in FunctionRows(m) }

NoneTwice(seq) == \A i, j \in DOMAIN seq : seq[i] = seq[j] => i = j

AsExpected ==
  \A m \in Modules(program) : ToSet(port[m]) = Expected(m) /\ NoneTwice(port[m])

\* Whose functions are written, and the lines of the report.
OwnerIsHere ==
  /\ pc \in {"sets", "containers"} => owner = NoIndex
  /\ pc = "functions" /\ owner # NoIndex =>
       Struct(program, owner).module = module /\ Struct(program, owner).kind = "Struct"

Line(f) ==
  [ disposition |-> Disposition(program, Home(f), f),
    explained   |-> Explained(program, f) ]

Lines ==
  /\ report \in Seq({ Line(f) : f \in Rows(program.functions) })
  /\ Len(report) =
       (CASE pc = "report" -> row
          [] pc = "done"   -> Len(program.functions)
          [] OTHER         -> 0)
  /\ Len(report) =< Len(program.functions)
  /\ \A f \in Rows(report) : At(report, f) = Line(f)

Typed ==
  /\ program \in Programs
  /\ pc \in {"sets", "containers", "functions", "report", "done"}
  /\ module \in Modules(program)
  /\ row \in Nat
  /\ owner \in Rows(program.structs) \cup {NoIndex}
  /\ port \in [Modules(program) -> Seq(Items)]

PortInv ==
  /\ Typed
  /\ AsExpected
  /\ OwnerIsHere
  /\ Lines

-----------------------------------------------------------------------------
(* Lemmas.                                                                 *)

\* What the tables of a program are.
LEMMA ProgramShape ==
  ASSUME NEW p, IsProgram(p)
  PROVE  /\ p.modules \in Nat \ {0}
         /\ Len(p.structs) \in Nat /\ Len(p.functions) \in Nat
         /\ Len(p.failures) = Len(p.functions)
         /\ Len(p.expressions) \in Nat /\ Len(p.assigned) \in Nat
         /\ Len(p.operations) \in Nat
         /\ NoIndex \notin Rows(p.structs) /\ NoIndex \notin Rows(p.functions)
         /\ \A s \in Rows(p.structs) :
              Struct(p, s).module \in Modules(p) /\ Struct(p, s).kind \in ContainerKinds
         /\ \A f \in Rows(p.functions) :
              /\ Function(p, f).module \in Modules(p)
              /\ HasOwner(p, f) =>
                   /\ OwnerOf(p, f) \in Rows(p.structs)
                   /\ Struct(p, OwnerOf(p, f)).module = Function(p, f).module
              /\ At(p.failures, f).kind = "Generated" =>
                   At(p.failures, f).module \in Modules(p)
<1>1. p \in ProgramType
  BY DEF IsProgram
<1>2. /\ p.modules \in Nat \ {0}
      /\ Len(p.structs) \in Nat /\ Len(p.functions) \in Nat
      /\ Len(p.expressions) \in Nat /\ Len(p.assigned) \in Nat
      /\ Len(p.operations) \in Nat
  BY <1>1 DEF ProgramType
<1>3. \A s \in Rows(p.structs) : Struct(p, s).kind \in ContainerKinds
  <2> SUFFICES ASSUME NEW s \in Rows(p.structs) PROVE Struct(p, s).kind \in ContainerKinds
    OBVIOUS
  <2> DEFINE Of == [kind : ContainerKinds, module : Nat, type_id : Nat,
                    field_start : Nat, field_count : Nat, deinit : Nat]
  <2>1. p.structs \in Seq(Of)
    BY <1>1 DEF ProgramType
  <2>2. s + 1 \in 1 .. Len(p.structs)
    BY <1>2 DEF Rows
  <2>3. p.structs[s + 1] \in Of
    <3> HIDE DEF Of
    <3> QED BY <2>1, <2>2
  <2>4. p.structs[s + 1].kind \in ContainerKinds
    BY <2>3
  <2> QED BY <2>4 DEF Struct, At
<1> QED BY <1>2, <1>3 DEF IsProgram

\* Every program there is to port is one.
LEMMA Shaped == ASSUME Typed PROVE IsProgram(program)
BY ProgramsAssumption DEF Typed

\* The fields of a struct are rows.
LEMMA FieldsAreNatural ==
  ASSUME NEW p, IsProgram(p), NEW s \in Rows(p.structs)
  PROVE  FieldsOf(p, s) \in SUBSET Nat
<1> DEFINE Of == [kind : ContainerKinds, module : Nat, type_id : Nat,
                  field_start : Nat, field_count : Nat, deinit : Nat]
<1>1. p.structs \in Seq(Of)
  BY DEF IsProgram, ProgramType
<1>2. s + 1 \in 1 .. Len(p.structs)
  BY ProgramShape DEF Rows
<1>3. p.structs[s + 1] \in Of
  <2> HIDE DEF Of
  <2> QED BY <1>1, <1>2
<1>4. p.structs[s + 1].field_start \in Nat /\ p.structs[s + 1].field_count \in Nat
  BY <1>3
<1> QED BY <1>4 DEF FieldsOf, Struct, At

\* One of the answers is given for every function.
LEMMA OutcomeOfEach ==
  ASSUME NEW p, NEW m, NEW f
  PROVE  /\ Disposition(p, m, f) \in Outcomes
         /\ Disposition(p, m, f) = "Constructor"
              <=> HasOwner(p, f) /\ WritableInit(p, OwnerOf(p, f)) = f
         /\ Disposition(p, m, f) \in {"Signature", "Ported"} =>
              /\ SignatureRefusal(p, f) = "None"
              /\ Disposition(p, m, f) = IF HasBody(p, m, f) THEN "Ported" ELSE "Signature"
<1>1. SignatureRefusal(p, f) \in Outcomes \cup {"None"}
  BY DEF SignatureRefusal, Outcomes
<1>2. SignatureRefusal(p, f) \notin InThePort
  BY DEF SignatureRefusal, InThePort
<1> QED BY <1>1, <1>2 DEF Disposition, Outcomes, InThePort

\* The least of some natural numbers is one of them.
LEMMA MinIsIn ==
  ASSUME NEW S \in SUBSET Nat, S # {} PROVE Min(S) \in S
<1>1. \E m \in S : \A k \in S : m =< k
  BY LeastNatural
<1> QED BY <1>1 DEF Min

\* A struct's constructor is a function of its own.
LEMMA InitIsItsOwn ==
  ASSUME NEW p, IsProgram(p), NEW s \in Rows(p.structs), WritableInit(p, s) # NoIndex
  PROVE  /\ WritableInit(p, s) \in Rows(p.functions)
         /\ OwnerOf(p, WritableInit(p, s)) = s
         /\ HasOwner(p, WritableInit(p, s))
         /\ ConstructorRefusal(p, s).why = "None"
<1> DEFINE inits == { f \in Rows(p.functions) :
                        OwnerOf(p, f) = s /\ Function(p, f).name = "init" }
<1>1. /\ ConstructorRefusal(p, s).why = "None"
      /\ WritableInit(p, s) = InitOf(p, s)
  BY DEF WritableInit
<1>2. inits # {} /\ InitOf(p, s) = Min(inits)
  BY <1>1 DEF InitOf
<1>3. inits \in SUBSET Nat
  BY ProgramShape DEF Rows
<1>4. InitOf(p, s) \in inits
  <2> HIDE DEF inits
  <2> QED BY <1>2, <1>3, MinIsIn
<1>5. s # NoIndex
  BY ProgramShape
<1> QED BY <1>1, <1>4, <1>5 DEF HasOwner

\* Another item at the end of some that are all different.
LEMMA AppendNew ==
  ASSUME NEW S, NEW seq \in Seq(S), NoneTwice(seq), NEW x \in S, x \notin ToSet(seq)
  PROVE  /\ Append(seq, x) \in Seq(S)
         /\ ToSet(Append(seq, x)) = ToSet(seq) \cup {x}
         /\ NoneTwice(Append(seq, x))
<1>1. /\ Append(seq, x) \in Seq(S)
      /\ Len(seq) \in Nat
      /\ DOMAIN seq = 1 .. Len(seq)
      /\ DOMAIN Append(seq, x) = 1 .. Len(seq) + 1
      /\ Append(seq, x)[Len(seq) + 1] = x
      /\ \A i \in 1 .. Len(seq) : Append(seq, x)[i] = seq[i]
  OBVIOUS
<1>2. \A i \in 1 .. Len(seq) + 1 : i = Len(seq) + 1 \/ i \in 1 .. Len(seq)
  BY <1>1
<1>3. \A i \in 1 .. Len(seq) : i \in 1 .. Len(seq) + 1
  BY <1>1
<1>4. Len(seq) + 1 \in 1 .. Len(seq) + 1
  BY <1>1
<1>5. \A i \in 1 .. Len(seq) : seq[i] # x
  BY <1>1 DEF ToSet
<1> DEFINE longer == Append(seq, x)
<1> HIDE DEF longer
<1>6. ToSet(longer) = ToSet(seq) \cup {x}
  BY <1>1, <1>2, <1>3, <1>4 DEF ToSet, longer
<1>7. NoneTwice(longer)
  BY <1>1, <1>2, <1>5 DEF NoneTwice, longer
<1> QED BY <1>1, <1>6, <1>7 DEF longer

\* What is written of a function.
LEMMA ItemShape ==
  ASSUME NEW f
  PROVE  /\ ItemOf(f).kind = "Function"
         /\ ItemOf(f).impl = OwnerOf(program, f)
         /\ ItemOf(f).written.function = f
         /\ ItemOf(f).written.form =
              (IF IsConstructor(f) THEN "Constructor"
               ELSE IF HasBody(program, Home(f), f) THEN "Ported" ELSE "Signature")
         /\ ~ IsConstructor(f) =>
              /\ ItemOf(f).written.parameters = Signature(program, f).parameters
              /\ ItemOf(f).written.declares = Signature(program, f).declares
BY DEF ItemOf, RustFunction, WrittenConstructor, WrittenSignature, Written, IsConstructor

\* Items of different rows are different.
LEMMA ItemsApart ==
  /\ \A r, s : SetOf(r) # ContainerItem(s)
  /\ \A r, f : SetOf(r) # ItemOf(f)
  /\ \A s, f : ContainerItem(s) # ItemOf(f)
  /\ \A s, t : ContainerItem(s) = ContainerItem(t) => s = t
  /\ \A f, g : ItemOf(f) = ItemOf(g) => f = g
<1>1. \A r : SetOf(r).kind = "Set"
  BY DEF SetOf, Set
<1>2. \A s : ContainerItem(s).kind \in {"Struct", "Enum"} /\ ContainerItem(s).row = s
  BY DEF ContainerItem, RustStruct, RustEnum
<1>3. \A f : ItemOf(f).kind = "Function" /\ ItemOf(f).written.function = f
  BY ItemShape
<1> QED BY <1>1, <1>2, <1>3

-----------------------------------------------------------------------------
(* What a step changes of what is expected.                                *)

\* What depends on the program alone stays as it is.
LEMMA ProgramStays ==
  ASSUME program' = program
  PROVE  /\ Items' = Items /\ Generated' = Generated
         /\ \A f : /\ ItemOf(f)' = ItemOf(f) /\ Due(f)' = Due(f) /\ Home(f)' = Home(f)
                   /\ IsConstructor(f)' = IsConstructor(f) /\ Line(f)' = Line(f)
         /\ \A s : ContainerItem(s)' = ContainerItem(s)
         /\ \A r : SetOf(r)' = SetOf(r)
<1>1. \A f : /\ Home(f)' = Home(f) /\ IsConstructor(f)' = IsConstructor(f)
             /\ OfAnEnum(f)' = OfAnEnum(f)
  BY DEF Home, IsConstructor, OfAnEnum
<1>2. \A f : /\ ItemOf(f)' = ItemOf(f) /\ Due(f)' = Due(f) /\ Line(f)' = Line(f)
  BY <1>1 DEF ItemOf, Due, Line
<1>3. \A s : ContainerItem(s)' = ContainerItem(s)
  BY DEF ContainerItem
<1>4. \A r : SetOf(r)' = SetOf(r)
  BY DEF SetOf
<1>5. Generated' = Generated
  BY DEF Generated
<1>6. Items' = Items
  BY <1>2, <1>3, <1>4, <1>5 DEF Items
<1> QED BY <1>1, <1>2, <1>3, <1>4, <1>5, <1>6

\* What is expected is expected of the rows that are passed.
LEMMA ExpectedBy ==
  ASSUME program' = program, NEW m
  PROVE  Expected(m)' =
           { SetOf(r) : r \in SetRows(m)' }
             \cup { ContainerItem(s) : s \in ContainerRows(m)' }
             \cup { ItemOf(f) : f \in FunctionRows(m)' }
BY ProgramStays DEF Expected

\* Nothing is written, and nothing more is expected.
LEMMA NothingMore ==
  ASSUME Typed, AsExpected, program' = program, port' = port,
         \A m \in Modules(program) : Expected(m)' = Expected(m)
  PROVE  AsExpected' /\ port' \in [Modules(program)' -> Seq(Items)']
BY ProgramStays DEF Typed, AsExpected, NoneTwice

\* One item is written, and is what more is expected.
LEMMA OneMore ==
  ASSUME Typed, AsExpected, program' = program,
         NEW item \in Items, item \notin Expected(module),
         port' = [port EXCEPT ![module] = Append(@, item)],
         \A m \in Modules(program) :
           Expected(m)' = IF m = module THEN Expected(m) \cup {item} ELSE Expected(m)
  PROVE  AsExpected' /\ port' \in [Modules(program)' -> Seq(Items)']
<1>1. /\ Items' = Items /\ Modules(program)' = Modules(program)
      /\ module \in Modules(program)
      /\ port \in [Modules(program) -> Seq(Items)]
  BY ProgramStays DEF Typed
<1>2. /\ ToSet(port[module]) = Expected(module) /\ NoneTwice(port[module])
      /\ port[module] \in Seq(Items)
  BY <1>1 DEF AsExpected
<1>3. /\ Append(port[module], item) \in Seq(Items)
      /\ ToSet(Append(port[module], item)) = Expected(module) \cup {item}
      /\ NoneTwice(Append(port[module], item))
  BY <1>2, AppendNew
<1>4. port' \in [Modules(program) -> Seq(Items)]
  BY <1>1, <1>3
<1>5. \A m \in Modules(program) :
        port'[m] = IF m = module THEN Append(port[module], item) ELSE port[m]
  BY <1>1
<1>6. ASSUME NEW m \in Modules(program)
      PROVE  ToSet(port'[m]) = Expected(m)' /\ NoneTwice(port'[m])
  BY <1>3, <1>5 DEF AsExpected
<1>7. AsExpected'
  <2> SUFFICES ASSUME NEW m \in Modules(program)
               PROVE  ToSet(port'[m]) = Expected(m)' /\ NoneTwice(port'[m])
    BY <1>1 DEF AsExpected, NoneTwice, ToSet
  <2> QED BY <1>6
<1> QED BY <1>1, <1>4, <1>7

\* So are two.
LEMMA TwoMore ==
  ASSUME Typed, AsExpected, program' = program,
         NEW item \in Items, item \notin Expected(module),
         NEW other \in Items, other \notin Expected(module), other # item,
         port' = [port EXCEPT ![module] = Append(Append(@, item), other)],
         \A m \in Modules(program) :
           Expected(m)' = IF m = module THEN Expected(m) \cup {item, other} ELSE Expected(m)
  PROVE  AsExpected' /\ port' \in [Modules(program)' -> Seq(Items)']
<1>1. /\ Items' = Items /\ Modules(program)' = Modules(program)
      /\ module \in Modules(program)
      /\ port \in [Modules(program) -> Seq(Items)]
  BY ProgramStays DEF Typed
<1>2. /\ ToSet(port[module]) = Expected(module) /\ NoneTwice(port[module])
      /\ port[module] \in Seq(Items)
  BY <1>1 DEF AsExpected
<1> DEFINE longer == Append(port[module], item)
           longest == Append(longer, other)
<1>3. /\ longer \in Seq(Items)
      /\ ToSet(longer) = Expected(module) \cup {item}
      /\ NoneTwice(longer)
  BY <1>2, AppendNew
<1>4. other \notin ToSet(longer)
  BY <1>3
<1> HIDE DEF longer
<1>5. /\ longest \in Seq(Items)
      /\ ToSet(longest) = Expected(module) \cup {item, other}
      /\ NoneTwice(longest)
  <2>1. /\ longest \in Seq(Items)
        /\ ToSet(longest) = ToSet(longer) \cup {other}
        /\ NoneTwice(longest)
    BY <1>3, <1>4, AppendNew
  <2> HIDE DEF longest
  <2> QED BY <1>3, <2>1
<1>6. port' = [port EXCEPT ![module] = longest]
  BY DEF longer
<1> HIDE DEF longest
<1>7. port' \in [Modules(program) -> Seq(Items)]
  BY <1>1, <1>5, <1>6
<1>8. \A m \in Modules(program) :
        port'[m] = IF m = module THEN longest ELSE port[m]
  BY <1>1, <1>6
<1>9. ASSUME NEW m \in Modules(program)
      PROVE  ToSet(port'[m]) = Expected(m)' /\ NoneTwice(port'[m])
  BY <1>5, <1>8 DEF AsExpected
<1>10. AsExpected'
  <2> SUFFICES ASSUME NEW m \in Modules(program)
               PROVE  ToSet(port'[m]) = Expected(m)' /\ NoneTwice(port'[m])
    BY <1>1 DEF AsExpected, NoneTwice, ToSet
  <2> QED BY <1>9
<1> QED BY <1>1, <1>7, <1>10

\* While the port is written the report is empty.
LEMMA NoLinesYet ==
  ASSUME Lines, program' = program, report' = report, ~ Over,
         pc' \in {"sets", "containers", "functions"} \/ (pc' = "report" /\ row' = 0)
  PROVE  Lines'
<1>1. Len(report) = 0 /\ (pc' = "report" => row' = 0)
  BY DEF Lines, Over
<1>2. report \in Seq({ Line(f) : f \in Rows(program.functions) })
      /\ Len(report) =< Len(program.functions)
      /\ \A f \in Rows(report) : At(report, f) = Line(f)
  BY DEF Lines
<1>3. \A f : Line(f)' = Line(f)
  BY ProgramStays
<1>4. { Line(f) : f \in Rows(program.functions) }' = { Line(f) : f \in Rows(program.functions) }
  BY <1>3
<1> QED BY <1>1, <1>2, <1>3, <1>4 DEF Lines

-----------------------------------------------------------------------------
(* The steps.                                                              *)

\* A set is declared where it is not yet.
LEMMA WriteSetStep ==
  ASSUME PortInv, WriteSet PROVE PortInv'
<1> DEFINE failing == At(program.failures, row)
<1>1. /\ Typed /\ AsExpected /\ OwnerIsHere /\ Lines /\ IsProgram(program)
      /\ pc = "sets" /\ pc' = "sets" /\ row' = row + 1 /\ row \in Nat
      /\ Has(program.failures, row)
      /\ UNCHANGED <<program, module, owner, report>>
      /\ ~ Over /\ ~ Over'
  BY Shaped DEF PortInv, WriteSet, Write, Pass, Typed, Over
<1>2. row \in Rows(program.failures)
  BY <1>1, ProgramShape DEF Rows, Has
<1>3. \A m \in Modules(program) :
        /\ ContainerRows(m)' = ContainerRows(m)
        /\ FunctionRows(m)' = FunctionRows(m)
  BY <1>1, ProgramStays DEF ContainerRows, FunctionRows, IsPast, Past
<1>4. \A m \in Modules(program) :
        SetRows(m)' =
          IF m = module /\ failing.kind = "Generated" /\ failing.module = module
          THEN SetRows(m) \cup {row} ELSE SetRows(m)
  BY <1>1, <1>2, ProgramStays, ProgramShape DEF SetRows, IsPast, Generated, Rows
<1>5. AsExpected' /\ port' \in [Modules(program)' -> Seq(Items)']
  <2>1. CASE IsToDeclare(failing)
    <3>1. port' = [port EXCEPT ![module] = Append(@, SetOf(row))]
      BY <1>1, <2>1 DEF WriteSet, Write, SetOf
    <3>2. SetOf(row) \in Items
      BY <1>2, <2>1 DEF Items, Generated, IsToDeclare
    <3>3. SetOf(row) \notin Expected(module)
      BY <1>1, <2>1 DEF IsToDeclare, AsExpected, Typed, SetOf
    <3>4. \A m \in Modules(program) :
            Expected(m)' = IF m = module THEN Expected(m) \cup {SetOf(row)} ELSE Expected(m)
      BY <1>1, <1>3, <1>4, <2>1, ExpectedBy DEF Expected, IsToDeclare
    <3> QED BY <1>1, <3>1, <3>2, <3>3, <3>4, OneMore
  <2>2. CASE ~ IsToDeclare(failing)
    <3>1. port' = port
      BY <2>2 DEF WriteSet, Pass
    <3>2. failing.kind = "Generated" /\ failing.module = module =>
            SetOf(row) \in Expected(module)
      BY <1>1, <2>2 DEF IsToDeclare, AsExpected, Typed, SetOf
    <3>3. \A m \in Modules(program) : Expected(m)' = Expected(m)
      BY <1>1, <1>3, <1>4, <3>2, ExpectedBy DEF Expected
    <3> QED BY <1>1, <3>1, <3>3, NothingMore
  <2> QED BY <2>1, <2>2
<1>6. Lines'
  BY <1>1, NoLinesYet
<1> QED BY <1>1, <1>5, <1>6 DEF PortInv, Typed, OwnerIsHere

\* The containers are next, and none is passed yet.
LEMMA SetsWrittenStep ==
  ASSUME PortInv, SetsWritten PROVE PortInv'
<1>1. /\ Typed /\ AsExpected /\ OwnerIsHere /\ Lines /\ IsProgram(program)
      /\ pc = "sets" /\ pc' = "containers" /\ row' = 0 /\ owner' = NoIndex
      /\ ~ Has(program.failures, row)
      /\ UNCHANGED <<program, module, port, report>>
      /\ ~ Over /\ ~ Over'
  BY Shaped DEF PortInv, SetsWritten, Turn, Over
<1>2. \A m \in Modules(program) : SetRows(m)' = SetRows(m)
  <2>1. \A r \in Rows(program.failures) : r < row
    BY <1>1, ProgramShape DEF Rows, Has, Typed
  <2>2. Generated \subseteq Rows(program.failures)
    BY DEF Generated
  <2> QED BY <1>1, <2>1, <2>2, ProgramStays DEF SetRows, IsPast
<1>3. \A m \in Modules(program) :
        /\ ContainerRows(m)' = ContainerRows(m)
        /\ FunctionRows(m)' = FunctionRows(m)
  <2>1. \A s \in Rows(program.structs) : ~ (s < 0)
    BY DEF Rows
  <2>2. \A f \in Rows(program.functions) :
          HasOwner(program, f) => ~ (OwnerOf(program, f) < 0)
    BY <1>1, <2>1, ProgramShape
  <2> QED BY <1>1, <2>1, <2>2, ProgramStays DEF ContainerRows, FunctionRows, IsPast, Past
<1>4. \A m \in Modules(program) : Expected(m)' = Expected(m)
  BY <1>1, <1>2, <1>3, ExpectedBy DEF Expected
<1>5. AsExpected' /\ port' \in [Modules(program)' -> Seq(Items)']
  BY <1>1, <1>4, NothingMore
<1>6. Lines'
  BY <1>1, NoLinesYet
<1> QED BY <1>1, <1>5, <1>6 DEF PortInv, Typed, OwnerIsHere

\* A container of another module has no functions in this one.
LEMMA PassContainerStep ==
  ASSUME PortInv, PassContainer PROVE PortInv'
<1>1. /\ Typed /\ AsExpected /\ OwnerIsHere /\ Lines /\ IsProgram(program)
      /\ pc = "containers" /\ pc' = "containers" /\ row' = row + 1
      /\ row \in Nat /\ Has(program.structs, row)
      /\ Struct(program, row).module # module
      /\ UNCHANGED <<program, module, owner, port, report>>
      /\ ~ Over /\ ~ Over'
  BY Shaped DEF PortInv, PassContainer, AtContainer, Pass, Over, Typed
<1>2. \A m \in Modules(program) : SetRows(m)' = SetRows(m)
  BY <1>1, ProgramStays DEF SetRows, IsPast
<1>3. \A m \in Modules(program) :
        /\ ContainerRows(m)' = ContainerRows(m)
        /\ FunctionRows(m)' = FunctionRows(m)
  <2>1. \A s \in Rows(program.structs) :
          s \in Nat /\ (s < row + 1 <=> s < row \/ s = row)
    BY <1>1 DEF Rows
  <2>2. \A f \in Rows(program.functions) :
          Home(f) = module /\ HasOwner(program, f) =>
            (OwnerOf(program, f) < row + 1 <=> OwnerOf(program, f) < row)
    BY <1>1, <2>1, ProgramShape DEF Home
  <2> QED BY <1>1, <2>1, <2>2, ProgramStays
          DEF ContainerRows, FunctionRows, IsPast, Past
<1>4. \A m \in Modules(program) : Expected(m)' = Expected(m)
  BY <1>1, <1>2, <1>3, ExpectedBy DEF Expected
<1>5. AsExpected' /\ port' \in [Modules(program)' -> Seq(Items)']
  BY <1>1, <1>4, NothingMore
<1>6. Lines'
  BY <1>1, NoLinesYet
<1> QED BY <1>1, <1>5, <1>6 DEF PortInv, Typed, OwnerIsHere

\* An enum is written, and none of its functions.
LEMMA WriteEnumStep ==
  ASSUME PortInv, WriteEnum PROVE PortInv'
<1>1. /\ Typed /\ AsExpected /\ OwnerIsHere /\ Lines /\ IsProgram(program)
      /\ pc = "containers" /\ pc' = "containers" /\ row' = row + 1
      /\ row \in Nat /\ Has(program.structs, row)
      /\ Struct(program, row).module = module
      /\ Struct(program, row).kind # "Struct"
      /\ port' = [port EXCEPT ![module] = Append(@, ContainerItem(row))]
      /\ UNCHANGED <<program, module, owner, report>>
      /\ ~ Over /\ ~ Over'
  BY Shaped
     DEF PortInv, WriteEnum, AtContainer, Write, Over, Typed, ContainerItem
<1>2. row \in Rows(program.structs)
  BY <1>1, ProgramShape DEF Rows, Has
<1>3. \A m \in Modules(program) : SetRows(m)' = SetRows(m)
  BY <1>1, ProgramStays DEF SetRows, IsPast
<1>4. \A s \in Rows(program.structs) :
        s \in Nat /\ (s < row + 1 <=> s < row \/ s = row) /\ ~ (row < row)
  BY <1>1 DEF Rows
<1>5. \A m \in Modules(program) :
        ContainerRows(m)' =
          IF m = module THEN ContainerRows(m) \cup {row} ELSE ContainerRows(m)
  BY <1>1, <1>2, <1>4, ProgramStays DEF ContainerRows, IsPast, Past
<1>6. \A m \in Modules(program) : FunctionRows(m)' = FunctionRows(m)
  <2>1. \A f \in Rows(program.functions) :
          HasOwner(program, f) /\ Due(f) =>
            (OwnerOf(program, f) < row + 1 <=> OwnerOf(program, f) < row)
    BY <1>1, <1>4, ProgramShape DEF Due, OfAnEnum
  <2> QED BY <1>1, <2>1, ProgramStays DEF FunctionRows, IsPast, Past
<1>7. \A m \in Modules(program) :
        Expected(m)' =
          IF m = module THEN Expected(m) \cup {ContainerItem(row)} ELSE Expected(m)
  BY <1>1, <1>3, <1>5, <1>6, ExpectedBy DEF Expected
<1>8. ContainerItem(row) \notin Expected(module)
  <2>1. row \notin ContainerRows(module)
    BY <1>1, <1>4, <1>2, ProgramShape DEF ContainerRows, IsPast, Past, Typed, Modules
  <2> QED BY <2>1, ItemsApart DEF Expected
<1>9. ContainerItem(row) \in Items
  BY <1>2 DEF Items
<1>10. AsExpected' /\ port' \in [Modules(program)' -> Seq(Items)']
  BY <1>1, <1>7, <1>8, <1>9, OneMore
<1>11. Lines'
  BY <1>1, NoLinesYet
<1> QED BY <1>1, <1>10, <1>11 DEF PortInv, Typed, OwnerIsHere

\* A struct is written, then its constructor, then its functions.
LEMMA WriteStructStep ==
  ASSUME PortInv, WriteStruct PROVE PortInv'
<1> DEFINE init == WritableInit(program, row)
<1>1. /\ Typed /\ AsExpected /\ OwnerIsHere /\ Lines /\ IsProgram(program)
      /\ pc = "containers" /\ pc' = "functions" /\ row' = 0 /\ owner' = row
      /\ row \in Nat /\ Has(program.structs, row)
      /\ Struct(program, row).module = module
      /\ Struct(program, row).kind = "Struct"
      /\ UNCHANGED <<program, module, report>>
      /\ ~ Over /\ ~ Over'
  BY Shaped DEF PortInv, WriteStruct, AtContainer, Turn, Over, Typed
<1>2. row \in Rows(program.structs) /\ row # NoIndex
  BY <1>1, ProgramShape DEF Rows, Has
<1>3. \A m \in Modules(program) : SetRows(m)' = SetRows(m)
  BY <1>1, ProgramStays DEF SetRows, IsPast
<1>4. \A s \in Rows(program.structs) : s \in Nat /\ ~ (row < row)
  BY <1>1 DEF Rows
<1>5. \A m \in Modules(program) :
        ContainerRows(m)' =
          IF m = module THEN ContainerRows(m) \cup {row} ELSE ContainerRows(m)
  BY <1>1, <1>2, <1>4, ProgramStays DEF ContainerRows, IsPast, Past
<1>6. \A f \in Rows(program.functions) :
        OwnerOf(program, f) = row =>
          /\ Home(f) = module /\ HasOwner(program, f) /\ ~ OfAnEnum(f)
          /\ IsConstructor(f) <=> f = init
          /\ IsConstructor(f) => Due(f)
  <2> SUFFICES ASSUME NEW f \in Rows(program.functions), OwnerOf(program, f) = row
               PROVE  /\ Home(f) = module /\ HasOwner(program, f) /\ ~ OfAnEnum(f)
                      /\ IsConstructor(f) <=> f = init
                      /\ IsConstructor(f) => Due(f)
    OBVIOUS
  <2>1. HasOwner(program, f) /\ Home(f) = module
    BY <1>1, <1>2, ProgramShape DEF HasOwner, Home
  <2>2. ~ OfAnEnum(f)
    BY <1>1 DEF OfAnEnum
  <2>3. IsConstructor(f) => Disposition(program, Home(f), f) = "Constructor"
    BY OutcomeOfEach DEF IsConstructor
  <2> QED BY <2>1, <2>2, <2>3 DEF IsConstructor, Due, InThePort
<1>7. \A f \in Rows(program.functions) : ~ (f < 0)
  BY DEF Rows
<1>8. \A m \in Modules(program) :
        FunctionRows(m)' =
          FunctionRows(m) \cup
            { f \in Rows(program.functions) :
                m = module /\ OwnerOf(program, f) = row /\ f = init }
  BY <1>1, <1>2, <1>6, <1>7, ProgramStays DEF FunctionRows, IsPast, Past
<1>9. row \notin ContainerRows(module)
  BY <1>1, <1>4, <1>2, ProgramShape DEF ContainerRows, IsPast, Past, Typed, Modules
<1>10. ContainerItem(row) \in Items /\ ContainerItem(row) \notin Expected(module)
  BY <1>2, <1>9, ItemsApart DEF Items, Expected
<1>11. AsExpected' /\ port' \in [Modules(program)' -> Seq(Items)']
  <2>1. CASE init = NoIndex
    <3>1. port' = [port EXCEPT ![module] = Append(@, ContainerItem(row))]
      BY <1>1, <2>1 DEF WriteStruct, ContainerItem
    <3>2. NoIndex \notin Rows(program.functions)
      BY <1>1, ProgramShape
    <3>3. \A m \in Modules(program) : FunctionRows(m)' = FunctionRows(m)
      BY <1>8, <2>1, <3>2
    <3>4. \A m \in Modules(program) :
            Expected(m)' =
              IF m = module THEN Expected(m) \cup {ContainerItem(row)} ELSE Expected(m)
      BY <1>1, <1>3, <1>5, <3>3, ExpectedBy DEF Expected
    <3> QED BY <1>1, <1>10, <3>1, <3>4, OneMore
  <2>2. CASE init # NoIndex
    <3>1. init \in Rows(program.functions) /\ OwnerOf(program, init) = row
      BY <1>1, <1>2, <2>2, InitIsItsOwn
    <3>2. IsConstructor(init)
      BY <1>6, <3>1
    <3>3. ItemOf(init) = RustFunction(row, WrittenConstructor(program, row))
      BY <3>1, <3>2 DEF ItemOf
    <3>4. port' = [port EXCEPT ![module] = Append(Append(@, ContainerItem(row)), ItemOf(init))]
      BY <1>1, <2>2, <3>3 DEF WriteStruct, ContainerItem
    <3>5. init \notin FunctionRows(module)
      BY <1>1, <1>4, <1>2, <3>1, ProgramShape DEF FunctionRows, IsPast, Past, Typed, Modules
    <3>6. /\ ItemOf(init) \in Items /\ ItemOf(init) \notin Expected(module)
          /\ ItemOf(init) # ContainerItem(row)
      BY <3>1, <3>5, ItemsApart DEF Items, Expected
    <3>7. \A m \in Modules(program) :
            Expected(m)' =
              IF m = module THEN Expected(m) \cup {ContainerItem(row), ItemOf(init)}
              ELSE Expected(m)
      BY <1>1, <1>3, <1>5, <1>8, <3>1, ExpectedBy DEF Expected
    <3> QED BY <1>1, <1>10, <3>4, <3>6, <3>7, TwoMore
  <2> QED BY <2>1, <2>2
<1>12. Lines'
  BY <1>1, NoLinesYet
<1> QED BY <1>1, <1>2, <1>11, <1>12 DEF PortInv, Typed, OwnerIsHere

\* A function is written, once, where it is a function of the one that is at.
LEMMA WriteFunctionStep ==
  ASSUME PortInv, WriteFunction PROVE PortInv'
<1>1. /\ Typed /\ AsExpected /\ OwnerIsHere /\ Lines /\ IsProgram(program)
      /\ pc = "functions" /\ pc' = "functions" /\ row' = row + 1
      /\ row \in Nat /\ Has(program.functions, row)
      /\ UNCHANGED <<program, module, owner, report>>
      /\ ~ Over /\ ~ Over'
  BY Shaped DEF PortInv, WriteFunction, Write, Pass, Over, Typed
<1>2. row \in Rows(program.functions)
  BY <1>1, ProgramShape DEF Rows, Has
<1>3. \A m \in Modules(program) :
        SetRows(m)' = SetRows(m) /\ ContainerRows(m)' = ContainerRows(m)
  BY <1>1, ProgramStays DEF SetRows, ContainerRows, IsPast, Past
<1>4. \A f \in Rows(program.functions) :
        f \in Nat /\ (f < row + 1 <=> f < row \/ f = row) /\ ~ (row < row)
  BY <1>1 DEF Rows
<1>5. \A m \in Modules(program) :
        FunctionRows(m)' =
          IF m = module /\ Home(row) = m /\ Due(row) /\ OwnerOf(program, row) = owner
          THEN FunctionRows(m) \cup {row} ELSE FunctionRows(m)
  <2>1. Past' = Past
    BY <1>1 DEF Past
  <2>2. ASSUME NEW m \in Modules(program), NEW f \in Rows(program.functions)
        PROVE  f \in FunctionRows(m)' <=>
                 \/ f \in FunctionRows(m)
                 \/ /\ f = row /\ m = module /\ Home(row) = m
                    /\ Due(row) /\ OwnerOf(program, row) = owner
    <3>1. f \in Rows(program.functions)' /\ Home(f)' = Home(f) /\ Due(f)' = Due(f)
          /\ IsConstructor(f)' = IsConstructor(f)
      BY <1>1, ProgramStays
    <3>2. f < row + 1 <=> f < row \/ f = row
      BY <1>4
    <3> QED BY <1>1, <2>1, <3>1, <3>2 DEF FunctionRows, IsPast
  <2>3. \A m : /\ FunctionRows(m) \subseteq Rows(program.functions)
               /\ FunctionRows(m)' \subseteq Rows(program.functions)
    BY <1>1 DEF FunctionRows
  <2> QED BY <1>2, <2>2, <2>3
<1>6. OwnerOf(program, row) = owner => ~ OfAnEnum(row)
  BY <1>1 DEF OwnerIsHere, OfAnEnum, HasOwner
<1>7. IsToWrite(program, module, owner, row)
        <=> /\ OwnerOf(program, row) = owner /\ Home(row) = module
            /\ Due(row) /\ ~ IsConstructor(row)
  BY <1>6, OutcomeOfEach DEF IsToWrite, Due, IsConstructor, Home, InThePort
<1>8. AsExpected' /\ port' \in [Modules(program)' -> Seq(Items)']
  <2>1. CASE IsToWrite(program, module, owner, row)
    <3>1. ItemOf(row) = RustFunction(owner, WrittenSignature(program, module, row))
      BY <1>7, <2>1 DEF ItemOf
    <3>2. port' = [port EXCEPT ![module] = Append(@, ItemOf(row))]
      BY <2>1, <3>1 DEF WriteFunction, Write
    <3>3. row \notin FunctionRows(module)
      BY <1>1, <1>4, <1>2, <1>7, <2>1, ProgramShape
         DEF FunctionRows, IsPast, Past, Typed, Modules, HasOwner, Rows
    <3>4. ItemOf(row) \in Items /\ ItemOf(row) \notin Expected(module)
      BY <1>2, <3>3, ItemsApart DEF Items, Expected
    <3>5. \A m \in Modules(program) :
            Expected(m)' = IF m = module THEN Expected(m) \cup {ItemOf(row)} ELSE Expected(m)
      BY <1>1, <1>3, <1>5, <1>7, <2>1, ExpectedBy DEF Expected
    <3> QED BY <1>1, <3>2, <3>4, <3>5, OneMore
  <2>2. CASE ~ IsToWrite(program, module, owner, row)
    <3>1. port' = port
      BY <2>2 DEF WriteFunction, Pass
    <3>2. OwnerOf(program, row) = owner /\ Home(row) = module /\ Due(row) =>
            row \in FunctionRows(module)
      BY <1>1, <1>2, <1>7, <2>2 DEF FunctionRows, IsPast
    <3>3. \A m \in Modules(program) : FunctionRows(m)' = FunctionRows(m)
      BY <1>5, <3>2
    <3>4. \A m \in Modules(program) : Expected(m)' = Expected(m)
      BY <1>1, <1>3, <3>3, ExpectedBy DEF Expected
    <3> QED BY <1>1, <3>1, <3>4, NothingMore
  <2> QED BY <2>1, <2>2
<1>9. Lines'
  BY <1>1, NoLinesYet
<1> QED BY <1>1, <1>8, <1>9 DEF PortInv, Typed, OwnerIsHere

\* A container whose functions are written is done with.
LEMMA MethodsWrittenStep ==
  ASSUME PortInv, MethodsWritten PROVE PortInv'
<1>1. /\ Typed /\ AsExpected /\ OwnerIsHere /\ Lines /\ IsProgram(program)
      /\ pc = "functions" /\ pc' = "containers" /\ row' = owner + 1 /\ owner' = NoIndex
      /\ ~ Has(program.functions, row) /\ owner # NoIndex
      /\ owner \in Rows(program.structs) /\ owner \in Nat
      /\ UNCHANGED <<program, module, port, report>>
      /\ ~ Over /\ ~ Over'
  BY Shaped DEF PortInv, MethodsWritten, Over, Typed, Rows
<1>2. \A m \in Modules(program) : SetRows(m)' = SetRows(m)
  BY <1>1, ProgramStays DEF SetRows, IsPast
<1>3. \A s \in Rows(program.structs) :
        s \in Nat /\ (s < owner + 1 <=> s < owner \/ s = owner)
  BY <1>1 DEF Rows
<1>4. \A f \in Rows(program.functions) : f < row
  BY <1>1, ProgramShape DEF Rows, Has, Typed
<1>5. Past = owner /\ Past' = owner + 1
  BY <1>1 DEF Past
<1>6. \A m \in Modules(program) : ContainerRows(m)' = ContainerRows(m)
  BY <1>1, <1>3, <1>5, ProgramStays DEF ContainerRows, IsPast
<1>7. \A m \in Modules(program) : FunctionRows(m)' = FunctionRows(m)
  <2>1. \A f \in Rows(program.functions) :
          HasOwner(program, f) =>
            (OwnerOf(program, f) < owner + 1
               <=> OwnerOf(program, f) < owner \/ OwnerOf(program, f) = owner)
    BY <1>1, <1>3, ProgramShape
  <2>2. \A f : OwnerOf(program, f) = owner => HasOwner(program, f)
    BY <1>1 DEF HasOwner
  <2> QED BY <1>1, <1>4, <1>5, <2>1, <2>2, ProgramStays DEF FunctionRows, IsPast
<1>8. \A m \in Modules(program) : Expected(m)' = Expected(m)
  BY <1>1, <1>2, <1>6, <1>7, ExpectedBy DEF Expected
<1>9. AsExpected' /\ port' \in [Modules(program)' -> Seq(Items)']
  BY <1>1, <1>8, NothingMore
<1>10. Lines'
  BY <1>1, NoLinesYet
<1> QED BY <1>1, <1>9, <1>10 DEF PortInv, Typed, OwnerIsHere

\* After the containers come the functions that are nobody's.
LEMMA ContainersWrittenStep ==
  ASSUME PortInv, ContainersWritten PROVE PortInv'
<1>1. /\ Typed /\ AsExpected /\ OwnerIsHere /\ Lines /\ IsProgram(program)
      /\ pc = "containers" /\ pc' = "functions" /\ row' = 0 /\ owner' = NoIndex
      /\ ~ Has(program.structs, row) /\ row \in Nat
      /\ UNCHANGED <<program, module, port, report>>
      /\ ~ Over /\ ~ Over'
  BY Shaped DEF PortInv, ContainersWritten, Turn, Over, Typed
<1>2. \A m \in Modules(program) : SetRows(m)' = SetRows(m)
  BY <1>1, ProgramStays DEF SetRows, IsPast
<1>3. \A s \in Rows(program.structs) : s < row /\ s < Len(program.structs)
  BY <1>1, ProgramShape DEF Rows, Has
<1>4. Past = row /\ Past' = Len(program.structs) /\ NoIndex \notin Rows(program.structs)
  BY <1>1, ProgramShape DEF Past
<1>5. \A m \in Modules(program) : ContainerRows(m)' = ContainerRows(m)
  BY <1>1, <1>3, <1>4, ProgramStays DEF ContainerRows, IsPast
<1>6. \A m \in Modules(program) : FunctionRows(m)' = FunctionRows(m)
  <2>1. \A f \in Rows(program.functions) :
          HasOwner(program, f) =>
            OwnerOf(program, f) < row /\ OwnerOf(program, f) < Len(program.structs)
    BY <1>1, <1>3, ProgramShape
  <2>2. \A f \in Rows(program.functions) :
          OwnerOf(program, f) = NoIndex => ~ (f < 0) /\ ~ IsConstructor(f)
    BY DEF Rows, IsConstructor, HasOwner
  <2> QED BY <1>1, <1>4, <2>1, <2>2, ProgramStays DEF FunctionRows, IsPast
<1>7. \A m \in Modules(program) : Expected(m)' = Expected(m)
  BY <1>1, <1>2, <1>5, <1>6, ExpectedBy DEF Expected
<1>8. AsExpected' /\ port' \in [Modules(program)' -> Seq(Items)']
  BY <1>1, <1>7, NothingMore
<1>9. Lines'
  BY <1>1, NoLinesYet
<1> QED BY <1>1, <1>8, <1>9 DEF PortInv, Typed, OwnerIsHere

\* All that a module is to have is passed when the next one is begun.
LEMMA ModuleWrittenStep ==
  ASSUME PortInv, ModuleWritten PROVE PortInv'
<1>1. /\ Typed /\ AsExpected /\ OwnerIsHere /\ Lines /\ IsProgram(program)
      /\ pc = "functions" /\ owner = NoIndex /\ row' = 0
      /\ ~ Has(program.functions, row) /\ row \in Nat
      /\ \/ IsLast(module) /\ pc' = "report" /\ module' = module
         \/ ~ IsLast(module) /\ pc' = "sets" /\ module' = module + 1
      /\ UNCHANGED <<program, owner, port, report>>
      /\ ~ Over
  BY Shaped DEF PortInv, ModuleWritten, Over, Typed
<1>2. module \in Nat /\ program.modules \in Nat /\ module < program.modules
      /\ module' \in Modules(program)
  BY <1>1, ProgramShape DEF Typed, Modules, IsLast
<1>3. \A m \in Modules(program) :
        m \in Nat /\ ((Over' \/ m < module') <=> (m < module \/ m = module))
  BY <1>1, <1>2 DEF Modules, IsLast, Over
<1>4. \A r \in Rows(program.failures) : ~ (r < 0)
  BY DEF Rows
<1>5. \A s \in Rows(program.structs) : s < Len(program.structs) /\ ~ (s < 0)
  BY <1>1, ProgramShape DEF Rows
<1>6. \A f \in Rows(program.functions) :
        /\ f < row
        /\ HasOwner(program, f) =>
             OwnerOf(program, f) < Len(program.structs) /\ ~ (OwnerOf(program, f) < 0)
        /\ ~ HasOwner(program, f) => OwnerOf(program, f) = owner
  BY <1>1, <1>5, ProgramShape DEF Rows, Has, HasOwner
<1>7. /\ Past = Len(program.structs)
      /\ ~ Over' => pc' = "sets" /\ Past' = 0
  BY <1>1 DEF Past, Over
<1>8. \A m \in Modules(program) : SetRows(m)' = SetRows(m)
  BY <1>1, <1>3, <1>4, ProgramStays DEF SetRows, IsPast, Generated, Over
<1>9. \A m \in Modules(program) : ContainerRows(m)' = ContainerRows(m)
  BY <1>1, <1>3, <1>5, <1>7, ProgramStays DEF ContainerRows, IsPast, Over
<1>10. \A m \in Modules(program) : FunctionRows(m)' = FunctionRows(m)
  BY <1>1, <1>3, <1>6, <1>7, ProgramStays DEF FunctionRows, IsPast, Over
<1>11. \A m \in Modules(program) : Expected(m)' = Expected(m)
  BY <1>1, <1>8, <1>9, <1>10, ExpectedBy DEF Expected
<1>12. AsExpected' /\ port' \in [Modules(program)' -> Seq(Items)']
  BY <1>1, <1>11, NothingMore
<1>13. Lines'
  BY <1>1, NoLinesYet
<1> QED BY <1>1, <1>2, <1>12, <1>13 DEF PortInv, Typed, OwnerIsHere

\* A line is added to the report, and the port is what it was.
LEMMA ReportFunctionStep ==
  ASSUME PortInv, ReportFunction PROVE PortInv'
<1>1. /\ Typed /\ AsExpected /\ OwnerIsHere /\ Lines /\ IsProgram(program)
      /\ pc = "report" /\ pc' = "report" /\ row' = row + 1 /\ row \in Nat
      /\ Has(program.functions, row)
      /\ report' = Append(report, Line(row))
      /\ UNCHANGED <<program, module, owner, port>>
      /\ Over /\ Over'
  BY Shaped DEF PortInv, ReportFunction, Over, Typed, Line, Home
<1>2. \A m \in Modules(program) : Expected(m)' = Expected(m)
  <2>1. \A m \in Modules(program) :
          /\ SetRows(m)' = SetRows(m)
          /\ ContainerRows(m)' = ContainerRows(m)
          /\ FunctionRows(m)' = FunctionRows(m)
    BY <1>1, ProgramStays DEF SetRows, ContainerRows, FunctionRows, IsPast
  <2> QED BY <1>1, <2>1, ExpectedBy DEF Expected
<1>3. AsExpected' /\ port' \in [Modules(program)' -> Seq(Items)']
  BY <1>1, <1>2, NothingMore
<1>4. Lines'
  <2> DEFINE L == { Line(f) : f \in Rows(program.functions) }
  <2>1. \A f : Line(f)' = Line(f)
    BY <1>1, ProgramStays
  <2>2. { Line(f) : f \in Rows(program.functions) }' = L
    BY <1>1, <2>1
  <2>3. row \in Rows(program.functions) /\ Line(row) \in L
    BY <1>1, ProgramShape DEF Rows, Has
  <2>4. /\ report \in Seq(L) /\ Len(report) = row
        /\ Len(program.functions) \in Nat
        /\ \A f \in Rows(report) : At(report, f) = Line(f)
    BY <1>1, ProgramShape DEF Lines
  <2>5. /\ report' \in Seq(L) /\ Len(report') = row + 1
        /\ \A i \in 1 .. row : report'[i] = report[i]
        /\ report'[row + 1] = Line(row)
    <3> HIDE DEF L
    <3> QED BY <1>1, <2>3, <2>4
  <2>6. \A f \in Rows(report') : At(report', f) = Line(f)
    <3> SUFFICES ASSUME NEW f \in Rows(report') PROVE report'[f + 1] = Line(f)
      BY DEF At
    <3>1. f \in 0 .. row
      BY <1>1, <2>5 DEF Rows
    <3>2. CASE f = row
      BY <2>5, <3>2
    <3>3. CASE f # row
      <4>1. f \in Rows(report) /\ f + 1 \in 1 .. row
        BY <1>1, <2>4, <3>1, <3>3 DEF Rows
      <4> QED BY <2>4, <2>5, <4>1 DEF At
    <3> QED BY <3>2, <3>3
  <2>7. row + 1 =< Len(program.functions)
    BY <1>1, <2>4 DEF Has
  <2>8. report' \in Seq({ Line(f) : f \in Rows(program.functions) }')
    BY <2>2, <2>5
  <2>9. \A f \in Rows(report)' : At(report, f)' = Line(f)'
    BY <2>1, <2>6
  <2> QED BY <1>1, <2>5, <2>7, <2>8, <2>9 DEF Lines
<1> QED BY <1>1, <1>3, <1>4 DEF PortInv, Typed, OwnerIsHere

\* The report has a line of every function when it is done.
LEMMA ReportedStep ==
  ASSUME PortInv, Reported PROVE PortInv'
<1>1. /\ Typed /\ AsExpected /\ OwnerIsHere /\ Lines /\ IsProgram(program)
      /\ pc = "report" /\ pc' = "done" /\ row' = 0 /\ row \in Nat /\ owner' = NoIndex
      /\ ~ Has(program.functions, row)
      /\ UNCHANGED <<program, module, port, report>>
      /\ Over /\ Over'
  BY Shaped DEF PortInv, Reported, Turn, Over, Typed
<1>2. \A m \in Modules(program) : Expected(m)' = Expected(m)
  <2>1. \A m \in Modules(program) :
          /\ SetRows(m)' = SetRows(m)
          /\ ContainerRows(m)' = ContainerRows(m)
          /\ FunctionRows(m)' = FunctionRows(m)
    BY <1>1, ProgramStays DEF SetRows, ContainerRows, FunctionRows, IsPast
  <2> QED BY <1>1, <2>1, ExpectedBy DEF Expected
<1>3. AsExpected' /\ port' \in [Modules(program)' -> Seq(Items)']
  BY <1>1, <1>2, NothingMore
<1>4. Lines'
  <2>1. \A f : Line(f)' = Line(f)
    BY <1>1, ProgramStays
  <2>2. { Line(f) : f \in Rows(program.functions) }'
          = { Line(f) : f \in Rows(program.functions) }
    BY <1>1, <2>1
  <2>3. Len(report) = Len(program.functions)
    BY <1>1, ProgramShape DEF Lines, Has
  <2> QED BY <1>1, <2>1, <2>2, <2>3, ProgramShape DEF Lines
<1> QED BY <1>1, <1>3, <1>4 DEF PortInv, Typed, OwnerIsHere

\* No row is passed at first, and nothing is expected.
LEMMA PortInit == Init => PortInv
<1> SUFFICES ASSUME Init PROVE PortInv
  OBVIOUS
<1>1. /\ IsProgram(program) /\ program \in Programs
      /\ pc = "sets" /\ module = 0 /\ row = 0 /\ owner = NoIndex
      /\ port = [m \in Modules(program) |-> << >>] /\ report = << >>
      /\ ~ Over
  BY ProgramsAssumption DEF Init, RootModule, Over
<1>2. 0 \in Modules(program) /\ \A m \in Modules(program) : ~ (m < 0)
  BY <1>1, ProgramShape DEF Modules
<1>3. << >> \in Seq(Items) /\ ToSet(<< >>) = {} /\ NoneTwice(<< >>)
  BY DEF ToSet, NoneTwice
<1>4. \A f \in Rows(program.functions) :
        HasOwner(program, f) => ~ (OwnerOf(program, f) < 0)
  BY <1>1, ProgramShape DEF Rows
<1>5. ASSUME NEW m \in Modules(program) PROVE Expected(m) = {}
  <2>1. SetRows(m) = {}
    BY <1>1, <1>2 DEF SetRows, IsPast, Generated, Rows
  <2>2. ContainerRows(m) = {}
    BY <1>1, <1>2 DEF ContainerRows, IsPast, Past, Rows
  <2>3. FunctionRows(m) = {}
    BY <1>1, <1>2, <1>4 DEF FunctionRows, IsPast, Past
  <2> QED BY <2>1, <2>2, <2>3 DEF Expected
<1>6. AsExpected
  BY <1>1, <1>3, <1>5 DEF AsExpected
<1>7. Lines
  <2>1. << >> \in Seq({ Line(f) : f \in Rows(program.functions) }) /\ Len(<< >>) = 0
    OBVIOUS
  <2>2. Rows(<< >>) = {}
    BY <2>1 DEF Rows
  <2> QED BY <1>1, <2>1, <2>2, ProgramShape DEF Lines
<1>8. port \in [Modules(program) -> Seq(Items)]
  BY <1>1, <1>3
<1> QED BY <1>1, <1>2, <1>6, <1>7, <1>8 DEF PortInv, Typed, OwnerIsHere

\* Whatever is done keeps it.
LEMMA PortStep == PortInv /\ [Next]_vars => PortInv'
<1> SUFFICES ASSUME PortInv, [Next]_vars PROVE PortInv'
  OBVIOUS
<1>1. CASE Next
  BY <1>1, WriteSetStep, SetsWrittenStep, PassContainerStep, WriteEnumStep,
     WriteStructStep, WriteFunctionStep, MethodsWrittenStep, ContainersWrittenStep,
     ModuleWrittenStep, ReportFunctionStep, ReportedStep DEF Next
<1>2. CASE UNCHANGED vars
  <2>1. UNCHANGED <<program, pc, module, row, owner, port, report>>
    BY <1>2 DEF vars
  <2>2. \A m \in Modules(program) :
          /\ SetRows(m)' = SetRows(m)
          /\ ContainerRows(m)' = ContainerRows(m)
          /\ FunctionRows(m)' = FunctionRows(m)
    BY <2>1, ProgramStays DEF SetRows, ContainerRows, FunctionRows, IsPast, Past, Over
  <2>3. \A m \in Modules(program) : Expected(m)' = Expected(m)
    BY <2>1, <2>2, ExpectedBy DEF Expected
  <2>4. AsExpected' /\ port' \in [Modules(program)' -> Seq(Items)']
    BY <2>1, <2>3, NothingMore DEF PortInv
  <2>5. Lines'
    <3>1. \A f : Line(f)' = Line(f)
      BY <2>1, ProgramStays
    <3>2. { Line(f) : f \in Rows(program.functions) }'
            = { Line(f) : f \in Rows(program.functions) }
      BY <2>1, <3>1
    <3> QED BY <2>1, <3>1, <3>2 DEF Lines, PortInv
  <2> QED BY <2>1, <2>4, <2>5 DEF PortInv, Typed, OwnerIsHere
<1> QED BY <1>1, <1>2

\* The invariant holds of every behaviour.
LEMMA PortAlways == Spec => []PortInv
BY PortInit, PortStep, PTL DEF Spec

-----------------------------------------------------------------------------
(* What follows of the port.                                               *)

\* A Rust function in the port is what its Zig function is to become, where it is
\* to be.
LEMMA WrittenOfRows ==
  ASSUME PortInv, NEW m \in Modules(program), NEW item \in WrittenIn(m)
  PROVE  \E f \in Rows(program.functions) :
           item = ItemOf(f) /\ Home(f) = m /\ Due(f)
<1>1. item \in Expected(m) /\ item.kind = "Function"
  BY DEF WrittenIn, PortInv, AsExpected
<1>2. \A r : SetOf(r).kind = "Set"
  BY DEF SetOf, Set
<1>3. \A s : ContainerItem(s).kind \in {"Struct", "Enum"}
  BY DEF ContainerItem, RustStruct, RustEnum
<1> QED BY <1>1, <1>2, <1>3 DEF Expected, FunctionRows

\* One that is no constructor has a signature that nothing refused.
LEMMA SignedIsSaid ==
  ASSUME NEW f, Due(f), ~ IsConstructor(f)
  PROVE  /\ SignatureRefusal(program, f) = "None"
         /\ Disposition(program, Home(f), f) = ItemOf(f).written.form
<1>1. Disposition(program, Home(f), f) \in {"Signature", "Ported"}
  BY OutcomeOfEach DEF Due, InThePort, IsConstructor
<1> QED BY <1>1, OutcomeOfEach, ItemShape

\* The domain of the port is the modules of the program, which does not change.
LEMMA PortIsOfModules == ASSUME PortInv PROVE DOMAIN port = Modules(program)
BY DEF PortInv, Typed

\* A signature that was not refused declares a lifetime only if a parameter carries it.
LEMMA SignatureIsTied ==
  ASSUME NEW f, SignatureRefusal(program, f) = "None"
  PROVE  /\ ToDeclare(program, f) \subseteq {"Borrowed"}
         /\ ToDeclare(program, f) # {} =>
              \E i \in Kept(program, f) : Passed(program, f, i) = "Borrowed"
<1>1. ToDeclare(program, f) \subseteq {"Borrowed", "Arena"}
  BY DEF ToDeclare, LifetimesIn, Lifetimes
<1>2. /\ "Arena" \notin ToDeclare(program, f)
      /\ "Borrowed" \in ToDeclare(program, f) => ~ NothingToTieTo(program, f)
  BY DEF SignatureRefusal
<1>3. ASSUME "Borrowed" \in ToDeclare(program, f)
      PROVE  \E i \in Kept(program, f) : Passed(program, f, i) = "Borrowed"
  <2>1. ~ HasReceiver(program, f) /\ TakesReference(program, f)
    BY <1>2, <1>3 DEF NothingToTieTo
  <2>2. PICK i \in DOMAIN Parameters(program, f) :
          /\ ~ Parameters(program, f)[i].allocator
          /\ IsReference(program, Parameters(program, f)[i].type)
    BY <2>1 DEF TakesReference
  <2>3. i \in Kept(program, f)
    BY <2>2 DEF Kept
  <2>4. Passed(program, f, i) = "Borrowed"
    BY <1>3, <2>1, <2>2 DEF Passed, IsReceiver
  <2> QED BY <2>3, <2>4
<1> QED BY <1>1, <1>2, <1>3

\* A function that is no constructor was asked for its signature before it was written.
LEMMA TiedInv == ASSUME PortInv PROVE ReturnsAreTied
<1> SUFFICES ASSUME NEW m \in Modules(program), NEW item \in WrittenIn(m)
             PROVE  Tied(program, item)
  BY PortIsOfModules DEF ReturnsAreTied
<1>1. PICK f \in Rows(program.functions) : item = ItemOf(f) /\ Home(f) = m /\ Due(f)
  BY WrittenOfRows
<1>2. CASE IsConstructor(f)
  <2>1. /\ item.written.form = "Constructor"
        /\ item.written.declares = {}
    BY <1>1, <1>2 DEF ItemOf, RustFunction, WrittenConstructor, Written, ConstructorSignature
  <2> QED BY <2>1 DEF Tied
<1>3. CASE ~ IsConstructor(f)
  <2>1. /\ item.impl = OwnerOf(program, f) /\ item.written.function = f
        /\ item.written.parameters = Signature(program, f).parameters
        /\ item.written.declares = Signature(program, f).declares
    BY <1>1, <1>3, ItemShape
  <2>2. /\ item.written.parameters = [i \in Kept(program, f) |-> Passed(program, f, i)]
        /\ item.written.declares = ToDeclare(program, f)
    BY <2>1 DEF Signature
  <2>3. /\ ToDeclare(program, f) \subseteq {"Borrowed"}
        /\ ToDeclare(program, f) # {} =>
             \E i \in Kept(program, f) : Passed(program, f, i) = "Borrowed"
    BY <1>1, <1>3, SignedIsSaid, SignatureIsTied
  <2>4. LifetimesIn(program, Function(program, f).returns)
          \subseteq (IF OwnerOf(program, f) = NoIndex THEN {}
                     ELSE Lifetimes(program, OwnerOf(program, f))) \cup ToDeclare(program, f)
    BY DEF ToDeclare, HasOwner
  <2> QED BY <2>1, <2>2, <2>3, <2>4 DEF Tied
<1> QED BY <1>2, <1>3

\* A constructor was refused for no field, so each has its assignment.
LEMMA ConstructorInv == ASSUME PortInv PROVE ConstructorIsTheInit
<1> SUFFICES ASSUME NEW m \in Modules(program), NEW item \in WrittenIn(m),
                    item.written.form = "Constructor"
             PROVE  FilledByItsInit(program, item)
  BY PortIsOfModules DEF ConstructorIsTheInit
<1>1. PICK f \in Rows(program.functions) : item = ItemOf(f) /\ Home(f) = m /\ Due(f)
  BY WrittenOfRows
<1>2. IsConstructor(f)
  BY <1>1, ItemShape
<1> DEFINE s == OwnerOf(program, f)
           stopped == { field \in FieldsOf(program, s) : Stops(program, f, field) # "None" }
<1>3. IsProgram(program) /\ s \in Rows(program.structs)
  BY <1>2, Shaped, ProgramShape DEF PortInv, IsConstructor
<1>4. /\ item.impl = s /\ item.written.function = f
      /\ item.written.values =
           [field \in FieldsOf(program, s) |-> AssignmentFor(program, f, field)]
  BY <1>1, <1>2 DEF ItemOf, RustFunction, WrittenConstructor, Written, IsConstructor
<1>5. ConstructorRefusal(program, s).why = "None" /\ InitOf(program, s) = f /\ f # NoIndex
  BY <1>1, <1>2, <1>3, ProgramShape DEF IsConstructor, WritableInit
<1>6. stopped = {}
  <2> SUFFICES ASSUME stopped # {} PROVE FALSE
    OBVIOUS
  <2>1. stopped \in SUBSET Nat
    BY <1>3, FieldsAreNatural
  <2>2. Min(stopped) \in stopped
    <3> HIDE DEF stopped
    <3> QED BY <2>1, MinIsIn
  <2>3. Stops(program, f, Min(stopped)) = "None"
    BY <1>5 DEF ConstructorRefusal
  <2> QED BY <2>2, <2>3
<1>7. ASSUME NEW field \in FieldsOf(program, s)
      PROVE  /\ At(program.class, field) # "Unknown"
             /\ \E a \in Rows(program.assigned) :
                  /\ At(program.assigned, a).field = field
                  /\ At(program.assigned, a).function = f
                  /\ At(program.assigned, a).expression = AssignmentFor(program, f, field)
             /\ \A below \in Under(program, AssignmentFor(program, f, field)) :
                  Expression(program, below).kind # "Unsupported"
  <2>1. Stops(program, f, field) = "None"
    BY <1>6
  <2>2. /\ AssignmentFor(program, f, field) # NoIndex
        /\ IsWritable(program, AssignmentFor(program, f, field))
        /\ At(program.class, field) # "Unknown"
    BY <2>1 DEF Stops
  <2> DEFINE rows == { a \in Rows(program.assigned) :
                         /\ At(program.assigned, a).field = field
                         /\ At(program.assigned, a).function = f }
  <2>3. rows # {} /\ AssignmentFor(program, f, field) = At(program.assigned, Min(rows)).expression
    BY <2>2 DEF AssignmentFor
  <2>4. rows \in SUBSET Nat
    BY <1>3, ProgramShape DEF Rows
  <2>5. Min(rows) \in rows
    <3> HIDE DEF rows
    <3> QED BY <2>3, <2>4, MinIsIn
  <2> QED BY <2>2, <2>3, <2>5 DEF IsWritable
<1> QED BY <1>4, <1>7 DEF FilledByItsInit

\* What a function frees is what one of the two tests of it went through.
LEMMA DropInv == ASSUME PortInv PROVE DropFreesWhatItFreed
<1> DEFINE isDeinit(f) ==
             HasOwner(program, f) /\ Struct(program, OwnerOf(program, f)).deinit = f
<1> SUFFICES ASSUME NEW f \in Rows(report), At(report, f).disposition = "SubsumedByDrop",
                    NEW op \in ToSet(program.operations),
                    op.function = f, op.kind = "Free",
                    isDeinit(f) => op.place_field \in FieldsOf(program, OwnerOf(program, f))
             PROVE  At(program.class, op.place_field) \in FreedByDrop
  BY DEF DropFreesWhatItFreed
<1>1. IsProgram(program)
  BY Shaped DEF PortInv
<1>2. f \in Rows(program.functions) /\ At(report, f) = Line(f)
  BY <1>1, ProgramShape DEF PortInv, Lines, Rows
<1>3. DeinitDisappears(program, f) \/ OnlyFrees(program, f)
  <2>1. Disposition(program, Home(f), f) = "SubsumedByDrop"
    BY <1>2 DEF Line
  <2>2. SignatureRefusal(program, f) # "SubsumedByDrop"
    BY DEF SignatureRefusal
  <2> QED BY <2>1, <2>2 DEF Disposition
<1>4. CASE DeinitDisappears(program, f)
  <2>1. /\ HasOwner(program, f) /\ Struct(program, OwnerOf(program, f)).deinit = f
        /\ OwnerOf(program, f) \in Rows(program.structs)
    BY <1>1, <1>2, <1>4, ProgramShape DEF DeinitDisappears
  <2>2. op.place_field \in FieldsOf(program, OwnerOf(program, f))
    BY <2>1
  <2>3. op.place_field \in program.freed_inside
    BY <1>1, <2>1, <2>2 DEF IsProgram
  <2> QED BY <1>4, <2>2, <2>3 DEF DeinitDisappears
<1>5. CASE OnlyFrees(program, f)
  <2>1. PICK i \in DOMAIN program.operations : program.operations[i] = op
    BY DEF ToSet
  <2>2. i \in 1 .. Len(program.operations)
    BY <1>1, <2>1 DEF IsProgram, ProgramType
  <2>3. i - 1 \in Rows(program.operations) /\ At(program.operations, i - 1) = op
    BY <1>1, <2>1, <2>2, ProgramShape DEF Rows, At
  <2>4. i - 1 \in OperationsOf(program, f)
    BY <2>3 DEF OperationsOf
  <2> QED BY <1>5, <2>3, <2>4 DEF OnlyFrees
<1> QED BY <1>3, <1>4, <1>5

\* The body was read as deep as it goes, and no allocator was met.
LEMMA BodiesInv == ASSUME PortInv PROVE BodiesReadWhatIsPassed
<1> SUFFICES ASSUME NEW m \in Modules(program), NEW item \in WrittenIn(m),
                    item.written.form = "Ported",
                    NEW e \in Under(program, Function(program, item.written.function).body),
                    NEW i \in DOMAIN Parameters(program, item.written.function),
                    Expression(program, e).kind = "Identifier",
                    Expression(program, e).text
                      = Parameters(program, item.written.function)[i].name
             PROVE  i \in DOMAIN item.written.parameters
  BY PortIsOfModules DEF BodiesReadWhatIsPassed
<1>1. PICK f \in Rows(program.functions) : item = ItemOf(f) /\ Home(f) = m /\ Due(f)
  BY WrittenOfRows
<1>2. /\ ~ IsConstructor(f) /\ HasBody(program, m, f)
      /\ item.written.function = f
      /\ item.written.parameters = Signature(program, f).parameters
  BY <1>1, ItemShape
<1>3. ~ TooDeep(program, Function(program, f).body)
      /\ \A x \in Read(program, Function(program, f).body) : ~ ReadsTheAllocator(program, f, x)
  BY <1>2 DEF HasBody
<1>4. e \in Read(program, Function(program, f).body)
  BY <1>2, <1>3, Shaped, ProgramShape, ReadIsAll DEF PortInv
<1>5. ~ Parameters(program, f)[i].allocator
  BY <1>2, <1>3, <1>4 DEF ReadsTheAllocator
<1> QED BY <1>2, <1>5 DEF Signature, Kept

\* All that a module is to have is in it once all are written.
LEMMA AllIsThere ==
  ASSUME PortInv, Over, NEW m \in Modules(program)
  PROVE  /\ \A r \in Generated :
              At(program.failures, r).module = m => SetOf(r) \in ToSet(port[m])
         /\ \A s \in Rows(program.structs) :
              Struct(program, s).module = m => ContainerItem(s) \in ToSet(port[m])
         /\ \A f \in Rows(program.functions) :
              Home(f) = m /\ Due(f) => ItemOf(f) \in ToSet(port[m])
BY DEF PortInv, AsExpected, Expected, SetRows, ContainerRows, FunctionRows, IsPast

\* What is in a module is declared in it once.
LEMMA DeclaredOnce ==
  ASSUME PortInv, NEW m \in Modules(program), NEW item \in ToSet(port[m])
  PROVE  Declarations(m, item) = 1
<1>1. PICK i \in DOMAIN port[m] : port[m][i] = item
  BY DEF ToSet
<1>2. \A j \in DOMAIN port[m] : port[m][j] = item => j = i
  BY <1>1 DEF PortInv, AsExpected, NoneTwice
<1>3. { j \in DOMAIN port[m] : port[m][j] = item } = {i}
  BY <1>1, <1>2
<1>4. Cardinality({i}) = 1
  BY FS_Singleton
<1> QED BY <1>3, <1>4 DEF Declarations

\* What a function names are containers there are.
LEMMA NamedAreRows ==
  ASSUME PortInv, NEW f \in Rows(program.functions)
  PROVE  /\ NamedBy(f) \subseteq Rows(program.structs)
         /\ Fails(program, f).kind = "Generated" =>
              /\ f \in Generated
              /\ Fails(program, f) = At(program.failures, f)
<1>1. IsProgram(program) /\ Len(program.failures) = Len(program.functions)
  BY Shaped, ProgramShape DEF PortInv
<1>2. /\ Function(program, f).error_set \in Rows(program.structs) \cup {NoIndex}
      /\ At(program.failures, f).kind = "Declared" =>
           At(program.failures, f).set \in Rows(program.structs)
  BY <1>1 DEF IsProgram
<1>3. CASE Function(program, f).error_set # NoIndex
  <2>1. /\ Fails(program, f).kind = "Declared"
        /\ Fails(program, f).set \in Rows(program.structs)
    BY <1>2, <1>3 DEF Fails
  <2> QED BY <2>1 DEF NamedBy, Names
<1>4. CASE Function(program, f).error_set = NoIndex
  <2>1. Fails(program, f) = At(program.failures, f)
    BY <1>4 DEF Fails
  <2>2. f \in Rows(program.failures)
    BY <1>1 DEF Rows
  <2> QED BY <1>2, <2>1, <2>2 DEF NamedBy, Names, Generated
<1> QED BY <1>3, <1>4

\* A container is declared in the module it is of, and nowhere else.
LEMMA DeclaredAtHome ==
  ASSUME PortInv, Over, NEW s \in Rows(program.structs), NEW n \in Modules(program)
  PROVE  Declarations(n, ContainerItem(s))
           = IF n = Struct(program, s).module THEN 1 ELSE 0
<1>1. CASE n = Struct(program, s).module
  <2>1. ContainerItem(s) \in ToSet(port[n])
    BY <1>1, AllIsThere
  <2> QED BY <1>1, <2>1, DeclaredOnce
<1>2. CASE n # Struct(program, s).module
  <2>1. ContainerItem(s) \notin Expected(n)
    BY <1>2, ItemsApart DEF Expected, ContainerRows
  <2>2. ContainerItem(s) \notin ToSet(port[n])
    BY <2>1 DEF PortInv, AsExpected
  <2>3. { j \in DOMAIN port[n] : port[n][j] = ContainerItem(s) } = {}
    BY <2>2 DEF ToSet
  <2>4. Cardinality({}) = 0
    BY FS_EmptySet
  <2> QED BY <1>2, <2>3, <2>4 DEF Declarations
<1> QED BY <1>1, <1>2

\* What is named is a row, and all rows are passed.
LEMMA NamesInv == ASSUME PortInv PROVE NamesAreDeclared
<1> SUFFICES ASSUME Over, NEW m \in Modules(program), NEW item \in WrittenIn(m),
                    NEW f, f = item.written.function
             PROVE  /\ \A s \in NamedBy(f) :
                         LET home == Struct(program, s).module
                         IN  /\ \A n \in Modules(program) :
                                  Declarations(n, ContainerItem(s))
                                    = IF n = home THEN 1 ELSE 0
                             /\ home # RootModule \/ m = RootModule
                                  => Declarations(LookedUpIn(m, home), ContainerItem(s)) = 1
                    /\ Fails(program, f).kind = "Generated" =>
                         Declarations(Fails(program, f).module, Set(Fails(program, f).name)) = 1
  BY PortIsOfModules DEF NamesAreDeclared, Over
<1>1. f \in Rows(program.functions)
  BY WrittenOfRows, ItemShape
<1>2. IsProgram(program)
  BY Shaped DEF PortInv
<1>3. ASSUME NEW s \in NamedBy(f)
      PROVE  s \in Rows(program.structs) /\ Struct(program, s).module \in Modules(program)
  BY <1>1, <1>2, NamedAreRows, ProgramShape
<1>4. ASSUME NEW s \in NamedBy(f),
             Struct(program, s).module # RootModule \/ m = RootModule
      PROVE  Declarations(LookedUpIn(m, Struct(program, s).module), ContainerItem(s)) = 1
  <2>1. LookedUpIn(m, Struct(program, s).module) = Struct(program, s).module
    BY <1>4 DEF LookedUpIn
  <2> QED BY <1>3, <2>1, DeclaredAtHome
<1>5. ASSUME Fails(program, f).kind = "Generated"
      PROVE  Declarations(Fails(program, f).module, Set(Fails(program, f).name)) = 1
  <2>1. f \in Generated /\ Fails(program, f) = At(program.failures, f)
    BY <1>1, <1>5, NamedAreRows
  <2>2. Fails(program, f).module \in Modules(program)
    BY <1>1, <1>2, <1>5, <2>1, ProgramShape
  <2>3. SetOf(f) \in ToSet(port[Fails(program, f).module])
    BY <2>1, <2>2, AllIsThere
  <2> QED BY <2>1, <2>2, <2>3, DeclaredOnce DEF SetOf
<1> QED BY <1>3, <1>4, <1>5, DeclaredAtHome

\* A function is written in its own module, as what it is to become.
LEMMA PlaceIsItsOwn ==
  ASSUME PortInv, NEW f, NEW m \in Modules(program), NEW i \in DOMAIN port[m],
         port[m][i].kind = "Function", port[m][i].written.function = f
  PROVE  /\ f \in Rows(program.functions)
         /\ port[m][i] = ItemOf(f) /\ m = Home(f) /\ Due(f)
<1>1. port[m][i] \in WrittenIn(m)
  BY DEF WrittenIn, ToSet
<1>2. PICK g \in Rows(program.functions) : port[m][i] = ItemOf(g) /\ Home(g) = m /\ Due(g)
  BY <1>1, WrittenOfRows
<1>3. g = f
  BY <1>2, ItemShape
<1> QED BY <1>2, <1>3

\* The port and the report ask the same of a function, and are both complete.
LEMMA ReportedInv == ASSUME PortInv PROVE WrittenAsReported
<1> SUFFICES ASSUME pc = "done", NEW f \in Rows(program.functions), ~ OfAnEnum(f)
             PROVE  IsWrittenAs(f, At(report, f).disposition)
  BY DEF WrittenAsReported
<1>1. Over /\ IsProgram(program) /\ Home(f) \in Modules(program)
  BY Shaped, ProgramShape DEF PortInv, Over, Home
<1>2. At(report, f).disposition = Disposition(program, Home(f), f)
  <2>1. Len(report) = Len(program.functions)
    BY DEF PortInv, Lines
  <2>2. f \in Rows(report)
    BY <2>1 DEF Rows
  <2> QED BY <2>2 DEF PortInv, Lines, Line
<1> DEFINE outcome == Disposition(program, Home(f), f)
<1>3. \A place \in PlacesOf(f) :
        /\ Due(f) /\ place.module = Home(f) /\ place.item = ItemOf(f)
        /\ place.at \in DOMAIN port[Home(f)] /\ port[Home(f)][place.at] = ItemOf(f)
        /\ place = [module |-> place.module, item |-> place.item, at |-> place.at]
  BY PortIsOfModules, PlaceIsItsOwn DEF PlacesOf
<1>4. CASE outcome \notin InThePort
  <2>1. ~ Due(f)
    BY <1>4 DEF Due
  <2> QED BY <1>2, <1>3, <1>4, <2>1 DEF IsWrittenAs
<1>5. CASE outcome \in InThePort
  <2>1. Due(f)
    BY <1>5 DEF Due
  <2>2. PICK i \in DOMAIN port[Home(f)] : port[Home(f)][i] = ItemOf(f)
    BY <1>1, <2>1, AllIsThere DEF ToSet
  <2> DEFINE place == [module |-> Home(f), item |-> ItemOf(f), at |-> i]
  <2>3. place \in PlacesOf(f)
    BY <1>1, <2>2, ItemShape, PortIsOfModules DEF PlacesOf
  <2>4. \A j \in DOMAIN port[Home(f)] : port[Home(f)][j] = ItemOf(f) => j = i
    BY <1>1, <2>2 DEF PortInv, AsExpected, NoneTwice
  <2>5. PlacesOf(f) = {place}
    BY <1>3, <2>3, <2>4
  <2>6. ItemOf(f).written.form = outcome
    <3>1. CASE IsConstructor(f)
      BY <3>1, OutcomeOfEach, ItemShape DEF IsConstructor
    <3>2. CASE ~ IsConstructor(f)
      BY <2>1, <3>2, SignedIsSaid
    <3> QED BY <3>1, <3>2
  <2>7. /\ place.item.written.form = outcome
        /\ place.module = Function(program, f).module
        /\ place.item.impl = OwnerOf(program, f)
    BY <2>6, ItemShape DEF Home
  <2> HIDE DEF place
  <2> QED BY <1>2, <1>5, <2>3, <2>5, <2>7 DEF IsWrittenAs
<1> QED BY <1>4, <1>5

\* The invariant has the types in it.
LEMMA TypeInv == ASSUME PortInv PROVE TypeOK
<1>1. \A m \in Modules(program) : \A item \in ToSet(port[m]) :
        item.kind \in {"Set", "Enum", "Struct", "Function"}
  <2>1. \A item \in Items : item.kind \in {"Set", "Enum", "Struct", "Function"}
    <3>1. \A r : SetOf(r).kind = "Set"
      BY DEF SetOf, Set
    <3>2. \A s : ContainerItem(s).kind \in {"Struct", "Enum"}
      BY DEF ContainerItem, RustStruct, RustEnum
    <3>3. \A f : ItemOf(f).kind = "Function"
      BY ItemShape
    <3> QED BY <3>1, <3>2, <3>3 DEF Items
  <2>2. \A m \in Modules(program) : ToSet(port[m]) \subseteq Items
    BY DEF PortInv, Typed, ToSet
  <2> QED BY <2>1, <2>2
<1>2. \A line \in ToSet(report) : line.disposition \in Outcomes
  <2>1. \A f : Line(f).disposition \in Outcomes
    BY OutcomeOfEach DEF Line
  <2>2. ToSet(report) \subseteq { Line(f) : f \in Rows(program.functions) }
    BY DEF PortInv, Lines, ToSet
  <2> QED BY <2>1, <2>2
<1> QED BY <1>1, <1>2, PortIsOfModules DEF PortInv, Typed, TypeOK

-----------------------------------------------------------------------------
(* The theorems.                                                           *)

\* The stages, the rows and the items of the port stay what they are written to
\* be, for every program there is to port.
THEOREM TypeCorrect == Spec => []TypeOK
BY PortAlways, TypeInv, PTL

\* report.rs:222: whatever the programs are, a function the report says was
\* written is in the port once, in its module and its `impl` block, and as what
\* the report says; and one it says was not written is nowhere.
THEOREM ReportIsThePort == Spec => []WrittenAsReported
BY PortAlways, ReportedInv, PTL

\* function.rs:432: no written function returns a lifetime that nothing ties down.
THEOREM NoReturnIsUntied == Spec => []ReturnsAreTied
BY PortAlways, TiedInv, PTL

\* constructor.rs:1: every field of a constructor is filled with what the init it
\* stands for assigns first, all of which can be spelled.
THEOREM ConstructorsStandForInits == Spec => []ConstructorIsTheInit
BY PortAlways, ConstructorInv, PTL

\* PORTING.md:159: whatever a left out helper freed, and whatever a left out deinit
\* freed of its own struct, drop frees.  Of the fields of other structs that a deinit
\* frees it says nothing: the port loses those frees (report.rs:136).
THEOREM OwnFreesAreDropped == Spec => []DropFreesWhatItFreed
BY PortAlways, DropInv, PTL

\* lower.rs:82: every container a written function names is declared once, in the
\* module it is of and in no other, and every set it names once; a container that is
\* not of the top level, or is named from there, is so where its name is looked up.
\* A name of the top level that another module uses is not found (lower.rs:79).
THEOREM NamesResolve == Spec => []NamesAreDeclared
BY PortAlways, NamesInv, PTL

\* body.rs:583: however deep a body is, it reads no allocator that the signature
\* above it has lost.
THEOREM BodiesLoseNothing == Spec => []BodiesReadWhatIsPassed
BY PortAlways, BodiesInv, PTL

=============================================================================

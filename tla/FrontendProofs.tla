---------------------------- MODULE FrontendProofs ----------------------------
(***************************************************************************)
(* Proofs about the frontend and validation as the intake runs them.  The  *)
(* frontend makes tables of every project whose ranges are their owners'   *)
(* rows and in which a field's type is of the containers it means, and     *)
(* tables validation passes, of any file or project, can be read.          *)
(*                                                                         *)
(* What a project is merged into is made well at every moment (Made):      *)
(* every column as long as its table, every owner's range the rows that    *)
(* say they are its, and every name remembered by a row there is.          *)
(*                                                                         *)
(* Every container is known by its name before a member is declared, so    *)
(* that a name is resolved the same whenever it is met, and a row, once    *)
(* made, keeps its meaning (Scopes).  What is merged is what the crawl     *)
(* made modules of (Merging), known by the names the files import.         *)
(***************************************************************************)
EXTENDS IntakeProofs

-----------------------------------------------------------------------------
(* The loops, from the innermost, and what they keep.                      *)

\* A sequence is counted from one.
LEMMA InSequence ==
  ASSUME NEW s, IsSequence(s)
  PROVE  Len(s) \in Nat /\ DOMAIN s = 1 .. Len(s) /\ \A i \in 1 .. Len(s) : s[i] \in ToSet(s)
BY LenProperties DEF IsSequence

LEMMA ReversedIs ==
  ASSUME NEW s, IsSequence(s)
  PROVE  DOMAIN Reader!Reverse(s) = 1 .. Len(s)
BY LenProperties DEF IsSequence, Reader!Reverse

\* What a type is wrapped in.
LEMMA WrapsKeep ==
  ASSUME NEW b, Made(b), NEW xs, NEW n \in Nat, DOMAIN xs = 1 .. n,
         \A i \in 1 .. n : \A c : Kept(b, c, 0) => Kept(c, Reader!Wrap(c, xs[i]), 0)
  PROVE  Kept(b, Reader!EachWrap(b, xs), 0)
<1>1. PICK loop : loop = [over |-> "wraps"]
  BY Zenon
<1>2. \A u, v : Turn(loop, u, v) = Reader!Wrap(u, v)
  BY <1>1 DEF Turn
<1> DEFINE Folds(h) == h = [ s \in SUBSET (DOMAIN xs) |->
                               IF s = {} THEN b
                               ELSE Reader!Wrap(h[s \ {Reader!Max(s)}], xs[Reader!Max(s)]) ]
           fold == CHOOSE h : Folds(h)
<1>3. \A h : Turns(loop, b, xs, h) <=> Folds(h)
  BY <1>2 DEF Turns
<1>4. Reader!EachWrap(b, xs) = fold[DOMAIN xs]
  BY DEF Reader!EachWrap, Reader!FoldLeft, Reader!MapThenFoldSet
<1> HIDE DEF Folds
<1>5. Folds(fold)
  <2>1. \E h : Folds(h)
    BY <1>3, TurnsThereAre
  <2> QED BY <2>1
<1> HIDE DEF fold
<1>6. Turns(loop, b, xs, fold)
  BY <1>3, <1>5
<1>7. ASSUME NEW i \in 1 .. n, NEW c, Kept(b, c, Steps(0, i - 1))
      PROVE  Kept(c, Turn(loop, c, xs[i]), 0)
  <2>1. Kept(b, c, 0)
    BY <1>7 DEF Steps
  <2>2. Kept(c, Reader!Wrap(c, xs[i]), 0)
    BY <2>1
  <2>3. Turn(loop, c, xs[i]) = Reader!Wrap(c, xs[i])
    BY <1>2
  <2> QED BY <2>2, <2>3
<1>8. Kept(b, fold[DOMAIN xs], Steps(0, n))
  <2>1. 0 \in {0, 1}
    OBVIOUS
  <2> QED BY <1>6, <1>7, <2>1, LoopKeeps
<1>9. Steps(0, n) = 0
  BY DEF Steps
<1> QED BY <1>4, <1>8, <1>9

\* The unresolved imports of a file.
LEMMA UnresolvedKeep ==
  ASSUME NEW b, Made(b), NEW xs, NEW n \in Nat, DOMAIN xs = 1 .. n,
         \A i \in 1 .. n : \A c : Kept(b, c, 0) => Kept(c, Reader!NameUnresolved(c, xs[i]), 0)
  PROVE  Kept(b, Reader!EachUnresolved(b, xs), 0)
<1>1. PICK loop : loop = [over |-> "unresolved"]
  BY Zenon
<1>2. \A u, v : Turn(loop, u, v) = Reader!NameUnresolved(u, v)
  BY <1>1 DEF Turn
<1> DEFINE Folds(h) == h = [ s \in SUBSET (DOMAIN xs) |->
                               IF s = {} THEN b
                               ELSE Reader!NameUnresolved(h[s \ {Reader!Max(s)}], xs[Reader!Max(s)]) ]
           fold == CHOOSE h : Folds(h)
<1>3. \A h : Turns(loop, b, xs, h) <=> Folds(h)
  BY <1>2 DEF Turns
<1>4. Reader!EachUnresolved(b, xs) = fold[DOMAIN xs]
  BY DEF Reader!EachUnresolved, Reader!FoldLeft, Reader!MapThenFoldSet
<1> HIDE DEF Folds
<1>5. Folds(fold)
  <2>1. \E h : Folds(h)
    BY <1>3, TurnsThereAre
  <2> QED BY <2>1
<1> HIDE DEF fold
<1>6. Turns(loop, b, xs, fold)
  BY <1>3, <1>5
<1>7. ASSUME NEW i \in 1 .. n, NEW c, Kept(b, c, Steps(0, i - 1))
      PROVE  Kept(c, Turn(loop, c, xs[i]), 0)
  <2>1. Kept(b, c, 0)
    BY <1>7 DEF Steps
  <2>2. Kept(c, Reader!NameUnresolved(c, xs[i]), 0)
    BY <2>1
  <2>3. Turn(loop, c, xs[i]) = Reader!NameUnresolved(c, xs[i])
    BY <1>2
  <2> QED BY <2>2, <2>3
<1>8. Kept(b, fold[DOMAIN xs], Steps(0, n))
  <2>1. 0 \in {0, 1}
    OBVIOUS
  <2> QED BY <1>6, <1>7, <2>1, LoopKeeps
<1>9. Steps(0, n) = 0
  BY DEF Steps
<1> QED BY <1>4, <1>8, <1>9

\* The containers of a file, as types.
LEMMA ContainersKeep ==
  ASSUME NEW b, Made(b), NEW xs, NEW n \in Nat, DOMAIN xs = 1 .. n,
         \A i \in 1 .. n : \A c : Kept(b, c, 0) => Kept(c, Reader!DeclareContainer(c, xs[i]), 0)
  PROVE  Kept(b, Reader!EachContainer(b, xs), 0)
<1>1. PICK loop : loop = [over |-> "containers"]
  BY Zenon
<1>2. \A u, v : Turn(loop, u, v) = Reader!DeclareContainer(u, v)
  BY <1>1 DEF Turn
<1> DEFINE Folds(h) == h = [ s \in SUBSET (DOMAIN xs) |->
                               IF s = {} THEN b
                               ELSE Reader!DeclareContainer(h[s \ {Reader!Max(s)}], xs[Reader!Max(s)]) ]
           fold == CHOOSE h : Folds(h)
<1>3. \A h : Turns(loop, b, xs, h) <=> Folds(h)
  BY <1>2 DEF Turns
<1>4. Reader!EachContainer(b, xs) = fold[DOMAIN xs]
  BY DEF Reader!EachContainer, Reader!FoldLeft, Reader!MapThenFoldSet
<1> HIDE DEF Folds
<1>5. Folds(fold)
  <2>1. \E h : Folds(h)
    BY <1>3, TurnsThereAre
  <2> QED BY <2>1
<1> HIDE DEF fold
<1>6. Turns(loop, b, xs, fold)
  BY <1>3, <1>5
<1>7. ASSUME NEW i \in 1 .. n, NEW c, Kept(b, c, Steps(0, i - 1))
      PROVE  Kept(c, Turn(loop, c, xs[i]), 0)
  <2>1. Kept(b, c, 0)
    BY <1>7 DEF Steps
  <2>2. Kept(c, Reader!DeclareContainer(c, xs[i]), 0)
    BY <2>1
  <2>3. Turn(loop, c, xs[i]) = Reader!DeclareContainer(c, xs[i])
    BY <1>2
  <2> QED BY <2>2, <2>3
<1>8. Kept(b, fold[DOMAIN xs], Steps(0, n))
  <2>1. 0 \in {0, 1}
    OBVIOUS
  <2> QED BY <1>6, <1>7, <2>1, LoopKeeps
<1>9. Steps(0, n) = 0
  BY DEF Steps
<1> QED BY <1>4, <1>8, <1>9

\* The members of a container.
LEMMA MembersKeep ==
  ASSUME NEW b, Made(b), NEW xs, NEW n \in Nat, DOMAIN xs = 1 .. n,
         \A i \in 1 .. n : \A c : Kept(b, c, 0) => Kept(c, Reader!DeclareMember(c, xs[i]), 0)
  PROVE  Kept(b, Reader!EachMember(b, xs), 0)
<1>1. PICK loop : loop = [over |-> "members"]
  BY Zenon
<1>2. \A u, v : Turn(loop, u, v) = Reader!DeclareMember(u, v)
  BY <1>1 DEF Turn
<1> DEFINE Folds(h) == h = [ s \in SUBSET (DOMAIN xs) |->
                               IF s = {} THEN b
                               ELSE Reader!DeclareMember(h[s \ {Reader!Max(s)}], xs[Reader!Max(s)]) ]
           fold == CHOOSE h : Folds(h)
<1>3. \A h : Turns(loop, b, xs, h) <=> Folds(h)
  BY <1>2 DEF Turns
<1>4. Reader!EachMember(b, xs) = fold[DOMAIN xs]
  BY DEF Reader!EachMember, Reader!FoldLeft, Reader!MapThenFoldSet
<1> HIDE DEF Folds
<1>5. Folds(fold)
  <2>1. \E h : Folds(h)
    BY <1>3, TurnsThereAre
  <2> QED BY <2>1
<1> HIDE DEF fold
<1>6. Turns(loop, b, xs, fold)
  BY <1>3, <1>5
<1>7. ASSUME NEW i \in 1 .. n, NEW c, Kept(b, c, Steps(0, i - 1))
      PROVE  Kept(c, Turn(loop, c, xs[i]), 0)
  <2>1. Kept(b, c, 0)
    BY <1>7 DEF Steps
  <2>2. Kept(c, Reader!DeclareMember(c, xs[i]), 0)
    BY <2>1
  <2>3. Turn(loop, c, xs[i]) = Reader!DeclareMember(c, xs[i])
    BY <1>2
  <2> QED BY <2>2, <2>3
<1>8. Kept(b, fold[DOMAIN xs], Steps(0, n))
  <2>1. 0 \in {0, 1}
    OBVIOUS
  <2> QED BY <1>6, <1>7, <2>1, LoopKeeps
<1>9. Steps(0, n) = 0
  BY DEF Steps
<1> QED BY <1>4, <1>8, <1>9

\* The containers of a file, and their members.
LEMMA StructsKeep ==
  ASSUME NEW b, Made(b), NEW xs, NEW n \in Nat, DOMAIN xs = 1 .. n,
         \A i \in 1 .. n : \A c : Kept(b, c, 0) => Kept(c, Reader!DeclareStruct(c, xs[i]), 0)
  PROVE  Kept(b, Reader!EachStruct(b, xs), 0)
<1>1. PICK loop : loop = [over |-> "structs"]
  BY Zenon
<1>2. \A u, v : Turn(loop, u, v) = Reader!DeclareStruct(u, v)
  BY <1>1 DEF Turn
<1> DEFINE Folds(h) == h = [ s \in SUBSET (DOMAIN xs) |->
                               IF s = {} THEN b
                               ELSE Reader!DeclareStruct(h[s \ {Reader!Max(s)}], xs[Reader!Max(s)]) ]
           fold == CHOOSE h : Folds(h)
<1>3. \A h : Turns(loop, b, xs, h) <=> Folds(h)
  BY <1>2 DEF Turns
<1>4. Reader!EachStruct(b, xs) = fold[DOMAIN xs]
  BY DEF Reader!EachStruct, Reader!FoldLeft, Reader!MapThenFoldSet
<1> HIDE DEF Folds
<1>5. Folds(fold)
  <2>1. \E h : Folds(h)
    BY <1>3, TurnsThereAre
  <2> QED BY <2>1
<1> HIDE DEF fold
<1>6. Turns(loop, b, xs, fold)
  BY <1>3, <1>5
<1>7. ASSUME NEW i \in 1 .. n, NEW c, Kept(b, c, Steps(0, i - 1))
      PROVE  Kept(c, Turn(loop, c, xs[i]), 0)
  <2>1. Kept(b, c, 0)
    BY <1>7 DEF Steps
  <2>2. Kept(c, Reader!DeclareStruct(c, xs[i]), 0)
    BY <2>1
  <2>3. Turn(loop, c, xs[i]) = Reader!DeclareStruct(c, xs[i])
    BY <1>2
  <2> QED BY <2>2, <2>3
<1>8. Kept(b, fold[DOMAIN xs], Steps(0, n))
  <2>1. 0 \in {0, 1}
    OBVIOUS
  <2> QED BY <1>6, <1>7, <2>1, LoopKeeps
<1>9. Steps(0, n) = 0
  BY DEF Steps
<1> QED BY <1>4, <1>8, <1>9

\* The parameters of a function.
LEMMA ParametersKeep ==
  ASSUME NEW b, Made(b), NEW xs, NEW n \in Nat, DOMAIN xs = 1 .. n,
         \A i \in 1 .. n : \A c : Kept(b, c, 0) => Kept(c, Reader!DeclareParameter(c, xs[i]), 0)
  PROVE  Kept(b, Reader!EachParameter(b, xs), 0)
<1>1. PICK loop : loop = [over |-> "parameters"]
  BY Zenon
<1>2. \A u, v : Turn(loop, u, v) = Reader!DeclareParameter(u, v)
  BY <1>1 DEF Turn
<1> DEFINE Folds(h) == h = [ s \in SUBSET (DOMAIN xs) |->
                               IF s = {} THEN b
                               ELSE Reader!DeclareParameter(h[s \ {Reader!Max(s)}], xs[Reader!Max(s)]) ]
           fold == CHOOSE h : Folds(h)
<1>3. \A h : Turns(loop, b, xs, h) <=> Folds(h)
  BY <1>2 DEF Turns
<1>4. Reader!EachParameter(b, xs) = fold[DOMAIN xs]
  BY DEF Reader!EachParameter, Reader!FoldLeft, Reader!MapThenFoldSet
<1> HIDE DEF Folds
<1>5. Folds(fold)
  <2>1. \E h : Folds(h)
    BY <1>3, TurnsThereAre
  <2> QED BY <2>1
<1> HIDE DEF fold
<1>6. Turns(loop, b, xs, fold)
  BY <1>3, <1>5
<1>7. ASSUME NEW i \in 1 .. n, NEW c, Kept(b, c, Steps(0, i - 1))
      PROVE  Kept(c, Turn(loop, c, xs[i]), 0)
  <2>1. Kept(b, c, 0)
    BY <1>7 DEF Steps
  <2>2. Kept(c, Reader!DeclareParameter(c, xs[i]), 0)
    BY <2>1
  <2>3. Turn(loop, c, xs[i]) = Reader!DeclareParameter(c, xs[i])
    BY <1>2
  <2> QED BY <2>2, <2>3
<1>8. Kept(b, fold[DOMAIN xs], Steps(0, n))
  <2>1. 0 \in {0, 1}
    OBVIOUS
  <2> QED BY <1>6, <1>7, <2>1, LoopKeeps
<1>9. Steps(0, n) = 0
  BY DEF Steps
<1> QED BY <1>4, <1>8, <1>9

\* The functions of a file.
LEMMA FunctionsTurn ==
  ASSUME NEW b, NEW xs, NEW n \in Nat, DOMAIN xs = 1 .. n
  PROVE  \E after : /\ after[0] = b
                    /\ \A i \in 1 .. n : after[i] = Reader!DeclareFunction(after[i - 1], xs[i])
                    /\ after[n] = Reader!EachFunction(b, xs)
<1>1. PICK loop : loop = [over |-> "functions"]
  BY Zenon
<1>2. \A u, v : Turn(loop, u, v) = Reader!DeclareFunction(u, v)
  BY <1>1 DEF Turn
<1> DEFINE Folds(h) == h = [ s \in SUBSET (DOMAIN xs) |->
                               IF s = {} THEN b
                               ELSE Reader!DeclareFunction(h[s \ {Reader!Max(s)}], xs[Reader!Max(s)]) ]
           fold == CHOOSE h : Folds(h)
<1>3. \A h : Turns(loop, b, xs, h) <=> Folds(h)
  BY <1>2 DEF Turns
<1>4. Reader!EachFunction(b, xs) = fold[DOMAIN xs]
  BY DEF Reader!EachFunction, Reader!FoldLeft, Reader!MapThenFoldSet
<1> HIDE DEF Folds
<1>5. Folds(fold)
  <2>1. \E h : Folds(h)
    BY <1>3, TurnsThereAre
  <2> QED BY <2>1
<1> HIDE DEF fold
<1>6. Turns(loop, b, xs, fold)
  BY <1>3, <1>5
<1>7. PICK after : /\ after[0] = b
                   /\ \A i \in 1 .. n : after[i] = Turn(loop, after[i - 1], xs[i])
                   /\ after[n] = fold[DOMAIN xs]
  BY <1>6, TurnByTurn
<1>8. \A i \in 1 .. n : after[i] = Reader!DeclareFunction(after[i - 1], xs[i])
  BY <1>2, <1>7
<1> QED BY <1>4, <1>7, <1>8

\* What a type is wrapped in, turn by turn.
LEMMA WrapsTurn ==
  ASSUME NEW b, NEW xs, NEW n \in Nat, DOMAIN xs = 1 .. n
  PROVE  \E after : /\ after[0] = b
                    /\ \A i \in 1 .. n : after[i] = Reader!Wrap(after[i - 1], xs[i])
                    /\ after[n] = Reader!EachWrap(b, xs)
<1>1. PICK loop : loop = [over |-> "wraps"]
  BY Zenon
<1>2. \A u, v : Turn(loop, u, v) = Reader!Wrap(u, v)
  BY <1>1 DEF Turn
<1> DEFINE Folds(h) == h = [ s \in SUBSET (DOMAIN xs) |->
                               IF s = {} THEN b
                               ELSE Reader!Wrap(h[s \ {Reader!Max(s)}], xs[Reader!Max(s)]) ]
           fold == CHOOSE h : Folds(h)
<1>3. \A h : Turns(loop, b, xs, h) <=> Folds(h)
  BY <1>2 DEF Turns
<1>4. Reader!EachWrap(b, xs) = fold[DOMAIN xs]
  BY DEF Reader!EachWrap, Reader!FoldLeft, Reader!MapThenFoldSet
<1> HIDE DEF Folds
<1>5. Folds(fold)
  <2>1. \E h : Folds(h)
    BY <1>3, TurnsThereAre
  <2> QED BY <2>1
<1> HIDE DEF fold
<1>6. Turns(loop, b, xs, fold)
  BY <1>3, <1>5
<1>7. PICK after : /\ after[0] = b
                   /\ \A i \in 1 .. n : after[i] = Turn(loop, after[i - 1], xs[i])
                   /\ after[n] = fold[DOMAIN xs]
  BY <1>6, TurnByTurn
<1>8. \A i \in 1 .. n : after[i] = Reader!Wrap(after[i - 1], xs[i])
  BY <1>2, <1>7
<1> QED BY <1>4, <1>7, <1>8

\* The containers of a file, their members, and the members of each.
LEMMA ContainersTurn ==
  ASSUME NEW b, NEW xs, NEW n \in Nat, DOMAIN xs = 1 .. n
  PROVE  \E after : /\ after[0] = b
                    /\ \A i \in 1 .. n : after[i] = Reader!DeclareContainer(after[i - 1], xs[i])
                    /\ after[n] = Reader!EachContainer(b, xs)
<1>1. PICK loop : loop = [over |-> "containers"]
  BY Zenon
<1>2. \A u, v : Turn(loop, u, v) = Reader!DeclareContainer(u, v)
  BY <1>1 DEF Turn
<1> DEFINE Folds(h) == h = [ s \in SUBSET (DOMAIN xs) |->
                               IF s = {} THEN b
                               ELSE Reader!DeclareContainer(h[s \ {Reader!Max(s)}], xs[Reader!Max(s)]) ]
           fold == CHOOSE h : Folds(h)
<1>3. \A h : Turns(loop, b, xs, h) <=> Folds(h)
  BY <1>2 DEF Turns
<1>4. Reader!EachContainer(b, xs) = fold[DOMAIN xs]
  BY DEF Reader!EachContainer, Reader!FoldLeft, Reader!MapThenFoldSet
<1> HIDE DEF Folds
<1>5. Folds(fold)
  <2>1. \E h : Folds(h)
    BY <1>3, TurnsThereAre
  <2> QED BY <2>1
<1> HIDE DEF fold
<1>6. Turns(loop, b, xs, fold)
  BY <1>3, <1>5
<1>7. PICK after : /\ after[0] = b
                   /\ \A i \in 1 .. n : after[i] = Turn(loop, after[i - 1], xs[i])
                   /\ after[n] = fold[DOMAIN xs]
  BY <1>6, TurnByTurn
<1>8. \A i \in 1 .. n : after[i] = Reader!DeclareContainer(after[i - 1], xs[i])
  BY <1>2, <1>7
<1> QED BY <1>4, <1>7, <1>8

LEMMA StructsTurn ==
  ASSUME NEW b, NEW xs, NEW n \in Nat, DOMAIN xs = 1 .. n
  PROVE  \E after : /\ after[0] = b
                    /\ \A i \in 1 .. n : after[i] = Reader!DeclareStruct(after[i - 1], xs[i])
                    /\ after[n] = Reader!EachStruct(b, xs)
<1>1. PICK loop : loop = [over |-> "structs"]
  BY Zenon
<1>2. \A u, v : Turn(loop, u, v) = Reader!DeclareStruct(u, v)
  BY <1>1 DEF Turn
<1> DEFINE Folds(h) == h = [ s \in SUBSET (DOMAIN xs) |->
                               IF s = {} THEN b
                               ELSE Reader!DeclareStruct(h[s \ {Reader!Max(s)}], xs[Reader!Max(s)]) ]
           fold == CHOOSE h : Folds(h)
<1>3. \A h : Turns(loop, b, xs, h) <=> Folds(h)
  BY <1>2 DEF Turns
<1>4. Reader!EachStruct(b, xs) = fold[DOMAIN xs]
  BY DEF Reader!EachStruct, Reader!FoldLeft, Reader!MapThenFoldSet
<1> HIDE DEF Folds
<1>5. Folds(fold)
  <2>1. \E h : Folds(h)
    BY <1>3, TurnsThereAre
  <2> QED BY <2>1
<1> HIDE DEF fold
<1>6. Turns(loop, b, xs, fold)
  BY <1>3, <1>5
<1>7. PICK after : /\ after[0] = b
                   /\ \A i \in 1 .. n : after[i] = Turn(loop, after[i - 1], xs[i])
                   /\ after[n] = fold[DOMAIN xs]
  BY <1>6, TurnByTurn
<1>8. \A i \in 1 .. n : after[i] = Reader!DeclareStruct(after[i - 1], xs[i])
  BY <1>2, <1>7
<1> QED BY <1>4, <1>7, <1>8

LEMMA MembersTurn ==
  ASSUME NEW b, NEW xs, NEW n \in Nat, DOMAIN xs = 1 .. n
  PROVE  \E after : /\ after[0] = b
                    /\ \A i \in 1 .. n : after[i] = Reader!DeclareMember(after[i - 1], xs[i])
                    /\ after[n] = Reader!EachMember(b, xs)
<1>1. PICK loop : loop = [over |-> "members"]
  BY Zenon
<1>2. \A u, v : Turn(loop, u, v) = Reader!DeclareMember(u, v)
  BY <1>1 DEF Turn
<1> DEFINE Folds(h) == h = [ s \in SUBSET (DOMAIN xs) |->
                               IF s = {} THEN b
                               ELSE Reader!DeclareMember(h[s \ {Reader!Max(s)}], xs[Reader!Max(s)]) ]
           fold == CHOOSE h : Folds(h)
<1>3. \A h : Turns(loop, b, xs, h) <=> Folds(h)
  BY <1>2 DEF Turns
<1>4. Reader!EachMember(b, xs) = fold[DOMAIN xs]
  BY DEF Reader!EachMember, Reader!FoldLeft, Reader!MapThenFoldSet
<1> HIDE DEF Folds
<1>5. Folds(fold)
  <2>1. \E h : Folds(h)
    BY <1>3, TurnsThereAre
  <2> QED BY <2>1
<1> HIDE DEF fold
<1>6. Turns(loop, b, xs, fold)
  BY <1>3, <1>5
<1>7. PICK after : /\ after[0] = b
                   /\ \A i \in 1 .. n : after[i] = Turn(loop, after[i - 1], xs[i])
                   /\ after[n] = fold[DOMAIN xs]
  BY <1>6, TurnByTurn
<1>8. \A i \in 1 .. n : after[i] = Reader!DeclareMember(after[i - 1], xs[i])
  BY <1>2, <1>7
<1> QED BY <1>4, <1>7, <1>8

\* What a type is around, turn by turn.
LEMMA ElementsTurn ==
  ASSUME NEW t, NEW type, NEW xs, NEW n \in Nat, DOMAIN xs = 1 .. n
  PROVE  \E after : /\ after[0] = type
                    /\ \A i \in 1 .. n :
                         after[i] = Reader!At(t.types.element, after[i - 1])
                    /\ after[n] = Reader!Unwrapped(t, type, xs)
<1>1. PICK loop : loop = [over |-> "elements", t |-> t]
  BY Zenon
<1>2. \A u, v : Turn(loop, u, v) = Reader!At(t.types.element, u)
  BY <1>1 DEF Turn
<1> DEFINE Folds(h) == h = [ s \in SUBSET (DOMAIN xs) |->
                               IF s = {} THEN type
                               ELSE Reader!At(t.types.element, h[s \ {Reader!Max(s)}]) ]
           fold == CHOOSE h : Folds(h)
<1>3. \A h : Turns(loop, type, xs, h) <=> Folds(h)
  BY <1>2 DEF Turns
<1>4. Reader!Unwrapped(t, type, xs) = fold[DOMAIN xs]
  BY DEF Reader!Unwrapped, Reader!FoldLeft, Reader!MapThenFoldSet
<1> HIDE DEF Folds
<1>5. Folds(fold)
  <2>1. \E h : Folds(h)
    BY <1>3, TurnsThereAre
  <2> QED BY <2>1
<1> HIDE DEF fold
<1>6. Turns(loop, type, xs, fold)
  BY <1>3, <1>5
<1>7. PICK after : /\ after[0] = type
                   /\ \A i \in 1 .. n : after[i] = Turn(loop, after[i - 1], xs[i])
                   /\ after[n] = fold[DOMAIN xs]
  BY <1>6, TurnByTurn
<1>8. \A i \in 1 .. n : after[i] = Reader!At(t.types.element, after[i - 1])
  BY <1>2, <1>7
<1> QED BY <1>4, <1>7, <1>8

\* The allocators that the functions of a file are passed.
LEMMA PassedKeep ==
  ASSUME NEW b, Made(b), NEW xs, NEW n \in Nat, DOMAIN xs = 1 .. n,
         \A i \in 1 .. n : \A c : Kept(b, c, 0) => Kept(c, Reader!DeclareSourcesOf(c, xs[i]), 0)
  PROVE  Kept(b, Reader!SourcesOfEach(b, xs), 0)
<1>1. PICK loop : loop = [over |-> "sources"]
  BY Zenon
<1>2. \A u, v : Turn(loop, u, v) = Reader!DeclareSourcesOf(u, v)
  BY <1>1 DEF Turn
<1> DEFINE Folds(h) == h = [ s \in SUBSET (DOMAIN xs) |->
                               IF s = {} THEN b
                               ELSE Reader!DeclareSourcesOf(h[s \ {Reader!Max(s)}], xs[Reader!Max(s)]) ]
           fold == CHOOSE h : Folds(h)
<1>3. \A h : Turns(loop, b, xs, h) <=> Folds(h)
  BY <1>2 DEF Turns
<1>4. Reader!SourcesOfEach(b, xs) = fold[DOMAIN xs]
  BY DEF Reader!SourcesOfEach, Reader!FoldLeft, Reader!MapThenFoldSet
<1> HIDE DEF Folds
<1>5. Folds(fold)
  <2>1. \E h : Folds(h)
    BY <1>3, TurnsThereAre
  <2> QED BY <2>1
<1> HIDE DEF fold
<1>6. Turns(loop, b, xs, fold)
  BY <1>3, <1>5
<1>7. ASSUME NEW i \in 1 .. n, NEW c, Kept(b, c, Steps(0, i - 1))
      PROVE  Kept(c, Turn(loop, c, xs[i]), 0)
  <2>1. Kept(b, c, 0)
    BY <1>7 DEF Steps
  <2>2. Kept(c, Reader!DeclareSourcesOf(c, xs[i]), 0)
    BY <2>1
  <2>3. Turn(loop, c, xs[i]) = Reader!DeclareSourcesOf(c, xs[i])
    BY <1>2
  <2> QED BY <2>2, <2>3
<1>8. Kept(b, fold[DOMAIN xs], Steps(0, n))
  <2>1. 0 \in {0, 1}
    OBVIOUS
  <2> QED BY <1>6, <1>7, <2>1, LoopKeeps
<1>9. Steps(0, n) = 0
  BY DEF Steps
<1> QED BY <1>4, <1>8, <1>9

\* What the functions of a file call.
LEMMA CallersKeep ==
  ASSUME NEW b, Made(b), NEW xs, NEW n \in Nat, DOMAIN xs = 1 .. n,
         \A i \in 1 .. n : \A c : Kept(b, c, 0) => Kept(c, Reader!DeclareCallsOf(c, xs[i]), 0)
  PROVE  Kept(b, Reader!CallsOfEach(b, xs), 0)
<1>1. PICK loop : loop = [over |-> "calls"]
  BY Zenon
<1>2. \A u, v : Turn(loop, u, v) = Reader!DeclareCallsOf(u, v)
  BY <1>1 DEF Turn
<1> DEFINE Folds(h) == h = [ s \in SUBSET (DOMAIN xs) |->
                               IF s = {} THEN b
                               ELSE Reader!DeclareCallsOf(h[s \ {Reader!Max(s)}], xs[Reader!Max(s)]) ]
           fold == CHOOSE h : Folds(h)
<1>3. \A h : Turns(loop, b, xs, h) <=> Folds(h)
  BY <1>2 DEF Turns
<1>4. Reader!CallsOfEach(b, xs) = fold[DOMAIN xs]
  BY DEF Reader!CallsOfEach, Reader!FoldLeft, Reader!MapThenFoldSet
<1> HIDE DEF Folds
<1>5. Folds(fold)
  <2>1. \E h : Folds(h)
    BY <1>3, TurnsThereAre
  <2> QED BY <2>1
<1> HIDE DEF fold
<1>6. Turns(loop, b, xs, fold)
  BY <1>3, <1>5
<1>7. ASSUME NEW i \in 1 .. n, NEW c, Kept(b, c, Steps(0, i - 1))
      PROVE  Kept(c, Turn(loop, c, xs[i]), 0)
  <2>1. Kept(b, c, 0)
    BY <1>7 DEF Steps
  <2>2. Kept(c, Reader!DeclareCallsOf(c, xs[i]), 0)
    BY <2>1
  <2>3. Turn(loop, c, xs[i]) = Reader!DeclareCallsOf(c, xs[i])
    BY <1>2
  <2> QED BY <2>2, <2>3
<1>8. Kept(b, fold[DOMAIN xs], Steps(0, n))
  <2>1. 0 \in {0, 1}
    OBVIOUS
  <2> QED BY <1>6, <1>7, <2>1, LoopKeeps
<1>9. Steps(0, n) = 0
  BY DEF Steps
<1> QED BY <1>4, <1>8, <1>9

\* What the functions of a file allocate and free.
LEMMA MemoryKeep ==
  ASSUME NEW b, Made(b), NEW xs, NEW n \in Nat, DOMAIN xs = 1 .. n,
         \A i \in 1 .. n : \A c : Kept(b, c, 0) => Kept(c, Reader!DeclareMemoryOf(c, xs[i]), 0)
  PROVE  Kept(b, Reader!MemoryOfEach(b, xs), 0)
<1>1. PICK loop : loop = [over |-> "memory"]
  BY Zenon
<1>2. \A u, v : Turn(loop, u, v) = Reader!DeclareMemoryOf(u, v)
  BY <1>1 DEF Turn
<1> DEFINE Folds(h) == h = [ s \in SUBSET (DOMAIN xs) |->
                               IF s = {} THEN b
                               ELSE Reader!DeclareMemoryOf(h[s \ {Reader!Max(s)}], xs[Reader!Max(s)]) ]
           fold == CHOOSE h : Folds(h)
<1>3. \A h : Turns(loop, b, xs, h) <=> Folds(h)
  BY <1>2 DEF Turns
<1>4. Reader!MemoryOfEach(b, xs) = fold[DOMAIN xs]
  BY DEF Reader!MemoryOfEach, Reader!FoldLeft, Reader!MapThenFoldSet
<1> HIDE DEF Folds
<1>5. Folds(fold)
  <2>1. \E h : Folds(h)
    BY <1>3, TurnsThereAre
  <2> QED BY <2>1
<1> HIDE DEF fold
<1>6. Turns(loop, b, xs, fold)
  BY <1>3, <1>5
<1>7. ASSUME NEW i \in 1 .. n, NEW c, Kept(b, c, Steps(0, i - 1))
      PROVE  Kept(c, Turn(loop, c, xs[i]), 0)
  <2>1. Kept(b, c, 0)
    BY <1>7 DEF Steps
  <2>2. Kept(c, Reader!DeclareMemoryOf(c, xs[i]), 0)
    BY <2>1
  <2>3. Turn(loop, c, xs[i]) = Reader!DeclareMemoryOf(c, xs[i])
    BY <1>2
  <2> QED BY <2>2, <2>3
<1>8. Kept(b, fold[DOMAIN xs], Steps(0, n))
  <2>1. 0 \in {0, 1}
    OBVIOUS
  <2> QED BY <1>6, <1>7, <2>1, LoopKeeps
<1>9. Steps(0, n) = 0
  BY DEF Steps
<1> QED BY <1>4, <1>8, <1>9

\* The bodies of the functions of a file.
LEMMA BodiesTurn ==
  ASSUME NEW b, NEW xs, NEW n \in Nat, DOMAIN xs = 1 .. n
  PROVE  \E after : /\ after[0] = b
                    /\ \A i \in 1 .. n : after[i] = Reader!DeclareBody(after[i - 1], xs[i])
                    /\ after[n] = Reader!BodyOfEach(b, xs)
<1>1. PICK loop : loop = [over |-> "bodies"]
  BY Zenon
<1>2. \A u, v : Turn(loop, u, v) = Reader!DeclareBody(u, v)
  BY <1>1 DEF Turn
<1> DEFINE Folds(h) == h = [ s \in SUBSET (DOMAIN xs) |->
                               IF s = {} THEN b
                               ELSE Reader!DeclareBody(h[s \ {Reader!Max(s)}], xs[Reader!Max(s)]) ]
           fold == CHOOSE h : Folds(h)
<1>3. \A h : Turns(loop, b, xs, h) <=> Folds(h)
  BY <1>2 DEF Turns
<1>4. Reader!BodyOfEach(b, xs) = fold[DOMAIN xs]
  BY DEF Reader!BodyOfEach, Reader!FoldLeft, Reader!MapThenFoldSet
<1> HIDE DEF Folds
<1>5. Folds(fold)
  <2>1. \E h : Folds(h)
    BY <1>3, TurnsThereAre
  <2> QED BY <2>1
<1> HIDE DEF fold
<1>6. Turns(loop, b, xs, fold)
  BY <1>3, <1>5
<1>7. PICK after : /\ after[0] = b
                   /\ \A i \in 1 .. n : after[i] = Turn(loop, after[i - 1], xs[i])
                   /\ after[n] = fold[DOMAIN xs]
  BY <1>6, TurnByTurn
<1>8. \A i \in 1 .. n : after[i] = Reader!DeclareBody(after[i - 1], xs[i])
  BY <1>2, <1>7
<1> QED BY <1>4, <1>7, <1>8

\* The allocators that a function is passed.
LEMMA SourcesKeep ==
  ASSUME NEW f, NEW b, Made(b), NEW xs, NEW n \in Nat, DOMAIN xs = 1 .. n,
         \A i \in 1 .. n : \A c : Kept(b, c, 0) => Kept(c, Reader!DeclareSource(f, c, xs[i]), 0)
  PROVE  xs = Reader!Positions(f.parameters) => Kept(b, Reader!DeclareSourcesOf(b, f), 0)
<1>1. PICK loop : loop = [over |-> "source", f |-> f]
  BY Zenon
<1>2. \A u, v : Turn(loop, u, v) = Reader!DeclareSource(f, u, v)
  BY <1>1 DEF Turn
<1> DEFINE Folds(h) == h = [ s \in SUBSET (DOMAIN xs) |->
                               IF s = {} THEN b
                               ELSE Reader!DeclareSource(f, h[s \ {Reader!Max(s)}], xs[Reader!Max(s)]) ]
           fold == CHOOSE h : Folds(h)
<1>3. \A h : Turns(loop, b, xs, h) <=> Folds(h)
  BY <1>2 DEF Turns
<1>4. xs = Reader!Positions(f.parameters) => Reader!DeclareSourcesOf(b, f) = fold[DOMAIN xs]
  BY Zenon DEF Reader!DeclareSourcesOf, Reader!FoldLeft, Reader!MapThenFoldSet
<1> HIDE DEF Folds
<1>5. Folds(fold)
  <2>1. \E h : Folds(h)
    BY <1>3, TurnsThereAre
  <2> QED BY <2>1
<1> HIDE DEF fold
<1>6. Turns(loop, b, xs, fold)
  BY <1>3, <1>5
<1>7. ASSUME NEW i \in 1 .. n, NEW c, Kept(b, c, Steps(0, i - 1))
      PROVE  Kept(c, Turn(loop, c, xs[i]), 0)
  <2>1. Kept(b, c, 0)
    BY <1>7 DEF Steps
  <2>2. Kept(c, Reader!DeclareSource(f, c, xs[i]), 0)
    BY <2>1
  <2>3. Turn(loop, c, xs[i]) = Reader!DeclareSource(f, c, xs[i])
    BY <1>2
  <2> QED BY <2>2, <2>3
<1>8. Kept(b, fold[DOMAIN xs], Steps(0, n))
  <2>1. 0 \in {0, 1}
    OBVIOUS
  <2> QED BY <1>6, <1>7, <2>1, LoopKeeps
<1>9. Steps(0, n) = 0
  BY DEF Steps
<1> QED BY <1>4, <1>8, <1>9

\* The allocators that a call passes on.
LEMMA AllocatorsTurn ==
  ASSUME NEW f, NEW call, NEW target, NEW b, NEW xs, NEW n \in Nat, DOMAIN xs = 1 .. n
  PROVE  xs = Reader!Positions(target.parameters) =>
           \E after : /\ after[0] = b
                      /\ \A i \in 1 .. n :
                           after[i] = Reader!PassAllocator(f, call, target, after[i - 1], xs[i])
                      /\ after[n] = Reader!PassAllocators(f, call, target, b)
<1>1. PICK loop : loop = [over |-> "allocators", f |-> f, call |-> call, target |-> target]
  BY Zenon
<1>2. \A u, v : Turn(loop, u, v) = Reader!PassAllocator(f, call, target, u, v)
  BY <1>1 DEF Turn
<1> DEFINE Folds(h) == h = [ s \in SUBSET (DOMAIN xs) |->
                               IF s = {} THEN b
                               ELSE Reader!PassAllocator(f, call, target, h[s \ {Reader!Max(s)}], xs[Reader!Max(s)]) ]
           fold == CHOOSE h : Folds(h)
<1>3. \A h : Turns(loop, b, xs, h) <=> Folds(h)
  BY <1>2, Zenon DEF Turns
<1>4. xs = Reader!Positions(target.parameters) => Reader!PassAllocators(f, call, target, b) = fold[DOMAIN xs]
  BY Zenon DEF Reader!PassAllocators, Reader!FoldLeft, Reader!MapThenFoldSet
<1> HIDE DEF Folds
<1>5. Folds(fold)
  <2>1. \E h : Folds(h)
    BY <1>3, TurnsThereAre
  <2> QED BY <2>1
<1> HIDE DEF fold
<1>6. Turns(loop, b, xs, fold)
  BY <1>3, <1>5
<1>7. PICK after : /\ after[0] = b
                   /\ \A i \in 1 .. n : after[i] = Turn(loop, after[i - 1], xs[i])
                   /\ after[n] = fold[DOMAIN xs]
  BY <1>6, TurnByTurn
<1>8. \A i \in 1 .. n : after[i] = Reader!PassAllocator(f, call, target, after[i - 1], xs[i])
  BY <1>2, <1>7
<1> QED BY <1>4, <1>7, <1>8

\* The calls of a function.
LEMMA CallsKeep ==
  ASSUME NEW f, NEW b, Made(b), NEW xs, NEW n \in Nat, DOMAIN xs = 1 .. n,
         \A i \in 1 .. n : \A c : Kept(b, c, 0) => Kept(c, Reader!DeclareCall(f, c, xs[i]), 0)
  PROVE  xs = f.calls => Kept(b, Reader!DeclareCallsOf(b, f), 0)
<1>1. PICK loop : loop = [over |-> "call", f |-> f]
  BY Zenon
<1>2. \A u, v : Turn(loop, u, v) = Reader!DeclareCall(f, u, v)
  BY <1>1 DEF Turn
<1> DEFINE Folds(h) == h = [ s \in SUBSET (DOMAIN xs) |->
                               IF s = {} THEN b
                               ELSE Reader!DeclareCall(f, h[s \ {Reader!Max(s)}], xs[Reader!Max(s)]) ]
           fold == CHOOSE h : Folds(h)
<1>3. \A h : Turns(loop, b, xs, h) <=> Folds(h)
  BY <1>2 DEF Turns
<1>4. xs = f.calls => Reader!DeclareCallsOf(b, f) = fold[DOMAIN xs]
  BY Zenon DEF Reader!DeclareCallsOf, Reader!FoldLeft, Reader!MapThenFoldSet
<1> HIDE DEF Folds
<1>5. Folds(fold)
  <2>1. \E h : Folds(h)
    BY <1>3, TurnsThereAre
  <2> QED BY <2>1
<1> HIDE DEF fold
<1>6. Turns(loop, b, xs, fold)
  BY <1>3, <1>5
<1>7. ASSUME NEW i \in 1 .. n, NEW c, Kept(b, c, Steps(0, i - 1))
      PROVE  Kept(c, Turn(loop, c, xs[i]), 0)
  <2>1. Kept(b, c, 0)
    BY <1>7 DEF Steps
  <2>2. Kept(c, Reader!DeclareCall(f, c, xs[i]), 0)
    BY <2>1
  <2>3. Turn(loop, c, xs[i]) = Reader!DeclareCall(f, c, xs[i])
    BY <1>2
  <2> QED BY <2>2, <2>3
<1>8. Kept(b, fold[DOMAIN xs], Steps(0, n))
  <2>1. 0 \in {0, 1}
    OBVIOUS
  <2> QED BY <1>6, <1>7, <2>1, LoopKeeps
<1>9. Steps(0, n) = 0
  BY DEF Steps
<1> QED BY <1>4, <1>8, <1>9

\* The fields that a function sets.
LEMMA InitialisersKeep ==
  ASSUME NEW f, NEW b, Made(b), NEW xs, NEW n \in Nat, DOMAIN xs = 1 .. n,
         \A i \in 1 .. n : \A c : Kept(b, c, 0) => Kept(c, Reader!DeclareInitialiser(f, c, xs[i]), 0)
  PROVE  xs = Reader!Positions(f.initialisers) => Kept(b, Reader!DeclareInitialisersOf(b, f), 0)
<1>1. PICK loop : loop = [over |-> "initialisers", f |-> f]
  BY Zenon
<1>2. \A u, v : Turn(loop, u, v) = Reader!DeclareInitialiser(f, u, v)
  BY <1>1 DEF Turn
<1> DEFINE Folds(h) == h = [ s \in SUBSET (DOMAIN xs) |->
                               IF s = {} THEN b
                               ELSE Reader!DeclareInitialiser(f, h[s \ {Reader!Max(s)}], xs[Reader!Max(s)]) ]
           fold == CHOOSE h : Folds(h)
<1>3. \A h : Turns(loop, b, xs, h) <=> Folds(h)
  BY <1>2 DEF Turns
<1>4. xs = Reader!Positions(f.initialisers) => Reader!DeclareInitialisersOf(b, f) = fold[DOMAIN xs]
  BY Zenon DEF Reader!DeclareInitialisersOf, Reader!FoldLeft, Reader!MapThenFoldSet
<1> HIDE DEF Folds
<1>5. Folds(fold)
  <2>1. \E h : Folds(h)
    BY <1>3, TurnsThereAre
  <2> QED BY <2>1
<1> HIDE DEF fold
<1>6. Turns(loop, b, xs, fold)
  BY <1>3, <1>5
<1>7. ASSUME NEW i \in 1 .. n, NEW c, Kept(b, c, Steps(0, i - 1))
      PROVE  Kept(c, Turn(loop, c, xs[i]), 0)
  <2>1. Kept(b, c, 0)
    BY <1>7 DEF Steps
  <2>2. Kept(c, Reader!DeclareInitialiser(f, c, xs[i]), 0)
    BY <2>1
  <2>3. Turn(loop, c, xs[i]) = Reader!DeclareInitialiser(f, c, xs[i])
    BY <1>2
  <2> QED BY <2>2, <2>3
<1>8. Kept(b, fold[DOMAIN xs], Steps(0, n))
  <2>1. 0 \in {0, 1}
    OBVIOUS
  <2> QED BY <1>6, <1>7, <2>1, LoopKeeps
<1>9. Steps(0, n) = 0
  BY DEF Steps
<1> QED BY <1>4, <1>8, <1>9

\* The fields that a function frees.
LEMMA FreesKeep ==
  ASSUME NEW f, NEW b, Made(Reader!DeclareInitialisersOf(b, f)), NEW xs, NEW n \in Nat, DOMAIN xs = 1 .. n,
         \A i \in 1 .. n : \A c : Kept(Reader!DeclareInitialisersOf(b, f), c, 0) => Kept(c, Reader!DeclareFree(f, c, xs[i]), 0)
  PROVE  xs = f.calls => Kept(Reader!DeclareInitialisersOf(b, f), Reader!DeclareMemoryOf(b, f), 0)
<1>1. PICK loop : loop = [over |-> "frees", f |-> f]
  BY Zenon
<1>2. \A u, v : Turn(loop, u, v) = Reader!DeclareFree(f, u, v)
  BY <1>1 DEF Turn
<1> DEFINE Folds(h) == h = [ s \in SUBSET (DOMAIN xs) |->
                               IF s = {} THEN Reader!DeclareInitialisersOf(b, f)
                               ELSE Reader!DeclareFree(f, h[s \ {Reader!Max(s)}], xs[Reader!Max(s)]) ]
           fold == CHOOSE h : Folds(h)
<1>3. \A h : Turns(loop, Reader!DeclareInitialisersOf(b, f), xs, h) <=> Folds(h)
  BY <1>2 DEF Turns
<1>4. xs = f.calls => Reader!DeclareMemoryOf(b, f) = fold[DOMAIN xs]
  BY Zenon DEF Reader!DeclareMemoryOf, Reader!FoldLeft, Reader!MapThenFoldSet
<1> HIDE DEF Folds
<1>5. Folds(fold)
  <2>1. \E h : Folds(h)
    BY <1>3, TurnsThereAre
  <2> QED BY <2>1
<1> HIDE DEF fold
<1>6. Turns(loop, Reader!DeclareInitialisersOf(b, f), xs, fold)
  BY <1>3, <1>5
<1>7. ASSUME NEW i \in 1 .. n, NEW c, Kept(Reader!DeclareInitialisersOf(b, f), c, Steps(0, i - 1))
      PROVE  Kept(c, Turn(loop, c, xs[i]), 0)
  <2>1. Kept(Reader!DeclareInitialisersOf(b, f), c, 0)
    BY <1>7 DEF Steps
  <2>2. Kept(c, Reader!DeclareFree(f, c, xs[i]), 0)
    BY <2>1
  <2>3. Turn(loop, c, xs[i]) = Reader!DeclareFree(f, c, xs[i])
    BY <1>2
  <2> QED BY <2>2, <2>3
<1>8. Kept(Reader!DeclareInitialisersOf(b, f), fold[DOMAIN xs], Steps(0, n))
  <2>1. 0 \in {0, 1}
    OBVIOUS
  <2> QED BY <1>6, <1>7, <2>1, LoopKeeps
<1>9. Steps(0, n) = 0
  BY DEF Steps
<1> QED BY <1>4, <1>8, <1>9

-----------------------------------------------------------------------------
(* What is declared keeps what was.                                        *)

LEMMA NoRowIsANumber == NoIndex \in Nat
BY IndexAssumption

\* Of a handle there is a number, if not of a row.
LEMMA HandleIsANumber ==
  ASSUME NEW b, Made(b)
  PROVE  /\ \A m, text : Reader!LookUp(b.functions, m, text) \in Nat
         /\ \A m, text : Reader!LookUp(b.structs, m, text) \in Nat
         /\ \A m, text : Reader!LookUp(b.functions, m, text) # NoIndex =>
                           Reader!LookUp(b.functions, m, text) \in 0 .. Functions(b) - 1
<1>1. Functions(b) \in Nat /\ Structs(b) \in Nat
      /\ Known(b.functions, Functions(b)) /\ Known(b.structs, Structs(b))
  BY RowsBuilt DEF Made
<1>2. ASSUME NEW m, NEW text
      PROVE  /\ Reader!LookUp(b.functions, m, text) \in (0 .. Functions(b) - 1) \cup {NoIndex}
             /\ Reader!LookUp(b.structs, m, text) \in (0 .. Structs(b) - 1) \cup {NoIndex}
  BY <1>1, LookedUp
<1> QED BY <1>1, <1>2, NoRowIsANumber

LEMMA ResolveKept ==
  ASSUME NEW b, Made(b), NEW m, NEW declared, IsSequence(declared.wraps)
  PROVE  Kept(b, Reader!Resolve(b, m, declared), 0)
<1>1. PICK xs, n : xs = Reader!Reverse(declared.wraps) /\ n = Len(declared.wraps)
  BY Zenon
<1>2. n \in Nat /\ DOMAIN xs = 1 .. n
  BY <1>1, InSequence, ReversedIs
<1>3. PICK c : c = Reader!ResolveName(b, m, declared.name)
  OBVIOUS
<1>4. Kept(b, c, 0) /\ Made(c)
  BY <1>3, NameKept DEF Kept
<1>5. \A i \in 1 .. n : \A d : Kept(c, d, 0) => Kept(d, Reader!Wrap(d, xs[i]), 0)
  BY WrapKept DEF Kept
<1>6. Kept(c, Reader!EachWrap(c, xs), 0)
  BY <1>2, <1>4, <1>5, WrapsKeep
<1>7. Kept(b, Reader!EachWrap(c, xs), 0)
  BY <1>4, <1>6, KeptTwice
<1> QED BY <1>1, <1>3, <1>7 DEF Reader!Resolve

LEMMA MemberKept ==
  ASSUME reading = "members",
         NEW b, Made(b), Structs(b) > 0, NEW member, IsSequence(member.declared.wraps)
  PROVE  Kept(b, Reader!DeclareMember(b, member), 0)
<1>1. PICK typed : typed = Reader!Resolve(b, at, member.declared)
  OBVIOUS
<1>2. Kept(b, typed, 0) /\ Made(typed)
  BY <1>1, ResolveKept DEF Kept
<1>3. Structs(typed) > 0
  <2>1. Structs(b) =< Structs(typed) /\ Structs(b) \in Nat /\ Structs(typed) \in Nat
    BY <1>2, RowsBuilt DEF Kept
  <2> QED BY <2>1
<1>4. PICK t : t = Reader!PushField(typed.tables, Reader!Newest(typed.tables, "structs"),
                                    member.name, typed.type)
  OBVIOUS
<1>5. WellMade(t) /\ Grown(typed.tables, t)
  BY <1>2, <1>3, <1>4, FieldMade DEF Made, Structs
<1>6. PICK c : c = [typed EXCEPT !.tables = t]
  BY Zenon
<1>7. Kept(typed, c, 0)
  BY <1>2, <1>5, <1>6, ExceptTablesKept
<1>8. c = Reader!DeclareMember(b, member)
  BY <1>1, <1>4, <1>6 DEF Reader!DeclareMember
<1> QED BY <1>2, <1>7, <1>8, KeptTwice

\* A container is remembered by what it became.
LEMMA StructKept ==
  ASSUME reading = "members", NEW b, Made(b), NEW container, IsSequence(container.members),
         \A member \in ToSet(container.members) : IsSequence(member.declared.wraps)
  PROVE  Kept(b, Reader!DeclareStruct(b, container), 0)
<1>1. PICK t : t = Reader!PushStruct(b.tables, container.name,
                                     b.names.scoped[<<at, container.name>>], at)
  OBVIOUS
<1>2. WellMade(t) /\ Grown(b.tables, t) /\ Reader!Count(t, "structs") > 0
  BY <1>1, StructMade DEF Made
<1>3. PICK opened : opened = [b EXCEPT !.tables = t]
  BY Zenon
<1>4. Kept(b, opened, 0) /\ opened.tables = t /\ Made(opened) /\ Structs(opened) > 0
  BY <1>2, <1>3, ExceptTablesKept DEF Kept, Structs
<1>5. PICK filled : filled = Reader!EachMember(opened, container.members)
  OBVIOUS
<1>6. Kept(opened, filled, 0)
  <2>1. PICK xs, n : xs = container.members /\ n = Len(xs)
    BY Zenon
  <2>2. n \in Nat /\ DOMAIN xs = 1 .. n /\ \A i \in 1 .. n : xs[i] \in ToSet(xs)
    BY <2>1, InSequence
  <2>3. ASSUME NEW i \in 1 .. n, NEW c, Kept(opened, c, 0)
        PROVE  Kept(c, Reader!DeclareMember(c, xs[i]), 0)
    <3>1. IsSequence(xs[i].declared.wraps)
      BY <2>1, <2>2
    <3>2. Made(c) /\ Structs(c) \in Nat /\ Structs(opened) \in Nat
          /\ Structs(opened) =< Structs(c)
      BY <1>4, <2>3, RowsBuilt DEF Kept
    <3>3. Structs(c) > 0
      BY <1>4, <3>2
    <3> QED BY <3>1, <3>2, <3>3, MemberKept
  <2>4. Kept(opened, Reader!EachMember(opened, xs), 0)
    BY <1>4, <2>2, <2>3, MembersKeep
  <2> QED BY <1>5, <2>1, <2>4
<1>7. Kept(b, filled, 0) /\ Made(filled)
  BY <1>4, <1>6, KeptTwice DEF Kept
<1>8. PICK handle : handle = Reader!Newest(t, "structs")
  OBVIOUS
<1>9. PICK d : d = [filled EXCEPT !.structs =
                      Reader!Remember(@, at, container.name, handle)]
  BY Zenon
<1>10. d = Reader!DeclareStruct(b, container)
  BY <1>1, <1>3, <1>4, <1>5, <1>8, <1>9 DEF Reader!DeclareStruct
<1>11. DOMAIN d = Parts /\ d.tables = filled.tables /\ d.functions = filled.functions
       /\ d.names = filled.names
       /\ d.passed_in = filled.passed_in
       /\ d.structs = Reader!Remember(filled.structs, at, container.name, handle)
  BY <1>7, <1>9 DEF Made, Parts
<1>12. handle \in 0 .. Structs(filled) - 1
  <2>1. Structs(opened) \in Nat /\ Structs(filled) \in Nat
        /\ Structs(opened) =< Structs(filled) /\ handle = Structs(opened) - 1
    BY <1>4, <1>6, <1>7, <1>8, RowsBuilt DEF Kept, Reader!Newest, Structs
  <2> QED BY <1>4, <2>1
<1>13. Known(d.structs, Structs(filled))
  <2>1. Known(filled.structs, Structs(filled)) /\ Structs(filled) \in Nat
    BY <1>7, RowsBuilt DEF Made
  <2> QED BY <1>11, <1>12, <2>1, RememberedIsKnown
<1>14. Kept(b, d, 0)
  <2>1. Structs(d) = Structs(filled) /\ Functions(d) = Functions(filled)
        /\ Types(d) = Types(filled)
    BY <1>11 DEF Structs, Functions, Types
  <2>2. Made(d)
    BY <1>7, <1>11, <1>13, <2>1 DEF Made
  <2>3. Remembers(b, d)
    BY <1>7, <1>11, <2>1 DEF Kept, Remembers, Home
  <2> QED BY <1>7, <1>11, <2>1, <2>2, <2>3 DEF Kept
<1> QED BY <1>10, <1>14

LEMMA ContainerKept ==
  ASSUME NEW b, Made(b), NEW container
  PROVE  /\ Kept(b, Reader!DeclareContainer(b, container), 0)
         /\ Home(Reader!DeclareContainer(b, container), at, container.name)
<1>1. PICK t : t = Reader!PushStructType(b.tables, container.name, at)
  OBVIOUS
<1>2. WellMade(t) /\ Grown(b.tables, t)
      /\ Lodged(t, at, container.name, Reader!Newest(t, "types"))
  <2>1. PICK stored : stored = Reader!PushString(b.tables, container.name)
    OBVIOUS
  <2>2. WellMade(stored) /\ Grown(b.tables, stored)
    BY <2>1, StringMade DEF Made
  <2>3. t = Reader!PushType(stored, "Struct", NoIndex, Reader!Newest(stored, "strings"), at)
    BY <1>1, <2>1 DEF Reader!PushStructType
  <2>4. WellMade(t) /\ Grown(stored, t)
    BY <2>2, <2>3, TypeMade
  <2>5. /\ Reader!Count(b.tables, "strings") \in Nat /\ Reader!Count(stored, "types") \in Nat
        /\ Reader!Newest(stored, "strings") = Reader!Count(b.tables, "strings")
        /\ Reader!Newest(t, "types") = Reader!Count(stored, "types")
        /\ Reader!Count(t, "types") = Reader!Count(stored, "types") + 1
        /\ Reader!Count(stored, "strings") = Reader!Count(b.tables, "strings") + 1
        /\ stored.strings.text[Reader!Count(b.tables, "strings") + 1] = container.name
    BY <2>1, <2>2, <2>3, StringPushed, TypePushed DEF Made, Reader!Newest
  <2>6. LET n == Reader!Count(stored, "types")
        IN  /\ t.types.kind[n + 1] = "Struct" /\ t.types.module[n + 1] = at
            /\ t.types.name[n + 1] = Reader!Count(b.tables, "strings")
            /\ t.strings = stored.strings
    BY <2>2, <2>3, <2>5, TypePushed
  <2>7. Reader!Count(t, "strings") = Reader!Count(stored, "strings")
    BY <2>6 DEF Reader!Count
  <2>8. Lodged(t, at, container.name, Reader!Newest(t, "types"))
    BY <2>5, <2>6, <2>7 DEF Lodged
  <2> QED BY <2>2, <2>4, <2>8, GrownThrough DEF Made
<1>3. PICK next : next = Reader!Typed(b, t)
  OBVIOUS
<1>4. Kept(b, next, 0) /\ next.tables = t
  BY <1>2, <1>3, TypedKept
<1>5. PICK d : d = [next EXCEPT !.names = Reader!Remember(@, at, container.name, next.type)]
  BY Zenon
<1>6. d = Reader!DeclareContainer(b, container)
  BY <1>1, <1>3, <1>5 DEF Reader!DeclareContainer
<1>7. DOMAIN d = Parts /\ d.tables = next.tables /\ d.structs = next.structs
      /\ d.functions = next.functions /\ d.passed_in = next.passed_in
  BY <1>4, <1>5 DEF Kept, Made, Parts
<1>8. PICK type : type = Types(d) - 1
  OBVIOUS
<1>9. /\ next.names = b.names /\ d.names = Reader!Remember(b.names, at, container.name, type)
      /\ Types(d) = Types(next) /\ Lodged(d.tables, at, container.name, type)
      /\ type \in 0 .. Types(next) - 1
  <2>1. next.names = b.names /\ next.type = Reader!Newest(t, "types")
    BY <1>3 DEF Reader!Typed, Made, Parts
  <2>2. Types(d) = Types(next) /\ type = Reader!Newest(t, "types")
    BY <1>4, <1>7, <1>8 DEF Types, Reader!Newest
  <2>3. d.names = Reader!Remember(next.names, at, container.name, next.type)
    BY <1>4, <1>5 DEF Kept, Made, Parts
  <2>4. Lodged(d.tables, at, container.name, type) /\ type \in 0 .. Types(d) - 1
    BY <1>2, <1>4, <1>7, <2>2 DEF Lodged, Types
  <2> QED BY <2>1, <2>2, <2>3, <2>4
<1>10. Known(d.names, Types(d))
  <2>1. Known(b.names, Types(next)) /\ Types(next) \in Nat
    BY <1>4, <1>9, TypesBuilt DEF Kept, Made, WellMade, Types
  <2> QED BY <1>9, <2>1, RememberedIsKnown
<1>11. PICK place : place = <<at, container.name>>
  BY Zenon
<1>12. Beside(b.names, place, container.name, type, d.names)
  BY <1>9, <1>11, RememberedBeside
<1>13. Home(d, at, container.name)
  <2>1. place \in DOMAIN d.names.scoped /\ d.names.scoped[place] = type
        /\ container.name \in DOMAIN d.names.anywhere
    BY <1>12 DEF Beside
  <2> QED BY <1>9, <1>11, <2>1 DEF Home
<1>14. Remembers(next, d)
  <2>1. SUFFICES ASSUME NEW m, NEW name, Home(next, m, name) PROVE Home(d, m, name)
    BY DEF Remembers
  <2>2. PICK key : key = <<m, name>>
    BY Zenon
  <2>3. CASE key = place
    <3>1. m = at /\ name = container.name
      BY <1>11, <2>2, <2>3
    <3> QED BY <1>13, <3>1
  <2>4. CASE key # place
    <3>1. key \in DOMAIN b.names.scoped /\ name \in DOMAIN b.names.anywhere
      BY <1>9, <2>1, <2>2 DEF Home
    <3>2. /\ key \in DOMAIN d.names.scoped /\ d.names.scoped[key] = next.names.scoped[key]
          /\ name \in DOMAIN d.names.anywhere
      BY <1>9, <1>12, <2>4, <3>1 DEF Beside
    <3> QED BY <1>7, <2>1, <2>2, <3>2 DEF Home
  <2> QED BY <2>3, <2>4
<1>15. Kept(b, d, 0)
  BY <1>4, <1>7, <1>10, <1>14, AsideKept
<1> QED BY <1>6, <1>13, <1>15

\* The count of a module is a number, so that it is one when it is counted up.
LEMMA UnresolvedKept ==
  ASSUME NEW b, Made(b), NEW text, at \in Nat
  PROVE  Kept(b, Reader!NameUnresolved(b, text), 0)
<1>1. PICK s : s = Reader!PushNamed(b.tables, "unresolved_imports", text, [owner |-> at])
  OBVIOUS
<1>2. WellMade(s) /\ Grown(b.tables, s)
  <2>1. "unresolved_imports" \in Reader!Table \ (Ranging \cup Doing \cup {"strings"})
    BY TheColumns DEF Ranging, Doing
  <2>2. PICK row : row = [owner |-> at]
    BY Zenon
  <2>3. \A name : <<"unresolved_imports", name>> \in Numbered =>
                    name \in DOMAIN row \ {"name"} /\ row[name] \in Nat
    BY <2>2 DEF Numbered
  <2>4. s = Reader!PushNamed(b.tables, "unresolved_imports", text, row)
    BY <1>1, <2>2
  <2> QED BY <2>1, <2>3, <2>4, NamedMade DEF Made
<1>3. PICK u : u = Reader!CountUp(s, "modules", "unresolved_count", at)
  OBVIOUS
<1>4. WellMade(u) /\ Grown(s, u)
  <2>1. PICK counts : counts = s["modules"]["unresolved_count"]
    OBVIOUS
  <2>2. "modules" \in Reader!Table \ Doing
        /\ "unresolved_count" \in ToSet(Reader!Columns["modules"])
        /\ <<"modules", "unresolved_count">> \in Numbered
    BY TheColumns DEF Numbered, Doing
  <2>3. counts \in Seq(Nat)
    BY <1>2, <2>1, <2>2 DEF WellMade, Shaped, AreCells
  <2>4. CASE Reader!Has(counts, at)
    <3>1. counts[at + 1] + 1 \in Nat
      <4>1. at + 1 \in 1 .. Len(counts)
        BY <2>3, <2>4 DEF Reader!Has
      <4>2. counts[at + 1] \in Nat
        BY <2>3, <4>1
      <4> QED BY <4>2
    <3>2. PICK value : value = counts[at + 1] + 1
      OBVIOUS
    <3>3. u = Reader!SetCell(s, "modules", "unresolved_count", at, value)
      BY <1>3, <2>1, <3>2, CountUpSets
    <3>4. <<"modules", "unresolved_count">> \in Numbered => value \in Nat
      BY <3>1, <3>2
    <3>5. /\ <<"modules", "unresolved_count">> \in Numbered => "modules" = "modules"
          /\ <<"modules", "unresolved_count">> \notin Lasting /\ "modules" # "fields"
      BY DEF Lasting
    <3> QED BY <1>2, <2>2, <3>3, <3>4, <3>5, SetMade
  <2>5. CASE ~ Reader!Has(counts, at)
    <3>1. u = s
      BY <1>3, <2>1, <2>5 DEF Reader!CountUp
    <3>2. WellMade(s) /\ Grown(s, s)
      BY <1>2, GrownItself
    <3> QED BY <3>1, <3>2
  <2> QED BY <2>4, <2>5
<1>5. Grown(b.tables, u)
  BY <1>2, <1>4, GrownThrough DEF Made
<1>6. u = Reader!PushUnresolvedImport(b.tables, at, text)
  BY <1>1, <1>3 DEF Reader!PushUnresolvedImport
<1>7. PICK c : c = [b EXCEPT !.tables = u]
  BY Zenon
<1>8. Kept(b, c, 0)
  BY <1>4, <1>5, <1>7, ExceptTablesKept
<1>9. c = Reader!NameUnresolved(b, text)
  BY <1>6, <1>7 DEF Reader!NameUnresolved
<1> QED BY <1>8, <1>9

LEMMA ParameterKept ==
  ASSUME NEW b, Made(b), Functions(b) > 0, NEW parameter,
         IsSequence(parameter.declared.wraps)
  PROVE  Kept(b, Reader!DeclareParameter(b, parameter), 0)
<1>1. PICK typed : typed = Reader!Resolve(b, at, parameter.declared)
  OBVIOUS
<1>2. Kept(b, typed, 0) /\ Made(typed)
  BY <1>1, ResolveKept DEF Kept
<1>3. Functions(typed) > 0
  <2>1. Functions(typed) = Functions(b) + 0 /\ Functions(b) \in Nat
    BY <1>2, RowsBuilt DEF Kept
  <2> QED BY <2>1
<1>4. PICK allocator : allocator = Reader!IsAllocator(parameter.declared)
  OBVIOUS
<1>5. PICK t : t = Reader!PushParameter(typed.tables,
                     Reader!Newest(typed.tables, "functions"), parameter.name,
                     typed.type, allocator)
  OBVIOUS
<1>6. WellMade(t) /\ Grown(typed.tables, t)
  BY <1>2, <1>3, <1>5, ParameterMade DEF Made, Functions
<1>7. PICK c : c = [typed EXCEPT !.tables = t]
  BY Zenon
<1>8. Kept(typed, c, 0)
  BY <1>2, <1>6, <1>7, ExceptTablesKept
<1>9. c = Reader!DeclareParameter(b, parameter)
  BY <1>1, <1>4, <1>5, <1>7 DEF Reader!DeclareParameter
<1> QED BY <1>2, <1>8, <1>9, KeptTwice

\* A cell that says nothing of a range.
LEMMA CellKept ==
  ASSUME NEW t, WellMade(t), NEW table \in {"structs", "functions"},
         NEW name \in ToSet(Reader!Columns[table]), <<table, name>> \notin Numbered,
         <<table, name>> \notin Lasting, NEW row \in Nat, NEW value
  PROVE  /\ WellMade(Reader!SetCell(t, table, name, row, value))
         /\ Larger(t, Reader!SetCell(t, table, name, row, value))
         /\ SameDoing(t, Reader!SetCell(t, table, name, row, value))
         /\ <<table, name>> \notin {<<"functions", "line">>, <<"functions", "body">>} =>
              Grown(t, Reader!SetCell(t, table, name, row, value))
<1>1. table \in Reader!Table \ Doing
  BY TheColumns DEF Ranging, Doing
<1>2. table # "fields"
  OBVIOUS
<1> QED BY <1>1, <1>2, SetMade

\* The columns of that kind.
LEMMA OtherCells ==
  /\ "deinit" \in ToSet(Reader!Columns["structs"]) /\ <<"structs", "deinit">> \notin Numbered
  /\ "returns" \in ToSet(Reader!Columns["functions"]) /\ <<"functions", "returns">> \notin Numbered
  /\ "error_set" \in ToSet(Reader!Columns["functions"])
  /\ <<"functions", "error_set">> \notin Numbered
  /\ "body" \in ToSet(Reader!Columns["functions"]) /\ <<"functions", "body">> \notin Numbered
  /\ Lasting \cap { <<"structs", "deinit">>, <<"functions", "returns">>,
                    <<"functions", "error_set">>, <<"functions", "body">> } = {}
<1>1. /\ "deinit" \in ToSet(Reader!Columns["structs"])
      /\ {"returns", "error_set", "body"} \subseteq ToSet(Reader!Columns["functions"])
  BY TheColumns
<1> QED BY <1>1 DEF Numbered, Lasting

LEMMA SignatureKept ==
  ASSUME NEW b, Made(b), NEW function \in Nat, NEW f, IsSequence(f.returns.wraps)
  PROVE  Kept(b, Reader!DeclareSignature(b, function, f), 0)
<1>1. PICK typed : typed = Reader!Resolve(b, at, f.returns)
  OBVIOUS
<1>2. Kept(b, typed, 0) /\ Made(typed)
  BY <1>1, ResolveKept DEF Kept
<1>3. PICK errors : errors = IF f.errors = << >> THEN NoIndex
                             ELSE Reader!LookUp(b.structs, at, f.errors)
  OBVIOUS
<1>4. PICK s : s = Reader!SetCell(typed.tables, "functions", "returns", function, typed.type)
  OBVIOUS
<1>5. WellMade(s) /\ Grown(typed.tables, s)
  BY <1>2, <1>4, OtherCells, CellKept DEF Made
<1>6. PICK t : t = Reader!SetCell(s, "functions", "error_set", function, errors)
  OBVIOUS
<1>7. WellMade(t) /\ Grown(s, t)
  BY <1>5, <1>6, OtherCells, CellKept
<1>8. Grown(typed.tables, t)
  BY <1>2, <1>5, <1>7, GrownThrough DEF Made
<1>9. t = Reader!SetFunctionSignature(typed.tables, function, typed.type, errors)
  BY <1>4, <1>6 DEF Reader!SetFunctionSignature
<1>10. PICK c : c = [typed EXCEPT !.tables = t]
  BY Zenon
<1>11. Kept(typed, c, 0)
  BY <1>2, <1>7, <1>8, <1>10, ExceptTablesKept
<1>12. c = Reader!DeclareSignature(b, function, f)
  BY <1>1, <1>3, <1>9, <1>10 DEF Reader!DeclareSignature
<1> QED BY <1>2, <1>11, <1>12, KeptTwice

\* A function as a file declares it.
IsFunction(f) ==
  /\ IsSequence(f.parameters) /\ IsSequence(f.calls) /\ IsSequence(f.initialisers)
  /\ IsSequence(f.returns.wraps)
  /\ \A parameter \in ToSet(f.parameters) : IsSequence(parameter.declared.wraps)

\* A function that is added is told of as it was read.
LEMMA FunctionTold ==
  ASSUME NEW t, WellMade(t), NEW u, SameDoing(t, u), NEW line,
         Reader!Count(u, "functions") = Reader!Count(t, "functions") + 1,
         u.functions.line = Append(t.functions.line, line),
         u.functions.body = Append(t.functions.body, NoIndex),
         NEW index, NEW modules, Told(t, index, modules),
         Listing(modules)[Reader!Count(t, "functions") + 1].line = line
  PROVE  Told(u, index, modules) /\ BodiesStay(t, u)
<1>1. /\ u.calls = t.calls /\ u.memory_operations = t.memory_operations
      /\ u.expressions = t.expressions
  BY DEF SameDoing, Doing
<1>2. SUFFICES ASSUME NamesApart(modules) PROVE Told(u, index, modules)
  BY <1>1 DEF BodiesStay, Told
<1>3. /\ Reader!Count(u, "calls") = Reader!Count(t, "calls")
      /\ Reader!Count(u, "memory_operations") = Reader!Count(t, "memory_operations")
      /\ Reader!Count(u, "expressions") = Reader!Count(t, "expressions")
  BY <1>1 DEF Reader!Count
<1>4. /\ NamesTold(index, modules) /\ LinesTold(t, modules) /\ BodiesTold(t, modules)
      /\ CallsTold(t, modules) /\ FreesTold(t, modules)
  BY <1>2 DEF Told
<1>5. PICK n, lines, bodies : /\ n = Reader!Count(t, "functions")
                             /\ lines = t.functions.line /\ bodies = t.functions.body
  BY Zenon
<1>6. /\ lines \in Seq(ToSet(lines)) /\ Len(lines) = n
      /\ bodies \in Seq(ToSet(bodies)) /\ Len(bodies) = n /\ n \in Nat
  <2>1. "functions" \in Reader!Table
    BY TheColumns DEF Ranging
  <2> QED BY <1>5, <2>1, TheColumns, RowsAreCounted DEF WellMade, Shaped, AreCells
<1>7. /\ \A i \in 1 .. n : /\ u.functions.line[i] = t.functions.line[i]
                           /\ u.functions.body[i] = t.functions.body[i]
      /\ u.functions.line[n + 1] = line /\ u.functions.body[n + 1] = NoIndex
  BY <1>5, <1>6, RowAtEnd
<1>8. \A i \in 1 .. n + 1 : i \in 1 .. n \/ i = n + 1
  BY <1>6
<1>9. LinesTold(u, modules)
  BY <1>4, <1>5, <1>7, <1>8 DEF LinesTold
<1>10. BodiesTold(u, modules)
  BY <1>1, <1>3, <1>4, <1>5, <1>7, <1>8 DEF BodiesTold
<1>11. CallsTold(u, modules)
  BY <1>1, <1>3, <1>4 DEF CallsTold
<1>12. FreesTold(u, modules)
  BY <1>1, <1>3, <1>4 DEF FreesTold
<1> QED BY <1>4, <1>9, <1>10, <1>11, <1>12 DEF Told

\* Where names are apart, a module has one function of a name.
LEMMA PlaceIsOne ==
  ASSUME NEW modules, NamesApart(modules), NEW m, NEW name, NEW h, NEW k,
         Len(modules) \in Nat,
         IsPlace(modules, m, name, h), IsPlace(modules, m, name, k)
  PROVE  h = k
<1>1. m + 1 \in 1 .. Len(modules)
  BY DEF IsPlace
<1>2. PICK fs : fs = modules[m + 1].functions
  OBVIOUS
<1>3. PICK i \in 1 .. Len(fs), j \in 1 .. Len(fs) :
        /\ fs[i].name = name /\ h = Len(UpTo(modules, m)) + i - 1
        /\ fs[j].name = name /\ k = Len(UpTo(modules, m)) + j - 1
  BY <1>2 DEF IsPlace
<1>4. i = j
  BY <1>1, <1>2, <1>3 DEF NamesApart
<1> QED BY <1>3, <1>4

\* A name is remembered by the function that was read.
LEMMA RememberedIsTold ==
  ASSUME NEW t, NEW index, NEW modules, Told(t, index, modules), Len(modules) \in Nat,
         NEW m, NEW name, NEW handle, IsPlace(modules, m, name, handle),
         DeclaredAs(modules, handle).name = name
  PROVE  Told(t, Reader!Remember(index, m, name, handle), modules)
<1>1. SUFFICES ASSUME NamesApart(modules)
               PROVE  NamesTold(Reader!Remember(index, m, name, handle), modules)
  BY DEF Told
<1>2. PICK next : next = Reader!Remember(index, m, name, handle)
  OBVIOUS
<1>3. /\ next.scoped = Reader!Put(index.scoped, <<m, name>>, handle)
      /\ next.anywhere = Reader!PutIfAbsent(index.anywhere, name, handle)
  BY <1>2 DEF Reader!Remember
<1>4. NamesTold(index, modules)
  BY <1>1 DEF Told
<1>5. /\ DOMAIN next.scoped = DOMAIN index.scoped \cup {<<m, name>>}
      /\ next.scoped[<<m, name>>] = handle
      /\ \A key \in DOMAIN index.scoped \ {<<m, name>>} : next.scoped[key] = index.scoped[key]
  BY <1>3 DEF Reader!Put
<1>6. \A key \in DOMAIN next.scoped : DeclaredAs(modules, next.scoped[key]).name = key[2]
  <2>1. SUFFICES ASSUME NEW key \in DOMAIN next.scoped
                 PROVE  DeclaredAs(modules, next.scoped[key]).name = key[2]
    OBVIOUS
  <2>2. CASE key = <<m, name>>
    BY <1>5, <2>2
  <2>3. CASE key # <<m, name>>
    BY <1>4, <1>5, <2>1, <2>3 DEF NamesTold
  <2> QED BY <2>2, <2>3
<1>7. \A other \in DOMAIN next.anywhere :
        DeclaredAs(modules, next.anywhere[other]).name = other
  <2>1. CASE name \in DOMAIN index.anywhere
    BY <1>3, <1>4, <2>1 DEF NamesTold, Reader!PutIfAbsent
  <2>2. CASE name \notin DOMAIN index.anywhere
    <3>1. /\ DOMAIN next.anywhere = DOMAIN index.anywhere \cup {name}
          /\ next.anywhere[name] = handle
          /\ \A other \in DOMAIN index.anywhere : next.anywhere[other] = index.anywhere[other]
      BY <1>3, <2>2 DEF Reader!PutIfAbsent, Reader!Put
    <3> QED BY <1>4, <3>1 DEF NamesTold
  <2> QED BY <2>1, <2>2
<1>8. ASSUME NEW n, NEW other, NEW h, IsPlace(modules, n, other, h),
             <<n, other>> \in DOMAIN next.scoped
      PROVE  next.scoped[<<n, other>>] = h
  <2>1. CASE <<n, other>> = <<m, name>>
    <3>1. n = m /\ other = name
      BY <2>1
    <3>2. h = handle
      BY <1>1, <1>8, <3>1, PlaceIsOne
    <3> QED BY <1>5, <3>1, <3>2
  <2>2. CASE <<n, other>> # <<m, name>>
    <3>1. <<n, other>> \in DOMAIN index.scoped
      BY <1>5, <1>8, <2>2
    <3> QED BY <1>4, <1>5, <1>8, <2>2, <3>1 DEF NamesTold
  <2> QED BY <2>1, <2>2
<1>9. NamesTold(next, modules)
  BY <1>6, <1>7, <1>8 DEF NamesTold
<1> QED BY <1>2, <1>9

\* A function is the one that its module declares there.
IsNext(b, f) ==
  /\ Len(source.modules) \in Nat
  /\ IsPlace(source.modules, at, f.name, Functions(b))
  /\ DeclaredAs(source.modules, Functions(b)) = f

LEMMA FunctionKept ==
  ASSUME NEW b, Made(b), NEW f, IsFunction(f), IsNext(b, f)
  PROVE  /\ Kept(b, Reader!DeclareFunction(b, f), 1)
         /\ Reader!DeclareFunction(b, f).functions =
              Reader!Remember(b.functions, at, f.name, Functions(b))
<1>1. PICK owner : owner = Reader!LookUp(b.structs, at, f.owner)
  OBVIOUS
<1>2. owner \in Nat
  BY <1>1, HandleIsANumber
<1>3. PICK t : t = Reader!PushFunction(b.tables, f.name, owner, at, f.line)
  OBVIOUS
<1>4. /\ WellMade(t) /\ Reader!Count(t, "structs") = Structs(b)
      /\ Reader!Count(t, "functions") = Functions(b) + 1
      /\ Reader!Count(t, "functions") > 0 /\ SameDoing(b.tables, t)
      /\ Told(t, b.functions, source.modules) /\ BodiesStay(b.tables, t)
      /\ Lasts(b.tables, t) /\ FieldsStay(b.tables, t)
  <2>1. /\ WellMade(t) /\ Reader!Count(t, "structs") = Structs(b)
        /\ Reader!Count(t, "functions") = Functions(b) + 1
        /\ Reader!Count(t, "functions") > 0 /\ SameDoing(b.tables, t)
        /\ Lasts(b.tables, t) /\ FieldsStay(b.tables, t)
        /\ t.functions.line = Append(b.tables.functions.line, f.line)
        /\ t.functions.body = Append(b.tables.functions.body, NoIndex)
    <3>1. WellMade(b.tables)
      BY DEF Made
    <3>2. WithFunction(b.tables, t, f.line)
      BY <1>3, <3>1, FunctionMade
    <3> QED BY <3>2 DEF WithFunction, Structs, Functions
  <2>2. Listing(source.modules)[Functions(b) + 1].line = f.line
    BY DEF IsNext, DeclaredAs
  <2>3. Told(t, b.functions, source.modules) /\ BodiesStay(b.tables, t)
    BY <2>1, <2>2, FunctionTold DEF Made, Functions
  <2> QED BY <2>1, <2>3
<1>5. PICK function : function = Reader!Newest(t, "functions")
  OBVIOUS
<1>6. function = Functions(b) /\ function \in Nat
  BY <1>4, <1>5, RowsBuilt DEF Reader!Newest
<1>7. PICK opened : opened = [b EXCEPT !.tables = t]
  BY Zenon
<1>8. Kept(b, opened, 1) /\ Made(opened) /\ Functions(opened) > 0
      /\ opened.functions = b.functions
  <2>1. DOMAIN opened = Parts /\ opened.structs = b.structs /\ opened.functions = b.functions
        /\ opened.tables = t /\ opened.passed_in = b.passed_in /\ opened.names = b.names
    BY <1>7 DEF Made, Parts
  <2>2. WellMade(opened.tables) /\ Structs(opened) = Structs(b)
        /\ Functions(opened) = Functions(b) + 1 /\ Functions(opened) > 0
    BY <1>4, <2>1 DEF Structs, Functions
  <2>3. Structs(b) =< Structs(opened)
    BY <2>2, RowsBuilt
  <2>4. 1 \in Nat
    OBVIOUS
  <2>5. Attributed(opened.tables, opened.passed_in)
        /\ (Sourced(b.tables) => Sourced(opened.tables))
        /\ Told(opened.tables, opened.functions, source.modules)
        /\ BodiesStay(b.tables, opened.tables)
        /\ Lasts(b.tables, opened.tables) /\ FieldsStay(b.tables, opened.tables)
    BY <1>4, <2>1, SameIsAttributed DEF Made
  <2>6. Kept(b, opened, 1)
    BY <2>1, <2>2, <2>3, <2>4, <2>5, TablesKept
  <2> QED BY <2>1, <2>2, <2>6 DEF Kept
<1>9. PICK passed : passed = Reader!EachParameter(opened, f.parameters)
  OBVIOUS
<1>10. Kept(opened, passed, 0) /\ Made(passed)
  <2>1. PICK xs, n : xs = f.parameters /\ n = Len(xs)
    BY Zenon
  <2>2. n \in Nat /\ DOMAIN xs = 1 .. n /\ \A i \in 1 .. n : xs[i] \in ToSet(xs)
    BY <2>1, InSequence DEF IsFunction
  <2>3. ASSUME NEW i \in 1 .. n, NEW c, Kept(opened, c, 0)
        PROVE  Kept(c, Reader!DeclareParameter(c, xs[i]), 0)
    <3>1. IsSequence(xs[i].declared.wraps)
      BY <2>1, <2>2 DEF IsFunction
    <3>2. Made(c) /\ Functions(opened) \in Nat /\ Functions(c) = Functions(opened) + 0
      BY <1>8, <2>3, RowsBuilt DEF Kept
    <3>3. Functions(c) > 0
      BY <1>8, <3>2
    <3> QED BY <3>1, <3>2, <3>3, ParameterKept
  <2>4. Kept(opened, Reader!EachParameter(opened, xs), 0)
    BY <1>8, <2>2, <2>3, ParametersKeep
  <2> QED BY <1>9, <2>1, <2>4 DEF Kept
<1>11. PICK signed : signed = Reader!DeclareSignature(passed, function, f)
  OBVIOUS
<1>12. Kept(passed, signed, 0) /\ Made(signed)
  <2>1. IsSequence(f.returns.wraps)
    BY DEF IsFunction
  <2>2. Kept(passed, signed, 0)
    BY <1>6, <1>10, <1>11, <2>1, SignatureKept
  <2> QED BY <2>2 DEF Kept
<1>13. PICK u : u = IF f.name = "deinit" /\ owner # NoIndex
                      THEN Reader!SetCell(signed.tables, "structs", "deinit", owner, function)
                      ELSE signed.tables
  OBVIOUS
<1>14. WellMade(u) /\ Grown(signed.tables, u)
  <2>1. WellMade(signed.tables)
    BY <1>12 DEF Made
  <2>2. "structs" \in {"structs", "functions"}
    OBVIOUS
  <2>3. PICK v : v = Reader!SetCell(signed.tables, "structs", "deinit", owner, function)
    OBVIOUS
  <2>4. WellMade(v) /\ Grown(signed.tables, v)
    BY <1>2, <2>1, <2>2, <2>3, OtherCells, CellKept
  <2>5. Grown(signed.tables, signed.tables)
    BY <2>1, GrownItself
  <2> QED BY <1>13, <2>1, <2>3, <2>4, <2>5
<1>15. PICK s : s = [signed EXCEPT !.tables = u]
  BY Zenon
<1>16. Kept(signed, s, 0) /\ Made(s) /\ s.tables = u
  BY <1>12, <1>14, <1>15, ExceptTablesKept DEF Kept
<1>17. Kept(b, s, 1)
  <2>1. Kept(opened, signed, 0)
    BY <1>8, <1>10, <1>12, KeptTwice
  <2>2. Kept(opened, s, 0)
    BY <1>8, <1>16, <2>1, KeptTwice
  <2>3. 1 \in Nat /\ 0 \in Nat /\ 1 + 0 = 1
    OBVIOUS
  <2>4. Kept(b, s, 1 + 0)
    BY <1>8, <2>2, <2>3, KeptThrough
  <2> QED BY <2>3, <2>4
<1>18. PICK d : d = [signed EXCEPT !.tables = u,
                                   !.functions = Reader!Remember(@, at, f.name, function)]
  OBVIOUS
<1>19. d = Reader!DeclareFunction(b, f)
  BY <1>1, <1>3, <1>5, <1>7, <1>9, <1>11, <1>13, <1>18 DEF Reader!DeclareFunction
<1>20. DOMAIN d = Parts /\ d.tables = s.tables /\ d.structs = s.structs
       /\ d.passed_in = s.passed_in /\ d.names = s.names
       /\ d.functions = Reader!Remember(s.functions, at, f.name, function)
       /\ s.functions = b.functions
  <2>1. DOMAIN d = Parts /\ d.tables = s.tables /\ d.structs = s.structs
        /\ d.passed_in = s.passed_in /\ d.names = s.names
        /\ d.functions = Reader!Remember(s.functions, at, f.name, function)
    BY <1>12, <1>15, <1>18 DEF Made, Parts
  <2>2. /\ s.functions = signed.functions /\ signed.functions = passed.functions
        /\ passed.functions = opened.functions
    BY <1>10, <1>12, <1>16 DEF Kept
  <2> QED BY <1>8, <2>1, <2>2
<1>21. Functions(s) = Functions(b) + 1 /\ Functions(s) \in Nat /\ function \in 0 .. Functions(s) - 1
  BY <1>6, <1>17, RowsBuilt DEF Kept
<1>22. Known(d.functions, Functions(s))
  <2>1. Known(s.functions, Functions(s))
    BY <1>16 DEF Made
  <2> QED BY <1>20, <1>21, <2>1, RememberedIsKnown
<1>23. Kept(b, d, 1)
  <2>1. Structs(d) = Structs(s) /\ Functions(d) = Functions(s) /\ Types(d) = Types(s)
    BY <1>20 DEF Structs, Functions, Types
  <2>3. Told(s.tables, s.functions, source.modules)
    BY <1>16 DEF Made
  <2>4. /\ Len(source.modules) \in Nat
        /\ IsPlace(source.modules, at, f.name, function)
        /\ DeclaredAs(source.modules, function).name = f.name
    BY <1>6 DEF IsNext
  <2>5. Told(d.tables, d.functions, source.modules)
    BY <1>20, <2>3, <2>4, RememberedIsTold
  <2>2. Made(d)
    BY <1>16, <1>20, <1>22, <2>1, <2>5 DEF Made
  <2>6. Remembers(b, d)
    BY <1>17, <1>20, <2>1 DEF Kept, Remembers, Home
  <2> QED BY <1>17, <1>20, <2>1, <2>2, <2>6 DEF Kept
<1> QED BY <1>6, <1>19, <1>20, <1>23

\* The tables without ranges, and of which no cell is counted with.
LEMMA OtherTables ==
  /\ {"allocator_sources", "calls", "call_arguments", "memory_operations",
      "field_assignments", "expressions"} \subseteq Reader!Table \ Ranging
  /\ \A table \in {"call_arguments", "memory_operations", "field_assignments",
                   "expressions"} : \A name : <<table, name>> \notin Numbered
  /\ "field_assignments" \notin Doing
BY TheColumns DEF Numbered, Ranging, Doing

\* The columns of what is done.
LEMMA DoingColumns ==
  /\ Doing \subseteq Reader!Table /\ Doing \cap Ranging = {}
  /\ ToSet(Reader!Columns["expressions"]) = {"kind", "line"}
  /\ ToSet(Reader!Columns["allocator_sources"]) = {"kind", "function", "parameter_index"}
  /\ ToSet(Reader!Columns["calls"]) = {"caller", "callee"}
  /\ ToSet(Reader!Columns["call_arguments"]) = {"call", "parameter_index", "source"}
  /\ ToSet(Reader!Columns["memory_operations"]) =
       {"function", "kind", "allocator", "place", "place_field"}
<1>1. Doing \subseteq Reader!Table /\ Doing \cap Ranging = {}
  BY TheColumns DEF Doing, Ranging
<1>6. ToSet(Reader!Columns["expressions"]) = {"kind", "line"}
  BY DEF Reader!Columns, ToSet
<1>2. ToSet(Reader!Columns["allocator_sources"]) = {"kind", "function", "parameter_index"}
  BY DEF Reader!Columns, ToSet
<1>3. ToSet(Reader!Columns["calls"]) = {"caller", "callee"}
  BY DEF Reader!Columns, ToSet
<1>4. ToSet(Reader!Columns["call_arguments"]) = {"call", "parameter_index", "source"}
  BY DEF Reader!Columns, ToSet
<1>5. ToSet(Reader!Columns["memory_operations"]) =
        {"function", "kind", "allocator", "place", "place_field"}
  BY DEF Reader!Columns, ToSet
<1> QED BY <1>1, <1>2, <1>3, <1>4, <1>5, <1>6

\* Sources and arguments say nothing of what functions are and do.
LEMMA PushAside ==
  ASSUME NEW t, WellMade(t), NEW table \in {"allocator_sources", "call_arguments"}, NEW row,
         \A name : <<table, name>> \in Numbered => row[name] \in Nat
  PROVE  Aside(t, Reader!Push(t, table, row))
<1>1. PICK u : u = Reader!Push(t, table, row)
  OBVIOUS
<1>2. table \in Reader!Table
      /\ {"calls", "memory_operations", "expressions", "functions"}
           \subseteq Reader!Table \ {table}
  BY TheColumns DEF Ranging
<1>3. \A other \in Reader!Table \ {table} :
        u[other] = t[other] /\ Reader!Count(u, other) = Reader!Count(t, other)
  BY <1>1, <1>2, PushShapes DEF WellMade
<1>4. /\ u["calls"] = t["calls"] /\ u["memory_operations"] = t["memory_operations"]
      /\ u["expressions"] = t["expressions"] /\ u["functions"] = t["functions"]
      /\ Reader!Count(u, "functions") = Reader!Count(t, "functions")
  BY <1>2, <1>3
<1> QED BY <1>1, <1>4 DEF Aside, SameBodies

\* A call is told of the function that makes it and the one it is of.
LEMMA CallTold ==
  ASSUME NEW t, WellMade(t), NEW row, row.caller \in Nat,
         NEW index, NEW modules, Told(t, index, modules),
         NamesApart(modules) => Makes(DeclaredAs(modules, row.caller),
                                      DeclaredAs(modules, row.callee).name)
  PROVE  LET u == Reader!Push(t, "calls", row)
         IN  Told(u, index, modules) /\ BodiesStay(t, u)
<1>1. PICK u : u = Reader!Push(t, "calls", row)
  OBVIOUS
<1>2. \A name : <<"calls", name>> \in Numbered => row[name] \in Nat
  BY DEF Numbered
<1>3. PICK n : n = Reader!Count(t, "calls")
  OBVIOUS
<1>4. Shaped(t) /\ "calls" \in Reader!Table
      /\ {"memory_operations", "expressions", "functions"} \subseteq Reader!Table \ {"calls"}
  BY TheColumns DEF WellMade, Ranging
<1>5. /\ n \in Nat /\ Reader!Count(u, "calls") = n + 1
      /\ \A name \in ToSet(Reader!Columns["calls"]) :
           /\ \A i \in 1 .. n : u["calls"][name][i] = t["calls"][name][i]
           /\ u["calls"][name][n + 1] = row[name]
      /\ \A other \in Reader!Table \ {"calls"} :
           u[other] = t[other] /\ Reader!Count(u, other) = Reader!Count(t, other)
  BY <1>1, <1>2, <1>3, <1>4, RowPushed
<1>6. /\ \A i \in 1 .. n : /\ u.calls.caller[i] = t.calls.caller[i]
                           /\ u.calls.callee[i] = t.calls.callee[i]
      /\ u.calls.caller[n + 1] = row.caller /\ u.calls.callee[n + 1] = row.callee
  BY <1>5, DoingColumns
<1>7. /\ u["memory_operations"] = t["memory_operations"]
      /\ u["expressions"] = t["expressions"] /\ u["functions"] = t["functions"]
      /\ Reader!Count(u, "memory_operations") = Reader!Count(t, "memory_operations")
      /\ Reader!Count(u, "expressions") = Reader!Count(t, "expressions")
      /\ Reader!Count(u, "functions") = Reader!Count(t, "functions")
  BY <1>4, <1>5
<1>8. SUFFICES ASSUME NamesApart(modules) PROVE Told(u, index, modules)
  BY <1>1, <1>7 DEF BodiesStay, Told
<1>9. /\ NamesTold(index, modules) /\ LinesTold(t, modules) /\ BodiesTold(t, modules)
      /\ CallsTold(t, modules) /\ FreesTold(t, modules)
  BY <1>8 DEF Told
<1>10. LinesTold(u, modules) /\ BodiesTold(u, modules) /\ FreesTold(u, modules)
  BY <1>7, <1>9 DEF LinesTold, BodiesTold, FreesTold
<1>11. CallsTold(u, modules)
  <2>1. SUFFICES ASSUME NEW i \in 1 .. n + 1
                 PROVE  Makes(DeclaredAs(modules, u.calls.caller[i]),
                              DeclaredAs(modules, u.calls.callee[i]).name)
    BY <1>5 DEF CallsTold
  <2>2. CASE i \in 1 .. n
    BY <1>3, <1>6, <1>9, <2>2 DEF CallsTold
  <2>3. CASE i = n + 1
    BY <1>6, <1>8, <2>3
  <2> QED BY <1>5, <2>2, <2>3
<1> QED BY <1>9, <1>10, <1>11 DEF Told

\* What is freed is told of a function that frees.
LEMMA OperationTold ==
  ASSUME NEW t, WellMade(t), NEW function, NEW kind, NEW allocator, NEW field,
         NEW index, NEW modules, Told(t, index, modules),
         NamesApart(modules) /\ kind = "Free" =>
           \E name \in Reader!Freeing : Makes(DeclaredAs(modules, function), name)
  PROVE  LET u == Reader!PushOperation(t, function, kind, allocator, field)
         IN  Told(u, index, modules) /\ BodiesStay(t, u)
<1>1. PICK row : row = [ function |-> function, kind |-> kind, allocator |-> allocator,
                         place |-> "FieldOfParameter", place_field |-> field ]
  BY Zenon
<1>2. PICK u : u = Reader!Push(t, "memory_operations", row)
  OBVIOUS
<1>3. u = Reader!PushOperation(t, function, kind, allocator, field)
  BY <1>1, <1>2 DEF Reader!PushOperation
<1>4. \A name : <<"memory_operations", name>> \in Numbered => row[name] \in Nat
  BY DEF Numbered
<1>5. PICK n : n = Reader!Count(t, "memory_operations")
  OBVIOUS
<1>6. Shaped(t) /\ "memory_operations" \in Reader!Table
      /\ {"calls", "expressions", "functions"}
           \subseteq Reader!Table \ {"memory_operations"}
  BY TheColumns DEF WellMade, Ranging
<1>7. /\ n \in Nat /\ Reader!Count(u, "memory_operations") = n + 1
      /\ \A name \in ToSet(Reader!Columns["memory_operations"]) :
           /\ \A i \in 1 .. n : u["memory_operations"][name][i] = t["memory_operations"][name][i]
           /\ u["memory_operations"][name][n + 1] = row[name]
      /\ \A other \in Reader!Table \ {"memory_operations"} :
           u[other] = t[other] /\ Reader!Count(u, other) = Reader!Count(t, other)
  BY <1>2, <1>4, <1>5, <1>6, RowPushed
<1>8. /\ \A i \in 1 .. n : /\ u.memory_operations.kind[i] = t.memory_operations.kind[i]
                           /\ u.memory_operations.function[i] = t.memory_operations.function[i]
      /\ u.memory_operations.kind[n + 1] = kind
      /\ u.memory_operations.function[n + 1] = function
  BY <1>1, <1>7, DoingColumns
<1>9. /\ u["calls"] = t["calls"]
      /\ u["expressions"] = t["expressions"] /\ u["functions"] = t["functions"]
      /\ Reader!Count(u, "calls") = Reader!Count(t, "calls")
      /\ Reader!Count(u, "expressions") = Reader!Count(t, "expressions")
      /\ Reader!Count(u, "functions") = Reader!Count(t, "functions")
  BY <1>6, <1>7
<1>10. SUFFICES ASSUME NamesApart(modules) PROVE Told(u, index, modules)
  BY <1>3, <1>9 DEF BodiesStay, Told
<1>11. /\ NamesTold(index, modules) /\ LinesTold(t, modules) /\ BodiesTold(t, modules)
       /\ CallsTold(t, modules) /\ FreesTold(t, modules)
  BY <1>10 DEF Told
<1>12. LinesTold(u, modules) /\ BodiesTold(u, modules) /\ CallsTold(u, modules)
  BY <1>9, <1>11 DEF LinesTold, BodiesTold, CallsTold
<1>13. FreesTold(u, modules)
  <2>1. SUFFICES ASSUME NEW i \in 1 .. n + 1, u.memory_operations.kind[i] = "Free"
                 PROVE  \E name \in Reader!Freeing :
                          Makes(DeclaredAs(modules, u.memory_operations.function[i]), name)
    BY <1>7 DEF FreesTold
  <2>2. CASE i \in 1 .. n
    BY <1>5, <1>8, <1>11, <2>1, <2>2 DEF FreesTold
  <2>3. CASE i = n + 1
    BY <1>8, <1>10, <2>1, <2>3
  <2> QED BY <1>7, <2>2, <2>3
<1> QED BY <1>11, <1>12, <1>13 DEF Told

\* A body that is written, as the body of a function, and what that changes.
WithBody(t, row, handle) ==
  LET u == Reader!Push(t, "expressions", row)
  IN  Reader!SetCell(u, "functions", "body", handle, Reader!Newest(u, "expressions"))

Embodies(t, v, handle) ==
  /\ v.allocator_sources = t.allocator_sources /\ v.calls = t.calls
  /\ v.call_arguments = t.call_arguments /\ v.memory_operations = t.memory_operations
  /\ Reader!Count(t, "expressions") \in Nat
  /\ Reader!Count(v, "expressions") = Reader!Count(t, "expressions") + 1
  /\ handle < Reader!Count(t, "functions") =>
       /\ v.functions.body[handle + 1] = Reader!Count(t, "expressions")
       /\ \A i \in 1 .. Reader!Count(t, "functions") :
            i # handle + 1 => v.functions.body[i] = t.functions.body[i]

\* The body of a function is told of the one it was written for, and no other is
\* changed.
LEMMA BodyTold ==
  ASSUME NEW t, WellMade(t), NEW f, f.body, NEW handle \in Nat,
         NEW row, row.line = f.line,
         NEW index, NEW modules, Told(t, index, modules),
         NamesApart(modules) => DeclaredAs(modules, handle) = f
  PROVE  LET v == WithBody(t, row, handle)
         IN  WellMade(v) /\ Larger(t, v) /\ Told(v, index, modules) /\ Embodies(t, v, handle)
<1>21. PICK u : u = Reader!Push(t, "expressions", row)
  OBVIOUS
<1>22. PICK v : v = Reader!SetCell(u, "functions", "body", handle,
                                   Reader!Newest(u, "expressions"))
  OBVIOUS
<1>23. v = WithBody(t, row, handle)
  BY <1>21, <1>22 DEF WithBody
<1>1. \A name : <<"expressions", name>> \notin Numbered
  BY OtherTables, Zenon
<1>2. PICK n, m : n = Reader!Count(t, "expressions") /\ m = Reader!Count(t, "functions")
  BY Zenon
<1>3. /\ Shaped(t) /\ {"expressions", "functions"} \subseteq Reader!Table
      /\ {"allocator_sources", "calls", "call_arguments", "memory_operations", "functions"}
           \subseteq Reader!Table \ {"expressions"}
      /\ {"allocator_sources", "calls", "call_arguments", "memory_operations", "expressions"}
           \subseteq Reader!Table \ {"functions"}
      /\ "expressions" \in Reader!Table \ Ranging
  BY TheColumns DEF WellMade, Ranging
<1>4. /\ n \in Nat /\ Reader!Count(u, "expressions") = n + 1
      /\ \A name \in ToSet(Reader!Columns["expressions"]) :
           /\ \A i \in 1 .. n : u["expressions"][name][i] = t["expressions"][name][i]
           /\ u["expressions"][name][n + 1] = row[name]
      /\ \A other \in Reader!Table \ {"expressions"} :
           u[other] = t[other] /\ Reader!Count(u, other) = Reader!Count(t, other)
  BY <1>1, <1>2, <1>3, <1>21, RowPushed
<1>5. /\ \A i \in 1 .. n : u.expressions.line[i] = t.expressions.line[i]
      /\ u.expressions.line[n + 1] = f.line
  BY <1>4, DoingColumns
<1>6. WellMade(u) /\ Larger(t, u)
  BY <1>1, <1>3, <1>21, PushMade
<1>7. /\ "functions" \in {"structs", "functions"} /\ "body" \in ToSet(Reader!Columns["functions"])
      /\ "line" \in ToSet(Reader!Columns["functions"]) \ {"body"}
      /\ <<"functions", "body">> \notin Numbered /\ <<"functions", "body">> \notin Lasting
  BY TheColumns, OtherCells
<1>8. WellMade(v) /\ Larger(u, v)
  BY <1>6, <1>7, <1>22, CellKept
<1>9. Larger(t, v)
  BY <1>6, <1>8, LargerThrough
<1>10. /\ \A other \in Reader!Table :
            /\ Reader!Count(v, other) = Reader!Count(u, other)
            /\ other # "functions" => v[other] = u[other]
       /\ \A other \in ToSet(Reader!Columns["functions"]) \ {"body"} :
            v["functions"][other] = u["functions"][other]
  BY <1>3, <1>6, <1>7, <1>22, SetShapes DEF WellMade
<1>11. /\ v["allocator_sources"] = t["allocator_sources"] /\ v["calls"] = t["calls"]
       /\ v["call_arguments"] = t["call_arguments"]
       /\ v["memory_operations"] = t["memory_operations"]
       /\ v["expressions"] = u["expressions"] /\ u["functions"] = t["functions"]
       /\ v["functions"]["line"] = t["functions"]["line"]
       /\ Reader!Count(v, "expressions") = n + 1 /\ Reader!Count(v, "functions") = m
       /\ Reader!Count(u, "functions") = m
       /\ Reader!Count(v, "calls") = Reader!Count(t, "calls")
       /\ Reader!Count(v, "memory_operations") = Reader!Count(t, "memory_operations")
  BY <1>2, <1>3, <1>4, <1>7, <1>10
<1>12. PICK bodies : bodies = t.functions.body
  OBVIOUS
<1>13. Len(bodies) = m /\ m \in Nat /\ DOMAIN bodies = 1 .. m
  <2>1. bodies \in Seq(ToSet(bodies)) /\ Len(bodies) = m
    BY <1>2, <1>3, <1>7, <1>12 DEF Shaped, AreCells
  <2> QED BY <2>1, LenProperties
<1>14. Reader!Newest(u, "expressions") = n
  BY <1>4 DEF Reader!Newest
<1>15. ASSUME handle < m
       PROVE  /\ v.functions.body[handle + 1] = n
              /\ \A i \in 1 .. m : i # handle + 1 => v.functions.body[i] = bodies[i]
  <2>1. v["functions"]["body"] = [u["functions"]["body"] EXCEPT ![handle + 1] = n]
    BY <1>3, <1>6, <1>7, <1>11, <1>14, <1>15, <1>22, SetCellIsSet DEF WellMade
  <2>2. v.functions.body = [bodies EXCEPT ![handle + 1] = n]
    BY <1>11, <1>12, <2>1
  <2>3. handle + 1 \in 1 .. m
    BY <1>13, <1>15
  <2> QED BY <1>13, <2>2, <2>3
<1>16. ASSUME ~ handle < m PROVE v.functions.body = bodies
  <2>1. Len(u["functions"]["body"]) = m
    BY <1>11, <1>12, <1>13
  <2>2. ~ Reader!Has(u["functions"]["body"], handle)
    BY <1>13, <1>16, <2>1 DEF Reader!Has
  <2>3. v = u
    BY <1>22, <2>2 DEF Reader!SetCell
  <2> QED BY <1>11, <1>12, <2>3
<1>17. ASSUME NamesApart(modules) PROVE Told(v, index, modules)
  <2>1. /\ NamesTold(index, modules) /\ LinesTold(t, modules) /\ BodiesTold(t, modules)
        /\ CallsTold(t, modules) /\ FreesTold(t, modules)
    BY <1>17 DEF Told
  <2>2. LinesTold(v, modules)
    BY <1>2, <1>11, <2>1 DEF LinesTold
  <2>3. CallsTold(v, modules) /\ FreesTold(v, modules)
    BY <1>11, <2>1 DEF CallsTold, FreesTold
  <2>4. Listing(modules)[handle + 1] = f
    BY <1>17 DEF DeclaredAs
  <2>5. ASSUME NEW i \in 1 .. m, v.functions.body[i] # NoIndex
        PROVE  /\ Listing(modules)[i].body
               /\ v.functions.body[i] + 1 \in 1 .. n + 1
               /\ v.expressions.line[v.functions.body[i] + 1] = Listing(modules)[i].line
    <3>1. CASE handle < m /\ i = handle + 1
      <4>1. v.functions.body[i] = n
        BY <1>15, <3>1
      <4>2. v.expressions.line[n + 1] = f.line
        BY <1>5, <1>11
      <4> QED BY <1>4, <2>4, <3>1, <4>1, <4>2
    <3>2. CASE ~ (handle < m /\ i = handle + 1)
      <4>1. v.functions.body[i] = t.functions.body[i]
        BY <1>12, <1>15, <1>16, <3>2
      <4>2. /\ Listing(modules)[i].body
            /\ t.functions.body[i] + 1 \in 1 .. n
            /\ t.expressions.line[t.functions.body[i] + 1] = Listing(modules)[i].line
        BY <1>2, <2>1, <2>5, <4>1 DEF BodiesTold
      <4>3. v.expressions.line[t.functions.body[i] + 1] =
              t.expressions.line[t.functions.body[i] + 1]
        BY <1>5, <1>11, <4>2
      <4>4. t.functions.body[i] + 1 \in 1 .. n + 1
        BY <1>4, <4>2
      <4> QED BY <4>1, <4>2, <4>3, <4>4
    <3> QED BY <3>1, <3>2
  <2>6. BodiesTold(v, modules)
    BY <1>11, <2>5 DEF BodiesTold
  <2> QED BY <2>1, <2>2, <2>3, <2>6 DEF Told
<1>18. Told(v, index, modules)
  BY <1>17 DEF Told
<1>19. handle < m =>
         /\ v.functions.body[handle + 1] = n
         /\ \A i \in 1 .. m : i # handle + 1 => v.functions.body[i] = t.functions.body[i]
  BY <1>12, <1>15
<1>20. Embodies(t, v, handle)
  BY <1>2, <1>4, <1>11, <1>19 DEF Embodies
<1> QED BY <1>8, <1>9, <1>18, <1>20, <1>23

LEMMA SourceAttributed ==
  ASSUME NEW t, WellMade(t), NEW kind, NEW function \in Nat, NEW index \in Nat,
         kind = "Parameter" => Sourced(t), NEW passed, Attributed(t, passed)
  PROVE  LET u == Reader!PushSource(t, kind, function, index)
         IN  /\ Attributed(u, passed)
             /\ Reader!Count(t, "allocator_sources") \in Nat
             /\ Reader!Count(u, "allocator_sources") = Reader!Count(t, "allocator_sources") + 1
             /\ BelongsTo(u, Reader!Newest(u, "allocator_sources"), function)
<1>1. PICK row : row = [kind |-> kind, function |-> function, parameter_index |-> index]
  BY Zenon
<1>2. PICK u : u = Reader!Push(t, "allocator_sources", row)
  OBVIOUS
<1>3. u = Reader!PushSource(t, kind, function, index)
  BY <1>1, <1>2 DEF Reader!PushSource
<1>4. \A name : <<"allocator_sources", name>> \in Numbered => row[name] \in Nat
  BY <1>1 DEF Numbered
<1>5. PICK n : n = Reader!Count(t, "allocator_sources")
  OBVIOUS
<1>6. Shaped(t) /\ "allocator_sources" \in Reader!Table
  BY DoingColumns DEF WellMade, Doing
<1>7. /\ n \in Nat /\ Reader!Count(u, "allocator_sources") = n + 1
      /\ \A name \in ToSet(Reader!Columns["allocator_sources"]) :
           /\ \A i \in 1 .. n : u["allocator_sources"][name][i] = t["allocator_sources"][name][i]
           /\ u["allocator_sources"][name][n + 1] = row[name]
      /\ \A other \in Reader!Table \ {"allocator_sources"} :
           u[other] = t[other] /\ Reader!Count(u, other) = Reader!Count(t, other)
  BY <1>2, <1>4, <1>5, <1>6, RowPushed
<1>8. /\ \A i \in 1 .. n : /\ u.allocator_sources.kind[i] = t.allocator_sources.kind[i]
                           /\ u.allocator_sources.function[i] = t.allocator_sources.function[i]
      /\ u.allocator_sources.kind[n + 1] = kind /\ u.allocator_sources.function[n + 1] = function
  BY <1>1, <1>7, DoingColumns
<1>9. ASSUME NEW from, NEW f, BelongsTo(t, from, f) PROVE BelongsTo(u, from, f)
  <2>1. from \in 0 .. n - 1 => from \in 0 .. (n + 1) - 1 /\ from + 1 \in 1 .. n
    BY <1>7
  <2> QED BY <1>5, <1>7, <1>8, <1>9, <2>1 DEF BelongsTo
<1>10. Fixed(u)
  <2>1. SUFFICES ASSUME NEW i \in 1 .. 3, i =< n + 1 PROVE u.allocator_sources.kind[i] # "Parameter"
    BY <1>7 DEF Fixed
  <2>2. CASE i =< n
    BY <1>5, <1>7, <1>8, <2>2 DEF Attributed, Fixed
  <2>3. CASE i = n + 1
    BY <1>5, <1>7, <1>8, <2>3 DEF Sourced
  <2> QED BY <1>7, <2>1, <2>2, <2>3
<1>11. /\ u.calls = t.calls /\ u.call_arguments = t.call_arguments
       /\ u.memory_operations = t.memory_operations
       /\ Reader!Count(u, "calls") = Reader!Count(t, "calls")
       /\ Reader!Count(u, "call_arguments") = Reader!Count(t, "call_arguments")
       /\ Reader!Count(u, "memory_operations") = Reader!Count(t, "memory_operations")
  BY <1>7, DoingColumns DEF Doing
<1>12. PassesBelong(u, passed)
  BY <1>9 DEF Attributed, PassesBelong
<1>13. ArgumentsBelong(u)
  BY <1>9, <1>11 DEF Attributed, ArgumentsBelong
<1>14. OperationsBelong(u)
  BY <1>9, <1>11 DEF Attributed, OperationsBelong
<1>15. Attributed(u, passed)
  BY <1>10, <1>12, <1>13, <1>14 DEF Attributed
<1>16. BelongsTo(u, Reader!Newest(u, "allocator_sources"), function)
  <2>1. Reader!Newest(u, "allocator_sources") = n /\ n \in 0 .. (n + 1) - 1
    BY <1>7 DEF Reader!Newest
  <2> QED BY <1>7, <1>8, <2>1 DEF BelongsTo
<1> QED BY <1>3, <1>5, <1>7, <1>15, <1>16

LEMMA CallAttributed ==
  ASSUME NEW t, WellMade(t), NEW row, row.caller \in Nat, NEW passed, Attributed(t, passed)
  PROVE  LET u == Reader!Push(t, "calls", row)
         IN  /\ Attributed(u, passed) /\ (Sourced(t) => Sourced(u))
             /\ Reader!Count(u, "calls") \in Nat \ {0}
             /\ u.calls.caller[Reader!Count(u, "calls")] = row.caller
<1>1. PICK u : u = Reader!Push(t, "calls", row)
  OBVIOUS
<1>2. \A name : <<"calls", name>> \in Numbered => row[name] \in Nat
  BY DEF Numbered
<1>3. PICK n : n = Reader!Count(t, "calls")
  OBVIOUS
<1>4. Shaped(t) /\ "calls" \in Reader!Table
  BY DoingColumns DEF WellMade, Doing
<1>5. /\ n \in Nat /\ Reader!Count(u, "calls") = n + 1
      /\ \A name \in ToSet(Reader!Columns["calls"]) :
           /\ \A i \in 1 .. n : u["calls"][name][i] = t["calls"][name][i]
           /\ u["calls"][name][n + 1] = row[name]
      /\ \A other \in Reader!Table \ {"calls"} :
           u[other] = t[other] /\ Reader!Count(u, other) = Reader!Count(t, other)
  BY <1>1, <1>2, <1>3, <1>4, RowPushed
<1>6. /\ \A i \in 1 .. n : u.calls.caller[i] = t.calls.caller[i]
      /\ u.calls.caller[n + 1] = row.caller
  BY <1>5, DoingColumns
<1>7. /\ u.allocator_sources = t.allocator_sources /\ u.call_arguments = t.call_arguments
      /\ u.memory_operations = t.memory_operations
      /\ Reader!Count(u, "allocator_sources") = Reader!Count(t, "allocator_sources")
      /\ Reader!Count(u, "call_arguments") = Reader!Count(t, "call_arguments")
      /\ Reader!Count(u, "memory_operations") = Reader!Count(t, "memory_operations")
  BY <1>5, DoingColumns DEF Doing
<1>8. \A from, f : BelongsTo(u, from, f) <=> BelongsTo(t, from, f)
  BY <1>7 DEF BelongsTo
<1>9. Fixed(u) /\ PassesBelong(u, passed) /\ OperationsBelong(u)
  BY <1>7, <1>8 DEF Attributed, Fixed, PassesBelong, OperationsBelong
<1>10. ArgumentsBelong(u)
  <2>1. SUFFICES ASSUME NEW i \in 1 .. Reader!Count(t, "call_arguments")
                 PROVE  /\ t.call_arguments.call[i] \in 0 .. (n + 1) - 1
                        /\ BelongsTo(t, t.call_arguments.source[i],
                                     u.calls.caller[t.call_arguments.call[i] + 1])
    BY <1>5, <1>7, <1>8 DEF ArgumentsBelong
  <2>2. /\ t.call_arguments.call[i] \in 0 .. n - 1
        /\ BelongsTo(t, t.call_arguments.source[i], t.calls.caller[t.call_arguments.call[i] + 1])
    BY <1>3 DEF Attributed, ArgumentsBelong
  <2>3. t.call_arguments.call[i] + 1 \in 1 .. n /\ t.call_arguments.call[i] \in 0 .. (n + 1) - 1
    BY <1>5, <2>2
  <2> QED BY <1>6, <2>2, <2>3
<1>11. Attributed(u, passed) /\ (Sourced(t) => Sourced(u))
  BY <1>7, <1>9, <1>10 DEF Attributed, Sourced
<1>12. Reader!Count(u, "calls") \in Nat \ {0}
       /\ u.calls.caller[Reader!Count(u, "calls")] = row.caller
  BY <1>5, <1>6
<1> QED BY <1>1, <1>11, <1>12

LEMMA ArgumentAttributed ==
  ASSUME NEW t, WellMade(t), NEW row, Reader!Count(t, "calls") \in Nat \ {0},
         row.call = Reader!Newest(t, "calls"),
         BelongsTo(t, row.source, t.calls.caller[Reader!Count(t, "calls")]),
         NEW passed, Attributed(t, passed)
  PROVE  LET u == Reader!Push(t, "call_arguments", row)
         IN  Attributed(u, passed) /\ (Sourced(t) => Sourced(u)) /\ u.calls = t.calls
<1>1. PICK u : u = Reader!Push(t, "call_arguments", row)
  OBVIOUS
<1>2. \A name : <<"call_arguments", name>> \in Numbered => row[name] \in Nat
  BY DEF Numbered
<1>3. PICK n : n = Reader!Count(t, "call_arguments")
  OBVIOUS
<1>4. Shaped(t) /\ "call_arguments" \in Reader!Table
  BY DoingColumns DEF WellMade, Doing
<1>5. /\ n \in Nat /\ Reader!Count(u, "call_arguments") = n + 1
      /\ \A name \in ToSet(Reader!Columns["call_arguments"]) :
           /\ \A i \in 1 .. n : u["call_arguments"][name][i] = t["call_arguments"][name][i]
           /\ u["call_arguments"][name][n + 1] = row[name]
      /\ \A other \in Reader!Table \ {"call_arguments"} :
           u[other] = t[other] /\ Reader!Count(u, other) = Reader!Count(t, other)
  BY <1>1, <1>2, <1>3, <1>4, RowPushed
<1>6. /\ \A i \in 1 .. n : /\ u.call_arguments.call[i] = t.call_arguments.call[i]
                           /\ u.call_arguments.source[i] = t.call_arguments.source[i]
      /\ u.call_arguments.call[n + 1] = row.call
      /\ u.call_arguments.source[n + 1] = row.source
  BY <1>5, DoingColumns
<1>7. /\ u.allocator_sources = t.allocator_sources /\ u.calls = t.calls
      /\ u.memory_operations = t.memory_operations
      /\ Reader!Count(u, "allocator_sources") = Reader!Count(t, "allocator_sources")
      /\ Reader!Count(u, "calls") = Reader!Count(t, "calls")
      /\ Reader!Count(u, "memory_operations") = Reader!Count(t, "memory_operations")
  BY <1>5, DoingColumns DEF Doing
<1>8. \A from, f : BelongsTo(u, from, f) <=> BelongsTo(t, from, f)
  BY <1>7 DEF BelongsTo
<1>9. Fixed(u) /\ PassesBelong(u, passed) /\ OperationsBelong(u)
  BY <1>7, <1>8 DEF Attributed, Fixed, PassesBelong, OperationsBelong
<1>10. ArgumentsBelong(u)
  <2>1. SUFFICES ASSUME NEW i \in 1 .. n + 1
                 PROVE  /\ u.call_arguments.call[i] \in 0 .. Reader!Count(t, "calls") - 1
                        /\ BelongsTo(t, u.call_arguments.source[i],
                                     t.calls.caller[u.call_arguments.call[i] + 1])
    BY <1>5, <1>7, <1>8 DEF ArgumentsBelong
  <2>2. CASE i \in 1 .. n
    BY <1>3, <1>6, <2>2 DEF Attributed, ArgumentsBelong
  <2>3. CASE i = n + 1
    <3>1. row.call \in 0 .. Reader!Count(t, "calls") - 1 /\ row.call + 1 = Reader!Count(t, "calls")
      BY DEF Reader!Newest
    <3> QED BY <1>6, <2>3, <3>1
  <2> QED BY <1>5, <2>2, <2>3
<1>11. Attributed(u, passed) /\ (Sourced(t) => Sourced(u))
  BY <1>7, <1>9, <1>10 DEF Attributed, Sourced
<1> QED BY <1>1, <1>7, <1>11

LEMMA OperationAttributed ==
  ASSUME NEW t, WellMade(t), NEW function, NEW kind, NEW allocator, NEW field,
         BelongsTo(t, allocator, function), NEW passed, Attributed(t, passed)
  PROVE  LET u == Reader!PushOperation(t, function, kind, allocator, field)
         IN  Attributed(u, passed) /\ (Sourced(t) => Sourced(u))
<1>1. PICK row : row = [ function |-> function, kind |-> kind, allocator |-> allocator,
                         place |-> "FieldOfParameter", place_field |-> field ]
  BY Zenon
<1>2. PICK u : u = Reader!Push(t, "memory_operations", row)
  OBVIOUS
<1>3. u = Reader!PushOperation(t, function, kind, allocator, field)
  BY <1>1, <1>2 DEF Reader!PushOperation
<1>4. \A name : <<"memory_operations", name>> \in Numbered => row[name] \in Nat
  BY DEF Numbered
<1>5. PICK n : n = Reader!Count(t, "memory_operations")
  OBVIOUS
<1>6. Shaped(t) /\ "memory_operations" \in Reader!Table
  BY DoingColumns DEF WellMade, Doing
<1>7. /\ n \in Nat /\ Reader!Count(u, "memory_operations") = n + 1
      /\ \A name \in ToSet(Reader!Columns["memory_operations"]) :
           /\ \A i \in 1 .. n : u["memory_operations"][name][i] = t["memory_operations"][name][i]
           /\ u["memory_operations"][name][n + 1] = row[name]
      /\ \A other \in Reader!Table \ {"memory_operations"} :
           u[other] = t[other] /\ Reader!Count(u, other) = Reader!Count(t, other)
  BY <1>2, <1>4, <1>5, <1>6, RowPushed
<1>8. /\ \A i \in 1 .. n : /\ u.memory_operations.allocator[i] = t.memory_operations.allocator[i]
                           /\ u.memory_operations.function[i] = t.memory_operations.function[i]
      /\ u.memory_operations.allocator[n + 1] = allocator
      /\ u.memory_operations.function[n + 1] = function
  BY <1>1, <1>7, DoingColumns
<1>9. /\ u.allocator_sources = t.allocator_sources /\ u.calls = t.calls
      /\ u.call_arguments = t.call_arguments
      /\ Reader!Count(u, "allocator_sources") = Reader!Count(t, "allocator_sources")
      /\ Reader!Count(u, "calls") = Reader!Count(t, "calls")
      /\ Reader!Count(u, "call_arguments") = Reader!Count(t, "call_arguments")
  BY <1>7, DoingColumns DEF Doing
<1>10. \A from, f : BelongsTo(u, from, f) <=> BelongsTo(t, from, f)
  BY <1>9 DEF BelongsTo
<1>11. Fixed(u) /\ PassesBelong(u, passed) /\ ArgumentsBelong(u)
  BY <1>9, <1>10 DEF Attributed, Fixed, PassesBelong, ArgumentsBelong
<1>12. OperationsBelong(u)
  <2>1. SUFFICES ASSUME NEW i \in 1 .. n + 1
                 PROVE  BelongsTo(t, u.memory_operations.allocator[i], u.memory_operations.function[i])
    BY <1>7, <1>10 DEF OperationsBelong
  <2>2. CASE i \in 1 .. n
    BY <1>5, <1>8, <2>2 DEF Attributed, OperationsBelong
  <2>3. CASE i = n + 1
    BY <1>8, <2>3
  <2> QED BY <1>7, <2>2, <2>3
<1>13. Attributed(u, passed) /\ (Sourced(t) => Sourced(u))
  BY <1>9, <1>11, <1>12 DEF Attributed, Sourced
<1> QED BY <1>3, <1>13

LEMMA HandleOfIsANumber ==
  ASSUME NEW b, Made(b), NEW f
  PROVE  Reader!HandleOf(b, f) \in Nat
BY HandleIsANumber DEF Reader!HandleOf

LEMMA SourceIsPushed ==
  ASSUME NEW t, WellMade(t), NEW kind, NEW function \in Nat, NEW index \in Nat
  PROVE  /\ WellMade(Reader!PushSource(t, kind, function, index))
         /\ Larger(t, Reader!PushSource(t, kind, function, index))
         /\ Aside(t, Reader!PushSource(t, kind, function, index))
<1>1. PICK row : row = [kind |-> kind, function |-> function, parameter_index |-> index]
  BY Zenon
<1>2. \A name : <<"allocator_sources", name>> \in Numbered => row[name] \in Nat
  BY <1>1 DEF Numbered
<1>3. "allocator_sources" \in Reader!Table \ Ranging
  BY OtherTables
<1>4. PICK u : u = Reader!Push(t, "allocator_sources", row)
  OBVIOUS
<1>5. WellMade(u) /\ Larger(t, u) /\ Aside(t, u)
  BY <1>2, <1>3, <1>4, PushMade, PushAside
<1>6. u = Reader!PushSource(t, kind, function, index)
  BY <1>1, <1>4 DEF Reader!PushSource
<1> QED BY <1>5, <1>6

\* The sources there always are, and that they are of no function.
LEMMA FixedAreMade ==
  ASSUME NEW t, WellMade(t), NEW passed, Attributed(t, passed)
  PROVE  /\ WellMade(Reader!PushFixed(t)) /\ Larger(t, Reader!PushFixed(t))
         /\ Attributed(Reader!PushFixed(t), passed) /\ Sourced(Reader!PushFixed(t))
         /\ Aside(t, Reader!PushFixed(t))
<1>1. PICK u : u = Reader!PushSource(t, "Global", NoIndex, NoIndex)
  OBVIOUS
<1>2. PICK v : v = Reader!PushSource(u, "Arena", NoIndex, NoIndex)
  OBVIOUS
<1>3. PICK w : w = Reader!PushSource(v, "Unknown", NoIndex, NoIndex)
  OBVIOUS
<1>4. "Global" # "Parameter" /\ "Arena" # "Parameter" /\ "Unknown" # "Parameter"
  OBVIOUS
<1>5. /\ WellMade(u) /\ Larger(t, u) /\ Aside(t, u) /\ Attributed(u, passed)
      /\ Reader!Count(t, "allocator_sources") \in Nat
      /\ Reader!Count(u, "allocator_sources") = Reader!Count(t, "allocator_sources") + 1
  BY <1>1, <1>4, SourceIsPushed, SourceAttributed, NoRowIsANumber
<1>6. /\ WellMade(v) /\ Larger(u, v) /\ Aside(u, v) /\ Attributed(v, passed)
      /\ Reader!Count(v, "allocator_sources") = Reader!Count(u, "allocator_sources") + 1
  BY <1>2, <1>4, <1>5, SourceIsPushed, SourceAttributed, NoRowIsANumber
<1>7. /\ WellMade(w) /\ Larger(v, w) /\ Aside(v, w) /\ Attributed(w, passed)
      /\ Reader!Count(w, "allocator_sources") = Reader!Count(v, "allocator_sources") + 1
  BY <1>3, <1>4, <1>6, SourceIsPushed, SourceAttributed, NoRowIsANumber
<1>8. Larger(t, w)
  BY <1>5, <1>6, <1>7, LargerThrough
<1>9. w = Reader!PushFixed(t)
  BY <1>1, <1>2, <1>3 DEF Reader!PushFixed
<1>10. Sourced(w)
  BY <1>5, <1>6, <1>7 DEF Sourced
<1>11. Aside(t, w)
  BY <1>5, <1>6, <1>7 DEF Aside, SameBodies
<1> QED BY <1>7, <1>8, <1>9, <1>10, <1>11

\* The positions of a sequence, in order.
LEMMA InPositions ==
  ASSUME NEW s, IsSequence(s)
  PROVE  /\ Len(s) \in Nat /\ DOMAIN Reader!Positions(s) = 1 .. Len(s)
         /\ \A i \in 1 .. Len(s) : Reader!Positions(s)[i] = i /\ s[i] \in ToSet(s)
BY InSequence DEF Reader!Positions

LEMMA SourceKept ==
  ASSUME NEW b, Made(b), Sourced(b.tables), NEW f, NEW i \in Nat \ {0}
  PROVE  Kept(b, Reader!DeclareSource(f, b, i), 0)
<1>1. PICK t : t = Reader!PushSource(b.tables, "Parameter", Reader!HandleOf(b, f), i - 1)
  OBVIOUS
<1>2. i - 1 \in Nat /\ Reader!HandleOf(b, f) \in Nat
  BY HandleOfIsANumber
<1>3. /\ WellMade(t) /\ Larger(b.tables, t)
      /\ Told(t, b.functions, source.modules) /\ BodiesStay(b.tables, t)
  <2>1. WellMade(t) /\ Larger(b.tables, t) /\ Aside(b.tables, t)
    BY <1>1, <1>2, SourceIsPushed DEF Made
  <2> QED BY <2>1, AsideIsTold DEF Made
<1>4. PICK n : n = Reader!Newest(t, "allocator_sources")
  OBVIOUS
<1>5. /\ Attributed(t, b.passed_in) /\ BelongsTo(t, n, Reader!HandleOf(b, f))
      /\ Sourced(t) /\ n \in Nat
  <2>1. /\ Attributed(t, b.passed_in)
        /\ Reader!Count(b.tables, "allocator_sources") \in Nat
        /\ Reader!Count(t, "allocator_sources") =
             Reader!Count(b.tables, "allocator_sources") + 1
        /\ BelongsTo(t, n, Reader!HandleOf(b, f))
    BY <1>1, <1>2, <1>4, SourceAttributed DEF Made
  <2>2. Sourced(t) /\ n \in Nat
    BY <1>4, <2>1 DEF Sourced, Reader!Newest
  <2> QED BY <2>1, <2>2
<1>6. PICK entry : entry = [ function |-> Reader!HandleOf(b, f), index |-> i - 1, source |-> n ]
  BY Zenon
<1>7. PICK passed : passed = Append(b.passed_in, entry)
  OBVIOUS
<1>8. Attributed(t, passed)
  <2>1. entry \in Passes
    BY <1>2, <1>5, <1>6 DEF Passes
  <2>2. b.passed_in \in Seq(Passes)
    BY <1>5 DEF Attributed
  <2>3. /\ passed \in Seq(Passes) /\ Len(passed) = Len(b.passed_in) + 1
        /\ Len(b.passed_in) \in Nat
        /\ \A j \in 1 .. Len(b.passed_in) : passed[j] = b.passed_in[j]
        /\ passed[Len(b.passed_in) + 1] = entry
    BY <1>7, <2>1, <2>2, AppendProperties, LenProperties
  <2>4. ASSUME NEW j \in 1 .. Len(passed)
        PROVE  BelongsTo(t, passed[j].source, passed[j].function)
    <3>1. CASE j \in 1 .. Len(b.passed_in)
      BY <1>5, <2>3, <3>1 DEF Attributed, PassesBelong
    <3>2. CASE j = Len(b.passed_in) + 1
      BY <1>5, <1>6, <2>3, <3>2
    <3> QED BY <2>3, <3>1, <3>2
  <2>5. PassesBelong(t, passed)
    BY <2>4 DEF PassesBelong
  <2> QED BY <1>5, <2>3, <2>5 DEF Attributed
<1>9. PICK c : c = [b EXCEPT !.tables = t, !.passed_in = passed]
  OBVIOUS
<1>10. Kept(b, c, 0)
  <2>1. DOMAIN c = Parts /\ c.names = b.names /\ c.structs = b.structs
        /\ c.functions = b.functions /\ c.tables = t
        /\ c.passed_in = passed
    BY <1>9 DEF Made, Parts
  <2>2. WellMade(c.tables) /\ Larger(b.tables, c.tables) /\ Attributed(c.tables, c.passed_in)
        /\ Sourced(c.tables)
        /\ Told(c.tables, c.functions, source.modules) /\ BodiesStay(b.tables, c.tables)
    BY <1>3, <1>5, <1>8, <2>1
  <2> QED BY <2>1, <2>2, LargerKept
<1>11. Kept(b, b, 0)
  BY KeptAsItIs
<1>12. Reader!DeclareSource(f, b, i) = c \/ Reader!DeclareSource(f, b, i) = b
  BY <1>1, <1>4, <1>6, <1>7, <1>9 DEF Reader!DeclareSource
<1> QED BY <1>10, <1>11, <1>12

LEMMA SourcesOfKept ==
  ASSUME NEW b, Made(b), Sourced(b.tables), NEW f, IsFunction(f)
  PROVE  Kept(b, Reader!DeclareSourcesOf(b, f), 0)
<1>1. PICK xs, n : xs = Reader!Positions(f.parameters) /\ n = Len(f.parameters)
  BY Zenon
<1>2. n \in Nat /\ DOMAIN xs = 1 .. n /\ \A i \in 1 .. n : xs[i] = i
  BY <1>1, InPositions DEF IsFunction
<1>3. \A i \in 1 .. n : \A c : Kept(b, c, 0) => Kept(c, Reader!DeclareSource(f, c, xs[i]), 0)
  <2> TAKE i \in 1 .. n
  <2>1. xs[i] = i /\ i \in Nat \ {0}
    BY <1>2
  <2> QED BY <2>1, SourceKept DEF Kept
<1>4. xs = Reader!Positions(f.parameters) => Kept(b, Reader!DeclareSourcesOf(b, f), 0)
  BY <1>2, <1>3, SourcesKeep
<1> QED BY <1>1, <1>4

\* What an allocator is found to be is a source of the function that uses it.
LEMMA ClassifiedBelongs ==
  ASSUME NEW b, Made(b), NEW f, NEW function, NEW text
  PROVE  BelongsTo(b.tables, Reader!ClassifyAllocator(b, f, function, text), function)
<1>1. PICK passed : passed = Reader!SourcesPassed(b, f, function, text)
  OBVIOUS
<1>2. ASSUME NEW handle \in passed PROVE BelongsTo(b.tables, handle, function)
  <2>1. PICK first_ : first_ = { j \in DOMAIN b.passed_in :
                                 /\ b.passed_in[j].function = function
                                 /\ \E i \in DOMAIN f.parameters :
                                      /\ <<f.parameters[i].name>> = text
                                      /\ b.passed_in[j].index = i - 1 }
    BY Zenon
  <2>2. PICK j \in Reader!Earliest(first_) : handle = b.passed_in[j].source
    <3>1. passed = { b.passed_in[j].source : j \in Reader!Earliest(first_) }
      BY <1>1, <2>1, Zenon DEF Reader!SourcesPassed
    <3> QED BY <1>2, <3>1
  <2>3. j \in DOMAIN b.passed_in /\ b.passed_in[j].function = function
    BY <2>1, <2>2 DEF Reader!Earliest
  <2>4. j \in 1 .. Len(b.passed_in)
    <3>1. b.passed_in \in Seq(Passes)
      BY DEF Made, Attributed
    <3> QED BY <2>3, <3>1, LenProperties
  <2> QED BY <2>2, <2>3, <2>4 DEF Made, Attributed, PassesBelong
<1>3. \A from \in 0 .. 2 : BelongsTo(b.tables, from, function)
  BY DEF BelongsTo
<1>4. passed # {} => (CHOOSE handle \in passed : TRUE) \in passed
  OBVIOUS
<1>5. Reader!ClassifyAllocator(b, f, function, text) \in 0 .. 2
      \/ /\ passed # {}
         /\ Reader!ClassifyAllocator(b, f, function, text) = CHOOSE handle \in passed : TRUE
  <2>1. CASE Reader!IsGlobal(text)
    BY <2>1 DEF Reader!ClassifyAllocator, Reader!GlobalSource
  <2>2. CASE ~ Reader!IsGlobal(text)
    <3>1. CASE Len(text) > 1 /\ Reader!Last(text) = "allocator()"
               /\ Reader!IsArena(Reader!ThroughLocals(f, Reader!Front(text)))
      BY <2>2, <3>1 DEF Reader!ClassifyAllocator, Reader!ArenaSource
    <3>2. CASE ~ (Len(text) > 1 /\ Reader!Last(text) = "allocator()"
                  /\ Reader!IsArena(Reader!ThroughLocals(f, Reader!Front(text))))
      BY <1>1, <2>2, <3>2
      DEF Reader!ClassifyAllocator, Reader!GlobalSource, Reader!ArenaSource,
          Reader!UnknownSource
    <3> QED BY <3>1, <3>2
  <2> QED BY <2>1, <2>2
<1> QED BY <1>2, <1>3, <1>4, <1>5

\* The last call is one that the function makes.
Calling(b, f) ==
  /\ Reader!Count(b.tables, "calls") \in Nat \ {0}
  /\ b.tables.calls.caller[Reader!Count(b.tables, "calls")] = Reader!HandleOf(b, f)

LEMMA PassKept ==
  ASSUME NEW b, Made(b), NEW f, Calling(b, f), NEW call, NEW target, NEW i
  PROVE  /\ Kept(b, Reader!PassAllocator(f, call, target, b, i), 0)
         /\ Reader!PassAllocator(f, call, target, b, i).tables.calls = b.tables.calls
<1>1. PICK from : from = Reader!ClassifyAllocator(b, f, Reader!HandleOf(b, f),
                           CHOOSE text \in Reader!Argument(call, target, i) : TRUE)
  OBVIOUS
<1>2. PICK row : row = [ call            |-> Reader!Newest(b.tables, "calls"),
                         parameter_index |-> i - 1,
                         source          |-> from ]
  BY Zenon
<1>3. PICK t : t = Reader!Push(b.tables, "call_arguments", row)
  OBVIOUS
<1>4. /\ WellMade(t) /\ Larger(b.tables, t)
      /\ Told(t, b.functions, source.modules) /\ BodiesStay(b.tables, t)
  <2>1. WellMade(t) /\ Larger(b.tables, t)
    BY <1>3, OtherTables, PushMade DEF Made
  <2>2. Aside(b.tables, t)
    BY <1>3, OtherTables, PushAside DEF Made
  <2> QED BY <2>1, <2>2, AsideIsTold DEF Made
<1>5. Attributed(t, b.passed_in) /\ (Sourced(b.tables) => Sourced(t)) /\ t.calls = b.tables.calls
  <2>1. BelongsTo(b.tables, row.source, b.tables.calls.caller[Reader!Count(b.tables, "calls")])
    BY <1>1, <1>2, ClassifiedBelongs DEF Calling
  <2>2. row.call = Reader!Newest(b.tables, "calls")
    BY <1>2
  <2> QED BY <1>3, <2>1, <2>2, ArgumentAttributed DEF Made, Calling
<1>6. PICK c : c = [b EXCEPT !.tables = t]
  BY Zenon
<1>7. Kept(b, c, 0) /\ c.tables.calls = b.tables.calls
  <2>1. DOMAIN c = Parts /\ c.names = b.names /\ c.structs = b.structs
        /\ c.functions = b.functions /\ c.tables = t
        /\ c.passed_in = b.passed_in
    BY <1>6 DEF Made, Parts
  <2>2. WellMade(c.tables) /\ Larger(b.tables, c.tables) /\ Attributed(c.tables, c.passed_in)
        /\ (Sourced(b.tables) => Sourced(c.tables)) /\ c.tables.calls = b.tables.calls
        /\ Told(c.tables, c.functions, source.modules) /\ BodiesStay(b.tables, c.tables)
    BY <1>4, <1>5, <2>1
  <2> QED BY <2>1, <2>2, LargerKept
<1>8. Kept(b, b, 0)
  BY KeptAsItIs
<1>9. Reader!PassAllocator(f, call, target, b, i) = c \/ Reader!PassAllocator(f, call, target, b, i) = b
  BY <1>1, <1>2, <1>3, <1>6 DEF Reader!PassAllocator
<1> QED BY <1>7, <1>8, <1>9

\* Whoever made the last call passes every argument of it.
LEMMA PassesKept ==
  ASSUME NEW b, Made(b), NEW f, Calling(b, f), NEW call, NEW target, IsFunction(target)
  PROVE  Kept(b, Reader!PassAllocators(f, call, target, b), 0)
<1>1. PICK xs, n : xs = Reader!Positions(target.parameters) /\ n = Len(target.parameters)
  BY Zenon
<1>2. n \in Nat /\ DOMAIN xs = 1 .. n
  BY <1>1, InPositions DEF IsFunction
<1>3. PICK after : /\ after[0] = b
                   /\ \A i \in 1 .. n :
                        after[i] = Reader!PassAllocator(f, call, target, after[i - 1], xs[i])
                   /\ after[n] = Reader!PassAllocators(f, call, target, b)
  BY <1>1, <1>2, AllocatorsTurn
<1> DEFINE So == { i \in Nat : i =< n => /\ Kept(b, after[i], 0)
                                        /\ after[i].tables.calls = b.tables.calls }
<1>4. 0 \in So
  BY <1>3, KeptAsItIs
<1>5. ASSUME NEW i \in Nat, i \in So PROVE i + 1 \in So
  <2>1. SUFFICES ASSUME i + 1 =< n
                 PROVE  /\ Kept(b, after[i + 1], 0)
                        /\ after[i + 1].tables.calls = b.tables.calls
    OBVIOUS
  <2>2. i + 1 \in 1 .. n /\ (i + 1) - 1 = i /\ i =< n
    BY <1>2, <1>5, <2>1
  <2>3. PICK c : c = after[i]
    OBVIOUS
  <2>4. Kept(b, c, 0) /\ c.tables.calls = b.tables.calls
    BY <1>5, <2>2, <2>3
  <2>5. after[i + 1] = Reader!PassAllocator(f, call, target, c, xs[i + 1])
    BY <1>3, <2>2, <2>3
  <2>6. Made(c) /\ c.functions = b.functions
    BY <2>4 DEF Kept
  <2>7. Calling(c, f)
    BY <2>4, <2>6 DEF Calling, Reader!HandleOf, Reader!Count
  <2>8. Kept(c, after[i + 1], 0) /\ after[i + 1].tables.calls = c.tables.calls
    BY <2>5, <2>6, <2>7, PassKept
  <2> QED BY <2>4, <2>8, KeptTwice
<1> HIDE DEF So
<1>6. n \in So
  BY <1>2, <1>4, <1>5, CountingUp
<1> QED BY <1>2, <1>3, <1>6 DEF So

\* What a text is looked up as has the name that the text says.
LEMMA LookedUpTold ==
  ASSUME NEW index, NEW modules, NamesTold(index, modules), NEW m, NEW text,
         Reader!LookUp(index, m, text) # NoIndex
  PROVE  DeclaredAs(modules, Reader!LookUp(index, m, text)).name = Reader!Last(text)
<1>1. PICK here : here = { <<module, Reader!Last(text)>> : module \in Reader!Qualified(m, text) }
                           \cap DOMAIN index.scoped
  BY Zenon
<1>2. CASE here # {}
  <2>1. PICK key : key = CHOOSE k \in here : TRUE
    OBVIOUS
  <2>2. key \in here
    BY <1>2, <2>1
  <2>3. key \in DOMAIN index.scoped /\ key[2] = Reader!Last(text)
    BY <1>1, <2>2
  <2>4. Reader!LookUp(index, m, text) = index.scoped[key]
    BY <1>1, <1>2, <2>1 DEF Reader!LookUp
  <2> QED BY <2>3, <2>4 DEF NamesTold
<1>3. CASE here = {}
  <2>1. Reader!LookUp(index, m, text) =
          IF Reader!Last(text) \in DOMAIN index.anywhere THEN index.anywhere[Reader!Last(text)] ELSE NoIndex
    BY <1>1, <1>3 DEF Reader!LookUp
  <2> QED BY <2>1 DEF NamesTold
<1> QED BY <1>2, <1>3

\* A function is looked up as the one that its module declares.
Located(b, f) ==
  NamesApart(source.modules) => DeclaredAs(source.modules, Reader!HandleOf(b, f)) = f

LEMMA HandleOfIs ==
  ASSUME NEW b, NamesTold(b.functions, source.modules), NEW f, NEW handle,
         IsPlace(source.modules, at, f.name, handle),
         <<at, f.name>> \in DOMAIN b.functions.scoped
  PROVE  Reader!HandleOf(b, f) = handle
<1>1. PICK text : text = <<f.name>>
  OBVIOUS
<1>2. Len(text) = 1 /\ Reader!Last(text) = f.name
  BY <1>1 DEF Reader!Last
<1>3. Reader!Qualified(at, text) = {at}
  BY <1>2 DEF Reader!Qualified
<1>4. PICK here : here = { <<module, Reader!Last(text)>> : module \in Reader!Qualified(at, text) }
                           \cap DOMAIN b.functions.scoped
  BY Zenon
<1>5. here = {<<at, f.name>>}
  BY <1>2, <1>3, <1>4
<1>6. Reader!LookUp(b.functions, at, text) = b.functions.scoped[CHOOSE key \in here : TRUE]
  BY <1>4, <1>5 DEF Reader!LookUp
<1>7. (CHOOSE key \in here : TRUE) = <<at, f.name>>
  BY <1>5
<1>8. b.functions.scoped[<<at, f.name>>] = handle
  BY DEF NamesTold
<1> QED BY <1>1, <1>6, <1>7, <1>8 DEF Reader!HandleOf

\* The functions there are are those that were declared.
Catalogued(n) == \A i \in 1 .. n : IsFunction(Reader!AllFunctions[i])

LEMMA CallKept ==
  ASSUME NEW b, Made(b), Catalogued(Functions(b)), NEW f, Located(b, f),
         NEW call, \E j \in DOMAIN f.calls : call = f.calls[j]
  PROVE  Kept(b, Reader!DeclareCall(f, b, call), 0)
<1>1. PICK callee : callee = Reader!LookUp(b.functions, at, call.callee)
  OBVIOUS
<1>2. CASE callee = NoIndex
  <2>1. Reader!DeclareCall(f, b, call) = b
    BY <1>1, <1>2 DEF Reader!DeclareCall
  <2> QED BY <2>1, KeptAsItIs
<1>3. CASE callee # NoIndex
  <2>1. callee \in 0 .. Functions(b) - 1 /\ Functions(b) \in Nat
    BY <1>1, <1>3, HandleIsANumber, RowsBuilt
  <2>2. callee + 1 \in 1 .. Functions(b) /\ callee \in Nat
    BY <2>1
  <2>3. PICK target : target = Reader!AllFunctions[callee + 1]
    OBVIOUS
  <2>4. IsFunction(target)
    BY <2>2, <2>3 DEF Catalogued
  <2>5. PICK row : row = [caller |-> Reader!HandleOf(b, f), callee |-> callee]
    BY Zenon
  <2>6. \A name : <<"calls", name>> \in Numbered => row[name] \in Nat
    BY <2>5, HandleOfIsANumber DEF Numbered
  <2>7. PICK t : t = Reader!Push(b.tables, "calls", row)
    OBVIOUS
  <2>8. WellMade(t) /\ Larger(b.tables, t)
    BY <2>6, <2>7, OtherTables, PushMade DEF Made
  <2>9. row.caller = Reader!HandleOf(b, f) /\ row.caller \in Nat
    BY <2>5, HandleOfIsANumber
  <2>10. /\ Attributed(t, b.passed_in) /\ (Sourced(b.tables) => Sourced(t))
         /\ Reader!Count(t, "calls") \in Nat \ {0}
         /\ t.calls.caller[Reader!Count(t, "calls")] = row.caller
    BY <2>7, <2>9, CallAttributed DEF Made
  <2>18. Told(t, b.functions, source.modules) /\ BodiesStay(b.tables, t)
    <3>1. ASSUME NamesApart(source.modules)
          PROVE  Makes(DeclaredAs(source.modules, row.caller),
                       DeclaredAs(source.modules, row.callee).name)
      <4>1. NamesTold(b.functions, source.modules)
        BY <3>1 DEF Made, Told
      <4>2. DeclaredAs(source.modules, callee).name = Reader!Last(call.callee)
        BY <1>1, <1>3, <4>1, LookedUpTold
      <4>3. DeclaredAs(source.modules, row.caller) = f
        BY <2>9, <3>1 DEF Located
      <4>4. row.callee = callee
        BY <2>5
      <4> QED BY <4>2, <4>3, <4>4 DEF Makes
    <3> QED BY <2>7, <2>9, <3>1, CallTold DEF Made
  <2>11. PICK called : called = [b EXCEPT !.tables = t]
    BY Zenon
  <2>12. DOMAIN called = Parts /\ called.structs = b.structs /\ called.functions = b.functions
         /\ called.tables = t /\ called.passed_in = b.passed_in /\ called.names = b.names
    BY <2>11 DEF Made, Parts
  <2>13. Kept(b, called, 0) /\ Made(called)
    <3>1. WellMade(called.tables) /\ Larger(b.tables, called.tables)
          /\ Attributed(called.tables, called.passed_in)
          /\ (Sourced(b.tables) => Sourced(called.tables))
          /\ Told(called.tables, called.functions, source.modules)
          /\ BodiesStay(b.tables, called.tables)
      BY <2>8, <2>10, <2>12, <2>18
    <3>2. Kept(b, called, 0)
      BY <2>12, <3>1, LargerKept
    <3> QED BY <3>2 DEF Kept
  <2>14. Calling(called, f)
    BY <2>9, <2>10, <2>12 DEF Calling, Reader!HandleOf
  <2>15. Kept(called, Reader!PassAllocators(f, call, target, called), 0)
    BY <2>4, <2>13, <2>14, PassesKept
  <2>16. Kept(b, Reader!PassAllocators(f, call, target, called), 0)
    BY <2>13, <2>15, KeptTwice
  <2>17. Reader!DeclareCall(f, b, call) = Reader!PassAllocators(f, call, target, called)
    BY <1>1, <1>3, <2>3, <2>5, <2>7, <2>11 DEF Reader!DeclareCall
  <2> QED BY <2>16, <2>17
<1> QED BY <1>2, <1>3

\* As long as no function is added, one is looked up as it was.
LEMMA LocatedYet ==
  ASSUME NEW b, NEW c, Kept(b, c, 0), NEW f, Located(b, f)
  PROVE  Located(c, f)
BY DEF Kept, Located, Reader!HandleOf

LEMMA CallsOfKept ==
  ASSUME NEW b, Made(b), Catalogued(Functions(b)), NEW f, IsFunction(f), Located(b, f)
  PROVE  Kept(b, Reader!DeclareCallsOf(b, f), 0)
<1>1. PICK xs, n : xs = f.calls /\ n = Len(xs)
  BY Zenon
<1>2. n \in Nat /\ DOMAIN xs = 1 .. n
  BY <1>1, InSequence DEF IsFunction
<1>3. ASSUME NEW i \in 1 .. n, NEW c, Kept(b, c, 0)
      PROVE  Kept(c, Reader!DeclareCall(f, c, xs[i]), 0)
  <2>1. Made(c) /\ Functions(c) = Functions(b)
    BY <1>3, RowsBuilt DEF Kept
  <2>2. Catalogued(Functions(c))
    BY <2>1
  <2>3. Located(c, f) /\ i \in DOMAIN f.calls
    BY <1>1, <1>2, <1>3, LocatedYet
  <2> QED BY <1>1, <2>1, <2>2, <2>3, CallKept
<1>4. xs = f.calls => Kept(b, Reader!DeclareCallsOf(b, f), 0)
  BY <1>2, <1>3, CallsKeep
<1> QED BY <1>1, <1>4

LEMMA OperationKept ==
  ASSUME NEW t, WellMade(t), NEW function, NEW kind, NEW allocator, NEW field
  PROVE  /\ WellMade(Reader!PushOperation(t, function, kind, allocator, field))
         /\ Larger(t, Reader!PushOperation(t, function, kind, allocator, field))
BY OtherTables, PushMade DEF Reader!PushOperation

LEMMA AssignmentKept ==
  ASSUME NEW t, WellMade(t), NEW field, NEW function, NEW from, NEW operation
  PROVE  /\ WellMade(Reader!PushAssignment(t, field, function, from, operation))
         /\ Grown(t, Reader!PushAssignment(t, field, function, from, operation))
BY OtherTables, PushMade DEF Reader!PushAssignment

LEMMA InitialiserKept ==
  ASSUME NEW b, Made(b), NEW f, NEW i
  PROVE  Kept(b, Reader!DeclareInitialiser(f, b, i), 0)
<1>1. PICK function : function = Reader!HandleOf(b, f)
  OBVIOUS
<1>2. PICK owner : owner = Reader!OwnersOfInitialisers(f)[i]
  OBVIOUS
<1>3. PICK field : field = Reader!FieldOf(b, CHOOSE name \in owner : TRUE,
                                          f.initialisers[i].field)
  BY Zenon
<1>4. PICK value : value = f.initialisers[i].value
  OBVIOUS
<1>5. PICK resolved : resolved = Reader!ThroughLocals(f, value)
  OBVIOUS
<1>6. PICK allocator : allocator =
        Reader!ClassifyAllocator(b, f, function, Reader!Front(resolved))
  OBVIOUS
<1>7. PICK allocated : allocated =
        Reader!PushOperation(b.tables, function, "Allocate", allocator, field)
  OBVIOUS
<1>8. PICK from : from = IF \E j \in DOMAIN f.parameters : <<f.parameters[j].name>> = value
                           THEN "Parameter"
                         ELSE IF value \in Reader!Literals THEN "StaticLiteral" ELSE "Unknown"
  OBVIOUS
<1>9. PICK t : t = Reader!PushAssignment(allocated, field, function, "Allocation",
                     Reader!Newest(allocated, "memory_operations"))
  OBVIOUS
<1>10. PICK u : u = Reader!PushAssignment(b.tables, field, function, from, NoIndex)
  OBVIOUS
<1>11. /\ WellMade(t) /\ Larger(b.tables, t) /\ Attributed(t, b.passed_in)
       /\ (Sourced(b.tables) => Sourced(t))
       /\ Told(t, b.functions, source.modules) /\ BodiesStay(b.tables, t)
  <2>1. WellMade(allocated) /\ Larger(b.tables, allocated)
    BY <1>7, OperationKept DEF Made
  <2>2. WellMade(t) /\ Grown(allocated, t)
    BY <1>9, <2>1, AssignmentKept
  <2>3. Larger(b.tables, t)
    BY <2>1, <2>2, LargerThrough DEF Made, Grown
  <2>4. Attributed(allocated, b.passed_in) /\ (Sourced(b.tables) => Sourced(allocated))
    BY <1>6, <1>7, ClassifiedBelongs, OperationAttributed DEF Made
  <2>5. Attributed(t, b.passed_in) /\ (Sourced(allocated) => Sourced(t))
    BY <2>2, <2>4, SameIsAttributed DEF Grown
  <2>6. Told(allocated, b.functions, source.modules) /\ BodiesStay(b.tables, allocated)
    BY <1>7, OperationTold DEF Made
  <2>7. Told(t, b.functions, source.modules) /\ BodiesStay(allocated, t)
    BY <2>2, <2>6, GrownIsAside, AsideIsTold
  <2>8. BodiesStay(b.tables, t)
    BY <2>6, <2>7 DEF BodiesStay
  <2> QED BY <2>2, <2>3, <2>4, <2>5, <2>7, <2>8
<1>12. WellMade(u) /\ Grown(b.tables, u)
  BY <1>10, AssignmentKept DEF Made
<1>13. PICK c, d : c = [b EXCEPT !.tables = t] /\ d = [b EXCEPT !.tables = u]
  BY Zenon
<1>14. Kept(b, c, 0) /\ Kept(b, d, 0) /\ Kept(b, b, 0)
  BY <1>11, <1>12, <1>13, ExceptTablesKept, ExceptTablesStay, KeptAsItIs
<1>15. Reader!DeclareInitialiser(f, b, i) \in {b, c, d}
  BY <1>1, <1>2, <1>3, <1>4, <1>5, <1>6, <1>7, <1>8, <1>9, <1>10, <1>13
  DEF Reader!DeclareInitialiser
<1> QED BY <1>14, <1>15

LEMMA FreeKept ==
  ASSUME NEW b, Made(b), NEW f, Located(b, f),
         NEW call, \E j \in DOMAIN f.calls : call = f.calls[j]
  PROVE  Kept(b, Reader!DeclareFree(f, b, call), 0)
<1>1. PICK function : function = Reader!HandleOf(b, f)
  OBVIOUS
<1>2. PICK kind : kind = IF Reader!Last(call.callee) \in Reader!Freeing THEN "Free" ELSE "Resize"
  OBVIOUS
<1>3. PICK field : field = Reader!FreedField(b, f, call.arguments[1])
  OBVIOUS
<1>4. PICK allocator : allocator =
        Reader!ClassifyAllocator(b, f, function, Reader!Front(call.callee))
  OBVIOUS
<1>5. PICK t : t = Reader!PushOperation(b.tables, function, kind, allocator, field)
  OBVIOUS
<1>6. /\ WellMade(t) /\ Larger(b.tables, t) /\ Attributed(t, b.passed_in)
      /\ (Sourced(b.tables) => Sourced(t))
      /\ Told(t, b.functions, source.modules) /\ BodiesStay(b.tables, t)
  <2>1. WellMade(t) /\ Larger(b.tables, t)
    BY <1>5, OperationKept DEF Made
  <2>2. Attributed(t, b.passed_in) /\ (Sourced(b.tables) => Sourced(t))
    BY <1>4, <1>5, ClassifiedBelongs, OperationAttributed DEF Made
  <2>3. ASSUME NamesApart(source.modules), kind = "Free"
        PROVE  \E name \in Reader!Freeing : Makes(DeclaredAs(source.modules, function), name)
    <3>1. DeclaredAs(source.modules, function) = f
      BY <1>1, <2>3 DEF Located
    <3>2. Reader!Last(call.callee) \in Reader!Freeing
      BY <1>2, <2>3
    <3> QED BY <3>1, <3>2 DEF Makes
  <2>4. Told(t, b.functions, source.modules) /\ BodiesStay(b.tables, t)
    BY <1>5, <2>3, OperationTold DEF Made
  <2> QED BY <2>1, <2>2, <2>4
<1>7. PICK c : c = [b EXCEPT !.tables = t]
  BY Zenon
<1>8. Kept(b, c, 0) /\ Kept(b, b, 0)
  BY <1>6, <1>7, ExceptTablesStay, KeptAsItIs
<1>9. Reader!DeclareFree(f, b, call) \in {b, c}
  BY <1>1, <1>2, <1>3, <1>4, <1>5, <1>7 DEF Reader!DeclareFree
<1> QED BY <1>8, <1>9

LEMMA MemoryOfKept ==
  ASSUME NEW b, Made(b), NEW f, IsFunction(f), Located(b, f)
  PROVE  Kept(b, Reader!DeclareMemoryOf(b, f), 0)
<1>1. Kept(b, Reader!DeclareInitialisersOf(b, f), 0)
  <2>1. PICK xs, n : xs = Reader!Positions(f.initialisers) /\ n = Len(f.initialisers)
    BY Zenon
  <2>2. n \in Nat /\ DOMAIN xs = 1 .. n
    BY <2>1, InPositions DEF IsFunction
  <2>3. \A i \in 1 .. n : \A c :
          Kept(b, c, 0) => Kept(c, Reader!DeclareInitialiser(f, c, xs[i]), 0)
    BY InitialiserKept DEF Kept
  <2>4. xs = Reader!Positions(f.initialisers) =>
          Kept(b, Reader!DeclareInitialisersOf(b, f), 0)
    BY <2>2, <2>3, InitialisersKeep
  <2> QED BY <2>1, <2>4
<1>2. PICK c : c = Reader!DeclareInitialisersOf(b, f)
  OBVIOUS
<1>3. Made(Reader!DeclareInitialisersOf(b, f))
  BY <1>1 DEF Kept
<1>4. Kept(Reader!DeclareInitialisersOf(b, f), Reader!DeclareMemoryOf(b, f), 0)
  <2>1. PICK xs, n : xs = f.calls /\ n = Len(xs)
    BY Zenon
  <2>2. n \in Nat /\ DOMAIN xs = 1 .. n
    BY <2>1, InSequence DEF IsFunction
  <2>3. ASSUME NEW i \in 1 .. n, NEW d, Kept(Reader!DeclareInitialisersOf(b, f), d, 0)
        PROVE  Kept(d, Reader!DeclareFree(f, d, xs[i]), 0)
    <3>1. Made(d) /\ Located(d, f)
      BY <1>1, <2>3, LocatedYet DEF Kept
    <3> QED BY <2>1, <2>2, <3>1, FreeKept
  <2>4. xs = f.calls =>
          Kept(Reader!DeclareInitialisersOf(b, f), Reader!DeclareMemoryOf(b, f), 0)
    BY <1>3, <2>2, <2>3, FreesKeep
  <2> QED BY <2>1, <2>4
<1>5. Kept(b, c, 0) /\ Kept(c, Reader!DeclareMemoryOf(b, f), 0)
  BY <1>1, <1>2, <1>4
<1> QED BY <1>5, KeptTwice

\* A function that has a body is given it, and is the only one that is.
BodyIsGiven(b, c, f) ==
  LET n == Reader!Count(b.tables, "expressions")
  IN  /\ n \in Nat
      /\ ~ f.body => c.tables = b.tables
      /\ f.body =>
           /\ Reader!Count(c.tables, "expressions") = n + 1
           /\ \A handle \in 0 .. Functions(b) - 1 :
                Reader!HandleOf(b, f) = handle =>
                  /\ c.tables.functions.body[handle + 1] = n
                  /\ \A i \in 1 .. Functions(b) :
                       i # handle + 1 =>
                         c.tables.functions.body[i] = b.tables.functions.body[i]

LEMMA BodyKept ==
  ASSUME NEW b, Made(b), NEW f, Located(b, f), reading = "bodies"
  PROVE  /\ Kept(b, Reader!DeclareBody(b, f), 0)
         /\ BodyIsGiven(b, Reader!DeclareBody(b, f), f)
<1>1. CASE ~ f.body
  <2>1. Reader!DeclareBody(b, f) = b
    BY <1>1 DEF Reader!DeclareBody
  <2>2. Reader!Count(b.tables, "expressions") \in Nat
    BY TheColumns, RowsAreCounted DEF Made, WellMade
  <2> QED BY <1>1, <2>1, <2>2, KeptAsItIs DEF BodyIsGiven
<1>2. CASE f.body
  <2>1. PICK handle : handle = Reader!HandleOf(b, f)
    OBVIOUS
  <2>2. PICK row : row = [kind |-> "Block", line |-> f.line]
    OBVIOUS
  <2>5. handle \in Nat /\ row.line = f.line
    BY <2>1, <2>2, HandleOfIsANumber
  <2>6. NamesApart(source.modules) => DeclaredAs(source.modules, handle) = f
    BY <2>1 DEF Located
  <2>7. PICK u : u = WithBody(b.tables, row, handle)
    OBVIOUS
  <2>8. /\ WellMade(u) /\ Larger(b.tables, u) /\ Told(u, b.functions, source.modules)
        /\ Embodies(b.tables, u, handle)
    BY <1>2, <2>5, <2>6, <2>7, BodyTold DEF Made
  <2>9. /\ Attributed(u, b.passed_in) /\ (Sourced(b.tables) => Sourced(u))
        /\ BodiesStay(b.tables, u)
    BY <2>8, DoneIsAttributed DEF Made, BodiesStay, Embodies
  <2>10. PICK c : c = [b EXCEPT !.tables = u]
    BY Zenon
  <2>11. Kept(b, c, 0) /\ c.tables = u
    BY <2>8, <2>9, <2>10, ExceptTablesStay
  <2>12. Reader!DeclareBody(b, f) = c
    BY <1>2, <2>1, <2>2, <2>7, <2>10 DEF Reader!DeclareBody, WithBody
  <2>13. BodyIsGiven(b, c, f)
    <3>1. ASSUME NEW h \in 0 .. Functions(b) - 1, Reader!HandleOf(b, f) = h
          PROVE  /\ c.tables.functions.body[h + 1] = Reader!Count(b.tables, "expressions")
                 /\ \A i \in 1 .. Functions(b) :
                      i # h + 1 => c.tables.functions.body[i] = b.tables.functions.body[i]
      <4>1. Functions(b) \in Nat
        BY RowsBuilt
      <4>2. h = handle /\ handle < Functions(b)
        BY <2>1, <3>1, <4>1
      <4> QED BY <2>8, <2>11, <4>2 DEF Embodies, Functions
    <3> QED BY <1>2, <2>8, <2>11, <3>1 DEF BodyIsGiven, Embodies
  <2> QED BY <2>11, <2>12, <2>13
<1> QED BY <1>1, <1>2

-----------------------------------------------------------------------------
(* What there is before anything is declared.                              *)

\* The empty tables, with the row of the top level.
LEMMA EmptyIsMade ==
  /\ WellMade(Reader!EmptyTables)
  /\ Reader!Count(Reader!EmptyTables, "structs") = 0
  /\ Reader!Count(Reader!EmptyTables, "functions") = 0
  /\ \A table \in Doing : Reader!Count(Reader!EmptyTables, table) = 0
  /\ \A table \in Reader!Table \ {"modules"} : Reader!Count(Reader!EmptyTables, table) = 0
<1>1. PICK none : none = [table \in Reader!Table |->
                            [column_ \in Reader!ToSet(Reader!Columns[table]) |-> << >>]]
  BY Zenon
<1>0. \A s : Reader!ToSet(s) = ToSet(s)
  BY DEF Reader!ToSet, ToSet
<1>2. DOMAIN none = Reader!Table
      /\ \A table \in Reader!Table : none[table] = [column_ \in ToSet(Reader!Columns[table]) |-> << >>]
  BY <1>0, <1>1
<1>3. /\ \A table \in Reader!Table : DOMAIN none[table] = ToSet(Reader!Columns[table])
      /\ \A table \in Reader!Table : \A name \in ToSet(Reader!Columns[table]) :
           none[table][name] = << >>
  BY <1>2
<1>4. << >> \in Seq(ToSet(<< >>)) /\ << >> \in Seq(Nat) /\ Len(<< >>) = 0
  OBVIOUS
<1>5. \A table \in Reader!Table : Reader!Count(none, table) = 0
  BY <1>3, <1>4, CountedByColumn DEF Reader!Count
<1>6. Shaped(none)
  BY <1>2, <1>3, <1>4, <1>5, Zenon DEF Shaped, AreCells
<1>7. Tile(<< >>, << >>, << >>)
  BY <1>4 DEF Tile
<1>8. WellMade(none)
  <2>1. /\ none["structs"]["field_start"] = << >> /\ none["structs"]["field_count"] = << >>
        /\ none["fields"]["owner"] = << >> /\ none["functions"]["parameter_start"] = << >>
        /\ none["functions"]["parameter_count"] = << >>
        /\ none["parameters"]["owner"] = << >>
    <3>1. {"structs", "fields", "functions", "parameters"} \subseteq Reader!Table
      BY TheColumns DEF Ranging
    <3> QED BY <1>3, <3>1, TheColumns
  <2> QED BY <1>6, <1>7, <2>1 DEF WellMade
<1>9. PICK row : row = [ name |-> NoIndex, path |-> NoIndex,
                         unresolved_start |-> 0, unresolved_count |-> 0 ]
  BY Zenon
<1>10. \A name : <<"modules", name>> \in Numbered => row[name] \in Nat
  BY <1>9 DEF Numbered
<1>11. "modules" \in Reader!Table \ Ranging /\ "structs" \in Reader!Table \ {"modules"}
       /\ "functions" \in Reader!Table \ {"modules"}
  BY TheColumns DEF Ranging
<1>12. PICK t : t = Reader!Push(none, "modules", row)
  OBVIOUS
<1>13. WellMade(t)
  BY <1>8, <1>10, <1>11, <1>12, PushMade
<1>14. \A other \in Reader!Table \ {"modules"} : Reader!Count(t, other) = 0
  BY <1>5, <1>6, <1>10, <1>11, <1>12, PushShapes
<1>15. t = Reader!EmptyTables
  BY <1>1, <1>9, <1>12 DEF Reader!EmptyTables
<1>16. Doing \subseteq Reader!Table \ {"modules"}
  BY DoingColumns DEF Doing
<1> QED BY <1>11, <1>13, <1>14, <1>15, <1>16

\* Nothing is told of nothing.
LEMMA NothingTold ==
  ASSUME NEW modules
  PROVE  Told(Reader!EmptyTables, Reader!EmptyIndex, modules)
<1>1. PICK t, index : t = Reader!EmptyTables /\ index = Reader!EmptyIndex
  BY Zenon
<1>2. /\ Reader!Count(t, "functions") = 0 /\ Reader!Count(t, "calls") = 0
      /\ Reader!Count(t, "memory_operations") = 0
  BY <1>1, EmptyIsMade DEF Doing
<1>3. LinesTold(t, modules) /\ BodiesTold(t, modules)
  BY <1>2 DEF LinesTold, BodiesTold
<1>4. CallsTold(t, modules) /\ FreesTold(t, modules)
  BY <1>2 DEF CallsTold, FreesTold
<1>5. DOMAIN index.scoped = {} /\ DOMAIN index.anywhere = {}
  BY <1>1 DEF Reader!EmptyIndex
<1>6. NamesTold(index, modules)
  BY <1>5 DEF NamesTold
<1> QED BY <1>1, <1>3, <1>4, <1>6 DEF Told

LEMMA NothingIsMade ==
  ASSUME NEW given, given.kind = "Project"
  PROVE  LET b == Reader!NothingBuilt(given)
         IN  /\ DOMAIN b = Parts /\ WellMade(b.tables)
             /\ Known(b.names, Types(b)) /\ b.names = Reader!EmptyIndex
             /\ Known(b.structs, Structs(b)) /\ Known(b.functions, Functions(b))
             /\ \A table \in Reader!Table \ {"modules"} : Reader!Count(b.tables, table) = 0
             /\ Attributed(b.tables, b.passed_in)
             /\ \A modules : Told(b.tables, b.functions, modules)
             /\ Functions(b) = 0 /\ Reader!Count(b.tables, "expressions") = 0
<1>1. PICK b : b = Reader!NothingBuilt(given)
  OBVIOUS
<1>2. DOMAIN b = Parts /\ b.tables = Reader!EmptyTables
      /\ b.structs = Reader!EmptyIndex /\ b.functions = Reader!EmptyIndex
      /\ b.names = Reader!EmptyIndex /\ b.passed_in = << >>
  BY <1>1 DEF Reader!NothingBuilt, Parts
<1>3. \A n : Known(Reader!EmptyIndex, n)
  BY DEF Known, IsMap, Reader!EmptyIndex
<1>4. Functions(b) = 0 /\ Reader!Count(b.tables, "expressions") = 0
  BY <1>2, EmptyIsMade DEF Functions, Doing
<1>5. Attributed(b.tables, b.passed_in)
  <2>1. /\ Reader!Count(b.tables, "allocator_sources") = 0
        /\ Reader!Count(b.tables, "call_arguments") = 0
        /\ Reader!Count(b.tables, "memory_operations") = 0
    BY <1>2, EmptyIsMade DEF Doing
  <2>2. << >> \in Seq(Passes) /\ Len(<< >>) = 0
    OBVIOUS
  <2>3. PassesBelong(b.tables, b.passed_in)
    BY <1>2, <2>2 DEF PassesBelong
  <2> QED BY <1>2, <2>1, <2>2, <2>3 DEF Attributed, Fixed, ArgumentsBelong, OperationsBelong
<1>6. \A modules : Told(b.tables, b.functions, modules)
  BY <1>2, NothingTold
<1>7. WellMade(b.tables) /\ Known(b.names, Types(b)) /\ Known(b.structs, Structs(b)) /\ Known(b.functions, Functions(b))
  BY <1>2, <1>3, EmptyIsMade
<1>8. \A table \in Reader!Table \ {"modules"} : Reader!Count(b.tables, table) = 0
  BY <1>2, EmptyIsMade
<1> QED BY <1>1, <1>2, <1>4, <1>5, <1>6, <1>7, <1>8

-----------------------------------------------------------------------------
(* Modules and artifacts.                                                  *)

LEMMA ModuleMade ==
  ASSUME NEW t, WellMade(t), NEW name, NEW path
  PROVE  /\ WellMade(Reader!DeclareModule(t, name, path))
         /\ Grown(t, Reader!DeclareModule(t, name, path))
<1>1. PICK named : named = Reader!PushString(t, name)
  OBVIOUS
<1>2. PICK both : both = Reader!PushString(named, path)
  OBVIOUS
<1>3. WellMade(named) /\ Grown(t, named)
  BY <1>1, StringMade
<1>4. WellMade(both) /\ Grown(named, both)
  BY <1>2, <1>3, StringMade
<1>5. PICK row : row = [ name |-> Reader!Newest(named, "strings"),
                         path |-> Reader!Newest(both, "strings"),
                         unresolved_start |-> Reader!Count(t, "unresolved_imports"),
                         unresolved_count |-> 0 ]
  BY Zenon
<1>6. "unresolved_imports" \in Reader!Table /\ "modules" \in Reader!Table \ (Ranging \cup Doing)
  BY TheColumns DEF Ranging, Doing
<1>7. Reader!Count(t, "unresolved_imports") \in Nat
  BY <1>6, RowsAreCounted DEF WellMade
<1>8. \A column_ : <<"modules", column_>> \in Numbered => row[column_] \in Nat
  BY <1>5, <1>7 DEF Numbered
<1>9. PICK u : u = Reader!Push(both, "modules", row)
  OBVIOUS
<1>10. WellMade(u) /\ Grown(both, u)
  BY <1>4, <1>6, <1>8, <1>9, PushMade
<1>11. Grown(t, both)
  BY <1>3, <1>4, GrownThrough
<1>12. Grown(t, u)
  BY <1>4, <1>10, <1>11, GrownThrough
<1>13. u = Reader!DeclareModule(t, name, path)
  BY <1>1, <1>2, <1>5, <1>9 DEF Reader!DeclareModule
<1> QED BY <1>10, <1>12, <1>13

\* A column of which a cell is changed is as long.
LEMMA CellChanged ==
  ASSUME NEW c, c \in Seq(ToSet(c)), NEW k, NEW value
  PROVE  /\ [c EXCEPT ![k] = value] \in Seq(ToSet([c EXCEPT ![k] = value]))
         /\ Len([c EXCEPT ![k] = value]) = Len(c)
<1>1. PICK d : d = [c EXCEPT ![k] = value]
  BY Zenon
<1>2. Len(c) \in Nat /\ DOMAIN c = 1 .. Len(c)
  BY LenProperties
<1>3. d \in [1 .. Len(c) -> ToSet(d)] /\ DOMAIN d = 1 .. Len(c)
  BY <1>1, <1>2, Zenon DEF ToSet
<1>4. d \in Seq(ToSet(d))
  BY <1>2, <1>3, SeqDef
<1>5. Len(d) = Len(c)
  BY <1>2, <1>3, <1>4, LenProperties
<1> QED BY <1>1, <1>4, <1>5

LEMMA RootModuleMade ==
  ASSUME NEW t, WellMade(t), NEW name, NEW path
  PROVE  /\ WellMade(Reader!NameRootModule(t, name, path))
         /\ Grown(t, Reader!NameRootModule(t, name, path))
<1>1. PICK named : named = Reader!PushString(t, name)
  OBVIOUS
<1>2. PICK both : both = Reader!PushString(named, path)
  OBVIOUS
<1>3. WellMade(named) /\ Grown(t, named)
  BY <1>1, StringMade
<1>4. WellMade(both) /\ Grown(named, both)
  BY <1>2, <1>3, StringMade
<1>5. PICK v, w : v = Reader!Newest(named, "strings") /\ w = Reader!Newest(both, "strings")
  OBVIOUS
<1>6. PICK u : u = [both EXCEPT !["modules"]["name"][1] = v, !["modules"]["path"][1] = w]
  BY Zenon
<1>7. u = Reader!NameRootModule(t, name, path)
  BY <1>1, <1>2, <1>5, <1>6, Zenon DEF Reader!NameRootModule
<1>8. "modules" \in Reader!Table \ Ranging /\ Ranging \subseteq Reader!Table
      /\ "name" \in ToSet(Reader!Columns["modules"]) /\ "path" \in ToSet(Reader!Columns["modules"])
      /\ <<"modules", "name">> \notin Numbered /\ <<"modules", "path">> \notin Numbered
  BY TheColumns DEF Ranging, Numbered
<1>9. DOMAIN both = Reader!Table /\ DOMAIN both["modules"] = ToSet(Reader!Columns["modules"])
  BY <1>4, <1>8 DEF WellMade, Shaped
<1>10. /\ DOMAIN u = Reader!Table
       /\ \A other \in Reader!Table \ {"modules"} : u[other] = both[other]
       /\ DOMAIN u["modules"] = ToSet(Reader!Columns["modules"])
       /\ u["modules"]["name"] = [both["modules"]["name"] EXCEPT ![1] = v]
       /\ u["modules"]["path"] = [both["modules"]["path"] EXCEPT ![1] = w]
       /\ \A column_ \in ToSet(Reader!Columns["modules"]) \ {"name", "path"} :
            u["modules"][column_] = both["modules"][column_]
  BY <1>6, <1>8, <1>9, Zenon
<1>11. \A column_ \in ToSet(Reader!Columns["modules"]) :
         /\ AreCells("modules", column_, both["modules"][column_])
         /\ Len(both["modules"][column_]) = Reader!Count(both, "modules")
  BY <1>4, <1>8 DEF WellMade, Shaped
<1>12. \A column_ \in ToSet(Reader!Columns["modules"]) :
         /\ AreCells("modules", column_, u["modules"][column_])
         /\ Len(u["modules"][column_]) = Reader!Count(both, "modules")
  <2> TAKE column_ \in ToSet(Reader!Columns["modules"])
  <2>1. CASE column_ = "name"
    <3>1. PICK c : c = both["modules"]["name"]
      OBVIOUS
    <3>2. c \in Seq(ToSet(c)) /\ Len(c) = Reader!Count(both, "modules")
      BY <1>8, <1>11, <3>1 DEF AreCells
    <3>3. PICK d : d = [c EXCEPT ![1] = v]
      BY Zenon
    <3>4. d \in Seq(ToSet(d)) /\ Len(d) = Len(c)
      BY <3>2, <3>3, CellChanged, Zenon
    <3>5. u["modules"][column_] = d
      BY <1>10, <2>1, <3>1, <3>3
    <3> QED BY <1>8, <2>1, <3>2, <3>4, <3>5 DEF AreCells
  <2>2. CASE column_ = "path"
    <3>1. PICK c : c = both["modules"]["path"]
      OBVIOUS
    <3>2. c \in Seq(ToSet(c)) /\ Len(c) = Reader!Count(both, "modules")
      BY <1>8, <1>11, <3>1 DEF AreCells
    <3>3. PICK d : d = [c EXCEPT ![1] = w]
      BY Zenon
    <3>4. d \in Seq(ToSet(d)) /\ Len(d) = Len(c)
      BY <3>2, <3>3, CellChanged, Zenon
    <3>5. u["modules"][column_] = d
      BY <1>10, <2>2, <3>1, <3>3
    <3> QED BY <1>8, <2>2, <3>2, <3>4, <3>5 DEF AreCells
  <2>3. CASE column_ \notin {"name", "path"}
    BY <1>10, <1>11, <2>3
  <2> QED BY <2>1, <2>2, <2>3
<1>13. \A other \in Reader!Table \ {"modules"} : Reader!Count(u, other) = Reader!Count(both, other)
  BY <1>10 DEF Reader!Count
<1>14. Reader!Count(u, "modules") = Reader!Count(both, "modules")
  BY <1>8, <1>12, CountedByColumn DEF Reader!Count
<1>15. Shaped(u)
  <2>1. ASSUME NEW other \in Reader!Table
        PROVE  /\ DOMAIN u[other] = ToSet(Reader!Columns[other])
               /\ \A column_ \in ToSet(Reader!Columns[other]) :
                    /\ AreCells(other, column_, u[other][column_])
                    /\ Len(u[other][column_]) = Reader!Count(u, other)
    <3>1. CASE other = "modules"
      BY <1>10, <1>12, <1>14, <3>1
    <3>2. CASE other # "modules"
      <4>1. u[other] = both[other] /\ Reader!Count(u, other) = Reader!Count(both, other)
        BY <1>10, <1>13, <3>2
      <4> QED BY <1>4, <4>1 DEF WellMade, Shaped
    <3> QED BY <3>1, <3>2
  <2> QED BY <1>10, <2>1 DEF Shaped
<1>16. \A table \in Ranging : u[table] = both[table]
  BY <1>8, <1>10
<1>17. WellMade(u) /\ Grown(both, u)
  <2>1. SameDoing(both, u)
    BY <1>10, TheColumns DEF SameDoing, Doing
  <2>2. \A place \in Lasting :
          u[place[1]][place[2]] = both[place[1]][place[2]]
    <3>1. \A place \in Lasting : place[1] # "modules"
      BY DEF Lasting
    <3> QED BY <1>10, <3>1, LastingColumns
  <2>3. Lasts(both, both)
    BY <1>4, LastsItself DEF WellMade
  <2>4. Lasts(both, u)
    BY <2>2, <2>3 DEF Lasts
  <2> QED BY <1>4, <1>15, <1>16, <2>1, <2>4, AsideMade DEF Grown
<1>18. Grown(t, both)
  BY <1>3, <1>4, GrownThrough
<1>19. Grown(t, u)
  BY <1>4, <1>17, <1>18, GrownThrough
<1> QED BY <1>7, <1>17, <1>19

-----------------------------------------------------------------------------
(* What a project that is parsed has.                                      *)

LEMMA TextHas ==
  ASSUME NEW text, IsText(text)
  PROVE  /\ \A f \in ToSet(text.functions) : IsFunction(f)
         /\ \A container \in ToSet(text.containers) :
              /\ IsSequence(container.members)
              /\ \A member \in ToSet(container.members) : IsSequence(member.declared.wraps)
BY DEF IsText, IsFunction

\* So many of some lists in a row.
InARow(lists, n) == FlattenSeq([i \in 1 .. n |-> lists[i]])

\* One more list is at the end.
Lengthens(lists, n) ==
  LET old == InARow(lists, n)
      next == InARow(lists, n + 1)
      more == lists[n + 1]
  IN  /\ Len(old) \in Nat /\ Len(more) \in Nat /\ Len(next) = Len(old) + Len(more)
      /\ \A i \in 1 .. Len(old) : next[i] = old[i]
      /\ \A i \in 1 .. Len(more) : next[Len(old) + i] = more[i]

LEMMA ListsInARow ==
  ASSUME NEW lists, NEW most \in Nat, \A i \in 1 .. most : IsSequence(lists[i]),
         NEW n \in Nat, n =< most
  PROVE  /\ Len(InARow(lists, n)) \in Nat
         /\ Len(InARow(lists, 0)) = 0
         /\ IsSequence(InARow(lists, n))
         /\ \A i \in 1 .. Len(InARow(lists, n)) :
              \E j \in 1 .. most : InARow(lists, n)[i] \in ToSet(lists[j])
         /\ n < most => Lengthens(lists, n)
<1> DEFINE S == UNION { ToSet(lists[i]) : i \in 1 .. most }
<1>1. \A i \in 1 .. most : lists[i] \in Seq(S)
  <2> TAKE i \in 1 .. most
  <2>1. PICK xs : xs = lists[i]
    OBVIOUS
  <2>2. ToSet(xs) \subseteq S
    BY <2>1
  <2> HIDE DEF S
  <2>3. xs \in [1 .. Len(xs) -> ToSet(xs)] /\ Len(xs) \in Nat
    BY <2>1, LenProperties DEF IsSequence
  <2>4. xs \in [1 .. Len(xs) -> S]
    BY <2>2, <2>3
  <2>5. xs \in Seq(S)
    BY <2>3, <2>4, SeqDef
  <2> QED BY <2>1, <2>5
<1>2. \A x \in S : \E j \in 1 .. most : x \in ToSet(lists[j])
  OBVIOUS
<1> HIDE DEF S
<1>3. ASSUME NEW m \in Nat, m =< most
      PROVE  InARow(lists, m) \in Seq(S)
  <2>1. PICK s : s = [i \in 1 .. m |-> lists[i]]
    BY Zenon
  <2>2. s \in [1 .. m -> Seq(S)]
    BY <1>1, <1>3, <2>1
  <2>3. s \in Seq(Seq(S))
    BY <2>2, SeqDef
  <2>4. FlattenSeq(s) \in Seq(S)
    BY <2>3, FlattenType
  <2> QED BY <2>1, <2>4 DEF InARow
<1>4. PICK old : old = InARow(lists, n)
  OBVIOUS
<1>5. old \in Seq(S)
  BY <1>3, <1>4, Zenon
<1>6. /\ Len(old) \in Nat /\ old \in Seq(ToSet(old))
      /\ \A i \in 1 .. Len(old) : \E j \in 1 .. most : old[i] \in ToSet(lists[j])
  <2>1. Len(old) \in Nat /\ old \in [1 .. Len(old) -> S]
    BY <1>5, LenProperties
  <2>2. old \in [1 .. Len(old) -> ToSet(old)]
    BY <2>1 DEF ToSet
  <2>3. \A i \in 1 .. Len(old) : old[i] \in S
    BY <2>1
  <2> QED BY <1>2, <2>1, <2>2, <2>3, SeqDef
<1>7. Len(InARow(lists, 0)) = 0
  <2>1. [i \in 1 .. 0 |-> lists[i]] = << >>
    OBVIOUS
  <2>2. InARow(lists, 0) = << >>
    BY <2>1, FlattenEmpty DEF InARow
  <2> QED BY <2>2
<1>8. ASSUME n < most
      PROVE  Lengthens(lists, n)
  <2>1. n + 1 \in 1 .. most /\ n + 1 \in Nat /\ n + 1 =< most
    BY <1>8
  <2>2. \A i \in 1 .. n + 1 : lists[i] \in Seq(S)
    BY <1>1, <2>1
  <2>3. FlattenSeq([i \in 1 .. n + 1 |-> lists[i]]) =
          FlattenSeq([i \in 1 .. n |-> lists[i]]) \o lists[n + 1]
    BY <2>2, FlattenNext, Zenon
  <2>4. PICK more, both : more = lists[n + 1] /\ both = InARow(lists, n + 1)
    BY Zenon
  <2>5. both = old \o more /\ more \in Seq(S)
    <3>1. InARow(lists, n + 1) = InARow(lists, n) \o lists[n + 1]
      BY <2>3, Zenon DEF InARow
    <3>2. n + 1 \in 1 .. n + 1
      OBVIOUS
    <3> QED BY <1>4, <2>2, <2>4, <3>1, <3>2
  <2>6. /\ Len(both) = Len(old) + Len(more) /\ Len(old) \in Nat /\ Len(more) \in Nat
        /\ \A i \in 1 .. Len(old) + Len(more) :
             both[i] = IF i <= Len(old) THEN old[i] ELSE more[i - Len(old)]
    BY <1>5, <2>5, ConcatProperties, LenProperties
  <2>7. ASSUME NEW i \in 1 .. Len(old) PROVE both[i] = old[i]
    <3>1. i \in 1 .. Len(old) + Len(more) /\ i <= Len(old)
      BY <2>6, <2>7
    <3> QED BY <2>6, <3>1
  <2>8. ASSUME NEW i \in 1 .. Len(more) PROVE both[Len(old) + i] = more[i]
    <3>1. /\ Len(old) + i \in 1 .. Len(old) + Len(more) /\ ~ (Len(old) + i <= Len(old))
          /\ (Len(old) + i) - Len(old) = i
      BY <2>6, <2>8
    <3> QED BY <2>6, <3>1
  <2> QED BY <1>4, <2>4, <2>6, <2>7, <2>8 DEF Lengthens
<1>9. IsSequence(old)
  BY <1>6 DEF IsSequence
<1> QED BY <1>4, <1>6, <1>7, <1>8, <1>9

\* What is in a list is in its place among all of them.
LEMMA PlaceInARow ==
  ASSUME NEW lists, NEW most \in Nat, \A i \in 1 .. most : IsSequence(lists[i]),
         NEW m \in Nat, m < most, NEW i \in 1 .. Len(lists[m + 1])
  PROVE  /\ Len(InARow(lists, m)) + i \in 1 .. Len(InARow(lists, most))
         /\ InARow(lists, most)[Len(InARow(lists, m)) + i] = lists[m + 1][i]
<1>1. PICK place, x : place = Len(InARow(lists, m)) + i /\ x = lists[m + 1][i]
  BY Zenon
<1> DEFINE InPlace(k) == place \in 1 .. Len(InARow(lists, k)) /\ InARow(lists, k)[place] = x
           S == { k \in Nat : m + 1 + k =< most => InPlace(m + 1 + k) }
<1>2. 0 \in S
  <2>1. Lengthens(lists, m)
    <3>1. m =< most
      OBVIOUS
    <3> QED BY <3>1, ListsInARow
  <2>2. InPlace(m + 1)
    BY <1>1, <2>1 DEF Lengthens
  <2>3. m + 1 + 0 = m + 1
    OBVIOUS
  <2> QED BY <2>2, <2>3
<1>3. ASSUME NEW k \in Nat, k \in S PROVE k + 1 \in S
  <2>1. SUFFICES ASSUME m + 1 + (k + 1) =< most PROVE InPlace(m + 1 + (k + 1))
    OBVIOUS
  <2>2. PICK n \in Nat : n = m + 1 + k
    OBVIOUS
  <2>3. n < most /\ n =< most /\ m + 1 + (k + 1) = n + 1
    BY <2>1, <2>2
  <2>4. InPlace(n)
    BY <1>3, <2>2, <2>3
  <2>5. Lengthens(lists, n)
    BY <2>3, ListsInARow
  <2>6. InPlace(n + 1)
    BY <2>4, <2>5 DEF Lengthens
  <2> QED BY <2>3, <2>6
<1>4. PICK k \in Nat : most = m + 1 + k
  <2>1. most - (m + 1) \in Nat /\ most = m + 1 + (most - (m + 1))
    OBVIOUS
  <2> QED BY <2>1
<1> HIDE DEF S
<1>5. k \in S
  BY <1>2, <1>3, CountingUp
<1> USE DEF S
<1>6. InPlace(most)
  BY <1>4, <1>5
<1> QED BY <1>1, <1>6

\* Fewer lists are no longer.
LEMMA LongerInARow ==
  ASSUME NEW lists, NEW most \in Nat, \A i \in 1 .. most : IsSequence(lists[i]),
         NEW m \in Nat, m =< most
  PROVE  Len(InARow(lists, m)) =< Len(InARow(lists, most))
<1> DEFINE S == { k \in Nat : m + k =< most =>
                    Len(InARow(lists, m)) =< Len(InARow(lists, m + k)) }
<1>1. Len(InARow(lists, m)) \in Nat
  BY ListsInARow
<1>2. 0 \in S
  <2>1. m + 0 = m
    OBVIOUS
  <2> QED BY <1>1, <2>1
<1>3. ASSUME NEW k \in Nat, k \in S PROVE k + 1 \in S
  <2>1. SUFFICES ASSUME m + (k + 1) =< most
                 PROVE  Len(InARow(lists, m)) =< Len(InARow(lists, m + (k + 1)))
    OBVIOUS
  <2>2. PICK n \in Nat : n = m + k
    OBVIOUS
  <2>3. n < most /\ n =< most /\ m + (k + 1) = n + 1
    BY <2>1, <2>2
  <2>4. Len(InARow(lists, m)) =< Len(InARow(lists, n))
    BY <1>3, <2>2, <2>3
  <2>5. Lengthens(lists, n)
    BY <2>3, ListsInARow
  <2>6. Len(InARow(lists, n)) =< Len(InARow(lists, n + 1)) /\ Len(InARow(lists, n)) \in Nat
        /\ Len(InARow(lists, n + 1)) \in Nat
    BY <2>5 DEF Lengthens
  <2> QED BY <1>1, <2>3, <2>4, <2>6
<1>4. PICK k \in Nat : most = m + k
  <2>1. most - m \in Nat /\ most = m + (most - m)
    OBVIOUS
  <2> QED BY <2>1
<1> HIDE DEF S
<1>5. k \in S
  BY <1>2, <1>3, CountingUp
<1> QED BY <1>4, <1>5 DEF S

\* The functions of the first modules.
FunctionsUpTo(n) == UpTo(source.modules, n)

FunctionLists == [i \in 1 .. Len(source.modules) |-> source.modules[i].functions]

LEMMA FunctionsAreLists ==
  ASSUME Listed(source)
  PROVE  /\ Len(source.modules) \in Nat
         /\ \A i \in 1 .. Len(source.modules) :
              /\ IsSequence(FunctionLists[i])
              /\ \A f \in ToSet(FunctionLists[i]) : IsFunction(f)
         /\ \A n \in Nat : n =< Len(source.modules) =>
              FunctionsUpTo(n) = InARow(FunctionLists, n)
<1>1. PICK most : most = Len(source.modules)
  OBVIOUS
<1>2. most \in Nat /\ \A i \in 1 .. most : FunctionLists[i] = source.modules[i].functions
  BY <1>1 DEF Listed, FunctionLists
<1>3. \A i \in 1 .. most : IsText(source.modules[i])
  BY <1>1 DEF Listed, IsModule
<1>4. \A i \in 1 .. most : IsSequence(FunctionLists[i])
                           /\ \A f \in ToSet(FunctionLists[i]) : IsFunction(f)
  BY <1>2, <1>3, TextHas DEF IsText
<1>5. ASSUME NEW n \in Nat, n =< most PROVE FunctionsUpTo(n) = InARow(FunctionLists, n)
  <2>1. \A i \in 1 .. n : FunctionLists[i] = source.modules[i].functions
    BY <1>2, <1>5
  <2>2. [i \in 1 .. n |-> FunctionLists[i]] = [i \in 1 .. n |-> source.modules[i].functions]
    BY <2>1
  <2> QED BY <2>2 DEF FunctionsUpTo, UpTo, InARow
<1> QED BY <1>1, <1>2, <1>4, <1>5

LEMMA FunctionsInARow ==
  ASSUME Listed(source), NEW n \in Nat, n =< Len(source.modules)
  PROVE  /\ Len(FunctionsUpTo(n)) \in Nat
         /\ Len(FunctionsUpTo(0)) = 0
         /\ n < Len(source.modules) =>
              /\ Len(FunctionsUpTo(n + 1)) =
                   Len(FunctionsUpTo(n)) + Len(source.modules[n + 1].functions)
              /\ Len(source.modules[n + 1].functions) \in Nat
              /\ \A i \in 1 .. Len(FunctionsUpTo(n)) :
                   FunctionsUpTo(n + 1)[i] = FunctionsUpTo(n)[i]
              /\ \A i \in 1 .. Len(source.modules[n + 1].functions) :
                   FunctionsUpTo(n + 1)[Len(FunctionsUpTo(n)) + i] =
                     source.modules[n + 1].functions[i]
         /\ \A i \in 1 .. Len(FunctionsUpTo(n)) : IsFunction(FunctionsUpTo(n)[i])
<1>1. PICK lists, most : lists = FunctionLists /\ most = Len(source.modules)
  BY Zenon
<1>2. /\ most \in Nat /\ \A i \in 1 .. most : IsSequence(lists[i])
      /\ \A i \in 1 .. most : \A f \in ToSet(lists[i]) : IsFunction(f)
      /\ \A k \in Nat : k =< most => FunctionsUpTo(k) = InARow(lists, k)
  BY <1>1, FunctionsAreLists
<1>3. n =< most /\ 0 =< most /\ 0 \in Nat
  BY <1>1, <1>2
<1>4. FunctionsUpTo(n) = InARow(lists, n) /\ FunctionsUpTo(0) = InARow(lists, 0)
  BY <1>2, <1>3
<1>5. /\ Len(InARow(lists, n)) \in Nat /\ Len(InARow(lists, 0)) = 0
      /\ \A i \in 1 .. Len(InARow(lists, n)) :
           \E j \in 1 .. most : InARow(lists, n)[i] \in ToSet(lists[j])
  BY <1>2, <1>3, ListsInARow
<1>6. ASSUME n < most
      PROVE  /\ n + 1 \in Nat /\ n + 1 =< most
             /\ FunctionsUpTo(n + 1) = InARow(lists, n + 1)
             /\ lists[n + 1] = source.modules[n + 1].functions
             /\ Lengthens(lists, n)
  <2>1. n + 1 \in Nat /\ n + 1 =< most /\ n + 1 \in 1 .. most
    BY <1>2, <1>6
  <2>2. FunctionsUpTo(n + 1) = InARow(lists, n + 1)
        /\ lists[n + 1] = source.modules[n + 1].functions
    BY <1>1, <1>2, <2>1 DEF FunctionLists
  <2>3. Lengthens(lists, n)
    BY <1>2, <1>3, <1>6, ListsInARow
  <2> QED BY <2>1, <2>2, <2>3
<1>7. \A i \in 1 .. Len(FunctionsUpTo(n)) : IsFunction(FunctionsUpTo(n)[i])
  BY <1>2, <1>4, <1>5
<1> QED BY <1>1, <1>4, <1>5, <1>6, <1>7 DEF Lengthens

\* The catalogue of functions is all of them.
LEMMA CatalogueIsAll ==
  ASSUME Listed(source)
  PROVE  /\ Catalogued(Len(FunctionsUpTo(Len(source.modules))))
         /\ Reader!AllFunctions = FunctionsUpTo(Len(source.modules))
<1>1. \A s : Reader!FlattenSeq(s) = FlattenSeq(s)
  BY DEF Reader!FlattenSeq, FlattenSeq
<1>2. Reader!AllFunctions = FunctionsUpTo(Len(source.modules))
  <2>1. DOMAIN source.modules = 1 .. Len(source.modules)
    BY DEF Listed
  <2> QED BY <1>1, <2>1 DEF Reader!AllFunctions, FunctionsUpTo, UpTo
<1>3. Len(source.modules) \in Nat /\ Len(source.modules) =< Len(source.modules)
  BY DEF Listed
<1>4. \A i \in 1 .. Len(FunctionsUpTo(Len(source.modules))) :
        IsFunction(FunctionsUpTo(Len(source.modules))[i])
  BY <1>3, FunctionsInARow, Zenon
<1> QED BY <1>2, <1>4 DEF Catalogued


\* The function of a module is in its place among all of them.
LEMMA FunctionInTheRow ==
  ASSUME Listed(source), NEW m \in Nat, m < Len(source.modules),
         NEW i \in 1 .. Len(source.modules[m + 1].functions)
  PROVE  /\ Len(FunctionsUpTo(m)) + i \in 1 .. Len(Listing(source.modules))
         /\ Listing(source.modules)[Len(FunctionsUpTo(m)) + i] =
              source.modules[m + 1].functions[i]
<1>1. PICK lists, most : lists = FunctionLists /\ most = Len(source.modules)
  BY Zenon
<1>2. /\ most \in Nat /\ \A j \in 1 .. most : IsSequence(lists[j])
      /\ \A k \in Nat : k =< most => FunctionsUpTo(k) = InARow(lists, k)
  BY <1>1, FunctionsAreLists
<1>3. m < most /\ m =< most /\ most =< most /\ m + 1 \in 1 .. most
  BY <1>1, <1>2
<1>4. lists[m + 1] = source.modules[m + 1].functions
  BY <1>1, <1>3 DEF FunctionLists
<1>5. FunctionsUpTo(m) = InARow(lists, m) /\ FunctionsUpTo(most) = InARow(lists, most)
  BY <1>2, <1>3
<1>6. /\ Len(InARow(lists, m)) + i \in 1 .. Len(InARow(lists, most))
      /\ InARow(lists, most)[Len(InARow(lists, m)) + i] = lists[m + 1][i]
  <2>1. i \in 1 .. Len(lists[m + 1])
    BY <1>4
  <2>2. \A j \in 1 .. most : IsSequence(lists[j])
    BY <1>2
  <2> QED BY <1>2, <1>3, <2>1, <2>2, PlaceInARow, SMTT(30)
<1>7. Listing(source.modules) = FunctionsUpTo(most)
  BY <1>1 DEF Listing, FunctionsUpTo
<1> QED BY <1>4, <1>5, <1>6, <1>7

-----------------------------------------------------------------------------
(* What a step of the frontend does, of each kind of declaration.          *)

\* The step for one more module.
Goes(phase, k) ==
  /\ reading = phase /\ reading' = phase
  /\ source' = source /\ at' = at + 1
  /\ at < Len(source.modules)
  /\ Kept(built, built', k)

\* The names of the functions of the first modules are remembered.
Present(index, n, modules) ==
  \A m \in 0 .. n - 1 : \A i \in 1 .. Len(modules[m + 1].functions) :
    <<m, modules[m + 1].functions[i].name>> \in DOMAIN index.scoped

\* The bodies of the first functions are there, and are no more than those: where
\* there is an index for every function, none of them is the index of no row.
Bodied(t, n, modules) ==
  NamesApart(modules) /\ Len(Listing(modules)) =< NoIndex =>
    /\ Reader!Count(t, "expressions") =< n
    /\ \A i \in 1 .. n : Listing(modules)[i].body => t.functions.body[i] # NoIndex

\* The module a step is for.
LEMMA ModuleIsThere ==
  ASSUME Listed(source), at \in Nat, at < Len(source.modules)
  PROVE  IsModule(Reader!ModuleAt(at)) /\ Reader!ModuleAt(at) = source.modules[at + 1]
<1>1. at + 1 \in 1 .. Len(source.modules)
  BY DEF Listed
<1> QED BY <1>1 DEF Listed, Reader!ModuleAt

LEMMA ForNextGoes ==
  ASSUME NEW phase, phase # "artifacts", Reader!ForNext(phase)
  PROVE  /\ reading = phase /\ reading' = phase
         /\ source' = source /\ at' = at + 1
         /\ at < Len(source.modules)
BY DEF Reader!ForNext, Reader!Items

LEMMA ModulesGo ==
  ASSUME Made(built), Listed(source), at \in Nat, Reader!DeclareModules
  PROVE  Goes("modules", 0)
<1>1. Reader!ForNext("modules")
  BY DEF Reader!DeclareModules
<1>2. PICK name, path : name = Reader!ModuleAt(at).name /\ path = Reader!ModuleAt(at).path
  OBVIOUS
<1>3. PICK t : t = IF at = 0 THEN Reader!NameRootModule(built.tables, name, path)
                   ELSE Reader!DeclareModule(built.tables, name, path)
  OBVIOUS
<1>4. WellMade(t) /\ Grown(built.tables, t)
  BY <1>3, RootModuleMade, ModuleMade DEF Made
<1>5. built' = [built EXCEPT !.tables = t]
  BY <1>2, <1>3 DEF Reader!DeclareModules
<1>6. Kept(built, built', 0)
  BY <1>4, <1>5, ExceptTablesKept
<1> QED BY <1>1, <1>6, ForNextGoes DEF Goes

LEMMA UnresolvedGo ==
  ASSUME Made(built), Listed(source), at \in Nat, Reader!DeclareUnresolved
  PROVE  Goes("unresolved", 0)
<1>1. Reader!ForNext("unresolved") /\ at < Len(source.modules)
  BY ForNextGoes DEF Reader!DeclareUnresolved
<1>2. PICK xs, n : xs = Reader!ModuleAt(at).unresolved /\ n = Len(xs)
  BY Zenon
<1>3. n \in Nat /\ DOMAIN xs = 1 .. n
  BY <1>1, <1>2, ModuleIsThere, InSequence DEF IsModule
<1>4. \A i \in 1 .. n : \A c : Kept(built, c, 0) => Kept(c, Reader!NameUnresolved(c, xs[i]), 0)
  BY UnresolvedKept DEF Kept
<1>5. Kept(built, Reader!EachUnresolved(built, xs), 0)
  BY <1>3, <1>4, UnresolvedKeep
<1>6. built' = Reader!EachUnresolved(built, xs)
  BY <1>2 DEF Reader!DeclareUnresolved
<1> QED BY <1>1, <1>5, <1>6, ForNextGoes DEF Goes

LEMMA ContainersGo ==
  ASSUME Made(built), Listed(source), at \in Nat, Reader!DeclareContainers
  PROVE  Goes("containers", 0)
<1>1. Reader!ForNext("containers") /\ at < Len(source.modules)
  BY ForNextGoes DEF Reader!DeclareContainers
<1>2. PICK xs, n : xs = Reader!ModuleAt(at).containers /\ n = Len(xs)
  BY Zenon
<1>3. n \in Nat /\ DOMAIN xs = 1 .. n
  BY <1>1, <1>2, ModuleIsThere, InSequence DEF IsModule, IsText
<1>4. \A i \in 1 .. n : \A c : Kept(built, c, 0) => Kept(c, Reader!DeclareContainer(c, xs[i]), 0)
  BY ContainerKept DEF Kept
<1>5. Kept(built, Reader!EachContainer(built, xs), 0)
  BY <1>3, <1>4, ContainersKeep
<1>6. built' = Reader!EachContainer(built, xs)
  BY <1>2 DEF Reader!DeclareContainers
<1> QED BY <1>1, <1>5, <1>6, ForNextGoes DEF Goes

LEMMA MembersGo ==
  ASSUME Made(built), Listed(source), at \in Nat, Reader!DeclareMembers
  PROVE  Goes("members", 0)
<1>1. Reader!ForNext("members") /\ at < Len(source.modules) /\ reading = "members"
  BY ForNextGoes DEF Reader!DeclareMembers
<1>2. PICK xs, n : xs = Reader!ModuleAt(at).containers /\ n = Len(xs)
  BY Zenon
<1>3. n \in Nat /\ DOMAIN xs = 1 .. n /\ \A i \in 1 .. n : xs[i] \in ToSet(xs)
  BY <1>1, <1>2, ModuleIsThere, InSequence DEF IsModule, IsText
<1>4. \A i \in 1 .. n :
        /\ IsSequence(xs[i].members)
        /\ \A member \in ToSet(xs[i].members) : IsSequence(member.declared.wraps)
  BY <1>1, <1>2, <1>3, ModuleIsThere, TextHas DEF IsModule
<1>5. \A i \in 1 .. n : \A c : Kept(built, c, 0) => Kept(c, Reader!DeclareStruct(c, xs[i]), 0)
  <2> TAKE i \in 1 .. n
  <2>1. PICK x : x = xs[i]
    OBVIOUS
  <2>2. /\ IsSequence(x.members)
        /\ \A member \in ToSet(x.members) : IsSequence(member.declared.wraps)
    BY <1>4, <2>1
  <2>3. \A c : Made(c) => Kept(c, Reader!DeclareStruct(c, x), 0)
    BY <1>1, <2>2, StructKept
  <2> QED BY <2>1, <2>3 DEF Kept
<1>6. Kept(built, Reader!EachStruct(built, xs), 0)
  BY <1>3, <1>5, StructsKeep
<1>7. built' = Reader!EachStruct(built, xs)
  BY <1>2 DEF Reader!DeclareMembers
<1> QED BY <1>1, <1>6, <1>7, ForNextGoes DEF Goes

\* The functions of the module a step is for.
LEMMA FunctionsOfIt ==
  ASSUME Listed(source), at \in Nat, at < Len(source.modules)
  PROVE  \E xs, n : /\ xs = Reader!ModuleAt(at).functions /\ n = Len(xs)
                    /\ n \in Nat /\ DOMAIN xs = 1 .. n
                    /\ \A i \in 1 .. n : IsFunction(xs[i])
                    /\ xs = source.modules[at + 1].functions
<1>1. PICK xs, n : xs = Reader!ModuleAt(at).functions /\ n = Len(xs)
  BY Zenon
<1>2. n \in Nat /\ DOMAIN xs = 1 .. n /\ \A i \in 1 .. n : xs[i] \in ToSet(xs)
  BY <1>1, ModuleIsThere, InSequence DEF IsModule, IsText
<1>3. \A i \in 1 .. n : IsFunction(xs[i])
  BY <1>1, <1>2, ModuleIsThere, TextHas DEF IsModule
<1> QED BY <1>1, <1>2, <1>3, ModuleIsThere

LEMMA FunctionsGo ==
  ASSUME Made(built), Listed(source), at \in Nat,
         Functions(built) = Len(FunctionsUpTo(at)),
         Present(built.functions, at, source.modules), Reader!DeclareFunctions
  PROVE  /\ Goes("functions", Len(source.modules[at + 1].functions))
         /\ Present(built'.functions, at + 1, source.modules)
<1>1. Reader!ForNext("functions") /\ at < Len(source.modules)
  BY ForNextGoes DEF Reader!DeclareFunctions
<1>2. PICK xs, n : /\ xs = Reader!ModuleAt(at).functions /\ n = Len(xs)
                   /\ n \in Nat /\ DOMAIN xs = 1 .. n
                   /\ \A i \in 1 .. n : IsFunction(xs[i])
                   /\ xs = source.modules[at + 1].functions
  BY <1>1, FunctionsOfIt
<1>3. PICK after : /\ after[0] = built
                   /\ \A i \in 1 .. n : after[i] = Reader!DeclareFunction(after[i - 1], xs[i])
                   /\ after[n] = Reader!EachFunction(built, xs)
  <2>1. n \in Nat /\ DOMAIN xs = 1 .. n
    BY <1>2
  <2> QED BY <2>1, FunctionsTurn, Zenon
<1>4. Len(FunctionsUpTo(at)) \in Nat /\ Len(source.modules) \in Nat
  <2>1. Len(source.modules) \in Nat
    BY DEF Listed
  <2>2. at =< Len(source.modules)
    BY <1>1, <2>1
  <2> QED BY <2>1, <2>2, FunctionsInARow
<1> DEFINE Knows(c, i) ==
             /\ DOMAIN built.functions.scoped \subseteq DOMAIN c.functions.scoped
             /\ \A j \in 1 .. i : <<at, xs[j].name>> \in DOMAIN c.functions.scoped
           So == { i \in Nat : i =< n => Kept(built, after[i], i) /\ Knows(after[i], i) }
<1>5. 0 \in So
  <2>1. Kept(built, after[0], 0)
    BY <1>3, KeptAsItIs
  <2> QED BY <1>3, <2>1
<1>6. ASSUME NEW i \in Nat, i \in So PROVE i + 1 \in So
  <2>1. SUFFICES ASSUME i + 1 =< n
                 PROVE  Kept(built, after[i + 1], i + 1) /\ Knows(after[i + 1], i + 1)
    OBVIOUS
  <2>2. i + 1 \in 1 .. n /\ (i + 1) - 1 = i /\ i =< n
    <3>1. n \in Nat
      BY <1>2
    <3>2. i \in Nat
      BY <1>6
    <3> QED BY <2>1, <3>1, <3>2
  <2>3. PICK c, d, f : c = after[i] /\ d = after[i + 1] /\ f = xs[i + 1]
    BY Zenon
  <2>4. Kept(built, c, i) /\ Knows(c, i)
    BY <1>6, <2>2, <2>3
  <2>5. d = Reader!DeclareFunction(c, f)
    BY <1>3, <2>2, <2>3
  <2>6. /\ Made(c) /\ Functions(c) = Len(FunctionsUpTo(at)) + (i + 1) - 1
    BY <1>4, <2>4 DEF Kept
  <2>7. IsFunction(f)
    BY <1>2, <2>2, <2>3
  <2>8. i + 1 \in 1 .. Len(source.modules[at + 1].functions)
        /\ f = source.modules[at + 1].functions[i + 1]
    BY <1>2, <2>2, <2>3
  <2>9. IsNext(c, f)
    <3>1. IsPlace(source.modules, at, f.name, Functions(c))
      <4>1. PICK k : k = i + 1
        OBVIOUS
      <4>2. /\ k \in 1 .. Len(source.modules[at + 1].functions)
            /\ source.modules[at + 1].functions[k].name = f.name
        BY <2>8, <4>1
      <4>3. Functions(c) = Len(UpTo(source.modules, at)) + k - 1
        BY <2>6, <4>1 DEF FunctionsUpTo
      <4>4. at \in 0 .. Len(source.modules) - 1
        BY <1>1, <1>4
      <4> QED BY <4>2, <4>3, <4>4 DEF IsPlace
    <3>2. Functions(c) + 1 = Len(FunctionsUpTo(at)) + (i + 1)
      BY <1>4, <2>6
    <3>3. DeclaredAs(source.modules, Functions(c)) = f
      <4>1. Listing(source.modules)[Len(FunctionsUpTo(at)) + (i + 1)] =
              source.modules[at + 1].functions[i + 1]
        BY <1>1, <2>8, FunctionInTheRow, Zenon
      <4> QED BY <2>8, <3>2, <4>1 DEF DeclaredAs
    <3> QED BY <1>4, <3>1, <3>3 DEF IsNext
  <2>10. Kept(c, d, 1) /\ d.functions = Reader!Remember(c.functions, at, f.name, Functions(c))
    BY <2>5, <2>6, <2>7, <2>9, FunctionKept
  <2>11. Kept(built, d, i + 1)
    BY <2>4, <2>10, KeptThrough
  <2>12. Knows(d, i + 1)
    <3>1. DOMAIN d.functions.scoped = DOMAIN c.functions.scoped \cup {<<at, f.name>>}
      BY <2>10 DEF Reader!Remember, Reader!Put
    <3>2. \A j \in 1 .. i + 1 : j \in 1 .. i \/ j = i + 1
      OBVIOUS
    <3> QED BY <2>3, <2>4, <3>1, <3>2
  <2> QED BY <2>3, <2>11, <2>12
<1> HIDE DEF So
<1>7. n \in So
  BY <1>2, <1>5, <1>6, CountingUp
<1> USE DEF So
<1>8. built' = after[n]
  <2>1. built' = Reader!EachFunction(built, xs)
    BY <1>2 DEF Reader!DeclareFunctions
  <2> QED BY <1>3, <2>1
<1>9. Kept(built, built', n) /\ Knows(built', n)
  <2>1. PICK c : c = after[n]
    OBVIOUS
  <2>2. n \in Nat /\ n =< n
    BY <1>2
  <2>3. Kept(built, after[n], n) /\ Knows(after[n], n)
    BY <1>7, <2>2
  <2>4. Kept(built, c, n) /\ Knows(c, n) /\ built' = c
    BY <1>8, <2>1, <2>3
  <2> QED BY <2>4
<1>10. Present(built'.functions, at + 1, source.modules)
  <2>1. SUFFICES ASSUME NEW m \in 0 .. (at + 1) - 1,
                        NEW i \in 1 .. Len(source.modules[m + 1].functions)
                 PROVE  <<m, source.modules[m + 1].functions[i].name>>
                          \in DOMAIN built'.functions.scoped
    BY DEF Present
  <2>2. CASE m = at
    BY <1>2, <1>9, <2>2
  <2>3. CASE m # at
    <3>1. m \in 0 .. at - 1
      BY <2>3
    <3> QED BY <1>9, <3>1 DEF Present
  <2> QED BY <2>2, <2>3
<1> QED BY <1>1, <1>2, <1>9, <1>10, ForNextGoes DEF Goes

\* When all are there, every function is found.
LEMMA FunctionsAreLocated ==
  ASSUME NEW b, Made(b), Listed(source), at \in Nat, at < Len(source.modules),
         Present(b.functions, Len(source.modules), source.modules),
         NEW i \in 1 .. Len(source.modules[at + 1].functions)
  PROVE  LET f == source.modules[at + 1].functions[i]
         IN  /\ Located(b, f)
             /\ NamesApart(source.modules) =>
                  Reader!HandleOf(b, f) = Len(FunctionsUpTo(at)) + i - 1
<1>1. PICK f : f = source.modules[at + 1].functions[i]
  OBVIOUS
<1>2. PICK handle : handle = Len(FunctionsUpTo(at)) + i - 1
  OBVIOUS
<1>3. Len(source.modules) \in Nat /\ at \in 0 .. Len(source.modules) - 1
  BY DEF Listed
<1>4. Len(FunctionsUpTo(at)) \in Nat
  BY <1>3, FunctionsInARow
<1>5. SUFFICES ASSUME NamesApart(source.modules)
               PROVE  /\ DeclaredAs(source.modules, Reader!HandleOf(b, f)) = f
                      /\ Reader!HandleOf(b, f) = handle
  BY <1>1, <1>2 DEF Located
<1>6. NamesTold(b.functions, source.modules)
  BY <1>5 DEF Made, Told
<1>7. IsPlace(source.modules, at, f.name, handle)
  BY <1>1, <1>2, <1>3 DEF IsPlace, FunctionsUpTo
<1>8. <<at, f.name>> \in DOMAIN b.functions.scoped
  BY <1>1, <1>3 DEF Present
<1>9. Reader!HandleOf(b, f) = handle
  BY <1>6, <1>7, <1>8, HandleOfIs
<1>10. handle + 1 = Len(FunctionsUpTo(at)) + i
  BY <1>2, <1>4
<1>11. DeclaredAs(source.modules, handle) = f
  BY <1>1, <1>10, FunctionInTheRow DEF DeclaredAs
<1> QED BY <1>9, <1>11

LEMMA SourcesGo ==
  ASSUME Made(built), Listed(source), at \in Nat, at > 0 => Sourced(built.tables),
         Reader!DeclareSources
  PROVE  Goes("sources", 0) /\ Sourced(built'.tables)
<1>1. Reader!ForNext("sources") /\ at < Len(source.modules)
  BY ForNextGoes DEF Reader!DeclareSources
<1>2. PICK xs, n : /\ xs = Reader!ModuleAt(at).functions /\ n = Len(xs)
                   /\ n \in Nat /\ DOMAIN xs = 1 .. n
                   /\ \A i \in 1 .. n : IsFunction(xs[i])
  BY <1>1, FunctionsOfIt
<1>3. PICK t : t = Reader!PushFixed(built.tables)
  OBVIOUS
<1>4. /\ WellMade(t) /\ Larger(built.tables, t) /\ Attributed(t, built.passed_in)
      /\ Sourced(t)
      /\ Told(t, built.functions, source.modules) /\ BodiesStay(built.tables, t)
  <2>1. /\ WellMade(t) /\ Larger(built.tables, t) /\ Attributed(t, built.passed_in)
        /\ Sourced(t) /\ Aside(built.tables, t)
    BY <1>3, FixedAreMade DEF Made
  <2> QED BY <2>1, AsideIsTold DEF Made
<1>5. PICK begun : begun = IF at > 0 THEN built ELSE [built EXCEPT !.tables = t]
  BY Zenon
<1>6. Kept(built, begun, 0) /\ Sourced(begun.tables)
  BY <1>4, <1>5, KeptAsItIs, ExceptTablesStay
<1>7. Made(begun)
  BY <1>6 DEF Kept
<1>8. \A i \in 1 .. n : \A c :
        Kept(begun, c, 0) => Kept(c, Reader!DeclareSourcesOf(c, xs[i]), 0)
  BY <1>2, <1>6, SourcesOfKept DEF Kept
<1>9. Kept(begun, Reader!SourcesOfEach(begun, xs), 0)
  BY <1>2, <1>7, <1>8, PassedKeep
<1>10. built' = Reader!SourcesOfEach(begun, xs)
  BY <1>2, <1>3, <1>5 DEF Reader!DeclareSources
<1>11. Kept(built, Reader!SourcesOfEach(begun, xs), 0)
  BY <1>6, <1>9, KeptTwice
<1>12. Sourced(Reader!SourcesOfEach(begun, xs).tables)
  BY <1>6, <1>9 DEF Kept
<1> QED BY <1>1, <1>10, <1>11, <1>12, ForNextGoes DEF Goes

\* Calls are of functions that are all there.
LEMMA CallsGo ==
  ASSUME Made(built), Listed(source), at \in Nat, Catalogued(Functions(built)),
         Present(built.functions, Len(source.modules), source.modules),
         Reader!DeclareCalls
  PROVE  Goes("calls", 0)
<1>1. Reader!ForNext("calls") /\ at < Len(source.modules)
  BY ForNextGoes DEF Reader!DeclareCalls
<1>2. PICK xs, n : /\ xs = Reader!ModuleAt(at).functions /\ n = Len(xs)
                   /\ n \in Nat /\ DOMAIN xs = 1 .. n
                   /\ \A i \in 1 .. n : IsFunction(xs[i])
                   /\ xs = source.modules[at + 1].functions
  BY <1>1, FunctionsOfIt
<1>3. \A i \in 1 .. n : \A c :
        Kept(built, c, 0) => Kept(c, Reader!DeclareCallsOf(c, xs[i]), 0)
  <2> TAKE i \in 1 .. n
  <2>1. SUFFICES ASSUME NEW c, Kept(built, c, 0)
                 PROVE  Kept(c, Reader!DeclareCallsOf(c, xs[i]), 0)
    OBVIOUS
  <2>2. Made(c) /\ Functions(c) = Functions(built)
    BY <2>1, RowsBuilt DEF Kept
  <2>3. Catalogued(Functions(c)) /\ IsFunction(xs[i])
    BY <1>2, <2>2
  <2>4. Located(c, xs[i])
    BY <1>1, <1>2, <2>1, FunctionsAreLocated, LocatedYet
  <2> QED BY <2>2, <2>3, <2>4, CallsOfKept
<1>4. Kept(built, Reader!CallsOfEach(built, xs), 0)
  BY <1>2, <1>3, CallersKeep
<1>5. built' = Reader!CallsOfEach(built, xs)
  BY <1>2 DEF Reader!DeclareCalls
<1> QED BY <1>1, <1>4, <1>5, ForNextGoes DEF Goes

LEMMA MemoryGoes ==
  ASSUME Made(built), Listed(source), at \in Nat,
         Present(built.functions, Len(source.modules), source.modules), Reader!DeclareMemory
  PROVE  Goes("memory", 0)
<1>1. Reader!ForNext("memory") /\ at < Len(source.modules)
  BY ForNextGoes DEF Reader!DeclareMemory
<1>2. PICK xs, n : /\ xs = Reader!ModuleAt(at).functions /\ n = Len(xs)
                   /\ n \in Nat /\ DOMAIN xs = 1 .. n
                   /\ \A i \in 1 .. n : IsFunction(xs[i])
                   /\ xs = source.modules[at + 1].functions
  BY <1>1, FunctionsOfIt
<1>3. \A i \in 1 .. n : \A c :
        Kept(built, c, 0) => Kept(c, Reader!DeclareMemoryOf(c, xs[i]), 0)
  <2> TAKE i \in 1 .. n
  <2>1. SUFFICES ASSUME NEW c, Kept(built, c, 0)
                 PROVE  Kept(c, Reader!DeclareMemoryOf(c, xs[i]), 0)
    OBVIOUS
  <2>2. Made(c) /\ IsFunction(xs[i])
    BY <1>2, <2>1 DEF Kept
  <2>3. Located(c, xs[i])
    BY <1>1, <1>2, <2>1, FunctionsAreLocated, LocatedYet
  <2> QED BY <2>2, <2>3, MemoryOfKept
<1>4. Kept(built, Reader!MemoryOfEach(built, xs), 0)
  BY <1>2, <1>3, MemoryKeep
<1>5. built' = Reader!MemoryOfEach(built, xs)
  BY <1>2 DEF Reader!DeclareMemory
<1> QED BY <1>1, <1>4, <1>5, ForNextGoes DEF Goes

\* One more body, of the function that is next.
LEMMA BodyIsBodied ==
  ASSUME NEW b, Made(b), NEW c, NEW f, BodyIsGiven(b, c, f),
         NEW modules, NEW n \in Nat, n < Functions(b), Functions(b) = Len(Listing(modules)),
         NamesApart(modules) => Reader!HandleOf(b, f) = n,
         Listing(modules)[n + 1] = f, Bodied(b.tables, n, modules)
  PROVE  Bodied(c.tables, n + 1, modules)
<1>1. SUFFICES ASSUME NamesApart(modules), Len(Listing(modules)) =< NoIndex
               PROVE  /\ Reader!Count(c.tables, "expressions") =< n + 1
                      /\ \A i \in 1 .. n + 1 :
                           Listing(modules)[i].body => c.tables.functions.body[i] # NoIndex
  BY DEF Bodied
<1>2. PICK m : m = Reader!Count(b.tables, "expressions")
  OBVIOUS
<1>3. /\ m \in Nat /\ m =< n
      /\ \A i \in 1 .. n : Listing(modules)[i].body => b.tables.functions.body[i] # NoIndex
  BY <1>1, <1>2 DEF Bodied, BodyIsGiven
<1>4. Functions(b) \in Nat /\ NoIndex \in Nat
  BY RowsBuilt, NoRowIsANumber
<1>5. \A i \in 1 .. n + 1 : i \in 1 .. n \/ i = n + 1
  OBVIOUS
<1>6. CASE ~ f.body
  <2>1. c.tables = b.tables
    BY <1>6 DEF BodyIsGiven
  <2> QED BY <1>2, <1>3, <1>5, <1>6, <2>1
<1>7. CASE f.body
  <2>1. n \in 0 .. Functions(b) - 1 /\ Reader!HandleOf(b, f) = n
    BY <1>1, <1>4
  <2>2. /\ Reader!Count(c.tables, "expressions") = m + 1
        /\ c.tables.functions.body[n + 1] = m
        /\ \A i \in 1 .. Functions(b) :
             i # n + 1 => c.tables.functions.body[i] = b.tables.functions.body[i]
    BY <1>2, <1>7, <2>1 DEF BodyIsGiven
  <2>3. m # NoIndex
    BY <1>1, <1>3, <1>4
  <2>4. ASSUME NEW i \in 1 .. n, Listing(modules)[i].body
        PROVE  c.tables.functions.body[i] # NoIndex
    <3>1. i \in 1 .. Functions(b) /\ i # n + 1
      BY <1>4
    <3> QED BY <1>3, <2>2, <2>4, <3>1
  <2>5. m + 1 =< n + 1
    BY <1>3
  <2> QED BY <1>5, <2>2, <2>3, <2>4, <2>5
<1> QED BY <1>6, <1>7

LEMMA BodiesGo ==
  ASSUME Made(built), Listed(source), at \in Nat,
         Functions(built) = Len(FunctionsUpTo(Len(source.modules))),
         Present(built.functions, Len(source.modules), source.modules),
         Bodied(built.tables, Len(FunctionsUpTo(at)), source.modules),
         Reader!DeclareBodies
  PROVE  Goes("bodies", 0) /\ Bodied(built'.tables, Len(FunctionsUpTo(at + 1)), source.modules)
<1>1. Reader!ForNext("bodies") /\ at < Len(source.modules) /\ reading = "bodies"
  BY ForNextGoes DEF Reader!DeclareBodies
<1>2. PICK xs, n : /\ xs = Reader!ModuleAt(at).functions /\ n = Len(xs)
                   /\ n \in Nat /\ DOMAIN xs = 1 .. n
                   /\ xs = source.modules[at + 1].functions
  BY <1>1, FunctionsOfIt
<1>3. PICK after : /\ after[0] = built
                   /\ \A i \in 1 .. n : after[i] = Reader!DeclareBody(after[i - 1], xs[i])
                   /\ after[n] = Reader!BodyOfEach(built, xs)
  <2>1. n \in Nat /\ DOMAIN xs = 1 .. n
    BY <1>2
  <2> QED BY <2>1, BodiesTurn, Zenon
<1>4. PICK before : before = Len(FunctionsUpTo(at))
  OBVIOUS
<1>5. before \in Nat /\ Len(FunctionsUpTo(at + 1)) = before + n
  <2>1. Len(source.modules) \in Nat
    BY DEF Listed
  <2>2. at =< Len(source.modules)
    BY <1>1, <2>1
  <2> QED BY <1>1, <1>2, <1>4, <2>2, FunctionsInARow
<1> DEFINE So == { i \in Nat : i =< n => /\ Kept(built, after[i], 0)
                                        /\ Bodied(after[i].tables, before + i, source.modules) }
<1>6. 0 \in So
  <2>1. Kept(built, after[0], 0) /\ before + 0 = before
    BY <1>3, <1>5, KeptAsItIs
  <2> QED BY <1>3, <1>4, <2>1
<1>7. ASSUME NEW i \in Nat, i \in So PROVE i + 1 \in So
  <2>1. SUFFICES ASSUME i + 1 =< n
                 PROVE  /\ Kept(built, after[i + 1], 0)
                        /\ Bodied(after[i + 1].tables, before + (i + 1), source.modules)
    OBVIOUS
  <2>2. i + 1 \in 1 .. n /\ (i + 1) - 1 = i /\ i =< n
    <3>1. n \in Nat
      BY <1>2
    <3>2. i \in Nat
      BY <1>7
    <3> QED BY <2>1, <3>1, <3>2
  <2>3. PICK c, d, f : c = after[i] /\ d = after[i + 1] /\ f = xs[i + 1]
    BY Zenon
  <2>4. Kept(built, c, 0) /\ Bodied(c.tables, before + i, source.modules)
    BY <1>7, <2>2, <2>3
  <2>5. d = Reader!DeclareBody(c, f)
    BY <1>3, <2>2, <2>3
  <2>6. Made(c) /\ Functions(c) = Functions(built) /\ c.functions = built.functions
    BY <2>4, RowsBuilt DEF Kept
  <2>7. i + 1 \in 1 .. Len(source.modules[at + 1].functions)
        /\ f = source.modules[at + 1].functions[i + 1]
    BY <1>2, <2>2, <2>3
  <2>8. Present(c.functions, Len(source.modules), source.modules)
    BY <2>6
  <2>9. /\ Located(c, f)
        /\ NamesApart(source.modules) => Reader!HandleOf(c, f) = before + (i + 1) - 1
    BY <1>1, <1>4, <2>6, <2>7, <2>8, FunctionsAreLocated
  <2>10. Kept(c, d, 0) /\ BodyIsGiven(c, d, f)
    BY <1>1, <2>5, <2>6, <2>9, BodyKept
  <2>11. /\ before + (i + 1) \in 1 .. Len(Listing(source.modules))
         /\ Listing(source.modules)[before + (i + 1)] = f
    BY <1>1, <1>4, <2>7, FunctionInTheRow
  <2>12. PICK k \in Nat : k = before + i
    BY <1>5
  <2>13. /\ k + 1 = before + (i + 1) /\ before + (i + 1) - 1 = k
         /\ Functions(c) = Len(Listing(source.modules))
    BY <1>5, <2>6, <2>12 DEF FunctionsUpTo, Listing
  <2>14. k < Functions(c)
    <3>1. Functions(c) \in Nat
      BY <2>6, RowsBuilt
    <3> QED BY <2>11, <2>12, <2>13, <3>1
  <2>15. /\ NamesApart(source.modules) => Reader!HandleOf(c, f) = k
         /\ Listing(source.modules)[k + 1] = f /\ Bodied(c.tables, k, source.modules)
    BY <2>4, <2>9, <2>11, <2>12, <2>13
  <2>16. Bodied(d.tables, k + 1, source.modules)
    BY <2>6, <2>10, <2>13, <2>14, <2>15, BodyIsBodied
  <2>17. Kept(built, d, 0)
    BY <2>4, <2>10, KeptTwice
  <2> QED BY <2>3, <2>13, <2>16, <2>17
<1> HIDE DEF So
<1>8. n \in So
  BY <1>2, <1>6, <1>7, CountingUp
<1> USE DEF So
<1>9. built' = after[n]
  <2>1. built' = Reader!BodyOfEach(built, xs)
    BY <1>2 DEF Reader!DeclareBodies
  <2> QED BY <1>3, <2>1
<1>10. Kept(built, built', 0) /\ Bodied(built'.tables, before + n, source.modules)
  <2>1. n \in Nat /\ n =< n
    BY <1>2
  <2>2. Kept(built, after[n], 0) /\ Bodied(after[n].tables, before + n, source.modules)
    BY <1>8, <2>1
  <2> QED BY <1>9, <2>2
<1> QED BY <1>1, <1>5, <1>10, ForNextGoes DEF Goes

\* An artifact, and the type of nothing.
LEMMA ArtifactGoes ==
  ASSUME Made(built), Reader!DeclareArtifact
  PROVE  Kept(built, built', 0)
<1>1. PICK artifact : artifact = source.artifacts[at + 1]
  OBVIOUS
<1>2. PICK root : root = IF artifact.root \in DOMAIN by_name THEN by_name[artifact.root]
                         ELSE NoIndex
  OBVIOUS
<1>3. PICK row : row = [root |-> root]
  BY Zenon
<1>4. PICK t : t = Reader!PushNamed(built.tables, "artifacts", artifact.name, row)
  OBVIOUS
<1>5. "artifacts" \in Reader!Table \ (Ranging \cup Doing \cup {"strings"})
      /\ \A name : <<"artifacts", name>> \notin Numbered
  BY TheColumns DEF Ranging, Doing, Numbered
<1>6. WellMade(t) /\ Grown(built.tables, t)
  BY <1>4, <1>5, NamedMade DEF Made
<1>7. built' = [built EXCEPT !.tables = t]
  BY <1>1, <1>2, <1>3, <1>4 DEF Reader!DeclareArtifact
<1> QED BY <1>6, <1>7, ExceptTablesKept

LEMMA VoidGoes ==
  ASSUME Made(built), Reader!DeclareVoid
  PROVE  Kept(built, built', 0)
<1>1. PICK written_ : written_ = Reader!PushString(built.tables, "void")
  OBVIOUS
<1>2. WellMade(written_) /\ Grown(built.tables, written_)
  BY <1>1, StringMade DEF Made
<1>3. PICK t : t = Reader!PushType(written_, "Void", NoIndex,
                                   Reader!Newest(written_, "strings"), Reader!RootModule)
  OBVIOUS
<1>4. WellMade(t) /\ Grown(written_, t)
  BY <1>2, <1>3, TypeMade
<1>5. Grown(built.tables, t)
  BY <1>2, <1>4, GrownThrough DEF Made
<1>6. built' = [built EXCEPT !.tables = t]
  BY <1>1, <1>3 DEF Reader!DeclareVoid
<1> QED BY <1>4, <1>5, <1>6, ExceptTablesKept

-----------------------------------------------------------------------------
(* What is so of what is made.                                             *)

Owned(rows, owners, owner) == { row \in rows : Reader!At(owners, row) = owner }

\* What an owner's range holds is what is owned by it.
LEMMA RangeIsOwned ==
  ASSUME NEW t, NEW table, NEW start, NEW count, NEW owners, NEW owner \in Nat,
         Tile(t[table][start], t[table][count], owners),
         owner < Len(t[table][start])
  PROVE  Reader!RowsOf(t, table, start, count, owner) =
           Owned(0 .. Len(owners) - 1, owners, owner)
<1>1. PICK starts, counts : starts = t[table][start] /\ counts = t[table][count]
  BY Zenon
<1>2. Tile(starts, counts, owners) /\ owner < Len(starts)
  BY <1>1
<1>3. owner + 1 \in 1 .. Len(starts)
  BY <1>2 DEF Tile
<1>4. starts[owner + 1] .. starts[owner + 1] + counts[owner + 1] - 1
        = OwnedBy(owners, Len(owners), owner + 1)
  BY <1>2, <1>3 DEF Tile
<1>5. OwnedBy(owners, Len(owners), owner + 1) = Owned(0 .. Len(owners) - 1, owners, owner)
  BY DEF OwnedBy, Owned, Reader!At
<1>6. Reader!RowsOf(t, table, start, count, owner) =
        starts[owner + 1] .. starts[owner + 1] + counts[owner + 1] - 1
  <2>1. Reader!RowsOf(t, table, start, count, owner) =
          Reader!At(t[table][start], owner)
            .. Reader!Ends(t[table][start], t[table][count], owner) - 1
    BY DEF Reader!RowsOf
  <2>2. Reader!At(starts, owner) = starts[owner + 1]
    BY DEF Reader!At
  <2>3. Reader!Ends(starts, counts, owner) = starts[owner + 1] + counts[owner + 1]
    BY DEF Reader!Ends, Reader!At
  <2>4. starts[owner + 1] \in Nat /\ counts[owner + 1] \in Nat
    <3>1. starts \in Seq(Nat) /\ counts \in Seq(Nat) /\ Len(starts) = Len(counts)
      BY <1>2 DEF Tile
    <3> QED BY <1>3, <3>1
  <2>5. (starts[owner + 1] + counts[owner + 1]) - 1 =
          starts[owner + 1] + counts[owner + 1] - 1
    BY <2>4
  <2> QED BY <1>1, <2>1, <2>2, <2>3, <2>5
<1> QED BY <1>4, <1>5, <1>6

LEMMA MadeIsOwned ==
  ASSUME NEW t, WellMade(t)
  PROVE  /\ Reader!CheckColumnLengths(t) = {}
         /\ \A struct \in Reader!RowsIn(t, "structs") :
              Reader!FieldsOf(t, struct) = Owned(Reader!RowsIn(t, "fields"), t.fields.owner, struct)
         /\ \A function \in Reader!RowsIn(t, "functions") :
              Reader!ParametersOf(t, function) =
                Owned(Reader!RowsIn(t, "parameters"), t.parameters.owner, function)
<1>0. \A s : Reader!ToSet(s) = ToSet(s)
  BY DEF Reader!ToSet, ToSet
<1>1. \A table \in Reader!Table : \A name \in ToSet(Reader!Columns[table]) :
        Len(t[table][name]) = Reader!Count(t, table)
  BY DEF WellMade, Shaped
<1>2. Reader!CheckColumnLengths(t) = {}
  BY <1>0, <1>1 DEF Reader!CheckColumnLengths
<1>3. /\ Len(t["structs"]["field_start"]) = Reader!Count(t, "structs")
      /\ Len(t["fields"]["owner"]) = Reader!Count(t, "fields")
      /\ Len(t["functions"]["parameter_start"]) = Reader!Count(t, "functions")
      /\ Len(t["parameters"]["owner"]) = Reader!Count(t, "parameters")
  <2>1. {"structs", "fields", "functions", "parameters"} \subseteq Reader!Table
    BY TheColumns DEF Ranging
  <2> QED BY <1>1, <2>1, TheColumns
<1>4. Reader!Count(t, "structs") \in Nat /\ Reader!Count(t, "functions") \in Nat
  BY TheColumns, RowsAreCounted DEF Ranging, WellMade
<1>5. ASSUME NEW struct \in Reader!RowsIn(t, "structs")
      PROVE  Reader!FieldsOf(t, struct) =
               Owned(Reader!RowsIn(t, "fields"), t.fields.owner, struct)
  <2>1. struct \in Nat /\ struct < Len(t["structs"]["field_start"])
    BY <1>3, <1>4 DEF Reader!RowsIn
  <2>2. Tile(t["structs"]["field_start"], t["structs"]["field_count"], t["fields"]["owner"])
    BY DEF WellMade
  <2>3. PICK owners : owners = t["fields"]["owner"]
    OBVIOUS
  <2>4. Reader!RowsOf(t, "structs", "field_start", "field_count", struct) =
          Owned(0 .. Len(owners) - 1, owners, struct)
    BY <2>1, <2>2, <2>3, RangeIsOwned
  <2>5. 0 .. Len(owners) - 1 = Reader!RowsIn(t, "fields")
    BY <1>3, <2>3 DEF Reader!RowsIn
  <2> QED BY <2>3, <2>4, <2>5 DEF Reader!FieldsOf
<1>6. ASSUME NEW function \in Reader!RowsIn(t, "functions")
      PROVE  Reader!ParametersOf(t, function) =
               Owned(Reader!RowsIn(t, "parameters"), t.parameters.owner, function)
  <2>1. function \in Nat /\ function < Len(t["functions"]["parameter_start"])
    BY <1>3, <1>4 DEF Reader!RowsIn
  <2>2. Tile(t["functions"]["parameter_start"], t["functions"]["parameter_count"],
             t["parameters"]["owner"])
    BY DEF WellMade
  <2>3. PICK owners : owners = t["parameters"]["owner"]
    OBVIOUS
  <2>4. Reader!RowsOf(t, "functions", "parameter_start", "parameter_count", function) =
          Owned(0 .. Len(owners) - 1, owners, function)
    BY <2>1, <2>2, <2>3, RangeIsOwned
  <2>5. 0 .. Len(owners) - 1 = Reader!RowsIn(t, "parameters")
    BY <1>3, <2>3 DEF Reader!RowsIn
  <2> QED BY <2>3, <2>4, <2>5 DEF Reader!ParametersOf
<1> QED BY <1>2, <1>5, <1>6

LEMMA MadeIsRight == Made(built) => RangesAreOwners
BY MadeIsOwned DEF Made, Owned, RangesAreOwners, Reader!RangesAreOwners

-----------------------------------------------------------------------------
(* The steps of the frontend.                                              *)

\* The kinds of declarations before functions, what follows when they are all there
\* and have to be found, and what comes before bodies.
EarlyPhases == {"modules", "unresolved", "artifacts", "void", "containers", "members"}
LatePhases == {"sources", "calls", "memory", "bodies", "check", "done"}
Beforehand == EarlyPhases \cup {"functions", "sources", "calls", "memory"}

\* The functions there are yet.
Counted(phase, n, b, modules) ==
  /\ phase \in EarlyPhases => Functions(b) = 0
  /\ phase = "functions" => Functions(b) = Len(UpTo(modules, n))
  /\ phase \in LatePhases => Functions(b) = Len(Listing(modules))

\* Their names are remembered.
Indexed(phase, n, b, modules) ==
  /\ phase = "functions" => Present(b.functions, n, modules)
  /\ phase \in LatePhases => Present(b.functions, Len(modules), modules)

\* The bodies there are yet.
Embodied(phase, n, b, modules) ==
  /\ phase \in Beforehand => Reader!Count(b.tables, "expressions") = 0
  /\ phase = "bodies" => Bodied(b.tables, Len(UpTo(modules, n)), modules)
  /\ phase \in {"check", "done"} => Bodied(b.tables, Len(Listing(modules)), modules)

\* The sources that are no parameters are there from the first sources on.
Begun(phase, n, b) ==
  /\ phase = "sources" /\ n > 0 => Sourced(b.tables)
  /\ phase \in LatePhases \ {"sources"} => Sourced(b.tables)

Stands(phase, n, b, modules) ==
  /\ Counted(phase, n, b, modules)
  /\ Indexed(phase, n, b, modules)
  /\ Embodied(phase, n, b, modules)
  /\ Begun(phase, n, b)

\* While a project is merged, what is built is made well, of modules that are
\* sequences of what they declare.
Merges ==
  /\ at \in Nat
  /\ Reader!FromProject =>
       Listed(source) /\ Made(built) /\ Stands(reading, at, built, source.modules)

LEMMA MadeNext ==
  ASSUME source' = source, Made(built')
  PROVE  Made(built)'
BY DEF Made, Structs, Functions

LEMMA MergesNext ==
  ASSUME Merges, Reader!FromProject, source' = source, at' \in Nat, Made(built'),
         Stands(reading', at', built', source.modules)
  PROVE  Merges'
<1>1. Listed(source) /\ Made(built)'
  BY MadeNext DEF Merges
<1>2. Stands(reading', at', built', source'.modules)
  OBVIOUS
<1> QED BY <1>1, <1>2 DEF Merges, Reader!FromProject

\* No expression is added but by bodies.
LEMMA ExpressionsStay ==
  ASSUME NEW b, NEW c, NEW k, Kept(b, c, k), reading # "bodies"
  PROVE  Reader!Count(c.tables, "expressions") = Reader!Count(b.tables, "expressions")
BY DEF Kept, BodiesStay, Reader!Count

\* What was built is there yet.
Grows == \E k : Kept(built, built', k)

\* One more file.
LEMMA GoesOn ==
  ASSUME Merges, Reader!FromProject,
         NEW phase \in EarlyPhases \cup {"sources", "calls", "memory", "bodies"},
         Goes(phase, 0),
         phase = "sources" => Sourced(built'.tables),
         phase = "bodies" =>
           Bodied(built'.tables, Len(UpTo(source.modules, at + 1)), source.modules)
  PROVE  Merges' /\ Grows
<1>1. PICK modules : modules = source.modules
  OBVIOUS
<1>2. /\ at \in Nat /\ Made(built)
      /\ Counted(phase, at, built, modules) /\ Indexed(phase, at, built, modules)
      /\ Embodied(phase, at, built, modules) /\ Begun(phase, at, built)
      /\ reading = phase /\ reading' = phase /\ source' = source /\ at' = at + 1
      /\ Kept(built, built', 0)
  BY <1>1 DEF Merges, Stands, Goes
<1>3. /\ Made(built') /\ Functions(built') = Functions(built)
      /\ built'.functions = built.functions
      /\ Sourced(built.tables) => Sourced(built'.tables)
  BY <1>2, RowsBuilt DEF Kept
<1>4. Counted(phase, at + 1, built', modules)
  BY <1>2, <1>3 DEF Counted, EarlyPhases
<1>5. Indexed(phase, at + 1, built', modules)
  BY <1>2, <1>3 DEF Indexed, EarlyPhases
<1>6. Embodied(phase, at + 1, built', modules)
  <2>1. phase # "bodies" =>
          Reader!Count(built'.tables, "expressions") = Reader!Count(built.tables, "expressions")
    BY <1>2, ExpressionsStay
  <2>2. phase \notin {"check", "done"} /\ (phase = "bodies" => phase \notin Beforehand)
    BY DEF EarlyPhases, Beforehand
  <2> QED BY <1>1, <1>2, <2>1, <2>2 DEF Embodied
<1>7. Begun(phase, at + 1, built')
  BY <1>2, <1>3 DEF Begun
<1>8. at' \in Nat /\ Stands(reading', at', built', source.modules)
  BY <1>1, <1>2, <1>4, <1>5, <1>6, <1>7 DEF Stands
<1> QED BY <1>2, <1>3, <1>8, MergesNext DEF Grows

\* Nothing else but the phase changes.
LEMMA PhaseMerges ==
  ASSUME Merges, Reader!FromProject, source' = source, Kept(built, built', 0),
         at' \in Nat, Embodied(reading', at', built', source.modules),
         \/ reading \in EarlyPhases /\ reading' \in EarlyPhases
         \/ reading = "sources" /\ reading' = "calls" /\ Sourced(built.tables)
         \/ /\ reading \in LatePhases \ {"sources"}
            /\ reading' \in LatePhases \ {"sources"}
  PROVE  Merges' /\ Grows
<1>1. PICK modules : modules = source.modules
  OBVIOUS
<1>2. /\ Made(built) /\ Counted(reading, at, built, modules)
      /\ Indexed(reading, at, built, modules) /\ Begun(reading, at, built)
  BY <1>1 DEF Merges, Stands
<1>3. /\ Made(built') /\ Functions(built') = Functions(built)
      /\ built'.functions = built.functions
      /\ Sourced(built.tables) => Sourced(built'.tables)
  BY <1>2, RowsBuilt DEF Kept
<1>4. \/ reading \in EarlyPhases /\ reading' \in EarlyPhases
      \/ reading \in LatePhases /\ reading' \in LatePhases
  BY DEF LatePhases
<1>5. EarlyPhases \cap LatePhases = {}
      /\ "functions" \notin EarlyPhases \cup LatePhases
      /\ "sources" \notin EarlyPhases
  BY DEF EarlyPhases, LatePhases
<1>6. Counted(reading', at', built', modules)
  BY <1>2, <1>3, <1>4, <1>5 DEF Counted
<1>7. Indexed(reading', at', built', modules)
  BY <1>2, <1>3, <1>4, <1>5 DEF Indexed
<1>8. Begun(reading', at', built')
  BY <1>2, <1>3, <1>5 DEF Begun
<1>9. Stands(reading', at', built', source.modules)
  BY <1>1, <1>6, <1>7, <1>8 DEF Stands
<1> QED BY <1>3, <1>9, MergesNext DEF Grows

LEMMA FunctionsMerge ==
  ASSUME Merges, Reader!FromProject, Reader!DeclareFunctions
  PROVE  Merges' /\ Grows
<1>1. PICK modules : modules = source.modules
  OBVIOUS
<1>2. reading = "functions"
  BY DEF Reader!DeclareFunctions, Reader!ForNext
<1>3. /\ at \in Nat /\ Listed(source) /\ Made(built)
      /\ Functions(built) = Len(UpTo(modules, at)) /\ Present(built.functions, at, modules)
      /\ Reader!Count(built.tables, "expressions") = 0
  BY <1>1, <1>2 DEF Merges, Stands, Counted, Indexed, Embodied, Beforehand
<1>4. PICK k : k = Len(modules[at + 1].functions)
  BY Zenon
<1>5. Functions(built) = Len(FunctionsUpTo(at))
  BY <1>1, <1>3 DEF FunctionsUpTo
<1>6. Goes("functions", k) /\ Present(built'.functions, at + 1, modules)
  BY <1>1, <1>3, <1>4, <1>5, FunctionsGo
<1>7. /\ reading' = "functions" /\ source' = source /\ at' = at + 1
      /\ at < Len(modules) /\ Kept(built, built', k)
  BY <1>1, <1>6 DEF Goes
<1>8. Made(built') /\ Functions(built') = Functions(built) + k
  BY <1>7 DEF Kept
<1>9. Functions(built') = Len(UpTo(modules, at + 1))
  <2>1. at =< Len(source.modules) /\ at < Len(source.modules)
    BY <1>1, <1>3, <1>7 DEF Listed
  <2>2. Len(FunctionsUpTo(at + 1)) = Len(FunctionsUpTo(at)) + k
    BY <1>1, <1>3, <1>4, <2>1, FunctionsInARow, Zenon
  <2> QED BY <1>1, <1>5, <1>8, <2>2 DEF FunctionsUpTo
<1>10. Reader!Count(built'.tables, "expressions") = 0
  BY <1>2, <1>3, <1>7, ExpressionsStay
<1>11. "functions" \notin EarlyPhases \cup LatePhases
  BY DEF EarlyPhases, LatePhases
<1>12. Counted("functions", at + 1, built', modules)
  BY <1>9, <1>11 DEF Counted
<1>13. Indexed("functions", at + 1, built', modules)
  BY <1>6, <1>11 DEF Indexed
<1>14. Embodied("functions", at + 1, built', modules)
  BY <1>10 DEF Embodied
<1>15. Begun("functions", at + 1, built')
  BY <1>11 DEF Begun
<1>16. at' \in Nat /\ Stands(reading', at', built', source.modules)
  BY <1>1, <1>3, <1>7, <1>12, <1>13, <1>14, <1>15 DEF Stands
<1> QED BY <1>7, <1>8, <1>16, MergesNext DEF Grows

\* The bodies stay when a kind of declarations is done.
LEMMA NextIsEmbodied ==
  ASSUME Listed(source), at \in Nat, Embodied(reading, at, built, source.modules),
         reading \in DOMAIN Reader!Following, at = Reader!Items(reading)
  PROVE  Embodied(Reader!Following[reading], 0, built, source.modules)
<1>1. PICK modules, next : modules = source.modules /\ next = Reader!Following[reading]
  OBVIOUS
<1>2. CASE reading \in Beforehand \ {"memory"}
  <2>1. next \in Beforehand
    BY <1>1, <1>2 DEF Reader!Following, Beforehand, EarlyPhases
  <2>2. next \notin {"bodies", "check", "done"}
    BY <2>1 DEF Beforehand, EarlyPhases
  <2> QED BY <1>1, <1>2, <2>2 DEF Embodied
<1>3. CASE reading = "memory"
  <2>1. next = "bodies" /\ next \notin Beforehand /\ reading \in Beforehand
    BY <1>1, <1>3 DEF Reader!Following, Beforehand, EarlyPhases
  <2>2. Reader!Count(built.tables, "expressions") = 0
    BY <2>1 DEF Embodied
  <2>3. Len(UpTo(modules, 0)) = 0
    <3>1. 0 \in Nat /\ 0 =< Len(source.modules)
      BY DEF Listed
    <3> QED BY <1>1, <3>1, FunctionsInARow DEF FunctionsUpTo
  <2>4. Bodied(built.tables, 0, modules)
    BY <2>2 DEF Bodied
  <2> QED BY <1>1, <2>1, <2>3, <2>4 DEF Embodied
<1>4. CASE reading = "bodies"
  <2>1. next = "check" /\ next \notin Beforehand /\ at = Len(modules)
    BY <1>1, <1>4 DEF Reader!Following, Reader!Items, Beforehand, EarlyPhases
  <2>2. Bodied(built.tables, Len(Listing(modules)), modules)
    BY <1>1, <1>4, <2>1 DEF Embodied, Listing
  <2> QED BY <1>1, <2>1, <2>2 DEF Embodied
<1>5. reading \in Beforehand \cup {"bodies"}
  BY DEF Reader!Following, Beforehand, EarlyPhases
<1> QED BY <1>2, <1>3, <1>4, <1>5

\* The next kind of declarations.
LEMMA NextPhaseMerges ==
  ASSUME Merges, Reader!FromProject, Reader!NextPhase
  PROVE  Merges' /\ Grows
<1>1. PICK modules : modules = source.modules
  OBVIOUS
<1>2. /\ at \in Nat /\ Listed(source) /\ Made(built)
      /\ Counted(reading, at, built, modules) /\ Indexed(reading, at, built, modules)
      /\ Embodied(reading, at, built, modules) /\ Begun(reading, at, built)
  BY <1>1 DEF Merges, Stands
<1>3. /\ reading \in DOMAIN Reader!Following /\ reading' = Reader!Following[reading]
      /\ at = Reader!Items(reading)
      /\ at' = 0 /\ source' = source /\ built' = built
  BY DEF Reader!NextPhase
<1>4. Kept(built, built', 0)
  BY <1>2, <1>3, KeptAsItIs
<1>5. Embodied(reading', at', built', modules)
  BY <1>1, <1>2, <1>3, NextIsEmbodied
<1>6. CASE reading = "members"
  <2>1. reading' = "functions" /\ reading' \notin EarlyPhases \cup LatePhases
    BY <1>3, <1>6 DEF Reader!Following, EarlyPhases, LatePhases
  <2>2. Functions(built) = 0
    BY <1>2, <1>6 DEF Counted, EarlyPhases
  <2>3. Len(UpTo(modules, 0)) = 0
    <3>1. 0 \in Nat /\ 0 =< Len(source.modules)
      BY <1>2 DEF Listed
    <3> QED BY <1>1, <1>2, <3>1, FunctionsInARow DEF FunctionsUpTo
  <2>4. Counted(reading', at', built', modules)
    BY <1>3, <2>1, <2>2, <2>3 DEF Counted
  <2>5. Indexed(reading', at', built', modules)
    BY <1>3, <2>1 DEF Indexed, Present
  <2>6. Begun(reading', at', built')
    BY <2>1 DEF Begun
  <2>7. Stands(reading', at', built', source.modules)
    BY <1>1, <1>5, <2>4, <2>5, <2>6 DEF Stands
  <2> QED BY <1>2, <1>3, <1>4, <2>7, MergesNext DEF Grows
<1>7. CASE reading = "functions"
  <2>1. reading' = "sources" /\ at = Len(modules) /\ reading' \notin EarlyPhases
    BY <1>1, <1>3, <1>7 DEF Reader!Following, Reader!Items, EarlyPhases
  <2>2. Functions(built) = Len(Listing(modules)) /\ Present(built.functions, Len(modules), modules)
    BY <1>2, <1>7, <2>1 DEF Counted, Indexed, Listing
  <2>3. Counted(reading', at', built', modules)
    BY <1>3, <2>1, <2>2 DEF Counted
  <2>4. Indexed(reading', at', built', modules)
    BY <1>3, <2>1, <2>2 DEF Indexed
  <2>5. Begun(reading', at', built')
    BY <1>3, <2>1 DEF Begun
  <2>6. Stands(reading', at', built', source.modules)
    BY <1>1, <1>5, <2>3, <2>4, <2>5 DEF Stands
  <2> QED BY <1>2, <1>3, <1>4, <2>6, MergesNext DEF Grows
<1>8. CASE reading = "sources"
  <2>1. reading' = "calls" /\ at = Len(modules)
    BY <1>1, <1>3, <1>8 DEF Reader!Following, Reader!Items
  <2>2. at > 0
    BY <1>1, <1>2, <2>1 DEF Listed
  <2>3. Sourced(built.tables)
    BY <1>2, <1>8, <2>2 DEF Begun
  <2> QED BY <1>1, <1>3, <1>4, <1>5, <1>8, <2>1, <2>3, PhaseMerges
<1>9. CASE reading \notin {"members", "functions", "sources"}
  <2>1. \/ reading \in EarlyPhases /\ reading' \in EarlyPhases
        \/ /\ reading \in LatePhases \ {"sources"}
           /\ reading' \in LatePhases \ {"sources"}
    BY <1>3, <1>9 DEF Reader!Following, EarlyPhases, LatePhases
  <2> QED BY <1>1, <1>3, <1>4, <1>5, <2>1, PhaseMerges
<1> QED BY <1>6, <1>7, <1>8, <1>9

LEMMA FrontendMerges ==
  ASSUME Merges, Reader!FromProject, Reader!Next
  PROVE  Merges' /\ Grows
<1>1. PICK modules : modules = source.modules
  OBVIOUS
<1>2. /\ at \in Nat /\ Listed(source) /\ Made(built)
      /\ Counted(reading, at, built, modules) /\ Indexed(reading, at, built, modules)
      /\ Embodied(reading, at, built, modules) /\ Begun(reading, at, built)
  BY <1>1 DEF Merges, Stands
<1>3. CASE Reader!DeclareModules
  BY <1>2, <1>3, ModulesGo, GoesOn DEF EarlyPhases
<1>4. CASE Reader!DeclareUnresolved
  BY <1>2, <1>4, UnresolvedGo, GoesOn DEF EarlyPhases
<1>5. CASE Reader!DeclareContainers
  BY <1>2, <1>5, ContainersGo, GoesOn DEF EarlyPhases
<1>6. CASE Reader!DeclareMembers
  BY <1>2, <1>6, MembersGo, GoesOn DEF EarlyPhases
<1>7. CASE Reader!DeclareFunctions
  BY <1>7, FunctionsMerge
<1>8. CASE Reader!DeclareSources
  <2>1. reading = "sources"
    BY <1>8 DEF Reader!DeclareSources, Reader!ForNext
  <2>2. at > 0 => Sourced(built.tables)
    BY <1>2, <2>1 DEF Begun
  <2>3. Goes("sources", 0) /\ Sourced(built'.tables)
    BY <1>2, <1>8, <2>2, SourcesGo
  <2> QED BY <2>3, GoesOn
<1>9. CASE Reader!DeclareCalls
  <2>1. reading \in LatePhases
    BY <1>9 DEF Reader!DeclareCalls, Reader!ForNext, LatePhases
  <2>2. /\ Functions(built) = Len(FunctionsUpTo(Len(source.modules)))
        /\ Present(built.functions, Len(source.modules), source.modules)
    BY <1>1, <1>2, <2>1 DEF Counted, Indexed, Listing, FunctionsUpTo
  <2>3. Catalogued(Functions(built))
    BY <1>2, <2>2, CatalogueIsAll
  <2> QED BY <1>2, <1>9, <2>2, <2>3, CallsGo, GoesOn
<1>10. CASE Reader!DeclareMemory
  <2>1. reading \in LatePhases
    BY <1>10 DEF Reader!DeclareMemory, Reader!ForNext, LatePhases
  <2>2. Present(built.functions, Len(source.modules), source.modules)
    BY <1>1, <1>2, <2>1 DEF Indexed
  <2> QED BY <1>2, <1>10, <2>2, MemoryGoes, GoesOn
<1>11. CASE Reader!DeclareBodies
  <2>1. reading = "bodies" /\ reading \in LatePhases
    BY <1>11 DEF Reader!DeclareBodies, Reader!ForNext, LatePhases
  <2>2. /\ Functions(built) = Len(FunctionsUpTo(Len(source.modules)))
        /\ Present(built.functions, Len(source.modules), source.modules)
        /\ Bodied(built.tables, Len(FunctionsUpTo(at)), source.modules)
    BY <1>1, <1>2, <2>1 DEF Counted, Indexed, Embodied, Listing, FunctionsUpTo
  <2>3. Goes("bodies", 0) /\ Bodied(built'.tables, Len(FunctionsUpTo(at + 1)), source.modules)
    BY <1>2, <1>11, <2>2, BodiesGo
  <2>4. Bodied(built'.tables, Len(UpTo(source.modules, at + 1)), source.modules)
    BY <2>3 DEF FunctionsUpTo
  <2> QED BY <2>3, <2>4, GoesOn
<1>12. CASE Reader!DeclareArtifact \/ Reader!DeclareVoid
  <2>1. /\ reading \in {"artifacts", "void"} /\ reading' \in {"artifacts", "containers"}
        /\ source' = source /\ at' \in {at, at + 1}
    BY <1>12 DEF Reader!DeclareArtifact, Reader!ForNext, Reader!DeclareVoid
  <2>2. Kept(built, built', 0)
    BY <1>2, <1>12, ArtifactGoes, VoidGoes
  <2>3. /\ reading \in EarlyPhases /\ reading' \in EarlyPhases /\ at' \in Nat
        /\ reading \in Beforehand /\ reading # "bodies"
        /\ reading' \notin {"bodies", "check", "done"}
    BY <1>2, <2>1 DEF EarlyPhases, Beforehand
  <2>4. Reader!Count(built'.tables, "expressions") = Reader!Count(built.tables, "expressions")
    BY <2>2, <2>3, ExpressionsStay
  <2>5. Embodied(reading', at', built', source.modules)
    BY <1>2, <2>3, <2>4 DEF Embodied
  <2> QED BY <2>1, <2>2, <2>3, <2>5, PhaseMerges
<1>13. CASE Reader!NextPhase
  BY <1>13, NextPhaseMerges
<1>14. CASE Reader!Validate \/ Reader!Returned
  <2>1. reading' = "done" /\ source' = source /\ at' = at /\ built' = built
    BY <1>14 DEF Reader!Validate, Reader!Returned, Reader!vars
  <2>2. Kept(built, built', 0) /\ at' \in Nat
    BY <1>2, <2>1, KeptAsItIs
  <2>3. reading \in {"check", "done"}
    BY <1>14 DEF Reader!Validate, Reader!Returned
  <2>4. reading \in LatePhases \ {"sources"} /\ reading' \in LatePhases \ {"sources"}
    BY <2>1, <2>3 DEF LatePhases
  <2>5. Embodied(reading', at', built', source.modules)
    BY <1>1, <1>2, <2>1, <2>3 DEF Embodied, Beforehand, EarlyPhases
  <2> QED BY <2>1, <2>2, <2>4, <2>5, PhaseMerges
<1> QED BY <1>3, <1>4, <1>5, <1>6, <1>7, <1>8, <1>9, <1>10, <1>11, <1>12, <1>13,
           <1>14 DEF Reader!Next

\* The tables of a file are read only.
LEMMA FileMerges ==
  ASSUME Merges, ~ Reader!FromProject, Reader!Next
  PROVE  Merges'
<1>1. source' = source
  BY DEF Reader!Next, Reader!DeclareModules, Reader!DeclareUnresolved,
         Reader!DeclareArtifact, Reader!DeclareVoid, Reader!DeclareContainers,
         Reader!DeclareMembers, Reader!DeclareFunctions, Reader!DeclareSources,
         Reader!DeclareCalls, Reader!DeclareMemory, Reader!DeclareBodies,
         Reader!NextPhase, Reader!Validate, Reader!Returned, Reader!ForNext, Reader!vars
<1>2. at' \in {at, at + 1, 0}
  BY DEF Reader!Next, Reader!DeclareModules, Reader!DeclareUnresolved,
         Reader!DeclareArtifact, Reader!DeclareVoid, Reader!DeclareContainers,
         Reader!DeclareMembers, Reader!DeclareFunctions, Reader!DeclareSources,
         Reader!DeclareCalls, Reader!DeclareMemory, Reader!DeclareBodies,
         Reader!NextPhase, Reader!Validate, Reader!Returned, Reader!ForNext, Reader!vars
<1>3. ~ Reader!FromProject'
  BY <1>1 DEF Reader!FromProject
<1> QED BY <1>2, <1>3 DEF Merges

-----------------------------------------------------------------------------
(* What a project is merged from and into.                                 *)

\* The crawl finds what is parsed, and what is parsed is merged.
MergeInv == CrawlInv /\ Parsable /\ OfProgram /\ Merges

LEMMA StartMerges == Start => MergeInv
<1> SUFFICES ASSUME Start PROVE MergeInv
  OBVIOUS
<1>1. project = Nothing /\ source = NoSource /\ at = 0
  BY DEF Start, StartRead, StartEmit, ReaderIdle, Init
<1>2. ~ IsRead
  BY <1>1, ProjectKinds DEF IsRead
<1>3. ~ Reader!FromProject
  BY <1>1 DEF Reader!FromProject, NoSource
<1>4. OfProgram
  BY DEF Start, StartRead, StartEmit, OfProgram
<1> QED BY <1>1, <1>2, <1>3, <1>4, StartCrawlInv DEF MergeInv, Parsable, Merges

\* What is parsed stays where no file is read.
LEMMA ParsableStays ==
  ASSUME Parsable, UNCHANGED vars
  PROVE  Parsable'
<1>1. disk' = disk /\ request' = request /\ found' = found /\ project' = project
  BY DEF vars
<1>2. Ordered' = Ordered
  BY <1>1, OrderStays
<1>3. Files' = Files
  BY <1>1, <1>2 DEF Files, NoRoot
<1>4. Linked => Linked'
  BY <1>1, <1>3, LinkedStays
<1> QED BY <1>1, <1>3, <1>4 DEF Parsable, IsRead, NoRoot

\* Merging starts with nothing built.
LEMMA HandMerges ==
  ASSUME Merges, NEW given, Hand(given),
         given.kind = "Project" => Listed(given)
  PROVE  Merges'
<1>1. /\ source' = given /\ at' = at /\ at \in Nat
      /\ reading' = Reader!FirstPhase(given) /\ built' = Reader!NothingBuilt(given)
  BY DEF Hand, Merges
<1>2. CASE given.kind = "Project"
  <2>1. PICK b : b = Reader!NothingBuilt(given)
    OBVIOUS
  <2>2. /\ DOMAIN b = Parts /\ WellMade(b.tables)
        /\ Known(b.names, Types(b))
        /\ Known(b.structs, Structs(b)) /\ Known(b.functions, Functions(b))
        /\ Attributed(b.tables, b.passed_in)
        /\ \A modules : Told(b.tables, b.functions, modules)
        /\ Functions(b) = 0 /\ Reader!Count(b.tables, "expressions") = 0
    BY <1>2, <2>1, NothingIsMade
  <2>3. Made(built)'
    BY <1>1, <2>1, <2>2 DEF Made, Types, Structs, Functions
  <2>4. reading' = "modules" /\ at' \in Nat
    BY <1>1, <1>2 DEF Reader!FirstPhase
  <2>5. Stands("modules", at, b, given.modules)
    BY <2>2 DEF Stands, Counted, Indexed, Embodied, Begun, EarlyPhases, LatePhases, Beforehand
  <2>6. Stands(reading, at, built, source.modules)'
    BY <1>1, <2>1, <2>4, <2>5
  <2>7. Listed(source)'
    BY <1>1, <1>2
  <2> QED BY <2>3, <2>4, <2>6, <2>7 DEF Merges
<1>3. CASE given.kind # "Project"
  <2>1. ~ Reader!FromProject'
    BY <1>1, <1>3 DEF Reader!FromProject
  <2> QED BY <1>1, <2>1 DEF Merges
<1> QED BY <1>2, <1>3

LEMMA StepMerges == MergeInv /\ [NextIntake]_all => MergeInv'
<1> SUFFICES ASSUME MergeInv, [NextIntake]_all PROVE MergeInv'
  OBVIOUS
<1>1. CrawlInv /\ Parsable /\ OfProgram /\ Merges
  BY DEF MergeInv
<1>2. CrawlInv'
  BY <1>1, StepCrawlInv
<1>3. Merges /\ UNCHANGED reader_vars => Merges'
  BY MadeNext DEF reader_vars, Merges, Reader!FromProject
<1>4. command' = command /\ contents' = contents /\ disk' = disk => OfProgram'
  BY <1>1 DEF OfProgram
<1>5. CASE FollowImports
  <2>1. command = "read" /\ Crawls /\ Next
    BY <1>1, <1>5 DEF FollowImports, CrawlInv
  <2>2. Parsable'
    BY <1>1, <2>1, StepParsable
  <2>3. disk' = disk
    BY <2>1 DEF Next, StartAtFile, StartAtScript, ScriptFails, TooMany, Again, Read,
                AskFails, Crawled, Assemble, Returned, Fail, vars
  <2> QED BY <1>1, <1>2, <1>3, <1>4, <1>5, <2>2, <2>3 DEF FollowImports, MergeInv
<1>6. ASSUME UNCHANGED vars, command' = command, contents' = contents, Merges'
      PROVE  MergeInv'
  BY <1>1, <1>2, <1>4, <1>6, ParsableStays DEF MergeInv, vars
<1>7. CASE BuildProject
  <2>1. IsRead /\ Hand(Parsed)
    BY <1>7 DEF BuildProject
  <2>2. command = "read"
    BY <1>1, <2>1, ProjectKinds DEF CrawlInv, IsRead
  <2>3. Listed(Parsed)
    BY <1>1, <2>1, <2>2, ParsedIsListed
  <2>4. Merges'
    BY <1>1, <2>1, <2>3, HandMerges
  <2> QED BY <1>6, <2>1, <2>4 DEF Hand
<1>8. CASE ReadFactFile
  BY <1>1, <1>3, <1>6, <1>8 DEF ReadFactFile
<1>9. CASE GenerateFromBytes
  <2>1. Hand(Decoded) /\ Decoded.kind # "Project"
    BY <1>9 DEF GenerateFromBytes, Decoded
  <2>2. Merges'
    BY <1>1, <2>1, HandMerges
  <2> QED BY <1>6, <2>1, <2>2 DEF Hand
<1>10. CASE MergeAndValidate
  <2>1. Merges'
    BY <1>1, <1>10, FrontendMerges, FileMerges DEF MergeAndValidate
  <2> QED BY <1>6, <1>10, <2>1 DEF MergeAndValidate
<1>11. CASE UNCHANGED all
  BY <1>1, <1>3, <1>6, <1>11 DEF all
<1> QED BY <1>5, <1>7, <1>8, <1>9, <1>10, <1>11 DEF NextIntake

\* The range of a struct is the rows of its fields, and that of a function the rows
\* of its parameters, after every declaration of every file, and no column has a
\* row that another of its table lacks (build.rs:343-358; lib.rs:392-2536).
THEOREM RangesHoldTheirRows == SpecIntake => []RangesAreOwners
<1>1. MergeInv => RangesAreOwners
  <2> SUFFICES ASSUME MergeInv, Reader!FromProject PROVE RangesAreOwners
    BY DEF RangesAreOwners, Reader!RangesAreOwners
  <2> QED BY MadeIsRight DEF MergeInv, Merges
<1> QED BY <1>1, StartMerges, StepMerges, PTL DEF SpecIntake

\* Where the rows of what is done are attributed, they are as the property says.
LEMMA AttributedIsAllocated ==
  ASSUME Made(built), Sourced(built.tables)
  PROVE  Reader!AllocatorIsOfItsFunction
<1>1. PICK t : t = built.tables
  OBVIOUS
<1>2. /\ Attributed(t, built.passed_in) /\ Sourced(t)
      /\ \A table \in {"allocator_sources", "call_arguments", "memory_operations"} :
           Reader!Count(t, table) \in Nat
  <2>1. {"allocator_sources", "call_arguments", "memory_operations"} \subseteq Reader!Table
    BY DEF Reader!Table, Reader!Columns
  <2> QED BY <1>1, <2>1, RowsAreCounted DEF Made, WellMade
<1> DEFINE Attributes(from, function) ==
      Reader!At(t.allocator_sources.kind, from) = "Parameter" =>
        Reader!At(t.allocator_sources.function, from) = function
<1>3. ASSUME NEW from, NEW function, BelongsTo(t, from, function)
      PROVE  Attributes(from, function)
  <2>1. CASE from \in 0 .. 2
    <3>1. from + 1 \in 1 .. 3 /\ from + 1 =< Reader!Count(t, "allocator_sources")
      <4>1. PICK n : n = Reader!Count(t, "allocator_sources")
        OBVIOUS
      <4>2. 3 =< n /\ n \in Nat
        BY <1>2, <4>1 DEF Sourced
      <4> QED BY <2>1, <4>1, <4>2
    <3>2. t.allocator_sources.kind[from + 1] # "Parameter"
      BY <1>2, <3>1, Zenon DEF Attributed, Fixed
    <3> QED BY <3>2 DEF Reader!At
  <2>2. CASE from \notin 0 .. 2
    BY <1>3, <2>2 DEF BelongsTo, Reader!At
  <2> QED BY <2>1, <2>2
<1> HIDE DEF Attributes
<1>4. ASSUME NEW row \in Reader!RowsIn(t, "call_arguments")
      PROVE  Attributes(Reader!At(t.call_arguments.source, row),
                Reader!At(t.calls.caller, Reader!At(t.call_arguments.call, row)))
  <2>1. row + 1 \in 1 .. Reader!Count(t, "call_arguments")
    <3>1. PICK n : n = Reader!Count(t, "call_arguments")
      OBVIOUS
    <3>2. row \in 0 .. n - 1 /\ n \in Nat
      BY <1>2, <1>4, <3>1 DEF Reader!RowsIn
    <3> QED BY <3>1, <3>2
  <2>2. BelongsTo(t, t.call_arguments.source[row + 1],
                  t.calls.caller[t.call_arguments.call[row + 1] + 1])
    BY <1>2, <2>1, Zenon DEF Attributed, ArgumentsBelong
  <2>3. Attributes(t.call_arguments.source[row + 1],
           t.calls.caller[t.call_arguments.call[row + 1] + 1])
    BY <1>3, <2>2
  <2> QED BY <2>3 DEF Reader!At
<1>5. ASSUME NEW row \in Reader!RowsIn(t, "memory_operations")
      PROVE  Attributes(Reader!At(t.memory_operations.allocator, row),
                Reader!At(t.memory_operations.function, row))
  <2>1. row + 1 \in 1 .. Reader!Count(t, "memory_operations")
    <3>1. PICK n : n = Reader!Count(t, "memory_operations")
      OBVIOUS
    <3>2. row \in 0 .. n - 1 /\ n \in Nat
      BY <1>2, <1>5, <3>1 DEF Reader!RowsIn
    <3> QED BY <3>1, <3>2
  <2>2. BelongsTo(t, t.memory_operations.allocator[row + 1],
                  t.memory_operations.function[row + 1])
    BY <1>2, <2>1, Zenon DEF Attributed, OperationsBelong
  <2>3. Attributes(t.memory_operations.allocator[row + 1], t.memory_operations.function[row + 1])
    BY <1>3, <2>2
  <2> QED BY <2>3 DEF Reader!At
<1> QED BY <1>1, <1>4, <1>5 DEF Reader!AllocatorIsOfItsFunction, Attributes

\* The allocator that a call is passed, or that memory is allocated or freed with, is
\* a parameter of no function but the one whose body does it, after every
\* declaration of every file of every project, with functions of the same name in
\* different files or without (lib.rs:632-633, 688-728).
THEOREM AllocatorsAreOfTheirFunctions == SpecIntake => []AllocatorIsOfItsFunction
<1>1. MergeInv => AllocatorIsOfItsFunction
  <2> SUFFICES ASSUME MergeInv, Reader!Done, Reader!FromProject
               PROVE  Reader!AllocatorIsOfItsFunction
    BY DEF AllocatorIsOfItsFunction, Reader!AllocatorIsOfItsFunction
  <2>1. Made(built) /\ Begun(reading, at, built)
    BY DEF MergeInv, Merges, Stands
  <2>2. reading \in LatePhases \ {"sources"}
    BY DEF Reader!Done, LatePhases
  <2>3. Sourced(built.tables)
    BY <2>1, <2>2 DEF Begun
  <2> QED BY <2>1, <2>3, AttributedIsAllocated
<1> QED BY <1>1, StartMerges, StepMerges, PTL DEF SpecIntake

\* Functions of one module differ in their names, as sequences of names do.
LEMMA NamesAreApart ==
  ASSUME Listed(source), Reader!NamesAreDistinct
  PROVE  NamesApart(source.modules)
<1>1. SUFFICES ASSUME NEW m \in 1 .. Len(source.modules),
                      NEW i \in 1 .. Len(source.modules[m].functions),
                      NEW j \in 1 .. Len(source.modules[m].functions),
                      source.modules[m].functions[i].name = source.modules[m].functions[j].name
               PROVE  i = j
  BY DEF NamesApart
<1>2. PICK xs : xs = source.modules[m].functions
  OBVIOUS
<1>3. DOMAIN xs = 1 .. Len(xs)
  BY <1>2, InSequence DEF Listed, IsModule, IsText
<1>4. PICK names : names = [k \in DOMAIN xs |-> xs[k].name]
  BY Zenon
<1>5. m \in DOMAIN source.modules
  BY DEF Listed
<1>6. Reader!IsInjective(names)
  BY <1>2, <1>4, <1>5 DEF Reader!NamesAreDistinct
<1>7. DOMAIN names = DOMAIN xs /\ \A k \in DOMAIN xs : names[k] = xs[k].name
  BY <1>4
<1>8. i \in DOMAIN names /\ j \in DOMAIN names /\ names[i] = names[j]
  BY <1>1, <1>2, <1>3, <1>7
<1> QED BY <1>6, <1>8 DEF Reader!IsInjective

\* What is told of functions whose names differ is as the property says.
LEMMA ToldIsOfDistinctFunctions ==
  ASSUME Made(built), Listed(source), Functions(built) = Len(Listing(source.modules)),
         Bodied(built.tables, Len(Listing(source.modules)), source.modules),
         Len(Reader!AllFunctions) =< NoIndex, Reader!NamesAreDistinct,
         Reader!FromProject, Reader!Done
  PROVE  Reader!FactsOfDistinctFunctions
<1>1. PICK t, all_ : t = built.tables /\ all_ = Listing(source.modules)
  BY Zenon
<1>2. Reader!AllFunctions = all_
  BY <1>1, CatalogueIsAll DEF Listing, FunctionsUpTo
<1>3. NamesApart(source.modules)
  BY NamesAreApart
<1>4. /\ LinesTold(t, source.modules) /\ BodiesTold(t, source.modules)
      /\ CallsTold(t, source.modules) /\ FreesTold(t, source.modules)
  BY <1>1, <1>3 DEF Made, Told
<1>5. Reader!Count(t, "functions") = Len(all_)
  BY <1>1 DEF Functions
<1>6. \A table \in {"functions", "calls", "memory_operations"} :
        Reader!Count(t, table) \in Nat
  <2>1. {"functions", "calls", "memory_operations"} \subseteq Reader!Table
    BY DEF Reader!Table, Reader!Columns
  <2> QED BY <1>1, <2>1, RowsAreCounted DEF Made, WellMade
<1>7. ASSUME NEW table \in {"functions", "calls", "memory_operations"},
             NEW row \in Reader!RowsIn(t, table)
      PROVE  row + 1 \in 1 .. Reader!Count(t, table)
  <2>1. PICK n \in Nat : n = Reader!Count(t, table)
    BY <1>6
  <2> QED BY <1>7, <2>1 DEF Reader!RowsIn
<1>8. \A i \in 1 .. Len(all_) : all_[i].body => t.functions.body[i] # NoIndex
  BY <1>1, <1>2, <1>3 DEF Bodied
<1>9. \A handle : Reader!ReadFrom(handle) = DeclaredAs(source.modules, handle)
  BY <1>1, <1>2 DEF Reader!ReadFrom, DeclaredAs
<1>10. ASSUME NEW function \in Reader!RowsIn(t, "functions")
       PROVE  LET body == Reader!At(t.functions.body, function)
              IN  IF Reader!ReadFrom(function).body
                    THEN body # NoIndex
                         /\ Reader!At(t.expressions.line, body) =
                              Reader!At(t.functions.line, function)
                    ELSE body = NoIndex
  <2>1. PICK i : i = function + 1
    OBVIOUS
  <2>2. i \in 1 .. Reader!Count(t, "functions") /\ i \in 1 .. Len(all_)
    BY <1>5, <1>7, <2>1
  <2>3. Reader!ReadFrom(function) = all_[i]
    BY <1>2, <2>1 DEF Reader!ReadFrom
  <2>4. t.functions.line[i] = all_[i].line
    BY <1>1, <1>4, <2>2 DEF LinesTold
  <2>5. t.functions.body[i] # NoIndex =>
          all_[i].body /\ t.expressions.line[t.functions.body[i] + 1] = all_[i].line
    BY <1>1, <1>4, <2>2 DEF BodiesTold
  <2>6. all_[i].body => t.functions.body[i] # NoIndex
    BY <1>8, <2>2
  <2>7. Reader!At(t.functions.body, function) = t.functions.body[i]
        /\ Reader!At(t.functions.line, function) = t.functions.line[i]
    BY <2>1 DEF Reader!At
  <2>8. Reader!At(t.expressions.line, t.functions.body[i]) =
          t.expressions.line[t.functions.body[i] + 1]
    BY DEF Reader!At
  <2> QED BY <2>3, <2>4, <2>5, <2>6, <2>7, <2>8
<1>11. Reader!BodyIsItsOwn
  BY <1>1, <1>10 DEF Reader!BodyIsItsOwn
<1>12. ASSUME NEW call \in Reader!RowsIn(t, "calls")
       PROVE  Makes(Reader!ReadFrom(Reader!At(t.calls.caller, call)),
                    Reader!ReadFrom(Reader!At(t.calls.callee, call)).name)
  <2>1. PICK i : i = call + 1
    OBVIOUS
  <2>2. i \in 1 .. Reader!Count(t, "calls")
    BY <1>7, <2>1
  <2>3. Makes(DeclaredAs(source.modules, t.calls.caller[i]),
              DeclaredAs(source.modules, t.calls.callee[i]).name)
    BY <1>4, <2>2 DEF CallsTold
  <2> QED BY <1>9, <2>1, <2>3 DEF Reader!At
<1>13. ASSUME NEW row \in Reader!RowsIn(t, "memory_operations"),
              Reader!At(t.memory_operations.kind, row) = "Free"
       PROVE  \E name \in Reader!Freeing :
                Makes(Reader!ReadFrom(Reader!At(t.memory_operations.function, row)), name)
  <2>1. PICK i : i = row + 1
    OBVIOUS
  <2>2. i \in 1 .. Reader!Count(t, "memory_operations") /\ t.memory_operations.kind[i] = "Free"
    BY <1>7, <1>13, <2>1 DEF Reader!At
  <2>3. \E name \in Reader!Freeing :
          Makes(DeclaredAs(source.modules, t.memory_operations.function[i]), name)
    BY <1>4, <2>2 DEF FreesTold
  <2> QED BY <1>9, <2>1, <2>3 DEF Reader!At
<1> QED BY <1>1, <1>11, <1>12, <1>13 DEF Reader!FactsOfDistinctFunctions, Makes

\* Where no file declares two functions of one name, the body, the calls and the
\* frees of a function are those it was written with, though other files declare
\* functions of its name and are read before it, in whatever order: as long as
\* there is an index for every function that is not the index of no row, which is
\* what a handle of 32 bits leaves room for (lib.rs:632-633, handles.rs:1).
THEOREM DistinctFunctionsAreTold ==
  SpecIntake => [](Len(Reader!AllFunctions) =< NoIndex => FactsOfDistinctFunctions)
<1>1. MergeInv => (Len(Reader!AllFunctions) =< NoIndex => FactsOfDistinctFunctions)
  <2> SUFFICES ASSUME MergeInv, Reader!Done, Reader!FromProject, Reader!NamesAreDistinct,
                      Len(Reader!AllFunctions) =< NoIndex
               PROVE  Reader!FactsOfDistinctFunctions
    BY DEF FactsOfDistinctFunctions, Reader!FactsOfDistinctFunctions
  <2>1. /\ Made(built) /\ Listed(source)
        /\ Counted(reading, at, built, source.modules)
        /\ Embodied(reading, at, built, source.modules)
    BY DEF MergeInv, Merges, Stands
  <2>2. reading = "done" /\ reading \in LatePhases
    BY DEF Reader!Done, LatePhases
  <2>3. Functions(built) = Len(Listing(source.modules))
    BY <2>1, <2>2 DEF Counted
  <2>4. Bodied(built.tables, Len(Listing(source.modules)), source.modules)
    BY <2>1, <2>2 DEF Embodied
  <2> QED BY <2>1, <2>3, <2>4, ToldIsOfDistinctFunctions
<1> QED BY <1>1, StartMerges, StepMerges, PTL DEF SpecIntake

-----------------------------------------------------------------------------
(* The type that a name in a member's type is resolved to.                 *)

\* A type is so many times around another.
Leads(t, type, k, inner) ==
  \E chain : /\ chain[0] = inner /\ chain[k] = type
             /\ \A i \in 0 .. k : chain[i] \in 0 .. Reader!Count(t, "types") - 1
             /\ \A i \in 1 .. k : t.types.element[chain[i] + 1] = chain[i - 1]

LEMMA LeadsToItself ==
  ASSUME NEW t, NEW type \in 0 .. Reader!Count(t, "types") - 1
  PROVE  Leads(t, type, 0, type)
<1>1. PICK chain : chain = [ i \in 0 .. 0 |-> type ]
  BY Zenon
<1>2. chain[0] = type /\ \A i \in 0 .. 0 : chain[i] = type
  BY <1>1
<1> QED BY <1>2 DEF Leads

LEMMA LeadsYet ==
  ASSUME NEW t, Shaped(t), NEW u, Shaped(u), Lasts(t, u), NEW type, NEW k \in Nat,
         NEW inner, Leads(t, type, k, inner)
  PROVE  Leads(u, type, k, inner)
<1>1. PICK chain : /\ chain[0] = inner /\ chain[k] = type
                   /\ \A i \in 0 .. k : chain[i] \in 0 .. Reader!Count(t, "types") - 1
                   /\ \A i \in 1 .. k : t.types.element[chain[i] + 1] = chain[i - 1]
  BY DEF Leads
<1>2. /\ Reader!Count(t, "types") \in Nat /\ Reader!Count(u, "types") \in Nat
      /\ Reader!Count(t, "types") =< Reader!Count(u, "types")
      /\ \A i \in 1 .. Reader!Count(t, "types") : u.types.element[i] = t.types.element[i]
  BY TypesBuilt, TypesLast
<1>3. \A i \in 0 .. k : chain[i] \in 0 .. Reader!Count(u, "types") - 1
  BY <1>1, <1>2
<1>4. ASSUME NEW i \in 1 .. k PROVE u.types.element[chain[i] + 1] = chain[i - 1]
  <2>1. chain[i] \in 0 .. Reader!Count(t, "types") - 1
    BY <1>1
  <2>2. chain[i] + 1 \in 1 .. Reader!Count(t, "types")
    BY <1>2, <2>1
  <2> QED BY <1>1, <1>2, <2>2
<1> QED BY <1>1, <1>3, <1>4 DEF Leads

\* A type around it is around it once more.
LEMMA LeadsFurther ==
  ASSUME NEW t, NEW type, NEW k \in Nat, NEW inner, Leads(t, type, k, inner),
         NEW next \in 0 .. Reader!Count(t, "types") - 1, t.types.element[next + 1] = type
  PROVE  Leads(t, next, k + 1, inner)
<1>1. PICK chain : /\ chain[0] = inner /\ chain[k] = type
                   /\ \A i \in 0 .. k : chain[i] \in 0 .. Reader!Count(t, "types") - 1
                   /\ \A i \in 1 .. k : t.types.element[chain[i] + 1] = chain[i - 1]
  BY DEF Leads
<1>2. PICK longer : longer = [ i \in 0 .. k + 1 |-> IF i = k + 1 THEN next ELSE chain[i] ]
  BY Zenon
<1>3. longer[k + 1] = next /\ \A i \in 0 .. k : longer[i] = chain[i]
  BY <1>2
<1>4. longer[0] = inner /\ \A i \in 0 .. k + 1 : longer[i] \in 0 .. Reader!Count(t, "types") - 1
  BY <1>1, <1>3
<1>5. ASSUME NEW i \in 1 .. k + 1 PROVE t.types.element[longer[i] + 1] = longer[i - 1]
  <2>1. CASE i = k + 1
    BY <1>1, <1>3, <2>1
  <2>2. CASE i # k + 1
    <3>1. i \in 1 .. k /\ i \in 0 .. k /\ i - 1 \in 0 .. k
      BY <2>2
    <3> QED BY <1>1, <1>3, <3>1
  <2> QED BY <2>1, <2>2
<1> QED BY <1>3, <1>4, <1>5 DEF Leads

\* What is under it is that other.
LEMMA LeadsUnwrapped ==
  ASSUME NEW t, NEW type, NEW k \in Nat, NEW inner, Leads(t, type, k, inner),
         NEW xs, DOMAIN xs = 1 .. k
  PROVE  Reader!Unwrapped(t, type, xs) = inner
<1>1. PICK chain : /\ chain[0] = inner /\ chain[k] = type
                   /\ \A i \in 1 .. k : t.types.element[chain[i] + 1] = chain[i - 1]
  BY DEF Leads
<1>2. PICK after : /\ after[0] = type
                   /\ \A i \in 1 .. k : after[i] = Reader!At(t.types.element, after[i - 1])
                   /\ after[k] = Reader!Unwrapped(t, type, xs)
  BY ElementsTurn
<1> DEFINE So == { i \in Nat : i =< k => after[i] = chain[k - i] }
<1>3. 0 \in So
  BY <1>1, <1>2
<1>4. ASSUME NEW i \in Nat, i \in So PROVE i + 1 \in So
  <2>1. SUFFICES ASSUME i + 1 =< k PROVE after[i + 1] = chain[k - (i + 1)]
    OBVIOUS
  <2>2. i + 1 \in 1 .. k /\ (i + 1) - 1 = i /\ i =< k /\ k - i \in 1 .. k
        /\ (k - i) - 1 = k - (i + 1)
    BY <2>1
  <2>3. after[i] = chain[k - i]
    BY <1>4, <2>2
  <2>4. after[i + 1] = t.types.element[after[i] + 1]
    BY <1>2, <2>2 DEF Reader!At
  <2> HIDE DEF So
  <2> QED BY <1>1, <2>2, <2>3, <2>4
<1> HIDE DEF So
<1>5. k \in So
  BY <1>3, <1>4, CountingUp
<1> USE DEF So
<1>6. after[k] = chain[k - k] /\ k - k = 0
  BY <1>5
<1> QED BY <1>1, <1>2, <1>6

\* Types are resolved without a struct or a field.
Apart(t, u) == u.structs = t.structs /\ u.fields = t.fields

LEMMA StringApart ==
  ASSUME NEW t, WellMade(t), NEW text
  PROVE  Apart(t, Reader!PushString(t, text))
<1>1. PICK row : row = [text |-> text]
  BY Zenon
<1>2. /\ Reader!PushString(t, text) = Reader!Push(t, "strings", row)
      /\ {"structs", "fields"} \subseteq Reader!Table \ {"strings"}
      /\ "strings" \in Reader!Table /\ \A name : <<"strings", name>> \notin Numbered
  BY <1>1, TheColumns DEF Reader!PushString, Ranging, Numbered
<1>3. \A other \in Reader!Table \ {"strings"} :
        Reader!Push(t, "strings", row)[other] = t[other]
  BY <1>2, PushShapes DEF WellMade
<1> QED BY <1>2, <1>3 DEF Apart

LEMMA TypeApart ==
  ASSUME NEW t, WellMade(t), NEW kind, NEW element, NEW name, NEW module
  PROVE  Apart(t, Reader!PushType(t, kind, element, name, module))
<1>1. PICK row : row = [kind |-> kind, element |-> element, name |-> name, module |-> module]
  BY Zenon
<1>2. /\ Reader!PushType(t, kind, element, name, module) = Reader!Push(t, "types", row)
      /\ {"structs", "fields"} \subseteq Reader!Table \ {"types"}
      /\ "types" \in Reader!Table /\ \A name_ : <<"types", name_>> \notin Numbered
  BY <1>1, TheColumns DEF Reader!PushType, Ranging, Numbered
<1>3. \A other \in Reader!Table \ {"types"} :
        Reader!Push(t, "types", row)[other] = t[other]
  BY <1>2, PushShapes DEF WellMade
<1> QED BY <1>2, <1>3 DEF Apart

LEMMA NameApart ==
  ASSUME NEW b, Made(b), NEW m, NEW name
  PROVE  Apart(b.tables, Reader!ResolveName(b, m, name).tables)
<1>1. WellMade(b.tables) /\ DOMAIN b = Parts
  BY DEF Made
<1>2. Apart(b.tables, Reader!Typed(b, Reader!PushType(b.tables, "Scalar", NoIndex, NoIndex,
                                                      Reader!RootModule)).tables)
  <2>1. PICK t : t = Reader!PushType(b.tables, "Scalar", NoIndex, NoIndex, Reader!RootModule)
    OBVIOUS
  <2>2. Apart(b.tables, t)
    BY <1>1, <2>1, TypeApart
  <2>3. Reader!Typed(b, t).tables = t
    BY <1>1 DEF Reader!Typed, Parts
  <2> QED BY <2>1, <2>2, <2>3
<1>3. ASSUME NEW type PROVE Apart(b.tables, [b EXCEPT !.type = type].tables)
  BY <1>1 DEF Apart, Parts
<1>4. Apart(b.tables, Reader!PushOpaque(b, m, Reader!Last(name)).tables)
  <2>1. PICK s : s = Reader!PushString(b.tables, Reader!Last(name))
    OBVIOUS
  <2>2. WellMade(s) /\ Apart(b.tables, s)
    BY <1>1, <2>1, StringMade, StringApart
  <2>3. PICK t : t = Reader!PushType(s, "Opaque", NoIndex, Reader!Newest(s, "strings"), m)
    OBVIOUS
  <2>4. Apart(s, t)
    BY <2>2, <2>3, TypeApart
  <2>5. PICK next : next = Reader!Typed(b, t)
    OBVIOUS
  <2>6. DOMAIN next = Parts /\ next.tables = t
    BY <1>1, <2>5 DEF Reader!Typed, Parts
  <2>7. Reader!PushOpaque(b, m, Reader!Last(name)) =
          [next EXCEPT !.names = Reader!Remember(@, m, Reader!Last(name), next.type)]
    BY <2>1, <2>3, <2>5 DEF Reader!PushOpaque
  <2>8. Reader!PushOpaque(b, m, Reader!Last(name)).tables = t
    BY <2>6, <2>7 DEF Parts
  <2> QED BY <2>2, <2>4, <2>8 DEF Apart
<1> QED BY <1>2, <1>3, <1>4 DEF Reader!ResolveName

\* What is wrapped comes to a type that is so many times around it.
LEMMA WrapsLead ==
  ASSUME NEW b, Made(b), NEW xs, NEW n \in Nat, DOMAIN xs = 1 .. n
  PROVE  LET c == Reader!EachWrap(b, xs)
         IN  /\ Apart(b.tables, c.tables)
             /\ b.type \in 0 .. Types(b) - 1 => Leads(c.tables, c.type, n, b.type)
<1>1. PICK after : /\ after[0] = b
                   /\ \A i \in 1 .. n : after[i] = Reader!Wrap(after[i - 1], xs[i])
                   /\ after[n] = Reader!EachWrap(b, xs)
  BY WrapsTurn
<1> DEFINE Good(c, i) ==
             /\ Kept(b, c, 0) /\ Apart(b.tables, c.tables)
             /\ b.type \in 0 .. Types(b) - 1 => Leads(c.tables, c.type, i, b.type)
           So == { i \in Nat : i =< n => Good(after[i], i) }
<1>2. 0 \in So
  <2>1. Kept(b, b, 0) /\ Apart(b.tables, b.tables)
    BY KeptAsItIs DEF Apart
  <2>2. b.type \in 0 .. Types(b) - 1 => Leads(b.tables, b.type, 0, b.type)
    BY LeadsToItself DEF Types
  <2> QED BY <1>1, <2>1, <2>2
<1>3. ASSUME NEW i \in Nat, i \in So PROVE i + 1 \in So
  <2>1. SUFFICES ASSUME i + 1 =< n PROVE Good(after[i + 1], i + 1)
    OBVIOUS
  <2>2. i + 1 \in 1 .. n /\ (i + 1) - 1 = i /\ i =< n
    BY <2>1
  <2>3. PICK c, d, kind : c = after[i] /\ d = after[i + 1] /\ kind = xs[i + 1]
    BY Zenon
  <2>4. Good(c, i) /\ d = Reader!Wrap(c, kind)
    BY <1>1, <1>3, <2>2, <2>3
  <2>5. Made(c) /\ WellMade(c.tables) /\ Shaped(c.tables) /\ DOMAIN c = Parts
    BY <2>4 DEF Kept, Made, WellMade
  <2>6. Kept(c, d, 0)
    BY <2>4, <2>5, WrapKept
  <2>7. Kept(b, d, 0)
    BY <2>4, <2>6, KeptTwice
  <2>8. PICK t : t = Reader!PushType(c.tables, kind, c.type, NoIndex, Reader!RootModule)
    OBVIOUS
  <2>9. d.tables = t /\ d.type = Reader!Newest(t, "types")
    BY <2>4, <2>5, <2>8 DEF Reader!Wrap, Reader!Typed, Parts
  <2>10. Apart(b.tables, d.tables)
    BY <2>4, <2>5, <2>8, <2>9, TypeApart DEF Apart
  <2>11. ASSUME b.type \in 0 .. Types(b) - 1
         PROVE  Leads(d.tables, d.type, i + 1, b.type)
    <3>1. PICK k : k = Reader!Count(c.tables, "types")
      OBVIOUS
    <3>2. k \in Nat /\ Reader!Count(t, "types") = k + 1 /\ t.types.element[k + 1] = c.type
      BY <2>5, <2>8, <3>1, TypePushed
    <3>3. d.type = k /\ k \in 0 .. Reader!Count(t, "types") - 1
      BY <2>9, <3>2 DEF Reader!Newest
    <3>4. Shaped(t) /\ Lasts(c.tables, t)
      BY <2>6, <2>9 DEF Kept, Made, WellMade
    <3>5. Leads(t, c.type, i, b.type)
      BY <2>4, <2>5, <2>11, <3>4, LeadsYet
    <3> QED BY <2>9, <3>2, <3>3, <3>5, LeadsFurther
  <2> QED BY <2>3, <2>7, <2>10, <2>11
<1> HIDE DEF So
<1>4. n \in So
  BY <1>2, <1>3, CountingUp
<1> USE DEF So
<1>5. Good(after[n], n)
  BY <1>4
<1> QED BY <1>1, <1>5

\* Where a text says its last part is, is one module, of those there are.
LEMMA QualifiedIsOne ==
  ASSUME Listed(source), NEW m \in Nat, m < Len(source.modules),
         IsMap(by_name, Len(source.modules)), NEW text
  PROVE  \A p, q \in Reader!Qualified(m, text) :
           p \in 0 .. Len(source.modules) - 1 /\ p = q
<1>1. m + 1 \in 1 .. Len(source.modules) /\ Len(source.modules) \in Nat
  BY DEF Listed
<1>2. PICK imports : imports = source.modules[m + 1].imports
  OBVIOUS
<1>3. DOMAIN imports = 1 .. Len(imports) /\ Len(imports) \in Nat
  BY <1>1, <1>2, InSequence DEF Listed, IsModule
<1>4. PICK named : named = { i \in Reader!ImportsOf(m) : imports[i].alias = text[Len(text) - 1] }
  BY Zenon
<1>5. \A i \in named : i \in Nat /\ imports[i].target \in DOMAIN by_name
  BY <1>2, <1>3, <1>4 DEF Reader!ImportsOf, Reader!ModuleAt
<1>6. \A i, j \in Reader!Earliest(named) : i \in named /\ i = j
  BY <1>5 DEF Reader!Earliest
<1>7. Reader!Qualified(m, text) =
        IF Len(text) = 1 THEN {m}
        ELSE { by_name[imports[i].target] : i \in Reader!Earliest(named) }
  BY <1>2, <1>4 DEF Reader!Qualified, Reader!ModuleAt
<1>8. CASE Len(text) = 1
  BY <1>1, <1>7, <1>8
<1>9. CASE Len(text) # 1
  <2>1. \A i \in named : by_name[imports[i].target] \in 0 .. Len(source.modules) - 1
    BY <1>5 DEF IsMap
  <2> QED BY <1>6, <1>7, <1>9, <2>1
<1> QED BY <1>8, <1>9

\* No container has the name of what is no container's.
Plain ==
  \A i \in 1 .. Len(source.modules) : \A j \in 1 .. Len(source.modules[i].containers) :
    source.modules[i].containers[j].name \notin Reader!Scalars \cup {"void"}

\* The containers of the first modules are known by their names.
Homes(b, n) ==
  \A m \in 0 .. n - 1 : \A i \in 1 .. Len(source.modules[m + 1].containers) :
    Home(b, m, source.modules[m + 1].containers[i].name)

LEMMA HomesYet ==
  ASSUME NEW b, NEW c, Remembers(b, c), Types(c) =< NoIndex, NEW n, Homes(b, n)
  PROVE  Homes(c, n)
BY DEF Homes, Remembers

\* What a module declares is known by its name.
LEMMA DeclaredIsHome ==
  ASSUME Listed(source), Plain, NEW b, Homes(b, Len(source.modules)),
         NEW home \in 0 .. Len(source.modules) - 1, NEW name,
         Reader!DeclaresContainer(home, name)
  PROVE  Home(b, home, name) /\ name \notin Reader!Scalars \cup {"void"}
<1>1. Len(source.modules) \in Nat /\ home + 1 \in 1 .. Len(source.modules)
  BY DEF Listed
<1>2. PICK xs : xs = source.modules[home + 1].containers
  OBVIOUS
<1>3. DOMAIN xs = 1 .. Len(xs)
  BY <1>1, <1>2, InSequence DEF Listed, IsModule, IsText
<1>4. PICK i \in 1 .. Len(xs) : xs[i].name = name
  BY <1>2, <1>3 DEF Reader!DeclaresContainer, Reader!ModuleAt
<1> QED BY <1>1, <1>2, <1>4 DEF Homes, Plain

\* A name in a module is that of the container it says.
LEMMA NameIsOfItsScope ==
  ASSUME NEW b, Made(b), Types(b) =< NoIndex, NEW m, NEW text,
         NEW home \in Reader!Qualified(m, text),
         \A other \in Reader!Qualified(m, text) : other = home,
         Home(b, home, Reader!Last(text)),
         Reader!Last(text) \notin Reader!Scalars \cup {"void"}
  PROVE  LET c == Reader!ResolveName(b, m, text)
         IN  c.type \in 0 .. Types(c) - 1 /\ Lodged(c.tables, home, Reader!Last(text), c.type)
<1>1. PICK name, type : /\ name = Reader!Last(text)
                        /\ type = b.names.scoped[<<home, Reader!Last(text)>>]
  BY Zenon
<1>2. PICK here : here = { <<module, name>> : module \in Reader!Qualified(m, text) }
                           \cap DOMAIN b.names.scoped
  BY Zenon
<1>3. here = { <<home, name>> }
  BY <1>1, <1>2 DEF Home
<1>4. Reader!LookUp(b.names, m, text) = type
  BY <1>1, <1>2, <1>3 DEF Reader!LookUp
<1>5. type \in 0 .. Types(b) - 1 /\ Lodged(b.tables, home, name, type)
  BY <1>1 DEF Home, Lodged, Types
<1>6. type # NoIndex
  <2>1. Types(b) \in Nat /\ NoIndex \in Nat
    BY TypesBuilt, NoRowIsANumber DEF Made, WellMade, Types
  <2> QED BY <1>5, <2>1
<1>7. text \notin { <<scalar>> : scalar \in Reader!Scalars } /\ text # <<"void">>
  <2>1. ASSUME NEW word, text = <<word>> PROVE name = word
    BY <1>1, <2>1 DEF Reader!Last
  <2> QED BY <1>1, <2>1
<1>8. Reader!ResolveName(b, m, text) = [b EXCEPT !.type = type]
  BY <1>4, <1>6, <1>7 DEF Reader!ResolveName
<1>9. PICK c : c = [b EXCEPT !.type = type]
  BY Zenon
<1>10. c.tables = b.tables /\ c.type = type
  BY <1>9 DEF Made, Parts
<1> QED BY <1>1, <1>5, <1>8, <1>9, <1>10 DEF Types

\* A module that declares containers.
Populated(m) == m \in 0 .. Len(source.modules) - 1 /\ source.modules[m + 1].containers # << >>

\* A field's type is around the container that is meant where it was written.
InScope(t, row, declared) ==
  /\ t.fields.owner[row] + 1 \in 1 .. Reader!Count(t, "structs")
  /\ Populated(t.structs.module[t.fields.owner[row] + 1])
  /\ \A home \in Reader!Qualified(t.structs.module[t.fields.owner[row] + 1], declared.name) :
       Reader!DeclaresContainer(home, Reader!Last(declared.name)) =>
         \E inner : /\ Lodged(t, home, Reader!Last(declared.name), inner)
                    /\ Leads(t, t.fields.field_type[row], Len(declared.wraps), inner)

Fields(b) == Reader!Count(b.tables, "fields")

\* The rows of the fields and the structs that there are.
LEMMA FieldsLast ==
  ASSUME NEW t, Shaped(t), NEW u, Shaped(u), Lasts(t, u)
  PROVE  /\ Reader!Count(t, "fields") \in Nat /\ Reader!Count(t, "structs") \in Nat
         /\ Reader!Count(u, "structs") \in Nat
         /\ Reader!Count(t, "structs") =< Reader!Count(u, "structs")
         /\ \A i \in 1 .. Reader!Count(t, "fields") :
              /\ u.fields.owner[i] = t.fields.owner[i]
              /\ u.fields.field_type[i] = t.fields.field_type[i]
         /\ \A i \in 1 .. Reader!Count(t, "structs") :
              u.structs.module[i] = t.structs.module[i]
<1>1. /\ <<"structs", "module">> \in Lasting /\ <<"fields", "owner">> \in Lasting
      /\ <<"fields", "field_type">> \in Lasting
  BY DEF Lasting
<1>2. ASSUME NEW p, NEW q, <<p, q>> \in Lasting
      PROVE  /\ Stays(t[p][q], u[p][q])
             /\ Len(t[p][q]) \in Nat /\ Len(t[p][q]) = Reader!Count(t, p)
             /\ Len(u[p][q]) \in Nat /\ Len(u[p][q]) = Reader!Count(u, p)
  <2>1. PICK place \in Lasting : place = <<p, q>>
    BY <1>2
  <2> QED BY <2>1, LastingIsCounted DEF Lasts
<1>3. /\ Stays(t["structs"]["module"], u["structs"]["module"])
      /\ Stays(t["fields"]["owner"], u["fields"]["owner"])
      /\ Stays(t["fields"]["field_type"], u["fields"]["field_type"])
  BY <1>1, <1>2
<1>4. /\ Len(t["structs"]["module"]) \in Nat
      /\ Len(t["structs"]["module"]) = Reader!Count(t, "structs")
      /\ Len(u["structs"]["module"]) \in Nat
      /\ Len(u["structs"]["module"]) = Reader!Count(u, "structs")
  BY <1>1, <1>2
<1>5. /\ Len(t["fields"]["owner"]) \in Nat
      /\ Len(t["fields"]["owner"]) = Reader!Count(t, "fields")
      /\ Len(t["fields"]["field_type"]) = Reader!Count(t, "fields")
  BY <1>1, <1>2
<1> QED BY <1>3, <1>4, <1>5 DEF Stays

LEMMA InScopeYet ==
  ASSUME NEW t, Shaped(t), NEW u, Shaped(u), Lasts(t, u),
         NEW row \in 1 .. Reader!Count(t, "fields"), NEW declared,
         Len(declared.wraps) \in Nat, InScope(t, row, declared)
  PROVE  InScope(u, row, declared)
<1>1. PICK m : m = t.structs.module[t.fields.owner[row] + 1]
  OBVIOUS
<1>2. /\ t.fields.owner[row] + 1 \in 1 .. Reader!Count(t, "structs")
      /\ u.fields.owner[row] = t.fields.owner[row]
      /\ u.fields.field_type[row] = t.fields.field_type[row]
  BY FieldsLast DEF InScope
<1>3. /\ u.structs.module[u.fields.owner[row] + 1] = m
      /\ u.fields.owner[row] + 1 \in 1 .. Reader!Count(u, "structs")
  BY <1>1, <1>2, FieldsLast
<1>4. ASSUME NEW home \in Reader!Qualified(m, declared.name),
             Reader!DeclaresContainer(home, Reader!Last(declared.name))
      PROVE  \E inner : /\ Lodged(u, home, Reader!Last(declared.name), inner)
                        /\ Leads(u, u.fields.field_type[row], Len(declared.wraps), inner)
  <2>1. PICK inner : /\ Lodged(t, home, Reader!Last(declared.name), inner)
                     /\ Leads(t, t.fields.field_type[row], Len(declared.wraps), inner)
    BY <1>1, <1>4 DEF InScope
  <2>2. Lodged(u, home, Reader!Last(declared.name), inner)
    BY <2>1, LodgedLasts
  <2>3. Leads(u, u.fields.field_type[row], Len(declared.wraps), inner)
    BY <1>2, <2>1, LeadsYet
  <2> QED BY <2>2, <2>3
<1>5. Populated(m)
  BY <1>1 DEF InScope
<1> QED BY <1>3, <1>4, <1>5 DEF InScope

\* A member is of the type whose name is declared where it says.
LEMMA MemberInScope ==
  ASSUME reading = "members", Listed(source), at \in Nat, at < Len(source.modules),
         IsMap(by_name, Len(source.modules)), Populated(at),
         NEW b, Made(b), Structs(b) > 0, b.tables.structs.module[Structs(b)] = at,
         NEW member, IsSequence(member.declared.wraps)
  PROVE  LET c == Reader!DeclareMember(b, member)
         IN  /\ Fields(c) = Fields(b) + 1 /\ Structs(c) = Structs(b)
             /\ c.tables.structs.module[Structs(c)] = at
             /\ Plain /\ Types(c) =< NoIndex /\ Homes(b, Len(source.modules)) =>
                  InScope(c.tables, Fields(b) + 1, member.declared)
<1>1. PICK name, xs, n : /\ name = member.declared.name
                         /\ xs = Reader!Reverse(member.declared.wraps)
                         /\ n = Len(member.declared.wraps)
  BY Zenon
<1>2. n \in Nat /\ DOMAIN xs = 1 .. n
  BY <1>1, InSequence, ReversedIs
<1>3. PICK named : named = Reader!ResolveName(b, at, name)
  OBVIOUS
<1>4. Kept(b, named, 0) /\ Made(named) /\ Apart(b.tables, named.tables)
  BY <1>3, NameKept, NameApart DEF Kept
<1>5. PICK typed : typed = Reader!EachWrap(named, xs)
  OBVIOUS
<1>6. /\ Apart(named.tables, typed.tables)
      /\ named.type \in 0 .. Types(named) - 1 => Leads(typed.tables, typed.type, n, named.type)
  BY <1>2, <1>4, <1>5, WrapsLead
<1>7. typed = Reader!Resolve(b, at, member.declared)
  BY <1>1, <1>3, <1>5 DEF Reader!Resolve
<1>8. Kept(named, typed, 0) /\ Made(typed)
  <2>1. \A i \in 1 .. n : \A d : Kept(named, d, 0) => Kept(d, Reader!Wrap(d, xs[i]), 0)
    BY WrapKept DEF Kept
  <2>2. Kept(named, typed, 0)
    BY <1>2, <1>4, <1>5, <2>1, WrapsKeep
  <2> QED BY <2>2 DEF Kept
<1>9. /\ Structs(typed) = Structs(b) /\ Fields(typed) = Fields(b)
      /\ typed.tables.structs.module = b.tables.structs.module
  BY <1>4, <1>6 DEF Apart, Structs, Fields, Reader!Count
<1>10. PICK t : t = Reader!PushField(typed.tables, Reader!Newest(typed.tables, "structs"),
                                     member.name, typed.type)
  OBVIOUS
<1>11. WellMade(t) /\ Grown(typed.tables, t) /\ FieldAdded(typed.tables, t, typed.type)
  BY <1>8, <1>9, <1>10, FieldMade DEF Made, Structs
<1>12. PICK c : c = [typed EXCEPT !.tables = t]
  BY Zenon
<1>13. c = Reader!DeclareMember(b, member) /\ c.tables = t
  BY <1>7, <1>8, <1>10, <1>12 DEF Reader!DeclareMember, Made, Parts
<1>14. /\ Fields(c) = Fields(b) + 1 /\ Structs(c) = Structs(b)
       /\ c.tables.structs.module[Structs(c)] = at
       /\ t.fields.owner[Fields(b) + 1] = Structs(b) - 1
       /\ t.fields.field_type[Fields(b) + 1] = typed.type
  BY <1>9, <1>11, <1>13 DEF FieldAdded, Structs, Fields, Reader!Newest
<1>15. ASSUME Plain, Types(c) =< NoIndex, Homes(b, Len(source.modules))
       PROVE  InScope(t, Fields(b) + 1, member.declared)
  <2>1. /\ Shaped(b.tables) /\ Shaped(named.tables) /\ Shaped(typed.tables) /\ Shaped(t)
        /\ Lasts(b.tables, named.tables) /\ Lasts(named.tables, typed.tables)
        /\ Lasts(typed.tables, t)
    BY <1>4, <1>8, <1>11 DEF Kept, Made, WellMade, Grown, Larger
  <2>2. Types(b) =< NoIndex
    <3>1. /\ Types(b) =< Types(named) /\ Types(named) =< Types(typed)
          /\ Types(typed) =< Types(c)
      BY <1>13, <2>1, TypesLast DEF Types
    <3>2. /\ Types(b) \in Nat /\ Types(named) \in Nat /\ Types(typed) \in Nat
          /\ Types(c) \in Nat
      BY <1>13, <2>1, TypesBuilt DEF Types
    <3> QED BY <1>15, <3>1, <3>2, NoRowIsANumber
  <2>3. PICK row : row = Fields(b) + 1
    OBVIOUS
  <2>4. /\ t.fields.owner[row] + 1 = Structs(b) /\ Structs(b) \in Nat
        /\ Reader!Count(t, "structs") = Structs(b)
    BY <1>13, <1>14, <2>3, RowsBuilt DEF Structs
  <2>5. t.structs.module[t.fields.owner[row] + 1] = at
    BY <1>13, <1>14, <2>4
  <2>6. ASSUME NEW home \in Reader!Qualified(at, name),
               Reader!DeclaresContainer(home, Reader!Last(name))
        PROVE  \E inner : /\ Lodged(t, home, Reader!Last(name), inner)
                          /\ Leads(t, t.fields.field_type[row], n, inner)
    <3>1. /\ home \in 0 .. Len(source.modules) - 1
          /\ \A other \in Reader!Qualified(at, name) : other = home
      BY <2>6, QualifiedIsOne
    <3>2. Home(b, home, Reader!Last(name)) /\ Reader!Last(name) \notin Reader!Scalars \cup {"void"}
      BY <1>15, <2>6, <3>1, DeclaredIsHome
    <3>3. /\ named.type \in 0 .. Types(named) - 1
          /\ Lodged(named.tables, home, Reader!Last(name), named.type)
      BY <1>3, <2>2, <2>6, <3>1, <3>2, NameIsOfItsScope
    <3>4. Lodged(typed.tables, home, Reader!Last(name), named.type)
      BY <2>1, <3>3, LodgedLasts
    <3>5. Lodged(t, home, Reader!Last(name), named.type)
      BY <2>1, <3>4, LodgedLasts
    <3>6. Leads(typed.tables, typed.type, n, named.type)
      BY <1>6, <3>3
    <3>7. Leads(t, typed.type, n, named.type)
      BY <1>2, <2>1, <3>6, LeadsYet
    <3> QED BY <1>14, <2>3, <3>5, <3>7
  <2>7. t.fields.owner[row] + 1 \in 1 .. Reader!Count(t, "structs")
    BY <2>4
  <2> QED BY <1>1, <2>3, <2>5, <2>6, <2>7 DEF InScope
<1> QED BY <1>13, <1>14, <1>15

-----------------------------------------------------------------------------
(* The members of all containers.                                          *)

ContainerLists == [i \in 1 .. Len(source.modules) |-> source.modules[i].containers]
ContainersUpTo(n) == InARow(ContainerLists, n)
EveryContainer == ContainersUpTo(Len(source.modules))

MemberLists == [i \in 1 .. Len(EveryContainer) |-> EveryContainer[i].members]
MembersUpTo(n) == InARow(MemberLists, n)
EveryMember == MembersUpTo(Len(EveryContainer))

LEMMA ContainersAreLists ==
  ASSUME Listed(source)
  PROVE  /\ Len(source.modules) \in Nat
         /\ \A i \in 1 .. Len(source.modules) : IsSequence(ContainerLists[i])
         /\ Len(EveryContainer) \in Nat /\ DOMAIN EveryContainer = 1 .. Len(EveryContainer)
         /\ \A i \in 1 .. Len(EveryContainer) :
              /\ IsSequence(MemberLists[i]) /\ MemberLists[i] = EveryContainer[i].members
              /\ \A member \in ToSet(MemberLists[i]) : IsSequence(member.declared.wraps)
<1>1. PICK lists, most : lists = ContainerLists /\ most = Len(source.modules)
  BY Zenon
<1>2. /\ most \in Nat
      /\ \A i \in 1 .. most : lists[i] = source.modules[i].containers
      /\ \A i \in 1 .. most : IsText(source.modules[i])
  BY <1>1 DEF Listed, IsModule, ContainerLists
<1>3. \A i \in 1 .. most :
        /\ IsSequence(lists[i])
        /\ \A container \in ToSet(lists[i]) :
             /\ IsSequence(container.members)
             /\ \A member \in ToSet(container.members) : IsSequence(member.declared.wraps)
  BY <1>2, TextHas DEF IsText
<1>4. PICK all_ : all_ = InARow(lists, most)
  OBVIOUS
<1>5. /\ IsSequence(all_)
      /\ \A i \in 1 .. Len(all_) : \E j \in 1 .. most : all_[i] \in ToSet(lists[j])
  <2>1. most =< most /\ \A i \in 1 .. most : IsSequence(lists[i])
    BY <1>2, <1>3
  <2> QED BY <1>2, <1>4, <2>1, ListsInARow
<1>6. all_ = EveryContainer
  BY <1>1, <1>4 DEF EveryContainer, ContainersUpTo
<1>7. Len(all_) \in Nat /\ DOMAIN all_ = 1 .. Len(all_)
  BY <1>5, InSequence
<1>8. ASSUME NEW i \in 1 .. Len(all_)
      PROVE  /\ IsSequence(MemberLists[i]) /\ MemberLists[i] = all_[i].members
             /\ \A member \in ToSet(MemberLists[i]) : IsSequence(member.declared.wraps)
  <2>1. MemberLists[i] = all_[i].members
    BY <1>6 DEF MemberLists
  <2>2. PICK j \in 1 .. most : all_[i] \in ToSet(lists[j])
    BY <1>5
  <2> QED BY <1>3, <2>1, <2>2
<1> QED BY <1>1, <1>2, <1>3, <1>6, <1>7, <1>8

\* So many members there are with one container more.
LEMMA MembersInARow ==
  ASSUME Listed(source), NEW n \in Nat, n =< Len(EveryContainer)
  PROVE  /\ Len(MembersUpTo(n)) \in Nat /\ Len(MembersUpTo(0)) = 0
         /\ Len(EveryMember) \in Nat
         /\ \A i \in 1 .. Len(EveryMember) :
              /\ IsSequence(EveryMember[i].declared.wraps)
              /\ Len(EveryMember[i].declared.wraps) \in Nat
         /\ n < Len(EveryContainer) =>
              LET members == EveryContainer[n + 1].members
              IN  /\ IsSequence(members) /\ Len(members) \in Nat
                  /\ \A member \in ToSet(members) : IsSequence(member.declared.wraps)
                  /\ Len(MembersUpTo(n + 1)) = Len(MembersUpTo(n)) + Len(members)
                  /\ \A i \in 1 .. Len(members) :
                       /\ Len(MembersUpTo(n)) + i \in 1 .. Len(EveryMember)
                       /\ EveryMember[Len(MembersUpTo(n)) + i] = members[i]
<1>1. PICK lists, most : lists = MemberLists /\ most = Len(EveryContainer)
  BY Zenon
<1>2. /\ most \in Nat
      /\ \A i \in 1 .. most : IsSequence(lists[i])
      /\ \A i \in 1 .. most : lists[i] = EveryContainer[i].members
      /\ \A i \in 1 .. most : \A member \in ToSet(lists[i]) : IsSequence(member.declared.wraps)
  BY <1>1, ContainersAreLists
<1>3. n =< most /\ most =< most
  BY <1>1, <1>2
<1>4. /\ MembersUpTo(n) = InARow(lists, n) /\ MembersUpTo(0) = InARow(lists, 0)
      /\ MembersUpTo(n + 1) = InARow(lists, n + 1)
      /\ EveryMember = InARow(lists, most)
  BY <1>1 DEF MembersUpTo, EveryMember
<1>5. /\ Len(InARow(lists, n)) \in Nat /\ Len(InARow(lists, 0)) = 0
      /\ n < most => Lengthens(lists, n)
  BY <1>2, <1>3, ListsInARow
<1>6. /\ Len(InARow(lists, most)) \in Nat
      /\ \A i \in 1 .. Len(InARow(lists, most)) :
           \E j \in 1 .. most : InARow(lists, most)[i] \in ToSet(lists[j])
  BY <1>2, <1>3, ListsInARow
<1>7. ASSUME NEW i \in 1 .. Len(EveryMember)
      PROVE  /\ IsSequence(EveryMember[i].declared.wraps)
             /\ Len(EveryMember[i].declared.wraps) \in Nat
  <2>1. IsSequence(EveryMember[i].declared.wraps)
    BY <1>2, <1>4, <1>6
  <2> QED BY <2>1, InSequence
<1>8. ASSUME n < most
      PROVE  LET members == EveryContainer[n + 1].members
             IN  /\ IsSequence(members) /\ Len(members) \in Nat
                 /\ \A member \in ToSet(members) : IsSequence(member.declared.wraps)
                 /\ Len(MembersUpTo(n + 1)) = Len(MembersUpTo(n)) + Len(members)
                 /\ \A i \in 1 .. Len(members) :
                      /\ Len(MembersUpTo(n)) + i \in 1 .. Len(EveryMember)
                      /\ EveryMember[Len(MembersUpTo(n)) + i] = members[i]
  <2>1. n + 1 \in 1 .. most
    BY <1>2, <1>8
  <2>2. PICK members : members = EveryContainer[n + 1].members
    OBVIOUS
  <2>3. lists[n + 1] = members /\ IsSequence(members) /\ Len(members) \in Nat
        /\ \A member \in ToSet(members) : IsSequence(member.declared.wraps)
    BY <1>2, <2>1, <2>2, InSequence
  <2>4. Len(MembersUpTo(n + 1)) = Len(MembersUpTo(n)) + Len(members)
    BY <1>4, <1>5, <1>8, <2>3 DEF Lengthens
  <2>5. ASSUME NEW i \in 1 .. Len(members)
        PROVE  /\ Len(MembersUpTo(n)) + i \in 1 .. Len(EveryMember)
               /\ EveryMember[Len(MembersUpTo(n)) + i] = members[i]
    <3>1. i \in 1 .. Len(lists[n + 1])
      BY <2>3
    <3>2. \A j \in 1 .. most : IsSequence(lists[j])
      BY <1>2
    <3>3. /\ Len(InARow(lists, n)) + i \in 1 .. Len(InARow(lists, most))
          /\ InARow(lists, most)[Len(InARow(lists, n)) + i] = lists[n + 1][i]
      BY <1>2, <1>8, <3>1, <3>2, PlaceInARow, SMTT(30)
    <3> QED BY <1>4, <2>3, <3>3
  <2> QED BY <2>2, <2>3, <2>4, <2>5
<1> QED BY <1>1, <1>4, <1>5, <1>6, <1>7, <1>8

\* The containers of a module are in their places among all of them.
LEMMA ContainersInARow ==
  ASSUME Listed(source), NEW n \in Nat, n < Len(source.modules)
  PROVE  LET xs == source.modules[n + 1].containers
         IN  /\ IsSequence(xs) /\ Len(xs) \in Nat
             /\ Len(ContainersUpTo(n)) \in Nat /\ Len(ContainersUpTo(0)) = 0
             /\ Len(ContainersUpTo(n + 1)) = Len(ContainersUpTo(n)) + Len(xs)
             /\ Len(ContainersUpTo(n)) + Len(xs) =< Len(EveryContainer)
             /\ \A i \in 1 .. Len(xs) : EveryContainer[Len(ContainersUpTo(n)) + i] = xs[i]
<1>1. PICK lists, most : lists = ContainerLists /\ most = Len(source.modules)
  BY Zenon
<1>2. most \in Nat /\ \A i \in 1 .. most : IsSequence(lists[i])
  BY <1>1, ContainersAreLists
<1>3. n < most /\ n =< most /\ n + 1 \in 1 .. most
  BY <1>1, <1>2
<1>4. PICK xs : xs = source.modules[n + 1].containers
  OBVIOUS
<1>5. lists[n + 1] = xs /\ IsSequence(xs) /\ Len(xs) \in Nat
  <2>1. lists[n + 1] = xs
    BY <1>1, <1>3, <1>4 DEF ContainerLists
  <2> QED BY <1>2, <1>3, <2>1, InSequence
<1>6. /\ ContainersUpTo(n) = InARow(lists, n) /\ ContainersUpTo(0) = InARow(lists, 0)
      /\ ContainersUpTo(n + 1) = InARow(lists, n + 1)
      /\ EveryContainer = InARow(lists, most)
  BY <1>1 DEF ContainersUpTo, EveryContainer
<1>7. /\ Len(InARow(lists, n)) \in Nat /\ Len(InARow(lists, 0)) = 0
      /\ Lengthens(lists, n)
  BY <1>2, <1>3, ListsInARow
<1>8. ASSUME NEW i \in 1 .. Len(xs)
      PROVE  /\ Len(InARow(lists, n)) + i \in 1 .. Len(InARow(lists, most))
             /\ InARow(lists, most)[Len(InARow(lists, n)) + i] = xs[i]
  <2>1. i \in 1 .. Len(lists[n + 1])
    BY <1>5
  <2>2. \A j \in 1 .. most : IsSequence(lists[j])
    BY <1>2
  <2>3. /\ Len(InARow(lists, n)) + i \in 1 .. Len(InARow(lists, most))
        /\ InARow(lists, most)[Len(InARow(lists, n)) + i] = lists[n + 1][i]
    BY <1>2, <1>3, <2>1, <2>2, PlaceInARow, SMTT(30)
  <2> QED BY <1>5, <2>3
<1>9. Len(InARow(lists, n)) + Len(xs) =< Len(InARow(lists, most))
  <2>1. Len(InARow(lists, most)) \in Nat
    <3>1. most =< most
      BY <1>2
    <3> QED BY <1>2, <3>1, ListsInARow
  <2>2. CASE Len(xs) = 0
    <3>1. Len(InARow(lists, n)) =< Len(InARow(lists, most))
      BY <1>2, <1>3, LongerInARow
    <3> QED BY <1>7, <2>2, <3>1
  <2>3. CASE Len(xs) # 0
    <3>1. Len(xs) \in 1 .. Len(xs)
      BY <1>5, <2>3
    <3> QED BY <1>7, <1>8, <2>1, <3>1
  <2> QED BY <2>2, <2>3
<1> QED BY <1>4, <1>5, <1>6, <1>7, <1>8, <1>9 DEF Lengthens

\* The members of some containers are no more than those of all.
LEMMA MembersAreFewer ==
  ASSUME Listed(source), NEW n \in Nat, n =< Len(EveryContainer)
  PROVE  Len(MembersUpTo(n)) =< Len(EveryMember)
<1>1. PICK lists, most : lists = MemberLists /\ most = Len(EveryContainer)
  BY Zenon
<1>2. most \in Nat /\ \A i \in 1 .. most : IsSequence(lists[i])
  BY <1>1, ContainersAreLists
<1> QED BY <1>1, <1>2, LongerInARow DEF MembersUpTo, EveryMember

\* What is looked at is those members.
LEMMA MemberAtIs ==
  ASSUME Listed(source)
  PROVE  \A row : Reader!MemberAt(row) = EveryMember[row + 1]
<1>1. \A s : Reader!FlattenSeq(s) = FlattenSeq(s)
  BY DEF Reader!FlattenSeq, FlattenSeq
<1>2. DOMAIN source.modules = 1 .. Len(source.modules)
  BY DEF Listed
<1>3. Reader!AllContainers = EveryContainer
  <2>1. [i \in 1 .. Len(source.modules) |-> ContainerLists[i]] =
          [m \in DOMAIN source.modules |-> source.modules[m].containers]
    BY <1>2 DEF ContainerLists
  <2> QED BY <1>1, <2>1 DEF Reader!AllContainers, EveryContainer, ContainersUpTo, InARow
<1>4. DOMAIN EveryContainer = 1 .. Len(EveryContainer)
  BY ContainersAreLists
<1>5. [i \in 1 .. Len(EveryContainer) |-> MemberLists[i]] =
        [i \in DOMAIN EveryContainer |-> EveryContainer[i].members]
  BY <1>4 DEF MemberLists
<1>6. EveryMember = FlattenSeq([i \in DOMAIN EveryContainer |-> EveryContainer[i].members])
  BY <1>5 DEF EveryMember, MembersUpTo, InARow
<1> QED BY <1>1, <1>3, <1>6 DEF Reader!MemberAt

\* Every field is of the type that was meant, and names are known yet: where there is
\* an index for every type, and no container has the name of what is none.
Meant(b) ==
  Plain /\ Types(b) =< NoIndex =>
    /\ Homes(b, Len(source.modules))
    /\ \A row \in 1 .. Fields(b) : InScope(b.tables, row, EveryMember[row].declared)

\* It stays so, if it is so of the fields that are added.
LEMMA MeantYet ==
  ASSUME Listed(source), NEW b, Made(b), NEW c, NEW k, Kept(b, c, k), Meant(b),
         Fields(b) =< Len(EveryMember),
         Plain /\ Types(c) =< NoIndex /\ Homes(b, Len(source.modules)) =>
           \A row \in Fields(b) + 1 .. Fields(c) : InScope(c.tables, row, EveryMember[row].declared)
  PROVE  Meant(c)
<1>1. SUFFICES ASSUME Plain, Types(c) =< NoIndex
               PROVE  /\ Homes(c, Len(source.modules))
                      /\ \A row \in 1 .. Fields(c) :
                           InScope(c.tables, row, EveryMember[row].declared)
  BY DEF Meant
<1>2. /\ Shaped(b.tables) /\ Shaped(c.tables) /\ Lasts(b.tables, c.tables)
      /\ Remembers(b, c)
  BY DEF Kept, Made, WellMade
<1>3. Types(b) =< NoIndex
  <2>1. Types(b) =< Types(c) /\ Types(b) \in Nat /\ Types(c) \in Nat
    BY <1>2, TypesBuilt, TypesLast DEF Types
  <2> QED BY <1>1, <2>1, NoRowIsANumber
<1>4. /\ Homes(b, Len(source.modules))
      /\ \A row \in 1 .. Fields(b) : InScope(b.tables, row, EveryMember[row].declared)
  BY <1>1, <1>3 DEF Meant
<1>5. Homes(c, Len(source.modules))
  BY <1>1, <1>2, <1>4, HomesYet
<1>6. Fields(b) \in Nat /\ Fields(c) \in Nat
  BY <1>2, LastsItself, FieldsLast DEF Fields
<1>7. ASSUME NEW row \in 1 .. Fields(c)
      PROVE  InScope(c.tables, row, EveryMember[row].declared)
  <2>1. CASE row \in 1 .. Fields(b)
    <3>1. Len(EveryMember) \in Nat
      <4>1. 0 \in Nat /\ 0 =< Len(EveryContainer)
        BY ContainersAreLists
      <4> QED BY <4>1, MembersInARow
    <3>2. row \in 1 .. Len(EveryMember)
      BY <1>6, <2>1, <3>1
    <3>3. Len(EveryMember[row].declared.wraps) \in Nat
      <4>1. 0 \in Nat /\ 0 =< Len(EveryContainer)
        BY ContainersAreLists
      <4> QED BY <3>2, <4>1, MembersInARow
    <3> QED BY <1>2, <1>4, <2>1, <3>3, InScopeYet DEF Fields
  <2>2. CASE row \notin 1 .. Fields(b)
    <3>1. row \in Fields(b) + 1 .. Fields(c)
      BY <1>6, <2>2
    <3> QED BY <1>1, <1>4, <3>1
  <2> QED BY <2>1, <2>2
<1> QED BY <1>5, <1>7

\* A turn that there is.
LEMMA TurnThereIs ==
  ASSUME NEW n \in Nat, NEW i \in Nat, i + 1 =< n
  PROVE  i + 1 \in 1 .. n /\ (i + 1) - 1 = i /\ i =< n
  OBVIOUS

\* One more container.
LEMMA StructMeant ==
  ASSUME reading = "members", Listed(source), at \in Nat, at < Len(source.modules),
         IsMap(by_name, Len(source.modules)), Populated(at),
         NEW b, Made(b), Meant(b), NEW k \in Nat, k < Len(EveryContainer),
         Fields(b) = Len(MembersUpTo(k))
  PROVE  LET c == Reader!DeclareStruct(b, EveryContainer[k + 1])
         IN  Kept(b, c, 0) /\ Meant(c) /\ Fields(c) = Len(MembersUpTo(k + 1))
<1>1. PICK container, xs, n : /\ container = EveryContainer[k + 1]
                              /\ xs = container.members /\ n = Len(xs)
  BY Zenon
<1>2. k =< Len(EveryContainer) /\ Len(EveryContainer) \in Nat
  BY ContainersAreLists
<1>3. /\ IsSequence(xs) /\ n \in Nat /\ DOMAIN xs = 1 .. n
      /\ \A i \in 1 .. n : IsSequence(xs[i].declared.wraps)
      /\ \A member \in ToSet(xs) : IsSequence(member.declared.wraps)
      /\ Fields(b) \in Nat /\ Len(EveryMember) \in Nat
      /\ Len(MembersUpTo(k + 1)) = Fields(b) + n
      /\ \A i \in 1 .. n :
           Fields(b) + i \in 1 .. Len(EveryMember) /\ EveryMember[Fields(b) + i] = xs[i]
  <2>1. /\ IsSequence(xs) /\ n \in Nat
        /\ \A member \in ToSet(xs) : IsSequence(member.declared.wraps)
        /\ Fields(b) \in Nat /\ Len(EveryMember) \in Nat
        /\ Len(MembersUpTo(k + 1)) = Fields(b) + n
        /\ \A i \in 1 .. n :
             Fields(b) + i \in 1 .. Len(EveryMember) /\ EveryMember[Fields(b) + i] = xs[i]
    <3>1. PICK base : base = MembersUpTo(k)
      OBVIOUS
    <3>2. /\ IsSequence(xs) /\ Len(xs) \in Nat /\ Len(base) \in Nat
          /\ \A member \in ToSet(xs) : IsSequence(member.declared.wraps)
          /\ Len(MembersUpTo(k + 1)) = Len(base) + Len(xs)
          /\ \A i \in 1 .. Len(xs) :
               Len(base) + i \in 1 .. Len(EveryMember) /\ EveryMember[Len(base) + i] = xs[i]
      BY <1>1, <1>2, <3>1, MembersInARow
    <3>3. Len(EveryMember) \in Nat
      BY <1>2, MembersInARow
    <3> QED BY <1>1, <3>1, <3>2, <3>3
  <2>2. DOMAIN xs = 1 .. n /\ \A i \in 1 .. n : xs[i] \in ToSet(xs)
    BY <1>1, <2>1, InSequence
  <2> QED BY <2>1, <2>2
<1>4. PICK t : t = Reader!PushStruct(b.tables, container.name,
                                     b.names.scoped[<<at, container.name>>], at)
  OBVIOUS
<1>5. /\ WellMade(t) /\ Grown(b.tables, t) /\ Reader!Count(t, "structs") > 0
      /\ Reader!Count(t, "fields") = Fields(b)
      /\ t.structs.module[Reader!Count(t, "structs")] = at
  BY <1>4, StructMade DEF Made, Fields
<1>6. PICK opened : opened = [b EXCEPT !.tables = t]
  BY Zenon
<1>7. Kept(b, opened, 0) /\ opened.tables = t /\ Made(opened)
  BY <1>5, <1>6, ExceptTablesKept DEF Kept
<1>8. Fields(b) =< Len(EveryMember)
  <2>1. CASE n = 0
    <3>1. Fields(b) =< Len(EveryMember)
      BY <1>2, MembersAreFewer
    <3> QED BY <3>1
  <2>2. CASE n # 0
    <3>1. n \in 1 .. n
      BY <1>3, <2>2
    <3> QED BY <1>3, <3>1
  <2> QED BY <2>1, <2>2
<1>9. Meant(opened)
  <2>1. Fields(opened) = Fields(b) /\ Fields(b) + 1 .. Fields(opened) = {}
    BY <1>3, <1>5, <1>7 DEF Fields
  <2> QED BY <1>7, <1>8, <2>1, MeantYet
<1>10. PICK after : /\ after[0] = opened
                    /\ \A i \in 1 .. n : after[i] = Reader!DeclareMember(after[i - 1], xs[i])
                    /\ after[n] = Reader!EachMember(opened, xs)
  BY <1>3, MembersTurn
<1> DEFINE Good(c, i) ==
             /\ Kept(opened, c, 0) /\ Made(c) /\ Meant(c)
             /\ Fields(c) = Fields(b) + i
             /\ Structs(c) > 0 /\ c.tables.structs.module[Structs(c)] = at
           So == { i \in Nat : i =< n => Good(after[i], i) }
<1>11. 0 \in So
  <2>1. Kept(opened, opened, 0) /\ Structs(opened) > 0
        /\ opened.tables.structs.module[Structs(opened)] = at
    BY <1>5, <1>7, KeptAsItIs DEF Structs
  <2>2. Fields(opened) = Fields(b) + 0
    BY <1>3, <1>5, <1>7 DEF Fields
  <2> QED BY <1>7, <1>9, <1>10, <2>1, <2>2
<1>12. ASSUME NEW i \in Nat, i \in So PROVE i + 1 \in So
  <2>1. SUFFICES ASSUME i + 1 =< n PROVE Good(after[i + 1], i + 1)
    OBVIOUS
  <2>2. i + 1 \in 1 .. n /\ (i + 1) - 1 = i /\ i =< n
    <3>1. n \in Nat
      BY <1>3
    <3> HIDE DEF Good, So
    <3> QED BY <2>1, <3>1, TurnThereIs
  <2>3. PICK c, d, member : c = after[i] /\ d = after[i + 1] /\ member = xs[i + 1]
    BY Zenon
  <2>4. Good(c, i) /\ d = Reader!DeclareMember(c, member)
        /\ IsSequence(member.declared.wraps)
    BY <1>3, <1>10, <1>12, <2>2, <2>3
  <2>5. Kept(c, d, 0)
    BY <2>4, MemberKept
  <2>6. /\ Fields(d) = Fields(c) + 1 /\ Structs(d) = Structs(c)
        /\ d.tables.structs.module[Structs(d)] = at
        /\ Plain /\ Types(d) =< NoIndex /\ Homes(c, Len(source.modules)) =>
             InScope(d.tables, Fields(c) + 1, member.declared)
    BY <2>4, MemberInScope
  <2>7. /\ Fields(c) = Fields(b) + i /\ Fields(c) + 1 = Fields(b) + (i + 1)
        /\ Fields(c) + 1 \in 1 .. Len(EveryMember) /\ EveryMember[Fields(c) + 1] = member
    BY <1>3, <2>2, <2>3, <2>4
  <2>8. Fields(c) =< Len(EveryMember) /\ Fields(c) + 1 .. Fields(d) = {Fields(c) + 1}
    BY <1>3, <2>6, <2>7
  <2>9. Meant(d)
    BY <2>4, <2>5, <2>6, <2>7, <2>8, MeantYet
  <2>10. Kept(opened, d, 0) /\ Made(d)
    BY <1>7, <2>4, <2>5, KeptTwice DEF Kept
  <2> QED BY <2>3, <2>4, <2>6, <2>7, <2>9, <2>10
<1> HIDE DEF So
<1>13. n \in So
  BY <1>3, <1>11, <1>12, CountingUp
<1> USE DEF So
<1>14. PICK filled : filled = Reader!EachMember(opened, xs)
  OBVIOUS
<1>15. Good(filled, n)
  BY <1>3, <1>10, <1>13, <1>14
<1>16. PICK c : c = Reader!DeclareStruct(b, container)
  OBVIOUS
<1>17. c.tables = filled.tables /\ c.names = filled.names
  <2>1. c = [filled EXCEPT !.structs =
               Reader!Remember(@, at, container.name, Reader!Newest(opened.tables, "structs"))]
    BY <1>1, <1>4, <1>6, <1>14, <1>16 DEF Reader!DeclareStruct
  <2> QED BY <1>15, <2>1 DEF Made, Parts
<1>18. Kept(b, c, 0)
  BY <1>1, <1>3, <1>16, StructKept
<1>19. Meant(c)
  <2>1. Meant(filled)
    BY <1>15
  <2>2. Types(c) = Types(filled) /\ Fields(c) = Fields(filled)
    BY <1>17 DEF Types, Fields
  <2>3. Homes(filled, Len(source.modules)) => Homes(c, Len(source.modules))
    BY <1>17 DEF Homes, Home
  <2> QED BY <1>17, <2>1, <2>2, <2>3 DEF Meant
<1>20. Fields(c) = Len(MembersUpTo(k + 1))
  BY <1>3, <1>15, <1>17 DEF Fields
<1> QED BY <1>1, <1>16, <1>18, <1>19, <1>20

\* The containers of a file.
LEMMA StructsMeant ==
  ASSUME reading = "members", Listed(source), at \in Nat, at < Len(source.modules),
         IsMap(by_name, Len(source.modules)),
         NEW b, Made(b), Meant(b), Fields(b) = Len(MembersUpTo(Len(ContainersUpTo(at))))
  PROVE  LET c == Reader!EachStruct(b, Reader!ModuleAt(at).containers)
         IN  Meant(c) /\ Fields(c) = Len(MembersUpTo(Len(ContainersUpTo(at + 1))))
<1>1. PICK xs, n, k : /\ xs = source.modules[at + 1].containers /\ n = Len(xs)
                      /\ k = Len(ContainersUpTo(at))
  BY Zenon
<1>2. /\ IsSequence(xs) /\ n \in Nat /\ k \in Nat
      /\ Len(ContainersUpTo(at + 1)) = k + n
      /\ k + n =< Len(EveryContainer)
      /\ \A i \in 1 .. n : EveryContainer[k + i] = xs[i]
  BY <1>1, ContainersInARow
<1>3. DOMAIN xs = 1 .. n /\ Len(EveryContainer) \in Nat
  BY <1>1, <1>2, InSequence, ContainersAreLists
<1>4. PICK after : /\ after[0] = b
                   /\ \A i \in 1 .. n : after[i] = Reader!DeclareStruct(after[i - 1], xs[i])
                   /\ after[n] = Reader!EachStruct(b, xs)
  BY <1>2, <1>3, StructsTurn
<1> DEFINE Good(c, i) == Made(c) /\ Meant(c) /\ Fields(c) = Len(MembersUpTo(k + i))
           So == { i \in Nat : i =< n => Good(after[i], i) }
<1>5. 0 \in So
  <2>1. k + 0 = k
    BY <1>2
  <2> QED BY <1>1, <1>4, <2>1
<1>6. ASSUME NEW i \in Nat, i \in So PROVE i + 1 \in So
  <2>1. SUFFICES ASSUME i + 1 =< n PROVE Good(after[i + 1], i + 1)
    OBVIOUS
  <2>2. /\ i + 1 \in 1 .. n /\ (i + 1) - 1 = i /\ i =< n
        /\ k + i \in Nat /\ k + i < Len(EveryContainer)
        /\ k + (i + 1) = (k + i) + 1
    <3>1. n \in Nat /\ k \in Nat /\ k + n =< Len(EveryContainer)
          /\ Len(EveryContainer) \in Nat
      BY <1>2, <1>3
    <3> HIDE DEF Good, So
    <3>2. i + 1 \in 1 .. n /\ (i + 1) - 1 = i /\ i =< n
      BY <2>1, <3>1, TurnThereIs
    <3> QED BY <2>1, <3>1, <3>2
  <2>3. PICK c, d, j : c = after[i] /\ d = after[i + 1] /\ j = k + i
    BY Zenon
  <2>4. Made(c) /\ Meant(c) /\ Fields(c) = Len(MembersUpTo(j))
    BY <1>6, <2>2, <2>3
  <2>5. d = Reader!DeclareStruct(c, EveryContainer[j + 1])
    BY <1>2, <1>4, <2>2, <2>3
  <2>6. j \in Nat /\ j < Len(EveryContainer)
    BY <2>2, <2>3
  <2>7. Populated(at)
    <3>1. xs = << >> => n = 0
      BY <1>1
    <3>2. n # 0 /\ at \in 0 .. Len(source.modules) - 1
      BY <1>2, <2>1 DEF Listed
    <3> QED BY <1>1, <3>1, <3>2 DEF Populated
  <2>8. Kept(c, d, 0) /\ Meant(d) /\ Fields(d) = Len(MembersUpTo(j + 1))
    BY <2>4, <2>5, <2>6, <2>7, StructMeant
  <2> QED BY <2>2, <2>3, <2>8 DEF Kept
<1> HIDE DEF So
<1>7. n \in So
  BY <1>2, <1>5, <1>6, CountingUp
<1> USE DEF So
<1>8. Good(after[n], n)
  BY <1>2, <1>7
<1>9. Reader!ModuleAt(at).containers = xs
  BY <1>1 DEF Reader!ModuleAt
<1> QED BY <1>2, <1>4, <1>8, <1>9

\* The containers of a file are known by their names when they are declared.
LEMMA ContainersHome ==
  ASSUME Listed(source), at \in Nat, at < Len(source.modules), NEW b, Made(b),
         Types(b) =< NoIndex => Homes(b, at)
  PROVE  LET c == Reader!EachContainer(b, Reader!ModuleAt(at).containers)
         IN  Types(c) =< NoIndex => Homes(c, at + 1)
<1>1. PICK xs, n : xs = source.modules[at + 1].containers /\ n = Len(xs)
  BY Zenon
<1>2. n \in Nat /\ DOMAIN xs = 1 .. n
  BY <1>1, ContainersInARow, InSequence
<1>3. PICK after : /\ after[0] = b
                   /\ \A i \in 1 .. n : after[i] = Reader!DeclareContainer(after[i - 1], xs[i])
                   /\ after[n] = Reader!EachContainer(b, xs)
  BY <1>2, ContainersTurn
<1> DEFINE Good(c, i) ==
             /\ Made(c)
             /\ Types(c) =< NoIndex =>
                  Homes(c, at) /\ \A j \in 1 .. i : Home(c, at, xs[j].name)
           So == { i \in Nat : i =< n => Good(after[i], i) }
<1>4. 0 \in So
  BY <1>3
<1>5. ASSUME NEW i \in Nat, i \in So PROVE i + 1 \in So
  <2>1. SUFFICES ASSUME i + 1 =< n PROVE Good(after[i + 1], i + 1)
    OBVIOUS
  <2>2. i + 1 \in 1 .. n /\ (i + 1) - 1 = i /\ i =< n
    BY <1>2, <2>1, TurnThereIs
  <2>3. PICK c, d, x : c = after[i] /\ d = after[i + 1] /\ x = xs[i + 1]
    BY Zenon
  <2>4. Good(c, i) /\ d = Reader!DeclareContainer(c, x)
    BY <1>3, <1>5, <2>2, <2>3
  <2>5. Kept(c, d, 0) /\ Home(d, at, x.name)
    BY <2>4, ContainerKept
  <2>6. Made(d) /\ Remembers(c, d) /\ Types(c) \in Nat /\ Types(d) \in Nat
        /\ Types(c) =< Types(d)
    <3>1. Shaped(c.tables) /\ Shaped(d.tables) /\ Lasts(c.tables, d.tables)
      BY <2>4, <2>5 DEF Kept, Made, WellMade
    <3> QED BY <2>5, <3>1, TypesBuilt, TypesLast DEF Kept, Types
  <2>7. ASSUME Types(d) =< NoIndex
        PROVE  Homes(d, at) /\ \A j \in 1 .. i + 1 : Home(d, at, xs[j].name)
    <3>1. Types(c) =< NoIndex
      BY <2>6, <2>7, NoRowIsANumber
    <3>2. Homes(c, at) /\ \A j \in 1 .. i : Home(c, at, xs[j].name)
      BY <2>4, <3>1
    <3>3. Homes(d, at)
      BY <2>6, <2>7, <3>2, HomesYet
    <3>4. \A m, name : Home(c, m, name) => Home(d, m, name)
      BY <2>6, <2>7 DEF Remembers
    <3>5. ASSUME NEW j \in 1 .. i + 1 PROVE Home(d, at, xs[j].name)
      <4>1. CASE j = i + 1
        BY <2>3, <2>5, <4>1
      <4>2. CASE j # i + 1
        <5>1. j \in 1 .. i
          BY <4>2
        <5> QED BY <3>2, <3>4, <5>1
      <4> QED BY <4>1, <4>2
    <3> QED BY <3>3, <3>5
  <2> QED BY <2>3, <2>6, <2>7
<1> HIDE DEF So
<1>6. n \in So
  BY <1>2, <1>4, <1>5, CountingUp
<1> USE DEF So
<1>7. Good(after[n], n)
  BY <1>2, <1>6
<1>8. PICK c : c = after[n]
  OBVIOUS
<1>9. ASSUME Types(c) =< NoIndex PROVE Homes(c, at + 1)
  <2>1. SUFFICES ASSUME NEW m \in 0 .. at,
                        NEW i \in 1 .. Len(source.modules[m + 1].containers)
                 PROVE  Home(c, m, source.modules[m + 1].containers[i].name)
    <3>1. 0 .. (at + 1) - 1 = 0 .. at
      OBVIOUS
    <3> QED BY <3>1 DEF Homes
  <2>2. CASE m = at
    BY <1>1, <1>7, <1>8, <1>9, <2>2
  <2>3. CASE m # at
    <3>1. m \in 0 .. at - 1
      BY <2>3
    <3> QED BY <1>7, <1>8, <1>9, <3>1 DEF Homes
  <2> QED BY <2>2, <2>3
<1>10. Reader!ModuleAt(at).containers = xs
  BY <1>1 DEF Reader!ModuleAt
<1> QED BY <1>3, <1>8, <1>9, <1>10

-----------------------------------------------------------------------------
(* Names while a project is merged.                                        *)

\* The kinds of declarations before there are members, and from then on.
Memberless == {"modules", "unresolved", "artifacts", "void", "containers"}
Later == {"functions", "sources", "calls", "memory", "bodies", "check", "done"}

Scoped(phase, n, b) ==
  /\ phase \in Memberless => Fields(b) = 0
  /\ phase = "void" => n = 0
  /\ phase = "containers" /\ Types(b) =< NoIndex => Homes(b, n)
  /\ phase = "members" => Fields(b) = Len(MembersUpTo(Len(ContainersUpTo(n))))
  /\ phase \in Later \cup {"members"} => Meant(b) /\ Fields(b) =< Len(EveryMember)

\* While a project is merged the containers that were declared are known by their
\* names, and the fields that were are of the types that were meant.
Scopes ==
  /\ reading = "idle" => by_name = << >>
  /\ Reader!FromProject =>
       /\ reading # "idle"
       /\ IsMap(by_name, Len(source.modules))
       /\ Scoped(reading, at, built)

LEMMA ContainersStay ==
  ASSUME source' = source
  PROVE  /\ EveryContainer' = EveryContainer
         /\ \A n : ContainersUpTo(n)' = ContainersUpTo(n)
<1>1. ContainerLists' = ContainerLists
  BY DEF ContainerLists
<1>2. \A n : ContainersUpTo(n)' = ContainersUpTo(n)
  BY <1>1 DEF ContainersUpTo
<1>3. EveryContainer' = EveryContainer
  BY <1>1 DEF EveryContainer, ContainersUpTo
<1> QED BY <1>2, <1>3

LEMMA MembersStay ==
  ASSUME source' = source
  PROVE  /\ EveryMember' = EveryMember
         /\ \A n : MembersUpTo(n)' = MembersUpTo(n)
<1>1. MemberLists' = MemberLists
  BY ContainersStay DEF MemberLists
<1>2. \A n : MembersUpTo(n)' = MembersUpTo(n)
  BY <1>1 DEF MembersUpTo
<1>3. EveryMember' = EveryMember
  <2>1. PICK all_ : all_ = EveryContainer
    OBVIOUS
  <2>2. EveryContainer' = all_
    BY <2>1, ContainersStay
  <2>3. EveryMember' = InARow(MemberLists', Len(all_))
    BY <2>2, Zenon DEF EveryMember, MembersUpTo
  <2> QED BY <1>1, <2>1, <2>3, Zenon DEF EveryMember, MembersUpTo
<1> QED BY <1>2, <1>3

\* What is said of what is built depends on no more than what was parsed.
LEMMA ScopedNext ==
  ASSUME source' = source, by_name' = by_name, Scoped(reading', at', built')
  PROVE  Scoped(reading, at, built)'
<1>1. Plain' <=> Plain
  BY DEF Plain
<1>2. Homes(built, at)' <=> Homes(built', at')
  BY DEF Homes
<1>3. Homes(built, Len(source.modules))' <=> Homes(built', Len(source.modules))
  BY DEF Homes
<1>4. EveryMember' = EveryMember
  BY MembersStay
<1>5. ASSUME NEW row, NEW declared
      PROVE  InScope(built.tables, row, declared)' <=> InScope(built'.tables, row, declared)
  BY DEF InScope, Populated, Reader!Qualified, Reader!ImportsOf, Reader!ModuleAt,
         Reader!DeclaresContainer
<1>6. Meant(built)' <=> Meant(built')
  BY <1>1, <1>3, <1>4, <1>5 DEF Meant, Types, Fields
<1>7. MembersUpTo(Len(ContainersUpTo(at)))' = MembersUpTo(Len(ContainersUpTo(at')))
  BY MembersStay, ContainersStay
<1> QED BY <1>2, <1>4, <1>6, <1>7 DEF Scoped, Fields, Types

\* The end is reached by validation.
LEMMA ValidationEnds ==
  ASSUME Reader!Next
  PROVE  /\ source' = source
         /\ \/ Reader!Validate
            \/ Reader!Returned
            \/ reading \notin {"check", "done"} /\ reading' # "done"
<1>1. ASSUME NEW phase, phase \notin {"check", "done"}, Reader!ForNext(phase)
      PROVE  source' = source /\ reading \notin {"check", "done"} /\ reading' # "done"
  BY <1>1 DEF Reader!ForNext
<1>2. CASE Reader!DeclareModules
  BY <1>1, <1>2 DEF Reader!DeclareModules
<1>3. CASE Reader!DeclareUnresolved
  BY <1>1, <1>3 DEF Reader!DeclareUnresolved
<1>4. CASE Reader!DeclareContainers
  BY <1>1, <1>4 DEF Reader!DeclareContainers
<1>5. CASE Reader!DeclareMembers
  BY <1>1, <1>5 DEF Reader!DeclareMembers
<1>6. CASE Reader!DeclareFunctions
  BY <1>1, <1>6 DEF Reader!DeclareFunctions
<1>7. CASE Reader!DeclareSources
  BY <1>1, <1>7 DEF Reader!DeclareSources
<1>8. CASE Reader!DeclareCalls
  BY <1>1, <1>8 DEF Reader!DeclareCalls
<1>9. CASE Reader!DeclareMemory
  BY <1>1, <1>9 DEF Reader!DeclareMemory
<1>10. CASE Reader!DeclareBodies
  BY <1>1, <1>10 DEF Reader!DeclareBodies
<1>11. CASE Reader!DeclareArtifact
  BY <1>1, <1>11 DEF Reader!DeclareArtifact
<1>12. CASE Reader!DeclareVoid
  BY <1>12 DEF Reader!DeclareVoid
<1>13. CASE Reader!NextPhase
  BY <1>13 DEF Reader!NextPhase, Reader!Following
<1>14. CASE Reader!Validate
  BY <1>14 DEF Reader!Validate
<1>15. CASE Reader!Returned
  BY <1>15 DEF Reader!Returned, Reader!vars
<1> QED BY <1>2, <1>3, <1>4, <1>5, <1>6, <1>7, <1>8, <1>9, <1>10, <1>11, <1>12, <1>13,
           <1>14, <1>15 DEF Reader!Next

\* Where no member is declared, what is built says of fields what it said.
LEMMA FieldsAreKept ==
  ASSUME Listed(source), Made(built), reading # "members", Grows
  PROVE  /\ Fields(built') = Fields(built)
         /\ Meant(built) /\ Fields(built) =< Len(EveryMember) =>
              Meant(built') /\ Fields(built') =< Len(EveryMember)
<1>1. PICK k, b, c : Kept(b, c, k) /\ b = built /\ c = built'
  BY Zenon DEF Grows
<1>2. Fields(c) = Fields(b)
  BY <1>1 DEF Kept, FieldsStay, Fields, Reader!Count
<1>3. Fields(b) \in Nat
  BY <1>1, LastsItself, FieldsLast DEF Made, WellMade, Fields
<1>4. Fields(b) + 1 .. Fields(c) = {}
  BY <1>2, <1>3
<1>5. Meant(b) /\ Fields(b) =< Len(EveryMember) => Meant(c)
  BY <1>1, <1>4, MeantYet
<1> QED BY <1>1, <1>2, <1>5

\* The next kind of declarations.
LEMMA NextPhaseScoped ==
  ASSUME Listed(source), Scoped(reading, at, built), Reader!NextPhase
  PROVE  Scoped(reading', at', built')
<1>1. /\ reading \in DOMAIN Reader!Following /\ reading' = Reader!Following[reading]
      /\ at = Reader!Items(reading) /\ at' = 0 /\ built' = built
  BY DEF Reader!NextPhase
<1>2. CASE reading \in {"modules", "unresolved", "artifacts"}
  <2>1. reading \in Memberless /\ reading' \in {"unresolved", "artifacts", "void"}
    BY <1>1, <1>2 DEF Reader!Following, Memberless
  <2> QED BY <1>1, <2>1 DEF Scoped, Later
<1>3. CASE reading = "containers"
  <2>1. reading' = "members" /\ at = Len(source.modules) /\ reading \in Memberless
    BY <1>1, <1>3 DEF Reader!Following, Reader!Items, Memberless
  <2>2. /\ Fields(built) = 0
        /\ Types(built) =< NoIndex => Homes(built, Len(source.modules))
    BY <1>3, <2>1 DEF Scoped
  <2>3. Meant(built)
    BY <2>2 DEF Meant
  <2>4. Len(MembersUpTo(Len(ContainersUpTo(0)))) = 0 /\ Len(EveryMember) \in Nat
    <3>1. 0 \in Nat /\ 0 < Len(source.modules) /\ 0 =< Len(EveryContainer)
      BY ContainersAreLists DEF Listed
    <3>2. Len(ContainersUpTo(0)) = 0
      BY <3>1, ContainersInARow
    <3>3. Len(MembersUpTo(0)) = 0 /\ Len(EveryMember) \in Nat
      BY <3>1, MembersInARow
    <3> QED BY <3>2, <3>3
  <2>5. "members" \notin Memberless
    BY DEF Memberless
  <2> QED BY <1>1, <2>1, <2>2, <2>3, <2>4, <2>5 DEF Scoped
<1>4. CASE reading \in {"members", "functions", "sources", "calls", "memory", "bodies"}
  <2>1. /\ reading \in Later \cup {"members"} /\ reading' \in Later
        /\ reading' \notin Memberless \cup {"void", "containers", "members"}
    BY <1>1, <1>4 DEF Reader!Following, Later, Memberless
  <2> QED BY <1>1, <2>1 DEF Scoped
<1> QED BY <1>1, <1>2, <1>3, <1>4 DEF Reader!Following

LEMMA ScopesNext ==
  ASSUME Merges, Scopes, Reader!FromProject, Reader!Next
  PROVE  Scopes'
<1>1. /\ at \in Nat /\ Listed(source) /\ Made(built) /\ Grows
      /\ IsMap(by_name, Len(source.modules)) /\ Scoped(reading, at, built)
  BY FrontendMerges DEF Merges, Scopes
<1>2. source' = source
  BY ValidationEnds
<1>3. ASSUME by_name' = by_name, reading' # "idle", Scoped(reading', at', built')
      PROVE  Scopes'
  BY <1>1, <1>2, <1>3, ScopedNext DEF Scopes, Reader!FromProject, IsMap
<1>4. reading # "members" =>
        /\ Fields(built') = Fields(built)
        /\ Meant(built) /\ Fields(built) =< Len(EveryMember) =>
             Meant(built') /\ Fields(built') =< Len(EveryMember)
  BY <1>1, FieldsAreKept
<1>5. CASE Reader!DeclareModules
  <2>1. /\ reading = "modules" /\ reading' = "modules"
        /\ at < Len(source.modules)
        /\ by_name' = Reader!PutIfAbsent(by_name, Reader!ModuleAt(at).name, at)
    BY <1>5 DEF Reader!DeclareModules, Reader!ForNext, Reader!Items
  <2>2. PICK n, name, map : /\ n = Len(source.modules) /\ map = by_name'
                            /\ name = Reader!ModuleAt(at).name
    BY Zenon
  <2>3. IsMap(map, n)
    <3>1. IsMap(by_name, n) /\ at \in 0 .. n - 1
      BY <1>1, <2>1, <2>2 DEF Listed
    <3>2. map = Reader!PutIfAbsent(by_name, name, at)
      BY <2>1, <2>2
    <3> QED BY <3>1, <3>2 DEF IsMap, Reader!PutIfAbsent, Reader!Put
  <2>4. IsMap(by_name, Len(source.modules))'
    BY <1>2, <2>2, <2>3 DEF IsMap
  <2>5. Fields(built') = 0
    BY <1>1, <1>4, <2>1 DEF Scoped, Memberless
  <2>6. Scoped(reading, at, built)'
    BY <2>1, <2>5 DEF Scoped, Fields, Later
  <2> QED BY <1>2, <2>1, <2>4, <2>6 DEF Scopes
<1>6. CASE Reader!DeclareUnresolved \/ Reader!DeclareArtifact
  <2>1. reading \in {"unresolved", "artifacts"} /\ reading' = reading /\ by_name' = by_name
    BY <1>6 DEF Reader!DeclareUnresolved, Reader!DeclareArtifact, Reader!ForNext
  <2>2. Fields(built') = 0
    BY <1>1, <1>4, <2>1 DEF Scoped, Memberless
  <2>3. Scoped(reading', at', built')
    BY <2>1, <2>2 DEF Scoped, Later
  <2> QED BY <1>3, <2>1, <2>3
<1>7. CASE Reader!DeclareVoid
  <2>1. reading = "void" /\ reading' = "containers" /\ by_name' = by_name /\ at' = at
    BY <1>7 DEF Reader!DeclareVoid
  <2>2. Fields(built') = 0 /\ at = 0
    BY <1>1, <1>4, <2>1 DEF Scoped, Memberless
  <2>3. Homes(built', 0)
    BY DEF Homes
  <2>4. Scoped(reading', at', built')
    BY <2>1, <2>2, <2>3 DEF Scoped, Later
  <2> QED BY <1>3, <2>1, <2>4
<1>8. CASE Reader!DeclareContainers
  <2>1. /\ reading = "containers" /\ reading' = "containers" /\ by_name' = by_name
        /\ at' = at + 1 /\ at < Len(source.modules)
        /\ built' = Reader!EachContainer(built, Reader!ModuleAt(at).containers)
    BY <1>8 DEF Reader!DeclareContainers, Reader!ForNext, Reader!Items
  <2>2. Fields(built') = 0 /\ (Types(built) =< NoIndex => Homes(built, at))
    BY <1>1, <1>4, <2>1 DEF Scoped, Memberless
  <2>3. Types(built') =< NoIndex => Homes(built', at + 1)
    <3>1. PICK b : b = built
      OBVIOUS
    <3>2. Made(b) /\ (Types(b) =< NoIndex => Homes(b, at))
      BY <1>1, <2>2, <3>1
    <3>3. PICK c : c = Reader!EachContainer(b, Reader!ModuleAt(at).containers)
      OBVIOUS
    <3>4. Types(c) =< NoIndex => Homes(c, at + 1)
      BY <1>1, <2>1, <3>2, <3>3, ContainersHome
    <3>5. c = built'
      BY <2>1, <3>1, <3>3
    <3> QED BY <3>4, <3>5
  <2>4. Scoped(reading', at', built')
    BY <2>1, <2>2, <2>3 DEF Scoped, Later
  <2> QED BY <1>3, <2>1, <2>4
<1>9. CASE Reader!DeclareMembers
  <2>1. /\ reading = "members" /\ reading' = "members" /\ by_name' = by_name
        /\ at' = at + 1 /\ at < Len(source.modules)
        /\ built' = Reader!EachStruct(built, Reader!ModuleAt(at).containers)
    BY <1>9 DEF Reader!DeclareMembers, Reader!ForNext, Reader!Items
  <2>2. PICK b, c : b = built /\ c = Reader!EachStruct(b, Reader!ModuleAt(at).containers)
    BY Zenon
  <2>3. Made(b) /\ Meant(b) /\ Fields(b) = Len(MembersUpTo(Len(ContainersUpTo(at))))
    BY <1>1, <2>1, <2>2 DEF Scoped
  <2>4. Meant(c) /\ Fields(c) = Len(MembersUpTo(Len(ContainersUpTo(at + 1))))
    BY <1>1, <2>1, <2>2, <2>3, StructsMeant
  <2>5. c = built'
    BY <2>1, <2>2
  <2>6. Len(ContainersUpTo(at + 1)) \in Nat /\ Len(ContainersUpTo(at + 1)) =< Len(EveryContainer)
    <3>1. PICK n, xs : n = at /\ xs = source.modules[at + 1].containers
      BY Zenon
    <3>2. /\ Len(xs) \in Nat /\ Len(ContainersUpTo(n)) \in Nat
          /\ Len(ContainersUpTo(n + 1)) = Len(ContainersUpTo(n)) + Len(xs)
          /\ Len(ContainersUpTo(n)) + Len(xs) =< Len(EveryContainer)
      BY <1>1, <2>1, <3>1, ContainersInARow
    <3> QED BY <3>1, <3>2
  <2>7. Fields(c) =< Len(EveryMember)
    BY <1>1, <2>4, <2>6, MembersAreFewer
  <2>8. Scoped(reading', at', built')
    BY <2>1, <2>4, <2>5, <2>7 DEF Scoped, Memberless, Later
  <2> QED BY <1>3, <2>1, <2>8
<1>10. CASE \/ Reader!DeclareFunctions \/ Reader!DeclareSources \/ Reader!DeclareCalls
            \/ Reader!DeclareMemory \/ Reader!DeclareBodies
            \/ Reader!Validate \/ Reader!Returned
  <2>1. reading \in Later /\ reading' \in Later /\ by_name' = by_name
    BY <1>10 DEF Reader!DeclareFunctions, Reader!DeclareSources, Reader!DeclareCalls,
                 Reader!DeclareMemory, Reader!DeclareBodies, Reader!Validate,
                 Reader!Returned, Reader!ForNext, Reader!vars, Later
  <2>2. Later \cap (Memberless \cup {"void", "containers", "members", "idle"}) = {}
    BY DEF Later, Memberless
  <2>3. Meant(built') /\ Fields(built') =< Len(EveryMember)
    BY <1>1, <1>4, <2>1, <2>2 DEF Scoped
  <2>4. Scoped(reading', at', built')
    BY <2>1, <2>2, <2>3 DEF Scoped
  <2> QED BY <1>3, <2>1, <2>2, <2>4
<1>11. CASE Reader!NextPhase
  <2>1. by_name' = by_name /\ reading' # "idle"
    BY <1>11 DEF Reader!NextPhase, Reader!Following
  <2> QED BY <1>1, <1>3, <1>11, <2>1, NextPhaseScoped
<1> QED BY <1>5, <1>6, <1>7, <1>8, <1>9, <1>10, <1>11 DEF Reader!Next

\* What is being read is not put aside.
LEMMA ReadingGoesOn ==
  ASSUME Reader!Next, reading # "idle"
  PROVE  reading' # "idle"
BY DEF Reader!Next, Reader!DeclareModules, Reader!DeclareUnresolved,
       Reader!DeclareArtifact, Reader!DeclareVoid, Reader!DeclareContainers,
       Reader!DeclareMembers, Reader!DeclareFunctions, Reader!DeclareSources,
       Reader!DeclareCalls, Reader!DeclareMemory, Reader!DeclareBodies,
       Reader!NextPhase, Reader!Validate, Reader!Returned, Reader!ForNext,
       Reader!Following, Reader!vars

\* Every step leaves the names as they are said to be.
LEMMA StepScopes ==
  ASSUME MergeInv, Scopes, [NextIntake]_all
  PROVE  Scopes'
<1>1. ASSUME UNCHANGED reader_vars PROVE Scopes'
  <2>1. /\ source' = source /\ by_name' = by_name /\ reading' = reading /\ at' = at
        /\ built' = built
    BY <1>1 DEF reader_vars
  <2>2. Reader!FromProject => Scoped(reading', at', built')
    BY <2>1 DEF Scopes
  <2>3. Reader!FromProject => Scoped(reading, at, built)'
    BY <2>1, <2>2, ScopedNext
  <2> QED BY <2>1, <2>3 DEF Scopes, Reader!FromProject, IsMap
<1>2. ASSUME NEW given, Hand(given), given.kind \in {"Project", "File"} PROVE Scopes'
  <2>1. /\ reading = "idle" /\ source' = given /\ by_name' = by_name
        /\ reading' = Reader!FirstPhase(given) /\ built' = Reader!NothingBuilt(given)
    BY <1>2 DEF Hand
  <2>2. by_name' = << >>
    BY <2>1 DEF Scopes
  <2>3. reading' \in {"modules", "check"}
    BY <2>1 DEF Reader!FirstPhase
  <2>4. CASE given.kind = "Project"
    <3>1. "fields" \in Reader!Table \ {"modules"}
      BY DEF Reader!Table, Reader!Columns
    <3>2. PICK b : b = Reader!NothingBuilt(given)
      OBVIOUS
    <3>3. \A table \in Reader!Table \ {"modules"} : Reader!Count(b.tables, table) = 0
      BY <2>4, <3>2, NothingIsMade
    <3>4. Fields(built') = 0
      BY <2>1, <3>1, <3>2, <3>3 DEF Fields
    <3>5. reading' = "modules"
      BY <2>1, <2>4 DEF Reader!FirstPhase
    <3>6. Scoped(reading, at, built)'
      BY <3>4, <3>5 DEF Scoped, Fields, Later
    <3>7. IsMap(by_name, Len(source.modules))'
      BY <2>2 DEF IsMap
    <3> QED BY <2>3, <3>6, <3>7 DEF Scopes
  <2>5. CASE given.kind # "Project"
    BY <2>1, <2>3, <2>5 DEF Scopes, Reader!FromProject
  <2> QED BY <2>4, <2>5
<1>3. CASE FollowImports
  BY <1>1, <1>3 DEF FollowImports
<1>4. CASE BuildProject
  <2>1. Hand(Parsed) /\ Parsed.kind = "Project"
    BY <1>4 DEF BuildProject, Parsed
  <2> QED BY <1>2, <2>1
<1>5. CASE ReadFactFile
  BY <1>1, <1>5 DEF ReadFactFile
<1>6. CASE GenerateFromBytes
  <2>1. Hand(Decoded) /\ Decoded.kind = "File"
    BY <1>6 DEF GenerateFromBytes, Decoded
  <2> QED BY <1>2, <2>1
<1>7. CASE MergeAndValidate
  <2>1. Merges /\ Reader!Next /\ reading # "idle"
    BY <1>7 DEF MergeInv, MergeAndValidate
  <2>2. CASE ~ Reader!FromProject
    <3>1. source' = source
      BY <2>1, ValidationEnds
    <3>2. reading' # "idle"
      BY <2>1, ReadingGoesOn
    <3> QED BY <2>2, <3>1, <3>2 DEF Scopes, Reader!FromProject
  <2> QED BY <2>1, <2>2, ScopesNext
<1>8. CASE UNCHANGED all
  BY <1>1, <1>8 DEF all
<1> QED BY <1>3, <1>4, <1>5, <1>6, <1>7, <1>8 DEF NextIntake

\* When a project is merged its names are resolved as they are said to be.
LEMMA ScopesResolve ==
  ASSUME MergeInv, Scopes, Reader!Count(built.tables, "types") =< NoIndex, Plain
  PROVE  NamesResolveByScope
<1> SUFFICES ASSUME reading = "done", Reader!FromProject PROVE NamesResolveByScope
  BY Zenon DEF NamesResolveByScope, Reader!NamesResolveByScope, Reader!Done
<1>1. PICK t : t = built.tables
  OBVIOUS
<1>2. /\ Listed(source) /\ Made(built) /\ Scoped(reading, at, built)
      /\ "done" \in Later
  BY DEF MergeInv, Merges, Scopes, Later
<1>3. /\ \A row \in 1 .. Fields(built) : InScope(t, row, EveryMember[row].declared)
      /\ Fields(built) =< Len(EveryMember)
  BY <1>1, <1>2 DEF Scoped, Meant, Types
<1>4. Fields(built) \in Nat
  BY <1>2, LastsItself, FieldsLast DEF Made, WellMade, Fields
<1>5. /\ Len(EveryMember) \in Nat
      /\ \A i \in 1 .. Len(EveryMember) : IsSequence(EveryMember[i].declared.wraps)
  <2>1. 0 \in Nat /\ 0 =< Len(EveryContainer)
    BY <1>2, ContainersAreLists
  <2> QED BY <1>2, <2>1, MembersInARow
<1>6. ASSUME NEW row \in Reader!RowsIn(t, "fields"),
             NEW declared, declared = Reader!MemberAt(row).declared,
             NEW m, m = Reader!At(t.structs.module, Reader!At(t.fields.owner, row)),
             NEW home \in Reader!Qualified(m, declared.name),
             Reader!DeclaresContainer(home, Reader!Last(declared.name))
      PROVE  Reader!IsTypeOf(t, Reader!Unwrapped(t, Reader!At(t.fields.field_type, row),
                                                 declared.wraps),
                             home, Reader!Last(declared.name))
  <2>1. row + 1 \in 1 .. Fields(built) /\ row + 1 \in 1 .. Len(EveryMember)
    <3>1. PICK n : n = Fields(built)
      OBVIOUS
    <3>2. row \in 0 .. n - 1 /\ n \in Nat /\ n =< Len(EveryMember)
      BY <1>1, <1>3, <1>4, <1>6, <3>1 DEF Fields, Reader!RowsIn
    <3> QED BY <1>5, <3>1, <3>2
  <2>2. declared = EveryMember[row + 1].declared
    BY <1>2, <1>6, MemberAtIs
  <2>3. InScope(t, row + 1, declared)
    BY <1>3, <2>1, <2>2
  <2>4. m = t.structs.module[t.fields.owner[row + 1] + 1]
    BY <1>6 DEF Reader!At
  <2>5. PICK inner : /\ Lodged(t, home, Reader!Last(declared.name), inner)
                     /\ Leads(t, t.fields.field_type[row + 1], Len(declared.wraps), inner)
    BY <1>6, <2>3, <2>4 DEF InScope
  <2>6. Len(declared.wraps) \in Nat /\ DOMAIN declared.wraps = 1 .. Len(declared.wraps)
    BY <1>5, <2>1, <2>2, InSequence
  <2>7. Reader!Unwrapped(t, t.fields.field_type[row + 1], declared.wraps) = inner
    BY <2>5, <2>6, LeadsUnwrapped
  <2> QED BY <2>5, <2>7 DEF Lodged, Reader!IsTypeOf, Reader!At
<1> QED BY <1>1, <1>6, Zenon DEF NamesResolveByScope, Reader!NamesResolveByScope

\* A field is of a struct of a file that declares containers.
LEMMA FieldsOfFiles ==
  ASSUME MergeInv, Scopes, Reader!Count(built.tables, "types") =< NoIndex, Plain,
         reading = "done", Reader!FromProject,
         NEW row \in Reader!RowsIn(built.tables, "fields")
  PROVE  Populated(Reader!At(built.tables.structs.module,
                             Reader!At(built.tables.fields.owner, row)))
<1>1. PICK t : t = built.tables
  OBVIOUS
<1>2. /\ Listed(source) /\ Made(built) /\ Scoped(reading, at, built)
      /\ "done" \in Later
  BY DEF MergeInv, Merges, Scopes, Later
<1>3. \A i \in 1 .. Fields(built) : InScope(t, i, EveryMember[i].declared)
  BY <1>1, <1>2 DEF Scoped, Meant, Types
<1>4. Fields(built) \in Nat
  BY <1>2, LastsItself, FieldsLast DEF Made, WellMade, Fields
<1>5. row + 1 \in 1 .. Fields(built)
  <2>1. PICK n : n = Fields(built)
    OBVIOUS
  <2>2. row \in 0 .. n - 1 /\ n \in Nat
    BY <1>4, <2>1 DEF Fields, Reader!RowsIn
  <2> QED BY <2>1, <2>2
<1>6. InScope(t, row + 1, EveryMember[row + 1].declared)
  BY <1>3, <1>5
<1> QED BY <1>1, <1>6 DEF InScope, Reader!At

LEMMA StartScopes == Start => Scopes
<1> SUFFICES ASSUME Start PROVE Scopes
  OBVIOUS
<1>1. source = NoSource /\ by_name = << >>
  BY DEF Start, StartRead, StartEmit, ReaderIdle
<1> QED BY <1>1 DEF Scopes, Reader!FromProject, NoSource

\* A bare name in a field means its own file's container where it has one, and a
\* qualified one the container of the file that was imported under that name, in
\* every project whatever its files are and in whatever order they are read
\* (lib.rs:112-142): where there is an index for every type, and no container has
\* the name of a scalar or of void, which are asked first.
THEOREM NamesAreOfTheirScope ==
  SpecIntake =>
    [](Reader!Count(built.tables, "types") =< NoIndex /\ Plain => NamesResolveByScope)
<1> DEFINE Named ==
      Reader!Count(built.tables, "types") =< NoIndex /\ Plain => NamesResolveByScope
           ScopesInv == MergeInv /\ Scopes
<1>1. Start => ScopesInv
  BY StartMerges, StartScopes
<1>2. ScopesInv /\ [NextIntake]_all => ScopesInv'
  BY StepMerges, StepScopes
<1>3. ScopesInv => Named
  BY ScopesResolve
<1> HIDE DEF ScopesInv, Named
<1>4. SpecIntake => []Named
  BY <1>1, <1>2, <1>3, PTL DEF SpecIntake
<1> QED BY <1>4 DEF Named

-----------------------------------------------------------------------------
(* The file on the disk that a name was imported from.                     *)

\* Where a project is read, what is merged is what was parsed.
Merging ==
  command = "read" =>
    /\ decoding = "idle"
    /\ reading # "idle" => source = Parsed /\ IsRead /\ pc = "done"

\* The modules that are known by their names, each by the name it has.
ByName(n) ==
  /\ \A name \in DOMAIN by_name : source.modules[by_name[name] + 1].name = name
  /\ \A i \in 1 .. n : source.modules[i].name \in DOMAIN by_name

Naming ==
  /\ reading = "idle" => at = 0
  /\ Reader!FromProject =>
       ByName(IF reading = "modules" THEN at ELSE Len(source.modules))

LEMMA ParsedStays ==
  ASSUME UNCHANGED vars, contents' = contents
  PROVE  Parsed' = Parsed /\ (IsRead <=> IsRead')
<1>1. disk' = disk /\ request' = request /\ found' = found /\ project' = project
  BY DEF vars
<1>2. Files' = Files
  BY <1>1, OrderStays DEF Files, NoRoot
<1> QED BY <1>1, <1>2 DEF Parsed, IsRead, NoRoot, NoContents

LEMMA StartMerging == Start => Merging
BY DEF Start, StartRead, StartEmit, ReaderIdle, Merging

LEMMA StepMerging ==
  ASSUME CrawlInv, Merging, [NextIntake]_all
  PROVE  Merging'
<1>1. ASSUME UNCHANGED vars, command' = command, contents' = contents, decoding' = decoding,
             source' = source, reading' = "idle" \/ reading # "idle"
      PROVE  Merging'
  BY <1>1, ParsedStays DEF Merging, vars
<1>2. CASE FollowImports
  <2>1. /\ command = "read" /\ Crawls /\ Next
        /\ UNCHANGED <<reader_vars, wire_vars, command, contents>>
    BY <1>2 DEF FollowImports, CrawlInv
  <2>2. CASE reading = "idle"
    BY <2>1, <2>2 DEF Merging, reader_vars, wire_vars
  <2>3. CASE reading # "idle"
    <3>1. pc = "done"
      BY <2>1, <2>3 DEF Merging
    <3>2. UNCHANGED vars
      BY <2>1, <3>1 DEF Next, StartAtFile, StartAtScript, ScriptFails, TooMany, Again, Read,
                        AskFails, Crawled, Assemble, Returned, Crawling
    <3> QED BY <1>1, <2>1, <2>3, <3>2 DEF reader_vars, wire_vars
  <2> QED BY <2>2, <2>3
<1>3. CASE BuildProject
  <2>1. /\ IsRead /\ source' = Parsed
        /\ UNCHANGED <<vars, wire_vars, command, contents>>
    BY <1>3 DEF BuildProject, Hand
  <2>2. Parsed' = Parsed /\ IsRead' /\ pc' = pc
    BY <2>1, ParsedStays DEF vars
  <2>3. command = "read" => pc = "done"
    BY <2>1, ProjectKinds DEF CrawlInv, Crawls, IsRead
  <2> QED BY <2>1, <2>2, <2>3 DEF Merging, wire_vars
<1>4. CASE ReadFactFile
  BY <1>4 DEF ReadFactFile, Merging
<1>5. CASE GenerateFromBytes
  BY <1>5 DEF GenerateFromBytes, Hand, Merging
<1>6. CASE MergeAndValidate
  <2>1. /\ reading # "idle" /\ source' = source
        /\ UNCHANGED <<vars, wire_vars, command, contents>>
    BY <1>6, ValidationEnds DEF MergeAndValidate
  <2> QED BY <1>1, <2>1 DEF wire_vars
<1>7. CASE UNCHANGED all
  BY <1>1, <1>7 DEF all, reader_vars, wire_vars
<1> QED BY <1>2, <1>3, <1>4, <1>5, <1>6, <1>7 DEF NextIntake

\* A module is known by its name once it is declared, and a name is not given away.
LEMMA NamingNext ==
  ASSUME at \in Nat, Listed(source), IsMap(by_name, Len(source.modules)), Naming,
         Reader!FromProject, Reader!Next, reading # "idle"
  PROVE  Naming'
<1>1. source' = source /\ reading' # "idle" /\ Reader!FromProject'
  BY ValidationEnds, ReadingGoesOn DEF Reader!FromProject
<1>2. ByName(IF reading = "modules" THEN at ELSE Len(source.modules))
  BY DEF Naming
<1>4. CASE Reader!DeclareModules
  <2>1. /\ reading = "modules" /\ reading' = "modules" /\ at' = at + 1
        /\ at < Len(source.modules)
        /\ by_name' = Reader!PutIfAbsent(by_name, source.modules[at + 1].name, at)
    BY <1>4 DEF Reader!DeclareModules, Reader!ForNext, Reader!Items, Reader!ModuleAt
  <2>2. PICK old, new, name, modules :
          /\ old = by_name /\ new = by_name' /\ name = source.modules[at + 1].name
          /\ modules = source.modules
    BY Zenon
  <2>3. /\ \A x \in DOMAIN old : modules[old[x] + 1].name = x
        /\ \A i \in 1 .. at : modules[i].name \in DOMAIN old
        /\ new = Reader!PutIfAbsent(old, name, at) /\ modules[at + 1].name = name
    BY <1>2, <2>1, <2>2 DEF ByName
  <2>4. /\ DOMAIN new = DOMAIN old \cup {name}
        /\ \A x \in DOMAIN old : new[x] = old[x]
        /\ name \notin DOMAIN old => new[name] = at
    BY <2>3 DEF Reader!PutIfAbsent, Reader!Put
  <2>5. \A x \in DOMAIN new : modules[new[x] + 1].name = x
    BY <2>3, <2>4
  <2>6. ASSUME NEW i \in 1 .. at + 1 PROVE modules[i].name \in DOMAIN new
    <3>1. CASE i = at + 1
      BY <2>3, <2>4, <3>1
    <3>2. CASE i # at + 1
      <4>1. i \in 1 .. at
        BY <3>2
      <4> QED BY <2>3, <2>4, <4>1
    <3> QED BY <3>1, <3>2
  <2>7. source'.modules = modules /\ by_name' = new
    BY <1>1, <2>2
  <2>8. ByName(at)'
    BY <2>1, <2>5, <2>6, <2>7 DEF ByName
  <2> QED BY <1>1, <2>1, <2>8 DEF Naming
<1>5. CASE Reader!NextPhase
  <2>1. /\ reading' # "modules" /\ by_name' = by_name
        /\ reading = "modules" => at = Len(source.modules)
    BY <1>5 DEF Reader!NextPhase, Reader!Following, Reader!Items
  <2> QED BY <1>1, <1>2, <2>1 DEF Naming, ByName
<1>6. CASE \/ Reader!DeclareUnresolved \/ Reader!DeclareArtifact \/ Reader!DeclareVoid
           \/ Reader!DeclareContainers \/ Reader!DeclareMembers \/ Reader!DeclareFunctions
           \/ Reader!DeclareSources \/ Reader!DeclareCalls \/ Reader!DeclareMemory
           \/ Reader!DeclareBodies \/ Reader!Validate \/ Reader!Returned
  <2>1. reading # "modules" /\ reading' # "modules" /\ by_name' = by_name
    BY <1>6 DEF Reader!DeclareUnresolved, Reader!DeclareArtifact, Reader!DeclareVoid,
                Reader!DeclareContainers, Reader!DeclareMembers, Reader!DeclareFunctions,
                Reader!DeclareSources, Reader!DeclareCalls, Reader!DeclareMemory,
                Reader!DeclareBodies, Reader!Validate, Reader!Returned, Reader!ForNext,
                Reader!vars
  <2> QED BY <1>1, <1>2, <2>1 DEF Naming, ByName
<1> QED BY <1>4, <1>5, <1>6 DEF Reader!Next

LEMMA StartNaming == Start => Naming
<1> SUFFICES ASSUME Start PROVE Naming
  OBVIOUS
<1>1. source = NoSource /\ at = 0
  BY DEF Start, StartRead, StartEmit, ReaderIdle
<1> QED BY <1>1 DEF Naming, Reader!FromProject, NoSource

LEMMA StepNaming ==
  ASSUME MergeInv, Scopes, Naming, [NextIntake]_all
  PROVE  Naming'
<1>1. ASSUME UNCHANGED reader_vars PROVE Naming'
  BY <1>1 DEF reader_vars, Naming, ByName, Reader!FromProject
<1>2. ASSUME NEW given, Hand(given) PROVE Naming'
  <2>1. /\ reading = "idle" /\ source' = given /\ by_name' = by_name /\ at' = at
        /\ reading' = Reader!FirstPhase(given)
    BY <1>2 DEF Hand
  <2>2. by_name' = << >> /\ at' = 0
    BY <2>1 DEF Scopes, Naming
  <2>3. /\ reading' # "idle"
        /\ given.kind = "Project" => reading' = "modules"
    BY <2>1 DEF Reader!FirstPhase
  <2>4. DOMAIN by_name' = {} /\ 1 .. at' = {}
    BY <2>2
  <2>5. ByName(at)'
    BY <2>4 DEF ByName
  <2> QED BY <2>1, <2>3, <2>5 DEF Naming, Reader!FromProject
<1>3. CASE FollowImports \/ ReadFactFile \/ UNCHANGED all
  BY <1>1, <1>3 DEF FollowImports, ReadFactFile, all
<1>4. CASE BuildProject \/ GenerateFromBytes
  BY <1>2, <1>4 DEF BuildProject, GenerateFromBytes
<1>5. CASE MergeAndValidate
  <2>1. Reader!Next /\ reading # "idle"
    BY <1>5 DEF MergeAndValidate
  <2>2. CASE Reader!FromProject
    BY <2>1, <2>2, NamingNext DEF MergeInv, Merges, Scopes
  <2>3. CASE ~ Reader!FromProject
    BY <2>1, <2>3, ValidationEnds, ReadingGoesOn DEF Naming, Reader!FromProject
  <2> QED BY <2>2, <2>3
<1> QED BY <1>3, <1>4, <1>5 DEF NextIntake

\* No file imports two files under one name, which Zig does not let it.
AliasesDiffer ==
  \A m \in 1 .. Len(source.modules) :
    \A i, j \in DOMAIN source.modules[m].imports :
      source.modules[m].imports[i].alias = source.modules[m].imports[j].alias =>
        source.modules[m].imports[i].target = source.modules[m].imports[j].target

\* What a name is qualified with is the module that was imported under that name.
LEMMA ImportedIsQualified ==
  ASSUME Listed(source), AliasesDiffer, NEW m \in 0 .. Len(source.modules) - 1,
         NEW text, Len(text) # 1, NEW j \in DOMAIN source.modules[m + 1].imports,
         source.modules[m + 1].imports[j].alias = text[Len(text) - 1],
         source.modules[m + 1].imports[j].target \in DOMAIN by_name
  PROVE  by_name[source.modules[m + 1].imports[j].target] \in Reader!Qualified(m, text)
<1>1. PICK imports : imports = source.modules[m + 1].imports
  OBVIOUS
<1>2. m + 1 \in 1 .. Len(source.modules)
  BY DEF Listed
<1>3. DOMAIN imports = 1 .. Len(imports) /\ Len(imports) \in Nat
  BY <1>1, <1>2, InSequence DEF Listed, IsModule
<1>4. PICK named : named = { i \in Reader!ImportsOf(m) : imports[i].alias = text[Len(text) - 1] }
  BY Zenon
<1>5. j \in named /\ \A i \in named : i \in DOMAIN imports /\ imports[i].alias = imports[j].alias
  BY <1>1, <1>4 DEF Reader!ImportsOf, Reader!ModuleAt
<1>6. named \in SUBSET Nat /\ named # {}
  BY <1>3, <1>5
<1>7. PICK i \in named : \A k \in named : i =< k
  BY <1>6, LeastNatural, Zenon
<1>8. i \in Reader!Earliest(named)
  BY <1>7 DEF Reader!Earliest
<1>9. imports[i].target = imports[j].target
  BY <1>1, <1>2, <1>5, <1>7 DEF AliasesDiffer
<1>10. Reader!Qualified(m, text) =
         { by_name[imports[x].target] : x \in Reader!Earliest(named) }
  BY <1>1, <1>4 DEF Reader!Qualified, Reader!ModuleAt
<1> QED BY <1>1, <1>8, <1>9, <1>10

\* What is parsed has of a module its name, its imports, and what its file declares.
LEMMA ParsedModules ==
  ASSUME source = Parsed, NEW i \in DOMAIN Files
  PROVE  /\ source.modules[i].name = project.modules[i].name
         /\ source.modules[i].imports =
              [ j \in DOMAIN project.modules[i].imports |->
                  [ alias  |-> Alias(project.modules[i].imports[j].import.text),
                    target |-> project.modules[i].imports[j].module ] ]
         /\ Files[i] = NoRoot => source.modules[i].containers = << >>
<1>1. /\ Parsed.modules[i].name = project.modules[i].name
      /\ Parsed.modules[i].imports =
           [ j \in DOMAIN project.modules[i].imports |->
               [ alias  |-> Alias(project.modules[i].imports[j].import.text),
                 target |-> project.modules[i].imports[j].module ] ]
  BY DEF Parsed
<1>2. Files[i] = NoRoot => Parsed.modules[i].containers = << >>
  <2>1. Parsed.modules[i].containers =
          (IF Files[i] = NoRoot THEN NoContents ELSE contents[Files[i]]).containers
    BY DEF Parsed
  <2> QED BY <2>1 DEF NoContents
<1> QED BY <1>1, <1>2

\* Where two modules differ in their names, one is known by its own.
LEMMA ModuleIsKnown ==
  ASSUME source = Parsed, NamesDiffer, NEW n \in Nat, DOMAIN Files = 1 .. n,
         DOMAIN project.modules = 1 .. n, ByName(n), IsMap(by_name, n),
         NEW i \in 1 .. n
  PROVE  /\ source.modules[i].name \in DOMAIN by_name
         /\ by_name[source.modules[i].name] = i - 1
<1>1. PICK name : name = source.modules[i].name
  OBVIOUS
<1>2. PICK h : h = by_name[name]
  OBVIOUS
<1>3. name \in DOMAIN by_name /\ h \in 0 .. n - 1 /\ source.modules[h + 1].name = name
  BY <1>1, <1>2 DEF ByName, IsMap
<1>4. PICK j : j = h + 1
  OBVIOUS
<1>5. j \in 1 .. n /\ h = j - 1 /\ source.modules[j].name = name
  BY <1>3, <1>4
<1>6. project.modules[j].name = project.modules[i].name
  BY <1>1, <1>5, ParsedModules
<1>7. j = i
  <2>1. PICK names : names = [ k \in 1 .. n |-> project.modules[k].name ]
    BY Zenon
  <2>2. IsInjective(names)
    BY <2>1 DEF NamesDiffer
  <2>3. names[i] = names[j] /\ DOMAIN names = 1 .. n
    BY <1>5, <1>6, <2>1
  <2> QED BY <1>5, <2>2, <2>3 DEF IsInjective
<1> QED BY <1>1, <1>2, <1>3, <1>5, <1>7

\* When a project is merged, a name that was imported is of the file it was imported from.
LEMMA ImportsResolve ==
  ASSUME MergeInv, Scopes, Merging, Naming,
         Reader!Count(built.tables, "types") =< NoIndex, Plain, AliasesDiffer
  PROVE  ImportsAreOfTheirFile
<1> SUFFICES ASSUME command = "read", reading = "done", NamesDiffer
             PROVE  ImportsAreOfTheirFile
  BY Zenon DEF ImportsAreOfTheirFile
<1>1. source = Parsed /\ IsRead /\ Reader!FromProject
  <2>1. source = Parsed /\ IsRead
    BY DEF Merging
  <2>2. Parsed.kind = "Project"
    BY DEF Parsed
  <2> QED BY <2>1, <2>2 DEF Reader!FromProject
<1>2. PICK t : t = built.tables
  OBVIOUS
<1>3. ASSUME NEW row \in Reader!RowsIn(t, "fields"), NEW declared,
             declared = Reader!MemberAt(row).declared, NEW m,
             m = Reader!At(t.structs.module, Reader!At(t.fields.owner, row))
      PROVE  /\ Populated(m)
             /\ \A home \in Reader!Qualified(m, declared.name) :
                  Reader!DeclaresContainer(home, Reader!Last(declared.name)) =>
                    Reader!IsTypeOf(t, Reader!Unwrapped(t, Reader!At(t.fields.field_type, row),
                                                        declared.wraps),
                                    home, Reader!Last(declared.name))
  <2>1. NamesResolveByScope /\ Reader!Done
    BY ScopesResolve DEF Reader!Done
  <2>2. \A home \in Reader!Qualified(m, declared.name) :
          Reader!DeclaresContainer(home, Reader!Last(declared.name)) =>
            Reader!IsTypeOf(t, Reader!Unwrapped(t, Reader!At(t.fields.field_type, row),
                                                declared.wraps),
                            home, Reader!Last(declared.name))
    BY <1>1, <1>2, <1>3, <2>1, Zenon DEF NamesResolveByScope, Reader!NamesResolveByScope
  <2>3. Populated(m)
    BY <1>1, <1>2, <1>3, FieldsOfFiles
  <2> QED BY <2>2, <2>3
<1>4. PICK n \in Nat \ {0} : DOMAIN Files = 1 .. n /\ DOMAIN project.modules = 1 .. n
  BY <1>1 DEF MergeInv, Parsable
<1>5. Len(source.modules) = n /\ Listed(source)
  <2>1. Listed(source)
    BY <1>1 DEF MergeInv, Merges
  <2>2. DOMAIN source.modules = 1 .. n
    BY <1>1, <1>4 DEF Parsed
  <2>3. Len(source.modules) \in Nat /\ 1 .. Len(source.modules) = 1 .. n
    BY <2>1, <2>2 DEF Listed
  <2> QED BY <1>4, <2>1, <2>3
<1>6. ByName(n) /\ IsMap(by_name, n)
  BY <1>1, <1>5 DEF Naming, Scopes
<1>7. \A k \in 1 .. n : /\ source.modules[k].name \in DOMAIN by_name
                          /\ by_name[source.modules[k].name] = k - 1
  <2>1. n \in Nat
    BY <1>4
  <2> QED BY <1>1, <1>4, <1>6, <2>1, ModuleIsKnown, Zenon
<1>8. \A x : x > 1 => x # 1
  OBVIOUS
<1>9. ASSUME NEW row \in Reader!RowsIn(t, "fields"), NEW declared,
             declared = Reader!MemberAt(row).declared, NEW m,
             m = Reader!At(t.structs.module, Reader!At(t.fields.owner, row)),
             NEW import \in ToSet(disk[Files[m + 1]]), Len(declared.name) > 1,
             Alias(import.text) = declared.name[Len(declared.name) - 1],
             NEW to \in Resolved(Files[m + 1], import),
             Reader!DeclaresContainer(ModuleAt(to), Last(declared.name))
      PROVE  Reader!IsTypeOf(t, Reader!Unwrapped(t, Reader!At(t.fields.field_type, row),
                                                 declared.wraps),
                             ModuleAt(to), Last(declared.name))
  <2>1. Populated(m)
    BY <1>3, <1>9
  <2>2. m \in 0 .. Len(source.modules) - 1 /\ m + 1 \in 1 .. n
    BY <1>5, <2>1 DEF Populated
  <2>3. Files[m + 1] # NoRoot
    BY <1>1, <1>4, <2>1, <2>2, ParsedModules DEF Populated
  <2>4. PICK k : k = CHOOSE k_ \in DOMAIN Files : Files[k_] = to
    OBVIOUS
  <2>5. LinkedIn(Files, project.modules)
    BY <1>1 DEF MergeInv, Parsable, Linked
  <2>6. k \in 1 .. n /\ Files[k] = to
    <3>1. to \in ToSet(Files)
      BY <1>4, <1>9, <2>2, <2>3, <2>5 DEF LinkedIn
    <3>2. \E x \in DOMAIN Files : Files[x] = to
      BY <3>1 DEF ToSet
    <3> QED BY <1>4, <2>4, <3>2
  <2>7. PICK j \in DOMAIN project.modules[m + 1].imports :
          project.modules[m + 1].imports[j] =
            [import |-> import, module |-> project.modules[k].name]
    BY <1>4, <1>9, <2>2, <2>3, <2>5, <2>6 DEF LinkedIn
  <2>8. PICK imports : imports = source.modules[m + 1].imports
    OBVIOUS
  <2>9. /\ j \in DOMAIN imports /\ imports[j].alias = Alias(import.text)
        /\ imports[j].target = source.modules[k].name
    <3>1. PICK from : from = project.modules[m + 1].imports
      OBVIOUS
    <3>2. imports = [ x \in DOMAIN from |-> [ alias  |-> Alias(from[x].import.text),
                                              target |-> from[x].module ] ]
      <4>1. PICK i : i = m + 1
        OBVIOUS
      <4>2. source = Parsed /\ i \in DOMAIN Files
        BY <1>1, <1>4, <2>2, <4>1
      <4>3. source.modules[i].imports =
              [ x \in DOMAIN project.modules[i].imports |->
                  [ alias  |-> Alias(project.modules[i].imports[x].import.text),
                    target |-> project.modules[i].imports[x].module ] ]
        BY <4>2, ParsedModules, Zenon
      <4>4. imports = source.modules[i].imports /\ from = project.modules[i].imports
        BY <2>8, <3>1, <4>1
      <4> QED BY <4>3, <4>4, Zenon
    <3>3. source.modules[k].name = project.modules[k].name
      <4>1. source = Parsed /\ k \in DOMAIN Files
        BY <1>1, <1>4, <2>6
      <4> QED BY <4>1, ParsedModules, Zenon
    <3>4. /\ j \in DOMAIN from
          /\ from[j] = [import |-> import, module |-> project.modules[k].name]
      BY <2>7, <3>1
    <3> QED BY <3>2, <3>3, <3>4
  <2>10. /\ source.modules[k].name \in DOMAIN by_name
         /\ by_name[source.modules[k].name] = k - 1
    BY <1>7, <2>6
  <2>11. Len(declared.name) # 1
    BY <1>9, <1>8, Zenon
  <2>12. k - 1 \in Reader!Qualified(m, declared.name)
    <3>1. PICK text : text = declared.name
      OBVIOUS
    <3>2. /\ Len(text) # 1 /\ imports[j].alias = text[Len(text) - 1]
          /\ imports[j].target \in DOMAIN by_name /\ by_name[imports[j].target] = k - 1
      BY <1>9, <2>9, <2>10, <2>11, <3>1
    <3>3. by_name[imports[j].target] \in Reader!Qualified(m, text)
      BY <1>5, <2>2, <2>8, <2>9, <3>2, ImportedIsQualified
    <3> QED BY <3>1, <3>2, <3>3
  <2>13. ModuleAt(to) = k - 1
    BY <2>4 DEF ModuleAt
  <2>14. Last(declared.name) = Reader!Last(declared.name)
    BY DEF Last, Reader!Last
  <2> QED BY <1>3, <1>9, <2>12, <2>13, <2>14
<1> QED BY <1>2, <1>9, Zenon DEF ImportsAreOfTheirFile

\* What a file says of another by the name it imported it under is about the
\* declaration in the file on the disk that the import is of, in every project whose
\* modules have names of their own (project.rs:44-47; lib.rs:112-142): where there is
\* an index for every type, no container has the name of a scalar or of void, and no
\* file imports two under one name.
THEOREM ImportedNamesAreOfTheirFile ==
  SpecIntake =>
    [](Reader!Count(built.tables, "types") =< NoIndex /\ Plain /\ AliasesDiffer
         => ImportsAreOfTheirFile)
<1> DEFINE Named ==
      Reader!Count(built.tables, "types") =< NoIndex /\ Plain /\ AliasesDiffer
        => ImportsAreOfTheirFile
           ImportsInv == MergeInv /\ Scopes /\ Merging /\ Naming
<1>1. Start => ImportsInv
  BY StartMerges, StartScopes, StartMerging, StartNaming
<1>2. ImportsInv /\ [NextIntake]_all => ImportsInv'
  <2> SUFFICES ASSUME ImportsInv, [NextIntake]_all PROVE ImportsInv'
    OBVIOUS
  <2>1. CrawlInv
    BY DEF MergeInv
  <2>2. Merging'
    BY <2>1, StepMerging
  <2>3. Naming'
    BY StepNaming
  <2> QED BY <2>2, <2>3, StepMerges, StepScopes
<1>3. ImportsInv => Named
  BY ImportsResolve
<1> HIDE DEF ImportsInv, Named
<1>4. SpecIntake => []Named
  BY <1>1, <1>2, <1>3, PTL DEF SpecIntake
<1> QED BY <1>4 DEF Named

-----------------------------------------------------------------------------
(* What validation was given and what it said.                             *)

\* Tables that were built are columns of numbers where these are counted with.
LEMMA MadeIsColumns ==
  ASSUME NEW b, Made(b)
  PROVE  AreColumns(b.tables)
<1>1. Shaped(b.tables)
  BY DEF Made, WellMade
<1>2. ASSUME NEW name \in Numbered
      PROVE  b.tables[name[1]][name[2]] \in Seq(Nat)
  <2>1. PICK table, column_ : table = name[1] /\ column_ = name[2]
    OBVIOUS
  <2>2. /\ <<table, column_>> \in Numbered
        /\ table \in Reader!Table /\ column_ \in ToSet(Reader!Columns[table])
    BY <2>1, NumberedColumns
  <2>3. AreCells(table, column_, b.tables[table][column_])
    BY <1>1, <2>2 DEF Shaped
  <2> QED BY <2>1, <2>2, <2>3 DEF AreCells
<1> QED BY <1>2 DEF AreColumns

\* What validation was given and what it said: the tables of a file are as they were
\* decoded, and nothing is done to tables that were validated.
Validated ==
  /\ source.kind \in {"None", "Project", "File"}
  /\ source.kind = "None" => reading = "idle"
  /\ source.kind = "File" =>
       FromFile(source) /\ built.tables = source.tables /\ reading \in {"check", "done"}
  /\ reading = "done" =>
       problems = Reader!Problems(built.tables)
                    \cup (IF source.kind = "File"
                          THEN Reader!FileProblems(source.columns, source.target) ELSE {})

\* A project and a file come to the same end.
ReadInv == Decoding /\ MergeInv /\ Validated

LEMMA ReadableInv == ReadInv => ValidatedIsReadable
<1> SUFFICES ASSUME ReadInv, reading = "done", problems = {} PROVE ValidatedIsReadable
  BY Zenon DEF ValidatedIsReadable, Reader!ValidatedIsReadable, Reader!Done
<1>1. /\ Merges /\ Validated
  BY DEF ReadInv, MergeInv
<1>2. Reader!Problems(built.tables) = {}
  BY <1>1 DEF Validated
<1>3. CASE source.kind = "Project"
  <2>1. Reader!FromProject
    BY <1>3 DEF Reader!FromProject
  <2>2. AreColumns(built.tables)
    BY <1>1, <2>1, MadeIsColumns DEF Merges
  <2> QED BY <1>2, <2>1, <2>2, ReadableTables
<1>4. CASE source.kind = "File"
  <2>1. FromFile(source) /\ built.tables = source.tables
    BY <1>1, <1>4 DEF Validated
  <2>2. Reader!FileProblems(source.columns, source.target) = {}
    BY <1>1, <1>4 DEF Validated
  <2>3. TextsAreThere(source)
    BY <2>1, <2>2, TextsAre
  <2>4. AreColumns(built.tables)
    BY <2>1 DEF FromFile
  <2> QED BY <1>2, <2>1, <2>3, <2>4, ReadableTables
<1> QED BY <1>1, <1>3, <1>4 DEF Validated

LEMMA StartReads == Start => ReadInv
<1> SUFFICES ASSUME Start PROVE ReadInv
  OBVIOUS
<1>1. source = NoSource /\ reading = "idle"
  BY DEF Start, StartRead, StartEmit, ReaderIdle
<1>2. Validated
  BY <1>1 DEF Validated, NoSource
<1> QED BY <1>2, StartDecoding, StartMerges DEF ReadInv

LEMMA ReaderValidates ==
  ASSUME Validated, Reader!Next
  PROVE  Validated'
<1>1. source' = source
  BY ValidationEnds
<1>2. FromFile(source) = FromFile(source)'
  BY <1>1
<1>3. source.kind # "None"
  <2> SUFFICES ASSUME source.kind = "None" PROVE FALSE
    OBVIOUS
  <2>1. reading = "idle"
    BY DEF Validated
  <2> QED BY <2>1 DEF Reader!Next, Reader!DeclareModules, Reader!DeclareUnresolved,
         Reader!DeclareArtifact, Reader!DeclareVoid, Reader!DeclareContainers,
         Reader!DeclareMembers, Reader!DeclareFunctions, Reader!DeclareSources,
         Reader!DeclareCalls, Reader!DeclareMemory, Reader!DeclareBodies,
         Reader!NextPhase, Reader!Validate, Reader!Returned, Reader!ForNext, Reader!Following
<1>4. CASE Reader!Validate
  <2>1. /\ reading' = "done" /\ built' = built
        /\ problems' = Reader!Problems(built.tables)
             \cup (IF source.kind = "File"
                   THEN Reader!FileProblems(source.columns, source.target) ELSE {})
    BY <1>4 DEF Reader!Validate
  <2> QED BY <1>1, <1>3, <2>1 DEF Validated, FromFile
<1>5. CASE Reader!Returned
  <2>1. reading' = reading /\ built' = built /\ problems' = problems
    BY <1>5 DEF Reader!Returned, Reader!vars
  <2> QED BY <1>1, <1>3, <2>1 DEF Validated, FromFile
<1>6. CASE reading \notin {"check", "done"} /\ reading' # "done"
  <2>1. source.kind = "Project"
    BY <1>3, <1>6 DEF Validated
  <2> QED BY <1>1, <1>6, <2>1 DEF Validated
<1> QED BY <1>4, <1>5, <1>6, ValidationEnds

LEMMA StepReads == ReadInv /\ [NextIntake]_all => ReadInv'
<1> SUFFICES ASSUME ReadInv, [NextIntake]_all PROVE ReadInv'
  OBVIOUS
<1>1. Decoding /\ MergeInv /\ Validated
  BY DEF ReadInv
<1>2. Decoding' /\ MergeInv'
  BY <1>1, StepDecoding, StepMerges
<1>3. UNCHANGED reader_vars => Validated'
  BY <1>1 DEF reader_vars, Validated, FromFile
<1>4. Validated'
  <2>1. CASE FollowImports
    BY <1>3, <2>1 DEF FollowImports
  <2>2. CASE BuildProject
    <3>1. Hand(Parsed) /\ Parsed.kind = "Project"
      BY <2>2 DEF BuildProject, Parsed
    <3>2. source'.kind = "Project" /\ reading' = "modules"
      BY <3>1 DEF Hand, Reader!FirstPhase
    <3> QED BY <3>2, SMTT(30) DEF Validated
  <2>3. CASE ReadFactFile
    BY <1>3, <2>3 DEF ReadFactFile
  <2>4. CASE GenerateFromBytes
    <3>1. decoding = "accepted" /\ Hand(Decoded)
      BY <2>4 DEF GenerateFromBytes
    <3>2. Fits(read)
      BY <1>1, <3>1 DEF Decoding, SaysSoFar
    <3>3. FromFile(Decoded)
      BY <3>2, DecodedIsFromFile
    <3>4. PICK d : d = Decoded
      OBVIOUS
    <3>5. FromFile(d) /\ d.kind = "File"
      BY <3>3, <3>4 DEF FromFile
    <3>6. source' = d /\ reading' = "check" /\ built' = Reader!NothingBuilt(d)
      BY <3>1, <3>4, <3>5 DEF Hand, Reader!FirstPhase
    <3>7. built'.tables = d.tables
      BY <3>5, <3>6 DEF Reader!NothingBuilt
    <3> QED BY <3>5, <3>6, <3>7 DEF Validated, FromFile
  <2>5. CASE MergeAndValidate
    BY <1>1, <2>5, ReaderValidates DEF MergeAndValidate
  <2>6. CASE UNCHANGED all
    BY <1>3, <2>6 DEF all
  <2> QED BY <2>1, <2>2, <2>3, <2>4, <2>5, <2>6 DEF NextIntake
<1> QED BY <1>2, <1>4 DEF ReadInv

\* Tables that validation finds nothing wrong with, built of any project or decoded
\* from any file, can be read without another look: every row with an owner is in
\* the range of exactly one, calls are together by caller, an allocator that is a
\* parameter is a row there is, and the bytes of a text are there (validate.rs:
\* 276-1011).
THEOREM ValidatedTablesAreReadable == SpecIntake => []ValidatedIsReadable
BY StartReads, StepReads, ReadableInv, PTL DEF SpecIntake

=============================================================================

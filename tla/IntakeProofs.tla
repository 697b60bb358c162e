----------------------------- MODULE IntakeProofs -----------------------------
(***************************************************************************)
(* Proofs about the intake.  The decoder of fact files reads what the      *)
(* encoder wrote, and takes no other file for one: proved for every base,  *)
(* every magic, all tables that fit a file and everything that may become  *)
(* of their files.  The crawl makes a whole project of every disk.  What   *)
(* the frontend makes of it is the business of FrontendProofs; lemmas of   *)
(* its loops and of well-made tables are here.                             *)
(*                                                                         *)
(* What is read is at every moment what the bytes before the cursor say    *)
(* (SaysSoFar), which is a matter of the digits of a word, of words in a   *)
(* row, and of the columns being listed once and in one order.             *)
(*                                                                         *)
(* What is found or pending can all be reached, and what was found imports *)
(* nothing that is neither (Crawls), so that with nothing pending          *)
(* it is what can be reached.  The modules are made of it put in order.    *)
(*                                                                         *)
(* What validation passes tiles its rows, so each is held once; columns    *)
(* that were decoded or made are the numbers validation counts with.       *)
(***************************************************************************)
EXTENDS Intake, SequenceTheorems, WellFoundedInduction, FiniteSetTheorems,
        FunctionTheorems, TLAPS

(* Division.                                                               *)

\* What a number is divided into.
LEMMA Division ==
  ASSUME NEW b \in Nat \ {0}, NEW v \in Nat
  PROVE  /\ v \div b \in Nat
         /\ v % b \in 0 .. b - 1
         /\ v = b * (v \div b) + (v % b)
  OBVIOUS

\* A product grows with what it is of, by a whole multiple.
LEMMA Monotone ==
  ASSUME NEW b \in Nat, NEW q \in Nat, NEW p \in Nat, q < p
  PROVE  b * q + b =< b * p
<1>1. PICK d \in Nat : p = q + 1 + d
  <2>1. p - q - 1 \in Nat /\ p = q + 1 + (p - q - 1)
    OBVIOUS
  <2> QED BY <2>1
<1>2. b * p = b * q + b + b * d
  BY <1>1
<1>3. b * d \in Nat /\ b * q \in Nat
  OBVIOUS
<1> QED BY <1>2, <1>3

\* The same where it need not grow.
LEMMA NotBelow ==
  ASSUME NEW b \in Nat, NEW q \in Nat, NEW p \in Nat, q =< p
  PROVE  b * q =< b * p
<1>1. q = p \/ q < p
  OBVIOUS
<1>2. b * q \in Nat /\ b * p \in Nat
  OBVIOUS
<1> QED BY <1>1, <1>2, Monotone

\* There is one way to divide.
LEMMA OneDivision ==
  ASSUME NEW b \in Nat \ {0}, NEW q \in Nat, NEW r \in 0 .. b - 1
  PROVE  (b * q + r) \div b = q /\ (b * q + r) % b = r
<1> DEFINE v == b * q + r  p == v \div b  s == v % b
<1>1. v \in Nat /\ b * q \in Nat
  OBVIOUS
<1>2. p \in Nat /\ s \in 0 .. b - 1 /\ v = b * p + s /\ b * p \in Nat
  <2> HIDE DEF v
  <2>1. v \div b \in Nat /\ (v % b) \in 0 .. b - 1 /\ v = b * (v \div b) + (v % b)
    BY <1>1, Division, Zenon
  <2> HIDE DEF p, s
  <2>2. p \in Nat /\ s \in 0 .. b - 1 /\ v = b * p + s
    BY <2>1 DEF p, s
  <2> QED BY <2>2
<1>3. v = b * q + r
  OBVIOUS
<1> HIDE DEF v, p, s
<1>4. ~ (p < q)
  BY <1>1, <1>2, <1>3, Monotone
<1>5. ~ (q < p)
  BY <1>1, <1>2, <1>3, Monotone
<1>6. p = q
  BY <1>2, <1>4, <1>5
<1> QED BY <1>1, <1>2, <1>3, <1>6 DEF p, s, v

\* To divide by a product is to divide by one and then by the other.
LEMMA DivisionTwice ==
  ASSUME NEW b \in Nat \ {0}, NEW c \in Nat \ {0}, NEW v \in Nat
  PROVE  v \div (b * c) = (v \div b) \div c
<1> DEFINE q == v \div b  r == v % b  p == q \div c  s == q % c
<1>1. q \in Nat /\ r \in 0 .. b - 1 /\ v = b * q + r
  BY Division, Zenon
<1> HIDE DEF q, r
<1>2. p \in Nat /\ s \in 0 .. c - 1 /\ q = c * p + s
  BY <1>1, Division, Zenon
<1> HIDE DEF p, s
<1>3. v = (b * c) * p + (b * s + r)
  <2>1. b * q = b * (c * p) + b * s
    BY <1>2
  <2>2. b * (c * p) = (b * c) * p
    BY <1>2
  <2> QED BY <1>1, <1>2, <2>1, <2>2
<1>4. b * s + r \in 0 .. b * c - 1
  <2>1. b * s + b =< b * c
    BY <1>2, Monotone
  <2>2. b * s \in Nat /\ b * c \in Nat
    BY <1>2
  <2> QED BY <1>1, <2>1, <2>2
<1>5. b * c \in Nat \ {0}
  <2>1. b * 0 + b =< b * c
    BY Monotone
  <2>2. b * c \in Nat
    OBVIOUS
  <2> QED BY <2>1, <2>2
<1>6. v \div (b * c) = p
  <2> DEFINE m == b * c  t == b * s + r
  <2> HIDE DEF m, t
  <2>1. m \in Nat \ {0} /\ t \in 0 .. m - 1 /\ v = m * p + t
    BY <1>3, <1>4, <1>5 DEF m, t
  <2>2. v \div m = p
    BY <1>2, <2>1, OneDivision
  <2> QED BY <2>2 DEF m
<1> QED BY <1>6 DEF p, q

-----------------------------------------------------------------------------
(* Sequences in a row.                                                     *)

\* A set of natural numbers has a least one.
LEMMA LeastNatural ==
  ASSUME NEW S \in SUBSET Nat, S # {}
  PROVE  \E m \in S : \A k \in S : m =< k
<1> DEFINE R == OpToRel(<, Nat)
<1>1. IsWellFoundedOn(R, Nat)
  BY NatLessThanWellFounded, Zenon
<1> HIDE DEF R
<1>2. PICK m \in S : \A k \in S : ~ (<<k, m>> \in R)
  BY <1>1, WFMin, Zenon
<1>3. ASSUME NEW k \in S PROVE m =< k
  <2>1. m \in Nat /\ k \in Nat
    OBVIOUS
  <2>2. k < m => <<k, m>> \in R
    BY <2>1 DEF R, OpToRel
  <2> QED BY <1>2, <2>1, <2>2
<1> QED BY <1>3

\* A set of numbers with the first and the next of each has them all.
LEMMA CountingUp ==
  ASSUME NEW S, 0 \in S, \A n \in Nat : n \in S => n + 1 \in S
  PROVE  Nat \subseteq S
<1> DEFINE Bad == Nat \ S
<1>1. SUFFICES ASSUME Bad # {} PROVE FALSE
  OBVIOUS
<1>2. PICK n \in Bad : \A k \in Bad : n =< k
  BY <1>1, LeastNatural, Zenon
<1>3. n \in Nat /\ n # 0 /\ n - 1 \in Nat /\ ~ (n =< n - 1) /\ (n - 1) + 1 = n
  BY <1>2
<1>4. n - 1 \in S
  BY <1>2, <1>3
<1> QED BY <1>2, <1>3, <1>4

\* The sequences of a sequence, from the first to the i-th, in a row.
Flats(seqs) ==
  LET flatten[i \in 1 .. Len(seqs)] ==
        IF i = 1 THEN seqs[i] ELSE flatten[i - 1] \o seqs[i]
  IN  flatten

\* They are what the recursion says.
LEMMA FlatsAre ==
  ASSUME NEW seqs, Len(seqs) \in Nat \ {0}
  PROVE  Flats(seqs) = [i \in 1 .. Len(seqs) |->
                          IF i = 1 THEN seqs[i] ELSE Flats(seqs)[i - 1] \o seqs[i]]
<1> DEFINE AreFlats(f, n) ==
             f = [i \in 1 .. n |-> IF i = 1 THEN seqs[i] ELSE f[i - 1] \o seqs[i]]
           Good == { n \in Nat : n # 0 => \E f : AreFlats(f, n) }
<1>1. SUFFICES \E f : AreFlats(f, Len(seqs))
  <2>1. Flats(seqs) = CHOOSE f : AreFlats(f, Len(seqs))
    BY DEF Flats
  <2>2. ASSUME \E f : AreFlats(f, Len(seqs)) PROVE AreFlats(Flats(seqs), Len(seqs))
    <3> HIDE DEF AreFlats
    <3> QED BY <2>1, <2>2, Zenon
  <2> HIDE DEF AreFlats
  <2>3. AreFlats(Flats(seqs), Len(seqs)) =>
          Flats(seqs) = [i \in 1 .. Len(seqs) |->
                           IF i = 1 THEN seqs[i] ELSE Flats(seqs)[i - 1] \o seqs[i]]
    BY Zenon DEF AreFlats
  <2> QED BY <2>2, <2>3, Zenon
<1>2. 0 \in Good
  OBVIOUS
<1>3. ASSUME NEW n \in Nat, n \in Good PROVE n + 1 \in Good
  <2>1. CASE n = 0
    <3> DEFINE f == [i \in 1 .. 1 |-> seqs[i]]
    <3>1. f = [i \in 1 .. 1 |-> IF i = 1 THEN seqs[i] ELSE f[i - 1] \o seqs[i]]
      OBVIOUS
    <3>2. AreFlats(f, 1)
      BY <3>1
    <3> HIDE DEF f, AreFlats
    <3>3. \E h : AreFlats(h, 1)
      BY <3>2
    <3> QED BY <2>1, <3>3
  <2>2. CASE n # 0
    <3>1. PICK f : AreFlats(f, n)
      BY <1>3, <2>2, Zenon
    <3> DEFINE g == [i \in 1 .. n + 1 |->
                       IF i = n + 1 THEN f[n] \o seqs[n + 1] ELSE f[i]]
    <3>2. ASSUME NEW i \in 1 .. n + 1
          PROVE  g[i] = IF i = 1 THEN seqs[i] ELSE g[i - 1] \o seqs[i]
      <4>1. CASE i = n + 1
        <5>1. n \in 1 .. n + 1 /\ n # n + 1 /\ i # 1 /\ i - 1 = n
          BY <2>2, <4>1
        <5>2. g[i] = f[n] \o seqs[n + 1] /\ g[n] = f[n]
          BY <4>1, <5>1, Zenon
        <5> QED BY <4>1, <5>1, <5>2, Zenon
      <4>2. CASE i # n + 1
        <5>1. i \in 1 .. n
          BY <4>2
        <5>2. f[i] = IF i = 1 THEN seqs[i] ELSE f[i - 1] \o seqs[i]
          <6> HIDE DEF g, Good
          <6> QED BY <3>1, <5>1, Zenon
        <5>3. g[i] = f[i]
          BY <4>2
        <5>4. i # 1 => i - 1 \in 1 .. n + 1 /\ i - 1 # n + 1
          BY <5>1
        <5>5. i # 1 => g[i - 1] = f[i - 1]
          BY <5>4
        <5> QED BY <5>2, <5>3, <5>5
      <4> QED BY <4>1, <4>2
    <3>3. AreFlats(g, n + 1)
      <4>1. g = [i \in 1 .. n + 1 |-> g[i]]
        OBVIOUS
      <4> HIDE DEF g
      <4> QED BY <3>2, <4>1, Zenon
    <3> HIDE DEF g, AreFlats
    <3>4. \E h : AreFlats(h, n + 1)
      BY <3>3
    <3> QED BY <3>4
  <2> QED BY <2>1, <2>2, Zenon
<1> HIDE DEF Good
<1>4. Len(seqs) \in Good
  BY <1>2, <1>3, CountingUp
<1> QED BY <1>4, Zenon DEF Good

\* The first is there, and the next is put after what there is.
LEMMA FlatsStep ==
  ASSUME NEW seqs, Len(seqs) \in Nat \ {0}
  PROVE  /\ Flats(seqs)[1] = seqs[1]
         /\ \A i \in 1 .. Len(seqs) - 1 :
              Flats(seqs)[i + 1] = Flats(seqs)[i] \o seqs[i + 1]
         /\ FlattenSeq(seqs) = Flats(seqs)[Len(seqs)]
<1> DEFINE f == Flats(seqs)
<1>1. \A i \in 1 .. Len(seqs) : f[i] = IF i = 1 THEN seqs[i] ELSE f[i - 1] \o seqs[i]
  <2>1. f = [i \in 1 .. Len(seqs) |-> IF i = 1 THEN seqs[i] ELSE f[i - 1] \o seqs[i]]
    BY FlatsAre, Zenon
  <2> HIDE DEF f
  <2> QED BY <2>1, Zenon
<1>2. FlattenSeq(seqs) = f[Len(seqs)]
  BY DEF FlattenSeq, Flats
<1> HIDE DEF f
<1>3. f[1] = seqs[1]
  BY <1>1
<1>4. ASSUME NEW i \in 1 .. Len(seqs) - 1 PROVE f[i + 1] = f[i] \o seqs[i + 1]
  <2>1. i + 1 \in 1 .. Len(seqs) /\ i + 1 # 1 /\ (i + 1) - 1 = i
    OBVIOUS
  <2> QED BY <1>1, <2>1, Zenon
<1> QED BY <1>2, <1>3, <1>4, Zenon DEF f

\* They depend on what is in a row and on nothing after it.
LEMMA FlatsAgree ==
  ASSUME NEW s, NEW t, Len(s) \in Nat \ {0}, Len(t) \in Nat \ {0},
         NEW k \in Nat, k =< Len(s), k =< Len(t), \A i \in 1 .. k : s[i] = t[i]
  PROVE  \A i \in 1 .. k : Flats(s)[i] = Flats(t)[i]
<1> DEFINE Good == { n \in Nat : n \in 1 .. k => Flats(s)[n] = Flats(t)[n] }
<1>1. 0 \in Good
  OBVIOUS
<1>2. ASSUME NEW n \in Nat, n \in Good PROVE n + 1 \in Good
  <2> SUFFICES ASSUME n + 1 \in 1 .. k PROVE Flats(s)[n + 1] = Flats(t)[n + 1]
    OBVIOUS
  <2>1. s[n + 1] = t[n + 1]
    OBVIOUS
  <2>2. CASE n = 0
    <3>1. Flats(s)[1] = s[1] /\ Flats(t)[1] = t[1]
      BY FlatsStep, Zenon
    <3> QED BY <2>1, <2>2, <3>1
  <2>3. CASE n # 0
    <3>1. n \in 1 .. Len(s) - 1 /\ n \in 1 .. Len(t) - 1 /\ n \in 1 .. k
      BY <2>3
    <3>2. Flats(s)[n + 1] = Flats(s)[n] \o s[n + 1]
      BY <3>1, FlatsStep, Zenon
    <3>3. Flats(t)[n + 1] = Flats(t)[n] \o t[n + 1]
      BY <3>1, FlatsStep, Zenon
    <3> QED BY <1>2, <2>1, <3>1, <3>2, <3>3, Zenon
  <2> QED BY <2>2, <2>3
<1> HIDE DEF Good
<1>3. Nat \subseteq Good
  BY <1>1, <1>2, CountingUp, Zenon
<1> QED BY <1>3 DEF Good

\* What one more sequence adds.
LEMMA FlattenAppend ==
  ASSUME NEW S, NEW s \in Seq(Seq(S)), NEW x \in Seq(S)
  PROVE  FlattenSeq(Append(s, x)) = FlattenSeq(s) \o x
<1> DEFINE t == Append(s, x)
<1>1. /\ Len(s) \in Nat /\ Len(t) = Len(s) + 1
      /\ \A i \in 1 .. Len(s) : t[i] = s[i]
      /\ t[Len(s) + 1] = x
      /\ Len(t) \in Nat \ {0}
  BY AppendProperties
<1> HIDE DEF t
<1>2. CASE Len(s) = 0
  <2>1. FlattenSeq(t) = x
    <3>1. Flats(t)[1] = t[1] /\ FlattenSeq(t) = Flats(t)[Len(t)]
      BY <1>1, FlatsStep, Zenon
    <3> QED BY <1>1, <1>2, <3>1
  <2>2. FlattenSeq(s) = << >>
    <3>1. s = << >>
      BY <1>2, EmptySeq
    <3> QED BY <1>2, <3>1 DEF FlattenSeq
  <2>3. << >> \o x = x
    BY ConcatEmptySeq
  <2> QED BY <2>1, <2>2, <2>3 DEF t
<1>3. CASE Len(s) # 0
  <2>1. FlattenSeq(s) = Flats(s)[Len(s)]
    BY <1>1, <1>3, FlatsStep, Zenon
  <2>2. FlattenSeq(t) = Flats(t)[Len(s) + 1]
    BY <1>1, FlatsStep, Zenon
  <2>3. Flats(t)[Len(s) + 1] = Flats(t)[Len(s)] \o x
    <3>1. Len(t) \in Nat \ {0} /\ Len(s) \in 1 .. Len(t) - 1
      BY <1>1, <1>3
    <3> QED BY <1>1, <3>1, FlatsStep, Zenon
  <2>4. Flats(t)[Len(s)] = Flats(s)[Len(s)]
    <3> DEFINE k == Len(s)
    <3>1. /\ Len(t) \in Nat \ {0} /\ Len(s) \in Nat \ {0}
          /\ k \in Nat /\ k =< Len(s) /\ k =< Len(t) /\ k \in 1 .. k
          /\ \A i \in 1 .. k : t[i] = s[i]
      BY <1>1, <1>3
    <3> HIDE DEF k
    <3>2. \A i \in 1 .. k : Flats(t)[i] = Flats(s)[i]
      BY <3>1, FlatsAgree
    <3>3. Flats(t)[k] = Flats(s)[k]
      BY <3>1, <3>2
    <3> QED BY <3>3 DEF k
  <2> QED BY <2>1, <2>2, <2>3, <2>4 DEF t
<1> QED BY <1>1, <1>2, <1>3

\* Nothing in a row is nothing.
LEMMA FlattenEmpty == FlattenSeq(<< >>) = << >>
  BY DEF FlattenSeq

\* The function form of the same: one more of what a function says.
LEMMA FlattenNext ==
  ASSUME NEW S, NEW F, NEW n \in Nat, \A i \in 1 .. n + 1 : F[i] \in Seq(S)
  PROVE  /\ FlattenSeq([i \in 1 .. 0 |-> F[i]]) = << >>
         /\ FlattenSeq([i \in 1 .. n + 1 |-> F[i]])
              = FlattenSeq([i \in 1 .. n |-> F[i]]) \o F[n + 1]
<1> DEFINE s == [i \in 1 .. n |-> F[i]]  t == [i \in 1 .. n + 1 |-> F[i]]
<1>1. s \in Seq(Seq(S)) /\ Len(s) = n
  OBVIOUS
<1>2. t \in Seq(Seq(S)) /\ Len(t) = n + 1
  OBVIOUS
<1>3. F[n + 1] \in Seq(S)
  OBVIOUS
<1>4. t = Append(s, F[n + 1])
  <2>1. Append(s, F[n + 1]) \in Seq(Seq(S)) /\ Len(Append(s, F[n + 1])) = n + 1
    BY <1>1, <1>3, AppendProperties
  <2>2. ASSUME NEW i \in 1 .. n + 1 PROVE t[i] = Append(s, F[n + 1])[i]
    OBVIOUS
  <2> HIDE DEF s, t
  <2> QED BY <1>2, <2>1, <2>2, SeqEqual
<1>5. FlattenSeq(t) = FlattenSeq(s) \o F[n + 1]
  <2> HIDE DEF s, t
  <2> QED BY <1>1, <1>3, <1>4, FlattenAppend, Zenon
<1>6. [i \in 1 .. 0 |-> F[i]] = << >>
  OBVIOUS
<1> QED BY <1>5, <1>6, FlattenEmpty, Zenon

\* What is put in a row is a sequence of the same things.
LEMMA FlattenType ==
  ASSUME NEW S, NEW s \in Seq(Seq(S))
  PROVE  FlattenSeq(s) \in Seq(S)
<1> DEFINE Good == { n \in Nat : n =< Len(s) => FlattenSeq([i \in 1 .. n |-> s[i]]) \in Seq(S) }
<1>0. Len(s) \in Nat /\ \A i \in 1 .. Len(s) : s[i] \in Seq(S)
  OBVIOUS
<1>1. 0 \in Good
  <2>1. [i \in 1 .. 0 |-> s[i]] = << >>
    OBVIOUS
  <2>2. << >> \in Seq(S)
    OBVIOUS
  <2> QED BY <2>1, <2>2, FlattenEmpty, Zenon
<1>2. ASSUME NEW n \in Nat, n \in Good PROVE n + 1 \in Good
  <2> SUFFICES ASSUME n + 1 =< Len(s)
               PROVE  FlattenSeq([i \in 1 .. n + 1 |-> s[i]]) \in Seq(S)
    OBVIOUS
  <2> DEFINE before == FlattenSeq([i \in 1 .. n |-> s[i]])
  <2>1. before \in Seq(S) /\ s[n + 1] \in Seq(S)
    BY <1>0, <1>2
  <2>2. FlattenSeq([i \in 1 .. n + 1 |-> s[i]]) = before \o s[n + 1]
    <3>1. \A i \in 1 .. n + 1 : s[i] \in Seq(S)
      BY <1>0
    <3> QED BY <3>1, FlattenNext, Zenon
  <2> HIDE DEF before
  <2> QED BY <2>1, <2>2, ConcatProperties, Zenon
<1> HIDE DEF Good
<1>3. Len(s) \in Good
  BY <1>0, <1>1, <1>2, CountingUp, Zenon
<1>4. [i \in 1 .. Len(s) |-> s[i]] = s
  OBVIOUS
<1>5. FlattenSeq([i \in 1 .. Len(s) |-> s[i]]) \in Seq(S)
  BY <1>0, <1>3 DEF Good
<1> QED BY <1>4, <1>5, Zenon

-----------------------------------------------------------------------------
(* The order of the columns.                                               *)

\* A list of columns each of which is there once, of some tables and no other.
Lists(s, tables) ==
  /\ \E S : s \in Seq(S)
  /\ \A i \in 1 .. Len(s) : s[i][1] \in tables
  /\ \A i, j \in 1 .. Len(s) : s[i] = s[j] => i = j

\* The columns of one table.
LEMMA OneTable ==
  ASSUME NEW table, NEW names, NEW n \in Nat, DOMAIN names = 1 .. n,
         \A i, j \in 1 .. n : names[i] = names[j] => i = j
  PROVE  Lists(Of(table, names), {table})
<1> DEFINE s == [i \in 1 .. n |-> <<table, names[i]>>]
           S == { <<table, names[i]>> : i \in 1 .. n }
<1>1. s = Of(table, names)
  BY DEF Of
<1>2. s \in Seq(S) /\ Len(s) = n
  <2>1. \A i \in 1 .. n : <<table, names[i]>> \in S
    OBVIOUS
  <2> HIDE DEF S
  <2> QED BY <2>1
<1>3. \A i \in 1 .. n : s[i][1] = table /\ s[i][2] = names[i]
  OBVIOUS
<1> HIDE DEF s, S
<1>4. \A i \in 1 .. Len(s) : s[i][1] \in {table}
  BY <1>2, <1>3
<1>5. ASSUME NEW i \in 1 .. Len(s), NEW j \in 1 .. Len(s), s[i] = s[j]
      PROVE  i = j
  <2>1. i \in 1 .. n /\ j \in 1 .. n
    BY <1>2
  <2>2. names[i] = names[j]
    BY <1>3, <1>5, <2>1
  <2> QED BY <2>1, <2>2
<1>6. Lists(s, {table})
  BY <1>2, <1>4, <1>5 DEF Lists
<1> QED BY <1>1, <1>6

\* Two lists of different tables, one after the other.
LEMMA TwoLists ==
  ASSUME NEW s, NEW t, NEW A, NEW B, Lists(s, A), Lists(t, B), A \cap B = {}
  PROVE  Lists(s \o t, A \cup B)
<1> DEFINE u == s \o t
<1>0. PICK S : s \in Seq(S) /\ t \in Seq(S)
  <2>1. PICK S : s \in Seq(S)
    BY DEF Lists
  <2>2. PICK T : t \in Seq(T)
    BY DEF Lists
  <2>3. S \subseteq S \cup T /\ T \subseteq S \cup T
    OBVIOUS
  <2>4. s \in Seq(S \cup T) /\ t \in Seq(S \cup T)
    BY <2>1, <2>2, <2>3, SeqMonotonic
  <2> QED BY <2>4
<1>1. /\ u \in Seq(S) /\ Len(u) = Len(s) + Len(t)
      /\ \A i \in 1 .. Len(s) + Len(t) :
           u[i] = IF i =< Len(s) THEN s[i] ELSE t[i - Len(s)]
  BY <1>0, ConcatProperties
<1>2. Len(s) \in Nat /\ Len(t) \in Nat
  BY <1>0
<1> HIDE DEF u
<1>3. ASSUME NEW i \in 1 .. Len(u)
      PROVE  /\ i =< Len(s) => i \in 1 .. Len(s) /\ u[i] = s[i] /\ u[i][1] \in A
             /\ ~ (i =< Len(s)) => /\ i - Len(s) \in 1 .. Len(t)
                                   /\ u[i] = t[i - Len(s)] /\ u[i][1] \in B
  <2>1. CASE i =< Len(s)
    <3>1. i \in 1 .. Len(s) /\ u[i] = s[i]
      BY <1>1, <1>2, <2>1
    <3> QED BY <2>1, <3>1 DEF Lists
  <2>2. CASE ~ (i =< Len(s))
    <3>1. i - Len(s) \in 1 .. Len(t) /\ u[i] = t[i - Len(s)]
      BY <1>1, <1>2, <2>2
    <3> QED BY <2>2, <3>1 DEF Lists
  <2> QED BY <2>1, <2>2
<1>4. ASSUME NEW i \in 1 .. Len(u), NEW j \in 1 .. Len(u), u[i] = u[j]
      PROVE  i = j
  <2>1. CASE i =< Len(s) /\ j =< Len(s)
    BY <1>3, <1>4, <2>1 DEF Lists
  <2>2. CASE ~ (i =< Len(s)) /\ ~ (j =< Len(s))
    <3>1. i - Len(s) = j - Len(s)
      BY <1>3, <1>4, <2>2, SMTT(30) DEF Lists
    <3> QED BY <1>1, <1>2, <3>1
  <2>3. CASE (i =< Len(s)) # (j =< Len(s))
    <3>1. u[i][1] \in A \cap B
      BY <1>3, <1>4, <2>3
    <3> QED BY <3>1
  <2> QED BY <2>1, <2>2, <2>3
<1>5. \A i \in 1 .. Len(u) : u[i][1] \in A \cup B
  BY <1>3
<1> QED BY <1>1, <1>4, <1>5 DEF Lists, u

\* No name is in a list twice.
Distinct(names, n) ==
  n \in Nat /\ DOMAIN names = 1 .. n /\ \A i, j \in 1 .. n : names[i] = names[j] => i = j

\* The columns of two tables, and of three.
LEMMA TwoTables ==
  ASSUME NEW s, NEW a, NEW m, Distinct(a, m), NEW t, NEW b, NEW n, Distinct(b, n), s # t
  PROVE  Lists(Of(s, a) \o Of(t, b), {s, t})
<1>1. Lists(Of(s, a), {s}) /\ Lists(Of(t, b), {t})
  BY OneTable DEF Distinct
<1>2. {s} \cap {t} = {} /\ {s} \cup {t} = {s, t}
  OBVIOUS
<1> QED BY <1>1, <1>2, TwoLists

LEMMA ThreeTables ==
  ASSUME NEW s, NEW a, NEW m, Distinct(a, m), NEW t, NEW b, NEW n, Distinct(b, n),
         NEW u, NEW c, NEW k, Distinct(c, k), s # t, s # u, t # u
  PROVE  Lists(Of(s, a) \o Of(t, b) \o Of(u, c), {s, t, u})
<1>1. Lists(Of(s, a) \o Of(t, b), {s, t})
  BY TwoTables
<1>2. Lists(Of(u, c), {u})
  BY OneTable DEF Distinct
<1>3. {s, t} \cap {u} = {} /\ {s, t} \cup {u} = {s, t, u}
  OBVIOUS
<1> QED BY <1>1, <1>2, <1>3, TwoLists

\* The columns of every part of the order.
LEMMA StringsOnce ==
  Lists(Strings, {"strings"})
<1> DEFINE a == <<"bytes", "offsets">>
<1>1. Distinct(a, 2)
  BY DEF Distinct
<1>2. Strings = Of("strings", a)
  BY DEF Strings
<1> HIDE DEF a
<1> QED BY <1>1, <1>2, OneTable, Zenon DEF Distinct

LEMMA ModulesOnce ==
  Lists(ReadModules, {"modules", "unresolved_imports", "artifacts"})
<1> DEFINE a == <<"name", "path", "unresolved_start", "unresolved_count">>
           b == <<"owner", "name">>
           c == <<"name", "root", "kind">>
<1>1. Distinct(a, 4)
  BY DEF Distinct
<1>2. Distinct(b, 2)
  BY DEF Distinct
<1>3. Distinct(c, 3)
  BY DEF Distinct
<1>4. ReadModules = Of("modules", a) \o Of("unresolved_imports", b) \o Of("artifacts", c)
  BY DEF ReadModules
<1> HIDE DEF a, b, c
<1> QED BY <1>1, <1>2, <1>3, <1>4, ThreeTables, Zenon

LEMMA TypesOnce ==
  Lists(ReadTypes, {"types"})
<1> DEFINE a == <<"kind", "element", "count", "module", "name", "size", "alignment",
                  "bit_width", "flags">>
<1>1. Distinct(a, 9)
  BY DEF Distinct
<1>2. ReadTypes = Of("types", a)
  BY DEF ReadTypes
<1> HIDE DEF a
<1> QED BY <1>1, <1>2, OneTable, Zenon DEF Distinct

LEMMA StructsOnce ==
  Lists(ReadStructs, {"structs"})
<1> DEFINE a == <<"name", "module", "type_id", "field_start", "field_count", "size",
                  "alignment", "flags", "deinit", "kind">>
<1>1. Distinct(a, 10)
  BY DEF Distinct
<1>2. ReadStructs = Of("structs", a)
  BY DEF ReadStructs
<1> HIDE DEF a
<1> QED BY <1>1, <1>2, OneTable, Zenon DEF Distinct

LEMMA FieldsOnce ==
  Lists(ReadFields, {"fields"})
<1> DEFINE a == <<"owner", "name", "field_type", "offset">>
<1>1. Distinct(a, 4)
  BY DEF Distinct
<1>2. ReadFields = Of("fields", a)
  BY DEF ReadFields
<1> HIDE DEF a
<1> QED BY <1>1, <1>2, OneTable, Zenon DEF Distinct

LEMMA FunctionsOnce ==
  Lists(ReadFunctions, {"functions", "parameters"})
<1> DEFINE a == <<"name", "module", "owner", "parameter_start", "parameter_count",
                  "returns", "error_set", "flags", "line", "body">>
           b == <<"owner", "name", "parameter_type", "flags">>
<1>1. Distinct(a, 10)
  BY DEF Distinct
<1>2. Distinct(b, 4)
  BY DEF Distinct
<1>3. ReadFunctions = Of("functions", a) \o Of("parameters", b)
  BY DEF ReadFunctions
<1> HIDE DEF a, b
<1> QED BY <1>1, <1>2, <1>3, TwoTables

LEMMA CallsOnce ==
  Lists(ReadCalls, {"allocator_sources", "calls", "call_arguments"})
<1> DEFINE a == <<"kind", "function", "parameter_index">>
           b == <<"caller", "callee">>
           c == <<"call", "parameter_index", "source">>
<1>1. Distinct(a, 3)
  BY DEF Distinct
<1>2. Distinct(b, 2)
  BY DEF Distinct
<1>3. Distinct(c, 3)
  BY DEF Distinct
<1>4. ReadCalls = Of("allocator_sources", a) \o Of("calls", b) \o Of("call_arguments", c)
  BY DEF ReadCalls
<1> HIDE DEF a, b, c
<1> QED BY <1>1, <1>2, <1>3, <1>4, ThreeTables, Zenon

LEMMA MemoryOnce ==
  Lists(ReadMemory, {"memory_operations", "expressions", "field_assignments"})
<1> DEFINE a == <<"function", "kind", "allocator", "place", "place_field">>
           b == <<"kind", "text", "parameter", "result", "field", "line",
                  "child_start", "child_count", "children">>
           c == <<"field", "function", "source", "memory_operation", "expression",
                  "line">>
<1>1. Distinct(a, 5)
  BY DEF Distinct
<1>2. Distinct(b, 9)
  BY DEF Distinct
<1>3. Distinct(c, 6)
  BY DEF Distinct
<1>4. ReadMemory =
        Of("memory_operations", a) \o Of("expressions", b) \o Of("field_assignments", c)
  BY DEF ReadMemory
<1> HIDE DEF a, b, c
<1> QED BY <1>1, <1>2, <1>3, <1>4, ThreeTables, Zenon

\* What is read before the calls and the allocations.
Declarations ==
  Strings \o ReadModules \o ReadTypes \o ReadStructs \o ReadFields \o ReadFunctions

Declared ==
  {"strings", "modules", "unresolved_imports", "artifacts", "types", "structs", "fields"}
    \cup {"functions", "parameters"}

\* The columns up to the functions.
LEMMA DeclarationsOnce == Lists(Declarations, Declared)
<1> DEFINE T1 == {"strings"}
           T2 == {"modules", "unresolved_imports", "artifacts"}
           U2 == T1 \cup T2
           U3 == U2 \cup {"types"}
           U4 == U3 \cup {"structs"}
           U5 == U4 \cup {"fields"}
           U6 == U5 \cup {"functions", "parameters"}
<1>1. /\ T1 \cap T2 = {} /\ U2 \cap {"types"} = {} /\ U3 \cap {"structs"} = {}
      /\ U4 \cap {"fields"} = {} /\ U5 \cap {"functions", "parameters"} = {}
  OBVIOUS
<1>2. U6 = Declared
  BY DEF Declared
<1> HIDE DEF U2, U3, U4, U5, U6
<1>3. Lists(Strings \o ReadModules, U2)
  BY <1>1, StringsOnce, ModulesOnce, TwoLists DEF U2
<1>4. Lists(Strings \o ReadModules \o ReadTypes, U3)
  BY <1>1, <1>3, TypesOnce, TwoLists DEF U3
<1>5. Lists(Strings \o ReadModules \o ReadTypes \o ReadStructs, U4)
  BY <1>1, <1>4, StructsOnce, TwoLists DEF U4
<1>6. Lists(Strings \o ReadModules \o ReadTypes \o ReadStructs \o ReadFields, U5)
  BY <1>1, <1>5, FieldsOnce, TwoLists DEF U5
<1>7. Lists(Declarations, U6)
  BY <1>1, <1>6, FunctionsOnce, TwoLists DEF U6, Declarations
<1> QED BY <1>2, <1>7

\* Every column is read once.
LEMMA EachColumnOnce ==
  /\ \E S : ReadOrder \in Seq(S)
  /\ \A i, j \in 1 .. Len(ReadOrder) : ReadOrder[i] = ReadOrder[j] => i = j
<1> DEFINE T7 == {"allocator_sources", "calls", "call_arguments"}
           T8 == {"memory_operations", "expressions", "field_assignments"}
<1>1. Declared \cap T7 = {} /\ (Declared \cup T7) \cap T8 = {}
  BY DEF Declared
<1> HIDE DEF T7, T8
<1>2. Lists(Declarations \o ReadCalls, Declared \cup T7)
  BY <1>1, DeclarationsOnce, CallsOnce, TwoLists DEF T7
<1>3. Lists(Declarations \o ReadCalls \o ReadMemory, (Declared \cup T7) \cup T8)
  BY <1>1, <1>2, MemoryOnce, TwoLists DEF T8
<1> QED BY <1>3, Zenon DEF Lists, ReadOrder, Declarations

\* The order is the same however it is put together.
LEMMA ListsAssociate ==
  ASSUME NEW s, NEW t, NEW u, NEW A, NEW B, NEW C, Lists(s, A), Lists(t, B), Lists(u, C)
  PROVE  (s \o t) \o u = s \o (t \o u)
<1>1. PICK S : s \in Seq(S)
  BY DEF Lists
<1>2. PICK T : t \in Seq(T)
  BY DEF Lists
<1>3. PICK U : u \in Seq(U)
  BY DEF Lists
<1> DEFINE V == S \cup T \cup U
<1>4. S \subseteq V /\ T \subseteq V /\ U \subseteq V
  OBVIOUS
<1> HIDE DEF V
<1>5. s \in Seq(V) /\ t \in Seq(V) /\ u \in Seq(V)
  BY <1>1, <1>2, <1>3, <1>4, SeqMonotonic
<1> QED BY <1>5, ConcatAssociative

\* The columns are read in the order they are written in.
LEMMA OrdersAgree == ReadOrder = WriteOrder
<1> DEFINE a == <<"function", "kind", "allocator", "place", "place_field">>
           b == <<"kind", "text", "parameter", "result", "field", "line",
                  "child_start", "child_count", "children">>
           c == <<"field", "function", "source", "memory_operation", "expression",
                  "line">>
           memory == Of("memory_operations", a)
           expressions == Of("expressions", b)
           assignments == Of("field_assignments", c)
<1>1. Distinct(a, 5) /\ Distinct(b, 9) /\ Distinct(c, 6)
  BY DEF Distinct
<1>2. /\ ReadMemory = memory \o expressions \o assignments
      /\ WriteSides = ReadCalls \o memory \o expressions \o assignments
  BY DEF ReadMemory, WriteSides, ReadCalls
<1> HIDE DEF a, b, c
<1>3. /\ Lists(memory, {"memory_operations"})
      /\ Lists(expressions, {"expressions"})
      /\ Lists(assignments, {"field_assignments"})
      /\ Lists(memory \o expressions, {"memory_operations", "expressions"})
  BY <1>1, OneTable, TwoTables, Zenon DEF Distinct
<1> HIDE DEF memory, expressions, assignments
<1>4. (ReadCalls \o memory) \o expressions = ReadCalls \o (memory \o expressions)
  <2>1. Lists(memory, {"memory_operations"}) /\ Lists(expressions, {"expressions"})
    BY <1>3
  <2> QED BY <2>1, CallsOnce, ListsAssociate
<1>5. (ReadCalls \o (memory \o expressions)) \o assignments
        = ReadCalls \o ((memory \o expressions) \o assignments)
  <2> DEFINE both == memory \o expressions
  <2> HIDE DEF both
  <2>1. Lists(both, {"memory_operations", "expressions"})
    BY <1>3 DEF both
  <2>2. (ReadCalls \o both) \o assignments = ReadCalls \o (both \o assignments)
    BY <1>3, <2>1, CallsOnce, ListsAssociate, SMTT(30)
  <2> QED BY <2>2 DEF both
<1>6. WriteSides = ReadCalls \o ReadMemory
  BY <1>2, <1>4, <1>5
<1>7. (Declarations \o ReadCalls) \o ReadMemory = Declarations \o (ReadCalls \o ReadMemory)
  BY DeclarationsOnce, CallsOnce, MemoryOnce, ListsAssociate
<1>8. ReadOrder = Declarations \o ReadCalls \o ReadMemory
  BY DEF ReadOrder, Declarations
<1>9. /\ WriteModules = ReadModules /\ WriteTypes = ReadTypes
      /\ WriteStructs = ReadStructs /\ WriteFields = ReadFields
      /\ WriteFunctions = ReadFunctions
  BY DEF WriteModules, ReadModules, WriteTypes, ReadTypes, WriteStructs, ReadStructs,
         WriteFields, ReadFields, WriteFunctions, ReadFunctions
<1>10. WriteOrder = Declarations \o WriteSides
  BY <1>9 DEF WriteOrder, Declarations
<1> QED BY <1>6, <1>7, <1>8, <1>10

-----------------------------------------------------------------------------
(* Words.                                                                  *)

\* Four digits are a word, and its digits are they.
LEMMA WordOfDigits ==
  ASSUME NEW a \in Byte, NEW b \in Byte, NEW c \in Byte, NEW d \in Byte
  PROVE  /\ a + Base * (b + Base * (c + Base * d)) \in Words
         /\ Word(a + Base * (b + Base * (c + Base * d))) = <<a, b, c, d>>
<1>0. Base \in Nat \ {0} /\ Base * Base \in Nat \ {0}
  <2>1. Base \in Nat \ {0}
    BY FormatAssumption
  <2>2. Base * 0 + Base =< Base * Base
    BY <2>1, Monotone
  <2>3. Base * Base \in Nat
    BY <2>1
  <2> QED BY <2>1, <2>2, <2>3
<1> DEFINE x == c + Base * d
           y == b + Base * x
           v == a + Base * y
<1>1. /\ a \in 0 .. Base - 1 /\ b \in 0 .. Base - 1
      /\ c \in 0 .. Base - 1 /\ d \in 0 .. Base - 1
  BY DEF Byte
<1>2. x \in Nat /\ x = Base * d + c
  BY <1>0, <1>1
<1> HIDE DEF x
<1>3. y \in Nat /\ y = Base * x + b
  BY <1>0, <1>1, <1>2
<1> HIDE DEF y
<1>4. v \in Nat /\ v = Base * y + a
  BY <1>0, <1>1, <1>3
<1> HIDE DEF v
<1>5. v \div Base = y /\ (v % Base) = a
  BY <1>0, <1>1, <1>3, <1>4, OneDivision
<1>6. y \div Base = x /\ (y % Base) = b
  BY <1>0, <1>1, <1>2, <1>3, OneDivision, Zenon
<1>7. x \div Base = d /\ (x % Base) = c
  <2>1. d \in Nat /\ Base * d + c = x
    BY <1>1, <1>2
  <2>2. (Base * d + c) \div Base = d /\ ((Base * d + c) % Base) = c
    BY <1>0, <1>1, <2>1, OneDivision, Zenon
  <2> QED BY <2>1, <2>2
<1>8. d % Base = d
  BY <1>0, <1>1
<1>9. v \div (Base * Base) = x
  BY <1>0, <1>4, <1>5, <1>6, DivisionTwice
<1>10. v \div (Base * Base * Base) = d
  <2> DEFINE two == Base * Base
  <2> HIDE DEF two
  <2>1. v \div (two * Base) = (v \div two) \div Base
    BY <1>0, <1>4, DivisionTwice DEF two
  <2> QED BY <1>7, <1>9, <2>1 DEF two
<1>11. Word(v) = <<a, b, c, d>>
  BY <1>5, <1>6, <1>7, <1>8, <1>9, <1>10 DEF Word
<1>12. v \in Words
  <2>1. Base * d + Base =< Base * Base
    BY <1>0, <1>1, Monotone
  <2>2. x < Base * Base
    BY <1>0, <1>1, <1>2, <2>1
  <2>3. Base * x + Base =< Base * (Base * Base)
    BY <1>0, <1>2, <2>2, Monotone
  <2>4. y < Base * (Base * Base)
    BY <1>0, <1>1, <1>2, <1>3, <2>3
  <2>5. Base * (Base * Base) \in Nat
    BY <1>0
  <2>6. Base * y + Base =< Base * (Base * (Base * Base))
    BY <1>0, <1>3, <2>4, <2>5, Monotone
  <2>7. Base * (Base * (Base * Base)) = Base * Base * Base * Base
    BY <1>0
  <2>8. Base * (Base * (Base * Base)) \in Nat /\ Base * y \in Nat
    BY <1>0, <1>3, <2>5
  <2>9. v < Base * (Base * (Base * Base))
    BY <1>0, <1>1, <1>4, <2>6, <2>8
  <2>10. v \in 0 .. Base * Base * Base * Base - 1
    BY <1>4, <2>7, <2>8, <2>9
  <2> QED BY <2>10 DEF Words
<1> QED BY <1>11, <1>12 DEF x, y, v

\* A word has four digits, and is what they say.
LEMMA DigitsOfWord ==
  ASSUME NEW v \in Words
  PROVE  \E a, b, c, d \in Byte :
           /\ Word(v) = <<a, b, c, d>>
           /\ v = a + Base * (b + Base * (c + Base * d))
<1>0. Base \in Nat \ {0}
  BY FormatAssumption
<1>1. v \in Nat /\ v < Base * Base * Base * Base
  <2>1. Base * Base * Base * Base \in Nat
    BY <1>0
  <2> DEFINE most == Base * Base * Base * Base
  <2> HIDE DEF most
  <2>2. v \in 0 .. most - 1 /\ most \in Nat
    BY <2>1 DEF Words, most
  <2>3. v \in Nat /\ v < most
    BY <2>2
  <2> QED BY <2>3 DEF most
<1> DEFINE y == v \div Base   a == v % Base
<1>2. y \in Nat /\ a \in 0 .. Base - 1 /\ v = Base * y + a
  BY <1>0, <1>1, Division, Zenon
<1> HIDE DEF y, a
<1> DEFINE x == y \div Base   b == y % Base
<1>3. x \in Nat /\ b \in 0 .. Base - 1 /\ y = Base * x + b
  BY <1>0, <1>2, Division, Zenon
<1> HIDE DEF x, b
<1> DEFINE d == x \div Base   c == x % Base
<1>4. d \in Nat /\ c \in 0 .. Base - 1 /\ x = Base * d + c
  BY <1>0, <1>3, Division, Zenon
<1> HIDE DEF d, c
<1>5. d < Base
  <2> SUFFICES ASSUME Base =< d PROVE FALSE
    BY <1>0, <1>4
  <2>1. Base * Base =< x
    <3>1. Base * Base =< Base * d
      BY <1>0, <1>4, NotBelow
    <3>2. Base * Base \in Nat /\ Base * d \in Nat
      BY <1>0, <1>4
    <3> QED BY <1>0, <1>4, <3>1, <3>2
  <2>2. Base * (Base * Base) =< y
    <3>1. Base * (Base * Base) =< Base * x
      BY <1>0, <1>3, <2>1, NotBelow
    <3>2. Base * (Base * Base) \in Nat /\ Base * x \in Nat
      BY <1>0, <1>3
    <3> QED BY <1>0, <1>3, <3>1, <3>2
  <2>3. Base * (Base * (Base * Base)) =< v
    <3>0. Base * (Base * Base) \in Nat
      BY <1>0
    <3>1. Base * (Base * (Base * Base)) =< Base * y
      BY <1>0, <1>2, <2>2, <3>0, NotBelow
    <3>2. Base * (Base * (Base * Base)) \in Nat /\ Base * y \in Nat
      BY <1>0, <1>2, <3>0
    <3> QED BY <1>0, <1>2, <3>1, <3>2
  <2>4. Base * (Base * (Base * Base)) = Base * Base * Base * Base
    BY <1>0
  <2>5. Base * Base * Base * Base \in Nat
    BY <1>0
  <2> QED BY <1>1, <2>3, <2>4, <2>5
<1>6. a \in Byte /\ b \in Byte /\ c \in Byte /\ d \in Byte
  BY <1>0, <1>2, <1>3, <1>4, <1>5 DEF Byte
<1>7. v = a + Base * (b + Base * (c + Base * d))
  <2>1. x = c + Base * d
    BY <1>0, <1>4
  <2>2. y = b + Base * x
    BY <1>0, <1>3
  <2>3. v = a + Base * y
    BY <1>0, <1>2
  <2> QED BY <2>1, <2>2, <2>3
<1>8. Word(v) = <<a, b, c, d>>
  BY <1>6, <1>7, WordOfDigits
<1> QED BY <1>6, <1>7, <1>8

\* A word is four bytes.
LEMMA WordIsBytes ==
  ASSUME NEW v \in Words
  PROVE  Word(v) \in Seq(Byte) /\ Len(Word(v)) = 4
<1>1. PICK a \in Byte, b \in Byte, c \in Byte, d \in Byte : Word(v) = <<a, b, c, d>>
  BY DigitsOfWord
<1>2. <<a, b, c, d>> \in Seq(Byte) /\ Len(<<a, b, c, d>>) = 4
  OBVIOUS
<1> QED BY <1>1, <1>2

\* What is read at a place is a word, and its bytes are those there.
LEMMA WordThere ==
  ASSUME file \in Seq(Byte), NEW from \in Nat, Holds(from, WordBytes)
  PROVE  /\ WordAt(from) \in Words
         /\ \A j \in 1 .. 4 : Word(WordAt(from))[j] = file[from + j]
<1> DEFINE a == file[from + 1]  b == file[from + 2]  c == file[from + 3]  d == file[from + 4]
<1>1. \A i \in {1, 2, 3, 4} : file[from + i] \in Byte
  BY DEF Holds, WordBytes
<1>2. a \in Byte /\ b \in Byte /\ c \in Byte /\ d \in Byte
  BY <1>1
<1>3. WordAt(from) = a + Base * (b + Base * (c + Base * d))
  BY DEF WordAt
<1> HIDE DEF a, b, c, d
<1>4. WordAt(from) \in Words /\ Word(WordAt(from)) = <<a, b, c, d>>
  BY <1>2, <1>3, WordOfDigits, SMTT(30)
<1>5. ASSUME NEW j \in 1 .. 4 PROVE Word(WordAt(from))[j] = file[from + j]
  <2>1. j \in {1, 2, 3, 4}
    OBVIOUS
  <2> QED BY <1>4, <2>1 DEF a, b, c, d
<1> QED BY <1>4, <1>5

\* A word that is there is the one that is read.
LEMMA WordIsRead ==
  ASSUME NEW from \in Nat, NEW v \in Words, \A j \in 1 .. 4 : file[from + j] = Word(v)[j]
  PROVE  WordAt(from) = v
<1>1. PICK a \in Byte, b \in Byte, c \in Byte, d \in Byte :
        Word(v) = <<a, b, c, d>> /\ v = a + Base * (b + Base * (c + Base * d))
  BY DigitsOfWord
<1>2. file[from + 1] = a /\ file[from + 2] = b /\ file[from + 3] = c /\ file[from + 4] = d
  <2>1. 1 \in 1 .. 4 /\ 2 \in 1 .. 4 /\ 3 \in 1 .. 4 /\ 4 \in 1 .. 4
    OBVIOUS
  <2> QED BY <1>1, <2>1
<1> QED BY <1>1, <1>2 DEF WordAt

\* These bytes are so many words in a row.
IsRow(bytes, n, F) ==
  /\ bytes \in Seq(Byte)
  /\ Len(bytes) = 4 * n
  /\ \A i \in 1 .. n : \A j \in 1 .. 4 : bytes[4 * (i - 1) + j] = Word(F[i])[j]

\* Words in a row are that.
LEMMA WordsInARow ==
  ASSUME NEW n \in Nat, NEW F, \A i \in 1 .. n : F[i] \in Words
  PROVE  IsRow(FlattenSeq([i \in 1 .. n |-> Word(F[i])]), n, F)
<1> DEFINE G == [i \in 1 .. n |-> Word(F[i])]
           w(m) == FlattenSeq([i \in 1 .. m |-> G[i]])
           Good == { m \in Nat : m =< n => IsRow(w(m), m, F) }
<1>1. \A i \in 1 .. n : G[i] = Word(F[i]) /\ G[i] \in Seq(Byte) /\ Len(G[i]) = 4
  <2>1. \A i \in 1 .. n : G[i] = Word(F[i])
    OBVIOUS
  <2> QED BY <2>1, WordIsBytes
<1> HIDE DEF G
<1>2. IsRow(w(0), 0, F)
  <2>1. [i \in 1 .. 0 |-> G[i]] = << >>
    OBVIOUS
  <2>2. w(0) = << >>
    BY <2>1, FlattenEmpty
  <2>3. << >> \in Seq(Byte) /\ Len(<< >>) = 4 * 0
    OBVIOUS
  <2> HIDE DEF w
  <2>4. w(0) \in Seq(Byte) /\ Len(w(0)) = 4 * 0
    BY <2>2, <2>3, Zenon
  <2> QED BY <2>4 DEF IsRow
<1>3. ASSUME NEW m \in Nat, m + 1 =< n, IsRow(w(m), m, F) PROVE IsRow(w(m + 1), m + 1, F)
  <2>1. w(m + 1) = w(m) \o G[m + 1]
    <3>1. \A i \in 1 .. m + 1 : G[i] \in Seq(Byte)
      BY <1>1, <1>3
    <3> QED BY <3>1, FlattenNext, Zenon
  <2> DEFINE u == w(m)  v == w(m + 1)  g == G[m + 1]
  <2>2. u \in Seq(Byte) /\ Len(u) = 4 * m
        /\ \A i \in 1 .. m : \A j \in 1 .. 4 : u[4 * (i - 1) + j] = Word(F[i])[j]
    BY <1>3 DEF IsRow
  <2>3. g \in Seq(Byte) /\ Len(g) = 4 /\ g = Word(F[m + 1])
    BY <1>1, <1>3
  <2>4. v = u \o g
    BY <2>1, Zenon
  <2> HIDE DEF u, v, g
  <2>5. v \in Seq(Byte) /\ Len(v) = Len(u) + Len(g)
        /\ \A k \in 1 .. Len(u) + Len(g) : v[k] = IF k =< Len(u) THEN u[k] ELSE g[k - Len(u)]
    BY <2>2, <2>3, <2>4, ConcatProperties, Zenon
  <2>6. Len(v) = 4 * (m + 1)
    <3>1. Len(v) = 4 * m + 4
      BY <2>2, <2>3, <2>5, Zenon
    <3> QED BY <3>1
  <2>7. ASSUME NEW i \in 1 .. m + 1, NEW j \in 1 .. 4
        PROVE  v[4 * (i - 1) + j] = Word(F[i])[j]
    <3>1. CASE i = m + 1
      <4>1. 4 * (i - 1) + j \in 1 .. Len(u) + Len(g) /\ ~ (4 * (i - 1) + j =< Len(u))
            /\ 4 * (i - 1) + j - Len(u) = j
        BY <2>2, <2>3, <3>1
      <4> QED BY <2>3, <2>5, <3>1, <4>1
    <3>2. CASE i # m + 1
      <4>1. i \in 1 .. m
        BY <3>2
      <4>2. 4 * (i - 1) + j \in 1 .. Len(u) + Len(g) /\ 4 * (i - 1) + j =< Len(u)
        BY <2>2, <2>3, <4>1
      <4> QED BY <2>2, <2>5, <4>1, <4>2, Zenon
    <3> QED BY <3>1, <3>2
  <2>8. v \in Seq(Byte) /\ Len(v) = 4 * (m + 1)
        /\ \A i \in 1 .. m + 1 : \A j \in 1 .. 4 : v[4 * (i - 1) + j] = Word(F[i])[j]
    BY <2>5, <2>6, <2>7, Zenon
  <2> QED BY <2>8 DEF v, IsRow
<1> HIDE DEF w
<1>4. 0 \in Good
  BY <1>2
<1>5. ASSUME NEW m \in Nat, m \in Good PROVE m + 1 \in Good
  <2>1. m + 1 =< n => IsRow(w(m + 1), m + 1, F)
    BY <1>3, <1>5
  <2> QED BY <2>1
<1> HIDE DEF Good
<1>6. n \in Good
  BY <1>4, <1>5, CountingUp
<1>7. IsRow(w(n), n, F)
  BY <1>6 DEF Good
<1>8. [i \in 1 .. n |-> G[i]] = [i \in 1 .. n |-> Word(F[i])]
  BY <1>1
<1>9. w(n) = FlattenSeq([i \in 1 .. n |-> Word(F[i])])
  BY <1>8 DEF w
<1> QED BY <1>7, <1>9
-----------------------------------------------------------------------------
(* Columns.                                                                *)

FitsColumn(name, values) ==
  values \in Seq(Nat) /\ values \in Seq(Cell(name)) /\ Len(values) \in Words

\* The rows of a column that starts at a place, as they are read.
RowsAt(name, from, length) ==
  [i \in 1 .. length |->
     IF name = TextBytes THEN file[from + WordBytes + i]
     ELSE WordAt(from + WordBytes + (i - 1) * WordBytes)]

\* Bytes and words are numbers.
LEMMA WordsAreNat == Byte \subseteq Nat /\ Words \subseteq Nat
<1>1. Base \in Nat
  BY FormatAssumption
<1>2. Base * Base * Base * Base \in Nat
  BY <1>1
<1> QED BY <1>1, <1>2 DEF Byte, Words

\* The bytes of a column: its length, and its rows.
IsColumn(c, name, values, n) ==
  /\ c \in Seq(Byte)
  /\ Len(c) = 4 + n * RowBytes(name)
  /\ \A j \in 1 .. 4 : c[j] = Word(n)[j]
  /\ name = TextBytes => \A i \in 1 .. n : c[4 + i] = values[i]
  /\ name # TextBytes =>
       \A i \in 1 .. n : \A j \in 1 .. 4 :
         c[4 + (4 * (i - 1) + j)] = Word(values[i])[j]

\* A column is written as those bytes.
LEMMA ColumnBytes ==
  ASSUME NEW name, NEW values, FitsColumn(name, values)
  PROVE  IsColumn(WriteColumn(name, values), name, values, Len(values))
<1> DEFINE head == Word(Len(values))
           body == IF name = TextBytes THEN values
                   ELSE FlattenSeq([i \in DOMAIN values |-> Word(values[i])])
           c == WriteColumn(name, values)
           n == Len(values)
<1>1. n \in Nat /\ DOMAIN values = 1 .. n /\ \A i \in 1 .. n : values[i] \in Cell(name)
  BY DEF FitsColumn
<1>2. head \in Seq(Byte) /\ Len(head) = 4
  BY WordIsBytes DEF FitsColumn
<1>3. /\ body \in Seq(Byte)
      /\ Len(body) = n * RowBytes(name)
      /\ name = TextBytes => body = values
      /\ name # TextBytes =>
           \A i \in 1 .. n, j \in 1 .. 4 : body[4 * (i - 1) + j] = Word(values[i])[j]
  <2>1. CASE name = TextBytes
    <3>0. Cell(name) \subseteq Byte
      BY <2>1 DEF Cell
    <3>1. body = values /\ values \in Seq(Byte)
      BY <2>1, <3>0, SeqMonotonic DEF FitsColumn
    <3>2. RowBytes(name) = 1
      BY <2>1 DEF RowBytes
    <3>3. n * RowBytes(name) = n
      <4> HIDE DEF n
      <4> QED BY <1>1, <3>2
    <3> QED BY <2>1, <3>1, <3>3
  <2>2. CASE name # TextBytes
    <3>1. \A i \in 1 .. n : values[i] \in Words
      BY <1>1, <2>2 DEF Cell
    <3> DEFINE w == FlattenSeq([i \in 1 .. n |-> Word(values[i])])
    <3>2. IsRow(w, n, values)
      <4> HIDE DEF n, head, body, c
      <4> QED BY <1>1, <3>1, WordsInARow
    <3>3. body = w
      BY <1>1, <2>2
    <3>4. 4 * n = n * RowBytes(name)
      BY <1>1, <2>2 DEF RowBytes, WordBytes
    <3> HIDE DEF w, body, n
    <3> QED BY <2>2, <3>2, <3>3, <3>4 DEF IsRow
  <2> QED BY <2>1, <2>2
<1>4. c = head \o body
  BY DEF WriteColumn
<1> HIDE DEF head, body, c
<1>5. /\ c \in Seq(Byte) /\ Len(c) = Len(head) + Len(body)
      /\ \A k \in 1 .. Len(head) + Len(body) :
           c[k] = IF k =< Len(head) THEN head[k] ELSE body[k - Len(head)]
  BY <1>2, <1>3, <1>4, ConcatProperties, Zenon
<1>6. Len(body) \in Nat
  BY <1>3
<1>7. Len(c) = 4 + n * RowBytes(name)
  BY <1>2, <1>3, <1>5
<1>8. ASSUME NEW j \in 1 .. 4 PROVE c[j] = head[j]
  BY <1>2, <1>5, <1>6
<1>9. ASSUME NEW k \in 1 .. Len(body) PROVE c[4 + k] = body[k]
  <2>1. 4 + k \in 1 .. Len(head) + Len(body) /\ ~ (4 + k =< Len(head)) /\ 4 + k - Len(head) = k
    BY <1>2, <1>6
  <2> QED BY <1>5, <2>1
<1>10. ASSUME name = TextBytes, NEW i \in 1 .. n PROVE c[4 + i] = values[i]
  BY <1>3, <1>9, <1>10
<1>11. ASSUME name # TextBytes, NEW i \in 1 .. n, NEW j \in 1 .. 4
       PROVE  c[4 + (4 * (i - 1) + j)] = Word(values[i])[j]
  <2>1. Len(body) = n * 4
    BY <1>3, <1>11 DEF RowBytes, WordBytes
  <2>2. 4 * (i - 1) + j \in 1 .. Len(body)
    BY <1>1, <2>1
  <2> QED BY <1>3, <1>9, <1>11, <2>2, Zenon
<1> HIDE DEF n
<1>12. \A j \in 1 .. 4 : c[j] = Word(n)[j]
  BY <1>8 DEF head, n
<1>13. IsColumn(c, name, values, n)
  BY <1>5, <1>7, <1>10, <1>11, <1>12, Zenon DEF IsColumn
<1> QED BY <1>13 DEF c, n

\* Bytes from a place on.
LEMMA Slice ==
  ASSUME NEW bytes \in Seq(Byte), NEW from \in Nat, NEW n \in Nat, from + n =< Len(bytes)
  PROVE  /\ SubSeq(bytes, from + 1, from + n) \in Seq(Byte)
         /\ Len(SubSeq(bytes, from + 1, from + n)) = n
         /\ \A k \in 1 .. n : SubSeq(bytes, from + 1, from + n)[k] = bytes[from + k]
<1> DEFINE first == from + 1  last == from + n  s == SubSeq(bytes, first, last)
<1>1. first \in Nat /\ last \in Nat /\ first = from + 1 /\ last = from + n
  OBVIOUS
<1> HIDE DEF first, last
<1>2. \A k \in first .. last : bytes[k] \in Byte
  BY <1>1
<1>3. /\ s \in Seq(Byte)
      /\ Len(s) = IF first =< last THEN last - first + 1 ELSE 0
      /\ \A k \in 1 .. last - first + 1 : s[k] = bytes[first + k - 1]
  BY <1>1, <1>2, SubSeqProperties
<1> HIDE DEF s
<1>4. Len(s) = n
  BY <1>1, <1>3
<1>5. ASSUME NEW k \in 1 .. n PROVE s[k] = bytes[from + k]
  <2>1. k \in 1 .. last - first + 1 /\ first + k - 1 = from + k
    BY <1>1
  <2> QED BY <1>3, <2>1
<1> QED BY <1>3, <1>4, <1>5, Zenon DEF s, first, last

\* What is read of a column is what the bytes it was read from say.
LEMMA ColumnIsSaid ==
  ASSUME file \in Seq(Byte), NEW name, NEW from \in Nat, NEW length, length = WordAt(from),
         Holds(from, WordBytes), Holds(from + WordBytes, length * RowBytes(name)),
         NEW values, values = RowsAt(name, from, length),
         \A i \in 1 .. length : ~ Unknown(name, values[i])
  PROVE  /\ FitsColumn(name, values)
         /\ SubSeq(file, from + 1, from + (4 + length * RowBytes(name)))
              = WriteColumn(name, values)
<1>0. length \in Words /\ length \in Nat /\ Len(file) \in Nat
  <2>1. length \in Words
    BY WordThere
  <2> QED BY <2>1, WordsAreNat
<1>1. RowBytes(name) = (IF name = TextBytes THEN 1 ELSE 4)
  BY DEF RowBytes, WordBytes
<1>2. length * RowBytes(name) \in Nat
  BY <1>0, <1>1
<1>3. from + (4 + length * RowBytes(name)) =< Len(file)
  BY <1>0, <1>2 DEF Holds, WordBytes
<1>4. ASSUME name # TextBytes, NEW i \in 1 .. length
      PROVE  /\ values[i] = WordAt(from + 4 + (i - 1) * 4)
             /\ values[i] \in Words
             /\ \A j \in 1 .. 4 : Word(values[i])[j] = file[from + 4 + (i - 1) * 4 + j]
  <2> DEFINE place == from + 4 + (i - 1) * 4
  <2>1. values[i] = WordAt(place)
    BY <1>4 DEF RowsAt, WordBytes
  <2>2. place \in Nat /\ Holds(place, WordBytes)
    <3>1. length * RowBytes(name) = 4 * length
      BY <1>0, <1>1, <1>4
    <3>2. from + (4 + 4 * length) =< Len(file)
      BY <1>3, <3>1
    <3> QED BY <1>0, <3>2 DEF Holds, WordBytes
  <2> HIDE DEF place
  <2>3. WordAt(place) \in Words /\ \A j \in 1 .. 4 : Word(WordAt(place))[j] = file[place + j]
    BY <2>2, WordThere, Zenon
  <2> QED BY <2>1, <2>3 DEF place
<1>5. ASSUME name = TextBytes, NEW i \in 1 .. length
      PROVE  values[i] = file[from + 4 + i] /\ values[i] \in Byte
  <2>1. values[i] = file[from + 4 + i]
    BY <1>5 DEF RowsAt, WordBytes
  <2>2. length * RowBytes(name) = length
    BY <1>0, <1>1, <1>5
  <2>3. from + 4 + i \in 1 .. Len(file)
    BY <1>0, <1>3, <2>2
  <2> QED BY <2>1, <2>3
<1>6. ASSUME NEW i \in 1 .. length
      PROVE  values[i] \in Cell(name) /\ values[i] \in Nat
  <2>1. ~ Unknown(name, values[i])
    OBVIOUS
  <2>2. CASE name = TextBytes
    BY <1>5, <2>1, <2>2, WordsAreNat, Zenon DEF Cell
  <2>3. CASE name # TextBytes
    BY <1>4, <2>1, <2>3, WordsAreNat, Zenon DEF Cell
  <2> QED BY <2>2, <2>3
<1>7. FitsColumn(name, values) /\ Len(values) = length
  <2>1. values = [i \in 1 .. length |-> values[i]]
    BY DEF RowsAt
  <2>2. \A i \in 1 .. length : values[i] \in Cell(name)
    BY <1>6
  <2>3. \A i \in 1 .. length : values[i] \in Nat
    BY <1>6
  <2>4. values \in [1 .. length -> Cell(name)] /\ values \in [1 .. length -> Nat]
    BY <2>1, <2>2, <2>3
  <2>5. values \in Seq(Cell(name)) /\ values \in Seq(Nat)
    BY <1>0, <2>4, SeqDef, SMTT(30)
  <2>6. Len(values) = length
    BY <1>0, <2>4, <2>5
  <2> QED BY <1>0, <2>5, <2>6 DEF FitsColumn
<1> DEFINE c == WriteColumn(name, values)
           n == 4 + length * RowBytes(name)
           s == SubSeq(file, from + 1, from + n)
<1>8. /\ c \in Seq(Byte) /\ Len(c) = n
      /\ \A j \in 1 .. 4 : c[j] = Word(length)[j]
      /\ name = TextBytes => \A i \in 1 .. length : c[4 + i] = values[i]
      /\ name # TextBytes =>
           \A i \in 1 .. length : \A j \in 1 .. 4 :
             c[4 + (4 * (i - 1) + j)] = Word(values[i])[j]
  <2>1. IsColumn(c, name, values, length)
    BY <1>7, ColumnBytes
  <2> HIDE DEF c
  <2> QED BY <2>1 DEF IsColumn
<1>9. n \in Nat /\ from + n =< Len(file)
  BY <1>2, <1>3
<1>10. s \in Seq(Byte) /\ Len(s) = n /\ \A k \in 1 .. n : s[k] = file[from + k]
  BY <1>9, Slice
<1> HIDE DEF c, s
<1>11. ASSUME NEW k \in 1 .. n PROVE c[k] = file[from + k]
  <2>1. CASE k \in 1 .. 4
    BY <1>8, <2>1, WordThere, Zenon
  <2>2. CASE k \notin 1 .. 4 /\ name = TextBytes
    <3> DEFINE i == k - 4
    <3>1. length * RowBytes(name) = length
      BY <1>0, <1>1, <2>2
    <3>2. i \in 1 .. length /\ 4 + i = k /\ from + 4 + i = from + k
      BY <1>0, <2>2, <3>1
    <3> HIDE DEF i
    <3> QED BY <1>5, <1>8, <2>2, <3>2, Zenon
  <2>3. CASE k \notin 1 .. 4 /\ name # TextBytes
    <3> DEFINE i == ((k - 5) \div 4) + 1
               j == ((k - 5) % 4) + 1
    <3>1. length * RowBytes(name) = 4 * length
      BY <1>0, <1>1, <2>3
    <3>2. k \in 5 .. 4 + 4 * length
      BY <1>0, <2>3, <3>1
    <3>3. i \in 1 .. length /\ j \in 1 .. 4 /\ 4 + (4 * (i - 1) + j) = k
      BY <1>0, <3>2
    <3> HIDE DEF i, j
    <3>4. from + 4 + (i - 1) * 4 + j = from + k
      BY <3>3
    <3>5. c[k] = Word(values[i])[j]
      BY <1>8, <2>3, <3>3, Zenon
    <3> QED BY <1>4, <2>3, <3>3, <3>4, <3>5, Zenon
  <2> QED BY <2>1, <2>2, <2>3
<1>12. s = c
  <2>1. \A k \in 1 .. Len(s) : s[k] = c[k]
    BY <1>10, <1>11
  <2> HIDE DEF n
  <2> QED BY <1>8, <1>10, <2>1, SeqEqual
<1> QED BY <1>7, <1>12 DEF s, c

\* A column that is there is the one that is read.
LEMMA ColumnIsRead ==
  ASSUME NEW p \in Seq(Byte), NEW rest \in Seq(Byte), NEW name, NEW values,
         FitsColumn(name, values), file = (p \o WriteColumn(name, values)) \o rest
  PROVE  /\ Holds(Len(p), WordBytes)
         /\ WordAt(Len(p)) = Len(values)
         /\ Holds(Len(p) + WordBytes, Len(values) * RowBytes(name))
         /\ RowsAt(name, Len(p), Len(values)) = values
<1> DEFINE c == WriteColumn(name, values)
           n == Len(values)
           from == Len(p)
<1>1. /\ c \in Seq(Byte) /\ Len(c) = 4 + n * RowBytes(name)
      /\ \A j \in 1 .. 4 : c[j] = Word(n)[j]
      /\ name = TextBytes => \A i \in 1 .. n : c[4 + i] = values[i]
      /\ name # TextBytes =>
           \A i \in 1 .. n : \A j \in 1 .. 4 :
             c[4 + (4 * (i - 1) + j)] = Word(values[i])[j]
  <2>1. IsColumn(c, name, values, n)
    BY ColumnBytes
  <2> HIDE DEF c, n
  <2> QED BY <2>1 DEF IsColumn
<1>2. file = (p \o c) \o rest
  OBVIOUS
<1> HIDE DEF c
<1>3. /\ p \o c \in Seq(Byte) /\ Len(p \o c) = from + Len(c)
      /\ \A k \in 1 .. from + Len(c) : (p \o c)[k] = IF k =< from THEN p[k] ELSE c[k - from]
  BY <1>1, ConcatProperties, Zenon
<1>4. /\ Len(file) = (from + Len(c)) + Len(rest)
      /\ \A k \in 1 .. (from + Len(c)) + Len(rest) :
           file[k] = IF k =< from + Len(c) THEN (p \o c)[k] ELSE rest[k - (from + Len(c))]
  <2> DEFINE q == p \o c
  <2>1. q \in Seq(Byte) /\ Len(q) = from + Len(c) /\ file = q \o rest
    BY <1>2, <1>3
  <2> HIDE DEF q
  <2>2. /\ Len(file) = Len(q) + Len(rest)
        /\ \A k \in 1 .. Len(q) + Len(rest) :
             file[k] = IF k =< Len(q) THEN q[k] ELSE rest[k - Len(q)]
    BY <2>1, ConcatProperties
  <2> QED BY <2>1, <2>2 DEF q
<1>5. from \in Nat /\ Len(c) \in Nat /\ Len(rest) \in Nat /\ n \in Nat
  BY <1>1 DEF FitsColumn
<1> HIDE DEF from, n
<1>6. ASSUME NEW k \in 1 .. Len(c) PROVE file[from + k] = c[k]
  <2>1. /\ from + k \in 1 .. (from + Len(c)) + Len(rest) /\ from + k =< from + Len(c)
        /\ from + k \in 1 .. from + Len(c) /\ ~ (from + k =< from) /\ from + k - from = k
    BY <1>5
  <2>2. file[from + k] = (p \o c)[from + k]
    BY <1>4, <2>1, Zenon
  <2> DEFINE q == from + k
  <2>3. q \in 1 .. from + Len(c) /\ ~ (q =< from) /\ q - from = k
    BY <1>5, <2>1
  <2> HIDE DEF q
  <2>4. (p \o c)[q] = c[k]
    BY <1>3, <2>3
  <2> QED BY <2>2, <2>4 DEF q
<1>7. RowBytes(name) = (IF name = TextBytes THEN 1 ELSE 4)
  BY DEF RowBytes, WordBytes
<1>8. n * RowBytes(name) \in Nat
  BY <1>5, <1>7
<1>9. Holds(from, WordBytes) /\ Holds(from + WordBytes, n * RowBytes(name))
  BY <1>1, <1>4, <1>5, <1>8, SMTT(30) DEF Holds, WordBytes
<1>10. ASSUME NEW j \in 1 .. 4 PROVE file[from + j] = Word(n)[j]
  <2>1. j \in 1 .. Len(c)
    BY <1>1, <1>8
  <2>2. file[from + j] = c[j]
    BY <1>6, <2>1, Zenon
  <2> QED BY <1>1, <2>2
<1>11. WordAt(from) = n
  BY <1>5, <1>10, WordIsRead, Zenon DEF FitsColumn, n
<1>12. ASSUME NEW i \in 1 .. n PROVE RowsAt(name, from, n)[i] = values[i]
  <2>1. CASE name = TextBytes
    <3>1. n * RowBytes(name) = n
      BY <1>5, <1>7, <2>1
    <3>2. 4 + i \in 1 .. Len(c) /\ from + (4 + i) = from + WordBytes + i
      BY <1>1, <1>5, <3>1 DEF WordBytes
    <3>3. file[from + WordBytes + i] = c[4 + i]
      BY <1>6, <3>2, Zenon
    <3> QED BY <1>1, <2>1, <3>3, Zenon DEF RowsAt
  <2>2. CASE name # TextBytes
    <3> DEFINE place == from + WordBytes + (i - 1) * WordBytes
    <3>1. n * RowBytes(name) = 4 * n
      BY <1>5, <1>7, <2>2
    <3>2. place \in Nat
      BY <1>5 DEF WordBytes
    <3>3. ASSUME NEW j \in 1 .. 4 PROVE file[place + j] = Word(values[i])[j]
      <4>1. 4 + (4 * (i - 1) + j) \in 1 .. Len(c)
        BY <1>1, <1>5, <3>1
      <4>2. place + j = from + (4 + (4 * (i - 1) + j))
        BY <1>5 DEF WordBytes
      <4>3. c[4 + (4 * (i - 1) + j)] = Word(values[i])[j]
        BY <1>1, <2>2, Zenon
      <4> HIDE DEF place
      <4> QED BY <1>6, <4>1, <4>2, <4>3, Zenon
    <3>4. values[i] \in Words
      BY <2>2 DEF FitsColumn, Cell, n
    <3>5. RowsAt(name, from, n)[i] = WordAt(place)
      BY <2>2 DEF RowsAt
    <3> HIDE DEF place
    <3>6. WordAt(place) = values[i]
      BY <3>2, <3>3, <3>4, WordIsRead, Zenon
    <3> QED BY <3>5, <3>6
  <2> QED BY <2>1, <2>2
<1>13. RowsAt(name, from, n) = values
  <2>1. RowsAt(name, from, n) = [i \in 1 .. n |-> RowsAt(name, from, n)[i]]
    BY Zenon DEF RowsAt
  <2>2. values = [i \in 1 .. n |-> values[i]]
    BY DEF FitsColumn, n
  <2> QED BY <1>12, <2>1, <2>2
<1> QED BY <1>9, <1>11, <1>13 DEF from, n
-----------------------------------------------------------------------------
(* What a file says up to a column.                                        *)

Said(tables) ==
  [i \in 1 .. Len(WriteOrder) |->
     WriteColumn(WriteOrder[i], tables.columns[WriteOrder[i]])]

Columns(tables, k) == FlattenSeq([i \in 1 .. k |-> Said(tables)[i]])

Opening(target) == Magic \o Word(Version) \o Word(target)

Prefix(tables, k) == Opening(tables.target) \o Columns(tables, k)

\* The columns are those that are written.
LEMMA ColumnNames ==
  /\ Len(WriteOrder) \in Nat /\ DOMAIN WriteOrder = 1 .. Len(WriteOrder)
  /\ Column = { WriteOrder[i] : i \in 1 .. Len(WriteOrder) }
<1>1. PICK S : WriteOrder \in Seq(S)
  BY EachColumnOnce, OrdersAgree
<1>2. Len(WriteOrder) \in Nat /\ DOMAIN WriteOrder = 1 .. Len(WriteOrder)
  BY <1>1
<1> QED BY <1>2 DEF Column, ToSet

\* What is said of tables that fit a file is bytes.
LEMMA SaidIsBytes ==
  ASSUME NEW tables, Fits(tables)
  PROVE  /\ tables.target \in Words
         /\ \A i \in 1 .. Len(WriteOrder) :
              /\ FitsColumn(WriteOrder[i], tables.columns[WriteOrder[i]])
              /\ Said(tables)[i] = WriteColumn(WriteOrder[i], tables.columns[WriteOrder[i]])
              /\ Said(tables)[i] \in Seq(Byte)
<1>1. ASSUME NEW i \in 1 .. Len(WriteOrder)
      PROVE  /\ FitsColumn(WriteOrder[i], tables.columns[WriteOrder[i]])
             /\ Said(tables)[i] = WriteColumn(WriteOrder[i], tables.columns[WriteOrder[i]])
             /\ Said(tables)[i] \in Seq(Byte)
  <2> DEFINE name == WriteOrder[i]  values == tables.columns[name]
  <2>1. name \in Column
    BY ColumnNames
  <2> HIDE DEF name
  <2>2. FitsColumn(name, values)
    BY <2>1 DEF Fits, FitsColumn
  <2> HIDE DEF values
  <2>3. WriteColumn(name, values) \in Seq(Byte)
    BY <2>2, ColumnBytes DEF IsColumn
  <2>4. Said(tables)[i] = WriteColumn(name, values)
    BY DEF Said, name, values
  <2> QED BY <2>2, <2>3, <2>4 DEF name, values
<1>2. tables.target \in Words
  BY DEF Fits
<1> QED BY <1>1, <1>2

\* Bytes after bytes.
LEMMA Together ==
  ASSUME NEW a \in Seq(Byte), NEW b \in Seq(Byte), NEW c, c = a \o b
  PROVE  /\ c \in Seq(Byte)
         /\ Len(c) = Len(a) + Len(b)
         /\ \A k \in 1 .. Len(a) + Len(b) :
              c[k] = IF k =< Len(a) THEN a[k] ELSE b[k - Len(a)]
BY ConcatProperties

\* So is the opening, which is eight bytes longer than the magic.
LEMMA OpeningIsBytes ==
  ASSUME NEW target \in Words
  PROVE  /\ Opening(target) \in Seq(Byte)
         /\ Magic \o Word(Version) \in Seq(Byte)
         /\ Len(Magic) \in Nat
         /\ Len(Magic \o Word(Version)) = Len(Magic) + 4
         /\ Len(Opening(target)) = Len(Magic) + 8
<1> DEFINE v == Word(Version)  t == Word(target)  two == Magic \o v
<1>1. /\ Magic \in Seq(Byte) /\ Len(Magic) \in Nat
      /\ v \in Seq(Byte) /\ Len(v) = 4
      /\ t \in Seq(Byte) /\ Len(t) = 4
  BY FormatAssumption, WordIsBytes
<1>0. Magic \o Word(Version) = two /\ Opening(target) = two \o t
  BY DEF Opening
<1> HIDE DEF v, t
<1>2. two \in Seq(Byte) /\ Len(two) = Len(Magic) + 4
  <2>1. two = Magic \o v
    OBVIOUS
  <2> HIDE DEF two
  <2>2. two \in Seq(Byte) /\ Len(two) = Len(Magic) + Len(v)
    BY <1>1, <2>1, Together, Zenon
  <2> QED BY <1>1, <2>2
<1> HIDE DEF two
<1>3. two \o t \in Seq(Byte) /\ Len(two \o t) = Len(two) + Len(t)
  BY <1>1, <1>2, ConcatProperties, Zenon
<1>4. Len(two \o t) = Len(Magic) + 8
  BY <1>1, <1>2, <1>3
<1> QED BY <1>0, <1>1, <1>2, <1>3, <1>4

\* Sequences after one another, put together from either end.
LEMMA ThreeInARow ==
  ASSUME NEW S, NEW s \in Seq(S), NEW t \in Seq(S), NEW u \in Seq(S)
  PROVE  s \o (t \o u) = (s \o t) \o u
  BY ConcatAssociative, SMTT(30)

\* One more column is put after what there is.
LEMMA PrefixNext ==
  ASSUME NEW tables, Fits(tables), NEW k \in Nat, k =< Len(WriteOrder)
  PROVE  /\ Columns(tables, k) \in Seq(Byte)
         /\ Prefix(tables, k) \in Seq(Byte)
         /\ Prefix(tables, 0) = Opening(tables.target)
         /\ k + 1 =< Len(WriteOrder) =>
              Prefix(tables, k + 1) = Prefix(tables, k) \o Said(tables)[k + 1]
<1> DEFINE open == Opening(tables.target)
<1>1. open \in Seq(Byte)
  BY SaidIsBytes, OpeningIsBytes
<1>2. Len(WriteOrder) \in Nat /\ \A i \in 1 .. Len(WriteOrder) : Said(tables)[i] \in Seq(Byte)
  BY SaidIsBytes, ColumnNames
<1>3. Columns(tables, k) \in Seq(Byte)
  <2> DEFINE row == [i \in 1 .. k |-> Said(tables)[i]]
  <2>1. \A i \in 1 .. k : Said(tables)[i] \in Seq(Byte)
    BY <1>2
  <2>2. row \in Seq(Seq(Byte))
    BY <2>1
  <2> HIDE DEF row
  <2>3. FlattenSeq(row) \in Seq(Byte)
    BY <2>2, FlattenType
  <2> QED BY <2>3 DEF Columns, row
<1>4. Prefix(tables, 0) = open
  <2>1. Columns(tables, 0) = << >>
    <3>1. [i \in 1 .. 0 |-> Said(tables)[i]] = << >>
      OBVIOUS
    <3> QED BY <3>1, FlattenEmpty DEF Columns
  <2> HIDE DEF open
  <2>2. open \o << >> = open
    BY <1>1, ConcatEmptySeq
  <2> QED BY <2>1, <2>2, Zenon DEF Prefix, open
<1>5. ASSUME k + 1 =< Len(WriteOrder)
      PROVE  Prefix(tables, k + 1) = Prefix(tables, k) \o Said(tables)[k + 1]
  <2> DEFINE next == Said(tables)[k + 1]  before == Columns(tables, k)
  <2>1. \A i \in 1 .. k + 1 : Said(tables)[i] \in Seq(Byte)
    BY <1>2, <1>5
  <2>2. Columns(tables, k + 1) = before \o next
    BY <2>1, FlattenNext, Zenon DEF Columns
  <2>3. next \in Seq(Byte)
    BY <2>1
  <2> HIDE DEF open, next, before
  <2>4. before \in Seq(Byte)
    BY <1>3 DEF before
  <2>5. open \o (before \o next) = (open \o before) \o next
    BY <1>1, <2>3, <2>4, ThreeInARow, SMTT(60)
  <2> QED BY <2>2, <2>5, Zenon DEF Prefix, open, next, before
<1>6. Prefix(tables, k) \in Seq(Byte)
  BY <1>1, <1>3, ConcatProperties DEF Prefix
<1> QED BY <1>3, <1>4, <1>5, <1>6

\* The file says all columns.
LEMMA EncodeIsPrefix ==
  ASSUME NEW tables
  PROVE  Encode(tables) = Prefix(tables, Len(WriteOrder))
<1>1. DOMAIN WriteOrder = 1 .. Len(WriteOrder)
  BY ColumnNames
<1>2. [i \in DOMAIN WriteOrder |-> WriteColumn(WriteOrder[i], tables.columns[WriteOrder[i]])]
        = [i \in 1 .. Len(WriteOrder) |-> Said(tables)[i]]
  BY <1>1 DEF Said
<1> QED BY <1>2, Zenon DEF Encode, Prefix, Columns, Opening

\* A file is bytes.
LEMMA EncodeIsBytes ==
  ASSUME NEW tables, Fits(tables)
  PROVE  Encode(tables) \in Seq(Byte)
<1>1. Len(WriteOrder) \in Nat
  BY ColumnNames
<1> QED BY <1>1, EncodeIsPrefix, PrefixNext

\* After the columns up to one of them comes the rest of the file.
LEMMA RestOfTheFile ==
  ASSUME NEW tables, Fits(tables), NEW k \in Nat, k =< Len(WriteOrder)
  PROVE  \E rest \in Seq(Byte) : Encode(tables) = Prefix(tables, k) \o rest
<1> DEFINE N == Len(WriteOrder)
           HasRest(m) == \E rest \in Seq(Byte) : Encode(tables) = Prefix(tables, m) \o rest
           Good == { d \in Nat : d =< N => HasRest(N - d) }
<1>0. N \in Nat
  BY ColumnNames
<1>1. HasRest(N)
  <2>1. Encode(tables) = Prefix(tables, N) /\ Encode(tables) \in Seq(Byte)
    BY EncodeIsPrefix, EncodeIsBytes
  <2>2. Encode(tables) \o << >> = Encode(tables) /\ << >> \in Seq(Byte)
    BY <2>1, ConcatEmptySeq
  <2> QED BY <2>1, <2>2, Zenon
<1>2. ASSUME NEW m \in Nat, m + 1 =< N, HasRest(m + 1) PROVE HasRest(m)
  <2>1. PICK rest \in Seq(Byte) : Encode(tables) = Prefix(tables, m + 1) \o rest
    BY <1>2, Zenon
  <2> DEFINE p == Prefix(tables, m)  c == Said(tables)[m + 1]
  <2>2. m =< N /\ m + 1 \in 1 .. N
    BY <1>0, <1>2
  <2>3. p \in Seq(Byte) /\ Prefix(tables, m + 1) = p \o c
    BY <1>2, <2>2, PrefixNext, Zenon
  <2>4. c \in Seq(Byte)
    BY <2>2, SaidIsBytes
  <2> HIDE DEF p, c
  <2>5. (p \o c) \o rest = p \o (c \o rest)
    BY <2>3, <2>4, ConcatAssociative, SMTT(30)
  <2>6. c \o rest \in Seq(Byte)
    BY <2>4, ConcatProperties
  <2>7. Encode(tables) = p \o (c \o rest)
    BY <2>1, <2>3, <2>5, Zenon
  <2> QED BY <2>6, <2>7, Zenon DEF p
<1> HIDE DEF HasRest
<1>3. 0 \in Good
  BY <1>0, <1>1
<1>4. ASSUME NEW d \in Nat, d \in Good PROVE d + 1 \in Good
  <2> SUFFICES ASSUME d + 1 =< N PROVE HasRest(N - (d + 1))
    OBVIOUS
  <2>1. N - (d + 1) \in Nat /\ (N - (d + 1)) + 1 = N - d /\ (N - (d + 1)) + 1 =< N
    BY <1>0
  <2>2. HasRest(N - d)
    BY <1>0, <1>4
  <2>3. HasRest((N - (d + 1)) + 1)
    BY <2>1, <2>2
  <2> QED BY <1>2, <2>1, <2>3
<1> HIDE DEF Good, N
<1>5. N - k \in Good
  <2>1. N - k \in Nat
    BY <1>0 DEF N
  <2> QED BY <1>3, <1>4, <2>1, CountingUp
<1>6. HasRest(k)
  <2>1. N - k =< N /\ N - (N - k) = k
    BY <1>0
  <2>2. HasRest(N - (N - k))
    BY <1>5, <2>1 DEF Good
  <2> QED BY <2>1, <2>2
<1> QED BY <1>6, Zenon DEF HasRest

\* What tables agree on they say alike.
LEMMA SayAlike ==
  ASSUME NEW s, NEW t, s.target = t.target,
         NEW k \in Nat, k =< Len(WriteOrder),
         \A i \in 1 .. k : s.columns[WriteOrder[i]] = t.columns[WriteOrder[i]]
  PROVE  Prefix(s, k) = Prefix(t, k)
<1>1. Len(WriteOrder) \in Nat
  BY ColumnNames
<1>2. ASSUME NEW i \in 1 .. k PROVE Said(s)[i] = Said(t)[i]
  BY <1>1, <1>2 DEF Said
<1>3. [i \in 1 .. k |-> Said(s)[i]] = [i \in 1 .. k |-> Said(t)[i]]
  BY <1>2
<1> QED BY <1>3, Zenon DEF Prefix, Columns

-----------------------------------------------------------------------------
(* The invariants.                                                         *)

\* What is read is what the bytes before the cursor say, and they say nothing else.
SaysSoFar ==
  /\ written \in FactFiles
  /\ file \in Seq(Byte)
  /\ cursor \in 0 .. Len(file)
  /\ column \in 0 .. Len(WriteOrder)
  /\ Fits(read)
  /\ decoding \in {"write", "disk", "magic"} => cursor = 0
  /\ decoding \in {"write", "disk", "magic", "version", "target"} => column = 0
  /\ decoding = "version" => cursor = Len(Magic) /\ SubSeq(file, 1, cursor) = Magic
  /\ decoding = "target" => /\ cursor = Len(Magic) + 4
                      /\ SubSeq(file, 1, cursor) = Magic \o Word(Version)
  /\ decoding \in {"columns", "accepted"} => SubSeq(file, 1, cursor) = Prefix(read, column)
  /\ decoding = "accepted" => column = Len(WriteOrder) /\ cursor = Len(file)

\* Where the file is the one that was written, it is not refused and what is read is
\* what was written.
AsWritten ==
  decoding \notin {"write", "disk"} /\ file = Encode(written) =>
    /\ decoding # "refused"
    /\ decoding \in {"columns", "accepted"} =>
         /\ read.target = written.target
         /\ \A i \in 1 .. column :
              read.columns[WriteOrder[i]] = written.columns[WriteOrder[i]]

\* What was written fits a file, which is bytes.
LEMMA WrittenFits ==
  ASSUME SaysSoFar
  PROVE  Fits(written) /\ Encode(written) \in Seq(Byte)
<1>1. Fits(written)
  BY FormatAssumption DEF SaysSoFar
<1> QED BY <1>1, EncodeIsBytes

\* Nothing is said before the file is written.
LEMMA StartSays == WireInit => SaysSoFar /\ AsWritten
<1> SUFFICES ASSUME WireInit PROVE SaysSoFar /\ AsWritten
  OBVIOUS
<1>1. Len(WriteOrder) \in Nat
  BY ColumnNames
<1>2. Base \in Nat \ {0}
  BY FormatAssumption
<1>3. 0 \in Words
  <2>1. Base * Base * Base * Base \in Nat
    BY <1>2
  <2>2. Base * Base * Base * Base # 0
    <3>1. Base * Base # 0 /\ Base * Base \in Nat
      BY <1>2
    <3>2. Base * Base * Base # 0 /\ Base * Base * Base \in Nat
      <4> DEFINE two == Base * Base
      <4> HIDE DEF two
      <4>1. two * Base # 0 /\ two * Base \in Nat
        BY <1>2, <3>1 DEF two
      <4> QED BY <4>1 DEF two
    <3> DEFINE three == Base * Base * Base
    <3> HIDE DEF three
    <3>3. three * Base # 0
      BY <1>2, <3>2 DEF three
    <3> QED BY <3>3 DEF three
  <2> QED BY <2>1, <2>2 DEF Words
<1>4. Fits(NoTables)
  <2>1. \A name \in Column : NoTables.columns[name] = << >> /\ NoTables.target = 0
    BY DEF NoTables
  <2>2. NoTables \in [target : Words, columns : [Column -> Seq(Nat)]]
    BY <1>3 DEF NoTables
  <2>3. \A name \in Column :
          /\ NoTables.columns[name] \in Seq(Cell(name))
          /\ Len(NoTables.columns[name]) \in Words
    <3>1. ASSUME NEW name \in Column PROVE << >> \in Seq(Cell(name)) /\ Len(<< >>) = 0
      OBVIOUS
    <3> QED BY <1>3, <2>1, <3>1, Zenon
  <2> QED BY <2>2, <2>3 DEF Fits
<1>5. SaysSoFar
  BY <1>1, <1>4 DEF WireInit, SaysSoFar
<1>6. AsWritten
  BY DEF WireInit, AsWritten
<1> QED BY <1>5, <1>6

\* The file that is there when it is opened is bytes.
LEMMA DamagedBytes ==
  ASSUME NEW bytes \in Seq(Byte), NEW damage \in Damage
  PROVE  After(bytes, damage) \in Seq(Byte)
<1>1. Base \in Nat \ {0}
  BY FormatAssumption
<1>2. CASE damage.kind = "Cut"
  <2>1. damage.at \in Nat
    BY <1>2 DEF Damage
  <2> DEFINE n == IF damage.at < Len(bytes) THEN damage.at ELSE Len(bytes)
  <2>2. n \in 0 .. Len(bytes)
    BY <2>1
  <2>3. SubSeq(bytes, 1, n) \in Seq(Byte)
    BY <2>2
  <2> QED BY <1>2, <2>3 DEF After
<1>3. CASE damage.kind = "Changed"
  <2>1. damage.at \in Nat /\ damage.by \in Nat
    BY <1>3 DEF Damage
  <2> DEFINE changed == [bytes EXCEPT ![damage.at] = (@ + damage.by) % Base]
  <2>2. ASSUME damage.at \in 1 .. Len(bytes)
        PROVE  (bytes[damage.at] + damage.by) % Base \in Byte
    <3> DEFINE sum == bytes[damage.at] + damage.by
    <3>1. bytes[damage.at] \in Byte
      BY <2>2
    <3>2. sum \in Nat
      <4>1. bytes[damage.at] \in Nat
        BY <3>1, WordsAreNat, Zenon
      <4> QED BY <2>1, <4>1
    <3> HIDE DEF sum
    <3>3. sum % Base \in 0 .. Base - 1
      BY <1>1, <3>2, Division
    <3> QED BY <3>3 DEF sum, Byte
  <2>3. bytes \in [1 .. Len(bytes) -> Byte] /\ Len(bytes) \in Nat
    OBVIOUS
  <2>4. changed \in [1 .. Len(bytes) -> Byte]
    BY <2>2, <2>3, Zenon
  <2>5. changed \in Seq(Byte)
    BY <2>3, <2>4, SeqDef
  <2>6. After(bytes, damage) = changed
    BY <1>3 DEF After
  <2> QED BY <2>5, <2>6
<1>4. CASE damage.kind = "Longer"
  <2>1. damage.by \in Byte
    BY <1>4 DEF Damage
  <2> QED BY <1>4, <2>1 DEF After
<1> QED BY <1>2, <1>3, <1>4 DEF Damage

\* Nor when it is.
LEMMA WriteSays == SaysSoFar /\ AsWritten /\ Write => SaysSoFar' /\ AsWritten'
<1> SUFFICES ASSUME SaysSoFar, Write PROVE SaysSoFar' /\ AsWritten'
  BY Zenon DEF SaysSoFar, AsWritten
<1>1. file' \in Seq(Byte)
  BY WrittenFits DEF Write
<1>2. /\ decoding' = "disk" /\ cursor' = 0 /\ column' = 0 /\ written' = written /\ read' = read
  BY DEF Write, SaysSoFar
<1>3. Len(WriteOrder) \in Nat
  BY ColumnNames
<1> QED BY <1>1, <1>2, <1>3 DEF SaysSoFar, AsWritten

\* Nor when it is opened, whatever became of it.
LEMMA OpenSays == SaysSoFar /\ AsWritten /\ Open => SaysSoFar' /\ AsWritten'
<1> SUFFICES ASSUME SaysSoFar, Open PROVE SaysSoFar' /\ AsWritten'
  BY Zenon DEF SaysSoFar, AsWritten
<1>1. ASSUME NEW damage \in Damages[written] PROVE damage \in Damage
  BY <1>1, FormatAssumption DEF SaysSoFar
<1>2. file' \in Seq(Byte)
  BY <1>1, DamagedBytes DEF SaysSoFar, Open
<1>3. /\ decoding' = "magic" /\ cursor' = 0 /\ column' = 0 /\ written' = written /\ read' = read
  BY DEF Open, SaysSoFar
<1>4. Len(WriteOrder) \in Nat
  BY ColumnNames
<1> QED BY <1>2, <1>3, <1>4 DEF SaysSoFar, AsWritten

\* A file that is refused is left as it is, and so is what was read.
Refused == decoding' = "refused" /\ UNCHANGED <<written, file, cursor, column, read>>

\* A file may be refused that is not the one that was written.
LEMMA RefuseSays ==
  ASSUME SaysSoFar, Refused, file # Encode(written)
  PROVE  SaysSoFar' /\ AsWritten'
BY DEF SaysSoFar, AsWritten, Refused

\* What a file that was written starts with.
LEMMA OpeningThere ==
  ASSUME SaysSoFar, file = Encode(written)
  PROVE  /\ Len(Magic) + 8 =< Len(file)
         /\ \A k \in 1 .. Len(Magic) : file[k] = Magic[k]
         /\ \A j \in 1 .. 4 : file[Len(Magic) + j] = Word(Version)[j]
         /\ \A j \in 1 .. 4 : file[(Len(Magic) + 4) + j] = Word(written.target)[j]
<1> DEFINE v == Word(Version)  t == Word(written.target)  two == Magic \o v
           open == two \o t
<1>1. Fits(written)
  BY WrittenFits
<1>2. /\ Magic \in Seq(Byte) /\ Len(Magic) \in Nat
      /\ v \in Seq(Byte) /\ Len(v) = 4 /\ t \in Seq(Byte) /\ Len(t) = 4
  BY <1>1, FormatAssumption, WordIsBytes, SaidIsBytes
<1>3. PICK more \in Seq(Byte) : file = open \o more
  <2>1. 0 \in Nat /\ 0 =< Len(WriteOrder)
    BY ColumnNames
  <2>2. PICK more \in Seq(Byte) : Encode(written) = Prefix(written, 0) \o more
    BY <1>1, <2>1, RestOfTheFile, Zenon
  <2>3. Prefix(written, 0) = open
    BY <1>1, <2>1, PrefixNext, Zenon DEF Opening
  <2> QED BY <2>2, <2>3, Zenon
<1> HIDE DEF v, t
<1>4. /\ two \in Seq(Byte) /\ Len(two) = Len(Magic) + Len(v)
      /\ \A k \in 1 .. Len(Magic) + Len(v) :
           two[k] = IF k =< Len(Magic) THEN Magic[k] ELSE v[k - Len(Magic)]
  BY <1>2, ConcatProperties, Zenon
<1> HIDE DEF two
<1>5. /\ open \in Seq(Byte) /\ Len(open) = Len(two) + Len(t)
      /\ \A k \in 1 .. Len(two) + Len(t) :
           open[k] = IF k =< Len(two) THEN two[k] ELSE t[k - Len(two)]
  <2>1. open = two \o t
    OBVIOUS
  <2>2. two \in Seq(Byte) /\ t \in Seq(Byte)
    BY <1>2, <1>4
  <2> HIDE DEF open
  <2> QED BY <2>1, <2>2, Together
<1> HIDE DEF open
<1>6. /\ Len(file) = Len(open) + Len(more) /\ Len(more) \in Nat
      /\ \A k \in 1 .. Len(open) + Len(more) :
           file[k] = IF k =< Len(open) THEN open[k] ELSE more[k - Len(open)]
  <2>1. open \in Seq(Byte) /\ Len(more) \in Nat
    BY <1>5
  <2> QED BY <1>3, <2>1, Together
<1>7. Len(two) = Len(Magic) + 4 /\ Len(open) = Len(Magic) + 8
  BY <1>2, <1>4, <1>5
<1>8. ASSUME NEW k \in 1 .. Len(Magic) PROVE file[k] = Magic[k]
  <2>1. file[k] = open[k]
    BY <1>2, <1>6, <1>7
  <2>2. open[k] = two[k]
    BY <1>2, <1>5, <1>7
  <2>3. two[k] = Magic[k]
    BY <1>2, <1>4
  <2> QED BY <2>1, <2>2, <2>3
<1>9. ASSUME NEW j \in 1 .. 4 PROVE file[Len(Magic) + j] = v[j]
  <2> DEFINE k == Len(Magic) + j
  <2>1. /\ k \in 1 .. Len(Magic) + 4 /\ ~ (k =< Len(Magic)) /\ k - Len(Magic) = j
    BY <1>2
  <2> HIDE DEF k
  <2>2. file[k] = open[k]
    BY <1>2, <1>6, <1>7, <2>1
  <2>3. open[k] = two[k]
    BY <1>2, <1>5, <1>7, <2>1
  <2>4. two[k] = v[j]
    BY <1>2, <1>4, <2>1, Zenon
  <2> QED BY <2>2, <2>3, <2>4 DEF k
<1>10. ASSUME NEW j \in 1 .. 4 PROVE file[(Len(Magic) + 4) + j] = t[j]
  <2> DEFINE k == (Len(Magic) + 4) + j
  <2>1. k \in 1 .. Len(Magic) + 8 /\ ~ (k =< Len(Magic) + 4) /\ k - (Len(Magic) + 4) = j
    BY <1>2
  <2> HIDE DEF k
  <2>2. file[k] = open[k]
    BY <1>2, <1>6, <1>7, <2>1
  <2>3. open[k] = t[j]
    BY <1>2, <1>5, <1>7, <2>1, Zenon
  <2> QED BY <2>2, <2>3 DEF k
<1>11. Len(Magic) + 8 =< Len(file)
  BY <1>2, <1>6, <1>7
<1> QED BY <1>8, <1>9, <1>10, <1>11 DEF v, t

\* The bytes up to the end of a word.
LEMMA WordSaid ==
  ASSUME file \in Seq(Byte), NEW from \in Nat, Holds(from, WordBytes)
  PROVE  /\ from + WordBytes \in 0 .. Len(file)
         /\ SubSeq(file, 1, from + WordBytes) = SubSeq(file, 1, from) \o Word(WordAt(from))
<1>0. Len(file) \in Nat /\ from + 4 =< Len(file)
  BY DEF Holds, WordBytes
<1> DEFINE s == SubSeq(file, from + 1, from + 4)  w == Word(WordAt(from))
<1>1. w \in Seq(Byte) /\ Len(w) = 4 /\ \A j \in 1 .. 4 : w[j] = file[from + j]
  BY WordThere, WordIsBytes, Zenon
<1>2. s \in Seq(Byte) /\ Len(s) = 4 /\ \A j \in 1 .. 4 : s[j] = file[from + j]
  BY <1>0, Slice
<1> HIDE DEF s, w
<1>3. s = w
  <2>1. \A j \in 1 .. Len(s) : s[j] = w[j]
    BY <1>1, <1>2, Zenon
  <2> QED BY <1>1, <1>2, <2>1, SeqEqual, Zenon
<1>4. SubSeq(file, 1, from) \o SubSeq(file, from + 1, from + 4) = SubSeq(file, 1, from + 4)
  <2>1. 1 \in 1 .. Len(file) + 1 /\ from \in 1 - 1 .. Len(file) /\ from + 4 \in from .. Len(file)
    BY <1>0
  <2> QED BY <2>1, ConcatAdjacentSubSeq
<1>5. SubSeq(file, 1, from + 4) = SubSeq(file, 1, from) \o Word(WordAt(from))
  BY <1>3, <1>4, Zenon DEF s, w
<1>6. from + WordBytes = from + 4
  BY DEF WordBytes
<1>7. from + 4 \in 0 .. Len(file)
  BY <1>0
<1> QED BY <1>5, <1>6, <1>7

\* The magic, the version and the target, each as far as it is there.
LEMMA MagicSays == SaysSoFar /\ AsWritten /\ ReadMagic => SaysSoFar' /\ AsWritten'
<1> SUFFICES ASSUME SaysSoFar, AsWritten, ReadMagic PROVE SaysSoFar' /\ AsWritten'
  OBVIOUS
<1> DEFINE There == Holds(0, Len(Magic)) /\ SubSeq(file, 1, Len(Magic)) = Magic
<1>0. Magic \in Seq(Byte) /\ Len(Magic) \in Nat /\ Len(file) \in Nat
  BY FormatAssumption DEF SaysSoFar
<1>1. CASE There
  <2>1. /\ decoding' = "version" /\ cursor' = Len(Magic) /\ column' = 0
        /\ UNCHANGED <<written, file, read>>
    BY <1>1 DEF ReadMagic, SaysSoFar
  <2>2. Len(Magic) \in 0 .. Len(file)
    BY <1>0, <1>1 DEF Holds
  <2>3. column' \in 0 .. Len(WriteOrder)
    BY <2>1 DEF SaysSoFar
  <2>4. SubSeq(file', 1, cursor') = Magic
    BY <1>1, <2>1
  <2>5. SaysSoFar'
    BY <2>1, <2>2, <2>3, <2>4 DEF SaysSoFar
  <2>6. AsWritten'
    BY <2>1 DEF AsWritten
  <2> QED BY <2>5, <2>6
<1>2. CASE ~ There
  <2>1. Refused
    BY <1>2 DEF ReadMagic, Refuse, Refused
  <2>2. ASSUME file = Encode(written) PROVE There
    <3>1. Len(Magic) + 8 =< Len(file) /\ \A k \in 1 .. Len(Magic) : file[k] = Magic[k]
      BY <2>2, OpeningThere, Zenon
    <3> DEFINE s == SubSeq(file, 1, Len(Magic))
    <3>2. s \in Seq(Byte) /\ Len(s) = Len(Magic) /\ \A k \in 1 .. Len(Magic) : s[k] = file[k]
      BY <1>0, <3>1 DEF SaysSoFar
    <3> HIDE DEF s
    <3>3. \A k \in 1 .. Len(s) : s[k] = Magic[k]
      BY <3>1, <3>2
    <3>4. s = Magic
      BY <1>0, <3>2, <3>3, SeqEqual
    <3> QED BY <1>0, <3>1, <3>4 DEF s, Holds
  <2> QED BY <1>2, <2>1, <2>2, RefuseSays
<1> QED BY <1>1, <1>2

LEMMA VersionSays == SaysSoFar /\ AsWritten /\ ReadVersion => SaysSoFar' /\ AsWritten'
<1> SUFFICES ASSUME SaysSoFar, AsWritten, ReadVersion PROVE SaysSoFar' /\ AsWritten'
  OBVIOUS
<1> DEFINE There == Holds(cursor, WordBytes) /\ WordAt(cursor) = Version
<1>0. /\ decoding = "version" /\ cursor = Len(Magic) /\ cursor \in Nat /\ file \in Seq(Byte)
      /\ SubSeq(file, 1, cursor) = Magic /\ column = 0
  BY DEF ReadVersion, SaysSoFar
<1>1. CASE There
  <2>1. /\ decoding' = "target" /\ cursor' = cursor + WordBytes
        /\ UNCHANGED <<written, file, column, read>>
    BY <1>1 DEF ReadVersion
  <2>2. /\ cursor + WordBytes \in 0 .. Len(file)
        /\ SubSeq(file, 1, cursor + WordBytes) = Magic \o Word(Version)
    BY <1>0, <1>1, WordSaid, Zenon
  <2>3. /\ cursor' \in 0 .. Len(file') /\ cursor' = Len(Magic) + 4
        /\ SubSeq(file', 1, cursor') = Magic \o Word(Version)
    BY <1>0, <2>1, <2>2 DEF WordBytes
  <2>4. SaysSoFar'
    BY <1>0, <2>1, <2>3, Zenon DEF SaysSoFar
  <2>5. AsWritten'
    BY <2>1 DEF AsWritten
  <2> QED BY <2>4, <2>5
<1>2. CASE ~ There
  <2>1. Refused
    BY <1>2 DEF ReadVersion, Refuse, Refused
  <2>2. ASSUME file = Encode(written) PROVE There
    <3>1. /\ Len(Magic) + 8 =< Len(file)
          /\ \A j \in 1 .. 4 : file[cursor + j] = Word(Version)[j]
      BY <1>0, <2>2, OpeningThere
    <3>2. WordAt(cursor) = Version
      BY <1>0, <3>1, WordIsRead, FormatAssumption
    <3>3. Len(file) \in Nat
      BY <1>0
    <3> QED BY <1>0, <3>1, <3>2, <3>3 DEF Holds, WordBytes
  <2> QED BY <1>2, <2>1, <2>2, RefuseSays
<1> QED BY <1>1, <1>2

LEMMA TargetSays == SaysSoFar /\ AsWritten /\ ReadTarget => SaysSoFar' /\ AsWritten'
<1> SUFFICES ASSUME SaysSoFar, AsWritten, ReadTarget PROVE SaysSoFar' /\ AsWritten'
  OBVIOUS
<1>0. /\ decoding = "target" /\ cursor = Len(Magic) + 4 /\ cursor \in Nat /\ file \in Seq(Byte)
      /\ SubSeq(file, 1, cursor) = Magic \o Word(Version) /\ column = 0 /\ Fits(read)
  BY DEF ReadTarget, SaysSoFar
<1>1. CASE Holds(cursor, WordBytes)
  <2> DEFINE target == WordAt(cursor)  next == [read EXCEPT !.target = target]
  <2>1. /\ decoding' = "columns" /\ cursor' = cursor + WordBytes /\ read' = next
        /\ UNCHANGED <<written, file, column>>
    BY <1>1 DEF ReadTarget
  <2>2. target \in Words
    BY <1>0, <1>1, WordThere
  <2> HIDE DEF target
  <2>3. Fits(next) /\ next.target = target
    BY <1>0, <2>2, Zenon DEF Fits
  <2> HIDE DEF next
  <2>4. /\ cursor + WordBytes \in 0 .. Len(file)
        /\ SubSeq(file, 1, cursor + WordBytes) = Opening(target)
    BY <1>0, <1>1, WordSaid, Zenon DEF target, Opening
  <2>5. Prefix(next, 0) = Opening(target)
    <3>1. 0 \in Nat /\ 0 =< Len(WriteOrder)
      BY ColumnNames
    <3> QED BY <2>3, <3>1, PrefixNext
  <2>6. /\ cursor' \in 0 .. Len(file')
        /\ SubSeq(file', 1, cursor') = Prefix(read', column')
    BY <1>0, <2>1, <2>4, <2>5
  <2>7. Fits(read') /\ column' = 0 /\ column' \in 0 .. Len(WriteOrder)
    BY <1>0, <2>1, <2>3 DEF SaysSoFar
  <2>8. SaysSoFar'
    BY <2>1, <2>6, <2>7 DEF SaysSoFar
  <2>9. ASSUME file = Encode(written) PROVE target = written.target
    <3>1. \A j \in 1 .. 4 : file[cursor + j] = Word(written.target)[j]
      BY <1>0, <2>9, OpeningThere, Zenon
    <3>2. written.target \in Words
      BY WrittenFits, SaidIsBytes
    <3> QED BY <1>0, <3>1, <3>2, WordIsRead DEF target
  <2>10. AsWritten'
    BY <2>1, <2>3, <2>7, <2>9 DEF AsWritten
  <2> QED BY <2>8, <2>10
<1>2. CASE ~ Holds(cursor, WordBytes)
  <2>1. Refused
    BY <1>2 DEF ReadTarget, Refuse, Refused
  <2>2. ASSUME file = Encode(written) PROVE FALSE
    <3>1. Len(Magic) + 8 =< Len(file)
      BY <2>2, OpeningThere
    <3>2. Len(file) \in Nat /\ Len(Magic) \in Nat
      BY <1>0, FormatAssumption
    <3> QED BY <1>0, <1>2, <3>1, <3>2 DEF Holds, WordBytes
  <2> QED BY <2>1, <2>2, RefuseSays
<1> QED BY <1>1, <1>2

\* Tables with the next column, and what that changes: nothing of the columns before.
With(tables, k, values) == [tables EXCEPT !.columns[WriteOrder[k + 1]] = values]

GoOn(tables, k, values, next) ==
  /\ Fits(next)
  /\ next.target = tables.target
  /\ next.columns[WriteOrder[k + 1]] = values
  /\ \A i \in 1 .. k : next.columns[WriteOrder[i]] = tables.columns[WriteOrder[i]]
  /\ Prefix(next, k + 1) = Prefix(tables, k) \o WriteColumn(WriteOrder[k + 1], values)

LEMMA OtherColumnsStay ==
  ASSUME NEW tables, Fits(tables), NEW k \in Nat, k + 1 =< Len(WriteOrder),
         NEW values, FitsColumn(WriteOrder[k + 1], values)
  PROVE  GoOn(tables, k, values, With(tables, k, values))
<1> DEFINE name == WriteOrder[k + 1]
           next == With(tables, k, values)
<1>0. Len(WriteOrder) \in Nat /\ k + 1 \in 1 .. Len(WriteOrder) /\ k =< Len(WriteOrder)
  BY ColumnNames
<1>1. name \in Column
  BY <1>0, ColumnNames
<1>2. tables \in [target : Words, columns : [Column -> Seq(Nat)]]
  BY DEF Fits
<1>3. \A i \in 1 .. k : WriteOrder[i] \in Column /\ WriteOrder[i] # name
  <2>1. \A i, j \in 1 .. Len(WriteOrder) : WriteOrder[i] = WriteOrder[j] => i = j
    BY EachColumnOnce, OrdersAgree
  <2> SUFFICES ASSUME NEW i \in 1 .. k PROVE WriteOrder[i] \in Column /\ WriteOrder[i] # name
    OBVIOUS
  <2>2. i \in 1 .. Len(WriteOrder) /\ i # k + 1
    BY <1>0
  <2> QED BY <1>0, <2>1, <2>2, ColumnNames
<1>4. next = [tables EXCEPT !.columns[name] = values]
  BY DEF With
<1>5. FitsColumn(name, values)
  OBVIOUS
<1>6. Prefix(tables, k) \in Seq(Byte)
  BY <1>0, PrefixNext
<1> HIDE DEF name, next
<1>7. /\ next.target = tables.target
      /\ next.columns = [tables.columns EXCEPT ![name] = values]
  BY <1>2, <1>4
<1>8. /\ next.columns[name] = values
      /\ \A other \in Column : other # name => next.columns[other] = tables.columns[other]
  BY <1>1, <1>2, <1>7
<1>9. Fits(next)
  <2>1. values \in Seq(Nat)
    BY <1>5 DEF FitsColumn
  <2>2. next \in [target : Words, columns : [Column -> Seq(Nat)]]
    BY <1>2, <1>4, <2>1, Zenon
  <2>3. ASSUME NEW other \in Column
        PROVE  next.columns[other] \in Seq(Cell(other)) /\ Len(next.columns[other]) \in Words
    <3>1. CASE other = name
      BY <1>5, <1>8, <3>1 DEF FitsColumn
    <3>2. CASE other # name
      BY <1>8, <3>2 DEF Fits
    <3> QED BY <3>1, <3>2
  <2> QED BY <2>2, <2>3 DEF Fits
<1>10. \A i \in 1 .. k : next.columns[WriteOrder[i]] = tables.columns[WriteOrder[i]]
  BY <1>3, <1>8
<1>11. Prefix(next, k + 1) = Prefix(tables, k) \o WriteColumn(name, values)
  <2>1. Prefix(next, k) = Prefix(tables, k)
    <3>1. next.target = tables.target /\ k =< Len(WriteOrder)
      BY <1>0, <1>7
    <3> QED BY <1>10, <3>1, SayAlike
  <2>2. Prefix(next, k + 1) = Prefix(next, k) \o Said(next)[k + 1]
    BY <1>0, <1>9, PrefixNext, Zenon
  <2>3. Said(next)[k + 1] = WriteColumn(name, values)
    BY <1>0, <1>8 DEF Said, name
  <2> QED BY <2>1, <2>2, <2>3
<1>12. GoOn(tables, k, values, next)
  BY <1>7, <1>8, <1>9, <1>10, <1>11 DEF name, GoOn
<1> QED BY <1>12 DEF next

\* A column is refused where it does not end inside the file or has a row of no known
\* kind, and is read otherwise.
ColumnThere(name, length) ==
  /\ Holds(cursor, WordBytes)
  /\ Holds(cursor + WordBytes, length * RowBytes(name))
  /\ \A i \in 1 .. length : ~ Unknown(name, RowsAt(name, cursor, length)[i])

LEMMA ColumnCases ==
  ASSUME SaysSoFar, ReadColumn
  PROVE  \/ /\ Refused
            /\ ~ ColumnThere(ReadOrder[column + 1], WordAt(cursor))
         \/ /\ ColumnThere(ReadOrder[column + 1], WordAt(cursor))
            /\ read' = [read EXCEPT !.columns[ReadOrder[column + 1]] =
                                      RowsAt(ReadOrder[column + 1], cursor, WordAt(cursor))]
            /\ cursor' = cursor + WordBytes
                           + WordAt(cursor) * RowBytes(ReadOrder[column + 1])
            /\ column' = column + 1
            /\ UNCHANGED <<written, file, decoding>>
<1> DEFINE name == ReadOrder[column + 1]
           length == WordAt(cursor)
           values == RowsAt(name, cursor, length)
           unknown == { values[i] : i \in { i \in DOMAIN values : Unknown(name, values[i]) /\
                                     \A j \in 1 .. i - 1 : ~ Unknown(name, values[j]) } }
           start == cursor + WordBytes
<1>1. CASE ~ Holds(cursor, WordBytes) \/ ~ Holds(start, length * RowBytes(name))
  BY <1>1 DEF ReadColumn, Refuse, Refused, ColumnThere
<1>2. CASE Holds(cursor, WordBytes) /\ Holds(start, length * RowBytes(name))
  <2>1. length \in Nat /\ DOMAIN values = 1 .. length
    <3>1. length \in Words
      BY <1>2, WordThere DEF SaysSoFar
    <3> QED BY <3>1, WordsAreNat, Zenon DEF RowsAt
  <2>2. CASE unknown # {}
    <3>1. Refused
      BY <1>2, <2>2, Zenon DEF ReadColumn, Refuse, Refused, RowsAt
    <3>2. ~ ColumnThere(name, length)
      <4> HIDE DEF values, name, length
      <4> QED BY <2>1, <2>2 DEF ColumnThere, values
    <3> QED BY <3>1, <3>2
  <2>3. CASE unknown = {}
    <3>1. /\ read' = [read EXCEPT !.columns[name] = values]
          /\ cursor' = start + length * RowBytes(name)
          /\ column' = column + 1
          /\ UNCHANGED <<written, file, decoding>>
      BY <1>2, <2>3, Zenon DEF ReadColumn, RowsAt
    <3>2. \A i \in 1 .. length : ~ Unknown(name, values[i])
      <4> DEFINE Bad == { i \in 1 .. length : Unknown(name, values[i]) }
      <4> SUFFICES ASSUME Bad # {} PROVE FALSE
        OBVIOUS
      <4>1. Bad \in SUBSET Nat
        OBVIOUS
      <4> HIDE DEF Bad
      <4>2. PICK m \in Bad : \A k \in Bad : m =< k
        BY <4>1, LeastNatural
      <4>3. m \in 1 .. length /\ Unknown(name, values[m])
        BY <4>2 DEF Bad
      <4>4. ASSUME NEW j \in 1 .. m - 1 PROVE ~ Unknown(name, values[j])
        <5>1. j \in 1 .. length /\ ~ (m =< j)
          BY <2>1, <4>3
        <5>2. j \notin Bad
          BY <4>2, <5>1
        <5> QED BY <5>1, <5>2 DEF Bad
      <4> HIDE DEF values, name, length
      <4>5. values[m] \in unknown
        BY <2>1, <4>3, <4>4
      <4> QED BY <2>3, <4>5
    <3>3. ColumnThere(name, length)
      BY <1>2, <3>2 DEF ColumnThere
    <3> QED BY <3>1, <3>3
  <2> QED BY <2>2, <2>3
<1> QED BY <1>1, <1>2

\* The bytes up to the end of a column.
LEMMA ColumnSaid ==
  ASSUME file \in Seq(Byte), cursor \in Nat, NEW name, NEW length, length = WordAt(cursor),
         ColumnThere(name, length)
  PROVE  LET end == cursor + WordBytes + length * RowBytes(name)
             values == RowsAt(name, cursor, length)
         IN  /\ FitsColumn(name, values)
             /\ end \in 0 .. Len(file)
             /\ SubSeq(file, 1, end) = SubSeq(file, 1, cursor) \o WriteColumn(name, values)
<1> DEFINE values == RowsAt(name, cursor, length)
           n == 4 + length * RowBytes(name)
<1>1. /\ FitsColumn(name, values)
      /\ SubSeq(file, cursor + 1, cursor + n) = WriteColumn(name, values)
  BY ColumnIsSaid DEF ColumnThere
<1>2. length * RowBytes(name) \in Nat
  <2>1. length \in Nat
    BY WordThere, WordsAreNat, Zenon DEF ColumnThere
  <2>2. RowBytes(name) \in Nat
    BY DEF RowBytes, WordBytes
  <2> QED BY <2>1, <2>2
<1>3. n \in Nat /\ cursor + n =< Len(file) /\ Len(file) \in Nat
      /\ cursor + WordBytes + length * RowBytes(name) = cursor + n
  BY <1>2 DEF ColumnThere, Holds, WordBytes
<1> HIDE DEF n, values
<1>4. 1 \in 1 .. Len(file) + 1 /\ cursor \in 1 - 1 .. Len(file)
      /\ cursor + n \in cursor .. Len(file) /\ cursor + n \in 0 .. Len(file)
  BY <1>3
<1>5. SubSeq(file, 1, cursor) \o SubSeq(file, cursor + 1, cursor + n)
        = SubSeq(file, 1, cursor + n)
  BY <1>4, ConcatAdjacentSubSeq, Zenon
<1> QED BY <1>1, <1>3, <1>4, <1>5, Zenon DEF values

\* A column adds what its bytes say, and the written one is not refused.
LEMMA ColumnSays == SaysSoFar /\ AsWritten /\ ReadColumn => SaysSoFar' /\ AsWritten'
<1> SUFFICES ASSUME SaysSoFar, AsWritten, ReadColumn PROVE SaysSoFar' /\ AsWritten'
  OBVIOUS
<1> DEFINE name == WriteOrder[column + 1]
           length == WordAt(cursor)
           values == RowsAt(name, cursor, length)
           next == [read EXCEPT !.columns[name] = values]
<1>0. /\ decoding = "columns" /\ file \in Seq(Byte) /\ cursor \in Nat /\ Fits(read)
      /\ written \in FactFiles
      /\ SubSeq(file, 1, cursor) = Prefix(read, column)
  BY DEF ReadColumn, SaysSoFar
<1>1. /\ column \in Nat /\ column + 1 =< Len(WriteOrder) /\ Len(WriteOrder) \in Nat
      /\ column + 1 \in 1 .. Len(WriteOrder) /\ column =< Len(WriteOrder)
  BY ColumnNames, OrdersAgree DEF ReadColumn, SaysSoFar
<1>2. ReadOrder[column + 1] = name
  BY OrdersAgree
\* What was written, where it is what is there.
<1>3. ASSUME file = Encode(written)
      PROVE  ColumnThere(name, length) /\ values = written.columns[name]
  <2> DEFINE p == Prefix(written, column)  given == written.columns[name]
             c == WriteColumn(name, given)
  <2>1. Fits(written)
    BY WrittenFits
  <2>2. FitsColumn(name, given) /\ Said(written)[column + 1] = c /\ c \in Seq(Byte)
    BY <1>1, <2>1, SaidIsBytes
  <2>3. p \in Seq(Byte) /\ Prefix(written, column + 1) = p \o c
    BY <1>1, <2>1, <2>2, PrefixNext, Zenon
  <2>4. PICK rest \in Seq(Byte) : file = (p \o c) \o rest
    <3>1. \E rest \in Seq(Byte) : Encode(written) = Prefix(written, column + 1) \o rest
      <4>1. column + 1 \in Nat
        BY <1>1
      <4> QED BY <1>1, <2>1, <4>1, RestOfTheFile, Zenon
    <3> QED BY <1>3, <2>3, <3>1, Zenon
  <2>5. p = SubSeq(file, 1, cursor)
    <3>1. /\ read.target = written.target
          /\ \A i \in 1 .. column :
               read.columns[WriteOrder[i]] = written.columns[WriteOrder[i]]
      BY <1>0, <1>3 DEF AsWritten
    <3>2. Prefix(read, column) = Prefix(written, column)
      BY <1>1, <3>1, SayAlike
    <3> QED BY <1>0, <3>2
  <2>6. Len(p) = cursor
    <3>1. cursor \in 0 .. Len(file)
      BY DEF SaysSoFar
    <3> HIDE DEF p
    <3> QED BY <1>0, <2>5, <3>1
  <2> HIDE DEF p, given, name
  <2>7. /\ Holds(Len(p), WordBytes)
        /\ WordAt(Len(p)) = Len(given)
        /\ Holds(Len(p) + WordBytes, Len(given) * RowBytes(name))
        /\ RowsAt(name, Len(p), Len(given)) = given
    BY <2>2, <2>3, <2>4, ColumnIsRead, Zenon DEF c
  <2>8. length = Len(given) /\ values = given
    BY <2>6, <2>7
  <2>9. \A i \in 1 .. Len(given) : ~ Unknown(name, given[i])
    BY <2>2 DEF FitsColumn, Cell
  <2>10. ColumnThere(name, length)
    BY <2>6, <2>7, <2>8, <2>9 DEF ColumnThere
  <2> QED BY <2>8, <2>10 DEF given
<1>4. CASE Refused /\ ~ ColumnThere(name, length)
  BY <1>3, <1>4, RefuseSays
<1>5. CASE /\ ColumnThere(name, length)
           /\ read' = next
           /\ cursor' = cursor + WordBytes + length * RowBytes(name)
           /\ column' = column + 1
           /\ UNCHANGED <<written, file, decoding>>
  <2> DEFINE end == cursor + WordBytes + length * RowBytes(name)
  <2>1. /\ FitsColumn(name, values)
        /\ end \in 0 .. Len(file)
        /\ SubSeq(file, 1, end) = SubSeq(file, 1, cursor) \o WriteColumn(name, values)
    BY <1>0, <1>5, ColumnSaid, Zenon
  <2> HIDE DEF values, length
  <2>2. /\ Fits(next)
        /\ next.target = read.target
        /\ next.columns[name] = values
        /\ \A i \in 1 .. column : next.columns[WriteOrder[i]] = read.columns[WriteOrder[i]]
        /\ Prefix(next, column + 1) = Prefix(read, column) \o WriteColumn(name, values)
    <3>1. next = With(read, column, values)
      BY DEF With
    <3>2. FitsColumn(WriteOrder[column + 1], values)
      BY <2>1
    <3>3. Fits(read) /\ column \in Nat /\ column + 1 =< Len(WriteOrder)
      BY <1>0, <1>1
    <3> HIDE DEF next, name
    <3>4. GoOn(read, column, values, next)
      BY <3>1, <3>2, <3>3, OtherColumnsStay
    <3> QED BY <3>4 DEF name, GoOn
  <2>3. SubSeq(file, 1, end) = Prefix(next, column + 1)
    BY <1>0, <2>1, <2>2, Zenon
  <2>4. read' = next /\ cursor' = end /\ column' = column + 1 /\ decoding' = "columns"
        /\ UNCHANGED <<written, file>>
    BY <1>0, <1>5
  <2> HIDE DEF next, end
  <2>5. /\ SubSeq(file', 1, cursor') = Prefix(read', column')
        /\ Fits(read') /\ cursor' \in 0 .. Len(file') /\ column' \in 0 .. Len(WriteOrder)
    BY <1>1, <2>1, <2>2, <2>3, <2>4
  <2>6. SaysSoFar'
    BY <1>0, <2>4, <2>5 DEF SaysSoFar
  <2>7. ASSUME file = Encode(written)
        PROVE  /\ next.target = written.target
               /\ \A i \in 1 .. column + 1 :
                    next.columns[WriteOrder[i]] = written.columns[WriteOrder[i]]
    <3>1. /\ read.target = written.target
          /\ \A i \in 1 .. column :
               read.columns[WriteOrder[i]] = written.columns[WriteOrder[i]]
      BY <1>0, <2>7 DEF AsWritten
    <3>2. values = written.columns[name]
      BY <1>3, <2>7
    <3>3. ASSUME NEW i \in 1 .. column + 1
          PROVE  next.columns[WriteOrder[i]] = written.columns[WriteOrder[i]]
      <4>1. CASE i = column + 1
        BY <2>2, <3>2, <4>1
      <4>2. CASE i # column + 1
        <5>1. i \in 1 .. column
          BY <1>1, <4>2
        <5> QED BY <2>2, <3>1, <5>1
      <4> QED BY <4>1, <4>2
    <3> QED BY <2>2, <3>1, <3>3
  <2>8. AsWritten'
    BY <2>4, <2>7 DEF AsWritten
  <2> QED BY <2>6, <2>8
<1> HIDE DEF name
<1>6. \/ Refused /\ ~ ColumnThere(name, length)
      \/ /\ ColumnThere(name, length)
         /\ read' = next
         /\ cursor' = cursor + WordBytes + length * RowBytes(name)
         /\ column' = column + 1
         /\ UNCHANGED <<written, file, decoding>>
  BY <1>2, ColumnCases
<1> QED BY <1>4, <1>5, <1>6

\* The columns that were written end where their file does.
LEMMA FinishSays == SaysSoFar /\ AsWritten /\ Finish => SaysSoFar' /\ AsWritten'
<1> SUFFICES ASSUME SaysSoFar, AsWritten, Finish PROVE SaysSoFar' /\ AsWritten'
  OBVIOUS
<1>0. /\ decoding = "columns" /\ column = Len(WriteOrder) /\ file \in Seq(Byte)
      /\ cursor \in 0 .. Len(file) /\ SubSeq(file, 1, cursor) = Prefix(read, column)
  BY OrdersAgree DEF Finish, SaysSoFar
<1>1. CASE cursor = Len(file)
  <2>1. decoding' = "accepted" /\ UNCHANGED <<written, file, cursor, column, read>>
    BY <1>1 DEF Finish
  <2>2. SaysSoFar'
    BY <1>0, <1>1, <2>1 DEF SaysSoFar
  <2>3. AsWritten'
    BY <1>0, <2>1 DEF AsWritten
  <2> QED BY <2>2, <2>3
<1>2. CASE cursor # Len(file)
  <2>1. Refused
    BY <1>2 DEF Finish, Refuse, Refused
  <2>2. ASSUME file = Encode(written) PROVE FALSE
    <3>1. /\ read.target = written.target
          /\ \A i \in 1 .. column :
               read.columns[WriteOrder[i]] = written.columns[WriteOrder[i]]
      BY <1>0, <2>2 DEF AsWritten
    <3>2. Prefix(read, column) = Prefix(written, column)
      <4>1. column \in Nat /\ column =< Len(WriteOrder)
        BY <1>0, ColumnNames
      <4> QED BY <3>1, <4>1, SayAlike
    <3>3. SubSeq(file, 1, cursor) = file
      BY <1>0, <2>2, <3>2, EncodeIsPrefix
    <3>4. Len(SubSeq(file, 1, cursor)) = cursor
      BY <1>0
    <3> QED BY <1>2, <3>3, <3>4, Zenon
  <2> QED BY <2>1, <2>2, RefuseSays
<1> QED BY <1>1, <1>2

\* So with every step.
LEMMA StepSays == SaysSoFar /\ AsWritten /\ [WireNext]_wire_vars => SaysSoFar' /\ AsWritten'
<1> SUFFICES ASSUME SaysSoFar, AsWritten, [WireNext]_wire_vars PROVE SaysSoFar' /\ AsWritten'
  OBVIOUS
<1>1. CASE UNCHANGED wire_vars
  BY <1>1 DEF wire_vars, SaysSoFar, AsWritten
<1> QED BY <1>1, WriteSays, OpenSays, MagicSays, VersionSays, TargetSays, ColumnSays,
           FinishSays DEF WireNext, Closed

-----------------------------------------------------------------------------
(* What it means for the intake: the file's steps are the decoder's, and   *)
(* no other step touches what it reads into.                               *)

\* A program that reads a project decodes nothing.
Decoding ==
  /\ command \in {"read", "emit"}
  /\ command = "emit" => SaysSoFar /\ AsWritten
  /\ command = "read" => decoding = "idle" /\ file = << >> /\ cursor = 0

LEMMA StartDecoding == Start => Decoding
<1>1. StartRead => Decoding
  BY DEF StartRead, Decoding
<1>2. StartEmit => Decoding
  BY StartSays DEF StartEmit, Decoding
<1> QED BY <1>1, <1>2 DEF Start

LEMMA StepDecoding == Decoding /\ [NextIntake]_all => Decoding'
<1> SUFFICES ASSUME Decoding, [NextIntake]_all PROVE Decoding'
  OBVIOUS
<1>1. CASE UNCHANGED <<wire_vars, command>>
  BY <1>1, Zenon DEF Decoding, SaysSoFar, AsWritten, wire_vars
<1>2. CASE FollowImports
  BY <1>1, <1>2 DEF FollowImports
<1>3. CASE BuildProject
  BY <1>1, <1>3 DEF BuildProject, Hand
<1>4. CASE ReadFactFile
  <2>1. command = "emit" /\ command' = command /\ WireNext
    BY <1>4 DEF ReadFactFile
  <2>2. SaysSoFar' /\ AsWritten'
    BY <2>1, StepSays DEF Decoding
  <2> QED BY <2>1, <2>2 DEF Decoding
<1>5. CASE GenerateFromBytes
  BY <1>1, <1>5 DEF GenerateFromBytes, Hand
<1>6. CASE MergeAndValidate
  BY <1>1, <1>6 DEF MergeAndValidate
<1>7. CASE UNCHANGED all
  BY <1>1, <1>7 DEF all
<1> QED BY <1>2, <1>3, <1>4, <1>5, <1>6, <1>7 DEF NextIntake

LEMMA AlwaysDecoding == SpecIntake => []Decoding
BY StartDecoding, StepDecoding, PTL DEF SpecIntake

-----------------------------------------------------------------------------
(* The properties.                                                         *)

\* The reader never looks past the end of a file, whatever lengths a damaged one
\* says (wire.rs:38-85).
THEOREM NothingPastTheEnd == SpecIntake => []CursorIsInside
<1>1. Decoding => CursorIsInside
  BY DEF Decoding, SaysSoFar, CursorIsInside
<1> QED BY <1>1, AlwaysDecoding, PTL

\* A file the decoder accepts, whatever became of it since it was written, is the one
\* the encoder would write of what was read (wire.rs:341-356 and 632-656).
THEOREM NothingIsMadeUp == SpecIntake => []AcceptedSaysWhatIsRead
<1>1. Decoding => AcceptedSaysWhatIsRead
  <2> SUFFICES ASSUME Decoding, decoding = "accepted" PROVE file = Encode(read)
    BY DEF AcceptedSaysWhatIsRead
  <2>1. SaysSoFar
    BY DEF Decoding
  <2>2. /\ file \in Seq(Byte) /\ cursor = Len(file) /\ column = Len(WriteOrder)
        /\ SubSeq(file, 1, cursor) = Prefix(read, column)
    BY <2>1 DEF SaysSoFar
  <2>3. SubSeq(file, 1, Len(file)) = file
    BY <2>2, SubSeqFull
  <2> QED BY <2>2, <2>3, EncodeIsPrefix
<1> QED BY <1>1, AlwaysDecoding, PTL

\* The decoder takes what the encoder wrote, and reads every column of it as it was,
\* though each of the two lists the columns for itself (wire.rs:341-356 and 632-656).
THEOREM WhatIsWrittenIsRead == SpecIntake => []WrittenIsRead
<1>1. Decoding => WrittenIsRead
  <2> SUFFICES ASSUME Decoding, decoding \in {"accepted", "refused"}, file = Encode(written)
               PROVE  (decoding = "accepted" => read = written) /\ decoding # "refused"
    BY DEF WrittenIsRead
  <2>1. SaysSoFar /\ AsWritten
    BY DEF Decoding
  <2>2. decoding # "refused"
    BY <2>1 DEF AsWritten
  <2>3. ASSUME decoding = "accepted" PROVE read = written
    <3>1. /\ read.target = written.target
          /\ \A i \in 1 .. Len(WriteOrder) :
               read.columns[WriteOrder[i]] = written.columns[WriteOrder[i]]
      BY <2>1, <2>3 DEF AsWritten, SaysSoFar
    <3>2. \A name \in Column : read.columns[name] = written.columns[name]
      BY <3>1, ColumnNames
    <3>3. /\ read \in [target : Words, columns : [Column -> Seq(Nat)]]
          /\ written \in [target : Words, columns : [Column -> Seq(Nat)]]
      BY <2>1, WrittenFits DEF SaysSoFar, Fits
    <3>4. read.columns = written.columns
      BY <3>2, <3>3
    <3> QED BY <3>1, <3>3, <3>4
  <2> QED BY <2>2, <2>3
<1> QED BY <1>1, AlwaysDecoding, PTL

-----------------------------------------------------------------------------
(* Sets in order.                                                          *)

\* How many of a set come before one of them, and the one that so many do.
Earlier(S, R, x) == { y \in S : <<y, x>> \in R }
Ranked(S, R) ==
  [ i \in 1 .. Cardinality(S) |-> CHOOSE x \in S : Cardinality(Earlier(S, R, x)) = i - 1 ]

IsOrder(S, R) ==
  \A x, y \in S :
    /\ <<x, x>> \notin R
    /\ x # y => <<x, y>> \in R \/ <<y, x>> \in R
    /\ \A z \in S : <<x, y>> \in R /\ <<y, z>> \in R => <<x, z>> \in R

\* In an order every place is taken, by one.
LEMMA EveryRankIsTaken ==
  ASSUME NEW S, IsFiniteSet(S), NEW R, IsOrder(S, R)
  PROVE  /\ Cardinality(S) \in Nat
         /\ \A x \in S : Cardinality(Earlier(S, R, x)) \in 0 .. Cardinality(S) - 1
         /\ \A x, y \in S :
              Cardinality(Earlier(S, R, x)) = Cardinality(Earlier(S, R, y)) => x = y
         /\ \A i \in 1 .. Cardinality(S) :
              \E x \in S : Cardinality(Earlier(S, R, x)) = i - 1
<1> DEFINE n == Cardinality(S)
           B(x) == Earlier(S, R, x)
           rank == [ x \in S |-> Cardinality(B(x)) ]
<1>1. n \in Nat
  BY FS_CardinalityType
<1>2. ASSUME NEW x \in S
      PROVE  /\ B(x) \in SUBSET S /\ x \notin B(x)
             /\ IsFiniteSet(B(x)) /\ Cardinality(B(x)) \in Nat
             /\ Cardinality(B(x)) < n
  <2>1. B(x) \in SUBSET S /\ x \notin B(x)
    BY DEF Earlier, IsOrder
  <2>2. IsFiniteSet(B(x)) /\ Cardinality(B(x)) =< n /\ (n = Cardinality(B(x)) => S = B(x))
    <3> HIDE DEF B
    <3> QED BY <2>1, FS_Subset
  <2>3. Cardinality(B(x)) \in Nat
    <3> HIDE DEF B
    <3> QED BY <2>2, FS_CardinalityType
  <2>4. S # B(x)
    BY <2>1
  <2> HIDE DEF B, n
  <2> QED BY <1>1, <2>1, <2>2, <2>3, <2>4
<1>3. ASSUME NEW x \in S, NEW y \in S, <<x, y>> \in R
      PROVE  Cardinality(B(x)) < Cardinality(B(y))
  <2>1. B(x) \in SUBSET B(y) /\ x \in B(y)
    BY <1>3, Zenon DEF Earlier, IsOrder
  <2>2. /\ IsFiniteSet(B(y)) /\ x \notin B(x)
        /\ Cardinality(B(x)) \in Nat /\ Cardinality(B(y)) \in Nat
    BY <1>2
  <2> HIDE DEF B
  <2>3. Cardinality(B(x)) =< Cardinality(B(y))
        /\ (Cardinality(B(y)) = Cardinality(B(x)) => B(y) = B(x))
    BY <2>1, <2>2, FS_Subset
  <2>4. B(x) # B(y)
    BY <2>1, <2>2
  <2> QED BY <2>2, <2>3, <2>4
<1>4. ASSUME NEW x \in S, NEW y \in S, Cardinality(B(x)) = Cardinality(B(y))
      PROVE  x = y
  <2>1. Cardinality(B(x)) \in Nat /\ Cardinality(B(y)) \in Nat
    BY <1>2
  <2>2. x = y \/ <<x, y>> \in R \/ <<y, x>> \in R
    BY Zenon DEF IsOrder
  <2>3. ~ (<<x, y>> \in R) /\ ~ (<<y, x>> \in R)
    <3> HIDE DEF B
    <3> QED BY <1>3, <1>4, <2>1
  <2> QED BY <2>2, <2>3
<1>5. \A i \in 1 .. n : \E x \in S : Cardinality(B(x)) = i - 1
  <2>1. rank \in [S -> 0 .. n - 1]
    <3> HIDE DEF B, n
    <3> QED BY <1>1, <1>2
  <2>2. rank \in Injection(S, 0 .. n - 1)
    <3>1. ASSUME NEW x \in S, NEW y \in S, rank[x] = rank[y] PROVE x = y
      <4> HIDE DEF B
      <4> QED BY <1>4, <3>1
    <3>2. DOMAIN rank = S
      OBVIOUS
    <3> HIDE DEF rank
    <3> QED BY <2>1, <3>1, <3>2 DEF Injection, IsInjective
  <2>3. IsFiniteSet(0 .. n - 1) /\ Cardinality(0 .. n - 1) = n
    <3> HIDE DEF n
    <3>1. 0 \in Int /\ n - 1 \in Int
      BY <1>1
    <3>2. IsFiniteSet(0 .. n - 1) /\ Cardinality(0 .. n - 1) = IF 0 > n - 1 THEN 0 ELSE n - 1 - 0 + 1
      BY <3>1, FS_Interval
    <3> QED BY <1>1, <3>2
  <2>4. rank \in Surjection(S, 0 .. n - 1)
    <3> HIDE DEF rank
    <3> QED BY <2>2, <2>3, FS_Injection
  <2>5. ASSUME NEW i \in 1 .. n PROVE \E x \in S : Cardinality(B(x)) = i - 1
    <3>1. i - 1 \in 0 .. n - 1
      BY <1>1
    <3>2. \E x \in S : rank[x] = i - 1
      <4> HIDE DEF rank
      <4> QED BY <2>4, <3>1 DEF Surjection
    <3> HIDE DEF B
    <3> QED BY <3>2
  <2> QED BY <2>5
<1>6. \A x \in S : Cardinality(B(x)) \in 0 .. n - 1
  <2> HIDE DEF B, n
  <2> QED BY <1>1, <1>2
<1> QED BY <1>1, <1>4, <1>5, <1>6

\* A set in order is each of its members once, and its first what none is before.
LEMMA RankedHoldsEach ==
  ASSUME NEW S, IsFiniteSet(S), NEW R, IsOrder(S, R)
  PROVE  /\ Ranked(S, R) \in [1 .. Cardinality(S) -> S]
         /\ Cardinality(S) \in Nat
         /\ ToSet(Ranked(S, R)) = S
         /\ \A i, j \in 1 .. Cardinality(S) : Ranked(S, R)[i] = Ranked(S, R)[j] => i = j
         /\ \A first \in S : (\A x \in S : <<x, first>> \notin R) => Ranked(S, R)[1] = first
<1> DEFINE n == Cardinality(S)
           s == Ranked(S, R)
           Rank(x) == Cardinality(Earlier(S, R, x))
<1>1. /\ n \in Nat
      /\ \A x \in S : Rank(x) \in 0 .. n - 1
      /\ \A x, y \in S : Rank(x) = Rank(y) => x = y
      /\ \A i \in 1 .. n : \E x \in S : Rank(x) = i - 1
  BY EveryRankIsTaken
<1>2. s = [ i \in 1 .. n |-> CHOOSE x \in S : Rank(x) = i - 1 ]
  BY DEF Ranked
<1>3. \A first \in S : (\A x \in S : <<x, first>> \notin R) => Rank(first) = 0
  BY FS_EmptySet, Zenon DEF Earlier
<1> HIDE DEF s, n, Rank
<1>4. ASSUME NEW i \in 1 .. n PROVE s[i] \in S /\ Rank(s[i]) = i - 1
  <2>1. \E x \in S : Rank(x) = i - 1
    BY <1>1
  <2>2. s[i] = CHOOSE x \in S : Rank(x) = i - 1
    BY <1>2
  <2> QED BY <2>1, <2>2
<1>5. s \in [1 .. n -> S]
  <2>1. DOMAIN s = 1 .. n /\ s = [ i \in 1 .. n |-> s[i] ]
    BY <1>2
  <2> QED BY <1>4, <2>1
<1>6. \A i, j \in 1 .. n : s[i] = s[j] => i = j
  <2> SUFFICES ASSUME NEW i \in 1 .. n, NEW j \in 1 .. n, s[i] = s[j] PROVE i = j
    OBVIOUS
  <2>1. Rank(s[i]) = i - 1 /\ Rank(s[j]) = j - 1
    BY <1>4
  <2> QED BY <2>1
<1>7. ASSUME NEW x \in S PROVE \E i \in 1 .. n : s[i] = x /\ Rank(x) = i - 1
  <2>1. Rank(x) \in 0 .. n - 1
    BY <1>1
  <2>2. PICK i \in 1 .. n : i - 1 = Rank(x)
    <3>1. Rank(x) + 1 \in 1 .. n /\ (Rank(x) + 1) - 1 = Rank(x)
      BY <1>1, <2>1
    <3> QED BY <3>1
  <2>3. s[i] \in S /\ Rank(s[i]) = Rank(x)
    BY <1>4, <2>2
  <2>4. s[i] = x
    BY <1>1, <2>3
  <2> QED BY <2>2, <2>4
<1>8. ToSet(s) = S
  BY <1>4, <1>5, <1>7 DEF ToSet
<1>9. ASSUME NEW first \in S, \A x \in S : <<x, first>> \notin R PROVE s[1] = first
  <2>1. Rank(first) = 0
    BY <1>3, <1>9
  <2>2. PICK i \in 1 .. n : s[i] = first /\ Rank(first) = i - 1
    BY <1>7
  <2> QED BY <2>1, <2>2
<1> QED BY <1>1, <1>5, <1>6, <1>8, <1>9 DEF s, n

\* A set as a sequence.
LEMMA SetAsSequence ==
  ASSUME NEW S, IsFiniteSet(S)
  PROVE  SetToSeq(S) \in Seq(S) /\ ToSet(SetToSeq(S)) = S
<1> DEFINE n == Cardinality(S)  s == SetToSeq(S)
<1>1. n \in Nat /\ ExistsBijection(1 .. n, S)
  BY FS_CardinalityType
<1>2. \E f \in [1 .. n -> S] : IsInjective(f)
  BY <1>1 DEF ExistsBijection, Bijection, Injection
<1>3. s \in [1 .. n -> S] /\ IsInjective(s)
  <2>1. s = CHOOSE f \in [1 .. n -> S] : IsInjective(f)
    BY DEF SetToSeq
  <2> HIDE DEF s, n
  <2> QED BY <1>2, <2>1
<1> HIDE DEF s
<1>4. s \in Injection(1 .. n, S)
  BY <1>3 DEF Injection
<1>5. IsFiniteSet(1 .. n) /\ Cardinality(1 .. n) = n
  <2> HIDE DEF n
  <2>1. 1 \in Int /\ n \in Int
    BY <1>1
  <2>2. IsFiniteSet(1 .. n) /\ Cardinality(1 .. n) = IF 1 > n THEN 0 ELSE n - 1 + 1
    BY <2>1, FS_Interval
  <2> QED BY <1>1, <2>2
<1>6. s \in Surjection(1 .. n, S)
  BY <1>4, <1>5, FS_Injection
<1>7. ToSet(s) = S
  BY <1>3, <1>6 DEF ToSet, Surjection
<1>8. s \in Seq(S)
  <2> HIDE DEF n
  <2> QED BY <1>1, <1>3
<1> QED BY <1>7, <1>8 DEF s

\* What is in two sequences in a row is in one of them.
LEMMA ConcatHoldsBoth ==
  ASSUME NEW S, NEW a \in Seq(S), NEW b \in Seq(S)
  PROVE  ToSet(a \o b) = ToSet(a) \cup ToSet(b)
<1> DEFINE c == a \o b
<1>1. /\ Len(a) \in Nat /\ Len(b) \in Nat
      /\ \A i \in 1 .. Len(a) : c[i] = a[i]
      /\ \A i \in 1 .. Len(b) : c[Len(a) + i] = b[i]
      /\ DOMAIN a = 1 .. Len(a) /\ DOMAIN b = 1 .. Len(b)
      /\ DOMAIN c = 1 .. Len(a) + Len(b)
  OBVIOUS
<1> HIDE DEF c
<1>2. ASSUME NEW i \in 1 .. Len(a) + Len(b)
      PROVE  i \in 1 .. Len(a) \/ \E j \in 1 .. Len(b) : i = Len(a) + j
  <2> SUFFICES ASSUME i \notin 1 .. Len(a) PROVE \E j \in 1 .. Len(b) : i = Len(a) + j
    OBVIOUS
  <2>1. i - Len(a) \in 1 .. Len(b) /\ i = Len(a) + (i - Len(a))
    BY <1>1
  <2> QED BY <2>1, Zenon
<1>3. ASSUME NEW i \in 1 .. Len(a) + Len(b) PROVE c[i] \in ToSet(a) \cup ToSet(b)
  <2>1. CASE i \in 1 .. Len(a)
    BY <1>1, <2>1, Zenon DEF ToSet
  <2>2. ASSUME NEW j \in 1 .. Len(b), i = Len(a) + j PROVE c[i] \in ToSet(b)
    BY <1>1, <2>2 DEF ToSet
  <2> QED BY <1>2, <2>1, <2>2, Zenon
<1>4. ToSet(c) \subseteq ToSet(a) \cup ToSet(b)
  BY <1>1, <1>3 DEF ToSet
<1>5. ToSet(a) \subseteq ToSet(c)
  <2>1. \A i \in 1 .. Len(a) : i \in 1 .. Len(a) + Len(b)
    BY <1>1
  <2> QED BY <1>1, <2>1 DEF ToSet
<1>6. ToSet(b) \subseteq ToSet(c)
  <2>1. \A i \in 1 .. Len(b) : Len(a) + i \in 1 .. Len(a) + Len(b)
    BY <1>1
  <2> QED BY <1>1, <2>1 DEF ToSet
<1> QED BY <1>4, <1>5, <1>6 DEF c

\* What is in sequences in a row is in one of them.
LEMMA FlattenHoldsEach ==
  ASSUME NEW S, NEW s \in Seq(Seq(S))
  PROVE  ToSet(FlattenSeq(s)) = UNION { ToSet(s[i]) : i \in DOMAIN s }
<1> DEFINE Flat(n) == FlattenSeq([i \in 1 .. n |-> s[i]])
           Held(n) == UNION { ToSet(s[i]) : i \in 1 .. n }
<1>0. Len(s) \in Nat /\ DOMAIN s = 1 .. Len(s) /\ \A i \in 1 .. Len(s) : s[i] \in Seq(S)
  OBVIOUS
<1>1. ToSet(Flat(0)) = Held(0)
  <2>1. [i \in 1 .. 0 |-> s[i]] = << >>
    OBVIOUS
  <2>2. ToSet(<< >>) = {}
    BY DEF ToSet
  <2>3. Held(0) = {}
    OBVIOUS
  <2> QED BY <2>1, <2>2, <2>3, FlattenEmpty
<1>2. ASSUME NEW n \in Nat, n + 1 =< Len(s), ToSet(Flat(n)) = Held(n)
      PROVE  ToSet(Flat(n + 1)) = Held(n + 1)
  <2>2. \A i \in 1 .. n + 1 : s[i] \in Seq(S)
    BY <1>0, <1>2
  <2>3. Flat(n + 1) = Flat(n) \o s[n + 1]
    BY <2>2, FlattenNext, Zenon
  <2>4. Flat(n) \in Seq(S)
    <3>1. [i \in 1 .. n |-> s[i]] \in Seq(Seq(S))
      BY <2>2
    <3> QED BY <3>1, FlattenType, Zenon
  <2>5. s[n + 1] \in Seq(S)
    BY <2>2
  <2>6. ToSet(Flat(n) \o s[n + 1]) = ToSet(Flat(n)) \cup ToSet(s[n + 1])
    <3> HIDE DEF Flat
    <3> QED BY <2>4, <2>5, ConcatHoldsBoth
  <2>7. Held(n + 1) = Held(n) \cup ToSet(s[n + 1])
    <3>1. 1 .. n + 1 = 1 .. n \cup {n + 1}
      OBVIOUS
    <3> QED BY <3>1, Zenon
  <2> HIDE DEF Flat, Held
  <2> QED BY <1>2, <2>3, <2>6, <2>7, Zenon
<1>3. [i \in 1 .. Len(s) |-> s[i]] = s
  OBVIOUS
<1>4. Flat(Len(s)) = FlattenSeq(s) /\ Held(Len(s)) = UNION { ToSet(s[i]) : i \in DOMAIN s }
  BY <1>0, <1>3, Zenon
<1> DEFINE Good == { n \in Nat : n =< Len(s) => ToSet(Flat(n)) = Held(n) }
<1> HIDE DEF Flat, Held
<1>5. 0 \in Good
  BY <1>1
<1>6. ASSUME NEW n \in Nat, n \in Good PROVE n + 1 \in Good
  BY <1>0, <1>2, <1>6
<1>7. Len(s) \in Good
  <2> HIDE DEF Good
  <2> QED BY <1>0, <1>5, <1>6, CountingUp, Zenon
<1> QED BY <1>0, <1>4, <1>7

\* What of a sequence is in a set.
LEMMA FlattenSelects ==
  ASSUME NEW S, NEW s \in Seq(S), NEW T
  PROVE  ToSet(FlattenSeq([ i \in DOMAIN s |-> IF s[i] \in T THEN <<s[i]>> ELSE << >> ]))
           = ToSet(s) \cap T
<1> DEFINE picked == [ i \in DOMAIN s |-> IF s[i] \in T THEN <<s[i]>> ELSE << >> ]
<1>1. DOMAIN picked = DOMAIN s
  OBVIOUS
<1>2. ASSUME NEW i \in DOMAIN s
      PROVE  picked[i] \in Seq(S) /\ ToSet(picked[i]) = {s[i]} \cap T
  <2>1. s[i] \in S
    OBVIOUS
  <2>2. ToSet(<<s[i]>>) = {s[i]} /\ ToSet(<< >>) = {}
    BY DEF ToSet
  <2> QED BY <2>1, <2>2
<1>3. picked \in Seq(Seq(S))
  <2>1. picked \in [1 .. Len(s) -> Seq(S)] /\ Len(s) \in Nat
    BY <1>2
  <2> HIDE DEF picked
  <2> QED BY <2>1
<1> HIDE DEF picked
<1>4. ToSet(FlattenSeq(picked)) = UNION { ToSet(picked[i]) : i \in DOMAIN picked }
  BY <1>3, FlattenHoldsEach
<1>5. UNION { ToSet(picked[i]) : i \in DOMAIN picked } = ToSet(s) \cap T
  BY <1>1, <1>2 DEF ToSet
<1> QED BY <1>4, <1>5 DEF picked

\* Of sequences that are not empty, a row is not.
LEMMA FlattenIsNotEmpty ==
  ASSUME NEW S, NEW s \in Seq(Seq(S)), s # << >>, \A i \in DOMAIN s : s[i] # << >>
  PROVE  FlattenSeq(s) # << >>
<1>1. ToSet(FlattenSeq(s)) = UNION { ToSet(s[i]) : i \in DOMAIN s }
  BY FlattenHoldsEach
<1>2. 1 \in DOMAIN s /\ s[1] \in Seq(S) /\ s[1] # << >>
  OBVIOUS
<1>3. s[1][1] \in ToSet(s[1])
  BY <1>2 DEF ToSet
<1>4. ToSet(<< >>) = {}
  BY DEF ToSet
<1> QED BY <1>1, <1>2, <1>3, <1>4, Zenon

-----------------------------------------------------------------------------
(* What the crawl is about.                                                *)

\* A disk the crawl may be of, and what it is asked to read.
Asked == disk \in Disks /\ request \in Requests

\* What a file imports, and where the project starts.
LEMMA ReachedByImport ==
  ASSUME Asked
  PROVE  /\ IsFiniteSet(DOMAIN disk)
         /\ \A path : Imported(path) \subseteq DOMAIN disk
         /\ request.kind = "Script" =>
              /\ ToSet(ArtifactRoots) \ {NoRoot} \subseteq DOMAIN disk
              /\ IsFiniteSet(ToSet(ArtifactRoots) \ {NoRoot})
<1>1. IsFiniteSet(DOMAIN disk)
  BY DisksAssumption DEF Asked
<1>2. \A path : Imported(path) \subseteq DOMAIN disk
  BY DEF Imported, Resolved, IsFile
<1>3. ToSet(ArtifactRoots) \ {NoRoot} \subseteq DOMAIN disk
  BY Zenon DEF ArtifactRoots, ToSet, IsFile
<1>4. IsFiniteSet(ToSet(ArtifactRoots) \ {NoRoot})
  <2> DEFINE R == ToSet(ArtifactRoots) \ {NoRoot}
  <2>1. R \in SUBSET DOMAIN disk
    BY <1>3
  <2> HIDE DEF R
  <2> QED BY <1>1, <2>1, FS_Subset DEF R
<1> QED BY <1>1, <1>2, <1>3, <1>4

\* What can be reached is where it starts, what that imports, and nothing else.
LEMMA ReachableIsLeast ==
  ASSUME Asked
  PROVE  /\ Reachable \subseteq DOMAIN disk
         /\ Starts \cap DOMAIN disk \subseteq Reachable
         /\ \A from \in Reachable : Imported(from) \subseteq Reachable
         /\ \A inside \in SUBSET DOMAIN disk :
              Starts \cap DOMAIN disk \subseteq inside
                /\ (\A from \in inside : Imported(from) \subseteq inside)
              => Reachable \subseteq inside
<1>1. \A path : Imported(path) \subseteq DOMAIN disk
  BY ReachedByImport
<1>2. Reachable \subseteq DOMAIN disk
  BY DEF Reachable
<1>3. Starts \cap DOMAIN disk \subseteq Reachable
  BY DEF Reachable
<1>4. ASSUME NEW from \in Reachable PROVE Imported(from) \subseteq Reachable
  <2>1. SUFFICES ASSUME NEW path \in Imported(from) PROVE path \in Reachable
    OBVIOUS
  <2>2. path \in DOMAIN disk
    BY <1>1
  <2>3. ASSUME NEW inside \in SUBSET DOMAIN disk,
               Starts \cap DOMAIN disk \subseteq inside,
               \A other \in inside : Imported(other) \subseteq inside
        PROVE  path \in inside
    <3>1. from \in inside
      BY <2>3 DEF Reachable
    <3> QED BY <2>1, <2>3, <3>1
  <2> QED BY <2>2, <2>3 DEF Reachable
<1>5. ASSUME NEW inside \in SUBSET DOMAIN disk,
             Starts \cap DOMAIN disk \subseteq inside,
             \A from \in inside : Imported(from) \subseteq inside
      PROVE  Reachable \subseteq inside
  BY <1>5 DEF Reachable
<1> QED BY <1>2, <1>3, <1>4, <1>5

\* What a file adds to what is pending.
LEMMA FollowedIsImported ==
  ASSUME Asked, NEW path \in DOMAIN disk
  PROVE  /\ Followed(path) \in Seq(DOMAIN disk)
         /\ ToSet(Followed(path)) = Imported(path) \ (visited \cup {path})
<1> DEFINE Seen == visited \cup {path}
           New(i) == Resolved(path, disk[path][i]) \ Seen
           s == [ i \in DOMAIN disk[path] |-> SetToSeq(New(i)) ]
<1>1. disk[path] \in Seq(Import)
  BY DisksAssumption DEF Asked
<1>2. ASSUME NEW i \in DOMAIN disk[path]
      PROVE  s[i] \in Seq(DOMAIN disk) /\ ToSet(s[i]) = New(i)
  <2>1. New(i) \in SUBSET DOMAIN disk
    BY DEF Resolved, IsFile
  <2>2. IsFiniteSet(New(i))
    <3>1. IsFiniteSet(DOMAIN disk)
      BY ReachedByImport
    <3> HIDE DEF New
    <3> QED BY <2>1, <3>1, FS_Subset
  <2>3. SetToSeq(New(i)) \in Seq(New(i)) /\ ToSet(SetToSeq(New(i))) = New(i)
    <3> HIDE DEF New
    <3> QED BY <2>2, SetAsSequence
  <2>4. Seq(New(i)) \subseteq Seq(DOMAIN disk)
    <3> HIDE DEF New
    <3> QED BY <2>1
  <2>5. s[i] = SetToSeq(New(i))
    OBVIOUS
  <2> HIDE DEF New, s
  <2> QED BY <2>3, <2>4, <2>5
<1>3. s \in Seq(Seq(DOMAIN disk))
  <2>1. DOMAIN disk[path] = 1 .. Len(disk[path]) /\ Len(disk[path]) \in Nat
    BY <1>1
  <2>2. s \in [1 .. Len(disk[path]) -> Seq(DOMAIN disk)]
    <3>1. DOMAIN s = 1 .. Len(disk[path]) /\ s = [ i \in 1 .. Len(disk[path]) |-> s[i] ]
      BY <2>1
    <3> HIDE DEF s
    <3> QED BY <1>2, <2>1, <3>1
  <2> HIDE DEF s
  <2> QED BY <2>1, <2>2
<1>4. DOMAIN s = DOMAIN disk[path]
  OBVIOUS
<1>5. Followed(path) = FlattenSeq(s)
  BY DEF Followed
<1>6. UNION { New(i) : i \in DOMAIN disk[path] } = Imported(path) \ Seen
  BY DEF Imported, ToSet
<1> HIDE DEF s, New, Seen
<1>7. FlattenSeq(s) \in Seq(DOMAIN disk)
  BY <1>3, FlattenType
<1>8. ToSet(FlattenSeq(s)) = UNION { ToSet(s[i]) : i \in DOMAIN s }
  BY <1>3, FlattenHoldsEach
<1>9. UNION { ToSet(s[i]) : i \in DOMAIN s } = UNION { New(i) : i \in DOMAIN disk[path] }
  BY <1>2, <1>4
<1> QED BY <1>5, <1>6, <1>7, <1>8, <1>9 DEF Seen

\* The artifacts' roots in order.
LEMMA RootsAreEach ==
  ASSUME Asked, request.kind = "Script"
  PROVE  Roots \in Seq(DOMAIN disk) /\ ToSet(Roots) = ToSet(ArtifactRoots) \ {NoRoot}
<1> DEFINE S == ToSet(ArtifactRoots) \ {NoRoot}
           R == { pair \in S \X S : Precedes(pair[1], pair[2]) }
<1>1. S \subseteq DOMAIN disk /\ IsFiniteSet(S)
  BY ReachedByImport
<1>2. \A x, y \in S : <<x, y>> \in R <=> Precedes(x, y)
  OBVIOUS
<1>3. Roots = [ i \in 1 .. Cardinality(S) |->
                  CHOOSE path \in S :
                    Cardinality({ other \in S : Precedes(other, path) }) = i - 1 ]
  BY DEF Roots, Sorted
<1> HIDE DEF S, R
<1>4. IsOrder(S, R)
  BY <1>1, <1>2, PrecedesAssumption, Zenon DEF IsOrder, Asked
<1>5. \A path \in S : { other \in S : Precedes(other, path) } = Earlier(S, R, path)
  BY <1>2 DEF Earlier
<1>6. Roots = Ranked(S, R)
  <2> DEFINE f(i) == CHOOSE path \in S :
                       Cardinality({ other \in S : Precedes(other, path) }) = i - 1
             g(i) == CHOOSE path \in S : Cardinality(Earlier(S, R, path)) = i - 1
  <2>1. ASSUME NEW i PROVE f(i) = g(i)
    <3>1. \A path : (path \in S /\ Cardinality({ other \in S : Precedes(other, path) }) = i - 1)
                      <=> (path \in S /\ Cardinality(Earlier(S, R, path)) = i - 1)
      BY <1>5, Zenon
    <3> QED BY <3>1
  <2>2. Roots = [ i \in 1 .. Cardinality(S) |-> f(i) ]
    BY <1>3
  <2>3. Ranked(S, R) = [ i \in 1 .. Cardinality(S) |-> g(i) ]
    BY DEF Ranked
  <2> HIDE DEF f, g
  <2> QED BY <2>1, <2>2, <2>3
<1>7. /\ Ranked(S, R) \in [1 .. Cardinality(S) -> S]
      /\ Cardinality(S) \in Nat
      /\ ToSet(Ranked(S, R)) = S
  BY <1>1, <1>4, RankedHoldsEach
<1>8. Roots \in Seq(DOMAIN disk)
  <2>1. Roots \in [1 .. Cardinality(S) -> DOMAIN disk]
    BY <1>1, <1>6, <1>7
  <2> QED BY <1>7, <2>1
<1> QED BY <1>6, <1>7, <1>8, Zenon DEF S

\* What was said of the disk and of the request is so as long as they are.
LEMMA DiskStays ==
  ASSUME disk' = disk, request' = request
  PROVE  /\ ArtifactRoots' = ArtifactRoots
         /\ Starts' = Starts
         /\ Reachable' = Reachable
         /\ Asked' <=> Asked
         /\ \A path : Imported(path)' = Imported(path)
         /\ \A path, import : Resolved(path, import)' = Resolved(path, import)
<1>1. /\ ArtifactRoots' = ArtifactRoots
      /\ \A path, import : Resolved(path, import)' = Resolved(path, import)
  BY DEF ArtifactRoots, IsFile, Resolved
<1>2. Starts' = Starts
  BY <1>1 DEF Starts
<1>3. \A path : Imported(path)' = Imported(path)
  BY <1>1 DEF Imported
<1>4. Reachable' = Reachable
  BY <1>2, <1>3 DEF Reachable
<1>5. Asked' <=> Asked
  BY DEF Asked
<1> QED BY <1>1, <1>2, <1>3, <1>4, <1>5

LEMMA OrderStays ==
  ASSUME disk' = disk, request' = request, found' = found
  PROVE  Ordered' = Ordered /\ CommonDirectory' = CommonDirectory
<1>1. Ordered' = Ordered
  BY DEF Ordered, Sorted, RootFirst, IsRoot, ToSet
<1>2. CommonDirectory' = CommonDirectory
  BY DEF CommonDirectory, ToSet
<1> QED BY <1>1, <1>2

-----------------------------------------------------------------------------
(* The modules of the files that were found.                               *)

\* Some files, each of them once.
FilesFound == ToSet(found)
FoundOnce == found \in Seq(DOMAIN disk) /\ found # << >> /\ IsInjective(found)

LEMMA FilesAreOnDisk ==
  ASSUME Asked, FoundOnce
  PROVE  /\ FilesFound \subseteq DOMAIN disk /\ IsFiniteSet(FilesFound)
         /\ Head(found) \in FilesFound
         /\ \A path \in FilesFound : /\ path \in Seq(Component) /\ path # << >>
                                /\ Len(path) \in Nat \ {0}
                                /\ disk[path] \in Seq(Import)
<1>1. FilesFound \subseteq DOMAIN disk
  BY DEF FilesFound, FoundOnce, ToSet
<1>2. FilesFound \in SUBSET DOMAIN disk /\ IsFiniteSet(DOMAIN disk)
  BY <1>1, ReachedByImport
<1>3. IsFiniteSet(FilesFound)
  BY <1>2, FS_Subset
<1>4. Head(found) \in FilesFound
  <2>1. 1 \in DOMAIN found /\ Head(found) = found[1]
    BY DEF FoundOnce
  <2> QED BY <2>1 DEF FilesFound, ToSet
<1>5. ASSUME NEW path \in FilesFound
      PROVE  /\ path \in Seq(Component) /\ path # << >>
             /\ disk[path] \in Seq(Import)
  BY <1>1, <1>5, DisksAssumption DEF Asked, Path
<1>6. \A path \in FilesFound : Len(path) \in Nat \ {0}
  BY <1>5
<1> QED BY <1>1, <1>3, <1>4, <1>5, <1>6

\* They are ordered, the root before the others.
LEMMA OrderedHoldsEach ==
  ASSUME Asked, FoundOnce
  PROVE  /\ \E n \in Nat : Ordered \in [1 .. n -> FilesFound]
         /\ ToSet(Ordered) = FilesFound
         /\ \A i, j \in DOMAIN Ordered : Ordered[i] = Ordered[j] => i = j
         /\ \A path \in FilesFound : IsRoot(path) => 1 \in DOMAIN Ordered /\ Ordered[1] = path
<1> DEFINE S == FilesFound
           R == { pair \in S \X S : RootFirst(pair[1], pair[2]) }
           n == Cardinality(S)
<1>1. S \subseteq DOMAIN disk /\ IsFiniteSet(S)
  BY FilesAreOnDisk
<1>2. \A x, y \in S : <<x, y>> \in R <=> RootFirst(x, y)
  OBVIOUS
<1>3. Ordered = [ i \in 1 .. Cardinality(S) |->
                  CHOOSE path \in S :
                    Cardinality({ other \in S : RootFirst(other, path) }) = i - 1 ]
  BY DEF Ordered, Sorted, FilesFound
<1> HIDE DEF S, R
<1>4. /\ \A x, y \in S : IsRoot(x) /\ IsRoot(y) => x = y
      /\ \A x : IsRoot(x) \in BOOLEAN
  BY DEF IsRoot
<1>5. /\ \A x \in S : ~ Precedes(x, x)
      /\ \A x, y \in S : x # y => Precedes(x, y) \/ Precedes(y, x)
      /\ \A x, y, z \in S : Precedes(x, y) /\ Precedes(y, z) => Precedes(x, z)
  BY <1>1, PrecedesAssumption DEF Asked
<1>6. ASSUME NEW x \in S, NEW y \in S, NEW z \in S
      PROVE  /\ ~ RootFirst(x, x)
             /\ x # y => RootFirst(x, y) \/ RootFirst(y, x)
             /\ RootFirst(x, y) /\ RootFirst(y, z) => RootFirst(x, z)
             /\ IsRoot(x) => ~ RootFirst(y, x)
  BY <1>4, <1>5 DEF RootFirst
<1>7. IsOrder(S, R)
  <2>1. ASSUME NEW x \in S, NEW y \in S
        PROVE  /\ <<x, x>> \notin R
               /\ x # y => <<x, y>> \in R \/ <<y, x>> \in R
               /\ \A z \in S : <<x, y>> \in R /\ <<y, z>> \in R => <<x, z>> \in R
    BY <1>2, <1>6
  <2> QED BY <2>1, Zenon DEF IsOrder
<1>8. \A path \in S : { other \in S : RootFirst(other, path) } = Earlier(S, R, path)
  BY <1>2 DEF Earlier
<1>9. Ordered = Ranked(S, R)
  <2> DEFINE f(i) == CHOOSE path \in S :
                       Cardinality({ other \in S : RootFirst(other, path) }) = i - 1
             g(i) == CHOOSE path \in S : Cardinality(Earlier(S, R, path)) = i - 1
  <2>1. ASSUME NEW i PROVE f(i) = g(i)
    <3>1. \A path : (path \in S /\ Cardinality({ other \in S : RootFirst(other, path) }) = i - 1)
                      <=> (path \in S /\ Cardinality(Earlier(S, R, path)) = i - 1)
      BY <1>8
    <3> QED BY <3>1
  <2>2. Ordered = [ i \in 1 .. Cardinality(S) |-> f(i) ]
    BY <1>3
  <2>3. Ranked(S, R) = [ i \in 1 .. Cardinality(S) |-> g(i) ]
    BY DEF Ranked
  <2> HIDE DEF f, g
  <2> QED BY <2>1, <2>2, <2>3
<1>10. /\ Ranked(S, R) \in [1 .. n -> S]
       /\ n \in Nat
       /\ ToSet(Ranked(S, R)) = S
       /\ \A i, j \in 1 .. n : Ranked(S, R)[i] = Ranked(S, R)[j] => i = j
       /\ \A first \in S : (\A x \in S : <<x, first>> \notin R) => Ranked(S, R)[1] = first
  BY <1>1, <1>7, RankedHoldsEach
<1> HIDE DEF n
<1>11. ASSUME NEW path \in S, IsRoot(path)
       PROVE  1 \in DOMAIN Ordered /\ Ordered[1] = path
  <2>1. \A x \in S : <<x, path>> \notin R
    BY <1>2, <1>6, <1>11
  <2>2. Ordered[1] = path
    BY <1>9, <1>10, <2>1
  <2>3. path \in ToSet(Ordered)
    BY <1>9, <1>10
  <2>4. DOMAIN Ordered = 1 .. n
    BY <1>9, <1>10
  <2>5. DOMAIN Ordered # {}
    BY <2>3 DEF ToSet
  <2> QED BY <1>10, <2>2, <2>4, <2>5
<1> QED BY <1>9, <1>10, <1>11 DEF S

\* The directory they share is above each of them.
LEMMA DirectoryIsAbove ==
  ASSUME Asked, FoundOnce
  PROVE  Len(CommonDirectory) \in Nat /\ \A path \in FilesFound : Len(CommonDirectory) < Len(path)
<1> DEFINE Begin(path, m) == SubSeq(path, 1, m)
           head == Head(found)
           shared == { n \in 0 .. Len(head) :
                         \A path \in FilesFound : n < Len(path) /\ Begin(path, n) = Begin(head, n) }
<1>1. /\ head \in FilesFound /\ head \in Seq(Component) /\ Len(head) \in Nat
      /\ \A path \in FilesFound : path \in Seq(Component) /\ Len(path) \in Nat \ {0}
  BY FilesAreOnDisk
<1>2. 0 \in shared
  <2>1. \A path \in FilesFound : Begin(path, 0) = << >>
    BY <1>1
  <2>2. 0 \in 0 .. Len(head)
    BY <1>1
  <2> HIDE DEF Begin, head
  <2> QED BY <1>1, <2>1, <2>2
<1>3. Max(shared) \in shared
  <2> DEFINE back == { Len(head) - n : n \in shared }
  <2>1. back \in SUBSET Nat /\ back # {}
    <3>1. \A n \in shared : Len(head) - n \in Nat
      BY <1>1
    <3> HIDE DEF shared
    <3> QED BY <1>2, <3>1
  <2>2. PICK m \in back : \A k \in back : m =< k
    <3> HIDE DEF back
    <3> QED BY <2>1, LeastNatural
  <2>3. PICK most \in shared : m = Len(head) - most
    BY Zenon
  <2>4. shared \subseteq 0 .. Len(head)
    OBVIOUS
  <2>5. \A n \in shared : most >= n
    <3> SUFFICES ASSUME NEW n \in shared PROVE most >= n
      OBVIOUS
    <3>1. m =< Len(head) - n
      BY <2>2
    <3> HIDE DEF shared, head
    <3> QED BY <1>1, <2>3, <2>4, <3>1
  <2>6. \E x \in shared : \A y \in shared : x >= y
    BY <2>5
  <2> HIDE DEF shared
  <2> QED BY <2>6 DEF Max
<1>4. CommonDirectory = Begin(head, Max(shared))
  BY DEF CommonDirectory, FilesFound
<1>5. Max(shared) \in 0 .. Len(head) /\ \A path \in FilesFound : Max(shared) < Len(path)
  BY <1>3
<1>6. Len(Begin(head, Max(shared))) = Max(shared)
  <2> DEFINE k == Max(shared)
  <2>1. k \in 0 .. Len(head)
    BY <1>5
  <2> HIDE DEF k, head
  <2>2. Len(SubSeq(head, 1, k)) = k
    BY <1>1, <2>1
  <2> QED BY <2>2, Zenon DEF k
<1> HIDE DEF Begin, shared, head
<1> QED BY <1>1, <1>4, <1>5, <1>6

\* Only the root is given the name of the top level.
LEMMA NamesAreOfRoot ==
  ASSUME Asked, FoundOnce, NEW path \in FilesFound
  PROVE  NameOf(CommonDirectory, path) = << >> <=> IsRoot(path)
<1> DEFINE m == Len(CommonDirectory)
           below == SubSeq(path, m + 1, Len(path))
<1>1. m \in Nat /\ m < Len(path) /\ path \in Seq(Component) /\ Len(path) \in Nat
  BY DirectoryIsAbove, FilesAreOnDisk
<1> HIDE DEF m
<1>2. /\ below \in Seq(Component) /\ below # << >>
      /\ \A i \in DOMAIN below : below[i] \in Component
  <2>1. m + 1 \in 1 .. Len(path)
    BY <1>1
  <2>2. below \in Seq(Component) /\ Len(below) = Len(path) - m
    BY <1>1, <2>1
  <2>3. Len(below) # 0
    BY <1>1, <2>2
  <2> HIDE DEF below
  <2> QED BY <2>2, <2>3
<1> HIDE DEF below
<1>3. \A c \in Component : c \in Seq(STRING) /\ c # << >>
  BY Zenon DEF Component
<1>4. Seq(Component) \subseteq Seq(Seq(STRING))
  BY <1>3
<1>5. FlattenSeq(below) # << >>
  BY <1>2, <1>3, <1>4, FlattenIsNotEmpty
<1>6. ModuleName(CommonDirectory, path) = FlattenSeq(below)
  BY DEF ModuleName, Below, below, m
<1> QED BY <1>5, <1>6 DEF NameOf

\* What of a file's imports there is no module for.
LEMMA UnresolvedAreMissing ==
  ASSUME Asked, FoundOnce, NEW path \in FilesFound, Imported(path) \subseteq FilesFound, NEW base
  PROVE  ToSet(ModuleOf(base, path).unresolved) =
           { import \in ToSet(disk[path]) :
               import.kind # "Compiler" /\ Resolved(path, import) = {} }
<1> DEFINE s == disk[path]
           T == { import \in ToSet(s) : import.kind # "Compiler" /\ Reached(path, import) = {} }
           picked == [ i \in DOMAIN s |-> IF s[i] \in T THEN <<s[i]>> ELSE << >> ]
<1>1. s \in Seq(Import)
  BY FilesAreOnDisk
<1>2. \A i \in DOMAIN s :
        s[i] \in T <=> s[i].kind # "Compiler" /\ Reached(path, s[i]) = {}
  BY DEF ToSet
<1>3. ModuleOf(base, path).unresolved =
        FlattenSeq([ i \in DOMAIN s |->
                       IF s[i].kind # "Compiler" /\ Reached(path, s[i]) = {}
                       THEN <<s[i]>> ELSE << >> ])
  BY DEF ModuleOf, Imports
<1> HIDE DEF T
<1>4. [ i \in DOMAIN s |-> IF s[i].kind # "Compiler" /\ Reached(path, s[i]) = {}
                           THEN <<s[i]>> ELSE << >> ] = picked
  BY <1>2, Zenon
<1>5. ToSet(FlattenSeq(picked)) = ToSet(s) \cap T
  <2> HIDE DEF s
  <2> QED BY <1>1, FlattenSelects
<1>6. ASSUME NEW import \in ToSet(s)
      PROVE  Reached(path, import) = Resolved(path, import)
  <2>1. Resolved(path, import) \subseteq Imported(path)
    BY DEF Imported
  <2> QED BY <2>1 DEF Reached, FilesFound
<1> HIDE DEF picked
<1> QED BY <1>3, <1>4, <1>5, <1>6, Zenon DEF T

-----------------------------------------------------------------------------
(* What is returned.                                                       *)

\* The imports of a file that no file on the disk could be.
Absent ==
  [ path \in DOMAIN disk |->
      { import \in ToSet(disk[path]) :
          import.kind # "Compiler" /\ Resolved(path, import) = {} } ]

\* What WholeProject says of a project that is read.
Whole ==
  /\ ToSet(found) = Reachable
  /\ \A i \in DOMAIN project.modules :
       project.modules[i].name = << >> <=> i = 1
  /\ \A i \in DOMAIN project.artifacts :
       ArtifactRoots[i] # NoRoot =>
         \E module \in ModulesOf :
           /\ project.artifacts[i] = {module.name}
           /\ module.path = Below(CommonDirectory, ArtifactRoots[i])
  /\ \A i \in DOMAIN Ordered :
       LET module == project.modules[Len(project.modules) - Len(Ordered) + i]
       IN  ToSet(module.unresolved) = Absent[Ordered[i]]

\* One more before a sequence.
LEMMA OneBefore ==
  ASSUME NEW x, NEW n \in Nat, NEW s, DOMAIN s = 1 .. n, s = [ i \in 1 .. n |-> s[i] ]
  PROVE  /\ Len(<<x>> \o s) = 1 + n
         /\ DOMAIN (<<x>> \o s) = 1 .. 1 + n
         /\ (<<x>> \o s)[1] = x
         /\ \A i \in 1 .. n : (<<x>> \o s)[1 + i] = s[i]
<1> DEFINE S == { s[i] : i \in 1 .. n } \cup {x}
<1>1. s \in [1 .. n -> S]
  <2> DEFINE t == [ i \in 1 .. n |-> s[i] ]
  <2>1. t \in [1 .. n -> S]
    OBVIOUS
  <2>2. s = t
    OBVIOUS
  <2> HIDE DEF t, S
  <2> QED BY <2>1, <2>2
<1>2. x \in S
  OBVIOUS
<1> HIDE DEF S
<1>3. s \in Seq(S) /\ Len(s) = n /\ <<x>> \in Seq(S) /\ Len(<<x>>) = 1
  BY <1>1, <1>2
<1>4. /\ <<x>> \o s \in Seq(S)
      /\ Len(<<x>> \o s) = 1 + n
      /\ \A i \in 1 .. 1 + n : (<<x>> \o s)[i] = IF i =< 1 THEN <<x>>[i] ELSE s[i - 1]
  BY <1>3, ConcatProperties
<1>5. DOMAIN (<<x>> \o s) = 1 .. 1 + n
  BY <1>4
<1>6. (<<x>> \o s)[1] = x
  <2>1. 1 \in 1 .. 1 + n /\ <<x>>[1] = x
    OBVIOUS
  <2> QED BY <1>4, <2>1
<1>7. ASSUME NEW i \in 1 .. n PROVE (<<x>> \o s)[1 + i] = s[i]
  <2>1. 1 + i \in 1 .. 1 + n /\ ~ (1 + i =< 1) /\ (1 + i) - 1 = i
    OBVIOUS
  <2> QED BY <1>4, <2>1
<1> QED BY <1>4, <1>5, <1>6, <1>7

\* The project is assembled of what was found, all of which is there.
LEMMA AssembledIsWhole ==
  ASSUME Asked, FoundOnce, Assemble,
         FilesFound = Reachable,
         \A path \in FilesFound : Imported(path) \subseteq FilesFound,
         Starts \subseteq FilesFound
  PROVE  Whole'
<1> DEFINE base == CommonDirectory
           n == Len(Ordered)
           made == [ i \in DOMAIN Ordered |-> ModuleOf(base, Ordered[i]) ]
           Bare == request.kind = "File"
           roots == ArtifactRoots
           artifacts == [ i \in DOMAIN roots |->
                            IF roots[i] \in ToSet(found) THEN {NameOf(base, roots[i])} ELSE {} ]
<1>1. /\ disk' = disk /\ request' = request /\ found' = found
      /\ project' = IF Bare THEN Project(made, << >>)
                    ELSE Project(<<EmptyModule>> \o made, artifacts)
  BY DEF Assemble
<1>2. /\ ArtifactRoots' = roots /\ Reachable' = Reachable
      /\ \A path, import : Resolved(path, import)' = Resolved(path, import)
      /\ Ordered' = Ordered /\ CommonDirectory' = base
  BY <1>1, DiskStays, OrderStays
<1>3. /\ n \in Nat /\ DOMAIN Ordered = 1 .. n /\ Ordered \in [1 .. n -> FilesFound]
      /\ ToSet(Ordered) = FilesFound
      /\ \A i, j \in 1 .. n : Ordered[i] = Ordered[j] => i = j
      /\ \A path \in FilesFound : IsRoot(path) => 1 \in 1 .. n /\ Ordered[1] = path
  <2>1. PICK m \in Nat : Ordered \in [1 .. m -> FilesFound]
    BY OrderedHoldsEach
  <2>2. DOMAIN Ordered = 1 .. m /\ n = m
    BY <2>1
  <2> HIDE DEF n
  <2> QED BY <2>1, <2>2, OrderedHoldsEach
<1>4. \A path \in FilesFound : NameOf(base, path) = << >> <=> IsRoot(path)
  BY NamesAreOfRoot
<1>5. \A path \in FilesFound :
        ToSet(ModuleOf(base, path).unresolved) = Absent[path]
  BY UnresolvedAreMissing, FilesAreOnDisk, Zenon DEF Absent
<1>6. \A path : /\ ModuleOf(base, path).name = NameOf(base, path)
                /\ ModuleOf(base, path).path = Below(base, path)
  BY DEF ModuleOf
<1>7. /\ DOMAIN made = 1 .. n /\ made = [ i \in 1 .. n |-> made[i] ]
      /\ \A i \in 1 .. n : made[i] = ModuleOf(base, Ordered[i])
  BY <1>3
<1>8. /\ EmptyModule.name = << >>
      /\ \A m, a : Project(m, a).modules = m /\ Project(m, a).artifacts = a
  BY DEF EmptyModule, Project
<1>9. \A i \in 1 .. n : Ordered[i] \in FilesFound
  BY <1>3
<1>10. Bare => \A i \in 1 .. n : IsRoot(Ordered[i]) <=> i = 1
  <2> SUFFICES ASSUME Bare, NEW i \in 1 .. n PROVE IsRoot(Ordered[i]) <=> i = 1
    OBVIOUS
  <2>1. request.path \in FilesFound /\ IsRoot(request.path)
    BY DEF Starts, IsRoot
  <2>2. 1 \in 1 .. n /\ Ordered[1] = request.path
    BY <1>3, <2>1
  <2>3. IsRoot(Ordered[i]) <=> Ordered[i] = request.path
    BY DEF IsRoot
  <2> QED BY <1>3, <2>2, <2>3
<1>11. ~ Bare => \A path : ~ IsRoot(path)
  BY DEF IsRoot
<1>12. ~ Bare => request.kind = "Script"
  BY RequestsAssumption DEF Asked, Request
<1>13. ~ Bare => \A i \in DOMAIN roots : roots[i] # NoRoot => roots[i] \in FilesFound
  <2> SUFFICES ASSUME ~ Bare, NEW i \in DOMAIN roots, roots[i] # NoRoot
               PROVE  roots[i] \in FilesFound
    OBVIOUS
  <2>1. roots[i] \in ToSet(ArtifactRoots) \ {NoRoot}
    BY DEF ToSet
  <2> QED BY <1>12, <2>1 DEF Starts
<1> HIDE DEF base, n, made, Bare, roots
<1>14. project'.modules = IF Bare THEN made ELSE <<EmptyModule>> \o made
  BY <1>1, <1>8
<1>15. project'.artifacts = IF Bare THEN << >> ELSE artifacts
  BY <1>1, <1>8
<1> DEFINE modules == project'.modules
           k == IF Bare THEN 0 ELSE 1
<1>16. /\ Len(modules) = k + n /\ DOMAIN modules = 1 .. k + n
       /\ \A i \in 1 .. n : modules[k + i] = ModuleOf(base, Ordered[i])
       /\ k = 1 => modules[1] = EmptyModule
  <2>1. CASE Bare
    <3>1. modules = made /\ k = 0 /\ Len(made) = n
      BY <1>3, <1>7, <1>14, <2>1
    <3>2. \A i \in 1 .. n : 0 + i = i
      BY <1>3
    <3> HIDE DEF modules, k
    <3> QED BY <1>3, <1>7, <3>1, <3>2
  <2>2. CASE ~ Bare
    <3>1. modules = <<EmptyModule>> \o made /\ k = 1
      BY <1>14, <2>2
    <3>2. /\ Len(<<EmptyModule>> \o made) = 1 + n
          /\ DOMAIN (<<EmptyModule>> \o made) = 1 .. 1 + n
          /\ (<<EmptyModule>> \o made)[1] = EmptyModule
          /\ \A i \in 1 .. n : (<<EmptyModule>> \o made)[1 + i] = made[i]
      <4>1. n \in Nat /\ DOMAIN made = 1 .. n /\ made = [ i \in 1 .. n |-> made[i] ]
        BY <1>3, <1>7
      <4> QED BY <4>1, OneBefore
    <3> HIDE DEF modules, k
    <3> QED BY <1>7, <3>1, <3>2, Zenon
  <2> HIDE DEF modules, k
  <2> QED BY <2>1, <2>2
<1>17. k \in {0, 1} /\ (k = 0 <=> Bare)
  OBVIOUS
<1> HIDE DEF modules, k
<1>18. ASSUME NEW i \in DOMAIN modules PROVE modules[i].name = << >> <=> i = 1
  <2>1. CASE i =< k
    <3>1. i = 1 /\ k = 1
      BY <1>16, <1>17, <2>1
    <3> QED BY <1>8, <1>16, <3>1
  <2>2. CASE ~ (i =< k)
    <3>1. PICK j \in 1 .. n : i = k + j
      <4>1. i - k \in 1 .. n /\ i = k + (i - k)
        BY <1>3, <1>16, <1>17, <2>2
      <4> QED BY <4>1
    <3>2. modules[i].name = NameOf(base, Ordered[j])
      BY <1>6, <1>16, <3>1
    <3>3. modules[i].name = << >> <=> IsRoot(Ordered[j])
      BY <1>4, <1>9, <3>2
    <3>4. IsRoot(Ordered[j]) <=> (k = 0 /\ j = 1)
      BY <1>10, <1>11, <1>17
    <3>5. i = 1 <=> (k = 0 /\ j = 1)
      BY <1>3, <1>17, <3>1
    <3> QED BY <3>3, <3>4, <3>5
  <2> QED BY <2>1, <2>2
<1>19. ASSUME NEW i \in DOMAIN project'.artifacts, roots[i] # NoRoot
       PROVE  \E m \in DOMAIN modules : /\ project'.artifacts[i] = {modules[m].name}
                                        /\ modules[m].path = Below(base, roots[i])
  <2>1. ~ Bare
    <3>1. DOMAIN << >> = {}
      OBVIOUS
    <3> QED BY <1>15, <3>1
  <2>2. i \in DOMAIN roots /\ project'.artifacts[i] =
          IF roots[i] \in ToSet(found) THEN {NameOf(base, roots[i])} ELSE {}
    BY <1>15, <2>1
  <2>3. roots[i] \in FilesFound
    BY <1>13, <1>19, <2>1, <2>2
  <2>4. project'.artifacts[i] = {NameOf(base, roots[i])}
    BY <2>2, <2>3 DEF FilesFound
  <2>5. PICK j \in 1 .. n : Ordered[j] = roots[i]
    BY <1>3, <2>3 DEF ToSet
  <2>6. k + j \in DOMAIN modules
    BY <1>3, <1>16, <1>17
  <2>7. modules[k + j] = ModuleOf(base, roots[i])
    BY <1>16, <2>5
  <2> QED BY <1>6, <2>4, <2>6, <2>7
<1>20. ASSUME NEW i \in 1 .. n
       PROVE  ToSet(modules[Len(modules) - n + i].unresolved) = Absent[Ordered[i]]
  <2>1. Len(modules) - n + i = k + i
    BY <1>3, <1>16, <1>17
  <2>2. modules[Len(modules) - n + i] = ModuleOf(base, Ordered[i])
    BY <1>16, <2>1
  <2> QED BY <1>5, <1>9, <2>2
<1>21. ToSet(found') = Reachable'
  BY <1>1, <1>2 DEF FilesFound
<1>22. \A i \in DOMAIN project'.artifacts :
         ArtifactRoots'[i] # NoRoot =>
           \E module \in ModulesOf' :
             /\ project'.artifacts[i] = {module.name}
             /\ module.path = Below(CommonDirectory', ArtifactRoots'[i])
  <2>1. ModulesOf' = { modules[m] : m \in DOMAIN modules }
    BY DEF ModulesOf, modules
  <2> QED BY <1>2, <1>19, <2>1
<1>23. \A i \in DOMAIN Ordered' :
         ToSet(project'.modules[Len(project'.modules) - Len(Ordered') + i].unresolved)
           = Absent'[Ordered'[i]]
  <2>1. Absent' = Absent
    BY <1>1, <1>2 DEF Absent
  <2>2. Len(Ordered') = n /\ DOMAIN Ordered' = 1 .. n
    BY <1>2, <1>3 DEF n
  <2> QED BY <1>2, <1>20, <2>1, <2>2 DEF modules
<1>24. \A i \in DOMAIN project'.modules : project'.modules[i].name = << >> <=> i = 1
  BY <1>18 DEF modules
<1> QED BY <1>21, <1>22, <1>23, <1>24 DEF Whole

-----------------------------------------------------------------------------
(* The crawl.                                                              *)

Waiting == ToSet(pending)

\* Of what is found or pending, all can be reached, nothing is found twice, and
\* what has been found imports nothing that is neither.
Crawls ==
  /\ Asked
  /\ pc \in {"start", "crawl", "assemble", "done"}
  /\ found \in Seq(DOMAIN disk) /\ IsInjective(found)
  /\ Len(found) =< MaximumModules
  /\ pending \in Seq(Starts \cup DOMAIN disk)
  /\ FilesFound \subseteq Reachable
  /\ Waiting \cap DOMAIN disk \subseteq Reachable
  /\ pc = "start" => found = << >> /\ pending = << >>
  /\ pc # "done" => project = Nothing /\ visited = FilesFound
  /\ pc \in {"crawl", "assemble"} =>
       /\ Starts # {}
       /\ Starts \subseteq FilesFound \cup Waiting
       /\ \A from \in FilesFound : Imported(from) \subseteq FilesFound \cup Waiting
  /\ pc = "assemble" => pending = << >>
  /\ project = Error("TooMany") => Cardinality(Reachable) >= MaximumModules
  /\ IsRead => Whole

CrawlInv ==
  \/ command = "read" /\ Crawls
  \/ command = "emit" /\ pc = "idle" /\ found = << >> /\ project = Nothing

\* What is returned is of one kind.
LEMMA ProjectKinds ==
  /\ \A reason : Error(reason) # Nothing /\ Error(reason).kind # "Project"
  /\ \A a, b : Error(a) = Error(b) => a = b
  /\ \A m, a, reason : Project(m, a) # Error(reason)
  /\ \A m, a : Project(m, a).kind = "Project"
  /\ Nothing.kind # "Project"
<1>1. ASSUME NEW a PROVE /\ Error(a).kind = "Error" /\ Error(a).reason = a
                         /\ Nothing.kind = "Nothing"
  BY DEF Error, Nothing
<1>2. ASSUME NEW m, NEW a PROVE Project(m, a).kind = "Project"
  BY DEF Project
<1> QED BY <1>1, <1>2

\* What is pushed and what is left when one is taken.
LEMMA TakeLast ==
  ASSUME NEW S, NEW s \in Seq(S), s # << >>
  PROVE  /\ Last(s) \in S
         /\ Front(s) \in Seq(S)
         /\ ToSet(s) = ToSet(Front(s)) \cup {Last(s)}
<1>1. Len(s) \in Nat \ {0} /\ DOMAIN s = 1 .. Len(s)
  OBVIOUS
<1>2. Last(s) = s[Len(s)] /\ Last(s) \in S
  BY <1>1 DEF Last
<1>3. /\ Front(s) \in Seq(S) /\ Len(Front(s)) = Len(s) - 1
      /\ \A i \in 1 .. Len(s) - 1 : Front(s)[i] = s[i]
  BY <1>1 DEF Front
<1>4. DOMAIN Front(s) = 1 .. Len(s) - 1
  BY <1>3
<1>5. 1 .. Len(s) = 1 .. Len(s) - 1 \cup {Len(s)}
  BY <1>1
<1>6. ToSet(Front(s)) = { s[i] : i \in 1 .. Len(s) - 1 }
  BY <1>3, <1>4 DEF ToSet
<1>7. ToSet(s) = { s[i] : i \in 1 .. Len(s) }
  BY <1>1 DEF ToSet
<1> QED BY <1>2, <1>3, <1>5, <1>6, <1>7

LEMMA AppendHoldsBoth ==
  ASSUME NEW S, NEW s \in Seq(S), NEW x \in S
  PROVE  /\ Append(s, x) \in Seq(S) /\ Len(Append(s, x)) = Len(s) + 1
         /\ ToSet(Append(s, x)) = ToSet(s) \cup {x}
         /\ IsInjective(s) /\ x \notin ToSet(s) => IsInjective(Append(s, x))
<1> DEFINE t == Append(s, x)
<1>1. /\ t \in Seq(S) /\ Len(t) = Len(s) + 1 /\ Len(s) \in Nat
      /\ DOMAIN s = 1 .. Len(s) /\ DOMAIN t = 1 .. Len(s) + 1
      /\ \A i \in 1 .. Len(s) : t[i] = s[i]
      /\ t[Len(s) + 1] = x
  OBVIOUS
<1> HIDE DEF t
<1>2. 1 .. Len(s) + 1 = 1 .. Len(s) \cup {Len(s) + 1}
  BY <1>1
<1>3. ToSet(t) = ToSet(s) \cup {x}
  BY <1>1, <1>2 DEF ToSet
<1>4. ASSUME IsInjective(s), x \notin ToSet(s) PROVE IsInjective(t)
  BY <1>1, <1>2, <1>4 DEF IsInjective, ToSet
<1> QED BY <1>1, <1>3, <1>4 DEF t

-----------------------------------------------------------------------------
(* The steps of the crawl.                                                 *)

LEMMA StartCrawls == Crawls /\ StartAtFile => Crawls'
<1> SUFFICES ASSUME Crawls, StartAtFile PROVE Crawls'
  OBVIOUS
<1>1. /\ disk' = disk /\ request' = request /\ found' = found /\ visited' = visited
      /\ project' = project /\ pc' = "crawl" /\ pending' = <<request.path>>
      /\ request.kind = "File" /\ pc = "start"
  BY DEF StartAtFile
<1>2. /\ Starts' = Starts /\ Reachable' = Reachable /\ Asked'
  BY <1>1, DiskStays DEF Crawls
<1>3. Starts = {request.path}
  BY <1>1 DEF Starts
<1>4. ToSet(pending') = {request.path}
  BY <1>1 DEF ToSet
<1>5. found = << >> /\ ToSet(found) = {} /\ project = Nothing /\ visited = FilesFound
  BY <1>1 DEF Crawls, ToSet
<1>6. pending' \in Seq(Starts \cup DOMAIN disk)
  BY <1>1, <1>3
<1>7. Starts \cap DOMAIN disk \subseteq Reachable
  BY ReachableIsLeast DEF Crawls
<1> QED BY <1>1, <1>2, <1>3, <1>4, <1>5, <1>6, <1>7, ProjectKinds
       DEF Crawls, FilesFound, Waiting, IsRead

LEMMA ScriptCrawls == Crawls /\ StartAtScript => Crawls'
<1> SUFFICES ASSUME Crawls, StartAtScript PROVE Crawls'
  OBVIOUS
<1>1. /\ disk' = disk /\ request' = request /\ found' = found /\ visited' = visited
      /\ project' = project /\ pc' = "crawl" /\ pending' = Roots
      /\ request.kind = "Script" /\ pc = "start" /\ Roots # << >>
  BY DEF StartAtScript
<1>2. /\ Starts' = Starts /\ Reachable' = Reachable /\ Asked'
  BY <1>1, DiskStays DEF Crawls
<1>3. Starts = ToSet(ArtifactRoots) \ {NoRoot}
  BY <1>1 DEF Starts
<1>4. Roots \in Seq(DOMAIN disk) /\ ToSet(Roots) = Starts
  BY <1>1, <1>3, RootsAreEach DEF Crawls
<1>5. found = << >> /\ ToSet(found) = {} /\ project = Nothing /\ visited = FilesFound
  BY <1>1 DEF Crawls, ToSet
<1>6. pending' \in Seq(Starts \cup DOMAIN disk)
  BY <1>1, <1>4
<1>7. Starts \cap DOMAIN disk \subseteq Reachable
  BY ReachableIsLeast DEF Crawls
<1>8. Starts # {}
  <2>1. 1 \in DOMAIN Roots
    BY <1>1, <1>4
  <2> QED BY <1>4, <2>1 DEF ToSet
<1> QED BY <1>1, <1>2, <1>4, <1>5, <1>6, <1>7, <1>8, ProjectKinds
       DEF Crawls, FilesFound, Waiting, IsRead

\* An error leaves what was found as it is.
LEMMA FailCrawls ==
  ASSUME Crawls, NEW reason, Fail(reason),
         reason = "TooMany" => Cardinality(Reachable) >= MaximumModules
  PROVE  Crawls'
<1>1. /\ disk' = disk /\ request' = request /\ found' = found /\ pending' = pending
      /\ project' = Error(reason) /\ pc' = "done"
  BY DEF Fail
<1>2. /\ Starts' = Starts /\ Reachable' = Reachable /\ Asked'
  BY <1>1, DiskStays DEF Crawls
<1>3. ~ IsRead' /\ (project' = Error("TooMany") => reason = "TooMany")
  BY <1>1, ProjectKinds DEF IsRead
<1> QED BY <1>1, <1>2, <1>3 DEF Crawls, FilesFound, Waiting

\* As many can be reached as were found.
LEMMA FoundAreReachable ==
  ASSUME Crawls
  PROVE  IsFiniteSet(Reachable) /\ Len(found) =< Cardinality(Reachable)
           /\ Cardinality(Reachable) \in Nat
<1>1. IsFiniteSet(DOMAIN disk) /\ Reachable \in SUBSET DOMAIN disk
  BY ReachedByImport, ReachableIsLeast DEF Crawls
<1>2. IsFiniteSet(Reachable)
  BY <1>1, FS_Subset
<1>3. Len(found) \in Nat /\ DOMAIN found = 1 .. Len(found)
  BY DEF Crawls
<1>4. found \in [1 .. Len(found) -> Reachable]
  <2>1. \A i \in 1 .. Len(found) : found[i] \in Reachable
    BY <1>3 DEF Crawls, FilesFound, ToSet
  <2>2. found \in [1 .. Len(found) -> DOMAIN disk]
    BY <1>3 DEF Crawls
  <2> QED BY <2>1, <2>2
<1>5. found \in Injection(1 .. Len(found), Reachable)
  BY <1>4 DEF Crawls, Injection
<1>6. Cardinality(1 .. Len(found)) =< Cardinality(Reachable)
  BY <1>2, <1>5, FS_Injection
<1>7. Cardinality(1 .. Len(found)) = Len(found)
  <2> DEFINE m == Len(found)
  <2> HIDE DEF m
  <2>1. 1 \in Int /\ m \in Int /\ m \in Nat
    BY <1>3 DEF m
  <2>2. Cardinality(1 .. m) = IF 1 > m THEN 0 ELSE m - 1 + 1
    BY <2>1, FS_Interval
  <2>3. Cardinality(1 .. m) = m
    BY <2>1, <2>2
  <2> QED BY <2>3 DEF m
<1> QED BY <1>2, <1>6, <1>7, FS_CardinalityType

LEMMA RefusalCrawls == Crawls /\ (ScriptFails \/ TooMany \/ AskFails) => Crawls'
<1> SUFFICES ASSUME Crawls, ScriptFails \/ TooMany \/ AskFails PROVE Crawls'
  OBVIOUS
<1>1. CASE ScriptFails
  <2>1. /\ "NoScript" # "TooMany" /\ "Parser" # "TooMany" /\ "NoArtifact" # "TooMany"
        /\ "NoRoot" # "TooMany"
    OBVIOUS
  <2>2. Fail("NoScript") \/ Fail("Parser") \/ Fail("NoArtifact") \/ Fail("NoRoot")
    BY <1>1 DEF ScriptFails
  <2> QED BY <2>1, <2>2, FailCrawls
<1>2. CASE TooMany
  <2>1. Fail("TooMany") /\ Len(found) >= MaximumModules
    BY <1>2 DEF TooMany, LimitReached
  <2>2. Cardinality(Reachable) >= MaximumModules
    <3>1. /\ Len(found) =< Cardinality(Reachable) /\ Cardinality(Reachable) \in Nat
          /\ Len(found) \in Nat /\ MaximumModules \in Nat
      BY FoundAreReachable, MaximumAssumption DEF Crawls
    <3> QED BY <2>1, <3>1
  <2> QED BY <2>1, <2>2, FailCrawls
<1>3. CASE AskFails
  <2>1. Fail("Ask") /\ "Ask" # "TooMany"
    BY <1>3 DEF AskFails
  <2> QED BY <2>1, FailCrawls
<1> QED BY <1>1, <1>2, <1>3

LEMMA AgainCrawls == Crawls /\ Again => Crawls'
<1> SUFFICES ASSUME Crawls, Again PROVE Crawls'
  OBVIOUS
<1>1. /\ disk' = disk /\ request' = request /\ found' = found /\ visited' = visited
      /\ project' = project /\ pc' = pc /\ pending' = Front(pending)
      /\ pc = "crawl" /\ pending # << >> /\ Last(pending) \in visited
  BY DEF Again, Crawling, Top
<1>2. /\ Starts' = Starts /\ Reachable' = Reachable /\ Asked'
      /\ \A path : Imported(path)' = Imported(path)
  BY <1>1, DiskStays DEF Crawls
<1>3. /\ Front(pending) \in Seq(Starts \cup DOMAIN disk)
      /\ ToSet(pending) = ToSet(Front(pending)) \cup {Last(pending)}
  BY <1>1, TakeLast DEF Crawls
<1>4. Waiting \subseteq FilesFound \cup Waiting' /\ Waiting' \subseteq Waiting
  BY <1>1, <1>3 DEF Crawls, Waiting
<1>5. FilesFound' = FilesFound
  BY <1>1 DEF FilesFound
<1>6. project = Nothing
  BY <1>1 DEF Crawls
<1> QED BY <1>1, <1>2, <1>3, <1>4, <1>5, <1>6, ProjectKinds DEF Crawls, IsRead

LEMMA ReadCrawls == Crawls /\ Read => Crawls'
<1> SUFFICES ASSUME Crawls, Read PROVE Crawls'
  OBVIOUS
<1> DEFINE top == Last(pending)
           more == Followed(top)
<1>1. /\ disk' = disk /\ request' = request /\ found' = Append(found, top)
      /\ visited' = visited \cup {top}
      /\ project' = project /\ pc' = pc /\ pending' = Front(pending) \o more
      /\ pc = "crawl" /\ pending # << >> /\ top \notin visited /\ top \in DOMAIN disk
      /\ ~ (Len(found) >= MaximumModules)
  BY DEF Read, Crawling, Top, LimitReached, IsFile
<1>2. /\ Starts' = Starts /\ Reachable' = Reachable /\ Asked'
      /\ \A path : Imported(path)' = Imported(path)
  BY <1>1, DiskStays DEF Crawls
<1>3. /\ Front(pending) \in Seq(Starts \cup DOMAIN disk)
      /\ Waiting = ToSet(Front(pending)) \cup {top}
  BY <1>1, TakeLast, Zenon DEF Crawls, Waiting
<1>4. visited = FilesFound /\ project = Nothing
  BY <1>1 DEF Crawls
<1>5. more \in Seq(DOMAIN disk) /\ ToSet(more) = Imported(top) \ (FilesFound \cup {top})
  BY <1>1, <1>4, FollowedIsImported DEF Crawls
<1> HIDE DEF top, more
<1>6. /\ found' \in Seq(DOMAIN disk) /\ Len(found') = Len(found) + 1
      /\ FilesFound' = FilesFound \cup {top}
      /\ IsInjective(found')
  <2>1. found \in Seq(DOMAIN disk) /\ IsInjective(found) /\ top \notin ToSet(found)
    BY <1>1, <1>4 DEF Crawls, FilesFound
  <2> QED BY <1>1, <2>1, AppendHoldsBoth DEF FilesFound
<1>7. Len(found') =< MaximumModules
  <2>1. Len(found) \in Nat /\ MaximumModules \in Nat
    BY MaximumAssumption DEF Crawls
  <2> QED BY <1>1, <1>6, <2>1
<1>8. /\ pending' \in Seq(Starts \cup DOMAIN disk)
      /\ Waiting' = ToSet(Front(pending)) \cup ToSet(more)
  <2>1. more \in Seq(Starts \cup DOMAIN disk)
    BY <1>5
  <2>2. Front(pending) \o more \in Seq(Starts \cup DOMAIN disk)
    BY <1>3, <2>1, ConcatProperties
  <2>3. ToSet(Front(pending) \o more) = ToSet(Front(pending)) \cup ToSet(more)
    BY <1>3, <2>1, ConcatHoldsBoth
  <2> QED BY <1>1, <2>2, <2>3 DEF Waiting
<1>9. top \in Reachable
  BY <1>1, <1>3 DEF Crawls
<1>10. /\ Imported(top) \subseteq Reachable /\ Imported(top) \subseteq DOMAIN disk
  BY <1>9, ReachableIsLeast, ReachedByImport DEF Crawls
<1>11. FilesFound' \subseteq Reachable /\ Waiting' \cap DOMAIN disk \subseteq Reachable
  BY <1>3, <1>5, <1>6, <1>8, <1>9, <1>10 DEF Crawls
<1>12. FilesFound \cup Waiting \subseteq FilesFound' \cup Waiting'
  BY <1>3, <1>6, <1>8
<1>13. \A from \in FilesFound' : Imported(from) \subseteq FilesFound' \cup Waiting'
  <2>1. Imported(top) \subseteq FilesFound' \cup Waiting'
    BY <1>5, <1>6, <1>8
  <2>2. \A from \in FilesFound : Imported(from) \subseteq FilesFound' \cup Waiting'
    BY <1>1, <1>12 DEF Crawls
  <2> QED BY <1>6, <2>1, <2>2
<1>14. Starts # {} /\ Starts \subseteq FilesFound' \cup Waiting'
  BY <1>1, <1>12 DEF Crawls
<1>15. /\ visited' = FilesFound' /\ project' = Nothing
  BY <1>1, <1>4, <1>6
<1>16. ~ IsRead' /\ project' # Error("TooMany")
  BY <1>15, ProjectKinds DEF IsRead
<1> QED BY <1>1, <1>2, <1>6, <1>7, <1>8, <1>11, <1>13, <1>14, <1>15, <1>16 DEF Crawls

LEMMA CrawledCrawls == Crawls /\ Crawled => Crawls'
<1> SUFFICES ASSUME Crawls, Crawled PROVE Crawls'
  OBVIOUS
<1>1. /\ disk' = disk /\ request' = request /\ found' = found /\ visited' = visited
      /\ project' = project /\ pc' = "assemble" /\ pending' = pending
      /\ pc = "crawl" /\ pending = << >>
  BY DEF Crawled
<1>2. /\ Starts' = Starts /\ Reachable' = Reachable /\ Asked'
      /\ \A path : Imported(path)' = Imported(path)
  BY <1>1, DiskStays DEF Crawls
<1>3. FilesFound' = FilesFound /\ Waiting' = Waiting /\ ~ IsRead'
  BY <1>1, ProjectKinds DEF FilesFound, Waiting, IsRead, Crawls
<1> QED BY <1>1, <1>2, <1>3 DEF Crawls

LEMMA AssembleCrawls == Crawls /\ Assemble => Crawls'
<1> SUFFICES ASSUME Crawls, Assemble PROVE Crawls'
  OBVIOUS
<1>1. /\ disk' = disk /\ request' = request /\ found' = found /\ visited' = visited
      /\ pc' = "done" /\ pending' = pending
      /\ pc = "assemble" /\ pending = << >>
  BY DEF Assemble, Crawls
<1>2. /\ Starts' = Starts /\ Reachable' = Reachable /\ Asked'
  BY <1>1, DiskStays DEF Crawls
<1>3. FilesFound' = FilesFound /\ Waiting' = Waiting /\ Waiting = {}
  BY <1>1 DEF FilesFound, Waiting, ToSet
<1>4. /\ Starts \subseteq FilesFound /\ Starts # {}
      /\ \A path \in FilesFound : Imported(path) \subseteq FilesFound
  BY <1>1, <1>3 DEF Crawls
<1>5. FilesFound = Reachable
  <2>1. FilesFound \in SUBSET DOMAIN disk
    BY ReachableIsLeast DEF Crawls
  <2>2. Starts \cap DOMAIN disk \subseteq FilesFound
    BY <1>4
  <2>3. Reachable \subseteq FilesFound
    BY <1>4, <2>1, <2>2, ReachableIsLeast DEF Crawls
  <2> QED BY <2>3, Zenon DEF Crawls
<1>6. FoundOnce
  <2>1. found # << >>
    <3>1. ToSet(<< >>) = {}
      BY DEF ToSet
    <3> QED BY <1>4, <3>1 DEF FilesFound
  <2> QED BY <2>1 DEF Crawls, FoundOnce
<1>7. Whole'
  BY <1>4, <1>5, <1>6, AssembledIsWhole DEF Crawls
<1>8. project' # Error("TooMany")
  <2>1. PICK m, a : project' = Project(m, a)
    <3>1. CASE request.kind = "File"
      BY <3>1 DEF Assemble
    <3>2. CASE request.kind # "File"
      BY <3>2, Zenon DEF Assemble
    <3> QED BY <3>1, <3>2
  <2> QED BY <2>1, ProjectKinds
<1> QED BY <1>1, <1>2, <1>3, <1>7, <1>8 DEF Crawls

\* Nothing that the crawl does not do changes what it is about.
LEMMA OtherCrawls == Crawls /\ UNCHANGED vars => Crawls'
<1> SUFFICES ASSUME Crawls, UNCHANGED vars PROVE Crawls'
  OBVIOUS
<1>1. /\ disk' = disk /\ request' = request /\ found' = found /\ visited' = visited
      /\ project' = project /\ pc' = pc /\ pending' = pending
  BY DEF vars
<1>2. /\ Starts' = Starts /\ Reachable' = Reachable /\ Asked'
      /\ \A path : Imported(path)' = Imported(path)
      /\ ArtifactRoots' = ArtifactRoots
      /\ \A path, import : Resolved(path, import)' = Resolved(path, import)
      /\ Ordered' = Ordered /\ CommonDirectory' = CommonDirectory
  BY <1>1, DiskStays, OrderStays DEF Crawls
<1>3. FilesFound' = FilesFound /\ Waiting' = Waiting /\ IsRead' = IsRead
      /\ ModulesOf' = ModulesOf
  BY <1>1 DEF FilesFound, Waiting, IsRead, ModulesOf
<1>4. Absent' = Absent
  BY <1>1, <1>2 DEF Absent
<1>5. Whole' <=> Whole
  BY <1>1, <1>2, <1>3, <1>4 DEF Whole
<1> QED BY <1>1, <1>2, <1>3, <1>5 DEF Crawls

LEMMA StepCrawls == Crawls /\ [Next]_vars => Crawls'
<1> SUFFICES ASSUME Crawls, [Next]_vars PROVE Crawls'
  OBVIOUS
<1>1. CASE StartAtFile
  BY <1>1, StartCrawls
<1>2. CASE StartAtScript
  BY <1>2, ScriptCrawls
<1>3. CASE ScriptFails \/ TooMany \/ AskFails
  BY <1>3, RefusalCrawls
<1>4. CASE Again
  BY <1>4, AgainCrawls
<1>5. CASE Read
  BY <1>5, ReadCrawls
<1>6. CASE Crawled
  BY <1>6, CrawledCrawls
<1>7. CASE Assemble
  BY <1>7, AssembleCrawls
<1>8. CASE Returned \/ UNCHANGED vars
  BY <1>8, OtherCrawls DEF Returned
<1> QED BY <1>1, <1>2, <1>3, <1>4, <1>5, <1>6, <1>7, <1>8 DEF Next

-----------------------------------------------------------------------------
(* The crawl as part of the intake.                                        *)

LEMMA StartCrawlInv == Start => CrawlInv
<1>1. ASSUME StartRead PROVE command = "read" /\ Crawls
  <2>1. /\ command = "read" /\ Asked /\ pc = "start" /\ pending = << >>
        /\ visited = {} /\ found = << >> /\ project = Nothing
    BY <1>1 DEF StartRead, Init, Asked
  <2>2. FilesFound = {} /\ Waiting = {}
    BY <2>1 DEF FilesFound, Waiting, ToSet
  <2>3. found \in Seq(DOMAIN disk) /\ IsInjective(found) /\ Len(found) = 0
        /\ pending \in Seq(Starts \cup DOMAIN disk)
    BY <2>1 DEF IsInjective
  <2>4. Len(found) =< MaximumModules
    BY <2>3, MaximumAssumption
  <2>5. ~ IsRead /\ project # Error("TooMany")
    BY <2>1, ProjectKinds DEF IsRead
  <2> QED BY <2>1, <2>2, <2>3, <2>4, <2>5 DEF Crawls
<1>2. ASSUME StartEmit
      PROVE  command = "emit" /\ pc = "idle" /\ found = << >> /\ project = Nothing
  BY <1>2 DEF StartEmit
<1> QED BY <1>1, <1>2 DEF Start, CrawlInv

LEMMA StepCrawlInv == CrawlInv /\ [NextIntake]_all => CrawlInv'
<1> SUFFICES ASSUME CrawlInv, [NextIntake]_all PROVE CrawlInv'
  OBVIOUS
<1>1. (command = "read" /\ Next /\ command' = command) \/ (UNCHANGED vars /\ command' = command)
  <2>1. CASE FollowImports
    BY <2>1 DEF FollowImports
  <2>2. CASE BuildProject
    BY <2>2 DEF BuildProject, Hand
  <2>3. CASE ReadFactFile
    BY <2>3 DEF ReadFactFile
  <2>4. CASE GenerateFromBytes
    BY <2>4 DEF GenerateFromBytes, Hand
  <2>5. CASE MergeAndValidate
    BY <2>5 DEF MergeAndValidate
  <2>6. CASE UNCHANGED all
    BY <2>6 DEF all
  <2> QED BY <2>1, <2>2, <2>3, <2>4, <2>5, <2>6 DEF NextIntake
<1>2. CASE command = "read" /\ Crawls
  <2>1. Crawls' /\ command' = "read"
    BY <1>1, <1>2, StepCrawls
  <2> QED BY <2>1 DEF CrawlInv
<1>3. CASE command = "emit" /\ pc = "idle" /\ found = << >> /\ project = Nothing
  <2>1. UNCHANGED vars /\ command' = "emit"
    BY <1>1, <1>3
  <2> QED BY <1>3, <2>1 DEF CrawlInv, vars
<1> QED BY <1>2, <1>3 DEF CrawlInv

\* The files of a project are those its roots reach, each read once; the root is
\* the top level; every artifact is rooted at its module; an import is unresolved
\* only where no file could be meant; and only a program that reaches as many files
\* as the limit is refused for their number (project.rs:225-449).
THEOREM ProjectsAreWhole == SpecIntake => []WholeProject
<1>1. SpecIntake => []CrawlInv
  BY StartCrawlInv, StepCrawlInv, PTL DEF SpecIntake
<1>2. CrawlInv => WholeProject
  <2>1. ASSUME Crawls PROVE WholeProject
    <3>1. IsRead => Whole
      BY <2>1 DEF Crawls
    <3>2. ASSUME NEW i \in DOMAIN Ordered PROVE Ordered[i] \in DOMAIN disk
      <4>1. CASE found = << >>
        <5>1. ToSet(found) = {} /\ Cardinality({}) = 0
          BY <4>1, FS_EmptySet DEF ToSet
        <5>2. DOMAIN Ordered = 1 .. 0
          BY <5>1 DEF Ordered, Sorted
        <5> QED BY <5>2
      <4>2. CASE found # << >>
        <5>1. Asked /\ FoundOnce
          BY <2>1, <4>2 DEF Crawls, FoundOnce
        <5>2. Ordered[i] \in FilesFound
          BY <5>1, OrderedHoldsEach
        <5> QED BY <5>1, <5>2, FilesAreOnDisk
      <4> QED BY <4>1, <4>2
    <3> QED BY <2>1, <3>1, <3>2, Zenon DEF Crawls, WholeProject, Whole, Absent
  <2>2. ASSUME found = << >>, project = Nothing PROVE WholeProject
    <3>1. ~ IsRead /\ project # Error("TooMany")
      BY <2>2, ProjectKinds DEF IsRead
    <3>2. IsInjective(found) /\ Len(found) = 0
      BY <2>2 DEF IsInjective
    <3>3. Len(found) =< MaximumModules
      BY <3>2, MaximumAssumption
    <3> QED BY <3>1, <3>2, <3>3 DEF WholeProject
  <2> QED BY <2>1, <2>2 DEF CrawlInv
<1> QED BY <1>1, <1>2, PTL

-----------------------------------------------------------------------------
(* Ranges that tile their rows.                                            *)

\* The size the validation takes is the size.
LEMMA ReaderCounts ==
  ASSUME NEW S
  PROVE  Reader!Cardinality(S) = Cardinality(S)
BY DEF Reader!Cardinality, Cardinality

\* What the check of ranges passes: columns as long as there are owners, the rows of
\* each owner where those of the one before it end, and the last one's at the end.
Tiles(starts, counts, owners, rows) ==
  /\ owners \in Nat /\ rows \in Nat
  /\ starts \in Seq(Nat) /\ counts \in Seq(Nat)
  /\ Len(starts) = owners /\ Len(counts) = owners
  /\ \A owner \in 0 .. owners - 1 :
       Reader!At(starts, owner) = Reader!ExpectedStart(starts, counts, owner)
  /\ Reader!ExpectedStart(starts, counts, owners) = rows

\* Where none of the ranges is reported, every owner is passed.
LEMMA RangesAreChecked ==
  ASSUME NEW kind, NEW table, NEW owners \in Nat, NEW rows \in Nat,
         NEW starts \in Seq(Nat), NEW counts \in Seq(Nat),
         Len(starts) = owners, Len(counts) = owners,
         Reader!CheckRanges(kind, table, owners, starts, counts, rows) = {}
  PROVE  /\ Tiles(starts, counts, owners, rows)
         /\ Reader!Passed(owners, starts, counts, owners)
<1> DEFINE Wrong(owner) ==
      /\ Reader!Passed(owners, starts, counts, owner)
      /\ IF owner = owners
           THEN Reader!ExpectedStart(starts, counts, owner) # rows
           ELSE /\ Reader!Ranged(owners, starts, counts, owner)
                /\ \/ Reader!At(starts, owner)
                        # Reader!ExpectedStart(starts, counts, owner)
                   \/ ~ Reader!EndsInside(starts, counts, owner)
<1>1. \A owner \in 0 .. owners : ~ Wrong(owner)
  BY Zenon DEF Reader!CheckRanges
<1>2. \A owner \in 0 .. owners - 1 : Reader!Ranged(owners, starts, counts, owner)
  BY DEF Reader!Ranged, Reader!Has
<1> DEFINE Stop == { owner \in 0 .. owners - 1 :
                       ~ Reader!EndsInside(starts, counts, owner) }
<1>3. Stop = {}
  <2> SUFFICES ASSUME Stop # {} PROVE FALSE
    OBVIOUS
  <2>1. Stop \in SUBSET Nat
    OBVIOUS
  <2>2. PICK m \in Stop : \A k \in Stop : m =< k
    BY <2>1, LeastNatural, Zenon
  <2>3. m \in 0 .. owners - 1 /\ m \in 0 .. owners /\ m # owners
    BY <2>2
  <2>4. ASSUME NEW k \in 0 .. m - 1
        PROVE  /\ Reader!Ranged(owners, starts, counts, k)
               /\ Reader!EndsInside(starts, counts, k)
    <3>1. k \in 0 .. owners - 1 /\ ~ (m =< k)
      BY <2>3, <2>4
    <3>2. k \notin Stop
      BY <2>2, <3>1
    <3> QED BY <1>2, <3>1, <3>2
  <2>5. Reader!Passed(owners, starts, counts, m)
    BY <2>4, Zenon DEF Reader!Passed
  <2>6. Wrong(m)
    BY <1>2, <2>2, <2>3, <2>5
  <2> QED BY <1>1, <2>3, <2>6
<1>4. ASSUME NEW owner \in 0 .. owners PROVE Reader!Passed(owners, starts, counts, owner)
  <2>1. ASSUME NEW k \in 0 .. owner - 1
        PROVE  /\ Reader!Ranged(owners, starts, counts, k)
               /\ Reader!EndsInside(starts, counts, k)
    <3>1. k \in 0 .. owners - 1
      BY <1>4, <2>1
    <3> QED BY <1>2, <1>3, <3>1
  <2> QED BY <2>1, Zenon DEF Reader!Passed
<1>5. owners \in 0 .. owners /\ \A owner \in 0 .. owners - 1 : owner \in 0 .. owners /\ owner # owners
  OBVIOUS
<1>6. Reader!ExpectedStart(starts, counts, owners) = rows
  BY <1>1, <1>4, <1>5
<1>7. ASSUME NEW owner \in 0 .. owners - 1
      PROVE  Reader!At(starts, owner) = Reader!ExpectedStart(starts, counts, owner)
  BY <1>1, <1>2, <1>4, <1>5, <1>7
<1> QED BY <1>4, <1>5, <1>6, <1>7 DEF Tiles

\* Ranges in words of their starts and ends.
LEMMA RangesInARow ==
  ASSUME NEW owners, NEW rows, NEW starts, NEW counts, Tiles(starts, counts, owners, rows)
  PROVE  /\ \A o \in 0 .. owners - 1 :
              /\ Reader!At(starts, o) \in Nat
              /\ Reader!Ends(starts, counts, o) \in Nat
              /\ Reader!At(starts, o) =< Reader!Ends(starts, counts, o)
         /\ \A o \in 1 .. owners - 1 :
              Reader!At(starts, o) = Reader!Ends(starts, counts, o - 1)
         /\ owners > 0 => /\ Reader!At(starts, 0) = 0
                          /\ Reader!Ends(starts, counts, owners - 1) = rows
         /\ owners = 0 => rows = 0
<1>1. /\ owners \in Nat /\ rows \in Nat
      /\ starts \in Seq(Nat) /\ counts \in Seq(Nat)
      /\ Len(starts) = owners /\ Len(counts) = owners
      /\ \A owner \in 0 .. owners - 1 :
           Reader!At(starts, owner) = Reader!ExpectedStart(starts, counts, owner)
      /\ Reader!ExpectedStart(starts, counts, owners) = rows
  BY DEF Tiles
<1>2. ASSUME NEW o \in 0 .. owners - 1
      PROVE  /\ Reader!At(starts, o) \in Nat
             /\ Reader!Ends(starts, counts, o) \in Nat
             /\ Reader!At(starts, o) =< Reader!Ends(starts, counts, o)
  <2>1. o + 1 \in 1 .. owners
    BY <1>1, <1>2
  <2>2. starts[o + 1] \in Nat /\ counts[o + 1] \in Nat
    BY <1>1, <2>1
  <2> QED BY <2>2 DEF Reader!At, Reader!Ends
<1>3. ASSUME NEW o \in 1 .. owners - 1
      PROVE  Reader!At(starts, o) = Reader!Ends(starts, counts, o - 1)
  <2>1. o \in 0 .. owners - 1 /\ o # 0
    BY <1>1, <1>3
  <2> QED BY <1>1, <2>1 DEF Reader!ExpectedStart
<1>4. owners > 0 => /\ Reader!At(starts, 0) = 0
                    /\ Reader!Ends(starts, counts, owners - 1) = rows
  <2> SUFFICES ASSUME owners > 0 PROVE /\ Reader!At(starts, 0) = 0
                    /\ Reader!Ends(starts, counts, owners - 1) = rows
    OBVIOUS
  <2>1. 0 \in 0 .. owners - 1 /\ owners # 0
    BY <1>1
  <2> QED BY <1>1, <2>1 DEF Reader!ExpectedStart
<1>5. owners = 0 => rows = 0
  BY <1>1 DEF Reader!ExpectedStart
<1> QED BY <1>2, <1>3, <1>4, <1>5

\* An owner's rows end before those of every later one start.
LEMMA RangesApart ==
  ASSUME NEW owners, NEW rows, NEW starts, NEW counts, Tiles(starts, counts, owners, rows),
         NEW a \in 0 .. owners - 1, NEW b \in 0 .. owners - 1, a < b
  PROVE  Reader!Ends(starts, counts, a) =< Reader!At(starts, b)
<1> DEFINE S == { o \in 0 .. owners - 1 : a < o /\
                    ~ (Reader!Ends(starts, counts, a) =< Reader!At(starts, o)) }
<1>0. owners \in Nat
  BY DEF Tiles
<1> SUFFICES ASSUME S # {} PROVE FALSE
  OBVIOUS
<1>1. S \in SUBSET Nat
  BY <1>0
<1>2. PICK m \in S : \A k \in S : m =< k
  BY <1>1, LeastNatural, Zenon
<1>3. m \in 1 .. owners - 1 /\ a < m /\ m - 1 \in 0 .. owners - 1 /\ ~ (m =< m - 1)
      /\ m \in 0 .. owners - 1
  BY <1>0, <1>2
<1>4. /\ Reader!At(starts, m) = Reader!Ends(starts, counts, m - 1)
      /\ Reader!At(starts, m - 1) =< Reader!Ends(starts, counts, m - 1)
      /\ Reader!At(starts, m - 1) \in Nat /\ Reader!Ends(starts, counts, m - 1) \in Nat
      /\ Reader!Ends(starts, counts, a) \in Nat
  BY <1>3, RangesInARow
<1>5. CASE m - 1 = a
  <2>1. Reader!Ends(starts, counts, a) =< Reader!At(starts, m)
    BY <1>4, <1>5
  <2> QED BY <1>2, <2>1
<1>6. CASE m - 1 # a
  <2>1. a < m - 1
    BY <1>0, <1>3, <1>6
  <2>2. m - 1 \notin S
    BY <1>2, <1>3
  <2>3. Reader!Ends(starts, counts, a) =< Reader!At(starts, m - 1)
    BY <1>3, <2>1, <2>2
  <2>4. Reader!Ends(starts, counts, a) =< Reader!At(starts, m)
    BY <1>4, <2>3
  <2> QED BY <1>2, <2>4
<1> QED BY <1>5, <1>6

\* Every row is in the range of one owner, and every range is of rows there are.
LEMMA RowsAreHeldOnce ==
  ASSUME NEW owners, NEW rows, NEW starts, NEW counts, Tiles(starts, counts, owners, rows)
  PROVE  /\ \A row \in 0 .. rows - 1 :
              Cardinality({ o \in 0 .. owners - 1 :
                              row \in Reader!At(starts, o) .. Reader!Ends(starts, counts, o) - 1 }) = 1
         /\ \A o \in 0 .. owners - 1 : Reader!Ends(starts, counts, o) =< rows
<1>0. owners \in Nat /\ rows \in Nat
  BY DEF Tiles
<1>1. ASSUME NEW row \in 0 .. rows - 1
      PROVE Cardinality({ o \in 0 .. owners - 1 :
                              row \in Reader!At(starts, o) .. Reader!Ends(starts, counts, o) - 1 }) = 1
  <2> DEFINE S == { o \in 0 .. owners - 1 : row < Reader!Ends(starts, counts, o) }
             Holders == { o \in 0 .. owners - 1 :
                            row \in Reader!At(starts, o) .. Reader!Ends(starts, counts, o) - 1 }
  <2>0. row \in Nat /\ row < rows
    BY <1>0, <1>1
  <2>1. owners > 0
    BY <1>0, <2>0, RangesInARow
  <2>2. owners - 1 \in S
    <3>1. Reader!Ends(starts, counts, owners - 1) = rows
      BY <2>1, RangesInARow
    <3> QED BY <1>0, <2>0, <2>1, <3>1
  <2>3. PICK m \in S : \A k \in S : m =< k
    <3>1. S \in SUBSET Nat /\ S # {}
      BY <1>0, <2>2
    <3> QED BY <3>1, LeastNatural, Zenon
  <2>4. m \in 0 .. owners - 1 /\ row < Reader!Ends(starts, counts, m)
    BY <2>3
  <2>5. /\ Reader!At(starts, m) \in Nat /\ Reader!Ends(starts, counts, m) \in Nat
    BY <2>4, RangesInARow, Zenon
  <2>6. Reader!At(starts, m) =< row
    <3>1. CASE m = 0
      <4>1. Reader!At(starts, 0) = 0
        BY <2>1, RangesInARow, Zenon
      <4> QED BY <2>0, <3>1, <4>1
    <3>2. CASE m # 0
      <4>1. m \in 1 .. owners - 1 /\ m - 1 \in 0 .. owners - 1 /\ ~ (m =< m - 1)
        BY <1>0, <2>4, <3>2
      <4>2. /\ Reader!At(starts, m) = Reader!Ends(starts, counts, m - 1)
            /\ Reader!Ends(starts, counts, m - 1) \in Nat
        BY <4>1, RangesInARow
      <4>3. m - 1 \notin S
        BY <2>3, <4>1
      <4>4. ~ (row < Reader!Ends(starts, counts, m - 1))
        BY <4>1, <4>3
      <4> QED BY <2>0, <4>2, <4>4
    <3> QED BY <3>1, <3>2
  <2>7. m \in Holders
    BY <2>0, <2>4, <2>5, <2>6
  <2>8. ASSUME NEW o \in Holders PROVE o = m
    <3>1. o \in 0 .. owners - 1 /\ row \in Reader!At(starts, o) .. Reader!Ends(starts, counts, o) - 1
      BY <2>8
    <3>2. Reader!At(starts, o) \in Nat /\ Reader!Ends(starts, counts, o) \in Nat
      BY <3>1, RangesInARow, Zenon
    <3>3. Reader!At(starts, o) =< row /\ row < Reader!Ends(starts, counts, o)
      BY <2>0, <3>1, <3>2
    <3>4. ~ (o < m)
      <4> SUFFICES ASSUME o < m PROVE FALSE
        OBVIOUS
      <4>1. Reader!Ends(starts, counts, o) =< Reader!At(starts, m)
        BY <2>4, <3>1, RangesApart
      <4> QED BY <2>0, <2>5, <2>6, <3>2, <3>3, <4>1
    <3>5. ~ (m < o)
      <4> SUFFICES ASSUME m < o PROVE FALSE
        OBVIOUS
      <4>1. Reader!Ends(starts, counts, m) =< Reader!At(starts, o)
        BY <2>4, <3>1, RangesApart
      <4> QED BY <2>0, <2>4, <2>5, <3>2, <3>3, <4>1
    <3> QED BY <1>0, <2>4, <3>1, <3>4, <3>5
  <2>9. Holders = {m}
    BY <2>7, <2>8, Zenon
  <2>10. Cardinality({m}) = 1
    BY FS_Singleton, Zenon
  <2> QED BY <2>9, <2>10, Zenon
<1>2. ASSUME NEW o \in 0 .. owners - 1 PROVE Reader!Ends(starts, counts, o) =< rows
  <2>1. owners > 0 /\ owners - 1 \in 0 .. owners - 1
    BY <1>0, <1>2
  <2>2. Reader!Ends(starts, counts, owners - 1) = rows
    BY <2>1, RangesInARow
  <2>3. CASE o = owners - 1
    BY <1>0, <2>2, <2>3
  <2>4. CASE o # owners - 1
    <3>1. o < owners - 1
      BY <1>0, <1>2, <2>4
    <3>2. Reader!Ends(starts, counts, o) =< Reader!At(starts, owners - 1)
      BY <2>1, <3>1, RangesApart
    <3>3. /\ Reader!At(starts, owners - 1) =< Reader!Ends(starts, counts, owners - 1)
          /\ Reader!At(starts, owners - 1) \in Nat
          /\ Reader!Ends(starts, counts, o) \in Nat
      BY <1>2, <2>1, RangesInARow, Zenon
    <3> QED BY <1>0, <2>2, <3>2, <3>3
  <2> QED BY <2>3, <2>4
<1> QED BY <1>1, <1>2

\* Where no row is lower than the one before, rows that say the same are together.
LEMMA SortedIsTogether ==
  ASSUME NEW cells \in Seq(Nat), Reader!Descents(cells) = {}
  PROVE  \A i, j \in 0 .. Len(cells) - 1 :
           i =< j => Reader!At(cells, i) =< Reader!At(cells, j)
<1> SUFFICES ASSUME NEW i \in 0 .. Len(cells) - 1, NEW last \in 0 .. Len(cells) - 1,
                    i =< last
             PROVE  Reader!At(cells, i) =< Reader!At(cells, last)
  BY Zenon
<1> DEFINE S == { j \in 0 .. Len(cells) - 1 :
                    i =< j /\ ~ (Reader!At(cells, i) =< Reader!At(cells, j)) }
<1> SUFFICES ASSUME S # {} PROVE FALSE
  OBVIOUS
<1>0. \A j \in 0 .. Len(cells) - 1 : Reader!At(cells, j) \in Nat
  BY SMTT(30) DEF Reader!At
<1>1. S \in SUBSET Nat
  OBVIOUS
<1>2. PICK m \in S : \A k \in S : m =< k
  BY <1>1, LeastNatural, Zenon
<1>3. m \in 0 .. Len(cells) - 1 /\ i =< m /\ ~ (Reader!At(cells, i) =< Reader!At(cells, m))
  BY <1>2
<1>4. m # i
  BY <1>0, <1>3
<1>5. m > 0 /\ m - 1 \in 0 .. Len(cells) - 1 /\ i =< m - 1 /\ ~ (m =< m - 1)
  BY <1>3, <1>4
<1>6. m - 1 \notin S
  BY <1>2, <1>5
<1>7. Reader!At(cells, i) =< Reader!At(cells, m - 1)
  BY <1>5, <1>6
<1>8. m \notin Reader!Descents(cells)
  BY Zenon
<1>9. ~ (Reader!At(cells, m) < Reader!At(cells, m - 1))
  BY <1>3, <1>5, <1>8 DEF Reader!Descents, Reader!Rows
<1> QED BY <1>0, <1>3, <1>5, <1>7, <1>9

-----------------------------------------------------------------------------
(* What validation checks, and what is so where it reports nothing.        *)

\* The columns whose cells are counted with.
Numbered ==
  { <<"modules", "unresolved_start">>, <<"modules", "unresolved_count">>,
    <<"unresolved_imports", "owner">>,
    <<"structs", "field_start">>, <<"structs", "field_count">>, <<"fields", "owner">>,
    <<"functions", "parameter_start">>, <<"functions", "parameter_count">>,
    <<"parameters", "owner">>, <<"allocator_sources", "function">>,
    <<"allocator_sources", "parameter_index">>, <<"calls", "caller">> }

\* Columns that validation may be handed, of whatever lengths.
AreColumns(t) == \A name \in Numbered : t[name[1]][name[2]] \in Seq(Nat)

LEMMA NumberedAre ==
  ASSUME NEW t, AreColumns(t)
  PROVE  /\ t.modules.unresolved_start \in Seq(Nat)
         /\ t.modules.unresolved_count \in Seq(Nat)
         /\ t.unresolved_imports.owner \in Seq(Nat)
         /\ t.structs.field_start \in Seq(Nat)
         /\ t.structs.field_count \in Seq(Nat)
         /\ t.fields.owner \in Seq(Nat)
         /\ t.functions.parameter_start \in Seq(Nat)
         /\ t.functions.parameter_count \in Seq(Nat)
         /\ t.parameters.owner \in Seq(Nat)
         /\ t.allocator_sources.function \in Seq(Nat)
         /\ t.allocator_sources.parameter_index \in Seq(Nat)
         /\ t.calls.caller \in Seq(Nat)
<1>1. ASSUME NEW table, NEW name, <<table, name>> \in Numbered
      PROVE  t[table][name] \in Seq(Nat)
  BY <1>1 DEF AreColumns
<1>2. <<"modules", "unresolved_start">> \in Numbered /\ <<"modules", "unresolved_count">> \in Numbered
      /\ <<"unresolved_imports", "owner">> \in Numbered
      /\ <<"structs", "field_start">> \in Numbered /\ <<"structs", "field_count">> \in Numbered
      /\ <<"fields", "owner">> \in Numbered
      /\ <<"functions", "parameter_start">> \in Numbered /\ <<"functions", "parameter_count">> \in Numbered
      /\ <<"parameters", "owner">> \in Numbered
      /\ <<"allocator_sources", "function">> \in Numbered
      /\ <<"allocator_sources", "parameter_index">> \in Numbered
      /\ <<"calls", "caller">> \in Numbered
  BY DEF Numbered
<1> QED BY <1>1, <1>2

\* What the checks ask of the lengths of the columns.
LEMMA ColumnsAreEven ==
  ASSUME NEW t, Reader!CheckColumnLengths(t) = {},
         NEW table \in Reader!Table, NEW name \in ToSet(Reader!Columns[table])
  PROVE  Len(t[table][name]) = Reader!Count(t, table)
<1>1. Reader!ToSet(Reader!Columns[table]) = ToSet(Reader!Columns[table])
  BY DEF Reader!ToSet, ToSet
<1>2. table \notin { other \in Reader!Table :
                       \E column_ \in Reader!ToSet(Reader!Columns[other]) :
                         Len(t[other][column_]) # Reader!Count(t, other) }
  BY Zenon DEF Reader!CheckColumnLengths
<1> QED BY <1>1, <1>2

LEMMA LengthsAreCounts ==
  ASSUME NEW t, Reader!CheckColumnLengths(t) = {}
  PROVE  /\ Len(t.modules.unresolved_start) = Reader!Count(t, "modules")
         /\ Len(t.modules.unresolved_count) = Reader!Count(t, "modules")
         /\ Len(t.unresolved_imports.owner) = Reader!Count(t, "unresolved_imports")
         /\ Len(t.structs.field_start) = Reader!Count(t, "structs")
         /\ Len(t.structs.field_count) = Reader!Count(t, "structs")
         /\ Len(t.fields.owner) = Reader!Count(t, "fields")
         /\ Len(t.functions.parameter_start) = Reader!Count(t, "functions")
         /\ Len(t.functions.parameter_count) = Reader!Count(t, "functions")
         /\ Len(t.parameters.owner) = Reader!Count(t, "parameters")
         /\ Len(t.allocator_sources.kind) = Reader!Count(t, "allocator_sources")
         /\ Len(t.allocator_sources.function) = Reader!Count(t, "allocator_sources")
         /\ Len(t.allocator_sources.parameter_index) = Reader!Count(t, "allocator_sources")
         /\ Len(t.calls.caller) = Reader!Count(t, "calls")
<1>1. /\ {"modules", "unresolved_imports", "structs", "fields", "functions", "parameters",
          "allocator_sources", "calls"} \subseteq Reader!Table
      /\ {"unresolved_start", "unresolved_count"} \subseteq ToSet(Reader!Columns["modules"])
      /\ "owner" \in ToSet(Reader!Columns["unresolved_imports"])
      /\ {"field_start", "field_count"} \subseteq ToSet(Reader!Columns["structs"])
      /\ "owner" \in ToSet(Reader!Columns["fields"])
      /\ {"parameter_start", "parameter_count"} \subseteq ToSet(Reader!Columns["functions"])
      /\ "owner" \in ToSet(Reader!Columns["parameters"])
      /\ {"kind", "function", "parameter_index"} \subseteq ToSet(Reader!Columns["allocator_sources"])
      /\ "caller" \in ToSet(Reader!Columns["calls"])
  BY DEF Reader!Table, Reader!Columns, ToSet
<1>2. ASSUME NEW table \in Reader!Table, NEW name \in ToSet(Reader!Columns[table])
      PROVE  Len(t[table][name]) = Reader!Count(t, table)
  BY ColumnsAreEven
<1> QED BY <1>1, <1>2

LEMMA NothingIsReported ==
  ASSUME NEW t, Reader!Problems(t) = {}
  PROVE  /\ Reader!CheckColumnLengths(t) = {} /\ Reader!CheckHandles(t) = {}
         /\ Reader!CheckFieldRanges(t) = {} /\ Reader!CheckParameterRanges(t) = {}
         /\ Reader!CheckModuleRanges(t) = {} /\ Reader!CheckParameterIndices(t) = {}
         /\ Reader!CheckCallOrder(t) = {}
<1>1. ASSUME NEW S, S \in { Reader!CheckColumnLengths(t), Reader!CheckHandles(t),
          Reader!CheckFieldRanges(t),
          Reader!CheckParameterRanges(t), Reader!CheckModuleRanges(t),
          Reader!CheckParameterIndices(t), Reader!CheckPlaces(t), Reader!CheckCallOrder(t) }
      PROVE S = {}
  BY <1>1 DEF Reader!Problems
<1> QED BY <1>1

\* Every row of a table is in the range of one row of its owners'.
HeldOnce(t, table, owners, start, count) ==
  \A row \in Reader!RowsIn(t, table) :
    Reader!Cardinality({ owner \in Reader!RowsIn(t, owners) :
                           row \in Reader!RowsOf(t, owners, start, count, owner) }) = 1

LEMMA HeldByOne ==
  ASSUME NEW t, NEW table, NEW owners, NEW start, NEW count,
         Tiles(t[owners][start], t[owners][count], Reader!Count(t, owners),
                Reader!Count(t, table))
  PROVE  HeldOnce(t, table, owners, start, count)
<1>1. ASSUME NEW row \in 0 .. Reader!Count(t, table) - 1
      PROVE  Cardinality({ o \in 0 .. Reader!Count(t, owners) - 1 :
                             row \in Reader!At(t[owners][start], o) ..
                                     Reader!Ends(t[owners][start], t[owners][count], o) - 1 }) = 1
  BY RowsAreHeldOnce
<1> QED BY <1>1, ReaderCounts DEF HeldOnce, Reader!RowsIn, Reader!RowsOf

LEMMA FieldsAreHeld ==
  ASSUME NEW t, AreColumns(t), Reader!Problems(t) = {}
  PROVE  HeldOnce(t, "fields", "structs", "field_start", "field_count")
<1>1. Reader!CheckColumnLengths(t) = {} /\ Reader!CheckFieldRanges(t) = {}
  BY NothingIsReported
<1>2. Reader!CheckRanges("FieldRangeMismatch", "structs", Reader!Count(t, "structs"),
                         t.structs.field_start, t.structs.field_count,
                         Reader!Count(t, "fields")) = {}
  BY <1>1 DEF Reader!CheckFieldRanges
<1>3. /\ t.structs.field_start \in Seq(Nat) /\ t.structs.field_count \in Seq(Nat)
      /\ t.fields.owner \in Seq(Nat)
  BY NumberedAre
<1>4. /\ Len(t.structs.field_start) = Reader!Count(t, "structs")
      /\ Len(t.structs.field_count) = Reader!Count(t, "structs")
      /\ Len(t.fields.owner) = Reader!Count(t, "fields")
  BY <1>1, LengthsAreCounts
<1>5. Reader!Count(t, "structs") \in Nat /\ Reader!Count(t, "fields") \in Nat
  BY <1>3, <1>4
<1>6. Tiles(t.structs.field_start, t.structs.field_count, Reader!Count(t, "structs"),
             Reader!Count(t, "fields"))
  BY <1>2, <1>3, <1>4, <1>5, RangesAreChecked
<1> QED BY <1>6, HeldByOne

LEMMA ParametersAreHeld ==
  ASSUME NEW t, AreColumns(t), Reader!Problems(t) = {}
  PROVE  /\ HeldOnce(t, "parameters", "functions", "parameter_start", "parameter_count")
         /\ Tiles(t.functions.parameter_start, t.functions.parameter_count,
                   Reader!Count(t, "functions"), Reader!Count(t, "parameters"))
<1>1. Reader!CheckColumnLengths(t) = {} /\ Reader!CheckParameterRanges(t) = {}
  BY NothingIsReported
<1>2. Reader!CheckRanges("ParameterRangeMismatch", "functions", Reader!Count(t, "functions"),
                         t.functions.parameter_start, t.functions.parameter_count,
                         Reader!Count(t, "parameters")) = {}
  BY <1>1 DEF Reader!CheckParameterRanges
<1>3. /\ t.functions.parameter_start \in Seq(Nat) /\ t.functions.parameter_count \in Seq(Nat)
      /\ t.parameters.owner \in Seq(Nat)
  BY NumberedAre
<1>4. /\ Len(t.functions.parameter_start) = Reader!Count(t, "functions")
      /\ Len(t.functions.parameter_count) = Reader!Count(t, "functions")
      /\ Len(t.parameters.owner) = Reader!Count(t, "parameters")
  BY <1>1, LengthsAreCounts
<1>5. Reader!Count(t, "functions") \in Nat /\ Reader!Count(t, "parameters") \in Nat
  BY <1>3, <1>4
<1>6. Tiles(t.functions.parameter_start, t.functions.parameter_count, Reader!Count(t, "functions"),
             Reader!Count(t, "parameters"))
  BY <1>2, <1>3, <1>4, <1>5, RangesAreChecked
<1> QED BY <1>6, HeldByOne

\* What is reported of the handles of a column.
Dangling(t, ref) ==
  { Reader!Problem("HandleOutOfRange", ref.table, row) :
      row \in { row \in Reader!Rows(t[ref.table][ref.column]) :
                  Reader!Dangles(t, ref, Reader!At(t[ref.table][ref.column], row)) } }

LEMMA HandlesAreRows ==
  ASSUME NEW t, Reader!CheckHandles(t) = {}, NEW ref \in Reader!References
  PROVE  \A row \in Reader!Rows(t[ref.table][ref.column]) :
           ~ Reader!Dangles(t, ref, Reader!At(t[ref.table][ref.column], row))
<1>1. UNION { Dangling(t, r) : r \in Reader!References } = {}
  BY DEF Reader!CheckHandles, Dangling
<1>2. Dangling(t, ref) \in { Dangling(t, r) : r \in Reader!References }
  BY Zenon
<1>3. Dangling(t, ref) = {}
  <2>1. ASSUME NEW x \in Dangling(t, ref) PROVE FALSE
    BY <1>1, <1>2, Zenon
  <2> QED BY <2>1
<1>4. PICK D : D = { row \in Reader!Rows(t[ref.table][ref.column]) :
                       Reader!Dangles(t, ref, Reader!At(t[ref.table][ref.column], row)) }
  BY Zenon
<1>5. { Reader!Problem("HandleOutOfRange", ref.table, row) : row \in D } = {}
  BY <1>3, <1>4, Zenon DEF Dangling
<1>6. D = {}
  <2>1. ASSUME NEW row \in D PROVE FALSE
    BY <1>5
  <2> QED BY <2>1
<1> QED BY <1>4, <1>6

\* Without a module there is nothing that could be unresolved in one.
LEMMA UnresolvedAreHeld ==
  ASSUME NEW t, AreColumns(t), Reader!Problems(t) = {}
  PROVE  HeldOnce(t, "unresolved_imports", "modules", "unresolved_start", "unresolved_count")
<1>1. /\ Reader!CheckColumnLengths(t) = {} /\ Reader!CheckModuleRanges(t) = {}
      /\ Reader!CheckHandles(t) = {}
  BY NothingIsReported
<1>3. /\ t.modules.unresolved_start \in Seq(Nat) /\ t.modules.unresolved_count \in Seq(Nat)
      /\ t.unresolved_imports.owner \in Seq(Nat)
  BY NumberedAre
<1>4. /\ Len(t.modules.unresolved_start) = Reader!Count(t, "modules")
      /\ Len(t.modules.unresolved_count) = Reader!Count(t, "modules")
      /\ Len(t.unresolved_imports.owner) = Reader!Count(t, "unresolved_imports")
  BY <1>1, LengthsAreCounts
<1>5. Reader!Count(t, "modules") \in Nat /\ Reader!Count(t, "unresolved_imports") \in Nat
  BY <1>3, <1>4
<1>6. CASE Reader!Count(t, "modules") # 0
  <2>1. Reader!CheckRanges("UnresolvedImportRangeMismatch", "modules",
                     Reader!Count(t, "modules"), t.modules.unresolved_start,
                     t.modules.unresolved_count,
                     Reader!Count(t, "unresolved_imports")) = {}
    BY <1>1, <1>6 DEF Reader!CheckModuleRanges
  <2>2. Tiles(t.modules.unresolved_start, t.modules.unresolved_count, Reader!Count(t, "modules"),
             Reader!Count(t, "unresolved_imports"))
    BY <1>3, <1>4, <1>5, <2>1, RangesAreChecked
  <2> QED BY <2>2, HeldByOne
<1>7. CASE Reader!Count(t, "modules") = 0
  <2>1. PICK ref : ref = Reader!Required("unresolved_imports", "owner", "modules")
    BY Zenon
  <2>2. /\ ref.table = "unresolved_imports" /\ ref.column = "owner"
        /\ ref.target = "modules" /\ ref.optional = FALSE
    BY <2>1 DEF Reader!Required
  <2>3. ref \in Reader!References
    BY <2>1, Zenon DEF Reader!References
  <2>4. \A row \in Reader!Rows(t[ref.table][ref.column]) :
          ~ Reader!Dangles(t, ref, Reader!At(t[ref.table][ref.column], row))
    BY <1>1, <2>3, HandlesAreRows
  <2>5. ASSUME NEW row \in 0 .. Reader!Count(t, "unresolved_imports") - 1 PROVE FALSE
    <3>1. row \in Reader!Rows(t.unresolved_imports.owner)
      BY <1>4, <2>5 DEF Reader!Rows
    <3>2. Reader!At(t.unresolved_imports.owner, row) \in Nat
      BY <1>3, <1>4, <1>5, <2>5, SMTT(30) DEF Reader!At
    <3>3. Reader!Dangles(t, ref, Reader!At(t.unresolved_imports.owner, row))
      BY <1>7, <2>2, <3>2 DEF Reader!Dangles
    <3> QED BY <2>2, <2>4, <3>1, <3>3
  <2> QED BY <2>5 DEF HeldOnce, Reader!RowsIn
<1> QED BY <1>6, <1>7

CallsTogether(calls) ==
  \A i, j, k \in Reader!Rows(calls) :
    i < j /\ j < k /\ Reader!At(calls, i) = Reader!At(calls, k)
      => Reader!At(calls, j) = Reader!At(calls, i)

LEMMA CallsAreTogether ==
  ASSUME NEW t, AreColumns(t), Reader!Problems(t) = {}
  PROVE  CallsTogether(t.calls.caller)
<1>1. Reader!CheckCallOrder(t) = {}
  BY NothingIsReported
<1>2. t.calls.caller \in Seq(Nat)
  BY NumberedAre
<1>3. PICK calls : calls = t.calls.caller
  OBVIOUS
<1>4. Reader!Descents(calls) = {}
  BY <1>1, <1>3, Zenon DEF Reader!CheckCallOrder
<1>5. \A i, j \in 0 .. Len(calls) - 1 :
        i =< j => Reader!At(calls, i) =< Reader!At(calls, j)
  BY <1>2, <1>3, <1>4, SortedIsTogether
<1>6. \A i \in 0 .. Len(calls) - 1 : Reader!At(calls, i) \in Nat
  BY <1>2, <1>3 DEF Reader!At
<1>7. ASSUME NEW i \in 0 .. Len(calls) - 1, NEW j \in 0 .. Len(calls) - 1,
             NEW k \in 0 .. Len(calls) - 1,
             i < j, j < k, Reader!At(calls, i) = Reader!At(calls, k)
      PROVE  Reader!At(calls, j) = Reader!At(calls, i)
  <2>1. Reader!At(calls, i) =< Reader!At(calls, j) /\ Reader!At(calls, j) =< Reader!At(calls, k)
    BY <1>2, <1>3, <1>5, <1>7
  <2> QED BY <1>6, <1>7, <2>1
<1> QED BY <1>3, <1>7 DEF CallsTogether, Reader!Rows

\* The row of the parameter that an allocator is.
AllocatorsAreRows(t) ==
  \A row \in Reader!RowsIn(t, "allocator_sources") :
    Reader!At(t.allocator_sources.kind, row) = "Parameter" =>
      Reader!At(t.functions.parameter_start, Reader!At(t.allocator_sources.function, row))
        + Reader!At(t.allocator_sources.parameter_index, row)
        \in Reader!ParametersOf(t, Reader!At(t.allocator_sources.function, row))
              \cap Reader!RowsIn(t, "parameters")

LEMMA AllocatorsAre ==
  ASSUME NEW t, AreColumns(t), Reader!Problems(t) = {}
  PROVE  AllocatorsAreRows(t)
<1>1. Reader!CheckColumnLengths(t) = {} /\ Reader!CheckParameterIndices(t) = {}
  BY NothingIsReported
<1>2. PICK owners, rows, starts, counts :
        /\ owners = Reader!Count(t, "functions") /\ rows = Reader!Count(t, "parameters")
        /\ starts = t.functions.parameter_start /\ counts = t.functions.parameter_count
  OBVIOUS
<1>3. Tiles(starts, counts, owners, rows)
  BY <1>2, ParametersAreHeld
<1>4. /\ owners \in Nat /\ rows \in Nat /\ starts \in Seq(Nat) /\ counts \in Seq(Nat)
      /\ Len(starts) = owners /\ Len(counts) = owners
  BY <1>3 DEF Tiles
<1>5. PICK kinds, functions, places :
        /\ kinds = t.allocator_sources.kind /\ functions = t.allocator_sources.function
        /\ places = t.allocator_sources.parameter_index
  OBVIOUS
<1>6. /\ functions \in Seq(Nat) /\ places \in Seq(Nat)
      /\ Len(kinds) = Len(functions) /\ Len(places) = Len(functions)
      /\ Reader!Count(t, "allocator_sources") = Len(functions)
  BY <1>1, <1>5, NumberedAre, LengthsAreCounts
<1>7. \A row \in Reader!Rows(kinds) :
        ~ ( /\ Reader!At(kinds, row) = "Parameter"
            /\ Reader!Has(functions, row) /\ Reader!Has(places, row)
            /\ ~ Reader!NamesAParameter(t, Reader!At(functions, row), Reader!At(places, row)) )
  BY <1>1, <1>5 DEF Reader!CheckParameterIndices
<1>8. ASSUME NEW row \in 0 .. Len(functions) - 1, Reader!At(kinds, row) = "Parameter"
      PROVE  Reader!At(starts, Reader!At(functions, row)) + Reader!At(places, row)
               \in (Reader!At(starts, Reader!At(functions, row))
                     .. Reader!Ends(starts, counts, Reader!At(functions, row)) - 1)
                   \cap (0 .. rows - 1)
  <2>1. PICK f, p : f = Reader!At(functions, row) /\ p = Reader!At(places, row)
    OBVIOUS
  <2>2. row \in Reader!Rows(kinds) /\ Reader!Has(functions, row) /\ Reader!Has(places, row)
    BY <1>6, <1>8 DEF Reader!Rows, Reader!Has
  <2>3. Reader!NamesAParameter(t, f, p)
    BY <1>7, <1>8, <2>1, <2>2
  <2>4. f \in Nat /\ p \in Nat
    BY <1>6, <1>8, <2>1 DEF Reader!At
  <2>5. f < owners /\ p < Reader!At(counts, f)
    BY <1>2, <1>4, <2>3 DEF Reader!NamesAParameter, Reader!Has
  <2>6. f \in 0 .. owners - 1
    BY <1>4, <2>4, <2>5
  <2>7. Reader!At(counts, f) \in Nat
    BY <1>4, <2>6 DEF Reader!At
  <2>8. /\ Reader!At(starts, f) \in Nat /\ Reader!Ends(starts, counts, f) \in Nat
    BY <1>3, <2>6, RangesInARow
  <2>9. Reader!Ends(starts, counts, f) = Reader!At(starts, f) + Reader!At(counts, f)
    BY DEF Reader!Ends
  <2>10. Reader!Ends(starts, counts, f) =< rows
    BY <1>3, <2>6, RowsAreHeldOnce
  <2>11. Reader!At(starts, f) + p \in
           (Reader!At(starts, f) .. Reader!Ends(starts, counts, f) - 1) \cap (0 .. rows - 1)
    BY <1>4, <2>4, <2>5, <2>7, <2>8, <2>9, <2>10, SMTT(30)
  <2> QED BY <2>1, <2>11
<1> QED BY <1>2, <1>5, <1>6, <1>8
      DEF AllocatorsAreRows, Reader!ParametersOf, Reader!RowsOf, Reader!RowsIn

-----------------------------------------------------------------------------
(* Lists of columns.                                                       *)

\* A sequence, and one that has something.
IsList(s) == \E S : s \in Seq(S)
In(s, x) == IsList(s) /\ \E i \in 1 .. Len(s) : s[i] = x

LEMMA OfTable ==
  ASSUME NEW table, NEW names, NEW n \in Nat, DOMAIN names = 1 .. n
  PROVE  /\ IsList(Of(table, names))
         /\ \A i \in 1 .. n : In(Of(table, names), <<table, names[i]>>)
<1>1. PICK S : S = { <<table, names[i]>> : i \in 1 .. n }
  BY Zenon
<1>2. PICK s : s = [i \in 1 .. n |-> <<table, names[i]>>]
  OBVIOUS
<1>3. s \in Seq(S) /\ Len(s) = n /\ \A i \in 1 .. n : s[i] = <<table, names[i]>>
  BY <1>1, <1>2
<1>4. s = Of(table, names)
  BY <1>2, Zenon DEF Of
<1>5. IsList(s)
  BY <1>3, Zenon DEF IsList
<1> QED BY <1>3, <1>4, <1>5 DEF In

LEMMA InEither ==
  ASSUME NEW s, NEW t, IsList(s), IsList(t)
  PROVE  /\ IsList(s \o t)
         /\ \A x : In(s, x) \/ In(t, x) => In(s \o t, x)
<1>0. PICK S, T : s \in Seq(S) /\ t \in Seq(T)
  BY DEF IsList
<1> DEFINE V == S \cup T
<1>1. S \subseteq V /\ T \subseteq V
  OBVIOUS
<1> HIDE DEF V
<1>2. s \in Seq(V) /\ t \in Seq(V)
  BY <1>0, <1>1, SeqMonotonic
<1>3. s \o t \in Seq(V) /\ Len(s \o t) = Len(s) + Len(t) /\ Len(s) \in Nat /\ Len(t) \in Nat
  BY <1>2
<1>4. ASSUME NEW i \in 1 .. Len(s)
      PROVE i \in 1 .. Len(s \o t) /\ (s \o t)[i] = s[i]
  BY <1>2, <1>3
<1>5. ASSUME NEW i \in 1 .. Len(t)
      PROVE Len(s) + i \in 1 .. Len(s \o t) /\ (s \o t)[Len(s) + i] = t[i]
  BY <1>2, <1>3
<1>6. IsList(s \o t)
  BY <1>3, Zenon DEF IsList
<1> QED BY <1>4, <1>5, <1>6, Zenon DEF In

\* The columns that validation counts with are in the file.
LEMMA CountedColumns ==
  /\ In(ReadOrder, <<"strings", "bytes">>) /\ In(ReadOrder, <<"strings", "offsets">>)
  /\ In(ReadOrder, <<"modules", "unresolved_start">>)
  /\ In(ReadOrder, <<"modules", "unresolved_count">>)
  /\ In(ReadOrder, <<"unresolved_imports", "owner">>)
  /\ In(ReadOrder, <<"structs", "field_start">>)
  /\ In(ReadOrder, <<"structs", "field_count">>)
  /\ In(ReadOrder, <<"fields", "owner">>)
  /\ In(ReadOrder, <<"functions", "parameter_start">>)
  /\ In(ReadOrder, <<"functions", "parameter_count">>)
  /\ In(ReadOrder, <<"parameters", "owner">>)
  /\ In(ReadOrder, <<"allocator_sources", "function">>)
  /\ In(ReadOrder, <<"allocator_sources", "parameter_index">>)
  /\ In(ReadOrder, <<"calls", "caller">>)
<1>1. IsList(Strings) /\ In(Strings, <<"strings", "bytes">>)
      /\ In(Strings, <<"strings", "offsets">>)
  <2> DEFINE a == <<"bytes", "offsets">>
  <2>1. DOMAIN a = 1 .. 2 /\ a[1] = "bytes" /\ a[2] = "offsets"
    OBVIOUS
  <2>2. Strings = Of("strings", a)
    BY DEF Strings
  <2> HIDE DEF a
  <2>3. IsList(Of("strings", a)) /\ \A i \in 1 .. 2 : In(Of("strings", a), <<"strings", a[i]>>)
    BY <2>1, OfTable
  <2>4. In(Strings, <<"strings", a[1]>>) /\ In(Strings, <<"strings", a[2]>>)
    BY <2>2, <2>3
  <2> QED BY <2>1, <2>2, <2>3, <2>4
<1>2. /\ IsList(ReadModules) /\ In(ReadModules, <<"modules", "unresolved_start">>)
      /\ In(ReadModules, <<"modules", "unresolved_count">>)
      /\ In(ReadModules, <<"unresolved_imports", "owner">>)
  <2> DEFINE a == <<"name", "path", "unresolved_start", "unresolved_count">>
             b == <<"owner", "name">>
             c == <<"name", "root", "kind">>
  <2>1. DOMAIN a = 1 .. 4 /\ a[3] = "unresolved_start" /\ a[4] = "unresolved_count"
    OBVIOUS
  <2>2. DOMAIN b = 1 .. 2 /\ b[1] = "owner"
    OBVIOUS
  <2>3. DOMAIN c = 1 .. 3
    OBVIOUS
  <2>4. ReadModules = Of("modules", a) \o Of("unresolved_imports", b) \o Of("artifacts", c)
    BY DEF ReadModules
  <2> HIDE DEF a, b, c
  <2>5. IsList(Of("modules", a)) /\ \A i \in 1 .. 4 : In(Of("modules", a), <<"modules", a[i]>>)
    BY <2>1, <2>2, <2>3, OfTable
  <2>6. In(Of("modules", a), <<"modules", a[3]>>) /\ In(Of("modules", a), <<"modules", a[4]>>)
    BY <2>5
  <2>7. IsList(Of("unresolved_imports", b)) /\ \A i \in 1 .. 2 : In(Of("unresolved_imports", b), <<"unresolved_imports", b[i]>>)
    BY <2>1, <2>2, <2>3, OfTable
  <2>8. In(Of("unresolved_imports", b), <<"unresolved_imports", b[1]>>)
    BY <2>7
  <2>9. IsList(Of("artifacts", c)) /\ \A i \in 1 .. 3 : In(Of("artifacts", c), <<"artifacts", c[i]>>)
    BY <2>1, <2>2, <2>3, OfTable
  <2>10. /\ IsList(Of("modules", a)) /\ IsList(Of("unresolved_imports", b))
        /\ IsList(Of("artifacts", c))
        /\ In(Of("modules", a), <<"modules", "unresolved_start">>)
        /\ In(Of("modules", a), <<"modules", "unresolved_count">>)
        /\ In(Of("unresolved_imports", b), <<"unresolved_imports", "owner">>)
    BY <2>1, <2>2, <2>5, <2>6, <2>7, <2>8, <2>9
  <2> QED BY <2>4, <2>10, InEither
<1>3. IsList(ReadTypes)
  <2> DEFINE a == <<"kind", "element", "count", "module", "name", "size", "alignment",
                    "bit_width", "flags">>
  <2>1. DOMAIN a = 1 .. 9
    OBVIOUS
  <2> QED BY <2>1, OfTable DEF ReadTypes
<1>4. /\ IsList(ReadStructs) /\ In(ReadStructs, <<"structs", "field_start">>)
      /\ In(ReadStructs, <<"structs", "field_count">>)
  <2> DEFINE a == <<"name", "module", "type_id", "field_start", "field_count", "size",
                    "alignment", "flags", "deinit", "kind">>
  <2>1. DOMAIN a = 1 .. 10 /\ a[4] = "field_start" /\ a[5] = "field_count"
    OBVIOUS
  <2>2. ReadStructs = Of("structs", a)
    BY DEF ReadStructs
  <2> HIDE DEF a
  <2>3. IsList(Of("structs", a)) /\ \A i \in 1 .. 10 : In(Of("structs", a), <<"structs", a[i]>>)
    BY <2>1, OfTable
  <2>4. In(ReadStructs, <<"structs", a[4]>>) /\ In(ReadStructs, <<"structs", a[5]>>)
    BY <2>2, <2>3
  <2> QED BY <2>1, <2>2, <2>3, <2>4
<1>5. IsList(ReadFields) /\ In(ReadFields, <<"fields", "owner">>)
  <2> DEFINE a == <<"owner", "name", "field_type", "offset">>
  <2>1. DOMAIN a = 1 .. 4 /\ a[1] = "owner"
    OBVIOUS
  <2>2. ReadFields = Of("fields", a)
    BY DEF ReadFields
  <2> HIDE DEF a
  <2>3. IsList(Of("fields", a)) /\ \A i \in 1 .. 4 : In(Of("fields", a), <<"fields", a[i]>>)
    BY <2>1, OfTable
  <2>4. In(ReadFields, <<"fields", a[1]>>)
    BY <2>2, <2>3
  <2> QED BY <2>1, <2>2, <2>3, <2>4
<1>6. /\ IsList(ReadFunctions) /\ In(ReadFunctions, <<"functions", "parameter_start">>)
      /\ In(ReadFunctions, <<"functions", "parameter_count">>)
      /\ In(ReadFunctions, <<"parameters", "owner">>)
  <2> DEFINE a == <<"name", "module", "owner", "parameter_start", "parameter_count",
                    "returns", "error_set", "flags", "line", "body">>
             b == <<"owner", "name", "parameter_type", "flags">>
  <2>1. DOMAIN a = 1 .. 10 /\ a[4] = "parameter_start" /\ a[5] = "parameter_count"
    OBVIOUS
  <2>2. DOMAIN b = 1 .. 4 /\ b[1] = "owner"
    OBVIOUS
  <2>3. ReadFunctions = Of("functions", a) \o Of("parameters", b)
    BY DEF ReadFunctions
  <2> HIDE DEF a, b
  <2>4. IsList(Of("functions", a)) /\ \A i \in 1 .. 10 : In(Of("functions", a), <<"functions", a[i]>>)
    BY <2>1, <2>2, OfTable
  <2>5. In(Of("functions", a), <<"functions", a[4]>>) /\ In(Of("functions", a), <<"functions", a[5]>>)
    BY <2>4
  <2>6. IsList(Of("parameters", b)) /\ \A i \in 1 .. 4 : In(Of("parameters", b), <<"parameters", b[i]>>)
    BY <2>1, <2>2, OfTable
  <2>7. In(Of("parameters", b), <<"parameters", b[1]>>)
    BY <2>6
  <2>8. /\ IsList(Of("functions", a)) /\ IsList(Of("parameters", b))
        /\ In(Of("functions", a), <<"functions", "parameter_start">>)
        /\ In(Of("functions", a), <<"functions", "parameter_count">>)
        /\ In(Of("parameters", b), <<"parameters", "owner">>)
    BY <2>1, <2>2, <2>4, <2>5, <2>6, <2>7
  <2> QED BY <2>3, <2>8, InEither
<1>7. /\ IsList(ReadCalls) /\ In(ReadCalls, <<"allocator_sources", "function">>)
      /\ In(ReadCalls, <<"allocator_sources", "parameter_index">>)
      /\ In(ReadCalls, <<"calls", "caller">>)
  <2> DEFINE a == <<"kind", "function", "parameter_index">>
             b == <<"caller", "callee">>
             c == <<"call", "parameter_index", "source">>
  <2>1. DOMAIN a = 1 .. 3 /\ a[2] = "function" /\ a[3] = "parameter_index"
    OBVIOUS
  <2>2. DOMAIN b = 1 .. 2 /\ b[1] = "caller"
    OBVIOUS
  <2>3. DOMAIN c = 1 .. 3
    OBVIOUS
  <2>4. ReadCalls = Of("allocator_sources", a) \o Of("calls", b) \o Of("call_arguments", c)
    BY DEF ReadCalls
  <2> HIDE DEF a, b, c
  <2>5. IsList(Of("allocator_sources", a)) /\ \A i \in 1 .. 3 : In(Of("allocator_sources", a), <<"allocator_sources", a[i]>>)
    BY <2>1, <2>2, <2>3, OfTable
  <2>6. In(Of("allocator_sources", a), <<"allocator_sources", a[2]>>) /\ In(Of("allocator_sources", a), <<"allocator_sources", a[3]>>)
    BY <2>5
  <2>7. IsList(Of("calls", b)) /\ \A i \in 1 .. 2 : In(Of("calls", b), <<"calls", b[i]>>)
    BY <2>1, <2>2, <2>3, OfTable
  <2>8. In(Of("calls", b), <<"calls", b[1]>>)
    BY <2>7
  <2>9. IsList(Of("call_arguments", c)) /\ \A i \in 1 .. 3 : In(Of("call_arguments", c), <<"call_arguments", c[i]>>)
    BY <2>1, <2>2, <2>3, OfTable
  <2>10. /\ IsList(Of("allocator_sources", a)) /\ IsList(Of("calls", b))
        /\ IsList(Of("call_arguments", c))
        /\ In(Of("allocator_sources", a), <<"allocator_sources", "function">>)
        /\ In(Of("allocator_sources", a), <<"allocator_sources", "parameter_index">>)
        /\ In(Of("calls", b), <<"calls", "caller">>)
    BY <2>1, <2>2, <2>5, <2>6, <2>7, <2>8, <2>9
  <2> QED BY <2>4, <2>10, InEither
<1>8. IsList(ReadMemory)
  <2> DEFINE a == <<"function", "kind", "allocator", "place", "place_field">>
             b == <<"kind", "text", "parameter", "result", "field", "line",
                    "child_start", "child_count", "children">>
             c == <<"field", "function", "source", "memory_operation", "expression", "line">>
  <2>1. DOMAIN a = 1 .. 5 /\ DOMAIN b = 1 .. 9 /\ DOMAIN c = 1 .. 6
    OBVIOUS
  <2>2. ReadMemory = Of("memory_operations", a) \o Of("expressions", b) \o Of("field_assignments", c)
    BY DEF ReadMemory
  <2> HIDE DEF a, b, c
  <2>3. /\ IsList(Of("memory_operations", a)) /\ IsList(Of("expressions", b))
        /\ IsList(Of("field_assignments", c))
    BY <2>1, OfTable
  <2> QED BY <2>2, <2>3, InEither
<1>9. PICK two, three, four, five, six, seven :
        /\ two = Strings \o ReadModules /\ three = two \o ReadTypes
        /\ four = three \o ReadStructs /\ five = four \o ReadFields
        /\ six = five \o ReadFunctions /\ seven = six \o ReadCalls
  OBVIOUS
<1>10. ReadOrder = seven \o ReadMemory
  BY <1>9, Zenon DEF ReadOrder
<1>11. IsList(two) /\ \A x : In(Strings, x) \/ In(ReadModules, x) => In(two, x)
  BY <1>1, <1>2, <1>9, InEither
<1>12. IsList(three) /\ \A x : In(two, x) => In(three, x)
  BY <1>3, <1>9, <1>11, InEither
<1>13. IsList(four) /\ \A x : In(three, x) \/ In(ReadStructs, x) => In(four, x)
  BY <1>4, <1>9, <1>12, InEither
<1>14. IsList(five) /\ \A x : In(four, x) \/ In(ReadFields, x) => In(five, x)
  BY <1>5, <1>9, <1>13, InEither
<1>15. IsList(six) /\ \A x : In(five, x) \/ In(ReadFunctions, x) => In(six, x)
  BY <1>6, <1>9, <1>14, InEither
<1>16. IsList(seven) /\ \A x : In(six, x) \/ In(ReadCalls, x) => In(seven, x)
  BY <1>7, <1>9, <1>15, InEither
<1>17. \A x : In(seven, x) => In(ReadOrder, x)
  BY <1>8, <1>10, <1>16, InEither
<1> QED BY <1>1, <1>2, <1>4, <1>5, <1>6, <1>7, <1>11, <1>12, <1>13, <1>14, <1>15,
           <1>16, <1>17

-----------------------------------------------------------------------------
(* What is decoded from a file.                                            *)

\* What is decoded from a file: columns of numbers, and texts that are between two
\* of the offsets.
FromFile(from) ==
  /\ from.kind = "File"
  /\ AreColumns(from.tables)
  /\ from.target \in Nat
  /\ from.columns[<<"strings", "offsets">>] \in Seq(Nat)
  /\ Len(from.columns[<<"strings", "bytes">>]) \in Nat
  /\ \A row \in Reader!RowsIn(from.tables, "strings") :
       row \in Nat /\ row + 1 < Len(from.columns[<<"strings", "offsets">>])

\* A column that is counted with is one of numbers, and of a table.
LEMMA NumberedColumns ==
  ASSUME NEW name \in Numbered
  PROVE  /\ name \in Column /\ ~ IsOfKinds(name)
         /\ name # <<"strings", "text">> /\ name # <<"parameters", "allocator">>
         /\ name = <<name[1], name[2]>>
         /\ name[1] \in Reader!Table /\ name[2] \in ToSet(Reader!Columns[name[1]])
<1>1. name \in Column
  <2>1. In(ReadOrder, name)
    BY CountedColumns DEF Numbered
  <2> QED BY <2>1, OrdersAgree, ColumnNames DEF In
<1>2. ~ IsOfKinds(name)
  BY DEF IsOfKinds, KindNames, Numbered
<1>3. /\ {"modules", "unresolved_imports", "structs", "fields", "functions", "parameters",
          "allocator_sources", "calls"} \subseteq Reader!Table
      /\ {"unresolved_start", "unresolved_count"} \subseteq ToSet(Reader!Columns["modules"])
      /\ "owner" \in ToSet(Reader!Columns["unresolved_imports"])
      /\ {"field_start", "field_count"} \subseteq ToSet(Reader!Columns["structs"])
      /\ "owner" \in ToSet(Reader!Columns["fields"])
      /\ {"parameter_start", "parameter_count"} \subseteq ToSet(Reader!Columns["functions"])
      /\ "owner" \in ToSet(Reader!Columns["parameters"])
      /\ {"function", "parameter_index"} \subseteq ToSet(Reader!Columns["allocator_sources"])
      /\ "caller" \in ToSet(Reader!Columns["calls"])
  BY DEF Reader!Table, Reader!Columns, ToSet
<1> QED BY <1>1, <1>2, <1>3 DEF Numbered

LEMMA DecodedIsFromFile ==
  ASSUME Fits(read)
  PROVE  FromFile(Decoded)
<1>1. /\ read.target \in Words /\ \A name \in Column : read.columns[name] \in Seq(Nat)
  BY DEF Fits
<1>2. PICK d : d = Decoded
  OBVIOUS
<1>3. /\ d.kind = "File" /\ d.target = read.target /\ d.columns = read.columns
  BY <1>2 DEF Decoded
<1>4. read.target \in Nat
  BY <1>1 DEF Words
<1>5. ASSUME NEW name \in Numbered
      PROVE  d.tables[name[1]][name[2]] \in Seq(Nat)
  <2>1. PICK table, column_ : table = name[1] /\ column_ = name[2]
    OBVIOUS
  <2>2. /\ name \in Column /\ ~ IsOfKinds(name)
        /\ name # <<"strings", "text">> /\ name # <<"parameters", "allocator">>
        /\ name = <<table, column_>>
        /\ table \in Reader!Table /\ column_ \in ToSet(Reader!Columns[table])
    BY <2>1, NumberedColumns
  <2>3. d.tables[table][column_] = read.columns[name]
    <3>1. d.tables[table][column_] = DecodedCells(name)
      BY <1>2, <2>2 DEF Decoded
    <3> QED BY <2>2, <3>1 DEF DecodedCells
  <2> QED BY <1>1, <2>1, <2>2, <2>3
<1>6. /\ <<"strings", "offsets">> \in Column /\ <<"strings", "bytes">> \in Column
  BY CountedColumns, OrdersAgree, ColumnNames DEF In
<1>7. PICK offsets : offsets = read.columns[<<"strings", "offsets">>]
  OBVIOUS
<1>8. offsets \in Seq(Nat) /\ Len(read.columns[<<"strings", "bytes">>]) \in Nat
  <2>1. read.columns[<<"strings", "bytes">>] \in Seq(Nat)
    BY <1>1, <1>6
  <2> QED BY <1>1, <1>6, <1>7, <2>1
<1>9. \A row \in Reader!RowsIn(d.tables, "strings") : row \in Nat /\ row + 1 < Len(offsets)
  <2>1. PICK n : n = Len(offsets) /\ n \in Nat
    BY <1>8
  <2>2. "strings" \in Reader!Table /\ "text" \in ToSet(Reader!Columns["strings"])
        /\ Head(Reader!Columns["strings"]) = "text"
    BY DEF Reader!Table, Reader!Columns, ToSet
  <2>3. d.tables["strings"]["text"] = [ i \in 1 .. n - 1 |-> i - 1 ]
    <3>1. PICK cells : cells = [ i \in 1 .. Len(read.columns[<<"strings", "offsets">>]) - 1 |-> i - 1 ]
      BY Zenon
    <3>2. d.tables["strings"]["text"] = DecodedCells(<<"strings", "text">>)
      BY <1>2, <2>2 DEF Decoded
    <3>3. DecodedCells(<<"strings", "text">>) = cells
      <4>1. ~ IsOfKinds(<<"strings", "text">>)
        BY DEF IsOfKinds, KindNames
      <4> QED BY <3>1, <4>1 DEF DecodedCells
    <3> QED BY <1>7, <2>1, <3>1, <3>2, <3>3, Zenon
  <2>4. CASE n = 0
    <3>1. [ i \in 1 .. n - 1 |-> i - 1 ] = << >>
      BY <2>4
    <3>2. Reader!Count(d.tables, "strings") = 0
      <4>1. d.tables["strings"][Head(Reader!Columns["strings"])] = << >>
        BY <2>2, <2>3, <3>1, Zenon
      <4>2. Len(<< >>) = 0
        OBVIOUS
      <4> QED BY <4>1, <4>2, Zenon DEF Reader!Count
    <3> QED BY <3>2 DEF Reader!RowsIn
  <2>5. CASE n # 0
    <3>1. n - 1 \in Nat /\ \A i \in 1 .. n - 1 : i - 1 \in Nat
      BY <2>1, <2>5
    <3>2. PICK text : text = [ i \in 1 .. n - 1 |-> i - 1 ]
      OBVIOUS
    <3>3. text \in Seq(Nat) /\ Len(text) = n - 1
      BY <3>1, <3>2
    <3>4. Reader!Count(d.tables, "strings") = n - 1
      BY <2>2, <2>3, <3>2, <3>3 DEF Reader!Count
    <3> QED BY <2>1, <3>1, <3>4 DEF Reader!RowsIn
  <2> QED BY <2>4, <2>5
<1>10. AreColumns(d.tables)
  BY <1>5 DEF AreColumns
<1> QED BY <1>2, <1>3, <1>4, <1>7, <1>8, <1>9, <1>10 DEF FromFile

\* The bytes of a text are between its offset and the next.
TextsAreThere(from) ==
  \A text \in Reader!RowsIn(from.tables, "strings") \cup ({from.target} \ {NoIndex}) :
    /\ Reader!At(from.columns[<<"strings", "offsets">>], text)
         =< Reader!At(from.columns[<<"strings", "offsets">>], text + 1)
    /\ Reader!At(from.columns[<<"strings", "offsets">>], text + 1)
         =< Len(from.columns[<<"strings", "bytes">>])

LEMMA TextsAre ==
  ASSUME NEW from, FromFile(from), Reader!FileProblems(from.columns, from.target) = {}
  PROVE  TextsAreThere(from)
<1>1. PICK offsets, bytes, target :
        /\ offsets = from.columns[<<"strings", "offsets">>]
        /\ bytes = from.columns[<<"strings", "bytes">>] /\ target = from.target
  OBVIOUS
<1>2. /\ Reader!CheckStrings(bytes, offsets) = {} /\ Reader!CheckTarget(target, offsets) = {}
  BY <1>1 DEF Reader!FileProblems
<1>3. /\ offsets \in Seq(Nat) /\ Len(bytes) \in Nat /\ target \in Nat
      /\ \A row \in Reader!RowsIn(from.tables, "strings") :
           row \in Nat /\ row + 1 < Len(offsets)
  BY <1>1 DEF FromFile
<1>4. target # NoIndex => target + 1 < Len(offsets)
  <2> SUFFICES ASSUME target # NoIndex, ~ (target + 1 < Len(offsets)) PROVE FALSE
    OBVIOUS
  <2>1. target + 1 >= Len(offsets)
    BY <1>3
  <2>2. PICK D : D = { handle \in {target} \ {NoIndex} : handle + 1 >= Len(offsets) }
    BY Zenon
  <2>3. target \in D
    BY <2>1, <2>2
  <2>4. { Reader!Problem("HandleOutOfRange", "tables", 0) : handle \in D } = {}
    BY <1>2, <2>2, Zenon DEF Reader!CheckTarget
  <2> QED BY <2>3, <2>4
<1>5. ASSUME NEW text \in Nat, text + 1 < Len(offsets)
      PROVE  /\ Reader!At(offsets, text) =< Reader!At(offsets, text + 1)
             /\ Reader!At(offsets, text + 1) =< Len(bytes)
  <2>1. offsets # << >>
    BY <1>3, <1>5
  <2>2. PICK D : D = Reader!Descents(offsets)
    OBVIOUS
  <2>3. PICK E : E = { row \in Reader!Rows(offsets) \ {0} : Reader!At(offsets, row) > Len(bytes) }
    BY Zenon
  <2>4. { Reader!Problem("StringOffsetsNotMonotonic", "strings", row) :
            row \in D \cup { row \in {0} : Head(offsets) # 0 } } = {}
        /\ { Reader!Problem("StringOffsetOutOfRange", "strings", row) : row \in E } = {}
    BY <1>2, <2>1, <2>2, <2>3 DEF Reader!CheckStrings
  <2>5. \A row : row \notin D /\ row \notin E
    BY <2>4
  <2>6. text + 1 \in Reader!Rows(offsets) /\ text + 1 > 0 /\ text + 1 # 0
        /\ (text + 1) - 1 = text
    BY <1>3, <1>5 DEF Reader!Rows
  <2>7. /\ ~ (Reader!At(offsets, text + 1) < Reader!At(offsets, text))
        /\ ~ (Reader!At(offsets, text + 1) > Len(bytes))
    BY <2>2, <2>3, <2>5, <2>6 DEF Reader!Descents
  <2>8. Reader!At(offsets, text) \in Nat /\ Reader!At(offsets, text + 1) \in Nat
    BY <1>3, <1>5 DEF Reader!At
  <2> QED BY <1>3, <2>7, <2>8
<1>6. \A text \in Reader!RowsIn(from.tables, "strings") \cup ({target} \ {NoIndex}) :
        text \in Nat /\ text + 1 < Len(offsets)
  BY <1>3, <1>4
<1> QED BY <1>1, <1>5, <1>6, Zenon DEF TextsAreThere

\* Tables without a problem are readable, whatever they were made from.
LEMMA ReadableTables ==
  ASSUME AreColumns(built.tables), Reader!Problems(built.tables) = {},
         Reader!FromProject \/ TextsAreThere(source), built.tables = source.tables \/ Reader!FromProject
  PROVE  ValidatedIsReadable
<1>1. PICK t : t = built.tables
  OBVIOUS
<1>2. /\ HeldOnce(t, "fields", "structs", "field_start", "field_count")
      /\ HeldOnce(t, "parameters", "functions", "parameter_start", "parameter_count")
      /\ HeldOnce(t, "unresolved_imports", "modules", "unresolved_start", "unresolved_count")
      /\ CallsTogether(t.calls.caller)
      /\ AllocatorsAreRows(t)
  BY <1>1, FieldsAreHeld, ParametersAreHeld, UnresolvedAreHeld, CallsAreTogether, AllocatorsAre
<1>3. /\ \A row \in Reader!RowsIn(t, "fields") :
           Reader!Cardinality({ owner \in Reader!RowsIn(t, "structs") :
                                  row \in Reader!FieldsOf(t, owner) }) = 1
      /\ \A row \in Reader!RowsIn(t, "parameters") :
           Reader!Cardinality({ owner \in Reader!RowsIn(t, "functions") :
                                  row \in Reader!ParametersOf(t, owner) }) = 1
      /\ \A row \in Reader!RowsIn(t, "unresolved_imports") :
           Reader!Cardinality({ owner \in Reader!RowsIn(t, "modules") :
                                  row \in Reader!UnresolvedOf(t, owner) }) = 1
  BY <1>2 DEF HeldOnce, Reader!FieldsOf, Reader!ParametersOf, Reader!UnresolvedOf
<1>4. Reader!FromProject \/ (TextsAreThere(source) /\ t = source.tables)
  BY <1>1, Zenon
<1> QED BY <1>1, <1>2, <1>3, <1>4
      DEF ValidatedIsReadable, Reader!ValidatedIsReadable, CallsTogether, AllocatorsAreRows,
          TextsAreThere

-----------------------------------------------------------------------------
(* Loops, turn by turn.                                                    *)

\* The last of some numbers.
LEMMA LastOfSome ==
  ASSUME NEW n \in Nat, NEW s \in SUBSET (1 .. n), s # {}
  PROVE  Reader!Max(s) \in s /\ \A k \in s : k =< Reader!Max(s)
<1> DEFINE D == { n - k : k \in s }
<1>1. D \in SUBSET Nat /\ D # {}
  OBVIOUS
<1>2. PICK d \in D : \A k \in D : d =< k
  BY <1>1, LeastNatural, Zenon
<1>3. PICK m \in s : d = n - m
  BY <1>2
<1>4. \A k \in s : m >= k
  <2> TAKE k \in s
  <2>1. n - k \in D
    OBVIOUS
  <2>2. n - m =< n - k
    BY <1>2, <1>3, <2>1
  <2> QED BY <2>2
<1> HIDE DEF D
<1>5. \E x \in s : \A y \in s : x >= y
  BY <1>4
<1>6. Reader!Max(s) \in s /\ \A y \in s : Reader!Max(s) >= y
  BY <1>5, Zenon DEF Reader!Max
<1> QED BY <1>6

\* What one turn of a loop of the frontend does to what is built.
Turn(loop, b, x) ==
  CASE loop.over = "unresolved"   -> Reader!NameUnresolved(b, x)
    [] loop.over = "wraps"        -> Reader!Wrap(b, x)
    [] loop.over = "containers"   -> Reader!DeclareContainer(b, x)
    [] loop.over = "structs"      -> Reader!DeclareStruct(b, x)
    [] loop.over = "members"      -> Reader!DeclareMember(b, x)
    [] loop.over = "functions"    -> Reader!DeclareFunction(b, x)
    [] loop.over = "parameters"   -> Reader!DeclareParameter(b, x)
    [] loop.over = "sources"      -> Reader!DeclareSourcesOf(b, x)
    [] loop.over = "source"       -> Reader!DeclareSource(loop.f, b, x)
    [] loop.over = "calls"        -> Reader!DeclareCallsOf(b, x)
    [] loop.over = "call"         -> Reader!DeclareCall(loop.f, b, x)
    [] loop.over = "allocators"   ->
         Reader!PassAllocator(loop.f, loop.call, loop.target, b, x)
    [] loop.over = "memory"       -> Reader!DeclareMemoryOf(b, x)
    [] loop.over = "initialisers" -> Reader!DeclareInitialiser(loop.f, b, x)
    [] loop.over = "frees"        -> Reader!DeclareFree(loop.f, b, x)
    [] loop.over = "bodies"       -> Reader!DeclareBody(b, x)
    [] loop.over = "elements"     -> Reader!At(loop.t.types.element, b)

\* What a fold of turns comes to for some of the turns, by which these are.
Turns(loop, b, xs, h) ==
  h = [ s \in SUBSET (DOMAIN xs) |->
          IF s = {} THEN b
          ELSE Turn(loop, h[s \ {Reader!Max(s)}], xs[Reader!Max(s)]) ]

\* There is something it comes to.
LEMMA TurnsThereAre ==
  ASSUME NEW loop, NEW b, NEW xs, NEW n \in Nat, DOMAIN xs = 1 .. n
  PROVE  \E h : Turns(loop, b, xs, h)
<1> DEFINE Comes(h, s) == IF s = {} THEN b
                         ELSE Turn(loop, h[s \ {Reader!Max(s)}], xs[Reader!Max(s)])
           Are(h, k) == h = [ s \in SUBSET (1 .. k) |-> Comes(h, s) ]
           Good == { k \in Nat : \E h : Are(h, k) }
<1>1. 0 \in Good
  <2> DEFINE h == [ s \in SUBSET (1 .. 0) |-> b ]
  <2>1. \A s \in SUBSET (1 .. 0) : s = {}
    OBVIOUS
  <2>2. h = [ s \in SUBSET (1 .. 0) |-> Comes(h, s) ]
    BY <2>1
  <2>3. Are(h, 0)
    BY <2>2
  <2> HIDE DEF h, Are
  <2>4. \E g : Are(g, 0)
    BY <2>3
  <2> QED BY <2>4
<1>2. ASSUME NEW k \in Nat, k \in Good PROVE k + 1 \in Good
  <2>1. PICK h : Are(h, k)
    BY <1>2, Zenon
  <2> DEFINE g == [ s \in SUBSET (1 .. k + 1) |->
                      IF k + 1 \in s THEN Turn(loop, h[s \ {k + 1}], xs[k + 1])
                                     ELSE h[s] ]
  <2>2. ASSUME NEW s \in SUBSET (1 .. k + 1)
        PROVE  g[s] = Comes(g, s)
    <3>1. CASE k + 1 \in s
      <4>1. Reader!Max(s) = k + 1
        <5>1. k + 1 \in Nat /\ s # {}
          BY <3>1
        <5>2. Reader!Max(s) \in s /\ \A i \in s : i =< Reader!Max(s)
          BY <5>1, LastOfSome, Zenon
        <5>3. Reader!Max(s) \in 1 .. k + 1 /\ k + 1 =< Reader!Max(s)
          BY <3>1, <5>2, Zenon
        <5> HIDE DEF g, Good, Comes, Are
        <5> QED BY <5>3
      <4>2. s \ {k + 1} \in SUBSET (1 .. k + 1) /\ k + 1 \notin s \ {k + 1} /\ s # {}
        BY <3>1
      <4>3. g[s \ {k + 1}] = h[s \ {k + 1}]
        BY <4>2
      <4>4. g[s] = Turn(loop, h[s \ {k + 1}], xs[k + 1])
        BY <3>1
      <4> HIDE DEF g
      <4> QED BY <4>1, <4>2, <4>3, <4>4, Zenon
    <3>2. CASE k + 1 \notin s
      <4>1. s \in SUBSET (1 .. k)
        BY <3>2
      <4>2. g[s] = h[s]
        BY <3>2
      <4>3. h[s] = Comes(h, s)
        <5> HIDE DEF g, Good
        <5>1. h = [ r \in SUBSET (1 .. k) |-> Comes(h, r) ]
          BY <2>1, Zenon
        <5> HIDE DEF Comes, Are
        <5> QED BY <4>1, <5>1
      <4>4. CASE s = {}
        BY <4>2, <4>3, <4>4
      <4>5. CASE s # {}
        <5>1. s \ {Reader!Max(s)} \in SUBSET (1 .. k + 1)
              /\ k + 1 \notin s \ {Reader!Max(s)}
          BY <3>2, Zenon
        <5>2. g[s \ {Reader!Max(s)}] = h[s \ {Reader!Max(s)}]
          BY <5>1
        <5> HIDE DEF g
        <5> QED BY <4>2, <4>3, <4>5, <5>2
      <4> QED BY <4>4, <4>5
    <3> QED BY <3>1, <3>2
  <2>3. Are(g, k + 1)
    <3>1. g = [ s \in SUBSET (1 .. k + 1) |-> g[s] ]
      OBVIOUS
    <3> HIDE DEF g, Comes
    <3>2. g = [ s \in SUBSET (1 .. k + 1) |-> Comes(g, s) ]
      BY <2>2, <3>1, Zenon
    <3> QED BY <3>2
  <2> HIDE DEF g, Are
  <2>4. \E f : Are(f, k + 1)
    BY <2>3
  <2> QED BY <2>4
<1> HIDE DEF Good
<1>3. n \in Good
  BY <1>1, <1>2, CountingUp
<1>4. \E h : Are(h, n)
  BY <1>3, Zenon DEF Good
<1>5. PICK h : Are(h, n)
  BY <1>4, Zenon
<1>6. Turns(loop, b, xs, h)
  BY <1>5, Zenon DEF Turns
<1> QED BY <1>6

\* Turn by turn: what a fold of turns comes to for the first of them.
LEMMA TurnByTurn ==
  ASSUME NEW loop, NEW b, NEW xs, NEW n \in Nat, DOMAIN xs = 1 .. n,
         NEW h, Turns(loop, b, xs, h)
  PROVE  \E after : /\ after[0] = b
                    /\ \A i \in 1 .. n : after[i] = Turn(loop, after[i - 1], xs[i])
                    /\ after[n] = h[DOMAIN xs]
<1> DEFINE after == [ i \in 0 .. n |-> h[1 .. i] ]
<1>1. ASSUME NEW i \in 0 .. n
      PROVE  h[1 .. i] = IF 1 .. i = {} THEN b
                         ELSE Turn(loop, h[(1 .. i) \ {Reader!Max(1 .. i)}],
                                   xs[Reader!Max(1 .. i)])
  <2>1. 1 .. i \in SUBSET (DOMAIN xs)
    OBVIOUS
  <2> QED BY <2>1, Zenon DEF Turns
<1>2. after[0] = b
  <2>1. 1 .. 0 = {} /\ 0 \in 0 .. n
    OBVIOUS
  <2> QED BY <1>1, <2>1, Zenon
<1>3. ASSUME NEW i \in 1 .. n PROVE after[i] = Turn(loop, after[i - 1], xs[i])
  <2>1. 1 .. i # {} /\ i \in 1 .. i /\ i \in 0 .. n /\ i - 1 \in 0 .. n /\ i \in Nat
    BY SMTT(30)
  <2>2. Reader!Max(1 .. i) \in 1 .. i /\ \A k \in 1 .. i : k =< Reader!Max(1 .. i)
    <3>1. 1 .. i \in SUBSET (1 .. i)
      OBVIOUS
    <3> QED BY <2>1, <3>1, LastOfSome, Zenon
  <2>3. Reader!Max(1 .. i) = i
    BY <2>1, <2>2
  <2>4. (1 .. i) \ {i} = 1 .. (i - 1)
    BY <2>1
  <2>5. h[1 .. i] = Turn(loop, h[1 .. (i - 1)], xs[i])
    BY <1>1, <2>1, <2>3, <2>4, Zenon
  <2> QED BY <2>1, <2>5
<1>4. after[n] = h[DOMAIN xs]
  OBVIOUS
<1> HIDE DEF after
<1> QED BY <1>2, <1>3, <1>4

-----------------------------------------------------------------------------
(* Tables that are well made.                                              *)

\* A row at the end of a column.
LEMMA RowAtEnd ==
  ASSUME NEW c, c \in Seq(ToSet(c)), NEW value
  PROVE  LET d == Append(c, value)
         IN  /\ d \in Seq(ToSet(d))
             /\ Len(c) \in Nat /\ Len(d) = Len(c) + 1 /\ DOMAIN d = 1 .. Len(c) + 1
             /\ d[Len(c) + 1] = value
             /\ \A i \in 1 .. Len(c) : d[i] = c[i]
             /\ c \in Seq(Nat) /\ value \in Nat => d \in Seq(Nat)
<1> DEFINE d == Append(c, value)
           S == ToSet(c) \cup {value}
<1>1. c \in Seq(S) /\ value \in S /\ Len(c) \in Nat
  <2>1. ToSet(c) \subseteq S
    OBVIOUS
  <2> HIDE DEF S
  <2>2. Len(c) \in Nat /\ c \in [1 .. Len(c) -> ToSet(c)]
    BY LenProperties
  <2>3. c \in [1 .. Len(c) -> S]
    BY <2>1, <2>2
  <2> QED BY <2>2, <2>3, SeqDef DEF S
<1> HIDE DEF S
<1>2. d \in Seq(S) /\ Len(d) = Len(c) + 1 /\ DOMAIN d = 1 .. Len(c) + 1
      /\ d[Len(c) + 1] = value /\ \A i \in 1 .. Len(c) : d[i] = c[i]
  BY <1>1, AppendProperties
<1>3. c \in Seq(Nat) /\ value \in Nat => d \in Seq(Nat)
  BY AppendProperties
<1> HIDE DEF d
<1>4. d \in Seq(ToSet(d))
  <2>1. d \in [1 .. Len(d) -> ToSet(d)]
    BY <1>1, <1>2 DEF ToSet
  <2>2. Len(d) \in Nat
    BY <1>1, <1>2
  <2> QED BY <2>1, <2>2, SeqDef
<1> QED BY <1>1, <1>2, <1>3, <1>4 DEF d

\* The first m rows that are owned by the i-th owner.
OwnedBy(owners, m, i) == { row \in 0 .. m - 1 : owners[row + 1] = i - 1 }

\* Every owner's range is the rows that are owned by it, and the newest owner's
\* ends where the rows do.
Tile(starts, counts, owners) ==
  /\ starts \in Seq(Nat) /\ counts \in Seq(Nat) /\ owners \in Seq(Nat)
  /\ Len(starts) = Len(counts)
  /\ \A i \in 1 .. Len(starts) :
       starts[i] .. starts[i] + counts[i] - 1 = OwnedBy(owners, Len(owners), i)
  /\ \A i \in 1 .. Len(owners) : owners[i] < Len(starts)
  /\ Len(starts) > 0 => starts[Len(starts)] + counts[Len(starts)] = Len(owners)

\* An owner is added, of no rows yet.
LEMMA OwnerIsAdded ==
  ASSUME NEW starts, NEW counts, NEW owners, Tile(starts, counts, owners)
  PROVE  Tile(Append(starts, Len(owners)), Append(counts, 0), owners)
<1> DEFINE s == Append(starts, Len(owners))  c == Append(counts, 0)
           n == Len(starts)
<1>1. starts \in Seq(Nat) /\ counts \in Seq(Nat) /\ owners \in Seq(Nat) /\ n = Len(counts)
      /\ n \in Nat /\ Len(owners) \in Nat
  BY DEF Tile
<1>2. s \in Seq(Nat) /\ Len(s) = n + 1 /\ s[n + 1] = Len(owners)
      /\ \A i \in 1 .. n : s[i] = starts[i]
  BY <1>1, AppendProperties
<1>3. c \in Seq(Nat) /\ Len(c) = n + 1 /\ c[n + 1] = 0 /\ \A i \in 1 .. n : c[i] = counts[i]
  BY <1>1, AppendProperties
<1> HIDE DEF s, c, n
<1>4. \A i \in 1 .. Len(owners) : owners[i] \in Nat /\ owners[i] < n
  BY <1>1, SMTT(30) DEF Tile, n
<1>5. ASSUME NEW i \in 1 .. n + 1
      PROVE  s[i] .. s[i] + c[i] - 1 = OwnedBy(owners, Len(owners), i)
  <2>1. CASE i = n + 1
    <3>1. s[i] .. s[i] + c[i] - 1 = {}
      BY <1>1, <1>2, <1>3, <2>1
    <3>2. \A row \in 0 .. Len(owners) - 1 : owners[row + 1] # i - 1
      <4> TAKE row \in 0 .. Len(owners) - 1
      <4>1. row + 1 \in 1 .. Len(owners)
        BY <1>1
      <4> QED BY <1>1, <1>4, <2>1, <4>1
    <3> QED BY <3>1, <3>2 DEF OwnedBy
  <2>2. CASE i # n + 1
    <3>1. i \in 1 .. n
      BY <1>1, <2>2
    <3> QED BY <1>2, <1>3, <3>1 DEF Tile, n
  <2> QED BY <2>1, <2>2
<1>6. \A i \in 1 .. Len(owners) : owners[i] < n + 1
  BY <1>1, <1>4
<1>7. Tile(s, c, owners)
  BY <1>1, <1>2, <1>3, <1>5, <1>6 DEF Tile
<1> QED BY <1>7 DEF s, c

\* One more number at the end of some.
LEMMA OneMore ==
  ASSUME NEW a \in Nat, NEW m \in Nat, a =< m
  PROVE  a .. m = (a .. (m - 1)) \cup {m}
OBVIOUS

\* A row is added to the newest owner.
LEMMA RowIsAdded ==
  ASSUME NEW starts, NEW counts, NEW owners, Tile(starts, counts, owners),
         Len(starts) > 0
  PROVE  Tile(starts, [counts EXCEPT ![Len(starts)] = @ + 1],
              Append(owners, Len(starts) - 1))
<1>1. PICK n, m : n = Len(starts) /\ m = Len(owners)
  BY Zenon
<1>2. starts \in Seq(Nat) /\ counts \in Seq(Nat) /\ owners \in Seq(Nat) /\ n = Len(counts)
      /\ n \in Nat \ {0} /\ m \in Nat /\ starts[n] + counts[n] = m /\ n - 1 \in Nat /\ n \in 1 .. n
  BY <1>1 DEF Tile
<1>3. PICK o : o = Append(owners, n - 1)
  BY Zenon
<1>4. PICK c : c = [counts EXCEPT ![n] = @ + 1]
  BY Zenon
<1>5. o \in Seq(Nat) /\ Len(o) = m + 1 /\ o[m + 1] = n - 1
      /\ \A i \in 1 .. m : o[i] = owners[i]
  BY <1>1, <1>2, <1>3, AppendProperties
<1>6. starts \in [1 .. n -> Nat] /\ counts \in [1 .. n -> Nat]
  BY <1>1, <1>2, LenProperties, Zenon
<1>7. c \in [1 .. n -> Nat] /\ c[n] = counts[n] + 1
      /\ \A i \in 1 .. n : i # n => c[i] = counts[i]
  BY <1>2, <1>4, <1>6
<1>8. c \in Seq(Nat) /\ Len(c) = n
  <2>1. c \in Seq(Nat)
    <3>1. c \in [1 .. n -> Nat]
      BY <1>7
    <3>2. n \in Nat
      BY <1>2
    <3> QED BY <3>1, <3>2, SeqDef
  <2>2. DOMAIN c = 1 .. n
    BY <1>7
  <2> QED BY <1>2, <2>1, <2>2, LenProperties
<1>9. \A i \in 1 .. n : starts[i] .. starts[i] + counts[i] - 1 = OwnedBy(owners, m, i)
  BY <1>1 DEF Tile
<1>10. ASSUME NEW i \in 1 .. n
       PROVE  starts[i] .. starts[i] + c[i] - 1 = OwnedBy(o, m + 1, i)
  <2>1. /\ OwnedBy(o, m + 1, n) = OwnedBy(owners, m, n) \cup {m}
        /\ i # n => OwnedBy(o, m + 1, i) = OwnedBy(owners, m, i)
    <3>1. n \in Nat /\ m \in Nat /\ i \in Nat
      BY <1>2
    <3>2. \A row \in 0 .. m - 1 : o[row + 1] = owners[row + 1]
      BY <1>2, <1>5
    <3>3. 0 .. (m + 1) - 1 = (0 .. (m - 1)) \cup {m} /\ o[m + 1] = n - 1
      BY <1>5, <3>1
    <3>4. OwnedBy(o, m + 1, n) = OwnedBy(owners, m, n) \cup {m}
      BY <3>1, <3>2, <3>3 DEF OwnedBy
    <3>5. i # n => o[m + 1] # i - 1
      BY <3>1, <3>3
    <3>6. i # n => OwnedBy(o, m + 1, i) = OwnedBy(owners, m, i)
      BY <3>1, <3>2, <3>3, <3>5 DEF OwnedBy
    <3> QED BY <3>4, <3>6
  <2>2. starts[i] .. starts[i] + counts[i] - 1 = OwnedBy(owners, m, i)
    BY <1>9
  <2>3. CASE i = n
    <3>1. starts[n] \in Nat /\ counts[n] \in Nat
      BY <1>2, <1>6, Zenon
    <3>2. c[n] = counts[n] + 1
      BY <1>7
    <3>3. starts[n] + counts[n] = m /\ m \in Nat
      BY <1>2
    <3>4. starts[n] + c[n] - 1 = m /\ starts[n] + counts[n] - 1 = m - 1 /\ starts[n] =< m
      BY <3>1, <3>2, <3>3
    <3>5. starts[n] .. m = (starts[n] .. (m - 1)) \cup {m}
      BY <3>1, <3>3, <3>4, OneMore, Zenon
    <3> QED BY <2>1, <2>2, <2>3, <3>4, <3>5, Zenon
  <2>4. CASE i # n
    <3>1. c[i] = counts[i]
      BY <1>7, <2>4
    <3> QED BY <2>1, <2>2, <2>4, <3>1
  <2> QED BY <2>3, <2>4
<1>11. \A i \in 1 .. m + 1 : o[i] < n
  <2>1. \A i \in 1 .. m : owners[i] < n
    BY <1>1 DEF Tile
  <2> TAKE i \in 1 .. m + 1
  <2>2. i = m + 1 \/ i \in 1 .. m
    BY <1>2
  <2>3. n - 1 < n
    BY <1>2
  <2> QED BY <1>5, <2>1, <2>2, <2>3
<1>12. starts[n] + c[n] = m + 1
  <2>1. starts[n] \in Nat /\ counts[n] \in Nat
    BY <1>2, <1>6
  <2>2. c[n] = counts[n] + 1
    BY <1>7
  <2>3. starts[n] + counts[n] = m
    BY <1>2
  <2>4. starts[n] + (counts[n] + 1) = (starts[n] + counts[n]) + 1
    BY <2>1
  <2> QED BY <2>2, <2>3, <2>4
<1>13. Tile(starts, c, o)
  BY <1>1, <1>2, <1>5, <1>8, <1>10, <1>11, <1>12 DEF Tile
<1> QED BY <1>1, <1>3, <1>4, <1>13

AreCells(table, name, cells) ==
  /\ cells \in Seq(ToSet(cells))
  /\ <<table, name>> \in Numbered => cells \in Seq(Nat)

\* Every table has its columns, and they are of one length.
Shaped(t) ==
  /\ DOMAIN t = Reader!Table
  /\ \A table \in Reader!Table :
       /\ DOMAIN t[table] = ToSet(Reader!Columns[table])
       /\ \A name \in ToSet(Reader!Columns[table]) :
            /\ AreCells(table, name, t[table][name])
            /\ Len(t[table][name]) = Reader!Count(t, table)

\* A table is counted by a column it has.
LEMMA CountedByColumn ==
  ASSUME NEW table \in Reader!Table
  PROVE  Head(Reader!Columns[table]) \in ToSet(Reader!Columns[table])
<1>1. /\ 1 \in DOMAIN Reader!Columns[table]
      /\ Head(Reader!Columns[table]) = Reader!Columns[table][1]
  BY DEF Reader!Table, Reader!Columns
<1> QED BY <1>1 DEF ToSet

LEMMA RowsAreCounted ==
  ASSUME NEW t, Shaped(t), NEW table \in Reader!Table
  PROVE  Reader!Count(t, table) \in Nat
<1>1. AreCells(table, Head(Reader!Columns[table]), t[table][Head(Reader!Columns[table])])
  BY CountedByColumn DEF Shaped
<1> QED BY <1>1 DEF AreCells, Reader!Count

\* A row that is pushed is the last of its table, and of no other.
LEMMA PushShapes ==
  ASSUME NEW t, Shaped(t), NEW table \in Reader!Table, NEW row,
         \A name : <<table, name>> \in Numbered => row[name] \in Nat
  PROVE  LET u == Reader!Push(t, table, row)
         IN  /\ Shaped(u)
             /\ \A other \in Reader!Table \ {table} :
                  u[other] = t[other] /\ Reader!Count(u, other) = Reader!Count(t, other)
             /\ \A name \in ToSet(Reader!Columns[table]) :
                  u[table][name] = Append(t[table][name], row[name])
             /\ Reader!Count(u, table) = Reader!Count(t, table) + 1
<1> DEFINE u == Reader!Push(t, table, row)
           names == ToSet(Reader!Columns[table])
<1>1. DOMAIN u = Reader!Table /\ \A other \in Reader!Table \ {table} : u[other] = t[other]
  BY DEF Reader!Push, Shaped
<1>2. DOMAIN u[table] = names /\ \A name \in names : u[table][name] = Append(t[table][name], row[name])
  BY DEF Reader!Push, Shaped
<1> HIDE DEF u
<1>3. \A other \in Reader!Table \ {table} : Reader!Count(u, other) = Reader!Count(t, other)
  BY <1>1 DEF Reader!Count
<1>4. ASSUME NEW name \in names
      PROVE  /\ AreCells(table, name, u[table][name])
             /\ Len(u[table][name]) = Reader!Count(t, table) + 1
  <2>1. AreCells(table, name, t[table][name]) /\ Len(t[table][name]) = Reader!Count(t, table)
    BY DEF Shaped
  <2>2. t[table][name] \in Seq(ToSet(t[table][name]))
    BY <2>1 DEF AreCells
  <2>3. PICK d : d = Append(t[table][name], row[name])
    BY Zenon
  <2>4. /\ d \in Seq(ToSet(d)) /\ Len(d) = Len(t[table][name]) + 1
        /\ t[table][name] \in Seq(Nat) /\ row[name] \in Nat => d \in Seq(Nat)
    BY <2>2, <2>3, RowAtEnd
  <2>5. <<table, name>> \in Numbered => d \in Seq(Nat)
    BY <2>1, <2>4 DEF AreCells
  <2> HIDE DEF names
  <2>6. u[table][name] = d
    BY <1>2, <2>3
  <2> QED BY <2>1, <2>4, <2>5, <2>6 DEF AreCells
<1>5. Reader!Count(u, table) = Reader!Count(t, table) + 1
  <2>1. Head(Reader!Columns[table]) \in names
    BY CountedByColumn
  <2> HIDE DEF names
  <2> QED BY <1>4, <2>1 DEF Reader!Count
<1>6. Shaped(u)
  <2>1. ASSUME NEW other \in Reader!Table
        PROVE  /\ DOMAIN u[other] = ToSet(Reader!Columns[other])
               /\ \A name \in ToSet(Reader!Columns[other]) :
                    /\ AreCells(other, name, u[other][name])
                    /\ Len(u[other][name]) = Reader!Count(u, other)
    <3>1. CASE other = table
      BY <1>2, <1>4, <1>5, <3>1
    <3>2. CASE other # table
      <4>1. u[other] = t[other] /\ Reader!Count(u, other) = Reader!Count(t, other)
        BY <1>1, <1>3, <3>2
      <4> QED BY <4>1 DEF Shaped
    <3> QED BY <3>1, <3>2
  <2> QED BY <1>1, <2>1 DEF Shaped
<1> QED BY <1>1, <1>2, <1>3, <1>5, <1>6 DEF u

\* The same where the row's name is pushed before it.
LEMMA NamedShapes ==
  ASSUME NEW t, Shaped(t), NEW table \in Reader!Table \ {"strings"}, NEW text, NEW row,
         \A name : <<table, name>> \in Numbered =>
                     name \in DOMAIN row \ {"name"} /\ row[name] \in Nat
  PROVE  LET u == Reader!PushNamed(t, table, text, row)
         IN  /\ Shaped(u)
             /\ \A other \in Reader!Table \ {table, "strings"} :
                  u[other] = t[other] /\ Reader!Count(u, other) = Reader!Count(t, other)
             /\ \A name \in ToSet(Reader!Columns[table]) :
                  name \in DOMAIN row \ {"name"} =>
                    u[table][name] = Append(t[table][name], row[name])
             /\ Reader!Count(u, table) = Reader!Count(t, table) + 1
<1>1. PICK s : s = Reader!PushString(t, text)
  OBVIOUS
<1>2. "strings" \in Reader!Table
  BY DEF Reader!Table, Reader!Columns
<1>3. \A name : <<"strings", name>> \notin Numbered
  BY DEF Numbered
<1>4. /\ Shaped(s)
      /\ \A other \in Reader!Table \ {"strings"} :
           s[other] = t[other] /\ Reader!Count(s, other) = Reader!Count(t, other)
  BY <1>1, <1>2, <1>3, PushShapes DEF Reader!PushString
<1>5. PICK cells : cells = [ name \in DOMAIN row \cup {"name"} |->
                               IF name = "name" THEN Reader!Newest(s, "strings")
                                                ELSE row[name] ]
  BY Zenon
<1>6. \A name \in DOMAIN row \ {"name"} : cells[name] = row[name]
  BY <1>5
<1>7. PICK u : u = Reader!Push(s, table, cells)
  OBVIOUS
<1>8. \A name : <<table, name>> \in Numbered => cells[name] \in Nat
  BY <1>6
<1>9. /\ Shaped(u)
      /\ \A other \in Reader!Table \ {table} :
           u[other] = s[other] /\ Reader!Count(u, other) = Reader!Count(s, other)
      /\ \A name \in ToSet(Reader!Columns[table]) :
           u[table][name] = Append(s[table][name], cells[name])
      /\ Reader!Count(u, table) = Reader!Count(s, table) + 1
  BY <1>4, <1>7, <1>8, PushShapes
<1>10. u = Reader!PushNamed(t, table, text, row)
  BY <1>1, <1>5, <1>7 DEF Reader!PushNamed
<1>11. \A other \in Reader!Table \ {table, "strings"} :
         u[other] = t[other] /\ Reader!Count(u, other) = Reader!Count(t, other)
  BY <1>4, <1>9
<1>12. \A name \in ToSet(Reader!Columns[table]) :
         name \in DOMAIN row \ {"name"} =>
           u[table][name] = Append(t[table][name], row[name])
  BY <1>4, <1>6, <1>9, Zenon
<1>13. Reader!Count(u, table) = Reader!Count(t, table) + 1
  BY <1>4, <1>9
<1> QED BY <1>9, <1>10, <1>11, <1>12, <1>13

\* A cell that is set, if its row is there, leaves everything else as it was.
LEMMA SetShapes ==
  ASSUME NEW t, Shaped(t), NEW table \in Reader!Table,
         NEW name \in ToSet(Reader!Columns[table]),
         NEW row \in Nat, NEW value, <<table, name>> \in Numbered => value \in Nat
  PROVE  LET u == Reader!SetCell(t, table, name, row, value)
         IN  /\ Shaped(u)
             /\ \A other \in Reader!Table :
                  /\ Reader!Count(u, other) = Reader!Count(t, other)
                  /\ other # table => u[other] = t[other]
             /\ \A other \in ToSet(Reader!Columns[table]) \ {name} :
                  u[table][other] = t[table][other]
<1> DEFINE u == [t EXCEPT ![table][name][row + 1] = value]
           c == t[table][name]
           d == [c EXCEPT ![row + 1] = value]
<1>1. CASE ~ Reader!Has(t[table][name], row)
  BY <1>1 DEF Reader!SetCell
<1>2. CASE Reader!Has(t[table][name], row)
  <2>1. AreCells(table, name, c) /\ Len(c) = Reader!Count(t, table)
        /\ DOMAIN t = Reader!Table /\ DOMAIN t[table] = ToSet(Reader!Columns[table])
    BY DEF Shaped
  <2>2. /\ DOMAIN u = Reader!Table
        /\ \A other \in Reader!Table \ {table} : u[other] = t[other]
        /\ DOMAIN u[table] = ToSet(Reader!Columns[table])
        /\ \A other \in ToSet(Reader!Columns[table]) \ {name} : u[table][other] = t[table][other]
        /\ u[table][name] = d
    BY <2>1
  <2>3. c \in Seq(ToSet(c)) /\ Len(c) \in Nat /\ DOMAIN c = 1 .. Len(c)
    BY <2>1, LenProperties DEF AreCells
  <2> HIDE DEF u, c
  <2>4. d \in Seq(ToSet(d)) /\ Len(d) = Len(c)
    <3>1. d \in [1 .. Len(c) -> ToSet(d)]
      BY <2>3, Zenon DEF ToSet
    <3> HIDE DEF d
    <3>2. d \in Seq(ToSet(d))
      BY <2>3, <3>1, SeqDef
    <3>3. DOMAIN d = 1 .. Len(c)
      BY <3>1
    <3> QED BY <2>3, <3>2, <3>3, LenProperties
  <2>5. <<table, name>> \in Numbered => d \in Seq(Nat)
    <3>1. SUFFICES ASSUME <<table, name>> \in Numbered PROVE d \in Seq(Nat)
      OBVIOUS
    <3>2. c \in [1 .. Len(c) -> Nat] /\ value \in Nat
      BY <2>1, <3>1, LenProperties DEF AreCells
    <3>3. d \in [1 .. Len(c) -> Nat]
      BY <3>2, Zenon
    <3> HIDE DEF d
    <3> QED BY <2>3, <3>3, SeqDef
  <2> HIDE DEF d
  <2>6. \A other \in Reader!Table \ {table} : Reader!Count(u, other) = Reader!Count(t, other)
    BY <2>2 DEF Reader!Count
  <2>7. \A other \in ToSet(Reader!Columns[table]) :
          /\ AreCells(table, other, u[table][other])
          /\ Len(u[table][other]) = Reader!Count(t, table)
    <3> TAKE other \in ToSet(Reader!Columns[table])
    <3>1. CASE other = name
      BY <2>1, <2>2, <2>4, <2>5, <3>1 DEF AreCells
    <3>2. CASE other # name
      BY <2>2, <3>2 DEF Shaped
    <3> QED BY <3>1, <3>2
  <2>8. Reader!Count(u, table) = Reader!Count(t, table)
    BY <2>7, CountedByColumn DEF Reader!Count
  <2>9. Shaped(u)
    <3>1. ASSUME NEW other \in Reader!Table
          PROVE  /\ DOMAIN u[other] = ToSet(Reader!Columns[other])
                 /\ \A column_ \in ToSet(Reader!Columns[other]) :
                      /\ AreCells(other, column_, u[other][column_])
                      /\ Len(u[other][column_]) = Reader!Count(u, other)
      <4>1. CASE other = table
        BY <2>2, <2>7, <2>8, <4>1
      <4>2. CASE other # table
        <5>1. u[other] = t[other] /\ Reader!Count(u, other) = Reader!Count(t, other)
          BY <2>2, <2>6, <4>2
        <5> QED BY <5>1 DEF Shaped
      <4> QED BY <4>1, <4>2
    <3> QED BY <2>2, <3>1 DEF Shaped
  <2>10. Reader!SetCell(t, table, name, row, value) = u
    BY <1>2 DEF Reader!SetCell, u
  <2> QED BY <2>2, <2>6, <2>8, <2>9, <2>10
<1> QED BY <1>1, <1>2

\* The cell that is set.
LEMMA SetCellIsSet ==
  ASSUME NEW t, Shaped(t), NEW table \in Reader!Table,
         NEW name \in ToSet(Reader!Columns[table]),
         NEW row, row < Reader!Count(t, table), NEW value
  PROVE  Reader!SetCell(t, table, name, row, value)[table][name] =
           [t[table][name] EXCEPT ![row + 1] = value]
<1>1. Reader!Has(t[table][name], row)
  BY DEF Shaped, Reader!Has
<1>2. table \in DOMAIN t /\ name \in DOMAIN t[table]
  BY DEF Shaped
<1> QED BY <1>1, <1>2 DEF Reader!SetCell

\* To count up is to set a cell to one more than it is.
LEMMA CountUpSets ==
  ASSUME NEW t, NEW table, NEW name, NEW row
  PROVE  Reader!CountUp(t, table, name, row) =
           Reader!SetCell(t, table, name, row, t[table][name][row + 1] + 1)
BY DEF Reader!CountUp, Reader!SetCell

\* The columns in which a row says what it is, which stays.
Lasting ==
  { <<"strings", "text">>, <<"types", "kind">>, <<"types", "element">>,
    <<"types", "module">>, <<"types", "name">>, <<"structs", "module">>,
    <<"fields", "owner">>, <<"fields", "field_type">> }

\* The cells of a column are there yet.
Stays(c, d) == Len(c) =< Len(d) /\ \A i \in 1 .. Len(c) : d[i] = c[i]

Lasts(t, u) == \A place \in Lasting : Stays(t[place[1]][place[2]], u[place[1]][place[2]])

LEMMA LastingColumns ==
  \A place \in Lasting :
    place[1] \in Reader!Table /\ place[2] \in ToSet(Reader!Columns[place[1]])
<1>1. /\ {"strings", "types", "structs", "fields"} \subseteq Reader!Table
      /\ ToSet(Reader!Columns["strings"]) = {"text"}
      /\ ToSet(Reader!Columns["types"]) = {"kind", "element", "module", "name"}
      /\ "module" \in ToSet(Reader!Columns["structs"])
      /\ {"owner", "field_type"} \subseteq ToSet(Reader!Columns["fields"])
  BY DEF Reader!Table, Reader!Columns, ToSet
<1> QED BY <1>1 DEF Lasting

\* A column of tables that have their shape is counted.
LEMMA LastingIsCounted ==
  ASSUME NEW t, Shaped(t), NEW place \in Lasting
  PROVE  /\ t[place[1]][place[2]] \in Seq(ToSet(t[place[1]][place[2]]))
         /\ Len(t[place[1]][place[2]]) \in Nat
         /\ Len(t[place[1]][place[2]]) = Reader!Count(t, place[1])
<1>1. /\ AreCells(place[1], place[2], t[place[1]][place[2]])
      /\ Len(t[place[1]][place[2]]) = Reader!Count(t, place[1])
      /\ place[1] \in Reader!Table
  BY LastingColumns DEF Shaped
<1>2. Reader!Count(t, place[1]) \in Nat
  BY <1>1, RowsAreCounted
<1> QED BY <1>1, <1>2 DEF AreCells

LEMMA LastsItself ==
  ASSUME NEW t, Shaped(t)
  PROVE  Lasts(t, t)
BY LastingIsCounted DEF Lasts, Stays

LEMMA LastsThrough ==
  ASSUME NEW t, Shaped(t), NEW u, Shaped(u), NEW v, Shaped(v), Lasts(t, u), Lasts(u, v)
  PROVE  Lasts(t, v)
<1>1. SUFFICES ASSUME NEW place \in Lasting
               PROVE  Stays(t[place[1]][place[2]], v[place[1]][place[2]])
  BY DEF Lasts
<1>2. PICK c, d, e : /\ c = t[place[1]][place[2]] /\ d = u[place[1]][place[2]]
                     /\ e = v[place[1]][place[2]]
  BY Zenon
<1>3. Stays(c, d) /\ Stays(d, e) /\ Len(c) \in Nat /\ Len(d) \in Nat /\ Len(e) \in Nat
  BY <1>2, LastingIsCounted DEF Lasts
<1>4. Stays(c, e)
  BY <1>3 DEF Stays
<1> QED BY <1>2, <1>4

\* A row that is pushed changes none that was there.
LEMMA PushLasts ==
  ASSUME NEW t, Shaped(t), NEW table \in Reader!Table, NEW row,
         \A name : <<table, name>> \in Numbered => row[name] \in Nat
  PROVE  Lasts(t, Reader!Push(t, table, row))
<1>1. PICK u : u = Reader!Push(t, table, row)
  OBVIOUS
<1>2. /\ \A other \in Reader!Table \ {table} : u[other] = t[other]
      /\ \A name \in ToSet(Reader!Columns[table]) :
           u[table][name] = Append(t[table][name], row[name])
  BY <1>1, PushShapes
<1>3. SUFFICES ASSUME NEW place \in Lasting
               PROVE  Stays(t[place[1]][place[2]], u[place[1]][place[2]])
  BY <1>1 DEF Lasts
<1>4. PICK c : c = t[place[1]][place[2]]
  OBVIOUS
<1>5. c \in Seq(ToSet(c)) /\ Len(c) \in Nat
  BY <1>4, LastingIsCounted
<1>6. CASE place[1] = table
  <2>1. PICK value : value = row[place[2]]
    OBVIOUS
  <2>2. PICK d : d = Append(c, value)
    OBVIOUS
  <2>3. Len(d) = Len(c) + 1 /\ \A i \in 1 .. Len(c) : d[i] = c[i]
    BY <1>5, <2>2, RowAtEnd
  <2>4. u[place[1]][place[2]] = d
    BY <1>2, <1>4, <1>6, <2>1, <2>2, LastingColumns
  <2> QED BY <1>4, <1>5, <2>3, <2>4 DEF Stays
<1>7. CASE place[1] # table
  <2>1. u[place[1]][place[2]] = c
    BY <1>2, <1>4, <1>7, LastingColumns
  <2> QED BY <1>4, <1>5, <2>1 DEF Stays
<1> QED BY <1>6, <1>7

LEMMA NamedLasts ==
  ASSUME NEW t, Shaped(t), NEW table \in Reader!Table \ {"strings"}, NEW text, NEW row,
         \A name : <<table, name>> \in Numbered =>
                     name \in DOMAIN row \ {"name"} /\ row[name] \in Nat
  PROVE  Lasts(t, Reader!PushNamed(t, table, text, row))
<1>1. PICK s : s = Reader!PushString(t, text)
  OBVIOUS
<1>2. "strings" \in Reader!Table /\ \A name : <<"strings", name>> \notin Numbered
  BY DEF Reader!Table, Reader!Columns, Numbered
<1>3. Shaped(s) /\ Lasts(t, s)
  BY <1>1, <1>2, PushShapes, PushLasts DEF Reader!PushString
<1>4. PICK cells : cells = [ name \in DOMAIN row \cup {"name"} |->
                               IF name = "name" THEN Reader!Newest(s, "strings")
                                                ELSE row[name] ]
  BY Zenon
<1>5. \A name : <<table, name>> \in Numbered => cells[name] \in Nat
  BY <1>4
<1>6. PICK u : u = Reader!Push(s, table, cells)
  OBVIOUS
<1>7. Shaped(u) /\ Lasts(s, u)
  BY <1>3, <1>5, <1>6, PushShapes, PushLasts
<1>8. u = Reader!PushNamed(t, table, text, row)
  BY <1>1, <1>4, <1>6 DEF Reader!PushNamed
<1> QED BY <1>3, <1>7, <1>8, LastsThrough

\* Nor does a cell of another column that is set.
LEMMA SetLasts ==
  ASSUME NEW t, Shaped(t), NEW table \in Reader!Table,
         NEW name \in ToSet(Reader!Columns[table]), <<table, name>> \notin Lasting,
         NEW row \in Nat, NEW value, <<table, name>> \in Numbered => value \in Nat
  PROVE  Lasts(t, Reader!SetCell(t, table, name, row, value))
<1>1. PICK u : u = Reader!SetCell(t, table, name, row, value)
  OBVIOUS
<1>2. /\ \A other \in Reader!Table : other # table => u[other] = t[other]
      /\ \A other \in ToSet(Reader!Columns[table]) \ {name} : u[table][other] = t[table][other]
  <2>1. <<table, name>> \in Numbered => value \in Nat
    OBVIOUS
  <2> QED BY <1>1, <2>1, SetShapes
<1>3. ASSUME NEW place \in Lasting
      PROVE  u[place[1]][place[2]] = t[place[1]][place[2]]
  <2>1. place = <<place[1], place[2]>>
    BY DEF Lasting
  <2>2. ~ (place[1] = table /\ place[2] = name)
    BY <2>1
  <2> QED BY <1>2, <2>2, LastingColumns
<1> QED BY <1>1, <1>3, LastsItself DEF Lasts

\* The rows that were there stay, and the new one is the last.
LEMMA RowPushed ==
  ASSUME NEW t, Shaped(t), NEW table \in Reader!Table, NEW row,
         \A name : <<table, name>> \in Numbered => row[name] \in Nat,
         NEW u, u = Reader!Push(t, table, row)
  PROVE  LET n == Reader!Count(t, table)
         IN  /\ n \in Nat /\ Reader!Count(u, table) = n + 1
             /\ \A name \in ToSet(Reader!Columns[table]) :
                  /\ \A i \in 1 .. n : u[table][name][i] = t[table][name][i]
                  /\ u[table][name][n + 1] = row[name]
             /\ \A other \in Reader!Table \ {table} :
                  u[other] = t[other] /\ Reader!Count(u, other) = Reader!Count(t, other)
<1>1. /\ \A other \in Reader!Table \ {table} :
           u[other] = t[other] /\ Reader!Count(u, other) = Reader!Count(t, other)
      /\ \A name \in ToSet(Reader!Columns[table]) :
           u[table][name] = Append(t[table][name], row[name])
      /\ Reader!Count(u, table) = Reader!Count(t, table) + 1
  BY PushShapes
<1>2. Reader!Count(t, table) \in Nat
  BY RowsAreCounted
<1>3. ASSUME NEW name \in ToSet(Reader!Columns[table])
      PROVE  /\ \A i \in 1 .. Reader!Count(t, table) : u[table][name][i] = t[table][name][i]
             /\ u[table][name][Reader!Count(t, table) + 1] = row[name]
  <2>1. PICK c, value : c = t[table][name] /\ value = row[name]
    OBVIOUS
  <2>2. c \in Seq(ToSet(c)) /\ Len(c) = Reader!Count(t, table)
    BY <2>1 DEF Shaped, AreCells
  <2>3. PICK d : d = Append(c, value)
    OBVIOUS
  <2>4. d[Len(c) + 1] = value /\ \A i \in 1 .. Len(c) : d[i] = c[i]
    BY <2>2, <2>3, RowAtEnd
  <2>5. u[table][name] = d
    BY <1>1, <2>1, <2>3
  <2> QED BY <2>1, <2>2, <2>4, <2>5
<1> QED BY <1>1, <1>2, <1>3

\* Tables whose ranges are their owners'.
WellMade(t) ==
  /\ Shaped(t)
  /\ Tile(t.structs.field_start, t.structs.field_count, t.fields.owner)
  /\ Tile(t.functions.parameter_start, t.functions.parameter_count, t.parameters.owner)

SameRanges(t, u) ==
  /\ u.structs.field_start = t.structs.field_start
  /\ u.structs.field_count = t.structs.field_count
  /\ u.fields.owner = t.fields.owner
  /\ u.functions.parameter_start = t.functions.parameter_start
  /\ u.functions.parameter_count = t.functions.parameter_count
  /\ u.parameters.owner = t.parameters.owner

\* The fields there are only change while members are read.
FieldsStay(t, u) == reading # "members" => u.fields = t.fields

Larger(t, u) ==
  /\ Reader!Count(t, "structs") =< Reader!Count(u, "structs")
  /\ Reader!Count(u, "functions") = Reader!Count(t, "functions")
  /\ Lasts(t, u) /\ FieldsStay(t, u)

Ranging == {"structs", "fields", "functions", "parameters"}

\* The tables of what functions do.
Doing ==
  {"allocator_sources", "calls", "call_arguments", "memory_operations", "expressions"}

SameDoing(t, u) == \A table \in Doing : u[table] = t[table]

SameBodies(t, u) ==
  u.functions.line = t.functions.line /\ u.functions.body = t.functions.body

Grown(t, u) == Larger(t, u) /\ SameDoing(t, u) /\ SameBodies(t, u)

\* The columns that matter, by name.
LEMMA TheColumns ==
  /\ {"strings", "modules", "unresolved_imports", "artifacts", "types",
      "allocator_sources", "calls", "call_arguments", "memory_operations",
      "field_assignments", "expressions"} \cup Ranging = Reader!Table
  /\ ToSet(Reader!Columns["structs"]) =
       {"name", "module", "type_id", "field_start", "field_count", "deinit"}
  /\ ToSet(Reader!Columns["fields"]) = {"owner", "name", "field_type"}
  /\ ToSet(Reader!Columns["functions"]) =
       {"name", "module", "owner", "parameter_start", "parameter_count", "returns",
        "error_set", "line", "body"}
  /\ ToSet(Reader!Columns["parameters"]) = {"owner", "name", "parameter_type", "allocator"}
  /\ ToSet(Reader!Columns["modules"]) =
       {"name", "path", "unresolved_start", "unresolved_count"}
<1>1. {"strings", "modules", "unresolved_imports", "artifacts", "types",
       "allocator_sources", "calls", "call_arguments", "memory_operations",
       "field_assignments", "expressions"} \cup Ranging = Reader!Table
  BY DEF Reader!Table, Reader!Columns, Ranging
<1>2. ToSet(Reader!Columns["structs"]) =
       {"name", "module", "type_id", "field_start", "field_count", "deinit"}
  BY DEF Reader!Columns, ToSet
<1>3. ToSet(Reader!Columns["fields"]) = {"owner", "name", "field_type"}
  BY DEF Reader!Columns, ToSet
<1>4. ToSet(Reader!Columns["functions"]) =
       {"name", "module", "owner", "parameter_start", "parameter_count", "returns",
        "error_set", "line", "body"}
  BY DEF Reader!Columns, ToSet
<1>5. ToSet(Reader!Columns["parameters"]) = {"owner", "name", "parameter_type", "allocator"}
  BY DEF Reader!Columns, ToSet
<1>6. ToSet(Reader!Columns["modules"]) =
       {"name", "path", "unresolved_start", "unresolved_count"}
  BY DEF Reader!Columns, ToSet
<1> QED BY <1>1, <1>2, <1>3, <1>4, <1>5, <1>6

\* Tables with the same ranges are as well made.
LEMMA SameRangesMade ==
  ASSUME NEW t, WellMade(t), NEW u, Shaped(u), SameRanges(t, u), Lasts(t, u),
         FieldsStay(t, u)
  PROVE  WellMade(u) /\ Larger(t, u)
<1>1. WellMade(u)
  BY DEF WellMade, SameRanges
<1>2. Reader!Count(u, "structs") = Reader!Count(t, "structs")
  <2>1. Len(u.structs.field_start) = Reader!Count(u, "structs")
        /\ Len(t.structs.field_start) = Reader!Count(t, "structs")
    BY TheColumns DEF WellMade, Shaped, Ranging
  <2> QED BY <2>1 DEF SameRanges
<1>3. Reader!Count(u, "functions") = Reader!Count(t, "functions")
  <2>1. Len(u.functions.parameter_start) = Reader!Count(u, "functions")
        /\ Len(t.functions.parameter_start) = Reader!Count(t, "functions")
    BY TheColumns DEF WellMade, Shaped, Ranging
  <2> QED BY <2>1 DEF SameRanges
<1>4. Reader!Count(t, "structs") \in Nat /\ Reader!Count(t, "functions") \in Nat
  BY TheColumns, RowsAreCounted DEF WellMade, Ranging
<1> QED BY <1>1, <1>2, <1>3, <1>4 DEF Larger

\* What is pushed to other tables changes no range.
LEMMA AsideMade ==
  ASSUME NEW t, WellMade(t), NEW u, Shaped(u), Lasts(t, u),
         \A table \in Ranging : u[table] = t[table]
  PROVE  WellMade(u) /\ Larger(t, u) /\ SameBodies(t, u)
<1>1. SameRanges(t, u) /\ SameBodies(t, u) /\ FieldsStay(t, u)
  BY DEF SameRanges, Ranging, SameBodies, FieldsStay
<1> QED BY <1>1, SameRangesMade

LEMMA GrownItself ==
  ASSUME NEW t, WellMade(t)
  PROVE  Grown(t, t)
<1>1. Shaped(t) /\ Lasts(t, t)
  BY LastsItself DEF WellMade
<1>2. \A table \in Ranging : t[table] = t[table]
  OBVIOUS
<1>3. Larger(t, t)
  BY <1>1, <1>2, AsideMade
<1> QED BY <1>3 DEF Grown, SameDoing, SameBodies

LEMMA PushMade ==
  ASSUME NEW t, WellMade(t), NEW table \in Reader!Table \ Ranging, NEW row,
         \A name : <<table, name>> \in Numbered => row[name] \in Nat
  PROVE  /\ WellMade(Reader!Push(t, table, row)) /\ Larger(t, Reader!Push(t, table, row))
         /\ SameBodies(t, Reader!Push(t, table, row))
         /\ table \notin Doing => Grown(t, Reader!Push(t, table, row))
<1>1. PICK u : u = Reader!Push(t, table, row)
  OBVIOUS
<1>2. Shaped(u) /\ Lasts(t, u) /\ \A other \in Reader!Table \ {table} : u[other] = t[other]
  BY <1>1, PushShapes, PushLasts DEF WellMade
<1>3. \A other \in Ranging : u[other] = t[other]
  BY <1>2, TheColumns
<1>4. table \notin Doing => SameDoing(t, u)
  BY <1>2, TheColumns DEF SameDoing, Doing
<1> QED BY <1>1, <1>2, <1>3, <1>4, AsideMade DEF Grown

LEMMA NamedMade ==
  ASSUME NEW t, WellMade(t), NEW table \in Reader!Table \ (Ranging \cup Doing \cup {"strings"}),
         NEW text, NEW row,
         \A name : <<table, name>> \in Numbered =>
                     name \in DOMAIN row \ {"name"} /\ row[name] \in Nat
  PROVE  /\ WellMade(Reader!PushNamed(t, table, text, row))
         /\ Grown(t, Reader!PushNamed(t, table, text, row))
<1>1. PICK u : u = Reader!PushNamed(t, table, text, row)
  OBVIOUS
<1>2. Shaped(u) /\ Lasts(t, u) /\ \A other \in Reader!Table \ {table, "strings"} : u[other] = t[other]
  BY <1>1, NamedShapes, NamedLasts DEF WellMade
<1>3. \A other \in Ranging : u[other] = t[other]
  BY <1>2, TheColumns DEF Ranging
<1>4. SameDoing(t, u)
  BY <1>2, TheColumns DEF SameDoing, Doing
<1> QED BY <1>1, <1>2, <1>3, <1>4, AsideMade DEF Grown

LEMMA StringMade ==
  ASSUME NEW t, WellMade(t), NEW text
  PROVE  WellMade(Reader!PushString(t, text)) /\ Grown(t, Reader!PushString(t, text))
<1>1. "strings" \in Reader!Table \ (Ranging \cup Doing)
      /\ \A name : <<"strings", name>> \notin Numbered
  BY TheColumns DEF Numbered, Ranging, Doing
<1> QED BY <1>1, PushMade DEF Reader!PushString

LEMMA TypeMade ==
  ASSUME NEW t, WellMade(t), NEW kind, NEW element, NEW name, NEW module
  PROVE  /\ WellMade(Reader!PushType(t, kind, element, name, module))
         /\ Grown(t, Reader!PushType(t, kind, element, name, module))
<1>1. "types" \in Reader!Table \ (Ranging \cup Doing)
      /\ \A column_ : <<"types", column_>> \notin Numbered
  BY TheColumns DEF Numbered, Ranging, Doing
<1> QED BY <1>1, PushMade DEF Reader!PushType

\* A cell that says nothing of a range.
LEMMA SetMade ==
  ASSUME NEW t, WellMade(t), NEW table \in Reader!Table \ Doing,
         NEW name \in ToSet(Reader!Columns[table]),
         <<table, name>> \in Numbered => table = "modules",
         <<table, name>> \notin Lasting, table # "fields",
         NEW row \in Nat, NEW value, <<table, name>> \in Numbered => value \in Nat
  PROVE  /\ WellMade(Reader!SetCell(t, table, name, row, value))
         /\ Larger(t, Reader!SetCell(t, table, name, row, value))
         /\ SameDoing(t, Reader!SetCell(t, table, name, row, value))
         /\ <<table, name>> \notin {<<"functions", "line">>, <<"functions", "body">>} =>
              Grown(t, Reader!SetCell(t, table, name, row, value))
<1>1. PICK u : u = Reader!SetCell(t, table, name, row, value)
  OBVIOUS
<1>2. /\ Shaped(u)
      /\ \A other \in Reader!Table : other # table => u[other] = t[other]
      /\ \A other \in ToSet(Reader!Columns[table]) \ {name} : u[table][other] = t[table][other]
  <2>1. Shaped(t)
    BY DEF WellMade
  <2>2. <<table, name>> \in Numbered => value \in Nat
    OBVIOUS
  <2> QED BY <1>1, <2>1, <2>2, SetShapes
<1> DEFINE Ranges == { <<"structs", "field_start">>, <<"structs", "field_count">>,
                       <<"fields", "owner">>, <<"functions", "parameter_start">>,
                       <<"functions", "parameter_count">>, <<"parameters", "owner">> }
<1>3. ASSUME NEW p, NEW q, <<p, q>> \in Ranges
      PROVE  u[p][q] = t[p][q]
  <2>1. p \in Ranging /\ p \in Reader!Table /\ q \in ToSet(Reader!Columns[p])
        /\ <<p, q>> \in Numbered /\ p # "modules"
    BY <1>3, TheColumns DEF Ranging, Numbered
  <2>2. p = table => q # name
    BY <2>1
  <2> QED BY <1>2, <2>1, <2>2
<1>4. SameRanges(t, u)
  <2>1. <<"structs", "field_start">> \in Ranges /\ <<"structs", "field_count">> \in Ranges
        /\ <<"fields", "owner">> \in Ranges /\ <<"functions", "parameter_start">> \in Ranges
        /\ <<"functions", "parameter_count">> \in Ranges /\ <<"parameters", "owner">> \in Ranges
    OBVIOUS
  <2> HIDE DEF Ranges
  <2>2. u["structs"]["field_start"] = t["structs"]["field_start"]
        /\ u["structs"]["field_count"] = t["structs"]["field_count"]
        /\ u["fields"]["owner"] = t["fields"]["owner"]
        /\ u["functions"]["parameter_start"] = t["functions"]["parameter_start"]
        /\ u["functions"]["parameter_count"] = t["functions"]["parameter_count"]
        /\ u["parameters"]["owner"] = t["parameters"]["owner"]
    BY <1>3, <2>1
  <2> QED BY <2>2 DEF SameRanges
<1>5. SameDoing(t, u)
  BY <1>2, TheColumns DEF SameDoing, Doing
<1>6. <<table, name>> \notin {<<"functions", "line">>, <<"functions", "body">>} => SameBodies(t, u)
  <2>1. ASSUME NEW column_ \in {"line", "body"}, <<table, name>> # <<"functions", column_>>
        PROVE  u["functions"][column_] = t["functions"][column_]
    <3>1. "functions" \in Reader!Table /\ column_ \in ToSet(Reader!Columns["functions"])
      BY TheColumns DEF Ranging
    <3>2. table = "functions" => column_ # name
      BY <2>1
    <3> QED BY <1>2, <3>1, <3>2
  <2> QED BY <2>1 DEF SameBodies
<1>7. Lasts(t, u)
  <2>1. Shaped(t)
    BY DEF WellMade
  <2>2. <<table, name>> \in Numbered => value \in Nat
    OBVIOUS
  <2> QED BY <1>1, <2>1, <2>2, SetLasts
<1>8. FieldsStay(t, u)
  BY <1>2, TheColumns DEF Ranging, FieldsStay
<1> QED BY <1>1, <1>2, <1>4, <1>5, <1>6, <1>7, <1>8, SameRangesMade DEF Grown

\* A struct that is added has no fields yet.
LEMMA StructMade ==
  ASSUME NEW t, WellMade(t), NEW name, NEW type, NEW module
  PROVE  LET u == Reader!PushStruct(t, name, type, module)
         IN  /\ WellMade(u) /\ Grown(t, u) /\ Reader!Count(u, "structs") > 0
             /\ Reader!Count(u, "fields") = Reader!Count(t, "fields")
             /\ u.structs.module[Reader!Count(u, "structs")] = module
<1>1. PICK row : row = [ module |-> module, type_id |-> type, field_start |-> Reader!Count(t, "fields"),
                      field_count |-> 0, deinit |-> NoIndex ]
  BY Zenon
<1>2. PICK u : u = Reader!PushNamed(t, "structs", name, row)
  OBVIOUS
<1>3. u = Reader!PushStruct(t, name, type, module)
  BY <1>1, <1>2 DEF Reader!PushStruct
<1>4. Shaped(t) /\ Reader!Count(t, "fields") \in Nat /\ Reader!Count(t, "structs") \in Nat
      /\ Reader!Count(t, "functions") \in Nat
  BY RowsAreCounted, TheColumns DEF WellMade, Ranging
<1>5. "structs" \in Reader!Table \ {"strings"}
  BY TheColumns DEF Ranging
<1>6. \A column_ : <<"structs", column_>> \in Numbered =>
                     column_ \in DOMAIN row \ {"name"} /\ row[column_] \in Nat
  BY <1>1, <1>4 DEF Numbered
<1>7. /\ Shaped(u)
      /\ \A other \in Reader!Table \ {"structs", "strings"} :
           u[other] = t[other] /\ Reader!Count(u, other) = Reader!Count(t, other)
      /\ \A column_ \in ToSet(Reader!Columns["structs"]) :
           column_ \in DOMAIN row \ {"name"} =>
             u["structs"][column_] = Append(t["structs"][column_], row[column_])
      /\ Reader!Count(u, "structs") = Reader!Count(t, "structs") + 1
  BY <1>2, <1>4, <1>5, <1>6, NamedShapes, SMTT(30)
<1>8. /\ u["structs"]["field_start"] = Append(t["structs"]["field_start"], Reader!Count(t, "fields"))
      /\ u["structs"]["field_count"] = Append(t["structs"]["field_count"], 0)
  <2>1. "field_start" \in DOMAIN row \ {"name"} /\ row["field_start"] = Reader!Count(t, "fields")
        /\ "field_count" \in DOMAIN row \ {"name"} /\ row["field_count"] = 0
    BY <1>1
  <2> QED BY <1>7, <2>1, TheColumns
<1>9. Len(t.fields.owner) = Reader!Count(t, "fields")
  BY <1>4, TheColumns DEF Shaped, Ranging
<1>10. \A other \in Ranging \ {"structs"} : u[other] = t[other]
  BY <1>7, TheColumns DEF Ranging
<1>11. Tile(u.structs.field_start, u.structs.field_count, u.fields.owner)
  <2>1. Tile(Append(t.structs.field_start, Len(t.fields.owner)), Append(t.structs.field_count, 0),
             t.fields.owner)
    BY OwnerIsAdded DEF WellMade
  <2> QED BY <1>8, <1>9, <1>10, <2>1, Zenon DEF Ranging
<1>12. WellMade(u)
  BY <1>7, <1>10, <1>11 DEF WellMade, Ranging
<1>13. Grown(t, u) /\ Reader!Count(u, "structs") > 0
  <2>1. Reader!Count(u, "functions") = Reader!Count(t, "functions")
        /\ u["functions"] = t["functions"]
    BY <1>7, TheColumns DEF Ranging
  <2>2. SameDoing(t, u)
    BY <1>7, TheColumns DEF SameDoing, Doing
  <2>3. Lasts(t, u)
    BY <1>2, <1>4, <1>5, <1>6, NamedLasts
  <2>4. FieldsStay(t, u)
    BY <1>10 DEF Ranging, FieldsStay
  <2> QED BY <1>4, <1>7, <2>1, <2>2, <2>3, <2>4 DEF Grown, Larger, SameBodies
<1>14. Reader!Count(u, "fields") = Reader!Count(t, "fields")
  BY <1>7, TheColumns DEF Ranging
<1>15. u["structs"]["module"][Reader!Count(u, "structs")] = module
  <2>1. "module" \in DOMAIN row \ {"name"} /\ row["module"] = module
    BY <1>1
  <2>2. "module" \in ToSet(Reader!Columns["structs"]) /\ "structs" \in Reader!Table
    BY TheColumns DEF Ranging
  <2>3. u["structs"]["module"] = Append(t["structs"]["module"], module)
    BY <1>7, <2>1, <2>2
  <2>4. PICK c : c = t["structs"]["module"]
    OBVIOUS
  <2>5. c \in Seq(ToSet(c)) /\ Len(c) = Reader!Count(t, "structs")
    BY <1>4, <2>2, <2>4 DEF Shaped, AreCells
  <2>6. Append(c, module)[Len(c) + 1] = module
    BY <2>5, RowAtEnd
  <2> QED BY <1>7, <2>3, <2>4, <2>5, <2>6
<1> QED BY <1>3, <1>12, <1>13, <1>14, <1>15

\* One more function, that nothing is told of yet but its line.
WithFunction(t, u, line) ==
  /\ WellMade(u) /\ Reader!Count(u, "structs") = Reader!Count(t, "structs")
  /\ Reader!Count(u, "functions") = Reader!Count(t, "functions") + 1
  /\ Reader!Count(u, "functions") > 0
  /\ SameDoing(t, u) /\ Lasts(t, u) /\ FieldsStay(t, u)
  /\ u.functions.line = Append(t.functions.line, line)
  /\ u.functions.body = Append(t.functions.body, NoIndex)

\* A function that is added has no parameters yet.
LEMMA FunctionMade ==
  ASSUME NEW t, WellMade(t), NEW name, NEW owner, NEW module, NEW line
  PROVE  WithFunction(t, Reader!PushFunction(t, name, owner, module, line), line)
<1>1. PICK row : row = [ module |-> module, owner |-> owner,
                      parameter_start |-> Reader!Count(t, "parameters"),
                      parameter_count |-> 0, returns |-> NoIndex, error_set |-> NoIndex,
                      line |-> line, body |-> NoIndex ]
  BY Zenon
<1>2. PICK u : u = Reader!PushNamed(t, "functions", name, row)
  OBVIOUS
<1>3. u = Reader!PushFunction(t, name, owner, module, line)
  BY <1>1, <1>2 DEF Reader!PushFunction
<1>4. Shaped(t) /\ Reader!Count(t, "parameters") \in Nat /\ Reader!Count(t, "functions") \in Nat
      /\ Reader!Count(t, "structs") \in Nat
  BY RowsAreCounted, TheColumns DEF WellMade, Ranging
<1>5. "functions" \in Reader!Table \ {"strings"}
  BY TheColumns DEF Ranging
<1>6. \A column_ : <<"functions", column_>> \in Numbered =>
                     column_ \in DOMAIN row \ {"name"} /\ row[column_] \in Nat
  BY <1>1, <1>4 DEF Numbered
<1>7. /\ Shaped(u)
      /\ \A other \in Reader!Table \ {"functions", "strings"} :
           u[other] = t[other] /\ Reader!Count(u, other) = Reader!Count(t, other)
      /\ \A column_ \in ToSet(Reader!Columns["functions"]) :
           column_ \in DOMAIN row \ {"name"} =>
             u["functions"][column_] = Append(t["functions"][column_], row[column_])
      /\ Reader!Count(u, "functions") = Reader!Count(t, "functions") + 1
  BY <1>2, <1>4, <1>5, <1>6, NamedShapes
<1>8. /\ u["functions"]["parameter_start"] = Append(t["functions"]["parameter_start"], Reader!Count(t, "parameters"))
      /\ u["functions"]["parameter_count"] = Append(t["functions"]["parameter_count"], 0)
  <2>1. "parameter_start" \in DOMAIN row \ {"name"} /\ row["parameter_start"] = Reader!Count(t, "parameters")
        /\ "parameter_count" \in DOMAIN row \ {"name"} /\ row["parameter_count"] = 0
    BY <1>1
  <2> QED BY <1>7, <2>1, TheColumns
<1>9. Len(t.parameters.owner) = Reader!Count(t, "parameters")
  BY <1>4, TheColumns DEF Shaped, Ranging
<1>10. \A other \in Ranging \ {"functions"} : u[other] = t[other]
  BY <1>7, TheColumns DEF Ranging
<1>11. Tile(u.functions.parameter_start, u.functions.parameter_count, u.parameters.owner)
  <2>1. Tile(Append(t.functions.parameter_start, Len(t.parameters.owner)), Append(t.functions.parameter_count, 0),
             t.parameters.owner)
    BY OwnerIsAdded DEF WellMade
  <2> QED BY <1>8, <1>9, <1>10, <2>1, Zenon DEF Ranging
<1>12. WellMade(u)
  BY <1>7, <1>10, <1>11 DEF WellMade, Ranging
<1>13. /\ Reader!Count(u, "structs") = Reader!Count(t, "structs")
       /\ Reader!Count(u, "functions") = Reader!Count(t, "functions") + 1
       /\ Reader!Count(u, "functions") > 0
  <2>1. Reader!Count(u, "structs") = Reader!Count(t, "structs")
    BY <1>7, TheColumns DEF Ranging
  <2> QED BY <1>4, <1>7, <2>1
<1>14. SameDoing(t, u)
  BY <1>7, TheColumns DEF SameDoing, Doing
<1>15. /\ u["functions"]["line"] = Append(t["functions"]["line"], line)
       /\ u["functions"]["body"] = Append(t["functions"]["body"], NoIndex)
  <2>1. "line" \in DOMAIN row \ {"name"} /\ row["line"] = line
        /\ "body" \in DOMAIN row \ {"name"} /\ row["body"] = NoIndex
    BY <1>1
  <2> QED BY <1>7, <2>1, TheColumns
<1>16. Lasts(t, u)
  BY <1>2, <1>4, <1>5, <1>6, NamedLasts
<1>17. FieldsStay(t, u)
  BY <1>10 DEF Ranging, FieldsStay
<1> QED BY <1>3, <1>12, <1>13, <1>14, <1>15, <1>16, <1>17 DEF WithFunction

\* One more field, that is the newest struct's and of a type.
FieldAdded(t, u, type) ==
  /\ Reader!Count(u, "fields") = Reader!Count(t, "fields") + 1
  /\ Reader!Count(u, "structs") = Reader!Count(t, "structs")
  /\ u.structs.module = t.structs.module
  /\ u.fields.owner[Reader!Count(t, "fields") + 1] = Reader!Newest(t, "structs")
  /\ u.fields.field_type[Reader!Count(t, "fields") + 1] = type

\* A field that is added is the newest struct's.
LEMMA FieldMade ==
  ASSUME NEW t, WellMade(t), reading = "members",
         Reader!Count(t, "structs") > 0, NEW name, NEW type
  PROVE  LET u == Reader!PushField(t, Reader!Newest(t, "structs"), name, type)
         IN  WellMade(u) /\ Grown(t, u) /\ FieldAdded(t, u, type)
<1>1. PICK n : n = Reader!Count(t, "structs")
  OBVIOUS
<1>2. Shaped(t) /\ n \in Nat \ {0} /\ n - 1 \in Nat /\ Reader!Newest(t, "structs") = n - 1
      /\ Reader!Count(t, "functions") \in Nat
  BY <1>1, RowsAreCounted, TheColumns DEF WellMade, Ranging, Reader!Newest
<1>3. PICK row : row = [owner |-> n - 1, field_type |-> type]
  BY Zenon
<1>4. PICK s : s = Reader!PushNamed(t, "fields", name, row)
  OBVIOUS
<1>5. PICK value : value = s["structs"]["field_count"][(n - 1) + 1] + 1
  OBVIOUS
<1>6. PICK u : u = Reader!SetCell(s, "structs", "field_count", n - 1, value)
  OBVIOUS
<1>7. u = Reader!PushField(t, Reader!Newest(t, "structs"), name, type)
  BY <1>2, <1>3, <1>4, <1>5, <1>6, CountUpSets DEF Reader!PushField
<1>8. /\ Shaped(s)
      /\ \A other \in Reader!Table \ {"fields", "strings"} :
           s[other] = t[other] /\ Reader!Count(s, other) = Reader!Count(t, other)
      /\ s["fields"]["owner"] = Append(t["fields"]["owner"], n - 1)
      /\ s["fields"]["field_type"] = Append(t["fields"]["field_type"], type)
      /\ Reader!Count(s, "fields") = Reader!Count(t, "fields") + 1
      /\ Lasts(t, s)
  <2>1. /\ "fields" \in Reader!Table \ {"strings"}
        /\ {"owner", "field_type"} \subseteq ToSet(Reader!Columns["fields"])
    BY TheColumns DEF Ranging
  <2>2. /\ "owner" \in DOMAIN row \ {"name"} /\ row["owner"] = n - 1
        /\ "field_type" \in DOMAIN row \ {"name"} /\ row["field_type"] = type
    BY <1>3
  <2>3. \A column_ : <<"fields", column_>> \in Numbered =>
                       column_ \in DOMAIN row \ {"name"} /\ row[column_] \in Nat
    BY <1>2, <2>2 DEF Numbered
  <2>4. /\ Shaped(s)
        /\ \A other \in Reader!Table \ {"fields", "strings"} :
             s[other] = t[other] /\ Reader!Count(s, other) = Reader!Count(t, other)
        /\ \A column_ \in ToSet(Reader!Columns["fields"]) :
             column_ \in DOMAIN row \ {"name"} =>
               s["fields"][column_] = Append(t["fields"][column_], row[column_])
        /\ Reader!Count(s, "fields") = Reader!Count(t, "fields") + 1
    BY <1>2, <1>4, <2>1, <2>3, NamedShapes
  <2>5. Lasts(t, s)
    BY <1>2, <1>4, <2>1, <2>3, NamedLasts
  <2> QED BY <2>1, <2>2, <2>4, <2>5
<1>9. "structs" \in Reader!Table \ {"fields", "strings"}
      /\ "field_count" \in ToSet(Reader!Columns["structs"])
      /\ "field_start" \in ToSet(Reader!Columns["structs"]) \ {"field_count"}
  BY TheColumns DEF Ranging
<1>10. s["structs"] = t["structs"] /\ Reader!Count(s, "structs") = n
  BY <1>1, <1>8, <1>9
<1>11. Len(t.structs.field_start) = n
  BY <1>1, <1>2, <1>9 DEF Shaped
<1>12. value = t["structs"]["field_count"][n] + 1 /\ value \in Nat
  <2>1. (n - 1) + 1 = n /\ n \in 1 .. n
    BY <1>2
  <2>2. t.structs.field_count \in Seq(Nat) /\ Len(t.structs.field_count) = n
    BY <1>11 DEF WellMade, Tile
  <2>3. t.structs.field_count[n] \in Nat
    BY <2>1, <2>2
  <2> QED BY <1>5, <1>10, <2>1, <2>3
<1>13. /\ Shaped(u)
       /\ \A other \in Reader!Table :
            /\ Reader!Count(u, other) = Reader!Count(s, other)
            /\ other # "structs" => u[other] = s[other]
       /\ \A other \in ToSet(Reader!Columns["structs"]) \ {"field_count"} :
            u["structs"][other] = s["structs"][other]
       /\ Lasts(s, u)
  <2>1. Shaped(s)
    BY <1>8
  <2>2. "structs" \in Reader!Table /\ "field_count" \in ToSet(Reader!Columns["structs"])
    BY <1>9
  <2>3. n - 1 \in Nat
    BY <1>2
  <2>4. <<"structs", "field_count">> \in Numbered => value \in Nat
    BY <1>12
  <2>5. <<"structs", "field_count">> \notin Lasting
    BY DEF Lasting
  <2> QED BY <1>6, <2>1, <2>2, <2>3, <2>4, <2>5, SetShapes, SetLasts
<1>14. u["structs"]["field_count"] = [t["structs"]["field_count"] EXCEPT ![n] = @ + 1]
  <2>1. n - 1 < Reader!Count(s, "structs") /\ (n - 1) + 1 = n
    BY <1>2, <1>10
  <2>2. u["structs"]["field_count"] = [s["structs"]["field_count"] EXCEPT ![(n - 1) + 1] = value]
    BY <1>6, <1>8, <1>9, <2>1, SetCellIsSet
  <2> QED BY <1>10, <1>12, <2>1, <2>2
<1>15. u["structs"]["field_start"] = t["structs"]["field_start"]
  BY <1>9, <1>10, <1>13
<1>16. u["fields"]["owner"] = Append(t["fields"]["owner"], n - 1)
  <2>1. "fields" \in Reader!Table /\ "fields" # "structs"
    BY TheColumns DEF Ranging
  <2> QED BY <1>8, <1>13, <2>1
<1>17. Tile(u.structs.field_start, u.structs.field_count, u.fields.owner)
  <2>1. Tile(t.structs.field_start, t.structs.field_count, t.fields.owner) /\ Len(t.structs.field_start) > 0
    BY <1>2, <1>11 DEF WellMade
  <2>2. Tile(t.structs.field_start, [t.structs.field_count EXCEPT ![Len(t.structs.field_start)] = @ + 1],
             Append(t.fields.owner, Len(t.structs.field_start) - 1))
    BY <2>1, RowIsAdded, Zenon
  <2> QED BY <1>11, <1>14, <1>15, <1>16, <2>2, Zenon
<1>18. \A other \in Ranging \ {"structs", "fields"} : u[other] = t[other]
  BY <1>8, <1>13, TheColumns DEF Ranging
<1>19. WellMade(u)
  BY <1>13, <1>17, <1>18 DEF WellMade, Ranging
<1>20. Grown(t, u)
  <2>1. Reader!Count(u, "functions") = Reader!Count(t, "functions")
        /\ u["functions"] = t["functions"]
    BY <1>8, <1>13, TheColumns DEF Ranging
  <2>2. Larger(t, u)
    <3>1. Lasts(t, u)
      BY <1>2, <1>8, <1>13, LastsThrough
    <3> QED BY <1>1, <1>2, <1>10, <1>13, <1>9, <2>1, <3>1 DEF Larger, FieldsStay
  <2>3. SameDoing(t, u)
    BY <1>8, <1>13, TheColumns DEF SameDoing, Doing
  <2> QED BY <2>1, <2>2, <2>3 DEF Grown, SameBodies
<1>21. FieldAdded(t, u, type)
  <2>1. PICK k : k = Reader!Count(t, "fields")
    OBVIOUS
  <2>2. /\ "fields" \in Reader!Table \ {"structs"} /\ "structs" \in Reader!Table
        /\ "module" \in ToSet(Reader!Columns["structs"]) \ {"field_count"}
        /\ {"owner", "field_type"} \subseteq ToSet(Reader!Columns["fields"])
    BY TheColumns DEF Ranging
  <2>3. /\ Reader!Count(u, "fields") = k + 1
        /\ Reader!Count(u, "structs") = Reader!Count(t, "structs")
        /\ u["structs"]["module"] = t["structs"]["module"]
        /\ u["fields"] = s["fields"]
    BY <1>1, <1>8, <1>10, <1>13, <2>1, <2>2
  <2>4. ASSUME NEW name_ \in {"owner", "field_type"}, NEW value_
        PROVE  Append(t["fields"][name_], value_)[k + 1] = value_
    <3>1. PICK c : c = t["fields"][name_]
      OBVIOUS
    <3>2. c \in Seq(ToSet(c)) /\ Len(c) = k
      BY <1>2, <2>1, <2>2, <3>1 DEF Shaped, AreCells
    <3> QED BY <3>1, <3>2, RowAtEnd
  <2>5. u["fields"]["owner"][k + 1] = n - 1 /\ u["fields"]["field_type"][k + 1] = type
    BY <1>8, <2>3, <2>4
  <2> QED BY <1>2, <2>1, <2>3, <2>5 DEF FieldAdded
<1> QED BY <1>7, <1>19, <1>20, <1>21

\* A parameter that is added is the newest function's.
LEMMA ParameterMade ==
  ASSUME NEW t, WellMade(t), Reader!Count(t, "functions") > 0, NEW name, NEW type, NEW allocator
  PROVE  LET u == Reader!PushParameter(t, Reader!Newest(t, "functions"), name, type, allocator)
         IN  WellMade(u) /\ Grown(t, u)
<1>1. PICK n : n = Reader!Count(t, "functions")
  OBVIOUS
<1>2. Shaped(t) /\ n \in Nat \ {0} /\ n - 1 \in Nat /\ Reader!Newest(t, "functions") = n - 1
      /\ Reader!Count(t, "structs") \in Nat
  BY <1>1, RowsAreCounted, TheColumns DEF WellMade, Ranging, Reader!Newest
<1>3. PICK row : row = [owner |-> n - 1, parameter_type |-> type, allocator |-> allocator]
  BY Zenon
<1>4. PICK s : s = Reader!PushNamed(t, "parameters", name, row)
  OBVIOUS
<1>5. PICK value : value = s["functions"]["parameter_count"][(n - 1) + 1] + 1
  OBVIOUS
<1>6. PICK u : u = Reader!SetCell(s, "functions", "parameter_count", n - 1, value)
  OBVIOUS
<1>7. u = Reader!PushParameter(t, Reader!Newest(t, "functions"), name, type, allocator)
  BY <1>2, <1>3, <1>4, <1>5, <1>6, CountUpSets DEF Reader!PushParameter
<1>8. /\ Shaped(s)
      /\ \A other \in Reader!Table \ {"parameters", "strings"} :
           s[other] = t[other] /\ Reader!Count(s, other) = Reader!Count(t, other)
      /\ s["parameters"]["owner"] = Append(t["parameters"]["owner"], n - 1)
      /\ Lasts(t, s)
  <2>1. "parameters" \in Reader!Table \ {"strings"} /\ "owner" \in ToSet(Reader!Columns["parameters"])
    BY TheColumns DEF Ranging
  <2>2. "owner" \in DOMAIN row \ {"name"} /\ row["owner"] = n - 1
    BY <1>3
  <2>3. \A column_ : <<"parameters", column_>> \in Numbered =>
                       column_ \in DOMAIN row \ {"name"} /\ row[column_] \in Nat
    BY <1>2, <2>2 DEF Numbered
  <2>4. /\ Shaped(s)
        /\ \A other \in Reader!Table \ {"parameters", "strings"} :
             s[other] = t[other] /\ Reader!Count(s, other) = Reader!Count(t, other)
        /\ \A column_ \in ToSet(Reader!Columns["parameters"]) :
             column_ \in DOMAIN row \ {"name"} =>
               s["parameters"][column_] = Append(t["parameters"][column_], row[column_])
    BY <1>2, <1>4, <2>1, <2>3, NamedShapes
  <2>5. Lasts(t, s)
    BY <1>2, <1>4, <2>1, <2>3, NamedLasts
  <2> QED BY <2>1, <2>2, <2>4, <2>5
<1>9. "functions" \in Reader!Table \ {"parameters", "strings"}
      /\ "parameter_count" \in ToSet(Reader!Columns["functions"])
      /\ "parameter_start" \in ToSet(Reader!Columns["functions"]) \ {"parameter_count"}
  BY TheColumns DEF Ranging
<1>10. s["functions"] = t["functions"] /\ Reader!Count(s, "functions") = n
  BY <1>1, <1>8, <1>9
<1>11. Len(t.functions.parameter_start) = n
  BY <1>1, <1>2, <1>9 DEF Shaped
<1>12. value = t["functions"]["parameter_count"][n] + 1 /\ value \in Nat
  <2>1. (n - 1) + 1 = n /\ n \in 1 .. n
    BY <1>2
  <2>2. t.functions.parameter_count \in Seq(Nat) /\ Len(t.functions.parameter_count) = n
    BY <1>11 DEF WellMade, Tile
  <2>3. t.functions.parameter_count[n] \in Nat
    BY <2>1, <2>2
  <2> QED BY <1>5, <1>10, <2>1, <2>3
<1>13. /\ Shaped(u)
       /\ \A other \in Reader!Table :
            /\ Reader!Count(u, other) = Reader!Count(s, other)
            /\ other # "functions" => u[other] = s[other]
       /\ \A other \in ToSet(Reader!Columns["functions"]) \ {"parameter_count"} :
            u["functions"][other] = s["functions"][other]
       /\ Lasts(s, u)
  <2>1. Shaped(s)
    BY <1>8
  <2>2. "functions" \in Reader!Table /\ "parameter_count" \in ToSet(Reader!Columns["functions"])
    BY <1>9
  <2>3. n - 1 \in Nat
    BY <1>2
  <2>4. <<"functions", "parameter_count">> \in Numbered => value \in Nat
    BY <1>12
  <2>5. <<"functions", "parameter_count">> \notin Lasting
    BY DEF Lasting
  <2> QED BY <1>6, <2>1, <2>2, <2>3, <2>4, <2>5, SetShapes, SetLasts
<1>14. u["functions"]["parameter_count"] = [t["functions"]["parameter_count"] EXCEPT ![n] = @ + 1]
  <2>1. n - 1 < Reader!Count(s, "functions") /\ (n - 1) + 1 = n
    BY <1>2, <1>10
  <2>2. u["functions"]["parameter_count"] = [s["functions"]["parameter_count"] EXCEPT ![(n - 1) + 1] = value]
    BY <1>6, <1>8, <1>9, <2>1, SetCellIsSet
  <2> QED BY <1>10, <1>12, <2>1, <2>2
<1>15. u["functions"]["parameter_start"] = t["functions"]["parameter_start"]
  BY <1>9, <1>10, <1>13
<1>16. u["parameters"]["owner"] = Append(t["parameters"]["owner"], n - 1)
  <2>1. "parameters" \in Reader!Table /\ "parameters" # "functions"
    BY TheColumns DEF Ranging
  <2> QED BY <1>8, <1>13, <2>1
<1>17. Tile(u.functions.parameter_start, u.functions.parameter_count, u.parameters.owner)
  <2>1. Tile(t.functions.parameter_start, t.functions.parameter_count, t.parameters.owner) /\ Len(t.functions.parameter_start) > 0
    BY <1>2, <1>11 DEF WellMade
  <2>2. Tile(t.functions.parameter_start, [t.functions.parameter_count EXCEPT ![Len(t.functions.parameter_start)] = @ + 1],
             Append(t.parameters.owner, Len(t.functions.parameter_start) - 1))
    BY <2>1, RowIsAdded, Zenon
  <2> QED BY <1>11, <1>14, <1>15, <1>16, <2>2, Zenon
<1>18. \A other \in Ranging \ {"functions", "parameters"} : u[other] = t[other]
  BY <1>8, <1>13, TheColumns DEF Ranging
<1>19. WellMade(u)
  BY <1>13, <1>17, <1>18 DEF WellMade, Ranging
<1>20. Grown(t, u)
  <2>1. Reader!Count(u, "structs") = Reader!Count(t, "structs")
    BY <1>8, <1>13, TheColumns DEF Ranging
  <2>2. Larger(t, u)
    <3>1. Lasts(t, u)
      BY <1>2, <1>8, <1>13, LastsThrough
    <3>2. FieldsStay(t, u)
      BY <1>18 DEF Ranging, FieldsStay
    <3> QED BY <1>1, <1>2, <1>10, <1>13, <1>9, <2>1, <3>1, <3>2 DEF Larger
  <2>3. SameDoing(t, u)
    BY <1>8, <1>13, TheColumns DEF SameDoing, Doing
  <2>4. \A column_ \in {"line", "body"} : u["functions"][column_] = t["functions"][column_]
    BY <1>10, <1>13, TheColumns
  <2> QED BY <2>2, <2>3, <2>4 DEF Grown, SameBodies
<1> QED BY <1>7, <1>19, <1>20

-----------------------------------------------------------------------------
(* What is built.                                                          *)

Parts == {"tables", "type", "names", "structs", "functions", "passed_in"}

Types(b) == Reader!Count(b.tables, "types")
Structs(b) == Reader!Count(b.tables, "structs")
Functions(b) == Reader!Count(b.tables, "functions")

\* The rows that names are remembered by are there.
IsMap(map, n) == \A key \in DOMAIN map : map[key] \in 0 .. n - 1
Known(index, n) == IsMap(index.scoped, n) /\ IsMap(index.anywhere, n)

\* A source is one of the three there always are, or a row that is a parameter of
\* that function or of none.
BelongsTo(t, from, function) ==
  \/ from \in 0 .. 2
  \/ /\ from \in 0 .. Reader!Count(t, "allocator_sources") - 1
     /\ t.allocator_sources.kind[from + 1] = "Parameter" =>
          t.allocator_sources.function[from + 1] = function

Fixed(t) ==
  \A i \in 1 .. 3 :
    i =< Reader!Count(t, "allocator_sources") => t.allocator_sources.kind[i] # "Parameter"

Sourced(t) == 3 =< Reader!Count(t, "allocator_sources")

PassesBelong(t, passed) ==
  \A i \in 1 .. Len(passed) : BelongsTo(t, passed[i].source, passed[i].function)

ArgumentsBelong(t) ==
  \A i \in 1 .. Reader!Count(t, "call_arguments") :
    /\ t.call_arguments.call[i] \in 0 .. Reader!Count(t, "calls") - 1
    /\ BelongsTo(t, t.call_arguments.source[i], t.calls.caller[t.call_arguments.call[i] + 1])

OperationsBelong(t) ==
  \A i \in 1 .. Reader!Count(t, "memory_operations") :
    BelongsTo(t, t.memory_operations.allocator[i], t.memory_operations.function[i])

Passes == [function : Nat, index : Nat, source : Nat]

\* What is allocated with is of the function that does it.
Attributed(t, passed) ==
  /\ Fixed(t)
  /\ passed \in Seq(Passes)
  /\ PassesBelong(t, passed)
  /\ ArgumentsBelong(t)
  /\ OperationsBelong(t)

\* The functions of the first modules, and of all, in the order of their handles.
UpTo(modules, n) == FlattenSeq([i \in 1 .. n |-> modules[i].functions])
Listing(modules) == UpTo(modules, Len(modules))
DeclaredAs(modules, handle) == Listing(modules)[handle + 1]

NamesApart(modules) ==
  \A m \in 1 .. Len(modules) : \A i, j \in 1 .. Len(modules[m].functions) :
    modules[m].functions[i].name = modules[m].functions[j].name => i = j

\* A module declares a function of a name, which has this handle.
IsPlace(modules, m, name, handle) ==
  /\ m \in 0 .. Len(modules) - 1
  /\ \E i \in 1 .. Len(modules[m + 1].functions) :
       /\ modules[m + 1].functions[i].name = name
       /\ handle = Len(UpTo(modules, m)) + i - 1

\* What a name is remembered by has that name, and in its module is the function
\* that the module declares.
NamesTold(index, modules) ==
  /\ \A key \in DOMAIN index.scoped : DeclaredAs(modules, index.scoped[key]).name = key[2]
  /\ \A name \in DOMAIN index.anywhere :
       DeclaredAs(modules, index.anywhere[name]).name = name
  /\ \A m, name, handle :
       IsPlace(modules, m, name, handle) /\ <<m, name>> \in DOMAIN index.scoped =>
         index.scoped[<<m, name>>] = handle

LinesTold(t, modules) ==
  \A i \in 1 .. Reader!Count(t, "functions") :
    t.functions.line[i] = Listing(modules)[i].line

BodiesTold(t, modules) ==
  \A i \in 1 .. Reader!Count(t, "functions") :
    t.functions.body[i] # NoIndex =>
      /\ Listing(modules)[i].body
      /\ t.functions.body[i] + 1 \in 1 .. Reader!Count(t, "expressions")
      /\ t.expressions.line[t.functions.body[i] + 1] = Listing(modules)[i].line

Makes(f, name) == \E i \in DOMAIN f.calls : Reader!Last(f.calls[i].callee) = name

CallsTold(t, modules) ==
  \A i \in 1 .. Reader!Count(t, "calls") :
    Makes(DeclaredAs(modules, t.calls.caller[i]),
          DeclaredAs(modules, t.calls.callee[i]).name)

FreesTold(t, modules) ==
  \A i \in 1 .. Reader!Count(t, "memory_operations") :
    t.memory_operations.kind[i] = "Free" =>
      \E name \in Reader!Freeing :
        Makes(DeclaredAs(modules, t.memory_operations.function[i]), name)

\* Where no module declares two functions of one name, what is told of a function
\* is what it was read from.
Told(t, index, modules) ==
  NamesApart(modules) =>
    /\ NamesTold(index, modules)
    /\ LinesTold(t, modules)
    /\ BodiesTold(t, modules)
    /\ CallsTold(t, modules)
    /\ FreesTold(t, modules)

Made(b) ==
  /\ DOMAIN b = Parts
  /\ WellMade(b.tables)
  /\ Known(b.names, Types(b))
  /\ Known(b.structs, Structs(b))
  /\ Known(b.functions, Functions(b))
  /\ Attributed(b.tables, b.passed_in)
  /\ Told(b.tables, b.functions, source.modules)

\* The expressions there are only change while bodies are read.
BodiesStay(t, u) == reading # "bodies" => u.expressions = t.expressions

\* A type is that of the container that a module declares by a name.
Lodged(t, m, name, type) ==
  /\ type \in 0 .. Reader!Count(t, "types") - 1
  /\ t.types.kind[type + 1] = "Struct" /\ t.types.module[type + 1] = m
  /\ t.types.name[type + 1] \in 0 .. Reader!Count(t, "strings") - 1
  /\ t.strings.text[t.types.name[type + 1] + 1] = name

\* In its module a name is remembered by that type, and is one that is known.
Home(b, m, name) ==
  /\ <<m, name>> \in DOMAIN b.names.scoped
  /\ Lodged(b.tables, m, name, b.names.scoped[<<m, name>>])
  /\ name \in DOMAIN b.names.anywhere

\* While there is an index for every type, no name is taken for another's.
Remembers(b, c) ==
  Types(c) =< NoIndex => \A m, name : Home(b, m, name) => Home(c, m, name)

\* What was built before is there yet, with some functions more.
Kept(b, c, k) ==
  /\ Made(c)
  /\ Structs(b) =< Structs(c)
  /\ Functions(c) = Functions(b) + k
  /\ k = 0 => c.functions = b.functions
  /\ Sourced(b.tables) => Sourced(c.tables)
  /\ BodiesStay(b.tables, c.tables)
  /\ Lasts(b.tables, c.tables) /\ FieldsStay(b.tables, c.tables)
  /\ Remembers(b, c)

\* Tables that say the same of what functions are and do.
Aside(t, u) ==
  /\ u.calls = t.calls /\ u.memory_operations = t.memory_operations
  /\ u.expressions = t.expressions
  /\ SameBodies(t, u)
  /\ Reader!Count(u, "functions") = Reader!Count(t, "functions")

LEMMA GrownIsAside ==
  ASSUME NEW t, NEW u, Grown(t, u)
  PROVE  Aside(t, u)
BY DEF Grown, Larger, SameDoing, Doing, Aside

LEMMA AsideIsTold ==
  ASSUME NEW t, NEW u, Aside(t, u), NEW index, NEW modules, Told(t, index, modules)
  PROVE  Told(u, index, modules) /\ BodiesStay(t, u)
<1>1. SUFFICES ASSUME NamesApart(modules) PROVE Told(u, index, modules)
  BY DEF Aside, BodiesStay, Told
<1>2. /\ u.calls = t.calls /\ u.memory_operations = t.memory_operations
      /\ u.expressions = t.expressions
      /\ u.functions.line = t.functions.line /\ u.functions.body = t.functions.body
      /\ Reader!Count(u, "functions") = Reader!Count(t, "functions")
  BY DEF Aside, SameBodies
<1>3. /\ Reader!Count(u, "calls") = Reader!Count(t, "calls")
      /\ Reader!Count(u, "memory_operations") = Reader!Count(t, "memory_operations")
      /\ Reader!Count(u, "expressions") = Reader!Count(t, "expressions")
  BY <1>2 DEF Reader!Count
<1>4. /\ NamesTold(index, modules) /\ LinesTold(t, modules) /\ BodiesTold(t, modules)
      /\ CallsTold(t, modules) /\ FreesTold(t, modules)
  BY <1>1 DEF Told
<1>5. LinesTold(u, modules)
  BY <1>2, <1>4 DEF LinesTold
<1>6. BodiesTold(u, modules)
  BY <1>2, <1>3, <1>4 DEF BodiesTold
<1>7. CallsTold(u, modules)
  BY <1>2, <1>3, <1>4 DEF CallsTold
<1>8. FreesTold(u, modules)
  BY <1>2, <1>3, <1>4 DEF FreesTold
<1> QED BY <1>4, <1>5, <1>6, <1>7, <1>8 DEF Told

\* Where the tables of what is done stay, everything in them does.
LEMMA DoneIsAttributed ==
  ASSUME NEW t, NEW u, u.allocator_sources = t.allocator_sources, u.calls = t.calls,
         u.call_arguments = t.call_arguments, u.memory_operations = t.memory_operations,
         NEW passed
  PROVE  /\ Attributed(u, passed) <=> Attributed(t, passed)
         /\ Sourced(u) <=> Sourced(t)
<1>1. /\ u.allocator_sources = t.allocator_sources /\ u.calls = t.calls
      /\ u.call_arguments = t.call_arguments /\ u.memory_operations = t.memory_operations
  OBVIOUS
<1>3. /\ Reader!Count(u, "allocator_sources") = Reader!Count(t, "allocator_sources")
      /\ Reader!Count(u, "calls") = Reader!Count(t, "calls")
      /\ Reader!Count(u, "call_arguments") = Reader!Count(t, "call_arguments")
      /\ Reader!Count(u, "memory_operations") = Reader!Count(t, "memory_operations")
  BY DEF Reader!Count
<1>4. \A from, function : BelongsTo(u, from, function) <=> BelongsTo(t, from, function)
  BY <1>1, <1>3 DEF BelongsTo
<1>5. Fixed(u) <=> Fixed(t)
  BY <1>1, <1>3 DEF Fixed
<1>6. PassesBelong(u, passed) <=> PassesBelong(t, passed)
  BY <1>4 DEF PassesBelong
<1>7. ArgumentsBelong(u) <=> ArgumentsBelong(t)
  BY <1>1, <1>3, <1>4 DEF ArgumentsBelong
<1>8. OperationsBelong(u) <=> OperationsBelong(t)
  BY <1>1, <1>3, <1>4 DEF OperationsBelong
<1>9. Sourced(u) <=> Sourced(t)
  BY <1>3 DEF Sourced
<1> QED BY <1>5, <1>6, <1>7, <1>8, <1>9 DEF Attributed

LEMMA SameIsAttributed ==
  ASSUME NEW t, NEW u, SameDoing(t, u), NEW passed
  PROVE  /\ Attributed(u, passed) <=> Attributed(t, passed)
         /\ Sourced(u) <=> Sourced(t)
BY DoneIsAttributed DEF SameDoing, Doing

LEMMA RowsBuilt ==
  ASSUME NEW b, Made(b)
  PROVE  Structs(b) \in Nat /\ Functions(b) \in Nat
<1>1. "structs" \in Reader!Table /\ "functions" \in Reader!Table
  BY TheColumns DEF Ranging
<1> QED BY <1>1, RowsAreCounted DEF Made, WellMade, Structs, Functions

\* The types and texts there are.
LEMMA TypesBuilt ==
  ASSUME NEW t, Shaped(t)
  PROVE  /\ Reader!Count(t, "types") \in Nat /\ Reader!Count(t, "strings") \in Nat
         /\ \A name \in {"kind", "element", "module", "name"} :
              Len(t.types[name]) = Reader!Count(t, "types")
         /\ Len(t.strings.text) = Reader!Count(t, "strings")
<1>1. "types" \in Reader!Table /\ "strings" \in Reader!Table
  BY TheColumns
<1>2. /\ <<"strings", "text">> \in Lasting
      /\ \A name \in {"kind", "element", "module", "name"} : <<"types", name>> \in Lasting
  BY DEF Lasting
<1>3. ASSUME NEW place \in Lasting
      PROVE  Len(t[place[1]][place[2]]) = Reader!Count(t, place[1])
  BY LastingIsCounted
<1>4. Len(t["strings"]["text"]) = Reader!Count(t, "strings")
  <2>1. PICK place \in Lasting : place = <<"strings", "text">>
    BY <1>2
  <2> QED BY <1>3, <2>1
<1>5. ASSUME NEW name \in {"kind", "element", "module", "name"}
      PROVE  Len(t["types"][name]) = Reader!Count(t, "types")
  <2>1. PICK place \in Lasting : place = <<"types", name>>
    BY <1>2
  <2> QED BY <1>3, <2>1
<1> QED BY <1>1, <1>4, <1>5, RowsAreCounted

\* Where they last there are no fewer of them, and they say the same.
LEMMA TypesLast ==
  ASSUME NEW t, Shaped(t), NEW u, Shaped(u), Lasts(t, u)
  PROVE  /\ Reader!Count(t, "types") =< Reader!Count(u, "types")
         /\ Reader!Count(t, "strings") =< Reader!Count(u, "strings")
         /\ \A name \in {"kind", "element", "module", "name"} :
              \A i \in 1 .. Reader!Count(t, "types") : u.types[name][i] = t.types[name][i]
         /\ \A i \in 1 .. Reader!Count(t, "strings") : u.strings.text[i] = t.strings.text[i]
<1>1. /\ <<"strings", "text">> \in Lasting
      /\ \A name \in {"kind", "element", "module", "name"} : <<"types", name>> \in Lasting
  BY DEF Lasting
<1>2. ASSUME NEW p, NEW q, <<p, q>> \in Lasting
      PROVE  Stays(t[p][q], u[p][q])
  <2>1. PICK place \in Lasting : place = <<p, q>>
    BY <1>2
  <2> QED BY <2>1 DEF Lasts
<1>3. Stays(t["strings"]["text"], u["strings"]["text"])
  BY <1>1, <1>2
<1>4. \A name \in {"kind", "element", "module", "name"} :
        Stays(t["types"][name], u["types"][name])
  BY <1>1, <1>2
<1>5. Stays(t["types"]["kind"], u["types"]["kind"])
  BY <1>4
<1> QED BY <1>3, <1>4, <1>5, TypesBuilt DEF Stays

LEMMA LodgedLasts ==
  ASSUME NEW t, Shaped(t), NEW u, Shaped(u), Lasts(t, u), NEW m, NEW name, NEW type,
         Lodged(t, m, name, type)
  PROVE  Lodged(u, m, name, type)
<1>1. PICK n : n = t.types.name[type + 1]
  OBVIOUS
<1>2. /\ Reader!Count(t, "types") \in Nat /\ Reader!Count(u, "types") \in Nat
      /\ Reader!Count(t, "strings") \in Nat /\ Reader!Count(u, "strings") \in Nat
  BY TypesBuilt
<1>3. /\ type \in 0 .. Reader!Count(t, "types") - 1
      /\ n \in 0 .. Reader!Count(t, "strings") - 1
      /\ type + 1 \in 1 .. Reader!Count(t, "types")
      /\ n + 1 \in 1 .. Reader!Count(t, "strings")
      /\ type \in 0 .. Reader!Count(u, "types") - 1
      /\ n \in 0 .. Reader!Count(u, "strings") - 1
  BY <1>1, <1>2, TypesLast DEF Lodged
<1>4. /\ u.types.kind[type + 1] = t.types.kind[type + 1]
      /\ u.types.module[type + 1] = t.types.module[type + 1]
      /\ u.types.name[type + 1] = n
      /\ u.strings.text[n + 1] = t.strings.text[n + 1]
  BY <1>1, <1>3, TypesLast
<1> QED BY <1>1, <1>3, <1>4 DEF Lodged

\* Where names stay, so does what they are remembered by.
LEMMA NamesRemember ==
  ASSUME NEW b, Shaped(b.tables), NEW c, Shaped(c.tables), Lasts(b.tables, c.tables),
         c.names = b.names
  PROVE  Remembers(b, c)
BY LodgedLasts DEF Remembers, Home

LEMMA KeptAsItIs ==
  ASSUME NEW b, Made(b)
  PROVE  Kept(b, b, 0)
<1>1. Lasts(b.tables, b.tables)
  BY LastsItself DEF Made, WellMade
<1> QED BY <1>1, RowsBuilt DEF Kept, BodiesStay, FieldsStay, Remembers

LEMMA KeptThrough ==
  ASSUME NEW b, NEW c, NEW d, NEW j \in Nat, NEW k \in Nat, Made(b), Kept(b, c, j), Kept(c, d, k)
  PROVE  Kept(b, d, j + k)
<1>1. Made(c) /\ Made(d)
  BY DEF Kept
<1>2. Structs(b) \in Nat /\ Structs(c) \in Nat /\ Structs(d) \in Nat
      /\ Functions(b) \in Nat /\ Functions(c) \in Nat /\ Functions(d) \in Nat
  BY <1>1, RowsBuilt
<1>3. j + k = 0 => j = 0 /\ k = 0
  OBVIOUS
<1>4. Lasts(b.tables, d.tables) /\ Remembers(b, d)
  <2>1. /\ Shaped(b.tables) /\ Shaped(c.tables) /\ Shaped(d.tables)
        /\ Lasts(b.tables, c.tables) /\ Lasts(c.tables, d.tables)
    BY <1>1 DEF Kept, Made, WellMade
  <2>2. Types(c) \in Nat /\ Types(d) \in Nat /\ Types(c) =< Types(d) /\ NoIndex \in Nat
    BY <2>1, TypesBuilt, TypesLast, IndexAssumption DEF Types
  <2>3. Remembers(b, c) /\ Remembers(c, d)
    BY DEF Kept
  <2> QED BY <2>1, <2>2, <2>3, LastsThrough DEF Remembers
<1> QED BY <1>1, <1>2, <1>3, <1>4 DEF Kept, BodiesStay, FieldsStay

LEMMA KnownLonger ==
  ASSUME NEW index, NEW n \in Nat, NEW m \in Nat, n =< m, Known(index, n)
  PROVE  Known(index, m)
<1>1. ASSUME NEW map, IsMap(map, n) PROVE IsMap(map, m)
  <2>1. SUFFICES ASSUME NEW key \in DOMAIN map PROVE map[key] \in 0 .. m - 1
    BY DEF IsMap
  <2>2. map[key] \in 0 .. n - 1
    BY <1>1 DEF IsMap
  <2> QED BY <2>2
<1> QED BY <1>1 DEF Known

\* A name that is remembered is of a row that is there.
LEMMA RememberedIsKnown ==
  ASSUME NEW index, NEW n \in Nat, Known(index, n), NEW m, NEW name,
         NEW handle \in 0 .. n - 1
  PROVE  Known(Reader!Remember(index, m, name, handle), n)
<1>1. ASSUME NEW map, IsMap(map, n), NEW key
      PROVE  IsMap(Reader!Put(map, key, handle), n) /\ IsMap(Reader!PutIfAbsent(map, key, handle), n)
  <2>1. IsMap(Reader!Put(map, key, handle), n)
    BY <1>1 DEF IsMap, Reader!Put
  <2> QED BY <1>1, <2>1 DEF Reader!PutIfAbsent
<1>2. Reader!Remember(index, m, name, handle).scoped =
        Reader!Put(index.scoped, <<m, name>>, handle)
      /\ Reader!Remember(index, m, name, handle).anywhere =
           Reader!PutIfAbsent(index.anywhere, name, handle)
  BY DEF Reader!Remember
<1> QED BY <1>1, <1>2 DEF Known

\* A name that is looked up is of a row, or of none.
LEMMA LookedUp ==
  ASSUME NEW index, NEW n \in Nat, Known(index, n), NEW m, NEW text
  PROVE  Reader!LookUp(index, m, text) \in (0 .. n - 1) \cup {NoIndex}
<1>1. PICK here : here = { <<module, Reader!Last(text)>> : module \in Reader!Qualified(m, text) }
                           \cap DOMAIN index.scoped
  BY Zenon
<1>2. CASE here # {}
  <2>1. PICK key : key = CHOOSE k \in here : TRUE
    OBVIOUS
  <2>2. key \in here
    BY <1>2, <2>1
  <2>3. key \in DOMAIN index.scoped
    BY <1>1, <2>2
  <2>4. Reader!LookUp(index, m, text) = index.scoped[key]
    BY <1>1, <1>2, <2>1 DEF Reader!LookUp
  <2> QED BY <2>3, <2>4 DEF Known, IsMap
<1>3. CASE here = {}
  <2>1. Reader!LookUp(index, m, text) =
          IF Reader!Last(text) \in DOMAIN index.anywhere THEN index.anywhere[Reader!Last(text)] ELSE NoIndex
    BY <1>1, <1>3 DEF Reader!LookUp
  <2> QED BY <2>1 DEF Known, IsMap
<1> QED BY <1>2, <1>3

\* Where only the tables grow, all is kept.
LEMMA TablesKept ==
  ASSUME NEW b, Made(b), NEW c, DOMAIN c = Parts,
         Lasts(b.tables, c.tables), FieldsStay(b.tables, c.tables),
         c.names = b.names, c.structs = b.structs, c.functions = b.functions, WellMade(c.tables),
         NEW k \in Nat, Structs(b) =< Structs(c), Functions(c) = Functions(b) + k,
         Attributed(c.tables, c.passed_in), Sourced(b.tables) => Sourced(c.tables),
         Told(c.tables, c.functions, source.modules), BodiesStay(b.tables, c.tables)
  PROVE  Kept(b, c, k)
<1>1. Structs(b) \in Nat /\ Functions(b) \in Nat
  BY RowsBuilt
<1>2. Structs(c) \in Nat /\ Functions(c) \in Nat
  <2>1. "structs" \in Reader!Table /\ "functions" \in Reader!Table
    BY TheColumns DEF Ranging
  <2> QED BY <2>1, RowsAreCounted DEF WellMade, Structs, Functions
<1>3. Known(b.structs, Structs(b)) /\ Known(b.functions, Functions(b))
  BY DEF Made
<1>4. Known(c.structs, Structs(c))
  BY <1>1, <1>2, <1>3, KnownLonger
<1>5. Functions(b) =< Functions(c)
  BY <1>1, <1>2
<1>6. Known(c.functions, Functions(c))
  BY <1>1, <1>2, <1>3, <1>5, KnownLonger
<1>8. Known(c.names, Types(c)) /\ Remembers(b, c)
  <2>1. Shaped(b.tables) /\ Shaped(c.tables)
    BY DEF Made, WellMade
  <2>2. Types(b) \in Nat /\ Types(c) \in Nat /\ Types(b) =< Types(c)
    BY <2>1, TypesBuilt, TypesLast DEF Types
  <2>3. Known(b.names, Types(b))
    BY DEF Made
  <2> QED BY <2>1, <2>2, <2>3, KnownLonger, NamesRemember
<1>7. Made(c)
  BY <1>4, <1>6, <1>8 DEF Made
<1> QED BY <1>7, <1>8 DEF Kept

LEMMA LargerKept ==
  ASSUME NEW b, Made(b), NEW c, DOMAIN c = Parts,
         c.names = b.names, c.structs = b.structs, c.functions = b.functions, WellMade(c.tables),
         Larger(b.tables, c.tables),
         Attributed(c.tables, c.passed_in), Sourced(b.tables) => Sourced(c.tables),
         Told(c.tables, c.functions, source.modules), BodiesStay(b.tables, c.tables)
  PROVE  Kept(b, c, 0)
<1>1. /\ Lasts(b.tables, c.tables) /\ FieldsStay(b.tables, c.tables)
      /\ Structs(b) =< Structs(c) /\ Functions(c) = Functions(b)
  BY DEF Larger, Structs, Functions
<1>2. Functions(c) = Functions(b) + 0
  BY <1>1, RowsBuilt
<1> QED BY <1>1, <1>2, TablesKept

LEMMA GrownKept ==
  ASSUME NEW b, Made(b), NEW c, DOMAIN c = Parts,
         c.names = b.names, c.structs = b.structs, c.functions = b.functions, c.passed_in = b.passed_in,
         WellMade(c.tables), Grown(b.tables, c.tables)
  PROVE  Kept(b, c, 0)
<1>1. Larger(b.tables, c.tables) /\ SameDoing(b.tables, c.tables)
  BY DEF Grown
<1>2. Attributed(c.tables, c.passed_in) /\ (Sourced(b.tables) => Sourced(c.tables))
  BY <1>1, SameIsAttributed DEF Made
<1>3. Told(c.tables, c.functions, source.modules) /\ BodiesStay(b.tables, c.tables)
  BY GrownIsAside, AsideIsTold DEF Made
<1> QED BY <1>1, <1>2, <1>3, LargerKept

LEMMA KeptTwice ==
  ASSUME NEW b, NEW c, NEW d, NEW k \in Nat, Made(b), Kept(b, c, 0), Kept(c, d, k)
  PROVE  Kept(b, d, k)
<1>1. Kept(b, d, 0 + k)
  BY KeptThrough
<1>2. 0 + k = k
  OBVIOUS
<1> QED BY <1>1, <1>2

LEMMA TypedKept ==
  ASSUME NEW b, Made(b), NEW t, WellMade(t), Grown(b.tables, t)
  PROVE  Kept(b, Reader!Typed(b, t), 0) /\ Reader!Typed(b, t).tables = t
<1>1. PICK c : c = Reader!Typed(b, t)
  OBVIOUS
<1>2. DOMAIN c = Parts /\ c.names = b.names /\ c.structs = b.structs
      /\ c.functions = b.functions /\ c.tables = t
      /\ c.passed_in = b.passed_in
  BY <1>1 DEF Reader!Typed, Made, Parts
<1>3. WellMade(c.tables) /\ Grown(b.tables, c.tables)
  BY <1>2
<1>4. Kept(b, c, 0)
  BY <1>2, <1>3, GrownKept
<1> QED BY <1>1, <1>2, <1>4

\* The tables are exchanged for larger ones.
LEMMA ExceptTablesKept ==
  ASSUME NEW b, Made(b), NEW t, WellMade(t), Grown(b.tables, t)
  PROVE  Kept(b, [b EXCEPT !.tables = t], 0) /\ [b EXCEPT !.tables = t].tables = t
<1>1. PICK c : c = [b EXCEPT !.tables = t]
  BY Zenon
<1>2. DOMAIN c = Parts /\ c.names = b.names /\ c.structs = b.structs
      /\ c.functions = b.functions /\ c.tables = t
      /\ c.passed_in = b.passed_in
  BY <1>1 DEF Made, Parts
<1>3. WellMade(c.tables) /\ Grown(b.tables, c.tables)
  BY <1>2
<1>4. Kept(b, c, 0)
  BY <1>2, <1>3, GrownKept
<1> QED BY <1>1, <1>2, <1>4

LEMMA ExceptTablesStay ==
  ASSUME NEW b, Made(b), NEW t, WellMade(t), Larger(b.tables, t),
         Attributed(t, b.passed_in), Sourced(b.tables) => Sourced(t),
         Told(t, b.functions, source.modules), BodiesStay(b.tables, t)
  PROVE  Kept(b, [b EXCEPT !.tables = t], 0) /\ [b EXCEPT !.tables = t].tables = t
<1>1. PICK c : c = [b EXCEPT !.tables = t]
  BY Zenon
<1>2. DOMAIN c = Parts /\ c.names = b.names /\ c.structs = b.structs
      /\ c.functions = b.functions /\ c.tables = t
      /\ c.passed_in = b.passed_in
  BY <1>1 DEF Made, Parts
<1>3. /\ WellMade(c.tables) /\ Larger(b.tables, c.tables) /\ Attributed(c.tables, c.passed_in)
      /\ (Sourced(b.tables) => Sourced(c.tables))
      /\ Told(c.tables, c.functions, source.modules) /\ BodiesStay(b.tables, c.tables)
  BY <1>2
<1>4. Kept(b, c, 0)
  BY <1>2, <1>3, LargerKept
<1> QED BY <1>1, <1>2, <1>4

\* What type was resolved last, and what types are known by, does not matter.
LEMMA AsideKept ==
  ASSUME NEW b, NEW c, NEW d, NEW k, Kept(b, c, k), DOMAIN d = Parts,
         d.tables = c.tables, d.structs = c.structs, d.functions = c.functions,
         d.passed_in = c.passed_in, Known(d.names, Types(d)), Remembers(c, d)
  PROVE  Kept(b, d, k)
BY DEF Kept, Made, Types, Structs, Functions, Remembers

\* Tables that grow and grow again.
LEMMA LargerThrough ==
  ASSUME NEW t, NEW u, NEW v, WellMade(t), WellMade(u), WellMade(v), Larger(t, u), Larger(u, v)
  PROVE  Larger(t, v)
<1>1. "structs" \in Reader!Table
  BY TheColumns DEF Ranging
<1>2. Reader!Count(t, "structs") \in Nat /\ Reader!Count(u, "structs") \in Nat
      /\ Reader!Count(v, "structs") \in Nat
  BY <1>1, RowsAreCounted DEF WellMade
<1>3. Lasts(t, v)
  BY LastsThrough DEF Larger, WellMade
<1> QED BY <1>2, <1>3 DEF Larger, FieldsStay

LEMMA GrownThrough ==
  ASSUME NEW t, NEW u, NEW v, WellMade(t), WellMade(u), WellMade(v), Grown(t, u), Grown(u, v)
  PROVE  Grown(t, v)
<1>1. Larger(t, v)
  BY LargerThrough DEF Grown
<1> QED BY <1>1 DEF Grown, SameDoing, SameBodies

\* The row of a text, and that of a type.
LEMMA StringPushed ==
  ASSUME NEW t, WellMade(t), NEW text, NEW u, u = Reader!PushString(t, text)
  PROVE  LET n == Reader!Count(t, "strings")
         IN  /\ n \in Nat /\ Reader!Count(u, "strings") = n + 1
             /\ u.strings.text[n + 1] = text
<1>1. PICK row : row = [text |-> text]
  BY Zenon
<1>2. u = Reader!Push(t, "strings", row) /\ row["text"] = text
  BY <1>1 DEF Reader!PushString
<1>3. /\ "strings" \in Reader!Table /\ "text" \in ToSet(Reader!Columns["strings"])
      /\ \A name : <<"strings", name>> \notin Numbered
  BY TheColumns DEF Numbered, Reader!Columns, ToSet
<1> QED BY <1>2, <1>3, RowPushed DEF WellMade

LEMMA TypePushed ==
  ASSUME NEW t, WellMade(t), NEW kind, NEW element, NEW name, NEW module,
         NEW u, u = Reader!PushType(t, kind, element, name, module)
  PROVE  LET n == Reader!Count(t, "types")
         IN  /\ n \in Nat /\ Reader!Count(u, "types") = n + 1
             /\ u.types.kind[n + 1] = kind /\ u.types.element[n + 1] = element
             /\ u.types.name[n + 1] = name /\ u.types.module[n + 1] = module
             /\ u.strings = t.strings
<1>1. PICK row : row = [kind |-> kind, element |-> element, name |-> name, module |-> module]
  BY Zenon
<1>2. /\ u = Reader!Push(t, "types", row)
      /\ row["kind"] = kind /\ row["element"] = element
      /\ row["name"] = name /\ row["module"] = module
  BY <1>1 DEF Reader!PushType
<1>3. ToSet(Reader!Columns["types"]) = {"kind", "element", "module", "name"}
  BY DEF Reader!Columns, ToSet
<1>4. /\ "types" \in Reader!Table /\ "strings" \in Reader!Table \ {"types"}
      /\ \A column_ : <<"types", column_>> \notin Numbered
  BY TheColumns DEF Numbered
<1>5. LET n == Reader!Count(t, "types")
      IN  /\ n \in Nat /\ Reader!Count(u, "types") = n + 1
          /\ \A column_ \in ToSet(Reader!Columns["types"]) :
               u["types"][column_] [n + 1] = row[column_]
          /\ u["strings"] = t["strings"]
  BY <1>2, <1>4, RowPushed DEF WellMade
<1> QED BY <1>2, <1>3, <1>5

\* A name is remembered beside the others.
Beside(index, place, name, handle, next) ==
  /\ DOMAIN next.scoped = DOMAIN index.scoped \cup {place}
  /\ next.scoped[place] = handle
  /\ DOMAIN next.anywhere = DOMAIN index.anywhere \cup {name}
  /\ \A key \in DOMAIN index.scoped :
       key # place => next.scoped[key] = index.scoped[key]

LEMMA RememberedBeside ==
  ASSUME NEW index, NEW m, NEW name, NEW handle
  PROVE  Beside(index, <<m, name>>, name, handle, Reader!Remember(index, m, name, handle))
<1>0. PICK next : next = Reader!Remember(index, m, name, handle)
  OBVIOUS
<1>1. /\ next.scoped = Reader!Put(index.scoped, <<m, name>>, handle)
      /\ next.anywhere = Reader!PutIfAbsent(index.anywhere, name, handle)
  BY <1>0 DEF Reader!Remember
<1>2. /\ DOMAIN next.scoped = DOMAIN index.scoped \cup {<<m, name>>}
      /\ next.scoped[<<m, name>>] = handle
      /\ \A key \in DOMAIN index.scoped :
           key # <<m, name>> => next.scoped[key] = index.scoped[key]
  BY <1>1 DEF Reader!Put
<1>3. DOMAIN next.anywhere = DOMAIN index.anywhere \cup {name}
  BY <1>1 DEF Reader!PutIfAbsent, Reader!Put
<1> QED BY <1>0, <1>2, <1>3 DEF Beside

LEMMA OpaqueKept ==
  ASSUME NEW b, Made(b), NEW m, NEW name,
         Types(b) =< NoIndex => name \notin DOMAIN b.names.anywhere
  PROVE  Kept(b, Reader!PushOpaque(b, m, name), 0)
<1>1. PICK stored : stored = Reader!PushString(b.tables, name)
  OBVIOUS
<1>2. WellMade(stored) /\ Grown(b.tables, stored)
  BY <1>1, StringMade DEF Made
<1>3. PICK t : t = Reader!PushType(stored, "Opaque", NoIndex, Reader!Newest(stored, "strings"), m)
  OBVIOUS
<1>4. WellMade(t) /\ Grown(stored, t)
  BY <1>2, <1>3, TypeMade
<1>5. Grown(b.tables, t)
  BY <1>2, <1>4, GrownThrough DEF Made
<1>6. PICK next : next = Reader!Typed(b, t)
  OBVIOUS
<1>7. Kept(b, next, 0) /\ next.tables = t
  BY <1>4, <1>5, <1>6, TypedKept
<1>8. PICK d : d = [next EXCEPT !.names = Reader!Remember(@, m, name, next.type)]
  BY Zenon
<1>9. d = Reader!PushOpaque(b, m, name)
  BY <1>1, <1>3, <1>6, <1>8 DEF Reader!PushOpaque
<1>10. DOMAIN d = Parts /\ d.tables = next.tables /\ d.structs = next.structs
       /\ d.functions = next.functions /\ d.passed_in = next.passed_in
  BY <1>7, <1>8 DEF Kept, Made, Parts
<1>12. /\ next.names = b.names /\ next.type = Types(next) - 1
       /\ d.names = Reader!Remember(b.names, m, name, Types(next) - 1)
  <2>1. next.names = b.names /\ next.type = Types(next) - 1
    BY <1>6, <1>7 DEF Reader!Typed, Reader!Newest, Types, Made, Parts
  <2> QED BY <1>7, <1>8, <2>1 DEF Kept, Made, Parts
<1>13. /\ Types(next) \in Nat \ {0} /\ Types(d) = Types(next)
       /\ Types(b) =< Types(next) /\ Types(b) \in Nat /\ NoIndex \in Nat
  <2>1. Types(next) = Reader!Count(stored, "types") + 1 /\ Types(d) = Types(next)
    BY <1>2, <1>3, <1>7, <1>10, TypePushed DEF Types
  <2>2. Shaped(b.tables) /\ Shaped(stored) /\ Shaped(next.tables)
        /\ Lasts(b.tables, next.tables)
    BY <1>2, <1>7 DEF Kept, Made, WellMade
  <2>3. /\ Reader!Count(stored, "types") \in Nat /\ Types(b) \in Nat
        /\ Types(b) =< Types(next)
    BY <2>2, TypesBuilt, TypesLast DEF Types
  <2> QED BY <2>1, <2>3, IndexAssumption
<1>14. Known(d.names, Types(d))
  <2>1. Known(b.names, Types(next))
    BY <1>7, <1>12 DEF Kept, Made
  <2>2. Types(next) - 1 \in 0 .. Types(next) - 1
    BY <1>13
  <2> QED BY <1>12, <1>13, <2>1, <2>2, RememberedIsKnown
<1>15. Remembers(next, d)
  <2>1. SUFFICES ASSUME Types(d) =< NoIndex, NEW mm, NEW other, Home(next, mm, other)
                 PROVE  Home(d, mm, other)
    BY DEF Remembers
  <2>2. name \notin DOMAIN b.names.anywhere
    BY <1>13, <2>1
  <2>3. other \in DOMAIN b.names.anywhere /\ <<mm, other>> \in DOMAIN b.names.scoped
    BY <1>12, <2>1 DEF Home
  <2>4. /\ <<mm, other>> \in DOMAIN d.names.scoped
        /\ d.names.scoped[<<mm, other>>] = next.names.scoped[<<mm, other>>]
        /\ other \in DOMAIN d.names.anywhere
    <3>1. <<mm, other>> # <<m, name>>
      BY <2>2, <2>3
    <3>2. PICK place : place = <<m, name>>
      BY Zenon
    <3>3. PICK key : key = <<mm, other>>
      BY Zenon
    <3>4. Beside(b.names, place, name, Types(next) - 1, d.names)
      BY <1>12, <3>2, RememberedBeside
    <3>5. key \in DOMAIN b.names.scoped /\ key # place
      BY <2>3, <3>1, <3>2, <3>3
    <3>6. /\ key \in DOMAIN d.names.scoped /\ d.names.scoped[key] = b.names.scoped[key]
          /\ other \in DOMAIN d.names.anywhere
      BY <2>3, <3>4, <3>5 DEF Beside
    <3> QED BY <1>12, <3>3, <3>6
  <2> QED BY <1>10, <2>1, <2>4 DEF Home
<1>11. Kept(b, d, 0)
  BY <1>7, <1>10, <1>14, <1>15, AsideKept
<1> QED BY <1>9, <1>11

\* A name that is looked up in vain is of no type, while there is an index for each.
LEMMA NameIsNew ==
  ASSUME NEW b, Made(b), NEW m, NEW text, Reader!LookUp(b.names, m, text) = NoIndex,
         Types(b) =< NoIndex
  PROVE  /\ Reader!Last(text) \notin DOMAIN b.names.anywhere
         /\ \A n \in Reader!Qualified(m, text) :
              <<n, Reader!Last(text)>> \notin DOMAIN b.names.scoped
<1>1. Types(b) \in Nat /\ Known(b.names, Types(b)) /\ NoIndex \in Nat
  BY TypesBuilt, IndexAssumption DEF Made, WellMade, Types
<1>2. NoIndex \notin 0 .. Types(b) - 1
  BY <1>1
<1>3. /\ \A key \in DOMAIN b.names.scoped : b.names.scoped[key] # NoIndex
      /\ \A key \in DOMAIN b.names.anywhere : b.names.anywhere[key] # NoIndex
  BY <1>1, <1>2 DEF Known, IsMap
<1>4. PICK here : here = { <<n, Reader!Last(text)>> : n \in Reader!Qualified(m, text) }
                           \cap DOMAIN b.names.scoped
  BY Zenon
<1>5. here = {}
  <2> SUFFICES ASSUME here # {} PROVE FALSE
    OBVIOUS
  <2>1. PICK key : key = CHOOSE k \in here : TRUE
    OBVIOUS
  <2>2. key \in here
    BY <2>1
  <2>3. Reader!LookUp(b.names, m, text) = b.names.scoped[key]
    BY <1>4, <2>1 DEF Reader!LookUp
  <2> QED BY <1>3, <1>4, <2>2, <2>3
<1>6. Reader!LookUp(b.names, m, text) =
        IF Reader!Last(text) \in DOMAIN b.names.anywhere
          THEN b.names.anywhere[Reader!Last(text)] ELSE NoIndex
  BY <1>4, <1>5 DEF Reader!LookUp
<1>7. Reader!Last(text) \notin DOMAIN b.names.anywhere
  BY <1>3, <1>6
<1> QED BY <1>4, <1>5, <1>7

LEMMA NameKept ==
  ASSUME NEW b, Made(b), NEW m, NEW name
  PROVE  Kept(b, Reader!ResolveName(b, m, name), 0)
<1>1. Reader!LookUp(b.names, m, name) = NoIndex =>
        Kept(b, Reader!PushOpaque(b, m, Reader!Last(name)), 0)
  <2> SUFFICES ASSUME Reader!LookUp(b.names, m, name) = NoIndex
               PROVE  Kept(b, Reader!PushOpaque(b, m, Reader!Last(name)), 0)
    OBVIOUS
  <2>1. Types(b) =< NoIndex => Reader!Last(name) \notin DOMAIN b.names.anywhere
    BY NameIsNew
  <2> QED BY <2>1, OpaqueKept
<1>2. Kept(b, Reader!Typed(b, Reader!PushType(b.tables, "Scalar", NoIndex, NoIndex,
                                              Reader!RootModule)), 0)
  BY TypeMade, TypedKept DEF Made
<1>3. ASSUME NEW type PROVE Kept(b, [b EXCEPT !.type = type], 0)
  <2>1. Kept(b, b, 0)
    BY KeptAsItIs
  <2>2. PICK d : d = [b EXCEPT !.type = type]
    BY Zenon
  <2>3. DOMAIN d = Parts /\ d.tables = b.tables /\ d.structs = b.structs
        /\ d.functions = b.functions /\ d.passed_in = b.passed_in /\ d.names = b.names
    BY <2>2 DEF Made, Parts
  <2>4. Known(d.names, Types(d)) /\ Remembers(b, d)
    BY <2>3 DEF Made, Types, Remembers, Home
  <2>5. Kept(b, d, 0)
    BY <2>1, <2>3, <2>4, AsideKept
  <2> QED BY <2>2, <2>5
<1> QED BY <1>1, <1>2, <1>3 DEF Reader!ResolveName

LEMMA WrapKept ==
  ASSUME NEW b, Made(b), NEW kind
  PROVE  Kept(b, Reader!Wrap(b, kind), 0)
BY TypeMade, TypedKept DEF Made, Reader!Wrap

\* How many functions so many turns add.
Steps(step, n) == IF step = 0 THEN 0 ELSE n

\* A loop keeps what each of its turns keeps.
LEMMA LoopKeeps ==
  ASSUME NEW loop, NEW b, Made(b), NEW xs, NEW n \in Nat, DOMAIN xs = 1 .. n,
         NEW step \in {0, 1},
         \A i \in 1 .. n : \A c :
           Kept(b, c, Steps(step, i - 1)) => Kept(c, Turn(loop, c, xs[i]), step),
         NEW h, Turns(loop, b, xs, h)
  PROVE  Kept(b, h[DOMAIN xs], Steps(step, n))
<1>1. PICK after : /\ after[0] = b
                   /\ \A i \in 1 .. n : after[i] = Turn(loop, after[i - 1], xs[i])
                   /\ after[n] = h[DOMAIN xs]
  BY TurnByTurn
<1> DEFINE So == { i \in Nat : i =< n => Kept(b, after[i], Steps(step, i)) }
<1>2. 0 \in So
  BY <1>1, KeptAsItIs DEF Steps
<1>3. ASSUME NEW i \in Nat, i \in So PROVE i + 1 \in So
  <2>1. SUFFICES ASSUME i + 1 =< n PROVE Kept(b, after[i + 1], Steps(step, i + 1))
    OBVIOUS
  <2>2. i + 1 \in 1 .. n /\ (i + 1) - 1 = i /\ i =< n
    BY <2>1
  <2>3. Kept(b, after[i], Steps(step, i))
    BY <1>3, <2>2
  <2>4. after[i + 1] = Turn(loop, after[i], xs[i + 1])
    BY <1>1, <2>2
  <2>5. Kept(after[i], Turn(loop, after[i], xs[i + 1]), step)
    BY <2>2, <2>3
  <2>6. Steps(step, i) \in Nat /\ Steps(step, i) + step = Steps(step, i + 1) /\ step \in Nat
    BY DEF Steps
  <2> HIDE DEF So
  <2> QED BY <2>3, <2>4, <2>5, <2>6, KeptThrough
<1> HIDE DEF So
<1>4. n \in So
  BY <1>2, <1>3, CountingUp
<1> QED BY <1>1, <1>4 DEF So

-----------------------------------------------------------------------------
(* What is parsed is what the crawl found.                                 *)

IsCounted(s) == \E k \in Nat : DOMAIN s = 1 .. k

\* The modules of a project, each a list of what it has.
IsModule(module) ==
  IsText(module) /\ IsSequence(module.unresolved) /\ IsSequence(module.imports)

Listed(from) ==
  /\ Len(from.modules) \in Nat \ {0}
  /\ DOMAIN from.modules = 1 .. Len(from.modules)
  /\ \A i \in 1 .. Len(from.modules) : IsModule(from.modules[i])

\* What a file imports is in its order.
InOrder(module) == IsCounted(module.imports) /\ IsCounted(module.unresolved)

\* Of what a file imports there is a module, and the file's own module says its name.
LinkedIn(files, modules) ==
  \A i \in DOMAIN files : files[i] # NoRoot =>
    \A import \in ToSet(disk[files[i]]) : \A to \in Resolved(files[i], import) :
      /\ to \in ToSet(files)
      /\ \A k \in DOMAIN files : files[k] = to =>
           \E j \in DOMAIN modules[i].imports :
             modules[i].imports[j] = [import |-> import, module |-> modules[k].name]

Linked == LinkedIn(Files, project.modules)

\* The files there are modules of are on the disk.
Parsable ==
  IsRead =>
   /\ Linked
   /\ \E n \in Nat \ {0} :
      /\ DOMAIN Files = 1 .. n /\ DOMAIN project.modules = 1 .. n
      /\ \A i \in 1 .. n : Files[i] = NoRoot \/ Files[i] \in DOMAIN disk
      /\ \A i \in 1 .. n : InOrder(project.modules[i])

\* Of some imports, those that are kept.
LEMMA PickedAreCounted ==
  ASSUME NEW s \in Seq(Import), NEW picked, DOMAIN picked = DOMAIN s,
         \A i \in DOMAIN s : picked[i] \in { <<s[i]>>, << >> },
         picked = [ i \in DOMAIN s |-> picked[i] ]
  PROVE  IsCounted(FlattenSeq(picked))
<1>1. \A i \in DOMAIN s : picked[i] \in Seq(Import)
  <2> TAKE i \in DOMAIN s
  <2>1. s[i] \in Import
    OBVIOUS
  <2>2. << s[i] >> \in Seq(Import) /\ << >> \in Seq(Import)
    BY <2>1
  <2> QED BY <2>2
<1>2. picked \in Seq(Seq(Import))
  <2>1. Len(s) \in Nat /\ DOMAIN s = 1 .. Len(s)
    OBVIOUS
  <2>2. picked \in [1 .. Len(s) -> Seq(Import)]
    BY <1>1, <2>1
  <2> QED BY <2>1, <2>2, SeqDef
<1>3. PICK all_ : all_ = FlattenSeq(picked)
  OBVIOUS
<1>4. all_ \in Seq(Import)
  BY <1>2, <1>3, FlattenType
<1>5. Len(all_) \in Nat /\ DOMAIN all_ = 1 .. Len(all_)
  BY <1>4
<1> QED BY <1>3, <1>5 DEF IsCounted

LEMMA ImportsAreInOrder ==
  ASSUME Asked, FoundOnce, NEW path \in FilesFound, NEW base
  PROVE  InOrder(ModuleOf(base, path))
<1>1. PICK s : s = disk[path]
  OBVIOUS
<1>2. s \in Seq(Import)
  BY <1>1, FilesAreOnDisk
<1>3. PICK missing : missing = [ i \in DOMAIN s |->
                                  IF s[i].kind # "Compiler" /\ Reached(path, s[i]) = {}
                                  THEN <<s[i]>> ELSE << >> ]
  BY Zenon
<1>4. PICK reached : reached = [ i \in DOMAIN s |->
                                  IF s[i].kind # "Compiler" /\ Reached(path, s[i]) # {}
                                  THEN <<s[i]>> ELSE << >> ]
  BY Zenon
<1>5. IsCounted(FlattenSeq(missing))
  BY <1>2, <1>3, PickedAreCounted
<1>6. IsCounted(FlattenSeq(reached))
  BY <1>2, <1>4, PickedAreCounted
<1>7. /\ ModuleOf(base, path).unresolved = FlattenSeq(missing)
      /\ DOMAIN ModuleOf(base, path).imports = DOMAIN FlattenSeq(reached)
  BY <1>1, <1>3, <1>4 DEF ModuleOf, Imports
<1> QED BY <1>5, <1>6, <1>7 DEF IsCounted, InOrder

\* A file that is reached by an import is in the file's module.
LEMMA ReachedIsImported ==
  ASSUME Asked, FoundOnce, NEW path \in FilesFound, Imported(path) \subseteq FilesFound,
         NEW base, NEW import \in ToSet(disk[path]), NEW to \in Resolved(path, import)
  PROVE  /\ to \in FilesFound
         /\ \E j \in DOMAIN ModuleOf(base, path).imports :
              ModuleOf(base, path).imports[j] =
                [import |-> import, module |-> NameOf(base, to)]
<1> DEFINE s == disk[path]
           T == { x \in ToSet(s) : x.kind # "Compiler" /\ Reached(path, x) # {} }
           picked == [ i \in DOMAIN s |-> IF s[i] \in T THEN <<s[i]>> ELSE << >> ]
<1>1. s \in Seq(Import)
  BY FilesAreOnDisk
<1>2. to \in FilesFound
  <2>1. to \in Imported(path)
    BY DEF Imported
  <2> QED BY <2>1
<1>3. import.kind = "File" /\ Reached(path, import) = {to}
  <2>1. import.kind = "File" /\ Resolved(path, import) = {to}
    BY DEF Resolved
  <2> QED BY <1>2, <2>1 DEF Reached, FilesFound
<1>4. \A i \in DOMAIN s :
        s[i] \in T <=> s[i].kind # "Compiler" /\ Reached(path, s[i]) # {}
  BY DEF ToSet
<1>5. import \in T
  BY <1>3
<1> HIDE DEF T
<1>6. [ i \in DOMAIN s |-> IF s[i].kind # "Compiler" /\ Reached(path, s[i]) # {}
                           THEN <<s[i]>> ELSE << >> ] = picked
  BY <1>4, Zenon
<1>7. ToSet(FlattenSeq(picked)) = ToSet(s) \cap T
  <2> HIDE DEF s
  <2> QED BY <1>1, FlattenSelects
<1>8. PICK resolved : resolved = FlattenSeq(picked)
  OBVIOUS
<1>9. PICK j \in DOMAIN resolved : resolved[j] = import
  <2>1. import \in ToSet(resolved)
    BY <1>5, <1>7, <1>8
  <2> QED BY <2>1 DEF ToSet
<1> HIDE DEF picked
<1>10. ModuleOf(base, path).imports =
         [ i \in DOMAIN resolved |->
             [ import |-> resolved[i],
               module |-> NameOf(base, CHOOSE x \in Reached(path, resolved[i]) : TRUE) ] ]
  BY <1>6, <1>8, Zenon DEF ModuleOf, Imports
<1>11. (CHOOSE x \in {to} : TRUE) = to
  OBVIOUS
<1> QED BY <1>2, <1>3, <1>9, <1>10, <1>11

\* So it is of all modules, wherever the module of a file is among them.
LEMMA ModulesAreLinked ==
  ASSUME Asked, FoundOnce, \A path \in FilesFound : Imported(path) \subseteq FilesFound,
         NEW base, NEW n \in Nat, NEW files, NEW modules, DOMAIN files = 1 .. n,
         FilesFound \subseteq ToSet(files),
         \A i \in 1 .. n : files[i] # NoRoot =>
           files[i] \in FilesFound /\ modules[i] = ModuleOf(base, files[i])
  PROVE  LinkedIn(files, modules)
<1> SUFFICES ASSUME NEW i \in 1 .. n, files[i] # NoRoot,
                    NEW import \in ToSet(disk[files[i]]), NEW to \in Resolved(files[i], import)
             PROVE  /\ to \in ToSet(files)
                    /\ \A k \in 1 .. n : files[k] = to =>
                         \E j \in DOMAIN modules[i].imports :
                           modules[i].imports[j] = [import |-> import, module |-> modules[k].name]
  BY DEF LinkedIn
<1>1. PICK path : path = files[i]
  OBVIOUS
<1>2. path \in FilesFound /\ modules[i] = ModuleOf(base, path)
  BY <1>1
<1>3. /\ to \in FilesFound
      /\ \E j \in DOMAIN ModuleOf(base, path).imports :
           ModuleOf(base, path).imports[j] =
             [import |-> import, module |-> NameOf(base, to)]
  BY <1>1, <1>2, ReachedIsImported
<1>4. to \in ToSet(files) /\ to # NoRoot
  BY <1>3, FilesAreOnDisk DEF NoRoot
<1>5. ASSUME NEW k \in 1 .. n, files[k] = to PROVE modules[k].name = NameOf(base, to)
  <2>1. modules[k] = ModuleOf(base, to)
    BY <1>4, <1>5
  <2> QED BY <2>1 DEF ModuleOf
<1> QED BY <1>2, <1>3, <1>4, <1>5

\* It is a matter of the files, the modules and the disk.
LEMMA LinkedNext ==
  ASSUME NEW files, NEW modules, Files' = files, project'.modules = modules, disk' = disk,
         LinkedIn(files, modules)
  PROVE  Linked'
<1>1. \A from, import : Resolved(from, import)' = Resolved(from, import)
  BY DEF Resolved, IsFile
<1>2. LinkedIn(files, modules)'
  BY <1>1 DEF LinkedIn, NoRoot
<1> QED BY <1>2 DEF Linked, LinkedIn, NoRoot

LEMMA LinkedStays ==
  ASSUME Linked, Files' = Files, project' = project, disk' = disk
  PROVE  Linked'
<1>1. PICK files, modules : files = Files /\ modules = project.modules
  BY Zenon
<1> QED BY <1>1, LinkedNext DEF Linked

LEMMA AssembledIsParsable == Crawls /\ Assemble => Parsable'
<1> SUFFICES ASSUME Crawls, Assemble PROVE Parsable'
  OBVIOUS
<1> DEFINE base == CommonDirectory
           made == [ i \in DOMAIN Ordered |-> ModuleOf(base, Ordered[i]) ]
           Bare == request.kind = "File"
           artifacts == [ i \in DOMAIN ArtifactRoots |->
                            IF ArtifactRoots[i] \in ToSet(found)
                            THEN {NameOf(base, ArtifactRoots[i])} ELSE {} ]
<1>1. /\ disk' = disk /\ request' = request /\ found' = found
      /\ pc = "assemble" /\ pending = << >>
      /\ project' = IF Bare THEN Project(made, << >>)
                    ELSE Project(<<EmptyModule>> \o made, artifacts)
  BY DEF Assemble, Crawls
<1>2. Ordered' = Ordered
  BY <1>1, OrderStays
<1>3. Asked /\ FoundOnce
  <2>1. found # << >>
    <3>1. ToSet(<< >>) = {}
      BY DEF ToSet
    <3> QED BY <1>1, <3>1 DEF FilesFound, Waiting, Crawls
  <2> QED BY <2>1 DEF Crawls, FoundOnce
<1>4. PICK n \in Nat : Ordered \in [1 .. n -> FilesFound] /\ n # 0
  <2>1. PICK n \in Nat : Ordered \in [1 .. n -> FilesFound]
    BY <1>3, OrderedHoldsEach
  <2>2. ToSet(Ordered) = FilesFound /\ Head(found) \in FilesFound
    BY <1>3, OrderedHoldsEach, FilesAreOnDisk
  <2>3. n # 0
    <3>1. ASSUME n = 0 PROVE ToSet(Ordered) = {}
      BY <2>1, <3>1 DEF ToSet
    <3> QED BY <2>2, <3>1
  <2> QED BY <2>1, <2>3
<1>5. DOMAIN Ordered = 1 .. n /\ \A i \in 1 .. n : Ordered[i] \in FilesFound
  BY <1>4
<1>6. \A i \in 1 .. n : Ordered[i] \in DOMAIN disk
  BY <1>3, <1>5, FilesAreOnDisk
<1>7. /\ DOMAIN made = 1 .. n /\ made = [ i \in 1 .. n |-> made[i] ]
      /\ \A i \in 1 .. n : made[i] = ModuleOf(base, Ordered[i])
  BY <1>5
<1>8. \A m, a : Project(m, a).modules = m
  BY DEF Project
<1> HIDE DEF base, made, Bare, artifacts
<1>13. \A path \in FilesFound : Imported(path) \subseteq FilesFound
  <2>1. Waiting = {}
    BY <1>1 DEF Waiting, ToSet
  <2> QED BY <1>1, <2>1 DEF Crawls
<1>14. ASSUME NEW m \in Nat, NEW files, NEW modules, DOMAIN files = 1 .. m,
              Files' = files, project'.modules = modules, FilesFound \subseteq ToSet(files),
              \A i \in 1 .. m : files[i] # NoRoot =>
                files[i] \in FilesFound /\ modules[i] = ModuleOf(base, files[i])
       PROVE  Linked'
  <2>1. LinkedIn(files, modules)
    <3>1. PICK top : top = base
      BY Zenon
    <3>2. \A i \in 1 .. m : files[i] # NoRoot =>
            files[i] \in FilesFound /\ modules[i] = ModuleOf(top, files[i])
      BY <1>14, <3>1
    <3>3. FilesFound \subseteq ToSet(files) /\ DOMAIN files = 1 .. m
      BY <1>14
    <3> QED BY <1>3, <1>13, <3>2, <3>3, ModulesAreLinked
  <2> QED BY <1>1, <1>14, <2>1, LinkedNext
<1>15. ToSet(Ordered) = FilesFound
  BY <1>3, OrderedHoldsEach
<1>9. \A i \in 1 .. n : InOrder(made[i])
  BY <1>3, <1>5, <1>7, ImportsAreInOrder
<1>10. project'.modules = IF Bare THEN made ELSE <<EmptyModule>> \o made
  BY <1>1, <1>8
<1>11. CASE Bare
  <2>1. Files' = Ordered
    BY <1>1, <1>2, <1>11 DEF Files, Bare
  <2>2. project'.modules = made
    BY <1>10, <1>11
  <2>3. n \in Nat \ {0}
    BY <1>4
  <2>4. Linked'
    <3>1. \A i \in 1 .. n : Ordered[i] \in FilesFound /\ made[i] = ModuleOf(base, Ordered[i])
      BY <1>5, <1>7
    <3> QED BY <1>5, <1>14, <1>15, <2>1, <2>2, <3>1
  <2> QED BY <1>1, <1>5, <1>6, <1>7, <1>9, <2>1, <2>2, <2>3, <2>4, Zenon DEF Parsable
<1>12. CASE ~ Bare
  <2>1. Files' = <<NoRoot>> \o Ordered
    BY <1>1, <1>2, <1>12 DEF Files, Bare, NoRoot
  <2>2. project'.modules = <<EmptyModule>> \o made
    BY <1>10, <1>12
  <2>3. /\ DOMAIN (<<EmptyModule>> \o made) = 1 .. 1 + n
        /\ (<<EmptyModule>> \o made)[1] = EmptyModule
        /\ \A i \in 1 .. n : (<<EmptyModule>> \o made)[1 + i] = made[i]
    BY <1>7, OneBefore
  <2>4. /\ DOMAIN (<<NoRoot>> \o Ordered) = 1 .. 1 + n
        /\ (<<NoRoot>> \o Ordered)[1] = NoRoot
        /\ \A i \in 1 .. n : (<<NoRoot>> \o Ordered)[1 + i] = Ordered[i]
    <3>1. Ordered = [ i \in 1 .. n |-> Ordered[i] ]
      BY <1>4
    <3> QED BY <1>5, <3>1, OneBefore
  <2>5. InOrder(EmptyModule)
    <3>1. DOMAIN EmptyModule.imports = 1 .. 0 /\ DOMAIN EmptyModule.unresolved = 1 .. 0
      BY DEF EmptyModule
    <3>2. 0 \in Nat
      OBVIOUS
    <3> QED BY <3>1, <3>2 DEF InOrder, IsCounted
  <2>6. PICK files, modules : files = <<NoRoot>> \o Ordered /\ modules = <<EmptyModule>> \o made
    BY Zenon
  <2>7. ASSUME NEW i \in 1 .. 1 + n
        PROVE  /\ files[i] = NoRoot \/ files[i] \in DOMAIN disk
               /\ InOrder(modules[i])
               /\ files[i] # NoRoot =>
                    files[i] \in FilesFound /\ modules[i] = ModuleOf(base, files[i])
    <3>1. CASE i = 1
      BY <2>3, <2>4, <2>5, <2>6, <3>1, Zenon
    <3>2. CASE i # 1
      <4>1. PICK j \in 1 .. n : i = 1 + j
        <5>1. i - 1 \in 1 .. n /\ i = 1 + (i - 1)
          BY <3>2
        <5> QED BY <5>1
      <4>2. files[i] = Ordered[j] /\ modules[i] = made[j]
        BY <2>3, <2>4, <2>6, <4>1
      <4> QED BY <1>5, <1>6, <1>7, <1>9, <4>2
    <3> QED BY <3>1, <3>2
  <2>8. 1 + n \in Nat \ {0} /\ DOMAIN files = 1 .. 1 + n
    BY <2>4, <2>6
  <2>9. Files' = files /\ project'.modules = modules /\ disk' = disk
    BY <1>1, <2>1, <2>2, <2>6, Zenon
  <2>10. FilesFound \subseteq ToSet(files)
    <3>1. \A j \in 1 .. n : 1 + j \in 1 .. 1 + n
      BY <1>4
    <3>2. ASSUME NEW path \in FilesFound PROVE path \in ToSet(files)
      <4>1. PICK j \in 1 .. n : Ordered[j] = path
        BY <1>5, <1>15 DEF ToSet
      <4>2. files[1 + j] = path /\ 1 + j \in DOMAIN files
        BY <2>4, <2>6, <3>1, <4>1
      <4> QED BY <4>2 DEF ToSet
    <3> QED BY <3>2
  <2>11. Linked'
    <3>1. 1 + n \in Nat
      OBVIOUS
    <3> QED BY <1>14, <2>7, <2>8, <2>9, <2>10, <3>1
  <2>12. DOMAIN modules = 1 .. 1 + n
    BY <2>3, <2>6
  <2> QED BY <2>7, <2>8, <2>9, <2>11, <2>12 DEF Parsable, NoRoot
<1> QED BY <1>11, <1>12

\* Nothing is read before, and what is read stays.
LEMMA StepParsable == Crawls /\ Parsable /\ [Next]_vars => Parsable'
<1> SUFFICES ASSUME Crawls, Parsable, [Next]_vars PROVE Parsable'
  OBVIOUS
<1>1. CASE Assemble
  BY <1>1, AssembledIsParsable
<1>2. CASE UNCHANGED vars
  <2>1. disk' = disk /\ request' = request /\ found' = found /\ project' = project
    BY <1>2 DEF vars
  <2>2. Ordered' = Ordered
    BY <2>1, OrderStays
  <2>3. Files' = Files
    BY <2>1, <2>2 DEF Files, NoRoot
  <2>4. Linked => Linked'
    BY <2>1, <2>3, LinkedStays
  <2> QED BY <2>1, <2>3, <2>4 DEF Parsable, IsRead, NoRoot
<1>3. ASSUME NEW reason, Fail(reason) PROVE Parsable'
  <2>1. ~ IsRead'
    BY <1>3, ProjectKinds DEF Fail, IsRead
  <2> QED BY <2>1 DEF Parsable
<1>4. ASSUME pc # "done", project' = project PROVE Parsable'
  <2>1. ~ IsRead'
    BY <1>4, ProjectKinds DEF Crawls, IsRead
  <2> QED BY <2>1 DEF Parsable
<1>5. CASE StartAtFile \/ StartAtScript \/ Again \/ Read \/ Crawled
  <2>1. pc # "done" /\ project' = project
    BY <1>5 DEF StartAtFile, StartAtScript, Again, Read, Crawled, Crawling
  <2> QED BY <1>4, <2>1
<1>6. CASE ScriptFails \/ TooMany \/ AskFails
  BY <1>3, <1>6 DEF ScriptFails, TooMany, AskFails
<1> QED BY <1>1, <1>2, <1>5, <1>6 DEF Next, Returned

\* A program that is read is one of those there are.
OfProgram ==
  command = "read" =>
    \E program \in Programs : disk = program.disk /\ contents = program.contents

\* A sequence that another gives the positions of.
LEMMA IsSequenceOf ==
  ASSUME NEW s, NEW k \in Nat, DOMAIN s = 1 .. k, s = [ i \in 1 .. k |-> s[i] ]
  PROVE  IsSequence(s) /\ Len(s) = k
<1>1. PICK S : S = ToSet(s)
  BY Zenon
<1>2. \A i \in 1 .. k : s[i] \in S
  BY <1>1 DEF ToSet
<1>3. s \in [1 .. k -> S]
  BY <1>2
<1>4. s \in Seq(S) /\ Len(s) = k
  BY <1>3, SeqDef
<1> QED BY <1>1, <1>4 DEF IsSequence

LEMMA NoContentsAreText == IsText(NoContents)
<1>1. NoContents.containers = << >> /\ NoContents.functions = << >>
  BY DEF NoContents
<1>2. IsSequence(<< >>) /\ ToSet(<< >>) = {}
  BY DEF IsSequence, ToSet
<1> QED BY <1>1, <1>2 DEF IsText

\* The modules of a text, which is all IsText asks of.
LEMMA TextOfModule ==
  ASSUME NEW module, NEW text, IsText(text),
         module.containers = text.containers, module.functions = text.functions
  PROVE  IsText(module)
BY DEF IsText

LEMMA ParsedIsListed ==
  ASSUME Parsable, OfProgram, command = "read", IsRead
  PROVE  Listed(Parsed)
<1>1. PICK n \in Nat \ {0} :
        /\ DOMAIN Files = 1 .. n
        /\ \A i \in 1 .. n : Files[i] = NoRoot \/ Files[i] \in DOMAIN disk
        /\ \A i \in 1 .. n : InOrder(project.modules[i])
  BY Zenon DEF Parsable
<1>2. \A path \in DOMAIN disk : IsText(contents[path])
  BY ProgramsAssumption DEF OfProgram
<1>3. PICK modules : modules = Parsed.modules
  OBVIOUS
<1>4. /\ DOMAIN modules = 1 .. n /\ modules = [ i \in 1 .. n |-> modules[i] ]
  BY <1>1, <1>3 DEF Parsed
<1>5. Len(modules) = n
  BY <1>4, IsSequenceOf
<1>6. ASSUME NEW i \in 1 .. n PROVE IsModule(modules[i])
  <2>1. PICK text : text = IF Files[i] = NoRoot THEN NoContents ELSE contents[Files[i]]
    OBVIOUS
  <2>2. IsText(text)
    BY <1>1, <1>2, <2>1, NoContentsAreText
  <2>3. modules[i].containers = text.containers /\ modules[i].functions = text.functions
    BY <1>1, <1>3, <2>1 DEF Parsed
  <2>4. PICK module : module = project.modules[i]
    OBVIOUS
  <2>5. PICK k \in Nat, n_ \in Nat : /\ DOMAIN module.unresolved = 1 .. k
                                     /\ DOMAIN module.imports = 1 .. n_
    BY <1>1, <2>4 DEF InOrder, IsCounted
  <2>6. PICK s, imported :
          /\ s = [ j \in DOMAIN module.unresolved |-> module.unresolved[j].text ]
          /\ imported = [ j \in DOMAIN module.imports |->
                            [ alias  |-> Alias(module.imports[j].import.text),
                              target |-> module.imports[j].module ] ]
    BY Zenon
  <2>7. modules[i].unresolved = s /\ modules[i].imports = imported
    BY <1>1, <1>3, <2>4, <2>6, Zenon DEF Parsed
  <2>8. /\ DOMAIN s = 1 .. k /\ s = [ j \in 1 .. k |-> s[j] ]
        /\ DOMAIN imported = 1 .. n_ /\ imported = [ j \in 1 .. n_ |-> imported[j] ]
    BY <2>5, <2>6
  <2>9. IsSequence(s) /\ IsSequence(imported)
    BY <2>8, IsSequenceOf
  <2>10. IsText(modules[i])
    BY <2>2, <2>3, TextOfModule
  <2> QED BY <2>7, <2>9, <2>10 DEF IsModule
<1> QED BY <1>3, <1>4, <1>5, <1>6 DEF Listed

==============================================================================

----------------------------- MODULE Signatures -----------------------------
(***************************************************************************)
(* What of a Zig function can be said in a Rust signature                  *)
(* (crates/zag-emit/src/function.rs), with the lifetimes and the names of  *)
(* types it rests on (lower.rs).                                           *)
(*                                                                         *)
(* A program is the tables once validated and analysed, so a handle that   *)
(* has to be there is a row; one that may be absent is NoIndex.  A row is  *)
(* a record, and the parameters of a function are the rows of its range.   *)
(***************************************************************************)
EXTENDS Facts, FiniteSets, Functions

RootModule == 0

MaximumTypeDepth == 8

ContainerKinds == {"Struct", "Enum", "ErrorSet", "Union"}

\* What the tables hold of a program, and what the passes before made of it.
ProgramType ==
  [ modules      : Nat \ {0},
    types        : Seq([kind : STRING, element : Nat]),
    structs      : Seq([kind : ContainerKinds, module : Nat, type_id : Nat,
                        field_start : Nat, field_count : Nat, deinit : Nat]),
    class        : Seq(STRING),
    freed_inside : SUBSET Nat,
    functions    : Seq([name : STRING, module : Nat, owner : Nat, returns : Nat,
                        error_set : Nat, fallible : BOOLEAN, body : Nat,
                        parameters : Seq([name : STRING, type : Nat,
                                          allocator : BOOLEAN])]),
    failures     : Seq([kind : {"Nothing"}] \cup [kind : {"Declared"}, set : Nat]
                         \cup [kind : {"Generated"}, name : STRING, module : Nat]),
    assigned     : Seq([function : Nat, field : Nat, expression : Nat]),
    operations   : Seq([function : Nat, kind : STRING, place_field : Nat]),
    expressions  : Seq([kind : STRING, text : STRING, children : Seq(Nat),
                        field : Nat, result : Nat, callee : Nat]) ]

Type(p, t)      == At(p.types, t)
Struct(p, s)    == At(p.structs, s)
Function(p, f)  == At(p.functions, f)
Parameters(p, f) == Function(p, f).parameters

FieldsOf(p, s) ==
  Struct(p, s).field_start
    .. Struct(p, s).field_start + Struct(p, s).field_count - 1

-----------------------------------------------------------------------------
(* Types.                                                                  *)

KindOfType(p, t) == IF Has(p.types, t) THEN Type(p, t).kind ELSE "None"

\* A type, what it is of, what that is of.
Chain(p, type) ==
  LET chain[depth \in 0 .. MaximumTypeDepth - 1] ==
        IF depth = 0 THEN type
        ELSE LET outer == chain[depth - 1]
             IN  IF Has(p.types, outer) THEN Type(p, outer).element ELSE NoIndex
  IN  chain

\* A slice or a pointer, however many optionals are around it.
IsReference(p, type) ==
  \E depth \in DOMAIN Chain(p, type) :
    /\ KindOfType(p, Chain(p, type)[depth]) \in {"Slice", "Pointer"}
    /\ \A outer \in 0 .. depth - 1 :
         KindOfType(p, Chain(p, type)[outer]) = "Optional"

\* The containers whose name is written where the type is.
Names(p, type) ==
  LET spelled == Range(Chain(p, type)) \ {NoIndex}
  IN  { s \in Rows(p.structs) : Struct(p, s).type_id \in spelled }

\* The lifetimes a container declares are those its fields borrow for.
Lifetimes(p, s) ==
  { At(p.class, field) : field \in FieldsOf(p, s) } \cap {"Borrowed", "Arena"}

LifetimesIn(p, type) == UNION { Lifetimes(p, s) : s \in Names(p, type) }

\* The module that a name declared in `home` is looked up in where it is written
\* in module `m`: what is at the top level is always spelled without a path.
LookedUpIn(m, home) == IF home = RootModule THEN m ELSE home

-----------------------------------------------------------------------------
(* Signatures.                                                             *)

OwnerOf(p, f) == Function(p, f).owner
HasOwner(p, f) == OwnerOf(p, f) # NoIndex

HasReceiver(p, f) ==
  /\ HasOwner(p, f)
  /\ Parameters(p, f) # << >>
  /\ Head(Parameters(p, f)).name = "self"

IsReceiver(p, f, i) == HasReceiver(p, f) /\ i = 1

TakesReference(p, f) ==
  \E i \in DOMAIN Parameters(p, f) :
    /\ ~ Parameters(p, f)[i].allocator
    /\ IsReference(p, Parameters(p, f)[i].type)

\* What a function fails with: the set the Zig named, or the one that was worked
\* out, which may be nothing.
Fails(p, f) ==
  IF Function(p, f).error_set # NoIndex
    THEN [kind |-> "Declared", set |-> Function(p, f).error_set]
    ELSE At(p.failures, f)

\* The lifetimes of what is returned that the `impl` block does not supply.
ToDeclare(p, f) ==
  LifetimesIn(p, Function(p, f).returns)
    \ (IF HasOwner(p, f) THEN Lifetimes(p, OwnerOf(p, f)) ELSE {})

\* Mutant of NothingToTieTo: a receiver is a reference like any other.
NoReference(p, f) == ~ TakesReference(p, f)

\* A lifetime the function declares has no parameter to be tied to: a receiver is
\* written without one, and so is what is not a reference.
NothingToTieTo(p, f) == HasReceiver(p, f) \/ ~ TakesReference(p, f)

\* Why a function gets no signature.
SignatureRefusal(p, f) ==
  LET returns == Function(p, f).returns
  IN  IF ~ Has(p.types, returns)
        THEN "ReturnTypeUnresolved"
      ELSE IF Function(p, f).fallible /\ Fails(p, f).kind = "Nothing"
        THEN "UnnamedErrorSet"
      ELSE IF /\ IsReference(p, returns)
              /\ ~ HasReceiver(p, f)
              /\ ~ TakesReference(p, f)
        THEN "ReturnBorrowsFromNothingPassedIn"
      ELSE IF "Arena" \in ToDeclare(p, f)
        THEN "ReturnBorrowsAnArena"
      ELSE IF "Borrowed" \in ToDeclare(p, f) /\ NothingToTieTo(p, f)
        THEN "ReturnBorrowsWithNothingToTieItTo"
      ELSE "None"

\* How a parameter is passed: a reference carries the lifetime the function
\* declares, if it declares one, and no name otherwise.
Passed(p, f, i) ==
  LET parameter == Parameters(p, f)[i]
  IN  IF IsReceiver(p, f, i)
        THEN IF KindOfType(p, parameter.type) = "Pointer" THEN "&self" ELSE "self"
      ELSE IF ~ IsReference(p, parameter.type)     THEN "Value"
      ELSE IF "Borrowed" \in ToDeclare(p, f)       THEN "Borrowed"
      ELSE "Elided"

\* Everything but the allocators, a receiver whatever it is.
Kept(p, f) ==
  { i \in DOMAIN Parameters(p, f) :
      IsReceiver(p, f, i) \/ ~ Parameters(p, f)[i].allocator }

\* The signature: what is passed how, and the lifetimes the function declares.
Signature(p, f) ==
  [ parameters |-> [i \in Kept(p, f) |-> Passed(p, f, i)],
    declares   |-> ToDeclare(p, f) ]

=============================================================================

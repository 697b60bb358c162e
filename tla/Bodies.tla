------------------------------- MODULE Bodies -------------------------------
(***************************************************************************)
(* Which function bodies the port writes (crates/zag-emit/src/body.rs) and *)
(* which constructors (constructor.rs): all of one or none of it.          *)
(*                                                                         *)
(* An expression is a tree in a table.  It is read level by level, so what *)
(* the code asks on its way down is asked here of every row of a level.    *)
(***************************************************************************)
EXTENDS Signatures, SequencesExt

CONSTANT MaximumDepth    \* MAXIMUM_DEPTH, which is 32

ASSUME MaximumDepthAssumption == MaximumDepth \in Nat \ {0}

Expression(p, e) == At(p.expressions, e)

Children(p, rows) == UNION { ToSet(Expression(p, e).children) : e \in rows }

\* The rows of every level below an expression, down to the deepest.
Levels(p, e, deepest) ==
  LET level[depth \in 0 .. deepest] ==
        IF depth = 0 THEN {e} ELSE Children(p, level[depth - 1])
  IN  level

Level(p, e, depth) == Levels(p, e, depth)[depth]

Within(p, e, deepest) == UNION Range(Levels(p, e, deepest))

\* The whole tree.
Under(p, e) == Within(p, e, Len(p.expressions))

\* A body is read no deeper than MaximumDepth.
Read(p, body) == Within(p, body, MaximumDepth - 1)

\* Mutant of TooDeep: the bound cuts the walk off and refuses nothing.
NeverTooDeep(p, body) == FALSE

TooDeep(p, body) == Level(p, body, MaximumDepth) # {}

-----------------------------------------------------------------------------
(* Bodies.                                                                 *)

Spellable ==
  {"Identifier", "Literal", "Field", "Operator", "Block", "Return", "Let",
   "Assign", "Method", "Call", "StructLiteral", "Cast"}

\* A literal that is all digits, or empty.
Untyped == {"", "0"}

\* Nothing about the row keeps it from being written: its kind, what it reads,
\* and a type that only its surroundings would give it.
IsSpellable(p, e) ==
  LET it == Expression(p, e)
  IN  /\ it.kind \in Spellable
      /\ it.text \notin {"null", "undefined"}
      /\ it.kind = "Field" => it.text # "len"
      /\ it.kind = "Identifier" => it.text \notin {"std", "builtin"}
      /\ it.kind = "Cast" => it.text # ""
      /\ it.kind = "Method" =>
           \A child \in ToSet(it.children) :
             ~ ( /\ Expression(p, child).kind = "Literal"
                 /\ Expression(p, child).text \in Untyped )

\* A struct that is built has a name; a row of its own is one of its fields.
IsNamed(p, e) ==
  LET it == Expression(p, e)
  IN  it.kind = "StructLiteral" =>
        it.field # NoIndex \/ KindOfType(p, it.result) = "Struct"

\* There is a path from module m to what is called; the top level has no name to
\* reach it by.
IsReached(p, m, e) ==
  LET it == Expression(p, e)
  IN  it.kind = "Call" =>
        /\ it.callee # NoIndex
        /\ Function(p, it.callee).module = RootModule => m = RootModule

ReadsTheAllocator(p, f, e) ==
  /\ Expression(p, e).kind = "Identifier"
  /\ \E i \in DOMAIN Parameters(p, f) :
       /\ Parameters(p, f)[i].allocator
       /\ Parameters(p, f)[i].name = Expression(p, e).text

FreedByDrop == {"Owned", "Grown"}

\* Takes an owned field out of the struct that owns it.
MovesAnOwnedField(p, e) ==
  LET it == Expression(p, e)
  IN  /\ it.kind \in {"Let", "Assign"}
      /\ it.children # << >>
      /\ LET value == Expression(p, it.children[Len(it.children)])
         IN  /\ value.kind = "Field"
             /\ value.field # NoIndex
             /\ At(p.class, value.field) \in FreedByDrop

\* No parameter is of a struct that has a field nobody is known to own.
SignatureIsSettled(p, f) ==
  \A i \in DOMAIN Parameters(p, f) :
    \A s \in Names(p, Parameters(p, f)[i].type) :
      \A field \in FieldsOf(p, s) : At(p.class, field) # "Unknown"

\* Whether the body of a function is written, in module m.
HasBody(p, m, f) ==
  LET body == Function(p, f).body
  IN  /\ SignatureIsSettled(p, f)
      /\ body # NoIndex
      /\ Expression(p, body).kind = "Block"
      /\ Expression(p, body).children # << >>
      /\ ~ TooDeep(p, body)
      /\ \A e \in Read(p, body) :
           /\ IsSpellable(p, e)
           /\ IsNamed(p, e)
           /\ IsReached(p, m, e)
           /\ ~ ReadsTheAllocator(p, f, e)
           /\ ~ MovesAnOwnedField(p, e)

-----------------------------------------------------------------------------
(* Constructors.                                                           *)

\* The first `init` a struct declares.
InitOf(p, s) ==
  LET inits == { f \in Rows(p.functions) :
                   OwnerOf(p, f) = s /\ Function(p, f).name = "init" }
  IN  IF inits = {} THEN NoIndex ELSE Min(inits)

\* Mutant of AssignmentFor: what any function sets it to.
AssignmentOfAny(p, f, field) ==
  LET rows == { a \in Rows(p.assigned) : At(p.assigned, a).field = field }
  IN  IF rows = {} THEN NoIndex ELSE At(p.assigned, Min(rows)).expression

\* What a function sets a field to, the first time it does.
AssignmentFor(p, f, field) ==
  LET rows == { a \in Rows(p.assigned) :
                  /\ At(p.assigned, a).field = field
                  /\ At(p.assigned, a).function = f }
  IN  IF rows = {} THEN NoIndex ELSE At(p.assigned, Min(rows)).expression

\* An initialiser may be as deep as it likes.
IsWritable(p, e) ==
  \A below \in Under(p, e) : Expression(p, below).kind # "Unsupported"

\* What stops a field from being set in a constructor.
Stops(p, init, field) ==
  LET value == AssignmentFor(p, init, field)
  IN  IF value = NoIndex                       THEN "NothingAssigns"
      ELSE IF ~ IsWritable(p, value)           THEN "NotSpellable"
      ELSE IF At(p.class, field) = "Unknown"   THEN "OwnershipUnknown"
      ELSE "None"

\* Why a struct has no constructor, and the field it is about.
ConstructorRefusal(p, s) ==
  LET init    == InitOf(p, s)
      stopped == { field \in FieldsOf(p, s) : Stops(p, init, field) # "None" }
  IN  IF init = NoIndex
        THEN [why |-> "NoInit", field |-> NoIndex]
      ELSE IF stopped # {}
        THEN [why |-> Stops(p, init, Min(stopped)), field |-> Min(stopped)]
      ELSE [why |-> IF FieldsOf(p, s) = {} THEN "NoFields" ELSE "None",
            field |-> NoIndex]

\* `writable_init`: the function that is a constructor, if there is one.
WritableInit(p, s) ==
  IF ConstructorRefusal(p, s).why = "None" THEN InitOf(p, s) ELSE NoIndex

\* What `new` takes: the parameters of `init` that are no allocators.
ConstructorSignature(p, f) ==
  [ parameters |->
      [ i \in { i \in DOMAIN Parameters(p, f) : ~ Parameters(p, f)[i].allocator } |->
          IF IsReference(p, Parameters(p, f)[i].type) THEN "Elided" ELSE "Value" ],
    declares |-> {} ]

=============================================================================

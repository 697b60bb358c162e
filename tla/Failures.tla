------------------------------ MODULE Failures ------------------------------
(***************************************************************************)
(* The error set of every function whose Zig left it to the compiler       *)
(* (crates/zag-emit/src/failure.rs).  Every function is read for what it   *)
(* can fail with itself; then rounds over the functions carry what a       *)
(* callee fails with to its callers; then every function that needs one is *)
(* given a set, its own, one the program declares, or one that a function  *)
(* before it was given.                                                    *)
(***************************************************************************)
EXTENDS Facts, FiniteSets, SequencesExt

CONSTANTS
  Programs,
  MaximumDepth,     \* how deep read_failures goes into an expression
  MaximumRounds     \* how many rounds the calls are followed for

ASSUME LimitsAssumption ==
  MaximumDepth \in Nat \ {0} /\ MaximumRounds \in Nat \ {0}

\* A name is a string, a text the words in it.  The columns the pass reads, a
\* group for each table; `children` and `variants` are the rows of the children
\* of an expression and the names of the fields of a struct that are there.
ProgramType ==
  [ kind        : Seq({"Identifier", "Unsupported", "Question", "Call",
                       "Method", "Other"}),                 \* expressions
    text        : Seq(Seq(STRING)),
    parameter   : Seq(Nat),
    result      : Seq(Nat),
    children    : Seq(Seq(Nat)),
    type_kind   : Seq({"Struct", "Other"}),                 \* types
    element     : Seq(Nat),
    struct_name : Seq(STRING),                              \* structs
    struct_kind : Seq({"ErrorSet", "Other"}),
    struct_type : Seq(Nat),
    variants    : Seq(Seq(STRING)),
    name        : Seq(STRING),                              \* functions
    owner       : Seq(Nat),
    module      : Seq(Nat),
    body        : Seq(Nat),
    error_set   : Seq(Nat),
    fallible    : Seq(BOOLEAN),
    caller      : Seq(Nat),                                 \* calls
    callee      : Seq(Nat),
    operation   : Seq({"Allocate", "Free", "Resize"}),  \* memory_operations
    function    : Seq(Nat) ]

\* A handle is a u32, so no table has more rows than NO_INDEX.
ASSUME ProgramsAssumption ==
  \A p \in Programs :
    /\ p \in ProgramType
    /\ Len(p.kind) =< NoIndex /\ Len(p.element) =< NoIndex
    /\ Len(p.struct_name) =< NoIndex /\ Len(p.name) =< NoIndex

VARIABLES
  program,     \* read only
  pc,          \* "read", "carry" or "name", a loop over the functions each
  row,         \* the function that loop is at
  round,
  changed,     \* whether this round raised a function
  failures,    \* what every function can fail with, as far as is known
  reaches,     \* the functions it lets the failures of through
  named        \* the error set it is given

vars == <<program, pc, row, round, changed, failures, reaches, named>>

Count == Len(program.name)

\* The first of some rows, if there is one.
FirstOf(rows) ==
  IF rows = {} THEN NoIndex
  ELSE CHOOSE r \in rows : \A other \in rows : r =< other

GetOr(column, r, default) == IF Has(column, r) THEN At(column, r) ELSE default
Get(column, r) == GetOr(column, r, NoIndex)
NameAt(column, r) == GetOr(column, r, "")

-----------------------------------------------------------------------------
(* What an expression says.                                                *)

\* The error set a name like `Error::ZeroSized` belongs to.
ErrorSetNamed(p, text) ==
  IF Len(text) < 2 THEN NoIndex
  ELSE FirstOf({ s \in Rows(p.struct_name) :
                   /\ GetOr(p.struct_kind, s, "Other") = "ErrorSet"
                   /\ At(p.struct_name, s) = text[1] })

\* The struct a type reaches, through whatever it is wrapped in.
StructBehind(p, type) ==
  LET chain[depth \in 0 .. 7] ==
        IF depth = 0 THEN type ELSE Get(p.element, chain[depth - 1])
      structs == { depth \in 0 .. 7 :
                     GetOr(p.type_kind, chain[depth], "Other") = "Struct" }
  IN  IF structs = {} THEN NoIndex
      ELSE FirstOf({ s \in Rows(p.struct_name) :
                       /\ Has(p.struct_type, s)
                       /\ At(p.struct_type, s) = chain[FirstOf(structs)] })

\* The first child of an expression, if it has one that is there.
FirstChild(p, e) ==
  LET children == GetOr(p.children, e, << >>)
  IN  IF children = << >> THEN NoIndex ELSE children[1]

\* The function a method call reaches, found through its receiver's type.
MethodCalled(p, e) ==
  LET owner == StructBehind(p, Get(p.result, FirstChild(p, e)))
  IN  IF owner = NoIndex THEN NoIndex
      ELSE FirstOf({ f \in Rows(p.name) :
                       /\ Get(p.owner, f) = owner
                       /\ At(p.name, f) = NameAt(GetOr(p.text, e, << >>), 0) })

ALLOCATION_FAILURE ==
  {"alloc", "allocSentinel", "alignedAlloc", "create", "dupe", "dupeZ",
   "realloc", "append", "appendSlice", "toOwnedSlice", "ensureTotalCapacity",
   "ensureUnusedCapacity"}

KindOf(p, e) == GetOr(p.kind, e, "None")

\* What a `try` is of: the function that is called, if it can be told.
Attempted(p, e) ==
  LET call == FirstChild(p, e)
  IN  CASE KindOf(p, call) = "Call"   -> Get(p.parameter, call)
        [] KindOf(p, call) = "Method" -> MethodCalled(p, call)
        [] OTHER                      -> NoIndex

\* A `try` of a call that fails only by running out of memory.
AttemptsAllocation(p, e) ==
  LET call == FirstChild(p, e)
  IN  /\ KindOf(p, call) = "Method"
      /\ MethodCalled(p, call) = NoIndex
      /\ NameAt(GetOr(p.text, call, << >>), 0) \in ALLOCATION_FAILURE

-----------------------------------------------------------------------------
(* What a function says.                                                   *)

\* The expressions of a body, level by level, and no deeper than the limit.
Level(p, body) ==
  LET level[depth \in 0 .. MaximumDepth] ==
        IF depth = 0 THEN {body}
        ELSE UNION { ToSet(GetOr(p.children, e, << >>)) :
                       e \in level[depth - 1] \cap Rows(p.kind) }
  IN  level

Read(p, f) ==
  IF Get(p.body, f) = NoIndex THEN {}
  ELSE Rows(p.kind)
         \cap UNION { Level(p, Get(p.body, f))[d] : d \in 0 .. MaximumDepth - 1 }

TooDeep(p, f) ==
  /\ Get(p.body, f) # NoIndex
  /\ Level(p, Get(p.body, f))[MaximumDepth] # {}

Attempts(p, f) == { e \in Read(p, f) : KindOf(p, e) = "Question" }

Failure(sets, allocates, unreadable) ==
  [ sets |-> sets, allocates |-> allocates, unreadable |-> unreadable ]

\* The error sets whose names are in the body.
SetsRead(p, f) ==
  { ErrorSetNamed(p, GetOr(p.text, e, << >>)) :
      e \in { e \in Read(p, f) : KindOf(p, e) = "Identifier" } } \ {NoIndex}

Allocates(p, f) ==
  \/ \E e \in Attempts(p, f) : AttemptsAllocation(p, e)
  \/ \E op \in Rows(p.function) :
       At(p.function, op) = f /\ GetOr(p.operation, op, "Free") = "Allocate"

\* It may fail through something that could not be attributed.
Unreadable(p, f) ==
  \/ TooDeep(p, f)
  \/ \E e \in Read(p, f) :
       KindOf(p, e) = "Unsupported" /\ "try" \in ToSet(GetOr(p.text, e, << >>))
  \/ \E e \in Attempts(p, f) :
       Attempted(p, e) = NoIndex /\ ~ AttemptsAllocation(p, e)

\* What a function can fail with by itself, the set it is declared with too.
Own(p, f) ==
  Failure(SetsRead(p, f) \cup ({Get(p.error_set, f)} \ {NoIndex}),
          Allocates(p, f), Unreadable(p, f))

\* Every call counts, whether or not what it fails with is let through.
Through(p, f) ==
  ({ Attempted(p, e) : e \in Attempts(p, f) }
    \cup { Get(p.callee, edge) : edge \in { edge \in Rows(p.caller) :
                                              At(p.caller, edge) = f } })
  \ {NoIndex}

-----------------------------------------------------------------------------
Init ==
  /\ program \in Programs
  /\ pc = "read"
  /\ row = 0
  /\ round = 0
  /\ changed = FALSE
  /\ failures = << >>
  /\ reaches = << >>
  /\ named = << >>

ReadFunction ==
  /\ pc = "read"
  /\ row < Count
  /\ failures' = Append(failures, Own(program, row))
  /\ reaches' = Append(reaches, Through(program, row))
  /\ row' = row + 1
  /\ UNCHANGED <<program, pc, round, changed, named>>

ReadDone ==
  /\ pc = "read"
  /\ row = Count
  /\ pc' = IF Count = 0 THEN "name" ELSE "carry"
  /\ row' = 0
  /\ UNCHANGED <<program, round, changed, failures, reaches, named>>

Absorb(into, from) ==
  Failure(into.sets \cup UNION { other.sets : other \in from },
          into.allocates \/ \E other \in from : other.allocates,
          into.unreadable \/ \E other \in from : other.unreadable)

\* What a function fails with once its callees are taken in.
Carried(f) ==
  Absorb(At(failures, f),
         { At(failures, g) : g \in At(reaches, f) \cap Rows(failures) })

\* Mutant of Carry: whether the last function changed is what ends the rounds.
CarryLast ==
  /\ pc = "carry"
  /\ row < Count
  /\ failures' = [failures EXCEPT ![row + 1] = Carried(row)]
  /\ changed' = (Carried(row) # At(failures, row))
  /\ row' = row + 1
  /\ UNCHANGED <<program, pc, round, reaches, named>>

Carry ==
  /\ pc = "carry"
  /\ row < Count
  /\ failures' = [failures EXCEPT ![row + 1] = Carried(row)]
  /\ changed' = (changed \/ Carried(row) # At(failures, row))
  /\ row' = row + 1
  /\ UNCHANGED <<program, pc, round, reaches, named>>

Limit == IF Count < MaximumRounds THEN Count ELSE MaximumRounds

\* Mutant of RoundDone: one round is one too few.
RoundDoneEarly ==
  /\ pc = "carry"
  /\ row = Count
  /\ row' = 0
  /\ IF changed /\ round + 2 < Limit
     THEN round' = round + 1 /\ changed' = FALSE /\ UNCHANGED pc
     ELSE pc' = "name" /\ UNCHANGED <<round, changed>>
  /\ UNCHANGED <<program, failures, reaches, named>>

RoundDone ==
  /\ pc = "carry"
  /\ row = Count
  /\ row' = 0
  /\ IF changed /\ round + 1 < Limit
     THEN round' = round + 1 /\ changed' = FALSE /\ UNCHANGED pc
     ELSE pc' = "name" /\ UNCHANGED <<round, changed>>
  /\ UNCHANGED <<program, failures, reaches, named>>

-----------------------------------------------------------------------------
(* The names.                                                              *)

\* A function that needs a set: the Zig wrote `!T`.
Inferred(p, f) == GetOr(p.fallible, f, FALSE) /\ Get(p.error_set, f) = NoIndex

\* The variants of some failures, in the order of the sets, none of them twice.
Variants(p, failure) ==
  LET sets    == SetToSortSeq({ s \in failure.sets : Has(p.variants, s) }, <)
      fields  == FlattenSeq([i \in DOMAIN sets |-> At(p.variants, sets[i])])
      written == FoldLeft(LAMBDA seen, v : IF v \in ToSet(seen) THEN seen
                                           ELSE Append(seen, v),
                          << >>, fields)
  IN  IF failure.allocates /\ "OutOfMemory" \notin ToSet(written)
      THEN Append(written, "OutOfMemory") ELSE written

Nothing == [kind |-> "Nothing"]
Declared(set) == [kind |-> "Declared", set |-> set]

\* A set the port declares is named for the function it was first made for.
Generated(p, f, variants) ==
  [ kind     |-> "Generated",
    owner    |-> NameAt(p.struct_name, Get(p.owner, f)),
    name     |-> At(p.name, f),
    module   |-> GetOr(p.module, f, 0),
    variants |-> variants ]

\* The functions a set with these variants has been made for or shared with.
Minted(variants) ==
  { f \in Rows(named) : /\ At(named, f).kind = "Generated"
                        /\ At(named, f).variants = variants }

\* The failure alone decides whether a function needs a set of its own.
IsDeclared(failure) == Cardinality(failure.sets) = 1 /\ ~ failure.allocates

Name(failing) ==
  /\ named' = Append(named, failing)
  /\ row' = row + 1
  /\ UNCHANGED <<program, pc, round, changed, failures, reaches>>

Naming == pc = "name" /\ row < Count

\* Nothing to name, or nothing to name it with.
NameNothing ==
  /\ Naming
  /\ ~ Inferred(program, row) \/ Variants(program, At(failures, row)) = << >>
  /\ Name(Nothing)

\* One declared set and nothing else keeps the name the Zig gave it.
NameDeclared ==
  /\ Naming
  /\ Inferred(program, row)
  /\ Variants(program, At(failures, row)) # << >>
  /\ IsDeclared(At(failures, row))
  /\ Name(Declared(CHOOSE set \in At(failures, row).sets : TRUE))

\* Mutant of NameGenerated: every function is given a set of its own.
NameOwn ==
  /\ Naming
  /\ Inferred(program, row)
  /\ ~ IsDeclared(At(failures, row))
  /\ LET variants == Variants(program, At(failures, row))
     IN  /\ variants # << >>
         /\ Name(Generated(program, row, variants))

\* Functions that fail the same way fail with the same type.
NameGenerated ==
  /\ Naming
  /\ Inferred(program, row)
  /\ ~ IsDeclared(At(failures, row))
  /\ LET variants == Variants(program, At(failures, row))
     IN  /\ variants # << >>
         /\ Name(IF Minted(variants) # {}
                 THEN At(named, FirstOf(Minted(variants)))
                 ELSE Generated(program, row, variants))

Returned ==
  /\ pc = "name"
  /\ row = Count
  /\ UNCHANGED vars

Next ==
  \/ ReadFunction \/ ReadDone \/ Carry \/ RoundDone
  \/ NameNothing \/ NameDeclared \/ NameGenerated \/ Returned

Spec == Init /\ [][Next]_vars

-----------------------------------------------------------------------------
(* Properties.                                                             *)

FailureType ==
  [sets : SUBSET Nat, allocates : BOOLEAN, unreadable : BOOLEAN]

FailingType ==
  {Nothing} \cup [kind : {"Declared"}, set : Nat]
    \cup [kind : {"Generated"}, owner : STRING, name : STRING, module : Nat,
          variants : Seq(STRING)]

\* How many functions have been read, and how many named.
ReadSoFar == IF pc = "read" THEN row ELSE Count
NamedSoFar == IF pc = "name" THEN row ELSE 0

TypeOK ==
  /\ program \in ProgramType
  /\ pc \in {"read", "carry", "name"}
  /\ row \in 0 .. Count
  /\ round \in 0 .. Limit
  /\ changed \in BOOLEAN
  /\ failures \in [1 .. ReadSoFar -> FailureType]
  /\ reaches \in [1 .. ReadSoFar -> SUBSET Nat]
  /\ named \in [1 .. NamedSoFar -> FailingType]

\* The functions the failures of a function come from, by the tables alone.
Sources(p, f) ==
  LET next == [h \in Rows(p.name) |-> Through(p, h) \cap Rows(p.name)]
  IN  { g \in Rows(p.name) :
          \A inside \in SUBSET Rows(p.name) :
            f \in inside /\ (\A h \in inside : next[h] \subseteq inside)
              => g \in inside }

Whole(p, f) ==
  LET own == { Own(p, g) : g \in Sources(p, f) }
  IN  Failure(UNION { failure.sets : failure \in own },
              \E failure \in own : failure.allocates,
              \E failure \in own : failure.unreadable)

Within(smaller, larger) ==
  /\ smaller.sets \subseteq larger.sets
  /\ smaller.allocates => larger.allocates
  /\ smaller.unreadable => larger.unreadable

\* The rounds ended because nothing changed any more.
Settled == pc = "name" /\ ~ changed

(***************************************************************************)
(* A function never fails with what nothing it reaches fails with, and     *)
(* once a round changes nothing it fails with everything they do, however  *)
(* far away, around cycles as well, and whatever order they come in.       *)
(***************************************************************************)
FailuresFollowCalls ==
  \A f \in Rows(failures) :
    /\ Within(At(failures, f), Whole(program, f))
    /\ Settled => At(failures, f) = Whole(program, f)

(***************************************************************************)
(* A program of no more functions than there are rounds settles.           *)
(***************************************************************************)
Settles == pc = "name" /\ Count =< MaximumRounds => Settled

(***************************************************************************)
(* Functions found to fail with the same sets, and alike marked as failing *)
(* through something unreadable or not, have the same type, so an error    *)
(* crosses a call between them as it is.  What a marked function should be *)
(* given next to one that is not marked is the property below.             *)
(***************************************************************************)
SameFailuresSameType ==
  \A f, g \in Rows(named) :
    Inferred(program, f) /\ Inferred(program, g) /\ At(failures, f) = At(failures, g)
      => At(named, f) = At(named, g)

(***************************************************************************)
(* A function that can fail through something the reading could not        *)
(* attribute gets no type, as the head of failure.rs says.  The naming     *)
(* loop never looks at the mark, so a function that fails with a set it    *)
(* was read to fail with, and with something unreadable, gets a type with  *)
(* a hole in it: this is violated.                                         *)
(***************************************************************************)
UnreadableGetsNothing ==
  \A f \in Rows(named) :
    Inferred(program, f) /\ At(failures, f).unreadable => At(named, f) = Nothing

=============================================================================

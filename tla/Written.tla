------------------------------ MODULE Written ------------------------------
(***************************************************************************)
(* What is asked of a body once it is ported: that Rust reads the tokens   *)
(* as the tree they were written from, that the tree does what the Zig     *)
(* did, and that the two sides of an operator are one integer.             *)
(***************************************************************************)
EXTENDS Meaning, RustReader

\* The body of the function that is ported, where it is written at all.
HasABody == IsWritten(expressions, function, body)
Statements_ == LowerBody(expressions, function, body)
Tokens == RenderedBody(Statements_)

RECURSIVE Within(_)
Within(n) == {n} \cup UNION { Within(n.children[i]) : i \in DOMAIN n.children }

WrittenNodes == UNION { Within(Statements_[i]) : i \in DOMAIN Statements_ }

\* How many rows of those reached from a row name a row.
RECURSIVE Reached(_, _)
Reached(e, child) ==
  LET of == expressions[e].children
  IN  FoldLeftDomain(LAMBDA count, i : count + (IF of[i] = child THEN 1 ELSE 0)
                                             + Reached(of[i], child), 0, of)

\* A row names only rows before it, and what is reached from the body is reached
\* once: a literal that is made a float, or a cast that is given its type, by the
\* row above it is changed for that place alone (widen_literal, widen_beside and the
\* `as` builtin write to rows that are already in the table).
RowsFormATree ==
  /\ \A e \in DOMAIN expressions :
       \A i \in DOMAIN expressions[e].children : expressions[e].children[i] \in 1 .. e - 1
  /\ \A i \in DOMAIN built : built[i] \in DOMAIN expressions
  /\ Len(built) <= Len(nodes)
  /\ body # 0 => \A e \in DOMAIN expressions : Reached(body, e) <= 1

-----------------------------------------------------------------------------
(* Rust reads what was written.                                            *)

\* A tree as it is read: a literal is read as a path is, an arm is a block, and
\* brackets have said what they had to say.
RECURSIVE AsRead(_)
AsRead(n) ==
  LET of == [i \in DOMAIN n.children |-> AsRead(n.children[i])]
      InBraces(m) == IF m.kind = "Block" THEN m ELSE Ast("Block", "", <<m>>)
  IN  CASE n.kind = "Literal" -> [n EXCEPT !.kind = "Path"]
        [] n.kind = "Group" -> of[1]
        [] n.kind = "Branch" ->
             [n EXCEPT !.children = [i \in DOMAIN of |-> IF i = 1 THEN of[i] ELSE InBraces(of[i])]]
        [] OTHER -> [n EXCEPT !.children = of]

ReadsBackAsWritten ==
  AsRead(ReadBody(Tokens)) = AsRead(Ast("Block", "", Statements_))

\* Binds less than what is written after it would.
Loose == {"Binary", "Unary", "As"}

\* What is written next to a node takes a part of it: a method or what is indexed
\* on an operator without brackets, a minus before a cast or an operator.
TakesAPart(n) ==
  \/ n.kind \in {"Method", "Field", "Index", "Question"} /\ n.children[1].kind \in Loose
  \/ n.kind = "Unary" /\ n.children[1].kind \in {"Binary", "As"}

\* The operators that Zig binds alike and Rust does not.
Bitwise_ == {"&", "|", "^"}
MixesBits(n) ==
  /\ n.kind = "Binary" /\ n.text \in Bitwise_
  /\ \E i \in DOMAIN n.children : n.children[i].kind = "Binary" /\ n.children[i].text \in Bitwise_

\* A cast that a < comes after, at the end of the left side of it.
RECURSIVE EndsInACast(_)
EndsInACast(n) ==
  n.kind = "As" \/ (n.kind \in {"Binary", "Unary"} /\ EndsInACast(Last(n.children)))
CastBeforeLess(n) == n.kind = "Binary" /\ n.text \in {"<", "<<"} /\ EndsInACast(n.children[1])

\* A loop without a block, a type Rust does not have, and a value that is not the
\* last statement and has no semicolon.
BareLoop(n) == n.kind \in {"While", "For"} /\ n.children[2].kind # "Block"
UnknownType(n) == n.kind = "As" /\ n.text \notin TypeNames
DanglingValue ==
  \E i \in 1 .. Len(Statements_) - 1 :
    Statements_[i].kind \notin {"Statement", "While", "For", "Block", "Branch", "Match"}

ReadsApart ==
  DanglingValue \/ \E n \in WrittenNodes :
    TakesAPart(n) \/ MixesBits(n) \/ CastBeforeLess(n) \/ BareLoop(n) \/ UnknownType(n)

\* Rust reads every body that is written as the tree it was written from (render_
\* expression puts brackets around nothing but what is cast), except for bodies of
\* the shapes above, which are all there are.
ReadsBack == HasABody /\ ~ ReadsApart => ReadsBackAsWritten

\* The same without an exception: "a shape the passes cannot spell correctly is left
\* as todo!() rather than written wrong" (corpus/README.md).
NothingReadsApart == HasABody => ReadsBackAsWritten

-----------------------------------------------------------------------------
(* The port does what the Zig did.                                         *)

\* A function that gives back an option it was given, or may fail and gives back an
\* option, and a struct written out that is not what the function returns.
RECURSIVE TreesIn(_)
TreesIn(t) == {t} \cup UNION { TreesIn(t.kids[i]) : i \in DOMAIN t.kids }
Trees == UNION { TreesIn(function.statements[i]) : i \in DOMAIN function.statements }

Misread ==
  \/ /\ KindOfType(function.returns) = "Optional"
     /\ function.fallible \/ \E t \in Trees :
          t.tag = "return" /\ t.kids # << >> /\ OptionalName(function, t.kids[1])
  \/ \E t \in Trees :
       t.tag = "structliteral" /\ t.declared \notin {"", ReturnedStruct(function)}

\* Along every path a ported body decides, calls and stores what the Zig did, in
\* that order, and gives back what it gave back: what declare_body and lower_body
\* wrap on the way out, where the step of a loop goes, and what a return at the end
\* becomes change none of it.
MeansTheSame ==
  HasABody /\ ~ Misread => Outcomes(RustBody(Statements_)) = Outcomes(ZigBody(function))

-----------------------------------------------------------------------------
(* Integers.                                                               *)

Arithmetic == {"+", "-", "*", "/", "%", "&", "|", "^"}
Shifts == {"<<", ">>"}

\* What binds a name in Rust: a let, with or without its type, an arm that takes
\* what a variant carries, a loop, or a parameter.
IsName(n) == n.kind = "Path" /\ n.base = ""
Lets(n) == { m \in WrittenNodes : IsName(n) /\ m.kind = "Let" /\ m.text = n.text }
Arms(n) == { m \in WrittenNodes : IsName(n) /\ m.kind = "Arm" /\ m.binds = n.text }
Loops(n) == { m \in WrittenNodes : IsName(n) /\ m.kind = "For" /\ m.text = n.text }
Parameters(n) == { p \in ToSet(function.parameters) : IsName(n) /\ p.name = n.text }

IsTyped(let) == Len(let.children) = 2

\* What the variant of an arm carries.
Payload(arm) ==
  LET fields == ToSet(Containers[arm.base].fields)
  IN  (CHOOSE field \in fields : PascalCase(field.name) = arm.text).type

\* What a call gives back, where it may fail or where it may not.
Promised(n, owner, fallible) ==
  LET called == { f \in ToSet(Functions) :
                    /\ SnakeCase(f.name) = n.text /\ f.fallible = fallible
                    /\ n.kind = "Method" => owner # "" /\ f.owner = owner }
  IN  IF called = {} THEN "" ELSE (CHOOSE f \in called : TRUE).returns

\* The type an expression of Rust has, as the declarations say it: of the names, the
\* fields, the elements and the functions it is made of.  A comparison and a literal
\* have none here, and neither has what may fail until it is tried.
RECURSIVE TypeOf(_)
TypeOf(n) ==
  LET of(i)    == TypeOf(n.children[i])
      either   == IF of(1) # "" THEN of(1) ELSE of(2)
      owner(m) == IF m.kind = "Method" THEN StructOf(TypeOf(m.children[1])) ELSE ""
      One(set) == CHOOSE m \in set : TRUE
  IN  CASE Lets(n) # {} -> IF IsTyped(One(Lets(n))) THEN One(Lets(n)).children[2].text
                           ELSE TypeOf(One(Lets(n)).children[1])
        [] Arms(n) # {} -> Payload(One(Arms(n)))
        [] Loops(n) # {} -> TypeOf(One(Loops(n)).children[1])
        [] Parameters(n) # {} -> One(Parameters(n)).type
        [] n.kind = "Field" -> IF HasField(StructOf(of(1)), n.text)
                               THEN FieldType(StructOf(of(1)), n.text) ELSE ""
        [] n.kind = "Index" -> ElementOf(of(1))
        [] n.kind \in {"As", "Struct"} -> n.text
        [] n.kind \in {"Group", "Unary"} -> of(1)
        [] n.kind = "Binary" /\ n.text \in Shifts -> of(1)
        [] n.kind = "Binary" /\ n.text \in Arithmetic -> either
        [] n.kind = "Branch" /\ Len(n.children) = 3 ->
             IF of(2) # "" THEN of(2) ELSE of(3)
        [] n.kind = "Match" -> TypeOf(n.children[2].children[1])
        [] n.kind = "Method" /\ n.text = "iter" -> ElementOf(of(1))
        [] n.kind = "Method" /\ n.text \in ArithmeticMethods \cup {"copied"} -> of(1)
        [] n.kind \in {"Call", "Method"} -> Promised(n, owner(n), FALSE)
        [] n.kind = "Question" -> Promised(n.children[1], owner(n.children[1]), TRUE)
        [] OTHER -> ""

\* The number an expression of Rust is, where that is said.
NumberOf(n) == TypeBody(ScalarType(TypeOf(n)))

WidthOf(number) == IF number \in {"", "usize", "f32"} THEN Width(64) ELSE Types[number].width

\* Expressions whose rows carry no type, whatever they are of (translate_node gives
\* them no result): what is in brackets, behind a minus or a try, called, or chosen by
\* a branch or a match; the name a loop or an arm binds, which has no type yet where
\* it is read; and what is made of one of these.
RECURSIVE CarriesNothing(_)
CarriesNothing(n) ==
  \/ n.kind \in {"Group", "Unary", "Question", "Call", "Branch", "Match"}
  \/ Loops(n) \cup Arms(n) # {}
  \/ \E let \in Lets(n) : ~ IsTyped(let) /\ CarriesNothing(let.children[1])
  \/ n.kind \in {"Field", "Index", "Method"} /\ CarriesNothing(n.children[1])
  \/ n.kind = "Binary" /\ \E i \in 1 .. 2 : CarriesNothing(n.children[i])

IsJoined(n) == n.kind = "Binary" /\ n.text \in Arithmetic \cup Comparisons

Meet(n) ==
  \/ "" \in { NumberOf(n.children[i]) : i \in 1 .. 2 }
  \/ NumberOf(n.children[1]) = NumberOf(n.children[2])

Narrows(n) == NumberOf(n.children[1]) # "" /\ WidthOf(n.text) < WidthOf(NumberOf(n.children[1]))

\* A conversion that may lose some of a number is written as one, and Rust has one
\* more integer than the tables.
Narrowed == \E t \in Trees : t.tag = "builtin" /\ t.text \in Converting
WritesUsize == \E t \in Trees : t.tag = "identifier" /\ t.text = "usize"

\* The two sides of an arithmetic operator or of a comparison are one integer in
\* Rust, through names, fields, elements, methods and the operators below it, and
\* what is assigned is the integer it is assigned to; and nothing the port casts
\* loses a part of it (widen_integers, and the types that rows carry forward).  The
\* exception is a side that carries no type: nothing is widened beside it.
SidesMeet ==
  HasABody => \A n \in WrittenNodes :
    /\ IsJoined(n) /\ ~ WritesUsize =>
         Meet(n) \/ CarriesNothing(n.children[1]) \/ CarriesNothing(n.children[2])
    /\ n.kind = "Assign" /\ ~ WritesUsize => Meet(n) \/ CarriesNothing(n.children[1])
    /\ n.kind = "As" /\ ~ Narrowed => ~ Narrows(n) \/ CarriesNothing(n.children[1])

\* The same without the exception: "Zig resolves two integer widths to the wider one
\* and Rust refuses to, so the narrower side is written as the wider" (lib.rs, the
\* "binary" node).  The row of a bracketed side has no type, so a side in brackets is
\* never widened, nor is anything beside it: this is violated.
EverySideMeets ==
  HasABody /\ ~ WritesUsize => \A n \in WrittenNodes : IsJoined(n) => Meet(n)
=============================================================================

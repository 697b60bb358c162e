------------------------------ MODULE Lowering ------------------------------
(***************************************************************************)
(* A translated body as Rust syntax (crates/zag-emit/src/body.rs): all of  *)
(* it or none, each row a node, the statements with the semicolons and the *)
(* last value that make a block of them.                                   *)
(*                                                                         *)
(* How deep a body may be, what a signature has to settle and which owned  *)
(* fields may not be moved are in Bodies; here a body is shallow and its   *)
(* parameters own nothing.                                                 *)
(***************************************************************************)
EXTENDS Translation, Rendering

CONSTANT Underscored    \* what snake_case makes of the names it changes

SnakeCase(name) == IF name \in DOMAIN Underscored THEN Underscored[name] ELSE name

-----------------------------------------------------------------------------
(* Whether a body is written.                                              *)

SpellableKinds ==
  { "Identifier", "Literal", "Field", "Binary", "Unary", "Index", "Branch", "Block",
    "Return", "Let", "Assign", "Group", "Question", "Method", "While", "For", "Call",
    "Match", "Arm", "StructLiteral", "Wrap", "Cast" }

\* The text of a row; a path is longer than any word it is compared with.
TextOf(row) == IF row.base = "" THEN row.text ELSE "::"

RECURSIVE IsSpellable(_, _)
IsSpellable(table, e) ==
  LET row == table[e]
  IN  /\ row.kind \in SpellableKinds
      /\ TextOf(row) \notin {"null", "undefined"}
      /\ row.kind = "Field" => row.text # "len"
      /\ row.kind = "Identifier" => TextOf(row) \notin {"std", "builtin"}
      /\ row.kind = "Cast" => row.text # ""
      /\ row.kind = "Method" =>
           \A i \in DOMAIN row.children :
             ~ ( /\ table[row.children[i]].kind = "Literal"
                 /\ table[row.children[i]].text \in Literals )
      /\ \A i \in DOMAIN row.children : IsSpellable(table, row.children[i])

RECURSIVE ReadsTheAllocator(_, _, _)
ReadsTheAllocator(table, f, e) ==
  LET row == table[e]
  IN  \/ /\ row.kind = "Identifier"
         /\ \E i \in DOMAIN f.parameters :
              f.parameters[i].allocator /\ f.parameters[i].name = TextOf(row)
      \/ \E i \in DOMAIN row.children : ReadsTheAllocator(table, f, row.children[i])

IsWritten(table, f, e) ==
  /\ e # 0 /\ table[e].children # << >>
  /\ IsSpellable(table, e)
  /\ ~ ReadsTheAllocator(table, f, e)

-----------------------------------------------------------------------------
(* Statements.                                                             *)

ProducesAValue(kind) == kind \notin {"Let", "Assign", "While", "For"}

IsBraced(kind) == kind \in {"While", "For", "Block", "Branch"}

\* A statement ends in a semicolon, but for one with braces and for the value a
\* function ends in, which a return at its end is written as.
LowerStatement(kind, node, last, tail) ==
  IF IsBraced(kind) THEN node
  ELSE IF ~ (last /\ tail /\ ProducesAValue(kind)) THEN Ast("Statement", "", <<node>>)
  ELSE IF kind = "Return" /\ node.children # << >> THEN node.children[1]
  ELSE node

LowerStatements(kinds, nodes_, tail) ==
  [ i \in DOMAIN nodes_ |->
      LowerStatement(kinds[i], nodes_[i], i = Len(nodes_), tail) ]

-----------------------------------------------------------------------------
(* Expressions.                                                            *)

KindOf ==
  [ Identifier |-> "Path", Cast |-> "As", Wrap |-> "Call" ]

\* The type a scalar is written as.
TypeBody(t) ==
  IF KindOfType(t) = "Integer"
  THEN SpelledInteger[<<IF Types[t].signed THEN "i" ELSE "u", Width(Types[t].width)>>]
  ELSE t

RECURSIVE LowerExpression(_, _)
LowerExpression(table, e) ==
  LET row      == table[e]
      children == [i \in DOMAIN row.children |-> LowerExpression(table, row.children[i])]
      kind     == IF row.kind \in DOMAIN KindOf THEN KindOf[row.kind] ELSE row.kind
      node     == [Ast(kind, row.text, children) EXCEPT
                     !.base = row.base, !.binds = row.binds, !.mutable = row.mutable]
  IN  CASE row.kind = "StructLiteral" ->
             IF row.field # "" THEN Ast("FieldValue", row.field, children)
             ELSE Ast("Struct", row.result, children)
        [] row.kind = "Index" ->
             Ast("Index", "", <<children[1], Ast("As", "usize", <<children[2]>>)>>)
        [] row.kind = "Let" /\ row.result # "" ->
             [node EXCEPT !.children = Append(@, Ast("Type", TypeBody(row.result), << >>))]
        [] row.kind = "Method" -> [node EXCEPT !.text = SnakeCase(@)]
        [] row.kind = "Call" -> [node EXCEPT !.text = SnakeCase(Functions[row.callee].name)]
        [] row.kind = "Block" ->
             Ast("Block", "", LowerStatements(
               [i \in DOMAIN row.children |-> table[row.children[i]].kind], children, FALSE))
        [] OTHER -> node

UnitValue == Ast("Call", "Ok", <<Ast("Literal", "()", << >>)>>)

\* The statements of a body.  A function that may fail and does not end in a
\* return ends in Ok(()).
LowerBody(table, f, e) ==
  LET rows  == table[e].children
      kinds == [i \in DOMAIN rows |-> table[rows[i]].kind]
      nodes_ == [i \in DOMAIN rows |-> LowerExpression(table, rows[i])]
      statements == LowerStatements(kinds, nodes_, TRUE)
  IN  IF f.fallible /\ Last(kinds) # "Return"
      THEN Append(statements, UnitValue) ELSE statements
=============================================================================

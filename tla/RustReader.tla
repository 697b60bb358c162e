---------------------------- MODULE RustReader -----------------------------
(***************************************************************************)
(* How Rust reads the tokens that were written, which is no code of the    *)
(* repository: a statement or an expression at a time, an operator taking  *)
(* what binds tighter than it does.  A comparison takes no comparison, a   *)
(* type is not followed by <, a loop has a block, and a statement that     *)
(* begins with a block ends with it.                                       *)
(***************************************************************************)
EXTENDS Rendering

CONSTANTS StructNames, TypeNames    \* what a literal may be of, what may follow `as`

Comparisons == {"==", "!=", "<", ">", "<=", ">="}

Operators ==
  Comparisons \cup {"||", "&&", "|", "^", "&", "<<", ">>", "+", "-", "*", "/", "%"}

Precedence(op) ==
  CASE op = "||" -> 1
    [] op = "&&" -> 2
    [] op \in Comparisons -> 3
    [] op = "|"  -> 4
    [] op = "^"  -> 5
    [] op = "&"  -> 6
    [] op \in {"<<", ">>"} -> 7
    [] op \in {"+", "-"}   -> 8
    [] op \in {"*", "/", "%"} -> 9

OfCast  == 10
OfUnary == 11

AssignOperators == {"=", "+=", "-=", "*=", "/="}

Marks == Operators \cup AssignOperators \cup
         {"(", ")", "[", "]", "{", "}", ",", ";", ":", ".", "?", "=>", "::", "end",
          "as", "else", "in", "let", "mut"}

Blocklike == {"if", "match", "while", "for", "{"}

-----------------------------------------------------------------------------
(* What is read is a tree and the place after it, or a failure.            *)

Got(tree, at) == [ok |-> TRUE, tree |-> tree, at |-> at]
Failed == [ok |-> FALSE, tree |-> Ast("None", "", << >>), at |-> 0]

Token(s, i) == IF i <= Len(s) THEN s[i] ELSE "end"

\* What was read, with a token after it; what was read, as a part of a tree.
Then(s, r, token) ==
  IF r.ok /\ Token(s, r.at) = token THEN [r EXCEPT !.at = @ + 1] ELSE Failed

Of(kind, text, r) == IF r.ok THEN Got(Ast(kind, text, <<r.tree>>), r.at) ELSE Failed

\* One after another: the second has the tree of the first as its first child.
Both(kind, text, first, second) ==
  IF first.ok /\ second.ok
  THEN Got(Ast(kind, text, <<first.tree, second.tree>>), second.at) ELSE Failed

\* What there is to read: an expression that binds tighter than p; what comes after
\* one, as far as it does; what is in brackets, a literal, a match or a block, after
\* what has been read of it.
RECURSIVE Read(_, _, _)
Expression(s, i, p)         == Read(s, i, <<"expression", p>>)
Continue(s, left, i, p)     == Read(s, i, <<"more", left, p>>)
Listed(s, i, close, read)   == Read(s, i, <<"list", close, read>>)
Members(s, i, read)         == Read(s, i, <<"members", read>>)
ReadArms(s, i, read)        == Read(s, i, <<"arms", read>>)
Statements(s, i, close, read) == Read(s, i, <<"statements", close, read>>)

ReadBlock(s, i) == IF Token(s, i) = "{" THEN Statements(s, i + 1, "}", << >>) ELSE Failed

ReadMore(s, left, i, p) ==
  LET t    == Token(s, i)
      name == Token(s, i + 1)
  IN  CASE t = "?" -> Continue(s, Ast("Question", "", <<left>>), i + 1, p)
        [] t = "." /\ Token(s, i + 2) = "(" ->
             LET of == Listed(s, i + 3, ")", <<left>>)
             IN  IF of.ok THEN Continue(s, Ast("Method", name, of.tree.children), of.at, p)
                 ELSE Failed
        [] t = "." -> Continue(s, Ast("Field", name, <<left>>), i + 2, p)
        [] t = "[" ->
             LET at == Then(s, Expression(s, i + 1, 0), "]")
             IN  IF at.ok THEN Continue(s, Ast("Index", "", <<left, at.tree>>), at.at, p)
                 ELSE Failed
        [] t = "as" /\ p <= OfCast ->
             IF name \in TypeNames /\ Token(s, i + 2) \notin {"<", "<<"}
             THEN Continue(s, Ast("As", name, <<left>>), i + 2, p) ELSE Failed
        [] t \in Operators /\ p <= Precedence(t) ->
             LET right == Expression(s, i + 1, Precedence(t) + 1)
             IN  IF right.ok /\ ~ (t \in Comparisons /\ Token(s, right.at) \in Comparisons)
                 THEN Continue(s, Ast("Binary", t, <<left, right.tree>>), right.at, p)
                 ELSE Failed
        [] OTHER -> Got(left, i)

\* A path, or what is read of one.
Named(s, i) ==
  LET t == Token(s, i)
  IN  CASE t \in Marks -> Failed
        [] Token(s, i + 1) = "::" ->
             Got([Ast("Path", Token(s, i + 2), << >>) EXCEPT !.base = t], i + 3)
        [] Token(s, i + 1) = "(" ->
             LET of == Listed(s, i + 2, ")", << >>)
             IN  IF of.ok THEN Got(Ast("Call", t, of.tree.children), of.at) ELSE Failed
        [] Token(s, i + 1) = "{" /\ t \in StructNames ->
             LET of == Members(s, i + 2, << >>)
             IN  IF of.ok THEN Got(Ast("Struct", t, of.tree.children), of.at) ELSE Failed
        [] OTHER -> Got(Ast("Path", t, << >>), i + 1)

ReadIf(s, i) ==
  LET condition == Expression(s, i + 1, 0)
      then      == IF condition.ok THEN ReadBlock(s, condition.at) ELSE Failed
      otherwise == IF then.ok /\ Token(s, then.at) = "else"
                   THEN ReadBlock(s, then.at + 1) ELSE Failed
  IN  IF then.ok /\ Token(s, then.at) = "else"
      THEN IF otherwise.ok
           THEN Got(Ast("Branch", "", <<condition.tree, then.tree, otherwise.tree>>),
                    otherwise.at)
           ELSE Failed
      ELSE Both("Branch", "", condition, then)

Prefix(s, i) ==
  LET t == Token(s, i)
  IN  CASE t \in {"-", "!"} -> Of("Unary", t, Expression(s, i + 1, OfUnary))
        [] t = "(" -> Of("Group", "", Then(s, Expression(s, i + 1, 0), ")"))
        [] t = "{" -> ReadBlock(s, i)
        [] t = "if" -> ReadIf(s, i)
        [] t = "while" ->
             LET condition == Expression(s, i + 1, 0)
             IN  IF condition.ok
                 THEN Both("While", "", condition, ReadBlock(s, condition.at)) ELSE Failed
        [] t = "for" ->
             LET over == IF Token(s, i + 2) = "in" THEN Expression(s, i + 3, 0) ELSE Failed
             IN  IF over.ok
                 THEN Both("For", Token(s, i + 1), over, ReadBlock(s, over.at)) ELSE Failed
        [] t = "match" ->
             LET over == Then(s, Expression(s, i + 1, 0), "{")
             IN  IF over.ok THEN ReadArms(s, over.at, <<over.tree>>) ELSE Failed
        [] t = "return" ->
             IF Token(s, i + 1) \in {";", "}", ",", "end"}
             THEN Got(Ast("Return", "", << >>), i + 1)
             ELSE Of("Return", "", Expression(s, i + 1, 0))
        [] OTHER -> Named(s, i)

\* Expressions with commas between them, up to what closes them.
ReadList(s, i, close, read) ==
  IF Token(s, i) = close THEN Got(Ast("None", "", read), i + 1)
  ELSE LET next == Expression(s, i, 0)
       IN  IF ~ next.ok \/ Token(s, next.at) \notin {",", close} THEN Failed
           ELSE Listed(s, IF Token(s, next.at) = "," THEN next.at + 1 ELSE next.at,
                       close, Append(read, next.tree))

\* The members of a struct literal: a name alone is its own value.
ReadMembers(s, i, read) ==
  LET name  == Token(s, i)
      value == IF Token(s, i + 1) = ":" THEN Expression(s, i + 2, 0)
               ELSE Got(Ast("Path", name, << >>), i + 1)
      next  == Then(s, value, ",")
  IN  IF name = "}" THEN Got(Ast("None", "", read), i + 1)
      ELSE IF next.ok
      THEN Members(s, next.at, Append(read, Ast("FieldValue", name, <<next.tree>>)))
      ELSE Failed

ReadArm(s, i, read) ==
  LET based == Token(s, i + 1) = "::"
      last  == IF based THEN i + 2 ELSE i
      binds == Token(s, last + 1) = "("
      arrow == IF binds THEN last + 4 ELSE last + 1
      value == IF Token(s, arrow) = "=>" THEN Then(s, Expression(s, arrow + 1, 0), ",")
               ELSE Failed
      arm   == [Ast("Arm", Token(s, last), <<value.tree>>) EXCEPT
                  !.base  = IF based THEN Token(s, i) ELSE "",
                  !.binds = IF binds THEN Token(s, last + 2) ELSE ""]
  IN  IF Token(s, i) = "}" THEN Got(Ast("Match", "", read), i + 1)
      ELSE IF value.ok THEN ReadArms(s, value.at, Append(read, arm))
      ELSE Failed

-----------------------------------------------------------------------------
(* Statements.                                                             *)

ReadLet(s, i) ==
  LET mutable == Token(s, i + 1) = "mut"
      at      == IF mutable THEN i + 2 ELSE i + 1
      typed   == Token(s, at + 1) = ":"
      from    == IF typed THEN at + 3 ELSE at + 1
      value   == IF Token(s, from) = "=" THEN Expression(s, from + 1, 0) ELSE Failed
      type    == IF typed THEN <<Ast("Type", Token(s, at + 2), << >>)>> ELSE << >>
  IN  IF value.ok
      THEN Got([Ast("Let", Token(s, at), <<value.tree>> \o type) EXCEPT
                  !.mutable = mutable], value.at)
      ELSE Failed

ReadStatement(s, i) ==
  IF Token(s, i) = "let" THEN ReadLet(s, i)
  ELSE LET first == Expression(s, i, 0)
           op    == Token(s, first.at)
       IN  IF first.ok /\ op \in AssignOperators
           THEN Both("Assign", op, first, Expression(s, first.at + 1, 0))
           ELSE first

\* Statements up to what closes them.  One without a semicolon is the last, unless
\* it begins with a block.
ReadStatements(s, i, close, read) ==
  IF Token(s, i) = close THEN Got(Ast("Block", "", read), i + 1)
  ELSE LET braced == Token(s, i) \in Blocklike
           next   == IF braced THEN Prefix(s, i) ELSE ReadStatement(s, i)
       IN  CASE ~ next.ok -> Failed
             [] next.ok /\ Token(s, next.at) = ";" ->
                  Statements(s, next.at + 1, close,
                             Append(read, Ast("Statement", "", <<next.tree>>)))
             [] next.ok /\ Token(s, next.at) # ";" ->
                  IF (braced \/ Token(s, next.at) = close) /\ next.tree.kind # "Let"
                  THEN Statements(s, next.at, close, Append(read, next.tree))
                  ELSE Failed

Read(s, i, goal) ==
  CASE goal[1] = "expression" ->
         LET first == Prefix(s, i)
         IN  IF first.ok THEN Continue(s, first.tree, first.at, goal[2]) ELSE Failed
    [] goal[1] = "more"       -> ReadMore(s, goal[2], i, goal[3])
    [] goal[1] = "list"       -> ReadList(s, i, goal[2], goal[3])
    [] goal[1] = "members"    -> ReadMembers(s, i, goal[2])
    [] goal[1] = "arms"       -> ReadArm(s, i, goal[2])
    [] goal[1] = "statements" -> ReadStatements(s, i, goal[2], goal[3])

\* The body of a function; a tree of kind "None" is not Rust.
ReadBody(s) == Statements(s, 1, "end", << >>).tree
=============================================================================

----------------------------- MODULE Extraction -----------------------------
(***************************************************************************)
(* The bodies of functions as the extractor reports them                   *)
(* (crates/zag/tools/extract/main.zig): the nodes of a Zig syntax tree,    *)
(* children before their parent, each naming its children by their place   *)
(* in the list.                                                            *)
(*                                                                         *)
(* A Zig tree is [tag, text, kids, labels, declared, mutable].  Its kids   *)
(* are in the order the extractor visits them; labels are the fields of a  *)
(* struct literal and the arms of a switch.                                *)
(***************************************************************************)
EXTENDS Naturals, Sequences, SequencesExt

\* Shapes with no node of their own: what Zig has and the port does not read
\* (a catch, an orelse, a break), and loops and switches it reads no further.
Unreported == {"other"}

\* Only where a statement is written are these read as what they are.
StatementTags == {"return", "let", "assign"}

\* The kids that stand where a statement may: what is in a block, the arms of an
\* `if` and the step of a `while`.
ReadAsStatement(tree, i) ==
  \/ tree.tag = "block"
  \/ tree.tag = "if" /\ i > 1
  \/ tree.tag = "while" /\ i = 3

\* A call by way of a value reports what it is called on after its arguments, and
\* a switch what it is over after its arms; both name it first.
Order(tag, at) ==
  IF tag \in {"method", "switch"} THEN <<Last(at)>> \o Front(at) ELSE at

\* An operator that wraps or saturates is reported as the method it becomes.
Kind(tag) == IF tag = "overflow" THEN "method" ELSE tag

NodeOf(tree, kind, at) ==
  [ kind |-> kind, text |-> tree.text, kids |-> Order(tree.tag, at),
    labels |-> tree.labels, declared |-> tree.declared, mutable |-> tree.mutable ]

\* The list of nodes with those of a tree after it.
RECURSIVE EmitExpression(_, _, _)
EmitExpression(nodes, tree, statement) ==
  IF tree.tag \in Unreported \/ (tree.tag \in StatementTags /\ ~ statement)
  THEN Append(nodes, [NodeOf(tree, "unsupported", << >>) EXCEPT !.kids = << >>])
  ELSE LET Visit(reported, i) ==
             LET longer == EmitExpression(reported.nodes, tree.kids[i],
                                          ReadAsStatement(tree, i))
             IN  [nodes |-> longer, at |-> Append(reported.at, Len(longer))]
           kids == FoldLeftDomain(Visit, [nodes |-> nodes, at |-> << >>], tree.kids)
       IN  Append(kids.nodes, NodeOf(tree, Kind(tree.tag), kids.at))

\* A body: its nodes, and which of them are its statements.
EmitBody(statements) ==
  LET Visit(reported, i) ==
        LET longer == EmitExpression(reported.nodes, statements[i], TRUE)
        IN  [nodes |-> longer, body |-> Append(reported.body, Len(longer))]
  IN  FoldLeftDomain(Visit, [nodes |-> << >>, body |-> << >>], statements)
=============================================================================

----------------------------- MODULE Rendering ------------------------------
(***************************************************************************)
(* A syntax tree as the tokens that are written of it                      *)
(* (crates/zag-render/src/lib.rs, render_expression).  Nothing says how    *)
(* tightly an operator binds: what a tree means when it is read again is   *)
(* up to the brackets that are written and those that are not.             *)
(***************************************************************************)
EXTENDS Naturals, Sequences, SequencesExt

\* A node of the syntax tree of the port; a path may have a base, and a pattern a
\* name that it binds.
Ast(kind, text, children) ==
  [ kind |-> kind, base |-> "", text |-> text, binds |-> "", mutable |-> FALSE,
    children |-> children ]

\* Sequences of tokens one after another, with a token between them.
Joined(parts, between) ==
  FoldLeftDomain(LAMBDA tokens, i :
                   IF i = 1 THEN parts[i] ELSE tokens \o between \o parts[i],
                 << >>, parts)

\* Mutant of NeedsBrackets: a cast takes what is next to it.
NeverBrackets(kind) == FALSE

\* What a cast would take a part of.
NeedsBrackets(kind) == kind \in {"Binary", "Unary"}

Pattern(node) ==
  (IF node.base = "" THEN <<node.text>> ELSE <<node.base, "::", node.text>>)
    \o (IF node.binds = "" THEN << >> ELSE <<"(", node.binds, ")">>)

RECURSIVE Rendered(_)

\* An arm that is no block is put in one.
RenderedArm(node) ==
  IF node.kind = "Block" THEN Rendered(node) ELSE <<"{">> \o Rendered(node) \o <<"}">>

Rendered(node) ==
  LET of     == node.children
      part   == [i \in DOMAIN of |-> Rendered(of[i])]
      listed(from) == Joined(SubSeq(part, from, Len(part)), <<",">>)
  IN  CASE node.kind = "Literal"   -> <<node.text>>
        [] node.kind \in {"Path", "Type"} -> Pattern(node)
        [] node.kind = "Call"      -> <<node.text, "(">> \o listed(1) \o <<")">>
        [] node.kind = "Struct"    -> <<node.text, "{">>
                                        \o FlattenSeq([i \in DOMAIN part |-> part[i] \o <<",">>])
                                        \o <<"}">>
        [] node.kind = "FieldValue" ->
             IF of[1].kind = "Path" /\ of[1].base = "" /\ of[1].text = node.text
             THEN <<node.text>> ELSE <<node.text, ":">> \o part[1]
        [] node.kind = "Binary"    -> part[1] \o <<node.text>> \o part[2]
        [] node.kind = "Unary"     -> <<node.text>> \o part[1]
        [] node.kind = "Field"     -> part[1] \o <<".", node.text>>
        [] node.kind = "As"        -> (IF NeedsBrackets(of[1].kind)
                                       THEN <<"(">> \o part[1] \o <<")">> ELSE part[1])
                                        \o <<"as", node.text>>
        [] node.kind = "Index"     -> part[1] \o <<"[">> \o part[2] \o <<"]">>
        [] node.kind = "Group"     -> <<"(">> \o part[1] \o <<")">>
        [] node.kind = "Question"  -> part[1] \o <<"?">>
        [] node.kind = "Return"    -> <<"return">> \o (IF of = << >> THEN << >> ELSE part[1])
        [] node.kind = "Let"       -> <<"let">> \o (IF node.mutable THEN <<"mut">> ELSE << >>)
                                        \o <<node.text>>
                                        \o (IF Len(of) = 2 THEN <<":">> \o part[2] ELSE << >>)
                                        \o <<"=">> \o part[1]
        [] node.kind = "Assign"    -> part[1] \o <<node.text>> \o part[2]
        [] node.kind = "Branch"    -> <<"if">> \o part[1] \o RenderedArm(of[2])
                                        \o (IF Len(of) = 2 THEN << >>
                                            ELSE <<"else">> \o RenderedArm(of[3]))
        [] node.kind = "Method"    -> part[1] \o <<".", node.text, "(">> \o listed(2) \o <<")">>
        [] node.kind = "While"     -> <<"while">> \o part[1] \o part[2]
        [] node.kind = "For"       -> <<"for", node.text, "in">> \o part[1] \o part[2]
        [] node.kind = "Match"     -> <<"match">> \o part[1] \o <<"{">>
                                        \o FlattenSeq([i \in 1 .. Len(part) - 1 |->
                                                         part[i + 1] \o <<",">>])
                                        \o <<"}">>
        [] node.kind = "Arm"       -> Pattern(node) \o <<"=>">> \o part[1]
        [] node.kind = "Statement" -> part[1] \o <<";">>
        [] node.kind = "Block"     -> <<"{">> \o FlattenSeq(part) \o <<"}">>

\* The body of a function, between its braces.
RenderedBody(statements) ==
  FlattenSeq([i \in DOMAIN statements |-> Rendered(statements[i])])
=============================================================================

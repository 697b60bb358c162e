------------------------------ MODULE Meaning ------------------------------
(***************************************************************************)
(* What a body does, in Zig as it was written and in Rust as it is         *)
(* ported: along every path, what is decided, called and stored, in order, *)
(* and what is given back.  Values are terms, which nothing computes; a    *)
(* loop is taken at most MaximumTurns times.                               *)
(*                                                                         *)
(* Both languages are brought to one tree first.  What differs between     *)
(* them is there: what Zig wraps on the way out of a function, where it    *)
(* runs the step of a loop, and that none of its blocks has a value.       *)
(***************************************************************************)
EXTENDS Lowering

CONSTANT MaximumTurns

Name(text) == Ast("Path", text, << >>)
Unit == Name("()")
OkUnit == Ast("Call", "Ok", <<Unit>>)

-----------------------------------------------------------------------------
(* Zig.                                                                    *)

OptionalName(f, t) ==
  \/ /\ t.tag = "identifier"
     /\ \E i \in DOMAIN f.parameters :
          /\ f.parameters[i].name = t.text
          /\ KindOfType(f.parameters[i].type) = "Optional"
  \/ /\ t.tag \in {"call", "method"}
     /\ \E i \in DOMAIN Functions :
          Functions[i].name = t.text /\ KindOfType(Functions[i].returns) = "Optional"

MayFail(t) ==
  /\ t.tag \in {"call", "method"}
  /\ \E i \in DOMAIN Functions : Functions[i].name = t.text /\ Functions[i].fallible

OfContainer(t) ==
  t.tag = "field" /\ t.kids[1].tag = "identifier" /\ Container(t.kids[1].text) # ""

IsAnError(t) == OfContainer(t) /\ Containers[t.kids[1].text].kind = "ErrorSet"

\* A value on the way out of a function that may give back none, or may fail.
AsOptional(f, t, value) ==
  IF KindOfType(f.returns) # "Optional" \/ OptionalName(f, t) THEN value
  ELSE IF t.tag = "identifier" /\ t.text = "null" THEN Name("None")
  ELSE Ast("Call", "Some", <<value>>)

AsResult(f, t, value) ==
  IF ~ f.fallible \/ MayFail(t) THEN AsOptional(f, t, value)
  ELSE IF IsAnError(t) THEN Ast("Call", "Err", <<value>>)
  ELSE Ast("Call", "Ok", <<AsOptional(f, t, value)>>)

Converting == Waiting \cup {"intCast"}

Ended(node) == Ast("Statement", "", <<node>>)

RECURSIVE OfZig(_, _)
OfZig(f, t) ==
  LET of == [i \in DOMAIN t.kids |-> OfZig(f, t.kids[i])]
  IN  CASE t.tag \in {"identifier", "literal"} -> Name(t.text)
        [] OfContainer(t) ->
             [Name(PascalCase(t.text)) EXCEPT !.base = t.kids[1].text]
        [] t.tag = "field" /\ ~ OfContainer(t) -> Ast("Field", t.text, of)
        [] t.tag \in {"binary", "unary", "index", "overflow", "try"} ->
             Ast(CASE t.tag = "overflow" -> "Method" [] t.tag = "try" -> "Question"
                   [] OTHER -> "Operator", t.text, of)
        [] t.tag = "group"   -> of[1]
        [] t.tag = "method"  -> Ast("Method", SnakeCase(t.text), <<Last(of)>> \o Front(of))
        [] t.tag = "builtin" ->
             IF t.text = "as" THEN of[2]
             ELSE IF t.text \in Converting THEN of[1] ELSE Ast("Method", t.text, of)
        [] t.tag = "call" ->
             LET callee == Functions[CalleeOf(t.text)].parameters
                 kept == SelectSeq([i \in DOMAIN of |-> i], LAMBDA i : ~ callee[i].allocator)
             IN  Ast("Call", SnakeCase(t.text), [i \in DOMAIN kept |-> of[kept[i]]])
        [] t.tag = "structliteral" ->
             Ast("Struct", IF t.declared = "" THEN ReturnedStruct(f) ELSE t.declared,
                 [i \in DOMAIN of |-> Ast("FieldValue", t.labels[i].name, <<of[i]>>)])
        [] t.tag = "switch" ->
             LET owner == Behind(
                   (CHOOSE p \in ToSet(f.parameters) : p.name = Last(t.kids).text).type,
                   {"Pointer"}, 1)
                 arm(i) == [Ast("Arm", IF t.labels[i].name = "else" THEN "_"
                                       ELSE PascalCase(t.labels[i].name), <<of[i]>>) EXCEPT
                              !.base  = IF t.labels[i].name = "else" THEN "" ELSE owner,
                              !.binds = t.labels[i].capture]
             IN  Ast("Match", "", <<Last(of)>> \o [i \in DOMAIN t.labels |-> arm(i)])
        [] t.tag = "while"  -> Ast("While", "", of)
        [] t.tag = "for"    -> Ast("For", t.text, of)
        [] t.tag = "if"     -> Ast("Branch", "", of)
        [] t.tag = "block"  -> Ast("Block", "", [i \in DOMAIN of |-> Ended(of[i])])
        [] t.tag = "let"    -> Ast("Assign", "=", <<Name(t.text)>> \o of)
        [] t.tag = "assign" -> Ast("Assign", t.text, of)
        [] t.tag = "return" ->
             Ast("Return", "", <<IF t.kids # << >> THEN AsResult(f, t.kids[1], of[1])
                                 ELSE IF f.fallible THEN OkUnit ELSE Unit>>)

\* A body ends by giving back nothing, which in a function that may fail is Ok(()).
ZigBody(f) ==
  Ast("Block", "", Append([i \in DOMAIN f.statements |-> Ended(OfZig(f, f.statements[i]))],
                          IF f.fallible THEN OkUnit ELSE Unit))

-----------------------------------------------------------------------------
(* Rust.                                                                   *)

Plainer == [ x \in {"0.0", "1.0", "2.0"} |->
               CASE x = "0.0" -> "0" [] x = "1.0" -> "1" [] x = "2.0" -> "2" ]

\* A conversion, and borrowing what is walked, leaves a value what it is.
RECURSIVE OfRust(_)
OfRust(n) ==
  LET of == [i \in DOMAIN n.children |-> OfRust(n.children[i])]
  IN  CASE n.kind \in {"Group", "As"} -> of[1]
        [] n.kind = "Method" /\ n.text \in {"try_into", "unwrap", "iter", "copied"} -> of[1]
        [] n.kind \in {"Binary", "Unary", "Index"} -> Ast("Operator", n.text, of)
        [] n.kind = "Literal" ->
             Name(IF n.text \in DOMAIN Plainer THEN Plainer[n.text] ELSE n.text)
        [] n.kind = "Let" -> Ast("Assign", "=", <<Name(n.text), of[1]>>)
        [] n.kind = "Return" -> Ast("Return", "", IF of = << >> THEN <<Unit>> ELSE of)
        [] n.kind = "Arm" -> [n EXCEPT !.children = of, !.binds = IF @ = "_" THEN "" ELSE @]
        [] OTHER -> [n EXCEPT !.children = of]

RustBody(statements) ==
  Ast("Block", "", [i \in DOMAIN statements |-> OfRust(statements[i])])

-----------------------------------------------------------------------------
(* Running either.                                                         *)

Term(op, base, of) == [op |-> op, base |-> base, of |-> of]
Nothing == Term("()", "", << >>)

\* Where a path has come to: whether the function has returned, the values so far,
\* what the names are, and what has been decided, called and stored.
Start == [out |-> FALSE, values |-> << >>, names |-> << >>, trace |-> << >>]

Giving(path, value) == [path EXCEPT !.values = Append(@, value)]
Noting(path, what)  == [path EXCEPT !.trace = Append(@, what)]
Calling(path, name, value) == [path EXCEPT !.names = (name :> value) @@ @]

IsVoid(name) ==
  \E i \in DOMAIN Functions :
    SnakeCase(Functions[i].name) = name /\ Functions[i].returns = "void"

IsDeclared(name) == \E i \in DOMAIN Functions : SnakeCase(Functions[i].name) = name

RECURSIVE Run(_, _), RunAll(_, _, _), Turns(_, _, _, _)

\* Every path of the nodes from i on, their values after those of the path.
RunAll(nodes_, i, path) ==
  IF path.out \/ i > Len(nodes_) THEN {path}
  ELSE UNION { RunAll(nodes_, i + 1, one) : one \in Run(nodes_[i], path) }

\* The values of the nodes alone, given to what makes one value of them.
Values(nodes_, path) ==
  { [path |-> [one EXCEPT !.values = path.values], of |-> one.values] :
      one \in RunAll(nodes_, 1, [path EXCEPT !.values = << >>]) }

\* A path that has returned stays; another goes on.
Onward(nodes_, path, Go(_, _)) ==
  UNION { IF one.path.out THEN {[one.path EXCEPT !.values = one.of]} ELSE Go(one.path, one.of) :
            one \in Values(nodes_, path) }

Run(n, path) ==
  LET kids == n.children
      Plainly(p, of) ==
        LET value == Term(n.kind, n.text, of)
            noted == IF n.kind \in {"Call", "Method"} /\ IsDeclared(n.text)
                     THEN Noting(p, value) ELSE p
        IN  {Giving(noted, IF n.kind \in {"Call", "Method"} /\ IsVoid(n.text)
                           THEN Nothing ELSE value)}
      Question(p, of) ==
        { Giving(Noting(p, Term("ok", "", of)),
                 IF of[1] = Nothing THEN Nothing ELSE Term("payload", "", of)),
          [Noting(p, Term("failed", "", of)) EXCEPT
             !.out = TRUE, !.values = <<Term("failure", "", of)>>] }
      Returned_(p, of) == {[p EXCEPT !.out = TRUE, !.values = of]}
      Assigned(p, of) ==
        LET target == kids[1]
            value  == of[1]
            old    == IF target.text \in DOMAIN p.names THEN p.names[target.text]
                      ELSE Term("given", target.text, << >>)
        IN  {Giving(Calling(p, target.text,
                            IF n.text = "=" THEN value ELSE Term(n.text, "", <<old, value>>)),
                    Nothing)}
      Stored(p, of) == {Giving(Noting(p, Term("store", n.text, of)), Nothing)}
      Branched(p, of) ==
        Run(kids[2], Noting(p, Term("if", "", of)))
          \cup LET not == Noting(p, Term("if not", "", of))
               IN  IF Len(kids) = 3 THEN Run(kids[3], not) ELSE {Giving(not, Nothing)}
      Matched(p, of) ==
        UNION { LET arm  == kids[i]
                    at   == Noting(p, Term(arm.text, arm.base, of))
                    into == IF arm.binds = "" THEN at
                            ELSE Calling(at, arm.binds, Term("payload", arm.text, of))
                IN  Run(arm.children[1], into) : i \in 2 .. Len(kids) }
  IN  CASE n.kind = "Path" ->
             {Giving(path, IF n.base = "" /\ n.text \in DOMAIN path.names
                           THEN path.names[n.text] ELSE Term(n.text, n.base, << >>))}
        [] n.kind = "Statement" ->
             { IF one.path.out THEN [one.path EXCEPT !.values = one.of]
               ELSE Giving(one.path, Nothing) : one \in Values(kids, path) }
        [] n.kind = "Block" ->
             { IF one.path.out THEN [one.path EXCEPT !.values = one.of]
               ELSE Giving(one.path, IF one.of = << >> THEN Nothing ELSE Last(one.of)) :
                 one \in Values(kids, path) }
        [] n.kind = "Question" -> Onward(kids, path, Question)
        [] n.kind = "Return"   -> Onward(kids, path, Returned_)
        [] n.kind = "Assign"   ->
             IF kids[1].kind = "Path" THEN Onward(<<kids[2]>>, path, Assigned)
             ELSE Onward(kids, path, Stored)
        [] n.kind = "Branch"   -> Onward(<<kids[1]>>, path, Branched)
        [] n.kind = "Match"    -> Onward(<<kids[1]>>, path, Matched)
        [] n.kind \in {"While", "For"} -> Turns(n, path, path, MaximumTurns)
        [] OTHER -> Onward(kids, path, Plainly)

\* A loop from where a path has come to, with so many turns left.
Turns(n, path, before, left) ==
  LET kids == n.children
      Over(p, of) == {Giving(Noting(p, Term("over", "", of)), Nothing)}
      Again(p, of) ==
        LET turn == Noting(p, Term("turn", "", of))
            bound == IF n.kind = "While" THEN turn
                     ELSE Calling(turn, n.text, Term("element", "", Append(of, Term("", "", p.trace))))
        IN  UNION { IF one.path.out THEN {[one.path EXCEPT !.values = one.of]}
                    ELSE Turns(n, one.path, before, left - 1) :
                      one \in Values(Tail(kids), bound) }
      Both_(p, of) == Over(p, of) \cup (IF left = 0 THEN {} ELSE Again(p, of))
  IN  Onward(<<kids[1]>>, path, Both_)

\* What a body gives back and what it does, along every path.
Outcomes(block) ==
  { [value |-> Last(one.values), trace |-> one.trace] : one \in Run(block, Start) }
=============================================================================

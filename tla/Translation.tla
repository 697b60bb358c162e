---------------------------- MODULE Translation -----------------------------
(***************************************************************************)
(* The expression table of one function body, built from the nodes the     *)
(* extractor reports, one node a step and in their order                   *)
(* (crates/zag-frontend/src/lib.rs, declare_body and translate_node).  A   *)
(* node finds its children built; an expression that is already in the     *)
(* table may still be changed by the node above it.                        *)
(*                                                                         *)
(* One file is read, so a name is its own module's.  A handle is the name  *)
(* it stands for: a type, a container and a field are named, "" is none.   *)
(***************************************************************************)
EXTENDS Extraction

CONSTANTS
  Types,        \* name -> [kind, element, width, signed]
  Containers,   \* name -> [kind, fields], the fields a sequence of [name, type]
  Functions,    \* a sequence of [name, owner, returns, fallible, parameters]
  Imports,      \* the names imports are read by
  Capitalised,  \* what pascal_case makes of the names it changes
  Bodies        \* the functions to port: [parameters, returns, fallible, statements]

VARIABLES
  function,     \* the function being ported
  nodes,        \* its nodes
  expressions,  \* the table of expressions
  built,        \* the expression of every node so far
  locals,       \* the type of every name the body binds or is given
  body          \* the expression of the body, 0 before there is one

writing == <<function, nodes, expressions, built, locals, body>>

-----------------------------------------------------------------------------
(* What the tables say.                                                    *)

KindOfType(t) == IF t \in DOMAIN Types THEN Types[t].kind ELSE "None"

ElementOf(t) == IF t \in DOMAIN Types THEN Types[t].element ELSE ""

\* A name that is a number's type.
ScalarType(text) == IF KindOfType(text) \in {"Integer", "Float"} THEN text ELSE ""

Wrapped == 8    \* how many wrappers are looked behind

\* What is behind the wrappers of some kinds.
RECURSIVE Behind(_, _, _)
Behind(t, kinds, depth) ==
  IF depth > 0 /\ KindOfType(t) \in kinds /\ ElementOf(t) \notin {"", t}
  THEN Behind(ElementOf(t), kinds, depth - 1) ELSE t

StructOf(t) ==
  LET inner == Behind(t, {"Pointer", "Optional", "Slice"}, Wrapped - 1)
  IN  IF KindOfType(inner) = "Struct" THEN inner ELSE ""

Container(name) == IF name \in DOMAIN Containers THEN name ELSE ""

ReturnedStruct(f) == Container(Behind(f.returns, {"Optional"}, Wrapped))

\* The type of a field of a container; no field, no type.
HasField(owner, name) ==
  /\ owner # ""
  /\ \E i \in DOMAIN Containers[owner].fields : Containers[owner].fields[i].name = name

FieldType(owner, name) ==
  LET fields == Containers[owner].fields
      first  == SelectInSeq(fields, LAMBDA field : field.name = name)
  IN  fields[first].type

\* Among functions of one name a call finds the last, a method that gives a type
\* forward only the first, and a method that may fail is looked for by its owner.
CalleeOf(name) == SelectLastInSeq(Functions, LAMBDA f : f.name = name)

FirstNamed(name) == SelectInSeq(Functions, LAMBDA f : f.name = name)

MethodResult(table, receiver, name) ==
  LET owner == StructOf(table[receiver].result)
      first == FirstNamed(name)
  IN  IF owner # "" /\ first # 0 /\ Functions[first].owner = owner
      THEN Functions[first].returns ELSE ""

MethodHandle(table, receiver, name) ==
  LET owner == StructOf(table[receiver].result)
  IN  IF owner = "" THEN 0
      ELSE SelectInSeq(Functions, LAMBDA f : f.name = name /\ f.owner = owner)

PascalCase(name) == IF name \in DOMAIN Capitalised THEN Capitalised[name] ELSE name

-----------------------------------------------------------------------------
(* Rows.                                                                   *)

\* A path is a base and what is read of it; a pattern may bind what it carries.
New(kind, text, children) ==
  [ kind |-> kind, base |-> "", text |-> text, binds |-> "", children |-> children,
    result |-> "", field |-> "", callee |-> 0, mutable |-> FALSE ]

At == Len(built) + 1
Node == nodes[At]
AtNode(kind) == body = 0 /\ At <= Len(nodes) /\ Node.kind = kind

Kid(i) == built[Node.kids[i]]
Kids == [i \in DOMAIN Node.kids |-> Kid(i)]
It(i) == expressions[Kid(i)]

\* The node is the last row of the table, or the row said.
Becomes(table, e) ==
  /\ expressions' = table
  /\ built' = Append(built, e)
  /\ UNCHANGED <<function, nodes, body>>

Write(rows) == Becomes(expressions \o rows, Len(expressions) + Len(rows))

WriteOne(row) == Write(<<row>>) /\ UNCHANGED locals

LeaveUnsupported == WriteOne(New("Unsupported", Node.text, << >>))

Literals == {"0", "1", "2"}
WithPoint == ("0" :> "0.0") @@ ("1" :> "1.0") @@ ("2" :> "2.0")

\* A literal of digits alone is written as a float.
AsFloat(table, e) ==
  IF table[e].kind = "Literal" /\ table[e].text \in Literals
  THEN [table EXCEPT ![e].text = WithPoint[table[e].text]] ELSE table

WidenBeside(table, literal, beside) ==
  IF KindOfType(table[beside].result) = "Float" THEN AsFloat(table, literal) ELSE table

\* Rust has integers of few widths; an expression is one by the type it carries.
Width(bits) == CHOOSE w \in {8, 16, 32, 64, 128} :
                 w >= bits /\ \A v \in {8, 16, 32, 64, 128} : v >= bits => v >= w

SpelledInteger ==
  << "u", 8 >> :> "u8" @@ << "u", 32 >> :> "u32" @@ << "u", 64 >> :> "u64"
    @@ << "i", 32 >> :> "i32"

IntegerNamed(table, e) ==
  LET t == table[e].result
  IN  IF KindOfType(t) # "Integer" THEN ""
      ELSE SpelledInteger[<<IF Types[t].signed THEN "i" ELSE "u", Width(Types[t].width)>>]

IntegerWidth(name) == Types[name].width

CastTo(name, e) == [New("Cast", name, <<e>>) EXCEPT !.result = ScalarType(name)]

\* Mutant of WidenIntegers: the wider is written as the narrower.
NarrowIntegers(table, left, right) ==
  LET l == IntegerNamed(table, left)
      r == IntegerNamed(table, right)
      next == Len(table) + 1
  IN  IF l = "" \/ r = "" \/ l = r
      THEN [table |-> table, left |-> left, right |-> right]
      ELSE IF IntegerWidth(l) <= IntegerWidth(r)
      THEN [table |-> Append(table, CastTo(r, right)), left |-> left, right |-> next]
      ELSE [table |-> Append(table, CastTo(l, left)), left |-> next, right |-> right]

\* Of two integers the narrower is cast to the wider.
WidenIntegers(table, left, right) ==
  LET l == IntegerNamed(table, left)
      r == IntegerNamed(table, right)
      next == Len(table) + 1
  IN  IF l = "" \/ r = "" \/ l = r
      THEN [table |-> table, left |-> left, right |-> right]
      ELSE IF IntegerWidth(l) >= IntegerWidth(r)
      THEN [table |-> Append(table, CastTo(l, right)), left |-> left, right |-> next]
      ELSE [table |-> Append(table, CastTo(r, left)), left |-> next, right |-> right]

Carried(table, left, right) ==
  IF table[left].result # "" THEN table[left].result ELSE table[right].result

-----------------------------------------------------------------------------
(* Names, and what is read of them.                                        *)

Identifier ==
  /\ AtNode("identifier")
  /\ LET row == New("Identifier", Node.text, << >>)
     IN  IF Node.text \in DOMAIN locals
         THEN WriteOne([row EXCEPT !.result = locals[Node.text]])
         ELSE IF \/ Node.text \in {"true", "false"}
                 \/ ScalarType(Node.text) # ""
                 \/ Container(Node.text) # ""
         THEN WriteOne(row)
         ELSE LeaveUnsupported

Literal == AtNode("literal") /\ WriteOne(New("Literal", Node.text, << >>))

\* A variant of a container is a path, anything else a field that is read.
Field ==
  /\ AtNode("field")
  /\ LET base  == IF It(1).base = "" THEN It(1).text ELSE ""
         named == It(1).kind = "Identifier" /\ base # ""
         owner == StructOf(It(1).result)
         path(text) == [New("Identifier", text, << >>) EXCEPT !.base = base]
     IN  IF named /\ base \in Imports
         THEN WriteOne(path(Node.text))
         ELSE IF named /\ Container(base) # ""
         THEN WriteOne(path(PascalCase(Node.text)))
         ELSE WriteOne(
                [New("Field", Node.text, <<Kid(1)>>) EXCEPT
                   !.result = IF HasField(owner, Node.text)
                              THEN FieldType(owner, Node.text) ELSE "",
                   !.field = IF HasField(owner, Node.text) THEN Node.text ELSE ""])

Index ==
  /\ AtNode("index")
  /\ WriteOne([New("Index", "", Kids) EXCEPT !.result = ElementOf(It(1).result)])

\* Whatever the literal is of, it is of the struct the function returns.
StructLiteral ==
  /\ AtNode("structliteral")
  /\ LET container == ReturnedStruct(function)
         names     == Node.labels
         fields    == [i \in DOMAIN names |->
                         [New("StructLiteral", "", <<Kid(i)>>) EXCEPT
                            !.field = names[i].name]]
         whole     == [New("StructLiteral", "",
                           [i \in DOMAIN names |-> Len(expressions) + i])
                         EXCEPT !.result = container]
     IN  IF /\ names # << >>
            /\ \A i \in DOMAIN names : HasField(container, names[i].name)
         THEN Write(Append(fields, whole)) /\ UNCHANGED locals
         ELSE LeaveUnsupported

-----------------------------------------------------------------------------
(* Operators.                                                              *)

Binary ==
  /\ AtNode("binary")
  /\ LET left  == Kid(1)
         right == Kid(2)
         sides == WidenIntegers(
                    WidenBeside(WidenBeside(expressions, left, right), right, left),
                    left, right)
         row   == [New("Binary", Node.text, <<sides.left, sides.right>>) EXCEPT
                     !.result = Carried(sides.table, sides.left, sides.right)]
     IN  Becomes(Append(sides.table, row), Len(sides.table) + 1)
  /\ UNCHANGED locals

Unary == AtNode("unary") /\ WriteOne(New("Unary", Node.text, Kids))

Group == AtNode("group") /\ WriteOne(New("Group", "", Kids))

Try == AtNode("try") /\ WriteOne(New("Question", "", Kids))

ArithmeticMethods ==
  {"min", "max", "abs", "sqrt", "floor", "ceil", "round", "trunc", "wrapping_add",
   "wrapping_sub", "saturating_add", "saturating_sub"}

Method ==
  /\ AtNode("method")
  /\ LET declared == MethodResult(expressions, Kid(1), Node.text)
     IN  WriteOne([New("Method", Node.text, Kids) EXCEPT
                     !.result = IF declared # "" THEN declared
                                ELSE IF Node.text \in ArithmeticMethods
                                THEN It(1).result ELSE ""])

\* The method a builtin becomes, and how many operands it has.
BuiltinMethod ==
  [ min |-> 2, max |-> 2, abs |-> 1, sqrt |-> 1, floor |-> 1 ]

Waiting == {"floatFromInt", "intFromFloat", "truncate", "bitCast", "enumFromInt"}

\* A method on its first operand.
BuiltinCall ==
  /\ AtNode("builtin")
  /\ Node.text \in DOMAIN BuiltinMethod /\ BuiltinMethod[Node.text] = Len(Kids)
  /\ WriteOne([New("Method", Node.text, Kids) EXCEPT !.result = It(1).result])

\* The type it is cast to is left to what is around it.
IntCast ==
  /\ AtNode("builtin") /\ Node.text = "intCast"
  /\ Write(<<New("Method", "try_into", Kids),
             New("Method", "unwrap", <<Len(expressions) + 1>>)>>)
  /\ UNCHANGED locals

\* A cast that waits for its type is given it, anything else is cast.
As ==
  /\ AtNode("builtin") /\ Node.text = "as"
  /\ LET type == It(1).text
     IN  IF It(2).kind = "Cast" /\ It(2).text = ""
         THEN Becomes([expressions EXCEPT ![Kid(2)].text = type,
                                          ![Kid(2)].result =
                                             IF ScalarType(type) # ""
                                             THEN ScalarType(type) ELSE @], Kid(2))
         ELSE Write(<<CastTo(type, Kid(2))>>)
  /\ UNCHANGED locals

WaitForAType ==
  /\ AtNode("builtin") /\ Node.text \in Waiting
  /\ WriteOne(New("Cast", "", Kids))

Builtin == BuiltinCall \/ IntCast \/ As \/ WaitForAType

\* A call of a function the tables declare; what is an allocator is not passed,
\* and a literal passed for a float becomes one.
Call ==
  /\ AtNode("call")
  /\ LET callee == CalleeOf(Node.text)
     IN  IF callee = 0 THEN LeaveUnsupported
         ELSE LET parameters == Functions[callee].parameters
                  passed == { i \in DOMAIN Kids : i \in DOMAIN parameters }
                  Widen(table, i) ==
                    IF i \in passed /\ KindOfType(parameters[i].type) = "Float"
                    THEN AsFloat(table, Kid(i)) ELSE table
                  table == FoldLeftDomain(Widen, expressions, Kids)
                  kept  == SelectSeq([i \in DOMAIN Kids |-> i],
                             LAMBDA i : i \in passed /\ ~ parameters[i].allocator)
                  row   == [New("Call", "", [i \in DOMAIN kept |-> Kid(kept[i])])
                              EXCEPT !.callee = callee]
              IN  Becomes(Append(table, row), Len(table) + 1) /\ UNCHANGED locals

-----------------------------------------------------------------------------
(* Branches and loops.                                                     *)

\* The container a switch is over, where it is over a parameter.
ScrutineeContainer ==
  LET over  == nodes[Node.kids[1]]
      named == { i \in DOMAIN function.parameters :
                   function.parameters[i].name = over.text }
      owner == Container(Behind(
                 function.parameters[CHOOSE i \in named : \A j \in named : i <= j].type,
                 {"Pointer", "Optional"}, Wrapped))
  IN  IF /\ over.kind = "identifier" /\ named # {} /\ owner # ""
         /\ Containers[owner].kind \in {"Enum", "Union", "ErrorSet"}
      THEN owner ELSE ""

CarriesAPayload(owner, variant) ==
  Containers[owner].kind = "Union" /\ KindOfType(FieldType(owner, variant)) # "Void"

HasPattern(owner, arm) ==
  \/ arm.name = "else"
  \/ /\ HasField(owner, arm.name)
     /\ arm.capture # "" => CarriesAPayload(owner, arm.name)

ArmPattern(owner, arm) ==
  IF arm.name = "else" THEN New("Arm", "_", << >>)
  ELSE [New("Arm", PascalCase(arm.name), << >>) EXCEPT
          !.base = owner,
          !.binds = IF ~ CarriesAPayload(owner, arm.name) THEN ""
                    ELSE IF arm.capture # "" THEN arm.capture ELSE "_"]

\* The rows of the arms before one that has no pattern stay behind.
Switch ==
  /\ AtNode("switch")
  /\ LET owner == ScrutineeContainer
         arms  == Node.labels
         spelt == { i \in DOMAIN arms : \A j \in 1 .. i : HasPattern(owner, arms[j]) }
         rows  == [i \in 1 .. Cardinality(spelt) |->
                     [ArmPattern(owner, arms[i]) EXCEPT !.children = <<Kid(i + 1)>>]]
     IN  IF owner = "" THEN LeaveUnsupported
         ELSE IF spelt # DOMAIN arms
         THEN Write(Append(rows, New("Unsupported", Node.text, << >>))) /\ UNCHANGED locals
         ELSE Write(Append(rows, New("Match", "",
                <<Kid(1)>> \o [i \in DOMAIN arms |-> Len(expressions) + i])))
              /\ UNCHANGED locals

\* Mutant of LoopBody: a block is kept beside the statements taken out of it.
BodyTwice(body_, step) == <<body_>> \o expressions[body_].children \o <<step>>

\* The step of a loop goes at the end of its body.
LoopBody(body_, step) ==
  (IF expressions[body_].kind = "Block" THEN expressions[body_].children ELSE <<body_>>)
    \o <<step>>

While ==
  /\ AtNode("while")
  /\ IF Len(Kids) = 3
     THEN Write(<<New("Block", "", LoopBody(Kid(2), Kid(3))),
                  New("While", "", <<Kid(1), Len(expressions) + 1>>)>>)
     ELSE Write(<<New("While", "", Kids)>>)
  /\ UNCHANGED locals

\* What is walked is borrowed, and copied where its elements are scalars.  The
\* name gets its type only now, when the body has been read.
For ==
  /\ AtNode("for")
  /\ LET element  == ElementOf(It(1).result)
         borrowed == New("Method", "iter", <<Kid(1)>>)
         copied   == [New("Method", "copied", <<Len(expressions) + 1>>) EXCEPT
                        !.result = element]
         walked   == IF KindOfType(element) \in {"Integer", "Float", "Bool"}
                     THEN <<borrowed, copied>> ELSE <<borrowed>>
     IN  /\ Write(Append(walked, New("For", Node.text,
                                     <<Len(expressions) + Len(walked), Kid(2)>>)))
         /\ locals' = IF element = "" THEN locals
                      ELSE [locals EXCEPT ![Node.text] = element]

If == AtNode("if") /\ WriteOne(New("Branch", "", Kids))

Block == AtNode("block") /\ WriteOne(New("Block", "", Kids))

-----------------------------------------------------------------------------
(* Statements.                                                             *)

\* Mutant of ReturnsAFailure: what may fail is taken for a value.
NothingReturnsAFailure(e) == FALSE

ReturnsAFailure(e) ==
  LET row    == expressions[e]
      callee == CASE row.kind = "Call"   -> row.callee
                  [] row.kind = "Method" -> MethodHandle(expressions, row.children[1], row.text)
                  [] OTHER               -> 0
  IN  callee # 0 /\ Functions[callee].fallible

NamesAnError(e) ==
  /\ expressions[e].kind = "Identifier"
  /\ Container(expressions[e].base) # ""
  /\ Containers[expressions[e].base].kind = "ErrorSet"

\* What a return gives back, as rows that end in it.
ReturnedFallibly ==
  IF Kids = << >>
  THEN <<New("Literal", "()", << >>), New("Wrap", "Ok", <<Len(expressions) + 1>>)>>
  ELSE IF ReturnsAFailure(Kid(1)) THEN << >>
  ELSE <<New("Wrap", IF NamesAnError(Kid(1)) THEN "Err" ELSE "Ok", Kids)>>

ReturnedOptionally ==
  IF It(1).base = "" /\ It(1).text = "null" THEN <<New("Identifier", "None", << >>)>>
  ELSE <<New("Wrap", "Some", Kids)>>

Returned ==
  IF function.fallible THEN ReturnedFallibly
  ELSE IF KindOfType(function.returns) = "Optional" /\ Kids # << >>
  THEN ReturnedOptionally
  ELSE << >>

Return ==
  /\ AtNode("return")
  /\ LET value == Returned
         of    == IF value = << >> THEN Kids ELSE <<Len(expressions) + Len(value)>>
     IN  Write(Append(value, New("Return", "", of)))
  /\ UNCHANGED locals

\* What is declared beats what the value is.
Let ==
  /\ AtNode("let")
  /\ LET annotated == ScalarType(Node.declared)
         carried   == IF annotated # "" THEN annotated ELSE It(1).result
     IN  /\ Write(<<[New("Let", Node.text, Kids) EXCEPT
                       !.mutable = Node.mutable, !.result = annotated]>>)
         /\ locals' = IF carried = "" THEN locals
                      ELSE [locals EXCEPT ![Node.text] = carried]

\* What is assigned is written as the integer it is assigned to.
Assign ==
  /\ AtNode("assign")
  /\ LET name == IntegerNamed(expressions, Kid(1))
         cast == name # "" /\ IntegerNamed(expressions, Kid(2)) # name
         of   == IF cast THEN <<Kid(1), Len(expressions) + 1>> ELSE Kids
         rows == IF cast THEN <<New("Cast", name, <<Kid(2)>>)>> ELSE << >>
     IN  Write(Append(rows, New("Assign", Node.text, of)))
  /\ UNCHANGED locals

Unsupported == AtNode("unsupported") /\ LeaveUnsupported

-----------------------------------------------------------------------------
(* A body.                                                                 *)

\* What is bound anywhere in the body is a name everywhere in it.
Bound(list) ==
  { list[i].text : i \in { j \in DOMAIN list : list[j].kind \in {"let", "for"} } }
    \cup UNION { { list[i].labels[j].capture : j \in DOMAIN list[i].labels } \ {""} :
                   i \in { k \in DOMAIN list : list[k].kind = "switch" } }

SeededLocals(f, list) ==
  LET given(name) ==
        { i \in DOMAIN f.parameters : f.parameters[i].name = name }
  IN  [ name \in { f.parameters[i].name : i \in DOMAIN f.parameters } \cup Bound(list) |->
          IF given(name) = {} THEN "" ELSE f.parameters[CHOOSE i \in given(name) : TRUE].type ]

InitBody ==
  /\ function \in Bodies
  /\ nodes = EmitBody(function.statements).nodes
  /\ expressions = << >> /\ built = << >> /\ body = 0
  /\ locals = SeededLocals(function, nodes)

\* The statements are put together once every node is built.
DeclareBody ==
  /\ body = 0 /\ At > Len(nodes)
  /\ LET statements == EmitBody(function.statements).body
     IN  expressions' = Append(expressions,
           New("Block", "", [i \in DOMAIN statements |-> built[statements[i]]]))
  /\ body' = Len(expressions')
  /\ UNCHANGED <<function, nodes, built, locals>>

TranslateNode ==
  \/ Identifier \/ Literal \/ Field \/ Index \/ StructLiteral
  \/ Binary \/ Unary \/ Group \/ Try \/ Method \/ Builtin \/ Call
  \/ Switch \/ While \/ For \/ If \/ Block
  \/ Return \/ Let \/ Assign \/ Unsupported

Done == body # 0 /\ UNCHANGED writing

NextBody == TranslateNode \/ DeclareBody \/ Done

SpecBody == InitBody /\ [][NextBody]_writing
=============================================================================

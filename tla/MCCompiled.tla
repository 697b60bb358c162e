------------------------------ MODULE MCCompiled ------------------------------
(***************************************************************************)
(* Functions to port.  Every expression of up to three operators over a    *)
(* wide and a narrow integer, a field, an element and a literal, bracketed *)
(* as Zig needs it; every builtin over such an expression; and bodies of   *)
(* branches, loops, switches, failures and options, each in a function of  *)
(* every kind of return it may be written in.                              *)
(*                                                                         *)
(* Repairs of the port of one of them: one report of two integer types of  *)
(* every kind, or of what is none; and up to three repairs of every span   *)
(* there is, spans that are inverted and that end past the source among    *)
(* them.                                                                   *)
(***************************************************************************)
EXTENDS Compiled


Numeric(width, signed) == [kind |-> "Integer", element |-> "", width |-> width, signed |-> signed]
Other(kind, element) == [kind |-> kind, element |-> element, width |-> 0, signed |-> FALSE]

MCTypes ==
  [ u5 |-> Numeric(5, FALSE), u8 |-> Numeric(8, FALSE), u32 |-> Numeric(32, FALSE),
    u64 |-> Numeric(64, FALSE), usize |-> Numeric(64, FALSE), i32 |-> Numeric(32, TRUE),
    f32 |-> Other("Float", ""), bool |-> Other("Bool", ""), void |-> Other("Void", ""),
    slice |-> Other("Slice", "u8"), maybe |-> Other("Optional", "u32"),
    pointer |-> Other("Pointer", "Shape"), shapes |-> Other("Slice", "Shape"),
    perhaps |-> Other("Optional", "Shape"),
    Shape |-> Other("Struct", ""), Point |-> Other("Struct", ""), Size |-> Other("Struct", ""),
    Value |-> Other("Struct", ""), Failure |-> Other("Struct", ""),
    Allocator |-> Other("Opaque", "") ]

Member(name, type) == [name |-> name, type |-> type]

MCContainers ==
  [ Shape |-> [kind |-> "Struct",
               fields |-> <<Member("width", "u32"), Member("depth", "u8"), Member("scale", "f32")>>],
    Point |-> [kind |-> "Struct", fields |-> <<Member("width", "u32")>>],
    Size  |-> [kind |-> "Enum", fields |-> <<Member("small", "void"), Member("large", "void")>>],
    Value |-> [kind |-> "Union", fields |-> <<Member("number", "u32"), Member("nothing", "void")>>],
    Failure |-> [kind |-> "ErrorSet", fields |-> <<Member("too_big", "void")>>] ]

Parameter(name, type) == [name |-> name, type |-> type, allocator |-> type = "Allocator"]

Declared(name, owner, returns, fallible, parameters) ==
  [name |-> name, owner |-> owner, returns |-> returns, fallible |-> fallible,
   parameters |-> parameters]

Self == Parameter("self", "pointer")

MCFunctions ==
  << Declared("grow", "", "u32", FALSE, <<Parameter("by", "u32"), Parameter("factor", "f32")>>),
     Declared("measure", "", "u32", TRUE, <<Parameter("gpa", "Allocator"), Parameter("n", "u32")>>),
     Declared("areaOf", "Shape", "u32", FALSE, <<Self>>),
     Declared("poke", "Shape", "void", FALSE, <<Self>>),
     Declared("load", "Shape", "u32", TRUE, <<Self>>),
     Declared("check", "", "void", TRUE, <<Parameter("n", "u32")>>),
     Declared("find", "", "maybe", FALSE, <<Parameter("n", "u32")>>) >>

MCCapitalised ==
  [small |-> "Small", large |-> "Large", number |-> "Number", nothing |-> "Nothing",
   too_big |-> "TooBig"]

MCUnderscored == [areaOf |-> "area_of"]

MCStructNames == {"Shape", "Point"}
MCTypeNames == {"u8", "u32", "u64", "usize", "i32", "f32"}
MCImports == {"Value"}

-----------------------------------------------------------------------------
(* Zig.                                                                    *)

Zig(tag, text, kids) ==
  [tag |-> tag, text |-> text, kids |-> kids, labels |-> << >>, declared |-> "",
   mutable |-> FALSE]

Id(name)  == Zig("identifier", name, << >>)
Num(text) == Zig("literal", text, << >>)
Un(op, a) == Zig("unary", op, <<a>>)
Get(a, name) == Zig("field", name, <<a>>)
At_(a, i) == Zig("index", "", <<a, i>>)
Bracketed(a) == Zig("group", "", <<a>>)
Built_(name, of) == Zig("builtin", name, of)
As_(type, a) == Built_("as", <<Id(type), a>>)
Tried(a) == Zig("try", "", <<a>>)
Calls(name, of) == Zig("call", name, of)
On(a, name, of) == Zig("method", name, Append(of, a))

Var(name, type, a) ==
  [Zig("let", name, <<a>>) EXCEPT !.declared = type, !.mutable = TRUE]
Const(name, a) == Zig("let", name, <<a>>)
Sets(a, op, b) == Zig("assign", op, <<a, b>>)
Returns_(a) == Zig("return", "", <<a>>)
ReturnsNothing == Zig("return", "", << >>)
Block_(of) == Zig("block", "", of)
If_(a, b) == Zig("if", "", <<a, b>>)
Else_(a, b, c) == Zig("if", "", <<a, b, c>>)
While_(a, b) == Zig("while", "", <<a, b>>)
Stepping(a, b, step) == Zig("while", "", <<a, b, step>>)
For_(a, name, b) == Zig("for", name, <<a, b>>)
Literal_(type, names, of) ==
  [Zig("structliteral", "", of) EXCEPT
     !.labels = [i \in DOMAIN names |-> [name |-> names[i], capture |-> ""]], !.declared = type]
Switch_(a, arms) ==
  [Zig("switch", "", Append([i \in DOMAIN arms |-> arms[i].kids[1]], a)) EXCEPT
     !.labels = [i \in DOMAIN arms |-> [name |-> arms[i].text, capture |-> arms[i].declared]]]
Arm_(name, capture, a) == [Zig("arm", name, <<a>>) EXCEPT !.declared = capture]

\* How tightly Zig binds; a comparison takes no comparison.
Binds(t) ==
  IF t.tag = "overflow" THEN 6
  ELSE IF t.tag # "binary" THEN 9
  ELSE CASE t.text = "||" -> 1
         [] t.text = "&&" -> 2
         [] t.text \in Comparisons -> 3
         [] t.text \in {"&", "^", "|"} -> 4
         [] t.text \in {"<<", ">>"} -> 5
         [] t.text \in {"+", "-"} -> 6
         [] t.text \in {"*", "/", "%"} -> 7

Bracket(t, tight) == IF Binds(t) < tight THEN Bracketed(t) ELSE t

Op(op, a, b) ==
  LET tag  == IF op = "wrapping_add" THEN "overflow" ELSE "binary"
      self == Binds(Zig(tag, op, << >>))
  IN  Zig(tag, op, <<Bracket(a, IF op \in Comparisons THEN self + 1 ELSE self),
                     Bracket(b, self + 1)>>)

x == Id("x")
y == Id("y")
Wide == Get(Id("shape"), "width")
Element == At_(Id("bytes"), x)

Leaves == {x, y, Wide, Element, Num("1")}
IntegerOps == {"+", "*", "|", "&", "wrapping_add"}

Sums == { Op(op, a, b) : op \in IntegerOps, a \in {x, y}, b \in {Wide, Element, Num("1")} }
          \cup { Op("<<", x, Num("1")), Op("<<", Op("+", x, y), Num("1")), Op("<<", Op("+", y, x), Num("1")) }
Nested == { Op(op, a, b) : op \in IntegerOps, a \in Sums, b \in {y, Wide} }
            \cup { Op(op, a, b) : op \in IntegerOps, a \in {x, y}, b \in Sums }
Deeper == { Op(op, Op(in, a, x), b) : op, in \in IntegerOps,
              a \in { Op(last, y, Wide) : last \in IntegerOps }, b \in {y} }

Over(a) ==
  { Built_("min", <<a, x>>), Built_("max", <<x, a>>), As_("u64", a), As_("u64", Built_("intCast", <<a>>)),
    As_("u8", Built_("truncate", <<a>>)), At_(Id("bytes"), a), Calls("grow", <<a, Num("2")>>),
    Op("+", As_("u64", a), y), As_("u5", Num("1")), Op("+", As_("usize", a), Id("far")),
    Built_("intCast", <<a>>), Built_("truncate", <<a>>) }

Integers_ == Leaves \cup Sums \cup Nested \cup Deeper
               \cup UNION { Over(a) : a \in Leaves \cup Sums }
               \cup { Un("-", Id("n")), Built_("abs", <<Un("-", Id("n"))>>),
                      Un("-", As_("i32", Id("n"))), Un("-", Bracketed(Op("+", Id("n"), Num("1")))),
                      On(Id("shape"), "areaOf", << >>), Op("+", On(Id("shape"), "areaOf", << >>), y),
                      Built_("sqrt", <<Op("*", Id("z"), Num("2"))>>), Op("*", Num("2"), Get(Id("shape"), "scale")),
                      Else_(Id("t"), x, y), Op("+", Bracketed(Else_(Id("t"), x, y)), y),
                      Get(At_(Id("shapes"), y), "width") }

Compared == { Op(op, a, b) : op \in {"<", "=="}, a \in {x, y, Op("+", x, y), Op("+", y, x)},
                             b \in {Wide, Element, Num("1")} }
Conditions == Compared \cup { Op(op, a, b) : op \in {"&&", "||"}, a \in Compared, b \in {Id("t")} }
                \cup { Op("&&", Id("t"), Op("||", a, Id("t"))) : a \in Compared }
                \cup { Un("!", Bracketed(a)) : a \in Compared }
                \cup { Op("==", Bracketed(a), Id("t")) : a \in Compared }

\* Joining what compares a wide integer with what compares two narrow ones.
Joined_ == { Op(op, a, Op("<", y, Id("y"))) : op \in {"&&", "||"}, a \in {Op("<", x, Wide)} }

-----------------------------------------------------------------------------
(* Bodies.                                                                 *)

Total == Var("total", "u32", Num("0"))
Counting == Var("i", "u32", Num("0"))
Step == Sets(Id("i"), "+=", Num("1"))
Adds(a) == Sets(Id("total"), "+=", a)

Numbers == {
  <<Total, Adds(y), Returns_(Id("total"))>>,
  <<Var("sum", "", Op("+", x, y)), Sets(Id("sum"), "=", y), Returns_(Op("+", Id("sum"), y))>>,
  <<Total, Counting, Stepping(Op("<", Id("i"), x), Block_(<<Adds(At_(Id("bytes"), Id("i")))>>), Step),
    Returns_(Id("total"))>>,
  <<Counting, Stepping(Op("<", Id("i"), x), If_(Id("t"), Block_(<<Returns_(Id("i"))>>)), Step), Returns_(x)>>,
  <<Counting, While_(Op("<", Id("i"), x), Block_(<<Step, If_(Op("==", Id("i"), Wide), Returns_(y))>>)), Returns_(x)>>,
  <<Total, For_(Id("bytes"), "byte", Block_(<<Adds(Id("byte"))>>)), Returns_(Id("total"))>>,
  <<Total, For_(Id("shapes"), "each", Block_(<<Adds(Get(Id("each"), "width"))>>)), Returns_(Id("total"))>>,
  <<For_(Id("bytes"), "byte", If_(Op("==", Id("byte"), Num("0")), Returns_(x))), Returns_(y)>>,
  <<If_(Id("t"), Returns_(x)), Returns_(y)>>,
  <<If_(Id("t"), Block_(<<Const("q", x), Returns_(Id("q"))>>)), Returns_(y)>>,
  <<Else_(Id("t"), Block_(<<Returns_(x)>>), Block_(<<Returns_(y)>>))>>,
  <<Const("r", Else_(Op("<", x, Wide), x, y)), Returns_(Op("+", Id("r"), y))>>,
  <<Returns_(Switch_(Id("size"), <<Arm_("small", "", x), Arm_("large", "", Op("+", x, y))>>))>>,
  <<Returns_(Switch_(Id("value"), <<Arm_("number", "held", Op("+", Id("held"), x)), Arm_("else", "", y)>>))>>,
  <<Returns_(Switch_(Id("value"), <<Arm_("nothing", "held", x), Arm_("else", "", y)>>))>>,
  <<Returns_(Switch_(Id("value"), <<Arm_("number", "", x), Arm_("nothing", "", y)>>))>>,
  <<Returns_(Switch_(x, <<Arm_("else", "", y)>>))>>,
  <<On(Id("shape"), "poke", << >>), Returns_(x)>>,
  <<Sets(Wide, "=", y), Returns_(Wide)>>,
  <<Sets(Wide, "=", Get(Id("point"), "width")), Block_(<<Sets(x, "+=", Wide)>>), Returns_(Calls("grow", <<x, Num("2")>>))>>,
  <<Returns_(Zig("other", "x orelse y", << >>))>>,
  <<Returns_(Get(Id("bytes"), "len"))>>, <<Returns_(Calls("unknown", << >>))>>,
  <<Returns_(Get(Get(Id("std"), "mem"), "max"))>>, <<Const("a", Id("gpa")), Returns_(x)>>,
  <<Const("p", Literal_("Point", <<"width">>, <<x>>)), Returns_(Get(Id("p"), "width"))>>,
  <<Const("p", Literal_("", << >>, << >>)), Returns_(x)>>,
  <<Returns_(On(Id("shape"), "min", <<Num("1")>>))>> }

Failing == {
  <<Returns_(Calls("measure", <<Id("gpa"), x>>))>>,
  <<Returns_(On(Id("shape"), "load", << >>))>>,
  <<Tried(Calls("check", <<x>>)), Returns_(Tried(On(Id("shape"), "load", << >>)))>>,
  <<Returns_(Op("+", Tried(Calls("measure", <<Id("gpa"), x>>)), y))>>,
  <<If_(Op("<", x, Wide), Returns_(Get(Id("Failure"), "too_big"))), Returns_(y)>>,
  <<Const("m", Tried(Calls("measure", <<Id("gpa"), x>>))), Returns_(Id("m"))>>,
  <<Else_(Id("t"), Returns_(x), Returns_(Get(Id("Failure"), "too_big")))>> }

Checking == {
  <<Tried(Calls("check", <<x>>))>>, <<Returns_(Calls("check", <<x>>))>>,
  <<If_(Id("t"), ReturnsNothing), Tried(Calls("check", <<x>>))>>,
  <<If_(Id("t"), Returns_(Get(Id("Failure"), "too_big")))>>,
  <<For_(Id("bytes"), "byte", Block_(<<Tried(Calls("check", <<Id("byte")>>))>>))>>,
  <<Sets(Wide, "=", x)>>, <<Tried(Calls("check", <<x>>)), ReturnsNothing>>,
  <<Switch_(Id("size"), <<Arm_("small", "", Tried(Calls("check", <<x>>))), Arm_("else", "", Block_(<< >>))>>)>> }

Doing == {
  <<On(Id("shape"), "poke", << >>)>>, <<If_(Id("t"), On(Id("shape"), "poke", << >>))>>,
  <<ReturnsNothing>>, <<If_(Id("t"), ReturnsNothing), Sets(Wide, "=", x)>>,
  <<If_(Id("t"), Sets(Wide, "+=", y))>>,
  <<For_(Id("shapes"), "each", On(Id("each"), "poke", << >>))>> }

Optionally == {
  <<Returns_(x)>>, <<Returns_(Id("null"))>>, <<Returns_(Id("maybe"))>>,
  <<Returns_(Calls("find", <<x>>))>>, <<If_(Id("t"), Returns_(Id("null"))), Returns_(Op("+", x, y))>> }

Shapes == {
  <<Returns_(Literal_("", <<"width", "depth">>, <<x, y>>))>>,
  <<Returns_(Literal_("Shape", <<"width", "scale">>, <<Id("width"), Id("z")>>))>>,
  <<Const("made", Literal_("Shape", <<"width">>, <<Wide>>)), Returns_(Id("made"))>>,
  <<Returns_(Literal_("", <<"lost">>, <<x>>))>> }

Parameters_ ==
  << Parameter("x", "u32"), Parameter("y", "u8"), Parameter("t", "bool"), Parameter("z", "f32"),
     Parameter("n", "i32"), Parameter("far", "usize"), Parameter("width", "u32"),
     Parameter("shape", "pointer"), Parameter("point", "Point"), Parameter("bytes", "slice"),
     Parameter("shapes", "shapes"), Parameter("size", "Size"), Parameter("value", "Value"),
     Parameter("maybe", "maybe"), Parameter("gpa", "Allocator") >>

Ported(returns, fallible, statements) ==
  [parameters |-> Parameters_, returns |-> returns, fallible |-> fallible, statements |-> statements]

Ordinary ==
  { Ported("u32", FALSE, <<Returns_(a)>>) : a \in Integers_ }
    \cup { Ported("bool", FALSE, <<Returns_(a)>>) : a \in Conditions \cup Joined_ }
    \cup { Ported("u32", FALSE, of) : of \in Numbers }
    \cup { Ported("u32", TRUE, of)  : of \in Numbers \cup Failing }
    \cup { Ported("void", TRUE, of) : of \in Checking \cup Doing }
    \cup { Ported("void", FALSE, of) : of \in Doing }
    \cup { Ported("maybe", fails, of) : of \in Optionally, fails \in BOOLEAN }
    \cup { Ported(returns, fails, of) :
             returns \in {"Shape", "perhaps"}, of \in Shapes, fails \in BOOLEAN }

MCBodies == Ordinary

MCSpelling ==
  [ u8 |-> <<"u", "8">>, u32 |-> <<"u", "32">>, u64 |-> <<"u", "64">>, i32 |-> <<"i", "32">>,
    f32 |-> <<"f32">> ]

MCReportedOn == Ported("void", FALSE, <<ReturnsNothing>>)

-----------------------------------------------------------------------------
(* What is repaired.                                                       *)

Ends == 0 .. Length + 1

Names ==
  {<<"u", "8">>, <<"u", "32">>, <<"u", "64">>, <<"u", "size">>, <<"u", "7">>,
   <<"i", "8">>, <<"i", "64">>, <<"i", "size">>, <<"String">>, <<"u", "phill">>}

Report(code, span_start, span_end, expected, found) ==
  [ code |-> code, span_start |-> span_start, span_end |-> span_end,
    expected |-> expected, found |-> found ]

MCReports ==
  {<< >>}
  \cup { <<Report(code, 0, 1, expected, found)>> :
           code \in {"MismatchedTypes", "Unhandled"}, expected \in Names, found \in Names }
  \cup { <<Report("MismatchedTypes", s, e, <<"u", "32">>, <<"u", "8">>),
           Report("MismatchedTypes", 1, 2, expected, <<"u", "8">>)>> :
           s \in Ends, e \in Ends, expected \in Names }

Mark(k, s, e) == [span_start |-> s, span_end |-> e, wrap |-> <<"mark", <<k>>>>]

MCGiven ==
  {<< >>}
  \cup { <<Mark("a", s, e)>> : s \in Ends, e \in Ends }
  \cup { <<Mark("a", s, e), Mark("b", t, f)>> :
           s \in Ends, e \in Ends, t \in Ends, f \in Ends }
  \cup { <<Mark("a", s, e), Mark("b", t, f), Mark("c", u, g)>> :
           s \in 0 .. Length, e \in 0 .. Length, t \in 0 .. Length, f \in 0 .. Length,
           u \in 0 .. Length, g \in 0 .. Length }
=============================================================================

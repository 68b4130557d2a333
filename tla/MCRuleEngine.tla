---------------------------- MODULE MCRuleEngine ----------------------------
(***************************************************************************)
(* Texts for RuleEngine: all sequences of up to five brackets and nil, and *)
(* programs with the results tests/ParserTests.py expects, all but those   *)
(* that need an entity class of their own (test_entities and the tests of  *)
(* attributes that are None) and those about white space and comments; the *)
(* text of test_syntax_error is one of the sequences.                      *)
(***************************************************************************)
EXTENDS RuleEngine

CONSTANTS g1, g2

Order == <<g1, g2>>
Sizes == g1 :> 3 @@ g2 :> 4

Alphabet == {<<"(">>, <<")">>, <<"[">>, <<"]">>, <<"{">>, <<"}">>, Sym("nil")}
Short == UNION {[1 .. n -> Alphabet] : n \in 0 .. 5}

a == Sym("a")
b == Sym("b")
q == Sym("q")
N(n) == Int_(n)
Apply(op, x, y) == List(<<Op(op), x, y>>)
Pair(name, value) == List(<<name, value>>)
Program(rules, expect) == [rules |-> rules, expect |-> expect]

TestScope ==
  Program(
    << Let2("a", N(10)),
       Do("def", <<Sym("foo"), List(<<b>>), Do("set", <<a, b>>)>>),
       Do("foo", <<N(2)>>), a,
       Do("def", <<Sym("foo"), List(<<b>>), Let2("a", b)>>),
       Do("foo", <<N(4)>>), a,
       Do("set", <<a, N(5)>>),
       Do("let", <<List(<<Pair(a, N(4))>>), a>>), a,
       Do("if", <<Apply("eq", a, N(5)), Let2("a", N(4)), N(0)>>), a >>,
    << N(10), Text("foo"), N(2), N(2), Text("foo"), N(4), N(2), N(5), N(4), N(5),
       N(5), N(5) >>)

TestLet ==
  Program(
    << Do("def", <<Sym("foo"), List(<<a>>), Apply("add", N(2), a)>>),
       Let2("a", N(2)),
       Do("let", <<List(<<Pair(a, N(1)), Pair(b, N(2))>>), Do("foo", <<a>>)>>), a,
       Do("let", <<List(<<Pair(a, N(1)), Pair(b, N(2))>>), a, b>>) >>,
    << Text("foo"), N(2), N(3), N(2), N(2) >>)

TestFuncs ==
  Program(
    << Do("def", <<Sym("foo"), List(<< >>), N(10)>>),
       Do("def", <<Sym("bar"), List(<<a>>), Apply("mul", N(2), a)>>),
       Apply("div", Do("foo", << >>), Do("bar", <<N(5)>>)),
       Do("def", <<Sym("baz"), List(<<b>>), Apply("sub", N(2), Do("bar", <<b>>))>>),
       Do("baz", <<N(12)>>),
       Define("foo", <<"a">>,
         << Do("def", <<Sym("bar"), List(<<b>>), Apply("add", b, N(1))>>),
            Do("bar", <<a>>) >>),
       Do("foo", <<N(9)>>) >>,
    << Text("foo"), Text("bar"), N(1), Text("baz"), N(-22), Text("foo"), N(10) >>)

TestMultiStatements ==
  Program(
    << Block(<<N(10), N(4)>>),
       Define("f", <<"a", "b">>,
         << Let2("c", Apply("add", a, b)),
            Do("set", <<Sym("c"), Apply("add", N(1), Sym("c"))>>), Sym("c") >>),
       Do("f", <<N(4), N(5)>>),
       Let2("q", N(11)),
       Do("let", <<List(<<Pair(q, N(2)), Pair(Sym("r"), N(3))>>),
                   Block(<<q, Sym("r"), Apply("sub", Sym("r"), q)>>)>>),
       Do("if", <<Apply("eq", q, N(11)),
                  Block(<<Text("q maintains proper scope"), Do("set", <<q, N(12)>>)>>),
                  Block(<<Text("oops, q has the wrong value")>>)>>),
       Apply("sub", q, N(10)) >>,
    << N(4), Text("f"), N(10), N(11), N(1), N(12), N(2) >>)

TestMultiStatementsLisp ==
  Program(
    << Do("def", <<Sym("f"), List(<<a, b>>),
         Do("let", <<List(<< >>), Let2("c", Apply("add", a, b)),
                     Do("set", <<Sym("c"), Apply("add", N(1), Sym("c"))>>), Sym("c")>>)>>),
       Do("f", <<N(4), N(5)>>),
       Let2("q", N(11)),
       Do("let", <<List(<<Pair(q, N(2)), Pair(Sym("r"), N(3))>>),
                   Apply("add", q, Sym("r")), Apply("sub", Sym("r"), q)>>), q,
       Do("if", <<Apply("eq", q, N(11)),
                  Do("let", <<List(<< >>), Text("q maintains proper scope"),
                              Do("set", <<q, N(12)>>)>>),
                  List(<<Text("oops, q has the wrong value")>>)>>),
       Apply("sub", q, N(10)) >>,
    << Text("f"), N(10), N(11), N(1), N(11), N(12), N(2) >>)

TestString ==
  Program(
    << Text("foo"), Text("bar"), Apply("add", Text("Hello "), Text("World!")),
       Apply("add", Apply("mul", N(3), Text("Hey ")), Text("!")) >>,
    << Text("foo"), Text("bar"), Text("Hello World!"), Text("Hey Hey Hey !") >>)

TestBasicMath ==
  Program(
    << N(10), N(0), Float(3, 10), Apply("mul", N(0), N(1)), Apply("add", N(1), N(2)),
       Apply("div", N(11), N(2)), Apply("div", N(11), Float(2, 1)),
       Apply("mul", N(3), N(6)), Apply("sub", N(1), N(9)),
       Apply("mul", Apply("sub", N(8), N(6)), N(9)),
       Apply("shr", Apply("shl", N(1), N(4)), N(2)), Apply("add", N(255), N(1)),
       Apply("mul", N(9), N(2)), Apply("add", Float(10000, 1), Float(1, 1)) >>,
    << N(10), N(0), Float(3, 10), N(0), N(3), N(5), Float(11, 2), N(18), N(-8), N(18),
       N(4), N(256), N(18), Float(10001, 1) >>)

TestCompare ==
  Program(
    << Apply("lt", N(5), N(4)), Apply("gt", N(1), N(0)), Apply("lte", N(10), N(10)),
       Apply("gte", N(2), Apply("div", N(10), N(2))),
       Apply("eq", Apply("add", N(1), N(2)), Apply("div", N(9), N(3))),
       Apply("neq", Text("foo"), Text("foo")), Apply("eq", N(0), N(0)) >>,
    << Bool(FALSE), Bool(TRUE), Bool(TRUE), Bool(FALSE), Bool(TRUE), Bool(FALSE),
       Bool(TRUE) >>)

(* test_logic and test_extended_logic                                      *)
TestLogic ==
  Program(
    << Apply("and", N(1), Text("")), Apply("and", N(0), N(1)), Apply("and", N(1), N(2)),
       Apply("or", Text(""), N(17)), Apply("or", Text(""), Text("")),
       Do("not", <<Text("")>>), Do("not", <<N(0)>>),
       Do("and", <<N(1), N(1), Text("")>>), Do("and", <<N(0), N(0), N(1)>>),
       Do("or", <<Text(""), Text(""), N(17)>>), Do("or", <<N(0)>>) >>,
    << Text(""), N(0), N(2), N(17), Text(""), Bool(TRUE), Bool(TRUE),
       Text(""), N(0), N(17), N(0) >>)

TestMinMax ==
  Program(
    << Do("min", <<N(1), N(2), N(3), N(0)>>), Let2("a", N(8)),
       Let2("c", Do("min", <<N(8), N(7), N(6), N(5)>>)),
       Do("max", <<N(0), Sym("c"), a, N(3)>>) >>,
    << N(0), N(8), N(5), N(8) >>)

TestIf ==
  Program(
    << Let2("a", N(1)), Let2("b", N(0)),
       Do("def", <<Sym("f"), List(<<Sym("cond")>>),
                   Do("if", <<Sym("cond"), Text("yes"), Text("no")>>)>>),
       Do("if", <<a, N(4), N(3)>>), Do("if", <<b, N(1), N(0)>>),
       Do("f", <<Apply("gt", N(2), N(1))>>) >>,
    << N(1), N(0), Text("f"), N(4), N(0), Text("yes") >>)

(* test_externals, test_null, test_not_null, test_valid and test_debug     *)
TestNil ==
  Program(
    << Apply("add", Do("abs", <<N(-21)>>), Do("abs", <<N(21)>>)),
       Do("null", <<N(0), N(1), N(2), Text("")>>), Do("null", <<Sym("nil")>>),
       Do("valid", <<Text("test"), N(1), Sym("nil"), Text("lala")>>),
       Do("valid", <<Text("test"), N(1), Text("lala")>>), Do("valid", << >>),
       Do("valid", <<Sym("nil")>>), Do("valid", <<N(0), Text(""), Sym("Guests")>>),
       Do("debug", <<Text("test"), N(1), Sym("nil"), Text("lala")>>) >>,
    << N(42), Bool(FALSE), Bool(TRUE), Bool(FALSE), Bool(TRUE), Bool(TRUE), Bool(FALSE),
       Bool(TRUE), Text("lala") >>)

(* test_multiple_defvar, test_setq and test_vars                           *)
TestVariables ==
  Program(
    << Let2("e", N(1)), Let2("e", N(0)), Sym("e"), Do("setq", <<Sym("e"), N(2)>>), Sym("e"),
       Do("set", <<Sym("e"), N(3)>>), Sym("e"), Let2("foo", Text("bar")), Let2("a", N(5)),
       Let2("b", N(6)), Apply("add", a, b), Do("set", <<a, N(8)>>), Apply("add", a, b),
       Apply("mul", Sym("foo"), N(2)), Let2("e3", N(7)), Apply("add", N(1), Sym("e3")) >>,
    << N(1), N(1), N(1), N(2), N(2), N(3), N(3), Text("bar"), N(5), N(6), N(11), N(8),
       N(14), Text("barbar"), N(7), N(8) >>)

(* test_with, with a method of Entity for that of the test's class         *)
TestWith ==
  Program(
    << Do("def", <<Sym("guestName"), List(<<Sym("guest")>>),
         Apply("add", Text("This guest's name is "),
               On("guest", "Opt_policy_prop", <<Sym("guest"), Text("name")>>))>>),
       Do("with", <<Sym("Guests"), Sym("guest"), Do("guestName", <<Sym("guest")>>)>>) >>,
    << Text("guestName"),
       Values([i \in DOMAIN Order |-> Text("This guest's name is name")]) >>)

(* test_not_enough_arguments, test_bad_arity, test_bad_arity_def,          *)
(* test_parse_error, test_bad_syntax_number (the number 125 and the symbol *)
(* f56) and test_entity_write; what Python does not add or multiply        *)
TestErrors ==
  {Program(rules, Raised) :
     rules \in
       {<<Do("and", << >>)>>, <<Do("not", << >>)>>,
        <<Define("test", <<"x", "y">>, << >>), Do("test", <<N(1)>>)>>,
        <<List(<<N(2), Op("add"), N(2)>>)>>, <<N(156), N(125), Sym("f56")>>,
        <<Do("set", <<Dot("Host", "mem_free"), N(1)>>)>>,
        <<Apply("add", Text("a"), N(1))>>, <<Apply("mul", Text("a"), Float(2, 1))>>,
        <<Apply("sub", Text("a"), Text("a"))>>}}

(* f(first, second) with the parameters named a and b, from a place where  *)
(* a is 5 and b is 3.  The parameters are bound one after the other in the *)
(* scope in which the next argument is evaluated: the second argument sees *)
(* the a of the call.  value[v] is the argument's where a is v.            *)
Argument(rule, value) == [rule |-> rule, value |-> value]
Small == 0 .. 8
Arguments ==
  {Argument(a, [v \in Small |-> v]), Argument(b, [v \in Small |-> 3]),
   Argument(Apply("add", a, b), [v \in Small |-> v + 3]),
   Argument(N(1), [v \in Small |-> 1]),
   Argument(Do("id", <<a>>), [v \in Small |-> v]),
   Argument(Do("id", <<b>>), [v \in Small |-> 3]),
   Argument(Do("let", <<List(<<Pair(a, b)>>), a>>), [v \in Small |-> 3])}

CallTests ==
  {LET x == first.value[5]
   IN  Program(<< Do("def", <<Sym("id"), List(<<Sym("x")>>), Sym("x")>>),
                  Do("def", <<Sym("f"), List(<<a, b>>), Apply("sub", a, b)>>),
                  Do("let", <<List(<<Pair(a, N(5)), Pair(b, N(3))>>),
                              Do("f", <<first.rule, second.rule>>)>>) >>,
               << Text("id"), Text("f"), N(x - second.value[x]) >>) :
     <<first, second>> \in Arguments \X Arguments}

ParserTests ==
  {TestScope, TestLet, TestFuncs, TestMultiStatements, TestMultiStatementsLisp,
   TestString, TestBasicMath, TestCompare, TestLogic, TestMinMax, TestIf, TestNil,
   TestVariables, TestWith} \cup TestErrors \cup CallTests

(* Bound: a raising evaluation may credit host_free.txt again and again.   *)
UntilFirstFailure == ~failed
=============================================================================

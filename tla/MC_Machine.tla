----------------------------- MODULE MC_Machine ------------------------------
(***************************************************************************)
(* Scripts for Machine: procedures and macros of gel/_kernel.cl, scripts   *)
(* of scripts/, short scripts around one variable, and scripts of the      *)
(* repository that fail.                                                   *)
(***************************************************************************)
EXTENDS Machine, Compiler, Disassembler, Equality

Num(n)          == LiteralExpr(Long(n))
Flag(b)         == LiteralExpr(Bool(b))
Sym(x)          == LiteralExpr(Symbol(x))
Call(f, args)   == CallProcExpr(Sym(f), args)
Show(e)         == Call("print", <<e>>)
Items(list)     == ListExpr(list)
Params(names)   == [i \in DOMAIN names |-> Argument(names[i])]
Bin(op, x, y)   == BinaryOpExpr(op, x, y)
Add3(x, y, z)   == Node("binary", <<"op", "Add">>, <<x, y, z>>)

(* gel/_kernel.cl                                                          *)
factorial == Defn("factorial", Params(<<"x">>),
  <<CondExpr(<<Bin("Equals", Sym("x"), Num(1)), Num(1),
               Bin("Multiply", Sym("x"), Call("factorial", <<Bin("Subtract", Sym("x"), Num(1))>>))>>)>>)
length == Defn("length", Params(<<"seq">>),
  <<CondExpr(<<UnaryExpr("Null", Sym("seq")), Num(0),
               Bin("Add", Num(1), Call("length", <<UnaryExpr("Cdr", Sym("seq"))>>))>>)>>)
append == Defn("append", Params(<<"seq", "x">>),
  <<CondExpr(<<UnaryExpr("Null", Sym("seq")), Sym("x"),
               Bin("Cons", UnaryExpr("Car", Sym("seq")),
                   Call("append", <<UnaryExpr("Cdr", Sym("seq")), Sym("x")>>))>>)>>)
(* A number stands for the String it throws: no Error either.              *)
nth == Defn("nth", Params(<<"seq", "n">>),
  <<WhenExpr(Bin("BinaryOr", Bin("GreaterThan", Sym("n"), Call("length", <<Sym("seq")>>)),
                 Bin("LessThan", Sym("n"), Num(0))),
             <<ThrowExpr(Num(0))>>),
    CondExpr(<<Bin("Equals", Sym("n"), Num(0)), UnaryExpr("Car", Sym("seq")),
               Call("nth", <<UnaryExpr("Cdr", Sym("seq")), Bin("Subtract", Sym("n"), Num(1))>>)>>)>>)
min == Defn("min", Params(<<"seq">>),
  <<CallProcExpr(Fn(Params(<<"candidate", "tail">>),
      <<CondExpr(<<UnaryExpr("Null", Sym("tail")), Sym("candidate"),
          Call("$", <<CallProcExpr(Fn(Params(<<"a", "b">>),
                                      <<CondExpr(<<Bin("LessThan", Sym("a"), Sym("b")), Sym("a"), Sym("b")>>)>>),
                                   <<Sym("candidate"), UnaryExpr("Car", Sym("tail"))>>),
                      UnaryExpr("Cdr", Sym("tail"))>>)>>)>>),
      <<UnaryExpr("Car", Sym("seq")), UnaryExpr("Cdr", Sym("seq"))>>)>>)
filter == Defn("filter", Params(<<"p", "seq">>),
  <<CondExpr(<<UnaryExpr("Null", Sym("seq")), Sym("seq"),
               Call("p", <<UnaryExpr("Car", Sym("seq"))>>),
                 Bin("Cons", UnaryExpr("Car", Sym("seq")),
                     Call("filter", <<Sym("p"), UnaryExpr("Cdr", Sym("seq"))>>)),
               Call("filter", <<Sym("p"), UnaryExpr("Cdr", Sym("seq"))>>)>>)>>)
apply == Defn("apply", Params(<<"f", "seq">>),
  <<CondExpr(<<UnaryExpr("Null", Sym("seq")), Sym("seq"),
               BeginExpr(<<Call("f", <<UnaryExpr("Car", Sym("seq"))>>),
                           Call("apply", <<Sym("f"), UnaryExpr("Cdr", Sym("seq"))>>)>>)>>)>>)

(* Calls of these, with the operands in turn and nested.                   *)
KernelPrograms ==
  {<<factorial, Show(Call("factorial", <<Num(4)>>))>>,
   <<length, Show(Call("length", <<Items(<<Num(1), Num(2), Num(3)>>)>>))>>,
   <<length, append, Show(Call("append", <<Items(<<Num(1)>>), Items(<<Num(2), Num(3)>>)>>)),
     Show(Call("length", <<Call("append", <<Items(<<Num(1)>>), Items(<<Num(2)>>)>>)>>))>>,
   <<length, nth, Show(Call("nth", <<RangeOf(Num(7), Num(9)), Num(1)>>))>>,
   <<length, nth, Show(Num(1)), Show(Call("nth", <<RangeOf(Num(9), Num(7)), Num(4)>>))>>,
   <<min, Show(Call("min", <<Items(<<Num(3), Num(1), Num(2)>>)>>))>>,
   <<factorial, Def("y", Call("factorial", <<Num(3)>>)),
     SetVar("y", Bin("Subtract", Sym("y"), Call("factorial", <<Num(2)>>))), Show(Sym("y")),
     Show(Items(<<Num(0), Call("factorial", <<Sym("y")>>)>>))>>,
   <<Def("f", Fn(Params(<<"a", "b">>), <<Show(Sym("a")), Bin("Subtract", Sym("a"), Sym("b"))>>)),
     Show(Call("f", <<Num(5), Num(3)>>))>>,
   <<Defn("even", Params(<<"n">>),
       <<CondExpr(<<Bin("Equals", Sym("n"), Num(0)), Num(1), Call("odd", <<Bin("Subtract", Sym("n"), Num(1))>>)>>)>>),
     Defn("odd", Params(<<"n">>),
       <<CondExpr(<<Bin("Equals", Sym("n"), Num(0)), Num(0), Call("even", <<Bin("Subtract", Sym("n"), Num(1))>>)>>)>>),
     Show(Call("even", <<Num(3)>>)), Show(UnaryExpr("Not", Call("list", <<>>)))>>,
   <<Show(Num(1)), Call("nowhere", <<Num(2)>>), Show(Num(3))>>,
   <<Defn("call", Params(<<"f", "n">>), <<Call("f", <<Sym("n")>>)>>), Def("which", QuotedExpr(Symbol("factorial"))),
     factorial, Call("call", <<QuotedExpr(Symbol("print")), Num(1)>>), Show(Call("which", <<Num(3)>>)),
     Show(Call("call", <<Sym("which"), Num(2)>>)), Call("call", <<QuotedExpr(Symbol("which")), Num(1)>>)>>,
   <<Def("late", Call("list", <<Num(1), Num(2)>>)),
     WhenExpr(UnaryExpr("Nonnull", Sym("late")), <<Show(UnaryExpr("Car", Sym("late")))>>),
     Show(UnaryExpr("Cdr", Sym("late")))>>}

(* scripts/test-optional.cl, its second procedure with more parameters     *)
Optional ==
  {<<Defn("test", Params(<<"a", "b">>) \o <<OptionalArg("c")>>,
       <<CondExpr(<<UnaryExpr("Null", Sym("c")), Bin("Add", Sym("a"), Sym("b")), Add3(Sym("a"), Sym("b"), Sym("c"))>>)>>),
     Show(Call("test", <<Num(1), Num(2)>>)), Show(Call("test", <<Num(1), Num(2), Num(5)>>)),
     Call("test", <<Num(1)>>)>>,
   <<Defn("test2", Params(<<"a", "b", "c">>) \o <<OptionalArg("d"), OptionalArg("e")>>,
       <<Show(Sym("a")), Show(Sym("b")), Show(Sym("c")), Show(Sym("d")), Show(Sym("e"))>>),
     Call("test2", <<Num(1), Num(2), Num(3), Num(4), Num(5)>>), Call("test2", <<Num(1), Num(2), Num(3)>>)>>,
   <<Def("a", Call("list", <<>>)), Def("b", Call("list", <<Num(1)>>)), Def("c", Call("list", <<Num(2)>>)),
     Def("d", Call("list", <<Num(3)>>)), Def("e", Call("list", <<Num(4)>>)),
     SetVar("e", Bin("Cons", Sym("d"), Sym("e"))), Show(Sym("e")), Show(Sym("a"))>>}

(* scripts/test-dispatch.cl, scripts/test-instanceof.cl,                   *)
(* scripts/test-new.cl, and what is thrown, cast or matched                *)
Values ==
  {<<CallProcExpr(Dispatch(Params(<<"$0", "$1">>), <<Show(Sym("$1")), Show(Sym("$0"))>>), <<Num(1), Num(2)>>)>>,
   <<Show(InstanceOfExpr("Long", Num(3))), Show(InstanceOfExpr("Number", Num(3))),
     Show(InstanceOfExpr("Symbol", Num(3))), Def("l", Call("list", <<Num(1)>>)),
     Show(InstanceOfExpr("Seq", Call("list", <<>>))), Show(InstanceOfExpr("Procedure", Fn(<<>>, <<Num(1)>>)))>>,
   <<Def("y", Call("list", <<Num(1)>>)), Show(NewExpr("Error", <<QuotedExpr(Symbol("y"))>>)),
     Show(Call("Error", <<Num(1)>>)), Show(NewExpr("Bool", <<>>)), Show(NewExpr("Pair", <<>>)),
     NewExpr("Bool", <<Call("list", <<>>)>>)>>,
   <<Show(NewExpr("Bool", <<Call("list", <<Num(1)>>)>>)), Show(NewExpr("Long", <<Call("list", <<>>)>>))>>,
   <<Show(Num(1)), Defn("f", <<>>, <<ThrowExpr(NewExpr("Error", <<Num(2)>>)), Num(4)>>), Call("f", <<>>), Show(Num(3))>>,
   <<Show(Num(1)), Show(UnaryExpr("Car", Num(1)))>>,
   <<CastExpr("Number", Num(1)), Show(Num(2))>>,
   <<Show(Bin("Divide", Num(7), Num(2))), Show(Bin("Modulus", Num(7), Num(2))),
     Show(Bin("LessThanEqual", Num(1), Num(1))), Show(Bin("GreaterThanEqual", Num(1), Num(2))),
     Show(Bin("LessThan", Flag(TRUE), Num(1)))>>,
   <<Def("y", Call("list", <<Num(1)>>)),
     CaseExpr(UnaryExpr("Car", Sym("y")), <<ClauseExpr(Num(1), <<Show(Num(5)), Show(Num(6))>>)>>)>>,
   <<Def("y", Call("list", <<Num(2)>>)),
     CaseExpr(UnaryExpr("Car", Sym("y")), <<ClauseExpr(Num(1), <<Show(Num(5)), Show(Num(6))>>)>>), Show(Num(7))>>}

(* gel/_kernel.cl:243-248, scripts/test-macro.cl                           *)
sq         == DefMacro("sq", Params(<<"x">>), <<Bin("Multiply", Sym("x"), Sym("x"))>>)
zero       == DefMacro("zero?", Params(<<"x">>), <<Bin("Equals", Sym("x"), Num(0))>>)
say        == DefMacro("say", Params(<<"msg">>), <<Show(Sym("msg"))>>)
two        == DefMacro("two", <<>>, <<Bin("Add", Num(1), Num(1))>>)
five       == DefMacro("five", <<>>, <<Bin("Add", Call("two", <<>>), Num(3))>>)
debug_only == DefMacro("debug-only", Params(<<"expr">>), <<WhenExpr(Call("debug?", <<>>), <<Sym("expr")>>)>>)
debug      == Defn("debug?", <<>>, <<Flag(TRUE)>>)
MacroPrograms ==
  {<<say, two, five, sq, debug, debug_only, Call("debug-only", <<Show(Num(1))>>),
     Call("say", <<Add3(Num(10), Num(10), Num(10))>>), Call("say", <<Call("sq", <<Call("five", <<>>)>>)>>),
     Call("debug-only", <<Call("say", <<Num(2)>>)>>)>>,
   <<sq, zero, Def("y", Call("list", <<Num(3)>>)), Show(Call("sq", <<UnaryExpr("Car", Sym("y"))>>)),
     Show(Call("zero?", <<Num(0)>>)), Show(Call("zero?", <<UnaryExpr("Car", Sym("y"))>>))>>,
   <<sq, Defn("f", Params(<<"n">>), <<Call("sq", <<Bin("Add", Sym("n"), Num(1))>>)>>),
     Def("y", Call("sq", <<Num(4)>>)), Show(Call("f", <<Num(1)>>)), Show(Sym("y"))>>}

(* All scripts of up to Longest of these, on a variable made by a call.    *)
CONSTANT Longest
Statements ==
  <<Show(Sym("x")),
    SetVar("x", Bin("Add", Sym("x"), Num(1))),
    WhenExpr(Bin("LessThan", Sym("x"), Num(2)), <<Show(Sym("x")), SetVar("x", Bin("Multiply", Sym("x"), Num(3)))>>),
    CondExpr(<<Bin("Equals", Sym("x"), Num(1)), SetVar("x", Num(5)),
               BeginExpr(<<Show(Num(0)), SetVar("x", Num(0))>>)>>),
    CondExpr(<<Bin("BinaryAnd", Bin("GreaterThan", Sym("x"), Num(0)), Bin("LessThan", Sym("x"), Num(3))),
               Show(Num(6))>>)>>
Script(choice) ==
  <<Defn("one", <<>>, <<Num(1)>>), Def("x", Call("one", <<>>))>>
  \o [i \in DOMAIN choice |-> Statements[choice[i]]]
ShortPrograms == {Script(c) : c \in UNION {[1..n -> DOMAIN Statements] : n \in 1..Longest}}

Below(x, n)      == Bin("LessThan", Sym(x), Num(n))
Either(t, yes, no) == CondExpr(<<t, yes, no>>)

(* Conditionals in conditionals, up to three deep, also as the test of     *)
(* another, for every way through them.  The three plain conditionals in   *)
(* front of them leave the vector of labels with room for all of theirs.   *)
Simple ==
  {Show(Sym("x")), SetVar("x", Bin("Add", Sym("x"), Num(1))),
   WhenExpr(Below("x", 2), <<Show(Num(7)), SetVar("x", Num(2))>>),
   Either(Below("x", 2), Show(Num(8)), SetVar("x", Num(0)))}
Around(a, b) ==
  {WhenExpr(Below("x", 3), <<a, b>>),
   Either(Below("x", 2), a, b),
   WhenExpr(Below("x", 2), <<WhenExpr(Below("x", 3), <<a>>), b>>),
   WhenExpr(Either(Below("x", 2), Flag(FALSE), Below("x", 3)), <<a, b>>)}
NestedPrograms ==
  {Script(<<4, 3, 5>>) \o <<SetVar("x", Num(n)), e, Show(Sym("x"))>> :
     n \in 1..3, e \in UNION {Around(a, b) : a, b \in Simple}}

(* Lambdas that end in a conditional: its ways leave a value, print and    *)
(* leave none, or are conditionals again, after statements of the lambda   *)
(* that branch, too, or leave an operand of their own.                     *)
Lambda(body) ==
  <<Defn("one", <<>>, <<Num(1)>>), Defn("f", Params(<<"n">>), body)>>
  \o [n \in 1..3 |-> Show(Call("f", <<Num(n)>>))]
when_n == WhenExpr(Below("n", 2), <<Show(Num(7))>>)
cond_n == Either(Below("n", 2), Show(Num(8)), SetVar("n", Num(0)))
Quiet == {Show(Sym("n")), SetVar("n", Bin("Add", Sym("n"), Num(1))), when_n, cond_n}
UpTo2(S) == UNION {[1..k -> S] : k \in 0..2}
BothWays ==
  {Either(Below("n", 2), Num(4), Bin("Add", Sym("n"), Num(1))), Either(Below("n", 2), Show(Num(4)), Num(6))}
OneWay ==
  {WhenExpr(Below("n", 2), <<Show(Sym("n"))>>), WhenExpr(Below("n", 2), <<Show(Sym("n")), Call("one", <<>>)>>)}
Again ==
  {Either(Below("n", 2), Either(Below("n", 1), Num(4), Num(5)), Num(6)),
   Either(Below("n", 2), Num(4), Either(Below("n", 3), Num(5), Num(6)))}
LambdaPrograms ==
       {Lambda(Append(s, e)) : s \in UpTo2(Quiet \cup {Call("one", <<>>)}), e \in BothWays}
  \cup {Lambda(Append(s, e)) : s \in UpTo2(Quiet), e \in OneWay}
  \cup {Lambda(Append(s, e)) : s \in {<<when_n, when_n>>, <<when_n, cond_n>>, <<cond_n, cond_n>>}, e \in Again}

WorkingPrograms ==
  UNION {KernelPrograms, Optional, Values, MacroPrograms, ShortPrograms, NestedPrograms, LambdaPrograms}

(* scripts/countdown.cl                                                    *)
Countdown ==
  {<<Def("x", Num(2)),
     WhileExpr(Bin("GreaterThan", Sym("x"), Num(0)),
               <<Show(Sym("x")), SetVar("x", Bin("Subtract", Sym("x"), Num(1)))>>)>>}
(* README.md:11-18, as scripts/test-let.cl spells it                       *)
ReadmeLet ==
  {<<Defn("add-one", Params(<<"x">>), <<Bin("Add", Sym("x"), Num(1))>>),
     LetExpr(<<Binding("x", Items(<<Num(1), Num(2), Num(3)>>)),
               Binding("y", Items(<<Num(1), Bin("Add", Num(1), Num(1)), Num(3)>>)),
               Binding("z", Items(<<Num(1), Call("add-one", <<Num(2)>>), Num(3)>>))>>,
             <<Show(Sym("x")), Show(Sym("y")), Show(Sym("z"))>>)>>}
(* gel/_kernel.cl:292-295                                                  *)
FilterTwo == {<<Defn("two", Params(<<"n">>), <<Bin("Equals", Sym("n"), Num(2))>>), filter,
                Show(Call("filter", <<Sym("two"), Items(<<Num(1), Num(2)>>)>>))>>}
(* Each of these needs a label behind the end of the vector.               *)
Unlabelled == Countdown \cup ReadmeLet \cup FilterTwo

(* scripts/apply-print.cl, with gel/_kernel.cl:284-288                     *)
ApplyPrint == {<<apply, Call("apply", <<Sym("print"), Items(<<Num(1), Num(2)>>)>>)>>}

-----------------------------------------------------------------------------
(* The parameters of Machine                                               *)

M == INSTANCE Meaning
ScriptMeaning(source) == M!Meaning(source)

Identifiers == STRING

OperationsOf(code) == Range(Disassemble(code, 1))

RECURSIVE PartsOf(_)
PartsOf(v) == IF v[1] = "pair" THEN {v} \cup PartsOf(v[2]) \cup PartsOf(v[3]) ELSE {v}

=============================================================================

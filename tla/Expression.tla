----------------------------- MODULE Expression ------------------------------
(***************************************************************************)
(* Expressions: expression.{h,cc}.                                         *)
(*                                                                         *)
(* An expression is [kind, data, subs]: its class, what it holds besides   *)
(* other expressions, and its children.  data is a tuple tagged with its   *)
(* type.  The kinds of the first half are made by the parser; those of the *)
(* second half are source only, which the parser turns into locals,        *)
(* lambdas, macros or kinds of the first half.                             *)
(***************************************************************************)
EXTENDS Scopes, Objects

Node(kind, data, subs) == [kind |-> kind, data |-> data, subs |-> subs]

LiteralExpr(v)              == Node("literal", v, <<>>)
QuotedExpr(v)               == Node("quoted", v, <<>>)
UnaryExpr(op, value)        == Node("unary", <<"op", op>>, <<value>>)
BinaryOpExpr(op, x, y)      == Node("binary", <<"op", op>>, <<x, y>>)
ThrowExpr(value)            == Node("throw", None, <<value>>)
BeginExpr(body)             == Node("begin", None, body)
CallProcExpr(target, args)  == Node("call", None, <<target>> \o args)
NewExpr(c, args)            == Node("new", Class(c), args)
ListExpr(values)            == Node("list", None, values)
InstanceOfExpr(c, value)    == Node("instanceof", Class(c), <<value>>)
CastExpr(c, value)          == Node("cast", Class(c), <<value>>)
(* Keys and actions in turn, and maybe an alternate.                       *)
CondExpr(list)              == Node("cond", None, list)
WhenExpr(test, actions)     == Node("when", None, <<test>> \o actions)
ClauseExpr(key, actions)    == Node("clause", None, <<key>> \o actions)
CaseExpr(key, clauses)      == Node("case", None, <<key>> \o clauses)
WhileExpr(test, body)       == Node("while", None, <<test>> \o body)
SetLocalExpr(index, value)  == Node("set", <<"index", index>>, <<value>>)
Binding(name, value)        == Node("binding", Symbol(name), <<value>>)
(* A let has its bindings first, then its body.                            *)
LetExpr(bindings, body)     == Node("let", None, bindings \o body)

(* The source of definitions and procedures, and of a range.               *)
Def(name, value)            == Node("def", Symbol(name), <<value>>)
SetVar(name, value)         == Node("setvar", Symbol(name), <<value>>)
Fn(args, body)              == Node("fn", <<"args", args>>, body)
Dispatch(args, body)        == Node("dispatch", <<"args", args>>, body)
Defn(name, args, body)      == Node("defn", <<"symbol", name, args>>, body)
DefMacro(name, args, body)  == Node("defmacro", <<"symbol", name, args>>, body)
RangeOf(from, to)           == Node("range", None, <<from, to>>)

IsLiteral(e)       == e.kind = "literal"
IsLiteralSymbol(e) == IsLiteral(e) /\ IsSymbol(e.data)
IsLiteralLong(e)   == IsLiteral(e) /\ IsLong(e.data)
IsBinding(e)       == e.kind = "binding"

-----------------------------------------------------------------------------
(* Constants.  runtime is the scope of the runtime, scope that of the      *)
(* parser or builder: both are chains.                                     *)

RECURSIVE IsConstantExpr(_, _)

(* A sequence is constant when some part of it is not.  A while is one.    *)
SequenceIsConstant(e, runtime)   == \E i \in DOMAIN e.subs : ~IsConstantExpr(e.subs[i], runtime)
BinaryOpIsConstant(e, runtime)   == IsConstantExpr(e.subs[1], runtime) /\ IsConstantExpr(e.subs[2], runtime)
ListIsConstant(e, runtime)       == \A i \in DOMAIN e.subs : IsConstantExpr(e.subs[i], runtime)
InstanceOfIsConstant(e, runtime) == IsConstantExpr(e.subs[1], runtime)

(* Every name among the arguments has a value when the question is asked.  *)
NewIsConstant(e, runtime) ==
  \A i \in DOMAIN e.subs :
    /\ IsConstantExpr(e.subs[i], runtime)
    /\ IsLiteralSymbol(e.subs[i]) => HasValueIn(runtime, e.subs[i].data[2])

IsConstantExpr(e, runtime) ==
  \/ e.kind = "literal"
  \/ e.kind \in {"begin", "while"} /\ SequenceIsConstant(e, runtime)
  \/ e.kind = "binary"     /\ BinaryOpIsConstant(e, runtime)
  \/ e.kind = "list"       /\ ListIsConstant(e, runtime)
  \/ e.kind = "instanceof" /\ InstanceOfIsConstant(e, runtime)
  \/ e.kind = "new"        /\ NewIsConstant(e, runtime)

RECURSIVE EvalToConstant(_, _)

BinaryOpEval(e, scope) ==
  Arith(e.data[2], EvalToConstant(e.subs[1], scope), EvalToConstant(e.subs[2], scope))
ListEval(e, scope) == ToList([i \in DOMAIN e.subs |-> EvalToConstant(e.subs[i], scope)])
(* The value of a name is the name: a Symbol.                              *)
InstanceOfEval(e, scope) ==
  Bool(IsInstanceOf(GetType(EvalToConstant(e.subs[1], scope)), e.data[2]))
(* Only new looks names up; it has no constant while one has no value.     *)
NewEval(e, scope) ==
  LET named(i) == IsLiteralSymbol(e.subs[i])
      arg(i)   == IF named(i) THEN Lookup(scope, e.subs[i].data[2]).value
                  ELSE EvalToConstant(e.subs[i], scope)
  IN  IF \E i \in DOMAIN e.subs : named(i) /\ ~HasValueIn(scope, e.subs[i].data[2]) THEN NoValue
      ELSE NewInstance(e.data[2], [i \in DOMAIN e.subs |-> arg(i)])

(* Of constant expressions; a sequence has no value.                       *)
EvalToConstant(e, scope) ==
  CASE e.kind = "literal"    -> e.data
    [] e.kind = "binary"     -> BinaryOpEval(e, scope)
    [] e.kind = "list"       -> ListEval(e, scope)
    [] e.kind = "instanceof" -> InstanceOfEval(e, scope)
    [] e.kind = "new"        -> NewEval(e, scope)
    [] OTHER                 -> NoValue

(* How the evaluation of a constant ends the program, or "".  Operators    *)
(* without a constant form are fatal, as is a class without constructor;   *)
(* the null of a sequence is dereferenced.                                 *)
RECURSIVE EvalFailure(_, _)
EvalFailure(e, scope) ==
  LET value(i) == EvalToConstant(e.subs[i], scope)
      failures == SelectSeq([i \in DOMAIN e.subs |-> EvalFailure(e.subs[i], scope)],
                            LAMBDA failure : failure # "")
  IN  CASE e.kind \in {"begin", "while"} -> "undefined"
        [] failures # <<>> -> Head(failures)
        [] e.kind = "binary" /\ e.data[2] \notin Arithmetic -> "fatal"
        [] e.kind = "binary" /\ DividesByZero(e.data[2], value(1), value(2)) -> "undefined"
        [] e.kind = "new" /\ NewEval(e, scope) = Abort -> "fatal"
        [] OTHER -> ""

=============================================================================

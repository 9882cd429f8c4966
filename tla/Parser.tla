------------------------------- MODULE Parser --------------------------------
(***************************************************************************)
(* What the parser (parser.cc) makes of an expression: names of locals     *)
(* become indexes, definitions of constants disappear, procedures become   *)
(* lambdas and macros with a scope of their own.  Tokens are left out:     *)
(* source is a tree of expressions already.                                *)
(*                                                                         *)
(* A parser is [chain, runtime, lambdas, macros, out, dead]: its scopes    *)
(* and those of the runtime, the lambdas and macros so far, the            *)
(* expressions parsed so far at this level, and how it gave up, or "".     *)
(***************************************************************************)
EXTENDS Expression

Emit(p, e)      == [p EXCEPT !.out = Append(@, e)]
PushScope(p)    == [p EXCEPT !.chain = <<<<>>>> \o @]
PopScope(p)     == [p EXCEPT !.chain = Tail(@)]
Scope(p)        == Head(p.chain)
GiveUp(p, how)  == [p EXCEPT !.dead = how]
GaveUp(p)       == p.dead # ""
Declare(p, name, value) == [p EXCEPT !.chain[1] = AddLocal(@, name, value)]

(* Declaring a local where the name is taken is fatal.                     *)
DeclareNew(p, name, value) ==
  IF name \in Names(Scope(p)) THEN GiveUp(p, "fatal") ELSE Declare(p, name, value)

(* ParseArguments, which binds the parameters of lambdas.                  *)
ParseArguments(p, args) == FoldLeft(LAMBDA q, arg : DeclareNew(q, arg.name, NoValue), p, args)

RECURSIVE Parse(_, _)
ParseAll(p, list) == FoldLeft(LAMBDA q, e : Parse(q, e), p, list)
(* ParseExpressionList                                                     *)
ParseScoped(p, list) == PopScope(ParseAll(PushScope(p), list))

(* Close(p, q, kind, data): the expressions q has parsed since p become    *)
(* the operands of one expression.                                         *)
Inner(p) == [p EXCEPT !.out = <<>>]
Close(p, q, kind, data) == [q EXCEPT !.out = Append(p.out, Node(kind, data, q.out))]

ParseUnaryExpr(p, e) == Close(p, Parse(Inner(p), Head(e.subs)), "unary", e.data)
ParseThrowExpr(p, e) == Close(p, Parse(Inner(p), Head(e.subs)), "throw", e.data)
ParseCondExpr(p, e)  == Close(p, ParseAll(Inner(p), e.subs), "cond", e.data)
ParseBeginExpr(p, e) == Close(p, ParseScoped(Inner(p), e.subs), "begin", e.data)

ParseBinaryExpr(p, e) ==
  LET q == ParseAll(Inner(p), e.subs)
  IN  IF GaveUp(q) THEN q
      ELSE Emit([q EXCEPT !.out = p.out],
                FoldLeft(LAMBDA x, y : BinaryOpExpr(e.data[2], x, y), Head(q.out), Tail(q.out)))

(* A name that is the name of a class makes an instance of it.             *)
IsClassReference(e) == IsLiteralSymbol(e) /\ FindClass(e.data[2])
ParseCallExpr(p, e) ==
  IF IsClassReference(Head(e.subs))
  THEN Close(p, ParseAll(Inner(p), Tail(e.subs)), "new", Class(Head(e.subs).data[2]))
  ELSE Close(p, ParseAll(Inner(p), e.subs), "call", None)

(* ParseNewExpr, ParseCastExpr and ParseInstanceOfExpr: the class must be  *)
(* there.                                                                  *)
ParseOfClass(p, e, q) == IF FindClass(e.data[2]) THEN Close(p, q, e.kind, e.data) ELSE GiveUp(p, "fatal")
ParseNewExpr(p, e)        == ParseOfClass(p, e, ParseScoped(Inner(p), e.subs))
ParseCastExpr(p, e)       == ParseOfClass(p, e, Parse(Inner(p), Head(e.subs)))
ParseInstanceOfExpr(p, e) == ParseOfClass(p, e, Parse(Inner(p), Head(e.subs)))

(* The actions of when and while have a scope of their own.                *)
ParseTestAndBody(p, e) ==
  Close(p, ParseScoped(Parse(Inner(p), Head(e.subs)), Tail(e.subs)), e.kind, e.data)
ParseWhenExpr(p, e)  == ParseTestAndBody(p, e)
ParseWhileExpr(p, e) == ParseTestAndBody(p, e)

(* The key of a clause is a literal, its actions have a scope.             *)
ParseClause(p, e) ==
  Close(p, ParseScoped(Emit(Inner(p), Head(e.subs)), Tail(e.subs)), "clause", None)
ParseCaseExpr(p, e) ==
  Close(p, FoldLeft(ParseClause, Parse(Inner(p), Head(e.subs)), Tail(e.subs)), "case", e.data)

(* The binding is in scope after its own value only.                       *)
ParseBinding(p, e) ==
  Close(p, DeclareNew(ParseAll(Inner(p), e.subs), e.data[2], NoValue), "binding", e.data)

ParseLetExpr(p, e) ==
  LET bindings == SelectSeq(e.subs, IsBinding)
      body == SubSeq(e.subs, Len(bindings) + 1, Len(e.subs))
      q == FoldLeft(ParseBinding, PushScope(Inner(p)), bindings)
  IN  Close(p, PopScope(ParseScoped(q, body)), "let", e.data)

(* A range of literals is a list, at once.                                 *)
ParseListExpr(p, e) ==
  CASE e.kind = "list" -> Close(p, ParseAll(Inner(p), e.subs), "list", e.data)
    [] IsLiteralLong(e.subs[1]) /\ IsLiteralLong(e.subs[2]) ->
         Emit(p, LiteralExpr(ListFromRange(e.subs[1].data[2], e.subs[2].data[2])))
    [] OTHER -> GiveUp(p, "fatal")

(* The empty list is the one quotation that is a literal.                  *)
ParseQuotedExpr(p, e) == Emit(p, IF e.data = Null THEN LiteralExpr(Null) ELSE e)

(* The variable belongs to the scope before its value is parsed; it has    *)
(* its value at once if that is constant.                                  *)
DefineAs(p, index, value) ==
  IF ~IsConstantExpr(value, p.runtime) THEN Emit(p, SetLocalExpr(index, value))
  ELSE IF EvalFailure(value, p.chain) # "" THEN GiveUp(p, EvalFailure(value, p.chain))
  ELSE [p EXCEPT !.chain[1] = SetValue(@, index, EvalToConstant(value, p.chain))]
ParseDef(p, e) ==
  LET q == Parse(DeclareNew(Inner(p), e.data[2], NoValue), Head(e.subs))
  IN  IF GaveUp(q) THEN q ELSE DefineAs([q EXCEPT !.out = p.out], Len(Scope(p)), Head(q.out))

ParseSetExpr(p, e) ==
  LET name == e.data[2]
  IN  IF ~InScope(p.chain, name) THEN GiveUp(p, "fatal")
      ELSE Close(p, Parse(Inner(p), Head(e.subs)), "set",
                 <<"index", Lookup(p.chain, name).index>>)

(* A lambda knows itself, then its parameters.  The lambda's place is      *)
(* taken before its body is parsed, which may hold others.                 *)
NewLambda(p)     == [Inner(p) EXCEPT !.lambdas = Append(@, None)]
ComingLambda(p)  == <<"lambda", Len(p.lambdas) + 1>>
SetLambda(p, q, name, args) ==
  [PopScope(q) EXCEPT
     !.lambdas[Len(p.lambdas) + 1] = [name |-> name, args |-> args, body |-> q.out, scope |-> Scope(q)],
     !.out = p.out]

ParseLambda(p, name, args, body) ==
  SetLambda(p, ParseAll(ParseArguments(Declare(PushScope(NewLambda(p)), name, ComingLambda(p)), args), body),
            name, args)

(* One written $(...): its body has a scope of its own, and the parameters *)
(* $0, $1... are declared after it.                                        *)
ParseDispatch(p, args, body) ==
  SetLambda(p, ParseArguments(ParseScoped(Declare(PushScope(NewLambda(p)), "this", ComingLambda(p)), body), args),
            "$", args)

ParseLiteralLambda(p, e) ==
  Emit(IF e.kind = "fn" THEN ParseLambda(p, "$", e.data[2], e.subs)
                        ELSE ParseDispatch(p, e.data[2], e.subs),
       LiteralExpr(ComingLambda(p)))

ParseDefn(p, e) ==
  DeclareNew(ParseLambda(p, e.data[2], e.data[3], e.subs), e.data[2], ComingLambda(p))

(* A macro knows itself, but not its parameters.                           *)
ParseMacro(p, name, args, body) ==
  LET self == <<"macro", Len(p.macros) + 1>>
      q    == ParseAll(Declare(PushScope([Inner(p) EXCEPT !.macros = Append(@, None)]), name, self), body)
  IN  [PopScope(q) EXCEPT !.macros[self[2]] = [name |-> name, args |-> args, body |-> q.out],
                          !.out = p.out]
ParseMacroDef(p, e) ==
  DeclareNew(ParseMacro(p, e.data[2], e.data[3], e.subs), e.data[2], <<"macro", Len(p.macros) + 1>>)

(* ParseExpression                                                         *)
Parse(p, e) ==
  IF GaveUp(p) THEN p
  ELSE CASE e.kind = "literal"             -> Emit(p, e)
         [] e.kind = "quoted"              -> ParseQuotedExpr(p, e)
         [] e.kind = "unary"               -> ParseUnaryExpr(p, e)
         [] e.kind = "binary"              -> ParseBinaryExpr(p, e)
         [] e.kind \in {"list", "range"}   -> ParseListExpr(p, e)
         [] e.kind = "call"                -> ParseCallExpr(p, e)
         [] e.kind = "new"                 -> ParseNewExpr(p, e)
         [] e.kind = "cast"                -> ParseCastExpr(p, e)
         [] e.kind = "instanceof"          -> ParseInstanceOfExpr(p, e)
         [] e.kind = "throw"               -> ParseThrowExpr(p, e)
         [] e.kind = "begin"               -> ParseBeginExpr(p, e)
         [] e.kind = "cond"                -> ParseCondExpr(p, e)
         [] e.kind = "when"                -> ParseWhenExpr(p, e)
         [] e.kind = "while"               -> ParseWhileExpr(p, e)
         [] e.kind = "case"                -> ParseCaseExpr(p, e)
         [] e.kind = "let"                 -> ParseLetExpr(p, e)
         [] e.kind = "def"                 -> ParseDef(p, e)
         [] e.kind = "defn"                -> ParseDefn(p, e)
         [] e.kind = "defmacro"            -> ParseMacroDef(p, e)
         [] e.kind \in {"fn", "dispatch"}  -> ParseLiteralLambda(p, e)
         [] e.kind = "setvar"              -> ParseSetExpr(p, e)

(* ParseScript: a scope of its own, below the scope of the runtime.        *)
ParseScript(runtime, source) ==
  LET p == ParseAll([chain |-> <<<<>>>> \o runtime, runtime |-> runtime, lambdas |-> <<>>,
                     macros |-> <<>>, out |-> <<>>, dead |-> ""],
                    source)
  IN  [body |-> p.out, scope |-> Scope(p), lambdas |-> p.lambdas, macros |-> p.macros, dead |-> p.dead]

=============================================================================

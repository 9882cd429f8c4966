------------------------------- MODULE Macro ---------------------------------
(***************************************************************************)
(* Macro expansion (macro_expander.{h,cc}, macro.h), which happens once,   *)
(* before a script or lambda is compiled.                                  *)
(*                                                                         *)
(* A visit returns [macros, self, out]: the macros, the expression itself, *)
(* and the expressions that replace it, if any.  A set is changed in       *)
(* place: that is why the macros, whose bodies are visited, and the        *)
(* expression can come back changed.  A parameter is a local whose value   *)
(* is an expression.                                                       *)
(***************************************************************************)
EXTENDS Parser

Visited(macros, self, out) == [macros |-> macros, self |-> self, out |-> out]
HasResult(v) == v.out # <<>>
(* GetResult, or the expression if there is none.                          *)
ResultOf(v)  == IF HasResult(v) THEN Head(v.out) ELSE v.self

RECURSIVE ExpandExpr(_, _, _)

(* Expressions in turn: what each of them has become, and the first result *)
(* and all results of each.                                                *)
RECURSIVE ExpandList(_, _, _)
KeepVisit(r, v) ==
  [macros |-> v.macros, selves |-> Append(r.selves, v.self), first |-> Append(r.first, ResultOf(v)),
   all |-> r.all \o IF HasResult(v) THEN v.out ELSE <<v.self>>, changed |-> r.changed \/ HasResult(v)]
ExpandList(r, chain, list) ==
  IF list = <<>> THEN r
  ELSE ExpandList(KeepVisit(r, ExpandExpr(r.macros, chain, Head(list))), chain, Tail(list))
FromHere(macros) == [macros |-> macros, selves |-> <<>>, first |-> <<>>, all |-> <<>>, changed |-> FALSE]

(* Names are looked up in the innermost scope only.                        *)
ExpandLiteral(macros, chain, e) ==
  Visited(macros, e,
          IF IsLiteralSymbol(e) /\ e.data[2] \in Names(Head(chain))
             /\ Lookup(chain, e.data[2]).value[1] = "expr"
          THEN <<Lookup(chain, e.data[2]).value[2]>> ELSE <<>>)

ReplaceSubs(e, r) ==
  Visited(r.macros, [e EXCEPT !.subs = r.selves], IF r.changed THEN <<[e EXCEPT !.subs = r.first]>> ELSE <<>>)
ExpandBinaryOp(macros, chain, e) == ReplaceSubs(e, ExpandList(FromHere(macros), chain, e.subs))

(* IsMacroCall looks in all scopes.                                        *)
IsMacroCall(chain, e) ==
  /\ IsLiteralSymbol(Head(e.subs))
  /\ HasValueIn(chain, Head(e.subs).data[2])
  /\ Lookup(chain, Head(e.subs).data[2]).value[1] = "macro"

ExpandArgs(e, r) ==
  Visited(r.macros, CallProcExpr(Head(e.subs), r.selves),
          IF r.changed THEN <<CallProcExpr(Head(e.subs), r.first)>> ELSE <<>>)

(* Parameters are bound to the expressions of the call, and the body is    *)
(* visited before they replace it: the calls of macros it holds are        *)
(* expanded at once, in a scope that hides these parameters.               *)
MacroScope(macro, args) ==
  [i \in DOMAIN macro.args |-> [name |-> macro.args[i].name, index |-> i - 1, value |-> <<"expr", args[i]>>]]
ExpandBody(id, e, r) == Visited([r.macros EXCEPT ![id].body = r.selves], e, r.all)
ExpandMacro(macros, chain, e, id) ==
  ExpandBody(id, e, ExpandList(FromHere(macros), <<MacroScope(macros[id], Tail(e.subs))>> \o chain,
                               macros[id].body))

ExpandCallProc(macros, chain, e) ==
  IF IsMacroCall(chain, e) THEN ExpandMacro(macros, chain, e, Lookup(chain, Head(e.subs).data[2]).value[2])
  ELSE ExpandArgs(e, ExpandList(FromHere(macros), chain, Tail(e.subs)))

(* The value is replaced in place: that is no result.                      *)
StoreResult(e, v) == Visited(v.macros, [e EXCEPT !.subs = <<ResultOf(v)>>], <<>>)
ExpandSetLocal(macros, chain, e) == StoreResult(e, ExpandExpr(macros, chain, Head(e.subs)))

WhenResult(e, test, r) ==
  Visited(r.macros, WhenExpr(test.self, r.selves),
          IF r.changed \/ HasResult(test) THEN <<WhenExpr(ResultOf(test), r.all)>> ELSE <<>>)
WhenActions(e, chain, test) == WhenResult(e, test, ExpandList(FromHere(test.macros), chain, Tail(e.subs)))
ExpandWhen(macros, chain, e) == WhenActions(e, chain, ExpandExpr(macros, chain, Head(e.subs)))

(* MacroEffectVisitor: the other expressions are left as they are, and so  *)
(* are the expressions inside them.                                        *)
ExpandExpr(macros, chain, e) ==
  CASE e.kind = "literal" -> ExpandLiteral(macros, chain, e)
    [] e.kind = "binary"  -> ExpandBinaryOp(macros, chain, e)
    [] e.kind = "call"    -> ExpandCallProc(macros, chain, e)
    [] e.kind = "set"     -> ExpandSetLocal(macros, chain, e)
    [] e.kind = "when"    -> ExpandWhen(macros, chain, e)
    [] OTHER              -> Visited(macros, e, <<>>)

(* ExpandAllInScript and ExpandAllInLambda: results take the place of an   *)
(* expression and are visited again, until there are none.                 *)
RECURSIVE ExpandFrom(_, _, _, _)
ExpandNext(v, chain, done, rest) ==
  IF HasResult(v) THEN ExpandFrom(v.macros, chain, done, v.out \o rest)
  ELSE ExpandFrom(v.macros, chain, Append(done, v.self), rest)
ExpandFrom(macros, chain, done, todo) ==
  IF todo = <<>> THEN [macros |-> macros, body |-> done]
  ELSE ExpandNext(ExpandExpr(macros, chain, Head(todo)), chain, done, Tail(todo))

(* A union of the unit's scope is pushed on the scope of the compiler.     *)
ExpandAll(macros, unit, chain) ==
  ExpandFrom(macros, <<AddAll(<<>>, unit.scope)>> \o chain, <<>>, unit.body)

=============================================================================

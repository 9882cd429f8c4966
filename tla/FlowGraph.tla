------------------------------ MODULE FlowGraph ------------------------------
(***************************************************************************)
(* The flow graph of a script or lambda (flow_graph_builder.{h,cc},        *)
(* instruction.{h,cc}).                                                    *)
(*                                                                         *)
(* A graph in the making, with the visitor at work:                        *)
(*   ins, nxt        instructions; the next one of each, 0 for none        *)
(*   blocks          the next block id                                     *)
(*   chain, runtime  the builder's scopes, and those of the runtime        *)
(*   pedantic        the flag: check the types of operands                 *)
(*   entry, exit     of the visitor, 0 for none                            *)
(*   value, mode     what it returns; "effect" or "value"                  *)
(*   fail            how building has ended the program, or ""             *)
(***************************************************************************)
EXTENDS Instruction

Create(f, instr) == [f EXCEPT !.ins = Append(@, instr), !.nxt = Append(@, 0)]
NewTarget(f) == [Create(f, TargetEntryInstr(f.blocks)) EXCEPT !.blocks = @ + 1]
NewJoin(f)   == [Create(f, JoinEntryInstr(f.blocks)) EXCEPT !.blocks = @ + 1]
Newest(f) == Len(f.ins)
(* The k-th instruction made from now on.                                  *)
Coming(f, k) == Newest(f) + k
Broken(f, how) == [f EXCEPT !.fail = how]

Link(f, i, j) == [f EXCEPT !.nxt[i] = j]

RECURSIVE LastOf(_, _)
LastOf(f, i) == IF f.nxt[i] = 0 THEN i ELSE LastOf(f, f.nxt[i])

(* Instruction::Append: at the very end of i's block.                      *)
AppendInstr(f, i, j) == Link(f, LastOf(f, i), j)

IsEmpty(f) == f.entry = 0

(* EffectVisitor::Add, Do and Bind.  Without an exit, null is linked to.   *)
Add(f, i) ==
  IF IsEmpty(f) THEN [f EXCEPT !.entry = i, !.exit = i]
  ELSE IF f.exit = 0 THEN Broken(f, "undefined")
  ELSE [Link(f, f.exit, i) EXCEPT !.exit = i]
AddNew(f, instr) == Add(Create(f, instr), Coming(f, 1))

(* A constant nobody wants is dropped.                                     *)
ReturnDefinition(f, i) ==
  IF f.mode = "value" THEN [Add(f, i) EXCEPT !.value = i]
  ELSE IF IsConstantInstr(f.ins[i]) THEN f
  ELSE Add(f, i)
ReturnNew(f, instr) == ReturnDefinition(Create(f, instr), Coming(f, 1))

(* A visitor of its own for an operand or action, on the same graph.       *)
Visitor(f, mode) == [f EXCEPT !.entry = 0, !.exit = 0, !.value = 0, !.mode = mode]
(* Back in f's visitor, with the graph that g has made.                    *)
Resume(f, g) == [g EXCEPT !.entry = f.entry, !.exit = f.exit, !.value = f.value, !.mode = f.mode]

(* EffectVisitor::Append: g's instructions follow f's.                     *)
AppendVisitor(f, g) ==
  IF IsEmpty(g) THEN Resume(f, g)
  ELSE [Add(Resume(f, g), g.entry) EXCEPT !.exit = g.exit]

(* AppendFragment: g's instructions end a block.                           *)
AppendFragment(f, block, g) ==
  IF IsEmpty(g) THEN Resume(f, g) ELSE AppendInstr(Resume(f, g), block, g.entry)

RECURSIVE Visit(_, _)
Value(f, e)  == Visit(Visitor(f, "value"), e)
Effect(f, e) == Visit(Visitor(f, "effect"), e)

(* One after the other, up to a failure: for their values, or for their    *)
(* effects, the latter in line or at the end of a block.                   *)
RECURSIVE Operands(_, _), Effects(_, _), Fragments(_, _, _)
Done(f, list) == f.fail # "" \/ list = <<>>
Operands(f, list) ==
  IF Done(f, list) THEN f ELSE Operands(AppendVisitor(f, Value(f, Head(list))), Tail(list))
Effects(f, list) ==
  IF Done(f, list) THEN f ELSE Effects(AppendVisitor(f, Effect(f, Head(list))), Tail(list))
Fragments(f, block, list) ==
  IF Done(f, list) THEN f
  ELSE Fragments(AppendFragment(f, block, Effect(f, Head(list))), block, Tail(list))

BlockAppend(f, block, instr) == AppendInstr(Create(f, instr), block, Coming(f, 1))

(* AddInstanceOf, when the build is pedantic.                              *)
CheckIf(f, needed, c) == IF f.pedantic /\ needed THEN AddNew(f, InstanceOfInstr(c)) ELSE f

(* A symbol without a local stands for itself, one whose local has a       *)
(* value for that value.                                                   *)
VisitLiteralExpr(f, e) ==
  IF ~IsLiteralSymbol(e) \/ ~InScope(f.chain, e.data[2]) THEN ReturnNew(f, ConstantInstr(e.data))
  ELSE LET local == Lookup(f.chain, e.data[2])
       IN  ReturnNew(f, IF HasValue(local) THEN ConstantInstr(local.value)
                        ELSE LoadLocalInstr(local.index))
VisitQuotedExpr(f, e) == ReturnNew(f, ConstantInstr(e.data))

IsNativeCall(instr) == IsConstantInstr(instr) /\ instr.arg[1] = "native"
IsLambdaCall(instr) == IsConstantInstr(instr) /\ instr.arg[1] = "lambda"

(* CreateCallFor.  A target that is no procedure yet is evaluated, taken   *)
(* for a symbol and looked up.                                             *)
LookupTarget(f, target) ==
  CheckIf(AddNew(CheckIf(Add(f, target), TRUE, "Symbol"), LookupInstr), TRUE, "Procedure")
ReturnCallTo(f, target, n) ==
  LET instr == f.ins[target]
  IN  CASE IsNativeCall(instr) -> ReturnNew(f, InvokeNativeInstr(instr.arg, n))
        [] IsLambdaCall(instr) -> ReturnNew(f, InvokeInstr(instr.arg, n))
        [] OTHER -> ReturnNew(LookupTarget(f, target), InvokeDynamicInstr(n))

(* Of the target, only its last definition is used.                        *)
ReturnCall(f, t, n) ==
  IF t.value = 0 THEN Broken(t, "undefined") ELSE ReturnCallTo(Resume(f, t), t.value, n)
CallTarget(f, target, n) == ReturnCall(f, Value(f, target), n)
VisitCallProcExpr(f, e) ==
  CallTarget(Operands(f, Tail(e.subs)), Head(e.subs), Len(e.subs) - 1)

(* The constant an expression stands for.                                  *)
ReturnConstant(f, e) ==
  IF EvalFailure(e, f.chain) # "" THEN Broken(f, EvalFailure(e, f.chain))
  ELSE ReturnNew(f, ConstantInstr(EvalToConstant(e, f.chain)))

VisitListExpr(f, e) ==
  IF IsConstantExpr(e, f.runtime) THEN ReturnConstant(f, e)
  ELSE ReturnNew(Operands(f, e.subs), InvokeNativeInstr(<<"native", "list">>, Len(e.subs)))

VisitInstanceOfExpr(f, e) ==
  IF IsConstantExpr(e, f.runtime) THEN ReturnConstant(f, e)
  ELSE ReturnNew(AddNew(Operands(f, e.subs), ConstantInstr(e.data)), BinaryOpInstr("InstanceOf"))

(* Constant for the runtime, but not in the builder's scopes: then the     *)
(* arguments are left out.                                                 *)
VisitNewExpr(f, e) ==
  LET new == NewInstr(e.data, Len(e.subs))
  IN  IF ~IsConstantExpr(e, f.runtime) THEN ReturnNew(Operands(f, e.subs), new)
      ELSE IF NewEval(e, f.chain) = NoValue THEN ReturnNew(f, new)
      ELSE ReturnConstant(f, e)

VisitCastExpr(f, e)  == ReturnNew(Operands(f, e.subs), CastInstr(e.data))
VisitThrowExpr(f, e) == AddNew(CheckIf(Operands(f, e.subs), TRUE, "Error"), ThrowInstr)

(* Conditionals allocate their join first, then the other blocks.  They    *)
(* leave the visitor at the join, and without a value.                     *)
VisitWhenExpr(f, e) ==
  LET join   == Coming(f, 1)
      conseq == Coming(f, 2)
      body   == Fragments(NewTarget(NewJoin(f)), conseq, Tail(e.subs))
      test   == Operands(BlockAppend(body, conseq, GotoInstr(join)), <<Head(e.subs)>>)
  IN  [AddNew(test, BranchTrue(conseq, 0, join)) EXCEPT !.exit = join]

(* A clause of a case: its last action is followed by a return.            *)
AddImplicitReturn(a) ==
  IF a.exit = 0 \/ IsReturnInstr(a.ins[a.exit]) THEN a ELSE AddNew(a, ReturnInstr)
KeepExit(f, target, a) == [AppendFragment(f, target, a) EXCEPT !.exit = a.exit]
RECURSIVE VisitActions(_, _, _)
VisitActions(f, target, list) ==
  CASE Done(f, list)  -> f
    [] Len(list) = 1  -> KeepExit(f, target, AddImplicitReturn(Effect(f, Head(list))))
    [] OTHER          -> VisitActions(KeepExit(f, target, Effect(f, Head(list))), target, Tail(list))
VisitClauseExpr(f, e) == VisitActions(Add(NewTarget(f), Coming(f, 1)), Coming(f, 1), Tail(e.subs))

(* Every clause that does not apply leads to the join, not to the next.    *)
CaseTest(f, target, join, key, clause) ==
  AppendVisitor(f, AddNew(AddNew(Visit(Visit(Visitor(f, "value"), key), Head(clause.subs)),
                                 BinaryOpInstr("Equals")),
                          BranchTrue(target, 0, join)))
CaseClause(f, join, key, clause) ==
  CaseTest(Resume(f, AddNew(VisitClauseExpr(Visitor(f, "effect"), clause), GotoInstr(join))),
           Coming(f, 1), join, key, clause)
RECURSIVE CaseClauses(_, _, _, _)
CaseClauses(f, join, key, clauses) ==
  IF Done(f, clauses) THEN [f EXCEPT !.exit = join]
  ELSE CaseClauses(CaseClause(f, join, key, Head(clauses)), join, key, Tail(clauses))
VisitCaseExpr(f, e) == CaseClauses(NewJoin(f), Coming(f, 1), Head(e.subs), Tail(e.subs))

AppendValue(f, block, e) == AppendFragment(f, block, Value(f, e))
VisitLoopBody(f, block, list) ==
  AppendFragment(f, block, FoldLeft(LAMBDA b, x : Visit(b, x), Visitor(f, "effect"), list))

VisitWhileExpr(f, e) ==
  LET target == Coming(f, 1)
      conseq == Coming(f, 2)
      join   == Coming(f, 3)
      blocks == NewJoin(NewTarget(Add(NewTarget(f), target)))
      test   == BlockAppend(AppendValue(blocks, target, Head(e.subs)), target, BranchTrue(conseq, 0, join))
  IN  [BlockAppend(VisitLoopBody(test, conseq, Tail(e.subs)), conseq, GotoInstr(target))
         EXCEPT !.exit = join]

(* One clause of a cond: its action, then its test.  A test for equality   *)
(* compares in the branch.                                                 *)
VisitClause(f, key, action, alt, join) ==
  LET target == Coming(f, 1)
      equal  == key.kind = "binary" /\ key.data[2] = "Equals"
      conseq == BlockAppend(AppendValue(NewTarget(f), target, action), target, GotoInstr(join))
  IN  AddNew(Operands(conseq, IF equal THEN key.subs ELSE <<key>>),
             IF equal THEN BranchEqual(target, alt, join) ELSE BranchTrue(target, alt, join))

VisitAlternate(f, list, alt, join) ==
  IF Len(list) % 2 = 0 THEN f
  ELSE BlockAppend(AppendValue(f, alt, Last(list)), alt, GotoInstr(join))

VisitCondExpr(f, e) ==
  LET alt  == Coming(f, 1)
      join == Coming(f, 2)
      tests == FoldLeft(LAMBDA b, c : VisitClause(b, e.subs[2 * c - 1], e.subs[2 * c], alt, join),
                        NewJoin(NewTarget(f)), [c \in 1..(Len(e.subs) \div 2) |-> c])
  IN  [VisitAlternate(tests, e.subs, alt, join) EXCEPT !.exit = join]

VisitBinding(f, e) ==
  LET g == [f EXCEPT !.chain[1] = AddLocal(@, e.data[2], NoValue)]
  IN  AddNew(Operands(g, e.subs), StoreLocalInstr(Len(f.chain[1])))

(* Bindings and body go to a block of their own; the value is linked in    *)
(* after the goto that leads there.                                        *)
LetChild(f, block, v) == [AppendFragment(f, block, v) EXCEPT !.value = v.value]
LetValue(f, block) ==
  IF f.value # 0 THEN f
  ELSE [BlockAppend(f, block, ConstantInstr(Null)) EXCEPT !.value = Coming(f, 1)]
LetReturn(f, g) == ReturnDefinition([g EXCEPT !.value = f.value], g.value)

VisitLetExpr(f, e) ==
  LET target == Coming(f, 1)
      join   == Coming(f, 3)
      blocks == NewJoin(AddNew(NewTarget(f), GotoInstr(target)))
      body   == FoldLeft(LAMBDA b, x : LetChild(b, target, Value(b, x)),
                         [blocks EXCEPT !.chain = <<<<>>>> \o @, !.value = 0], e.subs)
  IN  [BlockAppend(LetReturn(f, LetValue(body, target)), target, GotoInstr(join)) EXCEPT
         !.chain = Tail(@), !.exit = join]

VisitUnaryExpr(f, e) ==
  ReturnNew(CheckIf(Operands(f, e.subs), e.data[2] \in {"Car", "Cdr"}, "Pair"), UnaryOpInstr(e.data[2]))
VisitBinaryOpExpr(f, e) == ReturnNew(Operands(f, e.subs), BinaryOpInstr(e.data[2]))
VisitBeginExpr(f, e)    == Effects(f, e.subs)
VisitSetLocalExpr(f, e) == AddNew(Operands(f, e.subs), StoreLocalInstr(e.data[2]))

(* Accept fails for none of these kinds.                                   *)
Visit(f, e) ==
  CASE f.fail # ""          -> f
    [] e.kind = "literal"   -> VisitLiteralExpr(f, e)
    [] e.kind = "quoted"    -> VisitQuotedExpr(f, e)
    [] e.kind = "unary"     -> VisitUnaryExpr(f, e)
    [] e.kind = "binary"    -> VisitBinaryOpExpr(f, e)
    [] e.kind = "call"      -> VisitCallProcExpr(f, e)
    [] e.kind = "new"       -> VisitNewExpr(f, e)
    [] e.kind = "list"      -> VisitListExpr(f, e)
    [] e.kind = "instanceof" -> VisitInstanceOfExpr(f, e)
    [] e.kind = "cast"      -> VisitCastExpr(f, e)
    [] e.kind = "throw"     -> VisitThrowExpr(f, e)
    [] e.kind = "begin"     -> VisitBeginExpr(f, e)
    [] e.kind = "when"      -> VisitWhenExpr(f, e)
    [] e.kind = "case"      -> VisitCaseExpr(f, e)
    [] e.kind = "while"     -> VisitWhileExpr(f, e)
    [] e.kind = "cond"      -> VisitCondExpr(f, e)
    [] e.kind = "let"       -> VisitLetExpr(f, e)
    [] e.kind = "binding"   -> VisitBinding(f, e)
    [] e.kind = "set"       -> VisitSetLocalExpr(f, e)

(* The value of a body's last expression is returned, or null.             *)
RECURSIVE VisitBody(_, _)
KeepValue(f, v) == [AppendVisitor(f, v) EXCEPT !.value = v.value]
VisitBody(f, body) ==
  IF Done(f, body) THEN f ELSE VisitBody(KeepValue(f, Value(f, Head(body))), Tail(body))

OrNull(f, valueless) == IF valueless THEN AddNew(f, ConstantInstr(Null)) ELSE f

ReturnScript(f) == AddNew(OrNull(f, f.value = 0), ReturnInstr)
VisitScript(f, body) == ReturnScript(VisitBody(f, body))

(* A lambda that ends in a conditional returns what its blocks have left;  *)
(* one whose last expression has no instructions has no exit to ask.       *)
ReturnLambda(f, v) ==
  IF v.fail # "" THEN v
  ELSE IF IsEmpty(v) THEN Broken(v, "undefined")
  ELSE [AddNew(OrNull(AppendVisitor(f, v), v.value = 0 /\ ~IsJoinEntryInstr(v.ins[v.exit])), ReturnInstr)
          EXCEPT !.chain = Tail(@)]
VisitLast(f, e) == ReturnLambda(f, Value(f, e))
VisitLambda(f, body, scope) ==
  VisitLast(VisitBody([f EXCEPT !.chain = <<AddAll(<<>>, scope)>> \o @], Front(body)), Last(body))

(* FlowGraphBuilder::Build below BuildFlowGraph, which puts a copy of the  *)
(* unit's scope between the builder and the scope it was called with.      *)
EmptyGraph(scope, chain, pedantic) ==
  [ins |-> <<>>, nxt |-> <<>>, blocks |-> 1, chain |-> <<AddAll(<<>>, scope)>> \o chain,
   runtime |-> chain, pedantic |-> pedantic,
   entry |-> 0, exit |-> 0, value |-> 0, mode |-> "value", fail |-> ""]

VisitUnit(f, body, scope, kind) ==
  LET entry == Newest(f)
  IN  AppendInstr(AppendFragment(f, entry, IF kind = "script" THEN VisitScript(f, body)
                                                              ELSE VisitLambda(f, body, scope)),
                  entry - 1, entry)
Build(body, scope, kind, chain, pedantic) ==
  VisitUnit(NewTarget(Create(EmptyGraph(scope, chain, pedantic), GraphEntryInstr(0))), body, scope, kind)

=============================================================================

------------------------------ MODULE Compiler -------------------------------
(***************************************************************************)
(* FlowGraphCompiler and Compile of the instructions                       *)
(* (flow_graph_compiler.{h,cc}, instruction_vm.cc).                        *)
(*                                                                         *)
(* Labels do what Assembler promises: jumps that wait for a label lead to  *)
(* where it is bound.  What Assembler does not promise is kept: a jump to  *)
(* a label that is bound already, or never, has no proper offset.          *)
(*                                                                         *)
(* info_ is a vector of labels, indexed by block id, with room for some    *)
(* more.  When that is used up the labels move: a pointer to a label       *)
(* remembers the moves so far, and using it after another is undefined, as *)
(* is a label behind the end of the vector.                                *)
(***************************************************************************)
EXTENDS FlowGraph, Bytecode

NewLabel == 0      \* the place a label is bound to, or 0

Start(f) ==
  [graph |-> f, code |-> <<>>, info |-> <<NewLabel>>, room |-> 1, moves |-> 0, fail |-> f.fail]

EmitCode(c, code) == [c EXCEPT !.code = @ \o code]
Here(c) == Len(c.code) + 1

(* std::vector::resize: room is doubled at least.                          *)
Resize(c, size) ==
  LET n     == Len(c.info)
      grown == [c EXCEPT !.info = @ \o [i \in 1..(size - n) |-> NewLabel]]
  IN  IF size <= c.room THEN grown
      ELSE [grown EXCEPT !.room = IF size > 2 * n THEN size ELSE 2 * n, !.moves = @ + 1]

(* GetBlockInfo: resizes if the id is beyond the size, not if it is the    *)
(* size.                                                                   *)
Touch(c, block) ==
  LET id == c.graph.ins[block].arg[2]
      n  == Len(c.info)
  IN  CASE id > n -> Resize(c, id + 1)
        [] id = n -> [Resize(c, id + 1) EXCEPT !.fail = "undefined"]
        [] OTHER  -> c
(* The pointer GetBlockLabel returns.                                      *)
LabelOf(c, block) == [id |-> c.graph.ins[block].arg[2] + 1, moves |-> c.moves]

Deref(c, label) == IF label.moves = c.moves THEN c ELSE [c EXCEPT !.fail = "undefined"]

(* The operand waits for its label.                                        *)
Jump(c, op, label) ==
  LET d == Deref(c, label)
  IN  EmitCode(d, <<Op(op), IF d.info[label.id] = NewLabel THEN <<"link", label.id>> ELSE <<"astray">>>>)

(* Assembler::Bind: everyone who waits gets the distance from its op.      *)
Bind(c, label) ==
  LET d      == Deref(c, label)
      bound  == [d EXCEPT !.info[label.id] = Here(d)]
      waits(a) == d.code[a] = <<"link", label.id>>
  IN  [bound EXCEPT !.code = [a \in DOMAIN @ |-> IF waits(a) THEN <<"offset", Here(d) - (a - 1)>> ELSE @[a]]]

RECURSIVE CompileFrom(_, _)

CompileBlock(c, block, label) == CompileFrom(Bind(c, label), block)

(* A mutant of CompileBranch: the label of the other way is not bound.     *)
CompileBranchUnbound(c, instr) ==
  LET t  == instr.to[1]
      f  == instr.to[2]
      j  == instr.to[3]
      c1 == Touch(c, t)
      c2 == IF f = 0 THEN c1 ELSE Touch(c1, f)
      c3 == Touch(c2, j)
      lj == LabelOf(c3, j)
      lf == IF f = 0 THEN lj ELSE LabelOf(c2, f)
      jump == Jump(c3, IF instr.arg[1] = "equal" THEN "Jne" ELSE "Jnz", lf)
      yes  == CompileBlock(jump, t, LabelOf(c1, t))
      no   == IF f = 0 THEN yes ELSE CompileFrom(yes, f)
  IN  CompileBlock(no, j, lj)

(* BranchInstr::Compile: the blocks of both ways and what follows them are *)
(* compiled in place.  The pointers to their labels are taken first.       *)
CompileBranch(c, instr) ==
  LET t    == instr.to[1]
      f    == instr.to[2]
      j    == instr.to[3]
      c1   == Touch(c, t)
      c2   == IF f = 0 THEN c1 ELSE Touch(c1, f)
      c3   == Touch(c2, j)
      lt   == LabelOf(c1, t)
      lj   == LabelOf(c3, j)
      lf   == IF f = 0 THEN lj ELSE LabelOf(c2, f)
      jump == Jump(c3, IF instr.arg[1] = "equal" THEN "Jne" ELSE "Jnz", lf)
      yes  == CompileBlock(jump, t, lt)
      no   == IF f = 0 THEN yes ELSE CompileBlock(yes, f, lf)
  IN  CompileBlock(no, j, lj)

CompileGoto(c, instr) == LET d == Touch(c, instr.to[1]) IN Jump(d, "Jump", LabelOf(d, instr.to[1]))

CompileConstant(c, instr)      == EmitCode(c, PushCode(instr.arg))
CompileLoadLocal(c, instr)     == EmitCode(c, LoadLocalCode(instr.arg[2]))
CompileStoreLocal(c, instr)    == EmitCode(c, StoreLocalCode(instr.arg[2]))
CompileOp(c, instr)            == EmitCode(c, <<Op(instr.arg[2])>>)
CompileInvoke(c, instr)        == EmitCode(c, InvokeCode(instr.arg[2], instr.arg[3]))
CompileInvokeNative(c, instr)  == EmitCode(c, InvokeNativeCode(instr.arg[2], instr.arg[3]))
CompileInvokeDynamic(c, instr) == EmitCode(c, InvokeDynamicCode(instr.arg[3]))
CompileNew(c, instr)           == EmitCode(c, NewCode(instr.arg[2], instr.arg[3]))

CompileInstr(c, instr) ==
  CASE IsEntryInstr(instr)            -> c
    [] instr.op = "Constant"          -> CompileConstant(c, instr)
    [] instr.op = "LoadLocal"         -> CompileLoadLocal(c, instr)
    [] instr.op = "StoreLocal"        -> CompileStoreLocal(c, instr)
    [] instr.op \in {"UnaryOp", "BinaryOp"} -> CompileOp(c, instr)
    [] instr.op = "Invoke"            -> CompileInvoke(c, instr)
    [] instr.op = "InvokeNative"      -> CompileInvokeNative(c, instr)
    [] instr.op = "InvokeDynamic"     -> CompileInvokeDynamic(c, instr)
    [] instr.op = "Lookup"            -> EmitCode(c, <<Op("Lookup")>>)
    [] instr.op = "Return"            -> EmitCode(c, <<Op("Ret")>>)
    [] instr.op = "Throw"             -> EmitCode(c, <<Op("Throw")>>)
    [] instr.op = "InstanceOf"        -> EmitCode(c, CheckInstanceCode(instr.arg))
    [] instr.op = "Cast"              -> EmitCode(c, CastCode(instr.arg))
    [] instr.op = "New"               -> CompileNew(c, instr)
    [] instr.op = "Branch"            -> CompileBranch(c, instr)
    [] instr.op = "Goto"              -> CompileGoto(c, instr)

(* An InstructionIterator and its loop.                                    *)
CompileFrom(c, i) ==
  IF i = 0 \/ c.fail # "" THEN c ELSE CompileFrom(CompileInstr(c, c.graph.ins[i]), c.graph.nxt[i])

(* The operand of a jump keeps the position its label had before until the *)
(* label is bound.  If it never is, the first jump keeps 0, and so leads to*)
(* itself; the others lead anywhere.                                       *)
Unlinked(code, a) == code[a][1] = "link" /\ \A b \in 1..(a - 1) : code[b] # code[a]
Assembled(code)   == [a \in DOMAIN code |-> IF Unlinked(code, a) THEN <<"offset", 0>> ELSE code[a]]

(* CompileTarget: macros are expanded, the graph is built and assembled.   *)
AssembleFlowGraph(c) == [code |-> Assembled(c.code), fail |-> c.fail]
CompileExpanded(x, unit, kind, chain, pedantic) ==
  [macros |-> x.macros,
   result |-> AssembleFlowGraph(CompileFrom(Start(Build(x.body, unit.scope, kind, chain, pedantic)), 1))]
CompileTarget(macros, unit, kind, chain, pedantic) ==
  CompileExpanded(ExpandAll(macros, unit, chain), unit, kind, chain, pedantic)

=============================================================================

---------------------------- MODULE Instruction ------------------------------
(***************************************************************************)
(* The instructions of a flow graph: instruction.h.                        *)
(*                                                                         *)
(* An instruction is [op, arg, to]: its class, what it holds, and the      *)
(* blocks a branch or goto names, as places in the graph: true, false or   *)
(* 0, join.  The definition it takes its input from is left out: a value   *)
(* is on the stack when it is used, or it is not.                          *)
(***************************************************************************)
EXTENDS Macro

Instr(op, arg)        == [op |-> op, arg |-> arg, to |-> <<>>]
BlockEntry(op, id)    == Instr(op, <<"id", id>>)
GraphEntryInstr(id)   == BlockEntry("GraphEntry", id)
TargetEntryInstr(id)  == BlockEntry("TargetEntry", id)
JoinEntryInstr(id)    == BlockEntry("JoinEntry", id)

ConstantInstr(value)        == Instr("Constant", value)
LoadLocalInstr(index)       == Instr("LoadLocal", <<"word", index>>)
StoreLocalInstr(index)      == Instr("StoreLocal", <<"word", index>>)
ThrowInstr                  == Instr("Throw", None)
InvokeInstr(proc, n)        == Instr("Invoke", <<"call", proc, n>>)
InvokeNativeInstr(proc, n)  == Instr("InvokeNative", <<"call", proc, n>>)
InvokeDynamicInstr(n)       == Instr("InvokeDynamic", <<"call", None, n>>)
LookupInstr                 == Instr("Lookup", None)
ReturnInstr                 == Instr("Return", None)
BinaryOpInstr(op)           == Instr("BinaryOp", <<"op", op>>)
UnaryOpInstr(op)            == Instr("UnaryOp", <<"op", op>>)
InstanceOfInstr(c)          == Instr("InstanceOf", Class(c))
CastInstr(class)            == Instr("Cast", class)
NewInstr(class, n)          == Instr("New", <<"call", class, n>>)

(* BranchTrue and BranchEqual; the false target may be missing.            *)
Branch(cond, yes, no, join) == [op |-> "Branch", arg |-> <<cond>>, to |-> <<yes, no, join>>]
BranchTrue(yes, no, join)   == Branch("true", yes, no, join)
BranchEqual(yes, no, join)  == Branch("equal", yes, no, join)
GotoInstr(block)            == [op |-> "Goto", arg |-> None, to |-> <<block>>]

IsEntryInstr(i)     == i.op \in {"GraphEntry", "TargetEntry", "JoinEntry"}
IsJoinEntryInstr(i) == i.op = "JoinEntry"
IsConstantInstr(i)  == i.op = "Constant"
IsReturnInstr(i)    == i.op = "Return"

=============================================================================

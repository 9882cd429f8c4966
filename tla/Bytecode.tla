------------------------------ MODULE Bytecode -------------------------------
(***************************************************************************)
(* The bytecode of gel::vm: opcodes (bytecode.h), what the assembler emits *)
(* for an operation (assembler_vm.h), and how it is read back by the       *)
(* interpreter (interpreter.h) and the disassembler (disassembler_vm.cc).  *)
(*                                                                         *)
(* Code is a sequence of places: an op byte <<"op", n>>, or an operand     *)
(* word, which is a number, an offset, or the address of an object, for    *)
(* which the object stands.  A byte and a word take one place each.        *)
(***************************************************************************)
EXTENDS Objects

UnaryOps  == <<"Not", "Car", "Cdr", "Nonnull", "Null">>
BinaryOps == <<"Add", "Subtract", "Multiply", "Divide", "Modulus", "Equals", "BinaryAnd", "BinaryOr",
               "GreaterThan", "GreaterThanEqual", "LessThan", "LessThanEqual", "Cons", "InstanceOf">>

(* FOR_EACH_BYTECODE, from 1; 0 is kInvalid.                               *)
Ops ==
  <<"Nop", "Pop", "Dup", "Lookup",
    "StoreLocal", "StoreLocal0", "StoreLocal1", "StoreLocal2", "StoreLocal3",
    "LoadLocal", "LoadLocal0", "LoadLocal1", "LoadLocal2", "LoadLocal3",
    "Invoke", "InvokeDynamic", "InvokeNative", "CheckInstance", "Ret",
    "PushQ", "PushI", "PushN", "PushT", "PushF",
    "Jump", "Jz", "Jnz", "Jeq", "Jne", "Cast", "New", "Throw", "LoadField", "StoreField">>
  \o UnaryOps \o BinaryOps
Opcode == [name \in Range(Ops) |-> CHOOSE n \in DOMAIN Ops : Ops[n] = name]

Byte(n)   == <<"op", n>>
Word(n)   == <<"word", n>>
Op(name)  == Byte(Opcode[name])

(* Assembler::LoadLocal and StoreLocal: the first four have ops without an *)
(* operand.                                                                *)
kTotalLLInstrs == Opcode["LoadLocal3"] - Opcode["LoadLocal0"]
kTotalSLInstrs == Opcode["StoreLocal3"] - Opcode["StoreLocal0"]
(* A mutant of LoadLocalCode: one more.                                    *)
LoadLocalCodeLong(index) ==
  IF index <= kTotalLLInstrs + 1 THEN <<Byte(Opcode["LoadLocal0"] + index)>>
  ELSE <<Op("LoadLocal"), Word(index)>>
LoadLocalCode(index) ==
  IF index <= kTotalLLInstrs THEN <<Byte(Opcode["LoadLocal0"] + index)>>
  ELSE <<Op("LoadLocal"), Word(index)>>
StoreLocalCode(index) ==
  IF index <= kTotalSLInstrs THEN <<Byte(Opcode["StoreLocal0"] + index)>>
  ELSE <<Op("StoreLocal"), Word(index)>>

(* Assembler::Push                                                         *)
PushCode(v) ==
  CASE v = Null          -> <<Op("PushN")>>
    [] IsLong(v)         -> <<Op("PushI"), Word(v[2])>>
    [] v = Bool(TRUE)    -> <<Op("PushT")>>
    [] v = Bool(FALSE)   -> <<Op("PushF")>>
    [] OTHER             -> <<Op("PushQ"), v>>

InvokeCode(proc, n)       == <<Op("Invoke"), proc, Word(n)>>
InvokeNativeCode(proc, n) == <<Op("InvokeNative"), proc, Word(n)>>
InvokeDynamicCode(n)      == <<Op("InvokeDynamic"), Word(n)>>
CheckInstanceCode(class)  == <<Op("CheckInstance"), class>>
CastCode(class)           == <<Op("Cast"), class>>
NewCode(class, n)         == <<Op("New"), class, Word(n)>>

-----------------------------------------------------------------------------
(* Decoding                                                                *)

(* NextBytecode                                                            *)
OpAt(code, pos) == Ops[code[pos][2]]

Jumps  == {"Jump", "Jz", "Jnz", "Jeq", "Jne"}
Loads  == {"LoadLocal", "LoadLocal0", "LoadLocal1", "LoadLocal2", "LoadLocal3"}
Stores == {"StoreLocal", "StoreLocal0", "StoreLocal1", "StoreLocal2", "StoreLocal3"}
Pushes == {"PushQ", "PushI", "PushN", "PushT", "PushF"}

NumberOfOperands(op) ==
  CASE op \in {"Invoke", "InvokeNative", "New"} -> 2
    [] op \in {"LoadLocal", "StoreLocal", "InvokeDynamic", "CheckInstance", "PushQ", "PushI", "Cast",
               "LoadField", "StoreField"} \cup Jumps -> 1
    [] OTHER -> 0
NextPos(code, pos) == pos + 1 + NumberOfOperands(OpAt(code, pos))

(* The index of a local, by its op.                                        *)
LoadIndex(code, pos) ==
  IF OpAt(code, pos) = "LoadLocal" THEN code[pos + 1][2] ELSE code[pos][2] - Opcode["LoadLocal0"]
StoreIndex(code, pos) ==
  IF OpAt(code, pos) = "StoreLocal" THEN code[pos + 1][2] ELSE code[pos][2] - Opcode["StoreLocal0"]

(* Interpreter::Push                                                       *)
PushedValue(code, pos) ==
  LET op == OpAt(code, pos)
  IN  CASE op = "PushQ" -> code[pos + 1]
        [] op = "PushI" -> Long(code[pos + 1][2])
        [] op = "PushN" -> Null
        [] op = "PushT" -> Bool(TRUE)
        [] op = "PushF" -> Bool(FALSE)

(* An offset counts from the op of its jump.                               *)
HasOffset(code, pos)  == code[pos + 1][1] = "offset"
JumpTarget(code, pos) == pos + code[pos + 1][2]

=============================================================================

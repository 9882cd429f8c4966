---------------------------- MODULE Disassembler -----------------------------
(***************************************************************************)
(* The Disassembler (disassembler_vm.{h,cc}): a unit read from its first   *)
(* place on, operation by operation.                                       *)
(***************************************************************************)
EXTENDS Bytecode

(* Disassembler::Disassemble: the places where it finds an operation.      *)
RECURSIVE Disassemble(_, _)
Disassemble(code, pos) ==
  IF pos > Len(code) THEN <<>>
  ELSE IF code[pos][1] # "op" \/ code[pos][2] \notin DOMAIN Ops THEN <<0>>
  ELSE <<pos>> \o Disassemble(code, NextPos(code, pos))

=============================================================================

------------------------------ MODULE CallStack ------------------------------
(***************************************************************************)
(* What a procedure call promises, whoever makes it: bytecode, a native or *)
(* a callback of the event loop.  A stack of activations, each with its    *)
(* operand stack, the place where its code continues and its scope.        *)
(*                                                                         *)
(*   - only the innermost activation works;                                *)
(*   - a call takes its arguments off its caller's operand stack and       *)
(*     starts with an empty one, in a scope below its caller's;            *)
(*   - when it returns, its caller has the operand stack it had, with the  *)
(*     result added when the call was made for its result and with nothing *)
(*     added otherwise, continues where it stopped and sees its own scope, *)
(*     whatever ran in between.                                            *)
(***************************************************************************)
EXTENDS Naturals, Sequences

CONSTANT Null       \* the value of a call that leaves its operand stack empty

VARIABLES
  depth,            \* number of activations
  ops,              \* operand stack of every activation
  pos,              \* where every activation continues
  env,              \* depth of every activation's scope
  keep              \* whether every activation was called for its result

vars == <<depth, ops, pos, env, keep>>

(* The outermost n activations keep their operands and their place.        *)
Untouched(n) == \A i \in 1..n : ops'[i] = ops[i] /\ pos'[i] = pos[i]

(* What was settled when the outermost n activations were called.          *)
Settled(n) == \A i \in 1..n : env'[i] = env[i] /\ keep'[i] = keep[i]

Result(s) == IF s = <<>> THEN Null ELSE s[Len(s)]

Init == depth = 0

Work ==
  /\ depth > 0
  /\ depth' = depth
  /\ Untouched(depth - 1) /\ Settled(depth)

Enter ==
  /\ depth' = depth + 1
  /\ Untouched(depth - 1) /\ Settled(depth)
  /\ ops'[depth + 1] = <<>>
  /\ depth > 0 => /\ ops'[depth] = SubSeq(ops[depth], 1, Len(ops'[depth]))
                  /\ env'[depth + 1] = env[depth] + 1

Leave ==
  /\ depth > 0
  /\ depth' = depth - 1
  /\ Untouched(depth - 2) /\ Settled(depth - 1)
  /\ depth > 1 => /\ ops'[depth - 1] = IF keep[depth] THEN Append(ops[depth - 1], Result(ops[depth]))
                                       ELSE ops[depth - 1]
                  /\ pos'[depth - 1] = pos[depth - 1]

Next == Work \/ Enter \/ Leave

Spec == Init /\ [][Next]_vars

=============================================================================

------------------------------ MODULE Equality -------------------------------
(***************************************************************************)
(* When two values are equal, and when asking is undefined: Equals of the  *)
(* classes of object.{h,cc} and lambda.cc.  Pairs are compared part by     *)
(* part.                                                                   *)
(***************************************************************************)
EXTENDS Objects

(* Object::Equals.  No lambda equals another, or itself.  An Error is      *)
(* known by the address of its message, for which its value stands.        *)
RECURSIVE Equals(_, _)
Equals(x, y) ==
  IF x[1] = "pair" /\ y[1] = "pair" THEN Equals(x[2], y[2]) /\ Equals(x[3], y[3])
  ELSE x[1] # "lambda" /\ x = y

(* Pair::Equals compares all the way down.  The empty pair at the end has  *)
(* no car to ask, and as the other car it gives null, which Bool, Pair and *)
(* Lambda do not expect.                                                   *)
RECURSIVE EqualsUndefined(_, _)
EqualsUndefined(x, y) ==
  /\ IsPair(x) /\ IsPair(y)
  /\ CASE x = Null -> TRUE
       [] x # Null /\ y = Null -> x[2][1] \in {"bool", "pair", "null", "lambda"}
       [] OTHER -> \/ EqualsUndefined(x[2], y[2])
                   \/ Equals(x[2], y[2]) /\ EqualsUndefined(x[3], y[3])

=============================================================================

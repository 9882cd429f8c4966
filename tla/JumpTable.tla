------------------------------ MODULE JumpTable ------------------------------
(***************************************************************************)
(* What an assembler promises about its labels: code grows, jumps name     *)
(* labels, a label is placed where the code ends at that moment, and       *)
(*                                                                         *)
(*   - placing a label makes all the jumps that wait for it reach it, and  *)
(*     no other jump reach anywhere else than before;                      *)
(*   - a jump that follows its label's placement reaches that place.       *)
(***************************************************************************)
EXTENDS Integers

CONSTANTS
  Labels,
  Positions         \* the places of a jump's operand

Unresolved == -1

VARIABLES
  length,           \* of the code
  waiting,          \* for every label, the jumps that wait for it
  reach,            \* where the jump with its operand there goes to
  place             \* where every label is

vars == <<length, waiting, reach, place>>

Init ==
  /\ length = 0
  /\ waiting = [l \in Labels |-> {}]
  /\ reach = [p \in Positions |-> Unresolved]
  /\ place = [l \in Labels |-> Unresolved]

Grow == length' > length

Other == Grow /\ UNCHANGED <<waiting, reach, place>>

JumpAhead(l, p) ==
  /\ place[l] = Unresolved
  /\ Grow /\ length < p /\ p < length'
  /\ waiting' = [waiting EXCEPT ![l] = @ \cup {p}]
  /\ UNCHANGED <<reach, place>>

JumpBack(l, p) ==
  /\ place[l] # Unresolved
  /\ Grow /\ length < p /\ p < length'
  /\ reach' = [reach EXCEPT ![p] = place[l]]
  /\ UNCHANGED <<waiting, place>>

Place(l) ==
  /\ reach' = [p \in Positions |-> IF p \in waiting[l] THEN length ELSE reach[p]]
  /\ waiting' = [waiting EXCEPT ![l] = {}]
  /\ place' = [place EXCEPT ![l] = length]
  /\ UNCHANGED length

Next ==
  \/ Other
  \/ \E l \in Labels : Place(l) \/ \E p \in Positions : JumpAhead(l, p) \/ JumpBack(l, p)

Spec == Init /\ [][Next]_vars

=============================================================================

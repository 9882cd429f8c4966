------------------------------ MODULE Assembler ------------------------------
(***************************************************************************)
(* The Assembler's labels: assembler_base.h, assembler_vm.h and            *)
(* assembler_vm.cc.                                                        *)
(*                                                                         *)
(* Label::pos_ holds everything: 0 for a label that has not been used,     *)
(* p + WordSize when p is the operand of the last jump to a label that is  *)
(* not bound, -p - WordSize when it is bound to p.  The operands of the    *)
(* jumps that wait for a label hold the pos_ before them: a list threaded  *)
(* through the code, from the last jump to the first.  Bind walks it.      *)
(*                                                                         *)
(* The interpreter adds a jump's operand to the address of its opcode      *)
(* (interpreter.cc:438-446).  Bytecode is abstracted to its size and the   *)
(* operands of its jumps.                                                  *)
(***************************************************************************)
EXTENDS Integers

CONSTANTS
  Labels,
  NoLabel,
  OpSize,           \* sizeof(RawBytecode)
  WordSize,         \* sizeof(word)
  MaxSize           \* bound on the size of the code

ASSUME LabelAssumption == NoLabel \notin Labels
ASSUME SizeAssumption ==
  OpSize \in Nat \ {0} /\ WordSize \in Nat \ {0} /\ MaxSize \in Nat

Positions  == 0..MaxSize
Unresolved == -1

VARIABLES
  size,             \* cbuffer().GetSize()
  words,            \* the word at each position of the buffer, 0 at first
  pos,              \* Label::pos_ of every label
  binding,          \* the label Bind is working on
  open,             \* history: operands of the jumps each label waits for
  goal              \* history: where the label of a jump was bound

vars == <<size, words, pos, binding, open, goal>>

IsBound(l)    == pos[l] < 0
IsLinked(l)   == pos[l] > 0
GetPos(l)     == IF IsBound(l) THEN -pos[l] - WordSize ELSE pos[l] - WordSize
GetLinkPos(l) == pos[l] - WordSize

BindTo(l, p) == pos' = [pos EXCEPT ![l] = -p - WordSize]
LinkTo(l, p) == pos' = [pos EXCEPT ![l] = p + WordSize]

Init ==
  /\ size = 0
  /\ words = [p \in Positions |-> 0]
  /\ pos = [l \in Labels |-> 0]
  /\ binding = NoLabel
  /\ open = [l \in Labels |-> {}]
  /\ goal = [p \in Positions |-> Unresolved]

Emitting(n) == binding = NoLabel /\ size + n <= MaxSize /\ size' = size + n

(* An instruction other than a jump, with up to two immediate words.       *)
Emit ==
  /\ \E n \in 0..2 : Emitting(OpSize + n * WordSize)
  /\ UNCHANGED <<words, pos, binding, open, goal>>

(* A mistake: as if the operand had been emitted before.                  *)
OperandOfLast == size - WordSize

Operand == size + OpSize

(* A mistake: the list loses the jumps that were already on it.            *)
EmitLabelLinkAlone(l) ==
  /\ words' = [words EXCEPT ![Operand] = 0]
  /\ LinkTo(l, Operand)

(* EmitLabelLink, after the opcode.                                        *)
EmitLabelLink(l) ==
  /\ words' = [words EXCEPT ![Operand] = pos[l]]
  /\ LinkTo(l, Operand)

(* Jump to a label that is not bound.                                      *)
JumpAhead(l) ==
  /\ ~IsBound(l)
  /\ Emitting(OpSize + WordSize)
  /\ EmitLabelLink(l)
  /\ open' = [open EXCEPT ![l] = @ \cup {Operand}]
  /\ UNCHANGED <<binding, goal>>

(* Jump to a bound label: the offset is taken before the opcode is emitted.*)
JumpBack(l) ==
  /\ IsBound(l)
  /\ Emitting(OpSize + WordSize)
  /\ words' = [words EXCEPT ![Operand] = GetPos(l) - size]
  /\ goal' = [goal EXCEPT ![Operand] = GetPos(l) - OpSize]
  /\ UNCHANGED <<pos, binding, open>>

(* Bind: one step for each turn of its loop.                               *)
Bound == size + OpSize

BindBegin(l) ==
  /\ binding = NoLabel
  /\ binding' = l
  /\ UNCHANGED <<size, words, pos, open, goal>>

(* Mistakes: the next link is read after it has been overwritten; the      *)
(* displacement is taken from the end of the code.                         *)
BindLinkLate(l) ==
  /\ binding = l /\ IsLinked(l)
  /\ words' = [words EXCEPT ![GetLinkPos(l)] = Bound - GetLinkPos(l)]
  /\ pos' = [pos EXCEPT ![l] = 0]
  /\ UNCHANGED <<size, binding, open, goal>>

BindLinkShort(l) ==
  /\ binding = l /\ IsLinked(l)
  /\ words' = [words EXCEPT ![GetLinkPos(l)] = size - GetLinkPos(l)]
  /\ pos' = [pos EXCEPT ![l] = words[GetLinkPos(l)]]
  /\ UNCHANGED <<size, binding, open, goal>>

BindLink(l) ==
  /\ binding = l /\ IsLinked(l)
  /\ words' = [words EXCEPT ![GetLinkPos(l)] = Bound - GetLinkPos(l)]
  /\ pos' = [pos EXCEPT ![l] = words[GetLinkPos(l)]]
  /\ UNCHANGED <<size, binding, open, goal>>

BindEnd(l) ==
  /\ binding = l /\ ~IsLinked(l)
  /\ BindTo(l, Bound)
  /\ binding' = NoLabel
  /\ open' = [open EXCEPT ![l] = {}]
  /\ goal' = [p \in Positions |-> IF p \in open[l] THEN size ELSE goal[p]]
  /\ UNCHANGED <<size, words>>

(* What is emitted as long as no label is bound before a jump to it.       *)
ForwardNext ==
  \/ Emit
  \/ \E l \in Labels : JumpAhead(l) \/ BindBegin(l) \/ BindLink(l) \/ BindEnd(l)

Next == ForwardNext \/ \E l \in Labels : JumpBack(l)

ForwardSpec == Init /\ [][ForwardNext]_vars
Spec        == Init /\ [][Next]_vars

(***************************************************************************)
(* Properties                                                              *)
(***************************************************************************)

(* Positions stay in the code, links and displacements are words.          *)
TypeOK ==
  /\ size \in Positions
  /\ words \in [Positions -> Int]
  /\ pos \in [Labels -> Int]
  /\ binding \in Labels \cup {NoLabel}
  /\ open \in [Labels -> SUBSET Positions]
  /\ goal \in [Positions -> Positions \cup {Unresolved}]

(* The jumps still on the list of l: Bind patches from the last to the     *)
(* first, and pos_ is where it has got to.                                 *)
Listed(l) == {p \in open[l] : p + WordSize <= pos[l]}

(* The operand at p leads to the jump before it, if there is one.          *)
LinksToPrevious(l, p) ==
  \/ words[p] = 0 /\ \A q \in open[l] : q >= p
  \/ /\ words[p] > 0
     /\ words[p] - WordSize \in open[l]
     /\ words[p] <= p
     /\ \A q \in open[l] : q < p => q + WordSize <= words[p]

ListsThreaded ==
  \A l \in Labels :
    /\ IsLinked(l) => GetLinkPos(l) \in open[l]
    /\ \A p \in Listed(l) : LinksToPrevious(l, p)
    /\ \A p \in open[l] \ Listed(l) : binding = l /\ words[p] = Bound - p

OperandsApart ==
  \A l, m \in Labels : \A p \in open[l], q \in open[m] :
    /\ p = q => l = m
    /\ p < q => p + WordSize <= q

OperandsInside ==
  /\ \A l \in Labels : \A p \in open[l] :
       OpSize <= p /\ p + WordSize <= size /\ goal[p] = Unresolved
  /\ \A p \in Positions : goal[p] # Unresolved => p + WordSize <= size
  /\ \A l \in Labels : IsBound(l) => GetPos(l) - OpSize \in 0..size

(***************************************************************************)
(* The lists threaded through the code: the list of a label holds exactly  *)
(* the jumps that wait for it and that Bind has not patched yet, no two    *)
(* lists share an operand, and no two operands overlap, so that patching   *)
(* one list leaves the others alone.                                       *)
(***************************************************************************)
ListsSound == ListsThreaded /\ OperandsApart /\ OperandsInside

(***************************************************************************)
(* Once a label is bound, every jump to it takes the interpreter, which    *)
(* adds the operand to the opcode's address, to where it was bound; in the *)
(* words of test_assembler_vm.cc:336-337, the operand at p is GetPos() - p.*)
(***************************************************************************)
JumpsLand ==
  \A p \in Positions : goal[p] # Unresolved => p - OpSize + words[p] = goal[p]

Table == INSTANCE JumpTable WITH
           length <- size,
           waiting <- open,
           reach <- [p \in Positions |->
                       IF goal[p] = Unresolved THEN Unresolved ELSE p - OpSize + words[p]],
           place <- [l \in Labels |-> IF IsBound(l) THEN GetPos(l) - OpSize ELSE Unresolved]

(* The assembler keeps the promise of JumpTable: a label that is placed    *)
(* takes its waiting jumps along and disturbs no other jump.               *)
ImplementsTable == Table!Spec

=============================================================================

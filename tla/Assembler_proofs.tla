-------------------------- MODULE Assembler_proofs --------------------------
(***************************************************************************)
(* Proofs about Assembler, for every set of labels, every size of opcodes  *)
(* and words and every length of code: the lists of waiting jumps are      *)
(* sound, forward jumps land where their label is bound, and the assembler *)
(* implements JumpTable.                                                   *)
(***************************************************************************)
EXTENDS Assembler, TLAPS

USE DEF Positions, Unresolved

Inv == TypeOK /\ ListsSound

(* The operand of a jump emitted now lies past every operand in use.       *)
LEMMA FreshOperand ==
  ASSUME Inv, Emitting(OpSize + WordSize)
  PROVE  /\ Operand \in Positions
         /\ Operand + WordSize = size' /\ size' \in Positions
         /\ size + WordSize <= Operand + WordSize
         /\ \A l \in Labels : \A p \in open[l] : p \in Positions /\ p + WordSize <= Operand
         /\ \A p \in Positions : goal[p] # Unresolved => p # Operand
  BY SizeAssumption DEF Inv, TypeOK, ListsSound, OperandsInside, Emitting, Operand

(* Outside Bind, the list of a label holds all the jumps that wait for it. *)
LEMMA AllListed ==
  ASSUME Inv, binding = NoLabel
  PROVE  \A l \in Labels : open[l] = Listed(l)
  BY LabelAssumption DEF Inv, ListsSound, ListsThreaded, Listed

(* When the list of a label is empty, all its jumps have been patched.     *)
LEMMA NoneListed ==
  ASSUME Inv, NEW l \in Labels, ~IsLinked(l)
  PROVE  Listed(l) = {}
  BY SizeAssumption DEF Inv, TypeOK, Listed, IsLinked

(* The head of a list, and where its operand leads.                        *)
LEMMA Head ==
  ASSUME Inv, NEW l \in Labels, IsLinked(l)
  PROVE  /\ GetLinkPos(l) \in Listed(l) /\ GetLinkPos(l) \in Positions
         /\ LinksToPrevious(l, GetLinkPos(l))
         /\ words[GetLinkPos(l)] \in Nat
         /\ \A m \in Labels : GetLinkPos(l) \in open[m] => m = l
<1>1. GetLinkPos(l) \in open[l]
  BY DEF Inv, ListsSound, ListsThreaded
<1>2. GetLinkPos(l) \in Positions
  BY <1>1 DEF Inv, TypeOK
<1>3. GetLinkPos(l) \in Listed(l)
  BY <1>1, SizeAssumption DEF Listed, GetLinkPos, Inv, TypeOK
<1>4. LinksToPrevious(l, GetLinkPos(l))
  BY <1>3 DEF Inv, ListsSound, ListsThreaded
<1>5. words[GetLinkPos(l)] \in Int
  BY <1>2 DEF Inv, TypeOK
<1>6. words[GetLinkPos(l)] \in Nat
  BY <1>4, <1>5 DEF LinksToPrevious
<1>7. \A m \in Labels : GetLinkPos(l) \in open[m] => m = l
  BY <1>1 DEF Inv, ListsSound, OperandsApart
<1> QED
  BY <1>2, <1>3, <1>4, <1>6, <1>7

(***************************************************************************)
(* One lemma for each action.                                              *)
(***************************************************************************)

LEMMA EmitInv == ASSUME Inv, Emit PROVE Inv'
<1>1. size' \in Positions /\ size <= size' /\ binding = NoLabel
  BY SizeAssumption DEF Inv, TypeOK, Emit, Emitting
<1>2. TypeOK'
  BY <1>1 DEF Inv, TypeOK, Emit
<1>3. ListsThreaded'
  <2>1. \A l \in Labels : open[l] = Listed(l)
    BY <1>1, AllListed
  <2>2. \A l \in Labels : Listed(l)' = Listed(l)
    BY DEF Emit, Listed
  <2>3. \A l \in Labels : \A p \in Listed(l) : LinksToPrevious(l, p)'
    BY DEF Inv, ListsSound, ListsThreaded, Emit, LinksToPrevious
  <2> QED
    BY <2>1, <2>2, <2>3 DEF Inv, ListsSound, ListsThreaded, Emit, IsLinked, GetLinkPos
<1>4. OperandsApart'
  BY DEF Inv, ListsSound, OperandsApart, Emit
<1>5. OperandsInside'
  BY <1>1, SizeAssumption DEF Inv, TypeOK, ListsSound, OperandsInside, Emit, IsBound, GetPos
<1> QED
  BY <1>2, <1>3, <1>4, <1>5 DEF Inv, ListsSound

LEMMA JumpAheadInv == ASSUME Inv, NEW l \in Labels, JumpAhead(l) PROVE Inv'
<1>p. PICK P : P = Operand
  OBVIOUS
<1>0. /\ Emitting(OpSize + WordSize) /\ binding = NoLabel /\ binding' = binding /\ goal' = goal
      /\ pos' = [pos EXCEPT ![l] = P + WordSize]
      /\ words' = [words EXCEPT ![P] = pos[l]]
      /\ open' = [open EXCEPT ![l] = @ \cup {P}]
      /\ pos[l] >= 0 /\ pos[l] \in Int
  BY <1>p DEF JumpAhead, Emitting, EmitLabelLink, LinkTo, IsBound, Inv, TypeOK
<1>1. /\ P \in Positions
      /\ P + WordSize = size' /\ size' \in Positions
      /\ size <= P
      /\ \A m \in Labels : \A p \in open[m] : p \in Positions /\ p + WordSize <= P
      /\ \A p \in Positions : goal[p] # Unresolved => p # P
  BY <1>0, <1>p, FreshOperand, SizeAssumption DEF Inv, TypeOK, Operand
<1>2. TypeOK'
  BY <1>0, <1>1, SizeAssumption, SMTT(30) DEF Inv, TypeOK
<1>a. /\ open'[l] = open[l] \cup {P} /\ pos'[l] = P + WordSize /\ words'[P] = pos[l]
      /\ \A m \in Labels \ {l} : open'[m] = open[m] /\ pos'[m] = pos[m]
      /\ \A m \in Labels : \A p \in open[m] : words'[p] = words[p] /\ p # P
  BY <1>0, <1>1, SizeAssumption DEF Inv, TypeOK
<1>b. \A m \in Labels : open[m] = Listed(m)
  BY <1>0, AllListed
<1>3. ListsThreaded'
  <2> SUFFICES ASSUME NEW m \in Labels
               PROVE  /\ IsLinked(m)' => GetLinkPos(m)' \in open'[m]
                      /\ \A p \in Listed(m)' : LinksToPrevious(m, p)'
                      /\ open'[m] \ Listed(m)' = {}
    BY DEF ListsThreaded
  <2>1. CASE m = l
    <3>1. IsLinked(m)' => GetLinkPos(m)' \in open'[m]
      BY <1>a, <1>1, SizeAssumption, <2>1 DEF GetLinkPos
    <3>2. LinksToPrevious(l, P)'
      <4>1. CASE pos[l] = 0
        <5>1. open[l] = {}
          BY <4>1, <1>b, NoneListed DEF IsLinked
        <5> QED
          BY <5>1, <4>1, <1>a, <1>1, SizeAssumption DEF LinksToPrevious
      <4>2. CASE pos[l] > 0
        <5>1. pos[l] - WordSize \in open[l]
          BY <4>2 DEF Inv, ListsSound, ListsThreaded, IsLinked, GetLinkPos
        <5>2. pos[l] <= P
          BY <5>1, <1>0, <1>1, SizeAssumption
        <5>3. \A q \in open[l] : q + WordSize <= pos[l]
          BY <1>b DEF Listed
        <5>4. \A q \in open'[l] : q < P => q + WordSize <= words'[P]
          BY <5>3, <1>a, <1>1
        <5> QED
          BY <4>2, <5>1, <5>2, <5>4, <1>a DEF LinksToPrevious
      <4> QED BY <4>1, <4>2, <1>0
    <3>3. ASSUME NEW p \in open[l] PROVE LinksToPrevious(l, p)'
      <4>1. LinksToPrevious(l, p)
        BY <1>b DEF Inv, ListsSound, ListsThreaded
      <4>2. words'[p] = words[p] /\ p < P /\ p \in Positions
        BY <1>a, <1>1, SizeAssumption
      <4>3. P >= p /\ ~(P < p)
        BY <4>2, <1>1
      <4> QED
        BY <4>1, <4>2, <4>3, <1>a DEF LinksToPrevious
    <3>4. Listed(l)' \subseteq open[l] \cup {P}
      BY <1>a DEF Listed
    <3>5. open'[l] \subseteq Listed(l)'
      BY <1>a, <1>1, SizeAssumption DEF Listed
    <3>6. \A p \in Listed(l)' : LinksToPrevious(l, p)'
      BY <3>2, <3>3, <3>4
    <3> QED BY <2>1, <3>1, <3>5, <3>6
  <2>2. CASE m # l
    <3>1. Listed(m)' = Listed(m)
      BY <2>2, <1>a DEF Listed
    <3>2. \A p \in Listed(m) : LinksToPrevious(m, p)
      BY DEF Inv, ListsSound, ListsThreaded
    <3>3. \A p \in Listed(m) : LinksToPrevious(m, p)'
      BY <3>2, <2>2, <1>a DEF LinksToPrevious, Listed
    <3> QED
      BY <2>2, <3>1, <3>3, <1>a, <1>b DEF Inv, ListsSound, ListsThreaded, IsLinked, GetLinkPos
  <2> QED BY <2>1, <2>2
<1>4. OperandsApart'
  <2> SUFFICES ASSUME NEW m \in Labels, NEW n \in Labels, NEW p \in open'[m], NEW q \in open'[n]
               PROVE  (p = q => m = n) /\ (p < q => p + WordSize <= q)
    BY DEF OperandsApart
  <2>1. CASE p \in open[m] /\ q \in open[n]
    BY <2>1 DEF Inv, ListsSound, OperandsApart
  <2>2. CASE p \in open[m] /\ n = l /\ q = P
    BY <2>2, <1>1, <1>a, SizeAssumption
  <2>3. CASE m = l /\ p = P /\ q \in open[n]
    BY <2>3, <1>1, <1>a, SizeAssumption
  <2>4. CASE m = l /\ p = P /\ n = l /\ q = P
    BY <2>4, <1>1
  <2> QED BY <2>1, <2>2, <2>3, <2>4, <1>a
<1>5. OperandsInside'
  <2>1. \A m \in Labels : \A p \in open'[m] :
          OpSize <= p /\ p + WordSize <= size' /\ goal'[p] = Unresolved
    <3>1. OpSize <= P /\ goal[P] = Unresolved
      BY <1>p, <1>1, SizeAssumption DEF Operand, Inv, TypeOK
    <3> QED
      BY <3>1, <1>0, <1>1, <1>a, SizeAssumption DEF Inv, TypeOK, ListsSound, OperandsInside
  <2>2. \A p \in Positions : goal'[p] # Unresolved => p + WordSize <= size'
    BY <1>0, <1>1, SizeAssumption DEF Inv, TypeOK, ListsSound, OperandsInside
  <2>3. \A m \in Labels : IsBound(m)' => GetPos(m)' - OpSize \in 0..size'
    <3> SUFFICES ASSUME NEW m \in Labels, pos'[m] < 0
                 PROVE  GetPos(m)' - OpSize \in 0..size'
      BY DEF IsBound
    <3>1. m # l
      BY <1>a, <1>1, SizeAssumption
    <3> QED
      BY <3>1, <1>a, <1>1, SizeAssumption, SMTT(30) DEF Inv, TypeOK, ListsSound, OperandsInside, IsBound, GetPos
  <2> QED BY <2>1, <2>2, <2>3 DEF OperandsInside
<1> QED
  BY <1>2, <1>3, <1>4, <1>5 DEF Inv, ListsSound

LEMMA JumpBackInv == ASSUME Inv, NEW l \in Labels, JumpBack(l) PROVE Inv'
<1> DEFINE P == Operand
<1>0. /\ Emitting(OpSize + WordSize) /\ binding = NoLabel /\ binding' = binding
      /\ pos' = pos /\ open' = open
      /\ words' = [words EXCEPT ![P] = GetPos(l) - size]
      /\ goal' = [goal EXCEPT ![P] = GetPos(l) - OpSize]
      /\ GetPos(l) \in Int /\ GetPos(l) - OpSize \in 0..size
  BY SizeAssumption
  DEF JumpBack, Emitting, GetPos, Inv, TypeOK, ListsSound, OperandsInside
<1>1. /\ P \in Positions
      /\ P + WordSize = size' /\ size' \in Positions
      /\ size <= P
      /\ \A m \in Labels : \A p \in open[m] : p \in Positions /\ p + WordSize <= P
  BY <1>0, FreshOperand, SizeAssumption, SMTT(30) DEF Inv, TypeOK, Operand
<1> HIDE DEF P
<1>2. TypeOK'
  <2>1. GetPos(l) - size \in Int /\ GetPos(l) - OpSize \in Positions
    BY <1>0, SizeAssumption DEF Inv, TypeOK
  <2>2. words' \in [Positions -> Int]
    BY <1>0, <2>1 DEF Inv, TypeOK
  <2>3. goal' \in [Positions -> Positions \cup {Unresolved}]
    BY <1>0, <2>1 DEF Inv, TypeOK
  <2> QED
    BY <1>0, <1>1, <2>2, <2>3 DEF Inv, TypeOK
<1>a. \A m \in Labels : \A p \in open[m] : words'[p] = words[p] /\ goal'[p] = goal[p]
  BY <1>0, <1>1, SizeAssumption, SMTT(30) DEF Inv, TypeOK
<1>b. \A m \in Labels : open[m] = Listed(m)
  BY <1>0, AllListed
<1>3. ListsThreaded'
  <2>1. \A m \in Labels : Listed(m)' = Listed(m)
    BY <1>0 DEF Listed
  <2>2. \A m \in Labels : \A p \in Listed(m) : LinksToPrevious(m, p)'
    BY <1>0, <1>a DEF Inv, ListsSound, ListsThreaded, LinksToPrevious, Listed
  <2> QED
    BY <2>1, <2>2, <1>0, <1>b DEF Inv, ListsSound, ListsThreaded, IsLinked, GetLinkPos
<1>4. OperandsApart'
  BY <1>0 DEF Inv, ListsSound, OperandsApart
<1>5. OperandsInside'
  <2>1. \A m \in Labels : \A p \in open'[m] :
          OpSize <= p /\ p + WordSize <= size' /\ goal'[p] = Unresolved
    BY <1>0, <1>a, <1>1, SizeAssumption DEF Inv, TypeOK, ListsSound, OperandsInside
  <2>2. \A p \in Positions : goal'[p] # Unresolved => p + WordSize <= size'
    BY <1>0, <1>1, SizeAssumption DEF Inv, TypeOK, ListsSound, OperandsInside
  <2>3. \A m \in Labels : IsBound(m)' => GetPos(m)' - OpSize \in 0..size'
    BY <1>0, <1>1, SizeAssumption DEF Inv, TypeOK, ListsSound, OperandsInside, IsBound, GetPos
  <2> QED BY <2>1, <2>2, <2>3 DEF OperandsInside
<1> QED
  BY <1>2, <1>3, <1>4, <1>5 DEF Inv, ListsSound

LEMMA BindBeginInv == ASSUME Inv, NEW l \in Labels, BindBegin(l) PROVE Inv'
<1>1. binding = NoLabel /\ binding' = l /\ UNCHANGED <<size, words, pos, open, goal>>
  BY DEF BindBegin
<1>2. \A m \in Labels : open[m] = Listed(m) /\ Listed(m)' = Listed(m)
  BY <1>1, AllListed DEF Listed
<1>3. ListsThreaded'
  BY <1>1, <1>2 DEF Inv, ListsSound, ListsThreaded, IsLinked, GetLinkPos, LinksToPrevious
<1> QED
  BY <1>1, <1>3
  DEF Inv, TypeOK, ListsSound, OperandsApart, OperandsInside, IsBound, GetPos

LEMMA BindLinkInv == ASSUME Inv, NEW l \in Labels, BindLink(l) PROVE Inv'
<1> DEFINE h == GetLinkPos(l)
<1>0. /\ binding = l /\ binding' = l /\ pos[l] > 0
      /\ UNCHANGED <<size, open, goal>>
      /\ words' = [words EXCEPT ![h] = Bound - h]
      /\ pos' = [pos EXCEPT ![l] = words[h]]
      /\ Bound' = Bound /\ Bound \in Int
  BY SizeAssumption DEF BindLink, IsLinked, Bound, Inv, TypeOK
<1>1. /\ h \in Listed(l) /\ h \in open[l] /\ h \in Positions /\ h + WordSize = pos[l]
      /\ LinksToPrevious(l, h)
      /\ words[h] \in Nat
      /\ \A m \in Labels : h \in open[m] => m = l
  BY <1>0, Head, SizeAssumption DEF IsLinked, Listed, GetLinkPos, Inv, TypeOK
<1> HIDE DEF h
<1>2. TypeOK'
  BY <1>0, <1>1 DEF Inv, TypeOK
<1>a. /\ words'[h] = Bound - h /\ pos'[l] = words[h]
      /\ \A p \in Positions : p # h => words'[p] = words[p]
      /\ \A m \in Labels \ {l} : pos'[m] = pos[m]
      /\ \A m \in Labels : open[m] \subseteq Positions
  BY <1>0, <1>1 DEF Inv, TypeOK
<1>3. ListsThreaded'
  <2> SUFFICES ASSUME NEW m \in Labels
               PROVE  /\ IsLinked(m)' => GetLinkPos(m)' \in open[m]
                      /\ \A p \in Listed(m)' : LinksToPrevious(m, p)'
                      /\ \A p \in open[m] \ Listed(m)' : m = l /\ words'[p] = Bound - p
    BY <1>0 DEF ListsThreaded
  <2>1. CASE m = l
    <3>1. IsLinked(l)' => GetLinkPos(l)' \in open[l]
      BY <1>a, <1>1 DEF IsLinked, GetLinkPos, LinksToPrevious
    <3>2. \A p \in Listed(l)' : p \in Listed(l) /\ p # h
      BY <1>0, <1>a, <1>1, SizeAssumption DEF Listed, LinksToPrevious
    <3>3. \A p \in Listed(l)' : LinksToPrevious(l, p)'
      <4> SUFFICES ASSUME NEW p \in Listed(l)' PROVE LinksToPrevious(l, p)'
        OBVIOUS
      <4>1. p \in Listed(l) /\ p \in open[l] /\ p # h
        BY <3>2 DEF Listed
      <4>2. LinksToPrevious(l, p) /\ words'[p] = words[p]
        BY <4>1, <1>a DEF Inv, ListsSound, ListsThreaded
      <4> QED BY <4>2, <1>0 DEF LinksToPrevious
    <3>4. ASSUME NEW p \in open[l], p \notin Listed(l)'
          PROVE  words'[p] = Bound - p
      <4>1. CASE p = h
        BY <4>1, <1>a
      <4>2. CASE p \notin Listed(l)
        <5>1. p # h
          BY <4>2, <1>1
        <5> QED
          BY <4>2, <5>1, <1>a DEF Inv, ListsSound, ListsThreaded
      <4>3. CASE p \in Listed(l) /\ p # h
        <5>1. p < h
          BY <4>3, <1>1, <1>a, SizeAssumption DEF Listed
        <5>2. p + WordSize <= words[h]
          BY <5>1, <1>1, <1>a DEF LinksToPrevious
        <5>3. p \in Listed(l)'
          BY <5>2, <1>0, <1>a DEF Listed
        <5> QED BY <5>3, <3>4
      <4> QED BY <4>1, <4>2, <4>3
    <3> QED BY <2>1, <3>1, <3>3, <3>4
  <2>2. CASE m # l
    <3>1. Listed(m)' = Listed(m) /\ h \notin open[m]
      BY <2>2, <1>0, <1>1, <1>a DEF Listed
    <3>2. open[m] \ Listed(m) = {}
      BY <2>2, <1>0 DEF Inv, ListsSound, ListsThreaded
    <3>3. \A p \in Listed(m) : LinksToPrevious(m, p)
      BY DEF Inv, ListsSound, ListsThreaded
    <3>4. \A p \in Listed(m) : words'[p] = words[p]
      BY <3>1, <1>a DEF Listed
    <3>5. \A p \in Listed(m) : LinksToPrevious(m, p)'
      BY <3>3, <3>4, <1>0 DEF LinksToPrevious
    <3>6. IsLinked(m)' => GetLinkPos(m)' \in open[m]
      BY <2>2, <1>a DEF Inv, ListsSound, ListsThreaded, IsLinked, GetLinkPos
    <3> QED BY <3>1, <3>2, <3>5, <3>6
  <2> QED BY <2>1, <2>2
<1>4. OperandsApart'
  BY <1>0 DEF Inv, ListsSound, OperandsApart
<1>5. OperandsInside'
  <2>1. \A m \in Labels : IsBound(m)' => GetPos(m)' - OpSize \in 0..size'
    <3> SUFFICES ASSUME NEW m \in Labels, pos'[m] < 0
                 PROVE  GetPos(m)' - OpSize \in 0..size'
      BY DEF IsBound
    <3>1. m # l
      BY <1>a, <1>1
    <3> QED
      BY <3>1, <1>0, <1>a DEF Inv, ListsSound, OperandsInside, IsBound, GetPos
  <2> QED
    BY <2>1, <1>0 DEF Inv, ListsSound, OperandsInside
<1> QED
  BY <1>2, <1>3, <1>4, <1>5 DEF Inv, ListsSound

(* At the end of Bind, each jump that waited reaches the end of the code.  *)
LEMMA BoundJumpsLand ==
  ASSUME Inv, NEW l \in Labels, BindEnd(l), NEW p \in open[l]
  PROVE  p \in Positions /\ p - OpSize + words[p] = size
<1>1. Listed(l) = {}
  BY NoneListed DEF BindEnd
<1>2. words[p] = Bound - p
  BY <1>1 DEF Inv, ListsSound, ListsThreaded
<1> QED
  BY <1>2, SizeAssumption DEF Inv, TypeOK, Bound

LEMMA BindEndInv == ASSUME Inv, NEW l \in Labels, BindEnd(l) PROVE Inv'
<1>0. /\ binding = l /\ binding' = NoLabel /\ UNCHANGED <<size, words>>
      /\ pos' = [pos EXCEPT ![l] = -(size + OpSize) - WordSize]
      /\ open' = [open EXCEPT ![l] = {}]
      /\ goal' = [p \in Positions |-> IF p \in open[l] THEN size ELSE goal[p]]
  BY DEF BindEnd, BindTo, Bound
<1>1. TypeOK'
  BY <1>0, SizeAssumption DEF Inv, TypeOK
<1>a. /\ open'[l] = {} /\ pos'[l] = -(size + OpSize) - WordSize
      /\ \A m \in Labels \ {l} : open'[m] = open[m] /\ pos'[m] = pos[m]
      /\ \A m \in Labels : open[m] \subseteq Positions
  BY <1>0 DEF Inv, TypeOK
<1>2. ListsThreaded'
  <2> SUFFICES ASSUME NEW m \in Labels
               PROVE  /\ IsLinked(m)' => GetLinkPos(m)' \in open'[m]
                      /\ \A p \in Listed(m)' : LinksToPrevious(m, p)'
                      /\ open'[m] \ Listed(m)' = {}
    BY DEF ListsThreaded
  <2>1. CASE m = l
    BY <2>1, <1>a, SizeAssumption DEF Listed, IsLinked, Inv, TypeOK
  <2>2. CASE m # l
    <3>1. Listed(m)' = Listed(m)
      BY <2>2, <1>a DEF Listed
    <3>2. open[m] \ Listed(m) = {}
      BY <2>2, <1>0 DEF Inv, ListsSound, ListsThreaded
    <3>3. \A p \in Listed(m) : LinksToPrevious(m, p)'
      BY <2>2, <1>0, <1>a DEF Inv, ListsSound, ListsThreaded, LinksToPrevious
    <3> QED
      BY <2>2, <3>1, <3>2, <3>3, <1>a DEF Inv, ListsSound, ListsThreaded, IsLinked, GetLinkPos
  <2> QED BY <2>1, <2>2
<1>3. OperandsApart'
  BY <1>a DEF Inv, ListsSound, OperandsApart
<1>4. OperandsInside'
  <2>1. \A m \in Labels : \A p \in open'[m] :
          OpSize <= p /\ p + WordSize <= size' /\ goal'[p] = Unresolved
    <3> SUFFICES ASSUME NEW m \in Labels, NEW p \in open'[m]
                 PROVE  OpSize <= p /\ p + WordSize <= size' /\ goal'[p] = Unresolved
      OBVIOUS
    <3>1. m # l /\ p \in open[m] /\ p \in Positions
      BY <1>a
    <3>2. p \notin open[l]
      BY <3>1 DEF Inv, ListsSound, OperandsApart
    <3> QED
      BY <3>1, <3>2, <1>0 DEF Inv, ListsSound, OperandsInside
  <2>2. \A p \in Positions : goal'[p] # Unresolved => p + WordSize <= size'
    BY <1>0 DEF Inv, ListsSound, OperandsInside
  <2>3. \A m \in Labels : IsBound(m)' => GetPos(m)' - OpSize \in 0..size'
    BY <1>0, <1>a, SizeAssumption DEF Inv, TypeOK, ListsSound, OperandsInside, IsBound, GetPos
  <2> QED BY <2>1, <2>2, <2>3 DEF OperandsInside
<1> QED
  BY <1>1, <1>2, <1>3, <1>4 DEF Inv, ListsSound

LEMMA InitInv == Init => Inv
<1> SUFFICES ASSUME Init PROVE Inv
  OBVIOUS
<1>1. TypeOK
  BY SizeAssumption DEF Init, TypeOK
<1>2. ListsThreaded
  <2>1. \A l \in Labels : open[l] = {}
    BY DEF Init
  <2>3. ASSUME NEW l \in Labels PROVE ~IsLinked(l)
    <3>1. pos[l] = 0
      BY DEF Init
    <3>2. ~(pos[l] > 0)
      BY <3>1
    <3> QED
      BY <3>2 DEF IsLinked
  <2>2. \A l \in Labels : Listed(l) \subseteq open[l]
    BY DEF Listed
  <2> QED
    BY <2>1, <2>2, <2>3 DEF ListsThreaded
<1>3. OperandsApart
  BY DEF Init, OperandsApart
<1>4. OperandsInside
  BY DEF Init, OperandsInside, IsBound
<1> QED
  BY <1>1, <1>2, <1>3, <1>4 DEF Inv, ListsSound

LEMMA NextInv == Inv /\ [Next]_vars => Inv'
<1> SUFFICES ASSUME Inv, [Next]_vars PROVE Inv'
  OBVIOUS
<1>1. CASE Emit
  BY <1>1, EmitInv
<1>2. ASSUME NEW l \in Labels, JumpAhead(l) PROVE Inv'
  BY <1>2, JumpAheadInv
<1>3. ASSUME NEW l \in Labels, JumpBack(l) PROVE Inv'
  BY <1>3, JumpBackInv
<1>4. ASSUME NEW l \in Labels, BindBegin(l) PROVE Inv'
  BY <1>4, BindBeginInv
<1>5. ASSUME NEW l \in Labels, BindLink(l) PROVE Inv'
  BY <1>5, BindLinkInv
<1>6. ASSUME NEW l \in Labels, BindEnd(l) PROVE Inv'
  BY <1>6, BindEndInv
<1>7. CASE UNCHANGED vars
  BY <1>7
  DEF vars, Inv, TypeOK, ListsSound, ListsThreaded, OperandsApart, OperandsInside, Listed,
      LinksToPrevious, IsBound, IsLinked, GetPos, GetLinkPos, Bound
<1> QED
  BY <1>1, <1>2, <1>3, <1>4, <1>5, <1>6, <1>7 DEF Next, ForwardNext

(***************************************************************************)
(* Whatever is emitted and bound, in whatever order, the code holds one    *)
(* well-formed list per label, of the jumps that wait for it.              *)
(***************************************************************************)
THEOREM Lists == Spec => [](TypeOK /\ ListsSound)
<1>1. Init => Inv
  BY InitInv
<1>2. Inv /\ [Next]_vars => Inv'
  BY NextInv
<1>3. Inv => TypeOK /\ ListsSound
  BY DEF Inv
<1> QED
  BY <1>1, <1>2, <1>3, PTL DEF Spec

(***************************************************************************)
(* Jumps.  While Bind walks a list it writes only operands whose label is  *)
(* not bound yet; when it ends, BoundJumpsLand.                            *)
(***************************************************************************)

LEMMA JumpsLandInit == Init => JumpsLand
  BY DEF Init, JumpsLand

LEMMA JumpsLandNext == ASSUME Inv, JumpsLand, [ForwardNext]_vars PROVE JumpsLand'
<1>1. CASE Emit
  BY <1>1 DEF Emit, JumpsLand
<1>2. ASSUME NEW l \in Labels, JumpAhead(l) PROVE JumpsLand'
  <2>1. \A p \in Positions : goal[p] # Unresolved => words'[p] = words[p]
    BY <1>2, FreshOperand DEF JumpAhead, EmitLabelLink, Inv, TypeOK
  <2> QED
    BY <1>2, <2>1 DEF JumpAhead, JumpsLand
<1>3. ASSUME NEW l \in Labels, BindBegin(l) PROVE JumpsLand'
  BY <1>3 DEF BindBegin, JumpsLand
<1>4. ASSUME NEW l \in Labels, BindLink(l) PROVE JumpsLand'
  <2>1. GetLinkPos(l) \in open[l] /\ GetLinkPos(l) \in Positions
    BY <1>4, Head DEF BindLink, Listed
  <2>2. goal[GetLinkPos(l)] = Unresolved
    BY <2>1 DEF Inv, ListsSound, OperandsInside
  <2>3. \A p \in Positions : goal[p] # Unresolved => words'[p] = words[p]
    BY <1>4, <2>1, <2>2 DEF BindLink, Inv, TypeOK
  <2> QED
    BY <1>4, <2>3 DEF BindLink, JumpsLand
<1>5. ASSUME NEW l \in Labels, BindEnd(l) PROVE JumpsLand'
  <2>1. goal' = [p \in Positions |-> IF p \in open[l] THEN size ELSE goal[p]] /\ words' = words
    BY <1>5 DEF BindEnd
  <2>2. \A p \in open[l] : p - OpSize + words[p] = size
    BY <1>5, BoundJumpsLand
  <2> QED
    BY <2>1, <2>2 DEF JumpsLand
<1>6. CASE UNCHANGED vars
  BY <1>6 DEF vars, JumpsLand
<1> QED
  BY <1>1, <1>2, <1>3, <1>4, <1>5, <1>6 DEF ForwardNext

(***************************************************************************)
(* As long as no label is bound before a jump to it, every jump to a bound *)
(* label takes the interpreter to where that label was bound.              *)
(***************************************************************************)
THEOREM Jumps == ForwardSpec => []JumpsLand
<1>1. Init => Inv /\ JumpsLand
  BY InitInv, JumpsLandInit
<1>2. Inv /\ JumpsLand /\ [ForwardNext]_vars => (Inv /\ JumpsLand)'
  BY NextInv, JumpsLandNext DEF Next
<1> QED
  BY <1>1, <1>2, PTL DEF ForwardSpec

(***************************************************************************)
(* The assembler implements JumpTable.                                     *)
(***************************************************************************)

reach == [p \in Positions |->
            IF goal[p] = Unresolved THEN Unresolved ELSE p - OpSize + words[p]]
place == [l \in Labels |-> IF IsBound(l) THEN GetPos(l) - OpSize ELSE Unresolved]

(* A step that leaves the bound labels alone leaves every place alone.     *)
LEMMA SamePlace ==
  ASSUME \A l \in Labels : (IsBound(l)' <=> IsBound(l)) /\ (IsBound(l) => GetPos(l)' = GetPos(l))
  PROVE  place' = place
  BY DEF place

(* A step that writes no operand of a bound label leaves every jump alone. *)
LEMMA SameReach ==
  ASSUME goal' = goal, \A p \in Positions : goal[p] # Unresolved => words'[p] = words[p]
  PROVE  reach' = reach
  BY DEF reach

LEMMA TableInit == Init => Table!Init
<1> SUFFICES ASSUME Init PROVE Table!Init
  OBVIOUS
<1>1. \A l \in Labels : ~IsBound(l)
  <2> SUFFICES ASSUME NEW l \in Labels PROVE ~IsBound(l)
    OBVIOUS
  <2>1. pos[l] = 0
    BY DEF Init
  <2>2. ~(pos[l] < 0)
    BY <2>1
  <2> QED
    BY <2>2 DEF IsBound
<1>2. place = [l \in Labels |-> Unresolved]
  BY <1>1 DEF place
<1>3. reach = [p \in Positions |-> Unresolved]
  BY DEF reach, Init
<1> QED
  BY <1>2, <1>3 DEF Init, Table!Init, Table!Unresolved, reach, place

LEMMA TableNext == ASSUME Inv, [ForwardNext]_vars PROVE [Table!Next]_(Table!vars)
<1>1. CASE Emit
  <2>1. size' > size /\ UNCHANGED <<words, pos, open, goal>>
    BY <1>1, SizeAssumption DEF Emit, Emitting, Inv, TypeOK
  <2>2. place' = place /\ reach' = reach
    BY <2>1, SamePlace, SameReach DEF IsBound, GetPos
  <2> QED
    BY <2>1, <2>2 DEF Table!Next, Table!Other, Table!Grow, reach, place
<1>2. ASSUME NEW l \in Labels, JumpAhead(l) PROVE Table!Next
  <2>1. PICK P : P = Operand
    OBVIOUS
  <2>2. P \in Positions /\ size' > size /\ size < P /\ P < size'
    BY <1>2, <2>1, SizeAssumption DEF JumpAhead, Emitting, Operand, Inv, TypeOK
  <2>3. /\ \A p \in Positions : goal[p] # Unresolved => p # P
        /\ words' = [words EXCEPT ![P] = pos[l]] /\ goal' = goal
        /\ pos' = [pos EXCEPT ![l] = P + WordSize]
        /\ open' = [open EXCEPT ![l] = @ \cup {P}] /\ ~IsBound(l)
    BY <1>2, <2>1, FreshOperand DEF JumpAhead, EmitLabelLink, LinkTo
  <2>4. place' = place
    <3>1. ~IsBound(l)'
      BY <2>2, <2>3, SizeAssumption DEF IsBound, Inv, TypeOK
    <3>2. \A m \in Labels \ {l} : pos'[m] = pos[m]
      BY <2>3 DEF Inv, TypeOK
    <3>3. \A m \in Labels \ {l} : (IsBound(m)' <=> IsBound(m)) /\ GetPos(m)' = GetPos(m)
      BY <3>2 DEF IsBound, GetPos
    <3>5. \A m \in Labels : (IsBound(m)' <=> IsBound(m)) /\ (IsBound(m) => GetPos(m)' = GetPos(m))
      BY <2>3, <3>1, <3>3
    <3> QED
      BY <3>5, SamePlace
  <2>5. reach' = reach
    BY <2>3, SameReach DEF Inv, TypeOK
  <2>6. place[l] = Unresolved
    BY <2>3 DEF place
  <2>7. Table!JumpAhead(l, P)
    BY <2>2, <2>3, <2>4, <2>5, <2>6 DEF Table!JumpAhead, Table!Grow, Table!Unresolved, reach, place
  <2> QED
    BY <2>2, <2>7 DEF Table!Next
<1>3. ASSUME NEW l \in Labels, BindBegin(l) PROVE UNCHANGED Table!vars
  <2>1. UNCHANGED <<size, words, pos, open, goal>>
    BY <1>3 DEF BindBegin
  <2>2. place' = place /\ reach' = reach
    BY <2>1, SamePlace, SameReach DEF IsBound, GetPos
  <2> QED
    BY <2>1, <2>2 DEF Table!vars, reach, place
<1>4. ASSUME NEW l \in Labels, BindLink(l) PROVE UNCHANGED Table!vars
  <2>1. UNCHANGED <<size, open, goal>>
    BY <1>4 DEF BindLink
  <2>2. /\ GetLinkPos(l) \in open[l] /\ GetLinkPos(l) \in Positions
        /\ words[GetLinkPos(l)] \in Nat
    BY <1>4, Head DEF BindLink, Listed
  <2>3. goal[GetLinkPos(l)] = Unresolved
    BY <2>2 DEF Inv, ListsSound, OperandsInside
  <2>4. reach' = reach
    BY <1>4, <2>1, <2>2, <2>3, SameReach DEF BindLink, Inv, TypeOK
  <2>5. place' = place
    <3>1. ~IsBound(l) /\ pos'[l] = words[GetLinkPos(l)]
      BY <1>4 DEF BindLink, IsBound, IsLinked, Inv, TypeOK
    <3>2. ~IsBound(l)'
      BY <2>2, <3>1 DEF IsBound
    <3>3. \A m \in Labels \ {l} : pos'[m] = pos[m]
      BY <1>4 DEF BindLink, Inv, TypeOK
    <3>4. \A m \in Labels \ {l} : (IsBound(m)' <=> IsBound(m)) /\ GetPos(m)' = GetPos(m)
      BY <3>3 DEF IsBound, GetPos
    <3>5. \A m \in Labels : (IsBound(m)' <=> IsBound(m)) /\ (IsBound(m) => GetPos(m)' = GetPos(m))
      BY <3>1, <3>2, <3>4
    <3> QED
      BY <3>5, SamePlace
  <2> QED
    BY <2>1, <2>4, <2>5 DEF Table!vars, reach, place
<1>5. ASSUME NEW l \in Labels, BindEnd(l) PROVE Table!Next
  <2>1. /\ UNCHANGED <<size, words>> /\ open' = [open EXCEPT ![l] = {}]
        /\ goal' = [p \in Positions |-> IF p \in open[l] THEN size ELSE goal[p]]
        /\ pos' = [pos EXCEPT ![l] = -(size + OpSize) - WordSize]
    BY <1>5 DEF BindEnd, BindTo, Bound
  <2>2. size \in Positions /\ size # Unresolved
    BY SizeAssumption DEF Inv, TypeOK
  <2>3. \A p \in open[l] : p - OpSize + words[p] = size
    BY <1>5, BoundJumpsLand
  <2>4. reach' = [p \in Positions |-> IF p \in open[l] THEN size ELSE reach[p]]
    BY <2>1, <2>2, <2>3 DEF reach
  <2>5. place' = [place EXCEPT ![l] = size]
    <3>1. IsBound(l)' /\ GetPos(l)' - OpSize = size
      BY <2>1, <2>2, SizeAssumption DEF IsBound, GetPos, Inv, TypeOK
    <3>2. \A m \in Labels \ {l} : pos'[m] = pos[m]
      BY <2>1 DEF Inv, TypeOK
    <3>3. \A m \in Labels \ {l} : (IsBound(m)' <=> IsBound(m)) /\ GetPos(m)' = GetPos(m)
      BY <3>2 DEF IsBound, GetPos
    <3> QED
      BY <3>1, <3>3 DEF place
  <2>6. Table!Place(l)
    BY <2>1, <2>4, <2>5 DEF Table!Place, reach, place
  <2> QED
    BY <2>6 DEF Table!Next
<1>6. CASE UNCHANGED vars
  <2>1. place' = place /\ reach' = reach
    BY <1>6, SamePlace, SameReach DEF vars, IsBound, GetPos
  <2> QED
    BY <1>6, <2>1 DEF vars, Table!vars, reach, place
<1> QED
  BY <1>1, <1>2, <1>3, <1>4, <1>5, <1>6 DEF ForwardNext

(***************************************************************************)
(* Placing a label takes the jumps that wait for it along, whatever way    *)
(* they are threaded through the code, and disturbs no other jump.         *)
(***************************************************************************)
THEOREM Refinement == ForwardSpec => ImplementsTable
<1>1. Init => Inv /\ Table!Init
  BY InitInv, TableInit
<1>2. Inv /\ [ForwardNext]_vars => Inv'
  BY NextInv DEF Next
<1>3. Inv /\ [ForwardNext]_vars => [Table!Next]_(Table!vars)
  BY TableNext
<1> QED
  BY <1>1, <1>2, <1>3, PTL DEF ForwardSpec, ImplementsTable, Table!Spec

=============================================================================

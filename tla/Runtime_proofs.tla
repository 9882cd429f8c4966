--------------------------- MODULE Runtime_proofs ---------------------------
(***************************************************************************)
(* Proofs about Runtime for every set of lambdas, natives and programs.    *)
(***************************************************************************)
EXTENDS Runtime, TLAPS

USE DEF Procs

(***************************************************************************)
(* Sequences                                                               *)
(***************************************************************************)

(* The elements of a sequence with one element replaced.                   *)
LEMMA ReplaceLemma ==
  ASSUME NEW S, NEW s \in Seq(S), NEW i \in 1..Len(s), NEW x \in S
  PROVE  /\ [s EXCEPT ![i] = x] \in Seq(S)
         /\ Len([s EXCEPT ![i] = x]) = Len(s)
         /\ [s EXCEPT ![i] = x][i] = x
         /\ \A j \in 1..Len(s) : j # i => [s EXCEPT ![i] = x][j] = s[j]
  OBVIOUS

(* The elements of a sequence with one element added at its end.           *)
LEMMA AppendLemma ==
  ASSUME NEW S, NEW s \in Seq(S), NEW x \in S
  PROVE  /\ Append(s, x) \in Seq(S)
         /\ Len(Append(s, x)) = Len(s) + 1
         /\ Append(s, x)[Len(s) + 1] = x
         /\ \A j \in 1..Len(s) : Append(s, x)[j] = s[j]
  OBVIOUS

(* The elements of a prefix of a sequence.                                 *)
LEMMA PrefixLemma ==
  ASSUME NEW S, NEW s \in Seq(S), NEW n \in 0..Len(s)
  PROVE  /\ SubSeq(s, 1, n) \in Seq(S)
         /\ Len(SubSeq(s, 1, n)) = n
         /\ \A j \in 1..n : SubSeq(s, 1, n)[j] = s[j]
  OBVIOUS

(* The elements of a sequence without its first.                           *)
LEMMA TailLemma ==
  ASSUME NEW S, NEW s \in Seq(S), s # <<>>
  PROVE  s[1] \in S /\ Tail(s) \in Seq(S)
  OBVIOUS

(* The last element of a nonempty sequence.                                *)
LEMMA LastLemma ==
  ASSUME NEW S, NEW s \in Seq(S), s # <<>>
  PROVE  Len(s) \in 1..Len(s) /\ s[Len(s)] \in S
  OBVIOUS

(***************************************************************************)
(* Frames                                                                  *)
(***************************************************************************)

(* t has the frames of s, but for their operands, phases and calls.        *)
SameFrames(s, t) ==
  /\ Len(t) = Len(s)
  /\ \A i \in 1..Len(s) : /\ t[i].id = s[i].id
                          /\ t[i].proc = s[i].proc
                          /\ t[i].locals = s[i].locals
                          /\ t[i].ret = s[i].ret
                          /\ t[i].discard = s[i].discard

(* The stack s with one field of frame n changed.                          *)
SetOps(s, n, o)    == [s EXCEPT ![n].ops = o]
SetPhase(s, n, ph) == [s EXCEPT ![n].phase = ph]
SetCalls(s, n, c)  == [s EXCEPT ![n].calls = c]

(* The fields of a frame.                                                  *)
LEMMA FrameLemma ==
  ASSUME NEW fr \in Frame
  PROVE  /\ fr.proc \in Procs /\ fr.ret \in Address \cup {NoAddress}
         /\ fr.ops \in Seq(Value) /\ fr.calls \in Seq(Call)
         /\ fr.phase \in Phase /\ fr.discard \in BOOLEAN
  BY DEF Frame

(* A frame whose operand stack changes.                                    *)
LEMMA OpsLemma ==
  ASSUME NEW s \in Seq(Frame), NEW n \in 1..Len(s), NEW o \in Seq(Value)
  PROVE  /\ SetOps(s, n, o) \in Seq(Frame)
         /\ SameFrames(s, SetOps(s, n, o))
         /\ SetOps(s, n, o)[n].ops = o
         /\ \A i \in 1..Len(s) : SetOps(s, n, o)[i].phase = s[i].phase
         /\ \A i \in 1..Len(s) : SetOps(s, n, o)[i].calls = s[i].calls
         /\ \A i \in 1..Len(s) : i # n => SetOps(s, n, o)[i] = s[i]
<1>1. s[n] \in Frame
  OBVIOUS
<1> DEFINE fr == [s[n] EXCEPT !.ops = o]
<1>2. fr \in Frame
  BY <1>1 DEF Frame
<1>3. /\ fr.id = s[n].id
      /\ fr.proc = s[n].proc
      /\ fr.locals = s[n].locals
      /\ fr.ret = s[n].ret /\ fr.discard = s[n].discard
      /\ fr.ops = o /\ fr.phase = s[n].phase /\ fr.calls = s[n].calls
  BY <1>1 DEF Frame
<1>4. SetOps(s, n, o) = [s EXCEPT ![n] = fr]
  BY DEF SetOps
<1> HIDE DEF fr
<1>5. /\ [s EXCEPT ![n] = fr] \in Seq(Frame)
      /\ Len([s EXCEPT ![n] = fr]) = Len(s)
      /\ [s EXCEPT ![n] = fr][n] = fr
      /\ \A j \in 1..Len(s) : j # n => [s EXCEPT ![n] = fr][j] = s[j]
  BY <1>2, ReplaceLemma
<1> QED
  BY <1>3, <1>4, <1>5 DEF SameFrames

(* A frame whose phase changes.                                            *)
LEMMA PhaseLemma ==
  ASSUME NEW s \in Seq(Frame), NEW n \in 1..Len(s), NEW ph \in Phase
  PROVE  /\ SetPhase(s, n, ph) \in Seq(Frame)
         /\ SameFrames(s, SetPhase(s, n, ph))
         /\ SetPhase(s, n, ph)[n].phase = ph
         /\ \A i \in 1..Len(s) : SetPhase(s, n, ph)[i].ops = s[i].ops
         /\ \A i \in 1..Len(s) : i # n => SetPhase(s, n, ph)[i] = s[i]
<1>1. s[n] \in Frame
  OBVIOUS
<1> DEFINE fr == [s[n] EXCEPT !.phase = ph]
<1>2. fr \in Frame
  BY <1>1 DEF Frame
<1>3. /\ fr.id = s[n].id
      /\ fr.proc = s[n].proc
      /\ fr.locals = s[n].locals
      /\ fr.ret = s[n].ret /\ fr.discard = s[n].discard
      /\ fr.ops = s[n].ops /\ fr.phase = ph
  BY <1>1 DEF Frame
<1>4. SetPhase(s, n, ph) = [s EXCEPT ![n] = fr]
  BY DEF SetPhase
<1> HIDE DEF fr
<1>5. /\ [s EXCEPT ![n] = fr] \in Seq(Frame)
      /\ Len([s EXCEPT ![n] = fr]) = Len(s)
      /\ [s EXCEPT ![n] = fr][n] = fr
      /\ \A j \in 1..Len(s) : j # n => [s EXCEPT ![n] = fr][j] = s[j]
  BY <1>2, ReplaceLemma
<1> QED
  BY <1>3, <1>4, <1>5 DEF SameFrames

(* A frame whose remaining calls change.                                   *)
LEMMA CallsLemma ==
  ASSUME NEW s \in Seq(Frame), NEW n \in 1..Len(s), NEW c \in Seq(Call)
  PROVE  /\ SetCalls(s, n, c) \in Seq(Frame)
         /\ SameFrames(s, SetCalls(s, n, c))
         /\ \A i \in 1..Len(s) : /\ SetCalls(s, n, c)[i].ops = s[i].ops
                                 /\ SetCalls(s, n, c)[i].phase = s[i].phase
<1>1. s[n] \in Frame
  OBVIOUS
<1> DEFINE fr == [s[n] EXCEPT !.calls = c]
<1>2. fr \in Frame
  BY <1>1 DEF Frame
<1>3. /\ fr.id = s[n].id
      /\ fr.proc = s[n].proc
      /\ fr.locals = s[n].locals
      /\ fr.ret = s[n].ret /\ fr.discard = s[n].discard
      /\ fr.ops = s[n].ops /\ fr.phase = s[n].phase
  BY <1>1 DEF Frame
<1>4. SetCalls(s, n, c) = [s EXCEPT ![n] = fr]
  BY DEF SetCalls
<1> HIDE DEF fr
<1>5. /\ [s EXCEPT ![n] = fr] \in Seq(Frame)
      /\ Len([s EXCEPT ![n] = fr]) = Len(s)
      /\ [s EXCEPT ![n] = fr][n] = fr
      /\ \A j \in 1..Len(s) : j # n => [s EXCEPT ![n] = fr][j] = s[j]
  BY <1>2, ReplaceLemma
<1> QED
  BY <1>3, <1>4, <1>5 DEF SameFrames

(***************************************************************************)
(* The inductive invariant: neither the scopes nor the addresses can be    *)
(* shown to match the frames without the types of both.                    *)
(***************************************************************************)
Inv == TypeOK /\ ScopesMatchFrames /\ ContinuesInOwnCode

(* A step that leaves the frames, the scope and the mode as they are, and  *)
(* moves the address within the code it is in, keeps the invariants.       *)
LEMMA SameFramesLemma ==
  ASSUME Inv, Depth > 0, SameFrames(stack, stack'), stack' \in Seq(Frame),
         scope' = scope, mode' = mode, current' \in Address, current'.proc = current.proc,
         Running("run") \/ current' = current
  PROVE  ScopesMatchFrames' /\ ContinuesInOwnCode'
<1> USE DEF Inv
<1>1. Depth \in Nat /\ Depth' = Depth
  BY DEF TypeOK, Depth, SameFrames
<1>2. ScopesMatchFrames'
  BY <1>1 DEF ScopesMatchFrames, BaseScope, SameFrames, Depth
<1>3. ContinuesInOwnCode'
  <2> SUFFICES ASSUME NEW i \in 1..Depth
               PROVE  /\ Continues(i)' # NoAddress
                      /\ stack[i].proc \in Lambdas => Continues(i)'.proc = stack[i].proc
                      /\ stack[i].proc \in Natives => i > 1 /\ Continues(i)' = Continues(i - 1)'
    BY <1>1 DEF ContinuesInOwnCode, SameFrames, Depth
  <2>1. \A j \in 1..Depth : Continues(j)' = IF j = Depth THEN current' ELSE Continues(j)
    BY <1>1 DEF Continues, SameFrames, Depth
  <2>2. current' # NoAddress
    BY AddressAssumption
  <2>3. CASE i # Depth
    BY <1>1, <2>1, <2>3 DEF ContinuesInOwnCode
  <2>4. CASE i = Depth
    <3>1. stack[i].proc \in Lambdas => current'.proc = stack[i].proc
      BY <2>4 DEF ContinuesInOwnCode, Continues
    <3>2. stack[i].proc \in Natives => i > 1 /\ current' = Continues(i - 1)
      BY <1>1, <2>4 DEF TypeOK, ContinuesInOwnCode, Continues, Top, Running
    <3> QED
      BY <1>1, <2>1, <2>2, <2>4, <3>1, <3>2
  <2> QED
    BY <2>3, <2>4
<1> QED
  BY <1>2, <1>3

(* A call made from the innermost frame.                                   *)
LEMMA NestedCallLemma ==
  ASSUME Inv, Depth > 0, mode # "aborted", mode' = mode,
         NEW below \in Seq(Frame), SameFrames(stack, below),
         \A i \in 1..Depth : below[i].phase = stack[i].phase,
         NEW p \in Procs, NEW addr \in Address, NEW d \in BOOLEAN,
         addr.proc = current.proc, Running("run") \/ addr = current,
         CallProc(below, p, scope, addr, d)
  PROVE  /\ stack' \in Seq(Frame) /\ Depth' = Depth + 1
         /\ \A i \in 1..Depth' : stack'[i].proc \in Natives <=> stack'[i].phase \in {"apply", "applied"}
         /\ scope' \in Nat /\ current' \in Address
         /\ ScopesMatchFrames' /\ ContinuesInOwnCode'
<1> USE DEF Inv
<1>1. Depth \in Nat /\ Len(below) = Depth /\ below # <<>>
  BY DEF TypeOK, Depth, SameFrames
<1> DEFINE fr == NewFrame(p, below[Depth].id + 1, scope + 1, addr, d)
<1>2. below[Depth].id = Depth /\ scope \in Nat /\ scope = BaseScope + Depth
  BY <1>1 DEF TypeOK, ScopesMatchFrames, SameFrames, Depth
<1>3. fr \in Frame
  BY <1>2, <1>1 DEF NewFrame, Frame, Phase
<1>4. /\ fr.id = Depth + 1 /\ fr.proc = p /\ fr.locals = scope + 1 /\ fr.ret = addr
      /\ fr.phase = IF p \in Lambdas THEN "run" ELSE "apply"
  BY <1>2 DEF NewFrame
<1>5. stack' = Append(below, fr) /\ scope' = scope + 1
      /\ current' = IF p \in Lambdas THEN [proc |-> p, pc |-> 1] ELSE addr
  BY <1>1 DEF CallProc
<1> HIDE DEF fr
<1>6. /\ stack' \in Seq(Frame) /\ Depth' = Depth + 1 /\ stack'[Depth + 1] = fr
      /\ \A i \in 1..Depth : stack'[i] = below[i]
  BY <1>1, <1>3, <1>5, AppendLemma DEF Depth
<1>7. \A i \in 1..Depth' : stack'[i].proc \in Natives <=> stack'[i].phase \in {"apply", "applied"}
  <2>1. \A i \in 1..Depth : stack'[i].proc \in Natives <=> stack'[i].phase \in {"apply", "applied"}
    BY <1>1, <1>6 DEF TypeOK, SameFrames, Depth
  <2>2. p \in Natives <=> fr.phase \in {"apply", "applied"}
    BY <1>4, KindsAssumption
  <2> QED
    BY <1>1, <1>4, <1>6, <2>1, <2>2
<1>8. scope' \in Nat /\ current' \in Address
  BY <1>2, <1>5 DEF Address
<1>9. ScopesMatchFrames'
  <2>1. BaseScope' = BaseScope
    BY DEF BaseScope
  <2>2. BaseScope \in Nat
    BY DEF BaseScope
  <2>0. \A i \in 1..Depth : stack'[i].locals = BaseScope' + i /\ stack'[i].id = i
    BY <1>1, <1>6, <2>1 DEF ScopesMatchFrames, SameFrames, Depth
  <2>3. \A i \in 1..Depth' : stack'[i].locals = BaseScope' + i /\ stack'[i].id = i
    <3>1. stack'[Depth + 1].locals = BaseScope' + (Depth + 1) /\ stack'[Depth + 1].id = Depth + 1
      BY <1>1, <1>2, <1>4, <1>6, <2>1, <2>2
    <3>2. ASSUME NEW i \in 1..Depth'
          PROVE  i \in 1..Depth \/ i = Depth + 1
      BY <1>1, <1>6
    <3> QED
      BY <2>0, <3>1, <3>2
  <2>4. mode' # "idle"
    BY <1>1 DEF ScopesMatchFrames
  <2>5. scope' = BaseScope' + Depth'
    BY <1>1, <1>2, <1>5, <1>6, <2>1, <2>2
  <2> QED
    BY <2>3, <2>4, <2>5 DEF ScopesMatchFrames
<1>10. ContinuesInOwnCode'
  <2>0. PICK n \in Nat : n = Depth
    BY <1>1
  <2>1. current' # NoAddress /\ addr # NoAddress
    BY <1>8, AddressAssumption
  <2>2. /\ Continues(n + 1)' = current'
        /\ Continues(n)' = addr
        /\ \A i \in 1..(Depth - 1) : Continues(i)' = Continues(i)
    <3>1. Continues(n + 1)' = current'
      BY <1>1, <1>6, <2>0 DEF Continues
    <3>2. \A i \in 1..Depth : Continues(i)' = stack'[i + 1].ret
      BY <1>1, <1>6 DEF Continues
    <3>3. \A i \in 1..(Depth - 1) : stack'[i + 1].ret = stack[i + 1].ret
      BY <1>1, <1>6 DEF SameFrames, Depth
    <3>4. \A i \in 1..(Depth - 1) : Continues(i) = stack[i + 1].ret
      BY <1>1 DEF Continues
    <3>5. Continues(n)' = addr
      BY <1>1, <1>4, <1>6, <2>0 DEF Continues
    <3>6. \A i \in 1..(Depth - 1) : Continues(i)' = Continues(i)
      BY <1>1, <3>2, <3>3, <3>4
    <3> QED
      BY <3>1, <3>5, <3>6
  <2>3. p \in Lambdas => current'.proc = p
    BY <1>5
  <2>4. p \in Natives => current' = addr
    BY <1>5, KindsAssumption
  <2>5. /\ stack[Depth].proc \in Lambdas => addr.proc = stack[Depth].proc
        /\ stack[Depth].proc \in Natives => Depth > 1 /\ addr = Continues(Depth - 1)
    <3>1. Continues(Depth) = current
      BY DEF Continues
    <3>2. stack[Depth].proc \in Natives => addr = current
      BY <1>1, SMTT(30) DEF TypeOK, Top, Running
    <3>3. /\ stack[Depth].proc \in Lambdas => Continues(Depth).proc = stack[Depth].proc
          /\ stack[Depth].proc \in Natives => Depth > 1 /\ Continues(Depth) = Continues(Depth - 1)
      BY <1>1 DEF ContinuesInOwnCode
    <3> QED
      BY <3>1, <3>2, <3>3
  <2> SUFFICES ASSUME NEW i \in 1..Depth'
               PROVE  /\ Continues(i)' # NoAddress
                      /\ stack'[i].proc \in Lambdas => Continues(i)'.proc = stack'[i].proc
                      /\ stack'[i].proc \in Natives => i > 1 /\ Continues(i)' = Continues(i - 1)'
    BY DEF ContinuesInOwnCode
  <2>6. CASE i = Depth + 1
    <3>1. stack'[i].proc = p
      BY <1>4, <1>6, <2>6
    <3>2. Continues(i)' = current' /\ Continues(i - 1)' = addr /\ i > 1
      BY <1>1, <2>0, <2>2, <2>6
    <3> QED
      BY <2>1, <2>3, <2>4, <3>1, <3>2
  <2>7. CASE i = Depth
    <3>1. stack'[i].proc = stack[Depth].proc
      BY <1>1, <1>6, <2>7 DEF SameFrames, Depth
    <3>2. Continues(i)' = addr /\ (i > 1 => Continues(i - 1)' = Continues(i - 1))
      BY <1>1, <2>0, <2>2, <2>7
    <3> QED
      BY <2>1, <2>5, <2>7, <3>1, <3>2
  <2>8. CASE i < Depth
    <3>1. stack'[i].proc = stack[i].proc /\ Continues(i)' = Continues(i)
      BY <1>1, <1>6, <2>2, <2>8 DEF SameFrames, Depth
    <3>2. i > 1 => Continues(i - 1)' = Continues(i - 1)
      BY <1>1, <2>2, <2>8
    <3> QED
      BY <1>1, <2>8, <3>1, <3>2 DEF ContinuesInOwnCode
  <2> QED
    BY <1>1, <1>6, <2>6, <2>7, <2>8
<1> QED
  BY <1>6, <1>7, <1>8, <1>9, <1>10

(* The first call of an evaluation.                                        *)
LEMMA FirstCallLemma ==
  ASSUME Inv, mode = "idle", mode' \in {"eval", "exec"}, NEW p \in Lambdas,
         CallProc(<<>>, p, IF mode' = "eval" THEN scope + 1 ELSE scope, current, FALSE)
  PROVE  /\ stack' \in Seq(Frame) /\ Depth' = 1
         /\ \A i \in 1..Depth' : stack'[i].proc \in Natives <=> stack'[i].phase \in {"apply", "applied"}
         /\ scope' \in Nat /\ current' \in Address
         /\ ScopesMatchFrames' /\ ContinuesInOwnCode'
<1> DEFINE parent == IF mode' = "eval" THEN scope + 1 ELSE scope
           fr == NewFrame(p, 1, parent + 1, current, FALSE)
<1>1. scope = 0 /\ parent = BaseScope' /\ parent \in Nat
  BY DEF Inv, TypeOK, ScopesMatchFrames, BaseScope
<1>2. current \in Address \cup {NoAddress}
  BY DEF Inv, TypeOK
<1>3. fr \in Frame /\ fr.proc = p /\ fr.phase = "run" /\ fr.locals = parent + 1 /\ fr.id = 1
  BY <1>1, <1>2 DEF NewFrame, Frame, Phase
<1>4. stack' = <<fr>> /\ scope' = parent + 1 /\ current' = [proc |-> p, pc |-> 1]
  BY DEF CallProc
<1> HIDE DEF fr, parent
<1>5. stack' \in Seq(Frame) /\ Depth' = 1 /\ stack'[1] = fr
  BY <1>3, <1>4 DEF Depth
<1>6. current' \in Address /\ current'.proc = p /\ current' # NoAddress
  BY <1>4, AddressAssumption DEF Address
<1>7. p \notin Natives
  BY KindsAssumption
<1>8. ScopesMatchFrames'
  BY <1>1, <1>3, <1>4, <1>5 DEF ScopesMatchFrames
<1>9. ContinuesInOwnCode'
  BY <1>3, <1>5, <1>6, <1>7 DEF ContinuesInOwnCode, Continues
<1>10. \A i \in 1..Depth' : stack'[i].proc \in Natives <=> stack'[i].phase \in {"apply", "applied"}
  BY <1>3, <1>5, <1>7
<1>11. scope' \in Nat
  BY <1>1, <1>4 DEF parent
<1> QED
  BY <1>5, <1>6, <1>8, <1>9, <1>10, <1>11

(* A return, from a lambda or from a native.                               *)
LEMMA ReturnLemma ==
  ASSUME Inv, Depth > 0, mode # "aborted", Return
  PROVE  Inv'
<1> USE DEF Inv
<1>1. Depth \in Nat /\ stack \in Seq(Frame) /\ Depth = Len(stack) /\ stack # <<>>
  BY DEF TypeOK, Depth
<1>2. Top \in Frame /\ Top.ops \in Seq(Value) /\ Top.ret \in Address \cup {NoAddress}
  <2>1. Top \in Frame
    BY <1>1 DEF Top
  <2> QED
    BY <2>1, FrameLemma
<1> DEFINE below == Below
           value == Result
<1>3. /\ below \in Seq(Frame) /\ Len(below) = Depth - 1
      /\ \A i \in 1..(Depth - 1) : below[i] = stack[i]
  BY <1>1, PrefixLemma DEF Below
<1>4. value \in Value
  BY <1>2, LastLemma DEF Value, Result
<1>5. /\ stack' = IF below = <<>> \/ Top.discard THEN below
                  ELSE [below EXCEPT ![Depth - 1].ops = Append(@, value)]
      /\ result' = IF below = <<>> THEN value ELSE result
      /\ current' = IF Top.ret # NoAddress THEN Top.ret ELSE current
      /\ scope' = scope - 1
  BY DEF Return, PopFrame, RestoreAddress, PopScope
<1> HIDE DEF below, value
<1>6. /\ stack' \in Seq(Frame) /\ SameFrames(below, stack')
      /\ \A i \in 1..(Depth - 1) : stack'[i].phase = stack[i].phase
  <2>1. CASE below = <<>> \/ Top.discard
    BY <1>3, <1>5, <2>1 DEF SameFrames
  <2>2. CASE ~(below = <<>> \/ Top.discard)
    <3>1. Depth - 1 \in 1..Len(below)
      BY <1>1, <1>3, <2>2
    <3>2. below[Depth - 1].ops \in Seq(Value)
      BY <1>3, <3>1, FrameLemma
    <3>3. Append(below[Depth - 1].ops, value) \in Seq(Value)
      BY <1>4, <3>2
    <3>4. stack' = [below EXCEPT ![Depth - 1].ops = Append(below[Depth - 1].ops, value)]
      BY <1>5, <2>2
    <3> DEFINE m == Depth - 1
               o == Append(below[m].ops, value)
    <3>7. m \in 1..Len(below) /\ o \in Seq(Value)
      BY <3>1, <3>3
    <3> HIDE DEF m, o
    <3>8. below \in Seq(Frame)
      BY <1>3
    <3>5. /\ SetOps(below, m, o) \in Seq(Frame)
          /\ SameFrames(below, SetOps(below, m, o))
          /\ \A i \in 1..Len(below) : SetOps(below, m, o)[i].phase = below[i].phase
      BY <3>7, <3>8, OpsLemma
    <3>6. stack' = SetOps(below, m, o)
      BY <3>4 DEF m, o, SetOps
    <3> QED
      BY <1>3, <3>5, <3>6
  <2> QED
    BY <2>1, <2>2
<1>7. /\ Depth' = Depth - 1
      /\ \A i \in 1..(Depth - 1) : /\ stack'[i].id = stack[i].id
                                   /\ stack'[i].proc = stack[i].proc
                                   /\ stack'[i].locals = stack[i].locals
                                   /\ stack'[i].ret = stack[i].ret
  BY <1>1, <1>3, <1>6 DEF SameFrames, Depth
<1>8. UNCHANGED <<program, mode, timers, requests, evals>>
  BY DEF Return
<1>9. current \in Address /\ current' \in Address \cup {NoAddress}
  <2>1. Continues(Depth) = current /\ current # NoAddress
    BY <1>1 DEF ContinuesInOwnCode, Continues
  <2> QED
    BY <1>2, <1>5, <2>1 DEF TypeOK
<1>10. Depth > 1 => current' = Continues(Depth - 1)
  BY <1>1, <1>5 DEF ContinuesInOwnCode, Continues, Top
<1>11. ScopesMatchFrames' /\ scope' \in Nat
  <2>1. BaseScope' = BaseScope /\ BaseScope \in Nat
    BY <1>8 DEF BaseScope
  <2>2. mode # "idle" /\ scope = BaseScope + Depth
    BY <1>1 DEF ScopesMatchFrames
  <2>3. scope' = BaseScope' + Depth' /\ scope' \in Nat
    BY <1>1, <1>5, <1>7, <2>1, <2>2
  <2>4. \A i \in 1..Depth' : stack'[i].locals = BaseScope' + i /\ stack'[i].id = i
    BY <1>1, <1>7, <2>1, SMTT(30) DEF ScopesMatchFrames
  <2> QED
    BY <1>8, <2>2, <2>3, <2>4 DEF ScopesMatchFrames
<1>12. ContinuesInOwnCode'
  <2>1. \A i \in 1..(Depth - 1) : Continues(i)' = Continues(i)
    BY <1>1, <1>7, <1>10 DEF Continues
  <2> SUFFICES ASSUME NEW i \in 1..(Depth - 1)
               PROVE  /\ Continues(i)' # NoAddress
                      /\ stack[i].proc \in Lambdas => Continues(i)'.proc = stack[i].proc
                      /\ stack[i].proc \in Natives => i > 1 /\ Continues(i)' = Continues(i - 1)'
    BY <1>7 DEF ContinuesInOwnCode
  <2>2. Continues(i)' = Continues(i) /\ (i > 1 => Continues(i - 1)' = Continues(i - 1))
    BY <1>1, <2>1
  <2> QED
    BY <1>1, <2>2 DEF ContinuesInOwnCode
<1>13. TypeOK'
  <2>1. \A i \in 1..Depth' : stack'[i].proc \in Natives <=> stack'[i].phase \in {"apply", "applied"}
    <3>1. \A i \in 1..Depth : stack[i].proc \in Natives <=> stack[i].phase \in {"apply", "applied"}
      BY DEF TypeOK
    <3> QED
      BY <1>1, <1>6, <1>7, <3>1
  <2>2. result' \in Value
    BY <1>4, <1>5 DEF TypeOK
  <2> QED
    BY <1>6, <1>8, <1>9, <1>11, <2>1, <2>2 DEF TypeOK
<1> QED
  BY <1>11, <1>12, <1>13

(***************************************************************************)
(* The event loop's tables                                                 *)
(***************************************************************************)

Timers   == TimersOf(Procs)
Requests == RequestsOf(Procs)

(* A map over a sequence is a sequence.                                    *)
LEMMA MapLemma ==
  ASSUME NEW S, NEW T, NEW s \in Seq(S), NEW m, DOMAIN m = DOMAIN s,
         m = [i \in DOMAIN m |-> m[i]], \A i \in DOMAIN s : m[i] \in T
  PROVE  m \in Seq(T) /\ Len(m) = Len(s)
  OBVIOUS

(* What timer natives and passes of the event loop do to the timers.       *)
LEMMA TimersLemma ==
  ASSUME NEW ts \in Seq(Timers), NEW t \in 1..Len(ts), NEW rep \in BOOLEAN
  PROVE  /\ Start(ts, t, rep) \in Seq(Timers)
         /\ Stop(ts, t) \in Seq(Timers)
         /\ Again(ts, t) \in Seq(Timers)
         /\ SetRepeat(ts, t, rep) \in Seq(Timers)
         /\ Dequeue(ts, t) \in Seq(Timers)
<1> DEFINE x == ts[t]
<1>1. x \in Timers
  OBVIOUS
<1> DEFINE started == [x EXCEPT !.repeat = rep, !.state = "active", !.pass = 0]
           again   == [x EXCEPT !.repeat = TRUE, !.state = "active", !.pass = 0]
           stopped == [x EXCEPT !.state = "idle", !.pass = 0]
           set     == [x EXCEPT !.repeat = rep]
           fired   == [x EXCEPT !.state = IF x.repeat THEN "active" ELSE "idle", !.pass = 0]
<1>2. started \in Timers /\ again \in Timers /\ stopped \in Timers /\ set \in Timers
      /\ fired \in Timers
  BY <1>1 DEF Timers, TimersOf, TimerState
<1>3. /\ Start(ts, t, rep) = [ts EXCEPT ![t] = started]
      /\ Start(ts, t, TRUE) = [ts EXCEPT ![t] = again]
      /\ Stop(ts, t) = [ts EXCEPT ![t] = stopped]
      /\ SetRepeat(ts, t, rep) = [ts EXCEPT ![t] = set]
      /\ Dequeue(ts, t) = [ts EXCEPT ![t] = fired]
  BY DEF Start, Stop, SetRepeat, Dequeue
<1> HIDE DEF started, again, stopped, set, fired
<1>4. \A y \in Timers : [ts EXCEPT ![t] = y] \in Seq(Timers)
  BY ReplaceLemma
<1> QED
  BY <1>2, <1>3, <1>4 DEF Again

(* A new timer.                                                            *)
LEMMA CreateTimerLemma ==
  ASSUME NEW ts \in Seq(Timers), NEW p \in Procs, NEW rep \in BOOLEAN
  PROVE  CreateTimer(ts, p, rep) \in Seq(Timers)
<1>1. [tick |-> p, repeat |-> rep, state |-> "active", pass |-> 0] \in Timers
  BY DEF Timers, TimersOf, TimerState
<1> QED
  BY <1>1, AppendLemma DEF CreateTimer

(* The timers a pass takes off the heap.                                   *)
LEMMA QueueTimersLemma ==
  ASSUME NEW ts \in Seq(Timers), NEW due, NEW id \in Nat
  PROVE  QueueTimers(ts, due, id) \in Seq(Timers)
<1> DEFINE m == QueueTimers(ts, due, id)
<1>1. DOMAIN m = DOMAIN ts /\ m = [i \in DOMAIN m |-> m[i]]
  BY DEF QueueTimers
<1>2. \A i \in DOMAIN ts : m[i] = IF i \in due THEN [ts[i] EXCEPT !.state = "queued", !.pass = id]
                                               ELSE ts[i]
  BY DEF QueueTimers
<1>3. \A i \in DOMAIN ts : ts[i] \in Timers
  OBVIOUS
<1>4. \A x \in Timers : [x EXCEPT !.state = "queued", !.pass = id] \in Timers
  BY DEF Timers, TimersOf, TimerState
<1>5. \A i \in DOMAIN ts : m[i] \in Timers
  BY <1>2, <1>3, <1>4
<1> HIDE DEF m
<1> QED
  BY <1>1, <1>5, MapLemma DEF m

(* What passes of the event loop do to the requests.                       *)
LEMMA QueueRequestsLemma ==
  ASSUME NEW rs \in Seq(Requests), NEW R, NEW answer \in [R -> Outcome], NEW id \in Nat
  PROVE  QueueRequests(rs, answer, id) \in Seq(Requests)
<1> DEFINE m == QueueRequests(rs, answer, id)
<1>1. DOMAIN m = DOMAIN rs /\ m = [i \in DOMAIN m |-> m[i]]
  BY DEF QueueRequests
<1>2. \A i \in DOMAIN rs :
        m[i] = IF i \in DOMAIN answer
               THEN [rs[i] EXCEPT !.state = "queued", !.outcome = answer[i], !.pass = id]
               ELSE rs[i]
  BY DEF QueueRequests
<1>3. \A i \in DOMAIN rs : rs[i] \in Requests
  OBVIOUS
<1>4. \A i \in DOMAIN rs : m[i] \in Requests
  <2>1. \A i \in DOMAIN answer : answer[i] \in Outcome
    OBVIOUS
  <2> SUFFICES ASSUME NEW i \in DOMAIN rs
               PROVE  m[i] \in Requests
    OBVIOUS
  <2> HIDE DEF m
  <2>2. CASE i \in DOMAIN answer
    <3> DEFINE x == rs[i]
               o == answer[i]
    <3>1. x \in Requests /\ o \in Outcome
      BY <1>3, <2>1, <2>2
    <3>2. m[i] = [x EXCEPT !.state = "queued", !.outcome = o, !.pass = id]
      BY <1>2, <2>2
    <3> HIDE DEF x, o
    <3> QED
      BY <3>1, <3>2 DEF Requests, RequestsOf, RequestState
  <2>3. CASE i \notin DOMAIN answer
    BY <1>2, <1>3, <2>3
  <2> QED
    BY <2>2, <2>3
<1> HIDE DEF m
<1> QED
  BY <1>1, <1>4, MapLemma DEF m

(* A finished request, and the callbacks it runs.                          *)
LEMMA FinishLemma ==
  ASSUME NEW rs \in Seq(Requests), NEW r \in 1..Len(rs)
  PROVE  Finish(rs, r) \in Seq(Requests) /\ Callbacks(rs[r]) \in Seq(Procs)
<1> DEFINE x == rs[r]
           y == [x EXCEPT !.state = "done", !.pass = 0]
<1>1. x \in Requests
  OBVIOUS
<1>2. y \in Requests
  BY <1>1 DEF Requests, RequestsOf, RequestState
<1>3. Finish(rs, r) = [rs EXCEPT ![r] = y]
  BY DEF Finish
<1>4. \A o \in Optional(Procs) : o \in Seq(Procs)
  <2>1. \A p \in Procs : <<p>> \in Seq(Procs)
    OBVIOUS
  <2>2. <<>> \in Seq(Procs)
    OBVIOUS
  <2> QED
    BY <2>1, <2>2 DEF Optional
<1>5. x.next \in Seq(Procs) /\ x.err \in Seq(Procs) /\ x.fin \in Seq(Procs)
  BY <1>1, <1>4 DEF Requests, RequestsOf
<1>6. Callbacks(x) \in Seq(Procs)
  BY <1>5 DEF Callbacks, SimpleCallback, StatCallback
<1> HIDE DEF y
<1> QED
  BY <1>2, <1>3, <1>6, ReplaceLemma

(***************************************************************************)
(* Steps of the innermost frame                                            *)
(***************************************************************************)

(* The innermost frame and the address it continues at.                    *)
LEMMA TopLemma ==
  ASSUME Inv, Depth > 0
  PROVE  /\ Depth \in Nat /\ Depth = Len(stack) /\ stack \in Seq(Frame) /\ Depth \in 1..Len(stack)
         /\ Top = stack[Depth] /\ Top \in Frame /\ Top.id = Depth
         /\ Top.proc \in Procs /\ Top.ops \in Seq(Value) /\ Top.calls \in Seq(Call)
         /\ Top.proc \in Natives <=> Top.phase \in {"apply", "applied"}
         /\ current \in Address /\ scope \in Nat /\ mode # "idle"
         /\ Top.proc \in Lambdas => current.proc = Top.proc
<1>1. Depth \in Nat /\ Depth = Len(stack) /\ stack \in Seq(Frame) /\ Depth \in 1..Len(stack)
  BY DEF Inv, TypeOK, Depth
<1>2. Top = stack[Depth] /\ Top \in Frame
  BY <1>1 DEF Top
<1>3. \A i \in 1..Depth : stack[i].proc \in Natives <=> stack[i].phase \in {"apply", "applied"}
  BY DEF Inv, TypeOK
<1>4. Continues(Depth) = current /\ current # NoAddress
  BY <1>1 DEF Inv, ContinuesInOwnCode, Continues
<1>5. current \in Address /\ scope \in Nat
  BY <1>4 DEF Inv, TypeOK
<1>6. Top.id = Depth /\ mode # "idle"
  BY <1>1, <1>2 DEF Inv, ScopesMatchFrames
<1>7. Top.proc \in Lambdas => current.proc = Top.proc
  BY <1>1, <1>2, <1>4 DEF Inv, ContinuesInOwnCode
<1> QED
  BY <1>1, <1>2, <1>3, <1>5, <1>6, <1>7, FrameLemma

(* A step that edits the innermost frame and nothing else of the stack.    *)
LEMMA EditLemma ==
  ASSUME Inv, Depth > 0,
         stack' \in Seq(Frame), SameFrames(stack, stack'),
         \A i \in 1..Depth : /\ i # Depth => stack'[i].phase = stack[i].phase
                             /\ i = Depth => (stack'[i].phase \in {"apply", "applied"} <=>
                                              stack[i].phase \in {"apply", "applied"}),
         scope' = scope, mode' = mode, UNCHANGED <<program, result, evals>>,
         current' \in Address, current'.proc = current.proc,
         Running("run") \/ current' = current,
         timers' \in Seq(Timers), requests' \in Seq(Requests)
  PROVE  Inv'
<1>1. Depth \in Nat /\ Depth = Len(stack) /\ Depth' = Depth
  BY DEF Inv, TypeOK, Depth, SameFrames
<1>2. \A i \in 1..Depth : stack[i].proc \in Natives <=> stack[i].phase \in {"apply", "applied"}
  BY DEF Inv, TypeOK
<1>3. \A i \in 1..Depth' : stack'[i].proc \in Natives <=> stack'[i].phase \in {"apply", "applied"}
  BY <1>1, <1>2 DEF SameFrames
<1>4. TypeOK'
  BY <1>3 DEF Inv, TypeOK, Timers, Requests
<1>5. ScopesMatchFrames' /\ ContinuesInOwnCode'
  BY SameFramesLemma
<1> QED
  BY <1>4, <1>5 DEF Inv

(* The tables the event loop keeps when a step does not touch them.        *)
LEMMA TablesLemma ==
  ASSUME Inv
  PROVE  timers \in Seq(Timers) /\ requests \in Seq(Requests)
  BY DEF Inv, TypeOK, Timers, Requests

(* The instruction fetched, and the address after it.                      *)
LEMMA FetchLemma ==
  ASSUME Inv, NEW op, Fetched(op)
  PROVE  /\ Depth > 0 /\ Running("run") /\ Top.proc \in Lambdas /\ current.proc = Top.proc
         /\ Instruction \in Instr /\ Instruction.op = op
         /\ Following \in Address /\ Following.proc = current.proc
<1>1. Depth > 0 /\ Running("run") /\ Top.phase = "run"
  BY DEF Fetched, Running
<1>2. Top.proc \in Lambdas /\ current.proc = Top.proc /\ current \in Address
  BY <1>1, TopLemma DEF Procs
<1>3. program \in Program
  BY ProgramsAssumption DEF Inv, TypeOK
<1>4. Code \in Seq(Instr)
  BY <1>2, <1>3 DEF Program, Code
<1>5. Instruction \in Instr /\ Instruction.op = op
  BY <1>4 DEF Instruction, Fetched
<1>6. Following \in Address /\ Following.proc = current.proc
  BY <1>2 DEF Following, Address
<1> QED
  BY <1>1, <1>2, <1>5, <1>6

(* The operand stack left by popping n operands.                           *)
LEMMA PoppedLemma ==
  ASSUME Inv, Depth > 0, NEW n \in Nat, Len(Top.ops) >= n
  PROVE  Popped(n) \in Seq(Value)
<1>1. Top.ops \in Seq(Value)
  BY TopLemma
<1>2. Len(Top.ops) - n \in 0..Len(Top.ops)
  BY <1>1
<1> QED
  BY <1>1, <1>2, PrefixLemma DEF Popped

(* The instructions that only touch the operand stack and the address.     *)
LEMMA InterpretLemma ==
  ASSUME Inv, mode # "aborted", Interpret
  PROVE  Inv'
<1>1. CASE Work
  <2>1. Fetched("work") /\ Len(Top.ops) >= Instruction.pops
    BY <1>1 DEF Work
  <2>2. /\ Depth > 0 /\ Running("run") /\ Top.proc \in Lambdas
        /\ Following \in Address /\ Following.proc = current.proc
        /\ Instruction \in Instr /\ Instruction.op = "work"
    BY <2>1, FetchLemma
  <2>3. Instruction.pops \in Nat
    BY <2>2 DEF Instr
  <2>4. Popped(Instruction.pops) \in Seq(Value)
    BY <2>1, <2>2, <2>3, PoppedLemma
  <2>5. Top.proc \in Value
    BY <2>2 DEF Value
  <2> DEFINE o == IF Instruction.pushes THEN Append(Popped(Instruction.pops), Top.proc)
                                        ELSE Popped(Instruction.pops)
  <2>6. o \in Seq(Value)
    BY <2>4, <2>5
  <2>7. stack' = SetOps(stack, Depth, o) /\ current' = Following
        /\ UNCHANGED <<program, mode, scope, result, timers, requests, evals>>
    BY <1>1 DEF Work, SetOps
  <2> HIDE DEF o
  <2>8. /\ stack' \in Seq(Frame) /\ SameFrames(stack, stack')
        /\ \A i \in 1..Depth : stack'[i].phase = stack[i].phase
    BY <2>2, <2>6, <2>7, TopLemma, OpsLemma
  <2> QED
    BY <2>2, <2>7, <2>8, TablesLemma, EditLemma
<1>2. CASE Jump
  <2>1. /\ Depth > 0 /\ Running("run") /\ Instruction \in Instr /\ Instruction.op = "jump"
        /\ current \in Address
    BY <1>2, FetchLemma, TopLemma DEF Jump
  <2>2. Instruction.to \in Nat \ {0}
    BY <2>1 DEF Instr
  <2>3. current' \in Address /\ current'.proc = current.proc
    BY <1>2, <2>1, <2>2 DEF Jump, Address
  <2>4. UNCHANGED <<program, mode, stack, scope, result, timers, requests, evals>>
    BY <1>2 DEF Jump
  <2> QED
    BY <2>1, <2>3, <2>4, TopLemma, TablesLemma, EditLemma DEF SameFrames
<1>3. CASE Branch
  <2>1. Fetched("branch") /\ Len(Top.ops) >= Instruction.pops
    BY <1>3 DEF Branch
  <2>2. /\ Depth > 0 /\ Running("run") /\ Following \in Address
        /\ Following.proc = current.proc
        /\ Instruction \in Instr /\ Instruction.op = "branch" /\ current \in Address
    BY <2>1, FetchLemma, TopLemma
  <2>3. Instruction.pops \in Nat /\ Instruction.to \in Nat \ {0}
    BY <2>2 DEF Instr
  <2> DEFINE o == Popped(Instruction.pops)
  <2>4. o \in Seq(Value)
    BY <2>1, <2>2, <2>3, PoppedLemma
  <2>5. current' \in Address /\ current'.proc = current.proc
    BY <1>3, <2>2, <2>3 DEF Branch, Address
  <2>6. stack' = SetOps(stack, Depth, o)
        /\ UNCHANGED <<program, mode, scope, result, timers, requests, evals>>
    BY <1>3 DEF Branch, SetOps
  <2> HIDE DEF o
  <2>7. /\ stack' \in Seq(Frame) /\ SameFrames(stack, stack')
        /\ \A i \in 1..Depth : stack'[i].phase = stack[i].phase
    BY <2>2, <2>4, <2>6, TopLemma, OpsLemma
  <2> QED
    BY <2>2, <2>5, <2>6, <2>7, TablesLemma, EditLemma
<1>4. CASE Invoke
  <2>1. Fetched("invoke") /\ Len(Top.ops) >= Instruction.args
    BY <1>4 DEF Invoke
  <2>2. /\ Depth > 0 /\ Running("run") /\ Following \in Address
        /\ Following.proc = current.proc
        /\ Instruction \in Instr /\ Instruction.op = "invoke"
    BY <2>1, FetchLemma
  <2>3. Instruction.args \in Nat /\ Instruction.proc \in Procs
    BY <2>2 DEF Instr
  <2> DEFINE o     == Popped(Instruction.args)
             below == SetOps(stack, Depth, o)
  <2>4. o \in Seq(Value)
    BY <2>1, <2>2, <2>3, PoppedLemma
  <2>5. CallProc(below, Instruction.proc, scope, Following, FALSE)
        /\ UNCHANGED <<program, mode, result, timers, requests, evals>>
    BY <1>4 DEF Invoke, SetOps
  <2> HIDE DEF o
  <2>6. /\ below \in Seq(Frame) /\ SameFrames(stack, below)
        /\ \A i \in 1..Depth : below[i].phase = stack[i].phase
    BY <2>2, <2>4, TopLemma, OpsLemma
  <2> HIDE DEF below
  <2>7. /\ stack' \in Seq(Frame)
        /\ \A i \in 1..Depth' : stack'[i].proc \in Natives <=> stack'[i].phase \in {"apply", "applied"}
        /\ scope' \in Nat /\ current' \in Address
        /\ ScopesMatchFrames' /\ ContinuesInOwnCode'
    BY <2>2, <2>3, <2>5, <2>6, NestedCallLemma
  <2> QED
    BY <2>5, <2>7 DEF Inv, TypeOK
<1>5. CASE Throw
  <2>1. /\ mode' = "aborted"
        /\ UNCHANGED <<program, stack, scope, current, result, timers, requests, evals>>
    BY <1>5 DEF Throw
  <2>2. TypeOK'
    BY <2>1 DEF Inv, TypeOK, Depth
  <2>3. ScopesMatchFrames' /\ ContinuesInOwnCode'
    BY <2>1 DEF Inv, ScopesMatchFrames, ContinuesInOwnCode, Continues, Depth
  <2> QED
    BY <2>2, <2>3 DEF Inv
<1>6. CASE Ret
  <2>1. /\ Depth > 0 /\ Running("run") /\ Following \in Address
        /\ Following.proc = current.proc
    BY <1>6, FetchLemma DEF Ret
  <2>2. stack' = SetPhase(stack, Depth, "drain") /\ current' = Following
        /\ UNCHANGED <<program, mode, scope, result, timers, requests, evals>>
    BY <1>6 DEF Ret, SetPhase
  <2>3. "drain" \in Phase /\ stack[Depth].phase = "run"
    BY <2>1 DEF Phase, Running, Top
  <2>4. /\ stack' \in Seq(Frame) /\ SameFrames(stack, stack') /\ stack'[Depth].phase = "drain"
        /\ \A i \in 1..Depth : i # Depth => stack'[i] = stack[i]
    BY <2>1, <2>2, <2>3, TopLemma, PhaseLemma
  <2> QED
    BY <2>1, <2>2, <2>3, <2>4, TablesLemma, EditLemma
<1> QED
  BY <1>1, <1>2, <1>3, <1>4, <1>5, <1>6 DEF Interpret

(* What a native does to the tables of the event loop.                     *)
LEMMA EffectLemma ==
  ASSUME Inv, NEW e \in Effect
  PROVE  TimersAfter(e) \in Seq(Timers) /\ RequestsAfter(e) \in Seq(Requests)
<1>1. timers \in Seq(Timers) /\ requests \in Seq(Requests)
  BY TablesLemma
<1> DEFINE t == GetTimer(timers, e.id)
<1>2. t # NoTimer => t \in 1..Len(timers)
  BY <1>1 DEF GetTimer, NoTimer
<1>3. TimersAfter(e) \in Seq(Timers)
  <2>1. CASE e.op = "create"
    <3>1. e.tick \in Procs /\ e.repeat \in BOOLEAN
      BY <2>1 DEF Effect
    <3> QED
      BY <1>1, <2>1, <3>1, CreateTimerLemma DEF TimersAfter
  <2>2. CASE e.op \in {"start", "setRepeat"} /\ t # NoTimer
    <3>1. e.repeat \in BOOLEAN
      BY <2>2 DEF Effect
    <3> HIDE DEF t
    <3>2. Start(timers, t, e.repeat) \in Seq(Timers) /\ SetRepeat(timers, t, e.repeat) \in Seq(Timers)
      BY <1>1, <1>2, <2>2, <3>1, TimersLemma
    <3> QED
      BY <2>2, <3>2 DEF TimersAfter, t
  <2>3. CASE e.op \in {"stop", "again"} /\ t # NoTimer
    <3> HIDE DEF t
    <3>1. Stop(timers, t) \in Seq(Timers) /\ Again(timers, t) \in Seq(Timers)
      BY <1>1, <1>2, <2>3, TimersLemma
    <3> QED
      BY <2>3, <3>1 DEF TimersAfter, t
  <2>4. CASE ~(e.op = "create" \/ (e.op \in {"start", "setRepeat", "stop", "again"} /\ t # NoTimer))
    BY <1>1, <2>4 DEF TimersAfter
  <2> QED
    BY <2>1, <2>2, <2>3, <2>4
<1>4. RequestsAfter(e) \in Seq(Requests)
  <2>1. CASE e.op = "request"
    <3> DEFINE q == [kind |-> e.kind, next |-> e.next, err |-> e.err, fin |-> e.fin,
                     state |-> "pending", outcome |-> "ok", pass |-> 0]
    <3>1. q \in Requests
      BY <2>1 DEF Effect, Requests, RequestsOf, RequestState, Outcome
    <3>2. RequestsAfter(e) = Append(requests, q)
      BY <2>1 DEF RequestsAfter, Execute
    <3> HIDE DEF q
    <3> QED
      BY <1>1, <3>1, <3>2, AppendLemma
  <2>2. CASE e.op # "request"
    BY <1>1, <2>2 DEF RequestsAfter
  <2> QED
    BY <2>1, <2>2
<1> QED
  BY <1>3, <1>4

(* The steps of natives and the calls that natives and callbacks make.     *)
LEMMA NativeLemma ==
  ASSUME Inv, mode # "aborted", Native
  PROVE  Inv'
<1>1. CASE Apply
  <2>1. Depth > 0 /\ Top.phase = "apply"
    BY <1>1 DEF Apply, Running
  <2> DEFINE e == program.native[Top.proc]
  <2>2. e \in Effect
    <3>1. Top.proc \in Natives
      BY <2>1, TopLemma
    <3>2. program \in Program
      BY ProgramsAssumption DEF Inv, TypeOK
    <3> QED
      BY <3>1, <3>2 DEF Program
  <2>3. /\ timers' = TimersAfter(e) /\ requests' = RequestsAfter(e)
        /\ UNCHANGED <<program, mode, scope, current, result, evals>>
    BY <1>1 DEF Apply
  <2>4. timers' \in Seq(Timers) /\ requests' \in Seq(Requests)
    BY <2>2, <2>3, EffectLemma
  <2>5. stack' = IF e.op = "calls" THEN SetCalls(SetPhase(stack, Depth, "applied"), Depth, e.calls)
                 ELSE SetOps(SetPhase(stack, Depth, "applied"), Depth, <<Top.proc>>)
    BY <1>1 DEF Apply, SetCalls, SetPhase, SetOps
  <2> DEFINE s == SetPhase(stack, Depth, "applied")
  <2>6. "applied" \in Phase
    BY DEF Phase
  <2>7. /\ s \in Seq(Frame) /\ SameFrames(stack, s) /\ s[Depth].phase = "applied"
        /\ \A i \in 1..Depth : i # Depth => s[i] = stack[i]
    <3>1. stack \in Seq(Frame) /\ Depth \in 1..Len(stack) /\ Depth = Len(stack)
      BY <2>1, TopLemma
    <3> QED
      BY <2>6, <3>1, PhaseLemma, SMTT(30)
  <2>8. e.op = "calls" => e.calls \in Seq(Call)
    <3> HIDE DEF e
    <3>1. ASSUME e.op = "calls" PROVE e \in [op : {"calls"}, calls : Seq(Call)]
      BY <2>2, <3>1 DEF Effect
    <3> QED
      BY <3>1
  <2>9. <<Top.proc>> \in Seq(Value)
    BY <2>1, TopLemma DEF Value
  <2> DEFINE o == <<Top.proc>>
  <2>10. stack' = IF e.op = "calls" THEN SetCalls(s, Depth, e.calls) ELSE SetOps(s, Depth, o)
    BY <2>5
  <2>11. Depth \in 1..Len(s) /\ Len(s) = Depth
    BY <2>1, <2>7, TopLemma DEF SameFrames
  <2>12a. o \in Seq(Value)
    BY <2>9
  <2> HIDE DEF s, e, o
  <2>12b. /\ stack' \in Seq(Frame) /\ SameFrames(s, stack')
         /\ \A i \in 1..Depth : stack'[i].phase = s[i].phase
    <3>1. CASE e.op = "calls"
      <4>1. stack' = SetCalls(s, Depth, e.calls) /\ e.calls \in Seq(Call)
        BY <2>8, <2>10, <3>1
      <4> QED
        BY <2>7, <2>11, <4>1, CallsLemma
    <3>2. CASE e.op # "calls"
      <4>1. stack' = SetOps(s, Depth, o)
        BY <2>10, <3>2
      <4> QED
        BY <2>7, <2>11, <2>12a, <4>1, OpsLemma
    <3> QED
      BY <3>1, <3>2
  <2>12. SameFrames(stack, stack')
    BY <2>1, <2>7, <2>11, <2>12b, TopLemma DEF SameFrames
  <2>13. \A i \in 1..Depth : /\ i # Depth => stack'[i].phase = stack[i].phase
                             /\ i = Depth => (stack'[i].phase \in {"apply", "applied"} <=>
                                              stack[i].phase \in {"apply", "applied"})
    BY <2>1, <2>7, <2>12b, TopLemma
  <2> QED
    BY <2>1, <2>3, <2>4, <2>12b, <2>12, <2>13, TopLemma, EditLemma
<1>2. CASE CallNext
  <2>1. Depth > 0 /\ Top.calls # <<>>
    BY <1>2 DEF CallNext
  <2> DEFINE below == SetCalls(stack, Depth, Tail(Top.calls))
             c     == Top.calls[1]
  <2>2. /\ CallProc(below, c.proc, scope, current, c.discard)
        /\ UNCHANGED <<program, mode, result, timers, requests, evals>>
    BY <1>2 DEF CallNext, SetCalls, Top
  <2>3. c \in Call /\ Tail(Top.calls) \in Seq(Call)
    BY <2>1, TopLemma, TailLemma
  <2>4. c.proc \in Procs /\ c.discard \in BOOLEAN
    BY <2>3 DEF Call
  <2>5. /\ below \in Seq(Frame) /\ SameFrames(stack, below)
        /\ \A i \in 1..Depth : below[i].phase = stack[i].phase
    BY <2>1, <2>3, TopLemma, CallsLemma
  <2> HIDE DEF below, c
  <2>6. current \in Address
    BY <2>1, TopLemma
  <2>7. /\ stack' \in Seq(Frame)
        /\ \A i \in 1..Depth' : stack'[i].proc \in Natives <=> stack'[i].phase \in {"apply", "applied"}
        /\ scope' \in Nat /\ current' \in Address
        /\ ScopesMatchFrames' /\ ContinuesInOwnCode'
    BY <2>1, <2>2, <2>4, <2>5, <2>6, NestedCallLemma
  <2> QED
    BY <2>2, <2>7 DEF Inv, TypeOK
<1>3. CASE NativeReturn
  BY <1>3, ReturnLemma DEF NativeReturn, Running
<1> QED
  BY <1>1, <1>2, <1>3 DEF Native

(* A step of the drain that moves on to another phase.                     *)
LEMMA DrainPhaseLemma ==
  ASSUME Inv, Depth > 0, NEW ph \in {"drain", "poll", "timers"},
         Top.phase \in {"drain", "poll", "timers"}, stack' = SetPhase(stack, Depth, ph),
         UNCHANGED <<program, mode, scope, current, result, evals>>,
         timers' \in Seq(Timers), requests' \in Seq(Requests)
  PROVE  Inv'
<1>0. stack \in Seq(Frame) /\ Depth \in 1..Len(stack) /\ Len(stack) = Depth
  BY TopLemma
<1>1. ph \in Phase
  BY DEF Phase
<1>2. /\ stack' \in Seq(Frame) /\ SameFrames(stack, stack') /\ stack'[Depth].phase = ph
      /\ \A i \in 1..Depth : i # Depth => stack'[i] = stack[i]
  <2>1. /\ SetPhase(stack, Depth, ph) \in Seq(Frame)
        /\ SameFrames(stack, SetPhase(stack, Depth, ph))
        /\ SetPhase(stack, Depth, ph)[Depth].phase = ph
        /\ \A i \in 1..Len(stack) : i # Depth => SetPhase(stack, Depth, ph)[i] = stack[i]
    BY <1>0, <1>1, PhaseLemma, SMTT(30)
  <2> QED
    BY <1>0, <2>1
<1>3. stack[Depth].phase \in {"drain", "poll", "timers"}
  BY DEF Top
<1>4. current' \in Address /\ current'.proc = current.proc
  BY TopLemma
<1> QED
  BY <1>2, <1>3, <1>4, EditLemma

(* A step of the drain that sets out to make calls.                        *)
LEMMA DrainCallsLemma ==
  ASSUME Inv, Depth > 0, NEW c \in Seq(Call), stack' = SetCalls(stack, Depth, c),
         UNCHANGED <<program, mode, scope, current, result, evals>>,
         timers' \in Seq(Timers), requests' \in Seq(Requests)
  PROVE  Inv'
<1>1. /\ stack' \in Seq(Frame) /\ SameFrames(stack, stack')
      /\ \A i \in 1..Depth : stack'[i].phase = stack[i].phase
  BY TopLemma, CallsLemma
<1>2. current' \in Address /\ current'.proc = current.proc
  BY TopLemma
<1> QED
  BY <1>1, <1>2, EditLemma

(* The steps that drain the event loop in kRet.                            *)
LEMMA DrainLemma ==
  ASSUME Inv, mode # "aborted", Drain
  PROVE  Inv'
<1>1. CASE Poll
  <2>1. PICK R : \E answer \in [R -> Outcome] : PollFor(answer)
    BY <1>1 DEF Poll
  <2>2. PICK answer \in [R -> Outcome] : PollFor(answer)
    BY <2>1
  <2>3. /\ Depth > 0 /\ Top.phase = "drain"
        /\ requests' = QueueRequests(requests, answer, Top.id)
        /\ stack' = SetPhase(stack, Depth, "poll")
        /\ UNCHANGED <<program, mode, scope, current, result, timers, evals>>
    BY <2>2 DEF PollFor, Running, SetPhase
  <2>4. Top.id \in Nat
    BY <2>3, TopLemma
  <2>5. timers' \in Seq(Timers) /\ requests' \in Seq(Requests)
    BY <2>3, <2>4, TablesLemma, QueueRequestsLemma
  <2> QED
    BY <2>3, <2>5, DrainPhaseLemma
<1>2. CASE RunRequest
  <2>1. PICK r \in RequestsOfPass(requests, Top.id) :
          /\ requests' = Finish(requests, r)
          /\ stack' = [stack EXCEPT ![Depth].calls =
                         [i \in DOMAIN Callbacks(requests[r]) |->
                            [proc |-> Callbacks(requests[r])[i], discard |-> FALSE]]]
    BY <1>2 DEF RunRequest
  <2>2. /\ Depth > 0
        /\ UNCHANGED <<program, mode, scope, current, result, timers, evals>>
    BY <1>2 DEF RunRequest, Waiting, Running
  <2>3. r \in 1..Len(requests)
    BY TablesLemma DEF RequestsOfPass
  <2>4. Finish(requests, r) \in Seq(Requests) /\ Callbacks(requests[r]) \in Seq(Procs)
    BY <2>3, TablesLemma, FinishLemma
  <2> DEFINE ps == Callbacks(requests[r])
             c  == [i \in DOMAIN ps |-> [proc |-> ps[i], discard |-> FALSE]]
  <2>5. stack' = SetCalls(stack, Depth, c)
    BY <2>1 DEF SetCalls
  <2>6. \A i \in DOMAIN ps : [proc |-> ps[i], discard |-> FALSE] \in Call
    BY <2>4 DEF Call
  <2>7. c \in Seq(Call)
    <3> HIDE DEF ps
    <3>1. ps \in Seq(Procs)
      BY <2>4 DEF ps
    <3>2. DOMAIN c = DOMAIN ps /\ c = [i \in DOMAIN c |-> c[i]] /\ \A i \in DOMAIN ps : c[i] \in Call
      BY <2>6
    <3> HIDE DEF c
    <3> QED
      BY <3>1, <3>2, MapLemma
  <2>8. timers' \in Seq(Timers) /\ requests' \in Seq(Requests)
    BY <2>1, <2>2, <2>4, TablesLemma
  <2> HIDE DEF c
  <2> QED
    BY <2>2, <2>5, <2>7, <2>8, DrainCallsLemma
<1>3. CASE RunTimers
  <2>1. PICK due : RunTimersFor(due)
    BY <1>3 DEF RunTimers
  <2>2. /\ Depth > 0 /\ Top.phase = "poll"
        /\ timers' = QueueTimers(timers, due, Top.id)
        /\ stack' = SetPhase(stack, Depth, "timers")
        /\ UNCHANGED <<program, mode, scope, current, result, requests, evals>>
    BY <2>1 DEF RunTimersFor, Waiting, Running, SetPhase
  <2>3. Top.id \in Nat
    BY <2>2, TopLemma
  <2>4. timers' \in Seq(Timers) /\ requests' \in Seq(Requests)
    BY <2>2, <2>3, TablesLemma, QueueTimersLemma
  <2> QED
    BY <2>2, <2>4, DrainPhaseLemma
<1>4. CASE OnTick
  <2>1. PICK t \in TimersOfPass(timers, Top.id) :
          /\ timers' = Dequeue(timers, t)
          /\ stack' = [stack EXCEPT ![Depth].calls = <<[proc |-> timers[t].tick, discard |-> FALSE]>>]
    BY <1>4 DEF OnTick
  <2>2. /\ Depth > 0
        /\ UNCHANGED <<program, mode, scope, current, result, requests, evals>>
    BY <1>4 DEF OnTick, Waiting, Running
  <2>3. t \in 1..Len(timers) /\ timers[t] \in Timers
    BY TablesLemma DEF TimersOfPass
  <2>4. timers' \in Seq(Timers) /\ requests' \in Seq(Requests)
    BY <2>1, <2>2, <2>3, TablesLemma, TimersLemma
  <2> DEFINE c == <<[proc |-> timers[t].tick, discard |-> FALSE]>>
  <2>5. [proc |-> timers[t].tick, discard |-> FALSE] \in Call
    BY <2>3 DEF Timers, TimersOf, Call
  <2>6. c \in Seq(Call)
    BY <2>5
  <2>7. stack' = SetCalls(stack, Depth, c)
    BY <2>1 DEF SetCalls
  <2> HIDE DEF c
  <2> QED
    BY <2>2, <2>4, <2>6, <2>7, DrainCallsLemma
<1>5. CASE PassEnd
  <2>1. /\ Depth > 0 /\ Top.phase = "timers" /\ stack' = SetPhase(stack, Depth, "drain")
        /\ UNCHANGED <<program, mode, scope, current, result, timers, requests, evals>>
    BY <1>5 DEF PassEnd, Waiting, Running, SetPhase
  <2> QED
    BY <2>1, TablesLemma, DrainPhaseLemma
<1>6. CASE Drained
  BY <1>6, ReturnLemma DEF Drained, Running
<1> QED
  BY <1>1, <1>2, <1>3, <1>4, <1>5, <1>6 DEF Drain

(* The beginning and the end of an evaluation.                             *)
LEMMA BeginLemma ==
  ASSUME Inv, EvalBegin \/ ExecBegin
  PROVE  Inv'
<1>1. /\ mode = "idle" /\ mode' \in {"eval", "exec"} /\ evals < MaxEvals /\ evals' = evals + 1
      /\ CallProc(<<>>, program.main, IF mode' = "eval" THEN scope + 1 ELSE scope, current, FALSE)
      /\ UNCHANGED <<program, result, timers, requests>>
  BY DEF EvalBegin, ExecBegin
<1>2. program.main \in Lambdas
  BY ProgramsAssumption DEF Inv, TypeOK, Program
<1>3. /\ stack' \in Seq(Frame)
      /\ \A i \in 1..Depth' : stack'[i].proc \in Natives <=> stack'[i].phase \in {"apply", "applied"}
      /\ scope' \in Nat /\ current' \in Address
      /\ ScopesMatchFrames' /\ ContinuesInOwnCode'
  BY <1>1, <1>2, FirstCallLemma
<1>4. evals' \in 0..MaxEvals
  BY <1>1, BoundsAssumption DEF Inv, TypeOK
<1> QED
  BY <1>1, <1>3, <1>4 DEF Inv, TypeOK

LEMMA EndLemma ==
  ASSUME Inv, End
  PROVE  Inv'
<1>1. /\ mode \in {"eval", "exec"} /\ Depth = 0 /\ mode' = "idle" /\ scope' = scope - BaseScope
      /\ result' = Null /\ UNCHANGED <<program, stack, current, timers, requests, evals>>
  BY DEF End, LeaveScope
<1>2. scope' = 0 /\ BaseScope' = 0 /\ Depth' = 0
  BY <1>1 DEF Inv, ScopesMatchFrames, BaseScope, Depth
<1>3. ScopesMatchFrames' /\ ContinuesInOwnCode'
  BY <1>2 DEF ScopesMatchFrames, ContinuesInOwnCode
<1>4. TypeOK'
  BY <1>1, <1>2 DEF Inv, TypeOK, Value
<1> QED
  BY <1>3, <1>4 DEF Inv

(***************************************************************************)
(* The three parts of the inductive invariant hold of every program: the   *)
(* types are right, curr_scope_ is always the scope of the innermost frame *)
(* and every frame continues in its own bytecode.                          *)
(***************************************************************************)
THEOREM Invariance == Spec => [](TypeOK /\ ScopesMatchFrames /\ ContinuesInOwnCode)
<1>1. Init => Inv
  <2> SUFFICES ASSUME Init
               PROVE  Inv
    OBVIOUS
  <2>1. Depth = 0 /\ stack = <<>> /\ timers = <<>> /\ requests = <<>>
    BY DEF Init, Depth
  <2>2. TypeOK
    BY <2>1, BoundsAssumption DEF Init, TypeOK, Value
  <2>3. ScopesMatchFrames /\ ContinuesInOwnCode
    BY <2>1 DEF Init, ScopesMatchFrames, ContinuesInOwnCode, BaseScope
  <2> QED
    BY <2>2, <2>3 DEF Inv
<1>2. Inv /\ [Next]_vars => Inv'
  <2> SUFFICES ASSUME Inv, [Next]_vars
               PROVE  Inv'
    OBVIOUS
  <2>1. CASE EvalBegin \/ ExecBegin
    BY <2>1, BeginLemma
  <2>2. CASE Step
    BY <2>2, InterpretLemma, NativeLemma, DrainLemma, EndLemma DEF Step
  <2>3. CASE UNCHANGED vars
    BY <2>3 DEF vars, Inv, TypeOK, ScopesMatchFrames, ContinuesInOwnCode, Continues, BaseScope, Depth
  <2> QED
    BY <2>1, <2>2, <2>3 DEF Next
<1> QED
  BY <1>1, <1>2, PTL DEF Spec, Inv

=============================================================================

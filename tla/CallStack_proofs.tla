-------------------------- MODULE CallStack_proofs --------------------------
(***************************************************************************)
(* Every step of Runtime is a step of CallStack or leaves it alone: calls  *)
(* are isolated from one another, in every program.                        *)
(***************************************************************************)
EXTENDS Runtime_proofs

(* A call made by the innermost frame, which may have taken arguments off  *)
(* its operand stack, is Enter.                                            *)
LEMMA EnterLemma ==
  ASSUME Inv, Depth > 0, mode # "aborted",
         NEW below \in Seq(Frame), SameFrames(stack, below),
         \A i \in 1..Depth : i # Depth => below[i].ops = stack[i].ops,
         below[Depth].ops = SubSeq(Top.ops, 1, Len(below[Depth].ops)),
         NEW p, NEW addr, NEW d, CallProc(below, p, scope, addr, d)
  PROVE  Calls!Enter
<1>1. Depth \in Nat /\ Depth = Len(stack) /\ Len(below) = Depth /\ below # <<>> /\ scope \in Nat
  BY DEF Inv, TypeOK, Depth, SameFrames
<1> DEFINE fr == NewFrame(p, below[Depth].id + 1, scope + 1, addr, d)
<1>2. stack' = Append(below, fr) /\ scope' = scope + 1
  BY <1>1 DEF CallProc
<1>3. fr.ops = <<>> /\ fr.ret = addr
  BY DEF NewFrame
<1> HIDE DEF fr
<1>4. /\ Depth' = Depth + 1 /\ stack'[Depth + 1] = fr
      /\ \A i \in 1..Depth : stack'[i] = below[i]
  BY <1>1, <1>2 DEF Depth
<1>5. \A i \in 1..(Depth - 1) : /\ stack'[i].ops = stack[i].ops
                                /\ stack'[i + 1].ret = stack[i + 1].ret
  BY <1>1, <1>4 DEF SameFrames
<1>6. ASSUME NEW i \in 1..(Depth - 1)
      PROVE  Continues(i)' = Continues(i)
  <2>1. i # Depth /\ i # Depth'
    BY <1>1, <1>4
  <2>2. Continues(i) = stack[i + 1].ret /\ Continues(i)' = stack'[i + 1].ret
    BY <2>1 DEF Continues
  <2> QED
    BY <1>5, <2>2
<1>7. Calls!Untouched(Depth - 1)
  BY <1>1, <1>4, <1>5, <1>6 DEF Calls!Untouched
<1>8. stack'[Depth].ops = SubSeq(stack[Depth].ops, 1, Len(stack'[Depth].ops))
  BY <1>1, <1>4 DEF Top
<1>9. Calls!Settled(Depth)
  <2>1. \A i \in 1..Depth : stack'[i].locals = stack[i].locals /\ stack'[i].discard = stack[i].discard
    BY <1>1, <1>4 DEF SameFrames
  <2>2. stack[Depth].locals = scope
    BY <1>1 DEF Inv, ScopesMatchFrames
  <2> QED
    BY <1>1, <1>4, <2>1, <2>2 DEF Calls!Settled
<1> QED
  BY <1>1, <1>2, <1>3, <1>4, <1>7, <1>8, <1>9 DEF Calls!Enter

(* The first call of an evaluation is Enter, too.                          *)
LEMMA FirstEnterLemma ==
  ASSUME Inv, EvalBegin \/ ExecBegin
  PROVE  Calls!Enter
<1>1. Depth = 0
  BY DEF Inv, ScopesMatchFrames, EvalBegin, ExecBegin
<1>2. PICK fr : stack' = Append(<<>>, fr) /\ fr.ops = <<>>
  BY DEF EvalBegin, ExecBegin, CallProc, NewFrame
<1>3. stack' = <<fr>> /\ Depth' = 1 /\ stack'[1].ops = <<>>
  BY <1>2 DEF Depth
<1> QED
  BY <1>1, <1>3 DEF Calls!Enter, Calls!Untouched, Calls!Settled

(* A return leaves the phases of the frames below, and their operands but  *)
(* for the result added to the caller's, unless it is to be discarded.     *)
LEMMA PoppedFramesLemma ==
  ASSUME Inv, Depth > 0, Return
  PROVE  /\ Depth' = Depth - 1
         /\ \A i \in 1..(Depth - 1) : /\ stack'[i].phase = stack[i].phase /\ stack'[i].calls = stack[i].calls
                                      /\ stack'[i].locals = stack[i].locals
                                      /\ stack'[i].ret = stack[i].ret
                                      /\ stack'[i].discard = stack[i].discard
         /\ \A i \in 1..(Depth - 2) : stack'[i].ops = stack[i].ops
         /\ Depth > 1 => stack'[Depth - 1].ops = IF Top.discard THEN stack[Depth - 1].ops
                                                ELSE Append(stack[Depth - 1].ops, Result)
<1>1. Depth \in Nat /\ stack \in Seq(Frame) /\ Depth = Len(stack) /\ Depth - 1 \in 0..Len(stack)
  BY DEF Inv, TypeOK, Depth
<1> DEFINE below == Below
<1>2. /\ below \in Seq(Frame) /\ Len(below) = Depth - 1
      /\ \A i \in 1..(Depth - 1) : below[i] = stack[i]
  BY <1>1, PrefixLemma DEF Below
<1>3. stack' = IF below = <<>> \/ Top.discard THEN below
               ELSE [below EXCEPT ![Depth - 1].ops = Append(@, Result)]
  BY DEF Return, PopFrame
<1> HIDE DEF below
<1>4. CASE below = <<>> \/ Top.discard
  BY <1>1, <1>2, <1>3, <1>4, SMTT(30) DEF Depth
<1>5. CASE ~(below = <<>> \/ Top.discard)
  <2> DEFINE m == Depth - 1
             o == Append(below[m].ops, Result)
  <2>1. m \in 1..Len(below) /\ below[m] \in Frame
    BY <1>1, <1>2, <1>5
  <2>2. Result \in Value
    BY <1>1, FrameLemma, LastLemma DEF Result, Top, Value
  <2>3. o \in Seq(Value)
    BY <2>1, <2>2, FrameLemma
  <2>4. stack' = SetOps(below, m, o)
    BY <1>3, <1>5 DEF SetOps
  <2>5. o = Append(stack[Depth - 1].ops, Result)
    BY <1>2, <2>1
  <2> HIDE DEF m, o
  <2>6. /\ SameFrames(below, stack')
        /\ stack'[m].ops = o
        /\ \A i \in 1..Len(below) : stack'[i].phase = below[i].phase /\ stack'[i].calls = below[i].calls
        /\ \A i \in 1..Len(below) : i # m => stack'[i] = below[i]
    BY <1>2, <2>1, <2>3, <2>4, OpsLemma
  <2>7. Depth' = Depth - 1
    BY <1>2, <2>6 DEF SameFrames, Depth
  <2>8. \A i \in 1..(Depth - 1) : /\ stack'[i].phase = stack[i].phase /\ stack'[i].calls = stack[i].calls
                                  /\ stack'[i].locals = stack[i].locals
                                  /\ stack'[i].ret = stack[i].ret
                                  /\ stack'[i].discard = stack[i].discard
    BY <1>2, <2>6 DEF SameFrames
  <2>9. \A i \in 1..(Depth - 2) : stack'[i].ops = stack[i].ops
    BY <1>1, <1>2, <2>6 DEF m
  <2> QED
    BY <1>5, <2>5, <2>6, <2>7, <2>8, <2>9 DEF m
<1> QED
  BY <1>4, <1>5

(* A return is Leave: the caller continues where it stopped, in its scope. *)
LEMMA LeaveLemma ==
  ASSUME Inv, Depth > 0, mode # "aborted", Return
  PROVE  Calls!Leave
<1>1. Depth \in Nat /\ Depth = Len(stack)
  BY DEF Inv, TypeOK, Depth
<1>2. /\ Depth' = Depth - 1
      /\ \A i \in 1..(Depth - 1) : /\ stack'[i].locals = stack[i].locals
                                   /\ stack'[i].ret = stack[i].ret
                                   /\ stack'[i].discard = stack[i].discard
      /\ \A i \in 1..(Depth - 2) : stack'[i].ops = stack[i].ops
      /\ Depth > 1 => stack'[Depth - 1].ops = IF Top.discard THEN stack[Depth - 1].ops
                                             ELSE Append(stack[Depth - 1].ops, Result)
  BY PoppedFramesLemma
<1>3. Depth > 1 => current' = stack[Depth].ret
  <2>1. ASSUME Depth > 1
        PROVE  stack[Depth].ret # NoAddress
    <3>1. Depth - 1 \in 1..Depth /\ Depth - 1 # Depth /\ Depth - 1 + 1 = Depth
      BY <1>1, <2>1
    <3>2. Continues(Depth - 1) # NoAddress
      BY <3>1 DEF Inv, ContinuesInOwnCode
    <3> QED
      BY <3>1, <3>2 DEF Continues
  <2> QED
    BY <2>1 DEF Return, RestoreAddress, Top
<1>4. ASSUME NEW i \in 1..(Depth - 1)
      PROVE  Continues(i)' = Continues(i)
  <2>1. i # Depth
    BY <1>1
  <2>2. Continues(i) = stack[i + 1].ret
    BY <2>1 DEF Continues
  <2>3. CASE i = Depth - 1
    <3>1. i = Depth' /\ i + 1 = Depth /\ Depth > 1
      BY <1>1, <1>2, <2>3
    <3>2. Continues(i)' = current'
      BY <3>1 DEF Continues
    <3> QED
      BY <1>3, <2>2, <3>1, <3>2
  <2>4. CASE i # Depth - 1
    <3>1. i # Depth' /\ i + 1 \in 1..(Depth - 1)
      BY <1>1, <1>2, <2>4
    <3>2. Continues(i)' = stack'[i + 1].ret
      BY <3>1 DEF Continues
    <3> QED
      BY <1>2, <2>2, <3>1, <3>2
  <2> QED
    BY <2>3, <2>4
<1>5. Calls!Untouched(Depth - 2)
  BY <1>1, <1>2, <1>4 DEF Calls!Untouched
<1>6. Depth > 1 => scope' = stack[Depth - 1].locals
  <2>1. scope = BaseScope + Depth /\ BaseScope \in Nat
    BY <1>1 DEF Inv, ScopesMatchFrames, BaseScope
  <2>2. Depth > 1 => stack[Depth - 1].locals = BaseScope + (Depth - 1)
    BY <1>1 DEF Inv, ScopesMatchFrames
  <2> QED
    BY <1>1, <2>1, <2>2 DEF Return, PopScope
<1>7. Calls!Settled(Depth - 1)
  <2>1. stack[Depth].locals = scope
    BY <1>1 DEF Inv, ScopesMatchFrames
  <2> QED
    BY <1>1, <1>2, <1>6 DEF Calls!Settled
<1>8. Result = Calls!Result(stack[Depth].ops)
  BY DEF Result, Calls!Result, Top
<1>9. Depth > 1 => stack'[Depth - 1].ops = IF ~stack[Depth].discard
                                           THEN Append(stack[Depth - 1].ops, Calls!Result(stack[Depth].ops))
                                           ELSE stack[Depth - 1].ops
  BY <1>2, <1>8 DEF Top
<1>10. PICK n \in Nat : n = Depth - 1
  BY <1>1
<1>11. ASSUME Depth > 1
       PROVE  /\ [i \in 1..Depth |-> stack[i].ops]'[n] = stack'[n].ops
              /\ [i \in 1..Depth |-> stack[i].ops][n] = stack[n].ops
              /\ [i \in 1..Depth |-> stack[i].ops][Depth] = stack[Depth].ops
              /\ [i \in 1..Depth |-> ~stack[i].discard][Depth] = ~stack[Depth].discard
              /\ [i \in 1..Depth |-> Continues(i)]'[n] = [i \in 1..Depth |-> Continues(i)][n]
  <2>1. n \in 1..Depth /\ n \in 1..Depth' /\ Depth \in 1..Depth /\ n \in 1..(Depth - 1)
    BY <1>1, <1>2, <1>10, <1>11
  <2>2. Continues(n)' = Continues(n)
    BY <1>4, <2>1
  <2> QED
    BY <2>1, <2>2
<1> QED
  BY <1>1, <1>2, <1>5, <1>7, <1>9, <1>10, <1>11 DEF Calls!Leave

(* The innermost frame is replaced by one with the same scope and return   *)
(* address, and nothing else happens to the frames.                        *)
TopReplaced(fr) ==
  /\ stack' = [stack EXCEPT ![Depth] = fr]
  /\ fr.locals = Top.locals /\ fr.ret = Top.ret /\ fr.discard = Top.discard
  /\ scope' = scope

(* The actions that neither call nor return do so.                         *)
TopStep ==
  \/ Work \/ Jump \/ Branch \/ Ret \/ Apply
  \/ Poll \/ RunRequest \/ RunTimers \/ OnTick \/ PassEnd

LEMMA TopStepLemma ==
  ASSUME Inv, TopStep
  PROVE  Depth > 0 /\ \E fr : TopReplaced(fr)
<1>1. Depth > 0
  BY DEF TopStep, Work, Jump, Branch, Ret, Apply, Poll, PollFor, RunRequest, RunTimers, RunTimersFor,
         OnTick, PassEnd, Fetched, Running, Waiting
<1>2. Top \in Frame /\ Top = stack[Depth] /\ stack \in Seq(Frame) /\ Depth \in 1..Len(stack)
  BY <1>1, TopLemma
<1>3. \A o : LET fr == [Top EXCEPT !.ops = o] IN fr.locals = Top.locals /\ fr.ret = Top.ret /\ fr.discard = Top.discard
  BY <1>2 DEF Frame
<1>4. \A ph : LET fr == [Top EXCEPT !.phase = ph] IN fr.locals = Top.locals /\ fr.ret = Top.ret /\ fr.discard = Top.discard
  BY <1>2 DEF Frame
<1>5. \A c : LET fr == [Top EXCEPT !.calls = c] IN fr.locals = Top.locals /\ fr.ret = Top.ret /\ fr.discard = Top.discard
  BY <1>2 DEF Frame
<1>6. CASE Work \/ Branch
  <2>1. PICK o : stack' = [stack EXCEPT ![Depth].ops = o]
    BY <1>6 DEF Work, Branch
  <2>2. stack' = [stack EXCEPT ![Depth] = [Top EXCEPT !.ops = o]]
    BY <2>1 DEF Top
  <2>3. scope' = scope
    BY <1>6 DEF Work, Branch
  <2> QED
    BY <1>1, <1>3, <2>2, <2>3 DEF TopReplaced
<1>7. CASE Jump
  BY <1>1, <1>2, <1>7 DEF Jump, TopReplaced
<1>8. CASE Ret \/ Poll \/ RunTimers \/ PassEnd
  <2>1. PICK ph : stack' = [stack EXCEPT ![Depth].phase = ph]
    BY <1>8 DEF Ret, Poll, PollFor, RunTimers, RunTimersFor, PassEnd
  <2>2. stack' = [stack EXCEPT ![Depth] = [Top EXCEPT !.phase = ph]]
    BY <2>1 DEF Top
  <2>3. scope' = scope
    BY <1>8 DEF Ret, Poll, PollFor, RunTimers, RunTimersFor, PassEnd
  <2> QED
    BY <1>1, <1>4, <2>2, <2>3 DEF TopReplaced
<1>9. CASE RunRequest \/ OnTick
  <2>1. PICK c : stack' = [stack EXCEPT ![Depth].calls = c]
    BY <1>9 DEF RunRequest, OnTick
  <2>2. stack' = [stack EXCEPT ![Depth] = [Top EXCEPT !.calls = c]]
    BY <2>1 DEF Top
  <2>3. scope' = scope
    BY <1>9 DEF RunRequest, OnTick
  <2> QED
    BY <1>1, <1>5, <2>2, <2>3 DEF TopReplaced
<1>10. CASE Apply
  <2> DEFINE e == program.native[Top.proc]
             f == [Top EXCEPT !.phase = "applied", !.calls = e.calls]
             g == [Top EXCEPT !.phase = "applied", !.ops = <<Top.proc>>]
  <2>1. stack' = [stack EXCEPT ![Depth] = IF e.op = "calls" THEN f ELSE g]
    BY <1>2, <1>10 DEF Apply, Top
  <2>2. /\ f.locals = Top.locals /\ f.ret = Top.ret /\ f.discard = Top.discard
        /\ g.locals = Top.locals /\ g.ret = Top.ret /\ g.discard = Top.discard
    BY <1>2 DEF Frame
  <2>3. scope' = scope
    BY <1>10 DEF Apply
  <2> HIDE DEF e, f, g
  <2> QED
    BY <1>1, <2>1, <2>2, <2>3 DEF TopReplaced
<1> QED
  BY <1>6, <1>7, <1>8, <1>9, <1>10 DEF TopStep

(* A step of the innermost frame is Work.                                  *)
LEMMA WorkLemma ==
  ASSUME Inv, Depth > 0, NEW fr, TopReplaced(fr)
  PROVE  Calls!Work
<1>1. Depth \in Nat /\ Depth' = Depth /\ Depth = Len(stack) /\ stack \in Seq(Frame)
  BY DEF Inv, TypeOK, Depth, TopReplaced
<1>2. stack'[Depth] = fr /\ \A i \in 1..(Depth - 1) : stack'[i] = stack[i]
  BY <1>1 DEF TopReplaced
<1>3. \A i \in 1..(Depth - 1) : stack'[i + 1].ret = stack[i + 1].ret
  BY <1>1, <1>2 DEF TopReplaced, Top
<1>4. ASSUME NEW i \in 1..(Depth - 1)
      PROVE  Continues(i)' = Continues(i)
  <2>1. i # Depth /\ i # Depth'
    BY <1>1
  <2>2. Continues(i) = stack[i + 1].ret /\ Continues(i)' = stack'[i + 1].ret
    BY <2>1 DEF Continues
  <2> QED
    BY <1>3, <2>2
<1>5. Calls!Untouched(Depth - 1)
  BY <1>1, <1>2, <1>4 DEF Calls!Untouched
<1>6. Calls!Settled(Depth)
  BY <1>1, <1>2 DEF Calls!Settled, TopReplaced, Top
<1> QED
  BY <1>1, <1>5, <1>6 DEF Calls!Work

(* Calls of bytecode, of natives and of callbacks.                         *)
LEMMA CallLemma ==
  ASSUME Inv, mode # "aborted", Invoke \/ CallNext
  PROVE  Calls!Enter
<1>1. CASE Invoke
  <2>1. /\ Depth > 0 /\ Len(Top.ops) >= Instruction.args
        /\ Instruction \in Instr /\ Instruction.op = "invoke"
    BY <1>1, FetchLemma DEF Invoke
  <2>2. Instruction.args \in Nat
    BY <2>1 DEF Instr
  <2> DEFINE o     == Popped(Instruction.args)
             below == SetOps(stack, Depth, o)
  <2>3. o \in Seq(Value)
    BY <2>1, <2>2, PoppedLemma
  <2>4. o = SubSeq(Top.ops, 1, Len(o))
    <3>1. Top.ops \in Seq(Value)
      BY <2>1, TopLemma
    <3> QED
      BY <2>1, <2>2, <3>1 DEF Popped
  <2>5. CallProc(below, Instruction.proc, scope, Following, FALSE)
    BY <1>1 DEF Invoke, SetOps
  <2> HIDE DEF o
  <2>6. /\ below \in Seq(Frame) /\ SameFrames(stack, below) /\ below[Depth].ops = o
        /\ \A i \in 1..Depth : i # Depth => below[i].ops = stack[i].ops
    <3>1. stack \in Seq(Frame) /\ Depth \in 1..Len(stack) /\ Depth = Len(stack)
      BY <2>1, TopLemma
    <3>2. /\ SetOps(stack, Depth, o) \in Seq(Frame)
          /\ SameFrames(stack, SetOps(stack, Depth, o))
          /\ SetOps(stack, Depth, o)[Depth].ops = o
          /\ \A i \in 1..Len(stack) : i # Depth => SetOps(stack, Depth, o)[i].ops = stack[i].ops
      BY <2>3, <3>1, OpsLemma, ZenonT(30)
    <3> QED
      BY <3>1, <3>2, Zenon
  <2> HIDE DEF below
  <2> QED
    BY <2>1, <2>4, <2>5, <2>6, EnterLemma
<1>2. CASE CallNext
  <2>1. Depth > 0 /\ Top.calls # <<>>
    BY <1>2 DEF CallNext
  <2>2. Tail(Top.calls) \in Seq(Call) /\ Top.ops \in Seq(Value)
    BY <2>1, TopLemma, TailLemma
  <2> DEFINE below == SetCalls(stack, Depth, Tail(Top.calls))
  <2>3. CallProc(below, Top.calls[1].proc, scope, current, Top.calls[1].discard)
    BY <1>2 DEF CallNext, SetCalls, Top
  <2>4. /\ below \in Seq(Frame) /\ SameFrames(stack, below)
        /\ \A i \in 1..Depth : below[i].ops = stack[i].ops
    <3>1. stack \in Seq(Frame) /\ Depth \in 1..Len(stack) /\ Depth = Len(stack)
      BY <2>1, TopLemma
    <3> QED
      BY <2>2, <3>1, CallsLemma
  <2> HIDE DEF below
  <2>5. below[Depth].ops = SubSeq(Top.ops, 1, Len(below[Depth].ops))
    <3>1. below[Depth].ops = Top.ops
      BY <2>1, <2>4, TopLemma
    <3> QED
      BY <2>2, <3>1
  <2> QED
    BY <2>1, <2>3, <2>4, <2>5, EnterLemma
<1> QED
  BY <1>1, <1>2

(* The end of an evaluation, and an uncaught error, change no frame.       *)
LEMMA NoFrameLemma ==
  ASSUME Inv, End \/ Throw \/ UNCHANGED vars
  PROVE  UNCHANGED Calls!vars
<1>1. CASE End
  <2>1. Depth = 0 /\ Depth' = 0
    BY <1>1 DEF End, Depth
  <2> QED
    BY <2>1 DEF Calls!vars
<1>2. CASE Throw \/ UNCHANGED vars
  <2>1. UNCHANGED <<stack, scope, current>>
    BY <1>2 DEF Throw, vars
  <2>2. Depth' = Depth /\ \A i : Continues(i)' = Continues(i)
    BY <2>1 DEF Depth, Continues
  <2> QED
    BY <2>1, <2>2 DEF Calls!vars
<1> QED
  BY <1>1, <1>2

(***************************************************************************)
(* Whatever a program does, and however calls, drains of the event loop    *)
(* and callbacks nest, a call leaves its caller's operands, position and   *)
(* scope alone, but for the arguments it takes and the result it leaves.   *)
(***************************************************************************)
THEOREM Isolation == Spec => CallsAreIsolated
<1>1. Init => Calls!Init
  BY DEF Init, Calls!Init, Depth
<1>2. Inv /\ [Next]_vars => [Calls!Next]_(Calls!vars)
  <2> SUFFICES ASSUME Inv, [Next]_vars
               PROVE  Calls!Next \/ UNCHANGED Calls!vars
    OBVIOUS
  <2>1. CASE EvalBegin \/ ExecBegin
    BY <2>1, FirstEnterLemma DEF Calls!Next
  <2>2. CASE mode # "aborted" /\ TopStep
    BY <2>2, TopStepLemma, WorkLemma DEF Calls!Next
  <2>3. CASE mode # "aborted" /\ (Invoke \/ CallNext)
    BY <2>3, CallLemma DEF Calls!Next
  <2>4. CASE mode # "aborted" /\ (NativeReturn \/ Drained)
    BY <2>4, LeaveLemma DEF Calls!Next, NativeReturn, Drained, Running
  <2>5. CASE End \/ Throw \/ UNCHANGED vars
    BY <2>5, NoFrameLemma
  <2> QED
    BY <2>1, <2>2, <2>3, <2>4, <2>5 DEF Next, Step, Interpret, Native, Drain, TopStep
<1> QED
  BY <1>1, <1>2, Invariance, PTL DEF Spec, Inv, CallsAreIsolated, Calls!Spec

=============================================================================

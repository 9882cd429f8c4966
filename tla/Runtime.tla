------------------------------- MODULE Runtime -------------------------------
(***************************************************************************)
(* The Runtime, its Interpreter and the thread's EventLoop running one     *)
(* program: runtime.h, runtime.cc, interpreter.cc, stack_frame.h,          *)
(* operation_stack.h, event_loop.h, event_loop.cc, natives.cc.             *)
(*                                                                         *)
(* One thread does everything, but not one thing at a time: kRet drains    *)
(* the event loop before its frame is popped, callbacks of the loop call   *)
(* procedures, and those end in a kRet too.  The interpreter's address,    *)
(* the current scope and the stack of frames are shared by all of them.    *)
(*                                                                         *)
(* A frame holds the StackFrame and the C++ activation that pushed it:     *)
(*   phase  "run"     bytecode is being interpreted                        *)
(*          "drain"   in kRet, between two passes of the event loop        *)
(*          "poll"    in a pass, calling back finished requests            *)
(*          "timers"  in a pass, calling back the timers that are due      *)
(*          "apply"   a native procedure that has not run yet              *)
(*          "applied" a native procedure, making the calls it makes        *)
(*   calls  the procedures still to be called by the callback or native    *)
(*   discard  the caller is CallPop, which takes the result back           *)
(*                                                                         *)
(* A value is the procedure whose code made it, or Null.                   *)
(***************************************************************************)
EXTENDS EventLoop

CONSTANTS
  Lambdas,          \* Lambdas and Scripts: procedures with bytecode
  Natives,          \* native procedures, each with the literals it is passed
  Programs,         \* the programs considered
  Null,             \* the value '()
  NoAddress,        \* UNALLOCATED
  MaxEvals,         \* bound on the number of top-level evaluations
  MaxDepth          \* bound on the depth at which callbacks still come due

Procs   == Lambdas \cup Natives
Value   == Procs \cup {Null}
Address == [proc : Lambdas, pc : Nat \ {0}]
Call    == [proc : Procs, discard : BOOLEAN]

(***************************************************************************)
(* Bytecode, reduced to what it does to the operand stack and to control.  *)
(* "work" stands for every opcode that pops operands and pushes at most one*)
(* value (kPush*, kPop, kLoadLocal*, kStoreLocal*, kLookup, unary, binary, *)
(* kNew ...), "branch" for kJnz and kJne.                                  *)
(***************************************************************************)
Instr ==
       [op : {"work"}, pops : Nat, pushes : BOOLEAN]
  \cup [op : {"jump"}, to : Nat \ {0}]
  \cup [op : {"branch"}, pops : Nat, to : Nat \ {0}]
  \cup [op : {"invoke"}, proc : Procs, args : Nat]
  \cup [op : {"throw", "ret"}]

(* What a native does: "calls" for the rx natives, which call back their   *)
(* subscribers before they return; the timer and fs natives.               *)
Effect ==
       [op : {"pure"}]
  \cup [op : {"calls"}, calls : Seq(Call)]
  \cup [op : {"create"}, tick : Procs, repeat : BOOLEAN]
  \cup [op : {"start", "setRepeat"}, id : Nat, repeat : BOOLEAN]
  \cup [op : {"stop", "again"}, id : Nat]
  \cup [op : {"request"}, kind : RequestKind, next : Optional(Procs), err : Optional(Procs),
        fin : Optional(Procs)]

Program == [main : Lambdas, body : [Lambdas -> Seq(Instr)], native : [Natives -> Effect]]

ASSUME ProgramsAssumption == Programs \subseteq Program
ASSUME KindsAssumption    == Lambdas \cap Natives = {}
ASSUME NullAssumption     == Null \notin Procs
ASSUME AddressAssumption  == NoAddress \notin Address
ASSUME BoundsAssumption   == MaxEvals \in Nat /\ MaxDepth \in Nat

VARIABLES
  program,          \* the program; never changes
  mode,             \* "idle", "eval" or "exec" (in Eval or Exec), "aborted"
  stack,            \* Runtime::stack_
  scope,            \* depth of curr_scope_ below init_scope_, which is at 0
  current,          \* Interpreter::current_
  result,           \* Runtime::result_
  timers, requests, \* the EventLoop
  evals             \* evaluations started so far

vars == <<program, mode, stack, scope, current, result, timers, requests, evals>>

Phase == {"run", "drain", "poll", "timers", "apply", "applied"}

Frame ==
  [id : Nat \ {0}, proc : Procs, locals : Nat, ret : Address \cup {NoAddress},
   ops : Seq(Value), phase : Phase, calls : Seq(Call), discard : BOOLEAN]

Depth == Len(stack)
Top   == stack[Depth]

(* The scope in which the outermost procedure is called: Eval pushes one.  *)
BaseScope == IF mode = "eval" THEN 1 ELSE 0

Running(phase) == Depth > 0 /\ Top.phase = phase

(***************************************************************************)
(* Calls and returns                                                       *)
(***************************************************************************)

(* PushStackFrame: numbered after the frame below.                         *)
NewFrame(p, id, locals, ret, discard) ==
  [id |-> id, proc |-> p, locals |-> locals, ret |-> ret, ops |-> <<>>,
   phase |-> IF p \in Lambdas THEN "run" ELSE "apply", calls |-> <<>>, discard |-> discard]

(* Runtime::Call: PushScope, PushStackFrame, then Run or, for a native,    *)
(* Apply.  below are the frames below, parent the current scope and addr   *)
(* the current address at the call.                                        *)
CallProc(below, p, parent, addr, discard) ==
  /\ LET id == IF below = <<>> THEN 1 ELSE below[Len(below)].id + 1
     IN  stack' = Append(below, NewFrame(p, id, parent + 1, addr, discard))
  /\ scope' = parent + 1
  /\ current' = IF p \in Lambdas THEN [proc |-> p, pc |-> 1] ELSE addr

(* The frames left by a return: the caller gets the result, or nothing     *)
(* when CallPop takes it off again.                                        *)
Below  == SubSeq(stack, 1, Depth - 1)
Result == IF Top.ops = <<>> THEN Null ELSE Top.ops[Len(Top.ops)]

(* Mistakes that the properties rule out: PopScope is not called, the      *)
(* address is not restored, CallPop takes an operand of the caller.        *)
KeptScope   == scope' = scope
KeptAddress == current' = current
OverPopped  ==
  stack' = IF Below = <<>> THEN Below
           ELSE [Below EXCEPT ![Depth - 1].ops =
                   IF ~Top.discard THEN Append(@, Result)
                   ELSE IF @ = <<>> THEN @ ELSE SubSeq(@, 1, Len(@) - 1)]

(* PopStackFrame and the result to the caller's operand stack.             *)
PopFrame ==
  stack' = IF Below = <<>> \/ Top.discard THEN Below
           ELSE [Below EXCEPT ![Depth - 1].ops = Append(@, Result)]

RestoreAddress == current' = IF Top.ret # NoAddress THEN Top.ret ELSE current

PopScope == scope' = scope - 1

(* The end of Runtime::Call; without a caller the result is in result_.    *)
Return ==
  /\ PopFrame
  /\ RestoreAddress
  /\ PopScope
  /\ result' = IF Below = <<>> THEN Result ELSE result
  /\ UNCHANGED <<program, mode, timers, requests, evals>>

(***************************************************************************)
(* Eval and Exec                                                           *)
(***************************************************************************)

(* Eval wraps the expression in a lambda and calls it in a scope of its    *)
(* own; Exec calls a script.                                               *)
EvalBegin ==
  /\ mode = "idle" /\ evals < MaxEvals
  /\ mode' = "eval"
  /\ evals' = evals + 1
  /\ CallProc(<<>>, program.main, scope + 1, current, FALSE)
  /\ UNCHANGED <<program, result, timers, requests>>

ExecBegin ==
  /\ mode = "idle" /\ evals < MaxEvals
  /\ mode' = "exec"
  /\ evals' = evals + 1
  /\ CallProc(<<>>, program.main, scope, current, FALSE)
  /\ UNCHANGED <<program, result, timers, requests>>

(* Eval pops its scope; a mistake would be that Exec does, too.            *)
LeaveScopeAlways == scope' = scope - 1
LeaveScope       == scope' = scope - BaseScope

(* CallPop returns result_ and resets it.                                  *)
End ==
  /\ mode \in {"eval", "exec"} /\ Depth = 0
  /\ mode' = "idle"
  /\ LeaveScope
  /\ result' = Null
  /\ UNCHANGED <<program, stack, current, timers, requests, evals>>

(***************************************************************************)
(* The interpreter: one instruction of the innermost frame                 *)
(***************************************************************************)

Code == program.body[current.proc]

Fetched(op) ==
  /\ Running("run")
  /\ current.pc \in DOMAIN Code
  /\ Code[current.pc].op = op

Instruction == Code[current.pc]

Following == [current EXCEPT !.pc = @ + 1]

Popped(n) == SubSeq(Top.ops, 1, Len(Top.ops) - n)

Work ==
  /\ Fetched("work") /\ Len(Top.ops) >= Instruction.pops
  /\ stack' = [stack EXCEPT ![Depth].ops =
                 IF Instruction.pushes THEN Append(Popped(Instruction.pops), Top.proc)
                                       ELSE Popped(Instruction.pops)]
  /\ current' = Following
  /\ UNCHANGED <<program, mode, scope, result, timers, requests, evals>>

Jump ==
  /\ Fetched("jump")
  /\ current' = [current EXCEPT !.pc = Instruction.to]
  /\ UNCHANGED <<program, mode, stack, scope, result, timers, requests, evals>>

Branch ==
  /\ Fetched("branch") /\ Len(Top.ops) >= Instruction.pops
  /\ stack' = [stack EXCEPT ![Depth].ops = Popped(Instruction.pops)]
  /\ current' \in {Following, [current EXCEPT !.pc = Instruction.to]}
  /\ UNCHANGED <<program, mode, scope, result, timers, requests, evals>>

Invoke ==
  /\ Fetched("invoke") /\ Len(Top.ops) >= Instruction.args
  /\ CallProc([stack EXCEPT ![Depth].ops = Popped(Instruction.args)],
              Instruction.proc, scope, Following, FALSE)
  /\ UNCHANGED <<program, mode, result, timers, requests, evals>>

(* A std::runtime_error that no handler of gel catches.                    *)
Throw ==
  /\ Fetched("throw")
  /\ mode' = "aborted"
  /\ UNCHANGED <<program, stack, scope, current, result, timers, requests, evals>>

Ret ==
  /\ Fetched("ret")
  /\ stack' = [stack EXCEPT ![Depth].phase = "drain"]
  /\ current' = Following
  /\ UNCHANGED <<program, mode, scope, result, timers, requests, evals>>

(***************************************************************************)
(* Natives                                                                 *)
(***************************************************************************)

TimersAfter(e) ==
  LET t == GetTimer(timers, e.id)
  IN  CASE e.op = "create" -> CreateTimer(timers, e.tick, e.repeat)
        [] e.op = "start" /\ t # NoTimer -> Start(timers, t, e.repeat)
        [] e.op = "stop" /\ t # NoTimer -> Stop(timers, t)
        [] e.op = "again" /\ t # NoTimer -> Again(timers, t)
        [] e.op = "setRepeat" /\ t # NoTimer -> SetRepeat(timers, t, e.repeat)
        [] OTHER -> timers

RequestsAfter(e) ==
  IF e.op = "request" THEN Execute(requests, e.kind, e.next, e.err, e.fin) ELSE requests

(* The effect happens, the value is left on the native's operand stack;    *)
(* natives that call procedures leave what those return.                   *)
Apply ==
  /\ Running("apply")
  /\ LET e == program.native[Top.proc]
     IN  /\ timers' = TimersAfter(e)
         /\ requests' = RequestsAfter(e)
         /\ stack' = IF e.op = "calls"
                     THEN [stack EXCEPT ![Depth].phase = "applied", ![Depth].calls = e.calls]
                     ELSE [stack EXCEPT ![Depth].phase = "applied", ![Depth].ops = <<Top.proc>>]
  /\ UNCHANGED <<program, mode, scope, current, result, evals>>

NativeReturn == Running("applied") /\ Top.calls = <<>> /\ Return

(* The next call of a native, or of a callback of the event loop.          *)
CallNext ==
  /\ Depth > 0 /\ Top.calls # <<>>
  /\ CallProc([stack EXCEPT ![Depth].calls = Tail(@)],
              Top.calls[1].proc, scope, current, Top.calls[1].discard)
  /\ UNCHANGED <<program, mode, result, timers, requests, evals>>

(***************************************************************************)
(* Draining the event loop in kRet                                         *)
(***************************************************************************)

Waiting(phase) == Running(phase) /\ Top.calls = <<>>

MayComeDue == Depth < MaxDepth

(* A pass begins while the loop is alive: answer maps the requests that    *)
(* have finished to what the kernel answered.                              *)
PollFor(answer) ==
  /\ Running("drain") /\ Alive(timers, requests)
  /\ DOMAIN answer # {} => MayComeDue
  /\ requests' = QueueRequests(requests, answer, Top.id)
  /\ stack' = [stack EXCEPT ![Depth].phase = "poll"]
  /\ UNCHANGED <<program, mode, scope, current, result, timers, evals>>

Poll == \E R \in SUBSET Pending(requests) : \E answer \in [R -> Outcome] : PollFor(answer)

(* A mistake: only the first of the callbacks is called.                   *)
RunRequestFirst ==
  /\ Waiting("poll")
  /\ \E r \in RequestsOfPass(requests, Top.id) :
       /\ requests' = Finish(requests, r)
       /\ stack' = [stack EXCEPT ![Depth].calls =
                      [i \in DOMAIN Callbacks(requests[r]) \cap {1} |->
                         [proc |-> Callbacks(requests[r])[i], discard |-> FALSE]]]
  /\ UNCHANGED <<program, mode, scope, current, result, timers, evals>>

RunRequest ==
  /\ Waiting("poll")
  /\ \E r \in RequestsOfPass(requests, Top.id) :
       /\ requests' = Finish(requests, r)
       /\ stack' = [stack EXCEPT ![Depth].calls =
                      [i \in DOMAIN Callbacks(requests[r]) |->
                         [proc |-> Callbacks(requests[r])[i], discard |-> FALSE]]]
  /\ UNCHANGED <<program, mode, scope, current, result, timers, evals>>

RunTimersFor(due) ==
  /\ Waiting("poll") /\ RequestsOfPass(requests, Top.id) = {}
  /\ due # {} => MayComeDue
  /\ timers' = QueueTimers(timers, due, Top.id)
  /\ stack' = [stack EXCEPT ![Depth].phase = "timers"]
  /\ UNCHANGED <<program, mode, scope, current, result, requests, evals>>

RunTimers == \E due \in SUBSET ActiveTimers(timers) : RunTimersFor(due)

OnTick ==
  /\ Waiting("timers")
  /\ \E t \in TimersOfPass(timers, Top.id) :
       /\ timers' = Dequeue(timers, t)
       /\ stack' = [stack EXCEPT ![Depth].calls = <<[proc |-> timers[t].tick, discard |-> FALSE]>>]
  /\ UNCHANGED <<program, mode, scope, current, result, requests, evals>>

(* A mistake: the pass ends after its first callback.                      *)
PassEndEarly ==
  /\ Waiting("timers")
  /\ stack' = [stack EXCEPT ![Depth].phase = "drain"]
  /\ UNCHANGED <<program, mode, scope, current, result, timers, requests, evals>>

PassEnd ==
  /\ Waiting("timers") /\ TimersOfPass(timers, Top.id) = {}
  /\ stack' = [stack EXCEPT ![Depth].phase = "drain"]
  /\ UNCHANGED <<program, mode, scope, current, result, timers, requests, evals>>

(* uv_run returned 0: the loop is not alive, and the frame returns.  The   *)
(* mistake: one pass is taken to be enough.                                *)
DrainedOnce == Running("drain") /\ Return
Drained == Running("drain") /\ ~Alive(timers, requests) /\ Return

(***************************************************************************)
(* The specification                                                       *)
(***************************************************************************)

Init ==
  /\ program \in Programs
  /\ mode = "idle"
  /\ stack = <<>>
  /\ scope = 0
  /\ current = NoAddress
  /\ result = Null
  /\ timers = <<>>
  /\ requests = <<>>
  /\ evals = 0

Interpret == Work \/ Jump \/ Branch \/ Invoke \/ Throw \/ Ret
Native    == Apply \/ CallNext \/ NativeReturn
Drain     == Poll \/ RunRequest \/ RunTimers \/ OnTick \/ PassEnd \/ Drained

Step == mode # "aborted" /\ (Interpret \/ Native \/ Drain \/ End)

(* Nothing happens after an abort, nor once MaxEvals evaluations are done. *)
Stopped == mode = "aborted" \/ (mode = "idle" /\ evals = MaxEvals)

Next == EvalBegin \/ ExecBegin \/ Step \/ (Stopped /\ UNCHANGED vars)

Spec == Init /\ [][Next]_vars

(***************************************************************************)
(* Properties                                                              *)
(***************************************************************************)

(* Every variable holds a value the C++ member it models can hold.         *)
TypeOK ==
  /\ program \in Programs
  /\ mode \in {"idle", "eval", "exec", "aborted"}
  /\ stack \in Seq(Frame)
  /\ \A i \in 1..Depth : stack[i].proc \in Natives <=> stack[i].phase \in {"apply", "applied"}
  /\ scope \in Nat
  /\ current \in Address \cup {NoAddress}
  /\ result \in Value
  /\ timers \in Seq(TimersOf(Procs))
  /\ requests \in Seq(RequestsOf(Procs))
  /\ evals \in 0..MaxEvals

(***************************************************************************)
(* curr_scope_ is a pointer of the Runtime that LoadLocal, StoreLocal and  *)
(* Lookup read; locals_ of the frame is never consulted.  Whatever calls   *)
(* and callbacks ran, curr_scope_ is the scope of the innermost frame, the *)
(* scopes of the frames follow each other and nothing is left behind when  *)
(* an evaluation ends.  Frames are numbered consecutively, which is what   *)
(* StackFrameGuard compares.                                               *)
(***************************************************************************)
ScopesMatchFrames ==
  /\ mode = "idle" => Depth = 0
  /\ mode # "aborted" =>
       /\ scope = BaseScope + Depth
       /\ \A i \in 1..Depth : stack[i].locals = BaseScope + i
  /\ \A i \in 1..Depth : stack[i].id = i

(* Where a frame continues: the interpreter's address when it is innermost,*)
(* the return address of the frame above otherwise.                        *)
Continues(i) == IF i = Depth THEN current ELSE stack[i + 1].ret

(***************************************************************************)
(* There is one instruction pointer for all frames, overwritten by each    *)
(* Run.  A lambda nevertheless always continues in its own bytecode, and a *)
(* native leaves the pointer where the code that called it continues.      *)
(***************************************************************************)
ContinuesInOwnCode ==
  \A i \in 1..Depth :
    /\ Continues(i) # NoAddress
    /\ stack[i].proc \in Lambdas => Continues(i).proc = stack[i].proc
    /\ stack[i].proc \in Natives => i > 1 /\ Continues(i) = Continues(i - 1)

(***************************************************************************)
(* A callback taken off libuv's heap or completion list is held only by    *)
(* the pass that took it: it is lost when that frame goes away, and called *)
(* twice when two passes hold it.  Every handle waiting for its callback   *)
(* waits in a pass that is under way and will still look at it.            *)
(***************************************************************************)
QueuesHavePass ==
  /\ \A t \in DOMAIN timers :
       IF timers[t].state = "queued"
       THEN timers[t].pass \in 1..Depth /\ stack[timers[t].pass].phase = "timers"
       ELSE timers[t].pass = 0
  /\ \A r \in DOMAIN requests :
       IF requests[r].state = "queued"
       THEN requests[r].pass \in 1..Depth /\ stack[requests[r].pass].phase = "poll"
       ELSE requests[r].pass = 0

(***************************************************************************)
(* An evaluation returns only when nothing it started is outstanding: no   *)
(* timer is armed or queued and no request unanswered, so that no callback *)
(* of one evaluation ever runs in a later one.                             *)
(***************************************************************************)
QuietWhenIdle ==
  mode = "idle" => /\ \A t \in DOMAIN timers : timers[t].state = "idle"
                   /\ \A r \in DOMAIN requests : requests[r].state = "done"

(* The frames implement calls that leave their caller undisturbed.         *)
Calls == INSTANCE CallStack WITH
           depth <- Depth,
           ops <- [i \in 1..Depth |-> stack[i].ops],
           pos <- [i \in 1..Depth |-> Continues(i)],
           env <- [i \in 1..Depth |-> IF i = Depth THEN scope ELSE stack[i].locals],
           keep <- [i \in 1..Depth |-> ~stack[i].discard]

(* A lambda, native or event loop callback that runs and returns leaves    *)
(* the operand stack, the address and the scope of every frame below it as *)
(* they were, with its result pushed on its caller's operands, once, and   *)
(* not at all for CallPop, whose caller must find its operands unchanged.  *)
CallsAreIsolated == Calls!Spec

(***************************************************************************)
(* Between the answer of the kernel and the procedure it runs lie other    *)
(* callbacks, their calls and the drains of those, all on the same tables. *)
(* A request is answered once and then called back once, with all of its   *)
(* callbacks, by the pass that collected it; a timer leaves its queue for  *)
(* its callback in its own pass, or because a native stopped or restarted  *)
(* it; and the procedures a callback or a native still has to call are     *)
(* called in their order, each once: no return, no nested pass and no      *)
(* instruction of the procedures called in between loses one.              *)
(***************************************************************************)
CallsOf(i) == [c \in DOMAIN stack[i].calls |-> stack[i].calls[c].proc]

RequestStep(r) ==
  \/ requests[r].state = "pending" /\ Running("drain") /\ requests'[r].state = "queued"
  \/ /\ requests[r].state = "queued" /\ Running("poll") /\ requests[r].pass = Depth
     /\ requests'[r].state = "done" /\ CallsOf(Depth)' = Callbacks(requests[r])

TimerLeaves(t) ==
  \/ Running("apply")
  \/ /\ Running("timers") /\ timers[t].pass = Depth
     /\ CallsOf(Depth)' = <<timers[t].tick>>

CallStep(i) ==
  /\ i = Depth /\ Depth' = Depth + 1
  /\ stack'[i].calls = Tail(stack[i].calls)
  /\ stack'[i + 1].proc = stack[i].calls[1].proc

HandlesStep ==
  /\ \A r \in DOMAIN requests : requests'[r] # requests[r] => RequestStep(r)
  /\ \A t \in DOMAIN timers :
       timers[t].state = "queued" /\ timers'[t] # timers[t] => TimerLeaves(t)

CallsKept ==
  \A i \in 1..Depth :
    stack[i].calls # <<>> =>
      CallStep(i) \/ (i \in DOMAIN stack' /\ stack'[i].calls = stack[i].calls)

CallbacksDelivered == [][HandlesStep /\ CallsKept]_vars

(***************************************************************************)
(* "Stops Timer [idx]." (_kernel.cl), and so for start, again and          *)
(* set-repeat!: such a native changes no timer but the one it names.       *)
(***************************************************************************)
TimersAddressed ==
  [][ \A t \in DOMAIN timers :
        Running("apply") /\ program.native[Top.proc].op \in {"start", "stop", "again", "setRepeat"}
        /\ timers'[t] # timers[t] => t = program.native[Top.proc].id ]_vars

(***************************************************************************)
(* "error reading stats of file" (event_loop.cc): a stat that fails runs   *)
(* the on_error it was given.                                              *)
(***************************************************************************)
StatErrorsReported ==
  [][ \A r \in DOMAIN requests :
        /\ requests[r].kind = "stat" /\ requests[r].outcome # "ok" /\ requests[r].err # <<>>
        /\ requests[r].state = "queued" /\ requests'[r].state = "done"
        => stack'[Depth].calls[1].proc = requests[r].err[1] ]_vars

(***************************************************************************)
(* Fairness: the thread keeps running, the kernel answers every request    *)
(* some time and every armed timer comes due.  A drain that polls over and *)
(* over polls infinitely often, hence strong fairness for the last two.    *)
(***************************************************************************)
Answers(r) == \E R \in SUBSET Pending(requests) :
                r \in R /\ \E answer \in [R -> Outcome] : PollFor(answer)

ComesDue(t) == \E due \in SUBSET ActiveTimers(timers) : t \in due /\ RunTimersFor(due)

Fairness(maxTimers, maxRequests) ==
  /\ WF_vars(Step)
  /\ \A r \in 1..maxRequests : SF_vars(mode # "aborted" /\ Answers(r))
  /\ \A t \in 1..maxTimers : SF_vars(mode # "aborted" /\ ComesDue(t))

(* An evaluation that arms no repeating timer and keeps at most one request*)
(* in flight comes to an end.                                              *)
Terminates == mode \in {"eval", "exec"} ~> mode \in {"idle", "aborted"}

=============================================================================

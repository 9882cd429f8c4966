-------------------------- MODULE EventLoop_proofs --------------------------
(***************************************************************************)
(* No callback is lost or runs in a later evaluation, in every program:    *)
(* the invariants of Runtime about the tables of the event loop.           *)
(***************************************************************************)
EXTENDS CallStack_proofs

(***************************************************************************)
(* Tables and the frames whose passes hold their handles                   *)
(***************************************************************************)

(* Each queued handle of table waits in a frame of s that is in phase ph,  *)
(* the phase in which a pass calls back such handles.                      *)
Held(table, s, ph) ==
  \A t \in DOMAIN table :
    IF table[t].state = "queued" THEN table[t].pass \in 1..Len(s) /\ s[table[t].pass].phase = ph
    ELSE table[t].pass = 0

(* No handle of table waits in pass i.                                     *)
NoneIn(table, i) == \A t \in DOMAIN table : table[t].state = "queued" => table[t].pass # i

LEMMA QueuesAreHeld == QueuesHavePass <=> Held(timers, stack, "timers") /\ Held(requests, stack, "poll")
  BY DEF QueuesHavePass, Held, Depth

(* Handles stay where they are, or leave their queue.                      *)
LEMMA HeldTableLemma ==
  ASSUME NEW table, NEW s, NEW ph, Held(table, s, ph), NEW next,
         \A t \in DOMAIN next :
           \/ next[t].state # "queued" /\ next[t].pass = 0
           \/ t \in DOMAIN table /\ next[t].state = table[t].state /\ next[t].pass = table[t].pass
  PROVE  Held(next, s, ph)
  BY DEF Held

(* Frames that hold handles stay and keep their phase.                     *)
LEMMA HeldFramesLemma ==
  ASSUME NEW table, NEW s, NEW ph, Held(table, s, ph), NEW r, Len(s) \in Nat, Len(r) \in Nat,
         \A i \in 1..Len(s) : s[i].phase = ph =>
           NoneIn(table, i) \/ (i \in 1..Len(r) /\ r[i].phase = ph)
  PROVE  Held(table, r, ph)
  BY DEF Held, NoneIn

(* A phase other than ph holds none.                                       *)
LEMMA NoneInLemma ==
  ASSUME NEW table, NEW s, NEW ph, Held(table, s, ph), NEW i, s[i].phase # ph
  PROVE  NoneIn(table, i)
  BY DEF Held, NoneIn

(* The timer natives, and the callback of a timer.                         *)
LEMMA HeldTimersLemma ==
  ASSUME NEW ts \in Seq(Timers), NEW s, Held(ts, s, "timers"), NEW t \in 1..Len(ts), NEW rep \in BOOLEAN
  PROVE  /\ Held(Start(ts, t, rep), s, "timers")
         /\ Held(Stop(ts, t), s, "timers")
         /\ Held(Again(ts, t), s, "timers")
         /\ Held(SetRepeat(ts, t, rep), s, "timers")
         /\ Held(Dequeue(ts, t), s, "timers")
<1>1. ts[t] \in Timers /\ DOMAIN ts = 1..Len(ts)
  OBVIOUS
<1> DEFINE a == [ts[t] EXCEPT !.repeat = rep, !.state = "active", !.pass = 0]
           b == [ts[t] EXCEPT !.state = "idle", !.pass = 0]
           c == [ts[t] EXCEPT !.repeat = rep]
           d == [ts[t] EXCEPT !.state = IF ts[t].repeat THEN "active" ELSE "idle", !.pass = 0]
           e == [ts[t] EXCEPT !.repeat = TRUE, !.state = "active", !.pass = 0]
<1>2. /\ a.state = "active" /\ a.pass = 0 /\ b.state = "idle" /\ b.pass = 0
      /\ c.state = ts[t].state /\ c.pass = ts[t].pass
      /\ d.state # "queued" /\ d.pass = 0 /\ e.state = "active" /\ e.pass = 0
  BY <1>1 DEF Timers, TimersOf
<1>3. /\ Start(ts, t, rep) = [ts EXCEPT ![t] = a]
      /\ Stop(ts, t) = [ts EXCEPT ![t] = b]
      /\ SetRepeat(ts, t, rep) = [ts EXCEPT ![t] = c]
      /\ Dequeue(ts, t) = [ts EXCEPT ![t] = d]
      /\ Again(ts, t) = IF ts[t].repeat THEN [ts EXCEPT ![t] = e] ELSE ts
  BY <1>1 DEF Start, Stop, SetRepeat, Dequeue, Again
<1> HIDE DEF a, b, c, d, e
<1>4. ASSUME NEW x, (x.state # "queued" /\ x.pass = 0) \/ (x.state = ts[t].state /\ x.pass = ts[t].pass)
      PROVE  Held([ts EXCEPT ![t] = x], s, "timers")
  <2> DEFINE n == [ts EXCEPT ![t] = x]
  <2>1. DOMAIN n = DOMAIN ts /\ n[t] = x /\ \A u \in DOMAIN ts : u # t => n[u] = ts[u]
    BY <1>1
  <2> HIDE DEF n
  <2>2. Held(n, s, "timers")
    BY <1>1, <1>4, <2>1, HeldTableLemma
  <2> QED
    BY <2>2 DEF n
<1>5. /\ Held([ts EXCEPT ![t] = a], s, "timers") /\ Held([ts EXCEPT ![t] = b], s, "timers")
      /\ Held([ts EXCEPT ![t] = c], s, "timers") /\ Held([ts EXCEPT ![t] = d], s, "timers")
      /\ Held([ts EXCEPT ![t] = e], s, "timers")
  <2>1. Held([ts EXCEPT ![t] = a], s, "timers")
    BY <1>2, <1>4
  <2>2. Held([ts EXCEPT ![t] = b], s, "timers")
    BY <1>2, <1>4
  <2>3. Held([ts EXCEPT ![t] = c], s, "timers")
    BY <1>2, <1>4
  <2>4. Held([ts EXCEPT ![t] = d], s, "timers")
    BY <1>2, <1>4
  <2>5. Held([ts EXCEPT ![t] = e], s, "timers")
    BY <1>2, <1>4
  <2> QED
    BY <2>1, <2>2, <2>3, <2>4, <2>5
<1> QED
  BY <1>3, <1>5

(* A new timer or request is in no queue.                                  *)
LEMMA HeldNewLemma ==
  ASSUME NEW S, NEW table \in Seq(S), NEW s, NEW ph, Held(table, s, ph),
         NEW x, x.state # "queued" /\ x.pass = 0
  PROVE  Held(Append(table, x), s, ph)
<1>1. \A t \in DOMAIN Append(table, x) :
        IF t \in 1..Len(table) THEN Append(table, x)[t] = table[t] ELSE Append(table, x)[t] = x
  OBVIOUS
<1>2. DOMAIN table = 1..Len(table)
  OBVIOUS
<1> DEFINE next == Append(table, x)
<1>3. \A t \in DOMAIN next : \/ next[t].state # "queued" /\ next[t].pass = 0
                             \/ t \in DOMAIN table /\ next[t].state = table[t].state
                                                   /\ next[t].pass = table[t].pass
  BY <1>1, <1>2
<1> HIDE DEF next
<1>4. Held(next, s, ph)
  BY <1>3, HeldTableLemma
<1> QED
  BY <1>4 DEF next

(* What a native does to the tables.                                       *)
LEMMA HeldEffectLemma ==
  ASSUME Inv, NEW e \in Effect, NEW s, Held(timers, s, "timers"), Held(requests, s, "poll")
  PROVE  Held(TimersAfter(e), s, "timers") /\ Held(RequestsAfter(e), s, "poll")
<1>1. timers \in Seq(Timers) /\ requests \in Seq(Requests)
  BY TablesLemma
<1> DEFINE t == GetTimer(timers, e.id)
<1>2. t # NoTimer => t \in 1..Len(timers)
  BY <1>1 DEF GetTimer, NoTimer
<1>3. Held(CreateTimer(timers, e.tick, e.repeat), s, "timers")
  <2> DEFINE x == [tick |-> e.tick, repeat |-> e.repeat, state |-> "active", pass |-> 0]
  <2>1. x.state # "queued" /\ x.pass = 0
    OBVIOUS
  <2> HIDE DEF x
  <2>2. Held(Append(timers, x), s, "timers")
    BY <1>1, <2>1, HeldNewLemma
  <2> QED
    BY <2>2 DEF CreateTimer, x
<1>4. Held(RequestsAfter(e), s, "poll")
  <2> DEFINE x == [kind |-> e.kind, next |-> e.next, err |-> e.err, fin |-> e.fin,
                   state |-> "pending", outcome |-> "ok", pass |-> 0]
  <2>1. x.state # "queued" /\ x.pass = 0
    OBVIOUS
  <2> HIDE DEF x
  <2>2. Held(Append(requests, x), s, "poll")
    BY <1>1, <2>1, HeldNewLemma
  <2> QED
    BY <2>2 DEF RequestsAfter, Execute, x
<1> HIDE DEF t
<1>5. e.op \in {"start", "setRepeat"} => e.repeat \in BOOLEAN
  BY DEF Effect
<1>6. e.op = "start" /\ t # NoTimer => Held(Start(timers, t, e.repeat), s, "timers")
  BY <1>1, <1>2, <1>5, HeldTimersLemma
<1>7. e.op = "stop" /\ t # NoTimer => Held(Stop(timers, t), s, "timers")
  BY <1>1, <1>2, HeldTimersLemma
<1>8. e.op = "again" /\ t # NoTimer => Held(Again(timers, t), s, "timers")
  BY <1>1, <1>2, HeldTimersLemma
<1>9. e.op = "setRepeat" /\ t # NoTimer => Held(SetRepeat(timers, t, e.repeat), s, "timers")
  BY <1>1, <1>2, <1>5, HeldTimersLemma
<1>10. Held(TimersAfter(e), s, "timers")
  <2>1. CASE e.op = "create"
    BY <1>3, <2>1 DEF TimersAfter
  <2>2. CASE e.op = "start" /\ t # NoTimer
    BY <1>6, <2>2 DEF TimersAfter, t
  <2>3. CASE e.op = "stop" /\ t # NoTimer
    BY <1>7, <2>3 DEF TimersAfter, t
  <2>4. CASE e.op = "again" /\ t # NoTimer
    BY <1>8, <2>4 DEF TimersAfter, t
  <2>5. CASE e.op = "setRepeat" /\ t # NoTimer
    BY <1>9, <2>5 DEF TimersAfter, t
  <2>6. CASE ~(e.op = "create" \/ (e.op \in {"start", "setRepeat", "stop", "again"} /\ t # NoTimer))
    BY <2>6 DEF TimersAfter, t
  <2> QED
    BY <2>1, <2>2, <2>3, <2>4, <2>5, <2>6
<1> QED
  BY <1>4, <1>10

(* A pass takes handles to its own queue.                                  *)
LEMMA HeldQueueLemma ==
  ASSUME NEW s, NEW id \in 1..Len(s),
         NEW ts \in Seq(Timers), NEW due, NEW rs \in Seq(Requests), NEW answer
  PROVE  /\ Held(ts, s, "timers") /\ s[id].phase = "timers" => Held(QueueTimers(ts, due, id), s, "timers")
         /\ Held(rs, s, "poll") /\ s[id].phase = "poll" => Held(QueueRequests(rs, answer, id), s, "poll")
<1>1. \A t \in DOMAIN ts : ts[t] \in Timers
  OBVIOUS
<1>2. \A r \in DOMAIN rs : rs[r] \in Requests
  OBVIOUS
<1>3. \A t \in DOMAIN ts : LET x == [ts[t] EXCEPT !.state = "queued", !.pass = id]
                           IN  x.state = "queued" /\ x.pass = id
  BY <1>1 DEF Timers, TimersOf
<1>4. \A r \in DOMAIN rs :
        LET x == [rs[r] EXCEPT !.state = "queued", !.outcome = answer[r], !.pass = id]
        IN  x.state = "queued" /\ x.pass = id
  BY <1>2 DEF Requests, RequestsOf
<1>5. \A t \in DOMAIN QueueTimers(ts, due, id) :
        /\ t \in DOMAIN ts
        /\ \/ QueueTimers(ts, due, id)[t] = ts[t]
           \/ QueueTimers(ts, due, id)[t].state = "queued" /\ QueueTimers(ts, due, id)[t].pass = id
  BY <1>3 DEF QueueTimers
<1>6. \A r \in DOMAIN QueueRequests(rs, answer, id) :
        /\ r \in DOMAIN rs
        /\ \/ QueueRequests(rs, answer, id)[r] = rs[r]
           \/ QueueRequests(rs, answer, id)[r].state = "queued" /\ QueueRequests(rs, answer, id)[r].pass = id
  BY <1>4 DEF QueueRequests
<1> QED
  BY <1>5, <1>6 DEF Held

(***************************************************************************)
(* Steps                                                                   *)
(***************************************************************************)

(* The inductive invariant: the event loop is quiet whenever no procedure  *)
(* is active, not only when an evaluation is over.                         *)
Quiet == Depth = 0 => ~Alive(timers, requests)
QueueInv == QueuesHavePass /\ Quiet

(* The innermost frame goes from one phase to another; no handle waits in  *)
(* its pass if the phase that would call it back is left.                  *)
LEMMA TopPhaseLemma ==
  ASSUME Inv, QueueInv, Depth > 0, NEW fr, stack' = [stack EXCEPT ![Depth] = fr],
         fr.phase = Top.phase \/ (Top.phase = "timers" => NoneIn(timers, Depth)),
         fr.phase = Top.phase \/ (Top.phase = "poll" => NoneIn(requests, Depth))
  PROVE  /\ Held(timers, stack', "timers") /\ Held(requests, stack', "poll")
         /\ Depth' = Depth /\ Len(stack') = Depth /\ stack'[Depth] = fr
<1>1. Depth \in Nat /\ Depth = Len(stack) /\ stack \in Seq(Frame) /\ Top = stack[Depth]
  BY TopLemma
<1>2. /\ Len(stack') = Depth /\ Depth' = Depth /\ stack'[Depth] = fr
      /\ \A i \in 1..Depth : i # Depth => stack'[i] = stack[i]
  BY <1>1 DEF Depth
<1>3. Held(timers, stack, "timers") /\ Held(requests, stack, "poll")
  BY QueuesAreHeld DEF QueueInv
<1>4. \A i \in 1..Len(stack) : stack[i].phase = "timers" =>
        NoneIn(timers, i) \/ (i \in 1..Len(stack') /\ stack'[i].phase = "timers")
  BY <1>1, <1>2
<1>5. \A i \in 1..Len(stack) : stack[i].phase = "poll" =>
        NoneIn(requests, i) \/ (i \in 1..Len(stack') /\ stack'[i].phase = "poll")
  BY <1>1, <1>2
<1>6. Held(timers, stack', "timers")
  BY <1>1, <1>2, <1>3, <1>4, HeldFramesLemma
<1>7. Held(requests, stack', "poll")
  BY <1>1, <1>2, <1>3, <1>5, HeldFramesLemma
<1> QED
  BY <1>2, <1>6, <1>7

(* Instructions that neither call nor return, and the effect of a native.  *)
LEMMA InstructionQueues ==
  ASSUME Inv, QueueInv, Work \/ Jump \/ Branch \/ Ret \/ Apply
  PROVE  QueueInv'
<1>1. Depth > 0
  BY DEF Work, Jump, Branch, Ret, Apply, Fetched, Running
<1>2. Top \in Frame /\ Top = stack[Depth] /\ stack \in Seq(Frame) /\ Depth \in 1..Len(stack)
  BY <1>1, TopLemma
<1>3. Held(timers, stack, "timers") /\ Held(requests, stack, "poll")
  BY QueuesAreHeld DEF QueueInv
<1>4. PICK fr : /\ stack' = [stack EXCEPT ![Depth] = fr]
                /\ fr.phase = Top.phase \/ Top.phase \in {"run", "apply"}
  <2>1. CASE Work \/ Branch
    <3>1. PICK o : stack' = [stack EXCEPT ![Depth] = [Top EXCEPT !.ops = o]]
      BY <2>1 DEF Work, Branch, Top
    <3>2. [Top EXCEPT !.ops = o].phase = Top.phase
      BY <1>2 DEF Frame
    <3> QED
      BY <3>1, <3>2
  <2>2. CASE Jump
    BY <1>2, <2>2 DEF Jump
  <2>3. CASE Ret
    BY <2>3 DEF Ret, Fetched, Running
  <2>4. CASE Apply
    <3>1. \E fr : stack' = [stack EXCEPT ![Depth] = fr]
      BY <2>4, TopStepLemma DEF TopStep, TopReplaced
    <3> QED
      BY <2>4, <3>1 DEF Apply, Running
  <2> QED
    BY <2>1, <2>2, <2>3, <2>4
<1>5. Held(timers, stack', "timers") /\ Held(requests, stack', "poll") /\ Depth' = Depth
  BY <1>1, <1>4, TopPhaseLemma
<1>6. Held(timers', stack', "timers") /\ Held(requests', stack', "poll")
  <2>1. CASE Work \/ Jump \/ Branch \/ Ret
    BY <1>5, <2>1 DEF Work, Jump, Branch, Ret
  <2>2. CASE Apply
    <3> DEFINE e == program.native[Top.proc]
    <3>1. e \in Effect
      <4>1. Top.proc \in Natives
        BY <1>1, <2>2, TopLemma DEF Apply, Running
      <4>2. program \in Program
        BY ProgramsAssumption DEF Inv, TypeOK
      <4> QED
        BY <4>1, <4>2 DEF Program
    <3>2. timers' = TimersAfter(e) /\ requests' = RequestsAfter(e)
      BY <2>2 DEF Apply
    <3> HIDE DEF e
    <3> QED
      BY <1>5, <3>1, <3>2, HeldEffectLemma
  <2> QED
    BY <2>1, <2>2
<1> QED
  BY <1>1, <1>5, <1>6, QueuesAreHeld DEF QueueInv, QueuesHavePass, Held, Quiet, Depth

(* The steps of a pass of the event loop.                                  *)
LEMMA PassQueues ==
  ASSUME Inv, QueueInv, Poll \/ RunRequest \/ RunTimers \/ OnTick \/ PassEnd
  PROVE  QueueInv'
<1>1. Depth > 0
  BY DEF Poll, PollFor, RunRequest, RunTimers, RunTimersFor, OnTick, PassEnd, Running, Waiting
<1>2. /\ Top \in Frame /\ Top = stack[Depth] /\ stack \in Seq(Frame) /\ Depth \in 1..Len(stack)
      /\ Depth \in Nat /\ Top.id = Depth
  BY <1>1, TopLemma
<1>3. timers \in Seq(Timers) /\ requests \in Seq(Requests)
  BY TablesLemma
<1>4. \A ph : [Top EXCEPT !.phase = ph].phase = ph
  BY <1>2 DEF Frame
<1>5. \A c : [Top EXCEPT !.calls = c].phase = Top.phase
  BY <1>2 DEF Frame
<1>6. SUFFICES Held(timers', stack', "timers") /\ Held(requests', stack', "poll") /\ Depth' = Depth
  BY <1>1 DEF QueueInv, QueuesHavePass, Held, Quiet, Depth
<1>7. CASE Poll
  <2>1. PICK R : \E answer \in [R -> Outcome] : PollFor(answer)
    BY <1>7 DEF Poll
  <2>2. PICK answer : PollFor(answer)
    BY <2>1
  <2>3. /\ Top.phase = "drain" /\ stack' = [stack EXCEPT ![Depth] = [Top EXCEPT !.phase = "poll"]]
        /\ timers' = timers /\ requests' = QueueRequests(requests, answer, Depth)
    BY <1>2, <2>2 DEF PollFor, Running, Top
  <2>4. /\ Held(timers, stack', "timers") /\ Held(requests, stack', "poll")
        /\ Depth' = Depth /\ Len(stack') = Depth /\ stack'[Depth] = [Top EXCEPT !.phase = "poll"]
    BY <1>1, <2>3, TopPhaseLemma
  <2>5. stack'[Depth].phase = "poll" /\ Depth \in 1..Len(stack')
    BY <1>1, <1>2, <1>4, <2>4
  <2>6. Held(QueueRequests(requests, answer, Depth), stack', "poll")
    BY <1>3, <2>4, <2>5, HeldQueueLemma
  <2> QED
    BY <2>3, <2>4, <2>6
<1>8. CASE RunRequest
  <2>1. PICK r \in RequestsOfPass(requests, Top.id) : requests' = Finish(requests, r)
    BY <1>8 DEF RunRequest
  <2>2. PICK c : stack' = [stack EXCEPT ![Depth] = [Top EXCEPT !.calls = c]]
    BY <1>8 DEF RunRequest, Top
  <2>3. timers' = timers
    BY <1>8 DEF RunRequest
  <2>4. Held(timers, stack', "timers") /\ Held(requests, stack', "poll") /\ Depth' = Depth
    BY <1>1, <1>5, <2>2, TopPhaseLemma
  <2>5. Held(requests', stack', "poll")
    <3> DEFINE x == [requests[r] EXCEPT !.state = "done", !.pass = 0]
    <3>1. r \in DOMAIN requests /\ requests[r] \in Requests
      BY <1>3 DEF RequestsOfPass
    <3>2. x.state = "done" /\ x.pass = 0
      BY <3>1 DEF Requests, RequestsOf
    <3>3. requests' = [requests EXCEPT ![r] = x]
      BY <2>1 DEF Finish
    <3> HIDE DEF x
    <3>4. \A t \in DOMAIN requests' : t \in DOMAIN requests /\ requests'[t] \in {x, requests[t]}
      BY <3>3
    <3> QED
      BY <2>4, <3>2, <3>4 DEF Held
  <2> QED
    BY <2>3, <2>4, <2>5
<1>9. CASE RunTimers
  <2>1. PICK due : RunTimersFor(due)
    BY <1>9 DEF RunTimers
  <2>2. /\ Top.phase = "poll" /\ stack' = [stack EXCEPT ![Depth] = [Top EXCEPT !.phase = "timers"]]
        /\ requests' = requests /\ timers' = QueueTimers(timers, due, Depth)
        /\ RequestsOfPass(requests, Depth) = {}
    BY <1>2, <2>1 DEF RunTimersFor, Waiting, Running, Top
  <2>3. NoneIn(requests, Depth)
    BY <2>2 DEF RequestsOfPass, NoneIn
  <2>4. /\ Held(timers, stack', "timers") /\ Held(requests, stack', "poll")
        /\ Depth' = Depth /\ Len(stack') = Depth /\ stack'[Depth] = [Top EXCEPT !.phase = "timers"]
    BY <1>1, <2>2, <2>3, TopPhaseLemma
  <2>5. stack'[Depth].phase = "timers" /\ Depth \in 1..Len(stack')
    BY <1>1, <1>2, <1>4, <2>4
  <2>6. Held(QueueTimers(timers, due, Depth), stack', "timers")
    BY <1>3, <2>4, <2>5, HeldQueueLemma
  <2> QED
    BY <2>2, <2>4, <2>6
<1>10. CASE OnTick
  <2>1. PICK t \in TimersOfPass(timers, Top.id) : timers' = Dequeue(timers, t)
    BY <1>10 DEF OnTick
  <2>2. PICK c : stack' = [stack EXCEPT ![Depth] = [Top EXCEPT !.calls = c]]
    BY <1>10 DEF OnTick, Top
  <2>3. requests' = requests
    BY <1>10 DEF OnTick
  <2>4. Held(timers, stack', "timers") /\ Held(requests, stack', "poll") /\ Depth' = Depth
    BY <1>1, <1>5, <2>2, TopPhaseLemma
  <2>5. t \in 1..Len(timers)
    BY <1>3 DEF TimersOfPass
  <2>6. Held(Dequeue(timers, t), stack', "timers")
    BY <1>3, <2>4, <2>5, HeldTimersLemma
  <2> QED
    BY <2>1, <2>3, <2>4, <2>6
<1>11. CASE PassEnd
  <2>1. /\ Top.phase = "timers" /\ stack' = [stack EXCEPT ![Depth] = [Top EXCEPT !.phase = "drain"]]
        /\ requests' = requests /\ timers' = timers
        /\ TimersOfPass(timers, Depth) = {}
    BY <1>2, <1>11 DEF PassEnd, Waiting, Running, Top
  <2>2. NoneIn(timers, Depth)
    BY <2>1 DEF TimersOfPass, NoneIn
  <2>3. Held(timers, stack', "timers") /\ Held(requests, stack', "poll") /\ Depth' = Depth
    BY <1>1, <2>1, <2>2, TopPhaseLemma
  <2> QED
    BY <2>1, <2>3
<1> QED
  BY <1>7, <1>8, <1>9, <1>10, <1>11

(* A new frame leaves the phases of those below it.                        *)
LEMMA NewFrameQueues ==
  ASSUME Inv, QueueInv, NEW below, NEW fr, Len(below) = Depth, stack' = Append(below, fr),
         below \in Seq(Frame), \A i \in 1..Depth : below[i].phase = stack[i].phase,
         UNCHANGED <<timers, requests>>
  PROVE  QueueInv'
<1>1. Depth \in Nat /\ Depth = Len(stack)
  BY DEF Inv, TypeOK, Depth
<1>2. /\ Depth' = Depth + 1 /\ Len(stack') = Depth + 1
      /\ \A i \in 1..Depth : stack'[i] = below[i]
  BY <1>1 DEF Depth
<1>3. Held(timers, stack, "timers") /\ Held(requests, stack, "poll")
  BY QueuesAreHeld DEF QueueInv
<1>4. \A i \in 1..Len(stack) : i \in 1..Len(stack') /\ stack'[i].phase = stack[i].phase
  BY <1>1, <1>2
<1>5. Len(stack) \in Nat /\ Len(stack') \in Nat
  BY <1>1, <1>2
<1>6. Held(timers, stack', "timers")
  BY <1>3, <1>4, <1>5, HeldFramesLemma
<1>7. Held(requests, stack', "poll")
  BY <1>3, <1>4, <1>5, HeldFramesLemma
<1> QED
  BY <1>1, <1>2, <1>6, <1>7 DEF QueueInv, QueuesHavePass, Held, Quiet, Depth

LEMMA CallQueues ==
  ASSUME Inv, QueueInv, EvalBegin \/ ExecBegin \/ Invoke \/ CallNext
  PROVE  QueueInv'
<1>1. UNCHANGED <<timers, requests>>
  BY DEF EvalBegin, ExecBegin, Invoke, CallNext
<1>2. CASE EvalBegin \/ ExecBegin
  <2>1. Depth = 0 /\ \E fr : stack' = Append(<<>>, fr)
    BY <1>2 DEF EvalBegin, ExecBegin, CallProc, Inv, ScopesMatchFrames
  <2> DEFINE below == <<>>
  <2>2. /\ below \in Seq(Frame) /\ Len(below) = Depth
        /\ \A i \in 1..Depth : below[i].phase = stack[i].phase
    BY <2>1
  <2>3. \E fr : stack' = Append(below, fr)
    BY <2>1
  <2> HIDE DEF below
  <2> QED
    BY <1>1, <2>2, <2>3, NewFrameQueues
<1>3. CASE Invoke
  <2>1. /\ Depth > 0 /\ Len(Top.ops) >= Instruction.args
        /\ Instruction \in Instr /\ Instruction.op = "invoke"
    BY <1>3, FetchLemma DEF Invoke
  <2>2. Popped(Instruction.args) \in Seq(Value)
    <3>1. Instruction.args \in Nat
      BY <2>1 DEF Instr
    <3> QED
      BY <2>1, <3>1, PoppedLemma
  <2> DEFINE o     == Popped(Instruction.args)
             below == SetOps(stack, Depth, o)
  <2>3. \E fr : stack' = Append(below, fr)
    BY <1>3 DEF Invoke, CallProc, SetOps
  <2>4. o \in Seq(Value)
    BY <2>2
  <2> HIDE DEF o
  <2>5. /\ below \in Seq(Frame) /\ Len(below) = Depth
        /\ \A i \in 1..Depth : below[i].phase = stack[i].phase
    <3>1. stack \in Seq(Frame) /\ Depth \in 1..Len(stack) /\ Depth = Len(stack)
      BY <2>1, TopLemma
    <3>2. /\ SetOps(stack, Depth, o) \in Seq(Frame)
          /\ SameFrames(stack, SetOps(stack, Depth, o))
          /\ \A i \in 1..Len(stack) : SetOps(stack, Depth, o)[i].phase = stack[i].phase
      BY <2>4, <3>1, OpsLemma, ZenonT(30)
    <3> QED
      BY <3>1, <3>2, Zenon DEF SameFrames
  <2> HIDE DEF below
  <2> QED
    BY <1>1, <2>3, <2>5, NewFrameQueues
<1>4. CASE CallNext
  <2>1. Depth > 0 /\ Top.calls # <<>>
    BY <1>4 DEF CallNext
  <2> DEFINE c     == Tail(Top.calls)
             below == SetCalls(stack, Depth, c)
  <2>2. c \in Seq(Call)
    BY <2>1, TopLemma, TailLemma
  <2>3. \E fr : stack' = Append(below, fr)
    BY <1>4 DEF CallNext, CallProc, SetCalls, Top
  <2> HIDE DEF c
  <2>4. /\ below \in Seq(Frame) /\ Len(below) = Depth
        /\ \A i \in 1..Depth : below[i].phase = stack[i].phase
    <3>1. stack \in Seq(Frame) /\ Depth \in 1..Len(stack) /\ Depth = Len(stack)
      BY <2>1, TopLemma
    <3>2. /\ SetCalls(stack, Depth, c) \in Seq(Frame)
          /\ SameFrames(stack, SetCalls(stack, Depth, c))
          /\ \A i \in 1..Len(stack) : SetCalls(stack, Depth, c)[i].phase = stack[i].phase
      BY <2>2, <3>1, CallsLemma, Zenon
    <3> QED
      BY <3>1, <3>2, Zenon DEF SameFrames
  <2> HIDE DEF below
  <2> QED
    BY <1>1, <2>3, <2>4, NewFrameQueues
<1> QED
  BY <1>2, <1>3, <1>4

(* A frame that returns is not in a pass; and the outermost one is a       *)
(* lambda, which returns only when the event loop is quiet.                *)
LEMMA ReturnQueues ==
  ASSUME Inv, QueueInv, NativeReturn \/ Drained
  PROVE  QueueInv'
<1>1. Depth > 0 /\ Return /\ Top.phase \in {"applied", "drain"} /\ UNCHANGED <<timers, requests>>
  BY DEF NativeReturn, Drained, Running, Return
<1>2. Depth \in Nat /\ Depth = Len(stack) /\ Top = stack[Depth]
  BY <1>1, TopLemma
<1>3. Depth' = Depth - 1 /\ \A i \in 1..(Depth - 1) : stack'[i].phase = stack[i].phase
  BY <1>1, PoppedFramesLemma
<1>4. Held(timers, stack, "timers") /\ Held(requests, stack, "poll")
  BY QueuesAreHeld DEF QueueInv
<1>5. Len(stack') = Depth - 1
  BY <1>3 DEF Depth
<1>6. \A i \in 1..Len(stack) : stack[i].phase \in {"timers", "poll"} =>
        i \in 1..Len(stack') /\ stack'[i].phase = stack[i].phase
  BY <1>1, <1>2, <1>3, <1>5
<1>7. Held(timers, stack', "timers") /\ Held(requests, stack', "poll")
  BY <1>1, <1>2, <1>4, <1>5, <1>6, HeldFramesLemma, SMTT(30)
<1>8. Quiet'
  <2>1. CASE Drained
    BY <1>1, <2>1 DEF Drained, Quiet, Alive
  <2>2. CASE NativeReturn
    <3>1. Top.proc \in Natives
      BY <1>1, <2>2, TopLemma DEF NativeReturn, Running
    <3>2. Depth > 1
      BY <1>1, <1>2, <3>1 DEF Inv, ContinuesInOwnCode
    <3> QED
      BY <1>2, <1>3, <3>2 DEF Quiet
  <2> QED
    BY <2>1, <2>2
<1> QED
  BY <1>1, <1>5, <1>7, <1>8 DEF QueueInv, QueuesHavePass, Held, Depth

(***************************************************************************)
(* Results                                                                 *)
(***************************************************************************)

(* The invariant holds of every program.                                   *)
LEMMA QueueInvariance == Spec => []QueueInv
<1>1. Init => QueueInv
  BY DEF Init, QueueInv, QueuesHavePass, Quiet, Alive
<1>2. Inv /\ QueueInv /\ [Next]_vars => QueueInv'
  <2> SUFFICES ASSUME Inv, QueueInv, [Next]_vars
               PROVE  QueueInv'
    OBVIOUS
  <2>1. CASE Work \/ Jump \/ Branch \/ Ret \/ Apply
    BY <2>1, InstructionQueues
  <2>2. CASE Poll \/ RunRequest \/ RunTimers \/ OnTick \/ PassEnd
    BY <2>2, PassQueues
  <2>3. CASE EvalBegin \/ ExecBegin \/ Invoke \/ CallNext
    BY <2>3, CallQueues
  <2>4. CASE NativeReturn \/ Drained
    BY <2>4, ReturnQueues
  <2>5. CASE End \/ Throw \/ UNCHANGED vars
    <3>1. UNCHANGED <<stack, timers, requests>>
      BY <2>5 DEF End, Throw, vars
    <3> QED
      BY <3>1 DEF QueueInv, QueuesHavePass, Quiet, Depth
  <2> QED
    BY <2>1, <2>2, <2>3, <2>4, <2>5 DEF Next, Step, Interpret, Native, Drain
<1> QED
  BY <1>1, <1>2, Invariance, PTL DEF Spec, Inv

(***************************************************************************)
(* Every handle that libuv has queued waits in a pass that is under way    *)
(* and still in the phase that calls it back, however passes nest: no      *)
(* callback is lost with a frame of kRet.                                  *)
(***************************************************************************)
THEOREM Queues == Spec => []QueuesHavePass
<1>1. QueueInv => QueuesHavePass
  BY DEF QueueInv
<1> QED
  BY <1>1, QueueInvariance, PTL

(***************************************************************************)
(* When an evaluation is over, no timer is armed or queued and no request  *)
(* unanswered: the outermost kRet drains what every procedure below it has *)
(* started.                                                                *)
(***************************************************************************)
THEOREM QuietEvaluations == Spec => []QuietWhenIdle
<1>1. Inv /\ QueueInv => QuietWhenIdle
  <2> SUFFICES ASSUME Inv, QueueInv, mode = "idle"
               PROVE  /\ \A t \in DOMAIN timers : timers[t].state = "idle"
                      /\ \A r \in DOMAIN requests : requests[r].state = "done"
    BY DEF QuietWhenIdle
  <2>1. Depth = 0
    BY DEF Inv, ScopesMatchFrames
  <2>2. ~Alive(timers, requests)
    BY <2>1 DEF QueueInv, Quiet
  <2>3. \A t \in DOMAIN timers : timers[t].state \in TimerState
    <3>1. \A t \in DOMAIN timers : timers[t] \in Timers
      BY TablesLemma
    <3> QED
      BY <3>1 DEF Timers, TimersOf
  <2>4. \A t \in DOMAIN timers : timers[t].state # "queued"
    BY <2>1 DEF QueueInv, QueuesHavePass
  <2> QED
    BY <2>2, <2>3, <2>4 DEF Alive, TimerState
<1> QED
  BY <1>1, QueueInvariance, Invariance, PTL DEF Inv

(***************************************************************************)
(* Calls                                                                   *)
(***************************************************************************)

(* Only a frame in one of these phases has calls to make; in all others    *)
(* they could be dropped, for a lambda returns from "drain" without a look *)
(* at them.                                                                *)
CallsInv ==
  \A i \in 1..Depth : stack[i].calls # <<>> => stack[i].phase \in {"poll", "timers", "applied"}

(* The innermost frame changes, but not what it still has to call.         *)
LEMMA EditCalls ==
  ASSUME Inv, CallsInv, Depth > 0, NEW fr, stack' = [stack EXCEPT ![Depth] = fr],
         fr.calls = Top.calls \/ Top.calls = <<>>,
         fr.calls # <<>> => fr.phase \in {"poll", "timers", "applied"}
  PROVE  CallsInv' /\ CallsKept /\ Depth' = Depth /\ stack'[Depth] = fr
<1>1. Depth \in Nat /\ Depth = Len(stack) /\ stack \in Seq(Frame) /\ Top = stack[Depth]
  BY TopLemma
<1>2. /\ Len(stack') = Depth /\ Depth' = Depth /\ stack'[Depth] = fr /\ DOMAIN stack' = 1..Depth
      /\ \A i \in 1..Depth : i # Depth => stack'[i] = stack[i]
  BY <1>1 DEF Depth
<1>3. CallsInv'
  BY <1>1, <1>2 DEF CallsInv
<1>4. CallsKept
  BY <1>1, <1>2 DEF CallsKept
<1> QED
  BY <1>2, <1>3, <1>4

(* A step in a phase without calls, or that leaves the calls alone.        *)
LEMMA TopCalls ==
  ASSUME Inv, CallsInv, Work \/ Jump \/ Branch \/ Ret \/ Apply
  PROVE  CallsInv' /\ CallsKept
<1>1. Depth > 0 /\ Top.phase \in {"run", "apply"}
  BY DEF Work, Jump, Branch, Ret, Apply, Fetched, Running
<1>2. /\ Top \in Frame /\ Top = stack[Depth] /\ stack \in Seq(Frame) /\ Depth \in 1..Depth
      /\ stack = [stack EXCEPT ![Depth] = Top]
  BY <1>1, TopLemma
<1>3. Top.calls = <<>>
  BY <1>1, <1>2 DEF CallsInv
<1>4. PICK fr : /\ stack' = [stack EXCEPT ![Depth] = fr]
                /\ fr.calls # <<>> => fr.phase \in {"poll", "timers", "applied"}
  <2>1. CASE Work \/ Branch
    <3>1. PICK o : stack' = [stack EXCEPT ![Depth] = [Top EXCEPT !.ops = o]]
      BY <2>1 DEF Work, Branch, Top
    <3>2. [Top EXCEPT !.ops = o].calls = Top.calls
      BY <1>2 DEF Frame
    <3> QED
      BY <1>3, <3>1, <3>2
  <2>2. CASE Jump
    BY <1>2, <1>3, <2>2 DEF Jump
  <2>3. CASE Ret
    <3>1. stack' = [stack EXCEPT ![Depth] = [Top EXCEPT !.phase = "drain"]]
      BY <2>3 DEF Ret, Top
    <3>2. [Top EXCEPT !.phase = "drain"].calls = Top.calls
      BY <1>2 DEF Frame
    <3> QED
      BY <1>3, <3>1, <3>2
  <2>4. CASE Apply
    <3> DEFINE c == program.native[Top.proc].calls
               a == [Top EXCEPT !.phase = "applied", !.calls = c]
               b == [Top EXCEPT !.phase = "applied", !.ops = <<Top.proc>>]
    <3>1. stack' = [stack EXCEPT ![Depth] = a] \/ stack' = [stack EXCEPT ![Depth] = b]
      BY <2>4 DEF Apply, Top
    <3>2. a.phase = "applied" /\ b.phase = "applied"
      BY <1>2 DEF Frame
    <3> QED
      BY <3>1, <3>2
  <2> QED
    BY <2>1, <2>2, <2>3, <2>4
<1> QED
  BY <1>1, <1>3, <1>4, EditCalls

(* A pass takes new calls only when there is none left.                    *)
LEMMA PassCalls ==
  ASSUME Inv, CallsInv, Poll \/ RunRequest \/ RunTimers \/ OnTick \/ PassEnd
  PROVE  /\ CallsInv' /\ CallsKept /\ Depth' = Depth
         /\ \A c : stack' = [stack EXCEPT ![Depth].calls = c] => stack'[Depth].calls = c
<1>1. Depth > 0 /\ Top.phase \in {"drain", "poll", "timers"}
  BY DEF Poll, PollFor, RunRequest, RunTimers, RunTimersFor, OnTick, PassEnd, Running, Waiting
<1>2. /\ Top \in Frame /\ Top = stack[Depth] /\ stack \in Seq(Frame) /\ Depth \in 1..Depth
      /\ Depth = Len(stack)
  BY <1>1, TopLemma
<1>3. Top.calls = <<>>
  <2>1. CASE Poll
    BY <1>2, <2>1 DEF Poll, PollFor, Running, CallsInv
  <2>2. CASE ~Poll
    BY <2>2 DEF RunRequest, RunTimers, RunTimersFor, OnTick, PassEnd, Waiting
  <2> QED
    BY <2>1, <2>2
<1>4. ASSUME NEW ph, stack' = [stack EXCEPT ![Depth].phase = ph]
      PROVE  CallsInv' /\ CallsKept /\ Depth' = Depth
  <2>1. stack' = [stack EXCEPT ![Depth] = [Top EXCEPT !.phase = ph]]
    BY <1>4 DEF Top
  <2>2. [Top EXCEPT !.phase = ph].calls = Top.calls
    BY <1>2 DEF Frame
  <2> QED
    BY <1>1, <1>3, <2>1, <2>2, EditCalls
<1>5. ASSUME NEW c, stack' = [stack EXCEPT ![Depth].calls = c]
      PROVE  stack'[Depth].calls = c
  <2>1. stack' = [stack EXCEPT ![Depth] = [Top EXCEPT !.calls = c]]
    BY <1>5 DEF Top
  <2>2. stack'[Depth] = [Top EXCEPT !.calls = c]
    BY <1>2, <2>1
  <2> QED
    BY <1>2, <2>2 DEF Frame
<1>6. ASSUME NEW c, stack' = [stack EXCEPT ![Depth].calls = c], Top.phase \in {"poll", "timers"}
      PROVE  CallsInv' /\ CallsKept /\ Depth' = Depth
  <2>1. stack' = [stack EXCEPT ![Depth] = [Top EXCEPT !.calls = c]]
    BY <1>6 DEF Top
  <2>2. [Top EXCEPT !.calls = c].phase = Top.phase
    BY <1>2 DEF Frame
  <2> QED
    BY <1>1, <1>3, <1>6, <2>1, <2>2, EditCalls
<1>7. CASE Poll \/ RunTimers \/ PassEnd
  <2>1. \E ph : stack' = [stack EXCEPT ![Depth].phase = ph]
    BY <1>7 DEF Poll, PollFor, RunTimers, RunTimersFor, PassEnd
  <2> QED
    BY <1>4, <1>5, <2>1
<1>8. CASE RunRequest \/ OnTick
  <2>1. Top.phase \in {"poll", "timers"} /\ \E c : stack' = [stack EXCEPT ![Depth].calls = c]
    BY <1>8 DEF RunRequest, OnTick, Waiting, Running
  <2> QED
    BY <1>5, <1>6, <2>1
<1> QED
  BY <1>7, <1>8

(* A new frame has no calls to make; the one that called it has one less.  *)
LEMMA CallCalls ==
  ASSUME Inv, CallsInv, EvalBegin \/ ExecBegin \/ Invoke \/ CallNext
  PROVE  CallsInv' /\ CallsKept
<1>1. ASSUME NEW below, NEW p, NEW parent, NEW addr, NEW d, CallProc(below, p, parent, addr, d),
             below \in Seq(Frame), Len(below) = Depth
      PROVE  /\ Depth' = Depth + 1 /\ DOMAIN stack' = 1..(Depth + 1)
             /\ stack'[Depth + 1].proc = p /\ stack'[Depth + 1].calls = <<>>
             /\ \A i \in 1..Depth : stack'[i] = below[i]
  <2> DEFINE fr == NewFrame(p, IF below = <<>> THEN 1 ELSE below[Len(below)].id + 1, parent + 1, addr, d)
  <2>1. stack' = Append(below, fr)
    BY <1>1 DEF CallProc
  <2>2. fr.proc = p /\ fr.calls = <<>>
    BY DEF NewFrame
  <2> HIDE DEF fr
  <2>3. /\ Len(stack') = Depth + 1 /\ DOMAIN stack' = 1..(Depth + 1) /\ stack'[Depth + 1] = fr
        /\ \A i \in 1..Depth : stack'[i] = below[i]
    BY <1>1, <2>1
  <2> QED
    BY <2>2, <2>3 DEF Depth
<1>2. Depth \in Nat /\ stack \in Seq(Frame) /\ Depth = Len(stack)
  BY DEF Inv, TypeOK, Depth
<1>3. CASE EvalBegin \/ ExecBegin
  <2>1. Depth = 0 /\ \E p, parent : CallProc(<<>>, p, parent, current, FALSE)
    BY <1>3 DEF EvalBegin, ExecBegin, Inv, ScopesMatchFrames
  <2> DEFINE below == <<>>
  <2>2. below \in Seq(Frame) /\ Len(below) = Depth
    BY <2>1
  <2>3. \E p, parent : CallProc(below, p, parent, current, FALSE)
    BY <2>1
  <2> HIDE DEF below
  <2>4. Depth' = Depth + 1 /\ stack'[Depth + 1].calls = <<>>
    BY <1>1, <2>2, <2>3
  <2> QED
    BY <2>1, <2>4 DEF CallsInv, CallsKept
<1>4. CASE Invoke
  <2>1. /\ Depth > 0 /\ Len(Top.ops) >= Instruction.args
        /\ Instruction \in Instr /\ Instruction.op = "invoke"
    BY <1>4, FetchLemma DEF Invoke
  <2>2. Popped(Instruction.args) \in Seq(Value)
    <3>1. Instruction.args \in Nat
      BY <2>1 DEF Instr
    <3> QED
      BY <2>1, <3>1, PoppedLemma
  <2> DEFINE o     == Popped(Instruction.args)
             below == SetOps(stack, Depth, o)
  <2>3. CallProc(below, Instruction.proc, scope, Following, FALSE)
    BY <1>4 DEF Invoke, SetOps
  <2>4. o \in Seq(Value)
    BY <2>2
  <2> HIDE DEF o
  <2>5. /\ below \in Seq(Frame) /\ Len(below) = Depth
        /\ \A i \in 1..Depth : below[i].phase = stack[i].phase /\ below[i].calls = stack[i].calls
    <3>1. Depth \in 1..Len(stack)
      BY <1>2, <2>1
    <3>2. /\ SetOps(stack, Depth, o) \in Seq(Frame)
          /\ SameFrames(stack, SetOps(stack, Depth, o))
          /\ \A i \in 1..Len(stack) : SetOps(stack, Depth, o)[i].phase = stack[i].phase
          /\ \A i \in 1..Len(stack) : SetOps(stack, Depth, o)[i].calls = stack[i].calls
      BY <1>2, <2>4, <3>1, OpsLemma, ZenonT(30)
    <3> QED
      BY <1>2, <3>2, Zenon DEF SameFrames
  <2> HIDE DEF below
  <2>6. /\ Depth' = Depth + 1 /\ DOMAIN stack' = 1..(Depth + 1)
        /\ stack'[Depth + 1].calls = <<>>
        /\ \A i \in 1..Depth : stack'[i].phase = stack[i].phase /\ stack'[i].calls = stack[i].calls
    BY <1>1, <2>3, <2>5
  <2> QED
    BY <1>2, <2>6 DEF CallsInv, CallsKept
<1>5. CASE CallNext
  <2>1. Depth > 0 /\ Top.calls # <<>> /\ Top = stack[Depth] /\ Depth \in 1..Len(stack)
    BY <1>5, TopLemma DEF CallNext
  <2> DEFINE c     == Tail(Top.calls)
             below == SetCalls(stack, Depth, c)
  <2>2. c \in Seq(Call)
    BY <2>1, TopLemma, TailLemma
  <2>3. CallProc(below, Top.calls[1].proc, scope, current, Top.calls[1].discard)
    BY <1>5 DEF CallNext, SetCalls, Top
  <2> HIDE DEF c
  <2>4. /\ below \in Seq(Frame) /\ Len(below) = Depth /\ below[Depth].calls = c
        /\ \A i \in 1..Depth : below[i].phase = stack[i].phase
        /\ \A i \in 1..Depth : i # Depth => below[i].calls = stack[i].calls
    <3> DEFINE fr == [stack[Depth] EXCEPT !.calls = c]
    <3>1. fr \in Frame /\ fr.calls = c /\ fr.phase = stack[Depth].phase
      <4>1. stack[Depth] \in Frame
        BY <1>2, <2>1
      <4> QED
        BY <2>2, <4>1 DEF Frame
    <3>2. below = [stack EXCEPT ![Depth] = fr]
      BY DEF SetCalls
    <3> HIDE DEF fr, below
    <3>3. /\ below \in Seq(Frame) /\ Len(below) = Len(stack) /\ below[Depth] = fr
          /\ \A i \in 1..Len(stack) : i # Depth => below[i] = stack[i]
      BY <1>2, <2>1, <3>1, <3>2, ReplaceLemma
    <3> QED
      BY <1>2, <3>1, <3>3
  <2> HIDE DEF below
  <2>5. /\ Depth' = Depth + 1 /\ DOMAIN stack' = 1..(Depth + 1)
        /\ stack'[Depth + 1].proc = Top.calls[1].proc /\ stack'[Depth + 1].calls = <<>>
        /\ \A i \in 1..Depth : stack'[i] = below[i]
    BY <1>1, <2>3, <2>4
  <2>6. stack'[Depth].calls = Tail(stack[Depth].calls)
    BY <1>2, <2>1, <2>4, <2>5 DEF c
  <2>7. CallStep(Depth)
    BY <2>1, <2>5, <2>6 DEF CallStep
  <2>8. \A i \in 1..Depth : /\ stack'[i].phase = stack[i].phase
                            /\ i # Depth => stack'[i].calls = stack[i].calls
    BY <2>4, <2>5
  <2>9. stack[Depth].phase \in {"poll", "timers", "applied"}
    BY <1>2, <2>1 DEF CallsInv
  <2>10. CallsInv'
    BY <1>2, <2>5, <2>8, <2>9 DEF CallsInv
  <2>11. CallsKept
    BY <1>2, <2>5, <2>7, <2>8 DEF CallsKept
  <2> QED
    BY <2>10, <2>11
<1> QED
  BY <1>3, <1>4, <1>5

(* A frame that returns has made its calls.                                *)
LEMMA ReturnCalls ==
  ASSUME Inv, CallsInv, mode # "aborted", NativeReturn \/ Drained
  PROVE  CallsInv' /\ CallsKept
<1>1. Depth > 0 /\ Return
  BY DEF NativeReturn, Drained, Running
<1>2. Depth \in Nat /\ Depth \in 1..Depth /\ Depth = Len(stack) /\ Top = stack[Depth]
  BY <1>1, TopLemma
<1>3. Top.calls = <<>>
  BY <1>2 DEF NativeReturn, Drained, Running, CallsInv
<1>4. /\ Depth' = Depth - 1
      /\ \A i \in 1..(Depth - 1) : stack'[i].phase = stack[i].phase /\ stack'[i].calls = stack[i].calls
  BY <1>1, PoppedFramesLemma
<1>5. DOMAIN stack' = 1..(Depth - 1)
  <2>1. Inv'
    BY <1>1, ReturnLemma
  <2>2. stack' \in Seq(Frame)
    BY <2>1 DEF Inv, TypeOK
  <2> QED
    BY <1>2, <1>4, <2>2 DEF Depth
<1>6. CallsInv'
  BY <1>2, <1>4 DEF CallsInv
<1>7. CallsKept
  BY <1>2, <1>3, <1>4, <1>5 DEF CallsKept
<1> QED
  BY <1>6, <1>7

(***************************************************************************)
(* Deliveries                                                              *)
(***************************************************************************)

(* A native adds requests and edits timers.                                *)
LEMMA ApplyDelivers ==
  ASSUME Inv, Apply
  PROVE  HandlesStep
<1>1. Running("apply") /\ \E e : requests' = RequestsAfter(e)
  BY DEF Apply
<1>2. requests \in Seq(Requests)
  BY TablesLemma
<1>3. \A x : \A r \in DOMAIN requests : Append(requests, x)[r] = requests[r]
  BY <1>2
<1>4. \A r \in DOMAIN requests : requests'[r] = requests[r]
  BY <1>1, <1>3 DEF RequestsAfter, Execute
<1> QED
  BY <1>1, <1>4 DEF HandlesStep, TimerLeaves

(* The steps of a pass: collecting and calling back.                       *)
LEMMA PassDelivers ==
  ASSUME Inv, CallsInv, Poll \/ RunRequest \/ RunTimers \/ OnTick \/ PassEnd
  PROVE  HandlesStep
<1>1. Depth > 0
  BY DEF Poll, PollFor, RunRequest, RunTimers, RunTimersFor, OnTick, PassEnd, Running, Waiting
<1>2. Top.id = Depth
  BY <1>1, TopLemma
<1>3. timers \in Seq(Timers) /\ requests \in Seq(Requests)
  BY TablesLemma
<1>4. \A c : stack' = [stack EXCEPT ![Depth].calls = c] => CallsOf(Depth)' = [i \in DOMAIN c |-> c[i].proc]
  BY PassCalls DEF CallsOf
<1>5. CASE Poll
  <2>1. PICK R \in SUBSET Pending(requests) : \E answer \in [R -> Outcome] : PollFor(answer)
    BY <1>5 DEF Poll
  <2>2. PICK answer \in [R -> Outcome] : PollFor(answer)
    BY <2>1
  <2>3. Running("drain") /\ timers' = timers /\ requests' = QueueRequests(requests, answer, Top.id)
    BY <2>2 DEF PollFor
  <2>4. ASSUME NEW r \in DOMAIN requests, requests'[r] # requests[r]
        PROVE  requests[r].state = "pending" /\ requests'[r].state = "queued"
    <3>0. \A q \in DOMAIN requests : q \notin DOMAIN answer => requests'[q] = requests[q]
      BY <2>3, Zenon DEF QueueRequests
    <3>1. r \in DOMAIN answer /\ requests[r] \in Requests
      BY <1>3, <2>4, <3>0
    <3>2. requests[r].state = "pending"
      BY <2>1, <2>2, <3>1 DEF Pending
    <3>3. requests'[r] = [requests[r] EXCEPT !.state = "queued", !.outcome = answer[r], !.pass = Top.id]
      BY <2>3, <3>1, Zenon DEF QueueRequests
    <3>4. requests'[r].state = "queued"
      BY <3>1, <3>3 DEF Requests, RequestsOf
    <3> QED
      BY <3>2, <3>4
  <2> QED
    BY <2>3, <2>4 DEF HandlesStep, RequestStep
<1>6. CASE RunRequest
  <2>1. PICK r \in RequestsOfPass(requests, Top.id) :
          /\ requests' = Finish(requests, r)
          /\ stack' = [stack EXCEPT ![Depth].calls =
                         [i \in DOMAIN Callbacks(requests[r]) |->
                            [proc |-> Callbacks(requests[r])[i], discard |-> FALSE]]]
    BY <1>6 DEF RunRequest
  <2>2. Running("poll") /\ timers' = timers
    BY <1>6 DEF RunRequest, Waiting
  <2>3. r \in 1..Len(requests) /\ requests[r].state = "queued" /\ requests[r].pass = Depth
    BY <1>2, <1>3, <2>1 DEF RequestsOfPass
  <2> DEFINE ps == Callbacks(requests[r])
             c  == [i \in DOMAIN ps |-> [proc |-> ps[i], discard |-> FALSE]]
  <2>4. CallsOf(Depth)' = [i \in DOMAIN c |-> c[i].proc]
    BY <1>4, <2>1
  <2>5. ps \in Seq(Procs)
    BY <1>3, <2>3, FinishLemma
  <2>6. CallsOf(Depth)' = ps
    <3> HIDE DEF ps
    <3>1. ps = [i \in DOMAIN ps |-> ps[i]]
      BY <2>5
    <3> QED
      BY <2>4, <3>1
  <2>7. requests'[r].state = "done" /\ \A q \in DOMAIN requests : q # r => requests'[q] = requests[q]
    <3>1. requests[r] \in Requests
      BY <1>3, <2>3
    <3>2. [requests[r] EXCEPT !.state = "done", !.pass = 0].state = "done"
      BY <3>1 DEF Requests, RequestsOf
    <3>3. requests' = [requests EXCEPT ![r] = [requests[r] EXCEPT !.state = "done", !.pass = 0]]
      BY <2>1 DEF Finish
    <3> QED
      BY <1>3, <2>3, <3>2, <3>3
  <2> QED
    BY <2>2, <2>3, <2>6, <2>7 DEF HandlesStep, RequestStep
<1>7. CASE RunTimers
  <2>1. PICK due \in SUBSET ActiveTimers(timers) : RunTimersFor(due)
    BY <1>7 DEF RunTimers
  <2>2. requests' = requests /\ timers' = QueueTimers(timers, due, Top.id)
    BY <2>1 DEF RunTimersFor
  <2>3. \A t \in DOMAIN timers : t \notin due => timers'[t] = timers[t]
    BY <2>2, Zenon DEF QueueTimers
  <2>4. \A t \in DOMAIN timers : timers[t].state = "queued" => t \notin due
    BY <2>1 DEF ActiveTimers
  <2> QED
    BY <2>2, <2>3, <2>4 DEF HandlesStep
<1>8. CASE OnTick
  <2>1. PICK t \in TimersOfPass(timers, Top.id) :
          /\ timers' = Dequeue(timers, t)
          /\ stack' = [stack EXCEPT ![Depth].calls = <<[proc |-> timers[t].tick, discard |-> FALSE]>>]
    BY <1>8 DEF OnTick
  <2>2. Running("timers") /\ requests' = requests
    BY <1>8 DEF OnTick, Waiting
  <2>3. t \in DOMAIN timers /\ timers[t].pass = Depth
    BY <1>2, <2>1 DEF TimersOfPass
  <2> DEFINE c == <<[proc |-> timers[t].tick, discard |-> FALSE]>>
  <2>4. CallsOf(Depth)' = [i \in DOMAIN c |-> c[i].proc]
    BY <1>4, <2>1
  <2>5. CallsOf(Depth)' = <<timers[t].tick>>
    BY <2>4
  <2>6. \A u \in DOMAIN timers : u # t => timers'[u] = timers[u]
    BY <2>1 DEF Dequeue
  <2> QED
    BY <2>2, <2>3, <2>5, <2>6 DEF HandlesStep, TimerLeaves
<1>9. CASE PassEnd
  BY <1>9 DEF PassEnd, HandlesStep
<1> QED
  BY <1>5, <1>6, <1>7, <1>8, <1>9

(***************************************************************************)
(* A finished request is called back once and completely by the pass that  *)
(* collected it, a queued timer by its own pass, and the calls of a        *)
(* callback or a native are made in their order, none dropped and none     *)
(* twice, whatever the procedures called in between do to the same tables. *)
(***************************************************************************)
THEOREM Delivery == Spec => CallbacksDelivered
<1>1. Init => CallsInv
  BY DEF Init, CallsInv, Depth
<1>2. Inv /\ CallsInv /\ [Next]_vars => CallsInv' /\ [HandlesStep /\ CallsKept]_vars
  <2> SUFFICES ASSUME Inv, CallsInv, [Next]_vars
               PROVE  CallsInv' /\ [HandlesStep /\ CallsKept]_vars
    OBVIOUS
  <2>1. CASE (Work \/ Jump \/ Branch \/ Ret)
    <3>1. UNCHANGED <<timers, requests>>
      BY <2>1 DEF Work, Jump, Branch, Ret
    <3> QED
      BY <2>1, <3>1, TopCalls DEF HandlesStep
  <2>2. CASE Apply
    BY <2>2, TopCalls, ApplyDelivers
  <2>3. CASE Poll \/ RunRequest \/ RunTimers \/ OnTick \/ PassEnd
    BY <2>3, PassCalls, PassDelivers
  <2>4. CASE EvalBegin \/ ExecBegin \/ Invoke \/ CallNext
    <3>1. UNCHANGED <<timers, requests>>
      BY <2>4 DEF EvalBegin, ExecBegin, Invoke, CallNext
    <3> QED
      BY <2>4, <3>1, CallCalls DEF HandlesStep
  <2>5. CASE mode # "aborted" /\ (NativeReturn \/ Drained)
    <3>1. UNCHANGED <<timers, requests>>
      BY <2>5 DEF NativeReturn, Drained, Return
    <3> QED
      BY <2>5, <3>1, ReturnCalls DEF HandlesStep
  <2>6. CASE End \/ Throw
    <3>1. UNCHANGED <<stack, timers, requests>> /\ DOMAIN stack = 1..Depth
      BY <2>6 DEF End, Throw, Inv, TypeOK, Depth
    <3> QED
      BY <3>1 DEF CallsInv, CallsKept, HandlesStep, Depth
  <2>7. CASE UNCHANGED vars
    BY <2>7 DEF CallsInv, vars, Depth
  <2> QED
    BY <2>1, <2>2, <2>3, <2>4, <2>5, <2>6, <2>7 DEF Next, Step, Interpret, Native, Drain
<1> QED
  BY <1>1, <1>2, Invariance, PTL DEF Spec, Inv, CallbacksDelivered

=============================================================================

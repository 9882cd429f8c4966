------------------------------ MODULE EventLoop ------------------------------
(***************************************************************************)
(* The state of a thread's EventLoop (event_loop.h, event_loop.cc) and the *)
(* operations gel performs on it, as operators on two tables:              *)
(*                                                                         *)
(*   timers    EventLoop::timers_, a timer's id being its position;        *)
(*   requests  the fs::Request objects handed to libuv, in creation order. *)
(*                                                                         *)
(* libuv is outside the repository.  It is modelled by what gel relies on: *)
(* a pass of uv_run(UV_RUN_NOWAIT) first moves the finished requests, then *)
(* the timers that are due, to a queue of its own and calls them back one  *)
(* by one.  `pass' names the queue a handle waits in: the id of the stack  *)
(* frame whose drain started that pass, 0 when it waits in none.           *)
(*                                                                         *)
(* Time is abstracted: any active timer may be due at any pass.            *)
(***************************************************************************)
EXTENDS Naturals, Sequences

TimerState   == {"idle", "active", "queued"}
RequestState == {"pending", "queued", "done"}
RequestKind  == {"simple", "stat"}

(* "perm" is the result -1 (EPERM), "fail" any other negative result.      *)
Outcome == {"ok", "perm", "fail"}

(* An optional Procedure* is a sequence of at most one procedure.          *)
Optional(P) == {<<>>} \cup {<<p>> : p \in P}

TimersOf(P) == [tick: P, repeat: BOOLEAN, state: TimerState, pass: Nat]

RequestsOf(P) == [kind: RequestKind, next: Optional(P), err: Optional(P), fin: Optional(P),
                  state: RequestState, outcome: Outcome, pass: Nat]

(***************************************************************************)
(* Timers                                                                  *)
(***************************************************************************)

NoTimer == 0

(* find_if searches the empty range [begin, begin), so it returns begin:   *)
(* the first timer whatever idx is, nothing when there is no timer.        *)
GetTimer(ts, idx) == IF ts = <<>> THEN NoTimer ELSE 1

(* A mistake: Start's timeout and repeat are swapped, every timer repeats. *)
CreateSwapped(ts, on_tick, rep) ==
  Append(ts, [tick |-> on_tick, repeat |-> TRUE, state |-> "active", pass |-> 0])

(* create_timer: CreateTimer, which numbers the timer, then Start.         *)
CreateTimer(ts, on_tick, rep) ==
  Append(ts, [tick |-> on_tick, repeat |-> rep, state |-> "active", pass |-> 0])

(* uv_timer_start and uv_timer_stop take the handle out of the heap or of  *)
(* the queue it waits in.                                                  *)
Start(ts, t, rep) == [ts EXCEPT ![t].repeat = rep, ![t].state = "active", ![t].pass = 0]

Stop(ts, t) == [ts EXCEPT ![t].state = "idle", ![t].pass = 0]

Again(ts, t) == IF ts[t].repeat THEN Start(ts, t, TRUE) ELSE ts

SetRepeat(ts, t, rep) == [ts EXCEPT ![t].repeat = rep]

(* The timers that are due leave the heap for the queue of this pass.      *)
QueueTimers(ts, due, id) ==
  [t \in DOMAIN ts |-> IF t \in due THEN [ts[t] EXCEPT !.state = "queued", !.pass = id] ELSE ts[t]]

(* A queued timer is re-armed when it repeats, and then called back.       *)
Dequeue(ts, t) ==
  [ts EXCEPT ![t].state = IF ts[t].repeat THEN "active" ELSE "idle", ![t].pass = 0]

ActiveTimers(ts) == {t \in DOMAIN ts : ts[t].state = "active"}

TimersOfPass(ts, id) == {t \in DOMAIN ts : ts[t].state = "queued" /\ ts[t].pass = id}

(***************************************************************************)
(* File system requests                                                    *)
(***************************************************************************)

(* Stat, Rename, Mkdir, Rmdir and Open allocate a request and hand it over.*)
Execute(rs, kind, next, err, fin) ==
  Append(rs, [kind |-> kind, next |-> next, err |-> err, fin |-> fin,
              state |-> "pending", outcome |-> "ok", pass |-> 0])

(* What the kernel answered is known when the pass collects the request.   *)
QueueRequests(rs, answer, id) ==
  [r \in DOMAIN rs |-> IF r \in DOMAIN answer
                       THEN [rs[r] EXCEPT !.state = "queued", !.outcome = answer[r], !.pass = id]
                       ELSE rs[r]]

Finish(rs, r) == [rs EXCEPT ![r].state = "done", ![r].pass = 0]

Pending(rs) == {r \in DOMAIN rs : rs[r].state = "pending"}

RequestsOfPass(rs, id) == {r \in DOMAIN rs : rs[r].state = "queued" /\ rs[r].pass = id}

(* The callbacks a finished request runs, in order.  Rename, Rmdir, Mkdir  *)
(* and Open treat every negative result as an error and always end with    *)
(* on_finished; Stat compares the result with -1 only and leaves early.    *)
SimpleCallback(req) == (IF req.outcome = "ok" THEN req.next ELSE req.err) \o req.fin

StatCallback(req) == IF req.outcome = "perm" THEN req.err ELSE req.next \o req.fin

Callbacks(req) == IF req.kind = "stat" THEN StatCallback(req) ELSE SimpleCallback(req)

(***************************************************************************)
(* uv_loop_alive: active timers and unanswered or queued requests count; a *)
(* timer that waits in the queue of a pass is stopped, and does not.       *)
(***************************************************************************)
Alive(ts, rs) == \/ \E t \in DOMAIN ts : ts[t].state = "active"
                 \/ \E r \in DOMAIN rs : rs[r].state # "done"

=============================================================================

----------------------------- MODULE MC_Runtime -----------------------------
(***************************************************************************)
(* Small programs for Runtime, written in its reduced bytecode.  Each one  *)
(* is the shape of a script: main evaluates an expression, f is a helper   *)
(* it calls, g and h are the callbacks it passes to timers, requests and   *)
(* subscriptions.                                                          *)
(***************************************************************************)
EXTENDS Runtime, TLC

CONSTANTS main, f, g, h,        \* lambdas
          n1, n2, n3            \* natives

push         == [op |-> "work", pops |-> 0, pushes |-> TRUE]
pop          == [op |-> "work", pops |-> 1, pushes |-> FALSE]
add          == [op |-> "work", pops |-> 2, pushes |-> TRUE]
ret          == [op |-> "ret"]
call(p, n)   == [op |-> "invoke", proc |-> p, args |-> n]
jnz(to)      == [op |-> "branch", pops |-> 1, to |-> to]
jmp(to)      == [op |-> "jump", to |-> to]

pure               == [op |-> "pure"]
once(p)            == [op |-> "create", tick |-> p, repeat |-> FALSE]
every(p)           == [op |-> "create", tick |-> p, repeat |-> TRUE]
stop(id)           == [op |-> "stop", id |-> id]
again(id)          == [op |-> "again", id |-> id]
start(id, r)       == [op |-> "start", id |-> id, repeat |-> r]
setRepeat(id, r)   == [op |-> "setRepeat", id |-> id, repeat |-> r]
stat(nxt, e, fin)  == [op |-> "request", kind |-> "stat", next |-> nxt, err |-> e, fin |-> fin]
rename(ok, e, fin) == [op |-> "request", kind |-> "simple", next |-> ok, err |-> e, fin |-> fin]
notify(cs)         == [op |-> "calls", calls |-> cs]
Run(p)             == [proc |-> p, discard |-> FALSE]       \* Call
Take(p)            == [proc |-> p, discard |-> TRUE]        \* CallPop

Body(m, ff, gg, hh) == main :> m @@ f :> ff @@ g :> gg @@ h :> hh
Nat3(a, b, c)       == n1 :> a @@ n2 :> b @@ n3 :> c
Script(m, ff, gg, hh, a, b, c) ==
  [main |-> main, body |-> Body(m, ff, gg, hh), native |-> Nat3(a, b, c)]

value == <<push, ret>>

(* A helper arms two timers, so its return waits for them; one callback    *)
(* arms the first timer again while it may be queued.                      *)
TwoTimers ==
  Script(<<push, push, call(f, 1), add, ret>>,
         <<call(n1, 0), pop, call(n2, 0), ret>>,
         value, <<call(n3, 0), ret>>,
         once(g), once(h), start(1, FALSE))

(* A repeating timer that its own callback stops, as test-interval.cl; the *)
(* callback either calls the native that stops it or does not yet.         *)
Interval ==
  Script(<<call(n1, 0), call(f, 0), ret>>,
         <<push, ret>>,
         <<push, jnz(5), call(n2, 0), jmp(6), push, ret>>, value,
         every(g), stop(1), pure)

(* Two requests in flight; on_success starts a stat of its own.            *)
Requests ==
  Script(<<call(n1, 0), call(n1, 0), add, ret>>,
         value, <<push, call(n2, 1), ret>>, value,
         rename(<<g>>, <<h>>, <<h>>), stat(<<h>>, <<h>>, <<>>), pure)

(* A subject with two subscribers, one behind a map: the native calls both *)
(* before it returns, and the second arms a timer that is paused and run   *)
(* again.                                                                  *)
Subject ==
  Script(<<push, call(n1, 1), ret>>,
         value, <<push, ret>>, <<call(n2, 0), pop, call(n3, 0), ret>>,
         notify(<<Run(h), Take(g), Run(n3)>>), once(f), again(1))

(* A callback of the event loop that throws.                               *)
Thrower ==
  Script(<<call(n1, 0), pop, call(n2, 0), ret>>,
         value, <<push, [op |-> "throw"]>>, value,
         once(g), setRepeat(1, FALSE), pure)

MCPrograms == {TwoTimers, Interval, Requests, Subject, Thrower}

(* Only one-shot timers, and never a second request in flight.             *)
OneRequest ==
  Script(<<call(n1, 0), ret>>,
         value, <<push, call(n2, 1), ret>>, <<call(n3, 0), ret>>,
         rename(<<g>>, <<h>>, <<h>>), stat(<<f>>, <<f>>, <<>>), once(f))

MCLivePrograms == {TwoTimers, Subject, OneRequest}

LiveSpec == Spec /\ Fairness(3, 4)

(* Two timers, of which the second is to be stopped.                       *)
MCStopSecond ==
  {Script(<<call(n1, 0), pop, call(n1, 0), pop, call(n2, 0), ret>>,
          value, value, value, once(g), stop(2), pure)}

(* A stat with an on_error, as test-stat.cl.                               *)
MCStat ==
  {Script(<<call(n1, 0), ret>>, value, value, value, stat(<<g>>, <<h>>, <<>>), pure, pure)}

=============================================================================

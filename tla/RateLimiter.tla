---------------------------- MODULE RateLimiter ----------------------------
(***************************************************************************)
(* HostRateLimiter of src/fetcher/rate_limiter.rs for one host: any number *)
(* of tasks call acquire, the robots gate registers crawl delays with      *)
(* set_min_interval.  Hosts share no state, so one is enough.              *)
(*                                                                         *)
(* Time is counted in ticks.  A task is stepped between its awaits (the    *)
(* token bucket, the sleep) and between its operations on the maps, each   *)
(* of which is atomic.  The code between two awaits takes no time on the   *)
(* scale of a tick: the clock waits for it.  A sleep may end late.         *)
(*                                                                         *)
(* The bucket is the cell-rate algorithm of the governor crate: a cell is  *)
(* admitted unless it is ahead of its theoretical arrival time by more     *)
(* than the burst allows.                                                  *)
(***************************************************************************)
EXTENDS Integers, Sequences

CONSTANTS
    Tasks,       \* the tasks that call acquire for the host
    Burst,       \* cells the bucket holds: qps
    Period,      \* ticks between two cells: 1/qps seconds
    Delays,      \* Crawl-delay values a robots.txt may state, in ticks
    Lateness,    \* bound: by how many ticks a sleep may end late
    MaxCalls,    \* bound: how many calls return before no more are made
    MaxTime,     \* bound: when the clock stops running for idle tasks
    Horizon      \* bound: when it stops for a call that is still waiting

ASSUME LimiterAssumption ==
    /\ Burst \in Nat \ {0}
    /\ Period \in Nat \ {0}
    /\ Delays \subseteq Nat
    /\ Lateness \in Nat
    /\ MaxCalls \in Nat
    /\ MaxTime \in Nat
    /\ Horizon \in Nat

VARIABLES
    now,             \* the clock
    tat,             \* theoretical arrival time of the bucket's next cell
    minInterval,     \* min_intervals of the host (absent = 0)
    lastAcquire,     \* last_acquire of the host (absent = Never)
    pc,              \* where each task is in acquire
    min,             \* min_interval as a task has read it
    wake,            \* when its sleep ends
    returns          \* the calls that have returned, oldest first

vars == <<now, tat, minInterval, lastAcquire, pc, min, wake, returns>>

Never == -1
Places == {"idle", "bucket", "read", "compare", "sleep", "stamp"}

TypeOK ==
    /\ now \in Nat
    /\ tat \in Nat
    /\ minInterval \in Nat
    /\ lastAcquire \in (0 .. now) \cup {Never}
    /\ pc \in [Tasks -> Places]
    /\ min \in [Tasks -> Nat]
    /\ wake \in [Tasks -> Nat]
    /\ returns \in Seq([task : Tasks, at : Nat, min : Nat])

Init ==
    /\ now = 0
    /\ tat = 0
    /\ minInterval = 0
    /\ lastAcquire = Never
    /\ pc = [t \in Tasks |-> "idle"]
    /\ min = [t \in Tasks |-> 0]
    /\ wake = [t \in Tasks |-> 0]
    /\ returns = <<>>

-----------------------------------------------------------------------------
Goto(t, from, to) ==
    /\ pc[t] = from
    /\ pc' = [pc EXCEPT ![t] = to]

(* set_min_interval.  Mutant: the last one registered wins.                *)
MutSetMinInterval(d) ==
    /\ minInterval' = d
    /\ UNCHANGED <<now, tat, lastAcquire, pc, min, wake, returns>>

SetMinInterval(d) ==
    /\ minInterval' = IF d > minInterval THEN d ELSE minInterval
    /\ UNCHANGED <<now, tat, lastAcquire, pc, min, wake, returns>>

Call(t) ==
    /\ Len(returns) < MaxCalls
    /\ Goto(t, "idle", "bucket")
    /\ UNCHANGED <<now, tat, minInterval, lastAcquire, min, wake, returns>>

(* until_ready: the task comes through when the bucket admits a cell.      *)
Later(a, b) == IF a > b THEN a ELSE b

Admits == Later(tat, now) - now <= (Burst - 1) * Period

TakeCell(t) ==
    /\ Admits
    /\ Goto(t, "bucket", "read")
    /\ tat' = Later(tat, now) + Period
    /\ UNCHANGED <<now, minInterval, lastAcquire, min, wake, returns>>

ReadInterval(t) ==
    /\ Goto(t, "read", IF minInterval > 0 THEN "compare" ELSE "stamp")
    /\ min' = [min EXCEPT ![t] = minInterval]
    /\ UNCHANGED <<now, tat, minInterval, lastAcquire, wake, returns>>

(* Read last_acquire and sleep for what is left of the interval.           *)
Compare(t) ==
    /\ pc[t] = "compare"
    /\ IF lastAcquire # Never /\ now - lastAcquire < min[t]
       THEN /\ pc' = [pc EXCEPT ![t] = "sleep"]
            /\ wake' = [wake EXCEPT ![t] = now + (min[t] - (now - lastAcquire))]
       ELSE /\ pc' = [pc EXCEPT ![t] = "stamp"]
            /\ UNCHANGED wake
    /\ UNCHANGED <<now, tat, minInterval, lastAcquire, min, returns>>

Wake(t) ==
    /\ now >= wake[t]
    /\ Goto(t, "sleep", "stamp")
    /\ UNCHANGED <<now, tat, minInterval, lastAcquire, min, wake, returns>>

(* Stamp the return and return.                                            *)
(* Mutant: only a call that had an interval to keep leaves a stamp.        *)
MutStampDelayed(t) ==
    /\ Goto(t, "stamp", "idle")
    /\ lastAcquire' = IF min[t] > 0 THEN now ELSE lastAcquire
    /\ returns' = Append(returns, [task |-> t, at |-> now, min |-> min[t]])
    /\ UNCHANGED <<now, tat, minInterval, min, wake>>

Stamp(t) ==
    /\ Goto(t, "stamp", "idle")
    /\ lastAcquire' = now
    /\ returns' = Append(returns, [task |-> t, at |-> now, min |-> min[t]])
    /\ UNCHANGED <<now, tat, minInterval, min, wake>>

(* Time passes while a call is waiting and none has anything else to do.   *)
Waits(t) ==
    \/ pc[t] = "idle"
    \/ pc[t] = "bucket" /\ ~Admits
    \/ pc[t] = "sleep" /\ now < wake[t] + Lateness

Tick ==
    /\ \/ now < MaxTime
       \/ now < Horizon /\ (\E t \in Tasks : pc[t] # "idle")
    /\ \A t \in Tasks : Waits(t)
    /\ now' = now + 1
    /\ UNCHANGED <<tat, minInterval, lastAcquire, pc, min, wake, returns>>

Work(t) ==
    \/ TakeCell(t) \/ ReadInterval(t) \/ Compare(t) \/ Wake(t) \/ Stamp(t)

Next ==
    \/ \E d \in Delays : SetMinInterval(d)
    \/ \E t \in Tasks : Call(t) \/ Work(t)
    \/ Tick

Spec == Init /\ [][Next]_vars

-----------------------------------------------------------------------------
(***************************************************************************)
(* Safety.                                                                 *)
(***************************************************************************)

(* A task by itself keeps the crawl delay: its call returns at least the   *)
(* interval it read after each of its own earlier calls, the ones that     *)
(* came before the delay was registered included.                          *)
OwnSpacing ==
    \A i, j \in DOMAIN returns :
       i < j /\ returns[i].task = returns[j].task
          => returns[j].at - returns[i].at >= returns[j].min

(* All tasks together keep it up to one call each: whoever returns comes a *)
(* whole interval after every call whose task has returned again since.    *)
(* So no more calls than there are tasks return within one interval, in    *)
(* whatever order they read the interval, the stamp and the clock.         *)
HostSpacing ==
    \A h, i, j \in DOMAIN returns :
       h < i /\ i < j /\ returns[h].task = returns[i].task
          => returns[j].at - returns[h].at >= returns[j].min

(* The crawl delay is registered more than once (one value per block of a  *)
(* robots.txt); a later call never keeps a shorter one.                    *)
DelayGrows ==
    \A i, j \in DOMAIN returns :
       i < j /\ returns[i].task = returns[j].task
          => returns[i].min <= returns[j].min

(* What the field's comment says: successive returns, whoever the callers  *)
(* are, are a minimum interval apart.                                      *)
Spacing ==
    \A i, j \in DOMAIN returns :
       i < j => returns[j].at - returns[i].at >= returns[j].min
=============================================================================

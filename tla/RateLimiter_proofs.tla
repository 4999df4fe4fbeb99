------------------------- MODULE RateLimiter_proofs -------------------------
(***************************************************************************)
(* Theorems about RateLimiter, for any set of tasks, any quota and any     *)
(* crawl delays.                                                           *)
(***************************************************************************)
EXTENDS RateLimiter, TLAPS

(* Every variable keeps its type, and no stamp lies in the future.         *)
THEOREM TypeCorrect == Spec => []TypeOK
<1>1. Init => TypeOK
  BY DEF Init, TypeOK, Never, Places
<1>2. TypeOK /\ [Next]_vars => TypeOK'
  <2> SUFFICES ASSUME TypeOK, [Next]_vars PROVE TypeOK'
    OBVIOUS
  <2> USE LimiterAssumption DEF TypeOK, Never, Places
  <2>1. CASE UNCHANGED vars
    BY <2>1 DEF vars
  <2>2. ASSUME NEW d \in Delays, SetMinInterval(d) PROVE TypeOK'
    BY <2>2 DEF SetMinInterval
  <2>3. ASSUME NEW t \in Tasks, Call(t) \/ ReadInterval(t) \/ Wake(t) PROVE TypeOK'
    BY <2>3 DEF Call, ReadInterval, Wake, Goto
  <2>4. ASSUME NEW t \in Tasks, TakeCell(t) PROVE TypeOK'
    BY <2>4 DEF TakeCell, Later, Goto
  <2>5. ASSUME NEW t \in Tasks, Compare(t) PROVE TypeOK'
    <3>1. min[t] \in Nat
      OBVIOUS
    <3>2. CASE lastAcquire # Never /\ now - lastAcquire < min[t]
      <4>1. now + (min[t] - (now - lastAcquire)) \in Nat
        BY <3>1, <3>2
      <4> QED
        BY <2>5, <3>2, <4>1 DEF Compare
    <3>3. CASE ~(lastAcquire # Never /\ now - lastAcquire < min[t])
      BY <2>5, <3>3 DEF Compare
    <3> QED
      BY <3>2, <3>3
  <2>6. ASSUME NEW t \in Tasks, Stamp(t) PROVE TypeOK'
    <3>1. returns' \in Seq([task : Tasks, at : Nat, min : Nat])
      BY <2>6 DEF Stamp
    <3> QED
      BY <2>6, <3>1 DEF Stamp, Goto
  <2>7. CASE Tick
    BY <2>7 DEF Tick
  <2> QED
    BY <2>1, <2>2, <2>3, <2>4, <2>5, <2>6, <2>7 DEF Next, Work
<1> QED
  BY <1>1, <1>2, PTL DEF Spec

-----------------------------------------------------------------------------
(* The calls that have returned to one task.                               *)
Own(t) == {i \in DOMAIN returns : returns[i].task = t}

(* What makes OwnSpacing and DelayGrows inductive: last_acquire is never   *)
(* older than a return, a sleep was set to end a full interval after each  *)
(* of the task's own returns, and a task about to stamp is past that end.  *)
StampCoversReturns ==
    \A i \in DOMAIN returns : returns[i].at <= lastAcquire /\ returns[i].min <= minInterval

WaitCoversOwn ==
    \A t \in Tasks :
       /\ min[t] <= minInterval
       /\ \A i \in Own(t) :
             /\ pc[t] = "sleep" => wake[t] >= returns[i].at + min[t]
             /\ pc[t] = "stamp" => now >= returns[i].at + min[t]
             /\ pc[t] \in {"compare", "sleep", "stamp"} => returns[i].min <= min[t]

IInv == StampCoversReturns /\ WaitCoversOwn /\ OwnSpacing /\ DelayGrows

(* An element of a sequence over S is in S.                                *)
LEMMA ElementsOf ==
    ASSUME NEW S, NEW q \in Seq(S)
    PROVE  \A i \in DOMAIN q : q[i] \in S
  OBVIOUS

(* What the type invariant says of each return and of each task.           *)
LEMMA Components ==
    ASSUME TypeOK
    PROVE  /\ \A i \in DOMAIN returns :
                 returns[i].at \in Nat /\ returns[i].min \in Nat /\ returns[i].task \in Tasks
           /\ \A t \in Tasks : min[t] \in Nat /\ wake[t] \in Nat
           /\ now \in Nat /\ minInterval \in Nat
           /\ lastAcquire \in Int /\ lastAcquire <= now
           /\ lastAcquire >= 0 => lastAcquire \in Nat /\ lastAcquire # Never
<1>1. returns \in Seq([task : Tasks, at : Nat, min : Nat])
  BY DEF TypeOK
<1>2. \A i \in DOMAIN returns : returns[i] \in [task : Tasks, at : Nat, min : Nat]
  BY <1>1, ElementsOf
<1>3. now \in Nat /\ minInterval \in Nat /\ \A t \in Tasks : min[t] \in Nat /\ wake[t] \in Nat
  BY DEF TypeOK
<1>4. lastAcquire \in Int /\ lastAcquire <= now
  <2>1. CASE lastAcquire \in 0 .. now
    BY <1>3, <2>1
  <2>2. CASE lastAcquire = Never
    BY <1>3, <2>2 DEF Never
  <2> QED
    BY <2>1, <2>2 DEF TypeOK
<1> QED
  BY <1>2, <1>3, <1>4 DEF Never

(* Everything but the stamp leaves the returns and last_acquire alone, so  *)
(* only the waiting of the task that moves has to be looked at.            *)
LEMMA WaitingKeepsIInv ==
    ASSUME TypeOK, TypeOK', IInv,
           UNCHANGED <<returns, lastAcquire>>,
           minInterval <= minInterval', WaitCoversOwn'
    PROVE  IInv'
<1>1. \A i \in DOMAIN returns : returns[i].min \in Nat
  BY Components
<1>2. minInterval \in Nat /\ minInterval' \in Nat
  BY DEF TypeOK
<1>3. StampCoversReturns'
  BY <1>1, <1>2 DEF IInv, StampCoversReturns
<1>4. OwnSpacing' /\ DelayGrows'
  BY DEF IInv, OwnSpacing, DelayGrows
<1> QED
  BY <1>3, <1>4 DEF IInv

(* A step by which the clock, the interval or one task moves on.           *)
LEMMA WaitInductive ==
    ASSUME TypeOK, TypeOK', IInv, [Next]_vars, \A t \in Tasks : ~Stamp(t)
    PROVE  IInv'
<1> DEFINE Covered(t) ==
              /\ min[t] <= minInterval
              /\ \A i \in Own(t) :
                    /\ pc[t] = "sleep" => wake[t] >= returns[i].at + min[t]
                    /\ pc[t] = "stamp" => now >= returns[i].at + min[t]
                    /\ pc[t] \in {"compare", "sleep", "stamp"} => returns[i].min <= min[t]
<1>1. \A t \in Tasks : Covered(t)
  BY DEF IInv, WaitCoversOwn
<1>2. /\ now \in Nat /\ now' \in Nat /\ minInterval \in Nat /\ minInterval' \in Nat
      /\ \A t \in Tasks : min[t] \in Nat /\ wake[t] \in Nat
      /\ \A i \in DOMAIN returns : returns[i].at \in Nat /\ returns[i].min \in Nat
  BY Components DEF TypeOK
<1>3. ASSUME UNCHANGED <<returns, pc, min, wake>>, now <= now', minInterval <= minInterval'
      PROVE  WaitCoversOwn'
  BY <1>1, <1>2, <1>3 DEF WaitCoversOwn, Own
<1>4. CASE UNCHANGED vars
  BY <1>2, <1>3, <1>4, WaitingKeepsIInv DEF vars
<1>5. ASSUME NEW d \in Delays, SetMinInterval(d) PROVE IInv'
  <2>1. minInterval <= minInterval'
    BY <1>2, <1>5, LimiterAssumption DEF SetMinInterval
  <2> QED
    BY <1>2, <1>3, <1>5, <2>1, WaitingKeepsIInv DEF SetMinInterval
<1>6. CASE Tick
  <2>1. now <= now'
    BY <1>2, <1>6 DEF Tick
  <2> QED
    BY <1>2, <1>3, <1>6, <2>1, WaitingKeepsIInv DEF Tick
<1>7. ASSUME NEW t \in Tasks, UNCHANGED <<now, minInterval, lastAcquire, returns>>,
             \A u \in Tasks \ {t} : pc'[u] = pc[u] /\ min'[u] = min[u] /\ wake'[u] = wake[u],
             Covered(t)'
      PROVE  IInv'
  <2>1. ASSUME NEW u \in Tasks \ {t} PROVE Covered(u)'
    BY <1>1, <1>7, <2>1 DEF Own
  <2>2. WaitCoversOwn'
    BY <1>7, <2>1 DEF WaitCoversOwn
  <2> QED
    BY <1>2, <1>7, <2>2, WaitingKeepsIInv
<1>8. ASSUME NEW t \in Tasks, Call(t) \/ TakeCell(t) PROVE IInv'
  <2>1. /\ UNCHANGED <<now, minInterval, lastAcquire, returns, min, wake>>
        /\ pc'[t] \in {"bucket", "read"}
        /\ \A u \in Tasks \ {t} : pc'[u] = pc[u]
    BY <1>8 DEF Call, TakeCell, Goto, TypeOK
  <2>2. Covered(t)'
    BY <1>1, <2>1 DEF Own
  <2> QED
    BY <1>7, <2>1, <2>2
<1>9. ASSUME NEW t \in Tasks, ReadInterval(t) PROVE IInv'
  <2>1. /\ UNCHANGED <<now, minInterval, lastAcquire, returns, wake>>
        /\ pc'[t] = (IF minInterval > 0 THEN "compare" ELSE "stamp")
        /\ min'[t] = minInterval
        /\ \A u \in Tasks \ {t} : pc'[u] = pc[u] /\ min'[u] = min[u]
    BY <1>9 DEF ReadInterval, Goto, TypeOK
  <2>2. ASSUME NEW i \in Own(t)
        PROVE  returns[i].min <= minInterval /\ (minInterval = 0 => now >= returns[i].at + minInterval)
    <3>1. returns[i].at <= lastAcquire /\ returns[i].min <= minInterval /\ lastAcquire <= now
      BY <2>2, Components DEF IInv, StampCoversReturns, Own
    <3> QED
      BY <1>2, <2>2, <3>1, Components DEF Own
  <2>3. Covered(t)'
    <3>1. Own(t)' = Own(t)
      BY <2>1 DEF Own
    <3>2. minInterval = 0 \/ minInterval > 0
      BY <1>2
    <3>3. min'[t] <= minInterval' /\ pc'[t] # "sleep" /\ (pc'[t] = "stamp" => minInterval = 0)
      BY <1>2, <2>1, <3>2
    <3> QED
      BY <2>1, <2>2, <3>1, <3>3
  <2> QED
    BY <1>7, <2>1, <2>3
<1>10. ASSUME NEW t \in Tasks, Compare(t) PROVE IInv'
  <2>1. /\ UNCHANGED <<now, minInterval, lastAcquire, returns, min>>
        /\ pc[t] = "compare"
        /\ \A u \in Tasks \ {t} : pc'[u] = pc[u] /\ wake'[u] = wake[u]
    BY <1>10 DEF Compare, TypeOK
  <2>2. ASSUME NEW i \in Own(t)
        PROVE  /\ returns[i].at \in Nat /\ returns[i].at <= lastAcquire
               /\ lastAcquire \in Nat /\ lastAcquire # Never /\ returns[i].min <= min[t]
    <3>1. returns[i].at \in Nat /\ returns[i].at <= lastAcquire
      BY <1>2, <2>2 DEF IInv, StampCoversReturns, Own
    <3>2. lastAcquire \in Nat /\ lastAcquire # Never
      BY <3>1, Components
    <3> QED
      BY <1>1, <2>1, <2>2, <3>1, <3>2
  <2>3. CASE lastAcquire # Never /\ now - lastAcquire < min[t]
    <3>1. pc'[t] = "sleep" /\ wake'[t] = now + (min[t] - (now - lastAcquire))
      BY <1>10, <2>3 DEF Compare, TypeOK
    <3>2. ASSUME NEW i \in Own(t) PROVE wake'[t] >= returns[i].at + min[t]
      BY <1>2, <2>2, <3>1
    <3>3. Covered(t)'
      BY <1>1, <2>1, <2>2, <3>1, <3>2 DEF Own
    <3> QED
      BY <1>7, <2>1, <3>3
  <2>4. CASE ~(lastAcquire # Never /\ now - lastAcquire < min[t])
    <3>1. pc'[t] = "stamp" /\ wake' = wake
      BY <1>10, <2>4 DEF Compare, TypeOK
    <3>2. ASSUME NEW i \in Own(t) PROVE now >= returns[i].at + min[t]
      BY <1>2, <2>2, <2>4
    <3>3. Covered(t)'
      BY <1>1, <2>1, <2>2, <3>1, <3>2 DEF Own
    <3> QED
      BY <1>7, <2>1, <3>1, <3>3
  <2> QED
    BY <2>3, <2>4
<1>11. ASSUME NEW t \in Tasks, Wake(t) PROVE IInv'
  <2>1. /\ UNCHANGED <<now, minInterval, lastAcquire, returns, min, wake>>
        /\ pc[t] = "sleep" /\ pc'[t] = "stamp" /\ now >= wake[t]
        /\ \A u \in Tasks \ {t} : pc'[u] = pc[u]
    BY <1>11 DEF Wake, Goto, TypeOK
  <2>2. ASSUME NEW i \in Own(t) PROVE now >= returns[i].at + min[t] /\ returns[i].min <= min[t]
    <3>1. returns[i].at \in Nat /\ wake[t] >= returns[i].at + min[t] /\ returns[i].min <= min[t]
      BY <1>1, <1>2, <2>1, <2>2 DEF Own
    <3> QED
      BY <1>2, <2>1, <3>1
  <2>3. Covered(t)'
    BY <1>1, <2>1, <2>2 DEF Own
  <2> QED
    BY <1>7, <2>1, <2>3
<1> QED
  BY <1>4, <1>5, <1>6, <1>8, <1>9, <1>10, <1>11 DEF Next, Work

(* The stamp itself: the new return is a full interval after the task's    *)
(* own ones, and becomes the latest.                                       *)
LEMMA StampInductive ==
    ASSUME TypeOK, TypeOK', IInv, NEW t \in Tasks, Stamp(t)
    PROVE  IInv'
<1> DEFINE n == Len(returns)
<1> DEFINE new == [task |-> t, at |-> now, min |-> min[t]]
<1>1. /\ n \in Nat /\ DOMAIN returns = 1 .. n /\ DOMAIN returns' = 1 .. n + 1
      /\ returns'[n + 1] = new
      /\ \A i \in 1 .. n : returns'[i] = returns[i]
  BY DEF Stamp, TypeOK
<1>2. /\ now' = now /\ minInterval' = minInterval /\ min' = min /\ wake' = wake /\ lastAcquire' = now
      /\ pc[t] = "stamp" /\ pc'[t] = "idle" /\ \A u \in Tasks \ {t} : pc'[u] = pc[u]
  BY DEF Stamp, Goto, TypeOK
<1>3. /\ now \in Nat /\ minInterval \in Nat
      /\ \A i \in 1 .. n : returns[i].at \in Nat /\ returns[i].min \in Nat /\ returns[i].task \in Tasks
      /\ \A u \in Tasks : min[u] \in Nat /\ wake[u] \in Nat
  BY <1>1, Components
<1>4. \A i \in 1 .. n : returns[i].at <= now /\ returns[i].min <= minInterval
  <2> SUFFICES ASSUME NEW i \in 1 .. n PROVE returns[i].at <= now /\ returns[i].min <= minInterval
    OBVIOUS
  <2>1. returns[i].at <= lastAcquire /\ returns[i].min <= minInterval
    BY <1>1 DEF IInv, StampCoversReturns
  <2> QED
    BY <1>3, <2>1, Components
<1>5. \A i \in 1 .. n : returns[i].task = t => now - returns[i].at >= min[t] /\ returns[i].min <= min[t]
  <2> SUFFICES ASSUME NEW i \in 1 .. n, returns[i].task = t
               PROVE  now - returns[i].at >= min[t] /\ returns[i].min <= min[t]
    OBVIOUS
  <2>1. i \in Own(t)
    BY <1>1 DEF Own
  <2>2. now >= returns[i].at + min[t] /\ returns[i].min <= min[t]
    BY <1>2, <2>1 DEF IInv, WaitCoversOwn
  <2> QED
    BY <1>3, <2>2
<1>6. min[t] <= minInterval
  BY DEF IInv, WaitCoversOwn
<1>7. StampCoversReturns'
  <2>1. ASSUME NEW i \in 1 .. n + 1 PROVE returns'[i].at <= now /\ returns'[i].min <= minInterval
    <3>1. CASE i = n + 1
      BY <1>1, <1>3, <1>6, <3>1
    <3>2. CASE i # n + 1
      BY <1>1, <1>4, <2>1, <3>2
    <3> QED
      BY <3>1, <3>2
  <2> QED
    BY <1>1, <1>2, <2>1 DEF StampCoversReturns
<1>8. OwnSpacing' /\ DelayGrows'
  <2>1. ASSUME NEW i \in 1 .. n + 1, NEW j \in 1 .. n + 1, i < j, returns'[i].task = returns'[j].task
        PROVE  returns'[j].at - returns'[i].at >= returns'[j].min /\ returns'[i].min <= returns'[j].min
    <3>1. i \in 1 .. n /\ returns'[i] = returns[i]
      BY <1>1, <2>1
    <3>2. CASE j = n + 1
      BY <1>1, <1>5, <2>1, <3>1, <3>2
    <3>3. CASE j # n + 1
      <4>1. j \in 1 .. n /\ returns'[j] = returns[j]
        BY <1>1, <2>1, <3>3
      <4> QED
        BY <1>1, <2>1, <3>1, <4>1 DEF IInv, OwnSpacing, DelayGrows
    <3> QED
      BY <3>2, <3>3
  <2> QED
    BY <1>1, <2>1 DEF OwnSpacing, DelayGrows
<1>9. WaitCoversOwn'
  <2>1. ASSUME NEW u \in Tasks \ {t}
        PROVE  /\ min[u] <= minInterval
               /\ \A i \in Own(u)' : /\ i \in Own(u)
                                     /\ returns'[i] = returns[i]
    BY <1>1, <2>1 DEF Own, IInv, WaitCoversOwn
  <2>2. ASSUME NEW u \in Tasks \ {t}, NEW i \in Own(u)'
        PROVE  /\ pc'[u] = "sleep" => wake'[u] >= returns'[i].at + min'[u]
               /\ pc'[u] = "stamp" => now' >= returns'[i].at + min'[u]
               /\ pc'[u] \in {"compare", "sleep", "stamp"} => returns'[i].min <= min'[u]
    <3>1. i \in Own(u) /\ returns'[i] = returns[i]
      BY <2>1, <2>2
    <3> QED
      BY <1>2, <2>2, <3>1 DEF IInv, WaitCoversOwn
  <2> QED
    BY <1>2, <1>6, <2>1, <2>2 DEF WaitCoversOwn
<1> QED
  BY <1>7, <1>8, <1>9 DEF IInv

(* The strengthened invariant holds in every state.                        *)
THEOREM WaitingIsCovered == Spec => []IInv
<1>1. Init => IInv
  BY DEF Init, IInv, StampCoversReturns, WaitCoversOwn, Own, OwnSpacing, DelayGrows
<1>2. TypeOK /\ TypeOK' /\ IInv /\ [Next]_vars => IInv'
  BY WaitInductive, StampInductive
<1> QED
  BY <1>1, <1>2, TypeCorrect, PTL DEF Spec

(* A task by itself keeps the crawl delay, however many others call and    *)
(* whenever the delay is registered.                                       *)
THEOREM ATaskKeepsTheDelay == Spec => []OwnSpacing
  BY WaitingIsCovered, PTL DEF IInv

(* The delay a task keeps never shrinks from one of its calls to the next. *)
THEOREM TheDelayGrows == Spec => []DelayGrows
  BY WaitingIsCovered, PTL DEF IInv

-----------------------------------------------------------------------------
(* A return is covered for a call that is due: the interval the call read  *)
(* has passed since, or will have when its sleep ends.                     *)
Kept(t, h) ==
    \/ now >= returns[h].at + min[t]
    \/ pc[t] = "sleep" /\ wake[t] >= returns[h].at + min[t]

(* Or it is the last of its task u, whose next call keeps an interval at   *)
(* least as long: it has read one, or has yet to read.                     *)
LastOf(u, h) == returns[h].task = u /\ \A i \in Own(u) : i <= h

Follows(t, h) ==
    \E u \in Tasks :
       /\ LastOf(u, h)
       /\ pc[u] \in {"idle", "bucket", "read"} \/ min[u] >= min[t]

(* What makes HostSpacing inductive.                                       *)
DueCoversAll ==
    \A t \in Tasks : pc[t] \in {"sleep", "stamp"} =>
       \A h \in DOMAIN returns : Kept(t, h) \/ Follows(t, h)

(* A step that returns nothing: what was covered stays so, and the call    *)
(* that becomes due covers every return.                                   *)
LEMMA DueKept ==
    ASSUME TypeOK, TypeOK', IInv, DueCoversAll, [Next]_vars, \A t \in Tasks : ~Stamp(t)
    PROVE  DueCoversAll' /\ UNCHANGED returns
<1>1. /\ now \in Nat /\ now' \in Nat /\ minInterval \in Nat
      /\ \A t \in Tasks : min[t] \in Nat /\ wake[t] \in Nat /\ min[t] <= minInterval
      /\ \A i \in DOMAIN returns : returns[i].at \in Nat
  BY Components DEF TypeOK, IInv, WaitCoversOwn
<1>2. UNCHANGED returns
  BY DEF Next, vars, SetMinInterval, Call, Work, TakeCell, ReadInterval, Compare, Wake, Tick
<1>3. ASSUME now <= now', UNCHANGED <<pc, min, wake>> PROVE DueCoversAll'
  <2>1. ASSUME NEW t \in Tasks, NEW h \in DOMAIN returns
        PROVE  (Kept(t, h) => Kept(t, h)') /\ (Follows(t, h) => Follows(t, h)')
    BY <1>1, <1>2, <1>3 DEF Kept, Follows, LastOf, Own
  <2>. QED
    BY <1>2, <1>3, <2>1 DEF DueCoversAll
<1>4. ASSUME NEW t \in Tasks, now' = now,
             \A u \in Tasks \ {t} : pc'[u] = pc[u] /\ min'[u] = min[u] /\ wake'[u] = wake[u],
             \/ pc'[t] \in {"idle", "bucket", "read"}
             \/ \A u \in Tasks : min'[t] >= min[u]
             \/ pc[t] \notin {"idle", "bucket", "read"} /\ min'[t] = min[t],
             pc'[t] \in {"sleep", "stamp"} => \A h \in DOMAIN returns : Kept(t, h)'
      PROVE  DueCoversAll'
  <2>1. ASSUME NEW v \in Tasks \ {t}, NEW h \in DOMAIN returns, pc[v] \in {"sleep", "stamp"}
        PROVE  Kept(v, h)' \/ Follows(v, h)'
    <3>1. CASE Kept(v, h)
      BY <1>2, <1>4, <2>1, <3>1 DEF Kept
    <3>2. CASE Follows(v, h)
      <4>1. PICK u \in Tasks :
                   /\ LastOf(u, h)
                   /\ pc[u] \in {"idle", "bucket", "read"} \/ min[u] >= min[v]
        BY <3>2 DEF Follows
      <4>2. LastOf(u, h)'
        BY <1>2, <4>1 DEF LastOf, Own
      <4>3. pc'[u] \in {"idle", "bucket", "read"} \/ min'[u] >= min'[v]
        BY <1>4, <2>1, <4>1
      <4>. QED
        BY <4>2, <4>3 DEF Follows
    <3>. QED
      BY <2>1, <3>1, <3>2 DEF DueCoversAll
  <2>. QED
    BY <1>2, <1>4, <2>1 DEF DueCoversAll
<1>5. CASE UNCHANGED vars
  BY <1>1, <1>3, <1>5 DEF vars
<1>6. ASSUME NEW d \in Delays, SetMinInterval(d) PROVE DueCoversAll'
  BY <1>1, <1>3, <1>6 DEF SetMinInterval
<1>7. CASE Tick
  BY <1>1, <1>3, <1>7 DEF Tick
<1>8. ASSUME NEW t \in Tasks, Call(t) \/ TakeCell(t) PROVE DueCoversAll'
  <2>1. /\ UNCHANGED <<now, min, wake>> /\ pc'[t] \in {"bucket", "read"}
        /\ \A u \in Tasks \ {t} : pc'[u] = pc[u]
    BY <1>8 DEF Call, TakeCell, Goto, TypeOK
  <2>. QED
    BY <1>4, <2>1
<1>9. ASSUME NEW t \in Tasks, ReadInterval(t) PROVE DueCoversAll'
  <2>1. /\ UNCHANGED <<now, wake>> /\ min'[t] = minInterval
        /\ pc'[t] = (IF minInterval > 0 THEN "compare" ELSE "stamp")
        /\ \A u \in Tasks \ {t} : pc'[u] = pc[u] /\ min'[u] = min[u]
    BY <1>9 DEF ReadInterval, Goto, TypeOK
  <2>2. \A u \in Tasks : min'[t] >= min[u]
    BY <1>1, <2>1
  <2>3. ASSUME pc'[t] \in {"sleep", "stamp"}, NEW h \in DOMAIN returns PROVE Kept(t, h)'
    <3>1. minInterval = 0
      BY <1>1, <2>1, <2>3
    <3>2. returns[h].at <= lastAcquire /\ lastAcquire <= now
      BY <2>3, Components DEF IInv, StampCoversReturns
    <3>3. now' >= returns'[h].at + min'[t]
      BY <1>1, <1>2, <2>1, <2>3, <3>1, <3>2, Components
    <3>. QED
      BY <3>3 DEF Kept
  <2>. QED
    BY <1>4, <2>1, <2>2, <2>3
<1>10. ASSUME NEW t \in Tasks, Compare(t) PROVE DueCoversAll'
  <2>1. /\ UNCHANGED <<now, min>> /\ pc[t] = "compare"
        /\ \A u \in Tasks \ {t} : pc'[u] = pc[u] /\ wake'[u] = wake[u]
    BY <1>10 DEF Compare, TypeOK
  <2>2. ASSUME NEW h \in DOMAIN returns PROVE Kept(t, h)'
    <3>1. returns[h].at <= lastAcquire /\ lastAcquire \in Nat /\ lastAcquire # Never
      <4>1. returns[h].at <= lastAcquire
        BY <2>2 DEF IInv, StampCoversReturns
      <4>. QED
        BY <1>1, <2>2, <4>1, Components
    <3>2. CASE now - lastAcquire < min[t]
      <4>1. pc'[t] = "sleep" /\ wake'[t] = now + (min[t] - (now - lastAcquire))
        BY <1>10, <3>1, <3>2 DEF Compare, TypeOK
      <4>2. wake'[t] >= returns'[h].at + min'[t]
        BY <1>1, <1>2, <2>1, <2>2, <3>1, <4>1
      <4>. QED
        BY <4>1, <4>2 DEF Kept
    <3>3. CASE ~(now - lastAcquire < min[t])
      <4>1. now' >= returns'[h].at + min'[t]
        BY <1>1, <1>2, <2>1, <2>2, <3>1, <3>3
      <4>. QED
        BY <4>1 DEF Kept
    <3>. QED
      BY <3>2, <3>3
  <2>. QED
    BY <1>4, <2>1, <2>2
<1>11. ASSUME NEW t \in Tasks, Wake(t) PROVE DueCoversAll'
  <2>1. /\ UNCHANGED <<now, min, wake>> /\ pc[t] = "sleep" /\ pc'[t] = "stamp" /\ now >= wake[t]
        /\ \A u \in Tasks \ {t} : pc'[u] = pc[u]
    BY <1>11 DEF Wake, Goto, TypeOK
  <2>2. ASSUME NEW v \in Tasks, NEW h \in DOMAIN returns, pc'[v] \in {"sleep", "stamp"}
        PROVE  Kept(v, h)' \/ Follows(v, h)'
    <3>1. pc[v] \in {"sleep", "stamp"}
      BY <2>1, <2>2
    <3>2. CASE Kept(v, h)
      BY <1>1, <1>2, <2>1, <2>2, <3>2 DEF Kept
    <3>3. CASE Follows(v, h)
      BY <1>2, <2>1, <2>2, <3>3 DEF Follows, LastOf, Own
    <3>. QED
      BY <2>2, <3>1, <3>2, <3>3 DEF DueCoversAll
  <2>. QED
    BY <1>2, <2>2 DEF DueCoversAll
<1>. QED
  BY <1>2, <1>5, <1>6, <1>7, <1>8, <1>9, <1>10, <1>11 DEF Next, Work

(* A stamp: the calls that are due have each return of its task covered    *)
(* but the new one, which its next call comes after.                       *)
LEMMA DueStamped ==
    ASSUME TypeOK, TypeOK', IInv, DueCoversAll, HostSpacing, NEW t \in Tasks, Stamp(t)
    PROVE  DueCoversAll' /\ HostSpacing'
<1>. DEFINE n == Len(returns)
<1>1. /\ n \in Nat /\ DOMAIN returns = 1 .. n /\ DOMAIN returns' = 1 .. n + 1
      /\ returns'[n + 1] = [task |-> t, at |-> now, min |-> min[t]]
      /\ \A i \in 1 .. n : returns'[i] = returns[i]
  BY DEF Stamp, TypeOK
<1>2. /\ UNCHANGED <<now, min, wake>> /\ pc[t] = "stamp" /\ pc'[t] = "idle"
      /\ \A u \in Tasks \ {t} : pc'[u] = pc[u]
  BY DEF Stamp, Goto, TypeOK
<1>3. /\ now \in Nat /\ \A u \in Tasks : min[u] \in Nat /\ wake[u] \in Nat
      /\ \A i \in 1 .. n : returns[i].at \in Nat /\ returns[i].task \in Tasks
  BY <1>1, Components
<1>. HIDE DEF n
<1>4. ASSUME NEW v \in Tasks, pc'[v] \in {"sleep", "stamp"}, NEW h \in 1 .. n + 1
      PROVE  Kept(v, h)' \/ Follows(v, h)'
  <2>0. v # t /\ pc[v] = pc'[v]
    BY <1>2, <1>4
  <2>1. CASE h = n + 1
    <3>1. LastOf(t, h)'
      BY <1>1, <2>1 DEF LastOf, Own
    <3>. QED
      BY <1>2, <3>1 DEF Follows
  <2>2. CASE h # n + 1 /\ Kept(v, h)
    BY <1>1, <1>2, <1>4, <2>0, <2>2 DEF Kept
  <2>3. CASE h # n + 1 /\ Follows(v, h)
    <3>1. h \in 1 .. n /\ returns'[h] = returns[h]
      BY <1>1, <1>4, <2>3
    <3>2. PICK u \in Tasks :
                 /\ LastOf(u, h)
                 /\ pc[u] \in {"idle", "bucket", "read"} \/ min[u] >= min[v]
      BY <2>3 DEF Follows
    <3>3. CASE u = t
      <4>1. min[t] >= min[v]
        BY <1>2, <3>2, <3>3
      <4>2. now >= returns[h].at + min[t]
        BY <1>1, <1>2, <3>1, <3>2, <3>3 DEF LastOf, Own, IInv, WaitCoversOwn
      <4>3. now' >= returns'[h].at + min'[v]
        BY <1>2, <1>3, <3>1, <4>1, <4>2
      <4>. QED
        BY <4>3 DEF Kept
    <3>4. CASE u # t
      <4>1. LastOf(u, h)'
        <5>1. returns'[h].task = u
          BY <3>1, <3>2 DEF LastOf
        <5>2. \A i \in Own(u)' : i \in Own(u)
          BY <1>1, <3>4 DEF Own
        <5>. QED
          BY <3>2, <5>1, <5>2 DEF LastOf
      <4>2. pc'[u] \in {"idle", "bucket", "read"} \/ min'[u] >= min'[v]
        BY <1>2, <3>2, <3>4
      <4>. QED
        BY <4>1, <4>2 DEF Follows
    <3>. QED
      BY <3>3, <3>4
  <2>. QED
    BY <1>1, <1>4, <2>0, <2>1, <2>2, <2>3 DEF DueCoversAll
<1>5. DueCoversAll'
  BY <1>1, <1>4 DEF DueCoversAll
<1>6. ASSUME NEW h \in 1 .. n, NEW i \in 1 .. n, h < i, returns[h].task = returns[i].task
      PROVE  now - returns[h].at >= min[t]
  <2>1. ~Follows(t, h)
    BY <1>1, <1>6 DEF Follows, LastOf, Own
  <2>2. Kept(t, h)
    BY <1>1, <1>2, <2>1 DEF DueCoversAll
  <2>. QED
    BY <1>2, <1>3, <2>2 DEF Kept
<1>7. ASSUME NEW h \in 1 .. n + 1, NEW i \in 1 .. n + 1, NEW j \in 1 .. n + 1,
             h < i, i < j, returns'[h].task = returns'[i].task
      PROVE  returns'[j].at - returns'[h].at >= returns'[j].min
  <2>1. /\ h \in 1 .. n /\ i \in 1 .. n
        /\ returns'[h] = returns[h] /\ returns'[i] = returns[i]
    BY <1>1, <1>7
  <2>2. CASE j = n + 1
    BY <1>1, <1>6, <1>7, <2>1, <2>2
  <2>3. CASE j # n + 1
    <3>1. j \in 1 .. n /\ returns'[j] = returns[j]
      BY <1>1, <1>7, <2>3
    <3>. QED
      BY <1>1, <1>7, <2>1, <3>1 DEF HostSpacing
  <2>. QED
    BY <2>2, <2>3
<1>8. HostSpacing'
  BY <1>1, <1>7 DEF HostSpacing
<1>. QED
  BY <1>5, <1>8

(* The tasks keep the crawl delay together, up to one call each: of each   *)
(* task at most one return lies within an interval before any other.       *)
THEOREM TheHostKeepsTheDelay == Spec => []HostSpacing
<1>1. Init => DueCoversAll /\ HostSpacing
  BY DEF Init, DueCoversAll, HostSpacing
<1>2. TypeOK /\ TypeOK' /\ IInv /\ DueCoversAll /\ HostSpacing /\ [Next]_vars
        => (DueCoversAll /\ HostSpacing)'
  <2>1. ASSUME TypeOK, TypeOK', IInv, DueCoversAll, HostSpacing, [Next]_vars
        PROVE  (DueCoversAll /\ HostSpacing)'
    <3>1. CASE \E t \in Tasks : Stamp(t)
      BY <2>1, <3>1, DueStamped
    <3>2. CASE \A t \in Tasks : ~Stamp(t)
      <4>1. DueCoversAll' /\ UNCHANGED returns
        BY <2>1, <3>2, DueKept
      <4>. QED
        BY <2>1, <4>1 DEF HostSpacing
    <3>. QED
      BY <3>1, <3>2
  <2>. QED
    BY <2>1
<1>. QED
  BY <1>1, <1>2, TypeCorrect, WaitingIsCovered, PTL DEF Spec
=============================================================================

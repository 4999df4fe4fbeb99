------------------------- MODULE CrawlEngine_proofs -------------------------
(***************************************************************************)
(* Theorems about CrawlEngine and about the task that drives it, CrawlRun, *)
(* for every set of workers, every site and every value of the             *)
(* configuration.                                                          *)
(***************************************************************************)
EXTENDS CrawlRun, LinkDiscovery, FiniteSetTheorems, WellFoundedInduction, TLAPS

(* No reply of the frontier, a failed call's included, breaks the types    *)
(* of its keys.                                                            *)
LEMMA FrontierTypes ==
    ASSUME FrontierTypeOK, NEW e \in Entries,
           \/ EnqueueNew(e) \/ EnqueueDuplicate(e) \/ EnqueueFails(e)
           \/ Dequeue \/ DequeueNothing \/ DequeueFails
           \/ MarkDone \/ MarkDoneFails
    PROVE  FrontierTypeOK'
<1> USE DEF FrontierTypeOK
<1>1. CASE EnqueueNew(e)
  BY <1>1 DEF EnqueueNew, Entries
<1>2. CASE EnqueueDuplicate(e) \/ DequeueNothing
  BY <1>2 DEF EnqueueDuplicate, DequeueNothing, frontierVars
<1>3. ASSUME Fail PROVE faults' \in 0 .. MaxFaults
  BY <1>3, FrontierAssumption DEF Fail
<1>4. CASE EnqueueReplyLost(e)
  BY <1>3, <1>4 DEF EnqueueReplyLost, Entries
<1>5. CASE EnqueueNoEffect
  BY <1>3, <1>5 DEF EnqueueNoEffect, keys
<1>6. ASSUME Pop PROVE seen' \subseteq Urls /\ queue' \in Seq(Entries) /\ inflight' \in Int
  BY <1>6 DEF Pop
<1>7. CASE Dequeue
  BY <1>6, <1>7 DEF Dequeue
<1>8. CASE DequeueFails
  BY <1>3, <1>6, <1>8 DEF DequeueFails, keys
<1>9. CASE MarkDone
  BY <1>9 DEF MarkDone
<1>10. CASE MarkDoneFails
  BY <1>3, <1>10 DEF MarkDoneFails
<1> QED
  BY <1>1, <1>2, <1>4, <1>5, <1>7, <1>8, <1>9, <1>10 DEF EnqueueFails

(* No step of the pool breaks the types of its state.                      *)
LEMMA TypeKept ==
    ASSUME TypeOK, [Next]_vars
    PROVE  TypeOK'
<1> USE DEF TypeOK, FrontierTypeOK
<1>1. ASSUME NEW w \in Workers, TakeEntry(w) PROVE TypeOK'
  BY <1>1, SMT DEF TakeEntry, Goto, Dequeue, Pop, States
<1>2. ASSUME NEW w \in Workers, FindNothing(w) PROVE TypeOK'
  BY <1>2 DEF FindNothing, Goto, DequeueNothing, frontierVars, States
<1>3. ASSUME NEW w \in Workers, DequeueError(w) PROVE TypeOK'
  <2>1. FrontierTypeOK'
    BY <1>3, FrontierTypes, EngineAssumption DEF DequeueError, RootEntry, Entries
  <2> QED
    BY <1>3, <2>1 DEF DequeueError, engineVars
<1>4. ASSUME NEW w \in Workers, Exit(w) PROVE TypeOK'
  BY <1>4 DEF Exit, Goto, frontierVars, States
<1>5. ASSUME NEW w \in Workers, GoRound(w) PROVE TypeOK'
  BY <1>5, FrontierAssumption DEF GoRound, Goto, Fail, keys, States
<1>6. ASSUME NEW w \in Workers, Admit(w) \/ Reject(w) PROVE TypeOK'
  BY <1>6 DEF Admit, Reject, Goto, frontierVars, States
<1>7. ASSUME NEW w \in Workers, Fetch(w) \/ AuditPanics(w) PROVE TypeOK'
  BY <1>7 DEF Fetch, AuditPanics, Goto, frontierVars, States
<1>8. ASSUME NEW w \in Workers, Audit(w) PROVE TypeOK'
  BY <1>8, EngineAssumption DEF Audit, Goto, frontierVars, States, Entries
<1>9. ASSUME NEW w \in Workers, Send(w) PROVE TypeOK'
  BY <1>9 DEF Send, Goto, frontierVars, States
<1>10. ASSUME NEW w \in Workers, Count(w) PROVE TypeOK'
  BY <1>10 DEF Count, Goto, frontierVars, States
<1>11. ASSUME NEW w \in Workers, EmitPageDone(w) PROVE TypeOK'
  BY <1>11 DEF EmitPageDone, Goto, frontierVars, States
<1>12. ASSUME NEW w \in Workers, Reserve(w) PROVE TypeOK'
  <2>1. kids' \in [Workers -> SUBSET Urls] /\ kid' \in [Workers -> Urls]
    BY <1>12 DEF Reserve
  <2>2. PICK to \in {"refuse", "enqueue"} : pc' = [pc EXCEPT ![w] = to]
    BY <1>12 DEF Reserve
  <2>3. pc' \in [Workers -> States]
    BY <2>2 DEF States
  <2>4. pagesFetched' \in Int
    BY <1>12 DEF Reserve
  <2> QED
    BY <1>12, <2>1, <2>3, <2>4 DEF Reserve, frontierVars
<1>13. ASSUME NEW w \in Workers, Refuse(w) PROVE TypeOK'
  BY <1>13, EngineAssumption DEF Refuse, Goto, frontierVars, States
<1>14. ASSUME NEW w \in Workers, EnqueueChild(w) PROVE TypeOK'
  BY <1>14, EngineAssumption DEF EnqueueChild, EnqueueNew, ChildEntry, Goto, Entries, States
<1>15. ASSUME NEW w \in Workers, EnqueueInVain(w) PROVE TypeOK'
  <2>1. ChildEntry(w) \in Entries
    BY DEF ChildEntry, Entries
  <2>2. FrontierTypeOK'
    BY <1>15, <2>1, FrontierTypes DEF EnqueueInVain
  <2> QED
    BY <1>15, <2>2, EngineAssumption DEF EnqueueInVain, Goto, States
<1>16. ASSUME NEW w \in Workers, Rollback(w) PROVE TypeOK'
  BY <1>16 DEF Rollback, Goto, frontierVars, States
<1>17. ASSUME NEW w \in Workers, Finish(w) PROVE TypeOK'
  BY <1>17, EngineAssumption, FrontierAssumption DEF Finish, MarkDone, MarkDoneFails, Fail, RootEntry, Entries, States
<1>18. CASE UNCHANGED vars
  BY <1>18 DEF vars, frontierVars, engineVars
<1> QED
  BY <1>1, <1>2, <1>3, <1>4, <1>5, <1>6, <1>7, <1>8, <1>9, <1>10, <1>11, <1>12,
     <1>13, <1>14, <1>15, <1>16, <1>17, <1>18 DEF Next, Step, Stopped

(* Type correctness of the worker pool and its frontier.                   *)
THEOREM TypeCorrect == Spec => []TypeOK
<1>1. Init => TypeOK
  BY EngineAssumption, FrontierAssumption DEF Init, WorkersInit, TypeOK, FrontierTypeOK, Entries, RootEntry, States
<1> QED
  BY <1>1, TypeKept, PTL DEF Spec

-----------------------------------------------------------------------------
(***************************************************************************)
(* Termination detection.                                                  *)
(***************************************************************************)

(* The two places where the set of busy workers changes; every other step  *)
(* leaves it alone.                                                        *)
LEMMA BusyFinite == IsFiniteSet(Busy) /\ Cardinality(Busy) \in Nat
<1>1. Busy \subseteq Workers /\ IsFiniteSet(Workers)
  BY EngineAssumption DEF Busy
<1> QED
  BY <1>1, FS_Subset, FS_CardinalityType

(* A worker that takes an entry joins the busy ones.                       *)
LEMMA BusyGains ==
    ASSUME TypeOK, NEW w \in Workers, Goto(w, "dequeue", "gate")
    PROVE  Cardinality(Busy') = Cardinality(Busy) + 1
<1>1. Busy' = Busy \cup {w} /\ w \notin Busy
  BY DEF Goto, Busy, BusyStates, States, TypeOK
<1> QED
  BY <1>1, BusyFinite, FS_AddElement

(* A worker that marks its entry done leaves the busy ones.                *)
LEMMA BusyLoses ==
    ASSUME TypeOK, NEW w \in Workers, w \in Busy,
           pc' = [pc EXCEPT ![w] = "dequeue"]
    PROVE  Cardinality(Busy') = Cardinality(Busy) - 1
<1>1. Busy' = Busy \ {w}
  BY DEF Busy, BusyStates, States, TypeOK
<1> QED
  BY <1>1, BusyFinite, FS_RemoveElement

(* Every other move of a worker keeps it on its side.                      *)
LEMMA BusyStays ==
    ASSUME TypeOK, NEW w \in Workers, NEW to,
           pc' = [pc EXCEPT ![w] = to],
           pc[w] \in BusyStates <=> to \in BusyStates
    PROVE  Busy' = Busy
  BY DEF Busy, TypeOK

(* What a frontier call does to the difference between the counter and the *)
(* queue.                                                                  *)
LEMMA PopShortens ==
    ASSUME queue \in Seq(Entries), Pop
    PROVE  Len(queue') = Len(queue) - 1 /\ inflight' = inflight
  BY DEF Pop

(* An accepted enqueue lengthens the queue and raises the counter          *)
(* together, so it cannot open a gap between them.                         *)
LEMMA EnqueueBalances ==
    ASSUME FrontierTypeOK, NEW e \in Entries,
           EnqueueNew(e) \/ EnqueueDuplicate(e) \/ EnqueueFails(e)
    PROVE  /\ \/ inflight' = inflight /\ Len(queue') = Len(queue)
              \/ inflight' = inflight + 1 /\ Len(queue') = Len(queue) + 1
           /\ faults <= faults'
  BY DEF FrontierTypeOK, EnqueueNew, EnqueueDuplicate, EnqueueFails, EnqueueReplyLost,
         EnqueueNoEffect, Fail, keys, frontierVars

(* By how much the counter runs ahead of the work there is.                *)
Gap == inflight - (Len(queue) + Cardinality(Busy))

(* A step leaves the gap alone, or a failed call widens it by one.         *)
LEMMA GapGrowsWithFaults ==
    ASSUME TypeOK, TypeOK', Next
    PROVE  /\ Gap \in Int /\ faults \in Nat /\ faults' \in Nat
           /\ \/ Gap' = Gap /\ faults <= faults'
              \/ Gap' = Gap + 1 /\ faults' = faults + 1
<1> DEFINE W == Cardinality(Busy)
<1> DEFINE L == Len(queue)
<1> DEFINE Kept == inflight' - (L' + W') = inflight - (L + W) /\ faults <= faults'
<1> DEFINE Grown == inflight' - (L' + W') = inflight - (L + W) + 1 /\ faults' = faults + 1
<1>1. /\ W \in Nat /\ L \in Nat /\ inflight \in Int /\ faults \in Nat
      /\ W' \in Nat /\ L' \in Nat /\ inflight' \in Int /\ faults' \in Nat
  <2>1. IsFiniteSet(Busy')
    <3>1. Busy' \subseteq Workers /\ IsFiniteSet(Workers)
      BY EngineAssumption DEF Busy
    <3> QED
      BY <3>1, FS_Subset
  <2> QED
    BY <2>1, BusyFinite, FS_CardinalityType DEF TypeOK, FrontierTypeOK
<1> HIDE DEF W, L
<1>2. SUFFICES Kept \/ Grown
  BY <1>1 DEF Gap, W, L
<1>3. ASSUME NEW w \in Workers, TakeEntry(w) PROVE Kept
  <2>1. W' = W + 1
    BY <1>3, BusyGains DEF TakeEntry, W
  <2>2. L' = L - 1 /\ inflight' = inflight /\ faults' = faults
    BY <1>3, PopShortens DEF TakeEntry, Dequeue, TypeOK, FrontierTypeOK, L
  <2> QED
    BY <1>1, <2>1, <2>2
<1>4. ASSUME NEW w \in Workers, DequeueError(w) PROVE Kept \/ Grown
  <2>1. W' = W
    BY <1>4 DEF DequeueError, engineVars, Busy, W
  <2>2. faults' = faults + 1
    BY <1>4 DEF DequeueError, DequeueFails, Fail
  <2>3. CASE Pop
    <3>1. L' = L - 1 /\ inflight' = inflight
      BY <2>3, PopShortens DEF TypeOK, FrontierTypeOK, L
    <3> QED
      BY <1>1, <2>1, <2>2, <3>1
  <2>4. CASE UNCHANGED keys
    <3>1. L' = L /\ inflight' = inflight
      BY <2>4 DEF keys, L
    <3> QED
      BY <1>1, <2>1, <2>2, <3>1
  <2> QED
    BY <1>4, <2>3, <2>4 DEF DequeueError, DequeueFails
<1>5. ASSUME NEW w \in Workers, EnqueueChild(w) \/ EnqueueInVain(w) PROVE Kept
  <2>1. Busy' = Busy
    BY <1>5, BusyStays DEF EnqueueChild, EnqueueInVain, Goto, BusyStates, States
  <2>2. W' = W
    BY <2>1 DEF W
  <2>3. ChildEntry(w) \in Entries
    BY DEF ChildEntry, TypeOK, Entries
  <2>4. /\ faults <= faults'
        /\ \/ inflight' = inflight /\ L' = L
           \/ inflight' = inflight + 1 /\ L' = L + 1
    BY <1>5, <2>3, EnqueueBalances DEF EnqueueChild, EnqueueInVain, TypeOK, L
  <2>5. CASE inflight' = inflight /\ L' = L
    BY <1>1, <2>2, <2>4, <2>5
  <2>6. CASE inflight' = inflight + 1 /\ L' = L + 1
    BY <1>1, <2>2, <2>4, <2>6
  <2> QED
    BY <2>4, <2>5, <2>6
<1>6. ASSUME NEW w \in Workers, Finish(w) PROVE Kept \/ Grown
  <2>1. w \in Busy
    BY <1>6 DEF Finish, Busy, BusyStates, States
  <2>2. W' = W - 1
    BY <1>6, <2>1, BusyLoses DEF Finish, W
  <2>3. L' = L
    BY <1>6 DEF Finish, MarkDone, MarkDoneFails, L
  <2>4. CASE inflight' = inflight - 1 /\ faults' \in {faults, faults + 1}
    <3>1. faults <= faults'
      BY <1>1, <2>4
    <3> QED
      BY <1>1, <2>2, <2>3, <2>4, <3>1
  <2>5. CASE inflight' = inflight /\ faults' = faults + 1
    BY <1>1, <2>2, <2>3, <2>5
  <2> QED
    BY <1>6, <2>4, <2>5 DEF Finish, MarkDone, MarkDoneFails, Fail
<1>7. ASSUME NEW w \in Workers,
             \/ FindNothing(w) \/ Exit(w) \/ GoRound(w) \/ Admit(w) \/ Reject(w)
             \/ Fetch(w) \/ Audit(w) \/ AuditPanics(w) \/ Send(w) \/ Count(w)
             \/ EmitPageDone(w) \/ Reserve(w) \/ Refuse(w) \/ Rollback(w)
      PROVE  Kept
  <2>1. W' = W
    <3> SUFFICES Busy' = Busy
      BY DEF W
    <3> USE BusyStays DEF Goto, BusyStates, States
    <3>1. CASE FindNothing(w) \/ Exit(w) \/ GoRound(w)
      BY <3>1 DEF FindNothing, Exit, GoRound
    <3>2. CASE Admit(w) \/ Reject(w) \/ Fetch(w)
      BY <3>2 DEF Admit, Reject, Fetch
    <3>3. CASE Audit(w) \/ AuditPanics(w) \/ Send(w)
      BY <3>3 DEF Audit, AuditPanics, Send
    <3>4. CASE Count(w) \/ EmitPageDone(w)
      BY <3>4 DEF Count, EmitPageDone
    <3>5. CASE Reserve(w) \/ Refuse(w) \/ Rollback(w)
      BY <3>5 DEF Reserve, Refuse, Rollback
    <3> QED
      BY <1>7, <3>1, <3>2, <3>3, <3>4, <3>5
  <2>2. L' = L /\ inflight' = inflight /\ faults <= faults'
    BY <1>1, <1>7 DEF FindNothing, DequeueNothing, Exit, GoRound, Fail, Admit, Reject, Fetch, Audit,
                AuditPanics, Send, Count, EmitPageDone, Reserve, Refuse, Rollback,
                frontierVars, keys, L
  <2> QED
    BY <1>1, <2>1, <2>2
<1>8. CASE Stopped
  BY <1>1, <1>8 DEF Stopped, vars, frontierVars, engineVars, Busy, W, L
<1> QED
  BY <1>3, <1>4, <1>5, <1>6, <1>7, <1>8 DEF Next, Step

LEMMA GapInductive ==
    TypeOK /\ TypeOK' /\ Gap \in 0 .. faults /\ [Next]_vars => (Gap \in 0 .. faults)'
<1>1. UNCHANGED vars => Gap' = Gap /\ faults' = faults
  BY DEF vars, frontierVars, engineVars, Gap, Busy
<1> QED
  BY <1>1, GapGrowsWithFaults

(* The counter and the work there is agree, up to the failed calls.        *)
THEOREM InflightIsAccounted == Spec => []InflightAccounting
<1> DEFINE Inv == Gap \in 0 .. faults
<1>1. Init => Inv
  <2> SUFFICES ASSUME Init PROVE Inv
    OBVIOUS
  <2>1. Busy = {}
    BY DEF Init, Busy, BusyStates
  <2>2. Cardinality(Busy) = 0
    BY <2>1, FS_EmptySet
  <2> QED
    BY <2>2 DEF Init, Gap
<1>2. TypeOK /\ TypeOK' /\ Inv /\ [Next]_vars => Inv'
  BY GapInductive
<1> QED
  BY <1>1, <1>2, TypeCorrect, PTL DEF Spec, Gap, InflightAccounting

(* A worker has left.                                                      *)
Over == \E w \in Workers : pc[w] = "exited"

(* With the queue empty and nobody busy, the idle workers can only look    *)
(* again or leave.                                                         *)
LEMMA NothingMovesWhenIdle ==
    ASSUME TypeOK, queue = <<>>, Busy = {}, Next
    PROVE  Busy' = {} /\ UNCHANGED <<keys, channel, pagesFetched, pagesDone>>
<1>1. ASSUME NEW w \in Workers PROVE pc[w] \in {"dequeue", "check", "exited"}
  BY DEF TypeOK, Busy, BusyStates
<1>2. CASE Stopped
  BY <1>2 DEF Stopped, vars, frontierVars, engineVars, keys, Busy
<1>3. ASSUME NEW w \in Workers, Step(w) PROVE Busy' = {} /\ UNCHANGED <<keys, channel, pagesFetched, pagesDone>>
  <2>1. ~TakeEntry(w)
    BY DEF TakeEntry, Dequeue, Pop
  <2>2. /\ ~Admit(w) /\ ~Reject(w) /\ ~Fetch(w) /\ ~Audit(w) /\ ~AuditPanics(w)
        /\ ~Send(w) /\ ~Count(w) /\ ~EmitPageDone(w) /\ ~Reserve(w) /\ ~Refuse(w)
        /\ ~EnqueueChild(w) /\ ~EnqueueInVain(w) /\ ~Rollback(w) /\ ~Finish(w)
    BY <1>1 DEF Admit, Reject, Fetch, Audit, AuditPanics, Send, Count, EmitPageDone, Reserve,
                Refuse, EnqueueChild, EnqueueInVain, Rollback, Finish, Goto
  <2>3. CASE FindNothing(w) \/ Exit(w) \/ GoRound(w)
    <3>1. Busy' = Busy
      BY <2>3, BusyStays DEF FindNothing, Exit, GoRound, Goto, BusyStates, States
    <3> QED
      BY <2>3, <3>1 DEF FindNothing, DequeueNothing, Exit, GoRound, frontierVars, keys
  <2>4. CASE DequeueError(w)
    BY <2>4 DEF DequeueError, DequeueFails, Pop, keys, engineVars, Busy
  <2> QED
    BY <1>3, <2>1, <2>2, <2>3, <2>4 DEF Step
<1> QED
  BY <1>2, <1>3 DEF Next

(* The first worker to leave does so by its exit test.                     *)
LEMMA OnlyExitLeaves ==
    ASSUME TypeOK, Next, ~Over, Over'
    PROVE  \E w \in Workers : Exit(w)
<1>1. PICK v \in Workers : pc'[v] = "exited" /\ pc[v] # "exited"
  BY DEF Over
<1>2. PICK w \in Workers : Step(w)
  BY <1>1 DEF Next, Stopped, vars, engineVars
<1>3. ASSUME ~Exit(w) PROVE FALSE
  <2>1. \A to \in States \ {"exited"} : pc' # [pc EXCEPT ![w] = to]
    BY <1>1 DEF TypeOK
  <2>2. ~DequeueError(w)
    BY <1>1 DEF DequeueError, engineVars
  <2>3. ~TakeEntry(w) /\ ~FindNothing(w) /\ ~GoRound(w) /\ ~Admit(w) /\ ~Reject(w) /\ ~Fetch(w)
    BY <2>1 DEF TakeEntry, FindNothing, GoRound, Admit, Reject, Fetch, Goto, States
  <2>4. ~Audit(w) /\ ~AuditPanics(w) /\ ~Send(w) /\ ~Count(w) /\ ~EmitPageDone(w)
    BY <2>1 DEF Audit, AuditPanics, Send, Count, EmitPageDone, Goto, States
  <2>5. ~Reserve(w)
    BY <2>1 DEF Reserve, States
  <2>6. ~Refuse(w) /\ ~EnqueueChild(w) /\ ~EnqueueInVain(w) /\ ~Rollback(w) /\ ~Finish(w)
    BY <2>1 DEF Refuse, EnqueueChild, EnqueueInVain, Rollback, Finish, Goto, States
  <2> QED
    BY <1>2, <1>3, <2>2, <2>3, <2>4, <2>5, <2>6 DEF Step
<1> QED
  BY <1>3

(* NoEarlyExit is preserved by a step from a state where the counter is    *)
(* accounted for: the exit test implies that nobody is busy.               *)
LEMMA NoEarlyExitInductive ==
    ASSUME TypeOK, InflightAccounting, NoEarlyExit, [Next]_vars
    PROVE  NoEarlyExit'
<1>1. CASE UNCHANGED vars
  BY <1>1 DEF vars, frontierVars, engineVars, NoEarlyExit, Busy
<1>2. CASE Next /\ Over
  BY <1>2, NothingMovesWhenIdle DEF NoEarlyExit, Over, keys
<1>3. CASE Next /\ ~Over /\ Over'
  <2>1. PICK w \in Workers : Exit(w)
    BY <1>3, OnlyExitLeaves
  <2>2. queue = <<>> /\ inflight <= 0 /\ queue' = queue
    BY <2>1 DEF Exit, IsComplete, frontierVars
  <2>3. Cardinality(Busy) = 0
    <3>1. Cardinality(Busy) \in Nat /\ Len(queue) = 0 /\ inflight \in Int /\ faults \in Nat
      BY <2>2, BusyFinite DEF TypeOK, FrontierTypeOK
    <3>2. inflight - (Len(queue) + Cardinality(Busy)) >= 0
      BY <3>1 DEF InflightAccounting
    <3> QED
      BY <2>2, <3>1, <3>2
  <2>4. Busy = {}
    BY <2>3, BusyFinite, FS_EmptySet
  <2>5. Busy' = Busy
    BY <2>1, BusyStays DEF Exit, Goto, BusyStates, States
  <2> QED
    BY <2>2, <2>4, <2>5 DEF NoEarlyExit
<1>4. CASE ~Over'
  BY <1>4 DEF Over, NoEarlyExit
<1> QED
  BY <1>1, <1>2, <1>3, <1>4

(* No worker leaves while an entry waits or another worker is busy: "empty *)
(* queue is not done" is honoured, whatever calls of the frontier fail.    *)
THEOREM NoWorkerLeavesEarly == Spec => []NoEarlyExit
<1>1. Init => NoEarlyExit
  BY DEF Init, NoEarlyExit
<1> QED
  BY <1>1, NoEarlyExitInductive, TypeCorrect, InflightIsAccounted, PTL DEF Spec

(* When one worker has left, nothing of the crawl's state moves any more.  *)
THEOREM TheFirstExitIsFinal == Spec => ExitIsFinal
<1>1. TypeOK /\ NoEarlyExit /\ [Next]_vars =>
        [Over => UNCHANGED <<keys, channel, pagesFetched, pagesDone>>]_vars
  <2> SUFFICES ASSUME TypeOK, NoEarlyExit, Next, Over
               PROVE  UNCHANGED <<keys, channel, pagesFetched, pagesDone>>
    OBVIOUS
  <2> QED
    BY NothingMovesWhenIdle DEF NoEarlyExit, Over
<1> QED
  BY <1>1, TypeCorrect, NoWorkerLeavesEarly, PTL DEF Spec, ExitIsFinal, Over

-----------------------------------------------------------------------------
(***************************************************************************)
(* The cap on the number of pages.                                         *)
(***************************************************************************)

(* A worker past the gate: its slot counts against the cap.                *)
Admitted == {w \in Workers : pc[w] \in {"enqueue", "rollback"}}

SeenFinite == IsFiniteSet(seen)

(* The sizes the argument is about, as numbers.                            *)
NSeen == Cardinality(seen)
NReserved == Cardinality(Reserving)
NAdmitted == Cardinality(Admitted)

(* The sizes that the accounting of the cap compares are numbers.          *)
LEMMA SizesAreNumbers ==
    ASSUME SeenFinite
    PROVE  /\ IsFiniteSet(Reserving) /\ IsFiniteSet(Admitted)
           /\ NSeen \in Nat /\ NReserved \in Nat /\ NAdmitted \in Nat /\ NAdmitted <= NReserved
<1>1. Reserving \subseteq Workers /\ Admitted \subseteq Reserving /\ IsFiniteSet(Workers)
  BY EngineAssumption DEF Reserving, Admitted
<1>2. IsFiniteSet(Reserving) /\ IsFiniteSet(Admitted)
  BY <1>1, FS_Subset
<1> QED
  BY <1>1, <1>2, FS_Subset, FS_CardinalityType DEF SeenFinite, NSeen, NReserved, NAdmitted

(* A step of a capped crawl does one of these to the sizes, the counter    *)
(* and the number of failures.                                             *)
SameSizes == NSeen' = NSeen /\ NReserved' = NReserved /\ NAdmitted' = NAdmitted /\ pagesFetched' = pagesFetched /\ faults <= faults'

TakeSlot(a) ==
    /\ NSeen' = NSeen /\ NReserved' = NReserved + 1 /\ NAdmitted' = NAdmitted + a /\ faults' = faults
    /\ pagesFetched' = pagesFetched + 1
    /\ a = 1 => pagesFetched < MaxPages

GiveSlotBack(a) ==
    /\ NSeen' = NSeen /\ NReserved' = NReserved - 1 /\ NAdmitted' = NAdmitted - a /\ faults' = faults
    /\ pagesFetched' = pagesFetched - 1

UseSlot ==
    /\ NSeen' = NSeen + 1 /\ NReserved' = NReserved - 1 /\ NAdmitted' = NAdmitted - 1 /\ faults' = faults
    /\ pagesFetched' = pagesFetched

UseUnawares ==
    /\ NSeen' = NSeen + 1 /\ NReserved' = NReserved /\ NAdmitted' = NAdmitted /\ faults' = faults + 1
    /\ pagesFetched' = pagesFetched

SlotMove ==
    \/ SameSizes \/ UseSlot \/ UseUnawares
    \/ \E a \in {0, 1} : TakeSlot(a) \/ GiveSlotBack(a)

(* How a move of one worker changes the sets of workers with a slot in     *)
(* hand: by that worker alone.                                             *)
LEMMA PcMoves ==
    ASSUME TypeOK, SeenFinite, NEW w \in Workers, NEW to \in States,
           pc' = [pc EXCEPT ![w] = to]
    PROVE  /\ pc[w] \in {"refuse", "enqueue", "rollback"} =>
                (to \notin {"refuse", "enqueue", "rollback"} => NReserved' = NReserved - 1)
           /\ pc[w] \notin {"refuse", "enqueue", "rollback"} =>
                (to \in {"refuse", "enqueue", "rollback"} => NReserved' = NReserved + 1)
           /\ (pc[w] \in {"refuse", "enqueue", "rollback"} <=> to \in {"refuse", "enqueue", "rollback"})
                => NReserved' = NReserved
           /\ pc[w] \in {"enqueue", "rollback"} =>
                (to \notin {"enqueue", "rollback"} => NAdmitted' = NAdmitted - 1)
           /\ pc[w] \notin {"enqueue", "rollback"} =>
                (to \in {"enqueue", "rollback"} => NAdmitted' = NAdmitted + 1)
           /\ (pc[w] \in {"enqueue", "rollback"} <=> to \in {"enqueue", "rollback"}) => NAdmitted' = NAdmitted
<1> DEFINE Rs == {"refuse", "enqueue", "rollback"}
<1> DEFINE As == {"enqueue", "rollback"}
<1>1. IsFiniteSet(Reserving) /\ IsFiniteSet(Admitted)
  BY SizesAreNumbers
<1>2. ASSUME pc[w] \in Rs, to \notin Rs PROVE NReserved' = NReserved - 1
  <2>1. Reserving' = Reserving \ {w} /\ w \in Reserving
    BY <1>2 DEF Reserving, TypeOK
  <2> QED
    BY <1>1, <2>1, FS_RemoveElement DEF NReserved
<1>3. ASSUME pc[w] \notin Rs, to \in Rs PROVE NReserved' = NReserved + 1
  <2>1. Reserving' = Reserving \cup {w} /\ w \notin Reserving
    BY <1>3 DEF Reserving, TypeOK
  <2> QED
    BY <1>1, <2>1, FS_AddElement DEF NReserved
<1>4. ASSUME pc[w] \in Rs <=> to \in Rs PROVE NReserved' = NReserved
  <2>1. Reserving' = Reserving
    BY <1>4 DEF Reserving, TypeOK
  <2> QED
    BY <2>1 DEF NReserved
<1>5. ASSUME pc[w] \in As, to \notin As PROVE NAdmitted' = NAdmitted - 1
  <2>1. Admitted' = Admitted \ {w} /\ w \in Admitted
    BY <1>5 DEF Admitted, TypeOK
  <2> QED
    BY <1>1, <2>1, FS_RemoveElement DEF NAdmitted
<1>6. ASSUME pc[w] \notin As, to \in As PROVE NAdmitted' = NAdmitted + 1
  <2>1. Admitted' = Admitted \cup {w} /\ w \notin Admitted
    BY <1>6 DEF Admitted, TypeOK
  <2> QED
    BY <1>1, <2>1, FS_AddElement DEF NAdmitted
<1>7. ASSUME pc[w] \in As <=> to \in As PROVE NAdmitted' = NAdmitted
  <2>1. Admitted' = Admitted
    BY <1>7 DEF Admitted, TypeOK
  <2> QED
    BY <2>1 DEF NAdmitted
<1> QED
  BY <1>2, <1>3, <1>4, <1>5, <1>6, <1>7

(* The seen set grows by the one URL an enqueue adds.                      *)
LEMMA SeenGrows ==
    ASSUME SeenFinite, NEW u, u \notin seen, seen' = seen \cup {u}
    PROVE  SeenFinite' /\ NSeen' = NSeen + 1
  BY FS_AddElement DEF SeenFinite, NSeen

(* Every step of the pool moves slots in one of five ways: not at all,     *)
(* takes one, gives one back, uses one, or uses one unawares because the   *)
(* reply was lost.                                                         *)
LEMMA EveryStepMovesSlots ==
    ASSUME Capped, TypeOK, SeenFinite, Next
    PROVE  SlotMove /\ SeenFinite'
<1>1. ASSUME seen' = seen PROVE SeenFinite' /\ NSeen' = NSeen
  BY <1>1 DEF SeenFinite, NSeen
<1>2. faults \in Nat
  BY DEF TypeOK, FrontierTypeOK
<1>3. CASE Stopped
  BY <1>1, <1>2, <1>3 DEF Stopped, vars, frontierVars, engineVars, SlotMove, SameSizes,
                          Reserving, Admitted, NReserved, NAdmitted
<1>4. ASSUME NEW w \in Workers,
             \/ TakeEntry(w) \/ FindNothing(w) \/ Exit(w) \/ GoRound(w) \/ Admit(w) \/ Reject(w)
             \/ Fetch(w) \/ Audit(w) \/ AuditPanics(w) \/ Send(w) \/ Count(w)
             \/ EmitPageDone(w) \/ Finish(w)
      PROVE  SlotMove /\ SeenFinite'
  <2> DEFINE Far == {"dequeue", "check", "gate", "fetch", "audit", "send", "count", "emit",
                     "children", "skip", "exited"}
  <2>1. seen' = seen /\ pagesFetched' = pagesFetched /\ faults <= faults'
    BY <1>2, <1>4 DEF TakeEntry, Dequeue, Pop, FindNothing, DequeueNothing, Exit, GoRound, Fail,
       Admit, Reject, Fetch, Audit, AuditPanics, Send, Count, EmitPageDone, Finish, MarkDone,
       MarkDoneFails, frontierVars, keys
  <2>2. PICK to \in Far : pc[w] \in Far /\ pc' = [pc EXCEPT ![w] = to]
    <3>1. CASE TakeEntry(w) \/ FindNothing(w) \/ Exit(w) \/ GoRound(w)
      BY <3>1 DEF TakeEntry, FindNothing, Exit, GoRound, Goto
    <3>2. CASE Admit(w) \/ Reject(w) \/ Fetch(w)
      BY <3>2 DEF Admit, Reject, Fetch, Goto
    <3>3. CASE Audit(w) \/ AuditPanics(w) \/ Send(w)
      BY <3>3 DEF Audit, AuditPanics, Send, Goto
    <3>4. CASE Count(w) \/ EmitPageDone(w) \/ Finish(w)
      BY <3>4 DEF Count, EmitPageDone, Finish, Goto
    <3> QED
      BY <1>4, <3>1, <3>2, <3>3, <3>4
  <2>3. NReserved' = NReserved /\ NAdmitted' = NAdmitted
    BY <2>2, PcMoves DEF States
  <2> QED
    BY <1>1, <2>1, <2>3 DEF SlotMove, SameSizes
<1>5. ASSUME NEW w \in Workers, DequeueError(w) PROVE SlotMove /\ SeenFinite'
  BY <1>1, <1>2, <1>5 DEF DequeueError, DequeueFails, Fail, Pop, keys, engineVars, SlotMove,
                          SameSizes, Reserving, Admitted, NReserved, NAdmitted
<1>6. ASSUME NEW w \in Workers, Reserve(w) PROVE SlotMove /\ SeenFinite'
  <2>1. /\ seen' = seen /\ faults' = faults /\ pagesFetched' = pagesFetched + 1
        /\ pc[w] = "children"
    BY <1>6 DEF Reserve, frontierVars
  <2>2. CASE pagesFetched >= MaxPages
    <3>1. pc' = [pc EXCEPT ![w] = "refuse"]
      BY <1>6, <2>2 DEF Reserve
    <3>2. NReserved' = NReserved + 1 /\ NAdmitted' = NAdmitted
      BY <2>1, <3>1, PcMoves DEF States
    <3>3. NAdmitted \in Nat
      BY SizesAreNumbers
    <3>4. TakeSlot(0)
      BY <1>1, <2>1, <3>2, <3>3 DEF TakeSlot
    <3> QED
      BY <1>1, <2>1, <3>4 DEF SlotMove
  <2>3. CASE ~(pagesFetched >= MaxPages)
    <3>1. pc' = [pc EXCEPT ![w] = "enqueue"]
      BY <1>6, <2>3 DEF Reserve
    <3>2. NReserved' = NReserved + 1 /\ NAdmitted' = NAdmitted + 1
      BY <2>1, <3>1, PcMoves DEF States
    <3>3. pagesFetched < MaxPages
      BY <2>3, EngineAssumption DEF TypeOK
    <3>4. TakeSlot(1)
      BY <1>1, <2>1, <3>2, <3>3 DEF TakeSlot
    <3> QED
      BY <1>1, <2>1, <3>4 DEF SlotMove
  <2> QED
    BY <2>2, <2>3
<1>7. ASSUME NEW w \in Workers, Refuse(w) PROVE SlotMove /\ SeenFinite'
  <2>1. /\ seen' = seen /\ faults' = faults /\ pagesFetched' = pagesFetched - 1
        /\ pc[w] = "refuse" /\ pc' = [pc EXCEPT ![w] = "children"]
    BY <1>7 DEF Refuse, Goto, frontierVars
  <2>2. NReserved' = NReserved - 1 /\ NAdmitted' = NAdmitted
    BY <2>1, PcMoves DEF States
  <2>3. NAdmitted \in Nat
    BY SizesAreNumbers
  <2>4. GiveSlotBack(0)
    BY <1>1, <2>1, <2>2, <2>3 DEF GiveSlotBack
  <2> QED
    BY <1>1, <2>1, <2>4 DEF SlotMove
<1>8. ASSUME NEW w \in Workers, EnqueueChild(w) PROVE SlotMove /\ SeenFinite'
  <2>1. /\ faults' = faults /\ pagesFetched' = pagesFetched
        /\ pc[w] = "enqueue" /\ pc' = [pc EXCEPT ![w] = "children"]
    BY <1>8 DEF EnqueueChild, EnqueueNew, Goto
  <2>2. NReserved' = NReserved - 1 /\ NAdmitted' = NAdmitted - 1
    BY <2>1, PcMoves DEF States
  <2>3. SeenFinite' /\ NSeen' = NSeen + 1
    BY <1>8, SeenGrows DEF EnqueueChild, EnqueueNew
  <2> QED
    BY <2>1, <2>2, <2>3 DEF SlotMove, UseSlot
<1>9. ASSUME NEW w \in Workers, EnqueueInVain(w) PROVE SlotMove /\ SeenFinite'
  <2>1. /\ pagesFetched' = pagesFetched
        /\ pc[w] = "enqueue" /\ pc' = [pc EXCEPT ![w] = "rollback"]
    BY <1>9 DEF EnqueueInVain, Goto
  <2>2. NReserved' = NReserved /\ NAdmitted' = NAdmitted
    BY <2>1, PcMoves DEF States
  <2>3. CASE EnqueueReplyLost(ChildEntry(w))
    <3>1. faults' = faults + 1
      BY <2>3 DEF EnqueueReplyLost, Fail
    <3>2. SeenFinite' /\ NSeen' = NSeen + 1
      BY <2>3, SeenGrows DEF EnqueueReplyLost
    <3> QED
      BY <2>1, <2>2, <3>1, <3>2 DEF SlotMove, UseUnawares
  <2>4. CASE EnqueueDuplicate(ChildEntry(w)) \/ EnqueueNoEffect
    <3>1. seen' = seen /\ faults <= faults'
      BY <1>2, <2>4 DEF EnqueueDuplicate, EnqueueNoEffect, Fail, keys, frontierVars
    <3> QED
      BY <1>1, <2>1, <2>2, <3>1 DEF SlotMove, SameSizes
  <2> QED
    BY <1>9, <2>3, <2>4 DEF EnqueueInVain, EnqueueFails
<1>10. ASSUME NEW w \in Workers, Rollback(w) PROVE SlotMove /\ SeenFinite'
  <2>1. /\ seen' = seen /\ faults' = faults /\ pagesFetched' = pagesFetched - 1
        /\ pc[w] = "rollback" /\ pc' = [pc EXCEPT ![w] = "children"]
    BY <1>10 DEF Rollback, Goto, frontierVars
  <2>2. NReserved' = NReserved - 1 /\ NAdmitted' = NAdmitted - 1
    BY <2>1, PcMoves DEF States
  <2>3. GiveSlotBack(1)
    BY <1>1, <2>1, <2>2 DEF GiveSlotBack
  <2> QED
    BY <1>1, <2>1, <2>3 DEF SlotMove
<1> QED
  BY <1>3, <1>4, <1>5, <1>6, <1>7, <1>8, <1>9, <1>10 DEF Next, Step

(* The strengthening: no URL is seen and no slot handed out beyond the cap *)
(* and the failures, the counter is short of them only by failures, and it *)
(* is never ahead of them.                                                 *)
SlotsBounded ==
    /\ SeenFinite
    /\ Capped => /\ NSeen + NReserved - pagesFetched <= faults
                 /\ NSeen + NAdmitted <= Cap + faults

CapInv ==
    /\ SlotsBounded
    /\ Capped => NSeen + NReserved - pagesFetched >= 0

(* The cap in force is at least the root page and at least --max-pages.    *)
LEMMA CapIsPositive == Cap \in Nat /\ Cap >= 1 /\ Cap >= MaxPages
  BY EngineAssumption DEF Cap

(* The seed takes the first slot: the invariant holds when the pool        *)
(* starts.                                                                 *)
LEMMA CapInvInitially == Init => CapInv
<1> SUFFICES ASSUME Init PROVE CapInv
  OBVIOUS
<1>1. seen = {Root} /\ pagesFetched = 1 /\ faults = 0 /\ Reserving = {} /\ Admitted = {}
  BY DEF Init, WorkersInit, Reserving, Admitted
<1>2. SeenFinite /\ NSeen = 1 /\ NReserved = 0 /\ NAdmitted = 0
  BY <1>1, FS_Singleton, FS_EmptySet DEF SeenFinite, NSeen, NReserved, NAdmitted
<1> QED
  BY <1>1, <1>2, CapIsPositive DEF CapInv, SlotsBounded

(* Each of the five moves preserves the bounds, also when slots were lost  *)
(* before and the counter is ahead.                                        *)
LEMMA SlotsStayBounded ==
    ASSUME TypeOK, TypeOK', SlotsBounded, [Next]_vars
    PROVE  SlotsBounded'
<1>1. CASE UNCHANGED vars
  <2>1. /\ seen' = seen /\ pagesFetched' = pagesFetched /\ faults' = faults
        /\ Reserving' = Reserving /\ Admitted' = Admitted
    BY <1>1 DEF vars, frontierVars, engineVars, Reserving, Admitted
  <2> QED
    BY <2>1 DEF SlotsBounded, SeenFinite, NSeen, NReserved, NAdmitted
<1>2. CASE Next /\ ~Capped
  <2>1. ASSUME NEW u, seen' = seen \cup {u} PROVE SeenFinite'
    BY <2>1, FS_AddElement DEF SeenFinite, SlotsBounded
  <2>2. seen' = seen \/ \E u : seen' = seen \cup {u}
    <3>1. CASE Stopped
      BY <3>1 DEF Stopped, vars, frontierVars
    <3>2. ASSUME NEW w \in Workers, Step(w) PROVE seen' = seen \/ \E u : seen' = seen \cup {u}
      <4>1. CASE EnqueueChild(w) \/ EnqueueInVain(w)
        BY <4>1 DEF EnqueueChild, EnqueueInVain, EnqueueNew, EnqueueDuplicate, EnqueueFails,
                    EnqueueReplyLost, EnqueueNoEffect, keys, frontierVars
      <4>2. CASE TakeEntry(w) \/ FindNothing(w) \/ DequeueError(w) \/ Exit(w) \/ GoRound(w) \/ Finish(w)
        BY <4>2 DEF TakeEntry, Dequeue, Pop, FindNothing, DequeueNothing, DequeueError,
                    DequeueFails, Exit, GoRound, Finish, MarkDone, MarkDoneFails, keys, frontierVars
      <4>3. CASE \/ Admit(w) \/ Reject(w) \/ Fetch(w) \/ Audit(w) \/ AuditPanics(w) \/ Send(w)
                 \/ Count(w) \/ EmitPageDone(w) \/ Reserve(w) \/ Refuse(w) \/ Rollback(w)
        BY <4>3 DEF Admit, Reject, Fetch, Audit, AuditPanics, Send, Count, EmitPageDone,
                    Reserve, Refuse, Rollback, frontierVars
      <4> QED
        BY <3>2, <4>1, <4>2, <4>3 DEF Step
    <3> QED
      BY <1>2, <3>1, <3>2 DEF Next
  <2> QED
    BY <1>2, <2>1, <2>2 DEF SlotsBounded, SeenFinite
<1>3. CASE Next /\ Capped
  <2>1. SlotMove /\ SeenFinite'
    BY <1>3, EveryStepMovesSlots DEF SlotsBounded
  <2>2. /\ NSeen \in Nat /\ NReserved \in Nat /\ NAdmitted \in Nat /\ NAdmitted <= NReserved
        /\ pagesFetched \in Int /\ faults \in Nat /\ faults' \in Nat
        /\ Cap \in Nat /\ MaxPages \in Nat /\ MaxPages <= Cap
    BY SizesAreNumbers, CapIsPositive, EngineAssumption DEF SlotsBounded, TypeOK, FrontierTypeOK
  <2>3. /\ NSeen + NReserved - pagesFetched <= faults
        /\ NSeen + NAdmitted <= Cap + faults
    BY <1>3 DEF SlotsBounded
  <2> DEFINE Goal == /\ NSeen' + NReserved' - pagesFetched' <= faults'
                     /\ NSeen' + NAdmitted' <= Cap + faults'
  <2>4. ASSUME SameSizes PROVE Goal
    <3>1. /\ NSeen' + NReserved' - pagesFetched' = NSeen + NReserved - pagesFetched
          /\ NSeen' + NAdmitted' = NSeen + NAdmitted
      BY <2>4 DEF SameSizes
    <3>2. NSeen + NReserved - pagesFetched <= faults'
      BY <2>2, <2>3, <2>4 DEF SameSizes
    <3>3. NSeen + NAdmitted <= Cap + faults'
      <4>1. NSeen + NAdmitted \in Nat /\ faults \in Nat /\ faults' \in Nat /\ Cap \in Nat
        BY <2>2
      <4>2. faults <= faults'
        BY <2>4 DEF SameSizes
      <4>3. NSeen + NAdmitted <= Cap + faults
        BY <2>3
      <4> QED
        BY <4>1, <4>2, <4>3
    <3> QED
      BY <2>3, <3>1, <3>2, <3>3
  <2>5. ASSUME UseSlot PROVE Goal
    BY <2>2, <2>3, <2>5 DEF UseSlot
  <2>6. ASSUME UseUnawares PROVE Goal
    BY <2>2, <2>3, <2>6 DEF UseUnawares
  <2>7. ASSUME TakeSlot(0) PROVE Goal
    BY <2>2, <2>3, <2>7 DEF TakeSlot
  <2>8. ASSUME TakeSlot(1) PROVE Goal
    BY <2>2, <2>3, <2>8 DEF TakeSlot
  <2>9. ASSUME GiveSlotBack(0) PROVE Goal
    BY <2>2, <2>3, <2>9 DEF GiveSlotBack
  <2>10. ASSUME GiveSlotBack(1) PROVE Goal
    BY <2>2, <2>3, <2>10 DEF GiveSlotBack
  <2>11. Goal
    BY <2>1, <2>4, <2>5, <2>6, <2>7, <2>8, <2>9, <2>10 DEF SlotMove
  <2> QED
    BY <2>1, <2>11 DEF SlotsBounded, Cap
<1> QED
  BY <1>1, <1>2, <1>3

(* The counter is never ahead of the slots.                                *)
LEMMA CapInvInductive ==
    ASSUME TypeOK, TypeOK', CapInv, [Next]_vars
    PROVE  CapInv'
<1>1. SlotsBounded'
  BY SlotsStayBounded DEF CapInv
<1>2. CASE UNCHANGED vars
  <2>1. seen' = seen /\ pagesFetched' = pagesFetched /\ Reserving' = Reserving
    BY <1>2 DEF vars, frontierVars, engineVars, Reserving
  <2> QED
    BY <1>1, <2>1 DEF CapInv, NSeen, NReserved
<1>3. ASSUME Next, Capped PROVE NSeen' + NReserved' - pagesFetched' >= 0
  <2>1. SlotMove
    BY <1>3, EveryStepMovesSlots DEF CapInv, SlotsBounded
  <2>2. NSeen \in Nat /\ NReserved \in Nat /\ pagesFetched \in Int
    BY SizesAreNumbers DEF CapInv, SlotsBounded, TypeOK
  <2>3. NSeen + NReserved - pagesFetched >= 0
    BY <1>3 DEF CapInv
  <2> QED
    BY <2>1, <2>2, <2>3 DEF SlotMove, SameSizes, UseSlot, UseUnawares, TakeSlot, GiveSlotBack
<1> QED
  BY <1>1, <1>2, <1>3 DEF CapInv

(* The invariant behind the cap holds in every state of the pool.          *)
THEOREM CapInvariant == Spec => []CapInv
  BY CapInvInitially, CapInvInductive, TypeCorrect, PTL DEF Spec

(* --max-pages is respected whatever the workers interleave to, up to one  *)
(* page for each enqueue that was applied without a reply.                 *)
THEOREM TheCapIsRespected == Spec => []CapRespected
<1>1. TypeOK /\ CapInv => CapRespected
  BY SizesAreNumbers, CapIsPositive DEF CapInv, SlotsBounded, CapRespected, NSeen, TypeOK, FrontierTypeOK
<1> QED
  BY <1>1, TypeCorrect, CapInvariant, PTL

(* pages_fetched is the number of URLs seen and of slots in hand, up to    *)
(* the enqueues that were applied without a reply.                         *)
THEOREM TheCounterIsAccounted == Spec => []CapAccounting
<1>1. TypeOK /\ CapInv => CapAccounting
  BY SizesAreNumbers DEF CapInv, SlotsBounded, CapAccounting, NSeen, NReserved, TypeOK, FrontierTypeOK
<1> QED
  BY <1>1, TypeCorrect, CapInvariant, PTL

-----------------------------------------------------------------------------
(***************************************************************************)
(* The pool implements Crawl.                                              *)
(***************************************************************************)

(* The links a worker has in hand are links of its page.                   *)
LinksInv ==
    \A w \in Workers :
       /\ kids[w] \subseteq Links[cur[w].url]
       /\ pc[w] = "enqueue" => kid[w] \in Links[cur[w].url]
       /\ w \notin Busy => kids[w] = {}

(* The queue as a set of URLs.                                             *)
LEMMA AppendWaits ==
    ASSUME queue \in Seq(Entries), NEW e \in Entries, queue' = Append(queue, e)
    PROVE  Waiting' = Waiting \cup {e.url}
<1>1. /\ DOMAIN queue' = 1 .. Len(queue) + 1 /\ DOMAIN queue = 1 .. Len(queue)
      /\ Len(queue) \in Nat
  OBVIOUS
<1>2. \A i \in 1 .. Len(queue) + 1 :
         queue'[i] = IF i = Len(queue) + 1 THEN e ELSE queue[i]
  BY <1>1
<1>3. Waiting' \subseteq Waiting \cup {e.url}
  BY <1>1, <1>2 DEF Waiting
<1>4. e.url \in Waiting'
  BY <1>1, <1>2 DEF Waiting
<1>5. Waiting \subseteq Waiting'
  BY <1>1, <1>2 DEF Waiting
<1> QED
  BY <1>3, <1>4, <1>5

(* A pop takes the head from the queue; the URLs that stay are those of    *)
(* the tail.                                                               *)
LEMMA PopFrees ==
    ASSUME queue \in Seq(Entries), Pop
    PROVE  Waiting = Waiting' \cup {Head(queue).url}
<1>1. /\ queue # <<>> /\ queue' = Tail(queue) /\ Len(queue) \in Nat /\ Len(queue) >= 1
      /\ DOMAIN queue = 1 .. Len(queue) /\ DOMAIN queue' = 1 .. Len(queue) - 1
  BY DEF Pop
<1>2. \A i \in 1 .. Len(queue) - 1 : queue'[i] = queue[i + 1]
  BY <1>1
<1>3. Head(queue) = queue[1]
  BY <1>1
<1>4. ASSUME NEW i \in 1 .. Len(queue) PROVE queue[i].url \in Waiting' \cup {Head(queue).url}
  <2>1. CASE i = 1
    BY <1>3, <2>1
  <2>2. CASE i # 1
    <3>1. i - 1 \in 1 .. Len(queue) - 1 /\ queue'[i - 1] = queue[i]
      BY <1>1, <1>2, <2>2
    <3> QED
      BY <1>1, <3>1 DEF Waiting
  <2> QED
    BY <2>1, <2>2
<1>5. ASSUME NEW i \in 1 .. Len(queue) - 1 PROVE queue'[i].url \in Waiting
  <2>1. i + 1 \in 1 .. Len(queue)
    BY <1>1
  <2> QED
    BY <1>1, <1>2, <2>1 DEF Waiting
<1>6. Waiting' \subseteq Waiting
  BY <1>1, <1>5 DEF Waiting
<1>7. Head(queue).url \in Waiting
  BY <1>1, <1>3 DEF Waiting
<1> QED
  BY <1>1, <1>4, <1>6, <1>7 DEF Waiting

(* Everything in the queue or with a worker.                               *)
Open == Waiting \cup Working

(* What the workers work on depends on the busy ones and their entries     *)
(* only.                                                                   *)
LEMMA WorkingStays ==
    ASSUME Busy' = Busy, cur' = cur
    PROVE  Working' = Working
  BY DEF Working

(* A step of one worker leaves the others where they are.                  *)
LEMMA OthersStay ==
    ASSUME TypeOK, NEW w \in Workers, Step(w), NEW v \in Workers, v # w
    PROVE  /\ pc'[v] = pc[v] /\ cur'[v] = cur[v] /\ kids'[v] = kids[v] /\ kid'[v] = kid[v]
           /\ nth'[v] = nth[v]
<1> USE DEF TypeOK
<1>1. CASE TakeEntry(w) \/ FindNothing(w) \/ DequeueError(w) \/ Exit(w) \/ GoRound(w)
  BY <1>1 DEF TakeEntry, FindNothing, DequeueError, Exit, GoRound, Goto, engineVars
<1>2. CASE Admit(w) \/ Reject(w) \/ Fetch(w) \/ Audit(w) \/ AuditPanics(w)
  BY <1>2 DEF Admit, Reject, Fetch, Audit, AuditPanics, Goto
<1>3. CASE Send(w) \/ Count(w) \/ EmitPageDone(w) \/ Reserve(w) \/ Refuse(w)
  BY <1>3 DEF Send, Count, EmitPageDone, Reserve, Refuse, Goto
<1>4. CASE EnqueueChild(w) \/ EnqueueInVain(w) \/ Rollback(w) \/ Finish(w)
  BY <1>4 DEF EnqueueChild, EnqueueInVain, Rollback, Finish, Goto
<1> QED
  BY <1>1, <1>2, <1>3, <1>4 DEF Step

(* The children a worker still holds are links of its page: preserved by   *)
(* every step.                                                             *)
LEMMA LinksInvInductive ==
    ASSUME TypeOK, LinksInv, [Next]_vars
    PROVE  LinksInv'
<1> DEFINE Good(w) == /\ kids[w] \subseteq Links[cur[w].url]
                      /\ pc[w] = "enqueue" => kid[w] \in Links[cur[w].url]
                      /\ w \notin Busy => kids[w] = {}
<1>1. CASE UNCHANGED vars
  BY <1>1 DEF vars, engineVars, LinksInv, Busy
<1>3. ASSUME NEW w \in Workers, Step(w) PROVE Good(w)'
  <2>1. Good(w)
    BY DEF LinksInv
  <2>2. Links \in [Urls -> SUBSET Urls] /\ cur[w] \in Entries /\ pc[w] \in States
    BY EngineAssumption DEF TypeOK
  <2> USE DEF TypeOK, Busy, BusyStates, States, Goto
  <2>3. CASE TakeEntry(w)
    <3>1. kids'[w] = {} /\ pc'[w] = "gate"
      BY <2>1, <2>3 DEF TakeEntry
    <3> QED
      BY <3>1
  <2>4. CASE FindNothing(w) \/ DequeueError(w) \/ Exit(w) \/ GoRound(w)
    BY <2>1, <2>4 DEF FindNothing, DequeueError, Exit, GoRound, engineVars
  <2>5. CASE Admit(w) \/ Reject(w) \/ Fetch(w) \/ AuditPanics(w) \/ Send(w) \/ Count(w) \/ EmitPageDone(w)
    BY <2>1, <2>5 DEF Admit, Reject, Fetch, AuditPanics, Send, Count, EmitPageDone
  <2>6. CASE Audit(w)
    BY <2>1, <2>6 DEF Audit
  <2>7. CASE Reserve(w)
    <3>1. PICK k \in kids[w] : kids' = [kids EXCEPT ![w] = @ \ {k}] /\ kid' = [kid EXCEPT ![w] = k]
      BY <2>7 DEF Reserve
    <3>2. cur' = cur /\ kids'[w] \subseteq kids[w] /\ kid'[w] \in kids[w]
      BY <2>7, <3>1 DEF Reserve
    <3>3. pc[w] = "children" /\ pc'[w] \in {"refuse", "enqueue"}
      BY <2>7 DEF Reserve
    <3> QED
      BY <2>1, <3>2, <3>3
  <2>8. CASE Refuse(w) \/ Rollback(w) \/ EnqueueChild(w) \/ EnqueueInVain(w)
    <3>1. pc[w] \in {"refuse", "rollback", "enqueue"} /\ pc'[w] \in {"children", "rollback"}
      BY <2>8 DEF Refuse, Rollback, EnqueueChild, EnqueueInVain
    <3>2. kids' = kids /\ cur' = cur
      BY <2>8 DEF Refuse, Rollback, EnqueueChild, EnqueueInVain
    <3> QED
      BY <2>1, <3>1, <3>2
  <2>9. CASE Finish(w)
    <3>1. kids'[w] = {} /\ pc'[w] = "dequeue"
      BY <2>9 DEF Finish
    <3> QED
      BY <3>1
  <2> QED
    BY <1>3, <2>3, <2>4, <2>5, <2>6, <2>7, <2>8, <2>9 DEF Step
<1>4. ASSUME NEW w \in Workers, Step(w) PROVE LinksInv'
  <2> SUFFICES ASSUME NEW v \in Workers PROVE Good(v)'
    BY DEF LinksInv
  <2>1. CASE v = w
    BY <1>3, <1>4, <2>1
  <2>2. CASE v # w
    BY <1>4, <2>2, OthersStay DEF LinksInv, Busy
  <2> QED
    BY <2>1, <2>2
<1> QED
  BY <1>1, <1>4 DEF Next, Stopped

(* What a step does to the pages seen and to the open ones.                *)
OpenStays == seen' = seen /\ Open' = Open

OpenCloses == seen' = seen /\ \E u \in Open : Open = Open' \cup {u}

OpenFinds ==
    \E w \in Busy : \E k \in Links[cur[w].url] :
       seen' = seen \cup {k} /\ k \notin seen /\ Open' = Open \cup {k}

(* Every step leaves what is open alone, closes at most one URL of it, or  *)
(* opens a new one that a busy worker's page links to.                     *)
LEMMA EveryStepMovesOpen ==
    ASSUME TypeOK, LinksInv, Next
    PROVE  OpenStays \/ OpenCloses \/ OpenFinds
<1> USE DEF Open
<1>1. CASE Stopped
  BY <1>1 DEF Stopped, vars, frontierVars, engineVars, OpenStays, Waiting, Working, Busy
<1>2. ASSUME queue' = queue PROVE Waiting' = Waiting
  BY <1>2 DEF Waiting
<1>3. ASSUME NEW w \in Workers, TakeEntry(w) PROVE OpenStays
  <2>1. Waiting = Waiting' \cup {Head(queue).url} /\ seen' = seen
    BY <1>3, PopFrees DEF TakeEntry, Dequeue, Pop, TypeOK, FrontierTypeOK
  <2>2. Busy' = Busy \cup {w} /\ w \notin Busy
    BY <1>3 DEF TakeEntry, Goto, Busy, BusyStates, States, TypeOK
  <2>3. cur'[w] = Head(queue) /\ \A v \in Workers : v # w => cur'[v] = cur[v]
    BY <1>3 DEF TakeEntry, TypeOK
  <2>4. Working' = Working \cup {Head(queue).url}
    BY <2>2, <2>3 DEF Working, Busy
  <2> QED
    BY <2>1, <2>4 DEF OpenStays
<1>4. ASSUME NEW w \in Workers, DequeueError(w) PROVE OpenStays \/ OpenCloses
  <2>1. Working' = Working
    BY <1>4 DEF DequeueError, engineVars, Working, Busy
  <2>2. CASE Pop
    <3>1. Waiting = Waiting' \cup {Head(queue).url} /\ seen' = seen
      BY <2>2, PopFrees DEF Pop, TypeOK, FrontierTypeOK
    <3> QED
      BY <2>1, <3>1 DEF OpenCloses
  <2>3. CASE UNCHANGED keys
    BY <1>2, <2>1, <2>3 DEF keys, OpenStays
  <2> QED
    BY <1>4, <2>2, <2>3 DEF DequeueError, DequeueFails
<1>5. ASSUME NEW w \in Workers, EnqueueChild(w) \/ EnqueueInVain(w) PROVE OpenStays \/ OpenFinds
  <2>1. Busy' = Busy /\ cur' = cur /\ pc[w] = "enqueue"
    BY <1>5, BusyStays DEF EnqueueChild, EnqueueInVain, Goto, BusyStates, States
  <2>2. Working' = Working
    BY <2>1, WorkingStays
  <2>3. w \in Busy /\ kid[w] \in Links[cur[w].url]
    BY <2>1 DEF Busy, BusyStates, States, LinksInv
  <2>4. CASE EnqueueNew(ChildEntry(w)) \/ EnqueueReplyLost(ChildEntry(w))
    <3>1. ChildEntry(w) \in Entries /\ ChildEntry(w).url = kid[w]
      BY DEF ChildEntry, Entries, TypeOK
    <3>2. Waiting' = Waiting \cup {kid[w]}
      BY <2>4, <3>1, AppendWaits DEF EnqueueNew, EnqueueReplyLost, TypeOK, FrontierTypeOK
    <3>3. seen' = seen \cup {kid[w]} /\ kid[w] \notin seen
      BY <2>4, <3>1 DEF EnqueueNew, EnqueueReplyLost
    <3> QED
      BY <2>2, <2>3, <3>2, <3>3 DEF OpenFinds
  <2>5. CASE EnqueueDuplicate(ChildEntry(w)) \/ EnqueueNoEffect
    <3>1. seen' = seen /\ queue' = queue
      BY <2>5 DEF EnqueueDuplicate, EnqueueNoEffect, frontierVars, keys
    <3> QED
      BY <1>2, <2>2, <3>1 DEF OpenStays
  <2> QED
    BY <1>5, <2>4, <2>5 DEF EnqueueChild, EnqueueInVain, EnqueueFails
<1>6. ASSUME NEW w \in Workers, Finish(w) PROVE OpenCloses
  <2>1. w \in Busy
    BY <1>6 DEF Finish, Busy, BusyStates, States
  <2>2. Busy' = Busy \ {w}
    BY <1>6 DEF Finish, Busy, BusyStates, States, TypeOK
  <2>3. \A v \in Workers : v # w => cur'[v] = cur[v]
    BY <1>6 DEF Finish, TypeOK
  <2>4. Working = Working' \cup {cur[w].url}
    BY <2>1, <2>2, <2>3 DEF Working, Busy
  <2>5. seen' = seen /\ queue' = queue
    BY <1>6 DEF Finish, MarkDone, MarkDoneFails
  <2> QED
    BY <1>2, <2>4, <2>5 DEF OpenCloses
<1>7. ASSUME NEW w \in Workers,
             \/ FindNothing(w) \/ Exit(w) \/ GoRound(w) \/ Admit(w) \/ Reject(w)
             \/ Fetch(w) \/ Audit(w) \/ AuditPanics(w) \/ Send(w) \/ Count(w)
             \/ EmitPageDone(w) \/ Reserve(w) \/ Refuse(w) \/ Rollback(w)
      PROVE  OpenStays
  <2>1. Busy' = Busy
    <3> USE BusyStays DEF Goto, BusyStates, States
    <3>1. CASE FindNothing(w) \/ Exit(w) \/ GoRound(w)
      BY <3>1 DEF FindNothing, Exit, GoRound
    <3>2. CASE Admit(w) \/ Reject(w) \/ Fetch(w)
      BY <3>2 DEF Admit, Reject, Fetch
    <3>3. CASE Audit(w) \/ AuditPanics(w) \/ Send(w)
      BY <3>3 DEF Audit, AuditPanics, Send
    <3>4. CASE Count(w) \/ EmitPageDone(w)
      BY <3>4 DEF Count, EmitPageDone
    <3>5. CASE Reserve(w) \/ Refuse(w) \/ Rollback(w)
      BY <3>5 DEF Reserve, Refuse, Rollback
    <3> QED
      BY <1>7, <3>1, <3>2, <3>3, <3>4, <3>5
  <2>2. seen' = seen /\ queue' = queue /\ cur' = cur
    BY <1>7 DEF FindNothing, DequeueNothing, Exit, GoRound, Admit, Reject, Fetch, Audit,
                AuditPanics, Send, Count, EmitPageDone, Reserve, Refuse, Rollback,
                frontierVars, keys
  <2> QED
    BY <1>2, <2>1, <2>2, WorkingStays DEF OpenStays
<1> QED
  BY <1>1, <1>3, <1>4, <1>5, <1>6, <1>7 DEF Next, Step

(* A worker that has left stays out.                                       *)
LEMMA OverForGood ==
    ASSUME TypeOK, Next, Over
    PROVE  Over'
<1>1. PICK v \in Workers : pc[v] = "exited"
  BY DEF Over
<1>2. CASE Stopped
  BY <1>1, <1>2 DEF Stopped, vars, engineVars, Over
<1>3. ASSUME NEW w \in Workers, Step(w) PROVE pc'[v] = "exited"
  <2> USE DEF Goto, TypeOK
  <2>1. CASE TakeEntry(w) \/ FindNothing(w) \/ DequeueError(w) \/ Exit(w) \/ GoRound(w)
    BY <1>1, <2>1 DEF TakeEntry, FindNothing, DequeueError, Exit, GoRound, engineVars
  <2>2. CASE Admit(w) \/ Reject(w) \/ Fetch(w) \/ Audit(w) \/ AuditPanics(w)
    BY <1>1, <2>2 DEF Admit, Reject, Fetch, Audit, AuditPanics
  <2>3. CASE Send(w) \/ Count(w) \/ EmitPageDone(w) \/ Reserve(w) \/ Refuse(w)
    BY <1>1, <2>3 DEF Send, Count, EmitPageDone, Reserve, Refuse
  <2>4. CASE EnqueueChild(w) \/ EnqueueInVain(w) \/ Rollback(w) \/ Finish(w)
    BY <1>1, <2>4 DEF EnqueueChild, EnqueueInVain, Rollback, Finish
  <2> QED
    BY <1>3, <2>1, <2>2, <2>3, <2>4 DEF Step
<1> QED
  BY <1>2, <1>3 DEF Next, Over

(* What is open has been seen.                                             *)
OpenInv == Open \subseteq seen

(* Children are links of the page being worked on, and what is open has    *)
(* been seen, in every state of the pool.                                  *)
THEOREM LinksInvariant == Spec => [](LinksInv /\ OpenInv)
<1>1. Init => LinksInv /\ OpenInv
  <2> SUFFICES ASSUME Init PROVE LinksInv /\ OpenInv
    OBVIOUS
  <2>1. LinksInv
    BY DEF Init, WorkersInit, LinksInv
  <2>2. Waiting = {Root} /\ Working = {}
    BY DEF Init, Waiting, Working, Busy, BusyStates, RootEntry
  <2> QED
    BY <2>1, <2>2 DEF Init, OpenInv, Open
<1>2. TypeOK /\ LinksInv /\ OpenInv /\ [Next]_vars => LinksInv' /\ OpenInv'
  <2>1. ASSUME UNCHANGED vars PROVE Open' = Open /\ seen' = seen
    BY <2>1 DEF vars, frontierVars, engineVars, Open, Waiting, Working, Busy
  <2>2. ASSUME TypeOK, LinksInv, OpenInv, Next PROVE OpenInv'
    BY <2>2, EveryStepMovesOpen DEF OpenStays, OpenCloses, OpenFinds, OpenInv
  <2> QED
    BY <2>1, <2>2, LinksInvInductive DEF OpenInv
<1> QED
  BY <1>1, <1>2, TypeCorrect, PTL DEF Spec

(* Every behaviour of the pool, with any number of workers, in any         *)
(* interleaving and with any calls of the frontier failing, is one of the  *)
(* abstract crawl: a page is found through a page being worked on, and the *)
(* crawl stops only when every page it knows is settled.                   *)
THEOREM ThePoolImplementsCrawl == Spec => ImplementsCrawl
<1> DEFINE Settled == seen \ (Waiting \cup Working)
<1>1. Init => Abstract!Init
  <2> SUFFICES ASSUME Init PROVE Abstract!Init
    OBVIOUS
  <2>1. Waiting = {Root}
    BY DEF Init, Waiting, RootEntry
  <2> QED
    BY <2>1 DEF Init, Abstract!Init
<1>2. ASSUME TypeOK, InflightAccounting, NoEarlyExit, LinksInv, OpenInv, Next
      PROVE  [Abstract!Next]_Abstract!vars
  <2> DEFINE Frozen == seen' = seen /\ Settled' = Settled
  <2>1. CASE Over
    <3>1. Over'
      BY <1>2, <2>1, OverForGood
    <3>2. queue = <<>> /\ Busy = {}
      BY <1>2, <2>1 DEF NoEarlyExit, Over
    <3>3. Busy' = {} /\ seen' = seen /\ queue' = queue
      BY <1>2, <3>2, NothingMovesWhenIdle DEF keys
    <3>4. Frozen
      BY <3>2, <3>3 DEF Waiting, Working
    <3> QED
      BY <2>1, <3>1, <3>4 DEF Abstract!vars, Over
  <2>2. CASE ~Over /\ Over'
    <3>1. PICK w \in Workers : Exit(w)
      BY <1>2, <2>2, OnlyExitLeaves
    <3>2. seen' = seen /\ queue' = queue /\ cur' = cur
      BY <3>1 DEF Exit, frontierVars
    <3>3. NoEarlyExit'
      BY <1>2, NoEarlyExitInductive
    <3>4. queue' = <<>> /\ Busy' = {}
      BY <2>2, <3>3 DEF NoEarlyExit, Over
    <3>5. Busy' = Busy
      BY <1>2, <3>1, BusyStays DEF Exit, Goto, BusyStates, States
    <3>6. Waiting = {} /\ Working = {} /\ Waiting' = {} /\ Working' = {}
      BY <3>2, <3>4, <3>5 DEF Waiting, Working
    <3>7. Abstract!Stop
      BY <2>2, <3>2, <3>6 DEF Abstract!Stop, Over
    <3> QED
      BY <3>7 DEF Abstract!Next
  <2>3. CASE ~Over /\ ~Over'
    <3>1. CASE OpenStays
      BY <2>3, <3>1 DEF OpenStays, Open, Abstract!vars, Over
    <3>2. CASE OpenCloses
      <4>1. PICK u \in Open : Open = Open' \cup {u} /\ seen' = seen
        BY <3>2 DEF OpenCloses
      <4>2. u \in seen \ Settled /\ u \in Urls
        BY <1>2, <4>1 DEF OpenInv, Open, TypeOK, FrontierTypeOK
      <4>3. Settled' = Settled \/ Settled' = Settled \cup {u}
        BY <4>1, <4>2 DEF Open
      <4>4. CASE Settled' = Settled
        BY <2>3, <4>1, <4>4 DEF Abstract!vars, Over
      <4>5. CASE Settled' = Settled \cup {u}
        BY <2>3, <4>1, <4>2, <4>5 DEF Abstract!Next, Abstract!Settle, Over
      <4> QED
        BY <4>3, <4>4, <4>5
    <3>3. CASE OpenFinds
      <4>1. PICK w \in Busy : \E k \in Links[cur[w].url] :
               seen' = seen \cup {k} /\ k \notin seen /\ Open' = Open \cup {k}
        BY <3>3 DEF OpenFinds
      <4>2. PICK k \in Links[cur[w].url] :
               seen' = seen \cup {k} /\ k \notin seen /\ Open' = Open \cup {k}
        BY <4>1
      <4>3. cur[w].url \in Urls /\ k \in Urls
        BY <1>2, EngineAssumption DEF TypeOK, Entries, Busy
      <4>4. cur[w].url \in seen \ Settled
        BY <1>2 DEF OpenInv, Open, Working
      <4>5. Settled' = Settled
        BY <4>2 DEF Open
      <4>6. Abstract!Discover(cur[w].url, k)
        BY <2>3, <4>2, <4>4, <4>5 DEF Abstract!Discover, Over
      <4> QED
        BY <4>3, <4>6 DEF Abstract!Next
    <3> QED
      BY <1>2, <3>1, <3>2, <3>3, EveryStepMovesOpen
  <2> QED
    BY <2>1, <2>2, <2>3
<1>3. ASSUME UNCHANGED vars PROVE UNCHANGED Abstract!vars
  BY <1>3 DEF vars, frontierVars, engineVars, Abstract!vars, Waiting, Working, Busy
<1>4. TypeOK /\ InflightAccounting /\ NoEarlyExit /\ LinksInv /\ OpenInv /\ [Next]_vars
        => [Abstract!Next]_Abstract!vars
  BY <1>2, <1>3
<1> QED
  BY <1>1, <1>4, TypeCorrect, InflightIsAccounted, NoWorkerLeavesEarly, LinksInvariant, PTL
     DEF Spec, ImplementsCrawl, Abstract!Spec

-----------------------------------------------------------------------------
(***************************************************************************)
(* The life of a page: queued, worked on, reported.                        *)
(***************************************************************************)

(* A worker that may still report its page, and one that has.              *)
Fresh == {"gate", "fetch", "audit", "send"}
Passed == {"count", "emit", "children", "refuse", "enqueue", "rollback"}

(* A step that moves no page: the frontier keys a page is found by, the    *)
(* channel and the entries of the workers stay.                            *)
Quiet(w) ==
    \/ FindNothing(w) \/ Exit(w) \/ GoRound(w) \/ Admit(w) \/ Reject(w)
    \/ Fetch(w) \/ Audit(w) \/ AuditPanics(w) \/ Count(w) \/ EmitPageDone(w)
    \/ Reserve(w) \/ Refuse(w) \/ Rollback(w)

(* What a quiet step leaves alone; only a refusal or a failure makes a     *)
(* worker skip its page, and none makes it pass as reported.               *)
LEMMA QuietSteps ==
    ASSUME TypeOK, NEW w \in Workers, Quiet(w)
    PROVE  /\ seen' = seen /\ queue' = queue /\ channel' = channel /\ cur' = cur
           /\ Busy' = Busy
           /\ faults <= faults'
           /\ pc'[w] \in Fresh => pc[w] \in Fresh
           /\ pc'[w] \in Passed => pc[w] \in Passed
           /\ pc'[w] = "skip" => cur[w].url \in Blocked \cup Flaky
<1>1. Busy' = Busy
  <2> USE BusyStays DEF Goto, BusyStates, States
  <2>1. CASE FindNothing(w) \/ Exit(w) \/ GoRound(w)
    BY <2>1 DEF FindNothing, Exit, GoRound
  <2>2. CASE Admit(w) \/ Reject(w) \/ Fetch(w)
    BY <2>2 DEF Admit, Reject, Fetch
  <2>3. CASE Audit(w) \/ AuditPanics(w)
    BY <2>3 DEF Audit, AuditPanics
  <2>4. CASE Count(w) \/ EmitPageDone(w)
    BY <2>4 DEF Count, EmitPageDone
  <2>5. CASE Reserve(w) \/ Refuse(w) \/ Rollback(w)
    BY <2>5 DEF Reserve, Refuse, Rollback
  <2> QED
    BY <2>1, <2>2, <2>3, <2>4, <2>5 DEF Quiet
<1>2. faults \in Nat
  BY DEF TypeOK, FrontierTypeOK
<1>3. seen' = seen /\ queue' = queue /\ channel' = channel /\ cur' = cur /\ faults <= faults'
  BY <1>2 DEF Quiet, FindNothing, DequeueNothing, Exit, GoRound, Fail, Admit, Reject, Fetch, Audit,
     AuditPanics, Count, EmitPageDone, Reserve, Refuse, Rollback, frontierVars, keys
<1>4. /\ pc'[w] \in Fresh => pc[w] \in Fresh
      /\ pc'[w] \in Passed => pc[w] \in Passed
      /\ pc'[w] = "skip" => cur[w].url \in Blocked \cup Flaky
  <2> USE DEF TypeOK, Goto, Fresh, Passed
  <2>1. CASE FindNothing(w) \/ Exit(w) \/ GoRound(w)
    BY <2>1 DEF FindNothing, Exit, GoRound
  <2>2. CASE Admit(w) \/ Reject(w) \/ Fetch(w)
    BY <2>2 DEF Admit, Reject, Fetch
  <2>3. CASE Audit(w) \/ AuditPanics(w)
    BY <2>3 DEF Audit, AuditPanics
  <2>4. CASE Count(w) \/ EmitPageDone(w)
    BY <2>4 DEF Count, EmitPageDone
  <2>5. CASE Reserve(w)
    <3>1. pc[w] = "children" /\ pc'[w] \in {"refuse", "enqueue"}
      BY <2>5 DEF Reserve
    <3> QED
      BY <3>1
  <2>6. CASE Refuse(w) \/ Rollback(w)
    BY <2>6 DEF Refuse, Rollback
  <2> QED
    BY <2>1, <2>2, <2>3, <2>4, <2>5, <2>6 DEF Quiet
<1> QED
  BY <1>1, <1>3, <1>4

(* An enqueue, in whatever way it comes back, adds one entry with a URL    *)
(* not seen before, or none.                                               *)
LEMMA EnqueueAdds ==
    ASSUME FrontierTypeOK, NEW e \in Entries,
           EnqueueNew(e) \/ EnqueueDuplicate(e) \/ EnqueueFails(e)
    PROVE  /\ \/ seen' = seen /\ queue' = queue /\ (e.url \in seen \/ faults' = faults + 1)
              \/ e.url \notin seen /\ seen' = seen \cup {e.url} /\ queue' = Append(queue, e)
           /\ faults <= faults'
  BY DEF FrontierTypeOK, EnqueueNew, EnqueueDuplicate, EnqueueFails, EnqueueReplyLost,
         EnqueueNoEffect, Fail, keys, frontierVars

(* The worker that enqueues stays busy with its page.                      *)
LEMMA EnqueueSteps ==
    ASSUME TypeOK, NEW w \in Workers, EnqueueChild(w) \/ EnqueueInVain(w)
    PROVE  /\ ChildEntry(w) \in Entries /\ ChildEntry(w).url = kid[w]
           /\ ChildEntry(w).depth = cur[w].depth + 1
           /\ \/ seen' = seen /\ queue' = queue /\ (kid[w] \in seen \/ faults' = faults + 1)
              \/ kid[w] \notin seen /\ seen' = seen \cup {kid[w]} /\ queue' = Append(queue, ChildEntry(w))
           /\ faults <= faults'
           /\ channel' = channel /\ cur' = cur /\ kids' = kids /\ Busy' = Busy
           /\ pc[w] = "enqueue" /\ pc'[w] \in {"children", "rollback"}
           /\ (\A v \in Workers : v # w => pc'[v] = pc[v])
<1>1. /\ ChildEntry(w) \in Entries /\ ChildEntry(w).url = kid[w]
      /\ ChildEntry(w).depth = cur[w].depth + 1
  BY DEF ChildEntry, Entries, TypeOK
<1>2. EnqueueNew(ChildEntry(w)) \/ EnqueueDuplicate(ChildEntry(w)) \/ EnqueueFails(ChildEntry(w))
  BY DEF EnqueueChild, EnqueueInVain
<1>3. /\ \/ seen' = seen /\ queue' = queue /\ (kid[w] \in seen \/ faults' = faults + 1)
         \/ kid[w] \notin seen /\ seen' = seen \cup {kid[w]} /\ queue' = Append(queue, ChildEntry(w))
      /\ faults <= faults'
  BY <1>1, <1>2, EnqueueAdds DEF TypeOK
<1>4. channel' = channel /\ cur' = cur /\ kids' = kids
  BY DEF EnqueueChild, EnqueueInVain
<1>5. Busy' = Busy
  BY BusyStays DEF EnqueueChild, EnqueueInVain, Goto, BusyStates, States
<1>6. /\ pc[w] = "enqueue" /\ pc'[w] \in {"children", "rollback"}
      /\ (\A v \in Workers : v # w => pc'[v] = pc[v])
  BY DEF EnqueueChild, EnqueueInVain, Goto, TypeOK
<1> QED
  BY <1>1, <1>3, <1>4, <1>5, <1>6

(* A pop shortens the queue and keeps the order of the rest.               *)
LEMMA PopShifts ==
    ASSUME queue \in Seq(Entries), Pop
    PROVE  /\ queue # <<>> /\ Head(queue) = queue[1] /\ Head(queue) \in Entries
           /\ 1 \in DOMAIN queue
           /\ \A i \in DOMAIN queue' : i + 1 \in DOMAIN queue /\ queue'[i] = queue[i + 1] /\ i \in Nat
           /\ seen' = seen
  BY DEF Pop

(* The longer of two sequences: the new entry is the last.                 *)
LEMMA AppendExtends ==
    ASSUME NEW S, NEW s \in Seq(S), NEW e, NEW t, t = Append(s, e)
    PROVE  /\ Len(s) \in Nat /\ DOMAIN s = 1 .. Len(s)
           /\ DOMAIN t = 1 .. Len(s) + 1
           /\ t[Len(s) + 1] = e
           /\ \A i \in DOMAIN s : t[i] = s[i] /\ i \in DOMAIN t /\ i # Len(s) + 1
           /\ \A i \in DOMAIN t : i \in DOMAIN s \/ i = Len(s) + 1
  OBVIOUS

(* A page is claimed once, the worker that has it has not reported it, and *)
(* what is reported has been seen.                                         *)
Unreported == \A w \in Workers : pc[w] \in Fresh => cur[w].url \notin Reported

ClaimInv == ProcessedOnce /\ Unreported /\ Reported \subseteq seen

(* The claim of every page survives every step: a URL is queued only when  *)
(* it has not been seen, and it moves from the queue to one worker and     *)
(* from there to the channel.                                              *)
LEMMA ClaimInvInductive ==
    ASSUME TypeOK, TypeOK', OpenInv, ClaimInv, [Next]_vars
    PROVE  ClaimInv'
<1> USE DEF ClaimInv
<1>1. /\ queue \in Seq(Entries) /\ channel \in Seq(Entries)
      /\ cur \in [Workers -> Entries] /\ pc \in [Workers -> States]
      /\ Waiting \subseteq seen /\ Working \subseteq seen
  BY DEF TypeOK, FrontierTypeOK, OpenInv, Open
<1>2. Fresh \subseteq BusyStates /\ BusyStates \subseteq States
  BY DEF Fresh, BusyStates, States
<1>3. ASSUME UNCHANGED vars PROVE ClaimInv'
  BY <1>3 DEF vars, frontierVars, engineVars, ProcessedOnce, Unreported, Waiting, Reported, Busy
<1>4. ASSUME NEW w \in Workers, Quiet(w) PROVE ClaimInv'
  <2>1. /\ seen' = seen /\ queue' = queue /\ channel' = channel /\ cur' = cur /\ Busy' = Busy
        /\ pc'[w] \in Fresh => pc[w] \in Fresh
    BY <1>4, QuietSteps
  <2>2. \A v \in Workers : v # w => pc'[v] = pc[v]
    BY <1>4, OthersStay DEF Quiet, Step
  <2>3. Waiting' = Waiting /\ Reported' = Reported
    BY <2>1 DEF Waiting, Reported
  <2>4. ProcessedOnce'
    BY <2>1, <2>3 DEF ProcessedOnce
  <2>5. Unreported'
    BY <2>1, <2>2, <2>3 DEF Unreported
  <2> QED
    BY <2>1, <2>3, <2>4, <2>5
<1>5. ASSUME Pop, channel' = channel
      PROVE  /\ Waiting' \subseteq Waiting /\ Reported' = Reported /\ seen' = seen
             /\ Head(queue).url \in Waiting /\ Head(queue).url \notin Waiting'
             /\ \A i, j \in DOMAIN queue' : queue'[i].url = queue'[j].url => i = j
  <2>1. /\ Head(queue) = queue[1] /\ 1 \in DOMAIN queue /\ seen' = seen
        /\ \A i \in DOMAIN queue' : i + 1 \in DOMAIN queue /\ queue'[i] = queue[i + 1] /\ i \in Nat
    BY <1>1, <1>5, PopShifts
  <2>2. Reported' = Reported
    BY <1>5 DEF Reported
  <2>3. \A i, j \in DOMAIN queue : queue[i].url = queue[j].url => i = j
    BY DEF ProcessedOnce
  <2>4. \A i, j \in DOMAIN queue' : queue'[i].url = queue'[j].url => i = j
    <3> TAKE i, j \in DOMAIN queue'
    <3> HAVE queue'[i].url = queue'[j].url
    <3>1. i + 1 = j + 1 /\ i \in Nat /\ j \in Nat
      BY <2>1, <2>3
    <3> QED
      BY <3>1
  <2>5. Head(queue).url \notin Waiting'
    <3> SUFFICES ASSUME NEW i \in DOMAIN queue', queue'[i].url = Head(queue).url PROVE FALSE
      BY DEF Waiting
    <3>1. i + 1 \in DOMAIN queue /\ queue[i + 1].url = queue[1].url /\ i \in Nat
      BY Zenon, <2>1
    <3>2. i + 1 = 1
      BY Zenon, <2>1, <2>3, <3>1
    <3>3. queue' \in Seq(Entries)
      BY DEF TypeOK, FrontierTypeOK
    <3> QED
      BY <3>1, <3>2, <3>3
  <2>6. Waiting' \subseteq Waiting /\ Head(queue).url \in Waiting
    BY <2>1 DEF Waiting
  <2> QED
    BY <2>1, <2>2, <2>4, <2>5, <2>6
<1>6. ASSUME NEW w \in Workers, TakeEntry(w) PROVE ClaimInv'
  <2> DEFINE u == Head(queue).url
  <2>1. Pop /\ channel' = channel
    BY <1>6 DEF TakeEntry, Dequeue
  <2>2. /\ Busy' = Busy \cup {w} /\ w \notin Busy /\ cur'[w] = Head(queue)
        /\ \A v \in Workers : v # w => cur'[v] = cur[v] /\ pc'[v] = pc[v]
    BY <1>6 DEF TakeEntry, Goto, Busy, BusyStates, States, TypeOK
  <2>3. \A v \in Busy : v # w /\ cur[v].url # u /\ cur'[v] = cur[v]
    BY <1>5, <2>1, <2>2 DEF ProcessedOnce, Busy
  <2>4. u \notin Reported
    BY <1>5, <2>1 DEF ProcessedOnce
  <2>5. ProcessedOnce'
    <3>1. \A i, j \in DOMAIN channel' : channel'[i].url = channel'[j].url => i = j
      BY <2>1 DEF ProcessedOnce
    <3>2. \A v1, v2 \in Busy' : cur'[v1].url = cur'[v2].url => v1 = v2
      BY <2>2, <2>3 DEF ProcessedOnce
    <3>3. \A v \in Busy' : cur'[v].url \notin Waiting'
      BY <1>5, <2>1, <2>2, <2>3 DEF ProcessedOnce
    <3>4. \A x \in Reported' : x \notin Waiting'
      BY <1>5, <2>1 DEF ProcessedOnce
    <3> QED
      BY <1>5, <2>1, <3>1, <3>2, <3>3, <3>4 DEF ProcessedOnce
  <2>6. Unreported'
    BY <1>5, <2>1, <2>2, <2>4 DEF Unreported
  <2> QED
    BY <1>5, <2>1, <2>5, <2>6
<1>7. ASSUME NEW w \in Workers, DequeueError(w) PROVE ClaimInv'
  <2>1. pc' = pc /\ cur' = cur /\ channel' = channel /\ Busy' = Busy
    BY <1>7 DEF DequeueError, engineVars, Busy
  <2>2. CASE Pop
    <3>1. ProcessedOnce'
      BY <1>5, <2>1, <2>2 DEF ProcessedOnce
    <3>2. Unreported' /\ Reported' \subseteq seen'
      BY <1>5, <2>1, <2>2 DEF Unreported
    <3> QED
      BY <3>1, <3>2
  <2>3. CASE UNCHANGED keys
    BY <2>1, <2>3 DEF keys, ProcessedOnce, Unreported, Waiting, Reported
  <2> QED
    BY <1>7, <2>2, <2>3 DEF DequeueError, DequeueFails
<1>8. ASSUME NEW w \in Workers, EnqueueChild(w) \/ EnqueueInVain(w) PROVE ClaimInv'
  <2>1. /\ ChildEntry(w) \in Entries /\ ChildEntry(w).url = kid[w]
        /\ \/ seen' = seen /\ queue' = queue
           \/ kid[w] \notin seen /\ seen' = seen \cup {kid[w]} /\ queue' = Append(queue, ChildEntry(w))
        /\ channel' = channel /\ cur' = cur /\ Busy' = Busy
        /\ pc'[w] \notin Fresh /\ (\A v \in Workers : v # w => pc'[v] = pc[v])
    BY <1>8, EnqueueSteps DEF Fresh
  <2>2. Reported' = Reported
    BY <2>1 DEF Reported
  <2>3. Unreported'
    BY <2>1, <2>2 DEF Unreported
  <2>4. CASE seen' = seen /\ queue' = queue
    <3>1. Waiting' = Waiting
      BY <2>4 DEF Waiting
    <3> QED
      BY <2>1, <2>2, <2>3, <2>4, <3>1 DEF ProcessedOnce
  <2>5. CASE kid[w] \notin seen /\ seen' = seen \cup {kid[w]} /\ queue' = Append(queue, ChildEntry(w))
    <3>1. Waiting' = Waiting \cup {kid[w]}
      BY <1>1, <2>1, <2>5, AppendWaits
    <3>2. kid[w] \notin Waiting /\ kid[w] \notin Working /\ kid[w] \notin Reported
      BY <1>1, <2>5
    <3>3. \A i, j \in DOMAIN queue' : queue'[i].url = queue'[j].url => i = j
      <4>1. /\ queue'[Len(queue) + 1] = ChildEntry(w)
            /\ \A i \in DOMAIN queue : queue'[i] = queue[i]
            /\ \A i \in DOMAIN queue' : i \in DOMAIN queue \/ i = Len(queue) + 1
        BY <1>1, <2>5, AppendExtends
      <4>2. \A i \in DOMAIN queue : queue[i].url # kid[w]
        BY <3>2 DEF Waiting
      <4>3. \A i, j \in DOMAIN queue : queue[i].url = queue[j].url => i = j
        BY DEF ProcessedOnce
      <4> QED
        BY <2>1, <4>1, <4>2, <4>3
    <3>4. \A v \in Busy : cur[v].url # kid[w]
      BY <3>2 DEF Working
    <3>5. ProcessedOnce'
      <4>1. /\ \A i, j \in DOMAIN channel' : channel'[i].url = channel'[j].url => i = j
            /\ \A v1, v2 \in Busy' : cur'[v1].url = cur'[v2].url => v1 = v2
        BY <2>1 DEF ProcessedOnce
      <4>2. /\ \A v \in Busy' : cur'[v].url \notin Waiting'
            /\ \A x \in Reported' : x \notin Waiting'
        BY <2>1, <2>2, <3>1, <3>2, <3>4 DEF ProcessedOnce
      <4> QED
        BY <3>3, <4>1, <4>2 DEF ProcessedOnce
    <3> QED
      BY <2>2, <2>3, <2>5, <3>5
  <2> QED
    BY <2>1, <2>4, <2>5
<1>9. ASSUME NEW w \in Workers, Send(w) PROVE ClaimInv'
  <2>1. /\ channel' = Append(channel, cur[w]) /\ pc[w] = "send" /\ pc'[w] = "count"
        /\ cur' = cur /\ queue' = queue /\ seen' = seen
        /\ \A v \in Workers : v # w => pc'[v] = pc[v]
    BY <1>9 DEF Send, Goto, frontierVars, TypeOK
  <2>2. Busy' = Busy /\ w \in Busy
    BY <1>9, BusyStays DEF Send, Goto, Busy, BusyStates, States
  <2>3. /\ channel'[Len(channel) + 1] = cur[w]
        /\ \A i \in DOMAIN channel : channel'[i] = channel[i] /\ i \in DOMAIN channel'
        /\ \A i \in DOMAIN channel' : i \in DOMAIN channel \/ i = Len(channel) + 1
        /\ Len(channel) + 1 \in DOMAIN channel'
    BY <1>1, <2>1, AppendExtends
  <2>4. Reported' = Reported \cup {cur[w].url}
    BY <2>3 DEF Reported
  <2>5. Waiting' = Waiting
    BY <2>1 DEF Waiting
  <2>6. cur[w].url \notin Reported /\ cur[w].url \notin Waiting /\ cur[w].url \in seen
    BY <1>1, <2>1, <2>2 DEF Unreported, Fresh, ProcessedOnce, Working
  <2>7. \A i, j \in DOMAIN channel' : channel'[i].url = channel'[j].url => i = j
    <3>1. \A i \in DOMAIN channel : channel[i].url # cur[w].url
      BY <2>6 DEF Reported
    <3>2. \A i, j \in DOMAIN channel : channel[i].url = channel[j].url => i = j
      BY DEF ProcessedOnce
    <3> QED
      BY <2>3, <3>1, <3>2
  <2>8. ProcessedOnce'
    BY <2>1, <2>2, <2>4, <2>5, <2>6, <2>7 DEF ProcessedOnce
  <2>9. Unreported'
    <3> SUFFICES ASSUME NEW v \in Workers, pc'[v] \in Fresh PROVE cur[v].url \notin Reported \cup {cur[w].url}
      BY <2>1, <2>4 DEF Unreported
    <3>1. v # w /\ pc[v] \in Fresh
      BY <2>1 DEF Fresh
    <3>2. v \in Busy
      BY <1>2, <3>1 DEF Busy
    <3> QED
      BY <2>2, <3>1, <3>2 DEF Unreported, ProcessedOnce
  <2> QED
    BY <2>1, <2>4, <2>6, <2>8, <2>9
<1>10. ASSUME NEW w \in Workers, Finish(w) PROVE ClaimInv'
  <2>1. /\ Busy' = Busy \ {w} /\ pc'[w] = "dequeue"
        /\ \A v \in Workers : v # w => cur'[v] = cur[v] /\ pc'[v] = pc[v]
    BY <1>10 DEF Finish, Busy, BusyStates, States, TypeOK
  <2>2. seen' = seen /\ queue' = queue /\ channel' = channel
    BY <1>10 DEF Finish, MarkDone, MarkDoneFails
  <2>3. Waiting' = Waiting /\ Reported' = Reported
    BY <2>2 DEF Waiting, Reported
  <2>4. ProcessedOnce'
    BY <2>1, <2>2, <2>3 DEF ProcessedOnce, Busy
  <2>5. Unreported'
    BY <2>1, <2>3 DEF Unreported, Fresh
  <2> QED
    BY <2>2, <2>3, <2>4, <2>5
<1> QED
  BY <1>3, <1>4, <1>6, <1>7, <1>8, <1>9, <1>10 DEF Next, Step, Quiet, Stopped

(* The claim of every page holds in every state of the pool.               *)
THEOREM ClaimInvariant == Spec => []ClaimInv
<1>1. Init => ClaimInv
  <2> SUFFICES ASSUME Init PROVE ClaimInv
    OBVIOUS
  <2>1. /\ Busy = {} /\ Reported = {} /\ channel = <<>> /\ queue = <<RootEntry>>
        /\ \A w \in Workers : pc[w] = "dequeue"
    BY DEF Init, WorkersInit, Busy, BusyStates, Reported
  <2> QED
    BY <2>1 DEF ClaimInv, ProcessedOnce, Unreported, Fresh
<1>2. TypeOK /\ TypeOK' /\ OpenInv /\ ClaimInv /\ [Next]_vars => ClaimInv'
  BY ClaimInvInductive
<1> QED
  BY <1>1, <1>2, TypeCorrect, LinksInvariant, PTL DEF Spec

(* No page is reported twice, worked on by two workers, or still queued    *)
(* when it is worked on or reported, whatever the workers interleave to    *)
(* and whatever calls of the frontier fail.                                *)
THEOREM EveryPageIsProcessedOnce == Spec => []ProcessedOnce
  BY ClaimInvariant, PTL DEF ClaimInv

-----------------------------------------------------------------------------
(***************************************************************************)
(* Nothing that was seen is lost.                                          *)
(***************************************************************************)

(* While no call has failed, a page that was seen waits, is worked on or   *)
(* was reported, unless it is excused; a worker that skips its page has an *)
(* excuse, and one that has passed Send has reported it.  The reports in T *)
(* have been taken from the channel, by the driving task of a crawl: none, *)
(* where the pool is on its own.                                           *)
SettledInv(T) ==
    /\ faults = 0 => seen \ Excused \subseteq Waiting \cup Working \cup Reported \cup T
    /\ \A w \in Workers : pc[w] = "skip" => cur[w].url \in Excused
    /\ \A w \in Workers : pc[w] \in Passed => cur[w].url \in Reported \cup T

(* No step loses a page: the one that leaves the queue joins the workers,  *)
(* and a worker lets go of a page that is excused or reported.             *)
LEMMA SettledInvInductive ==
    ASSUME NEW T, TypeOK, TypeOK', SettledInv(T), [Next]_vars
    PROVE  SettledInv(T)'
<1> USE DEF Excused
<1>1. /\ queue \in Seq(Entries) /\ channel \in Seq(Entries)
      /\ cur \in [Workers -> Entries] /\ pc \in [Workers -> States]
      /\ faults \in Nat /\ faults' \in Nat
  BY DEF TypeOK, FrontierTypeOK
<1>2. ASSUME UNCHANGED vars PROVE SettledInv(T)'
  BY <1>2 DEF vars, frontierVars, engineVars, SettledInv, Waiting, Working, Reported, Busy
<1>3. ASSUME NEW w \in Workers, Quiet(w) PROVE SettledInv(T)'
  <2>1. /\ seen' = seen /\ queue' = queue /\ channel' = channel /\ cur' = cur /\ Busy' = Busy
        /\ faults <= faults'
        /\ pc'[w] \in Passed => pc[w] \in Passed
        /\ pc'[w] = "skip" => cur[w].url \in Excused
    BY <1>3, QuietSteps
  <2>2. \A v \in Workers : v # w => pc'[v] = pc[v]
    BY <1>3, OthersStay DEF Quiet, Step
  <2>3. Waiting' = Waiting /\ Reported' = Reported /\ Working' = Working
    BY <2>1, WorkingStays DEF Waiting, Reported
  <2>4. faults' = 0 => faults = 0
    BY <1>1, <2>1
  <2> QED
    BY <2>1, <2>2, <2>3, <2>4 DEF SettledInv
<1>4. ASSUME NEW w \in Workers, TakeEntry(w) PROVE SettledInv(T)'
  <2>1. Waiting = Waiting' \cup {Head(queue).url} /\ seen' = seen /\ faults' = faults /\ channel' = channel
    BY <1>1, <1>4, PopFrees DEF TakeEntry, Dequeue, Pop
  <2>2. /\ Busy' = Busy \cup {w} /\ w \notin Busy /\ cur'[w] = Head(queue) /\ pc'[w] = "gate"
        /\ \A v \in Workers : v # w => cur'[v] = cur[v] /\ pc'[v] = pc[v]
    BY <1>4 DEF TakeEntry, Goto, Busy, BusyStates, States, TypeOK
  <2>3. Working' = Working \cup {Head(queue).url}
    BY <2>2 DEF Working, Busy
  <2>4. Reported' = Reported
    BY <2>1 DEF Reported
  <2> QED
    BY <2>1, <2>2, <2>3, <2>4 DEF SettledInv, Passed
<1>5. ASSUME NEW w \in Workers, DequeueError(w) PROVE SettledInv(T)'
  <2>1. pc' = pc /\ cur' = cur /\ channel' = channel
    BY <1>5 DEF DequeueError, engineVars
  <2>2. faults' # 0
    BY <1>1, <1>5 DEF DequeueError, DequeueFails, Fail
  <2> QED
    BY <2>1, <2>2 DEF SettledInv, Reported
<1>6. ASSUME NEW w \in Workers, EnqueueChild(w) \/ EnqueueInVain(w) PROVE SettledInv(T)'
  <2>1. /\ ChildEntry(w) \in Entries /\ ChildEntry(w).url = kid[w]
        /\ \/ seen' = seen /\ queue' = queue
           \/ kid[w] \notin seen /\ seen' = seen \cup {kid[w]} /\ queue' = Append(queue, ChildEntry(w))
        /\ faults <= faults'
        /\ channel' = channel /\ cur' = cur /\ Busy' = Busy
        /\ pc[w] = "enqueue" /\ pc'[w] \in {"children", "rollback"}
        /\ (\A v \in Workers : v # w => pc'[v] = pc[v])
    BY <1>6, EnqueueSteps
  <2>2. Reported' = Reported /\ Working' = Working
    BY <2>1, WorkingStays DEF Reported
  <2>3. faults' = 0 => faults = 0
    BY <1>1, <2>1
  <2>4. /\ \A v \in Workers : pc'[v] = "skip" => cur'[v].url \in Excused
        /\ \A v \in Workers : pc'[v] \in Passed => cur'[v].url \in Reported' \cup T
    BY <2>1, <2>2 DEF SettledInv, Passed
  <2>5. CASE seen' = seen /\ queue' = queue
    BY <2>2, <2>3, <2>4, <2>5 DEF SettledInv, Waiting
  <2>6. CASE seen' = seen \cup {kid[w]} /\ queue' = Append(queue, ChildEntry(w))
    <3>1. Waiting' = Waiting \cup {kid[w]}
      BY <1>1, <2>1, <2>6, AppendWaits
    <3> QED
      BY <2>2, <2>3, <2>4, <2>6, <3>1 DEF SettledInv
  <2> QED
    BY <2>1, <2>5, <2>6
<1>7. ASSUME NEW w \in Workers, Send(w) PROVE SettledInv(T)'
  <2>1. /\ channel' = Append(channel, cur[w]) /\ pc[w] = "send" /\ pc'[w] = "count"
        /\ cur' = cur /\ queue' = queue /\ seen' = seen /\ faults' = faults
        /\ \A v \in Workers : v # w => pc'[v] = pc[v]
    BY <1>7 DEF Send, Goto, frontierVars, TypeOK
  <2>2. Busy' = Busy
    BY <1>7, BusyStays DEF Send, Goto, BusyStates, States
  <2>3. Waiting' = Waiting /\ Working' = Working
    BY <2>1, <2>2 DEF Waiting, Working
  <2>4. /\ channel'[Len(channel) + 1] = cur[w] /\ Len(channel) + 1 \in DOMAIN channel'
        /\ \A i \in DOMAIN channel : channel'[i] = channel[i] /\ i \in DOMAIN channel'
    BY <1>1, <2>1, AppendExtends
  <2>5. Reported \cup {cur[w].url} \subseteq Reported'
    BY <2>4 DEF Reported
  <2> QED
    BY <2>1, <2>3, <2>5 DEF SettledInv
<1>8. ASSUME NEW w \in Workers, Finish(w) PROVE SettledInv(T)'
  <2>1. /\ w \in Busy /\ Busy' = Busy \ {w} /\ pc'[w] = "dequeue"
        /\ pc[w] \in {"skip", "children"}
        /\ \A v \in Workers : v # w => cur'[v] = cur[v] /\ pc'[v] = pc[v]
    BY <1>8 DEF Finish, Busy, BusyStates, States, TypeOK
  <2>2. seen' = seen /\ queue' = queue /\ channel' = channel
    BY <1>8 DEF Finish, MarkDone, MarkDoneFails
  <2>3. faults' = 0 => faults = 0
    BY <1>1, <1>8 DEF Finish, MarkDone, MarkDoneFails, Fail
  <2>4. Waiting' = Waiting /\ Reported' = Reported
    BY <2>2 DEF Waiting, Reported
  <2>5. Working = Working' \cup {cur[w].url}
    BY <2>1 DEF Working, Busy
  <2>6. cur[w].url \in Excused \cup Reported \cup T
    BY <2>1 DEF SettledInv, Passed
  <2> QED
    BY <2>1, <2>2, <2>3, <2>4, <2>5, <2>6 DEF SettledInv, Passed
<1> QED
  BY <1>2, <1>3, <1>4, <1>5, <1>6, <1>7, <1>8 DEF Next, Step, Quiet, Stopped

(* Nothing that was seen is lost, in every state of the pool.              *)
THEOREM SettledInvariant == Spec => []SettledInv({})
<1>1. Init => SettledInv({})
  <2> SUFFICES ASSUME Init PROVE SettledInv({})
    OBVIOUS
  <2>1. seen = {Root} /\ queue = <<RootEntry>> /\ \A w \in Workers : pc[w] = "dequeue"
    BY DEF Init
  <2>2. Waiting = {Root}
    BY <2>1 DEF Waiting, RootEntry
  <2> QED
    BY <2>1, <2>2 DEF SettledInv, Passed
<1>2. TypeOK /\ TypeOK' /\ SettledInv({}) /\ [Next]_vars => SettledInv({})'
  BY SettledInvInductive
<1> QED
  BY <1>1, <1>2, TypeCorrect, PTL DEF Spec

(* A pool of one worker or more that has shut down after no call failed    *)
(* has reported every URL it has seen, unless it is blocked or failed to   *)
(* load.  (A pool of no worker, which -c 0 starts, reports nothing.)       *)
THEOREM EverySeenPageIsReported ==
    Workers # {} => (Spec => []EverySeenReported)
<1> SUFFICES ASSUME Workers # {} PROVE Spec => []EverySeenReported
  OBVIOUS
<1>1. SettledInv({}) /\ NoEarlyExit => EverySeenReported
  <2> SUFFICES ASSUME SettledInv({}), NoEarlyExit, AllExited, faults = 0
               PROVE  seen \ (Blocked \cup Flaky) \subseteq Reported
    BY DEF EverySeenReported
  <2>1. queue = <<>> /\ Busy = {}
    BY DEF NoEarlyExit, AllExited
  <2>2. Waiting = {} /\ Working = {}
    BY <2>1 DEF Waiting, Working
  <2> QED
    BY <2>2 DEF SettledInv, Excused
<1> QED
  BY <1>1, SettledInvariant, NoWorkerLeavesEarly, PTL

-----------------------------------------------------------------------------
(***************************************************************************)
(* Every link is followed.                                                 *)
(***************************************************************************)

(* A worker that has reported an entry has one of its links in hand: among *)
(* the children it has not come to, or as the one it has a slot for.       *)
Holds(w, k) == k \in kids[w] \/ (pc[w] \in {"refuse", "enqueue"} /\ kid[w] = k)
ToFollow(e, k) == \E w \in Workers : pc[w] \in Passed /\ cur[w] = e /\ Holds(w, k)

(* A worker sends its report with all links of the page in hand.  Without  *)
(* a cap and while no call has failed, a link of a reported page above the *)
(* depth limit has been seen or is in the hand of the worker that reported *)
(* the page.  The same holds of the entries in E, which the driving task   *)
(* of a crawl has taken from the channel.                                  *)
FollowInv(E) ==
    /\ \A w \in Workers : pc[w] = "send" => kids[w] = Links[cur[w].url]
    /\ ~Capped => \A w \in Workers : pc[w] # "refuse"
    /\ faults = 0 /\ ~Capped =>
          \A i \in DOMAIN channel : channel[i].depth < MaxDepth =>
             \A k \in Links[channel[i].url] : k \in seen \/ ToFollow(channel[i], k)
    /\ faults = 0 /\ ~Capped =>
          \A e \in E : e.depth < MaxDepth => \A k \in Links[e.url] : k \in seen \/ ToFollow(e, k)

(* No link in hand is dropped before it has been seen.                     *)
Followed ==
    faults' = 0 /\ ~Capped =>
       /\ faults = 0 /\ seen \subseteq seen'
       /\ \A e, k : e.depth < MaxDepth /\ ToFollow(e, k) => k \in seen' \/ ToFollow(e, k)'

(* A worker that drops none of what it has in hand, where the others stay  *)
(* where they are.                                                         *)
LEMMA HandsStay ==
    ASSUME NEW w \in Workers,
           \A v \in Workers : v # w =>
              pc'[v] = pc[v] /\ cur'[v] = cur[v] /\ kids'[v] = kids[v] /\ kid'[v] = kid[v],
           \A k : pc[w] \in Passed /\ cur[w].depth < MaxDepth /\ Holds(w, k) =>
              k \in seen' \/ (pc'[w] \in Passed /\ cur'[w] = cur[w] /\ Holds(w, k)')
    PROVE  \A e, k : e.depth < MaxDepth /\ ToFollow(e, k) => k \in seen' \/ ToFollow(e, k)'
<1> SUFFICES ASSUME NEW e, NEW k, e.depth < MaxDepth, ToFollow(e, k)
             PROVE  k \in seen' \/ ToFollow(e, k)'
  OBVIOUS
<1>1. PICK v \in Workers : pc[v] \in Passed /\ cur[v] = e /\ Holds(v, k)
  BY DEF ToFollow
<1>2. CASE v = w
  BY <1>1, <1>2 DEF ToFollow
<1>3. CASE v # w
  <2>1. pc'[v] \in Passed /\ cur'[v] = e /\ Holds(v, k)'
    BY <1>1, <1>3 DEF Holds
  <2> QED
    BY <2>1 DEF ToFollow
<1> QED
  BY <1>2, <1>3

(* No step drops a link: a child is taken from the list into the hand and  *)
(* from there to the frontier, and a worker ends its page with an empty    *)
(* list or at the depth limit.                                             *)
LEMMA FollowInvInductive ==
    ASSUME NEW E, TypeOK, TypeOK', FollowInv(E), [Next]_vars
    PROVE  FollowInv(E)'
<1>1. /\ channel \in Seq(Entries) /\ cur \in [Workers -> Entries] /\ pc \in [Workers -> States]
      /\ kids \in [Workers -> SUBSET Urls] /\ kid \in [Workers -> Urls]
      /\ faults \in Nat /\ faults' \in Nat
  BY DEF TypeOK, FrontierTypeOK
<1>2. ASSUME UNCHANGED vars PROVE FollowInv(E)'
  BY <1>2 DEF vars, frontierVars, engineVars, FollowInv, ToFollow, Holds
<1>3. ASSUME NEW w \in Workers, Step(w),
             \A k : pc[w] \in Passed /\ cur[w].depth < MaxDepth /\ Holds(w, k) =>
                k \in seen' \/ (pc'[w] \in Passed /\ cur'[w] = cur[w] /\ Holds(w, k)')
      PROVE  \A e, k : e.depth < MaxDepth /\ ToFollow(e, k) => k \in seen' \/ ToFollow(e, k)'
  <2>1. \A v \in Workers : v # w =>
           pc'[v] = pc[v] /\ cur'[v] = cur[v] /\ kids'[v] = kids[v] /\ kid'[v] = kid[v]
    BY <1>3, OthersStay
  <2> QED
    BY <1>3, <2>1, HandsStay
<1>4. ASSUME NEW w \in Workers, Step(w), channel' = channel, Followed,
             pc'[w] = "send" => kids'[w] = Links[cur'[w].url],
             ~Capped => pc'[w] # "refuse"
      PROVE  FollowInv(E)'
  <2>1. \A v \in Workers : v # w => pc'[v] = pc[v] /\ cur'[v] = cur[v] /\ kids'[v] = kids[v]
    BY <1>4, OthersStay
  <2>2. /\ \A v \in Workers : pc'[v] = "send" => kids'[v] = Links[cur'[v].url]
        /\ ~Capped => \A v \in Workers : pc'[v] # "refuse"
    BY <1>4, <2>1 DEF FollowInv
  <2>3. ASSUME faults' = 0, ~Capped, NEW i \in DOMAIN channel', channel'[i].depth < MaxDepth,
               NEW k \in Links[channel'[i].url]
        PROVE  (k \in seen \/ ToFollow(channel[i], k))'
    <3>1. PICK e \in Entries : e = channel[i] /\ e = channel'[i]
      BY <1>1, <1>4, <2>3
    <3>2. e.depth < MaxDepth /\ (k \in seen \/ ToFollow(e, k))
      BY <1>4, <2>3, <3>1 DEF FollowInv, Followed
    <3>3. k \in seen' \/ ToFollow(e, k)'
      BY <1>4, <2>3, <3>2 DEF Followed
    <3> QED
      BY <3>1, <3>3 DEF ToFollow
  <2>4. ASSUME faults' = 0, ~Capped, NEW e \in E, e.depth < MaxDepth, NEW k \in Links[e.url]
        PROVE  (k \in seen \/ ToFollow(e, k))'
    <3>1. k \in seen \/ ToFollow(e, k)
      BY <1>4, <2>4 DEF FollowInv, Followed
    <3> QED
      BY <1>4, <2>4, <3>1 DEF Followed
  <2> QED
    BY <2>2, <2>3, <2>4 DEF FollowInv
<1>5. ASSUME NEW w \in Workers,
             \/ FindNothing(w) \/ Exit(w) \/ GoRound(w) \/ Admit(w) \/ Reject(w)
             \/ Fetch(w) \/ AuditPanics(w) \/ Count(w) \/ EmitPageDone(w) \/ Rollback(w)
      PROVE  FollowInv(E)'
  <2>1. Step(w) /\ Quiet(w)
    BY <1>5 DEF Step, Quiet
  <2>2. /\ seen' = seen /\ channel' = channel /\ cur' = cur /\ faults <= faults'
    BY <2>1, QuietSteps
  <2>3. /\ kids' = kids /\ kid' = kid
        /\ pc[w] \notin {"refuse", "enqueue"}
        /\ pc[w] \in Passed => pc'[w] \in Passed
        /\ pc'[w] # "send" /\ pc'[w] # "refuse"
    <3> USE <1>1 DEF Goto, Passed
    <3>1. CASE FindNothing(w) \/ Exit(w) \/ GoRound(w)
      BY <3>1 DEF FindNothing, Exit, GoRound
    <3>2. CASE Admit(w) \/ Reject(w) \/ Fetch(w) \/ AuditPanics(w)
      BY <3>2 DEF Admit, Reject, Fetch, AuditPanics
    <3>3. CASE Count(w) \/ EmitPageDone(w) \/ Rollback(w)
      BY <3>3 DEF Count, EmitPageDone, Rollback
    <3> QED
      BY <1>5, <3>1, <3>2, <3>3
  <2>4. \A k : pc[w] \in Passed /\ Holds(w, k) => pc'[w] \in Passed /\ cur'[w] = cur[w] /\ Holds(w, k)'
    BY <2>2, <2>3 DEF Holds
  <2>5. Followed
    BY <1>1, <1>3, <2>1, <2>2, <2>4 DEF Followed
  <2> QED
    BY <1>4, <2>1, <2>2, <2>3, <2>5
<1>6. ASSUME NEW w \in Workers, Audit(w) PROVE FollowInv(E)'
  <2>1. /\ seen' = seen /\ channel' = channel /\ faults' = faults /\ cur' = cur
        /\ pc[w] = "audit" /\ pc'[w] = "send" /\ kids'[w] = Links[cur[w].url]
    BY <1>1, <1>6 DEF Audit, Goto, frontierVars
  <2>2. pc[w] \notin Passed /\ Step(w)
    BY <1>6, <2>1 DEF Passed, Step
  <2>3. Followed
    BY <1>3, <2>1, <2>2 DEF Followed
  <2> QED
    BY <1>4, <2>1, <2>2, <2>3
<1>7. ASSUME NEW w \in Workers, Reserve(w) PROVE FollowInv(E)'
  <2>1. PICK c \in kids[w] : kids' = [kids EXCEPT ![w] = @ \ {c}] /\ kid' = [kid EXCEPT ![w] = c]
    BY <1>7 DEF Reserve
  <2>2. /\ seen' = seen /\ channel' = channel /\ faults' = faults /\ cur' = cur
        /\ pc[w] = "children" /\ pc'[w] \in {"refuse", "enqueue"}
    BY <1>1, <1>7 DEF Reserve, frontierVars
  <2>3. ~Capped => pc'[w] = "enqueue"
    BY <1>1, <1>7 DEF Reserve
  <2>4. kids'[w] = kids[w] \ {c} /\ kid'[w] = c
    BY <1>1, <2>1
  <2>5. \A k : Holds(w, k) => pc'[w] \in Passed /\ cur'[w] = cur[w] /\ Holds(w, k)'
    BY <2>2, <2>4 DEF Holds, Passed
  <2>6. Step(w)
    BY <1>7 DEF Step
  <2>7. Followed
    BY <1>3, <2>2, <2>5, <2>6 DEF Followed
  <2> QED
    BY <1>4, <2>2, <2>3, <2>6, <2>7
<1>8. ASSUME NEW w \in Workers, Refuse(w) PROVE FollowInv(E)'
  <2>1. pc[w] = "refuse" /\ pc'[w] = "children" /\ channel' = channel
    BY <1>1, <1>8 DEF Refuse, Goto
  <2>2. Capped /\ Step(w)
    BY <1>8, <2>1 DEF FollowInv, Step
  <2>3. Followed
    BY <2>2 DEF Followed
  <2> QED
    BY <1>4, <2>1, <2>2, <2>3
<1>9. ASSUME NEW w \in Workers, EnqueueChild(w) \/ EnqueueInVain(w) PROVE FollowInv(E)'
  <2>1. /\ \/ seen' = seen /\ (kid[w] \in seen \/ faults' = faults + 1)
           \/ seen' = seen \cup {kid[w]}
        /\ faults <= faults' /\ channel' = channel /\ cur' = cur /\ kids' = kids
        /\ pc[w] = "enqueue" /\ pc'[w] \in {"children", "rollback"}
    BY <1>9, EnqueueSteps
  <2>2. Step(w)
    BY <1>9 DEF Step
  <2>3. ASSUME faults' = 0 PROVE faults = 0 /\ seen \subseteq seen' /\ kid[w] \in seen'
    BY <1>1, <2>1, <2>3
  <2>4. ASSUME faults' = 0
        PROVE  \A k : Holds(w, k) => k \in seen' \/ (pc'[w] \in Passed /\ cur'[w] = cur[w] /\ Holds(w, k)')
    BY <2>1, <2>3, <2>4 DEF Holds, Passed
  <2>5. Followed
    BY <1>3, <2>2, <2>3, <2>4 DEF Followed
  <2> QED
    BY <1>4, <2>1, <2>2, <2>5
<1>10. ASSUME NEW w \in Workers, TakeEntry(w) PROVE FollowInv(E)'
  <2>1. /\ seen' = seen /\ channel' = channel /\ faults' = faults
        /\ pc[w] = "dequeue" /\ pc'[w] = "gate"
    BY <1>1, <1>10 DEF TakeEntry, Dequeue, Pop, Goto
  <2>2. pc[w] \notin Passed /\ Step(w)
    BY <1>10, <2>1 DEF Passed, Step
  <2>3. Followed
    BY <1>3, <2>1, <2>2 DEF Followed
  <2> QED
    BY <1>4, <2>1, <2>2, <2>3
<1>11. ASSUME NEW w \in Workers, DequeueError(w) PROVE FollowInv(E)'
  <2>1. pc' = pc /\ cur' = cur /\ kids' = kids
    BY <1>11 DEF DequeueError, engineVars
  <2>2. faults' # 0
    BY <1>1, <1>11 DEF DequeueError, DequeueFails, Fail
  <2> QED
    BY <2>1, <2>2 DEF FollowInv
<1>12. ASSUME NEW w \in Workers, Send(w) PROVE FollowInv(E)'
  <2>1. /\ channel' = Append(channel, cur[w]) /\ pc[w] = "send" /\ pc'[w] = "count"
        /\ seen' = seen /\ faults' = faults /\ cur' = cur /\ kids' = kids
    BY <1>1, <1>12 DEF Send, Goto, frontierVars
  <2>2. Step(w) /\ pc[w] \notin Passed /\ pc'[w] \in Passed
    BY <1>12, <2>1 DEF Step, Passed
  <2>3. Followed
    BY <1>3, <2>1, <2>2 DEF Followed
  <2>4. \A v \in Workers : v # w => pc'[v] = pc[v]
    BY <2>2, OthersStay
  <2>5. /\ \A v \in Workers : pc'[v] = "send" => kids'[v] = Links[cur'[v].url]
        /\ ~Capped => \A v \in Workers : pc'[v] # "refuse"
    BY <2>1, <2>4 DEF FollowInv
  <2>6. /\ channel'[Len(channel) + 1] = cur[w]
        /\ \A i \in DOMAIN channel : channel'[i] = channel[i]
        /\ \A i \in DOMAIN channel' : i \in DOMAIN channel \/ i = Len(channel) + 1
    BY <1>1, <2>1, AppendExtends
  <2>7. ASSUME faults' = 0, ~Capped, NEW i \in DOMAIN channel', channel'[i].depth < MaxDepth,
               NEW k \in Links[channel'[i].url]
        PROVE  (k \in seen \/ ToFollow(channel[i], k))'
    <3>1. CASE i = Len(channel) + 1
      <4>1. kids[w] = Links[cur[w].url]
        BY <2>1 DEF FollowInv
      <4>2. channel'[i] = cur'[w] /\ k \in kids'[w]
        BY <2>1, <2>6, <2>7, <3>1, <4>1
      <4> QED
        BY <2>2, <4>2 DEF ToFollow, Holds
    <3>2. CASE i \in DOMAIN channel
      <4>1. PICK e \in Entries : e = channel[i] /\ e = channel'[i]
        BY <1>1, <2>6, <3>2
      <4>2. e.depth < MaxDepth /\ (k \in seen \/ ToFollow(e, k))
        BY <2>1, <2>7, <3>2, <4>1 DEF FollowInv
      <4>3. k \in seen' \/ ToFollow(e, k)'
        BY <2>3, <2>7, <4>2 DEF Followed
      <4> QED
        BY <4>1, <4>3 DEF ToFollow
    <3> QED
      BY <2>6, <2>7, <3>1, <3>2
  <2>8. ASSUME faults' = 0, ~Capped, NEW e \in E, e.depth < MaxDepth, NEW k \in Links[e.url]
        PROVE  (k \in seen \/ ToFollow(e, k))'
    <3>1. k \in seen \/ ToFollow(e, k)
      BY <2>1, <2>8 DEF FollowInv
    <3> QED
      BY <2>3, <2>8, <3>1 DEF Followed
  <2> QED
    BY <2>5, <2>7, <2>8 DEF FollowInv
<1>13. ASSUME NEW w \in Workers, Finish(w) PROVE FollowInv(E)'
  <2>1. /\ seen' = seen /\ channel' = channel /\ pc'[w] = "dequeue"
        /\ faults' = 0 => faults = 0
        /\ pc[w] = "skip" \/ (pc[w] = "children" /\ ~ChildrenLeft(w))
    BY <1>1, <1>13 DEF Finish, MarkDone, MarkDoneFails, Fail
  <2>2. Step(w)
    BY <1>13 DEF Step
  <2>3. \A k : ~(pc[w] \in Passed /\ cur[w].depth < MaxDepth /\ Holds(w, k))
    BY <2>1 DEF Passed, Holds, ChildrenLeft
  <2>4. Followed
    BY <1>3, <2>1, <2>2, <2>3 DEF Followed
  <2> QED
    BY <1>4, <2>1, <2>2, <2>4
<1> QED
  BY <1>2, <1>5, <1>6, <1>7, <1>8, <1>9, <1>10, <1>11, <1>12, <1>13 DEF Next, Step, Stopped

(* Without a cap, a pool that has shut down after no call failed has       *)
(* followed every link of every page it reported above the depth limit.    *)
THEOREM EveryLinkIsFollowed == Spec => []LinksFollowed
<1>1. Init => FollowInv({})
  BY DEF Init, WorkersInit, FollowInv
<1>2. TypeOK /\ TypeOK' /\ FollowInv({}) /\ [Next]_vars => FollowInv({})'
  BY FollowInvInductive
<1>3. FollowInv({}) => LinksFollowed
  <2> SUFFICES ASSUME FollowInv({}), AllExited, faults = 0, ~Capped,
                      NEW i \in DOMAIN channel, channel[i].depth < MaxDepth
               PROVE  Links[channel[i].url] \subseteq seen
    BY DEF LinksFollowed
  <2>1. \A w \in Workers : pc[w] \notin Passed
    BY DEF AllExited, Passed
  <2> QED
    BY <2>1 DEF FollowInv, ToFollow
<1> QED
  BY <1>1, <1>2, <1>3, TypeCorrect, PTL DEF Spec

-----------------------------------------------------------------------------
(***************************************************************************)
(* Depths.                                                                 *)
(***************************************************************************)

(* A walk of no links leads to the root, and a link of a page that may be  *)
(* fetched makes a walk longer by one.                                     *)
LEMMA WalkStarts == Walk(Root, 0)
<1> DEFINE p == [i \in 0 .. 0 |-> Root]
<1>1. p \in [0 .. 0 -> Urls] /\ p[0] = Root
  BY EngineAssumption
<1>2. \A i \in 1 .. 0 : FALSE
  OBVIOUS
<1> QED
  BY <1>1, <1>2 DEF Walk

LEMMA WalkExtends ==
    ASSUME NEW u \in Urls, NEW d \in Nat, Walk(u, d), u \notin Blocked, NEW v \in Links[u]
    PROVE  Walk(v, d + 1)
<1>1. PICK p \in [0 .. d -> Urls] :
         /\ p[0] = Root /\ p[d] = u
         /\ \A i \in 1 .. d : p[i - 1] \notin Blocked /\ p[i] \in Links[p[i - 1]]
  BY DEF Walk
<1> DEFINE q == [i \in 0 .. d + 1 |-> IF i = d + 1 THEN v ELSE p[i]]
<1>2. v \in Urls
  BY EngineAssumption
<1>3. \A i \in 0 .. d + 1 : i # d + 1 => i \in 0 .. d
  OBVIOUS
<1>4. q \in [0 .. d + 1 -> Urls]
  BY <1>1, <1>2, <1>3
<1>5. q[0] = Root /\ q[d + 1] = v
  BY <1>1
<1>6. ASSUME NEW i \in 1 .. d + 1 PROVE q[i - 1] \notin Blocked /\ q[i] \in Links[q[i - 1]]
  <2>1. CASE i = d + 1
    <3>1. q[i] = v /\ q[i - 1] = u
      BY <1>1, <2>1
    <3> QED
      BY <3>1
  <2>2. CASE i # d + 1
    <3>1. i \in 1 .. d /\ i \in 0 .. d + 1 /\ i - 1 \in 0 .. d + 1 /\ i - 1 # d + 1
      BY <2>2
    <3>2. q[i] = p[i] /\ q[i - 1] = p[i - 1]
      BY <2>2, <3>1
    <3> QED
      BY <1>1, <3>1, <3>2
  <2> QED
    BY <2>1, <2>2
<1> QED
  BY <1>4, <1>5, <1>6 DEF Walk

(* An entry with the depth of a walk to its page, within the limit.        *)
Sound(e) == e.depth <= MaxDepth /\ Walk(e.url, e.depth)

(* Every entry is sound wherever it is, a worker that has a slot for a     *)
(* child is above the limit, and one that has passed the gate works on a   *)
(* page that may be fetched.                                               *)
DepthInv ==
    /\ DepthSound
    /\ \A w \in Busy : Sound(cur[w])
    /\ \A w \in Workers : pc[w] \in {"refuse", "enqueue", "rollback"} => cur[w].depth < MaxDepth
    /\ \A w \in Busy : pc[w] \notin {"gate", "skip"} => cur[w].url \notin Blocked

(* Depths stay sound: the only new entry is a link of a page a worker was  *)
(* let through to, one deeper than it.                                     *)
LEMMA DepthInvInductive ==
    ASSUME TypeOK, LinksInv, DepthInv, [Next]_vars
    PROVE  DepthInv'
<1>1. /\ queue \in Seq(Entries) /\ channel \in Seq(Entries)
      /\ cur \in [Workers -> Entries] /\ pc \in [Workers -> States]
  BY DEF TypeOK, FrontierTypeOK
<1>2. /\ \A i \in DOMAIN queue : Sound(queue[i])
      /\ \A i \in DOMAIN channel : Sound(channel[i])
  BY DEF DepthInv, DepthSound, Sound
<1>3. ASSUME UNCHANGED vars PROVE DepthInv'
  BY <1>3 DEF vars, frontierVars, engineVars, DepthInv, DepthSound, Busy, Sound
<1>4. ASSUME NEW w \in Workers, Quiet(w) PROVE DepthInv'
  <2>1. /\ queue' = queue /\ channel' = channel /\ cur' = cur /\ Busy' = Busy
    BY <1>4, QuietSteps
  <2>2. \A v \in Workers : v # w => pc'[v] = pc[v]
    BY <1>4, OthersStay DEF Quiet, Step
  <2>3. /\ pc'[w] \in {"refuse", "enqueue", "rollback"} => cur[w].depth < MaxDepth
        /\ pc'[w] \notin {"gate", "skip"} => pc[w] \notin {"gate", "skip"} \/ cur[w].url \notin Blocked
    <3> USE <1>1 DEF Goto
    <3>1. CASE FindNothing(w) \/ Exit(w) \/ GoRound(w)
      BY <3>1 DEF FindNothing, Exit, GoRound
    <3>2. CASE Admit(w) \/ Reject(w)
      BY <3>2 DEF Admit, Reject
    <3>3. CASE Fetch(w) \/ Audit(w) \/ AuditPanics(w)
      BY <3>3 DEF Fetch, Audit, AuditPanics
    <3>4. CASE Count(w) \/ EmitPageDone(w) \/ Refuse(w) \/ Rollback(w)
      BY <3>4 DEF Count, EmitPageDone, Refuse, Rollback
    <3>5. CASE Reserve(w)
      BY <3>5 DEF Reserve, ChildrenLeft
    <3> QED
      BY <1>4, <3>1, <3>2, <3>3, <3>4, <3>5 DEF Quiet
  <2>4. DepthSound' /\ \A v \in Busy' : Sound(cur'[v])
    BY <2>1 DEF DepthInv, DepthSound
  <2>5. \A v \in Workers : pc'[v] \in {"refuse", "enqueue", "rollback"} => cur'[v].depth < MaxDepth
    BY <2>1, <2>2, <2>3 DEF DepthInv
  <2>6. \A v \in Busy' : pc'[v] \notin {"gate", "skip"} => cur'[v].url \notin Blocked
    BY <2>1, <2>2, <2>3 DEF DepthInv, Busy
  <2> QED
    BY <2>4, <2>5, <2>6 DEF DepthInv
<1>5. ASSUME Pop, channel' = channel PROVE DepthSound' /\ Sound(Head(queue))
  <2>1. /\ Head(queue) = queue[1] /\ 1 \in DOMAIN queue
        /\ \A i \in DOMAIN queue' : i + 1 \in DOMAIN queue /\ queue'[i] = queue[i + 1]
    BY <1>1, <1>5, PopShifts
  <2> QED
    BY <1>2, <1>5, <2>1 DEF DepthSound, Sound
<1>6. ASSUME NEW w \in Workers, TakeEntry(w) PROVE DepthInv'
  <2>1. Pop /\ channel' = channel
    BY <1>6 DEF TakeEntry, Dequeue
  <2>2. /\ Busy' = Busy \cup {w} /\ cur'[w] = Head(queue) /\ pc'[w] = "gate"
        /\ \A v \in Workers : v # w => cur'[v] = cur[v] /\ pc'[v] = pc[v]
    BY <1>6 DEF TakeEntry, Goto, Busy, BusyStates, States, TypeOK
  <2> QED
    BY <1>5, <2>1, <2>2 DEF DepthInv, Busy
<1>7. ASSUME NEW w \in Workers, DequeueError(w) PROVE DepthInv'
  <2>1. pc' = pc /\ cur' = cur /\ channel' = channel /\ Busy' = Busy
    BY <1>7 DEF DequeueError, engineVars, Busy
  <2>2. CASE Pop
    BY <1>5, <2>1, <2>2 DEF DepthInv
  <2>3. CASE UNCHANGED keys
    BY <2>1, <2>3 DEF keys, DepthInv, DepthSound
  <2> QED
    BY <1>7, <2>2, <2>3 DEF DequeueError, DequeueFails
<1>8. ASSUME NEW w \in Workers, EnqueueChild(w) \/ EnqueueInVain(w) PROVE DepthInv'
  <2>1. /\ ChildEntry(w).url = kid[w] /\ ChildEntry(w).depth = cur[w].depth + 1
        /\ queue' = queue \/ queue' = Append(queue, ChildEntry(w))
        /\ channel' = channel /\ cur' = cur /\ Busy' = Busy
        /\ pc[w] = "enqueue" /\ pc'[w] \in {"children", "rollback"}
        /\ (\A v \in Workers : v # w => pc'[v] = pc[v])
    BY <1>8, EnqueueSteps
  <2>2. w \in Busy /\ kid[w] \in Links[cur[w].url]
    BY <2>1 DEF Busy, BusyStates, States, LinksInv
  <2>3. cur[w].depth < MaxDepth /\ Sound(cur[w]) /\ cur[w].url \notin Blocked
    BY <2>1, <2>2 DEF DepthInv
  <2>4. cur[w].url \in Urls /\ cur[w].depth \in Nat
    BY <1>1 DEF Entries
  <2>5. Sound(ChildEntry(w))
    BY <2>1, <2>2, <2>3, <2>4, WalkExtends, EngineAssumption DEF Sound
  <2>6. DepthSound'
    <3>1. CASE queue' = queue
      BY <2>1, <3>1 DEF DepthInv, DepthSound
    <3>2. CASE queue' = Append(queue, ChildEntry(w))
      <4>1. /\ queue'[Len(queue) + 1] = ChildEntry(w)
            /\ \A i \in DOMAIN queue : queue'[i] = queue[i]
            /\ \A i \in DOMAIN queue' : i \in DOMAIN queue \/ i = Len(queue) + 1
        BY <1>1, <3>2, AppendExtends
      <4> QED
        BY <1>2, <2>1, <2>5, <4>1 DEF DepthSound, Sound
    <3> QED
      BY <2>1, <3>1, <3>2
  <2>7. \A v \in Busy' : Sound(cur'[v])
    BY <2>1 DEF DepthInv
  <2>8. \A v \in Workers : pc'[v] \in {"refuse", "enqueue", "rollback"} => cur'[v].depth < MaxDepth
    BY <2>1, <2>3 DEF DepthInv
  <2>9. \A v \in Busy' : pc'[v] \notin {"gate", "skip"} => cur'[v].url \notin Blocked
    BY <2>1, <2>3 DEF DepthInv, Busy
  <2> QED
    BY <2>6, <2>7, <2>8, <2>9 DEF DepthInv
<1>9. ASSUME NEW w \in Workers, Send(w) PROVE DepthInv'
  <2>1. /\ channel' = Append(channel, cur[w]) /\ queue' = queue /\ cur' = cur
        /\ pc[w] = "send" /\ pc'[w] = "count"
        /\ \A v \in Workers : v # w => pc'[v] = pc[v]
    BY <1>9 DEF Send, Goto, frontierVars, TypeOK
  <2>2. Busy' = Busy /\ w \in Busy
    BY <1>9, BusyStays DEF Send, Goto, Busy, BusyStates, States
  <2>3. /\ channel'[Len(channel) + 1] = cur[w]
        /\ \A i \in DOMAIN channel : channel'[i] = channel[i]
        /\ \A i \in DOMAIN channel' : i \in DOMAIN channel \/ i = Len(channel) + 1
    BY <1>1, <2>1, AppendExtends
  <2>4. Sound(cur[w])
    BY <2>2 DEF DepthInv
  <2>5. DepthSound'
    BY <1>2, <2>1, <2>3, <2>4 DEF DepthSound, Sound
  <2>6. \A v \in Busy' : Sound(cur'[v])
    BY <2>1, <2>2 DEF DepthInv
  <2>7. \A v \in Workers : pc'[v] \in {"refuse", "enqueue", "rollback"} => cur'[v].depth < MaxDepth
    BY <2>1 DEF DepthInv
  <2>8. \A v \in Busy' : pc'[v] \notin {"gate", "skip"} => cur'[v].url \notin Blocked
    BY <2>1, <2>2 DEF DepthInv, Busy
  <2> QED
    BY <2>5, <2>6, <2>7, <2>8 DEF DepthInv
<1>10. ASSUME NEW w \in Workers, Finish(w) PROVE DepthInv'
  <2>1. /\ Busy' = Busy \ {w} /\ pc'[w] = "dequeue"
        /\ \A v \in Workers : v # w => cur'[v] = cur[v] /\ pc'[v] = pc[v]
    BY <1>10 DEF Finish, Busy, BusyStates, States, TypeOK
  <2>2. queue' = queue /\ channel' = channel
    BY <1>10 DEF Finish, MarkDone, MarkDoneFails
  <2>3. DepthSound'
    BY <2>2 DEF DepthInv, DepthSound
  <2> QED
    BY <2>1, <2>3 DEF DepthInv, Busy
<1> QED
  BY <1>3, <1>4, <1>6, <1>7, <1>8, <1>9, <1>10 DEF Next, Step, Quiet, Stopped

(* A page is queued and reported only at the depth of a walk that leads to *)
(* it through pages that may be fetched, and within the depth limit.       *)
THEOREM EveryDepthIsSound == Spec => []DepthSound
<1>1. Init => DepthInv
  <2> SUFFICES ASSUME Init PROVE DepthInv
    OBVIOUS
  <2>1. /\ queue = <<RootEntry>> /\ channel = <<>> /\ Busy = {}
        /\ \A w \in Workers : pc[w] = "dequeue"
    BY DEF Init, WorkersInit, Busy, BusyStates
  <2>2. Sound(RootEntry)
    BY WalkStarts, EngineAssumption DEF Sound, RootEntry
  <2> QED
    BY <2>1, <2>2 DEF DepthInv, DepthSound, Sound
<1>2. TypeOK /\ LinksInv /\ DepthInv /\ [Next]_vars => DepthInv'
  BY DepthInvInductive
<1>3. DepthInv => DepthSound
  BY DEF DepthInv
<1> QED
  BY <1>1, <1>2, <1>3, TypeCorrect, LinksInvariant, PTL DEF Spec

-----------------------------------------------------------------------------
(***************************************************************************)
(* The numbers of the PageDone events.                                     *)
(***************************************************************************)

(* The workers between the send and the counter, and between the counter   *)
(* and the event.                                                          *)
Counting == {w \in Workers : pc[w] = "count"}
Emitting == {w \in Workers : pc[w] = "emit"}

(* The reports sent are the ones counted and the ones about to be, the     *)
(* ones counted are the ones announced and the ones about to be, and the   *)
(* numbers about to be announced are different from each other and new.    *)
EventInv ==
    /\ \A i, j \in DOMAIN events : events[i] = events[j] => i = j
    /\ \A i \in DOMAIN events : events[i] \in 1 .. pagesDone
    /\ \A i \in DOMAIN events : events[i] < i + Cardinality(Workers)
    /\ Len(channel) = pagesDone + Cardinality(Counting)
    /\ pagesDone = Len(events) + Cardinality(Emitting)
    /\ \A w \in Emitting : nth[w] \in 1 .. pagesDone /\ \A i \in DOMAIN events : events[i] # nth[w]
    /\ \A v, w \in Emitting : nth[v] = nth[w] => v = w

(* How many there are of each is a number, at most that of the workers.    *)
LEMMA AnnouncersAreFew ==
    /\ IsFiniteSet(Counting) /\ Cardinality(Counting) \in Nat
    /\ IsFiniteSet(Emitting) /\ Cardinality(Emitting) \in Nat
    /\ Cardinality(Workers) \in Nat /\ Cardinality(Emitting) <= Cardinality(Workers)
<1>1. Counting \subseteq Workers /\ Emitting \subseteq Workers /\ IsFiniteSet(Workers)
  BY EngineAssumption DEF Counting, Emitting
<1> QED
  BY <1>1, FS_Subset, FS_CardinalityType

(* How a move of one worker changes the two sets: by that worker alone.    *)
LEMMA AnnouncersMove ==
    ASSUME TypeOK, NEW w \in Workers, NEW to \in States, pc' = [pc EXCEPT ![w] = to]
    PROVE  /\ pc[w] # "count" /\ to # "count" => Counting' = Counting
           /\ pc[w] # "emit" /\ to # "emit" => Emitting' = Emitting
           /\ pc[w] # "count" /\ to = "count" => Cardinality(Counting') = Cardinality(Counting) + 1
           /\ pc[w] = "count" /\ to # "count" => Cardinality(Counting') = Cardinality(Counting) - 1
           /\ pc[w] # "emit" /\ to = "emit" =>
               Emitting' = Emitting \cup {w} /\ Cardinality(Emitting') = Cardinality(Emitting) + 1
           /\ pc[w] = "emit" /\ to # "emit" =>
               Emitting' = Emitting \ {w} /\ Cardinality(Emitting') = Cardinality(Emitting) - 1
<1>1. pc[w] # "count" /\ to # "count" => Counting' = Counting
  BY DEF Counting, TypeOK
<1>2. pc[w] # "emit" /\ to # "emit" => Emitting' = Emitting
  BY DEF Emitting, TypeOK
<1>3. ASSUME pc[w] # "count", to = "count" PROVE Cardinality(Counting') = Cardinality(Counting) + 1
  <2>1. Counting' = Counting \cup {w} /\ w \notin Counting
    BY <1>3 DEF Counting, TypeOK
  <2> QED
    BY <2>1, AnnouncersAreFew, FS_AddElement
<1>4. ASSUME pc[w] = "count", to # "count" PROVE Cardinality(Counting') = Cardinality(Counting) - 1
  <2>1. Counting' = Counting \ {w} /\ w \in Counting
    BY <1>4 DEF Counting, TypeOK
  <2> QED
    BY <2>1, AnnouncersAreFew, FS_RemoveElement
<1>5. ASSUME pc[w] # "emit", to = "emit"
      PROVE  Emitting' = Emitting \cup {w} /\ Cardinality(Emitting') = Cardinality(Emitting) + 1
  <2>1. Emitting' = Emitting \cup {w} /\ w \notin Emitting
    BY <1>5 DEF Emitting, TypeOK
  <2> QED
    BY <2>1, AnnouncersAreFew, FS_AddElement
<1>6. ASSUME pc[w] = "emit", to # "emit"
      PROVE  Emitting' = Emitting \ {w} /\ Cardinality(Emitting') = Cardinality(Emitting) - 1
  <2>1. Emitting' = Emitting \ {w} /\ w \in Emitting
    BY <1>6 DEF Emitting, TypeOK
  <2> QED
    BY <2>1, AnnouncersAreFew, FS_RemoveElement
<1> QED
  BY <1>1, <1>2, <1>3, <1>4, <1>5, <1>6

(* The steps by which no worker comes to or leaves the counter or the      *)
(* event.                                                                  *)
LEMMA AnnouncersStay ==
    ASSUME TypeOK, NEW w \in Workers,
           \/ TakeEntry(w) \/ FindNothing(w) \/ DequeueError(w) \/ Exit(w) \/ GoRound(w)
           \/ Admit(w) \/ Reject(w) \/ Fetch(w) \/ Audit(w) \/ AuditPanics(w)
           \/ Reserve(w) \/ Refuse(w) \/ EnqueueChild(w) \/ EnqueueInVain(w)
           \/ Rollback(w) \/ Finish(w)
    PROVE  /\ channel' = channel /\ events' = events /\ pagesDone' = pagesDone /\ nth' = nth
           /\ Counting' = Counting /\ Emitting' = Emitting
<1> DEFINE Far == States \ {"count", "emit"}
<1>1. channel' = channel /\ events' = events /\ pagesDone' = pagesDone /\ nth' = nth
  BY DEF TakeEntry, FindNothing, DequeueError, Exit, GoRound, Admit, Reject, Fetch, Audit,
     AuditPanics, Reserve, Refuse, EnqueueChild, EnqueueInVain, Rollback, Finish, engineVars
<1>2. pc' = pc \/ \E to \in Far : pc[w] \in Far /\ pc' = [pc EXCEPT ![w] = to]
  <2> USE DEF Goto, States, TypeOK
  <2>1. CASE TakeEntry(w) \/ FindNothing(w) \/ DequeueError(w) \/ Exit(w) \/ GoRound(w)
    BY <2>1 DEF TakeEntry, FindNothing, DequeueError, Exit, GoRound, engineVars
  <2>2. CASE Admit(w) \/ Reject(w) \/ Fetch(w)
    BY <2>2 DEF Admit, Reject, Fetch
  <2>3. CASE Audit(w) \/ AuditPanics(w) \/ Reserve(w)
    BY <2>3 DEF Audit, AuditPanics, Reserve
  <2>4. CASE Refuse(w) \/ EnqueueChild(w) \/ EnqueueInVain(w)
    BY <2>4 DEF Refuse, EnqueueChild, EnqueueInVain
  <2>5. CASE Rollback(w) \/ Finish(w)
    BY <2>5 DEF Rollback, Finish
  <2> QED
    BY <2>1, <2>2, <2>3, <2>4, <2>5
<1>3. Counting' = Counting /\ Emitting' = Emitting
  BY AnnouncersMove, <1>2 DEF Counting, Emitting
<1> QED
  BY <1>1, <1>3

(* A step by which no worker comes to or leaves the counter or the event.  *)
LEMMA NumbersStay ==
    ASSUME EventInv, Len(channel') = Len(channel), events' = events, pagesDone' = pagesDone,
           Counting' = Counting, Emitting' = Emitting, nth' = nth
    PROVE  EventInv'
  BY DEF EventInv

(* The numbers stay in order: a counter step hands out the next number,    *)
(* and an event takes its number out of the hand of one worker.            *)
LEMMA EventInvInductive ==
    ASSUME TypeOK, TypeOK', EventInv, [Next]_vars
    PROVE  EventInv'
<1>1. /\ channel \in Seq(Entries) /\ events \in Seq(Nat) /\ pagesDone \in Nat
      /\ pc \in [Workers -> States] /\ nth \in [Workers -> Nat]
  BY DEF TypeOK
<1>2. ASSUME UNCHANGED vars PROVE EventInv'
  <2>1. /\ channel' = channel /\ events' = events /\ pagesDone' = pagesDone /\ nth' = nth
        /\ Counting' = Counting /\ Emitting' = Emitting
    BY <1>2 DEF vars, engineVars, Counting, Emitting
  <2> QED
    BY <2>1, NumbersStay
<1>4. ASSUME NEW w \in Workers, Send(w) PROVE EventInv'
  <2>1. /\ pc[w] = "send" /\ pc' = [pc EXCEPT ![w] = "count"]
        /\ channel' = Append(channel, cur[w]) /\ events' = events /\ pagesDone' = pagesDone /\ nth' = nth
    BY <1>4 DEF Send, Goto
  <2>2. Emitting' = Emitting /\ Cardinality(Counting') = Cardinality(Counting) + 1
    BY <2>1, AnnouncersMove DEF States
  <2>3. Len(channel') = Len(channel) + 1 /\ Len(channel) \in Nat
    BY <1>1, <2>1
  <2>4. Len(channel') = pagesDone' + Cardinality(Counting')
    BY <1>1, <2>1, <2>2, <2>3, AnnouncersAreFew DEF EventInv
  <2> QED
    BY <2>1, <2>2, <2>4 DEF EventInv
<1>5. ASSUME NEW w \in Workers, Count(w) PROVE EventInv'
  <2>1. /\ pc[w] = "count" /\ pc' = [pc EXCEPT ![w] = "emit"]
        /\ channel' = channel /\ events' = events
        /\ pagesDone' = pagesDone + 1 /\ nth' = [nth EXCEPT ![w] = pagesDone + 1]
    BY <1>5 DEF Count, Goto
  <2>2. /\ Cardinality(Counting') = Cardinality(Counting) - 1
        /\ Emitting' = Emitting \cup {w} /\ Cardinality(Emitting') = Cardinality(Emitting) + 1
        /\ w \notin Emitting
    BY <2>1, AnnouncersMove DEF States, Emitting
  <2>3. /\ Len(channel') = pagesDone' + Cardinality(Counting')
        /\ pagesDone' = Len(events') + Cardinality(Emitting')
    <3>1. /\ Len(channel) = pagesDone + Cardinality(Counting)
          /\ pagesDone = Len(events) + Cardinality(Emitting)
      BY DEF EventInv
    <3>2. /\ pagesDone \in Nat /\ Len(channel) \in Nat /\ Len(events) \in Nat
          /\ Cardinality(Counting) \in Nat /\ Cardinality(Emitting) \in Nat
      BY <1>1, AnnouncersAreFew
    <3>3. Len(channel') = Len(channel) /\ Len(events') = Len(events) /\ pagesDone' = pagesDone + 1
      BY Zenon, <2>1
    <3>4. /\ Cardinality(Counting') = Cardinality(Counting) - 1
          /\ Cardinality(Emitting') = Cardinality(Emitting) + 1
      BY Zenon, <2>2
    <3>5. /\ Len(channel) = (pagesDone + 1) + (Cardinality(Counting) - 1)
          /\ pagesDone + 1 = Len(events) + (Cardinality(Emitting) + 1)
      BY <3>1, <3>2
    <3> QED
      BY Zenon, <3>3, <3>4, <3>5
  <2>4. nth'[w] = pagesDone + 1 /\ \A v \in Emitting : nth'[v] = nth[v]
    BY <1>1, <2>1, <2>2 DEF Emitting
  <2>5. \A v \in Emitting : nth[v] \in 1 .. pagesDone
    BY DEF EventInv
  <2>6. \A i \in DOMAIN events : events[i] \in 1 .. pagesDone
    BY DEF EventInv
  <2>7. \A v \in Emitting' : nth'[v] \in 1 .. pagesDone' /\ \A i \in DOMAIN events' : events'[i] # nth'[v]
    <3> SUFFICES ASSUME NEW v \in Emitting'
                 PROVE  nth'[v] \in 1 .. pagesDone + 1 /\ \A i \in DOMAIN events : events[i] # nth'[v]
      BY <2>1
    <3>1. CASE v = w
      BY <1>1, <2>4, <2>6, <3>1
    <3>2. CASE v \in Emitting
      <4>1. nth[v] \in 1 .. pagesDone /\ \A i \in DOMAIN events : events[i] # nth[v]
        BY <3>2 DEF EventInv
      <4> QED
        BY <1>1, <2>4, <3>2, <4>1
    <3> QED
      BY <2>2, <3>1, <3>2
  <2>8. \A u, v \in Emitting' : nth'[u] = nth'[v] => u = v
    <3>1. \A v \in Emitting : nth'[v] # nth'[w]
      BY <1>1, <2>4, <2>5
    <3>2. \A u, v \in Emitting : nth'[u] = nth'[v] => u = v
      BY <2>4 DEF EventInv
    <3> QED
      BY <2>2, <3>1, <3>2
  <2>9. \A i \in DOMAIN events' : events'[i] \in 1 .. pagesDone'
    BY <1>1, <2>1, <2>6
  <2> QED
    BY <2>1, <2>3, <2>7, <2>8, <2>9 DEF EventInv
<1>6. ASSUME NEW w \in Workers, EmitPageDone(w) PROVE EventInv'
  <2>1. /\ pc[w] = "emit" /\ pc' = [pc EXCEPT ![w] = "children"]
        /\ channel' = channel /\ events' = Append(events, nth[w])
        /\ pagesDone' = pagesDone /\ nth' = [nth EXCEPT ![w] = 0]
    BY <1>6 DEF EmitPageDone, Goto
  <2>2. /\ Counting' = Counting
        /\ Emitting' = Emitting \ {w} /\ Cardinality(Emitting') = Cardinality(Emitting) - 1
        /\ w \in Emitting
    BY <2>1, AnnouncersMove DEF States, Emitting
  <2>3. /\ events'[Len(events) + 1] = nth[w] /\ Len(events) \in Nat
        /\ \A i \in DOMAIN events : events'[i] = events[i] /\ i # Len(events) + 1
        /\ \A i \in DOMAIN events' : i \in DOMAIN events \/ i = Len(events) + 1
        /\ Len(events') = Len(events) + 1
    BY <1>1, <2>1, AppendExtends
  <2>4. /\ nth[w] \in 1 .. pagesDone /\ \A i \in DOMAIN events : events[i] # nth[w]
        /\ pagesDone = Len(events) + Cardinality(Emitting)
    BY <2>2 DEF EventInv
  <2>5. nth[w] < Len(events) + 1 + Cardinality(Workers)
    BY <1>1, <2>3, <2>4, AnnouncersAreFew
  <2>6. \A i, j \in DOMAIN events' : events'[i] = events'[j] => i = j
    BY <2>3, <2>4 DEF EventInv
  <2>7. \A i \in DOMAIN events' : events'[i] \in 1 .. pagesDone'
    BY <2>1, <2>3, <2>4 DEF EventInv
  <2>8. \A i \in DOMAIN events' : events'[i] < i + Cardinality(Workers)
    BY <2>3, <2>5 DEF EventInv
  <2>9. pagesDone' = Len(events') + Cardinality(Emitting')
    BY <1>1, <2>1, <2>2, <2>3, <2>4, AnnouncersAreFew
  <2>10. \A v \in Emitting' : v \in Emitting /\ v # w /\ nth'[v] = nth[v]
    BY <1>1, <2>1, <2>2 DEF Emitting
  <2>11. \A v \in Emitting' : nth[v] # nth[w]
    BY <2>2, <2>10 DEF EventInv
  <2>12. \A v \in Emitting' : nth'[v] \in 1 .. pagesDone' /\ \A i \in DOMAIN events' : events'[i] # nth'[v]
    BY <2>1, <2>3, <2>10, <2>11 DEF EventInv
  <2>13. \A u, v \in Emitting' : nth'[u] = nth'[v] => u = v
    BY <2>10 DEF EventInv
  <2>14. Len(channel') = pagesDone' + Cardinality(Counting')
    BY <2>1, <2>2 DEF EventInv
  <2> QED
    BY <2>6, <2>7, <2>8, <2>9, <2>12, <2>13, <2>14 DEF EventInv
<1>7. ASSUME NEW w \in Workers,
             \/ TakeEntry(w) \/ FindNothing(w) \/ DequeueError(w) \/ Exit(w) \/ GoRound(w)
             \/ Admit(w) \/ Reject(w) \/ Fetch(w) \/ Audit(w) \/ AuditPanics(w)
             \/ Reserve(w) \/ Refuse(w) \/ EnqueueChild(w) \/ EnqueueInVain(w)
             \/ Rollback(w) \/ Finish(w)
      PROVE  EventInv'
  BY <1>7, AnnouncersStay, NumbersStay
<1> QED
  BY <1>2, <1>4, <1>5, <1>6, <1>7 DEF Next, Step, Stopped

(* The PageDone numbers are 1, 2, ... in some order; an event is early by  *)
(* fewer places than there are workers; and when the pool has shut down    *)
(* every report was announced.                                             *)
THEOREM EventsAreNumbered == Spec => []EventsNumbered
<1>1. Init => EventInv
  <2> SUFFICES ASSUME Init PROVE EventInv
    OBVIOUS
  <2>1. Counting = {} /\ Emitting = {} /\ channel = <<>> /\ events = <<>> /\ pagesDone = 0
    BY DEF Init, WorkersInit, Counting, Emitting
  <2> QED
    BY <2>1, FS_EmptySet DEF EventInv
<1>2. TypeOK /\ TypeOK' /\ EventInv /\ [Next]_vars => EventInv'
  BY EventInvInductive
<1>3. TypeOK /\ EventInv => EventsNumbered
  <2> SUFFICES ASSUME TypeOK, EventInv PROVE AllExited => Len(events) = Len(channel)
    BY DEF EventInv, EventsNumbered
  <2>1. ASSUME AllExited PROVE Counting = {} /\ Emitting = {}
    BY <2>1 DEF AllExited, Counting, Emitting
  <2>2. Len(events) \in Nat /\ pagesDone \in Nat
    BY DEF TypeOK
  <2>3. AllExited => Cardinality(Counting) = 0 /\ Cardinality(Emitting) = 0
    BY <2>1, FS_EmptySet
  <2> QED
    BY <2>2, <2>3 DEF EventInv
<1> QED
  BY <1>1, <1>2, <1>3, TypeCorrect, PTL DEF Spec

-----------------------------------------------------------------------------
(***************************************************************************)
(* The task that drives the pool: CrawlRun.                                *)
(***************************************************************************)

(* Whatever a task does, aborted or not, is a step of its worker, except   *)
(* for its being dropped.                                                  *)
LEMMA TasksStep ==
    ASSUME NEW w \in Workers, WorkerStep(w) \/ LastLocalStep(w) \/ LastCommand(w)
    PROVE  Step(w)
  BY DEF WorkerStep, LastLocalStep, LastCommand, Step

(* The seed is an entry of the queue.                                      *)
LEMMA RootIsEntry == RootEntry \in Entries
  BY EngineAssumption DEF RootEntry, Entries

(* What the driving task does to a report it takes.                        *)
LEMMA TakeReport ==
    ASSUME NEW S, channel \in Seq(S), collected \in Seq(S), channel # <<>>,
           collected' = Append(collected, Head(channel)), channel' = Tail(channel)
    PROVE  /\ collected' \in Seq(S) /\ channel' \in Seq(S)
           /\ Len(collected') = Len(collected) + 1 /\ Len(channel') = Len(channel) - 1
<1>1. Head(channel) \in S /\ Len(channel) \in Nat /\ Len(channel) > 0
  OBVIOUS
<1> QED
  BY <1>1

(* The types of the whole run are kept.                                    *)
LEMMA RunTypeKept ==
    ASSUME RunTypeOK, [RunNext]_runVars
    PROVE  RunTypeOK'
<1>1. TypeOK /\ collected \in Seq(Entries) /\ channel \in Seq(Entries) /\ fate \in [Workers -> Fates]
  BY DEF RunTypeOK, TypeOK
<1>2. ASSUME Main PROVE RunTypeOK'
  <2>1. ASSUME Seed PROVE RunTypeOK'
    <3>1. FrontierTypeOK'
      BY <2>1, <1>1, RootIsEntry, FrontierTypes DEF Seed, TypeOK
    <3> QED
      BY <2>1, <3>1 DEF Seed, RunTypeOK, TypeOK, engineVars, MainStates, Fates
  <2>2. ASSUME SeedFails PROVE RunTypeOK'
    <3>1. FrontierTypeOK'
      BY <2>2, <1>1, RootIsEntry, FrontierTypes DEF SeedFails, TypeOK
    <3> QED
      BY <2>2, <3>1 DEF SeedFails, RunTypeOK, TypeOK, engineVars, MainStates
  <2>3. ASSUME Receive \/ DrainOne PROVE RunTypeOK'
    <3>1. channel' \in Seq(Entries) /\ collected' \in Seq(Entries)
      BY <1>1, <2>3, TakeReport DEF Receive, DrainOne
    <3> QED
      BY <2>3, <3>1 DEF Receive, DrainOne, RunTypeOK, TypeOK, FrontierTypeOK, frontierVars, localVars
  <2>4. ASSUME ChannelClosed \/ Drained PROVE RunTypeOK'
    BY <2>4 DEF ChannelClosed, Drained, RunTypeOK, TypeOK, FrontierTypeOK, vars, frontierVars,
       engineVars, MainStates
  <2>5. ASSUME Timeout PROVE RunTypeOK'
    BY <2>5 DEF Timeout, RunTypeOK, TypeOK, FrontierTypeOK, vars, frontierVars, engineVars,
       MainStates, Fates
  <2>6. ASSUME ClearKeys PROVE RunTypeOK'
    <3>1. /\ UNCHANGED keys \/ (seen' = {} /\ queue' = <<>> /\ inflight' = 0)
          /\ faults' = faults \/ (faults < MaxFaults /\ faults' = faults + 1)
      BY <2>6 DEF ClearKeys, Clear, ClearFails, Fail
    <3>2. faults' \in 0 .. MaxFaults
      BY <1>1, <3>1, FrontierAssumption DEF TypeOK, FrontierTypeOK
    <3>3. seen' \subseteq Urls /\ inflight' \in Int
      BY <1>1, <3>1 DEF keys, TypeOK, FrontierTypeOK
    <3>4. queue' \in Seq(Entries)
      <4>1. queue \in Seq(Entries) /\ <<>> \in Seq(Entries)
        BY <1>1 DEF TypeOK, FrontierTypeOK
      <4>2. queue' = queue \/ queue' = <<>>
        BY <3>1 DEF keys
      <4> QED
        BY <4>1, <4>2
    <3>5. FrontierTypeOK'
      BY <3>2, <3>3, <3>4 DEF FrontierTypeOK
    <3> QED
      BY <2>6, <3>5 DEF ClearKeys, RunTypeOK, TypeOK, engineVars, MainStates
  <2> QED
    BY <1>2, <2>1, <2>2, <2>3, <2>4, <2>5, <2>6 DEF Main
<1>3. ASSUME NEW w \in Workers, WorkerStep(w) \/ LastLocalStep(w) \/ LastCommand(w) PROVE RunTypeOK'
  <2>1. TypeOK'
    BY <1>1, <1>3, TasksStep, TypeKept DEF Next
  <2> QED
    BY <1>3, <2>1 DEF WorkerStep, LastLocalStep, LastCommand, mainVars, RunTypeOK, Fates
<1>4. ASSUME NEW w \in Workers, Drop(w) PROVE RunTypeOK'
  BY <1>4 DEF Drop, RunTypeOK, TypeOK, FrontierTypeOK, frontierVars, States, Fates
<1>5. CASE UNCHANGED runVars
  BY <1>5 DEF runVars, mainVars, vars, frontierVars, engineVars, RunTypeOK, TypeOK, FrontierTypeOK
<1> QED
  BY <1>2, <1>3, <1>4, <1>5 DEF RunNext, RunStopped, WorkerTask

(* Type correctness of a whole crawl, the task that drives it included.    *)
THEOREM RunTypeCorrect == RunSpec => []RunTypeOK
<1>1. RunInit => RunTypeOK
  <2> SUFFICES ASSUME RunInit PROVE RunTypeOK
    OBVIOUS
  <2>1. FrontierTypeOK
    BY FrontierAssumption DEF RunInit, FrontierInit, Empty, FrontierTypeOK
  <2>2. TypeOK
    BY <2>1, RootIsEntry, EngineAssumption DEF RunInit, WorkersInit, TypeOK, States
  <2>3. hasTimeout \in BOOLEAN /\ timedOut \in BOOLEAN
    BY Zenon DEF RunInit
  <2>4. main \in MainStates /\ fate \in [Workers -> Fates] /\ collected \in Seq(Entries)
    BY DEF RunInit, MainStates, Fates
  <2> QED
    BY <2>2, <2>3, <2>4 DEF RunTypeOK
<1> QED
  BY <1>1, RunTypeKept, PTL DEF RunSpec

(* A worker's report comes into the channel before it is counted, and no   *)
(* other step of a worker touches the channel or the counter.              *)
LEMMA SentOrCounted ==
    ASSUME TypeOK, NEW w \in Workers, Step(w)
    PROVE  \/ /\ Len(channel') = Len(channel) /\ pagesDone' = pagesDone
              /\ Cardinality(Counting') = Cardinality(Counting)
           \/ /\ Len(channel') = Len(channel) + 1 /\ pagesDone' = pagesDone
              /\ Cardinality(Counting') = Cardinality(Counting) + 1
           \/ /\ Len(channel') = Len(channel) /\ pagesDone' = pagesDone + 1
              /\ Cardinality(Counting') = Cardinality(Counting) - 1
<1>1. channel \in Seq(Entries) /\ pagesDone \in Nat /\ Cardinality(Counting) \in Nat
  BY AnnouncersAreFew DEF TypeOK
<1>2. CASE Send(w)
  <2>1. Cardinality(Counting') = Cardinality(Counting) + 1
    BY <1>2, AnnouncersMove DEF Send, Goto, States
  <2>2. Len(channel') = Len(channel) + 1 /\ pagesDone' = pagesDone
    BY <1>1, <1>2 DEF Send
  <2> QED
    BY <1>1, <2>1, <2>2
<1>3. CASE Count(w)
  <2>1. Cardinality(Counting') = Cardinality(Counting) - 1
    BY <1>3, AnnouncersMove DEF Count, Goto, States
  <2>2. channel' = channel /\ pagesDone' = pagesDone + 1
    BY <1>3 DEF Count
  <2> QED
    BY <1>1, <2>1, <2>2
<1>4. CASE EmitPageDone(w)
  <2>1. Counting' = Counting
    BY <1>4, AnnouncersMove DEF EmitPageDone, Goto, States
  <2> QED
    BY <1>4, <2>1 DEF EmitPageDone
<1> QED
  BY <1>2, <1>3, <1>4, AnnouncersStay DEF Step

(* Only the timeout stops a task, and only with it does the driving task   *)
(* go on before the channel is closed; and the reports, taken and waiting, *)
(* are the ones sent.                                                      *)
RunInv ==
    /\ main = "drain" => timedOut
    /\ main \in {"seed", "failed"} => \A w \in Workers : fate[w] = "unborn"
    /\ ~timedOut =>
          /\ \A w \in Workers : fate[w] \in {"unborn", "running"}
          /\ main \in {"clear", "finished"} => AllExited /\ channel = <<>>
          /\ Len(collected) + Len(channel) = pagesDone + Cardinality(Counting)

(* No step of the driving task or of a worker loses a report.              *)
LEMMA RunInvInductive ==
    ASSUME RunTypeOK, RunInv, [RunNext]_runVars
    PROVE  RunInv'
<1>1. TypeOK /\ collected \in Seq(Entries) /\ channel \in Seq(Entries) /\ fate \in [Workers -> Fates]
      /\ pagesDone \in Nat /\ Cardinality(Counting) \in Nat
  BY AnnouncersAreFew DEF RunTypeOK, TypeOK
<1>2. ASSUME Seed PROVE RunInv'
  BY <1>2 DEF Seed, RunInv, engineVars, Counting
<1>3. ASSUME SeedFails PROVE RunInv'
  BY <1>3 DEF SeedFails, RunInv, engineVars, Counting
<1>4. ASSUME Receive \/ DrainOne PROVE RunInv'
  <2>1. Len(collected') = Len(collected) + 1 /\ Len(channel') = Len(channel) - 1
    BY <1>1, <1>4, TakeReport DEF Receive, DrainOne
  <2>2. pagesDone' = pagesDone /\ Counting' = Counting /\ UNCHANGED <<pc, main, fate, timedOut>>
    BY <1>4 DEF Receive, DrainOne, localVars, Counting
  <2>3. main \in {"collect", "drain"}
    BY <1>4 DEF Receive, DrainOne
  <2>4. Len(collected) \in Nat /\ Len(channel) \in Nat
    BY <1>1
  <2>5. ~timedOut => Len(collected') + Len(channel') = pagesDone' + Cardinality(Counting')
    BY <1>1, <2>1, <2>2, <2>4 DEF RunInv
  <2> QED
    BY <2>2, <2>3, <2>5 DEF RunInv
<1>5. ASSUME ChannelClosed PROVE RunInv'
  <2>1. UNCHANGED <<pc, channel, pagesDone, fate, collected, timedOut>> /\ Counting' = Counting
    BY <1>5 DEF ChannelClosed, vars, engineVars, Counting
  <2>2. main' = "clear" /\ channel = <<>>
    BY <1>5 DEF ChannelClosed
  <2>3. ~timedOut => AllExited
    BY <1>5 DEF ChannelClosed, TasksGone, RunInv, AllExited
  <2> QED
    BY <2>1, <2>2, <2>3 DEF RunInv, AllExited
<1>6. ASSUME Timeout PROVE RunInv'
  BY <1>6 DEF Timeout, RunInv
<1>7. ASSUME Drained PROVE RunInv'
  BY <1>7 DEF Drained, RunInv
<1>8. ASSUME ClearKeys PROVE RunInv'
  BY <1>8 DEF ClearKeys, RunInv, engineVars, Counting, AllExited
<1>9. ASSUME NEW w \in Workers, WorkerStep(w) PROVE RunInv'
  <2>1. UNCHANGED <<main, fate, collected, timedOut>> /\ fate[w] = "running"
    BY <1>9 DEF WorkerStep, mainVars
  <2>3. TypeOK'
    BY <1>9, RunTypeKept DEF RunTypeOK, RunNext, WorkerTask
  <2>5. ~timedOut => Len(collected') + Len(channel') = pagesDone' + Cardinality(Counting')
    <3>1. Len(collected) \in Nat /\ Len(channel) \in Nat /\ Len(collected') = Len(collected)
      BY <1>1, <2>1
    <3>2. ~timedOut => Len(collected) + Len(channel) = pagesDone + Cardinality(Counting)
      BY DEF RunInv
    <3>3. Step(w)
      BY <1>9 DEF WorkerStep
    <3>4. CASE /\ Len(channel') = Len(channel) /\ pagesDone' = pagesDone
               /\ Cardinality(Counting') = Cardinality(Counting)
      BY <3>1, <3>2, <3>4, <2>1
    <3>5. CASE /\ Len(channel') = Len(channel) + 1 /\ pagesDone' = pagesDone
               /\ Cardinality(Counting') = Cardinality(Counting) + 1
      <4>1. Len(collected') + Len(channel') = (Len(collected) + Len(channel)) + 1
        BY <3>1, <3>5
      <4>2. pagesDone' + Cardinality(Counting') = (pagesDone + Cardinality(Counting)) + 1
        BY <1>1, <3>5
      <4> QED
        BY <3>2, <4>1, <4>2
    <3>6. CASE /\ Len(channel') = Len(channel) /\ pagesDone' = pagesDone + 1
               /\ Cardinality(Counting') = Cardinality(Counting) - 1
      <4>1. /\ Len(collected') = Len(collected) /\ Len(channel') = Len(channel)
            /\ pagesDone' + Cardinality(Counting') = pagesDone + Cardinality(Counting)
        BY <1>1, <3>1, <3>6
      <4> QED
        BY <3>2, <4>1
    <3> QED
      BY <1>1, <3>3, <3>4, <3>5, <3>6, SentOrCounted
  <2>6. pc[w] # "exited"
    BY <1>9 DEF WorkerStep, Step, TakeEntry, FindNothing, DequeueError, Exit, GoRound, Admit, Reject,
       Fetch, Audit, AuditPanics, Send, Count, EmitPageDone, Reserve, Refuse, EnqueueChild,
       EnqueueInVain, Rollback, Finish, Goto
  <2>7. ~timedOut => main \notin {"clear", "finished"}
    BY <2>6 DEF RunInv, AllExited
  <2> QED
    BY <2>1, <2>5, <2>7 DEF RunInv
<1>10. ASSUME NEW w \in Workers, LastLocalStep(w) \/ LastCommand(w) \/ Drop(w) PROVE RunInv'
  <2>1. fate[w] = "aborted" /\ UNCHANGED <<main, timedOut>>
    BY <1>10 DEF LastLocalStep, LastCommand, Drop, mainVars
  <2>2. timedOut /\ main \notin {"seed", "failed"}
    BY <2>1 DEF RunInv
  <2> QED
    BY <2>1, <2>2 DEF RunInv
<1>11. CASE UNCHANGED runVars
  BY <1>11 DEF runVars, mainVars, vars, engineVars, RunInv, Counting, AllExited
<1> QED
  BY <1>2, <1>3, <1>4, <1>5, <1>6, <1>7, <1>8, <1>9, <1>10, <1>11
     DEF RunNext, RunStopped, Main, WorkerTask

(* What the driving task and the fates of the workers have to do with each *)
(* other, in every state of a crawl.                                       *)
THEOREM RunInvariant == RunSpec => []RunInv
<1>1. RunInit => RunInv
  <2> SUFFICES ASSUME RunInit PROVE RunInv
    OBVIOUS
  <2>1. Counting = {}
    BY DEF RunInit, Counting
  <2>2. Cardinality(Counting) = 0
    BY <2>1, FS_EmptySet
  <2> QED
    BY <2>2 DEF RunInit, WorkersInit, RunInv
<1> QED
  BY <1>1, RunInvInductive, RunTypeCorrect, PTL DEF RunSpec

(* Until the timeout no report is lost between the workers and the result. *)
THEOREM NoReportIsLost == RunSpec => []ReportsConserved
<1>1. RunInv => ReportsConserved
  BY DEF RunInv, ReportsConserved, Counting
<1> QED
  BY <1>1, RunInvariant, PTL

(* A crawl that ran to its end has taken every report that was sent.       *)
LEMMA SentIsTaken ==
    ASSUME RunTypeOK, RunInv, main \in {"clear", "finished"}, ~timedOut
    PROVE  Len(collected) = pagesDone /\ AllExited /\ channel = <<>>
<1>1. AllExited /\ channel = <<>>
  BY DEF RunInv
<1>2. Counting = {}
  BY <1>1 DEF AllExited, Counting
<1>3. Cardinality(Counting) = 0 /\ Len(channel) = 0
  BY <1>1, <1>2, FS_EmptySet
<1>4. Len(collected) \in Nat /\ pagesDone \in Nat
  BY DEF RunTypeOK, TypeOK
<1> QED
  BY <1>1, <1>3, <1>4 DEF RunInv

(* Once the driving task has stopped collecting, only tasks that were      *)
(* aborted can still take a step, each one at most one command; and the    *)
(* keys were gone when it had finished.                                    *)
LeftInv ==
    /\ main \in {"drain", "clear", "finished"} =>
          \A w \in Workers : fate[w] = "running" => pc[w] = "exited"
    /\ main \in {"collect", "drain", "clear", "finished"} => \A w \in Workers : fate[w] # "unborn"
    /\ main = "collect" => \A w \in Workers : fate[w] = "running"
    /\ main = "finished" /\ faults = 0 =>
          /\ IsFiniteSet(seen)
          /\ Cardinality(seen) <= Cardinality(Orphans)
          /\ -Cardinality(Orphans) <= inflight /\ inflight <= Cardinality(Orphans)

(* How a task that is dropped after its command joins the orphans.         *)
LEMMA OneMoreOrphan ==
    ASSUME RunTypeOK, NEW w \in Workers, fate[w] # "dropped", fate' = [fate EXCEPT ![w] = "dropped"]
    PROVE  /\ Cardinality(Orphans) \in Nat
           /\ Cardinality(Orphans') = Cardinality(Orphans) + 1
<1>1. Orphans' = Orphans \cup {w} /\ w \notin Orphans
  BY DEF Orphans, RunTypeOK
<1>2. Orphans \subseteq Workers /\ IsFiniteSet(Workers)
  BY EngineAssumption DEF Orphans
<1>3. IsFiniteSet(Orphans)
  BY <1>2, FS_Subset
<1> QED
  BY <1>1, <1>3, FS_AddElement, FS_CardinalityType

(* The last command of an aborted task leaves one URL and one count at     *)
(* most behind.                                                            *)
LEMMA LastCommandLeavesOne ==
    ASSUME RunTypeOK, NEW w \in Workers, LastCommand(w), faults' = 0, IsFiniteSet(seen)
    PROVE  /\ faults = 0 /\ IsFiniteSet(seen')
           /\ Cardinality(seen) \in Nat /\ Cardinality(seen') <= Cardinality(seen) + 1
           /\ inflight' \in {inflight - 1, inflight, inflight + 1}
<1>1. faults \in Nat /\ inflight \in Int
  BY DEF RunTypeOK, TypeOK, FrontierTypeOK
<1>2. Cardinality(seen) \in Nat
  BY FS_CardinalityType
<1>3. CASE TakeEntry(w)
  <2>1. seen' = seen /\ inflight' = inflight /\ faults' = faults
    BY <1>3 DEF TakeEntry, Dequeue, Pop
  <2> QED
    BY <1>1, <1>2, <2>1
<1>4. CASE EnqueueChild(w)
  <2>1. seen' = seen \cup {kid[w]} /\ kid[w] \notin seen /\ inflight' = inflight + 1 /\ faults' = faults
    BY <1>4 DEF EnqueueChild, EnqueueNew, ChildEntry
  <2>2. IsFiniteSet(seen') /\ Cardinality(seen') = Cardinality(seen) + 1
    BY <2>1, FS_AddElement
  <2> QED
    BY <1>1, <1>2, <2>1, <2>2
<1>5. CASE Finish(w)
  <2>1. seen' = seen /\ inflight' = inflight - 1 /\ faults' = faults
    BY <1>1, <1>5 DEF Finish, MarkDone, MarkDoneFails, Fail
  <2> QED
    BY <1>1, <1>2, <2>1
<1> QED
  BY <1>3, <1>4, <1>5 DEF LastCommand

(* What the tasks may still leave behind stays bounded by how many of them *)
(* there were.                                                             *)
LEMMA LeftInvInductive ==
    ASSUME RunTypeOK, LeftInv, [RunNext]_runVars
    PROVE  LeftInv'
<1>1. /\ faults \in Nat /\ inflight \in Int /\ fate \in [Workers -> Fates] /\ pc \in [Workers -> States]
  BY DEF RunTypeOK, TypeOK, FrontierTypeOK
<1>2. ASSUME Seed PROVE LeftInv'
  BY <1>2 DEF Seed, LeftInv
<1>3. ASSUME SeedFails PROVE LeftInv'
  BY <1>3 DEF SeedFails, LeftInv
<1>4. ASSUME Receive \/ DrainOne PROVE LeftInv'
  BY <1>4 DEF Receive, DrainOne, LeftInv, frontierVars, localVars, Orphans
<1>5. ASSUME ChannelClosed PROVE LeftInv'
  <2>1. main = "collect" /\ main' = "clear" /\ UNCHANGED <<pc, fate>>
    BY <1>5 DEF ChannelClosed, vars, engineVars
  <2>2. \A w \in Workers : pc[w] = "exited"
    BY <1>5, <2>1 DEF ChannelClosed, TasksGone, LeftInv
  <2> QED
    BY <2>1, <2>2 DEF LeftInv
<1>6. ASSUME Timeout PROVE LeftInv'
  <2>1. /\ main' = "drain" /\ pc' = pc
        /\ fate' = [w \in Workers |-> IF pc[w] = "exited" THEN "running" ELSE "aborted"]
    BY <1>6 DEF Timeout, vars, engineVars
  <2> QED
    BY <2>1 DEF LeftInv
<1>7. ASSUME Drained PROVE LeftInv'
  BY <1>7 DEF Drained, LeftInv, vars, engineVars
<1>8. ASSUME ClearKeys PROVE LeftInv'
  <2>1. main = "clear" /\ main' = "finished" /\ UNCHANGED <<pc, fate>>
    BY <1>8 DEF ClearKeys, engineVars
  <2>2. faults' = 0 => seen' = {} /\ inflight' = 0
    BY <1>1, <1>8 DEF ClearKeys, Clear, ClearFails, Fail
  <2>3. IsFiniteSet({}) /\ Cardinality({}) = 0
    BY FS_EmptySet
  <2>4. Cardinality(Orphans') \in Nat
    <3>1. Orphans' \subseteq Workers /\ IsFiniteSet(Workers)
      BY EngineAssumption DEF Orphans
    <3> QED
      BY <3>1, FS_Subset, FS_CardinalityType
  <2>5. faults' = 0 => /\ IsFiniteSet(seen')
                       /\ Cardinality(seen') <= Cardinality(Orphans')
                       /\ -Cardinality(Orphans') <= inflight' /\ inflight' <= Cardinality(Orphans')
    BY <2>2, <2>3, <2>4
  <2> QED
    BY <2>1, <2>5 DEF LeftInv
<1>9. ASSUME NEW w \in Workers, WorkerStep(w) PROVE LeftInv'
  <2>1. UNCHANGED <<main, fate>> /\ fate[w] = "running"
    BY <1>9 DEF WorkerStep, mainVars
  <2>2. pc[w] # "exited"
    BY <1>9 DEF WorkerStep, Step, TakeEntry, FindNothing, DequeueError, Exit, GoRound, Admit, Reject,
       Fetch, Audit, AuditPanics, Send, Count, EmitPageDone, Reserve, Refuse, EnqueueChild,
       EnqueueInVain, Rollback, Finish, Goto
  <2>3. main \notin {"drain", "clear", "finished"}
    BY <2>1, <2>2 DEF LeftInv
  <2> QED
    BY <2>1, <2>3 DEF LeftInv
<1>10. ASSUME NEW w \in Workers, LastLocalStep(w) PROVE LeftInv'
  <2>1. UNCHANGED <<main, fate>> /\ fate[w] = "aborted" /\ UNCHANGED frontierVars
    BY <1>10 DEF LastLocalStep, mainVars, Send, Count, EmitPageDone, Reserve, Refuse, Rollback
  <2>2. \A v \in Workers : v # w => pc'[v] = pc[v]
    BY <1>1, <1>10 DEF LastLocalStep, Send, Count, EmitPageDone, Reserve, Refuse, Rollback, Goto
  <2>3. \A v \in Workers : fate[v] = "running" => pc'[v] = pc[v]
    BY <2>1, <2>2
  <2> QED
    BY <2>1, <2>3 DEF LeftInv, frontierVars, Orphans
<1>11. ASSUME NEW w \in Workers, LastCommand(w) PROVE LeftInv'
  <2>1. /\ main' = main /\ fate[w] = "aborted" /\ fate' = [fate EXCEPT ![w] = "dropped"]
    BY <1>11 DEF LastCommand
  <2>2. main # "collect"
    BY <2>1 DEF LeftInv
  <2>3. \A v \in Workers : v # w => pc'[v] = pc[v] /\ fate'[v] = fate[v]
    BY <1>1, <1>11, <2>1 DEF LastCommand, TakeEntry, EnqueueChild, Finish, Goto
  <2>4. fate'[w] = "dropped"
    BY <1>1, <2>1
  <2>5. Cardinality(Orphans) \in Nat /\ Cardinality(Orphans') = Cardinality(Orphans) + 1
    BY <2>1, OneMoreOrphan
  <2>6. ASSUME main = "finished", faults' = 0
        PROVE  /\ IsFiniteSet(seen')
               /\ Cardinality(seen') <= Cardinality(Orphans')
               /\ -Cardinality(Orphans') <= inflight' /\ inflight' <= Cardinality(Orphans')
    <3>1. faults = 0
      BY <1>1, <1>11, <2>6 DEF LastCommand, TakeEntry, Dequeue, EnqueueChild, EnqueueNew,
         Finish, MarkDone, MarkDoneFails, Fail
    <3>2. /\ IsFiniteSet(seen) /\ Cardinality(seen) <= Cardinality(Orphans)
          /\ -Cardinality(Orphans) <= inflight /\ inflight <= Cardinality(Orphans)
      BY <2>6, <3>1 DEF LeftInv
    <3>3. /\ IsFiniteSet(seen')
          /\ Cardinality(seen) \in Nat /\ Cardinality(seen') <= Cardinality(seen) + 1
          /\ inflight' \in {inflight - 1, inflight, inflight + 1}
      BY <1>11, <2>6, <3>2, LastCommandLeavesOne
    <3>4. Cardinality(seen') \in Nat
      BY <3>3, FS_CardinalityType
    <3> QED
      BY <1>1, <2>5, <3>2, <3>3, <3>4
  <2> QED
    BY <2>1, <2>2, <2>3, <2>4, <2>6 DEF LeftInv
<1>12. ASSUME NEW w \in Workers, Drop(w) PROVE LeftInv'
  <2>1. /\ main' = main /\ fate[w] = "aborted" /\ fate' = [fate EXCEPT ![w] = "dropped"]
        /\ UNCHANGED frontierVars
    BY <1>12 DEF Drop
  <2>2. main # "collect"
    BY <2>1 DEF LeftInv
  <2>3. \A v \in Workers : v # w => pc'[v] = pc[v] /\ fate'[v] = fate[v]
    BY <1>1, <1>12, <2>1 DEF Drop
  <2>4. fate'[w] = "dropped"
    BY <1>1, <2>1
  <2>5. Cardinality(Orphans) \in Nat /\ Cardinality(Orphans') = Cardinality(Orphans) + 1
    BY <2>1, OneMoreOrphan
  <2>6. ASSUME main = "finished", faults' = 0
        PROVE  /\ IsFiniteSet(seen')
               /\ Cardinality(seen') <= Cardinality(Orphans')
               /\ -Cardinality(Orphans') <= inflight' /\ inflight' <= Cardinality(Orphans')
    <3>1. /\ IsFiniteSet(seen) /\ Cardinality(seen) <= Cardinality(Orphans)
          /\ -Cardinality(Orphans) <= inflight /\ inflight <= Cardinality(Orphans)
      BY <2>1, <2>6 DEF LeftInv, frontierVars
    <3>2. Cardinality(seen) \in Nat /\ seen' = seen /\ inflight' = inflight
      BY <2>1, <3>1, FS_CardinalityType DEF frontierVars
    <3> QED
      BY <1>1, <2>5, <3>1, <3>2
  <2> QED
    BY <2>1, <2>2, <2>3, <2>4, <2>6 DEF LeftInv
<1>13. CASE UNCHANGED runVars
  BY <1>13 DEF runVars, mainVars, vars, frontierVars, engineVars, LeftInv, Orphans
<1> QED
  BY <1>2, <1>3, <1>4, <1>5, <1>6, <1>7, <1>8, <1>9, <1>10, <1>11, <1>12, <1>13
     DEF RunNext, RunStopped, Main, WorkerTask

LEMMA LeftInvariant == RunSpec => []LeftInv
<1>1. RunInit => LeftInv
  BY DEF RunInit, LeftInv
<1> QED
  BY <1>1, LeftInvInductive, RunTypeCorrect, PTL DEF RunSpec

(* When a crawl whose frontier calls all came back has returned, what is   *)
(* left of its keys is at most one URL, and one count, for each task that  *)
(* was aborted in the middle of a poll.                                    *)
THEOREM LittleIsLeftBehind == RunSpec => []LittleLeftBehind
<1>1. RunTypeOK /\ LeftInv => LittleLeftBehind
  <2>1. Cardinality(Orphans) \in Nat
    <3>1. Orphans \subseteq Workers /\ IsFiniteSet(Workers)
      BY EngineAssumption DEF Orphans
    <3> QED
      BY <3>1, FS_Subset, FS_CardinalityType
  <2> QED
    BY <2>1 DEF LeftInv, LittleLeftBehind, RunTypeOK, TypeOK, FrontierTypeOK
<1> QED
  BY <1>1, LeftInvariant, RunTypeCorrect, PTL

-----------------------------------------------------------------------------
(***************************************************************************)
(* No URL is twice in the result.                                          *)
(***************************************************************************)

(* A report that was taken stays claimed: its URL is seen, and not queued, *)
(* not in the channel and not with a worker that may still report it.      *)
Kept ==
    /\ Taken \subseteq seen
    /\ \A u \in Taken : u \notin Waiting /\ u \notin Reported
    /\ \A w \in Workers : pc[w] \in Fresh => cur[w].url \notin Taken

(* That holds until the keys are cleared: an aborted task may then enqueue *)
(* a page anew, but nobody takes it from the queue to report it.           *)
TakenInv ==
    /\ \A i, j \in DOMAIN collected : collected[i].url = collected[j].url => i = j
    /\ main = "seed" => /\ FrontierInit /\ WorkersInit /\ pc = [w \in Workers |-> "dequeue"]
                        /\ collected = <<>>
    /\ main \in {"collect", "drain", "clear"} => LinksInv /\ OpenInv /\ ClaimInv /\ Kept

(* What a step of a worker does to the places a page may be in: it queues  *)
(* what was not seen, works on what was queued, reports what it worked on. *)
LEMMA PagesMoveOn ==
    ASSUME TypeOK, OpenInv, NEW w \in Workers, Step(w)
    PROVE  /\ seen \subseteq seen'
           /\ \A u \in Waiting' : u \in Waiting \/ u \notin seen
           /\ \A u \in Reported' : u \in Reported \/ \E v \in Workers : pc[v] \in Fresh /\ u = cur[v].url
           /\ \A v \in Workers : pc'[v] \in Fresh =>
                 (pc[v] \in Fresh /\ cur'[v] = cur[v]) \/ cur'[v].url \in Waiting
<1>0. /\ queue \in Seq(Entries) /\ channel \in Seq(Entries)
      /\ cur \in [Workers -> Entries] /\ pc \in [Workers -> States]
  BY DEF TypeOK, FrontierTypeOK
<1>1. \A v \in Workers : v # w => pc'[v] = pc[v] /\ cur'[v] = cur[v]
  BY OthersStay
<1>2. CASE Quiet(w)
  <2>1. /\ seen' = seen /\ queue' = queue /\ channel' = channel /\ cur' = cur
        /\ pc'[w] \in Fresh => pc[w] \in Fresh
    BY <1>2, QuietSteps
  <2>2. Waiting' = Waiting /\ Reported' = Reported
    BY <2>1 DEF Waiting, Reported
  <2> QED
    BY <1>1, <2>1, <2>2
<1>3. CASE TakeEntry(w)
  <2>1. Pop /\ channel' = channel /\ cur' = [cur EXCEPT ![w] = Head(queue)]
    BY <1>3 DEF TakeEntry, Dequeue
  <2>2. Waiting = Waiting' \cup {Head(queue).url} /\ seen' = seen
    BY <1>0, <2>1, PopFrees, PopShifts
  <2>3. Reported' = Reported
    BY <2>1 DEF Reported
  <2>4. cur'[w].url \in Waiting
    BY <1>0, <2>1, <2>2
  <2> QED
    BY <1>1, <2>2, <2>3, <2>4
<1>4. CASE DequeueError(w)
  <2>1. Pop \/ (queue' = queue /\ seen' = seen)
    BY <1>4 DEF DequeueError, DequeueFails, keys
  <2>0. UNCHANGED engineVars
    BY <1>4 DEF DequeueError
  <2>2. Waiting' \subseteq Waiting /\ seen' = seen
    BY <1>0, <2>1, PopFrees, PopShifts DEF Waiting
  <2>3. Reported' = Reported /\ pc' = pc /\ cur' = cur
    BY <2>0 DEF Reported, engineVars
  <2> QED
    BY <2>2, <2>3
<1>5. CASE Send(w)
  <2>1. /\ channel' = Append(channel, cur[w]) /\ seen' = seen /\ queue' = queue /\ cur' = cur
        /\ pc[w] = "send" /\ pc'[w] = "count"
    BY <1>0, <1>5 DEF Send, Goto, frontierVars
  <2>2. \A u \in Reported' : u \in Reported \/ u = cur[w].url
    <3>1. cur[w] \in Entries
      BY <1>0
    <3>2. /\ DOMAIN channel' = 1 .. Len(channel) + 1
          /\ channel'[Len(channel) + 1] = cur[w]
          /\ \A i \in DOMAIN channel : channel'[i] = channel[i]
          /\ \A i \in DOMAIN channel' : i \in DOMAIN channel \/ i = Len(channel) + 1
      BY <1>0, <2>1, <3>1, AppendExtends
    <3> QED
      BY <3>2 DEF Reported
  <2>3. Waiting' = Waiting
    BY <2>1 DEF Waiting
  <2> QED
    BY <1>1, <2>1, <2>2, <2>3 DEF Fresh
<1>6. CASE EnqueueChild(w) \/ EnqueueInVain(w)
  <2>1. /\ ChildEntry(w) \in Entries /\ ChildEntry(w).url = kid[w]
        /\ \/ seen' = seen /\ queue' = queue
           \/ kid[w] \notin seen /\ seen' = seen \cup {kid[w]} /\ queue' = Append(queue, ChildEntry(w))
        /\ channel' = channel /\ cur' = cur /\ pc'[w] \in {"children", "rollback"}
    BY <1>6, EnqueueSteps
  <2>2. seen \subseteq seen' /\ \A u \in Waiting' : u \in Waiting \/ u \notin seen
    BY <1>0, <2>1, AppendWaits DEF Waiting
  <2>3. Reported' = Reported
    BY <2>1 DEF Reported
  <2> QED
    BY <1>1, <2>1, <2>2, <2>3 DEF Fresh
<1>7. CASE Finish(w)
  <2>1. seen' = seen /\ queue' = queue /\ channel' = channel /\ pc'[w] = "dequeue"
    BY <1>0, <1>7 DEF Finish, MarkDone, MarkDoneFails
  <2>2. Waiting' = Waiting /\ Reported' = Reported
    BY <2>1 DEF Waiting, Reported
  <2> QED
    BY <1>1, <2>1, <2>2 DEF Fresh
<1> QED
  BY <1>2, <1>3, <1>4, <1>5, <1>6, <1>7 DEF Step, Quiet

(* A step of a worker, then, leaves what was taken claimed.                *)
LEMMA WorkersKeep ==
    ASSUME TypeOK, TypeOK', LinksInv, OpenInv, ClaimInv, Kept, collected' = collected,
           NEW w \in Workers, Step(w)
    PROVE  LinksInv' /\ OpenInv' /\ ClaimInv' /\ Kept'
<1>1. Next
  BY DEF Next
<1>2. LinksInv' /\ ClaimInv'
  BY <1>1, LinksInvInductive, ClaimInvInductive
<1>3. OpenInv'
  BY <1>1, EveryStepMovesOpen DEF OpenStays, OpenCloses, OpenFinds, OpenInv
<1>4. /\ seen \subseteq seen'
      /\ \A u \in Waiting' : u \in Waiting \/ u \notin seen
      /\ \A u \in Reported' : u \in Reported \/ \E v \in Workers : pc[v] \in Fresh /\ u = cur[v].url
      /\ \A v \in Workers : pc'[v] \in Fresh =>
            (pc[v] \in Fresh /\ cur'[v] = cur[v]) \/ cur'[v].url \in Waiting
  BY PagesMoveOn
<1>5. Taken' = Taken
  BY DEF Taken
<1> HIDE DEF Taken
<1>6. Taken' \subseteq seen'
  BY <1>4, <1>5 DEF Kept
<1>7. \A u \in Taken' : u \notin Waiting'
  BY <1>4, <1>5 DEF Kept
<1>8. \A u \in Taken' : u \notin Reported'
  BY <1>4, <1>5 DEF Kept
<1>9. \A v \in Workers : pc'[v] \in Fresh => cur'[v].url \notin Taken'
  BY <1>4, <1>5 DEF Kept
<1> QED
  BY <1>2, <1>3, <1>6, <1>7, <1>8, <1>9 DEF Kept

(* The report that is taken is the head of the channel, whose URL the rest *)
(* of the channel has not.                                                 *)
LEMMA TakenGrows ==
    ASSUME channel \in Seq(Entries), collected \in Seq(Entries), channel # <<>>,
           collected' = Append(collected, Head(channel)), channel' = Tail(channel),
           \A i, j \in DOMAIN channel : channel[i].url = channel[j].url => i = j,
           \A i, j \in DOMAIN collected : collected[i].url = collected[j].url => i = j,
           \A u \in Taken : u \notin Reported
    PROVE  /\ Taken' = Taken \cup {Head(channel).url}
           /\ Head(channel).url \in Reported /\ Head(channel).url \notin Reported'
           /\ Reported' \subseteq Reported
           /\ \A i, j \in DOMAIN channel' : channel'[i].url = channel'[j].url => i = j
           /\ \A i, j \in DOMAIN collected' : collected'[i].url = collected'[j].url => i = j
<1>1. /\ Head(channel) = channel[1] /\ Head(channel) \in Entries /\ 1 \in DOMAIN channel
      /\ \A i \in DOMAIN channel' : i + 1 \in DOMAIN channel /\ channel'[i] = channel[i + 1] /\ i \in Nat
  OBVIOUS
<1>2. /\ Len(collected) \in Nat /\ DOMAIN collected = 1 .. Len(collected)
      /\ DOMAIN collected' = 1 .. Len(collected) + 1
      /\ collected'[Len(collected) + 1] = Head(channel)
      /\ \A i \in DOMAIN collected : /\ collected'[i] = collected[i] /\ i \in DOMAIN collected'
                                     /\ i # Len(collected) + 1
      /\ \A i \in DOMAIN collected' : i \in DOMAIN collected \/ i = Len(collected) + 1
  BY <1>1, AppendExtends
<1>3. Taken' = Taken \cup {Head(channel).url}
  BY <1>2 DEF Taken
<1>4. Head(channel).url \in Reported /\ Reported' \subseteq Reported
  BY <1>1 DEF Reported
<1>5. Head(channel).url \notin Reported'
  <2>1. \A i \in DOMAIN channel' : i + 1 # 1 /\ channel'[i].url = channel[i + 1].url
    BY <1>1
  <2>2. \A i \in DOMAIN channel' : channel'[i].url # channel[1].url
    BY <1>1, <2>1
  <2> QED
    BY <1>1, <2>2 DEF Reported
<1>6. \A i, j \in DOMAIN channel' : channel'[i].url = channel'[j].url => i = j
  <2> SUFFICES ASSUME NEW i \in DOMAIN channel', NEW j \in DOMAIN channel',
                      channel'[i].url = channel'[j].url
               PROVE  i = j
    OBVIOUS
  <2>1. i + 1 = j + 1 /\ i \in Nat /\ j \in Nat
    BY <1>1
  <2> QED
    BY <2>1
<1>7. \A i, j \in DOMAIN collected' : collected'[i].url = collected'[j].url => i = j
  <2>1. \A i \in DOMAIN collected : collected[i].url # Head(channel).url
    BY <1>4 DEF Taken
  <2> QED
    BY <1>2, <2>1
<1> QED
  BY <1>3, <1>4, <1>5, <1>6, <1>7

(* A pool that starts has claimed the root.                                *)
LEMMA PoolStarts == Init => LinksInv /\ OpenInv /\ ClaimInv
<1> SUFFICES ASSUME Init PROVE LinksInv /\ OpenInv /\ ClaimInv
  OBVIOUS
<1>1. /\ Busy = {} /\ Reported = {} /\ channel = <<>> /\ queue = <<RootEntry>> /\ seen = {Root}
      /\ \A w \in Workers : pc[w] = "dequeue" /\ kids[w] = {}
  BY DEF Init, WorkersInit, Busy, BusyStates, Reported
<1>2. LinksInv
  BY <1>1 DEF LinksInv
<1>3. Waiting = {Root} /\ Working = {}
  BY <1>1 DEF Waiting, Working, RootEntry
<1>4. ClaimInv
  BY <1>1, <1>3 DEF ClaimInv, ProcessedOnce, Unreported, Fresh
<1> QED
  BY <1>1, <1>2, <1>3, <1>4 DEF OpenInv, Open

(* Neither the driving task nor a worker, aborted or not, gets a URL into  *)
(* the result that is there.                                               *)
LEMMA TakenInvInductive ==
    ASSUME RunTypeOK, RunTypeOK', RunInv, TakenInv, [RunNext]_runVars,
           Init' => (LinksInv /\ OpenInv /\ ClaimInv)'
    PROVE  TakenInv'
<1>1. /\ TypeOK /\ TypeOK' /\ collected \in Seq(Entries) /\ channel \in Seq(Entries)
      /\ pc \in [Workers -> States]
      /\ \A i, j \in DOMAIN collected : collected[i].url = collected[j].url => i = j
  BY DEF RunTypeOK, TypeOK, TakenInv
<1>2. ASSUME Seed PROVE TakenInv'
  <2>1. /\ FrontierInit /\ WorkersInit /\ pc = [w \in Workers |-> "dequeue"] /\ collected = <<>>
        /\ UNCHANGED <<engineVars, collected>> /\ main' = "collect"
    BY <1>2 DEF Seed, TakenInv
  <2>2. seen' = {Root} /\ queue' = <<RootEntry>> /\ inflight' = 1 /\ faults' = 0
    BY <1>2, <2>1 DEF Seed, EnqueueNew, FrontierInit, Empty, RootEntry
  <2>3. Init'
    BY <2>1, <2>2 DEF Init, WorkersInit, engineVars
  <2>4. Kept'
    <3>1. Taken' = {}
      BY <2>1 DEF Taken
    <3>2. \A v \in Workers : pc'[v] = "dequeue"
      BY <2>1 DEF engineVars
    <3> QED
      BY <3>1, <3>2 DEF Kept, Fresh
  <2> QED
    BY <1>1, <2>1, <2>3, <2>4 DEF TakenInv
<1>3. ASSUME SeedFails PROVE TakenInv'
  BY <1>1, <1>3 DEF SeedFails, TakenInv
<1>4. ASSUME Receive \/ DrainOne PROVE TakenInv'
  <2>1. /\ main \in {"collect", "drain"} /\ main' = main /\ UNCHANGED <<seen, queue, pc, cur, kids, kid>>
        /\ collected' = Append(collected, Head(channel)) /\ channel' = Tail(channel) /\ channel # <<>>
    BY <1>4 DEF Receive, DrainOne, frontierVars, localVars
  <2>2. LinksInv /\ OpenInv /\ ClaimInv /\ Kept
    BY <2>1 DEF TakenInv
  <2>3. /\ Taken' = Taken \cup {Head(channel).url}
        /\ Head(channel).url \in Reported /\ Head(channel).url \notin Reported'
        /\ Reported' \subseteq Reported
        /\ \A i, j \in DOMAIN channel' : channel'[i].url = channel'[j].url => i = j
        /\ \A i, j \in DOMAIN collected' : collected'[i].url = collected'[j].url => i = j
    BY <1>1, <2>1, <2>2, TakenGrows DEF Kept, ClaimInv, ProcessedOnce
  <2>4. Waiting' = Waiting /\ Busy' = Busy /\ Working' = Working
    BY <2>1 DEF Waiting, Busy, Working
  <2>5. LinksInv' /\ OpenInv'
    BY <2>1, <2>2, <2>4 DEF LinksInv, OpenInv, Open
  <2>6. ClaimInv'
    BY <2>1, <2>2, <2>3, <2>4 DEF ClaimInv, ProcessedOnce, Unreported
  <2>7. Kept'
    BY <2>1, <2>2, <2>3, <2>4 DEF Kept, ClaimInv, ProcessedOnce, Unreported
  <2> QED
    BY <2>1, <2>3, <2>5, <2>6, <2>7 DEF TakenInv
<1>5. ASSUME UNCHANGED vars, collected' = collected \/ collected' = <<>>,
             main' # "seed", main' \in {"collect", "drain", "clear"} => main \in {"collect", "drain", "clear"}
      PROVE  TakenInv'
  <2>1. (\A i, j \in DOMAIN collected : collected[i].url = collected[j].url => i = j)'
    BY <1>1, <1>5
  <2>2. Taken' \subseteq Taken
    BY <1>5 DEF Taken
  <2>3. UNCHANGED <<seen, queue, channel, pc, cur, kids, kid>>
    BY <1>5 DEF vars, frontierVars, engineVars
  <2>4. Waiting' = Waiting /\ Busy' = Busy /\ Working' = Working /\ Reported' = Reported
    BY <2>3 DEF Waiting, Busy, Working, Reported
  <2>5. LinksInv => LinksInv'
    BY <2>3, <2>4 DEF LinksInv
  <2>6. OpenInv => OpenInv'
    BY <2>3, <2>4 DEF OpenInv, Open
  <2>7. ClaimInv => ClaimInv'
    BY <2>3, <2>4 DEF ClaimInv, ProcessedOnce, Unreported
  <2>8. Kept => Kept'
    BY <2>2, <2>3, <2>4 DEF Kept
  <2> QED
    BY <1>5, <2>1, <2>5, <2>6, <2>7, <2>8 DEF TakenInv
<1>6. ASSUME ChannelClosed \/ Timeout \/ Drained PROVE TakenInv'
  BY <1>5, <1>6 DEF ChannelClosed, Timeout, Drained
<1>7. ASSUME ClearKeys PROVE TakenInv'
  BY <1>1, <1>7 DEF ClearKeys, TakenInv
<1>8. ASSUME NEW w \in Workers, WorkerStep(w) \/ LastLocalStep(w) \/ LastCommand(w) PROVE TakenInv'
  <2>1. Step(w) /\ main' = main /\ collected' = collected
    BY <1>8, TasksStep DEF WorkerStep, LastLocalStep, LastCommand, mainVars
  <2>2. main # "seed"
    BY <1>8 DEF WorkerStep, LastLocalStep, LastCommand, RunInv
  <2>3. LinksInv /\ OpenInv /\ ClaimInv /\ Kept => (LinksInv' /\ OpenInv' /\ ClaimInv' /\ Kept')
    BY <1>1, <2>1, WorkersKeep
  <2> QED
    BY <1>1, <2>1, <2>2, <2>3 DEF TakenInv
<1>9. ASSUME NEW w \in Workers, Drop(w) PROVE TakenInv'
  <2>1. /\ UNCHANGED <<seen, queue, channel, cur, kids, kid, main, collected>>
        /\ pc' = [pc EXCEPT ![w] = IF pc[w] = "rollback" THEN "children" ELSE pc[w]]
    BY <1>9 DEF Drop, frontierVars
  <2>2. main # "seed"
    BY <1>9 DEF Drop, RunInv
  <2>3. \A v \in Workers : pc'[v] = pc[v] \/ (pc[v] = "rollback" /\ pc'[v] = "children")
    BY <1>1, <2>1
  <2>4. Busy' = Busy
    BY <2>3 DEF Busy, BusyStates, States
  <2>5. Waiting' = Waiting /\ Working' = Working /\ Reported' = Reported /\ Taken' = Taken
    BY <2>1, <2>4 DEF Waiting, Working, Reported, Taken
  <2>6. \A v \in Workers : pc'[v] \in Fresh => pc[v] \in Fresh
    BY <2>3 DEF Fresh
  <2>7. LinksInv => LinksInv'
    BY <2>1, <2>3, <2>4 DEF LinksInv
  <2>8. OpenInv => OpenInv'
    BY <2>1, <2>5 DEF OpenInv, Open
  <2>9. ClaimInv => ClaimInv'
    BY <2>1, <2>4, <2>5, <2>6 DEF ClaimInv, ProcessedOnce, Unreported
  <2>10. Kept => Kept'
    BY <2>1, <2>5, <2>6 DEF Kept
  <2> QED
    BY <1>1, <2>1, <2>2, <2>7, <2>8, <2>9, <2>10 DEF TakenInv
<1>10. CASE UNCHANGED runVars
  <2>1. UNCHANGED vars /\ collected' = collected /\ main' = main
    BY <1>10 DEF runVars, mainVars
  <2>2. CASE main = "seed"
    BY <1>1, <2>1, <2>2 DEF TakenInv, vars, frontierVars, engineVars, FrontierInit, Empty, WorkersInit
  <2>3. CASE main # "seed"
    BY <1>5, <2>1, <2>3
  <2> QED
    BY <2>2, <2>3
<1> QED
  BY <1>2, <1>3, <1>4, <1>6, <1>7, <1>8, <1>9, <1>10 DEF RunNext, RunStopped, Main, WorkerTask

(* What was taken stays claimed in every state of the run.                 *)
THEOREM TakenInvariant == RunSpec => []TakenInv
<1>1. RunInit => TakenInv
  BY DEF RunInit, TakenInv
<1>2. /\ RunTypeOK /\ RunTypeOK' /\ RunInv /\ TakenInv /\ [RunNext]_runVars
      /\ (Init' => (LinksInv /\ OpenInv /\ ClaimInv)')
      => TakenInv'
  BY TakenInvInductive
<1> QED
  BY <1>1, <1>2, PoolStarts, RunTypeCorrect, RunInvariant, PTL DEF RunSpec

(* A page is in the result of a crawl once, whatever the workers and the   *)
(* driving task interleave to, whichever frontier calls fail, and however  *)
(* the timeout cuts the crawl off.                                         *)
THEOREM NoPageIsTwiceInTheResult ==
    RunSpec => [](\A i, j \in DOMAIN collected : collected[i].url = collected[j].url => i = j)
<1>1. TakenInv => \A i, j \in DOMAIN collected : collected[i].url = collected[j].url => i = j
  BY DEF TakenInv
<1> QED
  BY <1>1, TakenInvariant, PTL

-----------------------------------------------------------------------------
(***************************************************************************)
(* The result of a crawl that ran to its end is complete.                  *)
(***************************************************************************)
Collected == {collected[i] : i \in DOMAIN collected}

(* What holds of the pool and of the reports taken from it while the       *)
(* driving task collects them.                                             *)
Gathers ==
    /\ Gap \in 0 .. faults
    /\ NoEarlyExit
    /\ Root \in seen
    /\ SettledInv(Taken)
    /\ FollowInv(Collected)

GatherInv ==
    /\ main = "collect" => Gathers
    /\ main \in {"clear", "finished"} /\ ~timedOut /\ faults = 0 /\ Workers # {} =>
          /\ main = "clear" => seen \subseteq Taken \cup Excused
          /\ ResultClosed

(* A pool that starts has its root to do.                                  *)
LEMMA GatheringStarts ==
    Init => /\ Gap \in 0 .. faults /\ NoEarlyExit /\ Root \in seen
            /\ SettledInv({}) /\ FollowInv({})
<1> SUFFICES ASSUME Init
             PROVE  /\ Gap \in 0 .. faults /\ NoEarlyExit /\ Root \in seen
                    /\ SettledInv({}) /\ FollowInv({})
  OBVIOUS
<1>1. /\ seen = {Root} /\ queue = <<RootEntry>> /\ inflight = 1 /\ faults = 0 /\ channel = <<>>
      /\ \A w \in Workers : pc[w] = "dequeue"
  BY DEF Init, WorkersInit
<1>2. Busy = {}
  BY <1>1 DEF Busy, BusyStates
<1>3. Gap \in 0 .. faults
  BY <1>1, <1>2, FS_EmptySet DEF Gap
<1>4. NoEarlyExit
  BY <1>1 DEF NoEarlyExit
<1>5. Waiting = {Root}
  BY <1>1 DEF Waiting, RootEntry
<1>6. SettledInv({})
  BY <1>1, <1>5 DEF SettledInv, Passed
<1>7. FollowInv({})
  BY <1>1 DEF FollowInv
<1> QED
  BY <1>1, <1>3, <1>4, <1>6, <1>7

(* A worker's step loses nothing of what was seen or is to be followed.    *)
LEMMA StepGathers ==
    ASSUME TypeOK, TypeOK', OpenInv, Gathers, NEW w \in Workers, Step(w), collected' = collected
    PROVE  Gathers'
<1>1. PICK t : t = Taken
  OBVIOUS
<1>2. PICK e : e = Collected
  OBVIOUS
<1>3. Taken' = t /\ Collected' = e
  BY <1>1, <1>2 DEF Taken, Collected
<1>4. [Next]_vars
  BY DEF Next
<1>5. SettledInv(t)'
  <2>1. SettledInv(t)
    BY <1>1 DEF Gathers, SettledInv
  <2> QED
    BY <1>4, <2>1, SettledInvInductive
<1>6. FollowInv(e)'
  <2>1. FollowInv(e)
    BY <1>2 DEF Gathers, FollowInv
  <2> QED
    BY <1>4, <2>1, FollowInvInductive
<1>7. SettledInv(Taken)'
  BY <1>3, <1>5 DEF SettledInv
<1>8. FollowInv(Collected)'
  BY <1>3, <1>6 DEF FollowInv
<1>9. (Gap \in 0 .. faults)'
  BY <1>4, GapInductive DEF Gathers
<1>10. NoEarlyExit'
  <2>1. InflightAccounting
    BY DEF Gathers, Gap, InflightAccounting
  <2> QED
    BY <1>4, <2>1, NoEarlyExitInductive DEF Gathers
<1>11. Root \in seen'
  BY PagesMoveOn DEF Gathers
<1> QED
  BY <1>7, <1>8, <1>9, <1>10, <1>11 DEF Gathers

(* A report that is taken was in the channel: for the pages accounted for  *)
(* and the links to be followed nothing changes.                           *)
LEMMA TakingGathers ==
    ASSUME channel \in Seq(Entries), collected \in Seq(Entries), channel # <<>>, Gathers,
           collected' = Append(collected, Head(channel)), channel' = Tail(channel),
           UNCHANGED <<frontierVars, localVars>>
    PROVE  Gathers'
<1>1. /\ Head(channel) = channel[1] /\ 1 \in DOMAIN channel
      /\ \A i \in DOMAIN channel' : i + 1 \in DOMAIN channel /\ channel'[i] = channel[i + 1]
  OBVIOUS
<1>0. ASSUME NEW i \in DOMAIN channel, i # 1
      PROVE  i - 1 \in DOMAIN channel' /\ channel'[i - 1] = channel[i]
  <2>1. Len(channel') = Len(channel) - 1 /\ DOMAIN channel' = 1 .. Len(channel')
    OBVIOUS
  <2>2. i \in Nat /\ 1 < i /\ i <= Len(channel) /\ Len(channel) \in Nat
    BY <1>0
  <2>3. i - 1 \in DOMAIN channel' /\ (i - 1) + 1 = i
    BY <2>1, <2>2
  <2> QED
    BY <1>1, <2>3
<1>2. /\ collected'[Len(collected) + 1] = Head(channel) /\ Len(collected) + 1 \in DOMAIN collected'
      /\ \A i \in DOMAIN collected : collected'[i] = collected[i] /\ i \in DOMAIN collected'
      /\ \A i \in DOMAIN collected' : i \in DOMAIN collected \/ i = Len(collected) + 1
  <2>1. Head(channel) \in Entries
    OBVIOUS
  <2> QED
    BY <2>1, AppendExtends
<1>3. UNCHANGED <<seen, queue, inflight, faults, pc, cur, kids, kid>>
  BY DEF frontierVars, localVars
<1>4. Busy' = Busy /\ Waiting' = Waiting /\ Working' = Working
  BY <1>3 DEF Busy, Waiting, Working
<1>5. Gap' = Gap
  BY <1>3, <1>4 DEF Gap
<1>6. Reported' \cup Taken' = Reported \cup Taken
  <2>1. Reported \cup Taken \subseteq Reported' \cup Taken'
    <3>1. \A i \in DOMAIN channel : channel[i].url \in Reported' \cup Taken'
      BY <1>0, <1>1, <1>2 DEF Reported, Taken
    <3> QED
      BY <1>2, <3>1 DEF Reported, Taken
  <2>2. Reported' \cup Taken' \subseteq Reported \cup Taken
    BY <1>1, <1>2 DEF Reported, Taken
  <2> QED
    BY <2>1, <2>2
<1>7. SettledInv(Taken)'
  BY <1>3, <1>4, <1>6 DEF Gathers, SettledInv
<1>8. FollowInv(Collected)'
  <2>1. \A e, k : ToFollow(e, k) => ToFollow(e, k)'
    BY <1>3 DEF ToFollow, Holds
  <2>2. ASSUME faults = 0, ~Capped, NEW i \in DOMAIN channel, NEW e, e = channel[i],
               e.depth < MaxDepth, NEW k \in Links[e.url]
        PROVE  k \in seen' \/ ToFollow(e, k)'
    <3>1. k \in seen \/ ToFollow(e, k)
      BY <2>2 DEF Gathers, FollowInv
    <3> QED
      BY <1>3, <2>1, <3>1
  <2>3. ASSUME faults = 0, ~Capped, NEW i \in DOMAIN collected, NEW e, e = collected[i],
               e.depth < MaxDepth, NEW k \in Links[e.url]
        PROVE  k \in seen' \/ ToFollow(e, k)'
    <3>1. k \in seen \/ ToFollow(e, k)
      BY <2>3 DEF Gathers, FollowInv, Collected
    <3> QED
      BY <1>3, <2>1, <3>1
  <2>4. ASSUME faults' = 0, ~Capped, NEW i \in DOMAIN channel', channel'[i].depth < MaxDepth,
               NEW k \in Links[channel'[i].url]
        PROVE  (k \in seen \/ ToFollow(channel[i], k))'
    <3>1. PICK e : e = channel[i + 1] /\ e = channel'[i] /\ i + 1 \in DOMAIN channel
      BY <1>1
    <3>2. k \in seen' \/ ToFollow(e, k)'
      BY <1>3, <2>2, <2>4, <3>1
    <3> QED
      BY <3>1, <3>2 DEF ToFollow
  <2>5. ASSUME faults' = 0, ~Capped, NEW e \in Collected', e.depth < MaxDepth, NEW k \in Links[e.url]
        PROVE  (k \in seen \/ ToFollow(e, k))'
    <3>1. PICK i \in DOMAIN collected' : e = collected'[i]
      BY <2>5 DEF Collected
    <3>2. CASE i \in DOMAIN collected
      <4>1. e = collected[i]
        BY <1>2, <3>1, <3>2
      <4> QED
        BY <1>3, <2>3, <2>5, <3>2, <4>1
    <3>3. CASE i = Len(collected) + 1
      <4>1. e = channel[1]
        BY <1>1, <1>2, <3>1, <3>3
      <4> QED
        BY <1>1, <1>3, <2>2, <2>5, <4>1
    <3> QED
      BY <1>2, <3>1, <3>2, <3>3
  <2> QED
    BY <1>3, <2>4, <2>5 DEF Gathers, FollowInv
<1> QED
  BY <1>3, <1>4, <1>5, <1>7, <1>8 DEF Gathers, NoEarlyExit

(* With an empty channel and no task left, all of what was seen has been   *)
(* taken, and so has what it links to.                                     *)
LEMMA NothingIsMissing ==
    ASSUME Gathers, AllExited, channel = <<>>, faults = 0, Workers # {}
    PROVE  seen \subseteq Taken \cup Excused /\ ResultClosed
<1>1. queue = <<>> /\ Busy = {}
  BY DEF Gathers, NoEarlyExit, AllExited
<1>2. Waiting = {} /\ Working = {} /\ Reported = {}
  BY <1>1 DEF Waiting, Working, Reported
<1>3. seen \subseteq Taken \cup Excused
  BY <1>2 DEF Gathers, SettledInv
<1>4. \A w \in Workers : pc[w] \notin Passed
  BY DEF AllExited, Passed
<1>5. ASSUME ~Capped, NEW i \in DOMAIN collected, collected[i].depth < MaxDepth,
             NEW k \in Links[collected[i].url]
      PROVE  k \in seen
  BY <1>4, <1>5 DEF Gathers, FollowInv, Collected, ToFollow
<1> QED
  BY <1>3, <1>5 DEF Gathers, ResultClosed

(* From the seed to the end of the collection no step of the driving task  *)
(* or of a worker loses a page or a link.                                  *)
LEMMA GatherInvInductive ==
    ASSUME RunTypeOK, RunTypeOK', RunInv, RunInv', LeftInv, TakenInv, GatherInv, [RunNext]_runVars,
           Init' => (/\ Gap \in 0 .. faults /\ NoEarlyExit /\ Root \in seen
                     /\ SettledInv({}) /\ FollowInv({}))'
    PROVE  GatherInv'
<1>1. TypeOK /\ TypeOK' /\ collected \in Seq(Entries) /\ channel \in Seq(Entries) /\ faults \in Nat
  BY DEF RunTypeOK, TypeOK, FrontierTypeOK
<1>2. ASSUME Seed PROVE GatherInv'
  <2>1. /\ FrontierInit /\ WorkersInit /\ pc = [w \in Workers |-> "dequeue"] /\ collected = <<>>
        /\ UNCHANGED <<engineVars, collected>> /\ main' = "collect"
    BY <1>2 DEF Seed, TakenInv
  <2>2. seen' = {Root} /\ queue' = <<RootEntry>> /\ inflight' = 1 /\ faults' = 0
    BY <1>2, <2>1 DEF Seed, EnqueueNew, FrontierInit, Empty, RootEntry
  <2>3. Init'
    BY <2>1, <2>2 DEF Init, WorkersInit, engineVars
  <2>4. Taken' = {} /\ Collected' = {}
    BY <2>1 DEF Taken, Collected
  <2>5. SettledInv(Taken)' /\ FollowInv(Collected)'
    BY <2>3, <2>4 DEF SettledInv, FollowInv
  <2> QED
    BY <2>1, <2>3, <2>5 DEF GatherInv, Gathers
<1>3. ASSUME SeedFails PROVE GatherInv'
  BY <1>3 DEF SeedFails, GatherInv
<1>4. ASSUME Receive PROVE GatherInv'
  <2>1. Gathers'
    BY <1>1, <1>4, TakingGathers DEF Receive, GatherInv
  <2> QED
    BY <1>4, <2>1 DEF Receive, GatherInv
<1>5. ASSUME ChannelClosed PROVE GatherInv'
  <2>1. /\ main = "collect" /\ main' = "clear" /\ channel = <<>> /\ timedOut' = timedOut
        /\ UNCHANGED <<seen, faults, collected>>
    BY <1>5 DEF ChannelClosed, vars, frontierVars
  <2>2. ASSUME ~timedOut, faults = 0, Workers # {}
        PROVE  seen \subseteq Taken \cup Excused /\ ResultClosed
    <3>1. AllExited
      BY <1>5, <2>2 DEF ChannelClosed, TasksGone, RunInv, AllExited
    <3> QED
      BY <2>1, <2>2, <3>1, NothingIsMissing DEF GatherInv
  <2> QED
    BY <2>1, <2>2 DEF GatherInv, ResultClosed, Taken
<1>6. ASSUME Timeout \/ DrainOne \/ Drained PROVE GatherInv'
  <2>1. timedOut' /\ main' # "collect"
    BY <1>6 DEF Timeout, DrainOne, Drained, RunInv
  <2> QED
    BY <2>1 DEF GatherInv
<1>7. ASSUME ClearKeys PROVE GatherInv'
  <2>1. /\ main = "clear" /\ main' = "finished" /\ timedOut' = timedOut /\ collected' = collected
        /\ faults' = 0 => faults = 0
    BY <1>1, <1>7 DEF ClearKeys, Clear, ClearFails, Fail
  <2> QED
    BY <2>1 DEF GatherInv, ResultClosed, Taken
<1>8. ASSUME NEW w \in Workers, WorkerStep(w) PROVE GatherInv'
  <2>1. Step(w) /\ UNCHANGED <<main, collected, timedOut>>
    BY <1>8 DEF WorkerStep, mainVars
  <2>2. main = "collect" => Gathers'
    BY <1>1, <2>1, StepGathers DEF GatherInv, TakenInv
  <2>3. ~timedOut => main \notin {"clear", "finished"}
    <3>1. pc[w] # "exited"
      BY <2>1 DEF Step, TakeEntry, FindNothing, DequeueError, Exit, GoRound, Admit, Reject,
         Fetch, Audit, AuditPanics, Send, Count, EmitPageDone, Reserve, Refuse, EnqueueChild,
         EnqueueInVain, Rollback, Finish, Goto
    <3> QED
      BY <3>1 DEF RunInv, AllExited
  <2> QED
    BY <2>1, <2>2, <2>3 DEF GatherInv
<1>9. ASSUME NEW w \in Workers, LastLocalStep(w) \/ LastCommand(w) \/ Drop(w) PROVE GatherInv'
  <2>1. fate[w] = "aborted" /\ UNCHANGED <<main, timedOut>>
    BY <1>9 DEF LastLocalStep, LastCommand, Drop, mainVars
  <2>2. timedOut /\ main # "collect"
    BY <2>1 DEF RunInv, LeftInv
  <2> QED
    BY <2>1, <2>2 DEF GatherInv
<1>10. ASSUME UNCHANGED runVars PROVE GatherInv'
  <2>1. /\ UNCHANGED <<seen, queue, inflight, faults, channel, pc, cur, kids, kid>>
        /\ UNCHANGED <<main, collected, timedOut>>
    BY <1>10 DEF runVars, mainVars, vars, frontierVars, engineVars
  <2>2. Busy' = Busy /\ Taken' = Taken /\ Collected' = Collected
    BY <2>1 DEF Busy, Taken, Collected
  <2>3. Waiting' = Waiting /\ Working' = Working /\ Reported' = Reported /\ Gap' = Gap
    BY <2>1, <2>2 DEF Waiting, Working, Reported, Gap
  <2>4. SettledInv(Taken) => SettledInv(Taken)'
    BY <2>1, <2>2, <2>3 DEF SettledInv
  <2>5. FollowInv(Collected) => FollowInv(Collected)'
    BY <2>1, <2>2 DEF FollowInv, ToFollow, Holds
  <2>6. NoEarlyExit => NoEarlyExit'
    BY <2>1, <2>2 DEF NoEarlyExit
  <2>7. Gathers => Gathers'
    BY <2>1, <2>3, <2>4, <2>5, <2>6 DEF Gathers
  <2>8. ResultClosed => ResultClosed'
    BY <2>1, <2>2 DEF ResultClosed
  <2> QED
    BY <2>1, <2>2, <2>7, <2>8 DEF GatherInv
<1> QED
  BY <1>2, <1>3, <1>4, <1>5, <1>6, <1>7, <1>8, <1>9, <1>10 DEF RunNext, RunStopped, Main, WorkerTask

(* A crawl that ran to its end returns every report that was sent; and if  *)
(* no frontier call failed, its result holds every page it saw and is      *)
(* closed under the links the limits allow.                                *)
THEOREM TheResultIsComplete == RunSpec => []ResultComplete
<1>1. RunInit => GatherInv
  BY DEF RunInit, GatherInv
<1>2. /\ RunTypeOK /\ RunTypeOK' /\ RunInv /\ RunInv' /\ LeftInv /\ TakenInv /\ GatherInv
      /\ [RunNext]_runVars
      /\ (Init' => (/\ Gap \in 0 .. faults /\ NoEarlyExit /\ Root \in seen
                    /\ SettledInv({}) /\ FollowInv({}))')
      => GatherInv'
  BY GatherInvInductive
<1>3. RunTypeOK /\ RunInv /\ GatherInv => ResultComplete
  BY SentIsTaken DEF GatherInv, ResultComplete
<1> QED
  BY <1>1, <1>2, <1>3, GatheringStarts, RunTypeCorrect, RunInvariant, LeftInvariant, TakenInvariant, PTL
     DEF RunSpec

-----------------------------------------------------------------------------
(***************************************************************************)
(* The result is within the limits of the configuration.                   *)
(***************************************************************************)

(* What holds of the pool while it runs: its entries are sound, no page is *)
(* reported that may not be fetched, and the slots are bounded.            *)
Allowed(e) == e.url \notin Blocked

PoolLimits ==
    /\ DepthInv
    /\ \A i \in DOMAIN channel : Allowed(channel[i])
    /\ SlotsBounded

LEMMA OnlySendReports ==
    ASSUME TypeOK, NEW w \in Workers, Step(w)
    PROVE  /\ channel' = channel \/ (Send(w) /\ channel' = Append(channel, cur[w]))
           /\ faults <= faults'
<1>1. faults \in Nat
  BY DEF TypeOK, FrontierTypeOK
<1>2. CASE Quiet(w)
  BY <1>2, QuietSteps
<1>3. CASE TakeEntry(w) \/ DequeueError(w)
  BY <1>1, <1>3 DEF TakeEntry, Dequeue, DequeueError, DequeueFails, Fail, engineVars
<1>4. CASE Send(w)
  BY <1>1, <1>4 DEF Send, frontierVars
<1>5. CASE EnqueueChild(w) \/ EnqueueInVain(w)
  BY <1>5, EnqueueSteps
<1>6. CASE Finish(w)
  BY <1>1, <1>6 DEF Finish, MarkDone, MarkDoneFails, Fail
<1> QED
  BY <1>2, <1>3, <1>4, <1>5, <1>6 DEF Step, Quiet

LEMMA PoolLimitsInductive ==
    ASSUME TypeOK, TypeOK', LinksInv, PoolLimits, NEW w \in Workers, Step(w)
    PROVE  PoolLimits'
<1>1. Next
  BY DEF Next
<1>2. DepthInv'
  BY <1>1, DepthInvInductive DEF PoolLimits
<1>3. SlotsBounded'
  BY <1>1, SlotsStayBounded DEF PoolLimits
<1>4. \A i \in DOMAIN channel' : Allowed(channel'[i])
  <2>1. channel \in Seq(Entries)
    BY DEF TypeOK
  <2>2. CASE channel' = channel
    BY <2>2 DEF PoolLimits
  <2>3. CASE Send(w) /\ channel' = Append(channel, cur[w])
    <3>1. w \in Busy /\ pc[w] \notin {"gate", "skip"}
      BY <2>3 DEF Send, Goto, Busy, BusyStates, States
    <3>2. Allowed(cur[w])
      BY <3>1 DEF PoolLimits, DepthInv, Allowed
    <3>3. /\ channel'[Len(channel) + 1] = cur[w]
          /\ \A i \in DOMAIN channel : channel'[i] = channel[i]
          /\ \A i \in DOMAIN channel' : i \in DOMAIN channel \/ i = Len(channel) + 1
      BY <2>1, <2>3, AppendExtends
    <3> QED
      BY <3>2, <3>3 DEF PoolLimits
  <2> QED
    BY <2>2, <2>3, OnlySendReports
<1> QED
  BY <1>2, <1>3, <1>4 DEF PoolLimits

(* A task that is dropped keeps the slots it has; one that was giving a    *)
(* slot back has left the counter ahead.                                   *)
LEMMA DropKeepsLimits ==
    ASSUME TypeOK, PoolLimits, NEW w \in Workers, Drop(w)
    PROVE  PoolLimits'
<1>1. /\ UNCHANGED <<seen, queue, faults, channel, cur, pagesFetched>>
      /\ pc' = [pc EXCEPT ![w] = IF pc[w] = "rollback" THEN "children" ELSE pc[w]]
  BY DEF Drop, frontierVars
<1>2. \A v \in Workers : pc'[v] = pc[v] \/ (pc[v] = "rollback" /\ pc'[v] = "children")
  BY <1>1 DEF TypeOK
<1>3. Busy' = Busy
  BY <1>2 DEF Busy, BusyStates, States
<1>4. DepthInv'
  <2>1. DepthSound' /\ \A v \in Busy' : Sound(cur'[v])
    BY <1>1, <1>3 DEF PoolLimits, DepthInv, DepthSound
  <2>2. \A v \in Workers : pc'[v] \in {"refuse", "enqueue", "rollback"} => cur'[v].depth < MaxDepth
    BY <1>1, <1>2 DEF PoolLimits, DepthInv
  <2>3. \A v \in Busy' : pc'[v] \notin {"gate", "skip"} => cur'[v].url \notin Blocked
    BY <1>1, <1>2, <1>3 DEF PoolLimits, DepthInv, Busy
  <2> QED
    BY <2>1, <2>2, <2>3 DEF DepthInv
<1>5. SlotsBounded'
  <2>1. Reserving' \subseteq Reserving /\ Admitted' \subseteq Admitted
    BY <1>2 DEF Reserving, Admitted
  <2>2. SeenFinite /\ SeenFinite' /\ NSeen' = NSeen
    BY <1>1 DEF PoolLimits, SlotsBounded, SeenFinite, NSeen
  <2>3. /\ IsFiniteSet(Reserving) /\ IsFiniteSet(Admitted)
        /\ NSeen \in Nat /\ NReserved \in Nat /\ NAdmitted \in Nat
    BY <2>2, SizesAreNumbers
  <2>4. NReserved' \in Nat /\ NAdmitted' \in Nat /\ NReserved' <= NReserved /\ NAdmitted' <= NAdmitted
    BY <2>1, <2>3, FS_Subset, FS_CardinalityType DEF NReserved, NAdmitted
  <2>5. faults \in Nat /\ pagesFetched \in Int /\ Cap \in Nat /\ Cap' = Cap
    BY CapIsPositive DEF TypeOK, FrontierTypeOK, Cap
  <2>6. Capped => NSeen + NReserved - pagesFetched <= faults /\ NSeen + NAdmitted <= Cap + faults
    BY DEF PoolLimits, SlotsBounded
  <2>7. CASE Capped
    <3>1. NSeen + NReserved' - pagesFetched <= faults
      <4>1. \A s, r, q \in Nat, p \in Int, k \in Nat : q <= r /\ s + r - p <= k => s + q - p <= k
        OBVIOUS
      <4>2. NSeen + NReserved - pagesFetched <= faults
        BY <2>6, <2>7
      <4> QED
        BY <2>3, <2>4, <2>5, <4>1, <4>2
    <3>2. NSeen + NAdmitted' <= Cap + faults
      <4>1. \A s, r, q, c, k \in Nat : q <= r /\ s + r <= c + k => s + q <= c + k
        OBVIOUS
      <4>2. NSeen + NAdmitted <= Cap + faults
        BY <2>6, <2>7
      <4> QED
        BY <2>3, <2>4, <2>5, <4>1, <4>2
    <3> QED
      BY <1>1, <2>2, <2>5, <3>1, <3>2 DEF SlotsBounded
  <2>8. CASE ~Capped
    BY <2>2, <2>8 DEF SlotsBounded
  <2> QED
    BY <2>7, <2>8
<1> QED
  BY <1>1, <1>4, <1>5 DEF PoolLimits

(* A pool that starts is within its limits.                                *)
LEMMA PoolStartsWithinLimits == Init => PoolLimits
<1> SUFFICES ASSUME Init PROVE PoolLimits
  OBVIOUS
<1>1. /\ queue = <<RootEntry>> /\ channel = <<>> /\ Busy = {}
      /\ \A w \in Workers : pc[w] = "dequeue"
  BY DEF Init, WorkersInit, Busy, BusyStates
<1>2. Sound(RootEntry)
  BY WalkStarts, EngineAssumption DEF Sound, RootEntry
<1>3. DepthInv
  BY <1>1, <1>2 DEF DepthInv, DepthSound, Sound
<1>4. SlotsBounded
  BY CapInvInitially DEF CapInv
<1> QED
  BY <1>1, <1>3, <1>4 DEF PoolLimits

(* What is in the result, or on its way there, is within the limits.       *)
LimitsInv ==
    /\ ResultWithinLimits
    /\ main \in {"collect", "drain", "clear"} => PoolLimits

(* A result without repetition, of pages that were all seen, is no larger  *)
(* than the cap.                                                           *)
ResultOfSeen ==
    /\ collected \in Seq(Entries) /\ seen \subseteq Urls /\ faults \in Nat
    /\ \A i, j \in DOMAIN collected : collected[i].url = collected[j].url => i = j
    /\ Taken \subseteq seen
    /\ SlotsBounded

LEMMA ResultIsSmall == ResultOfSeen /\ Capped => Len(collected) <= Cap + faults
<1> SUFFICES ASSUME ResultOfSeen, Capped PROVE Len(collected) <= Cap + faults
  OBVIOUS
<1>0. /\ collected \in Seq(Entries) /\ seen \subseteq Urls /\ faults \in Nat
      /\ \A i, j \in DOMAIN collected : collected[i].url = collected[j].url => i = j
      /\ Taken \subseteq seen
      /\ SlotsBounded
  BY DEF ResultOfSeen
<1>1. Len(collected) \in Nat /\ DOMAIN collected = 1 .. Len(collected)
  BY <1>0
<1>2. IsFiniteSet(seen) /\ NSeen \in Nat /\ NAdmitted \in Nat
  BY <1>0, SizesAreNumbers DEF SlotsBounded, SeenFinite
<1> DEFINE n == Len(collected)
           f == [i \in 1 .. n |-> collected[i].url]
<1>3. f \in Injection(1 .. n, seen)
  <2>1. \A i \in 1 .. n : collected[i].url \in seen
    BY <1>0, <1>1 DEF Taken
  <2> QED
    BY <1>0, <1>1, <2>1 DEF Injection, IsInjective
<1>4. n \in Nat
  BY <1>1
<1> HIDE DEF n, f
<1>5. n <= NSeen
  <2>1. IsFiniteSet(1 .. n) /\ Cardinality(1 .. n) = (IF 1 > n THEN 0 ELSE n - 1 + 1)
    BY <1>4, FS_Interval
  <2>2. Cardinality(1 .. n) = n
    BY <1>4, <2>1
  <2> QED
    BY <1>2, <1>3, <2>1, <2>2, FS_Injection DEF NSeen
<1>6. NSeen + NAdmitted <= Cap + faults
  BY <1>0 DEF SlotsBounded
<1>7. Cap + faults \in Nat
  <2>1. Cap \in Nat /\ faults \in Nat
    BY <1>0, CapIsPositive
  <2> QED
    BY <2>1
<1>8. \A k, s, a, b \in Nat : k <= s /\ s + a <= b => k <= b
  OBVIOUS
<1>9. n <= Cap + faults
  BY <1>2, <1>4, <1>5, <1>6, <1>7, <1>8
<1> QED
  BY <1>9 DEF n

(* Neither the driving task nor a worker, aborted or not, gets a page into *)
(* the result that is beyond a limit, or one page too many.                *)
LEMMA LimitsInvInductive ==
    ASSUME RunTypeOK, RunTypeOK', RunInv, TakenInv, TakenInv', LimitsInv, [RunNext]_runVars,
           Init' => PoolLimits'
    PROVE  LimitsInv'
<1>1. /\ TypeOK /\ TypeOK' /\ collected \in Seq(Entries) /\ channel \in Seq(Entries)
      /\ collected' \in Seq(Entries) /\ seen' \subseteq Urls /\ faults \in Nat /\ faults' \in Nat
  <2>1. /\ TypeOK /\ TypeOK' /\ collected \in Seq(Entries) /\ collected' \in Seq(Entries)
    BY DEF RunTypeOK
  <2>2. channel \in Seq(Entries) /\ faults \in Nat
    BY <2>1 DEF TypeOK, FrontierTypeOK
  <2>3. seen' \subseteq Urls /\ faults' \in Nat
    BY <2>1 DEF TypeOK, FrontierTypeOK
  <2> QED
    BY <2>1, <2>2, <2>3
<1>0. Cap' = Cap /\ Cap \in Nat
  BY CapIsPositive DEF Cap
<1> DEFINE Fine(e) == Sound(e) /\ Allowed(e)
<1>2. (\A i \in DOMAIN collected : Fine(collected[i])) /\ (Capped => Len(collected) <= Cap + faults)
  BY DEF LimitsInv, ResultWithinLimits, Sound, Allowed
<1>3. ASSUME \A i \in DOMAIN collected' : Fine(collected'[i]), Capped => Len(collected') <= Cap + faults',
             main' \in {"collect", "drain", "clear"} => PoolLimits'
      PROVE  LimitsInv'
  BY <1>0, <1>3 DEF LimitsInv, ResultWithinLimits, Sound, Allowed
<1>4. ASSUME collected' = collected, faults <= faults'
      PROVE  /\ \A i \in DOMAIN collected' : Fine(collected'[i])
             /\ Capped => Len(collected') <= Cap + faults'
  <2>1. Len(collected) \in Nat /\ Len(collected') = Len(collected)
    BY <1>1, <1>4
  <2>2. Capped => Len(collected') <= Cap + faults'
    BY <1>0, <1>1, <1>2, <1>4, <2>1
  <2> HIDE DEF Fine
  <2>3. \A i \in DOMAIN collected' : Fine(collected'[i])
    BY <1>2, <1>4
  <2> QED
    BY <2>2, <2>3
<1>5. ASSUME collected' = <<>>
      PROVE  /\ \A i \in DOMAIN collected' : Fine(collected'[i])
             /\ Capped => Len(collected') <= Cap + faults'
  <2>1. DOMAIN collected' = {} /\ Len(collected') = 0
    BY <1>5
  <2> HIDE DEF Fine
  <2>2. 0 <= Cap + faults'
    <3>1. \A m, n \in Nat : 0 <= m + n
      OBVIOUS
    <3>2. faults' \in Nat /\ Cap \in Nat
      BY <1>0, <1>1
    <3> QED
      BY <3>1, <3>2
  <2>3. ASSUME NEW i \in DOMAIN collected' PROVE Fine(collected'[i])
    <3>1. i \in {}
      BY <2>1, <2>3
    <3> QED
      BY <3>1
  <2>4. Capped => Len(collected') <= Cap + faults'
    BY <1>0, <2>1, <2>2
  <2> QED
    BY <2>3, <2>4
<1>6. ASSUME Seed PROVE LimitsInv'
  <2>1. /\ FrontierInit /\ WorkersInit /\ pc = [w \in Workers |-> "dequeue"] /\ collected = <<>>
        /\ UNCHANGED <<engineVars, collected>>
    BY <1>6 DEF Seed, TakenInv
  <2>2. seen' = {Root} /\ queue' = <<RootEntry>> /\ inflight' = 1 /\ faults' = 0
    BY <1>6, <2>1 DEF Seed, EnqueueNew, FrontierInit, Empty, RootEntry
  <2>3. Init'
    BY <2>1, <2>2 DEF Init, WorkersInit, engineVars
  <2> QED
    BY <1>3, <1>5, <2>1, <2>3
<1>7. ASSUME SeedFails PROVE LimitsInv'
  <2>1. collected' = collected /\ faults <= faults' /\ main' = "failed"
    BY <1>1, <1>7 DEF SeedFails, EnqueueFails, EnqueueReplyLost, EnqueueNoEffect, Fail
  <2> QED
    BY <1>3, <1>4, <2>1
<1>8. ASSUME Receive \/ DrainOne PROVE LimitsInv'
  <2>1. /\ main \in {"collect", "drain"} /\ main' = main
        /\ UNCHANGED <<frontierVars, localVars, pagesFetched>>
        /\ collected' = Append(collected, Head(channel)) /\ channel' = Tail(channel) /\ channel # <<>>
    BY <1>8 DEF Receive, DrainOne
  <2>2. PoolLimits
    BY <2>1 DEF LimitsInv
  <2>3. /\ Head(channel) = channel[1] /\ Head(channel) \in Entries /\ 1 \in DOMAIN channel
        /\ \A i \in DOMAIN channel' : i + 1 \in DOMAIN channel /\ channel'[i] = channel[i + 1]
    BY <1>1, <2>1
  <2>4. /\ collected'[Len(collected) + 1] = Head(channel)
        /\ \A i \in DOMAIN collected : collected'[i] = collected[i]
        /\ \A i \in DOMAIN collected' : i \in DOMAIN collected \/ i = Len(collected) + 1
    BY <1>1, <2>1, <2>3, AppendExtends
  <2>5. Fine(Head(channel))
    BY <2>2, <2>3 DEF PoolLimits, DepthInv, DepthSound, Sound
  <2>6. \A i \in DOMAIN collected' : Fine(collected'[i])
    BY <1>2, <2>4, <2>5
  <2>7. PoolLimits'
    <3>1. Busy' = Busy /\ UNCHANGED <<pc, cur, queue, seen, faults, pagesFetched>>
      BY <2>1 DEF Busy, frontierVars, localVars
    <3>2. DepthInv'
      BY <2>2, <2>3, <3>1 DEF PoolLimits, DepthInv, DepthSound
    <3>3. SlotsBounded'
      BY <1>0, <2>2, <3>1 DEF PoolLimits, SlotsBounded, SeenFinite, NSeen, NReserved, NAdmitted,
                              Reserving, Admitted
    <3>4. \A i \in DOMAIN channel' : Allowed(channel'[i])
      BY <2>2, <2>3 DEF PoolLimits
    <3> QED
      BY <3>2, <3>3, <3>4 DEF PoolLimits
  <2>8. Capped => Len(collected') <= Cap + faults'
    <3>1. Kept' /\ (\A i, j \in DOMAIN collected : collected[i].url = collected[j].url => i = j)'
      BY <2>1 DEF TakenInv
    <3>2. Taken' \subseteq seen' /\ SlotsBounded'
      BY <2>7, <3>1 DEF Kept, PoolLimits
    <3>3. ResultOfSeen'
      BY <1>1, <3>1, <3>2 DEF ResultOfSeen
    <3>4. (ResultOfSeen /\ Capped => Len(collected) <= Cap + faults)'
      BY ResultIsSmall, PTL
    <3> QED
      BY <1>0, <3>3, <3>4
  <2> QED
    BY <1>3, <2>6, <2>7, <2>8
<1>9. ASSUME UNCHANGED vars, collected' = collected \/ collected' = <<>>,
             main' \in {"collect", "drain", "clear"} => main \in {"collect", "drain", "clear"}
      PROVE  LimitsInv'
  <2>1. UNCHANGED <<seen, queue, faults, channel, pc, cur, pagesFetched>>
    BY <1>9 DEF vars, frontierVars, engineVars
  <2>2. PoolLimits => PoolLimits'
    <3>1. Busy' = Busy
      BY <2>1 DEF Busy
    <3>2. DepthInv => DepthInv'
      BY <2>1, <3>1 DEF DepthInv, DepthSound
    <3>3. SlotsBounded => SlotsBounded'
      BY <1>0, <2>1 DEF SlotsBounded, SeenFinite, NSeen, NReserved, NAdmitted, Reserving, Admitted
    <3> QED
      BY <2>1, <3>2, <3>3 DEF PoolLimits
  <2>3. main' \in {"collect", "drain", "clear"} => PoolLimits'
    BY <1>9, <2>2 DEF LimitsInv
  <2>4. faults <= faults'
    BY <1>1, <2>1
  <2> QED
    BY <1>3, <1>4, <1>5, <1>9, <2>3, <2>4
<1>10. ASSUME ChannelClosed \/ Timeout \/ Drained PROVE LimitsInv'
  BY <1>9, <1>10 DEF ChannelClosed, Timeout, Drained
<1>11. ASSUME ClearKeys PROVE LimitsInv'
  <2>1. collected' = collected /\ faults <= faults' /\ main' = "finished"
    BY <1>1, <1>11 DEF ClearKeys, Clear, ClearFails, Fail
  <2> QED
    BY <1>3, <1>4, <2>1
<1>12. ASSUME NEW w \in Workers, WorkerStep(w) \/ LastLocalStep(w) \/ LastCommand(w) PROVE LimitsInv'
  <2>1. Step(w) /\ main' = main /\ collected' = collected
    BY <1>12, TasksStep DEF WorkerStep, LastLocalStep, LastCommand, mainVars
  <2>2. faults <= faults'
    BY <1>1, <2>1, OnlySendReports
  <2>3. main \in {"collect", "drain", "clear"} => PoolLimits'
    <3> SUFFICES ASSUME main \in {"collect", "drain", "clear"} PROVE PoolLimits'
      OBVIOUS
    <3>1. LinksInv /\ PoolLimits
      BY DEF TakenInv, LimitsInv
    <3> QED
      BY <1>1, <2>1, <3>1, PoolLimitsInductive
  <2> QED
    BY <1>3, <1>4, <2>1, <2>2, <2>3
<1>13. ASSUME NEW w \in Workers, Drop(w) PROVE LimitsInv'
  <2>1. main' = main /\ collected' = collected /\ faults' = faults
    BY <1>13 DEF Drop, frontierVars
  <2>2. main \in {"collect", "drain", "clear"} => PoolLimits'
    <3> SUFFICES ASSUME main \in {"collect", "drain", "clear"} PROVE PoolLimits'
      OBVIOUS
    <3>1. PoolLimits
      BY DEF LimitsInv
    <3> QED
      BY <1>1, <1>13, <3>1, DropKeepsLimits
  <2>3. faults <= faults'
    BY <1>1, <2>1
  <2> QED
    BY <1>3, <1>4, <2>1, <2>2, <2>3
<1>14. CASE UNCHANGED runVars
  BY <1>9, <1>14 DEF runVars, mainVars
<1> QED
  BY <1>6, <1>7, <1>8, <1>10, <1>11, <1>12, <1>13, <1>14 DEF RunNext, RunStopped, Main, WorkerTask

(* The result of a crawl is within the limits it was given, whatever the   *)
(* workers and the driving task interleave to, and wherever the timeout    *)
(* cuts the crawl off.                                                     *)
THEOREM TheResultIsWithinLimits == RunSpec => []ResultWithinLimits
<1>1. RunInit => LimitsInv
  <2> SUFFICES ASSUME RunInit PROVE LimitsInv
    OBVIOUS
  <2>1. collected = <<>> /\ main = "seed" /\ faults = 0
    BY DEF RunInit, FrontierInit
  <2> QED
    BY <2>1, CapIsPositive DEF LimitsInv, ResultWithinLimits
<1>2. /\ RunTypeOK /\ RunTypeOK' /\ RunInv /\ TakenInv /\ TakenInv' /\ LimitsInv
      /\ [RunNext]_runVars /\ (Init' => PoolLimits')
      => LimitsInv'
  BY LimitsInvInductive
<1>3. LimitsInv => ResultWithinLimits
  BY DEF LimitsInv
<1> QED
  BY <1>1, <1>2, <1>3, TakenInvariant, PoolStartsWithinLimits, RunTypeCorrect, RunInvariant,
     PTL DEF RunSpec

-----------------------------------------------------------------------------
(***************************************************************************)
(* Queries.  What a filter and a sort do is proved by induction on the     *)
(* sequence, or on the number of the keys, in terms of a set of the values *)
(* of which the fact is true.                                              *)
(***************************************************************************)

(* Induction on the naturals and on sequences, for a set that is given.    *)
LEMMA NatsByInduction ==
    ASSUME NEW T \in SUBSET Nat, 0 \in T, \A n \in T : n + 1 \in T
    PROVE  T = Nat
<1>. DEFINE Less == OpToRel(<, Nat)
            Bad == Nat \ T
<1>. SUFFICES ASSUME Bad # {} PROVE FALSE
  OBVIOUS
<1>1. \A m, n \in Nat : <<m, n>> \in Less <=> m < n
  BY DEF OpToRel
<1>2. IsWellFoundedOn(Less, Nat)
  BY NatLessThanWellFounded
<1>3. Bad \in SUBSET Nat
  OBVIOUS
<1>. HIDE DEF Less, Bad
<1>4. PICK m \in Bad : \A n \in Bad : ~(<<n, m>> \in Less)
  BY <1>2, <1>3, WFMin
<1>5. m \in Nat /\ m \notin T
  BY <1>4 DEF Bad
<1>6. m # 0 /\ m - 1 \in Nat /\ m - 1 < m
  BY <1>5
<1>7. m - 1 \in T
  BY <1>1, <1>4, <1>5, <1>6 DEF Bad
<1>8. (m - 1) + 1 \in T
  BY <1>7
<1>. QED
  BY <1>5, <1>8

LEMMA SeqsByInduction ==
    ASSUME NEW S, NEW T \in SUBSET Seq(S), <<>> \in T,
           \A s \in T, e \in S : Append(s, e) \in T
    PROVE  T = Seq(S)
<1>. DEFINE N == {n \in Nat : \A s \in Seq(S) : Len(s) = n => s \in T}
<1>1. N \in SUBSET Nat
  OBVIOUS
<1>2. 0 \in N
  <2>1. \A s \in Seq(S) : Len(s) = 0 => s = <<>>
    OBVIOUS
  <2>. QED
    BY <2>1
<1>3. ASSUME NEW n \in N PROVE n + 1 \in N
  <2>1. ASSUME NEW s \in Seq(S), Len(s) = n + 1 PROVE s \in T
    <3>. DEFINE front == SubSeq(s, 1, n)
    <3>1. front \in Seq(S) /\ Len(front) = n /\ s[n + 1] \in S
      BY <2>1
    <3>2. front \in T
      BY <3>1
    <3>3. Append(front, s[n + 1]) = s
      <4>1. /\ Append(front, s[n + 1]) \in Seq(S) /\ Len(Append(front, s[n + 1])) = n + 1
            /\ \A i \in 1 .. n + 1 : Append(front, s[n + 1])[i] = s[i]
        BY <2>1, <3>1
      <4>2. \A t \in Seq(S) : Len(t) = n + 1 /\ (\A i \in 1 .. n + 1 : t[i] = s[i]) => t = s
        BY <2>1
      <4>. HIDE DEF front
      <4>. QED
        BY <4>1, <4>2
    <3>. HIDE DEF front
    <3>. QED
      BY <3>1, <3>2, <3>3
  <2>2. n + 1 \in Nat
    OBVIOUS
  <2>. QED
    BY <2>1, <2>2
<1>. HIDE DEF N
<1>4. N = Nat
  BY <1>1, <1>2, <1>3, NatsByInduction
<1>5. ASSUME NEW s \in Seq(S) PROVE s \in T
  <2>1. Len(s) \in N
    BY <1>4
  <2>. QED
    BY <2>1 DEF N
<1>. QED
  BY <1>5

(* What a flattened sequence asks of the function that it chooses.         *)
Flattens(q, n, f) ==
    f = [i \in 1 .. n |-> IF i = 1 THEN q[i] ELSE f[i - 1] \o q[i]]

LEMMA FlattensExist ==
    ASSUME NEW q
    PROVE  \A n \in Nat : \E f : Flattens(q, n, f)
<1>. DEFINE Good == {n \in Nat : \E f : Flattens(q, n, f)}
<1>1. 0 \in Good
  <2>. DEFINE f == [i \in 1 .. 0 |-> <<>>]
  <2>1. Flattens(q, 0, f)
    BY DEF Flattens
  <2>. QED
    BY <2>1
<1>2. ASSUME NEW n \in Good PROVE n + 1 \in Good
  <2>1. PICK f : Flattens(q, n, f)
    BY <1>2
  <2>. DEFINE m == n + 1
              G == [i \in 1 .. m |-> IF i < m THEN f[i]
                                     ELSE IF m = 1 THEN q[m] ELSE f[m - 1] \o q[m]]
  <2>2. m \in Nat /\ m >= 1 /\ m - 1 = n
    OBVIOUS
  <2>3. ASSUME NEW i \in 1 .. m
        PROVE  G[i] = IF i = 1 THEN q[i] ELSE G[i - 1] \o q[i]
    <3>. HIDE DEF m
    <3>1. CASE i = m
      BY <2>2, <3>1
    <3>2. CASE i < m
      <4>1. i \in 1 .. n /\ (i # 1 => i - 1 \in 1 .. m /\ i - 1 < m)
        BY <2>2, <3>2
      <4>2. f[i] = IF i = 1 THEN q[i] ELSE f[i - 1] \o q[i]
        BY <2>1, <4>1 DEF Flattens
      <4>3. G[i] = f[i] /\ (i # 1 => G[i - 1] = f[i - 1])
        BY <3>2, <4>1
      <4>. QED
        BY <4>2, <4>3
    <3>. QED
      BY <2>2, <3>1, <3>2
  <2>4. G = [i \in 1 .. m |-> G[i]]
    OBVIOUS
  <2>. HIDE DEF G
  <2>5. Flattens(q, m, G)
    BY <2>3, <2>4 DEF Flattens
  <2>. HIDE DEF m
  <2>6. \E g : Flattens(q, m, g)
    BY <2>5
  <2>. QED
    BY <2>2, <2>6 DEF m
<1>3. Good \in SUBSET Nat
  OBVIOUS
<1>. HIDE DEF Good
<1>4. Good = Nat
  BY <1>1, <1>2, <1>3, NatsByInduction
<1>. QED
  BY <1>4 DEF Good

(* Flattening goes from left to right.                                     *)
LEMMA FlattenIs ==
    ASSUME NEW S, NEW n \in Nat, NEW f, NEW q \in [1 .. n -> Seq(S)], Flattens(q, n, f)
    PROVE  \A i \in 1 .. n : f[i] \in Seq(S)
<1>0. \A j \in 1 .. n : f[j] = IF j = 1 THEN q[j] ELSE f[j - 1] \o q[j]
  BY DEF Flattens
<1>. DEFINE Good == {i \in Nat : i \in 1 .. n => f[i] \in Seq(S)}
<1>1. 0 \in Good /\ Good \in SUBSET Nat
  OBVIOUS
<1>2. ASSUME NEW i \in Good PROVE i + 1 \in Good
  <2>. SUFFICES ASSUME i + 1 \in 1 .. n PROVE f[i + 1] \in Seq(S)
    OBVIOUS
  <2>1. f[i + 1] = IF i + 1 = 1 THEN q[i + 1] ELSE f[i] \o q[i + 1]
    BY <1>0, (i + 1) - 1 = i
  <2>2. q[i + 1] \in Seq(S)
    OBVIOUS
  <2>3. CASE i = 0
    BY <2>1, <2>2, <2>3
  <2>4. CASE i # 0
    <3>1. f[i] \in Seq(S)
      BY <2>4
    <3>2. \A s, t \in Seq(S) : s \o t \in Seq(S)
      OBVIOUS
    <3>. QED
      BY <2>1, <2>2, <2>4, <3>1, <3>2
  <2>. QED
    BY <2>3, <2>4
<1>. HIDE DEF Good
<1>3. Good = Nat
  BY <1>1, <1>2, NatsByInduction
<1>. QED
  BY <1>3 DEF Good

LEMMA FlattensAgree ==
    ASSUME NEW n \in Nat, NEW m \in Nat, n <= m, NEW f, NEW g, NEW q, NEW r,
           Flattens(q, n, f), Flattens(r, m, g), \A i \in 1 .. n : q[i] = r[i]
    PROVE  \A i \in 1 .. n : f[i] = g[i]
<1>0. \A j \in 1 .. n : f[j] = IF j = 1 THEN q[j] ELSE f[j - 1] \o q[j]
  BY DEF Flattens
<1>00. \A j \in 1 .. m : g[j] = IF j = 1 THEN r[j] ELSE g[j - 1] \o r[j]
  BY DEF Flattens
<1>. DEFINE Good == {i \in Nat : i \in 1 .. n => f[i] = g[i]}
<1>1. 0 \in Good /\ Good \in SUBSET Nat
  OBVIOUS
<1>2. ASSUME NEW i \in Good PROVE i + 1 \in Good
  <2>. SUFFICES ASSUME i + 1 \in 1 .. n PROVE f[i + 1] = g[i + 1]
    OBVIOUS
  <2>1. f[i + 1] = IF i + 1 = 1 THEN q[i + 1] ELSE f[i] \o q[i + 1]
    BY <1>0, (i + 1) - 1 = i
  <2>2. i + 1 \in 1 .. m
    OBVIOUS
  <2>3. g[i + 1] = IF i + 1 = 1 THEN r[i + 1] ELSE g[i] \o r[i + 1]
    BY <1>00, <2>2, (i + 1) - 1 = i
  <2>4. q[i + 1] = r[i + 1] /\ (i # 0 => f[i] = g[i])
    OBVIOUS
  <2>. QED
    BY <2>1, <2>3, <2>4
<1>. HIDE DEF Good
<1>3. Good = Nat
  BY <1>1, <1>2, NatsByInduction
<1>. QED
  BY <1>3 DEF Good

LEMMA FlattenEmpty == FlattenSeq(<<>>) = <<>>
  BY DEF FlattenSeq

(* One sequence more is joined to what the others make.                    *)
LEMMA FlattenAppend ==
    ASSUME NEW S, NEW n \in Nat, NEW q \in [1 .. n + 1 -> Seq(S)], NEW r \in [1 .. n -> Seq(S)],
           \A i \in 1 .. n : r[i] = q[i]
    PROVE  /\ FlattenSeq(q) = FlattenSeq(r) \o q[n + 1]
           /\ FlattenSeq(q) \in Seq(S)
           /\ FlattenSeq(r) \in Seq(S)
<1>. DEFINE F == CHOOSE f : Flattens(q, n + 1, f)
            G == CHOOSE f : Flattens(r, n, f)
<1>1. q \in Seq(Seq(S)) /\ Len(q) = n + 1 /\ r \in Seq(Seq(S)) /\ Len(r) = n /\ n + 1 \in Nat
  OBVIOUS
<1>2. FlattenSeq(q) = IF n + 1 = 0 THEN q ELSE F[n + 1]
  BY <1>1 DEF FlattenSeq, Flattens
<1>3. FlattenSeq(r) = IF n = 0 THEN r ELSE G[n]
  BY <1>1 DEF FlattenSeq, Flattens
<1>4. Flattens(q, n + 1, F) /\ Flattens(r, n, G)
  <2>1. (\E f : Flattens(q, n + 1, f)) /\ (\E f : Flattens(r, n, f))
    BY <1>1, FlattensExist
  <2>. QED
    BY <2>1
<1>. HIDE DEF F, G
<1>5. \A i \in 1 .. n : G[i] = F[i]
  <2>1. n <= n + 1 /\ \A i \in 1 .. n : r[i] = q[i]
    OBVIOUS
  <2>. QED
    BY <1>1, <1>4, <2>1, FlattensAgree, SMTT(30)
<1>6. \A i \in 1 .. n + 1 : F[i] \in Seq(S)
  BY <1>1, <1>4, FlattenIs
<1>7. F[n + 1] = IF n + 1 = 1 THEN q[n + 1] ELSE F[n] \o q[n + 1]
  <2>1. \A j \in 1 .. n + 1 : F[j] = IF j = 1 THEN q[j] ELSE F[j - 1] \o q[j]
    BY <1>4 DEF Flattens
  <2>. QED
    BY <2>1, (n + 1) - 1 = n
<1>8. CASE n = 0
  <2>1. r = <<>> /\ q[n + 1] \in Seq(S) /\ r \in Seq(S)
    BY <1>8
  <2>2. <<>> \o q[n + 1] = q[n + 1]
    BY <2>1
  <2>. QED
    BY <1>2, <1>3, <1>6, <1>7, <1>8, <2>1, <2>2
<1>9. CASE n # 0
  <2>1. G[n] = F[n] /\ F[n] \in Seq(S) /\ F[n + 1] \in Seq(S)
    BY <1>5, <1>6, <1>9
  <2>2. n + 1 # 0 /\ n + 1 # 1
    BY <1>9
  <2>. QED
    BY <1>2, <1>3, <1>7, <1>9, <2>1, <2>2
<1>. QED
  BY <1>8, <1>9

(* One pair more is kept or not.                                           *)
KeptPair(e, K) == IF e[1] \in K THEN <<e>> ELSE <<>>

LEMMA OnlyEmpty == \A K : Only(<<>>, K) = <<>>
<1>. SUFFICES ASSUME NEW K PROVE Only(<<>>, K) = <<>>
  OBVIOUS
<1>1. [i \in DOMAIN <<>> |-> IF <<>>[i][1] \in K THEN <<<<>>[i]>> ELSE <<>>] = <<>>
  OBVIOUS
<1>. QED
  BY <1>1, FlattenEmpty DEF Only

LEMMA OnlyAppend ==
    ASSUME NEW S, NEW q \in Seq(S), NEW e \in S, NEW K
    PROVE  /\ Only(Append(q, e), K) = Only(q, K) \o KeptPair(e, K)
           /\ Only(Append(q, e), K) \in Seq(S)
           /\ Only(q, K) \in Seq(S)
<1>. DEFINE n == Len(q)
            p == Append(q, e)
            keep(s) == [i \in DOMAIN s |-> IF s[i][1] \in K THEN <<s[i]>> ELSE <<>>]
            a == keep(p)
            b == keep(q)
<1>1. /\ n \in Nat /\ DOMAIN q = 1 .. n /\ DOMAIN p = 1 .. n + 1
      /\ p[n + 1] = e /\ \A i \in 1 .. n : p[i] = q[i] /\ q[i] \in S
  OBVIOUS
<1>2. Only(p, K) = FlattenSeq(a) /\ Only(q, K) = FlattenSeq(b)
  BY DEF Only
<1>3. \A x \in S : <<x>> \in Seq(S) /\ <<>> \in Seq(S)
  OBVIOUS
<1>. HIDE DEF n, p
<1>4. b \in [1 .. n -> Seq(S)]
  BY <1>1, <1>3
<1>5. \A i \in 1 .. n + 1 : p[i] \in S
  <2>1. \A i \in 1 .. n + 1 : i = n + 1 \/ i \in 1 .. n
    BY <1>1
  <2>. QED
    BY <1>1, <2>1
<1>6. a \in [1 .. n + 1 -> Seq(S)]
  BY <1>1, <1>3, <1>5
<1>7. \A i \in 1 .. n : b[i] = a[i]
  BY <1>1
<1>8. a[n + 1] = KeptPair(e, K)
  <2>1. n + 1 \in 1 .. n + 1
    BY <1>1
  <2>. QED
    BY <1>1, <2>1 DEF KeptPair
<1>. HIDE DEF a, b
<1>9. FlattenSeq(a) = FlattenSeq(b) \o a[n + 1] /\ FlattenSeq(a) \in Seq(S) /\ FlattenSeq(b) \in Seq(S)
  BY <1>1, <1>4, <1>6, <1>7, FlattenAppend
<1>. QED
  BY <1>2, <1>8, <1>9 DEF p

LEMMA OnlyIn ==
    ASSUME NEW S, NEW q \in Seq(S), NEW K
    PROVE  Only(q, K) \in Seq(S)
<1>. DEFINE T == {t \in Seq(S) : Only(t, K) \in Seq(S)}
<1>1. T \in SUBSET Seq(S) /\ <<>> \in T
  <2>1. <<>> \in Seq(S) /\ Only(<<>>, K) = <<>>
    BY OnlyEmpty
  <2>. QED
    BY <2>1
<1>2. \A t \in T, e \in S : Append(t, e) \in T
  <2>. SUFFICES ASSUME NEW t \in T, NEW e \in S PROVE Append(t, e) \in T
    OBVIOUS
  <2>1. t \in Seq(S) /\ Append(t, e) \in Seq(S)
    OBVIOUS
  <2>. QED
    BY <2>1, OnlyAppend
<1>. HIDE DEF T
<1>3. T = Seq(S)
  BY <1>1, <1>2, SeqsByInduction
<1>. QED
  BY <1>3 DEF T

(* Filters of a joined sequence and of a filtered one.                     *)
LEMMA OnlyJoined ==
    ASSUME NEW S, NEW s \in Seq(S), NEW t \in Seq(S), NEW K
    PROVE  Only(s \o t, K) = Only(s, K) \o Only(t, K)
<1>a. \A x \in Seq(S), e \in S : Only(Append(x, e), K) = Only(x, K) \o KeptPair(e, K)
  BY OnlyAppend, Zenon
<1>. DEFINE T == {x \in Seq(S) : Only(s \o x, K) = Only(s, K) \o Only(x, K)}
<1>1. T \in SUBSET Seq(S) /\ <<>> \in T
  <2>1. s \o <<>> = s /\ Only(s, K) \in Seq(S) /\ Only(<<>>, K) = <<>>
    BY OnlyIn, OnlyEmpty
  <2>2. Only(s, K) \o <<>> = Only(s, K)
    BY <2>1
  <2>3. Only(s \o <<>>, K) = Only(s, K) \o Only(<<>>, K)
    BY <2>1, <2>2, Zenon
  <2>4. <<>> \in Seq(S)
    OBVIOUS
  <2>. QED
    BY <2>3, <2>4
<1>2. ASSUME NEW x \in T, NEW e \in S PROVE Append(x, e) \in T
  <2>1. x \in Seq(S) /\ Append(x, e) \in Seq(S) /\ s \o x \in Seq(S)
        /\ KeptPair(e, K) \in Seq(S)
    BY DEF KeptPair
  <2>2. s \o Append(x, e) = Append(s \o x, e)
    BY <2>1
  <2>3. Only(Append(s \o x, e), K) = Only(s \o x, K) \o KeptPair(e, K)
    BY <1>a, <2>1
  <2>4. Only(Append(x, e), K) = Only(x, K) \o KeptPair(e, K)
    BY <1>a, <2>1
  <2>5. Only(s \o x, K) = Only(s, K) \o Only(x, K)
    OBVIOUS
  <2>6. Only(s, K) \in Seq(S) /\ Only(x, K) \in Seq(S)
    BY <2>1, OnlyIn
  <2>7. (Only(s, K) \o Only(x, K)) \o KeptPair(e, K) = Only(s, K) \o (Only(x, K) \o KeptPair(e, K))
    BY <2>1, <2>6
  <2>. QED
    BY <2>1, <2>2, <2>3, <2>4, <2>5, <2>7
<1>. HIDE DEF T
<1>3. T = Seq(S)
  BY <1>1, <1>2, SeqsByInduction
<1>. QED
  BY <1>3 DEF T

LEMMA OnlyOnly ==
    ASSUME NEW S, NEW q \in Seq(S), NEW K, NEW L
    PROVE  Only(Only(q, K), L) = Only(q, K \cap L)
<1>a. \A s, t \in Seq(S) : \A M : Only(s \o t, M) = Only(s, M) \o Only(t, M)
  BY OnlyJoined
<1>b. \A s \in Seq(S), e \in S : \A M : Only(Append(s, e), M) = Only(s, M) \o KeptPair(e, M)
  BY OnlyAppend
<1>. DEFINE T == {x \in Seq(S) : Only(Only(x, K), L) = Only(x, K \cap L)}
<1>1. T \in SUBSET Seq(S) /\ <<>> \in T
  BY OnlyEmpty
<1>2. ASSUME NEW x \in T, NEW e \in S PROVE Append(x, e) \in T
  <2>1. x \in Seq(S) /\ Append(x, e) \in Seq(S) /\ KeptPair(e, K) \in Seq(S)
    BY DEF KeptPair
  <2>2. \A M : Only(Append(x, e), M) = Only(x, M) \o KeptPair(e, M)
    BY <1>b, <2>1
  <2>3. Only(x, K) \in Seq(S)
    BY <2>1, OnlyIn
  <2>4. Only(KeptPair(e, K), L) = KeptPair(e, K \cap L)
    <3>1. Only(<<e>>, L) = KeptPair(e, L)
      <4>1. <<>> \in Seq(S) /\ Append(<<>>, e) = <<e>>
        OBVIOUS
      <4>2. Only(Append(<<>>, e), L) = Only(<<>>, L) \o KeptPair(e, L)
        BY <1>b, <4>1, Zenon
      <4>3. KeptPair(e, L) \in Seq(S)
        BY DEF KeptPair
      <4>4. <<>> \o KeptPair(e, L) = KeptPair(e, L)
        BY <4>3
      <4>. QED
        BY <4>1, <4>2, <4>4, OnlyEmpty
    <3>. QED
      BY <3>1, OnlyEmpty DEF KeptPair
  <2>5. Only(Only(x, K) \o KeptPair(e, K), L) = Only(Only(x, K), L) \o Only(KeptPair(e, K), L)
    BY <1>a, <2>1, <2>3
  <2>6. Only(Only(x, K), L) = Only(x, K \cap L)
    OBVIOUS
  <2>. QED
    BY <2>1, <2>2, <2>4, <2>5, <2>6
<1>. HIDE DEF T
<1>3. T = Seq(S)
  BY <1>1, <1>2, SeqsByInduction
<1>. QED
  BY <1>3 DEF T

LEMMA OnlyNone ==
    ASSUME NEW S, NEW q \in Seq(S)
    PROVE  Only(q, {}) = <<>>
<1>. DEFINE T == {x \in Seq(S) : Only(x, {}) = <<>>}
<1>1. T \in SUBSET Seq(S) /\ <<>> \in T
  BY OnlyEmpty
<1>2. ASSUME NEW x \in T, NEW e \in S PROVE Append(x, e) \in T
  <2>1. x \in Seq(S) /\ Append(x, e) \in Seq(S)
    OBVIOUS
  <2>2. Only(Append(x, e), {}) = Only(x, {}) \o KeptPair(e, {})
    BY <2>1, OnlyAppend
  <2>. QED
    BY <2>1, <2>2 DEF KeptPair
<1>. HIDE DEF T
<1>3. T = Seq(S)
  BY <1>1, <1>2, SeqsByInduction
<1>. QED
  BY <1>3 DEF T

(* The pairs of the first keys, key by key.                                *)
Upto(q, n) == FlattenSeq([i \in 1 .. n |-> Only(q, {Keys[i]})])

LEMMA UptoGrows ==
    ASSUME NEW S, NEW q \in Seq(S), NEW n \in Nat
    PROVE  /\ Upto(q, n + 1) = Upto(q, n) \o Only(q, {Keys[n + 1]})
           /\ Upto(q, n) \in Seq(S)
           /\ Upto(q, 0) = <<>>
<1>. DEFINE of(i) == Only(q, {Keys[i]})
            a == [i \in 1 .. n + 1 |-> of(i)]
            b == [i \in 1 .. n |-> of(i)]
<1>1. \A i \in Nat : of(i) \in Seq(S)
  BY OnlyIn
<1>. HIDE DEF of
<1>2. a \in [1 .. n + 1 -> Seq(S)] /\ b \in [1 .. n -> Seq(S)]
  BY <1>1
<1>3. (\A i \in 1 .. n : b[i] = a[i]) /\ a[n + 1] = of(n + 1)
  OBVIOUS
<1>4. Upto(q, n + 1) = FlattenSeq(a) /\ Upto(q, n) = FlattenSeq(b)
  BY DEF Upto, of
<1>. HIDE DEF a, b
<1>5. FlattenSeq(a) = FlattenSeq(b) \o a[n + 1] /\ FlattenSeq(b) \in Seq(S)
  BY <1>2, <1>3, FlattenAppend
<1>6. Upto(q, 0) = <<>>
  <2>1. [i \in 1 .. 0 |-> Only(q, {Keys[i]})] = <<>>
    OBVIOUS
  <2>. QED
    BY <2>1, FlattenEmpty DEF Upto
<1>. QED
  BY <1>3, <1>4, <1>5, <1>6 DEF of

LEMMA SortedIsUpto ==
    ASSUME NEW q
    PROVE  Len(Keys) \in Nat /\ DOMAIN Keys = 1 .. Len(Keys) /\ SortedByKey(q) = Upto(q, Len(Keys))
<1>1. Len(Keys) \in Nat /\ DOMAIN Keys = 1 .. Len(Keys)
  BY SiteAssumption
<1>. QED
  BY <1>1 DEF SortedByKey, Upto

LEMMA SortedIn ==
    ASSUME NEW S, NEW q \in Seq(S)
    PROVE  SortedByKey(q) \in Seq(S)
  BY SortedIsUpto, UptoGrows

(* The sort is stable: the pairs of a key stay what they were, in the      *)
(* order they were in.                                                     *)
LEMMA SortIsStable ==
    ASSUME NEW S, NEW q \in Seq(S), NEW k \in DOMAIN Keys
    PROVE  Only(SortedByKey(q), {Keys[k]}) = Only(q, {Keys[k]})
<1>. DEFINE N == Len(Keys)
            of(i) == Only(q, {Keys[i]})
            Good == {n \in Nat : n <= N =>
                       Only(Upto(q, n), {Keys[k]}) = IF k <= n THEN of(k) ELSE <<>>}
<1>1. N \in Nat /\ DOMAIN Keys = 1 .. N /\ k \in 1 .. N /\ SortedByKey(q) = Upto(q, N)
  BY SortedIsUpto
<1>2. \A i, j \in 1 .. N : Keys[i] = Keys[j] => i = j
  BY <1>1, SiteAssumption
<1>3. \A i : of(i) \in Seq(S)
  BY OnlyIn
<1>4. \A n \in Nat : /\ Upto(q, n) \in Seq(S) /\ Upto(q, 0) = <<>>
                     /\ Upto(q, n + 1) = Upto(q, n) \o of(n + 1)
  BY UptoGrows
<1>5. \A s, t \in Seq(S) : \A M : Only(s \o t, M) = Only(s, M) \o Only(t, M)
  BY OnlyJoined
<1>a. \A K, L : Only(Only(q, K), L) = Only(q, K \cap L)
  BY OnlyOnly
<1>6. \A i : Only(of(i), {Keys[k]}) = IF Keys[i] = Keys[k] THEN of(k) ELSE <<>>
  <2>. SUFFICES ASSUME NEW i
                PROVE  Only(of(i), {Keys[k]}) = IF Keys[i] = Keys[k] THEN of(k) ELSE <<>>
    OBVIOUS
  <2>1. Only(of(i), {Keys[k]}) = Only(q, {Keys[i]} \cap {Keys[k]})
    BY <1>a
  <2>2. CASE Keys[i] = Keys[k]
    <3>1. {Keys[i]} \cap {Keys[k]} = {Keys[k]}
      BY <2>2
    <3>. QED
      BY <2>1, <2>2, <3>1
  <2>3. CASE Keys[i] # Keys[k]
    <3>1. {Keys[i]} \cap {Keys[k]} = {}
      BY <2>3
    <3>2. Only(q, {}) = <<>>
      BY OnlyNone
    <3>. QED
      BY <2>1, <2>3, <3>1, <3>2
  <2>. QED
    BY <2>2, <2>3
<1>. HIDE DEF N, of
<1>7. 0 \in Good /\ Good \in SUBSET Nat
  <2>1. Only(Upto(q, 0), {Keys[k]}) = <<>>
    BY <1>4, OnlyEmpty
  <2>2. ~(k <= 0)
    BY <1>1
  <2>. QED
    BY <2>1, <2>2
<1>8. ASSUME NEW n \in Good PROVE n + 1 \in Good
  <2>0. n \in Nat /\ n + 1 \in Nat
    OBVIOUS
  <2>1. SUFFICES ASSUME n + 1 <= N
                 PROVE  Only(Upto(q, n + 1), {Keys[k]}) = IF k <= n + 1 THEN of(k) ELSE <<>>
    BY <2>0
  <2>2. n + 1 \in 1 .. N /\ n <= N
    BY <1>1, <2>0, <2>1
  <2>3. Only(Upto(q, n), {Keys[k]}) = IF k <= n THEN of(k) ELSE <<>>
    BY <2>2
  <2>4. Upto(q, n + 1) = Upto(q, n) \o of(n + 1) /\ Upto(q, n) \in Seq(S)
    BY <1>4, <2>0
  <2>5. Only(Upto(q, n + 1), {Keys[k]}) = Only(Upto(q, n), {Keys[k]}) \o Only(of(n + 1), {Keys[k]})
    <3>. PICK s \in Seq(S) : s = Upto(q, n)
      BY <2>4
    <3>. PICK t \in Seq(S) : t = of(n + 1)
      BY <1>3
    <3>1. Only(s \o t, {Keys[k]}) = Only(s, {Keys[k]}) \o Only(t, {Keys[k]})
      BY <1>5
    <3>. QED
      BY <2>4, <3>1
  <2>6. Only(of(n + 1), {Keys[k]}) = IF n + 1 = k THEN of(k) ELSE <<>>
    BY <1>1, <1>2, <1>6, <2>2
  <2>7. of(k) \in Seq(S) /\ of(k) \o <<>> = of(k) /\ <<>> \o of(k) = of(k)
    BY <1>3
  <2>8. CASE k <= n
    <3>1. n + 1 # k /\ k <= n + 1
      BY <1>1, <2>0, <2>8
    <3>. QED
      BY <2>3, <2>5, <2>6, <2>7, <2>8, <3>1
  <2>9. CASE k = n + 1
    <3>1. ~(k <= n) /\ k <= n + 1
      BY <1>1, <2>0, <2>9
    <3>. QED
      BY <2>3, <2>5, <2>6, <2>7, <2>9, <3>1
  <2>10. CASE ~(k <= n) /\ k # n + 1
    <3>1. ~(k <= n + 1)
      BY <1>1, <2>0, <2>10
    <3>2. <<>> \o <<>> = <<>>
      OBVIOUS
    <3>. QED
      BY <2>3, <2>5, <2>6, <2>10, <3>1, <3>2
  <2>. QED
    BY <2>8, <2>9, <2>10
<1>. HIDE DEF Good
<1>9. Good = Nat
  BY <1>7, <1>8, NatsByInduction
<1>10. N \in Good /\ k <= N /\ N <= N
  BY <1>1, <1>9
<1>11. Only(Upto(q, N), {Keys[k]}) = of(k)
  <2>1. Only(Upto(q, N), {Keys[k]}) = IF k <= N THEN of(k) ELSE <<>>
    BY <1>10 DEF Good
  <2>. QED
    BY <1>10, <2>1
<1>12. of(k) = Only(q, {Keys[k]})
  BY DEF of
<1>13. SortedByKey(q) = Upto(q, N)
  BY <1>1
<1>. QED
  BY <1>11, <1>12, <1>13, Zenon

(* A query is empty when it has no pair of any key, and two queries with   *)
(* the same pairs of each key are sorted into one.                         *)
LEMMA EmptyByKeys ==
    ASSUME NEW q \in Seq(Pairs), \A k \in DOMAIN Keys : Only(q, {Keys[k]}) = <<>>
    PROVE  q = <<>>
<1>a. \A x \in Seq(Pairs), e \in Pairs : \A K : Only(Append(x, e), K) = Only(x, K) \o KeptPair(e, K)
  <2> SUFFICES ASSUME NEW x \in Seq(Pairs), NEW e \in Pairs, NEW K
               PROVE  Only(Append(x, e), K) = Only(x, K) \o KeptPair(e, K)
    OBVIOUS
  <2> QED
    BY OnlyAppend, SMTT(30)
<1>. DEFINE T == {x \in Seq(Pairs) : x # <<>> => \E k \in DOMAIN Keys : Only(x, {Keys[k]}) # <<>>}
<1>1. T \in SUBSET Seq(Pairs) /\ <<>> \in T
  OBVIOUS
<1>2. ASSUME NEW x \in T, NEW e \in Pairs PROVE Append(x, e) \in T
  <2>1. x \in Seq(Pairs) /\ Append(x, e) \in Seq(Pairs)
    OBVIOUS
  <2>2. PICK k \in DOMAIN Keys : e[1] = Keys[k]
    BY SiteAssumption DEF Range
  <2>3. Only(Append(x, e), {Keys[k]}) = Only(x, {Keys[k]}) \o KeptPair(e, {Keys[k]})
    BY <1>a, <2>1
  <2>4. Only(x, {Keys[k]}) \in Seq(Pairs)
    BY <2>1, OnlyIn
  <2>5. KeptPair(e, {Keys[k]}) = <<e>>
    BY <2>2 DEF KeptPair
  <2>6. \A s \in Seq(Pairs) : s \o <<e>> # <<>>
    OBVIOUS
  <2>7. Only(Append(x, e), {Keys[k]}) # <<>>
    BY <2>3, <2>4, <2>5, <2>6
  <2>. QED
    BY <2>1, <2>7
<1>. HIDE DEF T
<1>3. T = Seq(Pairs)
  BY <1>1, <1>2, SeqsByInduction
<1>. QED
  BY <1>3 DEF T

LEMMA SortedByKeys ==
    ASSUME NEW q, NEW r, \A k \in DOMAIN Keys : Only(q, {Keys[k]}) = Only(r, {Keys[k]})
    PROVE  SortedByKey(q) = SortedByKey(r)
<1>1. [i \in DOMAIN Keys |-> Only(q, {Keys[i]})] = [i \in DOMAIN Keys |-> Only(r, {Keys[i]})]
  OBVIOUS
<1>. QED
  BY <1>1 DEF SortedByKey

(* What a normal form keeps of a URL, and what it does with the query: the *)
(* pairs of a key that tracks are gone, those of another are as they were. *)
LEMMA NormalFields ==
    ASSUME NEW u, IsUrl(u)
    PROVE  LET v == Normalized(u)
           IN  /\ IsUrl(v)
               /\ v = [scheme |-> u.scheme, host |-> u.host, port |-> u.port, path |-> u.path,
                       mark |-> v.query # <<>>, query |-> v.query, fragment |-> ""]
               /\ v.query \in Seq(Pairs)
               /\ v.scheme = u.scheme /\ v.host = u.host /\ v.port = u.port /\ v.path = u.path
               /\ \A k \in DOMAIN Keys :
                     Only(v.query, {Keys[k]}) =
                        IF Keys[k] \in Untracked THEN Only(u.query, {Keys[k]}) ELSE <<>>
<1>. DEFINE kept == Only(u.query, Untracked)
            s == SortedByKey(kept)
            v == Normalized(u)
<1>1. u.query \in Seq(Pairs)
  BY DEF IsUrl
<1>2. kept \in Seq(Pairs)
  BY <1>1, OnlyIn
<1>3. ASSUME NEW k \in DOMAIN Keys
      PROVE  /\ Only(s, {Keys[k]}) = Only(kept, {Keys[k]})
             /\ Only(kept, {Keys[k]}) =
                  IF Keys[k] \in Untracked THEN Only(u.query, {Keys[k]}) ELSE <<>>
  <2>1. Only(s, {Keys[k]}) = Only(kept, {Keys[k]})
    <3>1. \A q \in Seq(Pairs) : Only(SortedByKey(q), {Keys[k]}) = Only(q, {Keys[k]})
      BY SortIsStable
    <3>. HIDE DEF kept
    <3>. QED
      BY <1>2, <3>1
  <2>2. \A K, L : Only(Only(u.query, K), L) = Only(u.query, K \cap L)
    BY <1>1, OnlyOnly
  <2>3. Only(kept, {Keys[k]}) = Only(u.query, Untracked \cap {Keys[k]})
    BY <2>2
  <2>4. CASE Keys[k] \in Untracked
    <3>1. Untracked \cap {Keys[k]} = {Keys[k]}
      BY <2>4
    <3>. QED
      BY <2>1, <2>3, <2>4, <3>1
  <2>5. CASE Keys[k] \notin Untracked
    <3>1. Untracked \cap {Keys[k]} = {}
      BY <2>5
    <3>2. Only(u.query, {}) = <<>>
      BY <1>1, OnlyNone
    <3>. QED
      BY <2>1, <2>3, <2>5, <3>1, <3>2
  <2>. QED
    BY <2>4, <2>5
<1>. HIDE DEF kept
<1>4. s \in Seq(Pairs)
  BY <1>2, SortedIn
<1>. HIDE DEF s
<1>5. kept = <<>> <=> s = <<>>
  <2>1. ASSUME kept = <<>> PROVE s = <<>>
    <3>1. \A k \in DOMAIN Keys : Only(s, {Keys[k]}) = <<>>
      BY <1>3, <2>1, OnlyEmpty
    <3>. QED
      BY <1>4, <3>1, EmptyByKeys
  <2>2. ASSUME s = <<>> PROVE kept = <<>>
    <3>1. \A k \in DOMAIN Keys : Only(kept, {Keys[k]}) = <<>>
      BY <1>3, <2>2, OnlyEmpty
    <3>. QED
      BY <1>2, <3>1, EmptyByKeys
  <2>. QED
    BY <2>1, <2>2
<1>6. v = [u EXCEPT !.fragment = "", !.query = s, !.mark = (kept # <<>>)]
  BY DEF Normalized, s, kept
<1>7. v = [scheme |-> u.scheme, host |-> u.host, port |-> u.port, path |-> u.path,
           mark |-> s # <<>>, query |-> s, fragment |-> ""]
  BY <1>5, <1>6 DEF IsUrl
<1>. HIDE DEF v
<1>8. /\ v.query = s /\ IsUrl(v)
      /\ v.scheme = u.scheme /\ v.host = u.host /\ v.port = u.port /\ v.path = u.path
  BY <1>4, <1>7 DEF IsUrl
<1>9. \A k \in DOMAIN Keys : Only(v.query, {Keys[k]}) =
                                IF Keys[k] \in Untracked THEN Only(u.query, {Keys[k]}) ELSE <<>>
  BY <1>3, <1>8
<1>. QED
  BY <1>4, <1>7, <1>8, <1>9 DEF v

(* Two URLs get one normal form if and only if they are one page: the      *)
(* crawl neither visits a page twice under two spellings nor takes two     *)
(* pages for one.                                                          *)
THEOREM NormalFormsArePages ==
    ASSUME NEW u, NEW v, IsUrl(u), IsUrl(v)
    PROVE  Normalized(u) = Normalized(v) <=> SamePage(u, v)
<1>. DEFINE p == Normalized(u)
            q == Normalized(v)
            of(w, k) == Only(w.query, {Keys[k]})
            rest(w, k) == IF Keys[k] \in Untracked THEN of(w, k) ELSE <<>>
<1>1. /\ p = [scheme |-> u.scheme, host |-> u.host, port |-> u.port, path |-> u.path,
              mark |-> p.query # <<>>, query |-> p.query, fragment |-> ""]
      /\ p.scheme = u.scheme /\ p.host = u.host /\ p.port = u.port /\ p.path = u.path
      /\ \A k \in DOMAIN Keys : of(p, k) = rest(u, k)
  BY NormalFields
<1>2. /\ q = [scheme |-> v.scheme, host |-> v.host, port |-> v.port, path |-> v.path,
              mark |-> q.query # <<>>, query |-> q.query, fragment |-> ""]
      /\ q.scheme = v.scheme /\ q.host = v.host /\ q.port = v.port /\ q.path = v.path
      /\ \A k \in DOMAIN Keys : of(q, k) = rest(v, k)
  BY NormalFields
<1>3. /\ p.query = SortedByKey(Only(u.query, Untracked))
      /\ q.query = SortedByKey(Only(v.query, Untracked))
  BY DEF Normalized, IsUrl
<1>4. \A key \in Untracked : \E k \in DOMAIN Keys : key = Keys[k]
  BY DEF Untracked, Range
<1>5. ASSUME p = q PROVE SamePage(u, v)
  <2>1. u.scheme = v.scheme /\ u.host = v.host /\ u.port = v.port /\ u.path = v.path
    <3>. HIDE DEF p, q
    <3>. QED
      BY <1>1, <1>2, <1>5
  <2>2. ASSUME NEW key \in Untracked PROVE Only(u.query, {key}) = Only(v.query, {key})
    <3>1. PICK k \in DOMAIN Keys : key = Keys[k]
      BY <1>4
    <3>2. of(p, k) = rest(u, k) /\ of(q, k) = rest(v, k)
      BY <1>1, <1>2
    <3>. HIDE DEF p, q
    <3>. QED
      BY <1>5, <3>1, <3>2
  <2>. QED
    BY <2>1, <2>2 DEF SamePage
<1>6. ASSUME SamePage(u, v) PROVE p = q
  <2>1. p.query = q.query
    <3>1. ASSUME NEW k \in DOMAIN Keys
          PROVE  Only(Only(u.query, Untracked), {Keys[k]}) = Only(Only(v.query, Untracked), {Keys[k]})
      <4>1. \A w : IsUrl(w) => Only(Only(w.query, Untracked), {Keys[k]})
                                  = Only(w.query, Untracked \cap {Keys[k]})
        BY OnlyOnly DEF IsUrl
      <4>2. CASE Keys[k] \in Untracked
        <5>1. Untracked \cap {Keys[k]} = {Keys[k]}
          BY <4>2
        <5>2. Only(u.query, {Keys[k]}) = Only(v.query, {Keys[k]})
          BY <1>6, <4>2 DEF SamePage
        <5>. QED
          BY <4>1, <5>1, <5>2
      <4>3. CASE Keys[k] \notin Untracked
        <5>1. Untracked \cap {Keys[k]} = {}
          BY <4>3
        <5>2. \A w : IsUrl(w) => Only(w.query, {}) = <<>>
          BY OnlyNone DEF IsUrl
        <5>. QED
          BY <4>1, <5>1, <5>2
      <4>. QED
        BY <4>2, <4>3
    <3>. QED
      BY <1>3, <3>1, SortedByKeys
  <2>2. u.scheme = v.scheme /\ u.host = v.host /\ u.port = v.port /\ u.path = v.path
    BY <1>6 DEF SamePage
  <2>. HIDE DEF p, q
  <2>. QED
    BY <1>1, <1>2, <2>1, <2>2
<1>. QED
  BY <1>5, <1>6

(* Normalising is idempotent, as its documentation says: a URL that was    *)
(* found on a page and is joined and normalised again stays what it is.    *)
THEOREM NormalizeIsIdempotent ==
    ASSUME NEW base, NEW href, Followable(base, href), IsUrl(join(base, href))
    PROVE  LET again == [kind |-> "url", url |-> normalize(base, href)]
           IN  Followable(base, again) /\ normalize(base, again) = normalize(base, href)
<1>. DEFINE x == join(base, href)
            u == Normalized(x)
            again == [kind |-> "url", url |-> normalize(base, href)]
<1>1. again.kind = "url" /\ again.url = u /\ join(base, again) = u /\ Resolves(again)
  BY DEF normalize, join, Resolves
<1>2. x.scheme \in {"http", "https"}
  BY DEF Followable
<1>3. IsUrl(x)
  OBVIOUS
<1>. HIDE DEF x, again
<1>4. /\ IsUrl(u)
      /\ u.scheme = x.scheme /\ u.host = x.host /\ u.port = x.port /\ u.path = x.path
      /\ \A k \in DOMAIN Keys : Only(u.query, {Keys[k]}) =
            IF Keys[k] \in Untracked THEN Only(x.query, {Keys[k]}) ELSE <<>>
  BY <1>3, NormalFields
<1>5. SamePage(u, x)
  <2>1. u.scheme = x.scheme /\ u.host = x.host /\ u.port = x.port /\ u.path = x.path
    <3>. HIDE DEF u
    <3>. QED
      BY <1>4
  <2>2. ASSUME NEW key \in Untracked PROVE Only(u.query, {key}) = Only(x.query, {key})
    <3>1. PICK k \in DOMAIN Keys : key = Keys[k]
      BY DEF Untracked, Range
    <3>. QED
      BY <1>4, <3>1
  <2>. QED
    BY <2>1, <2>2 DEF SamePage
<1>6. Normalized(u) = u
  <2>1. Normalized(u) = Normalized(x)
    BY <1>3, <1>4, <1>5, NormalFormsArePages
  <2>. QED
    BY <2>1
<1>7. Followable(base, again)
  <2>1. u.scheme = x.scheme
    <3>. HIDE DEF u
    <3>. QED
      BY <1>4
  <2>. QED
    BY <1>1, <1>2, <2>1 DEF Followable
<1>8. normalize(base, again) = u /\ normalize(base, href) = u
  BY <1>1, <1>6 DEF normalize, x
<1>. QED
  BY <1>7, <1>8 DEF again

-----------------------------------------------------------------------------
(***************************************************************************)
(* The site.  Whatever set of URLs holds the root and the links of its     *)
(* members, the crawl stays inside it: these are the URLs of the root's    *)
(* host, as the links are written once they are normalised.                *)
(***************************************************************************)
Inside(F) ==
    /\ seen \subseteq F
    /\ \A i \in DOMAIN queue : queue[i].url \in F
    /\ \A w \in Workers : cur[w].url \in F /\ kids[w] \subseteq F /\ kid[w] \in F

LEMMA InsideInductive ==
    ASSUME NEW F \in SUBSET Urls, Root \in F, \A u \in F : Links[u] \subseteq F,
           TypeOK, Inside(F), [Next]_vars
    PROVE  Inside(F)'
<1>1. /\ queue \in Seq(Entries) /\ cur \in [Workers -> Entries]
      /\ kids \in [Workers -> SUBSET Urls] /\ kid \in [Workers -> Urls]
  BY DEF TypeOK, FrontierTypeOK
<1>2. CASE UNCHANGED vars
  BY <1>2 DEF vars, frontierVars, engineVars, Inside
<1>. SUFFICES ASSUME NEW w \in Workers, Step(w) PROVE Inside(F)'
  BY <1>2 DEF Next, Stopped
<1>3. CASE FindNothing(w) \/ Exit(w) \/ GoRound(w)
  BY <1>3 DEF FindNothing, DequeueNothing, Exit, GoRound, frontierVars, keys, Inside
<1>4. CASE Admit(w) \/ Reject(w) \/ Fetch(w)
  BY <1>4 DEF Admit, Reject, Fetch, frontierVars, Inside
<1>5. CASE AuditPanics(w) \/ Send(w) \/ Count(w)
  BY <1>5 DEF AuditPanics, Send, Count, frontierVars, Inside
<1>6. CASE EmitPageDone(w) \/ Rollback(w)
  BY <1>6 DEF EmitPageDone, Rollback, frontierVars, Inside
<1>7. CASE Audit(w)
  <2>1. Links[cur[w].url] \subseteq F
    BY DEF Inside
  <2>2. \A v \in Workers : kids'[v] = IF v = w THEN Links[cur[w].url] ELSE kids[v]
    BY <1>1, <1>7 DEF Audit
  <2>3. seen' = seen /\ queue' = queue /\ cur' = cur /\ kid' = kid
    BY <1>7 DEF Audit, frontierVars
  <2>. QED
    BY <2>1, <2>2, <2>3 DEF Inside
<1>8. CASE Reserve(w)
  <2>1. PICK k \in kids[w] : kids' = [kids EXCEPT ![w] = @ \ {k}] /\ kid' = [kid EXCEPT ![w] = k]
    BY <1>8 DEF Reserve
  <2>2. \A v \in Workers : kids'[v] \subseteq kids[v] /\ (kid'[v] = kid[v] \/ kid'[v] \in kids[v])
    BY <1>1, <2>1
  <2>3. seen' = seen /\ queue' = queue /\ cur' = cur
    BY <1>8 DEF Reserve, frontierVars
  <2>. QED
    BY <2>2, <2>3 DEF Inside
<1>9. CASE Refuse(w)
  <2>1. \A v \in Workers : kid'[v] = IF v = w THEN Root ELSE kid[v]
    BY <1>1, <1>9 DEF Refuse
  <2>2. seen' = seen /\ queue' = queue /\ cur' = cur /\ kids' = kids
    BY <1>9 DEF Refuse, frontierVars
  <2>. QED
    BY <2>1, <2>2 DEF Inside
<1>10. ASSUME Pop PROVE /\ seen' \subseteq F /\ (\A i \in DOMAIN queue' : queue'[i].url \in F)
                        /\ Head(queue).url \in F
  BY <1>1, <1>10, PopShifts DEF Inside
<1>11. CASE TakeEntry(w)
  <2>1. \A v \in Workers : cur'[v] = IF v = w THEN Head(queue) ELSE cur[v]
    BY <1>1, <1>11 DEF TakeEntry
  <2>2. Pop /\ kids' = kids /\ kid' = kid
    BY <1>11 DEF TakeEntry, Dequeue
  <2>. QED
    BY <1>10, <2>1, <2>2 DEF Inside
<1>12. CASE DequeueError(w)
  <2>1. (Pop \/ (seen' = seen /\ queue' = queue)) /\ cur' = cur /\ kids' = kids /\ kid' = kid
    BY <1>12 DEF DequeueError, DequeueFails, keys, engineVars
  <2>. QED
    BY <1>10, <2>1 DEF Inside
<1>13. CASE EnqueueChild(w) \/ EnqueueInVain(w)
  <2>1. /\ ChildEntry(w) \in Entries /\ ChildEntry(w).url = kid[w]
        /\ \/ seen' = seen /\ queue' = queue
           \/ seen' = seen \cup {kid[w]} /\ queue' = Append(queue, ChildEntry(w))
        /\ cur' = cur /\ kids' = kids
    BY <1>13, EnqueueSteps
  <2>2. \A v \in Workers : kid'[v] = IF v = w THEN Root ELSE kid[v]
    BY <1>1, <1>13 DEF EnqueueChild, EnqueueInVain
  <2>3. \A i \in DOMAIN queue' : queue'[i].url \in F
    <3>1. CASE queue' = queue
      BY <3>1 DEF Inside
    <3>2. CASE queue' = Append(queue, ChildEntry(w))
      <4>1. /\ queue'[Len(queue) + 1] = ChildEntry(w)
            /\ \A i \in DOMAIN queue : queue'[i] = queue[i]
            /\ \A i \in DOMAIN queue' : i \in DOMAIN queue \/ i = Len(queue) + 1
        BY <1>1, <3>2, AppendExtends
      <4>. QED
        BY <2>1, <4>1 DEF Inside
    <3>. QED
      BY <2>1, <3>1, <3>2
  <2>. QED
    BY <2>1, <2>2, <2>3 DEF Inside
<1>14. CASE Finish(w)
  <2>1. \A v \in Workers : /\ cur'[v] = IF v = w THEN RootEntry ELSE cur[v]
                           /\ kids'[v] = IF v = w THEN {} ELSE kids[v]
    BY <1>1, <1>14 DEF Finish
  <2>2. seen' = seen /\ queue' = queue /\ kid' = kid
    BY <1>14 DEF Finish, MarkDone, MarkDoneFails
  <2>. QED
    BY <2>1, <2>2 DEF Inside, RootEntry
<1>. QED
  BY <1>3, <1>4, <1>5, <1>6, <1>7, <1>8, <1>9, <1>11, <1>12, <1>13, <1>14 DEF Step

(* The crawl sees no URL outside a set that holds the root and the links   *)
(* of each of its members.                                                 *)
THEOREM TheCrawlStaysInside ==
    ASSUME NEW F \in SUBSET Urls, Root \in F, \A u \in F : Links[u] \subseteq F
    PROVE  Spec => [](seen \subseteq F)
<1>1. Init => Inside(F)
  BY DEF Init, WorkersInit, RootEntry, Inside
<1>2. TypeOK /\ Inside(F) /\ [Next]_vars => Inside(F)'
  BY InsideInductive
<1>3. Inside(F) => seen \subseteq F
  BY DEF Inside
<1>. QED
  BY <1>1, <1>2, <1>3, TypeCorrect, PTL DEF Spec

(* The URLs of the root's host that are web pages in their normal form.    *)
Pages ==
    {u \in Urls : u.host = Root.host /\ u.scheme \in {"http", "https"} /\ Normalized(u) = u}

LEMMA LinksArePages ==
    ASSUME NEW u \in Urls, u.host = Root.host
    PROVE  Links[u] \subseteq Pages
<1>. SUFFICES ASSUME NEW v \in Links[u] PROVE v \in Pages
  OBVIOUS
<1>1. Links[u] = discover_links(u, Hrefs(u)) /\ v \in Urls
  BY SiteAssumption, EngineAssumption
<1>2. PICK h \in Range(Hrefs(u)) : Followable(u, h) /\ v = normalize(u, h) /\ is_same_site(u, v)
  BY <1>1 DEF discover_links
<1>3. IsUrl(join(u, h))
  BY <1>2, SiteAssumption DEF Followable
<1>4. v.scheme \in {"http", "https"}
  <2>1. \A x : IsUrl(x) => Normalized(x).scheme = x.scheme
    BY NormalFields
  <2>. QED
    BY <1>2, <1>3, <2>1 DEF normalize, Followable
<1>5. v.host = Root.host
  BY <1>2 DEF is_same_site
<1>6. Normalized(v) = v
  <2>. DEFINE again == [kind |-> "url", url |-> v]
  <2>1. normalize(u, again) = v
    BY <1>2, <1>3, NormalizeIsIdempotent
  <2>2. join(u, again) = v
    BY DEF join
  <2>. QED
    BY <2>1, <2>2 DEF normalize
<1>. QED
  BY <1>1, <1>4, <1>5, <1>6 DEF Pages

(* But for the root, which is seeded as it was given, every URL the crawl  *)
(* sees is a web page of the root's host in its normal form, and no page   *)
(* is seen under two spellings.                                            *)
THEOREM OnlyPagesAreSeen ==
    Spec => [](/\ seen \ {Root} \subseteq Pages
               /\ \A u, v \in seen \ {Root} : SamePage(u, v) => u = v)
<1>. DEFINE F == Pages \cup {Root}
<1>1. F \in SUBSET Urls /\ Root \in F /\ \A u \in F : u \in Urls /\ u.host = Root.host
  BY EngineAssumption DEF Pages
<1>2. \A u \in F : Links[u] \subseteq F
  BY <1>1, LinksArePages
<1>3. (Init => Inside(F)) /\ (TypeOK /\ Inside(F) /\ [Next]_vars => Inside(F)')
  <2>. HIDE DEF F
  <2>1. Init => Inside(F)
    BY <1>1 DEF Init, WorkersInit, RootEntry, Inside
  <2>. QED
    BY <1>1, <1>2, <2>1, InsideInductive
<1>4. \A u, v \in Pages : SamePage(u, v) => u = v
  <2>. SUFFICES ASSUME NEW u \in Pages, NEW v \in Pages, SamePage(u, v) PROVE u = v
    OBVIOUS
  <2>1. IsUrl(u) /\ IsUrl(v) /\ Normalized(u) = u /\ Normalized(v) = v
    BY SiteAssumption DEF Pages
  <2>2. Normalized(u) = Normalized(v)
    BY <2>1, NormalFormsArePages
  <2>. QED
    BY <2>1, <2>2
<1>5. Inside(F) => /\ seen \ {Root} \subseteq Pages
                   /\ \A u, v \in seen \ {Root} : SamePage(u, v) => u = v
  BY <1>4 DEF Inside
<1>. QED
  BY <1>3, <1>5, TypeCorrect, PTL DEF Spec

(* When the root is given as a web page in its normal form, this holds of  *)
(* all URLs: every page of the site is crawled under one spelling, and     *)
(* nothing off the root's host is.                                         *)
THEOREM SpellingsAreMerged ==
    ASSUME Root.scheme \in {"http", "https"}, Normalized(Root) = Root
    PROVE  Spec => []SpellingsMerged
<1>1. Pages \in SUBSET Urls /\ Root \in Pages
  BY EngineAssumption DEF Pages
<1>2. \A u \in Pages : Links[u] \subseteq Pages
  BY LinksArePages DEF Pages
<1>3. (Init => Inside(Pages)) /\ (TypeOK /\ Inside(Pages) /\ [Next]_vars => Inside(Pages)')
  <2>1. Init => Inside(Pages)
    BY <1>1 DEF Init, WorkersInit, RootEntry, Inside
  <2>. QED
    BY <1>1, <1>2, <2>1, InsideInductive
<1>4. ASSUME Inside(Pages) PROVE SpellingsMerged
  <2>0. seen \subseteq Pages
    BY <1>4 DEF Inside
  <2>1. ASSUME NEW u \in seen, NEW v \in seen, SamePage(u, v) PROVE u = v
    <3>1. IsUrl(u) /\ IsUrl(v) /\ Normalized(u) = u /\ Normalized(v) = v
      BY <2>0, SiteAssumption DEF Pages
    <3>2. Normalized(u) = Normalized(v)
      BY <2>1, <3>1, NormalFormsArePages
    <3>. QED
      BY <3>1, <3>2
  <2>. QED
    BY <2>0, <2>1 DEF SpellingsMerged, Pages
<1>. QED
  BY <1>3, <1>4, TypeCorrect, PTL DEF Spec

(* What the link auditor probes as an internal link of a page above the    *)
(* depth limit is crawled too, unless the page was redirected: it is one   *)
(* of the links the crawl follows.                                         *)
THEOREM InternalLinksAreCrawled == Spec => []InternalIsCrawled
<1>1. ASSUME TypeOK, LinksFollowed PROVE InternalIsCrawled
  <2>. SUFFICES ASSUME AllExited, faults = 0, ~Capped, NEW i \in DOMAIN channel,
                       channel[i].depth < MaxDepth,
                       Landing(channel[i].url) = channel[i].url
                PROVE  Internal(channel[i].url, Hrefs(channel[i].url)) \subseteq seen
    BY DEF InternalIsCrawled, Probed
  <2>1. channel[i].url \in Urls
    <3>1. channel \in Seq(Entries)
      BY <1>1 DEF TypeOK
    <3>2. channel[i] \in Entries
      BY <3>1
    <3>. QED
      BY <3>2 DEF Entries
  <2>2. Links[channel[i].url] \subseteq seen
    BY <1>1 DEF LinksFollowed
  <2>3. \A base, hrefs : Internal(base, hrefs) \subseteq discover_links(base, hrefs)
    BY DEF Internal, discover_links, is_same_site
  <2>. QED
    BY <2>1, <2>2, <2>3, SiteAssumption
<1>. QED
  BY <1>1, TypeCorrect, EveryLinkIsFollowed, PTL
=============================================================================

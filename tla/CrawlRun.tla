------------------------------ MODULE CrawlRun ------------------------------
(***************************************************************************)
(* One multi-page crawl from the seed of the frontier to the list of page  *)
(* reports: the task that drives the pool of CrawlEngine.  With            *)
(* hasTimeout it is the --global-timeout path of pipeline::run, without it *)
(* run_crawl, which run_for_server also uses.                              *)
(*                                                                         *)
(* abort() marks a task.  A task that is suspended at an await is dropped  *)
(* there, after the command it has on the wire, if any, has reached Redis; *)
(* one that a thread is polling runs on to its next await, which is at     *)
(* the latest the reply of its next frontier command.                      *)
(***************************************************************************)
EXTENDS CrawlEngine

VARIABLES
    hasTimeout,   \* config.global_timeout_secs is Some
    main,         \* where the driving task is
    fate,         \* of each worker task: not spawned, running, aborted, dropped
    collected,    \* the reports the driving task has taken from the channel
    timedOut      \* the global timeout has elapsed

mainVars == <<hasTimeout, main, fate, collected, timedOut>>
runVars == <<vars, mainVars>>

MainStates == {"seed", "collect", "drain", "clear", "finished", "failed"}
Fates == {"unborn", "running", "aborted", "dropped"}

RunTypeOK ==
    /\ TypeOK
    /\ hasTimeout \in BOOLEAN
    /\ main \in MainStates
    /\ fate \in [Workers -> Fates]
    /\ collected \in Seq(Entries)
    /\ timedOut \in BOOLEAN

RunInit ==
    /\ FrontierInit
    /\ WorkersInit
    /\ pc = [w \in Workers |-> "dequeue"]
    /\ hasTimeout \in BOOLEAN
    /\ main = "seed"
    /\ fate = [w \in Workers |-> "unborn"]
    /\ collected = <<>>
    /\ timedOut = FALSE

-----------------------------------------------------------------------------
(* Seed the frontier and start the workers; an error is the caller's.      *)
Seed ==
    /\ main = "seed"
    /\ EnqueueNew(RootEntry)
    /\ main' = "collect"
    /\ fate' = [w \in Workers |-> "running"]
    /\ UNCHANGED <<engineVars, hasTimeout, collected, timedOut>>

SeedFails ==
    /\ main = "seed"
    /\ EnqueueFails(RootEntry)
    /\ main' = "failed"
    /\ UNCHANGED <<engineVars, hasTimeout, fate, collected, timedOut>>

(* Mutant: the latest report replaces the ones before it.                  *)
MutReceiveLatest ==
    /\ main = "collect"
    /\ channel # <<>>
    /\ collected' = <<Head(channel)>>
    /\ channel' = Tail(channel)
    /\ UNCHANGED <<frontierVars, localVars, pagesFetched, pagesDone, events,
                   hasTimeout, main, fate, timedOut>>

Receive ==
    /\ main = "collect"
    /\ channel # <<>>
    /\ collected' = Append(collected, Head(channel))
    /\ channel' = Tail(channel)
    /\ UNCHANGED <<frontierVars, localVars, pagesFetched, pagesDone, events,
                   hasTimeout, main, fate, timedOut>>

(* recv returns None when the channel is empty and the sender of every     *)
(* worker has been dropped with its task; the joins then return.           *)
TasksGone == \A w \in Workers : pc[w] = "exited" \/ fate[w] = "dropped"

(* Mutant: an empty channel is taken for a closed one.                     *)
MutChannelEmpty ==
    /\ main = "collect"
    /\ channel = <<>>
    /\ main' = "clear"
    /\ UNCHANGED <<vars, hasTimeout, fate, collected, timedOut>>

ChannelClosed ==
    /\ main = "collect"
    /\ channel = <<>>
    /\ TasksGone
    /\ main' = "clear"
    /\ UNCHANGED <<vars, hasTimeout, fate, collected, timedOut>>

(* The timeout drops collect_fut with the reports it holds, and every      *)
(* worker is told to stop.                                                 *)
Timeout ==
    /\ hasTimeout
    /\ main = "collect"
    /\ main' = "drain"
    /\ timedOut' = TRUE
    /\ collected' = <<>>
    /\ fate' = [w \in Workers |-> IF pc[w] = "exited" THEN "running" ELSE "aborted"]
    /\ UNCHANGED <<vars, hasTimeout>>

(* try_recv until the channel is empty.                                    *)
DrainOne ==
    /\ main = "drain"
    /\ channel # <<>>
    /\ collected' = Append(collected, Head(channel))
    /\ channel' = Tail(channel)
    /\ UNCHANGED <<frontierVars, localVars, pagesFetched, pagesDone, events,
                   hasTimeout, main, fate, timedOut>>

(* Mutant: the workers are joined instead of aborted.                      *)
MutDrainJoins ==
    /\ main = "drain"
    /\ channel = <<>>
    /\ AllExited
    /\ main' = "clear"
    /\ UNCHANGED <<vars, hasTimeout, fate, collected, timedOut>>

Drained ==
    /\ main = "drain"
    /\ channel = <<>>
    /\ main' = "clear"
    /\ UNCHANGED <<vars, hasTimeout, fate, collected, timedOut>>

ClearKeys ==
    /\ main = "clear"
    /\ LockFree
    /\ Clear \/ ClearFails
    /\ main' = "finished"
    /\ UNCHANGED <<engineVars, hasTimeout, fate, collected, timedOut>>

-----------------------------------------------------------------------------
WorkerStep(w) ==
    /\ fate[w] = "running"
    /\ Step(w)
    /\ UNCHANGED mainVars

(* What an aborted worker may still do in the poll it is in.               *)
LastLocalStep(w) ==
    /\ fate[w] = "aborted"
    /\ \/ Send(w) \/ Count(w) \/ EmitPageDone(w)
       \/ Reserve(w) \/ Refuse(w) \/ Rollback(w)
    /\ UNCHANGED mainVars

LastCommand(w) ==
    /\ fate[w] = "aborted"
    /\ TakeEntry(w) \/ EnqueueChild(w) \/ Finish(w)
    /\ fate' = [fate EXCEPT ![w] = "dropped"]
    /\ UNCHANGED <<hasTimeout, main, collected, timedOut>>

(* Dropping the task drops its guard: the mutex is not held past it.       *)
Drop(w) ==
    /\ fate[w] = "aborted"
    /\ fate' = [fate EXCEPT ![w] = "dropped"]
    /\ pc' = [pc EXCEPT ![w] = IF @ = "rollback" THEN "children" ELSE @]
    /\ UNCHANGED <<frontierVars, cur, kids, kid, nth, pagesFetched, pagesDone, channel, events,
                   hasTimeout, main, collected, timedOut>>

Main ==
    \/ Seed \/ SeedFails \/ Receive \/ ChannelClosed
    \/ Timeout \/ DrainOne \/ Drained \/ ClearKeys

WorkerTask(w) == WorkerStep(w) \/ LastLocalStep(w) \/ LastCommand(w) \/ Drop(w)

Returned == main \in {"finished", "failed"}

RunStopped ==
    /\ Returned
    /\ \A w \in Workers : fate[w] = "unborn" \/ pc[w] = "exited" \/ fate[w] = "dropped"
    /\ UNCHANGED runVars

RunNext ==
    \/ Main
    \/ \E w \in Workers : WorkerTask(w)
    \/ RunStopped

RunSpec == RunInit /\ [][RunNext]_runVars

(* The driving task is polled, its timer fires, and the tasks it spawned   *)
(* are polled or dropped.                                                  *)
RunFairness ==
    /\ WF_runVars(Main)
    /\ WF_runVars(Timeout)
    /\ \A w \in Workers : WF_runVars(WorkerTask(w))

FairRunSpec == RunSpec /\ RunFairness

-----------------------------------------------------------------------------
(***************************************************************************)
(* Safety.                                                                 *)
(***************************************************************************)

(* Until the timeout no report is lost between the workers and the result: *)
(* the ones taken and the ones in the channel are the ones sent, which run *)
(* ahead of the counter by the workers that have sent and not counted.     *)
ReportsConserved ==
    ~timedOut =>
       Len(collected) + Len(channel)
          = pagesDone + Cardinality({w \in Workers : pc[w] = "count"})

(* Nothing within the limits is missing from the result: it holds the root *)
(* and, without a cap, every link of each of its pages above the depth     *)
(* limit, but for the pages that may not be fetched or failed to load.     *)
Taken == {collected[i].url : i \in DOMAIN collected}
Excused == Blocked \cup Flaky

ResultClosed ==
    /\ Root \in Taken \cup Excused
    /\ ~Capped =>
          \A i \in DOMAIN collected :
             collected[i].depth < MaxDepth => Links[collected[i].url] \subseteq Taken \cup Excused

(* A crawl that ran to its end returns every report that was sent; and if  *)
(* no frontier call failed, it has reported what it saw and is closed.     *)
ResultComplete ==
    main \in {"clear", "finished"} /\ ~timedOut =>
       /\ Len(collected) = pagesDone
       /\ AllExited
       /\ faults = 0 /\ Workers # {} =>
             /\ main = "clear" => seen \subseteq Taken \cup Excused
             /\ ResultClosed

(* When the crawl has returned, the keys of the job are gone.  Only a task *)
(* that was aborted in the middle of a poll can still touch them, and each *)
(* such task once.                                                         *)
Orphans == {w \in Workers : fate[w] = "dropped"}

LittleLeftBehind ==
    main = "finished" /\ faults = 0 =>
       /\ Cardinality(seen) <= Cardinality(Orphans)
       /\ inflight \in -Cardinality(Orphans) .. Cardinality(Orphans)

(* What has been taken from the channel stays in the result.               *)
CollectedKept == [][Len(collected') >= Len(collected)]_runVars

(* The result is within the limits of the configuration, timeout or not:   *)
(* no page that may not be fetched, no page beyond --depth, each at the    *)
(* depth of a walk that leads to it, and no more of them than --max-pages, *)
(* up to one page for each enqueue whose reply was lost.                   *)
ResultWithinLimits ==
    /\ \A i \in DOMAIN collected :
          /\ collected[i].url \notin Blocked
          /\ collected[i].depth <= MaxDepth
          /\ Walk(collected[i].url, collected[i].depth)
    /\ Capped => Len(collected) <= Cap + faults

(***************************************************************************)
(* Liveness.  Without a timeout the crawl returns if no frontier call      *)
(* fails; with one it returns whatever fails.                              *)
(***************************************************************************)
EventuallyReturns == hasTimeout \/ [](faults = 0) => <>Returned
=============================================================================

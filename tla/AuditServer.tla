---------------------------- MODULE AuditServer ----------------------------
(***************************************************************************)
(* The HTTP server of src/server: start_audit creates a job and spawns its *)
(* audit, stream_events serves its events to any number of clients, and a  *)
(* sweeper forgets old jobs.                                               *)
(*                                                                         *)
(* A step of a handler is the code under one lock (the map of jobs, the    *)
(* mutex of the terminal event, the lock of the broadcast channel).  There *)
(* is no await between the lookup and the subscription of stream_events,   *)
(* but the audit is a task of a multi-threaded runtime and runs between    *)
(* the two all the same.                                                   *)
(*                                                                         *)
(* start_audit passes no redis_url, so an audit with a depth other than 0  *)
(* fails and an audit sends two events at most: the buffer of 256 never    *)
(* overflows and no subscriber lags.                                       *)
(***************************************************************************)
EXTENDS Integers, Sequences

CONSTANTS
    Jobs,        \* the job ids Uuid::new_v4 hands out
    Deep,        \* the jobs requested with a depth other than 0 (1 is the default)
    Streams,     \* requests for the events of a job
    Ttl,         \* how many rounds of the sweeper a job outlives: 600 s / 60 s
    None

ASSUME ServerAssumption ==
    /\ Deep \subseteq Jobs
    /\ Ttl \in Nat
    /\ None \notin {"PageDone", "Done", "Error"}

VARIABLES
    jobs,        \* AppState.jobs: the ids of the jobs it holds
    age,         \* rounds of the sweeper since the job was created
    task,        \* where the background task of each job is
    outcome,     \* the event its pipeline has ended with
    terminal,    \* JobHandle.terminal, shared by the task and the map
    sent,        \* the events broadcast so far, oldest first
    st,          \* where each request is
    job,         \* the job it asked for
    snap,        \* terminal_snapshot
    pos,         \* how many of the events sent lie behind its receiver
    done,        \* the flag of its scan: the verdict has been forwarded
    got          \* the events it has passed to its client, oldest first

jobVars == <<jobs, age, task, outcome, terminal, sent>>
streamVars == <<st, job, snap, pos, done, got>>
vars == <<jobVars, streamVars>>

Verdicts == {"Done", "Error"}
Events == {"Started", "PageDone"} \cup Verdicts
Tasks == {"none", "running", "audited", "finished", "stored", "ended"}
Places == {"new", "asked", "open", "ended", "refused", "gone"}

TypeOK ==
    /\ jobs \subseteq Jobs
    /\ age \in [Jobs -> 0 .. Ttl + 1]
    /\ \A j \in jobs : age[j] <= Ttl /\ task[j] # "none"
    /\ task \in [Jobs -> Tasks]
    /\ outcome \in [Jobs -> Verdicts \cup {None}]
    /\ terminal \in [Jobs -> Verdicts \cup {None}]
    /\ sent \in [Jobs -> Seq(Events \ {"Started"})]
    /\ st \in [Streams -> Places]
    /\ job \in [Streams -> Jobs]
    /\ snap \in [Streams -> Verdicts \cup {None}]
    /\ pos \in [Streams -> Nat]
    /\ done \in [Streams -> BOOLEAN]
    /\ got \in [Streams -> Seq(Events)]

Init ==
    /\ jobs = {}
    /\ age = [j \in Jobs |-> 0]
    /\ task = [j \in Jobs |-> "none"]
    /\ outcome = [j \in Jobs |-> None]
    /\ terminal = [j \in Jobs |-> None]
    /\ sent = [j \in Jobs |-> <<>>]
    /\ st = [s \in Streams |-> "new"]
    /\ job \in [Streams -> Jobs]
    /\ snap = [s \in Streams |-> None]
    /\ pos = [s \in Streams |-> 0]
    /\ done = [s \in Streams |-> FALSE]
    /\ got = [s \in Streams |-> <<>>]

-----------------------------------------------------------------------------
(* start_audit: insert the job and spawn its task.  (A URL that does not   *)
(* parse is refused before the insert and changes nothing.)                *)
StartAudit(j) ==
    /\ task[j] = "none"
    /\ jobs' = jobs \cup {j}
    /\ task' = [task EXCEPT ![j] = "running"]
    /\ UNCHANGED <<age, outcome, terminal, sent, streamVars>>

(* run_for_server: a depth above 0 fails for want of a redis_url; a root   *)
(* that robots.txt disallows or that redirects in a loop ends the audit    *)
(* with a report and no PageDone; a fetch or an audit may fail; else the   *)
(* one page is announced before the report is returned.                    *)
MoveTask(j, from, to) ==
    /\ task[j] = from
    /\ task' = [task EXCEPT ![j] = to]

Fails(j) ==
    /\ MoveTask(j, "running", "finished")
    /\ outcome' = [outcome EXCEPT ![j] = "Error"]
    /\ UNCHANGED <<jobs, age, terminal, sent, streamVars>>

EndsWithoutPage(j) ==
    /\ j \notin Deep
    /\ MoveTask(j, "running", "finished")
    /\ outcome' = [outcome EXCEPT ![j] = "Done"]
    /\ UNCHANGED <<jobs, age, terminal, sent, streamVars>>

SendPageDone(j) ==
    /\ j \notin Deep
    /\ MoveTask(j, "running", "audited")
    /\ sent' = [sent EXCEPT ![j] = Append(@, "PageDone")]
    /\ UNCHANGED <<jobs, age, outcome, terminal, streamVars>>

ReturnReport(j) ==
    /\ MoveTask(j, "audited", "finished")
    /\ outcome' = [outcome EXCEPT ![j] = "Done"]
    /\ UNCHANGED <<jobs, age, terminal, sent, streamVars>>

(* The terminal event is stored, then sent; the task then ends and its     *)
(* sender goes with it.                                                    *)
(* Mutant: the event is sent only, and not kept.                           *)
MutStoreTerminal(j) ==
    /\ MoveTask(j, "finished", "stored")
    /\ UNCHANGED <<jobs, age, outcome, terminal, sent, streamVars>>

StoreTerminal(j) ==
    /\ MoveTask(j, "finished", "stored")
    /\ terminal' = [terminal EXCEPT ![j] = outcome[j]]
    /\ UNCHANGED <<jobs, age, outcome, sent, streamVars>>

SendTerminal(j) ==
    /\ MoveTask(j, "stored", "ended")
    /\ sent' = [sent EXCEPT ![j] = Append(@, outcome[j])]
    /\ UNCHANGED <<jobs, age, outcome, terminal, streamVars>>

(* The sweeper's next round: a minute has passed for every job, and the    *)
(* ones that are too old are forgotten, running or not.                    *)
(* Mutants: the sweeper keeps everything; it keeps jobs a round too long.  *)
MutSweep ==
    /\ jobs # {}
    /\ age' = [j \in Jobs |-> IF j \in jobs /\ age[j] < Ttl THEN age[j] + 1 ELSE age[j]]
    /\ UNCHANGED <<jobs, task, outcome, terminal, sent, streamVars>>

Sweep ==
    /\ jobs # {}
    /\ age' = [j \in Jobs |-> IF j \in jobs THEN age[j] + 1 ELSE age[j]]
    /\ jobs' = {j \in jobs : age'[j] <= Ttl}
    /\ UNCHANGED <<task, outcome, terminal, sent, streamVars>>

-----------------------------------------------------------------------------
MoveStream(s, from, to) ==
    /\ st[s] = from
    /\ st' = [st EXCEPT ![s] = to]

(* stream_events, under the guard of the map: clone the sender and read    *)
(* the terminal event.                                                     *)
Look(s) ==
    /\ job[s] \in jobs
    /\ MoveStream(s, "new", "asked")
    /\ snap' = [snap EXCEPT ![s] = terminal[job[s]]]
    /\ UNCHANGED <<jobVars, job, pos, done, got>>

NotFound(s) ==
    /\ job[s] \notin jobs
    /\ MoveStream(s, "new", "refused")
    /\ UNCHANGED <<jobVars, job, snap, pos, done, got>>

(* A finished audit is replayed ...                                        *)
(* Mutant: the replay goes on to the broadcast.                            *)
MutReplay(s) ==
    /\ snap[s] # None
    /\ MoveStream(s, "asked", "open")
    /\ got' = [got EXCEPT ![s] = <<"Started", snap[s]>>]
    /\ pos' = [pos EXCEPT ![s] = Len(sent[job[s]])]
    /\ UNCHANGED <<jobVars, job, snap, done>>

Replay(s) ==
    /\ snap[s] # None
    /\ MoveStream(s, "asked", "ended")
    /\ got' = [got EXCEPT ![s] = <<"Started", snap[s]>>]
    /\ UNCHANGED <<jobVars, job, snap, pos, done>>

(* ... and to one in progress the client is subscribed, from here on.      *)
Subscribe(s) ==
    /\ snap[s] = None
    /\ MoveStream(s, "asked", "open")
    /\ got' = [got EXCEPT ![s] = <<"Started">>]
    /\ pos' = [pos EXCEPT ![s] = Len(sent[job[s]])]
    /\ UNCHANGED <<jobVars, job, snap, done>>

(* The scan forwards the verdict like any event and only notes it: what    *)
(* ends the stream is the next item, or the channel when it closes.        *)
Forward(s) == LET e == sent[job[s]][pos[s] + 1] IN
    /\ pos[s] < Len(sent[job[s]])
    /\ MoveStream(s, "open", IF done[s] THEN "ended" ELSE "open")
    /\ got' = [got EXCEPT ![s] = IF done[s] THEN @ ELSE Append(@, e)]
    /\ done' = [done EXCEPT ![s] = @ \/ e \in Verdicts]
    /\ pos' = [pos EXCEPT ![s] = @ + 1]
    /\ UNCHANGED <<jobVars, job, snap>>

(* Mutant: the task has no sender of its own.                              *)
MutSenders(j) ==
    \/ j \in jobs
    \/ \E s \in Streams : st[s] = "asked" /\ job[s] = j

(* The channel is closed when every sender is gone: the map's, the task's, *)
(* and the clones of the requests that have not subscribed yet.            *)
Senders(j) ==
    \/ j \in jobs
    \/ task[j] # "ended"
    \/ \E s \in Streams : st[s] = "asked" /\ job[s] = j

ChannelCloses(s) ==
    /\ pos[s] = Len(sent[job[s]])
    /\ ~Senders(job[s])
    /\ MoveStream(s, "open", "ended")
    /\ UNCHANGED <<jobVars, job, snap, pos, done, got>>

(* The client goes away.                                                   *)
Leave(s) ==
    /\ MoveStream(s, "open", "gone")
    /\ UNCHANGED <<jobVars, job, snap, pos, done, got>>

Task(j) ==
    \/ Fails(j) \/ EndsWithoutPage(j) \/ SendPageDone(j) \/ ReturnReport(j)
    \/ StoreTerminal(j) \/ SendTerminal(j)

Serve(s) ==
    \/ Replay(s) \/ Subscribe(s) \/ Forward(s) \/ ChannelCloses(s)

(* Nothing is left to serve, nothing to run and nothing to forget.         *)
Over ==
    /\ jobs = {}
    /\ \A j \in Jobs : task[j] = "ended"
    /\ \A s \in Streams : st[s] \in {"ended", "refused", "gone"}
    /\ UNCHANGED vars

Next ==
    \/ \E j \in Jobs : StartAudit(j) \/ Task(j)
    \/ Sweep
    \/ \E s \in Streams : Look(s) \/ NotFound(s) \/ Serve(s) \/ Leave(s)
    \/ Over

Spec == Init /\ [][Next]_vars

(* The tasks of the runtime are polled, an audit ends (its fetches have a  *)
(* timeout), and the sweeper's timer fires.                                *)
Fairness ==
    /\ \A j \in Jobs : WF_vars(Task(j))
    /\ \A s \in Streams : WF_vars(Serve(s))
    /\ WF_vars(Sweep)

FairSpec == Spec /\ Fairness

(* The same, but for the sweeper.                                          *)
PolledSpec ==
    /\ Spec
    /\ \A j \in Jobs : WF_vars(Task(j))
    /\ \A s \in Streams : WF_vars(Serve(s))

-----------------------------------------------------------------------------
(***************************************************************************)
(* Safety.                                                                 *)
(***************************************************************************)

HasVerdict(s) == \E i \in DOMAIN got[s] : got[s][i] \in Verdicts

(* What a job has to tell: the events it has sent and, as soon as it is    *)
(* stored, the verdict that it will send last.                             *)
History(j) == IF task[j] = "stored" THEN Append(sent[j], outcome[j]) ELSE sent[j]

(* What a client sees, whenever it asks and however it is answered:        *)
(* Started, then a piece of its job's history without a gap, an event told *)
(* twice or one out of order, and nothing after a verdict.                 *)
StreamShape ==
    \A s \in Streams : got[s] # <<>> =>
       /\ got[s][1] = "Started"
       /\ \A i \in DOMAIN got[s] : got[s][i] \in Verdicts => i = Len(got[s])
       /\ \E k \in 0 .. Len(History(job[s])) :
             \A i \in 2 .. Len(got[s]) :
                /\ k + i - 1 \in DOMAIN History(job[s])
                /\ got[s][i] = History(job[s])[k + i - 1]

(* Once one client has seen the verdict of a job, every request that still *)
(* finds the job is answered with that verdict.                            *)
Replayable ==
    \A s \in Streams :
       HasVerdict(s) => terminal[job[s]] = outcome[job[s]]

(* What the comment in stream_events says: there is no window in which a   *)
(* request misses both the stored verdict and the one that is broadcast.   *)
NoRaceWindow ==
    \A s \in Streams :
       st[s] = "open" /\ ~HasVerdict(s) =>
          task[job[s]] # "ended" \/ pos[s] < Len(sent[job[s]])

(***************************************************************************)
(* Liveness.                                                               *)
(***************************************************************************)

(* A client that has subscribed before the verdict is sent gets it, even   *)
(* when the sweeper has forgotten the job in the meantime.                 *)
InTime(s) == st[s] = "open" /\ task[job[s]] # "ended"

VerdictArrives ==
    \A s \in Streams :
       InTime(s) ~> st[s] = "gone" \/ HasVerdict(s)

(* No stream stays open for ever: served or not, it is closed when the     *)
(* sweeper forgets its job.                                                *)
StreamsEnd == \A s \in Streams : st[s] = "open" ~> st[s] # "open"

(* What the comment before scan says: it "terminates the stream after Done *)
(* or Error is forwarded", without help from the sweeper.                  *)
EndsWithVerdict == \A s \in Streams : HasVerdict(s) ~> st[s] # "open"
=============================================================================

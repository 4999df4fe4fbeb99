---------------------------- MODULE CrawlEngine ----------------------------
(***************************************************************************)
(* The worker pool of src/crawler/engine.rs: config.concurrency tasks run  *)
(* worker_loop over one Frontier behind a mutex.  A step is the code       *)
(* between two points where the tasks can interleave: an await, an atomic  *)
(* operation on a shared counter, a send.  The initial state is the one    *)
(* spawn_crawl_workers leaves when it has seeded the frontier.             *)
(*                                                                         *)
(* The mutex is held across one frontier call, which is one step here, and *)
(* past it only on the path that gives a slot back after the call: a       *)
(* worker at "rollback" is the holder.                                     *)
(***************************************************************************)
EXTENDS Frontier

CONSTANTS
    Workers,         \* the tasks spawn_crawl_workers starts
    Root,            \* config.root
    Links,           \* discover_links: the same-site links of each page
    Disallowed,      \* URLs the site's robots.txt disallows
    RespectRobots,   \* config.respect_robots
    Unparseable,     \* queued strings Url::parse rejects
    Flaky,           \* pages whose fetch or audit may fail
    MaxDepth,        \* config.depth
    Capped,          \* config.max_pages is Some
    MaxPages         \* ... and its value

ASSUME EngineAssumption ==
    /\ IsFiniteSet(Workers)
    /\ Root \in Urls
    /\ Links \in [Urls -> SUBSET Urls]
    /\ Disallowed \subseteq Urls
    /\ Unparseable \subseteq Urls
    /\ Flaky \subseteq Urls
    /\ RespectRobots \in BOOLEAN
    /\ Capped \in BOOLEAN
    /\ MaxDepth \in Nat
    /\ MaxPages \in Nat

VARIABLES
    pc,              \* where each worker is in worker_loop
    cur,             \* the entry it works on (RootEntry while it has none)
    kids,            \* the child URLs it has not come to yet
    kid,             \* the child it has taken a slot for (else Root)
    nth,             \* done_count, between the counter and the event
    pagesFetched,    \* pages_fetched: slots taken, the root's included
    pagesDone,       \* pages_done: pages counted as reported
    channel,         \* the mpsc channel of page reports, oldest first
    events           \* the PageDone numbers, in the order of the broadcast

localVars == <<pc, cur, kids, kid, nth>>
engineVars == <<pc, cur, kids, kid, nth, pagesFetched, pagesDone, channel, events>>
vars == <<frontierVars, engineVars>>

RootEntry == [url |-> Root, depth |-> 0]

States == {"dequeue", "check", "gate", "fetch", "audit", "send", "count",
           "emit", "children", "refuse", "enqueue", "rollback", "skip", "exited"}

(* A worker between a successful dequeue and its mark_done.                *)
BusyStates == States \ {"dequeue", "check", "exited"}
Busy == {w \in Workers : pc[w] \in BusyStates}

(* A worker between its fetch_add and the moment the slot is either used   *)
(* or given back.                                                          *)
Reserving == {w \in Workers : pc[w] \in {"refuse", "enqueue", "rollback"}}

LockFree == \A w \in Workers : pc[w] # "rollback"

TypeOK ==
    /\ FrontierTypeOK
    /\ pc \in [Workers -> States]
    /\ cur \in [Workers -> Entries]
    /\ kids \in [Workers -> SUBSET Urls]
    /\ kid \in [Workers -> Urls]
    /\ nth \in [Workers -> Nat]
    /\ pagesFetched \in Int
    /\ pagesDone \in Nat
    /\ channel \in Seq(Entries)
    /\ events \in Seq(Nat)

(* The task-local and shared state the workers start from.                 *)
WorkersInit ==
    /\ cur = [w \in Workers |-> RootEntry]
    /\ kids = [w \in Workers |-> {}]
    /\ kid = [w \in Workers |-> Root]
    /\ nth = [w \in Workers |-> 0]
    /\ pagesFetched = 1
    /\ pagesDone = 0
    /\ channel = <<>>
    /\ events = <<>>

Init ==
    /\ seen = {Root}
    /\ queue = <<RootEntry>>
    /\ inflight = 1
    /\ faults = 0
    /\ pc = [w \in Workers |-> "dequeue"]
    /\ WorkersInit

-----------------------------------------------------------------------------
Goto(w, from, to) ==
    /\ pc[w] = from
    /\ pc' = [pc EXCEPT ![w] = to]

(* Dequeue, with the three ways the call can come back.                    *)
TakeEntry(w) ==
    /\ LockFree
    /\ Goto(w, "dequeue", "gate")
    /\ Dequeue
    /\ cur' = [cur EXCEPT ![w] = Head(queue)]
    /\ UNCHANGED <<kids, kid, nth, pagesFetched, pagesDone, channel, events>>

FindNothing(w) ==
    /\ LockFree
    /\ Goto(w, "dequeue", "check")
    /\ DequeueNothing
    /\ UNCHANGED <<cur, kids, kid, nth, pagesFetched, pagesDone, channel, events>>

DequeueError(w) ==
    /\ LockFree
    /\ pc[w] = "dequeue"
    /\ DequeueFails
    /\ UNCHANGED engineVars

(* After the 50 ms sleep: leave, or go round again.                        *)
Exit(w) ==
    /\ LockFree
    /\ Goto(w, "check", "exited")
    /\ IsComplete
    /\ UNCHANGED <<frontierVars, cur, kids, kid, nth, pagesFetched, pagesDone, channel, events>>

GoRound(w) ==
    /\ LockFree
    /\ Goto(w, "check", "dequeue")
    /\ \/ ~IsComplete /\ UNCHANGED faults
       \/ Fail
    /\ UNCHANGED <<keys, cur, kids, kid, nth, pagesFetched, pagesDone, channel, events>>

(* Parse the URL and ask the robots cache; both refusals skip the page.    *)
Blocked == Unparseable \cup (IF RespectRobots THEN Disallowed ELSE {})

(* Mutant: the verdict on one page is taken for the whole host.            *)
MutReject(w) ==
    /\ Goto(w, "gate", "skip")
    /\ Blocked # {}
    /\ UNCHANGED <<frontierVars, cur, kids, kid, nth, pagesFetched, pagesDone, channel, events>>

Admit(w) ==
    /\ Goto(w, "gate", "fetch")
    /\ cur[w].url \notin Blocked
    /\ UNCHANGED <<frontierVars, cur, kids, kid, nth, pagesFetched, pagesDone, channel, events>>

Reject(w) ==
    /\ Goto(w, "gate", "skip")
    /\ cur[w].url \in Blocked
    /\ UNCHANGED <<frontierVars, cur, kids, kid, nth, pagesFetched, pagesDone, channel, events>>

(* A fetch succeeds or fails, an audit in spawn_blocking returns the links *)
(* of the page or panics.                                                  *)
Fetch(w) ==
    /\ \/ Goto(w, "fetch", "audit")
       \/ Goto(w, "fetch", "skip") /\ cur[w].url \in Flaky
    /\ UNCHANGED <<frontierVars, cur, kids, kid, nth, pagesFetched, pagesDone, channel, events>>

Audit(w) ==
    /\ Goto(w, "audit", "send")
    /\ kids' = [kids EXCEPT ![w] = Links[cur[w].url]]
    /\ UNCHANGED <<frontierVars, cur, kid, nth, pagesFetched, pagesDone, channel, events>>

AuditPanics(w) ==
    /\ Goto(w, "audit", "skip")
    /\ cur[w].url \in Flaky
    /\ UNCHANGED <<frontierVars, cur, kids, kid, nth, pagesFetched, pagesDone, channel, events>>

(* Site audits, score and send (the depth is not part of a PageReport: the *)
(* properties use it).                                                     *)
Send(w) ==
    /\ Goto(w, "send", "count")
    /\ channel' = Append(channel, cur[w])
    /\ UNCHANGED <<frontierVars, cur, kids, kid, nth, pagesFetched, pagesDone, events>>

(* Mutant: the number is the counter before the increment.                 *)
MutCountBefore(w) ==
    /\ Goto(w, "count", "emit")
    /\ pagesDone' = pagesDone + 1
    /\ nth' = [nth EXCEPT ![w] = pagesDone]
    /\ UNCHANGED <<frontierVars, cur, kids, kid, pagesFetched, channel, events>>

Count(w) ==
    /\ Goto(w, "count", "emit")
    /\ pagesDone' = pagesDone + 1
    /\ nth' = [nth EXCEPT ![w] = pagesDone + 1]
    /\ UNCHANGED <<frontierVars, cur, kids, kid, pagesFetched, channel, events>>

EmitPageDone(w) ==
    /\ Goto(w, "emit", "children")
    /\ events' = Append(events, nth[w])
    /\ nth' = [nth EXCEPT ![w] = 0]
    /\ UNCHANGED <<frontierVars, cur, kids, kid, pagesFetched, pagesDone, channel>>

(* The next child passes the enqueue gate: fetch_add, then the test.  The  *)
(* order of the links on a page is arbitrary, so any child may be next.    *)
(* Mutants: the depth limit is off by one, one way and the other.          *)
MutTooDeep(w) == cur[w].depth <= MaxDepth /\ kids[w] # {}
MutTooShallow(w) == cur[w].depth + 1 < MaxDepth /\ kids[w] # {}

ChildrenLeft(w) == cur[w].depth < MaxDepth /\ kids[w] # {}

Reserve(w) ==
    /\ pc[w] = "children"
    /\ ChildrenLeft(w)
    /\ \E k \in kids[w] :
          /\ kids' = [kids EXCEPT ![w] = @ \ {k}]
          /\ kid' = [kid EXCEPT ![w] = k]
    /\ IF Capped
       THEN /\ pagesFetched' = pagesFetched + 1
            /\ pc' = [pc EXCEPT ![w] = IF pagesFetched >= MaxPages THEN "refuse" ELSE "enqueue"]
       ELSE /\ pc' = [pc EXCEPT ![w] = "enqueue"]
            /\ UNCHANGED pagesFetched
    /\ UNCHANGED <<frontierVars, cur, nth, pagesDone, channel, events>>

(* Over the cap: the slot is given back without the lock.                  *)
Refuse(w) ==
    /\ Goto(w, "refuse", "children")
    /\ pagesFetched' = pagesFetched - 1
    /\ kid' = [kid EXCEPT ![w] = Root]
    /\ UNCHANGED <<frontierVars, cur, kids, nth, pagesDone, channel, events>>

ChildEntry(w) == [url |-> kid[w], depth |-> cur[w].depth + 1]

EnqueueChild(w) ==
    /\ LockFree
    /\ Goto(w, "enqueue", "children")
    /\ EnqueueNew(ChildEntry(w))
    /\ kid' = [kid EXCEPT ![w] = Root]
    /\ UNCHANGED <<cur, kids, nth, pagesFetched, pagesDone, channel, events>>

(* A duplicate or an error: the guard lives on to the end of the loop body *)
(* and the slot is given back under it, if one was taken.                  *)
EnqueueInVain(w) ==
    /\ LockFree
    /\ Goto(w, "enqueue", IF Capped THEN "rollback" ELSE "children")
    /\ EnqueueDuplicate(ChildEntry(w)) \/ EnqueueFails(ChildEntry(w))
    /\ kid' = [kid EXCEPT ![w] = Root]
    /\ UNCHANGED <<cur, kids, nth, pagesFetched, pagesDone, channel, events>>

(* Mutant: the slot of a duplicate is never given back.                    *)
MutKeepSlot(w) ==
    /\ Goto(w, "rollback", "children")
    /\ UNCHANGED <<frontierVars, cur, kids, kid, nth, pagesFetched, pagesDone, channel, events>>

Rollback(w) ==
    /\ Goto(w, "rollback", "children")
    /\ pagesFetched' = pagesFetched - 1
    /\ UNCHANGED <<frontierVars, cur, kids, kid, nth, pagesDone, channel, events>>

(* mark_done_warn, on every exit path after a successful dequeue.          *)
Finish(w) ==
    /\ LockFree
    /\ \/ pc[w] = "skip"
       \/ pc[w] = "children" /\ ~ChildrenLeft(w)
    /\ MarkDone \/ MarkDoneFails
    /\ pc' = [pc EXCEPT ![w] = "dequeue"]
    /\ cur' = [cur EXCEPT ![w] = RootEntry]
    /\ kids' = [kids EXCEPT ![w] = {}]
    /\ UNCHANGED <<kid, nth, pagesFetched, pagesDone, channel, events>>

-----------------------------------------------------------------------------
Step(w) ==
    \/ TakeEntry(w) \/ FindNothing(w) \/ DequeueError(w)
    \/ Exit(w) \/ GoRound(w)
    \/ Admit(w) \/ Reject(w)
    \/ Fetch(w) \/ Audit(w) \/ AuditPanics(w)
    \/ Send(w) \/ Count(w) \/ EmitPageDone(w)
    \/ Reserve(w) \/ Refuse(w)
    \/ EnqueueChild(w) \/ EnqueueInVain(w) \/ Rollback(w)
    \/ Finish(w)

(* The pool has shut down.                                                 *)
AllExited == \A w \in Workers : pc[w] = "exited"
Stopped == AllExited /\ UNCHANGED vars

Next == (\E w \in Workers : Step(w)) \/ Stopped

Spec == Init /\ [][Next]_vars

(* A task the runtime can poll is polled, a fetch has a timeout, the       *)
(* tokio mutex is first come, first served, and a Redis call that keeps    *)
(* failing is the business of MaxFaults: no worker is held up for ever.    *)
Fairness == \A w \in Workers : WF_vars(Step(w))

FairSpec == Spec /\ Fairness

-----------------------------------------------------------------------------
(***************************************************************************)
(* Safety.                                                                 *)
(***************************************************************************)

(* The inflight counter never falls behind the work there is, and runs     *)
(* ahead of it by at most the calls that failed: a pop whose reply was     *)
(* lost, a mark_done that did not arrive.                                  *)
InflightAccounting ==
    inflight - (Len(queue) + Cardinality(Busy)) \in 0 .. faults

(* Empty queue is not done: when one worker has left, no entry waits and   *)
(* no other worker is in the middle of a page whose links it may still     *)
(* enqueue.                                                                *)
NoEarlyExit ==
    (\E w \in Workers : pc[w] = "exited") => queue = <<>> /\ Busy = {}

(* Once a worker has left, the crawl is over for all of them: nothing is   *)
(* found, popped, counted or reported any more.                            *)
ExitIsFinal ==
    [][(\E w \in Workers : pc[w] = "exited")
          => UNCHANGED <<keys, channel, pagesFetched, pagesDone>>]_vars

(* pages_fetched counts the URLs seen and the slots in hand, and misses    *)
(* only the URLs whose enqueue was applied without a reply.                *)
CapAccounting ==
    Capped =>
       Cardinality(seen) + Cardinality(Reserving) - pagesFetched \in 0 .. faults

(* The cap holds whatever the workers' gates, duplicates and rollbacks     *)
(* interleave to, up to one URL for each enqueue whose reply was lost.     *)
Cap == IF MaxPages = 0 THEN 1 ELSE MaxPages

CapRespected == Capped => Cardinality(seen) <= Cap + faults

(* What the code claims when it rolls back after an error, "since we       *)
(* didn't actually enqueue": the cap holds without that allowance.         *)
CapStrict == Capped => Cardinality(seen) <= Cap

(* What the tests claim: on a site with at least that many pages in reach, *)
(* max_pages = K admits exactly K.                                         *)
ExactlyMaxPages == AllExited /\ faults = 0 /\ Capped => Cardinality(seen) = Cap

(* A URL is claimed by one worker once: none is reported twice, worked on  *)
(* by two workers, or still queued when it is worked on or reported.       *)
Waiting == {queue[i].url : i \in DOMAIN queue}
Reported == {channel[i].url : i \in DOMAIN channel}

ProcessedOnce ==
    /\ \A i, j \in DOMAIN channel : channel[i].url = channel[j].url => i = j
    /\ \A i, j \in DOMAIN queue : queue[i].url = queue[j].url => i = j
    /\ \A v, w \in Busy : cur[v].url = cur[w].url => v = w
    /\ \A w \in Busy : cur[w].url \notin Waiting
    /\ \A u \in Reported : u \notin Waiting

(* A page is crawled at depth d only if a walk of d links leads to it from *)
(* the root, through pages a worker may fetch, and d is within the limit.  *)
Walk(u, d) ==
    \E p \in [0 .. d -> Urls] :
       /\ p[0] = Root
       /\ p[d] = u
       /\ \A i \in 1 .. d : p[i - 1] \notin Blocked /\ p[i] \in Links[p[i - 1]]

DepthSound ==
    /\ \A i \in DOMAIN queue : queue[i].depth <= MaxDepth /\ Walk(queue[i].url, queue[i].depth)
    /\ \A i \in DOMAIN channel : channel[i].depth <= MaxDepth /\ Walk(channel[i].url, channel[i].depth)

(* When the pool has shut down after no call failed, every URL it has seen *)
(* was reported unless it is blocked or failed to load ...                 *)
EverySeenReported ==
    AllExited /\ faults = 0 => seen \ (Blocked \cup Flaky) \subseteq Reported

(* ... and, without a cap, every link of a page above the depth limit was  *)
(* followed.                                                               *)
LinksFollowed ==
    AllExited /\ faults = 0 /\ ~Capped =>
       \A i \in DOMAIN channel :
          channel[i].depth < MaxDepth => Links[channel[i].url] \subseteq seen

(* The PageDone numbers are 1, 2, ... in some order.  An event can be late *)
(* by any number of places but is early by fewer places than there are     *)
(* workers.                                                                *)
EventsNumbered ==
    /\ \A i, j \in DOMAIN events : events[i] = events[j] => i = j
    /\ \A i \in DOMAIN events : events[i] \in 1 .. pagesDone
    /\ \A i \in DOMAIN events : events[i] < i + Cardinality(Workers)
    /\ AllExited => Len(events) = Len(channel)

(***************************************************************************)
(* Liveness: if no frontier call fails, the pool shuts down.               *)
(***************************************************************************)
Termination == <>AllExited

(***************************************************************************)
(* What the pool promises, and how its state maps to it: a URL is settled  *)
(* when it neither waits in the queue nor is with a worker.                *)
(***************************************************************************)
Working == {cur[w].url : w \in Busy}

Abstract == INSTANCE Crawl WITH
    known <- seen,
    settled <- seen \ (Waiting \cup Working),
    stopped <- \E w \in Workers : pc[w] = "exited"

ImplementsCrawl == Abstract!Spec
=============================================================================

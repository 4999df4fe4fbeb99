------------------------------ MODULE Frontier ------------------------------
(***************************************************************************)
(* The Redis-backed crawl frontier of src/crawler/frontier.rs: the three   *)
(* keys of one job and the commands that change them.  It has no           *)
(* behaviour of its own: CrawlEngine and CrawlRun call its operations,     *)
(* each from one of their own actions.                                     *)
(*                                                                         *)
(* An operation is a command on the keys plus the reply its caller gets.   *)
(* A command that fails has either not reached Redis or has been applied   *)
(* with its reply lost (ConnectionManager reports both as the same error   *)
(* and repeats neither), so a failed call is a choice between the two.     *)
(* At most MaxFaults calls of a behaviour fail.                            *)
(*                                                                         *)
(* A queue entry is the pair that encode writes as "{depth}|{url}" and     *)
(* decode reads back by splitting at the first '|': a depth is written in  *)
(* digits, so nothing of the pair is lost and every stored entry decodes.  *)
(***************************************************************************)
EXTENDS Integers, Sequences, FiniteSets

CONSTANTS
    Urls,        \* the normalized URLs of the site
    MaxFaults    \* bound: how many frontier calls may fail

ASSUME FrontierAssumption == MaxFaults \in Nat

VARIABLES
    seen,        \* key_seen: the SET of URLs ever enqueued
    queue,       \* key_queue: the LIST of entries waiting for a worker
    inflight,    \* key_inflight: enqueued and not yet marked done (absent = 0)
    faults       \* how many frontier calls have failed so far

keys == <<seen, queue, inflight>>
frontierVars == <<seen, queue, inflight, faults>>

Entries == [url : Urls, depth : Nat]

FrontierTypeOK ==
    /\ seen \subseteq Urls
    /\ queue \in Seq(Entries)
    /\ inflight \in Int
    /\ faults \in 0 .. MaxFaults

Empty ==
    /\ seen = {}
    /\ queue = <<>>
    /\ inflight = 0

FrontierInit ==
    /\ Empty
    /\ faults = 0

(* The call fails; whether its command was applied is said by the         *)
(* operation that fails.                                                   *)
Fail ==
    /\ faults < MaxFaults
    /\ faults' = faults + 1

-----------------------------------------------------------------------------
(* enqueue: one Lua script, so the three keys change together.             *)

(* Mutants: the script adds without asking SADD; it pushes the bare URL.   *)
MutEnqueueUnchecked(e) ==
    /\ seen' = seen \cup {e.url}
    /\ queue' = Append(queue, e)
    /\ inflight' = inflight + 1
    /\ UNCHANGED faults

EnqueueNew(e) ==
    /\ e.url \notin seen
    /\ seen' = seen \cup {e.url}
    /\ queue' = Append(queue, e)
    /\ inflight' = inflight + 1
    /\ UNCHANGED faults

EnqueueDuplicate(e) ==
    /\ e.url \in seen
    /\ UNCHANGED frontierVars

(* The script ran on a new URL and its reply was lost.                     *)
EnqueueReplyLost(e) ==
    /\ Fail
    /\ e.url \notin seen
    /\ seen' = seen \cup {e.url}
    /\ queue' = Append(queue, e)
    /\ inflight' = inflight + 1

(* The script did not run, or found a duplicate and its reply was lost.    *)
EnqueueNoEffect ==
    /\ Fail
    /\ UNCHANGED keys

EnqueueFails(e) == EnqueueReplyLost(e) \/ EnqueueNoEffect

(* dequeue: LPOP, which leaves the inflight counter alone.                 *)

(* Mutant: LPOP is given a count and the second entry is lost.             *)
MutPopTwo ==
    /\ queue # <<>>
    /\ queue' = SubSeq(queue, 3, Len(queue))
    /\ UNCHANGED <<seen, inflight>>

Pop ==
    /\ queue # <<>>
    /\ queue' = Tail(queue)
    /\ UNCHANGED <<seen, inflight>>

Dequeue == Pop /\ UNCHANGED faults

DequeueNothing ==
    /\ queue = <<>>
    /\ UNCHANGED frontierVars

DequeueFails == Fail /\ (Pop \/ UNCHANGED keys)

(* mark_done: DECR.  Every caller goes through mark_done_warn, which       *)
(* treats a failed call like a successful one.                             *)
MarkDone ==
    /\ inflight' = inflight - 1
    /\ UNCHANGED <<seen, queue, faults>>

MarkDoneFails ==
    /\ Fail
    /\ inflight' \in {inflight, inflight - 1}
    /\ UNCHANGED <<seen, queue>>

(* is_complete: LLEN and then GET.  Every command on the keys of a job is  *)
(* issued under the mutex around its Frontier, so nothing comes between    *)
(* the two reads.                                                          *)
(* Mutant: an empty queue is taken for the end of the crawl.               *)
MutQueueEmpty == queue = <<>>

IsComplete ==
    /\ queue = <<>>
    /\ inflight <= 0

(* clear: DEL of the three keys.                                           *)
(* Mutant: the seen set is forgotten.                                      *)
MutClearAllButSeen ==
    /\ queue' = <<>>
    /\ inflight' = 0
    /\ UNCHANGED <<seen, faults>>

Clear ==
    /\ seen' = {}
    /\ queue' = <<>>
    /\ inflight' = 0
    /\ UNCHANGED faults

ClearFails ==
    /\ Fail
    /\ \/ UNCHANGED keys
       \/ seen' = {} /\ queue' = <<>> /\ inflight' = 0
=============================================================================

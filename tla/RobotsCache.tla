---------------------------- MODULE RobotsCache ----------------------------
(***************************************************************************)
(* The robots gate of src/crawler/robots_gate.rs under the workers of a    *)
(* crawl.  Each worker takes a page, looks the rules of its host up in a   *)
(* OnceCell that the first to come fills, fetches the page if it may and   *)
(* audits it.  A worker may be aborted at any await: the OnceCell then     *)
(* lets the next one that waits fill the cell.                             *)
(*                                                                         *)
(* What a request brings back is a choice: robots.txt may be another file, *)
(* or missing, each time it is asked for.                                  *)
(***************************************************************************)
EXTENDS Naturals, FiniteSets

CONSTANTS
    Workers,     \* the tasks of worker_loop
    Pages,       \* the URLs of the crawl; the frontier hands each out once
    Hosts,
    HostOf,      \* the host of a page
    Rules,       \* the files robots.txt may be
    Missing,     \* CachedEntry::Missing
    Unset,       \* a OnceCell that is not initialised
    Nobody,      \* no worker
    NoPage,      \* the page of a worker that has had none yet
    Delays,      \* the values of Crawl-delay
    DelaysOf,    \* the delays a file sets, whoever they are for
    Refused,     \* the pages a file keeps us from
    Redirects    \* the pages a page may redirect to

Entries == Rules \cup {Missing}

ASSUME CacheAssumption ==
    /\ HostOf \in [Pages -> Hosts]
    /\ Unset \notin Entries
    /\ Missing \notin Rules
    /\ Nobody \notin Workers
    /\ NoPage \notin Pages
    /\ DelaysOf \in [Rules -> SUBSET Delays]
    /\ Refused \in [Rules -> SUBSET Pages]
    /\ Redirects \in [Pages -> SUBSET Pages]

VARIABLES
    todo,        \* the pages nobody has taken
    pc,          \* where a worker is
    page,        \* the page it works on
    cell,        \* cells: the OnceCell of each host
    permit,      \* who runs the initialiser of a cell
    file,        \* the file an initialiser has read
    registered,  \* the delays given to the rate limiter, by host
    asked,       \* how often the gate has requested the robots.txt of a host
    audited,     \* how often the auditor has
    lost,        \* how many initialisers of a host were aborted
    requested    \* the pages that were requested

vars == <<todo, pc, page, cell, permit, file, registered, asked, audited, lost, requested>>

Places == {"idle", "waiting", "asking", "registering", "decide", "fetch", "audit", "aborted"}

Host(w) == HostOf[page[w]]

TypeOK ==
    /\ todo \subseteq Pages
    /\ pc \in [Workers -> Places]
    /\ page \in [Workers -> Pages \cup {NoPage}]
    /\ \A w \in Workers : pc[w] \notin {"idle", "aborted"} => page[w] \in Pages
    /\ cell \in [Hosts -> Entries \cup {Unset}]
    /\ permit \in [Hosts -> Workers \cup {Nobody}]
    /\ file \in [Workers -> Entries]
    /\ registered \in [Hosts -> SUBSET Delays]
    /\ asked \in [Hosts -> Nat]
    /\ audited \in [Hosts -> Nat]
    /\ lost \in [Hosts -> Nat]
    /\ requested \subseteq Pages

Init ==
    /\ todo = Pages
    /\ pc = [w \in Workers |-> "idle"]
    /\ page = [w \in Workers |-> NoPage]
    /\ cell = [h \in Hosts |-> Unset]
    /\ permit = [h \in Hosts |-> Nobody]
    /\ file = [w \in Workers |-> Missing]
    /\ registered = [h \in Hosts |-> {}]
    /\ asked = [h \in Hosts |-> 0]
    /\ audited = [h \in Hosts |-> 0]
    /\ lost = [h \in Hosts |-> 0]
    /\ requested = {}

Goto(w, from, to) ==
    /\ pc[w] = from
    /\ pc' = [pc EXCEPT ![w] = to]

-----------------------------------------------------------------------------
(* worker_loop takes a page and calls allowed.                             *)
Visit(w) ==
    \E p \in todo :
       /\ Goto(w, "idle", "waiting")
       /\ page' = [page EXCEPT ![w] = p]
       /\ todo' = todo \ {p}
       /\ UNCHANGED <<cell, permit, file, registered, asked, audited, lost, requested>>

(* get_or_init finds the cell set, at once or after it has waited.         *)
ReadCell(w) ==
    /\ Goto(w, "waiting", "decide")
    /\ cell[Host(w)] # Unset
    /\ UNCHANGED <<todo, page, cell, permit, file, registered, asked, audited, lost, requested>>

(* get_or_init finds it empty and nobody at it: fetch_and_parse sends its  *)
(* request.  Mutant: the rest of the waiters do not wait.                  *)
MutStartInit(w) ==
    /\ Goto(w, "waiting", "asking")
    /\ cell[Host(w)] = Unset
    /\ permit' = [permit EXCEPT ![Host(w)] = w]
    /\ asked' = [asked EXCEPT ![Host(w)] = @ + 1]
    /\ UNCHANGED <<todo, page, cell, file, registered, audited, lost, requested>>

StartInit(w) ==
    /\ Goto(w, "waiting", "asking")
    /\ cell[Host(w)] = Unset
    /\ permit[Host(w)] = Nobody
    /\ permit' = [permit EXCEPT ![Host(w)] = w]
    /\ asked' = [asked EXCEPT ![Host(w)] = @ + 1]
    /\ UNCHANGED <<todo, page, cell, file, registered, audited, lost, requested>>

(* The answer: a file, or none for an error of any kind or a status that   *)
(* is not 2xx.                                                             *)
Answer(w) ==
    \E e \in Entries :
       /\ Goto(w, "asking", "registering")
       /\ file' = [file EXCEPT ![w] = e]
       /\ UNCHANGED <<todo, page, cell, permit, registered, asked, audited, lost, requested>>

(* The loop over crawl_delays: one set_min_interval after the other, seen  *)
(* by all who ask the limiter meanwhile.                                   *)
ToRegister(w) ==
    IF file[w] = Missing THEN {} ELSE DelaysOf[file[w]] \ registered[Host(w)]

Register(w) ==
    /\ pc[w] = "registering"
    /\ \E d \in ToRegister(w) :
          registered' = [registered EXCEPT ![Host(w)] = @ \cup {d}]
    /\ UNCHANGED <<todo, pc, page, cell, permit, file, asked, audited, lost, requested>>

(* The initialiser returns: the cell is set and the waiters wake.          *)
(* Mutant: the cell is set before the delays are with the limiter.         *)
MutSetCellFirst(w) ==
    /\ Goto(w, "registering", "decide")
    /\ cell' = [cell EXCEPT ![Host(w)] = file[w]]
    /\ permit' = [permit EXCEPT ![Host(w)] = Nobody]
    /\ UNCHANGED <<todo, page, file, registered, asked, audited, lost, requested>>

SetCell(w) ==
    /\ Goto(w, "registering", "decide")
    /\ ToRegister(w) = {}
    /\ cell' = [cell EXCEPT ![Host(w)] = file[w]]
    /\ permit' = [permit EXCEPT ![Host(w)] = Nobody]
    /\ UNCHANGED <<todo, page, file, registered, asked, audited, lost, requested>>

(* allowed reads the entry; is_allowed_by_rules decides.                   *)
RefusedNow(w) ==
    /\ cell[Host(w)] \in Rules
    /\ page[w] \in Refused[cell[Host(w)]]

Decide(w) ==
    /\ Goto(w, "decide", IF RefusedNow(w) THEN "idle" ELSE "fetch")
    /\ UNCHANGED <<todo, page, cell, permit, file, registered, asked, audited, lost, requested>>

(* The page is fetched, and what it redirects to with it; the audit        *)
(* follows unless the fetch fails.                                         *)
FetchPage(w) ==
    /\ \E found \in BOOLEAN : Goto(w, "fetch", IF found THEN "audit" ELSE "idle")
    /\ \E targets \in {{}} \cup {{p} : p \in Redirects[page[w]]} :
          requested' = requested \cup {page[w]} \cup targets
    /\ UNCHANGED <<todo, page, cell, permit, file, registered, asked, audited, lost>>

(* RobotsAuditor fetches the robots.txt of the page's host for each page,  *)
(* past the cache.                                                         *)
AuditRobots(w) ==
    /\ Goto(w, "audit", "idle")
    /\ audited' = [audited EXCEPT ![Host(w)] = @ + 1]
    /\ UNCHANGED <<todo, page, cell, permit, file, registered, asked, lost, requested>>

(* The global timeout aborts a worker at an await.  An initialiser that is *)
(* dropped gives its permit back.                                          *)
Holds(w) == {h \in Hosts : permit[h] = w}

(* Mutant: the permit goes with the worker.                                *)
MutAbort(w) ==
    /\ pc[w] \notin {"registering", "decide", "aborted"}
    /\ pc' = [pc EXCEPT ![w] = "aborted"]
    /\ lost' = [h \in Hosts |-> IF h \in Holds(w) THEN lost[h] + 1 ELSE lost[h]]
    /\ UNCHANGED <<todo, page, cell, permit, file, registered, asked, audited, requested>>

Abort(w) ==
    /\ pc[w] \notin {"registering", "decide", "aborted"}
    /\ pc' = [pc EXCEPT ![w] = "aborted"]
    /\ permit' = [h \in Hosts |-> IF h \in Holds(w) THEN Nobody ELSE permit[h]]
    /\ lost' = [h \in Hosts |-> IF h \in Holds(w) THEN lost[h] + 1 ELSE lost[h]]
    /\ UNCHANGED <<todo, page, cell, file, registered, asked, audited, requested>>

Step(w) ==
    \/ ReadCell(w) \/ StartInit(w) \/ Answer(w) \/ Register(w) \/ SetCell(w)
    \/ Decide(w) \/ FetchPage(w) \/ AuditRobots(w)

Next == \E w \in Workers : Visit(w) \/ Step(w) \/ Abort(w)

Spec == Init /\ [][Next]_vars

Fairness == \A w \in Workers : WF_vars(Step(w))

FairSpec == Spec /\ Fairness

-----------------------------------------------------------------------------
(***************************************************************************)
(* Safety.                                                                 *)
(***************************************************************************)

(* However many workers meet a host at once, one of them fills its cell:   *)
(* the gate asks once for each host, and once more for each worker that    *)
(* was aborted while it did.                                               *)
SingleFlight == \A h \in Hosts : asked[h] <= 1 + lost[h]

(* No page gets past the gate of its host before the host's delays are     *)
(* with the limiter.                                                       *)
DelaysKnown ==
    \A h \in Hosts : cell[h] \in Rules => DelaysOf[cell[h]] \subseteq registered[h]

(* All workers judge by the same rules: a page that was requested for its  *)
(* own sake is open under the rules the cell holds, then and ever after.   *)
Judged == {p \in Pages : \E w \in Workers : page[w] = p /\ pc[w] \in {"fetch", "audit"}}

OneVerdict ==
    \A p \in Judged :
       /\ cell[HostOf[p]] # Unset
       /\ cell[HostOf[p]] \in Rules => p \notin Refused[cell[HostOf[p]]]

(* "Before fetching any URL, consult cached robots.txt per host" in        *)
(* docs/IMPLEMENTATION.md.                                                 *)
EveryUrlConsulted == \A p \in requested : cell[HostOf[p]] # Unset

(* "robots.txt must be fetched exactly once across multiple workers" in    *)
(* tests/crawler_robots_gate.rs.                                           *)
FetchedOnce == \A h \in Hosts : asked[h] + audited[h] <= 1

(***************************************************************************)
(* Liveness.                                                               *)
(***************************************************************************)

(* A worker that waits for the rules of a host gets them or is aborted,    *)
(* also when the one it waits for was aborted.                             *)
LookupReturns ==
    \A w \in Workers : pc[w] \in {"waiting", "asking"} ~> pc[w] \in {"decide", "aborted"}
=============================================================================

----------------------------- MODULE LinkProbe -----------------------------
(***************************************************************************)
(* BrokenLinksAuditor of src/audit/links.rs, run by the workers of a crawl *)
(* on one page each.  An audit spawns a task for every link of its page,   *)
(* bounds them by a semaphore of its own, and joins them in the order in   *)
(* which they end.  When its worker is aborted the JoinSet is dropped, and *)
(* every task with it.                                                     *)
(*                                                                         *)
(* How the server of a URL answers is chosen once: the findings can be     *)
(* held against it.  An answer is a class of status codes: "ok" is 200 to  *)
(* 399, "4xx" all of 400 to 499 but 405, "odd" a code outside 200 to 599,  *)
(* "none" no answer.  The answer to GET is that of the whole fetch.        *)
(***************************************************************************)
EXTENDS Naturals, FiniteSets

CONSTANTS
    Pages,     \* the pages that are audited
    Urls,      \* what they link to
    Links,     \* the URLs to probe of a page: normalised, each once
    Servers,   \* the ways a server answers
    Permits    \* MAX_CONCURRENT_PROBES

Answers == {"ok", "4xx", "405", "5xx", "odd", "none"}

ASSUME ProbeAssumption ==
    /\ Links \in [Pages -> SUBSET Urls]
    /\ Servers \subseteq [head : Answers, get : Answers]
    /\ Permits \in Nat \ {0}

(* A task of the JoinSet: a page and one of its links.                     *)
Tasks == {t \in Pages \X Urls : t[2] \in Links[t[1]]}

Of(p) == {t \in Tasks : t[1] = p}

VARIABLES
    server,     \* how a URL is answered
    audit,      \* where the audit of a page is
    sem,        \* the free permits of its semaphore
    probe,      \* where a task is
    outcome,    \* its ProbeOutcome, "open" before it has one
    findings,   \* the findings of a page: URLs and classes
    probed      \* how often a HEAD of a URL was sent

vars == <<server, audit, sem, probe, outcome, findings, probed>>

Outcomes == {"ok", "4xx", "5xx", "unreachable"}

TypeOK ==
    /\ server \in [Urls -> Servers]
    /\ audit \in [Pages -> {"idle", "joining", "done", "dropped"}]
    /\ sem \in [Pages -> Nat]
    /\ probe \in [Tasks -> {"unborn", "waiting", "head", "get", "ended", "joined", "dropped"}]
    /\ outcome \in [Tasks -> Outcomes \cup {"open"}]
    /\ findings \in [Pages -> SUBSET (Urls \X (Outcomes \ {"ok"}))]
    /\ probed \in [Urls -> Nat]

Init ==
    /\ server \in [Urls -> Servers]
    /\ audit = [p \in Pages |-> "idle"]
    /\ sem = [p \in Pages |-> Permits]
    /\ probe = [t \in Tasks |-> "unborn"]
    /\ outcome = [t \in Tasks |-> "open"]
    /\ findings = [p \in Pages |-> {}]
    /\ probed = [u \in Urls |-> 0]

-----------------------------------------------------------------------------
(* All tasks are spawned before the first of them is awaited.              *)
Start(p) ==
    /\ audit[p] = "idle"
    /\ audit' = [audit EXCEPT ![p] = "joining"]
    /\ probe' = [t \in Tasks |-> IF t \in Of(p) THEN "waiting" ELSE probe[t]]
    /\ UNCHANGED <<server, sem, outcome, findings, probed>>

(* A task gets a permit and sends its HEAD.                                *)
SendHead(t) ==
    /\ probe[t] = "waiting"
    /\ sem[t[1]] > 0
    /\ sem' = [sem EXCEPT ![t[1]] = @ - 1]
    /\ probe' = [probe EXCEPT ![t] = "head"]
    /\ probed' = [probed EXCEPT ![t[2]] = @ + 1]
    /\ UNCHANGED <<server, audit, outcome, findings>>

(* The match on the status.                                                *)
Class(answer) ==
    CASE answer = "ok" -> "ok"
      [] answer \in {"4xx", "405"} -> "4xx"
      [] answer = "5xx" -> "5xx"
      [] answer \in {"odd", "none"} -> "unreachable"

(* probe returns, and the permit is dropped with the task's future.        *)
(* Mutant: it is not.                                                      *)
MutKeepPermit(t, answer) ==
    /\ probe' = [probe EXCEPT ![t] = "ended"]
    /\ outcome' = [outcome EXCEPT ![t] = Class(answer)]
    /\ UNCHANGED sem

End(t, answer) ==
    /\ probe' = [probe EXCEPT ![t] = "ended"]
    /\ outcome' = [outcome EXCEPT ![t] = Class(answer)]
    /\ sem' = [sem EXCEPT ![t[1]] = @ + 1]

(* 405 and no answer to HEAD: the URL is fetched.                          *)
NeedsGet(answer) == answer \in {"405", "none"}

HeadAnswered(t) ==
    /\ probe[t] = "head"
    /\ ~NeedsGet(server[t[2]].head)
    /\ End(t, server[t[2]].head)
    /\ UNCHANGED <<server, audit, findings, probed>>

FallBack(t) ==
    /\ probe[t] = "head"
    /\ NeedsGet(server[t[2]].head)
    /\ probe' = [probe EXCEPT ![t] = "get"]
    /\ UNCHANGED <<server, audit, sem, outcome, findings, probed>>

GetAnswered(t) ==
    /\ probe[t] = "get"
    /\ End(t, server[t[2]].get)
    /\ UNCHANGED <<server, audit, findings, probed>>

(* join_next hands the audit the outcome of a task that has ended.         *)
Join(t) ==
    /\ audit[t[1]] = "joining"
    /\ probe[t] = "ended"
    /\ probe' = [probe EXCEPT ![t] = "joined"]
    /\ findings' = [findings EXCEPT ![t[1]] =
          IF outcome[t] = "ok" THEN @ ELSE @ \cup {<<t[2], outcome[t]>>}]
    /\ UNCHANGED <<server, audit, sem, outcome, probed>>

(* join_next finds the JoinSet empty.  Mutant: it finds nobody at work.    *)
MutFinish(p) ==
    /\ audit[p] = "joining"
    /\ \A t \in Of(p) : probe[t] \in {"waiting", "joined"}
    /\ audit' = [audit EXCEPT ![p] = "done"]
    /\ UNCHANGED <<server, sem, probe, outcome, findings, probed>>

Finish(p) ==
    /\ audit[p] = "joining"
    /\ \A t \in Of(p) : probe[t] = "joined"
    /\ audit' = [audit EXCEPT ![p] = "done"]
    /\ UNCHANGED <<server, sem, probe, outcome, findings, probed>>

(* The worker is aborted while its audit joins.                            *)
Drop(p) ==
    /\ audit[p] = "joining"
    /\ audit' = [audit EXCEPT ![p] = "dropped"]
    /\ probe' = [t \in Tasks |-> IF t \in Of(p) THEN "dropped" ELSE probe[t]]
    /\ UNCHANGED <<server, sem, outcome, findings, probed>>

Task(t) == SendHead(t) \/ HeadAnswered(t) \/ FallBack(t) \/ GetAnswered(t) \/ Join(t)

Next ==
    \/ \E p \in Pages : Start(p) \/ Finish(p) \/ Drop(p)
    \/ \E t \in Tasks : Task(t)

Spec == Init /\ [][Next]_vars

Fairness ==
    /\ \A t \in Tasks : WF_vars(Task(t))
    /\ \A p \in Pages : WF_vars(Finish(p))

FairSpec == Spec /\ Fairness

-----------------------------------------------------------------------------
(***************************************************************************)
(* Safety.                                                                 *)
(***************************************************************************)

(* The semaphore and the tasks agree: a permit is free or with a task that *)
(* has sent a request and not yet had its last answer.                     *)
InFlight(p) == {t \in Of(p) : probe[t] \in {"head", "get"}}

PermitsAccounted ==
    \A p \in Pages :
       audit[p] # "dropped" => sem[p] + Cardinality(InFlight(p)) = Permits

(* An audit that is through has judged every link of its page, by GET      *)
(* where HEAD said nothing, whatever the order in which the tasks ended;   *)
(* at no time does it hold a finding that is not so.                       *)
Verdict(u) ==
    Class(IF NeedsGet(server[u].head) THEN server[u].get ELSE server[u].head)

Deserved(p) == {f \in Links[p] \X (Outcomes \ {"ok"}) : f[2] = Verdict(f[1])}

FindingsExact ==
    \A p \in Pages :
       /\ findings[p] \subseteq Deserved(p)
       /\ audit[p] = "done" => findings[p] = Deserved(p)

(* A link that answers neither HEAD nor GET with 200 to 399 is among them. *)
DeadReported ==
    \A p \in Pages : \A u \in Links[p] :
       audit[p] = "done" /\ server[u].head # "ok" /\ server[u].get # "ok" =>
          \E c \in Outcomes : <<u, c>> \in findings[p]

(* "Rate-limit and dedup probes so each URL is tested once" in             *)
(* docs/PLAN.md.                                                           *)
TestedOnce == \A u \in Urls : probed[u] <= 1

(* "fall back to GET for HEAD-hostile servers", there too: a link that     *)
(* works is not reported because its server does not like HEAD.            *)
HostileSpared ==
    \A p \in Pages, f \in Urls \X Outcomes :
       f \in findings[p] => server[f[1]].get # "ok"

=============================================================================

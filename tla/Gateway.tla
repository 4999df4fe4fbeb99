------------------------------ MODULE Gateway ------------------------------
(***************************************************************************)
(* frontend/app/api/audit/route.ts and audit/stream/route.ts: the requests *)
(* that reach the audits through the front end.  Its handlers run on one   *)
(* thread and give way to each other only where they await, so an action   *)
(* is the code from one await to the next.  Proxied: NEXT_PUBLIC_SEO_RS_URL*)
(* is set and the audits run behind the audit server; otherwise each       *)
(* request starts the program as a child.  Protected: PROTECTION_ENABLED,  *)
(* that is LIVE_DEMO_RATE_LIMIT_PROTECTION is "true"; by default it is not *)
(* and no request is limited or refused as one too many.                   *)
(*                                                                         *)
(* Requests are numbered in the order they arrive.  The bounds of the      *)
(* model are AddressOf, LastTime (the clock) and MaxOpens (how often the    *)
(* page opens the event stream of one job: it does again when its effect   *)
(* runs again).                                                            *)
(***************************************************************************)
EXTENDS Naturals, FiniteSets, Sequences, SequencesExt

CONSTANTS AddressOf,     \* a sequence: the address each request comes from
          MaxConcurrent,
          RateMax,
          RateWindow,
          LastTime,
          MaxOpens

ASSUME GatewayAssumption ==
    /\ AddressOf \in Seq(STRING)
    /\ MaxConcurrent \in Nat \ {0}
    /\ RateMax \in Nat \ {0}
    /\ RateWindow \in Nat \ {0}
    /\ LastTime \in Nat
    /\ MaxOpens \in Nat

VARIABLES proxied,
          protected,
          now,
          rateMap,       \* of each ip: count (0: no entry) and windowStart
          activeAudits,
          stage,         \* of each request: where it awaits
          reply,         \* what it was answered
          passed,        \* when it got past the rate limit
          opens,         \* how often the stream of its job was opened
          rows           \* rows of audit_runs that hold its report

gateVars == <<proxied, protected, now, rateMap, activeAudits, stage, reply, passed, opens, rows>>

NoReply == "none"

Never == LastTime + 1

Requests == DOMAIN AddressOf

Ips == Range(AddressOf)

Running == {r \in Requests : stage[r] \in {"child", "saving"}}

GateTypeOK ==
    /\ proxied \in BOOLEAN
    /\ protected \in BOOLEAN
    /\ now \in 0 .. LastTime
    /\ rateMap \in [Ips -> [count : 0 .. RateMax, start : 0 .. LastTime]]
    /\ activeAudits \in 0 .. Len(AddressOf)
    /\ stage \in [Requests -> {"new", "body", "child", "saving", "answered", "relay", "relayed"}]
    /\ reply \in [Requests -> {NoReply, "limited", "busy", "error", "report", "job"}]
    /\ passed \in [Requests -> 0 .. Never]
    /\ opens \in [Requests -> 0 .. MaxOpens]
    /\ rows \in [Requests -> 0 .. MaxOpens + 1]

GateInit ==
    /\ proxied \in BOOLEAN
    /\ protected \in BOOLEAN
    /\ now = 0
    /\ rateMap = [ip \in Ips |-> [count |-> 0, start |-> 0]]
    /\ activeAudits = 0
    /\ stage = [r \in Requests |-> "new"]
    /\ reply = [r \in Requests |-> NoReply]
    /\ passed = [r \in Requests |-> Never]
    /\ opens = [r \in Requests |-> 0]
    /\ rows = [r \in Requests |-> 0]

Goto(r, place) == stage' = [stage EXCEPT ![r] = place]

Answer(r, what) == Goto(r, "answered") /\ reply' = [reply EXCEPT ![r] = what]

InWindow(ip) == rateMap[ip].count > 0 /\ now - rateMap[ip].start < RateWindow

isRateLimited(ip) == InWindow(ip) /\ rateMap[ip].count >= RateMax

(* Mutant: the count begins anew, but not its window.                      *)
MutCounted(ip) ==
    rateMap' = [rateMap EXCEPT ![ip].count = IF InWindow(ip) THEN @ + 1 ELSE 1]

Counted(ip) ==
    rateMap' = [rateMap EXCEPT ![ip] =
                  [count |-> IF InWindow(ip) THEN rateMap[ip].count + 1 ELSE 1,
                   start |-> IF InWindow(ip) THEN rateMap[ip].start ELSE now]]

(* Up to the await of the body.  A request refused as busy has counted.    *)
Arrive(r) == LET ip == AddressOf[r] IN
    /\ stage[r] = "new" /\ \A q \in 1 .. r - 1 : stage[q] # "new"
    /\ \/ /\ protected /\ isRateLimited(ip)
          /\ Answer(r, "limited") /\ UNCHANGED <<rateMap, passed>>
       \/ /\ IF protected THEN ~isRateLimited(ip) /\ Counted(ip) ELSE UNCHANGED rateMap
          /\ passed' = [passed EXCEPT ![r] = now]
          /\ IF protected /\ activeAudits >= MaxConcurrent THEN Answer(r, "busy")
             ELSE Goto(r, "body") /\ UNCHANGED reply
    /\ UNCHANGED <<proxied, protected, now, activeAudits, opens, rows>>

(* The body is no JSON, names no url, or one that is not http or https.    *)
Invalid(r) ==
    /\ stage[r] = "body" /\ Answer(r, "error")
    /\ UNCHANGED <<proxied, protected, now, rateMap, activeAudits, passed, opens, rows>>

(* The slot is taken here, an await after MAX_CONCURRENT was looked at.    *)
Spawn(r) ==
    /\ stage[r] = "body" /\ ~proxied
    /\ Goto(r, "child")
    /\ activeAudits' = activeAudits + 1
    /\ UNCHANGED <<proxied, protected, now, rateMap, reply, passed, opens, rows>>

(* Mutant: the slot is given back only where a report was read.            *)
MutChildFails(r) ==
    /\ stage[r] = "child" /\ Answer(r, "error")
    /\ UNCHANGED <<proxied, protected, now, rateMap, activeAudits, passed, opens, rows>>

(* Mutant: nobody listens for a child that cannot be started.              *)
MutUnheard(r) ==
    /\ stage[r] = "child" /\ Goto(r, "unheard")
    /\ UNCHANGED <<proxied, protected, now, rateMap, activeAudits, reply, passed, opens, rows>>

(* It could not be started, left with an error, or no report in its file.  *)
ChildFails(r) ==
    /\ stage[r] = "child" /\ Answer(r, "error")
    /\ activeAudits' = activeAudits - 1
    /\ UNCHANGED <<proxied, protected, now, rateMap, passed, opens, rows>>

ChildReports(r) ==
    /\ stage[r] = "child" /\ Goto(r, "saving")
    /\ UNCHANGED <<proxied, protected, now, rateMap, activeAudits, reply, passed, opens, rows>>

(* saveAuditRun, where an error is only logged, then finally.              *)
Saved(r) ==
    /\ stage[r] = "saving" /\ Answer(r, "report")
    /\ rows' \in {rows, [rows EXCEPT ![r] = @ + 1]}
    /\ activeAudits' = activeAudits - 1
    /\ UNCHANGED <<proxied, protected, now, rateMap, passed, opens>>

(* The audit server answers with a job or an error, or cannot be reached.  *)
ForwardJob(r) ==
    /\ stage[r] = "body" /\ proxied
    /\ \E what \in {"job", "error"} : Answer(r, what)
    /\ UNCHANGED <<proxied, protected, now, rateMap, activeAudits, passed, opens, rows>>

(* The page opens the job's events; the audit server replays them all.     *)
Open(r) ==
    /\ stage[r] = "answered" /\ reply[r] = "job" /\ opens[r] < MaxOpens
    /\ opens' = [opens EXCEPT ![r] = @ + 1]
    /\ \E place \in {"relay", "answered"} : Goto(r, place)
    /\ UNCHANGED <<proxied, protected, now, rateMap, activeAudits, reply, passed, rows>>

(* Done is the last event, but the relay reads on.  Its bytes are passed   *)
(* on first, which throws when the page has gone: then RelayEnds, and the  *)
(* report is not stored.                                                   *)
RelayDone(r) ==
    /\ stage[r] = "relay" /\ Goto(r, "relayed")
    /\ rows' \in {rows, [rows EXCEPT ![r] = @ + 1]}
    /\ UNCHANGED <<proxied, protected, now, rateMap, activeAudits, reply, passed, opens>>

(* The audit server closes its stream, as it does when its sweeper forgets *)
(* the job, or is gone; or bytes come that nobody reads any more.          *)
RelayEnds(r) ==
    /\ stage[r] \in {"relay", "relayed"} /\ Goto(r, "answered")
    /\ UNCHANGED <<proxied, protected, now, rateMap, activeAudits, reply, passed, opens, rows>>

Tick ==
    /\ now < LastTime /\ now' = now + 1
    /\ UNCHANGED <<proxied, protected, rateMap, activeAudits, stage, reply, passed, opens, rows>>

Handle(r) ==
    Invalid(r) \/ Spawn(r) \/ ChildFails(r) \/ ChildReports(r) \/ Saved(r)
      \/ ForwardJob(r) \/ RelayDone(r) \/ RelayEnds(r)

GateNext ==
    \/ Tick
    \/ \E r \in Requests : Handle(r) \/ Open(r) \/ Arrive(r)

GateSpec == GateInit /\ [][GateNext]_gateVars

(* What is awaited comes: a body, the end of a child, an answer, the end   *)
(* of a stream.                                                            *)
FairGateSpec == GateSpec /\ \A r \in Requests : WF_gateVars(Handle(r))

-----------------------------------------------------------------------------

(* A slot is held by each request that runs a child or saves its report,   *)
(* whichever way it left before, and by no other.                          *)
SlotsAccounted == activeAudits = Cardinality(Running)

(* Where the protection is on, in no stretch of time as long as the window *)
(* do 2 * RATE_LIMIT_MAX requests of one address get past the limit,       *)
(* wherever its windows begin.                                             *)
BurstBounded ==
    protected => \A ip \in Ips, from \in 0 .. now :
       Cardinality({r \in Requests : /\ AddressOf[r] = ip
                                     /\ passed[r] \in from .. from + RateWindow - 1
                                     /\ passed[r] # Never}) < 2 * RateMax

(* Where requests are refused as busy, and more audits may run than there  *)
(* are slots, they are not refused for ever: the slots come free again, on *)
(* whichever way the audits that hold them end.                            *)
BusyPasses ==
    protected /\ activeAudits >= MaxConcurrent ~> activeAudits < MaxConcurrent

(* DEPLOY.md promises of the protection "max 3 concurrent audits": at most *)
(* MAX_CONCURRENT.                                                         *)
AtMostMax == protected => activeAudits <= MaxConcurrent

(* One audit is one row of the history.                                    *)
OneRow == \A r \in Requests : rows[r] <= 1
=============================================================================

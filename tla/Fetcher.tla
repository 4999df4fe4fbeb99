------------------------------ MODULE Fetcher ------------------------------
(***************************************************************************)
(* Fetcher::fetch of src/fetcher/client.rs: one URL is requested, its      *)
(* redirects are followed by hand, and a server that is busy is asked      *)
(* again.  Whoever called it makes a report of what comes back: the        *)
(* single-page path of src/pipeline.rs, or a worker of the crawl.          *)
(*                                                                         *)
(* The servers are a choice at every request: the same URL may answer      *)
(* differently each time.  A busy answer is a 429 or a 503, a redirect a   *)
(* 3xx with a Location header; every other status is a final answer.       *)
(***************************************************************************)
EXTENDS Naturals, FiniteSets, Sequences, SequencesExt, Functions

CONSTANTS
    Urls,          \* what a Location can lead to
    Hosts,
    HostOf,        \* the host of a URL that has one: mailto: has none
    MaxRedirects,  \* MAX_REDIRECTS
    MaxRetries,    \* MAX_RETRIES
    RetryAfters,   \* the numbers of seconds a busy server may ask for
    Caller         \* "single" or "worker"

ASSUME FetcherAssumption ==
    /\ DOMAIN HostOf \subseteq Urls
    /\ HostOf \in [DOMAIN HostOf -> Hosts]
    /\ MaxRedirects \in Nat
    /\ MaxRetries \in Nat
    /\ RetryAfters \subseteq Nat
    /\ Caller \in {"single", "worker"}

VARIABLES
    pc,        \* where fetch is
    current,   \* the URL of this hop
    chain,     \* the URLs that redirected
    seen,      \* the URLs of all hops
    attempt,   \* the retries of this hop
    wait,      \* the seconds slept before the next attempt
    requests,  \* every request sent: its URL, attempt and the wait before it
    cells,     \* the cells of the rate limiter taken, by host
    outcome,   \* what fetch returns
    report     \* what the caller makes of it

vars == <<pc, current, chain, seen, attempt, wait, requests, cells, outcome, report>>

Outcomes == {"page", "busy", "loop", "error"}

(* What a retry may wait: the server's Retry-After, or a power of two.     *)
Waits(n) == RetryAfters \cup {2 ^ n}

AllWaits == {0} \cup UNION {Waits(n) : n \in 0..MaxRetries}

Requests == [url : Urls, attempt : 0..MaxRetries, waited : AllWaits]

TypeOK ==
    /\ pc \in {"hop", "acquire", "send", "sleep", "returned", "reported"}
    /\ current \in Urls
    /\ chain \in Seq(Urls)
    /\ seen \subseteq Urls
    /\ attempt \in 0..MaxRetries
    /\ wait \in AllWaits
    /\ requests \in Seq(Requests)
    /\ cells \in [Hosts -> Nat]
    /\ outcome \in Outcomes \cup {"none"}
    /\ report \in {"none", "page", "loop", "failed", "skipped"}

Init ==
    /\ pc = "hop"
    /\ current \in Urls
    /\ chain = <<>>
    /\ seen = {}
    /\ attempt = 0
    /\ wait = 0
    /\ requests = <<>>
    /\ cells = [h \in Hosts |-> 0]
    /\ outcome = "none"
    /\ report = "none"

Return(result) ==
    /\ outcome' = result
    /\ pc' = "returned"

-----------------------------------------------------------------------------
(* The head of the outer loop.  A URL seen before ends the fetch, then the *)
(* hop limit does, then a URL without a host.  Both of the first two are   *)
(* SeoError::RedirectLoop.                                                 *)
FindLoop ==
    /\ pc = "hop"
    /\ current \in seen
    /\ Return("loop")
    /\ UNCHANGED <<current, chain, seen, attempt, wait, requests, cells, report>>

(* Mutant: the limit is one hop further.                                   *)
MutTooLong == Len(chain) > MaxRedirects

TooLong == Len(chain) >= MaxRedirects

HopLimit ==
    /\ pc = "hop"
    /\ current \notin seen
    /\ TooLong
    /\ seen' = seen \cup {current}
    /\ Return("loop")
    /\ UNCHANGED <<current, chain, attempt, wait, requests, cells, report>>

NoHost ==
    /\ pc = "hop"
    /\ current \notin seen
    /\ ~TooLong
    /\ current \notin DOMAIN HostOf
    /\ seen' = seen \cup {current}
    /\ Return("error")
    /\ UNCHANGED <<current, chain, attempt, wait, requests, cells, report>>

StartHop ==
    /\ pc = "hop"
    /\ current \notin seen
    /\ ~TooLong
    /\ current \in DOMAIN HostOf
    /\ seen' = seen \cup {current}
    /\ pc' = "acquire"
    /\ attempt' = 0
    /\ wait' = 0
    /\ UNCHANGED <<current, chain, requests, cells, outcome, report>>

(* A cell for this attempt.                                                *)
Acquire ==
    /\ pc = "acquire"
    /\ pc' = "send"
    /\ cells' = [cells EXCEPT ![HostOf[current]] = @ + 1]
    /\ UNCHANGED <<current, chain, seen, attempt, wait, requests, outcome, report>>

Send ==
    /\ pc = "send"
    /\ requests' = Append(requests, [url |-> current, attempt |-> attempt, waited |-> wait])

(* Mutant: the chain begins with the first target.                         *)
MutRedirect ==
    /\ Send
    /\ \E next \in Urls :
          /\ chain' = Append(chain, next)
          /\ current' = next
    /\ pc' = "hop"
    /\ UNCHANGED <<seen, attempt, wait, cells, outcome, report>>

Redirect ==
    /\ Send
    /\ \E next \in Urls :
          /\ chain' = Append(chain, current)
          /\ current' = next
    /\ pc' = "hop"
    /\ UNCHANGED <<seen, attempt, wait, cells, outcome, report>>

(* The request fails or runs into the client's timeout, its Location is no *)
(* URL, or the body breaks off.                                            *)
SendFails ==
    /\ Send
    /\ Return("error")
    /\ UNCHANGED <<current, chain, seen, attempt, wait, cells, report>>

Busy ==
    /\ Send
    /\ attempt < MaxRetries
    /\ wait' \in Waits(attempt)
    /\ pc' = "sleep"
    /\ UNCHANGED <<current, chain, seen, attempt, cells, outcome, report>>

(* A page, or the last of the busy answers in place of one.                *)
Final ==
    /\ Send
    /\ \/ Return("page")
       \/ attempt = MaxRetries /\ Return("busy")
    /\ UNCHANGED <<current, chain, seen, attempt, wait, cells, report>>

(* Mutant: a retry goes straight to the server.                            *)
MutAwakeWithoutCell ==
    /\ pc = "sleep"
    /\ attempt' = attempt + 1
    /\ pc' = "send"
    /\ UNCHANGED <<current, chain, seen, wait, requests, cells, outcome, report>>

Awake ==
    /\ pc = "sleep"
    /\ attempt' = attempt + 1
    /\ pc' = "acquire"
    /\ UNCHANGED <<current, chain, seen, wait, requests, cells, outcome, report>>

(* The single-page path turns a loop into a page with a critical finding   *)
(* (handle_redirect_loop); a worker skips the page whatever the error was. *)
Report ==
    /\ pc = "returned"
    /\ pc' = "reported"
    /\ \/ outcome \in {"page", "busy"} /\ report' = "page"
       \/ outcome \in {"loop", "error"} /\ Caller = "worker" /\ report' = "skipped"
       \/ outcome = "loop" /\ Caller = "single" /\ report' = "loop"
       \/ outcome = "error" /\ Caller = "single" /\ report' = "failed"
    /\ UNCHANGED <<current, chain, seen, attempt, wait, requests, cells, outcome>>

Next ==
    \/ FindLoop \/ HopLimit \/ NoHost \/ StartHop \/ Acquire
    \/ Redirect \/ SendFails \/ Busy \/ Final \/ Awake \/ Report

Spec == Init /\ [][Next]_vars

-----------------------------------------------------------------------------
(***************************************************************************)
(* Safety.                                                                 *)
(***************************************************************************)

(* The hop a request belongs to: the first attempts up to it.              *)
HopOf(i) == Cardinality({j \in 1..i : requests[j].attempt = 0})

(* The requests are, in their order, those of these URLs, each with its    *)
(* retries.                                                                *)
Asked(urls) ==
    /\ HopOf(Len(requests)) = Len(urls)
    /\ \A i \in DOMAIN requests : requests[i].url = urls[HopOf(i)]

(* No URL is asked in two hops, and the chain tells what was asked, in     *)
(* that order: with the page's own URL at its end if there is a page, and  *)
(* with as many URLs as the error counts hops if there is a loop.          *)
ChainTellsAll ==
    /\ IsInjective(chain)
    /\ outcome \in {"page", "busy"} => Asked(Append(chain, current))
    /\ outcome = "loop" => Asked(chain)

(* A server is asked a bounded number of times for one fetch, whatever it  *)
(* answers.                                                                *)
RequestsBounded == Len(requests) <= MaxRedirects * (MaxRetries + 1)

(* Retries are paid for: every request, they and the redirects too, has    *)
(* taken a cell of its own host; and a busy answer is taken for the page   *)
(* only after every retry of that very URL, earlier hops having cost none. *)
CellPerRequest ==
    \A h \in DOMAIN cells :
       cells[h] = Cardinality({i \in DOMAIN requests : HostOf[requests[i].url] = h})
                  + (IF pc = "send" /\ HostOf[current] = h THEN 1 ELSE 0)

BudgetSpent ==
    outcome = "busy" =>
       Cardinality({i \in DOMAIN requests : requests[i].url = current}) = MaxRetries + 1

(* Both.                                                                   *)
RetriesPaid == CellPerRequest /\ BudgetSpent

(* A retry follows the attempt before it, of the same URL, after the wait  *)
(* the server asked for or the power of two of that attempt.               *)
Backoff ==
    \A i \in DOMAIN requests :
       requests[i].attempt > 0 =>
          /\ i > 1
          /\ requests[i - 1].url = requests[i].url
          /\ requests[i - 1].attempt = requests[i].attempt - 1
          /\ requests[i].waited \in Waits(requests[i].attempt - 1)

(* "Redirect loop detected at {url} after {hops} hops" in src/error.rs:    *)
(* the URL was asked before.                                               *)
LoopIsALoop == outcome = "loop" => current \in Range(chain)

(* "for hop in 0..=10" in docs/IMPLEMENTATION.md: ten redirects are        *)
(* followed, and it is the eleventh that is not.                           *)
TenRedirectsFollowed ==
    outcome = "loop" /\ current \notin Range(chain) => Len(chain) > MaxRedirects

(* "on repeat, abort + emit Critical loop finding" in docs/PLAN.md.        *)
LoopReported ==
    pc = "reported" /\ outcome = "loop" => report = "loop"

=============================================================================

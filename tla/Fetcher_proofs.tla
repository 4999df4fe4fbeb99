-------------------------- MODULE Fetcher_proofs --------------------------
(***************************************************************************)
(* Proofs about Fetcher, for any URLs, hosts and limits, and about the     *)
(* audit of one page around it, SinglePage, for any flags and findings.    *)
(*                                                                         *)
(* The theorems about the fetch rest on what a place in the code says of   *)
(* the requests made so far: a hop behind us has cost at most MaxRetries   *)
(* + 1 of them, and the last one belongs to the attempt before this one.   *)
(***************************************************************************)
EXTENDS SinglePage, FiniteSetTheorems, TLAPS

PerHop == MaxRetries + 1

(* What the requests may number, and where the limits still leave room.    *)
BudgetInv ==
    /\ pc = "hop" => Len(chain) <= MaxRedirects /\ Len(requests) <= Len(chain) * PerHop
    /\ pc \in {"acquire", "send"} =>
          Len(chain) < MaxRedirects /\ Len(requests) <= Len(chain) * PerHop + attempt
    /\ pc = "sleep" =>
          /\ Len(chain) < MaxRedirects
          /\ attempt < MaxRetries
          /\ Len(requests) <= Len(chain) * PerHop + attempt + 1
    /\ pc \in {"returned", "reported"} => RequestsBounded

(* What the last request was.                                              *)
LastWas(n) ==
    /\ requests # <<>>
    /\ requests[Len(requests)].url = current
    /\ requests[Len(requests)].attempt = n
    /\ wait \in Waits(n)

LastInv ==
    /\ pc \in {"acquire", "send", "sleep"} => current \in DOMAIN HostOf
    /\ pc = "sleep" => LastWas(attempt)
    /\ pc \in {"acquire", "send"} /\ attempt > 0 => LastWas(attempt - 1)

IInv == TypeOK /\ BudgetInv /\ LastInv /\ Backoff

(* The arithmetic of the budget.                                           *)
LEMMA Products ==
    ASSUME NEW k \in Nat
    PROVE  /\ k * PerHop \in Nat
           /\ MaxRedirects * PerHop \in Nat
           /\ (k + 1) * PerHop = k * PerHop + PerHop
           /\ k <= MaxRedirects => k * PerHop <= MaxRedirects * PerHop
           /\ k < MaxRedirects => k * PerHop + PerHop <= MaxRedirects * PerHop
<1>1. PerHop \in Nat /\ MaxRedirects \in Nat
  BY FetcherAssumption DEF PerHop
<1>2. \A n, a, b \in Nat : n * a \in Nat /\ (a <= b => a * n <= b * n) /\ (a + 1) * n = a * n + n
  OBVIOUS
<1>3. k < MaxRedirects => (k + 1) * PerHop <= MaxRedirects * PerHop
  BY <1>1, <1>2
<1>. QED
  BY <1>1, <1>2, <1>3

(* What a request adds to the requests before it.                          *)
LEMMA Sent ==
    ASSUME TypeOK, Send
    PROVE  LET r == [url |-> current, attempt |-> attempt, waited |-> wait]
           IN  /\ pc = "send"
               /\ r \in Requests
               /\ requests' = Append(requests, r)
               /\ requests' \in Seq(Requests)
               /\ requests' # <<>>
               /\ Len(requests') = Len(requests) + 1
               /\ Len(requests) \in Nat
               /\ requests'[Len(requests')] = r
               /\ \A i \in DOMAIN requests : requests'[i] = requests[i]
               /\ DOMAIN requests' = DOMAIN requests \cup {Len(requests) + 1}
<1>. DEFINE r == [url |-> current, attempt |-> attempt, waited |-> wait]
<1>1. r \in Requests
  BY DEF TypeOK, Requests
<1>2. requests' = Append(requests, r) /\ pc = "send" /\ requests \in Seq(Requests)
  BY DEF TypeOK, Send
<1>. HIDE DEF r
<1>3. /\ requests' \in Seq(Requests)
      /\ Len(requests') = Len(requests) + 1
      /\ Len(requests) \in Nat
      /\ requests'[Len(requests')] = r
      /\ \A i \in DOMAIN requests : requests'[i] = requests[i]
      /\ DOMAIN requests' = DOMAIN requests \cup {Len(requests) + 1}
  BY <1>1, <1>2
<1>4. requests' # <<>>
  BY <1>2, <1>3
<1>. QED
  BY <1>1, <1>2, <1>3, <1>4 DEF r

LEMMA WaitsTyped ==
    /\ 0 \in AllWaits
    /\ \A n \in 0..MaxRetries : Waits(n) \subseteq AllWaits
BY FetcherAssumption DEF AllWaits

LEMMA Room ==
    ASSUME TypeOK
    PROVE  /\ PerHop \in Nat /\ attempt \in Nat /\ attempt + 1 <= PerHop
           /\ Len(chain) \in Nat /\ Len(requests) \in Nat /\ MaxRedirects \in Nat
           /\ \A u : Len(Append(chain, u)) = Len(chain) + 1
BY FetcherAssumption DEF TypeOK, PerHop

(* Each action keeps every variable in its type.                           *)
LEMMA TypeOKKept ==
    ASSUME IInv, [Next]_vars
    PROVE  TypeOK'
<1>. TypeOK
  BY DEF IInv
<1>0. CASE UNCHANGED vars
  BY <1>0 DEF TypeOK, vars
<1>1. CASE FindLoop
  BY <1>1, FetcherAssumption, WaitsTyped DEF FindLoop, Return, TypeOK, Outcomes
<1>2. CASE HopLimit
  BY <1>2, FetcherAssumption, WaitsTyped DEF HopLimit, TooLong, Return, TypeOK, Outcomes
<1>3. CASE NoHost
  BY <1>3, FetcherAssumption, WaitsTyped DEF NoHost, TooLong, Return, TypeOK, Outcomes
<1>4. CASE StartHop
  <2>1. 0 \in 0..MaxRetries /\ 0 \in AllWaits
    BY FetcherAssumption, WaitsTyped
  <2>. QED
    BY <1>4, <2>1 DEF StartHop, TooLong, TypeOK
<1>5. CASE Acquire
  <2>1. HostOf[current] \in Hosts
    BY <1>5, FetcherAssumption DEF Acquire, IInv, LastInv
  <2>2. cells' \in [Hosts -> Nat]
    BY <1>5, <2>1 DEF Acquire, TypeOK
  <2>. QED
    BY <1>5, <2>2 DEF Acquire, TypeOK
<1>6. CASE Redirect
  <2>1. chain' \in Seq(Urls) /\ current' \in Urls
    BY <1>6 DEF Redirect, TypeOK
  <2>2. requests' \in Seq(Requests)
    BY <1>6, Sent DEF Redirect
  <2>. QED
    BY <1>6, <2>1, <2>2 DEF Redirect, TypeOK
<1>7. CASE SendFails
  BY <1>7, Sent, FetcherAssumption, WaitsTyped DEF SendFails, Return, TypeOK, Outcomes
<1>8. CASE Busy
  BY <1>8, Sent, FetcherAssumption, WaitsTyped DEF Busy, TypeOK, Outcomes
<1>9. CASE Final
  BY <1>9, Sent, FetcherAssumption, WaitsTyped DEF Final, Return, TypeOK, Outcomes
<1>10. CASE Awake
  <2>1. attempt + 1 \in 0..MaxRetries
    BY <1>10, FetcherAssumption DEF Awake, IInv, BudgetInv, TypeOK
  <2>. QED
    BY <1>10, <2>1 DEF Awake, TypeOK
<1>11. CASE Report
  <2>1. report' \in {"none", "page", "loop", "failed", "skipped"}
    BY <1>11 DEF Report
  <2>. QED
    BY <1>11, <2>1 DEF Report, TypeOK
<1>. QED
  BY <1>0, <1>1, <1>2, <1>3, <1>4, <1>5, <1>6, <1>7, <1>8, <1>9, <1>10, <1>11 DEF Next

(* A request is paid for by its attempt, a hop by its retries.             *)
LEMMA BudgetInvKept ==
    ASSUME IInv, [Next]_vars
    PROVE  BudgetInv'
<1>. TypeOK
  BY DEF IInv
<1>. DEFINE spent == Len(chain) * PerHop
            all == MaxRedirects * PerHop
<1>a. /\ spent \in Nat /\ all \in Nat
      /\ (Len(chain) + 1) * PerHop = spent + PerHop
      /\ Len(chain) <= MaxRedirects => spent <= all
      /\ Len(chain) < MaxRedirects => spent + PerHop <= all
  BY Products, Room
<1>b. /\ RequestsBounded <=> Len(requests) <= all
      /\ RequestsBounded' <=> Len(requests') <= all
  BY DEF RequestsBounded, PerHop
<1>. HIDE DEF spent, all
<1>0. CASE UNCHANGED vars
  BY <1>0 DEF IInv, TypeOK, vars, BudgetInv, RequestsBounded, PerHop
<1>1. CASE FindLoop
  BY <1>1, <1>a, <1>b, Room DEF FindLoop, Return, IInv, BudgetInv, spent, all
<1>2. CASE HopLimit
  BY <1>2, <1>a, <1>b, Room DEF HopLimit, TooLong, Return, IInv, BudgetInv, spent, all
<1>3. CASE NoHost
  BY <1>3, <1>a, <1>b, Room DEF NoHost, TooLong, Return, IInv, BudgetInv, spent, all
<1>4. CASE StartHop
  BY <1>4, <1>a, <1>b, Room DEF StartHop, TooLong, IInv, BudgetInv, spent, all
<1>5. CASE Acquire
  BY <1>5, <1>a, <1>b, Room DEF Acquire, IInv, BudgetInv, spent, all
<1>6. CASE Redirect
  <2>1. /\ Len(chain) < MaxRedirects
        /\ Len(requests) <= spent + attempt
        /\ Len(requests') = Len(requests) + 1
    BY <1>6, Sent DEF Redirect, IInv, BudgetInv, spent
  <2>2. pc' = "hop" /\ Len(chain') = Len(chain) + 1
    BY <1>6, Room DEF Redirect
  <2>3. Len(requests') <= spent + PerHop
    BY <2>1, <1>a, Room
  <2>4. Len(requests') <= Len(chain') * PerHop
    BY <2>2, <2>3, <1>a
  <2>5. Len(chain') <= MaxRedirects
    BY <2>1, <2>2, Room
  <2>. QED
    BY <2>2, <2>4, <2>5 DEF BudgetInv
<1>7. CASE SendFails
  <2>1. /\ Len(chain) < MaxRedirects
        /\ Len(requests) <= spent + attempt
        /\ Len(requests') = Len(requests) + 1
    BY <1>7, Sent DEF SendFails, IInv, BudgetInv, spent
  <2>2. Len(requests') <= all
    BY <1>a, <2>1, Room
  <2>3. pc' = "returned"
    BY <1>7 DEF SendFails, Return
  <2>. QED
    BY <1>b, <2>2, <2>3 DEF BudgetInv
<1>8. CASE Busy
  <2>1. /\ Len(chain) < MaxRedirects
        /\ Len(requests) <= spent + attempt
    BY <1>8, Sent DEF Busy, IInv, BudgetInv, spent
  <2>2. Len(requests') = Len(requests) + 1
    BY <1>8, Sent DEF Busy
  <2>3. pc' = "sleep" /\ attempt < MaxRetries /\ UNCHANGED <<chain, attempt>>
    BY <1>8 DEF Busy
  <2>4. Len(requests') <= spent + attempt + 1
    BY <1>a, <2>1, <2>2, Room
  <2>. QED
    BY <2>1, <2>3, <2>4 DEF BudgetInv, spent
<1>9. CASE Final
  <2>1. /\ Len(chain) < MaxRedirects
        /\ Len(requests) <= spent + attempt
        /\ Len(requests') = Len(requests) + 1
    BY <1>9, Sent DEF Final, IInv, BudgetInv, spent
  <2>2. Len(requests') <= all
    BY <1>a, <2>1, Room
  <2>3. pc' = "returned"
    BY <1>9 DEF Final, Return
  <2>. QED
    BY <1>b, <2>2, <2>3 DEF BudgetInv
<1>10. CASE Awake
  BY <1>10, <1>a, <1>b, Room DEF Awake, IInv, BudgetInv, spent, all
<1>11. CASE Report
  BY <1>11, <1>a, <1>b, Room DEF Report, IInv, BudgetInv, spent, all
<1>. QED
  BY <1>0, <1>1, <1>2, <1>3, <1>4, <1>5, <1>6, <1>7, <1>8, <1>9, <1>10, <1>11 DEF Next

(* Busy makes the last request the one before the next attempt.            *)
LEMMA LastInvKept ==
    ASSUME IInv, [Next]_vars
    PROVE  LastInv'
<1>. TypeOK
  BY DEF IInv
<1>0. CASE UNCHANGED vars
  BY <1>0 DEF IInv, TypeOK, vars, LastInv, LastWas, PerHop
<1>1. CASE FindLoop
  BY <1>1, FetcherAssumption DEF FindLoop, Return, IInv, TypeOK, LastInv, LastWas
<1>2. CASE HopLimit
  BY <1>2, FetcherAssumption DEF HopLimit, TooLong, Return, IInv, TypeOK, LastInv, LastWas
<1>3. CASE NoHost
  BY <1>3, FetcherAssumption DEF NoHost, TooLong, Return, IInv, TypeOK, LastInv, LastWas
<1>4. CASE StartHop
  BY <1>4, FetcherAssumption DEF StartHop, TooLong, IInv, TypeOK, LastInv, LastWas
<1>5. CASE Acquire
  BY <1>5, FetcherAssumption DEF Acquire, IInv, TypeOK, LastInv, LastWas
<1>6. CASE Redirect
  BY <1>6, Sent, FetcherAssumption DEF Redirect, IInv, TypeOK, LastInv, LastWas
<1>7. CASE SendFails
  BY <1>7, Sent, FetcherAssumption DEF SendFails, Return, IInv, TypeOK, LastInv, LastWas
<1>8. CASE Busy
  BY <1>8, Sent, FetcherAssumption DEF Busy, IInv, TypeOK, LastInv, LastWas
<1>9. CASE Final
  BY <1>9, Sent, FetcherAssumption DEF Final, Return, IInv, TypeOK, LastInv, LastWas
<1>10. CASE Awake
  <2>1. LastWas(attempt) /\ current \in DOMAIN HostOf
    BY <1>10 DEF Awake, IInv, LastInv
  <2>2. attempt' - 1 = attempt
    BY <1>10 DEF Awake, TypeOK
  <2>3. LastWas(attempt - 1)'
    BY <1>10, <2>1, <2>2 DEF Awake, LastWas
  <2>. QED
    BY <1>10, <2>1, <2>3 DEF Awake, LastInv
<1>11. CASE Report
  BY <1>11, FetcherAssumption DEF Report, IInv, TypeOK, LastInv, LastWas
<1>. QED
  BY <1>0, <1>1, <1>2, <1>3, <1>4, <1>5, <1>6, <1>7, <1>8, <1>9, <1>10, <1>11 DEF Next

(* A request that is appended follows its own last attempt.                *)
LEMMA BackoffKept ==
    ASSUME IInv, [Next]_vars
    PROVE  Backoff'
<1>. TypeOK
  BY DEF IInv
<1>a. ASSUME Send PROVE Backoff'
  <2>. SUFFICES ASSUME NEW i \in DOMAIN requests', requests'[i].attempt > 0
                PROVE  /\ i > 1
                       /\ requests'[i - 1].url = requests'[i].url
                       /\ requests'[i - 1].attempt = requests'[i].attempt - 1
                       /\ requests'[i].waited \in Waits(requests'[i].attempt - 1)
    BY DEF Backoff
  <2>1. CASE i \in DOMAIN requests
    <3>1. /\ i > 1
          /\ requests[i - 1].url = requests[i].url
          /\ requests[i - 1].attempt = requests[i].attempt - 1
          /\ requests[i].waited \in Waits(requests[i].attempt - 1)
      BY <1>a, <2>1, Sent DEF IInv, Backoff
    <3>2. i - 1 \in DOMAIN requests
      BY <2>1, <3>1 DEF TypeOK
    <3>. QED
      BY <1>a, <2>1, <3>1, <3>2, Sent
  <2>2. CASE i = Len(requests) + 1
    <3>1. /\ requests'[i].url = current
          /\ requests'[i].attempt = attempt
          /\ requests'[i].waited = wait
      BY <1>a, <2>2, Sent
    <3>2. LastWas(attempt - 1)
      BY <1>a, <3>1, Sent DEF IInv, LastInv
    <3>3. i > 1 /\ i - 1 = Len(requests) /\ i - 1 \in DOMAIN requests
      BY <2>2, <3>2 DEF LastWas, TypeOK
    <3>. QED
      BY <1>a, <3>1, <3>2, <3>3, Sent DEF LastWas
  <2>. QED
    BY <1>a, <2>1, <2>2, Sent
<1>0. CASE UNCHANGED vars
  BY <1>0 DEF IInv, TypeOK, vars, Backoff, PerHop
<1>1. CASE FindLoop
  BY <1>1 DEF FindLoop, Return, IInv, Backoff
<1>2. CASE HopLimit
  BY <1>2 DEF HopLimit, TooLong, Return, IInv, Backoff
<1>3. CASE NoHost
  BY <1>3 DEF NoHost, TooLong, Return, IInv, Backoff
<1>4. CASE StartHop
  BY <1>4 DEF StartHop, TooLong, IInv, Backoff
<1>5. CASE Acquire
  BY <1>5 DEF Acquire, IInv, Backoff
<1>6. CASE Redirect
  BY <1>6, <1>a DEF Redirect
<1>7. CASE SendFails
  BY <1>7, <1>a DEF SendFails
<1>8. CASE Busy
  BY <1>8, <1>a DEF Busy
<1>9. CASE Final
  BY <1>9, <1>a DEF Final
<1>10. CASE Awake
  BY <1>10 DEF Awake, IInv, Backoff
<1>11. CASE Report
  BY <1>11 DEF Report, IInv, Backoff
<1>. QED
  BY <1>0, <1>1, <1>2, <1>3, <1>4, <1>5, <1>6, <1>7, <1>8, <1>9, <1>10, <1>11 DEF Next

LEMMA Initially == Init => IInv
BY FetcherAssumption
DEF Init, IInv, TypeOK, BudgetInv, RequestsBounded, PerHop, LastInv, Backoff, AllWaits, Requests

LEMMA Inductive == Spec => []IInv
<1>1. IInv /\ [Next]_vars => IInv'
  BY TypeOKKept, BudgetInvKept, LastInvKept, BackoffKept DEF IInv
<1>. QED
  BY <1>1, Initially, PTL DEF Spec

(* Type correctness of the fetch.                                          *)
THEOREM TypeCorrect == Spec => []TypeOK
<1>1. IInv => TypeOK
  BY DEF IInv
<1>. QED
  BY <1>1, Inductive, PTL

(* However the servers answer, one fetch costs no more requests than the   *)
(* two limits allow together.                                              *)
THEOREM AFetchIsBounded == Spec => []RequestsBounded
<1>1. IInv => RequestsBounded
  <2>. SUFFICES ASSUME IInv PROVE RequestsBounded
    OBVIOUS
  <2>1. TypeOK /\ BudgetInv
    BY DEF IInv
  <2>2. RequestsBounded <=> Len(requests) <= MaxRedirects * PerHop
    BY DEF RequestsBounded, PerHop
  <2>. DEFINE spent == Len(chain) * PerHop
              all == MaxRedirects * PerHop
  <2>3. /\ spent \in Nat /\ all \in Nat
        /\ Len(chain) <= MaxRedirects => spent <= all
        /\ Len(chain) < MaxRedirects => spent + PerHop <= all
    BY <2>1, Products, Room
  <2>. QED
    BY <2>1, <2>2, <2>3, Room DEF BudgetInv, TypeOK
<1>. QED
  BY <1>1, Inductive, PTL

(* A retry follows the attempt before it, after the wait the server asked  *)
(* for or the doubled one.                                                 *)
THEOREM RetriesBackOff == Spec => []Backoff
<1>1. IInv => Backoff
  BY DEF IInv
<1>. QED
  BY <1>1, Inductive, PTL

-----------------------------------------------------------------------------
(***************************************************************************)
(* What the chain tells, and what was paid.                                *)
(***************************************************************************)

(* The chain is what was asked in the hops behind us; the URL of this hop  *)
(* joins it with its first request.                                        *)
ChainInv ==
    /\ IsInjective(chain)
    /\ pc = "hop" => seen = Range(chain) /\ Asked(chain)
    /\ pc \in {"acquire", "send", "sleep"} =>
          current \notin Range(chain) /\ seen = Range(chain) \cup {current}
    /\ pc \in {"acquire", "send"} /\ attempt = 0 => Asked(chain)
    /\ pc \in {"acquire", "send"} /\ attempt > 0 => Asked(Append(chain, current))
    /\ pc = "sleep" => Asked(Append(chain, current))
    /\ outcome \in {"page", "busy"} => Asked(Append(chain, current))
    /\ outcome = "loop" => Asked(chain)
    /\ pc \notin {"returned", "reported"} => outcome = "none"

(* The requests of this very URL.                                          *)
Own == {i \in DOMAIN requests : requests[i].url = current}

OwnInv ==
    /\ pc \in {"acquire", "send"} => Cardinality(Own) = attempt
    /\ pc = "sleep" => Cardinality(Own) = attempt + 1
    /\ BudgetSpent

PaidInv == ChainInv /\ OwnInv /\ CellPerRequest

(* Counting the numbers from 1 to n that have a property.                  *)
LEMMA Counted ==
    ASSUME NEW n \in Nat, NEW S \in SUBSET (1..n)
    PROVE  /\ IsFiniteSet(S)
           /\ Cardinality(S) \in Nat
           /\ Cardinality(S) = 0 <=> S = {}
           /\ Cardinality(S \cup {n + 1}) = Cardinality(S) + 1
           /\ \A T \in SUBSET S : Cardinality(T) <= Cardinality(S)
<1>1. IsFiniteSet(1..n)
  BY FS_Interval
<1>2. IsFiniteSet(S)
  BY <1>1, FS_Subset
<1>3. n + 1 \notin S
  OBVIOUS
<1>4. Cardinality(S \cup {n + 1}) = Cardinality(S) + 1
  BY <1>2, <1>3, FS_AddElement
<1>5. \A T \in SUBSET S : Cardinality(T) <= Cardinality(S)
  BY <1>2, FS_Subset
<1>. QED
  BY <1>2, <1>4, <1>5, FS_CardinalityType, FS_EmptySet

(* The hops of the requests made are settled; a first attempt begins one.  *)
LEMMA HopsGrow ==
    ASSUME TypeOK, Send, NEW n, n = Len(requests) + 1
    PROVE  /\ \A i \in 0..Len(requests) : HopOf(i)' = HopOf(i)
           /\ HopOf(Len(requests)) \in Nat
           /\ attempt = 0 => HopOf(n)' = HopOf(Len(requests)) + 1
           /\ attempt # 0 => HopOf(n)' = HopOf(Len(requests))
<1>. DEFINE K == {j \in 1..Len(requests) : requests[j].attempt = 0}
<1>1. /\ Len(requests) \in Nat /\ DOMAIN requests = 1..Len(requests)
      /\ \A i \in DOMAIN requests : requests'[i] = requests[i]
      /\ requests'[n].attempt = attempt
  BY Sent DEF TypeOK
<1>2. ASSUME NEW i \in 0..Len(requests)
      PROVE  HopOf(i)' = HopOf(i)
  <2>1. 1..i \subseteq DOMAIN requests
    BY <1>1
  <2>2. {j \in 1..i : requests'[j].attempt = 0} = {j \in 1..i : requests[j].attempt = 0}
    BY <1>1, <2>1
  <2>. QED
    BY <2>2 DEF HopOf
<1>3. 1..n = (1..Len(requests)) \cup {n}
  BY <1>1
<1>4. attempt = 0 => {j \in 1..n : requests'[j].attempt = 0} = K \cup {n}
  BY <1>1, <1>3
<1>5. attempt # 0 => {j \in 1..n : requests'[j].attempt = 0} = K
  BY <1>1, <1>3
<1>6. Cardinality(K) \in Nat /\ Cardinality(K \cup {n}) = Cardinality(K) + 1
  <2>1. K \in SUBSET (1..Len(requests))
    OBVIOUS
  <2>. HIDE DEF K
  <2>. QED
    BY <1>1, <2>1, Counted
<1>7. HopOf(Len(requests)) = Cardinality(K)
  BY DEF HopOf
<1>. QED
  BY <1>2, <1>4, <1>5, <1>6, <1>7 DEF HopOf

(* The first request is a first attempt: every request has a hop.          *)
LEMMA HopsRange ==
    ASSUME TypeOK, Backoff, NEW i \in DOMAIN requests
    PROVE  HopOf(i) \in 1..HopOf(Len(requests)) /\ HopOf(Len(requests)) \in Nat
<1>. DEFINE K(n) == {j \in 1..n : requests[j].attempt = 0}
<1>1. Len(requests) \in Nat /\ i \in 1..Len(requests) /\ DOMAIN requests = 1..Len(requests)
  BY DEF TypeOK
<1>2. requests[1].attempt = 0
  <2>1. 1 \in DOMAIN requests /\ requests[1] \in Requests
    BY <1>1 DEF TypeOK
  <2>2. requests[1].attempt \in Nat
    BY <2>1 DEF Requests
  <2>. QED
    BY <2>1, <2>2 DEF Backoff
<1>3. K(i) \subseteq K(Len(requests)) /\ 1 \in K(i)
  BY <1>1, <1>2
<1>4. K(Len(requests)) \in SUBSET (1..Len(requests)) /\ K(i) \in SUBSET (1..i) /\ i \in Nat
  BY <1>1
<1>. HIDE DEF K
<1>5. Cardinality(K(i)) \in Nat /\ Cardinality(K(i)) # 0
  BY <1>3, <1>4, Counted
<1>6. Cardinality(K(i)) <= Cardinality(K(Len(requests))) /\ Cardinality(K(Len(requests))) \in Nat
  BY <1>1, <1>3, <1>4, Counted
<1>7. HopOf(i) = Cardinality(K(i)) /\ HopOf(Len(requests)) = Cardinality(K(Len(requests)))
  BY DEF HopOf, K
<1>. QED
  BY <1>5, <1>6, <1>7

(* A request of the URL of its hop extends what was asked.                 *)
LEMMA FirstAsks ==
    ASSUME TypeOK, Backoff, Send, attempt = 0, Asked(chain), NEW c, c = Append(chain, current)
    PROVE  Asked(c)'
<1>. PICK n : n = Len(requests) + 1
  OBVIOUS
<1>1. /\ Len(requests) \in Nat /\ DOMAIN requests = 1..Len(requests)
      /\ DOMAIN requests' = DOMAIN requests \cup {n}
      /\ Len(requests') = n
      /\ requests'[n].url = current
      /\ \A i \in DOMAIN requests : requests'[i] = requests[i]
  BY Sent DEF TypeOK
<1>2. /\ Len(chain) \in Nat
      /\ Len(c) = Len(chain) + 1
      /\ c[Len(chain) + 1] = current
      /\ \A k \in 1..Len(chain) : c[k] = chain[k]
  BY DEF TypeOK
<1>3. HopOf(n)' = Len(c)
  BY <1>2, HopsGrow DEF Asked
<1>4. requests'[n].url = c[HopOf(n)']
  BY <1>1, <1>2, <1>3
<1>5. ASSUME NEW i \in DOMAIN requests
      PROVE  requests'[i].url = c[HopOf(i)']
  <2>1. HopOf(i)' = HopOf(i)
    BY <1>1, HopsGrow
  <2>2. HopOf(i) \in 1..Len(chain)
    BY HopsRange DEF Asked
  <2>3. requests[i].url = chain[HopOf(i)]
    BY DEF Asked
  <2>. QED
    BY <1>1, <1>2, <2>1, <2>2, <2>3
<1>6. \A i \in DOMAIN requests' : requests'[i].url = c[HopOf(i)']
  BY <1>1, <1>4, <1>5
<1>. QED
  BY <1>1, <1>3, <1>6 DEF Asked

LEMMA RetryAsks ==
    ASSUME TypeOK, Backoff, Send, attempt > 0, NEW c, c = Append(chain, current), Asked(c)
    PROVE  Asked(c)'
<1>. PICK n : n = Len(requests) + 1
  OBVIOUS
<1>1. /\ Len(requests) \in Nat /\ DOMAIN requests = 1..Len(requests)
      /\ DOMAIN requests' = DOMAIN requests \cup {n}
      /\ Len(requests') = n
      /\ requests'[n].url = current
      /\ \A i \in DOMAIN requests : requests'[i] = requests[i]
  BY Sent DEF TypeOK
<1>2. c[Len(c)] = current
  BY DEF TypeOK
<1>3. HopOf(n)' = Len(c)
  BY HopsGrow DEF Asked
<1>4. ASSUME NEW i \in DOMAIN requests
      PROVE  requests'[i].url = c[HopOf(i)']
  <2>1. HopOf(i)' = HopOf(i)
    BY <1>1, HopsGrow
  <2>. QED
    BY <1>1, <2>1 DEF Asked
<1>5. \A i \in DOMAIN requests' : requests'[i].url = c[HopOf(i)']
  BY <1>1, <1>2, <1>3, <1>4
<1>. QED
  BY <1>1, <1>3, <1>5 DEF Asked

(* What a request adds to the requests of some URLs.                       *)
LEMMA CountGrows ==
    ASSUME TypeOK, Send, NEW U
    PROVE  LET S == {i \in DOMAIN requests : requests[i].url \in U}
               T == {i \in DOMAIN requests' : requests'[i].url \in U}
           IN  /\ Cardinality(S) \in Nat
               /\ current \in U => Cardinality(T) = Cardinality(S) + 1
               /\ current \notin U => Cardinality(T) = Cardinality(S)
<1>. DEFINE S == {i \in DOMAIN requests : requests[i].url \in U}
            T == {i \in DOMAIN requests' : requests'[i].url \in U}
<1>. PICK n : n = Len(requests) + 1
  OBVIOUS
<1>1. /\ Len(requests) \in Nat /\ DOMAIN requests = 1..Len(requests)
      /\ DOMAIN requests' = DOMAIN requests \cup {n}
      /\ requests'[n].url = current
      /\ \A i \in DOMAIN requests : requests'[i] = requests[i]
  BY Sent DEF TypeOK
<1>2. current \in U => T = S \cup {n}
  BY <1>1
<1>3. current \notin U => T = S
  BY <1>1
<1>4. S \in SUBSET (1..Len(requests))
  BY <1>1
<1>. HIDE DEF S
<1>5. Cardinality(S) \in Nat /\ Cardinality(S \cup {n}) = Cardinality(S) + 1
  BY <1>1, <1>4, Counted
<1>. QED
  BY <1>2, <1>3, <1>5 DEF S

LEMMA OwnGrows ==
    ASSUME TypeOK, Send
    PROVE  Cardinality({i \in DOMAIN requests' : requests'[i].url = current}) = Cardinality(Own) + 1
<1>. DEFINE S == {i \in DOMAIN requests : requests[i].url \in {current}}
            T == {i \in DOMAIN requests' : requests'[i].url \in {current}}
<1>1. Cardinality(T) = Cardinality(S) + 1
  BY CountGrows
<1>2. S = Own /\ T = {i \in DOMAIN requests' : requests'[i].url = current}
  BY DEF Own
<1>. QED
  BY <1>1, <1>2

(* A cell was taken for every request, and one is in hand before a send.   *)
CellOf(h) == Cardinality({i \in DOMAIN requests : HostOf[requests[i].url] = h})

LEMMA CellsGrow ==
    ASSUME TypeOK, Send, NEW h
    PROVE  /\ CellOf(h) \in Nat
           /\ HostOf[current] = h => CellOf(h)' = CellOf(h) + 1
           /\ HostOf[current] # h => CellOf(h)' = CellOf(h)
<1>. DEFINE U == {u \in Urls : HostOf[u] = h}
            S == {i \in DOMAIN requests : requests[i].url \in U}
            T == {i \in DOMAIN requests' : requests'[i].url \in U}
<1>1. /\ Cardinality(S) \in Nat
      /\ current \in U => Cardinality(T) = Cardinality(S) + 1
      /\ current \notin U => Cardinality(T) = Cardinality(S)
  <2>. HIDE DEF U
  <2>. QED
    BY CountGrows
<1>2. /\ \A i \in DOMAIN requests : requests[i].url \in Urls
      /\ \A i \in DOMAIN requests' : requests'[i].url \in Urls
      /\ current \in Urls
  <2>1. requests \in Seq(Requests) /\ requests' \in Seq(Requests)
    BY Sent DEF TypeOK
  <2>2. \A q \in Seq(Requests) : \A i \in DOMAIN q : q[i] \in Requests
    OBVIOUS
  <2>3. \A r \in Requests : r.url \in Urls
    BY DEF Requests
  <2>. QED
    BY <2>1, <2>2, <2>3 DEF TypeOK
<1>3. CellOf(h) = Cardinality(S) /\ CellOf(h)' = Cardinality(T)
  <2>1. S = {i \in DOMAIN requests : HostOf[requests[i].url] = h}
    BY <1>2
  <2>2. T = {i \in DOMAIN requests' : HostOf[requests'[i].url] = h}
    BY <1>2
  <2>. QED
    BY <2>1, <2>2 DEF CellOf
<1>. QED
  BY <1>1, <1>2, <1>3

(* The URL of a new hop has not been asked.                                *)
LEMMA NothingOwned ==
    ASSUME TypeOK, Backoff, Asked(chain), current \notin Range(chain)
    PROVE  Own = {}
<1>1. ASSUME NEW i \in DOMAIN requests
      PROVE  requests[i].url \in Range(chain)
  <2>1. HopOf(i) \in 1..Len(chain)
    BY HopsRange DEF Asked
  <2>2. requests[i].url = chain[HopOf(i)]
    BY DEF Asked
  <2>. QED
    BY <2>1, <2>2 DEF Range, TypeOK
<1>. QED
  BY <1>1 DEF Own

LEMMA ChainInvKept ==
    ASSUME IInv, PaidInv, [Next]_vars
    PROVE  ChainInv'
<1>. TypeOK /\ Backoff /\ ChainInv
  BY DEF IInv, PaidInv
<1>. PICK c : c = Append(chain, current)
  OBVIOUS
<1>a. /\ chain \in Seq(Urls) /\ current \in Urls
      /\ Range(c) = Range(chain) \cup {current}
      /\ IsInjective(chain) /\ current \notin Range(chain) => IsInjective(c)
  <2>1. chain \in Seq(Urls) /\ current \in Urls
    BY DEF TypeOK
  <2>2. /\ DOMAIN c = (1..Len(chain)) \cup {Len(chain) + 1} /\ Len(chain) \in Nat
        /\ DOMAIN chain = 1..Len(chain)
        /\ c[Len(chain) + 1] = current
        /\ \A k \in 1..Len(chain) : c[k] = chain[k]
    BY <2>1
  <2>. QED
    BY <2>1, <2>2 DEF Range, IsInjective
<1>b. Send => (attempt = 0 /\ Asked(chain)) \/ (attempt > 0 /\ Asked(c))
  BY DEF Send, ChainInv, TypeOK
<1>c. Send => Asked(c)'
  BY <1>b, FirstAsks, RetryAsks
<1>d. Send => /\ pc = "send" /\ outcome = "none"
              /\ current \notin Range(chain) /\ seen = Range(chain) \cup {current}
  BY DEF Send, ChainInv
<1>0. CASE UNCHANGED vars
  BY <1>0 DEF vars, ChainInv, Asked, HopOf
<1>1. CASE FindLoop
  BY <1>1 DEF FindLoop, Return, ChainInv, Asked, HopOf
<1>2. CASE HopLimit
  BY <1>2 DEF HopLimit, TooLong, Return, ChainInv, Asked, HopOf
<1>3. CASE NoHost
  BY <1>3 DEF NoHost, TooLong, Return, ChainInv, Asked, HopOf
<1>4. CASE StartHop
  BY <1>4 DEF StartHop, TooLong, ChainInv, Asked, HopOf
<1>5. CASE Acquire
  BY <1>5 DEF Acquire, ChainInv, Asked, HopOf
<1>6. CASE Redirect
  <2>1. chain' = c /\ pc' = "hop" /\ UNCHANGED <<seen, outcome>> /\ Send
    BY <1>6 DEF Redirect
  <2>2. Asked(chain)'
    BY <1>c, <2>1
  <2>3. IsInjective(chain') /\ seen' = Range(chain')
    BY <1>a, <1>d, <2>1 DEF ChainInv
  <2>. QED
    BY <1>d, <2>1, <2>2, <2>3 DEF ChainInv
<1>7. CASE SendFails
  <2>1. pc' = "returned" /\ outcome' = "error" /\ chain' = chain
    BY <1>7 DEF SendFails, Return
  <2>. QED
    BY <2>1 DEF ChainInv
<1>8. CASE Busy
  <2>1. pc' = "sleep" /\ Send /\ UNCHANGED <<current, chain, seen, outcome>>
    BY <1>8 DEF Busy
  <2>2. Asked(Append(chain, current))'
    BY <1>c, <2>1
  <2>. QED
    BY <1>d, <2>1, <2>2 DEF ChainInv
<1>9. CASE Final
  <2>1. /\ pc' = "returned" /\ outcome' \in {"page", "busy"}
        /\ Send /\ UNCHANGED <<current, chain, seen>>
    BY <1>9 DEF Final, Return
  <2>2. Asked(Append(chain, current))'
    BY <1>c, <2>1
  <2>. QED
    BY <2>1, <2>2 DEF ChainInv
<1>10. CASE Awake
  <2>1. attempt' # 0 /\ pc = "sleep" /\ pc' = "acquire"
    BY <1>10 DEF Awake, TypeOK
  <2>2. UNCHANGED <<current, chain, seen, requests, outcome>>
    BY <1>10 DEF Awake
  <2>3. Asked(Append(chain, current))'
    BY <2>1, <2>2 DEF ChainInv, Asked, HopOf
  <2>. QED
    BY <2>1, <2>2, <2>3 DEF ChainInv
<1>11. CASE Report
  BY <1>11 DEF Report, ChainInv, Asked, HopOf
<1>. QED
  BY <1>0, <1>1, <1>2, <1>3, <1>4, <1>5, <1>6, <1>7, <1>8, <1>9, <1>10, <1>11 DEF Next

LEMMA OwnInvKept ==
    ASSUME IInv, PaidInv, [Next]_vars
    PROVE  OwnInv'
<1>. TypeOK /\ Backoff /\ ChainInv /\ OwnInv
  BY DEF IInv, PaidInv
<1>a. UNCHANGED <<requests, current>> => Own' = Own
  BY DEF Own
<1>b. Send /\ current' = current => Cardinality(Own') = Cardinality(Own) + 1
  BY OwnGrows DEF Own
<1>c. BudgetSpent <=> (outcome = "busy" => Cardinality(Own) = MaxRetries + 1)
  BY DEF BudgetSpent, Own
<1>d. BudgetSpent' <=> (outcome' = "busy" => Cardinality(Own') = MaxRetries + 1)
  BY DEF BudgetSpent, Own
<1>e. pc \notin {"returned", "reported"} => outcome = "none"
  BY DEF ChainInv
<1>0. CASE UNCHANGED vars
  BY <1>0, <1>a, <1>c, <1>d DEF vars, OwnInv
<1>1. CASE FindLoop
  BY <1>1, <1>d DEF FindLoop, Return, OwnInv
<1>2. CASE HopLimit
  BY <1>2, <1>d DEF HopLimit, TooLong, Return, OwnInv
<1>3. CASE NoHost
  BY <1>3, <1>d DEF NoHost, TooLong, Return, OwnInv
<1>4. CASE StartHop
  <2>1. Own' = {}
    BY <1>4, <1>a, NothingOwned DEF StartHop, TooLong, ChainInv
  <2>2. Cardinality(Own') = 0
    BY <2>1, FS_EmptySet
  <2>. QED
    BY <1>4, <1>d, <1>e, <2>2 DEF StartHop, TooLong, OwnInv
<1>5. CASE Acquire
  BY <1>5, <1>a, <1>d, <1>e DEF Acquire, OwnInv
<1>6. CASE Redirect
  BY <1>6, <1>d, <1>e DEF Redirect, Send, OwnInv
<1>7. CASE SendFails
  BY <1>7, <1>d DEF SendFails, Return, OwnInv
<1>8. CASE Busy
  BY <1>8, <1>b, <1>d, <1>e DEF Busy, Send, OwnInv
<1>9. CASE Final
  <2>1. Cardinality(Own') = attempt + 1
    BY <1>9, <1>b DEF Final, Send, OwnInv
  <2>2. outcome' = "busy" => attempt = MaxRetries
    BY <1>9 DEF Final, Return
  <2>. QED
    BY <1>9, <1>d, <2>1, <2>2 DEF Final, Return, OwnInv
<1>10. CASE Awake
  BY <1>10, <1>a, <1>d, <1>e DEF Awake, OwnInv
<1>11. CASE Report
  BY <1>11, <1>a, <1>c, <1>d DEF Report, OwnInv
<1>. QED
  BY <1>0, <1>1, <1>2, <1>3, <1>4, <1>5, <1>6, <1>7, <1>8, <1>9, <1>10, <1>11 DEF Next

LEMMA CellsKept ==
    ASSUME IInv, PaidInv, [Next]_vars
    PROVE  CellPerRequest'
<1>. TypeOK /\ LastInv
  BY DEF IInv
<1>a. CellPerRequest <=>
         \A h \in DOMAIN cells :
            cells[h] = CellOf(h) + (IF pc = "send" /\ HostOf[current] = h THEN 1 ELSE 0)
  BY DEF CellPerRequest, CellOf
<1>b. CellPerRequest' <=>
         \A h \in DOMAIN cells' :
            cells'[h] = CellOf(h)' + (IF pc' = "send" /\ HostOf[current'] = h THEN 1 ELSE 0)
  BY DEF CellPerRequest, CellOf
<1>c. CellPerRequest
  BY DEF PaidInv
<1>d. \A h : requests' = requests => CellOf(h)' = CellOf(h)
  BY DEF CellOf
<1>e. ASSUME requests' = requests, cells' = cells, pc # "send", pc' # "send"
      PROVE  CellPerRequest'
  BY <1>a, <1>b, <1>c, <1>d, <1>e
<1>f. ASSUME Send, cells' = cells, pc' # "send"
      PROVE  CellPerRequest'
  <2>1. pc = "send"
    BY <1>f DEF Send
  <2>2. ASSUME NEW h \in DOMAIN cells
        PROVE  cells[h] = CellOf(h)'
    <3>1. cells[h] = CellOf(h) + (IF HostOf[current] = h THEN 1 ELSE 0)
      BY <1>a, <1>c, <2>1
    <3>. QED
      BY <1>f, <3>1, CellsGrow
  <2>3. \A h : CellOf(h) \in Nat /\ CellOf(h)' \in Nat
    BY <1>f, CellsGrow
  <2>. QED
    BY <1>b, <1>f, <2>2, <2>3
<1>0. CASE UNCHANGED vars
  BY <1>0, <1>c DEF vars, CellPerRequest
<1>1. CASE FindLoop
  BY <1>1, <1>e DEF FindLoop, Return
<1>2. CASE HopLimit
  BY <1>2, <1>e DEF HopLimit, TooLong, Return
<1>3. CASE NoHost
  BY <1>3, <1>e DEF NoHost, TooLong, Return
<1>4. CASE StartHop
  BY <1>4, <1>e DEF StartHop, TooLong
<1>5. CASE Acquire
  <2>1. HostOf[current] \in Hosts /\ cells \in [Hosts -> Nat]
    BY <1>5, FetcherAssumption DEF Acquire, LastInv, TypeOK
  <2>2. /\ cells' = [cells EXCEPT ![HostOf[current]] = @ + 1]
        /\ pc = "acquire" /\ pc' = "send" /\ current' = current /\ requests' = requests
    BY <1>5 DEF Acquire
  <2>3. \A h \in DOMAIN cells : cells[h] = CellOf(h)
    <3>1. \A h \in DOMAIN cells : cells[h] = CellOf(h) + 0
      BY <1>a, <1>c, <2>2
    <3>2. \A h \in DOMAIN cells : CellOf(h) \in Nat
      <4>. SUFFICES ASSUME NEW h PROVE CellOf(h) \in Nat
        OBVIOUS
      <4>1. {i \in DOMAIN requests : HostOf[requests[i].url] = h} \in SUBSET (1..Len(requests))
        BY DEF TypeOK
      <4>2. Len(requests) \in Nat
        BY DEF TypeOK
      <4>. QED
        BY <4>1, <4>2, Counted DEF CellOf
    <3>. QED
      BY <3>1, <3>2
  <2>. QED
    BY <1>b, <1>d, <2>1, <2>2, <2>3
<1>6. CASE Redirect
  BY <1>6, <1>f DEF Redirect
<1>7. CASE SendFails
  BY <1>7, <1>f DEF SendFails, Return
<1>8. CASE Busy
  BY <1>8, <1>f DEF Busy
<1>9. CASE Final
  BY <1>9, <1>f DEF Final, Return
<1>10. CASE Awake
  BY <1>10, <1>e DEF Awake
<1>11. CASE Report
  BY <1>11, <1>e DEF Report
<1>. QED
  BY <1>0, <1>1, <1>2, <1>3, <1>4, <1>5, <1>6, <1>7, <1>8, <1>9, <1>10, <1>11 DEF Next

LEMMA PaidInitially == Init => PaidInv
<1>. SUFFICES ASSUME Init PROVE PaidInv
  OBVIOUS
<1>1. DOMAIN requests = {} /\ Len(requests) = 0 /\ Len(chain) = 0 /\ DOMAIN chain = {}
  BY DEF Init
<1>2. HopOf(0) = 0
  <2>1. {j \in 1..0 : requests[j].attempt = 0} = {}
    OBVIOUS
  <2>. QED
    BY <2>1, FS_EmptySet DEF HopOf
<1>3. ChainInv
  BY <1>1, <1>2 DEF Init, ChainInv, Asked, IsInjective, Range
<1>4. OwnInv
  BY DEF Init, OwnInv, BudgetSpent
<1>5. CellPerRequest
  <2>1. \A h : {i \in DOMAIN requests : HostOf[requests[i].url] = h} = {}
    BY <1>1
  <2>. QED
    BY <2>1, FS_EmptySet DEF Init, CellPerRequest
<1>. QED
  BY <1>3, <1>4, <1>5 DEF PaidInv

LEMMA PaidInductive == Spec => [](IInv /\ PaidInv)
<1>1. IInv /\ [Next]_vars => IInv'
  BY TypeOKKept, BudgetInvKept, LastInvKept, BackoffKept DEF IInv
<1>2. IInv /\ PaidInv /\ [Next]_vars => PaidInv'
  BY ChainInvKept, OwnInvKept, CellsKept DEF PaidInv
<1>. QED
  BY <1>1, <1>2, Initially, PaidInitially, PTL DEF Spec

(* No URL is asked in two hops, and the chain of a page or of a loop is    *)
(* what was asked, in that order: redirects are neither left out nor told  *)
(* twice.                                                                  *)
THEOREM TheChainTellsAll == Spec => []ChainTellsAll
<1>1. PaidInv => ChainTellsAll
  BY DEF PaidInv, ChainInv, ChainTellsAll
<1>. QED
  BY <1>1, PaidInductive, PTL

(* Every request took a cell of its own host, and a busy answer is taken   *)
(* for the page only after every retry of that very URL.                   *)
THEOREM RetriesArePaid == Spec => []RetriesPaid
<1>1. PaidInv => RetriesPaid
  BY DEF PaidInv, OwnInv, RetriesPaid
<1>. QED
  BY <1>1, PaidInductive, PTL

-----------------------------------------------------------------------------
(***************************************************************************)
(* Sums.  Total folds a sequence from its last index down; what it         *)
(* computes is the last of the sums of its first 0, 1, 2, ... numbers.     *)
(***************************************************************************)

(* What the fold asks of the function that it chooses.                     *)
Folds(q, n, f) ==
    f = [t \in SUBSET (1..n) |-> IF t = {} THEN 0 ELSE f[t \ {Max(t)}] + q[Max(t)]]

(* A set of naturals that is not empty has a least member.                 *)
LEMMA LeastExists ==
    ASSUME NEW S \in SUBSET Nat, S # {}
    PROVE  \E m \in S : \A n \in S : m <= n
<1>. DEFINE Less == OpToRel(<, Nat)
<1>1. \A m, n \in Nat : <<m, n>> \in Less <=> m < n
  BY DEF OpToRel
<1>. HIDE DEF Less
<1>2. IsWellFoundedOn(Less, Nat)
  BY NatLessThanWellFounded DEF Less
<1>3. PICK m \in S : \A n \in S : ~(<<n, m>> \in Less)
  BY <1>2, WFMin
<1>4. \A n \in S : ~(n < m)
  BY <1>1, <1>3
<1>. QED
  BY <1>4

LEMMA MaxOfLast ==
    ASSUME NEW n \in Nat \ {0}, NEW t \in SUBSET (1..n), n \in t
    PROVE  Max(t) = n
<1>1. n \in t /\ \A y \in t : n >= y
  OBVIOUS
<1>2. \A x \in t : (\A y \in t : x >= y) => x = n
  BY <1>1
<1>. QED
  BY <1>1, <1>2 DEF Max

(* A fold of the first n numbers can be gone on with.                      *)
LEMMA FoldGrows ==
    ASSUME NEW q, NEW n \in Nat \ {0}, NEW f, Folds(q, n - 1, f)
    PROVE  \E g : Folds(q, n, g)
<1>. DEFINE low(t) == t \ {n}
            G == [t \in SUBSET (1..n) |-> IF n \in t THEN f[low(t)] + q[n] ELSE f[t]]
<1>1. \A t \in SUBSET (1..n) : low(t) \in SUBSET (1..(n - 1))
  OBVIOUS
<1>2. ASSUME NEW t \in SUBSET (1..n)
      PROVE  G[t] = IF t = {} THEN 0 ELSE G[t \ {Max(t)}] + q[Max(t)]
  <2>1. CASE n \in t
    <3>1. Max(t) = n /\ low(t) \in SUBSET (1..n) /\ n \notin low(t)
      BY <2>1, MaxOfLast
    <3>2. G[low(t)] = f[low(t)]
      BY <3>1
    <3>. QED
      BY <2>1, <3>1, <3>2
  <2>2. CASE n \notin t
    <3>0. \A i \in 1..n : i # n => i \in 1..(n - 1)
      OBVIOUS
    <3>1. t \in SUBSET (1..(n - 1)) /\ t \ {Max(t)} \in SUBSET (1..n) /\ n \notin t \ {Max(t)}
      BY <2>2, <3>0
    <3>2. f[t] = IF t = {} THEN 0 ELSE f[t \ {Max(t)}] + q[Max(t)]
      BY <3>1 DEF Folds
    <3>3. G[t] = f[t] /\ G[t \ {Max(t)}] = f[t \ {Max(t)}]
      BY <2>2, <3>1
    <3>. QED
      BY <3>2, <3>3
  <2>. QED
    BY <2>1, <2>2
<1>3. G = [t \in SUBSET (1..n) |-> G[t]]
  OBVIOUS
<1>. HIDE DEF G
<1>4. Folds(q, n, G)
  BY <1>2, <1>3 DEF Folds
<1>. QED
  BY <1>4

LEMMA FoldExists ==
    ASSUME NEW q
    PROVE  \A n \in Nat : \E f : Folds(q, n, f)
<1>. DEFINE Bad == {n \in Nat : ~\E f : Folds(q, n, f)}
<1>. SUFFICES ASSUME Bad # {} PROVE FALSE
  OBVIOUS
<1>1. PICK m \in Bad : \A n \in Bad : m <= n
  <2>. HIDE DEF Bad
  <2>1. Bad \in SUBSET Nat
    BY DEF Bad
  <2>. QED
    BY <2>1, LeastExists
<1>2. CASE m = 0
  <2>. DEFINE f == [t \in SUBSET (1..0) |-> 0]
  <2>1. SUBSET (1..0) = {{}}
    OBVIOUS
  <2>2. Folds(q, 0, f)
    BY <2>1 DEF Folds
  <2>. QED
    BY <1>2, <2>2
<1>3. CASE m # 0
  <2>1. m - 1 \in Nat /\ m - 1 \notin Bad /\ m \in Nat \ {0}
    BY <1>1, <1>3
  <2>2. PICK f : Folds(q, m - 1, f)
    BY <2>1
  <2>. QED
    BY <1>1, <2>1, <2>2, FoldGrows
<1>. QED
  BY <1>2, <1>3

(* Sums of the first numbers of q.                                         *)
Sums(q, S) ==
    /\ S \in [0..Len(q) -> Int]
    /\ S[0] = 0
    /\ \A k \in 1..Len(q) : S[k] = S[k - 1] + q[k]

LEMMA TotalIsSum ==
    ASSUME NEW q \in Seq(Int)
    PROVE  \E S : Sums(q, S) /\ Total(q) = S[Len(q)]
<1>. DEFINE n == Len(q)
            F == CHOOSE f : Folds(q, n, f)
            S == [k \in 0..n |-> F[1..k]]
<1>1. n \in Nat /\ DOMAIN q = 1..n /\ \A k \in 1..n : q[k] \in Int
  OBVIOUS
<1>2. Total(q) = F[1..n]
  <2>1. Total(q) = (CHOOSE f : f = [t \in SUBSET (DOMAIN q) |->
                       IF t = {} THEN 0 ELSE f[t \ {Max(t)}] + q[Max(t)]])[DOMAIN q]
    BY DEF Total, FoldLeft, MapThenFoldSet
  <2>. QED
    BY <1>1, <2>1 DEF Folds
<1>. HIDE DEF n
<1>3. Folds(q, n, F)
  BY <1>1, FoldExists
<1>. HIDE DEF F
<1>4. F[1..0] = 0
  <2>1. 1..0 = {}
    OBVIOUS
  <2>2. {} \in SUBSET (1..n)
    OBVIOUS
  <2>. QED
    BY <1>3, <2>1, <2>2 DEF Folds
<1>5. ASSUME NEW k \in 1..n
      PROVE  F[1..k] = F[1..(k - 1)] + q[k]
  <2>1. k \in Nat \ {0} /\ 1..k \in SUBSET (1..n) /\ k \in 1..k
    BY <1>1
  <2>2. Max(1..k) = k
    BY <2>1, MaxOfLast
  <2>3. (1..k) \ {k} = 1..(k - 1) /\ 1..k # {}
    BY <2>1
  <2>. QED
    BY <1>3, <2>1, <2>2, <2>3 DEF Folds
<1>6. \A k \in 0..n : F[1..k] \in Int
  <2>. DEFINE Bad == {k \in 0..n : F[1..k] \notin Int}
  <2>. SUFFICES ASSUME Bad # {} PROVE FALSE
    OBVIOUS
  <2>1. PICK m \in Bad : \A k \in Bad : m <= k
    <3>1. Bad \in SUBSET Nat
      BY <1>1
    <3>. HIDE DEF Bad
    <3>. QED
      BY <3>1, LeastExists
  <2>2. m # 0
    BY <1>4, <2>1
  <2>3. m \in 1..n /\ m - 1 \in 0..n /\ m - 1 \notin Bad
    BY <1>1, <2>1, <2>2
  <2>4. F[1..(m - 1)] \in Int /\ q[m] \in Int
    BY <1>1, <2>3
  <2>. QED
    BY <1>5, <2>1, <2>3, <2>4
<1>7. S \in [0..n -> Int] /\ S[0] = 0 /\ S[n] = F[1..n]
  BY <1>1, <1>4, <1>6
<1>8. \A k \in 1..n : S[k] = S[k - 1] + q[k]
  BY <1>1, <1>5
<1>. HIDE DEF S
<1>9. Sums(q, S)
  BY <1>7, <1>8 DEF Sums, n
<1>. QED
  BY <1>2, <1>7, <1>9 DEF n

LEMMA TotalTyped ==
    \A q \in Seq(Int) : Total(q) \in Int
<1>. SUFFICES ASSUME NEW q \in Seq(Int) PROVE Total(q) \in Int
  OBVIOUS
<1>1. PICK S : Sums(q, S) /\ Total(q) = S[Len(q)]
  BY TotalIsSum
<1>2. Len(q) \in 0..Len(q)
  OBVIOUS
<1>. QED
  BY <1>1, <1>2 DEF Sums

LEMMA MeanOfOne ==
    ASSUME NEW s \in Int
    PROVE  score_site(<<s>>) = s
<1>. DEFINE q == <<s>>
<1>1. q \in Seq(Int) /\ Len(q) = 1 /\ q[1] = s /\ q # <<>>
  OBVIOUS
<1>. HIDE DEF q
<1>2. PICK S : Sums(q, S) /\ Total(q) = S[Len(q)]
  BY <1>1, TotalIsSum
<1>3. 1 \in 1..1
  OBVIOUS
<1>4. Total(q) = s
  BY <1>1, <1>2, <1>3 DEF Sums
<1>. QED
  BY <1>1, <1>4 DEF score_site, Mean, q

LEMMA Categories ==
    /\ Category = {"Metadata", "Crawlability", "Structure", "Links", "Security", "Media", "SocialTags"}
    /\ Weight["Metadata"] = 20 /\ Weight["Crawlability"] = 20 /\ Weight["Structure"] = 15
    /\ Weight["Links"] = 15 /\ Weight["Security"] = 15 /\ Weight["Media"] = 10
    /\ Weight["SocialTags"] = 5
BY DEF Category, Weight

(* Whatever was found, each category scores between 0 and 100.             *)
LEMMA CategoryScoresTyped ==
    ASSUME NEW found \in Seq(Finding)
    PROVE  CategoryScores(found) \in [Category -> 0..100]
<1>. SUFFICES ASSUME NEW c \in Category
              PROVE  CategoryScores(found)[c] \in 0..100
  BY DEF CategoryScores
<1>. DEFINE q == [i \in DOMAIN found |->
                    IF found[i].category = c THEN found[i].penalty ELSE 0]
<1>1. \A i \in DOMAIN found : found[i].penalty \in Int
  <2>1. \A i \in DOMAIN found : found[i] \in Finding
    OBVIOUS
  <2>. QED
    BY <2>1 DEF Finding
<1>2. q \in Seq(Int)
  <2>1. DOMAIN found = 1..Len(found) /\ Len(found) \in Nat
    OBVIOUS
  <2>. QED
    BY <1>1, <2>1
<1>. HIDE DEF q
<1>3. Total(q) \in Int
  BY <1>2, TotalTyped
<1>4. \A n \in Int : Clamp(100 - n) \in 0..100
  BY DEF Clamp
<1>. QED
  BY <1>3, <1>4 DEF CategoryScores, q

InHundred(e) ==
    /\ Rounded(e) \in 0..100
    /\ e % 100 = 50 => e \div 100 \in 0..100 /\ (e \div 100) + 1 \in 0..100

LEMMA Hundredths ==
    ASSUME NEW e \in Nat, e <= 10000
    PROVE  InHundred(e)
<1>1. \A n \in Nat : n <= 10050 => n \div 100 \in 0..100
  OBVIOUS
<1>2. e + 50 \in Nat /\ e + 50 <= 10050 /\ e <= 10050
  OBVIOUS
<1>3. e % 100 = 50 => e \div 100 <= 99
  OBVIOUS
<1>. QED
  BY <1>1, <1>2, <1>3 DEF Rounded, InHundred

(* The weights are hundredths: the score of a page needs no clamp.         *)
LEMMA PageScoresTyped ==
    ASSUME NEW cs \in [Category -> 0..100]
    PROVE  PageScores(cs) \subseteq 0..100
<1>. DEFINE Upto(n) == {k \in Nat : k <= n}
<1>1. \A c \in Category : cs[c] \in 0..100
  OBVIOUS
<1>2. /\ Term(cs, "Metadata") \in Upto(2000) /\ Term(cs, "Crawlability") \in Upto(2000)
      /\ Term(cs, "Structure") \in Upto(1500) /\ Term(cs, "Links") \in Upto(1500)
      /\ Term(cs, "Security") \in Upto(1500) /\ Term(cs, "Media") \in Upto(1000)
      /\ Term(cs, "SocialTags") \in Upto(500)
  BY <1>1, Categories DEF Term
<1>3. Weighted(cs) \in Upto(10000)
  <2>. DEFINE x == Term(cs, "Metadata")  y == Term(cs, "Crawlability")
              z == Term(cs, "Structure")  v == Term(cs, "Links")  w == Term(cs, "Security")
              m == Term(cs, "Media")  t == Term(cs, "SocialTags")
  <2>1. /\ x \in Upto(2000) /\ y \in Upto(2000)
        /\ z \in Upto(1500) /\ v \in Upto(1500) /\ w \in Upto(1500)
        /\ m \in Upto(1000) /\ t \in Upto(500)
    BY <1>2
  <2>2. Weighted(cs) = x + y + z + v + w + m + t
    BY DEF Weighted
  <2>. HIDE DEF x, y, z, v, w, m, t
  <2>. QED
    BY <2>1, <2>2
<1>. PICK e \in Nat : e <= 10000 /\ e = Weighted(cs)
  BY <1>3
<1>4. InHundred(e)
  BY Hundredths
<1>5. /\ PageScores(cs) \subseteq {e \div 100, e \div 100 + 1} \cup {Rounded(e)}
      /\ e % 100 = 50 \/ PageScores(cs) = {Rounded(e)}
  BY DEF PageScores
<1>. QED
  BY <1>4, <1>5 DEF InHundred

-----------------------------------------------------------------------------
(***************************************************************************)
(* The audit of one page around the fetch.                                 *)
(***************************************************************************)

(* Whatever the pipeline does, the fetch it runs is one of Fetcher.        *)
LEMMA PageStepFetches ==
    ASSUME [PageNext]_allvars
    PROVE  [Next]_vars
<1>. USE DEF Fetched
<1>0. CASE UNCHANGED allvars
  BY <1>0 DEF allvars
<1>1. CASE GateAllows
  BY <1>1 DEF GateAllows
<1>2. CASE GateRefuses
  BY <1>2 DEF GateRefuses
<1>3. CASE Fetching
  BY <1>3 DEF Fetching, Next
<1>4. CASE FetchedPage
  BY <1>4 DEF FetchedPage, Next
<1>5. CASE handle_redirect_loop
  BY <1>5 DEF handle_redirect_loop, Next
<1>6. CASE FetchFailed
  BY <1>6 DEF FetchFailed, Next
<1>7. CASE AuditPage
  BY <1>7 DEF AuditPage
<1>8. CASE AuditPanics \/ AuditSite
  BY <1>8 DEF AuditPanics, AuditSite
<1>9. CASE Score
  BY <1>9 DEF Score
<1>10. CASE EmitScore
  BY <1>10 DEF EmitScore
<1>11. CASE CreateFile
  BY <1>11 DEF CreateFile
<1>12. CASE EmitJson
  BY <1>12 DEF EmitJson
<1>13. CASE EmitTerminal \/ FlushAtExit
  BY <1>13 DEF EmitTerminal, FlushAtExit
<1>. QED
  BY <1>0, <1>1, <1>2, <1>3, <1>4, <1>5, <1>6, <1>7, <1>8, <1>9, <1>10, <1>11, <1>12, <1>13
  DEF PageNext

(* The fetch inside an audit is a fetch: what is proved of Spec holds here.*)
THEOREM ThePageIsFetched == PageSpec => Spec
<1>1. PageInit => Init
  BY DEF PageInit
<1>2. [PageNext]_allvars => [Next]_vars
  BY PageStepFetches
<1>. QED
  BY <1>1, <1>2, PTL DEF PageSpec, Spec

(* The phases before there is a report, and those of the auditors.         *)
Auditing == {"page", "robots", "sitemap", "links", "score"}

Early == {"gate", "fetch"} \cup Auditing

Late == {"emit", "json", "terminal", "done", "closed"}

(* What was found so far, by the auditors that ran.                        *)
FoundInv ==
    /\ phase = "robots" => findings \in PageFindings
    /\ phase = "sitemap" =>
          \E p \in PageFindings, r \in SiteFindings["robots"] : findings = p \o r
    /\ phase = "links" =>
          \E p \in PageFindings, r \in SiteFindings["robots"], s \in SiteFindings["sitemap"] :
             findings = p \o r \o s
    /\ phase = "score" => InParts

PhaseInv ==
    /\ phase \in Early \cup Late
    /\ config \in Configs
    /\ phase \in Early => result = None /\ events = <<>>
    /\ phase = "gate" => requests = <<>> /\ outcome = "none"
    /\ phase \in Auditing => outcome \in {"page", "busy"}
    /\ FoundInv
    /\ ReportTellsFetch

(* The last request of a fetch that brought a page is of the page's URL.   *)
LEMMA LastAsked ==
    ASSUME IInv, PaidInv, outcome \in {"page", "busy"}
    PROVE  requests[Len(requests)].url = current
<1>. PICK c : c = Append(chain, current)
  OBVIOUS
<1>1. TypeOK /\ Asked(c)
  BY DEF IInv, PaidInv, ChainInv
<1>2. Len(c) \in Nat \ {0} /\ c[Len(c)] = current
  <2>1. chain \in Seq(Urls) /\ current \in Urls
    BY <1>1 DEF TypeOK
  <2>2. Len(c) = Len(chain) + 1 /\ Len(chain) \in Nat
    BY <2>1
  <2>. QED
    BY <2>1, <2>2
<1>3. HopOf(Len(requests)) = Len(c)
  BY <1>1 DEF Asked
<1>4. requests # <<>>
  <2>. SUFFICES ASSUME requests = <<>> PROVE FALSE
    OBVIOUS
  <2>1. Len(requests) = 0
    OBVIOUS
  <2>2. \A j \in 1..0 : FALSE
    OBVIOUS
  <2>3. HopOf(0) = 0
    <3>1. {j \in 1..0 : requests[j].attempt = 0} = {}
      BY <2>2
    <3>. QED
      BY <3>1, FS_EmptySet DEF HopOf
  <2>. QED
    BY <1>2, <1>3, <2>1, <2>3
<1>5. Len(requests) \in DOMAIN requests
  <2>1. requests \in Seq(Requests)
    BY <1>1 DEF TypeOK
  <2>. QED
    BY <1>4, <2>1
<1>. QED
  BY <1>1, <1>2, <1>3, <1>5 DEF Asked

LEMMA PartsTyped ==
    ASSUME InParts
    PROVE  findings \in Seq(Finding)
<1>. PICK p \in PageFindings, r \in SiteFindings["robots"],
          s \in SiteFindings["sitemap"], l \in SiteFindings["links"] :
             findings = p \o r \o s \o l
  BY DEF InParts
<1>1. {"robots", "sitemap", "links"} \subseteq Range(SiteAuditors)
  BY DEF SiteAuditors, Range
<1>2. p \in Seq(Finding) /\ r \in Seq(Finding) /\ s \in Seq(Finding) /\ l \in Seq(Finding)
  BY <1>1, SinglePageAssumption
<1>. QED
  BY <1>2

LEMMA LoopTyped == <<LoopFinding>> \in Seq(Finding)
<1>0. "redirects.loop" \in STRING
  BY LiteralAssumption DEF LoopFinding, finding
<1>1. "Links" \in Category
  BY Categories
<1>2. LoopFinding \in Finding
  BY <1>0, <1>1 DEF LoopFinding, finding, Finding
<1>. QED
  BY <1>2

(* The report of one page: it is of that URL, with its scores, and the     *)
(* site scores what the page does.                                         *)
LEMMA OnePageMade ==
    ASSUME NEW u, NEW f \in Seq(Finding), MadeOf(u, f)
    PROVE  /\ result' # None
           /\ result'.pages[1].url = u
           /\ result'.pages[1].category_scores = CategoryScores(f)
           /\ result'.site_score = result'.pages[1].score
           /\ phase' = IF config.server THEN "done" ELSE "emit"
           /\ exit' = IF config.server THEN "ok" ELSE exit
<1>1. PICK page \in score_page(u, f) : Made(<<page>>, score_site(<<page.score>>))
  BY DEF MadeOf
<1>2. PICK s \in PageScores(CategoryScores(f)) :
         page = [url |-> u, category_scores |-> CategoryScores(f), score |-> s]
  BY <1>1 DEF score_page
<1>3. s \in Int
  <2>1. CategoryScores(f) \in [Category -> 0..100]
    BY CategoryScoresTyped
  <2>2. s \in 0..100
    BY <2>1, PageScoresTyped
  <2>. QED
    BY <2>2
<1>4. score_site(<<s>>) = s
  BY <1>3, MeanOfOne
<1>5. page.url = u /\ page.category_scores = CategoryScores(f) /\ page.score = s
  BY <1>2
<1>6. result' = [pages |-> <<page>>, site_score |-> s]
  BY <1>1, <1>4, <1>5 DEF Made
<1>7. result' # None
  BY <1>6 DEF None
<1>8. result'.pages[1] = page /\ result'.site_score = s
  BY <1>6
<1>. QED
  BY <1>1, <1>5, <1>7, <1>8 DEF Made

LEMMA FoundInvKept ==
    ASSUME PhaseInv, [PageNext]_allvars
    PROVE  FoundInv'
<1>. FoundInv
  BY DEF PhaseInv
<1>. USE DEF FoundInv
<1>0. CASE UNCHANGED allvars
  BY <1>0 DEF allvars, pipeline, InParts
<1>1. CASE GateAllows
  BY <1>1 DEF GateAllows
<1>2. CASE GateRefuses
  BY <1>2 DEF GateRefuses, Made
<1>3. CASE Fetching
  BY <1>3 DEF Fetching, pipeline
<1>4. CASE FetchedPage
  BY <1>4 DEF FetchedPage
<1>5. CASE handle_redirect_loop
  BY <1>5 DEF handle_redirect_loop, MadeOf, Made
<1>6. CASE FetchFailed \/ AuditPanics
  BY <1>6 DEF FetchFailed, AuditPanics
<1>7. CASE AuditPage
  BY <1>7 DEF AuditPage
<1>8. CASE AuditSite
  <2>1. DOMAIN SiteFindings = {"robots", "sitemap", "links"}
    BY SinglePageAssumption DEF SiteAuditors, Range
  <2>2. PICK found \in SiteFindings[phase] : findings' = findings \o found
    BY <1>8 DEF AuditSite
  <2>3. phase \in {"robots", "sitemap", "links"} /\ phase' = After[phase]
    BY <1>8, <2>1 DEF AuditSite
  <2>4. CASE phase = "robots"
    BY <2>2, <2>3, <2>4 DEF After
  <2>5. CASE phase = "sitemap"
    BY <2>2, <2>3, <2>5 DEF After
  <2>6. CASE phase = "links"
    BY <2>2, <2>3, <2>6 DEF After, InParts
  <2>. QED
    BY <2>3, <2>4, <2>5, <2>6
<1>9. CASE Score
  BY <1>9 DEF Score, MadeOf, Made
<1>10. CASE EmitScore
  BY <1>10 DEF EmitScore, Wrote
<1>11. CASE CreateFile
  BY <1>11 DEF CreateFile
<1>12. CASE EmitJson
  BY <1>12 DEF EmitJson, Wrote
<1>13. CASE EmitTerminal \/ FlushAtExit
  BY <1>13 DEF EmitTerminal, Wrote, FlushAtExit
<1>. QED
  BY <1>0, <1>1, <1>2, <1>3, <1>4, <1>5, <1>6, <1>7, <1>8, <1>9, <1>10, <1>11, <1>12, <1>13
  DEF PageNext

(* Writing moves nothing that the report is made of.                       *)
LEMMA WritingKeepsReport ==
    ASSUME PhaseInv, phase \in Late, phase' \in Late,
           UNCHANGED <<vars, config, findings, result, events>>
    PROVE  PhaseInv'
<1>1. ReportTellsFetch'
  BY DEF PhaseInv, ReportTellsFetch, vars, InParts
<1>2. phase' \notin Early
  BY DEF Early, Late, Auditing
<1>3. FoundInv'
  BY <1>2 DEF FoundInv, Early, Auditing
<1>. QED
  BY <1>1, <1>2, <1>3 DEF PhaseInv, Auditing, Early

(* What the caller makes of the fetch says how the fetch ended.            *)
LEMMA ReportSays ==
    ASSUME Report
    PROVE  /\ UNCHANGED <<current, requests, outcome>>
           /\ report' = "page" => outcome \in {"page", "busy"}
           /\ report' = "loop" => outcome = "loop"
  BY DEF Report

LEMMA PhaseInvKept ==
    ASSUME IInv, PaidInv, PhaseInv, [PageNext]_allvars
    PROVE  PhaseInv'
<1>. phase \in Early \cup Late /\ config \in Configs
  BY DEF PhaseInv
<1>f. FoundInv'
  BY FoundInvKept
<1>0. CASE UNCHANGED allvars
  <2>1. UNCHANGED <<vars, config, findings, result, events, phase>>
    BY <1>0 DEF allvars, pipeline
  <2>. QED
    BY <1>f, <2>1 DEF PhaseInv, ReportTellsFetch, vars, InParts
<1>1. CASE GateAllows
  <2>1. phase = "gate" /\ phase' = "fetch" /\ UNCHANGED <<config, result, events>>
    BY <1>1 DEF GateAllows
  <2>2. result = None /\ events = <<>>
    BY <2>1 DEF PhaseInv, Early
  <2>. QED
    BY <1>f, <2>1, <2>2 DEF PhaseInv, Early, Late, Auditing, ReportTellsFetch
<1>2. CASE GateRefuses
  <2>1. /\ phase = "gate" /\ UNCHANGED <<vars, config, events>>
        /\ result' = [pages |-> <<>>, site_score |-> 100]
        /\ phase' = IF config.server THEN "done" ELSE "emit"
    BY <1>2 DEF GateRefuses, Made
  <2>2. events = <<>> /\ requests = <<>> /\ outcome = "none"
    BY <2>1 DEF PhaseInv, Early
  <2>3. ReportTellsFetch'
    BY <2>1, <2>2 DEF ReportTellsFetch, vars
  <2>. QED
    BY <1>f, <2>1, <2>3 DEF PhaseInv, Early, Late, Auditing
<1>3. CASE Fetching
  <2>1. phase = "fetch" /\ UNCHANGED <<config, phase, result, events>>
    BY <1>3 DEF Fetching, pipeline
  <2>2. result = None /\ events = <<>>
    BY <2>1 DEF PhaseInv, Early
  <2>. QED
    BY <1>f, <2>1, <2>2 DEF PhaseInv, Early, Late, Auditing, ReportTellsFetch
<1>4. CASE FetchedPage
  <2>1. /\ phase = "fetch" /\ Report /\ report' = "page" /\ phase' = "page"
        /\ UNCHANGED <<config, result, events>>
    BY <1>4 DEF FetchedPage, Fetched
  <2>2. result = None /\ events = <<>>
    BY <2>1 DEF PhaseInv, Early
  <2>3. outcome' \in {"page", "busy"}
    BY <2>1, ReportSays
  <2>. QED
    BY <1>f, <2>1, <2>2, <2>3 DEF PhaseInv, Early, Late, Auditing, ReportTellsFetch
<1>5. CASE handle_redirect_loop
  <2>1. /\ phase = "fetch" /\ Report /\ report' = "loop"
        /\ findings' = <<LoopFinding>>
        /\ UNCHANGED <<config, events>>
    BY <1>5 DEF handle_redirect_loop, Fetched
  <2>2. MadeOf(current, <<LoopFinding>>)
    BY <1>5 DEF handle_redirect_loop
  <2>3. /\ result'.pages[1].category_scores = CategoryScores(<<LoopFinding>>)
        /\ phase' = IF config.server THEN "done" ELSE "emit"
    BY <2>2, LoopTyped, OnePageMade
  <2>4. result = None /\ events = <<>>
    BY <2>1 DEF PhaseInv, Early
  <2>5. outcome' = "loop"
    BY <2>1, ReportSays
  <2>6. ReportTellsFetch'
    BY <2>1, <2>3, <2>4, <2>5 DEF ReportTellsFetch
  <2>. QED
    BY <1>f, <2>1, <2>3, <2>6 DEF PhaseInv, Early, Late, Auditing
<1>6. CASE FetchFailed \/ AuditPanics
  <2>1. phase \in {"fetch", "page"} /\ phase' = "done" /\ UNCHANGED <<config, result, events>>
    BY <1>6 DEF FetchFailed, Fetched, AuditPanics
  <2>2. result = None /\ events = <<>>
    BY <2>1 DEF PhaseInv, Early, Auditing
  <2>. QED
    BY <1>f, <2>1, <2>2 DEF PhaseInv, Early, Late, Auditing, ReportTellsFetch
<1>7. CASE AuditPage
  <2>1. phase = "page" /\ phase' = "robots" /\ UNCHANGED <<vars, config, result, events>>
    BY <1>7 DEF AuditPage
  <2>2. result = None /\ events = <<>> /\ outcome \in {"page", "busy"}
    BY <2>1 DEF PhaseInv, Early, Auditing
  <2>. QED
    BY <1>f, <2>1, <2>2 DEF PhaseInv, Early, Late, Auditing, ReportTellsFetch, vars
<1>8. CASE AuditSite
  <2>1. phase \in {"robots", "sitemap", "links"}
    BY <1>8, SinglePageAssumption DEF AuditSite, SiteAuditors, Range
  <2>2. phase' \in {"sitemap", "links", "score"} /\ UNCHANGED <<vars, config, result, events>>
    BY <1>8, <2>1 DEF AuditSite, After
  <2>3. result = None /\ events = <<>> /\ outcome \in {"page", "busy"}
    BY <2>1 DEF PhaseInv, Early, Auditing
  <2>. QED
    BY <1>f, <2>2, <2>3 DEF PhaseInv, Early, Late, Auditing, ReportTellsFetch, vars
<1>9. CASE Score
  <2>1. /\ phase = "score" /\ MadeOf(current, findings) /\ PageDone(result'.pages[1])
        /\ UNCHANGED <<vars, config, findings>>
    BY <1>9 DEF Score
  <2>2. result = None /\ events = <<>> /\ outcome \in {"page", "busy"} /\ InParts
    BY <2>1 DEF PhaseInv, Early, Auditing, FoundInv
  <2>3. findings \in Seq(Finding)
    BY <2>2, PartsTyped
  <2>4. /\ result'.pages[1].url = current
        /\ result'.pages[1].category_scores = CategoryScores(findings)
        /\ result'.site_score = result'.pages[1].score
        /\ phase' = IF config.server THEN "done" ELSE "emit"
    BY <2>1, <2>3, OnePageMade
  <2>5. requests[Len(requests)].url = current
    BY <2>2, LastAsked
  <2>6. events' = IF ~config.server THEN <<>>
                  ELSE <<[url |-> result'.pages[1].url, score |-> result'.site_score]>>
    BY <2>1, <2>2, <2>4 DEF PageDone
  <2>7. InParts'
    BY <2>1, <2>2 DEF InParts
  <2>8. ReportTellsFetch'
    <3>1. outcome' \in {"page", "busy"} /\ requests' = requests
      BY <2>1, <2>2 DEF vars
    <3>2. /\ result'.pages[1].url = requests'[Len(requests')].url
          /\ result'.pages[1].category_scores = CategoryScores(findings')
          /\ config' = config
      BY <2>1, <2>4, <2>5, <3>1
    <3>. QED
      BY <2>6, <2>7, <3>1, <3>2 DEF ReportTellsFetch
  <2>. QED
    BY <1>f, <2>1, <2>4, <2>8 DEF PhaseInv, Early, Late, Auditing
<1>10. CASE EmitScore
  <2>1. /\ phase \in Late /\ phase' \in Late
        /\ UNCHANGED <<vars, config, findings, result, events>>
    BY <1>10 DEF EmitScore, Wrote, Late
  <2>. QED
    BY <2>1, WritingKeepsReport
<1>11. CASE CreateFile
  <2>1. /\ phase \in Late /\ phase' \in Late
        /\ UNCHANGED <<vars, config, findings, result, events>>
    BY <1>11 DEF CreateFile, Late
  <2>. QED
    BY <2>1, WritingKeepsReport
<1>12. CASE EmitJson
  <2>1. /\ phase \in Late /\ phase' \in Late
        /\ UNCHANGED <<vars, config, findings, result, events>>
    BY <1>12 DEF EmitJson, Wrote, Late
  <2>. QED
    BY <2>1, WritingKeepsReport
<1>13. CASE EmitTerminal
  <2>1. /\ phase \in Late /\ phase' \in Late
        /\ UNCHANGED <<vars, config, findings, result, events>>
    BY <1>13 DEF EmitTerminal, Wrote, Late
  <2>. QED
    BY <2>1, WritingKeepsReport
<1>14. CASE FlushAtExit
  <2>1. /\ phase \in Late /\ phase' \in Late
        /\ UNCHANGED <<vars, config, findings, result, events>>
    BY <1>14 DEF FlushAtExit, Late
  <2>. QED
    BY <2>1, WritingKeepsReport
<1>. QED
  BY <1>0, <1>1, <1>2, <1>3, <1>4, <1>5, <1>6, <1>7, <1>8, <1>9, <1>10, <1>11, <1>12, <1>13, <1>14
  DEF PageNext

(* The report of an audit of one page is never of anything but what the    *)
(* fetch met: see ReportTellsFetch.                                        *)
THEOREM TheReportTellsTheFetch == PageSpec => []ReportTellsFetch
<1>1. PageInit => PhaseInv
  BY DEF PageInit, Init, PhaseInv, FoundInv, ReportTellsFetch, Early, Late, Auditing
<1>2. PageSpec => [](IInv /\ PaidInv)
  BY ThePageIsFetched, PaidInductive, PTL
<1>3. (IInv /\ PaidInv) /\ PhaseInv /\ [PageNext]_allvars => PhaseInv'
  BY PhaseInvKept
<1>4. PhaseInv => ReportTellsFetch
  BY DEF PhaseInv
<1>. QED
  BY <1>1, <1>2, <1>3, <1>4, PTL DEF PageSpec

-----------------------------------------------------------------------------
(***************************************************************************)
(* What is written.                                                        *)
(***************************************************************************)

(* What was written in each phase: nothing before there is a report, the   *)
(* emptied file before the JSON, the JSON before the text.  The last line  *)
(* of the JSON, where it goes to stdout, is written at exit if at all.     *)
NothingWritten == file = <<Old>> /\ stdout = <<>> /\ stderr = <<>>

JsonWritten ==
    /\ stderr = <<>>
    /\ file = IF config.output THEN <<Json>> ELSE <<Old>>
    /\ stdout = IF config.output THEN <<>> ELSE <<Clipped>>

OutInv ==
    /\ phase \in Early \cup Late
    /\ phase \in Early => exit = "none" /\ result = None /\ NothingWritten
    /\ phase = "emit" => exit = "none" /\ ~config.server /\ result # None /\ NothingWritten
    /\ phase = "json" =>
          /\ exit = "none" /\ ~config.server /\ config.output /\ result # None
          /\ file = <<>> /\ stdout = <<>> /\ stderr = <<>>
    /\ phase = "terminal" =>
          exit = "none" /\ ~config.server /\ ~ScoreOnly /\ result # None /\ JsonWritten
    /\ OutputWhole

(* The texts are told apart by what they are made of.                      *)
LEMMA TextsDiffer ==
    ASSUME NEW made, NEW quiet
    PROVE  LET json == write_json(made)
               clipped == [but_last_line |-> write_json(made)]
               text == write_terminal(made, quiet)
           IN  /\ json # Torn /\ json # Old /\ json # text /\ json # clipped
               /\ clipped # Torn /\ clipped # Old /\ clipped # text
               /\ text # Torn /\ text # Old /\ Old # Torn
<1>. DEFINE json == write_json(made)
            clipped == [but_last_line |-> write_json(made)]
            text == write_terminal(made, quiet)
<1>1. /\ DOMAIN json = {"json"} /\ DOMAIN clipped = {"but_last_line"}
      /\ DOMAIN Torn = {"torn"} /\ DOMAIN Old = {"old"}
  BY DEF write_json, Torn, Old
<1>2. "score" \in DOMAIN text
  BY DEF write_terminal
<1>. HIDE DEF json, clipped, text
<1>3. json # Torn /\ json # Old /\ json # text /\ json # clipped
  <2>1. "json" \in DOMAIN json /\ "score" \notin DOMAIN json
    BY <1>1
  <2>2. "json" \notin DOMAIN Torn /\ "json" \notin DOMAIN Old /\ "json" \notin DOMAIN clipped
    BY <1>1
  <2>. QED
    BY <1>2, <2>1, <2>2
<1>4. clipped # Torn /\ clipped # Old /\ clipped # text
  <2>1. "but_last_line" \in DOMAIN clipped /\ "score" \notin DOMAIN clipped
    BY <1>1
  <2>2. "but_last_line" \notin DOMAIN Torn /\ "but_last_line" \notin DOMAIN Old
    BY <1>1
  <2>. QED
    BY <1>2, <2>1, <2>2
<1>5. text # Torn /\ text # Old /\ Old # Torn
  <2>1. "score" \notin DOMAIN Torn /\ "score" \notin DOMAIN Old /\ "old" \notin DOMAIN Torn
        /\ "old" \in DOMAIN Old
    BY <1>1
  <2>. QED
    BY <1>2, <2>1
<1>. QED
  BY <1>3, <1>4, <1>5 DEF json, clipped, text

(* What is written to an empty stream is the one text on it.               *)
LEMMA Written ==
    ASSUME NEW x
    PROVE  /\ Append(<<>>, x) = <<x>>
           /\ Range(<<>>) = {}
           /\ Range(<<x>>) = {x}
<1>1. DOMAIN <<>> = {} /\ DOMAIN <<x>> = {1} /\ <<x>>[1] = x
  OBVIOUS
<1>2. Append(<<>>, x) = <<x>>
  OBVIOUS
<1>3. Range(<<>>) = {}
  BY <1>1, Zenon DEF Range
<1>4. Range(<<x>>) = {x}
  BY <1>1, Zenon DEF Range
<1>. QED
  BY <1>2, <1>3, <1>4

(* The steps before there is a report, and the one that makes it.          *)
LEMMA EarlyOut ==
    ASSUME OutInv, phase \in Early, phase' \in Early, UNCHANGED <<result, stdout, stderr, file, exit>>
    PROVE  OutInv'
<1>1. /\ phase' \notin {"emit", "json", "terminal"} /\ phase' \in Early \cup Late
      /\ exit' = "none" /\ result' = None /\ NothingWritten'
  BY DEF OutInv, NothingWritten, Early, Late, Auditing
<1>2. Json' # Old /\ Clipped' # Old /\ exit' # "ok"
  BY <1>1, TextsDiffer DEF Json, Clipped
<1>3. OutputWhole'
  BY <1>1, <1>2, Written DEF OutputWhole, NothingWritten
<1>. QED
  BY <1>1, <1>3 DEF OutInv

LEMMA MadeOut ==
    ASSUME OutInv, phase \in Early, result' # None,
           phase' = IF config.server THEN "done" ELSE "emit",
           exit' = IF config.server THEN "ok" ELSE exit,
           UNCHANGED <<config, stdout, stderr, file>>
    PROVE  OutInv'
<1>1. NothingWritten' /\ exit = "none"
  BY DEF OutInv, NothingWritten
<1>2. phase' \in {"done", "emit"} /\ phase' \notin Early /\ phase' \in Early \cup Late
  BY DEF Early, Late, Auditing
<1>3. phase' = "emit" => exit' = "none" /\ ~config'.server
  BY <1>1
<1>4. ~(exit' = "ok" /\ ~config'.server)
  BY <1>1
<1>5. Json' # Old /\ Clipped' # Old
  BY TextsDiffer DEF Json, Clipped
<1>6. OutputWhole'
  BY <1>1, <1>4, <1>5, Written DEF OutputWhole, NothingWritten
<1>. QED
  BY <1>1, <1>2, <1>3, <1>6 DEF OutInv

LEMMA EmitScoreOut ==
    ASSUME OutInv, EmitScore
    PROVE  OutInv'
<1>1. /\ phase = "emit" /\ ScoreOnly /\ UNCHANGED <<config, result, stderr, file>>
      /\ exit = "none" /\ ~config.server /\ result # None /\ NothingWritten
  BY DEF EmitScore, OutInv
<1>. PICK written \in {write_terminal(result, TRUE), Torn} :
          /\ Wrote(write_terminal(result, TRUE), written, "done")
          /\ stdout' = Append(stdout, written)
  BY DEF EmitScore
<1>2. phase' = "done" /\ (exit' = "ok" => written # Torn)
  BY TextsDiffer DEF Wrote
<1>3. stdout' = <<written>> /\ stderr' = <<>> /\ file' = <<Old>> /\ result' # None
  BY <1>1, Written DEF NothingWritten
<1>4. /\ Json' # written /\ Json' # Old /\ Old # Torn
      /\ Clipped' # written /\ Clipped' # Old
  BY <1>1, TextsDiffer DEF Json, Clipped
<1>5. config'.quiet /\ ~config'.output
  BY <1>1 DEF ScoreOnly
<1>6. OutputWhole'
  BY <1>2, <1>3, <1>4, <1>5, Written DEF OutputWhole
<1>. QED
  BY <1>2, <1>6 DEF OutInv, Early, Late, Auditing

LEMMA CreateFileOut ==
    ASSUME OutInv, CreateFile
    PROVE  OutInv'
<1>1. /\ config.output /\ UNCHANGED <<config, result, stdout, stderr>>
      /\ exit = "none" /\ ~config.server /\ result # None /\ NothingWritten
  BY DEF CreateFile, OutInv
<1>2. Json' # Old /\ Clipped' # Old
  BY TextsDiffer DEF Json, Clipped
<1>3. CASE file' = <<>> /\ phase' = "json" /\ exit' = exit
  <2>1. OutputWhole'
    BY <1>1, <1>2, <1>3, Written DEF OutputWhole, NothingWritten
  <2>. QED
    BY <1>1, <1>3, <2>1 DEF OutInv, Early, Late, Auditing, NothingWritten
<1>4. CASE file' = file /\ phase' = "done" /\ exit' = "error"
  <2>1. OutputWhole'
    BY <1>1, <1>2, <1>4, Written DEF OutputWhole, NothingWritten
  <2>. QED
    BY <1>1, <1>4, <2>1 DEF OutInv, Early, Late, Auditing
<1>. QED
  BY <1>3, <1>4 DEF CreateFile

LEMMA EmitJsonOut ==
    ASSUME OutInv, EmitJson
    PROVE  OutInv'
<1>1. /\ UNCHANGED <<config, result, stderr>>
      /\ exit = "none" /\ ~config.server /\ ~ScoreOnly /\ result # None
      /\ stdout = <<>> /\ stderr = <<>> /\ file = IF config.output THEN <<>> ELSE <<Old>>
  <2>1. CASE phase = "json"
    BY <2>1 DEF EmitJson, OutInv, ScoreOnly
  <2>2. CASE phase = "emit" /\ ~config.output /\ ~ScoreOnly
    BY <2>2 DEF EmitJson, OutInv, NothingWritten
  <2>. QED
    BY <2>1, <2>2 DEF EmitJson
<1>. DEFINE text == IF config.output THEN Json ELSE Clipped
<1>. PICK written \in {text, Torn} :
          /\ Wrote(text, written, "terminal")
          /\ file' = IF config.output THEN Append(file, written) ELSE file
          /\ stdout' = IF config.output THEN stdout ELSE Append(stdout, written)
  BY DEF EmitJson, Json
<1>2. /\ Json' = Json /\ Json # Torn /\ Json # Old /\ Json # Clipped
      /\ Clipped' = Clipped /\ Clipped # Torn /\ Clipped # Old
  BY <1>1, TextsDiffer DEF Json, Clipped
<1>3. /\ stderr' = <<>>
      /\ file' = IF config'.output THEN <<written>> ELSE <<Old>>
      /\ stdout' = IF config'.output THEN <<>> ELSE <<written>>
  BY <1>1, Written
<1>4. CASE written = text /\ phase' = "terminal" /\ exit' = exit
  <2>1. JsonWritten'
    <3>1. CASE config.output
      BY <1>1, <1>2, <1>3, <1>4, <3>1 DEF JsonWritten
    <3>2. CASE ~config.output
      BY <1>1, <1>2, <1>3, <1>4, <3>2 DEF JsonWritten
    <3>. QED
      BY <3>1, <3>2
  <2>2. OutputWhole'
    BY <1>1, <1>2, <1>3, <1>4, Written DEF OutputWhole
  <2>3. ~ScoreOnly'
    BY <1>1 DEF ScoreOnly
  <2>. QED
    BY <1>1, <1>4, <2>1, <2>2, <2>3 DEF OutInv, Early, Late, Auditing
<1>5. CASE written = Torn /\ phase' = "done" /\ exit' = "error"
  <2>1. OutputWhole'
    BY <1>1, <1>2, <1>3, <1>5, Written DEF OutputWhole
  <2>. QED
    BY <1>5, <2>1 DEF OutInv, Early, Late, Auditing
<1>. QED
  BY <1>4, <1>5 DEF Wrote

LEMMA EmitTerminalOut ==
    ASSUME OutInv, EmitTerminal
    PROVE  OutInv'
<1>. DEFINE text == write_terminal(result, config.quiet)
<1>1. /\ UNCHANGED <<config, result, file>>
      /\ ~config.server /\ ~ScoreOnly /\ result # None /\ JsonWritten
  BY DEF EmitTerminal, OutInv
<1>2. /\ Json' = Json /\ Json # Torn /\ Json # Old /\ Json # text /\ text # Torn /\ Old # Torn
      /\ Clipped' = Clipped /\ Clipped # Torn /\ Clipped # Old /\ Clipped # text /\ Json # Clipped
  BY <1>1, TextsDiffer DEF Json, Clipped
<1>. PICK written \in {text, Torn} :
          /\ Wrote(text, written, "done")
          /\ stdout' = IF config.output THEN Append(stdout, written) ELSE stdout
          /\ stderr' = IF config.output THEN stderr ELSE Append(stderr, written)
  BY DEF EmitTerminal
<1>. HIDE DEF text
<1>3. /\ phase' = "done" /\ (exit' = "ok" => written # Torn)
      /\ written # Json /\ written # Clipped
  BY <1>2 DEF Wrote
<1>4. /\ file' = IF config'.output THEN <<Json>> ELSE <<Old>>
      /\ stdout' = IF config'.output THEN <<written>> ELSE <<Clipped>>
      /\ stderr' = IF config'.output THEN <<>> ELSE <<written>>
  BY <1>1, Written DEF JsonWritten
<1>5. OutputWhole'
  <2>1. CASE config'.output
    <3>1. /\ Range(stdout') = {written} /\ Range(stderr') = {} /\ Range(file') = {Json}
          /\ file' = <<Json>> /\ Json' = Json /\ Clipped' = Clipped /\ result' # None
          /\ config'.output
      BY <1>1, <1>2, <1>4, <2>1, Written
    <3>2. exit' = "ok" => Torn \notin Range(stdout') \cup Range(stderr') \cup Range(file')
      BY <1>2, <1>3, <3>1
    <3>3. \A json \in {Json', Clipped'} : json \notin Range(stdout') /\ json \notin Range(stderr')
      BY <1>3, <3>1
    <3>. HIDE DEF Json, Clipped
    <3>. QED
      BY <3>1, <3>2, <3>3 DEF OutputWhole
  <2>2. CASE ~config'.output
    <3>1. /\ Range(stdout') = {Clipped} /\ Range(stderr') = {written} /\ Range(file') = {Old}
          /\ stdout' = <<Clipped>> /\ Json' = Json /\ Clipped' = Clipped /\ result' # None
          /\ ~config'.output
      BY <1>1, <1>2, <1>4, <2>2, Written
    <3>2. exit' = "ok" => Torn \notin Range(stdout') \cup Range(stderr') \cup Range(file')
      BY <1>2, <1>3, <3>1
    <3>3. \A json \in {Json', Clipped'} : json \notin Range(stderr')
      BY <1>3, <3>1
    <3>4. Json' \notin Range(stdout')
      BY <1>2, <3>1
    <3>. HIDE DEF Json, Clipped
    <3>. QED
      BY <3>1, <3>2, <3>3, <3>4 DEF OutputWhole
  <2>. QED
    BY <2>1, <2>2
<1>. QED
  BY <1>3, <1>5 DEF OutInv, Early, Late, Auditing

(* The flush adds the line that is missing, or does not.                   *)
LEMMA FlushOut ==
    ASSUME OutInv, FlushAtExit
    PROVE  OutInv'
<1>1. /\ phase' = "closed" /\ UNCHANGED <<config, result, stderr, file, exit>>
      /\ \/ stdout' = stdout
         \/ stdout = <<Clipped>> /\ stdout' = <<Json>>
  BY DEF FlushAtExit, Json
<1>2. Json' = Json /\ Clipped' = Clipped
  BY <1>1 DEF Json, Clipped
<1>3. Json # Torn /\ Json # Clipped
  BY TextsDiffer DEF Json, Clipped
<1>4. OutputWhole
  BY DEF OutInv
<1>. HIDE DEF Json, Clipped
<1>5. CASE stdout' = stdout
  BY <1>1, <1>2, <1>4, <1>5 DEF OutputWhole, OutInv, Early, Late, Auditing
<1>6. CASE stdout = <<Clipped>> /\ stdout' = <<Json>>
  <2>1. Range(stdout') = {Json} /\ stdout # <<>>
    BY <1>6, Written
  <2>2. result # None
    BY <1>4, <2>1 DEF OutputWhole
  <2>3. /\ config.output => (exit = "ok" /\ ~config.server => file = <<Json>>)
        /\ exit = "ok" /\ ~config.server => Torn \notin Range(stderr) \cup Range(file)
        /\ \A json \in {Json, Clipped} : json \notin Range(stderr)
    BY <1>4 DEF OutputWhole
  <2>4. OutputWhole'
    BY <1>1, <1>2, <1>3, <1>6, <2>1, <2>2, <2>3 DEF OutputWhole
  <2>. QED
    BY <1>1, <2>4 DEF OutInv, Early, Late, Auditing
<1>. QED
  BY <1>1, <1>5, <1>6

LEMMA OutInvKept ==
    ASSUME PhaseInv, OutInv, [PageNext]_allvars
    PROVE  OutInv'
<1>0. CASE UNCHANGED allvars
  <2>1. UNCHANGED <<config, phase, result, stdout, stderr, file, exit>>
    BY <1>0 DEF allvars, pipeline
  <2>. QED
    BY <2>1
    DEF OutInv, OutputWhole, NothingWritten, JsonWritten, ScoreOnly, Json, Clipped
<1>1. CASE GateAllows \/ Fetching \/ FetchedPage \/ AuditPage
  <2>1. /\ phase \in Early /\ phase' \in Early
        /\ UNCHANGED <<result, stdout, stderr, file, exit>>
    BY <1>1
    DEF GateAllows, Fetching, FetchedPage, Fetched, AuditPage, pipeline, Early, Auditing
  <2>. QED
    BY <2>1, EarlyOut
<1>2. CASE GateRefuses
  <2>1. result' # None
    <3>1. result' = [pages |-> <<>>, site_score |-> 100]
      BY <1>2 DEF GateRefuses, Made
    <3>. QED
      BY <3>1 DEF None
  <2>2. /\ phase \in Early
        /\ phase' = IF config.server THEN "done" ELSE "emit"
        /\ exit' = IF config.server THEN "ok" ELSE exit
        /\ UNCHANGED <<config, stdout, stderr, file>>
    BY <1>2 DEF GateRefuses, Made, Early
  <2>. QED
    BY <2>1, <2>2, MadeOut
<1>3. CASE handle_redirect_loop
  <2>1. /\ phase \in Early /\ MadeOf(current, <<LoopFinding>>)
        /\ UNCHANGED <<config, stdout, stderr, file>>
    BY <1>3 DEF handle_redirect_loop, Fetched, Early
  <2>2. /\ result' # None
        /\ phase' = IF config.server THEN "done" ELSE "emit"
        /\ exit' = IF config.server THEN "ok" ELSE exit
    BY <2>1, LoopTyped, OnePageMade
  <2>. QED
    BY <2>1, <2>2, MadeOut
<1>4. CASE FetchFailed \/ AuditPanics
  <2>1. /\ phase \in Early /\ phase' = "done" /\ exit' = "error"
        /\ UNCHANGED <<config, result, stdout, stderr, file>>
    BY <1>4 DEF FetchFailed, Fetched, AuditPanics, Early, Auditing
  <2>2. NothingWritten' /\ Json' # Old
    BY <2>1, TextsDiffer DEF OutInv, NothingWritten, Json
  <2>3. OutputWhole'
    BY <2>1, <2>2, Written DEF OutputWhole, NothingWritten
  <2>. QED
    BY <2>1, <2>3 DEF OutInv, Early, Late, Auditing
<1>5. CASE AuditSite
  <2>1. phase \in {"robots", "sitemap", "links"}
    BY <1>5, SinglePageAssumption DEF AuditSite, SiteAuditors, Range
  <2>2. /\ phase \in Early /\ phase' \in Early
        /\ UNCHANGED <<result, stdout, stderr, file, exit>>
    BY <1>5, <2>1 DEF AuditSite, After, Early, Auditing
  <2>. QED
    BY <2>2, EarlyOut
<1>6. CASE Score
  <2>0. InParts
    BY <1>6 DEF Score, PhaseInv, FoundInv
  <2>1. /\ phase \in Early /\ MadeOf(current, findings)
        /\ UNCHANGED <<config, stdout, stderr, file>>
    BY <1>6 DEF Score, Early, Auditing
  <2>2. /\ result' # None
        /\ phase' = IF config.server THEN "done" ELSE "emit"
        /\ exit' = IF config.server THEN "ok" ELSE exit
    BY <2>0, <2>1, PartsTyped, OnePageMade
  <2>. QED
    BY <2>1, <2>2, MadeOut
<1>7. CASE EmitScore
  BY <1>7, EmitScoreOut
<1>8. CASE CreateFile
  BY <1>8, CreateFileOut
<1>9. CASE EmitJson
  BY <1>9, EmitJsonOut
<1>10. CASE EmitTerminal
  BY <1>10, EmitTerminalOut
<1>11. CASE FlushAtExit
  BY <1>11, FlushOut
<1>. QED
  BY <1>0, <1>1, <1>2, <1>3, <1>4, <1>5, <1>6, <1>7, <1>8, <1>9, <1>10, <1>11 DEF PageNext

(* A run that ends well has left the whole report in the file it was asked *)
(* to, and all but perhaps its last line on stdout, JSON never shares a    *)
(* stream with text, and a run that fails before there is a report leaves  *)
(* the file of an earlier run as it was.                                   *)
THEOREM TheOutputIsWhole == PageSpec => []OutputWhole
<1>1. PageInit => PhaseInv
  BY DEF PageInit, Init, PhaseInv, FoundInv, ReportTellsFetch, Early, Late, Auditing
<1>2. PageInit => OutInv
  <2>. SUFFICES ASSUME PageInit PROVE OutInv
    OBVIOUS
  <2>1. phase = "gate" /\ exit = "none" /\ result = None /\ NothingWritten
    BY DEF PageInit, NothingWritten
  <2>2. Json # Old
    BY TextsDiffer DEF Json, Clipped
  <2>3. OutputWhole
    BY <2>1, <2>2, Written DEF OutputWhole, NothingWritten
  <2>. QED
    BY <2>1, <2>3 DEF OutInv, Early
<1>3. PageSpec => [](IInv /\ PaidInv)
  BY ThePageIsFetched, PaidInductive, PTL
<1>4. (IInv /\ PaidInv) /\ PhaseInv /\ [PageNext]_allvars => PhaseInv'
  BY PhaseInvKept
<1>5. PhaseInv /\ OutInv /\ [PageNext]_allvars => OutInv'
  BY OutInvKept
<1>6. OutInv => OutputWhole
  BY DEF OutInv
<1>. QED
  BY <1>1, <1>2, <1>3, <1>4, <1>5, <1>6, PTL DEF PageSpec
=============================================================================

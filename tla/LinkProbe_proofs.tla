------------------------- MODULE LinkProbe_proofs -------------------------
(***************************************************************************)
(* Proofs about LinkProbe, for any pages, links, servers and permits, and  *)
(* about SitemapProbe, the audits of sitemaps before it, for any entries.  *)
(*                                                                         *)
(* A task that has ended holds the verdict on its link; one that is joined *)
(* has handed it over; an audit is through when all its tasks are joined.  *)
(***************************************************************************)
EXTENDS SitemapProbe, FiniteSetTheorems, WellFoundedInduction, TLAPS

Ended == {"ended", "joined"}

TaskInv ==
    \A t \in Tasks :
       /\ audit[t[1]] = "idle" => probe[t] = "unborn"
       /\ probe[t] = "get" => NeedsGet(server[t[2]].head)
       /\ probe[t] \in Ended => outcome[t] = Verdict(t[2])

FindingsInv ==
    /\ \A p \in Pages : findings[p] \subseteq Deserved(p)
    /\ \A t \in Tasks :
          probe[t] = "joined" /\ outcome[t] # "ok" => <<t[2], outcome[t]>> \in findings[t[1]]
    /\ \A t \in Tasks : audit[t[1]] = "done" => probe[t] = "joined"

IInv == TypeOK /\ TaskInv /\ FindingsInv

PermitInv == (\A p \in Pages : IsFiniteSet(InFlight(p))) /\ PermitsAccounted

LEMMA TaskShape ==
    ASSUME NEW t \in Tasks
    PROVE  t[1] \in Pages /\ t[2] \in Urls /\ t[2] \in Links[t[1]]
BY DEF Tasks

LEMMA LinkTask ==
    ASSUME NEW p \in Pages, NEW u \in Links[p]
    PROVE  <<p, u>> \in Of(p) /\ <<p, u>> \in Tasks
BY ProbeAssumption DEF Tasks, Of

LEMMA ClassIsOutcome ==
    ASSUME NEW answer \in Answers
    PROVE  Class(answer) \in Outcomes
BY DEF Class, Answers, Outcomes

LEMMA AnswersTyped ==
    ASSUME TypeOK, NEW u \in Urls
    PROVE  server[u].head \in Answers /\ server[u].get \in Answers
BY ProbeAssumption DEF TypeOK

LEMMA VerdictIsOutcome ==
    ASSUME TypeOK, NEW u \in Urls
    PROVE  Verdict(u) \in Outcomes
BY AnswersTyped, ClassIsOutcome DEF Verdict

(* Each action keeps every variable in its type.                           *)
LEMMA TypeOKKept ==
    ASSUME IInv, [Next]_vars
    PROVE  TypeOK'
<1>. TypeOK
  BY DEF IInv
<1>0. CASE UNCHANGED vars
  BY <1>0 DEF vars, TypeOK
<1>1. ASSUME NEW p \in Pages, Start(p) PROVE TypeOK'
  BY <1>1, TaskShape, AnswersTyped, ClassIsOutcome, VerdictIsOutcome, ProbeAssumption DEF Start, TypeOK, Of
<1>2. ASSUME NEW p \in Pages, Finish(p) PROVE TypeOK'
  BY <1>2, TaskShape, AnswersTyped, ClassIsOutcome, VerdictIsOutcome, ProbeAssumption DEF Finish, TypeOK, Of
<1>3. ASSUME NEW p \in Pages, Drop(p) PROVE TypeOK'
  BY <1>3, TaskShape, AnswersTyped, ClassIsOutcome, VerdictIsOutcome, ProbeAssumption DEF Drop, TypeOK, Of
<1>4. ASSUME NEW t \in Tasks, SendHead(t) PROVE TypeOK'
  BY <1>4, TaskShape, AnswersTyped, ClassIsOutcome, VerdictIsOutcome, ProbeAssumption DEF SendHead, TypeOK
<1>5. ASSUME NEW t \in Tasks, HeadAnswered(t) PROVE TypeOK'
  BY <1>5, TaskShape, AnswersTyped, ClassIsOutcome, VerdictIsOutcome, ProbeAssumption DEF HeadAnswered, End, TypeOK
<1>6. ASSUME NEW t \in Tasks, FallBack(t) PROVE TypeOK'
  BY <1>6, TaskShape, AnswersTyped, ClassIsOutcome, VerdictIsOutcome, ProbeAssumption DEF FallBack, TypeOK
<1>7. ASSUME NEW t \in Tasks, GetAnswered(t) PROVE TypeOK'
  BY <1>7, TaskShape, AnswersTyped, ClassIsOutcome, VerdictIsOutcome, ProbeAssumption DEF GetAnswered, End, TypeOK
<1>8. ASSUME NEW t \in Tasks, Join(t) PROVE TypeOK'
  <2>1. outcome[t] \in Outcomes
    BY <1>8, TaskShape, VerdictIsOutcome DEF Join, IInv, TaskInv, Ended
  <2>2. findings' \in [Pages -> SUBSET (Urls \X (Outcomes \ {"ok"}))]
    BY <1>8, <2>1, TaskShape DEF Join, TypeOK
  <2>3. probe' \in [Tasks -> {"unborn", "waiting", "head", "get", "ended", "joined", "dropped"}]
    BY <1>8 DEF Join, TypeOK
  <2>. QED
    BY <1>8, <2>2, <2>3 DEF Join, TypeOK
<1>. QED
  BY <1>0, <1>1, <1>2, <1>3, <1>4, <1>5, <1>6, <1>7, <1>8 DEF Next, Task

(* The last answer to a task is the verdict on its link.                   *)
LEMMA TaskInvKept ==
    ASSUME IInv, [Next]_vars
    PROVE  TaskInv'
<1>. TypeOK
  BY DEF IInv
<1>0. CASE UNCHANGED vars
  BY <1>0 DEF vars, IInv, TypeOK, TaskInv, Ended, Verdict
<1>1. ASSUME NEW p \in Pages, Start(p) PROVE TaskInv'
  BY <1>1, TaskShape, AnswersTyped, ClassIsOutcome, VerdictIsOutcome, ProbeAssumption DEF Start, IInv, TypeOK, TaskInv, Ended, Verdict, Of
<1>2. ASSUME NEW p \in Pages, Finish(p) PROVE TaskInv'
  BY <1>2, TaskShape, AnswersTyped, ClassIsOutcome, VerdictIsOutcome, ProbeAssumption DEF Finish, IInv, TypeOK, TaskInv, Ended, Verdict, Of
<1>3. ASSUME NEW p \in Pages, Drop(p) PROVE TaskInv'
  BY <1>3, TaskShape, AnswersTyped, ClassIsOutcome, VerdictIsOutcome, ProbeAssumption DEF Drop, IInv, TypeOK, TaskInv, Ended, Verdict, Of
<1>4. ASSUME NEW t \in Tasks, SendHead(t) PROVE TaskInv'
  BY <1>4, TaskShape, AnswersTyped, ClassIsOutcome, VerdictIsOutcome, ProbeAssumption DEF SendHead, IInv, TypeOK, TaskInv, Ended, Verdict
<1>5. ASSUME NEW t \in Tasks, HeadAnswered(t) PROVE TaskInv'
  BY <1>5, TaskShape, AnswersTyped, ClassIsOutcome, VerdictIsOutcome, ProbeAssumption DEF HeadAnswered, End, IInv, TypeOK, TaskInv, Ended, Verdict
<1>6. ASSUME NEW t \in Tasks, FallBack(t) PROVE TaskInv'
  BY <1>6, TaskShape, AnswersTyped, ClassIsOutcome, VerdictIsOutcome, ProbeAssumption DEF FallBack, IInv, TypeOK, TaskInv, Ended, Verdict
<1>7. ASSUME NEW t \in Tasks, GetAnswered(t) PROVE TaskInv'
  BY <1>7, TaskShape, AnswersTyped, ClassIsOutcome, VerdictIsOutcome, ProbeAssumption DEF GetAnswered, End, IInv, TypeOK, TaskInv, Ended, Verdict
<1>8. ASSUME NEW t \in Tasks, Join(t) PROVE TaskInv'
  BY <1>8, TaskShape, AnswersTyped, ClassIsOutcome, VerdictIsOutcome, ProbeAssumption DEF Join, IInv, TypeOK, TaskInv, Ended, Verdict
<1>. QED
  BY <1>0, <1>1, <1>2, <1>3, <1>4, <1>5, <1>6, <1>7, <1>8 DEF Next, Task

(* Join adds what the task deserves, Finish finds all joined.              *)
LEMMA FindingsInvKept ==
    ASSUME IInv, [Next]_vars
    PROVE  FindingsInv'
<1>. TypeOK
  BY DEF IInv
<1>0. CASE UNCHANGED vars
  BY <1>0 DEF vars, IInv, TypeOK, TaskInv, Ended, FindingsInv, Deserved, Verdict
<1>1. ASSUME NEW p \in Pages, Start(p) PROVE FindingsInv'
  BY <1>1, TaskShape, AnswersTyped, ClassIsOutcome, VerdictIsOutcome, ProbeAssumption DEF Start, IInv, TypeOK, TaskInv, Ended, FindingsInv, Deserved, Verdict, Of
<1>2. ASSUME NEW p \in Pages, Finish(p) PROVE FindingsInv'
  BY <1>2, TaskShape, AnswersTyped, ClassIsOutcome, VerdictIsOutcome, ProbeAssumption DEF Finish, IInv, TypeOK, TaskInv, Ended, FindingsInv, Deserved, Verdict, Of
<1>3. ASSUME NEW p \in Pages, Drop(p) PROVE FindingsInv'
  BY <1>3, TaskShape, AnswersTyped, ClassIsOutcome, VerdictIsOutcome, ProbeAssumption DEF Drop, IInv, TypeOK, TaskInv, Ended, FindingsInv, Deserved, Verdict, Of
<1>4. ASSUME NEW t \in Tasks, SendHead(t) PROVE FindingsInv'
  BY <1>4, TaskShape, AnswersTyped, ClassIsOutcome, VerdictIsOutcome, ProbeAssumption DEF SendHead, IInv, TypeOK, TaskInv, Ended, FindingsInv, Deserved, Verdict
<1>5. ASSUME NEW t \in Tasks, HeadAnswered(t) PROVE FindingsInv'
  BY <1>5, TaskShape, AnswersTyped, ClassIsOutcome, VerdictIsOutcome, ProbeAssumption DEF HeadAnswered, End, IInv, TypeOK, TaskInv, Ended, FindingsInv, Deserved, Verdict
<1>6. ASSUME NEW t \in Tasks, FallBack(t) PROVE FindingsInv'
  BY <1>6, TaskShape, AnswersTyped, ClassIsOutcome, VerdictIsOutcome, ProbeAssumption DEF FallBack, IInv, TypeOK, TaskInv, Ended, FindingsInv, Deserved, Verdict
<1>7. ASSUME NEW t \in Tasks, GetAnswered(t) PROVE FindingsInv'
  BY <1>7, TaskShape, AnswersTyped, ClassIsOutcome, VerdictIsOutcome, ProbeAssumption DEF GetAnswered, End, IInv, TypeOK, TaskInv, Ended, FindingsInv, Deserved, Verdict
<1>8. ASSUME NEW t \in Tasks, Join(t) PROVE FindingsInv'
  BY <1>8, TaskShape, AnswersTyped, ClassIsOutcome, VerdictIsOutcome, ProbeAssumption DEF Join, IInv, TypeOK, TaskInv, Ended, FindingsInv, Deserved, Verdict
<1>. QED
  BY <1>0, <1>1, <1>2, <1>3, <1>4, <1>5, <1>6, <1>7, <1>8 DEF Next, Task

LEMMA Initially == Init => IInv
<1>. SUFFICES ASSUME Init PROVE IInv
  OBVIOUS
<1>1. TypeOK
  BY ProbeAssumption DEF Init, TypeOK
<1>2. TaskInv
  BY TaskShape DEF Init, TaskInv, Ended
<1>3. FindingsInv
  BY TaskShape DEF Init, FindingsInv
<1>. QED
  BY <1>1, <1>2, <1>3 DEF IInv

LEMMA Inductive == Spec => []IInv
<1>1. IInv /\ [Next]_vars => IInv'
  BY TypeOKKept, TaskInvKept, FindingsInvKept DEF IInv
<1>. QED
  BY <1>1, Initially, PTL DEF Spec

(* Type correctness of the link audits.                                    *)
THEOREM TypeCorrect == Spec => []TypeOK
<1>1. IInv => TypeOK
  BY DEF IInv
<1>. QED
  BY <1>1, Inductive, PTL

(* An audit that is through holds the findings its links deserve and no    *)
(* others, in whatever order its tasks have ended.                         *)
THEOREM FindingsAreExact == Spec => []FindingsExact
<1>1. IInv => FindingsExact
  <2>. SUFFICES ASSUME IInv, NEW p \in Pages
                PROVE  /\ findings[p] \subseteq Deserved(p)
                       /\ audit[p] = "done" => Deserved(p) \subseteq findings[p]
    BY DEF FindingsExact
  <2>1. findings[p] \subseteq Deserved(p)
    BY DEF IInv, FindingsInv
  <2>2. ASSUME audit[p] = "done", NEW f \in Deserved(p)
        PROVE  f \in findings[p]
    <3>1. /\ f[1] \in Links[p]
          /\ f = <<f[1], f[2]>>
          /\ f[2] # "ok" /\ f[2] = Verdict(f[1])
      BY DEF Deserved
    <3>2. PICK t \in Tasks : t[1] = p /\ t[2] = f[1]
      BY <3>1, LinkTask
    <3>3. probe[t] = "joined" /\ outcome[t] = f[2]
      BY <2>2, <3>1, <3>2 DEF IInv, FindingsInv, TaskInv, Ended
    <3>. QED
      BY <3>1, <3>2, <3>3 DEF IInv, FindingsInv
  <2>. QED
    BY <2>1, <2>2
<1>. QED
  BY <1>1, Inductive, PTL

(* A link that answers neither HEAD nor GET well is reported.              *)
THEOREM DeadLinksAreReported == Spec => []DeadReported
<1>1. IInv => DeadReported
  <2>. SUFFICES ASSUME IInv, NEW p \in Pages, NEW u \in Links[p], audit[p] = "done",
                       server[u].head # "ok", server[u].get # "ok"
                PROVE  \E c \in Outcomes : <<u, c>> \in findings[p]
    BY DEF DeadReported
  <2>1. PICK t \in Tasks : t[1] = p /\ t[2] = u
    BY LinkTask
  <2>2. probe[t] = "joined" /\ outcome[t] = Verdict(u)
    BY <2>1 DEF IInv, FindingsInv, TaskInv, Ended
  <2>3. u \in Urls /\ TypeOK
    BY ProbeAssumption DEF IInv
  <2>4. Verdict(u) \in Outcomes /\ Verdict(u) # "ok"
    BY <2>3, AnswersTyped, VerdictIsOutcome DEF Verdict, Class, Answers
  <2>. QED
    BY <2>1, <2>2, <2>4 DEF IInv, FindingsInv
<1>. QED
  BY <1>1, Inductive, PTL

-----------------------------------------------------------------------------
(* A step that lets nobody in or out of the semaphore keeps the account.   *)
LEMMA NoneInOrOut ==
    ASSUME PermitInv, sem' = sem,
           \A p \in Pages : audit'[p] # "dropped" => audit[p] # "dropped",
           \A p \in Pages : InFlight(p)' = InFlight(p) \/ (audit'[p] = "dropped" /\ InFlight(p)' = {})
    PROVE  PermitInv'
BY FS_EmptySet DEF PermitInv, PermitsAccounted

(* One task of a page takes a permit, or gives its permit back.            *)
LEMMA OneIn ==
    ASSUME PermitInv, TypeOK, NEW t \in Tasks, audit' = audit,
           sem' = [sem EXCEPT ![t[1]] = @ - 1],
           \A p \in Pages : p = t[1] => t \notin InFlight(p),
           \A p \in Pages : InFlight(p)' = IF p = t[1] THEN InFlight(p) \cup {t} ELSE InFlight(p)
    PROVE  PermitInv'
<1>1. ASSUME NEW p \in Pages
      PROVE  /\ IsFiniteSet(InFlight(p)')
             /\ audit'[p] # "dropped" => sem'[p] + Cardinality(InFlight(p)') = Permits
  <2>1. IsFiniteSet(InFlight(p)) /\ Cardinality(InFlight(p)) \in Nat
    BY FS_CardinalityType DEF PermitInv
  <2>2. sem[p] \in Nat /\ Permits \in Nat
    BY ProbeAssumption DEF TypeOK
  <2>3. CASE p = t[1]
    <3>1. InFlight(p)' = InFlight(p) \cup {t} /\ t \notin InFlight(p)
      BY <2>3
    <3>2. /\ IsFiniteSet(InFlight(p)')
          /\ Cardinality(InFlight(p)') = Cardinality(InFlight(p)) + 1
      BY <2>1, <3>1, FS_AddElement
    <3>3. sem'[p] = sem[p] - 1
      BY <2>3 DEF TypeOK
    <3>. QED
      BY <2>1, <2>2, <3>2, <3>3 DEF PermitInv, PermitsAccounted
  <2>4. CASE p # t[1]
    BY <2>1, <2>4 DEF PermitInv, PermitsAccounted, TypeOK
  <2>. QED
    BY <2>3, <2>4
<1>. QED
  BY <1>1 DEF PermitInv, PermitsAccounted

LEMMA OneOut ==
    ASSUME PermitInv, TypeOK, NEW t \in Tasks, audit' = audit,
           sem' = [sem EXCEPT ![t[1]] = @ + 1],
           \A p \in Pages : p = t[1] => t \in InFlight(p),
           \A p \in Pages : InFlight(p)' = IF p = t[1] THEN InFlight(p) \ {t} ELSE InFlight(p)
    PROVE  PermitInv'
<1>1. ASSUME NEW p \in Pages
      PROVE  /\ IsFiniteSet(InFlight(p)')
             /\ audit'[p] # "dropped" => sem'[p] + Cardinality(InFlight(p)') = Permits
  <2>1. IsFiniteSet(InFlight(p)) /\ Cardinality(InFlight(p)) \in Nat
    BY FS_CardinalityType DEF PermitInv
  <2>2. sem[p] \in Nat /\ Permits \in Nat
    BY ProbeAssumption DEF TypeOK
  <2>3. CASE p = t[1]
    <3>1. InFlight(p)' = InFlight(p) \ {t} /\ t \in InFlight(p)
      BY <2>3
    <3>2. /\ IsFiniteSet(InFlight(p)')
          /\ Cardinality(InFlight(p)') = Cardinality(InFlight(p)) - 1
      BY <2>1, <3>1, FS_RemoveElement
    <3>3. sem'[p] = sem[p] + 1
      BY <2>3 DEF TypeOK
    <3>. QED
      BY <2>1, <2>2, <3>2, <3>3 DEF PermitInv, PermitsAccounted
  <2>4. CASE p # t[1]
    BY <2>1, <2>4 DEF PermitInv, PermitsAccounted, TypeOK
  <2>. QED
    BY <2>3, <2>4
<1>. QED
  BY <1>1 DEF PermitInv, PermitsAccounted

LEMMA PermitInvKept ==
    ASSUME IInv, PermitInv, [Next]_vars
    PROVE  PermitInv'
<1>. TypeOK /\ TaskInv
  BY DEF IInv
<1>0. CASE UNCHANGED vars
  BY <1>0 DEF vars, PermitInv, PermitsAccounted, InFlight
<1>1. ASSUME NEW p \in Pages, Start(p) PROVE PermitInv'
  <2>1. \A x \in Pages : InFlight(x)' = InFlight(x)
    BY <1>1, TaskShape DEF Start, InFlight, Of, TaskInv
  <2>. QED
    BY <1>1, <2>1, NoneInOrOut DEF Start, TypeOK
<1>2. ASSUME NEW p \in Pages, Finish(p) PROVE PermitInv'
  <2>1. \A x \in Pages : InFlight(x)' = InFlight(x)
    BY <1>2 DEF Finish, InFlight
  <2>. QED
    BY <1>2, <2>1, NoneInOrOut DEF Finish, TypeOK
<1>3. ASSUME NEW p \in Pages, Drop(p) PROVE PermitInv'
  <2>1. \A x \in Pages : InFlight(x)' = InFlight(x) \/ (audit'[x] = "dropped" /\ InFlight(x)' = {})
    BY <1>3 DEF Drop, InFlight, Of, TypeOK
  <2>. QED
    BY <1>3, <2>1, NoneInOrOut DEF Drop, TypeOK
<1>4. ASSUME NEW t \in Tasks, SendHead(t) PROVE PermitInv'
  <2>1. \A p \in Pages : t \notin InFlight(p)
    BY <1>4 DEF SendHead, InFlight
  <2>2. \A p \in Pages : InFlight(p)' = IF p = t[1] THEN InFlight(p) \cup {t} ELSE InFlight(p)
    BY <1>4 DEF SendHead, InFlight, Of, TypeOK
  <2>. QED
    BY <1>4, <2>1, <2>2, OneIn DEF SendHead
<1>5. ASSUME NEW t \in Tasks, HeadAnswered(t) \/ GetAnswered(t) PROVE PermitInv'
  <2>1. \A p \in Pages : p = t[1] => t \in InFlight(p)
    BY <1>5 DEF HeadAnswered, GetAnswered, InFlight, Of
  <2>2. \A p \in Pages : InFlight(p)' = IF p = t[1] THEN InFlight(p) \ {t} ELSE InFlight(p)
    BY <1>5 DEF HeadAnswered, GetAnswered, End, InFlight, Of, TypeOK
  <2>. QED
    BY <1>5, <2>1, <2>2, OneOut DEF HeadAnswered, GetAnswered, End
<1>6. ASSUME NEW t \in Tasks, FallBack(t) \/ Join(t) PROVE PermitInv'
  <2>1. \A s \in Tasks : probe'[s] \in {"head", "get"} <=> probe[s] \in {"head", "get"}
    BY <1>6 DEF FallBack, Join, TypeOK
  <2>2. \A x \in Pages : InFlight(x)' = InFlight(x)
    BY <2>1 DEF InFlight, Of
  <2>. QED
    BY <1>6, <2>2, NoneInOrOut DEF FallBack, Join
<1>. QED
  BY <1>0, <1>1, <1>2, <1>3, <1>4, <1>5, <1>6 DEF Next, Task

(* No permit is lost and none is made, in whatever order the probes of the *)
(* audits end.                                                             *)
THEOREM PermitsAreAccounted == Spec => []PermitsAccounted
<1>1. Init => PermitInv
  <2>. SUFFICES ASSUME Init PROVE PermitInv
    OBVIOUS
  <2>1. \A p \in Pages : InFlight(p) = {} /\ sem[p] = Permits
    BY DEF Init, InFlight, Of
  <2>2. IsFiniteSet({}) /\ Cardinality({}) = 0
    BY FS_EmptySet
  <2>3. Permits \in Nat
    BY ProbeAssumption
  <2>4. ASSUME NEW p \in Pages
        PROVE  IsFiniteSet(InFlight(p)) /\ sem[p] + Cardinality(InFlight(p)) = Permits
    <3>1. InFlight(p) = {} /\ sem[p] = Permits
      BY <2>1
    <3>2. IsFiniteSet(InFlight(p)) /\ Cardinality(InFlight(p)) = 0
      BY <2>2, <3>1
    <3>. QED
      BY <2>3, <3>1, <3>2
  <2>. QED
    BY <2>4 DEF PermitInv, PermitsAccounted
<1>2. IInv /\ PermitInv /\ [Next]_vars => PermitInv'
  BY PermitInvKept
<1>3. PermitInv => PermitsAccounted
  BY DEF PermitInv
<1>. QED
  BY <1>1, <1>2, <1>3, Inductive, PTL DEF Spec

-----------------------------------------------------------------------------
(***************************************************************************)
(* The sample.  It is folded from the entries of the sitemap; what it is   *)
(* made of is the last of the samples of the first 0, 1, 2, ... entries.   *)
(***************************************************************************)

(* What the fold asks of the function that it chooses.                     *)
Pushes(n, f) ==
    f = [t \in SUBSET (1..n) |->
           IF t = {} THEN <<>> ELSE push(f[t \ {Max(t)}], Locs[Max(t)])]

(* A set of naturals that is not empty has a least member.                 *)
LEMMA LeastExists ==
    ASSUME NEW S \in SUBSET Nat, S # {}
    PROVE  \E m \in S : \A n \in S : m <= n
<1>. DEFINE Less == OpToRel(<, Nat)
<1>1. \A m, n \in Nat : <<m, n>> \in Less <=> m < n
  BY DEF OpToRel
<1>. HIDE DEF Less
<1>2. IsWellFoundedOn(Less, Nat)
  BY NatLessThanWellFounded DEF Less
<1>3. PICK m \in S : \A n \in S : ~(<<n, m>> \in Less)
  BY <1>2, WFMin
<1>4. \A n \in S : ~(n < m)
  BY <1>1, <1>3
<1>. QED
  BY <1>4

LEMMA MaxOfLast ==
    ASSUME NEW n \in Nat \ {0}, NEW t \in SUBSET (1..n), n \in t
    PROVE  Max(t) = n
<1>1. n \in t /\ \A y \in t : n >= y
  OBVIOUS
<1>2. \A x \in t : (\A y \in t : x >= y) => x = n
  BY <1>1
<1>. QED
  BY <1>1, <1>2 DEF Max

(* A fold of the first n entries can be gone on with.                      *)
LEMMA PushesGrow ==
    ASSUME NEW n \in Nat \ {0}, NEW f, Pushes(n - 1, f)
    PROVE  \E g : Pushes(n, g)
<1>. DEFINE low(t) == t \ {n}
            G == [t \in SUBSET (1..n) |->
                    IF n \in t THEN push(f[low(t)], Locs[n]) ELSE f[t]]
<1>1. \A t \in SUBSET (1..n) : low(t) \in SUBSET (1..(n - 1))
  OBVIOUS
<1>2. ASSUME NEW t \in SUBSET (1..n)
      PROVE  G[t] = IF t = {} THEN <<>> ELSE push(G[t \ {Max(t)}], Locs[Max(t)])
  <2>1. CASE n \in t
    <3>1. Max(t) = n /\ low(t) \in SUBSET (1..n) /\ n \notin low(t)
      BY <2>1, MaxOfLast
    <3>2. G[low(t)] = f[low(t)]
      BY <3>1
    <3>3. G[t] = push(f[low(t)], Locs[n]) /\ t # {}
      BY <2>1
    <3>. QED
      BY <3>1, <3>2, <3>3
  <2>2. CASE n \notin t
    <3>0. \A i \in 1..n : i # n => i \in 1..(n - 1)
      OBVIOUS
    <3>1. t \in SUBSET (1..(n - 1)) /\ t \ {Max(t)} \in SUBSET (1..n) /\ n \notin t \ {Max(t)}
      BY <2>2, <3>0
    <3>2. f[t] = IF t = {} THEN <<>> ELSE push(f[t \ {Max(t)}], Locs[Max(t)])
      BY <3>1 DEF Pushes
    <3>3. G[t] = f[t] /\ G[t \ {Max(t)}] = f[t \ {Max(t)}]
      BY <2>2, <3>1
    <3>. QED
      BY <3>2, <3>3
  <2>. QED
    BY <2>1, <2>2
<1>3. G = [t \in SUBSET (1..n) |-> G[t]]
  OBVIOUS
<1>. HIDE DEF G
<1>4. Pushes(n, G)
  BY <1>2, <1>3 DEF Pushes
<1>. QED
  BY <1>4

LEMMA PushesExist == \A n \in Nat : \E f : Pushes(n, f)
<1>. DEFINE Bad == {n \in Nat : ~\E f : Pushes(n, f)}
<1>. SUFFICES ASSUME Bad # {} PROVE FALSE
  OBVIOUS
<1>1. PICK m \in Bad : \A n \in Bad : m <= n
  <2>. HIDE DEF Bad
  <2>1. Bad \in SUBSET Nat
    BY DEF Bad
  <2>. QED
    BY <2>1, LeastExists
<1>2. CASE m = 0
  <2>. DEFINE f == [t \in SUBSET (1..0) |-> <<>>]
  <2>1. SUBSET (1..0) = {{}}
    OBVIOUS
  <2>2. Pushes(0, f)
    BY <2>1 DEF Pushes
  <2>. QED
    BY <1>2, <2>2
<1>3. CASE m # 0
  <2>1. m - 1 \in Nat /\ m - 1 \notin Bad /\ m \in Nat \ {0}
    BY <1>1, <1>3
  <2>2. PICK f : Pushes(m - 1, f)
    BY <2>1
  <2>. QED
    BY <1>1, <2>1, <2>2, PushesGrow
<1>. QED
  BY <1>2, <1>3

(* The samples of the first entries.                                       *)
Samples(S) ==
    /\ S[0] = <<>>
    /\ \A k \in 1..Len(Locs) : S[k] = push(S[k - 1], Locs[k])

LEMMA SampleIsLast == \E S : Samples(S) /\ Sample = S[Len(Locs)]
<1>. DEFINE n == Len(Locs)
            F == CHOOSE f : Pushes(n, f)
            S == [k \in 0..n |-> F[1..k]]
<1>1. n \in Nat /\ DOMAIN Locs = 1..n
  BY SitemapAssumption
<1>2. Sample = F[1..n]
  <2>1. Sample = (CHOOSE f : f = [t \in SUBSET (DOMAIN Locs) |->
                    IF t = {} THEN <<>> ELSE push(f[t \ {Max(t)}], Locs[Max(t)])])[DOMAIN Locs]
    BY DEF Sample, FoldLeft, MapThenFoldSet
  <2>. QED
    BY <1>1, <2>1 DEF Pushes
<1>. HIDE DEF n
<1>3. Pushes(n, F)
  BY <1>1, PushesExist
<1>. HIDE DEF F
<1>4. F[1..0] = <<>>
  <2>1. 1..0 = {}
    OBVIOUS
  <2>2. {} \in SUBSET (1..n)
    OBVIOUS
  <2>. QED
    BY <1>3, <2>1, <2>2 DEF Pushes
<1>5. ASSUME NEW k \in 1..n
      PROVE  F[1..k] = push(F[1..(k - 1)], Locs[k])
  <2>1. k \in Nat \ {0} /\ 1..k \in SUBSET (1..n) /\ k \in 1..k
    BY <1>1
  <2>2. Max(1..k) = k
    BY <2>1, MaxOfLast
  <2>3. (1..k) \ {k} = 1..(k - 1) /\ 1..k # {}
    BY <2>1
  <2>. QED
    BY <1>3, <2>1, <2>2, <2>3 DEF Pushes
<1>6. \A k \in 1..n : k \in 0..n /\ k - 1 \in 0..n
  BY <1>1
<1>7. 0 \in 0..n /\ n \in 0..n
  BY <1>1
<1>8. Samples(S)
  BY <1>4, <1>5, <1>6, <1>7 DEF Samples, n
<1>9. Sample = S[n]
  BY <1>2, <1>7
<1>. QED
  BY <1>8, <1>9 DEF n

(* The entries that are URLs, and the place of one of them.                *)
Valid == {k \in DOMAIN Locs : Locs[k] \in Urls}

Place(k) == Cardinality({j \in Valid : j <= k})

LEMMA PlaceGrows ==
    /\ Place(0) = 0
    /\ \A k \in 1..Len(Locs) :
          /\ Place(k - 1) \in Nat
          /\ Place(k) = Place(k - 1) + (IF k \in Valid THEN 1 ELSE 0)
<1>0. Len(Locs) \in Nat /\ DOMAIN Locs = 1..Len(Locs)
  BY SitemapAssumption
<1>1. Place(0) = 0
  <2>1. {j \in Valid : j <= 0} = {}
    BY <1>0 DEF Valid
  <2>. QED
    BY <2>1, FS_EmptySet DEF Place
<1>2. ASSUME NEW k \in 1..Len(Locs)
      PROVE  /\ Place(k - 1) \in Nat
             /\ Place(k) = Place(k - 1) + (IF k \in Valid THEN 1 ELSE 0)
  <2>. DEFINE before == {j \in Valid : j <= k - 1}
              upto == {j \in Valid : j <= k}
  <2>1. Valid \subseteq Nat /\ before \subseteq 1..Len(Locs)
    BY <1>0 DEF Valid
  <2>2. IsFiniteSet(before)
    <3>1. IsFiniteSet(1..Len(Locs))
      BY <1>0, FS_Interval
    <3>. QED
      BY <2>1, <3>1, FS_Subset
  <2>3. Cardinality(before) \in Nat
    BY <2>2, FS_CardinalityType
  <2>0. k \in Nat /\ \A j \in Valid : (j <= k <=> j <= k - 1 \/ j = k)
    BY <1>0, <2>1
  <2>4. CASE k \in Valid
    <3>0. k \notin before /\ k \in upto
      BY <2>0, <2>4
    <3>a. \A j : j \in upto <=> j \in before \/ j = k
      BY <2>0, <3>0
    <3>1. upto = before \cup {k} /\ k \notin before
      <4>. HIDE DEF upto, before
      <4>. QED
        BY <3>0, <3>a
    <3>2. Cardinality(upto) = Cardinality(before) + 1
      BY <2>2, <3>1, FS_AddElement
    <3>. QED
      BY <2>3, <2>4, <3>2 DEF Place
  <2>5. CASE k \notin Valid
    <3>1. upto = before
      BY <2>0, <2>1, <2>5
    <3>2. Place(k) = Cardinality(upto) /\ Place(k - 1) = Cardinality(before)
      BY DEF Place
    <3>. HIDE DEF upto, before
    <3>. QED
      BY <2>3, <2>5, <3>1, <3>2
  <2>. QED
    BY <2>4, <2>5
<1>. QED
  BY <1>1, <1>2

(* What the sample of the first k entries is made of.                      *)
MadeOf(s, k) ==
    /\ s \in Seq(Urls)
    /\ Len(s) = IF Place(k) <= MaxSampled THEN Place(k) ELSE MaxSampled
    /\ \A v \in Valid : v <= k /\ Place(v) <= MaxSampled =>
          Place(v) \in DOMAIN s /\ s[Place(v)] = Locs[v]
    /\ \A i \in DOMAIN s : \E v \in Valid : v <= k /\ Place(v) = i

LEMMA PushMakes ==
    ASSUME NEW k \in 1..Len(Locs), NEW s, MadeOf(s, k - 1)
    PROVE  MadeOf(push(s, Locs[k]), k)
<1>0. /\ Len(Locs) \in Nat /\ DOMAIN Locs = 1..Len(Locs) /\ MaxSampled \in Nat
      /\ Locs[k] \in Urls \cup {Invalid} /\ Invalid \notin Urls
  BY SitemapAssumption
<1>1. Valid \subseteq Nat /\ (k \in Valid <=> Locs[k] \in Urls)
  BY <1>0 DEF Valid
<1>. PICK n : n = Place(k - 1)
  OBVIOUS
<1>2. n \in Nat /\ Place(k) = n + (IF k \in Valid THEN 1 ELSE 0)
  BY PlaceGrows
<1>3. /\ s \in Seq(Urls) /\ Len(s) = IF n <= MaxSampled THEN n ELSE MaxSampled
      /\ \A v \in Valid : v <= k - 1 /\ Place(v) <= MaxSampled =>
            Place(v) \in DOMAIN s /\ s[Place(v)] = Locs[v]
      /\ \A i \in DOMAIN s : \E v \in Valid : v <= k - 1 /\ Place(v) = i
  BY DEF MadeOf
<1>4. CASE k \notin Valid
  <2>1. push(s, Locs[k]) = s /\ Place(k) = n
    BY <1>0, <1>1, <1>2, <1>4 DEF push
  <2>2. \A v \in Valid : v <= k <=> v <= k - 1
    BY <1>1, <1>4
  <2>. QED
    BY <1>3, <2>1, <2>2 DEF MadeOf
<1>5. CASE k \in Valid /\ ~(Len(s) < MaxSampled)
  <2>1. push(s, Locs[k]) = s /\ Place(k) = n + 1
    BY <1>2, <1>5 DEF push
  <2>2. n >= MaxSampled /\ Len(s) = MaxSampled
    BY <1>0, <1>2, <1>3, <1>5
  <2>3. Len(s) = IF n + 1 <= MaxSampled THEN n + 1 ELSE MaxSampled
    BY <1>0, <1>2, <2>2
  <2>4. \A v \in Valid : v <= k /\ Place(v) <= MaxSampled => v <= k - 1
    <3>. SUFFICES ASSUME NEW v \in Valid, v <= k, Place(v) <= MaxSampled, ~(v <= k - 1)
                  PROVE  FALSE
      OBVIOUS
    <3>1. v = k
      BY <1>1
    <3>. QED
      BY <1>0, <1>2, <2>1, <2>2, <3>1
  <2>5. \A v \in Valid : v <= k - 1 => v <= k
    BY <1>1
  <2>. QED
    BY <1>3, <2>1, <2>3, <2>4, <2>5 DEF MadeOf
<1>6. CASE k \in Valid /\ Len(s) < MaxSampled
  <2>. DEFINE t == Append(s, Locs[k])
  <2>1. push(s, Locs[k]) = t /\ Place(k) = n + 1 /\ Locs[k] \in Urls
    BY <1>0, <1>1, <1>2, <1>6 DEF push
  <2>2. Len(s) = n /\ n < MaxSampled
    BY <1>0, <1>2, <1>3, <1>6
  <2>3. /\ t \in Seq(Urls) /\ Len(t) = n + 1 /\ t[n + 1] = Locs[k]
        /\ DOMAIN s = 1..n /\ DOMAIN t = 1..(n + 1)
        /\ \A i \in 1..n : t[i] = s[i]
    BY <1>3, <2>1, <2>2
  <2>. HIDE DEF t
  <2>4. ASSUME NEW v \in Valid, v <= k, Place(v) <= MaxSampled
        PROVE  Place(v) \in DOMAIN t /\ t[Place(v)] = Locs[v]
    <3>1. CASE v = k
      BY <1>2, <2>1, <2>3, <3>1
    <3>2. CASE v # k
      <4>1. v <= k - 1
        BY <1>1, <2>4, <3>2
      <4>2. Place(v) \in 1..n /\ s[Place(v)] = Locs[v]
        BY <1>3, <2>3, <2>4, <4>1
      <4>. QED
        BY <1>2, <2>3, <4>2
    <3>. QED
      BY <3>1, <3>2
  <2>5. ASSUME NEW i \in DOMAIN t
        PROVE  \E v \in Valid : v <= k /\ Place(v) = i
    <3>1. CASE i = n + 1
      BY <1>6, <2>1, <3>1
    <3>2. CASE i # n + 1
      <4>1. i \in DOMAIN s
        BY <1>2, <2>3, <3>2
      <4>2. PICK v \in Valid : v <= k - 1 /\ Place(v) = i
        BY <1>3, <4>1
      <4>3. v <= k
        BY <1>1, <4>2
      <4>. QED
        BY <4>2, <4>3
    <3>. QED
      BY <3>1, <3>2
  <2>6. Len(t) = IF Place(k) <= MaxSampled THEN Place(k) ELSE MaxSampled
    BY <1>0, <1>2, <2>1, <2>2, <2>3
  <2>7. MadeOf(t, k)
    BY <2>3, <2>4, <2>5, <2>6 DEF MadeOf
  <2>. QED
    BY <2>1, <2>7
<1>. QED
  BY <1>4, <1>5, <1>6

(* The sample is made of the first MaxSampled entries that are URLs.       *)
LEMMA SampleMade == MadeOf(Sample, Len(Locs))
<1>1. PICK S : Samples(S) /\ Sample = S[Len(Locs)]
  BY SampleIsLast
<1>2. Len(Locs) \in Nat /\ MaxSampled \in Nat /\ DOMAIN Locs = 1..Len(Locs)
  BY SitemapAssumption
<1>. DEFINE Bad == {k \in 0..Len(Locs) : ~MadeOf(S[k], k)}
<1>. SUFFICES ASSUME Bad # {} PROVE FALSE
  BY <1>1, <1>2
<1>3. PICK m \in Bad : \A k \in Bad : m <= k
  <2>1. Bad \in SUBSET Nat
    BY <1>2
  <2>. HIDE DEF Bad
  <2>. QED
    BY <2>1, LeastExists
<1>4. CASE m = 0
  <2>1. S[0] = <<>> /\ Place(0) = 0 /\ DOMAIN <<>> = {}
    BY <1>1, PlaceGrows DEF Samples
  <2>2. \A v \in Valid : ~(v <= 0)
    BY <1>2 DEF Valid
  <2>3. MadeOf(S[0], 0)
    BY <1>2, <2>1, <2>2 DEF MadeOf
  <2>. QED
    BY <1>3, <1>4, <2>3
<1>5. CASE m # 0
  <2>1. m \in 1..Len(Locs) /\ m - 1 \in 0..Len(Locs) /\ m - 1 \notin Bad
    BY <1>2, <1>3, <1>5
  <2>2. MadeOf(S[m - 1], m - 1)
    BY <2>1
  <2>3. MadeOf(S[m], m)
    BY <1>1, <2>1, <2>2, PushMakes DEF Samples
  <2>. QED
    BY <1>3, <2>3
<1>. QED
  BY <1>4, <1>5

(* The entries that deserve a finding, told by their places in the sample. *)
LEMMA DeadOfSample ==
    /\ Sample \in Seq(Urls)
    /\ DeadEntries = {i \in DOMAIN Sample : Verdict(Sample[i]) # "ok"}
<1>1. /\ Sample \in Seq(Urls)
      /\ \A v \in Valid : v <= Len(Locs) /\ Place(v) <= MaxSampled =>
            Place(v) \in DOMAIN Sample /\ Sample[Place(v)] = Locs[v]
      /\ \A i \in DOMAIN Sample : \E v \in Valid : v <= Len(Locs) /\ Place(v) = i
      /\ Len(Sample) = IF Place(Len(Locs)) <= MaxSampled THEN Place(Len(Locs)) ELSE MaxSampled
  BY SampleMade DEF MadeOf
<1>2. \A v \in Valid : v <= Len(Locs)
  BY SitemapAssumption DEF Valid
<1>3. \A i \in DOMAIN Sample : i <= MaxSampled
  <2>1. Place(Len(Locs)) \in Int \/ Len(Sample) = MaxSampled
    BY <1>1
  <2>2. Len(Sample) \in Nat /\ DOMAIN Sample = 1..Len(Sample) /\ MaxSampled \in Nat
    BY <1>1, SitemapAssumption
  <2>3. Len(Sample) <= MaxSampled
    BY <1>1, <2>2
  <2>. QED
    BY <2>2, <2>3
<1>4. DeadEntries = {Place(v) : v \in {k \in Valid : Place(k) <= MaxSampled /\ Verdict(Locs[k]) # "ok"}}
  BY DEF DeadEntries, Valid, Place
<1>5. ASSUME NEW i \in DOMAIN Sample
      PROVE  \E v \in Valid : Place(v) = i /\ Place(v) <= MaxSampled /\ Sample[i] = Locs[v]
  BY <1>1, <1>3
<1>6. \A v \in Valid : Place(v) <= MaxSampled =>
         Place(v) \in DOMAIN Sample /\ Sample[Place(v)] = Locs[v]
  BY <1>1, <1>2
<1>. HIDE DEF Place
<1>. QED
  BY <1>1, <1>4, <1>5, <1>6

-----------------------------------------------------------------------------
(***************************************************************************)
(* The audits of a page, the sitemap first.                                *)
(***************************************************************************)

(* Whatever the sitemap audits do, the link audits are those of LinkProbe. *)
LEMMA SiteStepProbes ==
    ASSUME [SiteNext]_all
    PROVE  [Next]_vars
<1>0. CASE UNCHANGED all
  BY <1>0 DEF all
<1>1. ASSUME NEW p \in Pages, Advance(p) \/ DropEarly(p) PROVE [Next]_vars
  BY <1>1
  DEF Advance, Resolve, FlawedSitemap, SoundSitemap, SampleDone, StartLinks, DropEarly, Next
<1>2. ASSUME NEW p \in Pages, NEW i \in DOMAIN loc[p], LocStep(p, i) PROVE [Next]_vars
  BY <1>2 DEF LocStep, SendLocHead, LocHeadAnswered, LocGetAnswered
<1>3. CASE LinkStep
  BY <1>3 DEF LinkStep, Next
<1>. QED
  BY <1>0, <1>1, <1>2, <1>3 DEF SiteNext

(* What is proved of the link audits holds of those that follow a sitemap  *)
(* audit.                                                                  *)
THEOREM TheLinksAreProbed == SiteSpec => Spec
<1>1. SiteInit => Init
  BY DEF SiteInit
<1>2. [SiteNext]_all => [Next]_vars
  BY SiteStepProbes
<1>. QED
  BY <1>1, <1>2, PTL DEF SiteSpec, Spec

(* So a worker's link audit is exact whatever its sitemap audit was.       *)
THEOREM TheSiteFindingsAreExact == SiteSpec => []FindingsExact
  BY TheLinksAreProbed, FindingsAreExact, PTL

(* The sitemap that is there.                                              *)
Kind == IF named THEN sitemap.named ELSE sitemap.fallback

(* An audit has found nothing yet, or a flaw of the sitemap, or it holds a *)
(* sample and the findings on the entries that are judged.                 *)
Nothing(p) == loc[p] = <<>> /\ faults[p] = {}

Flawed(p) == loc[p] = <<>> /\ Kind \in {"missing", "malformed"} /\ faults[p] = {Kind}

NoSample == Kind = "index" \/ (Kind = "urlset" /\ ~Validate)

Sampled(p) ==
    /\ Validate /\ Kind = "urlset"
    /\ loc[p] \in [DOMAIN Sample -> {"queued", "head", "get", "judged"}]
    /\ \A i \in DOMAIN Sample : loc[p][i] = "get" => NeedsGet(server[Sample[i]].head)
    /\ faults[p] = {i \in DOMAIN Sample : loc[p][i] = "judged" /\ Verdict(Sample[i]) # "ok"}

PageInv(p) ==
    /\ stage[p] = "idle" => Nothing(p)
    /\ stage[p] = "fetch" => Nothing(p) /\ Found(p) = Kind
    /\ stage[p] = "sample" => Sampled(p) \/ (Nothing(p) /\ NoSample)
    /\ stage[p] = "through" =>
          \/ Flawed(p)
          \/ Sampled(p) /\ \A i \in DOMAIN Sample : loc[p][i] = "judged"
          \/ Nothing(p) /\ NoSample
    /\ stage[p] = "dropped" => Nothing(p) \/ Sampled(p)

SiteInv ==
    /\ named \in BOOLEAN /\ sitemap \in SiteMaps
    /\ stage \in [Pages -> {"idle", "fetch", "sample", "through", "dropped"}]
    /\ DOMAIN target = Pages /\ DOMAIN loc = Pages /\ DOMAIN faults = Pages
    /\ \A p \in Pages : PageInv(p)

(* A page that is left alone is as it was.                                 *)
LEMMA PageLeft ==
    ASSUME NEW p, PageInv(p), stage'[p] = stage[p], loc'[p] = loc[p],
           faults'[p] = faults[p], target'[p] = target[p],
           UNCHANGED <<server, named, sitemap>>
    PROVE  PageInv(p)'
<1>1. /\ Kind' = Kind /\ Found(p)' = Found(p) /\ NoSample' = NoSample
      /\ Nothing(p)' = Nothing(p) /\ Flawed(p)' = Flawed(p)
  BY DEF Kind, Found, NoSample, Nothing, Flawed
<1>2. Sampled(p) => Sampled(p)'
  BY DEF Sampled, Kind, Verdict
<1>. QED
  BY <1>1, <1>2 DEF PageInv

(* Only the audit of p moves, and it moves to where PageInv allows it.     *)
LEMMA OnePageMoves ==
    ASSUME SiteInv, NEW p \in Pages, UNCHANGED <<server, named, sitemap>>,
           NEW s \in {"idle", "fetch", "sample", "through", "dropped"},
           stage' = [stage EXCEPT ![p] = s],
           DOMAIN target' = Pages, DOMAIN loc' = Pages, DOMAIN faults' = Pages,
           \A x \in Pages \ {p} :
              loc'[x] = loc[x] /\ faults'[x] = faults[x] /\ target'[x] = target[x],
           PageInv(p)'
    PROVE  SiteInv'
<1>1. ASSUME NEW x \in Pages, x # p PROVE PageInv(x)'
  <2>1. stage'[x] = stage[x] /\ PageInv(x)
    BY <1>1 DEF SiteInv
  <2>. QED
    BY <1>1, <2>1, PageLeft
<1>2. stage' \in [Pages -> {"idle", "fetch", "sample", "through", "dropped"}]
  BY DEF SiteInv
<1>. QED
  BY <1>1, <1>2 DEF SiteInv

(* The answer to an entry, to GET if HEAD said nothing, is what its        *)
(* verdict is made of.                                                     *)
LEMMA EntryVerdict ==
    ASSUME TypeOK, NEW i \in DOMAIN Sample
    PROVE  /\ ~NeedsGet(server[Sample[i]].head) =>
                (Verdict(Sample[i]) = "ok" <=> server[Sample[i]].head = "ok")
           /\ NeedsGet(server[Sample[i]].head) =>
                (Verdict(Sample[i]) = "ok" <=> server[Sample[i]].get = "ok")
<1>1. Sample[i] \in Urls
  BY DeadOfSample
<1>2. server[Sample[i]].head \in Answers /\ server[Sample[i]].get \in Answers
  BY <1>1, AnswersTyped
<1>3. \A a \in Answers : Class(a) = "ok" <=> a = "ok"
  BY DEF Answers, Class
<1>. QED
  BY <1>2, <1>3 DEF Verdict

(* An entry is judged by the answer that its verdict is made of.           *)
LEMMA EntryJudged ==
    ASSUME SiteInv, NEW p \in Pages, NEW i \in DOMAIN loc[p], NEW answer,
           stage[p] = "sample", JudgeLoc(p, i, answer),
           i \in DOMAIN Sample => (Verdict(Sample[i]) = "ok" <=> answer = "ok"),
           loc[p][i] # "judged",
           UNCHANGED <<server, named, sitemap, stage, target>>
    PROVE  SiteInv'
<1>1. Sampled(p)
  BY DEF SiteInv, PageInv, Nothing
<1>2. i \in DOMAIN Sample /\ DOMAIN loc = Pages /\ DOMAIN faults = Pages
  BY <1>1 DEF SiteInv, Sampled
<1>3. loc'[p] = [loc[p] EXCEPT ![i] = "judged"]
  BY <1>2 DEF JudgeLoc
<1>4. faults'[p] = IF answer = "ok" THEN faults[p] ELSE faults[p] \cup {i}
  BY <1>2 DEF JudgeLoc
<1>5. Sampled(p)'
  <2>1. /\ Validate' /\ Kind' = "urlset"
        /\ loc'[p] \in [DOMAIN Sample -> {"queued", "head", "get", "judged"}]
        /\ \A j \in DOMAIN Sample : loc'[p][j] = IF j = i THEN "judged" ELSE loc[p][j]
    BY <1>1, <1>2, <1>3 DEF Sampled, Kind
  <2>2. \A j \in DOMAIN Sample : loc'[p][j] = "get" => NeedsGet(server'[Sample[j]].head)
    BY <1>1, <2>1 DEF Sampled
  <2>3. \A j \in DOMAIN Sample : Verdict(Sample[j])' = Verdict(Sample[j])
    BY DEF Verdict
  <2>4. faults'[p] = {j \in DOMAIN Sample : loc'[p][j] = "judged" /\ Verdict(Sample[j]) # "ok"}
    BY <1>1, <1>2, <1>4, <2>1 DEF Sampled
  <2>. QED
    BY <2>1, <2>2, <2>3, <2>4 DEF Sampled
<1>6. PageInv(p)' /\ stage' = [stage EXCEPT ![p] = "sample"]
  BY <1>5 DEF PageInv, SiteInv
<1>7. /\ DOMAIN target' = Pages /\ DOMAIN loc' = Pages /\ DOMAIN faults' = Pages
      /\ \A x \in Pages \ {p} :
            loc'[x] = loc[x] /\ faults'[x] = faults[x] /\ target'[x] = target[x]
  BY DEF JudgeLoc, SiteInv
<1>. QED
  BY <1>6, <1>7, OnePageMoves

LEMMA SiteInvKept ==
    ASSUME IInv, SiteInv, [SiteNext]_all
    PROVE  SiteInv'
<1>. TypeOK
  BY DEF IInv
<1>s. /\ named \in BOOLEAN /\ sitemap \in SiteMaps
      /\ stage \in [Pages -> {"idle", "fetch", "sample", "through", "dropped"}]
      /\ DOMAIN target = Pages /\ DOMAIN loc = Pages /\ DOMAIN faults = Pages
      /\ \A p \in Pages : PageInv(p)
  BY DEF SiteInv
<1>k. Kind \in Kinds
  BY <1>s, SitemapAssumption DEF Kind
<1>0. ASSUME UNCHANGED <<server, named, sitemap, stage, target, loc, faults>> PROVE SiteInv'
  <2>1. \A p \in Pages : PageInv(p)'
    BY <1>0, <1>s, PageLeft
  <2>. QED
    BY <1>0, <1>s, <2>1 DEF SiteInv
<1>1. ASSUME NEW p \in Pages, Resolve(p) PROVE SiteInv'
  <2>1. /\ stage[p] = "idle" /\ stage' = [stage EXCEPT ![p] = "fetch"]
        /\ UNCHANGED <<server, named, sitemap, loc, faults>>
    BY <1>1 DEF Resolve, vars
  <2>2. target' = [target EXCEPT ![p] = IF named THEN "named" ELSE "fallback"]
    BY <1>1, <1>s DEF Resolve, resolve_sitemap_url
  <2>3. Found(p)' = Kind' /\ Kind' = Kind
    BY <1>s, <2>1, <2>2, SitemapAssumption DEF Found, Kind
  <2>4. Nothing(p)'
    BY <1>s, <2>1 DEF PageInv, Nothing
  <2>5. PageInv(p)'
    BY <1>s, <2>1, <2>3, <2>4 DEF PageInv
  <2>. QED
    BY <1>s, <2>1, <2>2, <2>5, OnePageMoves
<1>2. ASSUME NEW p \in Pages, FlawedSitemap(p) PROVE SiteInv'
  <2>1. /\ stage[p] = "fetch" /\ Found(p) \in {"missing", "malformed"}
        /\ faults' = [faults EXCEPT ![p] = {Found(p)}]
        /\ stage' = [stage EXCEPT ![p] = "through"]
        /\ UNCHANGED <<server, named, sitemap, target, loc>>
    BY <1>2 DEF FlawedSitemap, vars
  <2>2. Found(p) = Kind /\ loc[p] = <<>>
    BY <1>s, <2>1 DEF PageInv, Nothing
  <2>3. Flawed(p)'
    BY <1>s, <2>1, <2>2 DEF Flawed, Kind
  <2>4. PageInv(p)'
    BY <1>s, <2>1, <2>3 DEF PageInv
  <2>. QED
    BY <1>s, <2>1, <2>4, OnePageMoves
<1>3. ASSUME NEW p \in Pages, SoundSitemap(p) PROVE SiteInv'
  <2>1. /\ stage[p] = "fetch" /\ Found(p) \in {"index", "urlset"}
        /\ stage' = [stage EXCEPT ![p] = "sample"]
        /\ UNCHANGED <<server, named, sitemap, target, faults>>
        /\ loc' = [loc EXCEPT ![p] =
             IF Validate /\ Found(p) = "urlset" THEN [i \in DOMAIN Sample |-> "queued"] ELSE <<>>]
    BY <1>3 DEF SoundSitemap, vars
  <2>2. Found(p) = Kind /\ faults[p] = {} /\ Kind' = Kind
    BY <1>s, <2>1 DEF PageInv, Nothing, Kind
  <2>3. ASSUME Validate /\ Kind = "urlset" PROVE PageInv(p)'
    <3>1. loc'[p] = [i \in DOMAIN Sample |-> "queued"] /\ faults'[p] = {}
      BY <1>s, <2>1, <2>2, <2>3
    <3>2. Sampled(p)'
      BY <2>2, <2>3, <3>1 DEF Sampled
    <3>. QED
      BY <1>s, <2>1, <3>2 DEF PageInv
  <2>4. ASSUME ~(Validate /\ Kind = "urlset") PROVE PageInv(p)'
    <3>1. loc'[p] = <<>> /\ faults'[p] = {}
      BY <1>s, <2>1, <2>2, <2>4
    <3>2. Nothing(p)' /\ NoSample'
      BY <2>1, <2>2, <2>4, <3>1, SitemapAssumption DEF Nothing, NoSample
    <3>. QED
      BY <1>s, <2>1, <3>2 DEF PageInv
  <2>5. PageInv(p)' => SiteInv'
    BY <1>s, <2>1, OnePageMoves
  <2>. QED
    BY <2>3, <2>4, <2>5
<1>4. ASSUME NEW p \in Pages, SampleDone(p) PROVE SiteInv'
  <2>1. /\ stage[p] = "sample" /\ stage' = [stage EXCEPT ![p] = "through"]
        /\ \A i \in DOMAIN loc[p] : loc[p][i] = "judged"
        /\ UNCHANGED <<server, named, sitemap, target, loc, faults>>
    BY <1>4 DEF SampleDone, vars
  <2>2. Nothing(p)' = Nothing(p) /\ NoSample' = NoSample /\ (Sampled(p) => Sampled(p)')
    BY <2>1 DEF Nothing, NoSample, Sampled, Kind, Verdict
  <2>3. Sampled(p) => \A i \in DOMAIN Sample : loc'[p][i] = "judged"
    BY <2>1 DEF Sampled
  <2>4. PageInv(p)'
    BY <1>s, <2>1, <2>2, <2>3 DEF PageInv
  <2>. QED
    BY <1>s, <2>1, <2>4, OnePageMoves
<1>5. ASSUME NEW p \in Pages, DropEarly(p) PROVE SiteInv'
  <2>1. /\ stage[p] \in {"idle", "fetch", "sample"} /\ stage' = [stage EXCEPT ![p] = "dropped"]
        /\ UNCHANGED <<server, named, sitemap, target, loc, faults>>
    BY <1>5 DEF DropEarly, vars
  <2>2. Nothing(p)' = Nothing(p) /\ (Sampled(p) => Sampled(p)')
    BY <2>1 DEF Nothing, Sampled, Kind, Verdict
  <2>3. PageInv(p)'
    BY <1>s, <2>1, <2>2 DEF PageInv
  <2>. QED
    BY <1>s, <2>1, <2>3, OnePageMoves
<1>6. ASSUME NEW p \in Pages, StartLinks(p) PROVE SiteInv'
  BY <1>0, <1>6 DEF StartLinks, Start, sitevars
<1>7. CASE LinkStep
  <2>1. UNCHANGED <<server, named, sitemap, stage, target, loc, faults>>
    BY <1>7
    DEF LinkStep, sitevars, Finish, Drop, Task, SendHead, HeadAnswered, FallBack, GetAnswered, Join
  <2>. QED
    BY <1>0, <2>1
<1>8. ASSUME NEW p \in Pages, NEW i \in DOMAIN loc[p], SendLocHead(p, i) PROVE SiteInv'
  <2>1. /\ stage[p] = "sample" /\ loc' = [loc EXCEPT ![p][i] = "head"] /\ loc[p][i] = "queued"
        /\ UNCHANGED <<server, named, sitemap, stage, target, faults>>
    BY <1>8 DEF SendLocHead, vars
  <2>2. Sampled(p)
    BY <1>s, <2>1 DEF PageInv, Nothing
  <2>3. /\ i \in DOMAIN Sample /\ Kind' = Kind
        /\ loc'[p] \in [DOMAIN Sample -> {"queued", "head", "get", "judged"}]
        /\ \A j \in DOMAIN Sample : loc'[p][j] = IF j = i THEN "head" ELSE loc[p][j]
    BY <1>s, <2>1, <2>2 DEF Sampled, Kind
  <2>4. \A j \in DOMAIN Sample : Verdict(Sample[j])' = Verdict(Sample[j])
    BY <2>1 DEF Verdict
  <2>5. Sampled(p)'
    BY <2>1, <2>2, <2>3, <2>4 DEF Sampled
  <2>6. PageInv(p)' /\ stage' = [stage EXCEPT ![p] = "sample"]
    BY <1>s, <2>1, <2>5 DEF PageInv
  <2>. QED
    BY <1>s, <2>1, <2>6, OnePageMoves
<1>9. ASSUME NEW p \in Pages, NEW i \in DOMAIN loc[p], LocHeadAnswered(p, i) PROVE SiteInv'
  <2>. DEFINE answer == server[Sample[i]].head
  <2>1. /\ stage[p] = "sample" /\ loc[p][i] = "head"
        /\ UNCHANGED <<server, named, sitemap, stage, target>>
        /\ IF NeedsGet(answer) THEN loc' = [loc EXCEPT ![p][i] = "get"] /\ UNCHANGED faults
                               ELSE JudgeLoc(p, i, answer)
    BY <1>9 DEF LocHeadAnswered, vars, LocNeedsGet, NeedsGet
  <2>2. Sampled(p)
    BY <1>s, <2>1 DEF PageInv, Nothing
  <2>3. CASE NeedsGet(answer)
    <3>1. loc' = [loc EXCEPT ![p][i] = "get"] /\ UNCHANGED faults
      BY <2>1, <2>3
    <3>2. /\ i \in DOMAIN Sample /\ Kind' = Kind
          /\ loc'[p] \in [DOMAIN Sample -> {"queued", "head", "get", "judged"}]
          /\ \A j \in DOMAIN Sample : loc'[p][j] = IF j = i THEN "get" ELSE loc[p][j]
      BY <1>s, <2>1, <2>2, <3>1 DEF Sampled, Kind
    <3>3. \A j \in DOMAIN Sample : Verdict(Sample[j])' = Verdict(Sample[j])
      BY <2>1 DEF Verdict
    <3>4. \A j \in DOMAIN Sample : loc'[p][j] = "get" => NeedsGet(server'[Sample[j]].head)
      BY <2>1, <2>2, <2>3, <3>2 DEF Sampled
    <3>5. faults'[p] = {j \in DOMAIN Sample : loc'[p][j] = "judged" /\ Verdict(Sample[j])' # "ok"}
      BY <2>1, <2>2, <3>1, <3>2, <3>3 DEF Sampled
    <3>6. Sampled(p)'
      BY <2>2, <3>2, <3>4, <3>5 DEF Sampled
    <3>7. PageInv(p)' /\ stage' = [stage EXCEPT ![p] = "sample"]
      BY <1>s, <2>1, <3>6 DEF PageInv
    <3>. QED
      BY <1>s, <2>1, <3>1, <3>7, OnePageMoves
  <2>4. CASE ~NeedsGet(answer)
    BY <2>1, <2>4, EntryJudged, EntryVerdict
  <2>. QED
    BY <2>3, <2>4
<1>10. ASSUME NEW p \in Pages, NEW i \in DOMAIN loc[p], LocGetAnswered(p, i) PROVE SiteInv'
  <2>1. /\ stage[p] = "sample" /\ loc[p][i] = "get"
        /\ JudgeLoc(p, i, server[Sample[i]].get)
        /\ UNCHANGED <<server, named, sitemap, stage, target>>
    BY <1>10 DEF LocGetAnswered, vars
  <2>2. Sampled(p)
    BY <1>s, <2>1 DEF PageInv, Nothing
  <2>3. i \in DOMAIN Sample /\ NeedsGet(server[Sample[i]].head)
    BY <2>1, <2>2 DEF Sampled
  <2>. QED
    BY <2>1, <2>3, EntryJudged, EntryVerdict
<1>11. CASE UNCHANGED all
  BY <1>0, <1>11 DEF all, vars, sitevars
<1>. QED
  BY <1>1, <1>2, <1>3, <1>4, <1>5, <1>6, <1>7, <1>8, <1>9, <1>10, <1>11
  DEF SiteNext, Advance, LocStep

LEMMA SiteInitially == SiteInit => SiteInv
<1>. SUFFICES ASSUME SiteInit PROVE SiteInv
  OBVIOUS
<1>1. \A p \in Pages : PageInv(p)
  BY DEF SiteInit, PageInv, Nothing
<1>. QED
  BY <1>1 DEF SiteInit, SiteInv

LEMMA SiteInductive == SiteSpec => [](IInv /\ SiteInv)
<1>1. SiteSpec => []IInv
  BY TheLinksAreProbed, Inductive, PTL
<1>2. IInv /\ SiteInv /\ [SiteNext]_all => SiteInv'
  BY SiteInvKept
<1>. QED
  BY <1>1, <1>2, SiteInitially, PTL DEF SiteSpec

(* A sitemap audit that is through says of the sitemap what is so, and of  *)
(* the sample just the entries that are dead; before that, nothing that is *)
(* not so.                                                                 *)
THEOREM TheSampleIsJudged == SiteSpec => []SampleJudged
<1>1. IInv /\ SiteInv => SampleJudged
  <2>. SUFFICES ASSUME IInv, SiteInv, NEW p \in Pages
                PROVE  /\ faults[p] \subseteq DeservedFaults(p)
                       /\ stage[p] = "through" => faults[p] = DeservedFaults(p)
    BY DEF SampleJudged
  <2>0. PageInv(p) /\ stage[p] \in {"idle", "fetch", "sample", "through", "dropped"}
    BY DEF SiteInv
  <2>1. DeservedFaults(p) = IF Kind \in {"missing", "malformed"} THEN {Kind}
                            ELSE IF Kind = "urlset" /\ Validate THEN DeadEntries ELSE {}
    <3>1. Kind \in Kinds
      BY SitemapAssumption DEF SiteInv, Kind
    <3>. QED
      BY <3>1 DEF DeservedFaults, Kind, Kinds
  <2>2. Sampled(p) => faults[p] \subseteq DeservedFaults(p)
    BY <2>1, DeadOfSample DEF Sampled
  <2>3. Sampled(p) /\ (\A i \in DOMAIN Sample : loc[p][i] = "judged") =>
           faults[p] = DeservedFaults(p)
    BY <2>1, DeadOfSample DEF Sampled
  <2>4. Flawed(p) => faults[p] = DeservedFaults(p)
    BY <2>1 DEF Flawed
  <2>5. Nothing(p) => faults[p] \subseteq DeservedFaults(p)
    BY DEF Nothing
  <2>6. Nothing(p) /\ NoSample => faults[p] = DeservedFaults(p)
    BY <2>1 DEF Nothing, NoSample
  <2>. QED
    BY <2>0, <2>2, <2>3, <2>4, <2>5, <2>6 DEF PageInv
<1>. QED
  BY <1>1, SiteInductive, PTL

(* The two auditors never disagree about a URL.                            *)
THEOREM TheAuditorsAgree == SiteSpec => []AuditorsAgree
<1>1. IInv /\ SiteInv /\ FindingsExact => AuditorsAgree
  <2>. SUFFICES ASSUME IInv, SiteInv, FindingsExact, NEW p \in Pages, NEW q \in Pages,
                       NEW i \in DOMAIN loc[p], loc[p][i] = "judged",
                       audit[q] = "done", Sample[i] \in Links[q]
                PROVE  i \in faults[p] <=> \E c \in Outcomes : <<Sample[i], c>> \in findings[q]
    BY DEF AuditorsAgree
  <2>1. Sampled(p)
    BY DEF SiteInv, PageInv, Nothing, Flawed
  <2>2. i \in DOMAIN Sample /\ Sample[i] \in Urls
    BY <2>1, DeadOfSample DEF Sampled
  <2>3. i \in faults[p] <=> Verdict(Sample[i]) # "ok"
    BY <2>1, <2>2 DEF Sampled
  <2>4. Verdict(Sample[i]) \in Outcomes
    BY <2>2, VerdictIsOutcome DEF IInv
  <2>5. findings[q] = Deserved(q)
    BY DEF FindingsExact
  <2>6. \A c : <<Sample[i], c>> \in findings[q] <=>
                 c \in Outcomes \ {"ok"} /\ c = Verdict(Sample[i])
    BY <2>5 DEF Deserved
  <2>. QED
    BY <2>3, <2>4, <2>6
<1>. QED
  BY <1>1, SiteInductive, TheSiteFindingsAreExact, PTL
=============================================================================

------------------------ MODULE RobotsCache_proofs ------------------------
(***************************************************************************)
(* Proofs about RobotsCache, for any workers, pages, hosts and files.      *)
(*                                                                         *)
(* The permit of a cell is what holds everything together: who fills a     *)
(* cell has its permit, a permit is given out only for an empty cell, and  *)
(* a request counts for a set cell, a permit or a lost initialiser.        *)
(***************************************************************************)
EXTENDS RobotsCache, TLAPS

Filling == {"asking", "registering"}

(* Who fills a cell has its permit, and who has one fills an empty cell.   *)
PermitInv ==
    /\ \A w \in Workers : pc[w] \in Filling => permit[Host(w)] = w
    /\ \A h \in Hosts, w \in Workers :
          permit[h] = w => pc[w] \in Filling /\ Host(w) = h /\ cell[h] = Unset

(* Every request has filled the cell, is on its way or was lost.           *)
AskedInv ==
    \A h \in Hosts :
       asked[h] = lost[h] + (IF cell[h] # Unset \/ permit[h] # Nobody THEN 1 ELSE 0)

(* A worker past the lookup has a set cell, and an open page past Decide.  *)
VerdictInv ==
    \A w \in Workers :
       /\ pc[w] \in {"decide", "fetch", "audit"} => cell[Host(w)] # Unset
       /\ pc[w] \in {"fetch", "audit"} => ~RefusedNow(w)

IInv == TypeOK /\ PermitInv /\ AskedInv /\ DelaysKnown /\ VerdictInv

(* Each action keeps every variable in its type.                          *)
LEMMA TypeOKKept ==
    ASSUME IInv, [Next]_vars
    PROVE  TypeOK'
<1>0. CASE UNCHANGED vars
  BY <1>0 DEF IInv, TypeOK, vars, Places, Host, Entries
<1>. SUFFICES ASSUME NEW w \in Workers, Visit(w) \/ Step(w) \/ Abort(w)
               PROVE  TypeOK'
  BY <1>0 DEF Next
<1>1. CASE Visit(w)
  BY <1>1, CacheAssumption DEF Visit, IInv, TypeOK, Goto, Places, Host, Entries
<1>2. CASE ReadCell(w)
  BY <1>2, CacheAssumption DEF ReadCell, IInv, TypeOK, Goto, Places, Host, Entries
<1>3. CASE StartInit(w)
  BY <1>3, CacheAssumption DEF StartInit, IInv, TypeOK, Goto, Places, Host, Entries
<1>4. CASE Answer(w)
  BY <1>4, CacheAssumption DEF Answer, IInv, TypeOK, Goto, Places, Host, Entries
<1>5. CASE Register(w)
  BY <1>5, CacheAssumption DEF Register, IInv, TypeOK, ToRegister, Places, Host, Entries
<1>6. CASE SetCell(w)
  BY <1>6, CacheAssumption DEF SetCell, IInv, TypeOK, Goto, ToRegister, Places, Host, Entries
<1>7. CASE Decide(w)
  BY <1>7, CacheAssumption DEF Decide, IInv, TypeOK, Goto, Places, Host, Entries
<1>8. CASE FetchPage(w)
  BY <1>8, CacheAssumption DEF FetchPage, IInv, TypeOK, Goto, Places, Host, Entries
<1>9. CASE AuditRobots(w)
  BY <1>9, CacheAssumption DEF AuditRobots, IInv, TypeOK, Goto, Places, Host, Entries
<1>10. CASE Abort(w)
  BY <1>10, CacheAssumption DEF Abort, IInv, TypeOK, Holds, Places, Host, Entries
<1>. QED
  BY <1>1, <1>2, <1>3, <1>4, <1>5, <1>6, <1>7, <1>8, <1>9, <1>10 DEF Step

(* Only StartInit gives a permit out, of an empty cell nobody fills.      *)
LEMMA PermitInvKept ==
    ASSUME IInv, [Next]_vars
    PROVE  PermitInv'
<1>0. CASE UNCHANGED vars
  BY <1>0 DEF IInv, TypeOK, vars, PermitInv, Host, Filling, Places, Entries
<1>. SUFFICES ASSUME NEW w \in Workers, Visit(w) \/ Step(w) \/ Abort(w)
               PROVE  PermitInv'
  BY <1>0 DEF Next
<1>1. CASE Visit(w)
  BY <1>1, CacheAssumption DEF Visit, IInv, TypeOK, Goto, PermitInv, Host, Filling, Places, Entries
<1>2. CASE ReadCell(w)
  BY <1>2, CacheAssumption DEF ReadCell, IInv, TypeOK, Goto, PermitInv, Host, Filling, Places, Entries
<1>3. CASE StartInit(w)
  BY <1>3, CacheAssumption DEF StartInit, IInv, TypeOK, Goto, PermitInv, Host, Filling, Places, Entries
<1>4. CASE Answer(w)
  BY <1>4, CacheAssumption DEF Answer, IInv, TypeOK, Goto, PermitInv, Host, Filling, Places, Entries
<1>5. CASE Register(w)
  BY <1>5, CacheAssumption DEF Register, IInv, TypeOK, ToRegister, PermitInv, Host, Filling, Places, Entries
<1>6. CASE SetCell(w)
  BY <1>6, CacheAssumption DEF SetCell, IInv, TypeOK, Goto, ToRegister, PermitInv, Host, Filling, Places, Entries
<1>7. CASE Decide(w)
  BY <1>7, CacheAssumption DEF Decide, IInv, TypeOK, Goto, PermitInv, Host, Filling, Places, Entries
<1>8. CASE FetchPage(w)
  BY <1>8, CacheAssumption DEF FetchPage, IInv, TypeOK, Goto, PermitInv, Host, Filling, Places, Entries
<1>9. CASE AuditRobots(w)
  BY <1>9, CacheAssumption DEF AuditRobots, IInv, TypeOK, Goto, PermitInv, Host, Filling, Places, Entries
<1>10. CASE Abort(w)
  BY <1>10, CacheAssumption DEF Abort, IInv, TypeOK, Holds, PermitInv, Host, Filling, Places, Entries
<1>. QED
  BY <1>1, <1>2, <1>3, <1>4, <1>5, <1>6, <1>7, <1>8, <1>9, <1>10 DEF Step

(* A request is made, filled in and lost one at a time.                   *)
LEMMA AskedInvKept ==
    ASSUME IInv, [Next]_vars
    PROVE  AskedInv'
<1>0. CASE UNCHANGED vars
  BY <1>0 DEF IInv, TypeOK, vars, AskedInv, PermitInv, Host, Filling, Places, Entries
<1>. SUFFICES ASSUME NEW w \in Workers, Visit(w) \/ Step(w) \/ Abort(w)
               PROVE  AskedInv'
  BY <1>0 DEF Next
<1>1. CASE Visit(w)
  BY <1>1, CacheAssumption DEF Visit, IInv, TypeOK, Goto, AskedInv, PermitInv, Host, Filling, Places, Entries
<1>2. CASE ReadCell(w)
  BY <1>2, CacheAssumption DEF ReadCell, IInv, TypeOK, Goto, AskedInv, PermitInv, Host, Filling, Places, Entries
<1>3. CASE StartInit(w)
  BY <1>3, CacheAssumption DEF StartInit, IInv, TypeOK, Goto, AskedInv, PermitInv, Host, Filling, Places, Entries
<1>4. CASE Answer(w)
  BY <1>4, CacheAssumption DEF Answer, IInv, TypeOK, Goto, AskedInv, PermitInv, Host, Filling, Places, Entries
<1>5. CASE Register(w)
  BY <1>5, CacheAssumption DEF Register, IInv, TypeOK, ToRegister, AskedInv, PermitInv, Host, Filling, Places, Entries
<1>6. CASE SetCell(w)
  BY <1>6, CacheAssumption DEF SetCell, IInv, TypeOK, Goto, ToRegister, AskedInv, PermitInv, Host, Filling, Places, Entries
<1>7. CASE Decide(w)
  BY <1>7, CacheAssumption DEF Decide, IInv, TypeOK, Goto, AskedInv, PermitInv, Host, Filling, Places, Entries
<1>8. CASE FetchPage(w)
  BY <1>8, CacheAssumption DEF FetchPage, IInv, TypeOK, Goto, AskedInv, PermitInv, Host, Filling, Places, Entries
<1>9. CASE AuditRobots(w)
  BY <1>9, CacheAssumption DEF AuditRobots, IInv, TypeOK, Goto, AskedInv, PermitInv, Host, Filling, Places, Entries
<1>10. CASE Abort(w)
  BY <1>10, CacheAssumption DEF Abort, IInv, TypeOK, Holds, AskedInv, PermitInv, Host, Filling, Places, Entries
<1>. QED
  BY <1>1, <1>2, <1>3, <1>4, <1>5, <1>6, <1>7, <1>8, <1>9, <1>10 DEF Step

(* A cell is set when nothing is left to register.                        *)
LEMMA DelaysKnownKept ==
    ASSUME IInv, [Next]_vars
    PROVE  DelaysKnown'
<1>0. CASE UNCHANGED vars
  BY <1>0 DEF IInv, TypeOK, vars, DelaysKnown, PermitInv, Host, Filling, Places, Entries
<1>. SUFFICES ASSUME NEW w \in Workers, Visit(w) \/ Step(w) \/ Abort(w)
               PROVE  DelaysKnown'
  BY <1>0 DEF Next
<1>1. CASE Visit(w)
  BY <1>1, CacheAssumption DEF Visit, IInv, TypeOK, Goto, DelaysKnown, PermitInv, Host, Filling, Places, Entries
<1>2. CASE ReadCell(w)
  BY <1>2, CacheAssumption DEF ReadCell, IInv, TypeOK, Goto, DelaysKnown, PermitInv, Host, Filling, Places, Entries
<1>3. CASE StartInit(w)
  BY <1>3, CacheAssumption DEF StartInit, IInv, TypeOK, Goto, DelaysKnown, PermitInv, Host, Filling, Places, Entries
<1>4. CASE Answer(w)
  BY <1>4, CacheAssumption DEF Answer, IInv, TypeOK, Goto, DelaysKnown, PermitInv, Host, Filling, Places, Entries
<1>5. CASE Register(w)
  BY <1>5, CacheAssumption DEF Register, IInv, TypeOK, ToRegister, DelaysKnown, PermitInv, Host, Filling, Places, Entries
<1>6. CASE SetCell(w)
  BY <1>6, CacheAssumption DEF SetCell, IInv, TypeOK, Goto, ToRegister, DelaysKnown, PermitInv, Host, Filling, Places, Entries
<1>7. CASE Decide(w)
  BY <1>7, CacheAssumption DEF Decide, IInv, TypeOK, Goto, DelaysKnown, PermitInv, Host, Filling, Places, Entries
<1>8. CASE FetchPage(w)
  BY <1>8, CacheAssumption DEF FetchPage, IInv, TypeOK, Goto, DelaysKnown, PermitInv, Host, Filling, Places, Entries
<1>9. CASE AuditRobots(w)
  BY <1>9, CacheAssumption DEF AuditRobots, IInv, TypeOK, Goto, DelaysKnown, PermitInv, Host, Filling, Places, Entries
<1>10. CASE Abort(w)
  BY <1>10, CacheAssumption DEF Abort, IInv, TypeOK, Holds, DelaysKnown, PermitInv, Host, Filling, Places, Entries
<1>. QED
  BY <1>1, <1>2, <1>3, <1>4, <1>5, <1>6, <1>7, <1>8, <1>9, <1>10 DEF Step

(* A set cell never changes, and Decide lets only open pages pass.        *)
LEMMA VerdictInvKept ==
    ASSUME IInv, [Next]_vars
    PROVE  VerdictInv'
<1>0. CASE UNCHANGED vars
  BY <1>0 DEF IInv, TypeOK, vars, VerdictInv, PermitInv, RefusedNow, Host, Filling, Places, Entries
<1>. SUFFICES ASSUME NEW w \in Workers, Visit(w) \/ Step(w) \/ Abort(w)
               PROVE  VerdictInv'
  BY <1>0 DEF Next
<1>1. CASE Visit(w)
  BY <1>1, CacheAssumption DEF Visit, IInv, TypeOK, Goto, VerdictInv, PermitInv, RefusedNow, Host, Filling, Places, Entries
<1>2. CASE ReadCell(w)
  BY <1>2, CacheAssumption DEF ReadCell, IInv, TypeOK, Goto, VerdictInv, PermitInv, RefusedNow, Host, Filling, Places, Entries
<1>3. CASE StartInit(w)
  BY <1>3, CacheAssumption DEF StartInit, IInv, TypeOK, Goto, VerdictInv, PermitInv, RefusedNow, Host, Filling, Places, Entries
<1>4. CASE Answer(w)
  BY <1>4, CacheAssumption DEF Answer, IInv, TypeOK, Goto, VerdictInv, PermitInv, RefusedNow, Host, Filling, Places, Entries
<1>5. CASE Register(w)
  BY <1>5, CacheAssumption DEF Register, IInv, TypeOK, ToRegister, VerdictInv, PermitInv, RefusedNow, Host, Filling, Places, Entries
<1>6. CASE SetCell(w)
  BY <1>6, CacheAssumption DEF SetCell, IInv, TypeOK, Goto, ToRegister, VerdictInv, PermitInv, RefusedNow, Host, Filling, Places, Entries
<1>7. CASE Decide(w)
  BY <1>7, CacheAssumption DEF Decide, IInv, TypeOK, Goto, VerdictInv, PermitInv, RefusedNow, Host, Filling, Places, Entries
<1>8. CASE FetchPage(w)
  BY <1>8, CacheAssumption DEF FetchPage, IInv, TypeOK, Goto, VerdictInv, PermitInv, RefusedNow, Host, Filling, Places, Entries
<1>9. CASE AuditRobots(w)
  BY <1>9, CacheAssumption DEF AuditRobots, IInv, TypeOK, Goto, VerdictInv, PermitInv, RefusedNow, Host, Filling, Places, Entries
<1>10. CASE Abort(w)
  BY <1>10, CacheAssumption DEF Abort, IInv, TypeOK, Holds, VerdictInv, PermitInv, RefusedNow, Host, Filling, Places, Entries
<1>. QED
  BY <1>1, <1>2, <1>3, <1>4, <1>5, <1>6, <1>7, <1>8, <1>9, <1>10 DEF Step

LEMMA Initially == Init => IInv
BY CacheAssumption
DEF Init, IInv, TypeOK, PermitInv, AskedInv, DelaysKnown, VerdictInv, Filling, Places, Entries

LEMMA Inductive == Spec => []IInv
<1>1. IInv /\ [Next]_vars => IInv'
  BY TypeOKKept, PermitInvKept, AskedInvKept, DelaysKnownKept, VerdictInvKept DEF IInv
<1>. QED
  BY <1>1, Initially, PTL DEF Spec

(* Type correctness of the gate.                                           *)
THEOREM TypeCorrect == Spec => []TypeOK
<1>1. IInv => TypeOK
  BY DEF IInv
<1>. QED
  BY <1>1, Inductive, PTL

(* One request for each host, and one more for each aborted initialiser:   *)
(* OnceCell's promise, kept under cancellation.                            *)
THEOREM OneRequestAtATime == Spec => []SingleFlight
<1>1. IInv => SingleFlight
  BY DEF IInv, TypeOK, AskedInv, SingleFlight
<1>. QED
  BY <1>1, Inductive, PTL

(* The limiter knows the delays of a host before anyone reads its rules.   *)
THEOREM DelaysComeFirst == Spec => []DelaysKnown
<1>1. IInv => DelaysKnown
  BY DEF IInv
<1>. QED
  BY <1>1, Inductive, PTL

(* A page somebody fetches or audits is open under the rules of its host.  *)
THEOREM TheVerdictStands == Spec => []OneVerdict
<1>1. IInv => OneVerdict
  <2>. SUFFICES ASSUME IInv, NEW p \in Judged
                PROVE  /\ cell[HostOf[p]] # Unset
                       /\ cell[HostOf[p]] \in Rules => p \notin Refused[cell[HostOf[p]]]
    BY DEF OneVerdict
  <2>1. PICK w \in Workers : page[w] = p /\ pc[w] \in {"fetch", "audit"}
    BY DEF Judged
  <2>. QED
    BY <2>1 DEF IInv, VerdictInv, RefusedNow, Host
<1>. QED
  BY <1>1, Inductive, PTL
=============================================================================

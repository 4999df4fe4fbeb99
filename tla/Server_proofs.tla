---------------------------- MODULE Server_proofs ----------------------------
(***************************************************************************)
(* Theorems about the two servers an audit of the front end goes through.  *)
(* AuditServer: for any number of jobs and of requests for their events,   *)
(* whatever the audits do and whenever the sweeper comes.  Gateway: for    *)
(* any requests from any addresses, at any times and under any limits.     *)
(***************************************************************************)
EXTENDS AuditServer, Gateway, FiniteSetTheorems, TLAPS

(* How far a job is shows in what it keeps and in what it has sent: no age *)
(* before it is created (the sweeper counts the jobs of the map only), the *)
(* outcome once the pipeline has ended, the terminal event from its store  *)
(* on, and a verdict on the channel only as the last thing sent, after it  *)
(* was stored; the task does not end without having sent it.               *)
JobInv ==
    \A j \in Jobs :
       /\ task[j] = "none" => age[j] = 0
       /\ outcome[j] \in Verdicts <=> task[j] \in {"finished", "stored", "ended"}
       /\ terminal[j] = IF task[j] \in {"stored", "ended"} THEN outcome[j] ELSE None
       /\ \A i \in DOMAIN sent[j] :
             sent[j][i] \in Verdicts => i = Len(sent[j]) /\ sent[j][i] = outcome[j] /\ task[j] = "ended"
       /\ task[j] = "ended" => sent[j] # <<>> /\ sent[j][Len(sent[j])] = outcome[j]

(* A request knows at most the stored verdict of its job, has not been     *)
(* given more than was sent, and a verdict only as the last thing: the     *)
(* scan of a stream that is still open has noted it.                       *)
StreamInv ==
    \A s \in Streams :
       /\ snap[s] # None => snap[s] = terminal[job[s]]
       /\ pos[s] <= Len(sent[job[s]])
       /\ st[s] \in {"new", "asked", "refused"} <=> got[s] = <<>>
       /\ got[s] # <<>> => got[s][1] = "Started"
       /\ \A i \in DOMAIN got[s] :
             got[s][i] \in Verdicts =>
                /\ i = Len(got[s]) /\ (st[s] = "open" => done[s])
                /\ got[s][i] = outcome[job[s]] /\ terminal[job[s]] = outcome[job[s]]

(* What a request has been given since Started is the history of its job   *)
(* from the k-th event on, and an open stream goes on where it stopped.    *)
FromHistory(s, k) ==
    /\ k \in 0 .. Len(History(job[s]))
    /\ st[s] = "open" /\ ~done[s] => pos[s] = k + Len(got[s]) - 1
    /\ \A i \in 2 .. Len(got[s]) :
          /\ k + i - 1 \in DOMAIN History(job[s])
          /\ got[s][i] = History(job[s])[k + i - 1]

NoGap == \A s \in Streams : got[s] # <<>> => \E k \in Nat : FromHistory(s, k)

(* The longer of two sequences: the new entry is the last.                 *)
LEMMA AppendExtends ==
    ASSUME NEW S, NEW s \in Seq(S), NEW e \in S, NEW t, t = Append(s, e)
    PROVE  /\ t \in Seq(S) /\ Len(s) \in Nat /\ Len(t) = Len(s) + 1
           /\ DOMAIN s = 1 .. Len(s) /\ DOMAIN t = 1 .. Len(t)
           /\ t[Len(t)] = e
           /\ \A i \in DOMAIN s : t[i] = s[i]
  OBVIOUS

(* No verdict is the mark of its absence, and none is the first event.     *)
LEMMA VerdictsAreEvents ==
    /\ None \notin Verdicts /\ "PageDone" \notin Verdicts /\ "Started" \notin Verdicts
    /\ Verdicts \subseteq Events \ {"Started"} /\ "PageDone" \in Events \ {"Started"}
  BY ServerAssumption DEF Verdicts, Events

(* The steps of the server that are not a request's.                       *)
JobStep ==
    \/ Sweep
    \/ \E j \in Jobs : StartAudit(j) \/ Task(j)

(* What an event sent does to what was sent before.                        *)
LEMMA SendingAppends ==
    ASSUME TypeOK, NEW j \in Jobs, NEW e \in Events \ {"Started"},
           sent' = [sent EXCEPT ![j] = Append(@, e)]
    PROVE  /\ sent' \in [Jobs -> Seq(Events \ {"Started"})]
           /\ Len(sent'[j]) = Len(sent[j]) + 1 /\ Len(sent[j]) \in Nat
           /\ sent'[j][Len(sent'[j])] = e
           /\ \A i \in DOMAIN sent'[j] : i \in DOMAIN sent[j] \/ i = Len(sent'[j])
           /\ \A i \in DOMAIN sent[j] : sent'[j][i] = sent[j][i]
           /\ \A k \in Jobs : k # j => sent'[k] = sent[k]
<1>1. sent[j] \in Seq(Events \ {"Started"}) /\ sent'[j] = Append(sent[j], e)
  BY DEF TypeOK
<1>2. \A k \in Jobs : k # j => sent'[k] = sent[k]
  BY DEF TypeOK
<1>3. /\ sent'[j] \in Seq(Events \ {"Started"}) /\ Len(sent[j]) \in Nat
      /\ Len(sent'[j]) = Len(sent[j]) + 1
      /\ DOMAIN sent[j] = 1 .. Len(sent[j]) /\ DOMAIN sent'[j] = 1 .. Len(sent'[j])
      /\ sent'[j][Len(sent'[j])] = e
      /\ \A i \in DOMAIN sent[j] : sent'[j][i] = sent[j][i]
  BY <1>1, AppendExtends
<1>4. sent' \in [Jobs -> Seq(Events \ {"Started"})]
  BY <1>3 DEF TypeOK
<1> QED
  BY <1>2, <1>3, <1>4

(* No step breaks the types; that a verdict is stored and sent only when   *)
(* there is one is the business of JobInv.                                 *)
LEMMA TypeKept ==
    ASSUME TypeOK, JobInv, [Next]_vars
    PROVE  TypeOK'
<1> USE DEF TypeOK
<1>1. ASSUME NEW j \in Jobs, StartAudit(j) PROVE TypeOK'
  <2>1. \A k \in jobs' : age[k] <= Ttl /\ task'[k] # "none"
    BY <1>1, ServerAssumption DEF StartAudit, JobInv
  <2> QED
    BY <1>1, <2>1 DEF StartAudit, streamVars, Tasks
<1>2. ASSUME NEW j \in Jobs, Fails(j) \/ EndsWithoutPage(j) \/ ReturnReport(j) PROVE TypeOK'
  BY <1>2 DEF Fails, EndsWithoutPage, ReturnReport, MoveTask, streamVars, Tasks, Verdicts
<1>3. ASSUME NEW j \in Jobs, SendPageDone(j) PROVE TypeOK'
  <2>1. sent' \in [Jobs -> Seq(Events \ {"Started"})]
    BY <1>3, SendingAppends, VerdictsAreEvents DEF SendPageDone
  <2> QED
    BY <1>3, <2>1 DEF SendPageDone, MoveTask, streamVars, Tasks
<1>4. ASSUME NEW j \in Jobs, StoreTerminal(j) PROVE TypeOK'
  BY <1>4 DEF StoreTerminal, MoveTask, streamVars, Tasks
<1>5. ASSUME NEW j \in Jobs, SendTerminal(j) PROVE TypeOK'
  <2>1. outcome[j] \in Events \ {"Started"}
    BY <1>5, VerdictsAreEvents DEF SendTerminal, MoveTask, JobInv
  <2>2. sent' \in [Jobs -> Seq(Events \ {"Started"})]
    BY <1>5, <2>1, SendingAppends DEF SendTerminal
  <2> QED
    BY <1>5, <2>2 DEF SendTerminal, MoveTask, streamVars, Tasks
<1>6. ASSUME Sweep PROVE TypeOK'
  <2>1. age' \in [Jobs -> 0 .. Ttl + 1]
    BY <1>6, ServerAssumption DEF Sweep
  <2>2. jobs' \subseteq jobs /\ \A j \in jobs' : age'[j] <= Ttl
    BY <1>6 DEF Sweep
  <2> QED
    BY <1>6, <2>1, <2>2 DEF Sweep, streamVars
<1>7. ASSUME NEW s \in Streams, Look(s) \/ NotFound(s) \/ ChannelCloses(s) \/ Leave(s) PROVE TypeOK'
  BY <1>7 DEF Look, NotFound, ChannelCloses, Leave, MoveStream, jobVars, Places
<1>8. ASSUME NEW s \in Streams, Replay(s) \/ Subscribe(s) PROVE TypeOK'
  <2>1. "Started" \in Events /\ (snap[s] # None => snap[s] \in Events)
    BY DEF Events
  <2>2. got' \in [Streams -> Seq(Events)]
    <3>1. <<"Started">> \in Seq(Events) /\ (snap[s] # None => <<"Started", snap[s]>> \in Seq(Events))
      BY <2>1
    <3> QED
      BY <1>8, <3>1 DEF Replay, Subscribe
  <2>3. Len(sent[job[s]]) \in Nat
    OBVIOUS
  <2>4. pos' \in [Streams -> Nat]
    BY <1>8, <2>3 DEF Replay, Subscribe
  <2> QED
    BY <1>8, <2>2, <2>4 DEF Replay, Subscribe, MoveStream, jobVars, Places
<1>9. ASSUME NEW s \in Streams, Forward(s) PROVE TypeOK'
  <2> DEFINE e == sent[job[s]][pos[s] + 1]
  <2>1. e \in Events
    BY <1>9 DEF Forward
  <2>2. got' \in [Streams -> Seq(Events)]
    <3>1. /\ got[s] \in Seq(Events)
          /\ got' = [got EXCEPT ![s] = IF done[s] THEN got[s] ELSE Append(got[s], e)]
      BY <1>9 DEF Forward
    <3> HIDE DEF e
    <3>2. Append(got[s], e) \in Seq(Events)
      BY <2>1, <3>1
    <3> QED
      BY <3>1, <3>2
  <2>3. st' \in [Streams -> Places] /\ pos' \in [Streams -> Nat] /\ done' \in [Streams -> BOOLEAN]
    BY <1>9 DEF Forward, MoveStream, Places
  <2> QED
    BY <1>9, <2>2, <2>3 DEF Forward, jobVars
<1>10. CASE UNCHANGED vars
  BY <1>10 DEF vars, jobVars, streamVars
<1> QED
  BY <1>1, <1>2, <1>3, <1>4, <1>5, <1>6, <1>7, <1>8, <1>9, <1>10 DEF Next, Task, Serve, Over

(* Each step of a job moves it on by one, and stores before it sends.      *)
LEMMA JobInvKept ==
    ASSUME TypeOK, JobInv, [Next]_vars
    PROVE  JobInv'
<1> USE DEF JobInv
<1>1. ASSUME NEW j \in Jobs, StartAudit(j) PROVE JobInv'
  BY <1>1 DEF StartAudit, TypeOK
<1>2. ASSUME NEW j \in Jobs, Fails(j) \/ EndsWithoutPage(j) \/ ReturnReport(j) PROVE JobInv'
  <2>1. /\ task[j] \in {"running", "audited"} /\ task' = [task EXCEPT ![j] = "finished"]
        /\ outcome'[j] \in Verdicts /\ \A k \in Jobs : k # j => outcome'[k] = outcome[k]
        /\ terminal' = terminal /\ sent' = sent /\ age' = age
    BY <1>2 DEF Fails, EndsWithoutPage, ReturnReport, MoveTask, Verdicts, TypeOK
  <2> QED
    BY <2>1 DEF TypeOK
<1>3. ASSUME NEW j \in Jobs, SendPageDone(j) PROVE JobInv'
  <2>1. /\ task[j] = "running" /\ task' = [task EXCEPT ![j] = "audited"]
        /\ outcome' = outcome /\ terminal' = terminal /\ age' = age
    BY <1>3 DEF SendPageDone, MoveTask
  <2>2. /\ sent'[j][Len(sent'[j])] = "PageDone"
        /\ \A i \in DOMAIN sent'[j] : i \in DOMAIN sent[j] \/ i = Len(sent'[j])
        /\ \A i \in DOMAIN sent[j] : sent'[j][i] = sent[j][i]
        /\ \A k \in Jobs : k # j => sent'[k] = sent[k]
    BY <1>3, SendingAppends, VerdictsAreEvents DEF SendPageDone
  <2>3. \A i \in DOMAIN sent'[j] : sent'[j][i] \notin Verdicts
    BY <2>1, <2>2, VerdictsAreEvents
  <2> QED
    BY <2>1, <2>2, <2>3 DEF TypeOK
<1>4. ASSUME NEW j \in Jobs, StoreTerminal(j) PROVE JobInv'
  BY <1>4 DEF StoreTerminal, MoveTask, TypeOK
<1>5. ASSUME NEW j \in Jobs, SendTerminal(j) PROVE JobInv'
  <2>1. /\ task[j] = "stored" /\ task' = [task EXCEPT ![j] = "ended"]
        /\ outcome' = outcome /\ terminal' = terminal /\ age' = age
    BY <1>5 DEF SendTerminal, MoveTask
  <2>2. outcome[j] \in Events \ {"Started"}
    BY <2>1, VerdictsAreEvents
  <2>3. /\ sent'[j][Len(sent'[j])] = outcome[j]
        /\ \A i \in DOMAIN sent'[j] : i \in DOMAIN sent[j] \/ i = Len(sent'[j])
        /\ \A i \in DOMAIN sent[j] : sent'[j][i] = sent[j][i]
        /\ \A k \in Jobs : k # j => sent'[k] = sent[k]
    BY <1>5, <2>2, SendingAppends DEF SendTerminal
  <2>4. \A i \in DOMAIN sent[j] : sent[j][i] \notin Verdicts
    BY <2>1
  <2>5. \A i \in DOMAIN sent'[j] :
           sent'[j][i] \in Verdicts => i = Len(sent'[j]) /\ sent'[j][i] = outcome[j]
    BY <2>3, <2>4
  <2>6. sent'[j] # <<>>
    <3>1. Len(sent'[j]) = Len(sent[j]) + 1 /\ Len(sent[j]) \in Nat
      BY <1>5, <2>2, SendingAppends DEF SendTerminal
    <3> QED
      BY <3>1
  <2> QED
    BY <2>1, <2>3, <2>5, <2>6 DEF TypeOK
<1>6. CASE Sweep
  BY <1>6 DEF Sweep, TypeOK
<1>7. ASSUME NEW s \in Streams, Look(s) \/ NotFound(s) \/ Serve(s) \/ Leave(s) PROVE JobInv'
  BY <1>7 DEF Look, NotFound, Serve, Replay, Subscribe, Forward, ChannelCloses, Leave, jobVars
<1>8. CASE UNCHANGED vars
  BY <1>8 DEF vars, jobVars
<1> QED
  BY <1>1, <1>2, <1>3, <1>4, <1>5, <1>6, <1>7, <1>8 DEF Next, Task, Over

(* What a request may rely on while it is not looking: a job never takes a *)
(* verdict back or an event, and never sends one twice in one place.       *)
LEMMA JobsKeepTheirWord ==
    ASSUME TypeOK, JobInv, JobStep
    PROVE  /\ UNCHANGED streamVars
           /\ \A j \in Jobs : terminal[j] # None => terminal'[j] = terminal[j]
           /\ \A j \in Jobs : outcome[j] \in Verdicts => outcome'[j] = outcome[j]
           /\ \A j \in Jobs : Len(sent[j]) <= Len(sent'[j])
<1>1. \A j \in Jobs : Len(sent[j]) \in Nat
  BY DEF TypeOK
<1>2. CASE Sweep
  BY <1>1, <1>2 DEF Sweep
<1>3. ASSUME NEW j \in Jobs, StartAudit(j)
      PROVE  UNCHANGED <<streamVars, terminal, outcome, sent>>
  BY <1>3 DEF StartAudit
<1>4. ASSUME NEW j \in Jobs, Fails(j) \/ EndsWithoutPage(j) \/ ReturnReport(j)
      PROVE  /\ UNCHANGED <<streamVars, terminal, sent>>
             /\ \A k \in Jobs : outcome[k] \in Verdicts => outcome'[k] = outcome[k]
  BY <1>4 DEF Fails, EndsWithoutPage, ReturnReport, MoveTask, TypeOK, JobInv
<1>5. ASSUME NEW j \in Jobs, StoreTerminal(j)
      PROVE  /\ UNCHANGED <<streamVars, outcome, sent>>
             /\ \A k \in Jobs : terminal[k] # None => terminal'[k] = terminal[k]
  BY <1>5 DEF StoreTerminal, MoveTask, TypeOK, JobInv
<1>6. ASSUME NEW j \in Jobs, SendPageDone(j) \/ SendTerminal(j)
      PROVE  /\ UNCHANGED <<streamVars, outcome, terminal>>
             /\ \A k \in Jobs : Len(sent[k]) <= Len(sent'[k])
  <2>1. PICK e \in Events \ {"Started"} : sent' = [sent EXCEPT ![j] = Append(@, e)]
    BY <1>6, VerdictsAreEvents DEF SendPageDone, SendTerminal, MoveTask, JobInv
  <2>2. /\ Len(sent'[j]) = Len(sent[j]) + 1 /\ Len(sent[j]) \in Nat
        /\ \A k \in Jobs : k # j => sent'[k] = sent[k]
    BY <2>1, SendingAppends
  <2>3. \A k \in Jobs : Len(sent[k]) <= Len(sent'[k])
    BY <1>1, <2>2
  <2> QED
    BY <1>6, <2>3 DEF SendPageDone, SendTerminal
<1> QED
  BY <1>1, <1>2, <1>3, <1>4, <1>5, <1>6 DEF JobStep, Task

(* What a request's own step must leave it with, if the rest is as before. *)
LEMMA OthersAsBefore ==
    ASSUME StreamInv, NEW s \in Streams, UNCHANGED <<outcome, terminal, sent, job, snap>>,
           \A r \in Streams : r # s => /\ st'[r] = st[r] /\ got'[r] = got[r]
                                       /\ pos'[r] = pos[r] /\ done'[r] = done[r],
           pos'[s] <= Len(sent[job[s]]),
           st'[s] \in {"open", "ended"}, got'[s] # <<>>, got'[s][1] = "Started",
           \A i \in DOMAIN got'[s] :
              got'[s][i] \in Verdicts =>
                 /\ i = Len(got'[s]) /\ (st'[s] = "open" => done'[s])
                 /\ got'[s][i] = outcome[job[s]] /\ terminal[job[s]] = outcome[job[s]]
    PROVE  StreamInv'
<1> SUFFICES ASSUME NEW r \in Streams
             PROVE  /\ snap[r] # None => snap[r] = terminal[job[r]]
                    /\ pos'[r] <= Len(sent[job[r]])
                    /\ st'[r] \in {"new", "asked", "refused"} <=> got'[r] = <<>>
                    /\ got'[r] # <<>> => got'[r][1] = "Started"
                    /\ \A i \in DOMAIN got'[r] :
                          got'[r][i] \in Verdicts =>
                             /\ i = Len(got'[r]) /\ (st'[r] = "open" => done'[r])
                             /\ got'[r][i] = outcome[job[r]] /\ terminal[job[r]] = outcome[job[r]]
  BY DEF StreamInv
<1>1. CASE r = s
  BY <1>1 DEF StreamInv
<1>2. CASE r # s
  BY <1>2 DEF StreamInv
<1> QED
  BY <1>1, <1>2

(* A request is answered from what was stored or what was sent, in the     *)
(* order of the sending, and after the verdict it is told nothing more.    *)
LEMMA StreamInvKept ==
    ASSUME TypeOK, JobInv, StreamInv, [Next]_vars
    PROVE  StreamInv'
<1>1. CASE JobStep
  <2>1. /\ UNCHANGED <<st, job, snap, pos, done, got>>
        /\ \A j \in Jobs : terminal[j] # None => terminal'[j] = terminal[j]
        /\ \A j \in Jobs : outcome[j] \in Verdicts => outcome'[j] = outcome[j]
        /\ \A j \in Jobs : Len(sent[j]) <= Len(sent'[j])
    BY <1>1, JobsKeepTheirWord DEF streamVars
  <2>2. SUFFICES ASSUME NEW s \in Streams
                 PROVE  /\ snap[s] # None => snap[s] = terminal'[job[s]]
                        /\ pos[s] <= Len(sent'[job[s]])
                        /\ \A i \in DOMAIN got[s] :
                              got[s][i] \in Verdicts =>
                                 /\ i = Len(got[s]) /\ (st[s] = "open" => done[s])
                                 /\ got[s][i] = outcome'[job[s]] /\ terminal'[job[s]] = outcome'[job[s]]
    BY <2>1 DEF StreamInv
  <2>3. job[s] \in Jobs /\ pos[s] \in Nat /\ Len(sent[job[s]]) \in Nat
    BY DEF TypeOK
  <2>4. snap[s] # None => snap[s] = terminal'[job[s]]
    BY <2>1, <2>3 DEF StreamInv
  <2>5. pos[s] <= Len(sent'[job[s]])
    <3>1. Len(sent'[job[s]]) \in Nat
      BY <2>3, TypeKept DEF TypeOK
    <3> QED
      BY <2>1, <2>3, <3>1 DEF StreamInv
  <2>6. ASSUME NEW i \in DOMAIN got[s], got[s][i] \in Verdicts
        PROVE  /\ i = Len(got[s]) /\ (st[s] = "open" => done[s])
               /\ got[s][i] = outcome'[job[s]] /\ terminal'[job[s]] = outcome'[job[s]]
    <3>1. /\ i = Len(got[s]) /\ (st[s] = "open" => done[s])
          /\ got[s][i] = outcome[job[s]] /\ terminal[job[s]] = outcome[job[s]]
      BY <2>6 DEF StreamInv
    <3>2. outcome'[job[s]] = outcome[job[s]] /\ terminal'[job[s]] = terminal[job[s]]
      BY <2>1, <2>3, <2>6, <3>1, VerdictsAreEvents
    <3> QED
      BY <3>1, <3>2
  <2> QED
    BY <2>4, <2>5, <2>6
<1>2. ASSUME NEW s \in Streams, Look(s) \/ NotFound(s) \/ ChannelCloses(s) \/ Leave(s) PROVE StreamInv'
  <2>1. UNCHANGED <<outcome, terminal, sent, job, pos, done, got>>
    BY <1>2 DEF Look, NotFound, ChannelCloses, Leave, jobVars
  <2>2. \A r \in Streams : r # s => st'[r] = st[r] /\ snap'[r] = snap[r]
    BY <1>2 DEF Look, NotFound, ChannelCloses, Leave, MoveStream, TypeOK
  <2>3. snap'[s] # None => snap'[s] = terminal[job[s]]
    BY <1>2 DEF Look, NotFound, ChannelCloses, Leave, StreamInv, TypeOK
  <2>4. \/ st[s] = "new" /\ st'[s] \in {"asked", "refused"}
        \/ st[s] = "open" /\ st'[s] \in {"ended", "gone"}
    BY <1>2 DEF Look, NotFound, ChannelCloses, Leave, MoveStream, TypeOK
  <2> QED
    BY <2>1, <2>2, <2>3, <2>4 DEF StreamInv
<1>3. ASSUME NEW s \in Streams, Replay(s) PROVE StreamInv'
  <2>1. /\ UNCHANGED <<outcome, terminal, sent, job, pos, snap>>
        /\ st[s] = "asked" /\ snap[s] # None
    BY <1>3 DEF Replay, MoveStream, jobVars
  <2>2. \A r \in Streams : r # s => /\ st'[r] = st[r] /\ got'[r] = got[r]
                                    /\ pos'[r] = pos[r] /\ done'[r] = done[r]
    BY <1>3 DEF Replay, MoveStream, TypeOK
  <2>3. st'[s] = "ended" /\ got'[s] = <<"Started", snap[s]>>
    BY <1>3 DEF Replay, MoveStream, TypeOK
  <2>4. snap[s] = terminal[job[s]] /\ terminal[job[s]] = outcome[job[s]] /\ job[s] \in Jobs
    BY <2>1 DEF StreamInv, JobInv, TypeOK
  <2>5. got'[s] # <<>> /\ got'[s][1] = "Started" /\ got'[s][2] = snap[s] /\ Len(got'[s]) = 2
    BY <2>3
  <2>6. \A i \in DOMAIN got'[s] : got'[s][i] \in Verdicts => i = 2
    <3>1. \A i \in DOMAIN got'[s] : i = 1 \/ i = 2
      BY <2>3
    <3> QED
      BY <2>5, <3>1, VerdictsAreEvents
  <2>7. \A i \in DOMAIN got'[s] :
           got'[s][i] \in Verdicts => i = Len(got'[s]) /\ got'[s][i] = outcome[job[s]]
    BY <2>4, <2>5, <2>6
  <2>8. pos'[s] <= Len(sent[job[s]])
    BY <2>1 DEF StreamInv
  <2> QED
    BY <2>1, <2>2, <2>3, <2>4, <2>5, <2>7, <2>8, OthersAsBefore
<1>4. ASSUME NEW s \in Streams, Subscribe(s) PROVE StreamInv'
  <2>1. UNCHANGED <<outcome, terminal, sent, job, snap>> /\ st[s] = "asked"
    BY <1>4 DEF Subscribe, MoveStream, jobVars
  <2>2. \A r \in Streams : r # s => /\ st'[r] = st[r] /\ got'[r] = got[r]
                                    /\ pos'[r] = pos[r] /\ done'[r] = done[r]
    BY <1>4 DEF Subscribe, MoveStream, TypeOK
  <2>3. st'[s] = "open" /\ got'[s] = <<"Started">> /\ pos'[s] = Len(sent[job[s]])
    BY <1>4 DEF Subscribe, MoveStream, TypeOK
  <2>4. got'[s] # <<>> /\ got'[s][1] = "Started" /\ \A i \in DOMAIN got'[s] : i = 1
    BY <2>3
  <2>5. \A i \in DOMAIN got'[s] : got'[s][i] \notin Verdicts
    BY <2>4, VerdictsAreEvents
  <2>6. pos'[s] <= Len(sent[job[s]])
    BY <2>3 DEF TypeOK
  <2> QED
    BY <2>1, <2>2, <2>3, <2>4, <2>5, <2>6, OthersAsBefore
<1>5. ASSUME NEW s \in Streams, Forward(s) PROVE StreamInv'
  <2> DEFINE e == sent[job[s]][pos[s] + 1]
  <2>1. /\ UNCHANGED <<outcome, terminal, sent, job, snap>> /\ st[s] = "open"
        /\ pos[s] < Len(sent[job[s]])
    BY <1>5 DEF Forward, MoveStream, jobVars
  <2>2. \A r \in Streams : r # s => /\ st'[r] = st[r] /\ got'[r] = got[r]
                                    /\ pos'[r] = pos[r] /\ done'[r] = done[r]
    BY <1>5 DEF Forward, MoveStream, TypeOK
  <2>3. /\ st'[s] = IF done[s] THEN "ended" ELSE "open"
        /\ got'[s] = IF done[s] THEN got[s] ELSE Append(got[s], e)
        /\ done'[s] = (done[s] \/ e \in Verdicts) /\ pos'[s] = pos[s] + 1
    BY <1>5 DEF Forward, MoveStream, TypeOK
  <2>4. job[s] \in Jobs /\ pos[s] + 1 \in DOMAIN sent[job[s]] /\ e \in Events
    BY <2>1 DEF TypeOK
  <2>5. e \in Verdicts => e = outcome[job[s]] /\ terminal[job[s]] = outcome[job[s]]
    BY <2>4 DEF JobInv
  <2> HIDE DEF e
  <2>6. pos'[s] <= Len(sent[job[s]])
    BY <2>1, <2>3, <2>4 DEF TypeOK
  <2>7. got[s] # <<>> /\ got[s] \in Seq(Events) /\ st'[s] \in {"open", "ended"}
    BY <2>1, <2>3 DEF StreamInv, TypeOK
  <2>8. CASE done[s]
    <3>1. got'[s] = got[s] /\ st'[s] = "ended"
      BY <2>3, <2>8
    <3>2. \A i \in DOMAIN got'[s] :
             got'[s][i] \in Verdicts =>
                /\ i = Len(got'[s]) /\ (st'[s] = "open" => done'[s])
                /\ got'[s][i] = outcome[job[s]] /\ terminal[job[s]] = outcome[job[s]]
      BY <3>1 DEF StreamInv
    <3>3. got'[s][1] = "Started"
      BY <2>7, <3>1 DEF StreamInv
    <3> QED
      BY <2>1, <2>2, <2>6, <2>7, <3>1, <3>2, <3>3, OthersAsBefore
  <2>9. CASE ~done[s]
    <3>1. \A i \in DOMAIN got[s] : got[s][i] \notin Verdicts
      BY <2>1, <2>9 DEF StreamInv
    <3>2. /\ Len(got'[s]) = Len(got[s]) + 1 /\ Len(got[s]) \in Nat
          /\ DOMAIN got[s] = 1 .. Len(got[s]) /\ DOMAIN got'[s] = 1 .. Len(got'[s])
          /\ got'[s][Len(got'[s])] = e
          /\ \A i \in DOMAIN got[s] : got'[s][i] = got[s][i]
      BY <2>3, <2>4, <2>7, <2>9, AppendExtends
    <3>3. \A i \in DOMAIN got'[s] :
             got'[s][i] \in Verdicts => i = Len(got'[s]) /\ got'[s][i] = e
      BY <3>1, <3>2
    <3>4. got'[s] # <<>> /\ got'[s][1] = "Started"
      BY <2>7, <3>2 DEF StreamInv
    <3>5. \A i \in DOMAIN got'[s] :
             got'[s][i] \in Verdicts =>
                /\ i = Len(got'[s]) /\ (st'[s] = "open" => done'[s])
                /\ got'[s][i] = outcome[job[s]] /\ terminal[job[s]] = outcome[job[s]]
      BY <2>3, <2>5, <3>3
    <3> QED
      BY <2>1, <2>2, <2>6, <2>7, <3>4, <3>5, OthersAsBefore
  <2> QED
    BY <2>8, <2>9
<1>6. CASE UNCHANGED vars
  BY <1>6 DEF vars, jobVars, streamVars, StreamInv
<1> QED
  BY <1>1, <1>2, <1>3, <1>4, <1>5, <1>6 DEF Next, JobStep, Serve, Over

(* A history is what was sent, and ends with the outcome from the moment   *)
(* the verdict is stored.                                                  *)
LEMMA HistoryIs ==
    ASSUME TypeOK, JobInv, NEW j \in Jobs
    PROVE  /\ History(j) \in Seq(Events) /\ Len(History(j)) \in Nat
           /\ DOMAIN History(j) = 1 .. Len(History(j))
           /\ Len(sent[j]) \in Nat /\ Len(sent[j]) <= Len(History(j))
           /\ \A i \in 1 .. Len(sent[j]) : History(j)[i] = sent[j][i]
           /\ task[j] \in {"stored", "ended"} =>
                 Len(History(j)) > 0 /\ History(j)[Len(History(j))] = outcome[j]
<1>1. sent[j] \in Seq(Events) /\ Len(sent[j]) \in Nat /\ DOMAIN sent[j] = 1 .. Len(sent[j])
  BY DEF TypeOK
<1>2. CASE task[j] = "stored"
  <2>1. outcome[j] \in Events
    BY <1>2, VerdictsAreEvents DEF JobInv
  <2>2. History(j) = Append(sent[j], outcome[j])
    BY <1>2 DEF History
  <2> QED
    BY <1>1, <2>1, <2>2, AppendExtends
<1>3. CASE task[j] # "stored"
  BY <1>1, <1>3 DEF History, JobInv
<1> QED
  BY <1>2, <1>3

(* What a job has told it does not take back: a history only grows.        *)
LEMMA HistoryGrows ==
    ASSUME TypeOK, JobInv, JobStep, NEW j \in Jobs
    PROVE  /\ Len(History(j)) <= Len(History(j)')
           /\ \A i \in DOMAIN History(j) : i \in DOMAIN History(j)' /\ History(j)'[i] = History(j)[i]
<1>1. History(j) \in Seq(Events) /\ Len(History(j)) \in Nat /\ DOMAIN History(j) = 1 .. Len(History(j))
  BY HistoryIs
<1>2. SUFFICES \/ History(j)' = History(j)
               \/ \E e \in Events : History(j)' = Append(History(j), e)
  BY <1>1, AppendExtends
<1>3. CASE Sweep
  BY <1>3 DEF Sweep, History
<1>4. ASSUME NEW n \in Jobs, StartAudit(n) \/ Fails(n) \/ EndsWithoutPage(n) \/ ReturnReport(n)
      PROVE  History(j)' = History(j)
  <2>1. /\ task[n] \notin {"stored", "finished"} /\ task'[n] # "stored" /\ sent' = sent
        /\ \A k \in Jobs : k # n => task'[k] = task[k] /\ outcome'[k] = outcome[k]
    BY <1>4 DEF StartAudit, Fails, EndsWithoutPage, ReturnReport, MoveTask, TypeOK
  <2> QED
    BY <2>1 DEF History
<1>5. ASSUME NEW n \in Jobs, SendPageDone(n)
      PROVE  History(j)' = History(j) \/ History(j)' = Append(History(j), "PageDone")
  <2>1. /\ task[n] = "running" /\ task'[n] = "audited" /\ outcome' = outcome
        /\ sent'[n] = Append(sent[n], "PageDone")
        /\ \A k \in Jobs : k # n => task'[k] = task[k] /\ sent'[k] = sent[k]
    BY <1>5 DEF SendPageDone, MoveTask, TypeOK
  <2> QED
    BY <2>1 DEF History
<1>6. ASSUME NEW n \in Jobs, StoreTerminal(n)
      PROVE  \/ History(j)' = History(j)
             \/ History(j)' = Append(History(j), outcome[j]) /\ outcome[j] \in Events
  <2>1. /\ task[n] = "finished" /\ task'[n] = "stored" /\ outcome' = outcome /\ sent' = sent
        /\ \A k \in Jobs : k # n => task'[k] = task[k]
    BY <1>6 DEF StoreTerminal, MoveTask, TypeOK
  <2>2. outcome[n] \in Events
    BY <2>1, VerdictsAreEvents DEF JobInv
  <2>3. CASE j = n
    BY <2>1, <2>2, <2>3 DEF History
  <2>4. CASE j # n
    <3>1. task'[j] = task[j] /\ sent'[j] = sent[j] /\ outcome'[j] = outcome[j]
      BY <2>1, <2>4
    <3>2. History(j)' = History(j)
      BY <3>1 DEF History
    <3> QED
      BY <3>2
  <2> QED
    BY <2>3, <2>4
<1>7. ASSUME NEW n \in Jobs, SendTerminal(n) PROVE History(j)' = History(j)
  <2>1. /\ task[n] = "stored" /\ task'[n] = "ended" /\ outcome' = outcome
        /\ sent'[n] = Append(sent[n], outcome[n])
        /\ \A k \in Jobs : k # n => task'[k] = task[k] /\ sent'[k] = sent[k]
    BY <1>7 DEF SendTerminal, MoveTask, TypeOK
  <2> QED
    BY <2>1 DEF History
<1> QED
  BY <1>3, <1>4, <1>5, <1>6, <1>7, VerdictsAreEvents DEF JobStep, Task

(* Replayed or subscribed, a client is told its job's history from some    *)
(* event on: a job's step only adds to it, and a request's step takes the  *)
(* next of it.                                                             *)
LEMMA NoGapKept ==
    ASSUME TypeOK, JobInv, StreamInv, NoGap, [Next]_vars
    PROVE  NoGap'
<1> SUFFICES ASSUME NEW s \in Streams, got'[s] # <<>>
             PROVE  \E k \in Nat : FromHistory(s, k)'
  BY DEF NoGap
<1>1. /\ job[s] \in Jobs /\ pos[s] \in Nat /\ got[s] \in Seq(Events) /\ Len(got[s]) \in Nat
  BY DEF TypeOK
<1>2. CASE JobStep
  <2>1. UNCHANGED <<st, job, done, pos, got>>
    BY <1>2, JobsKeepTheirWord DEF streamVars
  <2>2. PICK k \in Nat : FromHistory(s, k)
    BY <2>1 DEF NoGap
  <2> PICK j \in Jobs : j = job[s]
    BY <1>1
  <2> DEFINE H == History(j)
             G == History(j)'
  <2>3. /\ Len(H) <= Len(G) /\ Len(H) \in Nat /\ Len(G) \in Nat
        /\ \A i \in DOMAIN H : i \in DOMAIN G /\ G[i] = H[i]
    BY <1>1, <1>2, HistoryGrows, HistoryIs, TypeKept, JobInvKept
  <2>4. /\ k \in 0 .. Len(H)
        /\ st[s] = "open" /\ ~done[s] => pos[s] = k + Len(got[s]) - 1
        /\ \A i \in 2 .. Len(got[s]) : k + i - 1 \in DOMAIN H /\ got[s][i] = H[k + i - 1]
    BY <2>2 DEF FromHistory
  <2>5. History(job[s])' = G
    BY <2>1 DEF History
  <2> HIDE DEF H, G
  <2>6. k \in 0 .. Len(G)
    BY <2>3, <2>4
  <2>7. \A i \in 2 .. Len(got[s]) : k + i - 1 \in DOMAIN G /\ got[s][i] = G[k + i - 1]
    BY <2>3, <2>4
  <2> QED
    BY <2>1, <2>4, <2>5, <2>6, <2>7 DEF FromHistory
<1>3. ASSUME NEW r \in Streams, Look(r) \/ NotFound(r) \/ Serve(r) \/ Leave(r)
      PROVE  \E k \in Nat : FromHistory(s, k)'
  <2>1. UNCHANGED <<job, sent, task, outcome>>
    BY <1>3 DEF Look, NotFound, Serve, Replay, Subscribe, Forward, ChannelCloses, Leave, jobVars
  <2>2. History(job[s])' = History(job[s])
    BY <2>1 DEF History
  <2> DEFINE H == History(job[s])
  <2>3. /\ Len(H) \in Nat /\ DOMAIN H = 1 .. Len(H)
        /\ Len(sent[job[s]]) \in Nat /\ Len(sent[job[s]]) <= Len(H)
        /\ \A i \in 1 .. Len(sent[job[s]]) : H[i] = sent[job[s]][i]
        /\ task[job[s]] \in {"stored", "ended"} => Len(H) > 0 /\ H[Len(H)] = outcome[job[s]]
    BY <1>1, HistoryIs
  <2> HIDE DEF H
  <2>4. SUFFICES \E k \in Nat :
                    /\ k \in 0 .. Len(H)
                    /\ st'[s] = "open" /\ ~done'[s] => pos'[s] = k + Len(got'[s]) - 1
                    /\ \A i \in 2 .. Len(got'[s]) : k + i - 1 \in DOMAIN H /\ got'[s][i] = H[k + i - 1]
    BY <2>2 DEF FromHistory, H
  <2>5. ASSUME got'[s] = got[s],
               st'[s] = "open" /\ ~done'[s] => st[s] = "open" /\ ~done[s] /\ pos'[s] = pos[s]
        PROVE  \E k \in Nat :
                  /\ k \in 0 .. Len(H)
                  /\ st'[s] = "open" /\ ~done'[s] => pos'[s] = k + Len(got'[s]) - 1
                  /\ \A i \in 2 .. Len(got'[s]) : k + i - 1 \in DOMAIN H /\ got'[s][i] = H[k + i - 1]
    <3>1. PICK k \in Nat : FromHistory(s, k)
      BY <2>5 DEF NoGap
    <3> QED
      BY <2>5, <3>1 DEF FromHistory, H
  <2>6. CASE r # s
    <3>1. got'[s] = got[s] /\ st'[s] = st[s] /\ done'[s] = done[s] /\ pos'[s] = pos[s]
      BY <1>3, <2>6 DEF Look, NotFound, Serve, Replay, Subscribe, Forward, ChannelCloses, Leave, MoveStream,
                        TypeOK
    <3> QED
      BY <2>5, <3>1
  <2>7. CASE r = s /\ (Look(s) \/ NotFound(s) \/ ChannelCloses(s) \/ Leave(s))
    <3>1. got'[s] = got[s] /\ st'[s] # "open"
      BY <2>7 DEF Look, NotFound, ChannelCloses, Leave, MoveStream, TypeOK
    <3> QED
      BY <2>5, <3>1
  <2>8. CASE r = s /\ Replay(s)
    <3>1. got'[s] = <<"Started", snap[s]>> /\ st'[s] = "ended" /\ snap[s] # None
      BY <2>8 DEF Replay, MoveStream, TypeOK
    <3>2. snap[s] = outcome[job[s]] /\ task[job[s]] \in {"stored", "ended"}
      BY <1>1, <3>1 DEF StreamInv, JobInv
    <3>3. Len(got'[s]) = 2 /\ got'[s][2] = snap[s]
      BY <3>1
    <3>4. Len(H) - 1 \in Nat /\ Len(H) - 1 \in 0 .. Len(H)
      BY <2>3, <3>2
    <3>5. \A i \in 2 .. Len(got'[s]) : Len(H) - 1 + i - 1 \in DOMAIN H /\ got'[s][i] = H[Len(H) - 1 + i - 1]
      <4> SUFFICES ASSUME NEW i \in 2 .. Len(got'[s])
                   PROVE  Len(H) - 1 + i - 1 \in DOMAIN H /\ got'[s][i] = H[Len(H) - 1 + i - 1]
        OBVIOUS
      <4>1. i = 2 /\ Len(H) - 1 + i - 1 = Len(H) /\ Len(H) \in DOMAIN H
        BY <2>3, <3>2, <3>3
      <4> QED
        BY <2>3, <3>2, <3>3, <4>1
    <3> QED
      BY <3>1, <3>4, <3>5
  <2>9. CASE r = s /\ Subscribe(s)
    <3>1. got'[s] = <<"Started">> /\ pos'[s] = Len(sent[job[s]])
      BY <2>9 DEF Subscribe, TypeOK
    <3>2. Len(got'[s]) = 1
      BY <3>1
    <3> QED
      BY <2>3, <3>1, <3>2
  <2>10. CASE r = s /\ Forward(s)
    <3> DEFINE e == sent[job[s]][pos[s] + 1]
    <3>1. /\ st[s] = "open" /\ st'[s] = IF done[s] THEN "ended" ELSE "open"
          /\ got'[s] = IF done[s] THEN got[s] ELSE Append(got[s], e)
          /\ pos'[s] = pos[s] + 1 /\ pos[s] < Len(sent[job[s]])
      BY <2>10 DEF Forward, MoveStream, TypeOK
    <3>2. e \in Events
      BY <1>1, <2>3, <3>1 DEF TypeOK
    <3>3. CASE done[s]
      BY <2>5, <3>1, <3>3
    <3>4. CASE ~done[s]
      <4>1. got[s] # <<>>
        BY <3>1 DEF StreamInv
      <4>2. PICK k \in Nat : FromHistory(s, k)
        BY <4>1 DEF NoGap
      <4>3. /\ k \in 0 .. Len(H) /\ pos[s] = k + Len(got[s]) - 1
            /\ \A i \in 2 .. Len(got[s]) : k + i - 1 \in DOMAIN H /\ got[s][i] = H[k + i - 1]
        BY <3>1, <3>4, <4>2 DEF FromHistory, H
      <4>4. pos[s] + 1 \in DOMAIN H /\ e = H[pos[s] + 1]
        BY <1>1, <2>3, <3>1
      <4> HIDE DEF e
      <4>5. /\ Len(got'[s]) = Len(got[s]) + 1 /\ got'[s][Len(got'[s])] = e
            /\ \A i \in 1 .. Len(got[s]) : got'[s][i] = got[s][i]
        BY <1>1, <3>1, <3>2, <3>4, AppendExtends
      <4>6. pos'[s] = k + Len(got'[s]) - 1
        BY <1>1, <3>1, <4>3, <4>5
      <4>7. ASSUME NEW i \in 2 .. Len(got'[s])
            PROVE  k + i - 1 \in DOMAIN H /\ got'[s][i] = H[k + i - 1]
        <5>1. CASE i \in 2 .. Len(got[s])
          <6>1. got'[s][i] = got[s][i]
            BY <1>1, <4>5, <5>1
          <6> QED
            BY <4>3, <5>1, <6>1
        <5>2. CASE i = Len(got'[s])
          <6>1. k + i - 1 = pos[s] + 1
            BY <1>1, <4>3, <4>5, <5>2
          <6> QED
            BY <4>4, <4>5, <5>2, <6>1
        <5> QED
          BY <1>1, <4>5, <5>1, <5>2
      <4> QED
        BY <4>3, <4>6, <4>7
    <3> QED
      BY <3>3, <3>4
  <2> QED
    BY <1>3, <2>6, <2>7, <2>8, <2>9, <2>10 DEF Serve
<1>4. CASE UNCHANGED vars
  <2>1. PICK k \in Nat : FromHistory(s, k)
    BY <1>4 DEF NoGap, vars, streamVars
  <2> QED
    BY <1>4, <2>1 DEF FromHistory, History, vars, jobVars, streamVars
<1> QED
  BY <1>2, <1>3, <1>4 DEF Next, JobStep, Over

(* The four parts hold together.                                           *)
THEOREM ServerInvariant == Spec => [](TypeOK /\ JobInv /\ StreamInv /\ NoGap)
<1> DEFINE Inv == TypeOK /\ JobInv /\ StreamInv /\ NoGap
<1>1. Init => Inv
  <2> SUFFICES ASSUME Init PROVE Inv
    OBVIOUS
  <2>1. TypeOK
    BY ServerAssumption DEF Init, TypeOK, Tasks, Places
  <2>2. JobInv
    <3>1. \A i \in DOMAIN <<>> : FALSE
      OBVIOUS
    <3> QED
      BY <3>1, VerdictsAreEvents DEF Init, JobInv
  <2>3. \A s \in Streams : job[s] \in Jobs /\ Len(sent[job[s]]) = 0 /\ got[s] = <<>> /\ snap[s] = None
                           /\ pos[s] = 0 /\ st[s] = "new"
    BY DEF Init
  <2>4. StreamInv
    <3>1. \A i \in DOMAIN <<>> : FALSE
      OBVIOUS
    <3> QED
      BY <2>3, <3>1 DEF StreamInv
  <2>5. NoGap
    BY <2>3 DEF NoGap
  <2> QED
    BY <2>1, <2>2, <2>4, <2>5
<1>2. Inv /\ [Next]_vars => Inv'
  BY TypeKept, JobInvKept, StreamInvKept, NoGapKept
<1> QED
  BY <1>1, <1>2, PTL DEF Spec

(* Type correctness of the server.                                         *)
THEOREM TypeCorrect == Spec => []TypeOK
  BY ServerInvariant, PTL

(* Every client sees Started, then its own job's history from some event   *)
(* on, without a gap and in order, and after the verdict nothing more.     *)
THEOREM StreamsAreShaped == Spec => []StreamShape
<1>1. StreamInv /\ NoGap => StreamShape
  <2> SUFFICES ASSUME StreamInv, NoGap, NEW s \in Streams, got[s] # <<>>
               PROVE  /\ got[s][1] = "Started"
                      /\ \A i \in DOMAIN got[s] : got[s][i] \in Verdicts => i = Len(got[s])
                      /\ \E k \in 0 .. Len(History(job[s])) :
                            \A i \in 2 .. Len(got[s]) :
                               /\ k + i - 1 \in DOMAIN History(job[s])
                               /\ got[s][i] = History(job[s])[k + i - 1]
    BY DEF StreamShape
  <2>1. PICK k \in Nat : FromHistory(s, k)
    BY DEF NoGap
  <2>2. /\ k \in 0 .. Len(History(job[s]))
        /\ \A i \in 2 .. Len(got[s]) :
              /\ k + i - 1 \in DOMAIN History(job[s])
              /\ got[s][i] = History(job[s])[k + i - 1]
    BY <2>1 DEF FromHistory
  <2> QED
    BY <2>2 DEF StreamInv
<1> QED
  BY <1>1, ServerInvariant, PTL

(* What one client has seen of a verdict every later request is told.      *)
THEOREM VerdictsAreReplayable == Spec => []Replayable
<1>1. StreamInv => Replayable
  BY DEF StreamInv, Replayable, HasVerdict
<1> QED
  BY <1>1, ServerInvariant, PTL

-----------------------------------------------------------------------------
(***************************************************************************)
(* The gateway: any number of requests, from any addresses, any limits.    *)
(***************************************************************************)

LEMMA RequestsFinite ==
    /\ Requests = 1..Len(AddressOf) /\ Len(AddressOf) \in Nat
    /\ IsFiniteSet(Requests)
    /\ \A S \in SUBSET Requests : IsFiniteSet(S) /\ Cardinality(S) \in 0..Len(AddressOf)
<1>1. Requests = 1..Len(AddressOf) /\ Len(AddressOf) \in Nat
  BY GatewayAssumption DEF Requests
<1>2. IsFiniteSet(Requests) /\ Cardinality(Requests) = Len(AddressOf)
  <2>1. 1 \in Int /\ Len(AddressOf) \in Int
    BY <1>1
  <2>2. /\ IsFiniteSet(1..Len(AddressOf))
        /\ Cardinality(1..Len(AddressOf))
           = IF 1 > Len(AddressOf) THEN 0 ELSE Len(AddressOf) - 1 + 1
    BY <2>1, FS_Interval
  <2>. QED
    BY <1>1, <2>2
<1>3. ASSUME NEW S \in SUBSET Requests
      PROVE  IsFiniteSet(S) /\ Cardinality(S) \in 0..Len(AddressOf)
  <2>1. IsFiniteSet(S) /\ Cardinality(S) <= Cardinality(Requests)
    BY <1>2, FS_Subset
  <2>2. Cardinality(S) \in Nat
    BY <2>1, FS_CardinalityType
  <2>. QED
    BY <1>1, <1>2, <2>1, <2>2
<1>. QED
  BY <1>1, <1>2, <1>3

(* The requests of ip that got past the limit from a to b, when p says     *)
(* when each request did.                                                  *)
Through(p, ip, a, b) ==
    {r \in Requests : /\ AddressOf[r] = ip
                      /\ p[r] \in a .. b
                      /\ p[r] # Never}

(* The window of ip that began at s has let c requests through, the first  *)
(* of them at s.  So a stretch as long as a window that ends in this one   *)
(* has left out the first request of the window before.                    *)
Window(p, ip, s, c) ==
    /\ c = 0 => \A r \in Requests : AddressOf[r] = ip => p[r] = Never
    /\ c > 0 =>
         /\ \E r \in Requests : AddressOf[r] = ip /\ p[r] = s
         /\ \A r \in Requests : AddressOf[r] = ip /\ p[r] # Never => p[r] < s + RateWindow
         /\ Cardinality(Through(p, ip, s, LastTime)) = c
         /\ Cardinality(Through(p, ip, s - RateWindow + 1, s - 1)) < RateMax
    /\ \A from \in 0 .. LastTime :
         Cardinality(Through(p, ip, from, from + RateWindow - 1)) < 2 * RateMax

LEMMA ThroughFinite ==
    ASSUME NEW p, NEW ip, NEW a, NEW b
    PROVE  /\ IsFiniteSet(Through(p, ip, a, b))
           /\ Cardinality(Through(p, ip, a, b)) \in Nat
<1>1. Through(p, ip, a, b) \in SUBSET Requests
  BY DEF Through
<1>. QED
  BY <1>1, RequestsFinite

(* One more request gets through, at n.                                    *)
Passes(p, p1, r, n) ==
    /\ r \in Requests /\ n \in 0 .. LastTime
    /\ p \in [Requests -> 0 .. Never] /\ p[r] = Never
    /\ \A q \in Requests : p1[q] = IF q = r THEN n ELSE p[q]

LEMMA OthersStay ==
    ASSUME NEW p, NEW p1, NEW r, NEW n, Passes(p, p1, r, n), NEW ip, ip # AddressOf[r],
           NEW a, NEW b
    PROVE  Through(p1, ip, a, b) = Through(p, ip, a, b)
  BY DEF Through, Passes

LEMMA ThroughStays ==
    ASSUME NEW p, NEW p1, NEW r, NEW n, Passes(p, p1, r, n), NEW a, NEW b, n \notin a .. b
    PROVE  Through(p1, AddressOf[r], a, b) = Through(p, AddressOf[r], a, b)
  BY GatewayAssumption DEF Through, Passes, Never

LEMMA ThroughGrows ==
    ASSUME NEW p, NEW p1, NEW r, NEW n, Passes(p, p1, r, n), NEW a, NEW b, n \in a .. b
    PROVE  /\ Through(p1, AddressOf[r], a, b) = Through(p, AddressOf[r], a, b) \cup {r}
           /\ r \notin Through(p, AddressOf[r], a, b)
<1>1. n # Never
  BY GatewayAssumption DEF Never, Passes
<1>. QED
  BY <1>1 DEF Through, Passes

LEMMA AtMostBoth ==
    ASSUME NEW S, NEW T, NEW U, IsFiniteSet(S), IsFiniteSet(T), U \subseteq S \cup T
    PROVE  Cardinality(U) <= Cardinality(S) + Cardinality(T)
<1>1. IsFiniteSet(S \cup T) /\ Cardinality(S \cup T) = Cardinality(S) + Cardinality(T)
                                                    - Cardinality(S \cap T)
  BY FS_Union
<1>2. IsFiniteSet(U) /\ Cardinality(U) <= Cardinality(S \cup T)
  BY <1>1, FS_Subset
<1>3. S \cap T \in SUBSET S
  OBVIOUS
<1>4. /\ Cardinality(S \cap T) \in Nat /\ Cardinality(S) \in Nat /\ Cardinality(T) \in Nat
      /\ Cardinality(U) \in Nat
  BY <1>2, <1>3, FS_Subset, FS_CardinalityType
<1>. QED
  BY <1>1, <1>2, <1>4

(* A request counted in the window that runs.                              *)
LEMMA WindowCounts ==
    ASSUME NEW p, NEW p1, NEW r, NEW n, Passes(p, p1, r, n),
           NEW s \in 0 .. LastTime, NEW c \in 0 .. RateMax, s <= n,
           Window(p, AddressOf[r], s, c), c > 0, n < s + RateWindow, c < RateMax
    PROVE  Window(p1, AddressOf[r], s, c + 1)
<1>. DEFINE ip == AddressOf[r]
<1>0. /\ RateWindow \in Nat \ {0} /\ RateMax \in Nat \ {0} /\ LastTime \in Nat
      /\ n \in Nat /\ s \in Nat /\ c \in Nat /\ n # Never
  BY GatewayAssumption DEF Never, Passes
<1>1. /\ r \in Requests /\ p \in [Requests -> 0 .. Never] /\ p[r] = Never
      /\ \A q \in Requests : p1[q] = IF q = r THEN n ELSE p[q]
  BY DEF Passes
<1>2. \E q \in Requests : AddressOf[q] = ip /\ p1[q] = s
  <2>1. PICK q \in Requests : AddressOf[q] = ip /\ p[q] = s
    BY DEF Window
  <2>2. s # Never
    BY <1>0 DEF Never
  <2>3. q # r
    BY <1>1, <2>1, <2>2
  <2>. QED
    BY <1>1, <2>1, <2>3
<1>3. \A q \in Requests : AddressOf[q] = ip /\ p1[q] # Never => p1[q] < s + RateWindow
  <2>1. \A q \in Requests : AddressOf[q] = ip /\ p[q] # Never => p[q] < s + RateWindow
    BY DEF Window
  <2>. QED
    BY <1>1, <2>1
<1>4. Cardinality(Through(p1, ip, s, LastTime)) = c + 1
  <2>1. n \in s .. LastTime
    BY <1>0 DEF Passes
  <2>2. /\ Through(p1, ip, s, LastTime) = Through(p, ip, s, LastTime) \cup {r}
        /\ r \notin Through(p, ip, s, LastTime)
    BY Zenon, <2>1, ThroughGrows
  <2>3. Cardinality(Through(p, ip, s, LastTime)) = c
    BY DEF Window
  <2>. QED
    BY <2>2, <2>3, ThroughFinite, FS_AddElement
<1>5. Cardinality(Through(p1, ip, s - RateWindow + 1, s - 1)) < RateMax
  <2>. DEFINE a == s - RateWindow + 1  b == s - 1
  <2>1. n \notin a .. b /\ a \in Int /\ b \in Int
    BY <1>0
  <2>2. Cardinality(Through(p, ip, a, b)) < RateMax
    BY DEF Window
  <2>. HIDE DEF a, b
  <2>3. Through(p1, ip, a, b) = Through(p, ip, a, b)
    BY <2>1, ThroughStays
  <2>. QED
    BY <2>2, <2>3 DEF a, b
<1>6. ASSUME NEW from \in 0 .. LastTime
      PROVE  Cardinality(Through(p1, ip, from, from + RateWindow - 1)) < 2 * RateMax
  <2>. DEFINE to == from + RateWindow - 1
              S == Through(p1, ip, s - RateWindow + 1, s - 1)
              T == Through(p1, ip, s, LastTime)
  <2>1. from \in Int /\ to \in Int
    BY <1>0
  <2>2. CASE n \notin from .. to
    <3>1. Cardinality(Through(p, ip, from, to)) < 2 * RateMax
      BY DEF Window
    <3>. HIDE DEF to
    <3>2. Through(p1, ip, from, to) = Through(p, ip, from, to)
      BY <2>2, ThroughStays
    <3>. QED
      BY <3>1, <3>2 DEF to
  <2>3. CASE n \in from .. to
    <3>1. from >= s - RateWindow + 1
      BY <1>0, <2>3
    <3>2. \A q \in Requests : p1[q] \in from .. to /\ p1[q] # Never
                              => p1[q] \in (s - RateWindow + 1) .. (s - 1) \/ p1[q] \in s .. LastTime
      <4>1. \A q \in Requests : p1[q] \in 0 .. Never
        <5>1. n \in 0 .. Never /\ \A q \in Requests : p[q] \in 0 .. Never
          BY <1>0 DEF Never, Passes
        <5>. QED
          BY <1>1, <5>1
      <4>. QED
        BY <1>0, <3>1, <4>1 DEF Never
    <3>3. Through(p1, ip, from, to) \subseteq S \cup T
      BY <3>2 DEF Through
    <3>. HIDE DEF S, T, to
    <3>4. IsFiniteSet(S) /\ IsFiniteSet(T) /\ Cardinality(S) \in Nat /\ Cardinality(T) \in Nat
      BY ThroughFinite DEF S, T
    <3>5. Cardinality(Through(p1, ip, from, to)) <= Cardinality(S) + Cardinality(T)
      BY <3>3, <3>4, AtMostBoth
    <3>6. Cardinality(S) < RateMax /\ Cardinality(T) = c + 1
      BY <1>4, <1>5 DEF S, T
    <3>7. Cardinality(Through(p1, ip, from, to)) \in Nat
      BY ThroughFinite
    <3>8. Cardinality(Through(p1, ip, from, to)) < 2 * RateMax
      BY <1>0, <3>4, <3>5, <3>6, <3>7
    <3>. QED
      BY <3>8 DEF to
  <2>. QED
    BY <2>2, <2>3
<1>7. c + 1 > 0 /\ c + 1 # 0
  BY <1>0
<1>. QED
  BY Zenon, <1>2, <1>3, <1>4, <1>5, <1>6, <1>7 DEF Window

(* A request that begins a new window.                                     *)
LEMMA WindowBegins ==
    ASSUME NEW p, NEW p1, NEW r, NEW n, Passes(p, p1, r, n),
           NEW s \in 0 .. LastTime, NEW c \in 0 .. RateMax,
           Window(p, AddressOf[r], s, c), c = 0 \/ s + RateWindow <= n
    PROVE  Window(p1, AddressOf[r], n, 1)
<1>. DEFINE ip == AddressOf[r]
<1>0. /\ RateWindow \in Nat \ {0} /\ RateMax \in Nat \ {0} /\ LastTime \in Nat
      /\ n \in Nat /\ s \in Nat /\ c \in Nat /\ n # Never
  BY GatewayAssumption DEF Never, Passes
<1>1. /\ r \in Requests /\ p \in [Requests -> 0 .. Never] /\ p[r] = Never
      /\ \A q \in Requests : p1[q] = IF q = r THEN n ELSE p[q]
  BY DEF Passes
<1>2. \A q \in Requests : AddressOf[q] = ip /\ p[q] # Never => p[q] < n
  <2>1. CASE c = 0
    BY <2>1 DEF Window
  <2>2. CASE c # 0
    <3>1. c > 0 /\ s + RateWindow <= n
      BY <1>0, <2>2
    <3>2. \A q \in Requests : AddressOf[q] = ip /\ p[q] # Never => p[q] < s + RateWindow
      BY <3>1 DEF Window
    <3>3. \A q \in Requests : p[q] \in 0 .. Never
      BY <1>1
    <3>. QED
      BY <1>0, <3>1, <3>2, <3>3
  <2>. QED
    BY <2>1, <2>2
<1>3. \A q \in Requests : AddressOf[q] = ip /\ p1[q] # Never => p1[q] < n + RateWindow
  <2>1. \A q \in Requests : p[q] \in 0 .. Never /\ Never \in Int
    BY <1>0, <1>1 DEF Never
  <2>. QED
    BY <1>0, <1>1, <1>2, <2>1
<1>4. Through(p1, ip, n, LastTime) = {r}
  <2>1. Through(p, ip, n, LastTime) = {}
    <3>1. \A q \in Requests : p[q] \in n .. LastTime => ~(p[q] < n)
      BY <1>0
    <3>. QED
      BY <1>2, <3>1 DEF Through
  <2>2. n \in n .. LastTime
    BY <1>0 DEF Passes
  <2>3. /\ Through(p1, ip, n, LastTime) = Through(p, ip, n, LastTime) \cup {r}
        /\ r \notin Through(p, ip, n, LastTime)
    BY Zenon, <2>2, ThroughGrows
  <2>. QED
    BY <2>1, <2>3
<1>5. Cardinality(Through(p, ip, n - RateWindow + 1, n - 1)) < RateMax
  <2>. DEFINE S == Through(p, ip, n - RateWindow + 1, n - 1)
              T == Through(p, ip, s, LastTime)
  <2>1. CASE c = 0
    <3>1. S = {}
      BY <2>1 DEF Window, Through
    <3>. HIDE DEF S
    <3>2. Cardinality(S) = 0
      BY <3>1, FS_EmptySet
    <3>. QED
      BY <1>0, <3>2 DEF S
  <2>2. CASE c # 0
    <3>1. c > 0 /\ s + RateWindow <= n
      BY <1>0, <2>2
    <3>2. PICK q \in Requests : AddressOf[q] = ip /\ p[q] = s
      BY <3>1 DEF Window
    <3>3. q \in T
      <4>1. s \in s .. LastTime /\ s # Never
        BY <1>0 DEF Never
      <4>. QED
        BY <3>2, <4>1 DEF Through
    <3>4. S \subseteq T \ {q}
      <4>1. \A x \in (n - RateWindow + 1) .. (n - 1) : x \in s .. LastTime /\ x # s
        BY <1>0, <3>1 DEF Passes
      <4>. QED
        BY <3>2, <4>1 DEF Through
    <3>5. Cardinality(T) = c
      BY <3>1 DEF Window
    <3>. HIDE DEF S, T
    <3>6. IsFiniteSet(T)
      BY ThroughFinite DEF T
    <3>7. IsFiniteSet(T \ {q}) /\ Cardinality(T \ {q}) = c - 1
      BY <3>3, <3>5, <3>6, FS_RemoveElement
    <3>8. Cardinality(S) <= c - 1
      BY <3>4, <3>7, FS_Subset
    <3>9. Cardinality(S) \in Nat
      BY ThroughFinite DEF S
    <3>. QED
      BY <1>0, <3>8, <3>9 DEF S
  <2>. QED
    BY <2>1, <2>2
<1>6. Cardinality(Through(p1, ip, n - RateWindow + 1, n - 1)) < RateMax
  <2>1. n \notin (n - RateWindow + 1) .. (n - 1)
    BY <1>0
  <2>2. Through(p1, ip, n - RateWindow + 1, n - 1) = Through(p, ip, n - RateWindow + 1, n - 1)
    BY <2>1, ThroughStays
  <2>. QED
    BY <1>5, <2>2
<1>7. ASSUME NEW from \in 0 .. LastTime
      PROVE  Cardinality(Through(p1, ip, from, from + RateWindow - 1)) < 2 * RateMax
  <2>. DEFINE to == from + RateWindow - 1
              S == Through(p1, ip, n - RateWindow + 1, n - 1)
              T == Through(p1, ip, n, LastTime)
  <2>2. CASE n \notin from .. to
    <3>1. Cardinality(Through(p, ip, from, to)) < 2 * RateMax
      BY DEF Window
    <3>. HIDE DEF to
    <3>2. Through(p1, ip, from, to) = Through(p, ip, from, to)
      BY <2>2, ThroughStays
    <3>. QED
      BY <3>1, <3>2 DEF to
  <2>3. CASE n \in from .. to
    <3>1. from >= n - RateWindow + 1
      BY <1>0, <2>3
    <3>2. \A q \in Requests : p1[q] \in from .. to /\ p1[q] # Never
                              => p1[q] \in (n - RateWindow + 1) .. (n - 1) \/ p1[q] \in n .. LastTime
      <4>1. \A q \in Requests : p1[q] \in 0 .. Never
        <5>1. n \in 0 .. Never /\ \A q \in Requests : p[q] \in 0 .. Never
          BY <1>0 DEF Never, Passes
        <5>. QED
          BY <1>1, <5>1
      <4>. QED
        BY <1>0, <3>1, <4>1 DEF Never
    <3>3. Through(p1, ip, from, to) \subseteq S \cup T
      BY <3>2 DEF Through
    <3>4. T = {r} /\ Cardinality(S) < RateMax
      BY <1>4, <1>6
    <3>. HIDE DEF S, T, to
    <3>5. IsFiniteSet(S) /\ Cardinality(S) \in Nat
      BY ThroughFinite DEF S
    <3>6. IsFiniteSet(T) /\ Cardinality(T) = 1
      BY <3>4, FS_Singleton
    <3>7. Cardinality(Through(p1, ip, from, to)) <= Cardinality(S) + Cardinality(T)
      BY <3>3, <3>5, <3>6, AtMostBoth
    <3>8. Cardinality(Through(p1, ip, from, to)) \in Nat
      BY ThroughFinite
    <3>9. Cardinality(Through(p1, ip, from, to)) < 2 * RateMax
      BY <1>0, <3>4, <3>5, <3>6, <3>7, <3>8
    <3>. QED
      BY <3>9 DEF to
  <2>. QED
    BY <2>2, <2>3
<1>8. Cardinality(Through(p1, ip, n, LastTime)) = 1
  BY <1>4, FS_Singleton
<1>9. 1 # 0 /\ 1 > 0 /\ AddressOf[r] = ip /\ p1[r] = n
  BY <1>1
<1>. QED
  BY Zenon, <1>1, <1>3, <1>6, <1>7, <1>8, <1>9 DEF Window

GateTypes ==
    /\ proxied \in BOOLEAN
    /\ protected \in BOOLEAN
    /\ now \in 0 .. LastTime
    /\ rateMap \in [Ips -> [count : 0 .. RateMax, start : 0 .. LastTime]]
    /\ stage \in [Requests -> {"new", "body", "child", "saving", "answered", "relay", "relayed"}]
    /\ reply \in [Requests -> {NoReply, "limited", "busy", "error", "report", "job"}]
    /\ passed \in [Requests -> 0 .. Never]
    /\ opens \in [Requests -> 0 .. MaxOpens]
    /\ rows \in [Requests -> Nat]

(* Nothing is in the future, and where requests are limited the windows    *)
(* are as said above.                                                      *)
BurstInv ==
    /\ \A r \in Requests : /\ stage[r] = "new" => passed[r] = Never
                           /\ passed[r] # Never => passed[r] <= now
    /\ \A ip \in Ips : rateMap[ip].start <= now
    /\ protected =>
          \A ip \in Ips, s \in 0 .. LastTime, c \in 0 .. RateMax :
             rateMap[ip] = [count |-> c, start |-> s] => Window(passed, ip, s, c)

(* A stream that is open has not stored its report yet, each that was      *)
(* opened stores it once at most, and so does a child.                     *)
RowInv ==
    \A r \in Requests :
       /\ stage[r] \in {"new", "body", "child", "saving"} => rows[r] = 0 /\ opens[r] = 0
       /\ stage[r] = "relay" => reply[r] = "job" /\ rows[r] < opens[r]
       /\ stage[r] = "relayed" => reply[r] = "job" /\ rows[r] <= opens[r]
       /\ stage[r] = "answered" => rows[r] <= IF reply[r] = "job" THEN opens[r] ELSE 1

GateInv == GateTypes /\ SlotsAccounted /\ BurstInv /\ RowInv

LEMMA GateStarts == GateInit => GateInv
<1>. SUFFICES ASSUME GateInit PROVE GateInv
  OBVIOUS
<1>. USE DEF GateInit
<1>0. /\ RateWindow \in Nat \ {0} /\ RateMax \in Nat \ {0} /\ LastTime \in Nat /\ MaxOpens \in Nat
      /\ Never \in 0 .. Never /\ 0 \in 0 .. LastTime
  BY GatewayAssumption DEF Never
<1>1. GateTypes
  BY <1>0 DEF GateTypes
<1>2. SlotsAccounted
  <2>1. Running = {}
    BY DEF Running
  <2>. QED
    BY <2>1, FS_EmptySet DEF SlotsAccounted
<1>3. BurstInv
  <2>1. ASSUME NEW ip, NEW a, NEW b
        PROVE  Cardinality(Through(passed, ip, a, b)) = 0
    <3>1. Through(passed, ip, a, b) = {}
      BY DEF Through
    <3>. QED
      BY <3>1, FS_EmptySet
  <2>2. \A ip : Window(passed, ip, 0, 0)
    BY <1>0, <2>1 DEF Window
  <2>3. \A ip \in Ips, s \in 0 .. LastTime, c \in 0 .. RateMax :
           rateMap[ip] = [count |-> c, start |-> s] => s = 0 /\ c = 0
    OBVIOUS
  <2>4. \A ip \in Ips, s \in 0 .. LastTime, c \in 0 .. RateMax :
           rateMap[ip] = [count |-> c, start |-> s] => Window(passed, ip, s, c)
    <3>. SUFFICES ASSUME NEW ip \in Ips, NEW s \in 0 .. LastTime, NEW c \in 0 .. RateMax,
                         rateMap[ip] = [count |-> c, start |-> s]
                  PROVE  Window(passed, ip, s, c)
      OBVIOUS
    <3>1. s = 0 /\ c = 0
      BY <2>3
    <3>2. Window(passed, ip, 0, 0)
      BY <2>2
    <3>. QED
      BY <3>1, <3>2
  <2>5. \A ip \in Ips : rateMap[ip].start <= now
    OBVIOUS
  <2>6. \A r \in Requests : passed[r] = Never
    OBVIOUS
  <2>. QED
    BY <2>4, <2>5, <2>6 DEF BurstInv
<1>4. RowInv
  BY DEF RowInv
<1>. QED
  BY <1>1, <1>2, <1>3, <1>4 DEF GateInv

(* A slot is taken where a request begins to run and given back where it   *)
(* ends.                                                                   *)
LEMMA SlotsMove ==
    ASSUME SlotsAccounted, NEW r \in Requests, NEW place,
           stage \in [Requests -> {"new", "body", "child", "saving", "answered", "relay", "relayed"}],
           Goto(r, place)
    PROVE  /\ (stage[r] \in {"child", "saving"} <=> place \in {"child", "saving"})
              /\ activeAudits' = activeAudits => SlotsAccounted'
           /\ stage[r] \notin {"child", "saving"} /\ place \in {"child", "saving"}
              /\ activeAudits' = activeAudits + 1 => SlotsAccounted'
           /\ stage[r] \in {"child", "saving"} /\ place \notin {"child", "saving"}
              /\ activeAudits' = activeAudits - 1 => SlotsAccounted'
<1>1. \A q \in Requests : stage'[q] = IF q = r THEN place ELSE stage[q]
  BY DEF Goto
<1>. DEFINE S == Running  T == Running'
<1>2. S = {q \in Requests : stage[q] \in {"child", "saving"}}
      /\ T = {q \in Requests : stage'[q] \in {"child", "saving"}}
  BY DEF Running
<1>3. IsFiniteSet(S) /\ Cardinality(S) = activeAudits /\ activeAudits \in Nat
  <2>1. S \in SUBSET Requests
    BY <1>2
  <2>. QED
    BY <2>1, RequestsFinite DEF SlotsAccounted
<1>4. SlotsAccounted' <=> activeAudits' = Cardinality(T)
  BY DEF SlotsAccounted
<1>. HIDE DEF S, T
<1>5. ASSUME stage[r] \in {"child", "saving"} <=> place \in {"child", "saving"},
             activeAudits' = activeAudits
      PROVE  SlotsAccounted'
  <2>1. T = S
    BY <1>1, <1>2, <1>5
  <2>. QED
    BY <1>3, <1>4, <1>5, <2>1
<1>6. ASSUME stage[r] \notin {"child", "saving"}, place \in {"child", "saving"},
             activeAudits' = activeAudits + 1
      PROVE  SlotsAccounted'
  <2>1. T = S \cup {r} /\ r \notin S
    BY <1>1, <1>2, <1>6
  <2>. QED
    BY <1>3, <1>4, <1>6, <2>1, FS_AddElement
<1>7. ASSUME stage[r] \in {"child", "saving"}, place \notin {"child", "saving"},
             activeAudits' = activeAudits - 1
      PROVE  SlotsAccounted'
  <2>1. T = S \ {r} /\ r \in S
    BY <1>1, <1>2, <1>7
  <2>. QED
    BY <1>3, <1>4, <1>7, <2>1, FS_RemoveElement
<1>. QED
  BY <1>5, <1>6, <1>7

LEMMA GateSteps == GateInv /\ [GateNext]_gateVars => GateInv'
<1>. SUFFICES ASSUME GateInv, [GateNext]_gateVars PROVE GateInv'
  OBVIOUS
<1>0. /\ RateWindow \in Nat \ {0} /\ RateMax \in Nat \ {0} /\ LastTime \in Nat /\ MaxOpens \in Nat
      /\ Never = LastTime + 1
  BY GatewayAssumption DEF Never
<1>t. /\ GateTypes
      /\ SlotsAccounted
      /\ BurstInv
      /\ RowInv
  BY DEF GateInv
<1>s. stage \in [Requests -> {"new", "body", "child", "saving", "answered", "relay", "relayed"}]
  BY <1>t DEF GateTypes
<1>b. ASSUME UNCHANGED <<protected, now, rateMap, passed>>,
             \A r \in Requests : stage'[r] = "new" => stage[r] = "new"
      PROVE  BurstInv'
  BY <1>b, <1>t DEF BurstInv
<1>o. ASSUME UNCHANGED <<stage, activeAudits>>
      PROVE  SlotsAccounted'
  BY <1>o, <1>t DEF SlotsAccounted, Running
<1>1. CASE Tick
  <2>1. GateTypes'
    BY <1>1, <1>t, <1>0 DEF Tick, GateTypes
  <2>2. BurstInv'
    BY <1>1, <1>t, <1>0 DEF Tick, GateTypes, BurstInv
  <2>3. RowInv'
    BY <1>1, <1>t DEF Tick, RowInv
  <2>. QED
    BY <1>1, <1>o, <2>1, <2>2, <2>3 DEF Tick, GateInv
<1>2. ASSUME NEW r \in Requests, Arrive(r)
      PROVE  GateInv'
  <2>. DEFINE ip == AddressOf[r]
  <2>1. ip \in Ips /\ stage[r] = "new" /\ passed[r] = Never
    BY <1>2, <1>t DEF Arrive, Ips, Range, Requests, BurstInv
  <2>2. PICK place \in {"body", "answered"},
             what \in {NoReply, "limited", "busy", "error", "report", "job"} :
           /\ stage' = [stage EXCEPT ![r] = place]
           /\ reply' = [reply EXCEPT ![r] = what]
           /\ place = "answered" => what # "job"
    <3>1. \/ stage' = [stage EXCEPT ![r] = "answered"] /\ reply' = [reply EXCEPT ![r] = "limited"]
          \/ stage' = [stage EXCEPT ![r] = "answered"] /\ reply' = [reply EXCEPT ![r] = "busy"]
          \/ stage' = [stage EXCEPT ![r] = "body"] /\ reply' = reply
      BY <1>2 DEF Arrive, Answer, Goto
    <3>2. CASE stage' = [stage EXCEPT ![r] = "answered"] /\ reply' = [reply EXCEPT ![r] = "limited"]
      BY <3>2
    <3>3. CASE stage' = [stage EXCEPT ![r] = "answered"] /\ reply' = [reply EXCEPT ![r] = "busy"]
      BY <3>3
    <3>4. CASE stage' = [stage EXCEPT ![r] = "body"] /\ reply' = reply
      <4>1. /\ reply[r] \in {NoReply, "limited", "busy", "error", "report", "job"}
            /\ reply' = [reply EXCEPT ![r] = reply[r]]
        BY <3>4, <1>t DEF GateTypes
      <4>. QED
        BY <3>4, <4>1
    <3>. QED
      BY <3>1, <3>2, <3>3, <3>4
  <2>3. UNCHANGED <<proxied, protected, now, activeAudits, opens, rows>>
    BY <1>2 DEF Arrive
  <2>4. SlotsAccounted'
    <3>1. Goto(r, place)
      BY <2>2 DEF Goto
    <3>2. stage[r] \notin {"child", "saving"} /\ place \notin {"child", "saving"}
      BY <2>1, <2>2
    <3>. QED
      BY <1>s, <1>t, <2>3, <3>1, <3>2, SlotsMove
  <2>5. RowInv'
    BY <1>t, <1>s, <2>1, <2>2, <2>3 DEF RowInv
  <2>6. \A q \in Requests : stage'[q] = "new" => stage[q] = "new" /\ q # r
    BY <1>s, <2>2
  <2>7. CASE UNCHANGED <<rateMap, passed>>
    <3>1. BurstInv'
      BY <1>b, <2>3, <2>6, <2>7
    <3>2. GateTypes'
      BY <1>t, <2>2, <2>3, <2>7 DEF GateTypes
    <3>. QED
      BY <2>4, <2>5, <3>1, <3>2 DEF GateInv
  <2>8. CASE protected /\ ~isRateLimited(ip) /\ Counted(ip) /\ passed' = [passed EXCEPT ![r] = now]
    <3>. PICK p : p = passed
      OBVIOUS
    <3>. PICK p1 : p1 = passed'
      OBVIOUS
    <3>. PICK n : n = now
      OBVIOUS
    <3>. PICK s : s = rateMap[ip].start
      OBVIOUS
    <3>. PICK c : c = rateMap[ip].count
      OBVIOUS
    <3>1. /\ rateMap[ip] = [count |-> c, start |-> s] /\ c \in 0 .. RateMax /\ s \in 0 .. LastTime
          /\ n \in 0 .. LastTime /\ s <= n /\ p \in [Requests -> 0 .. Never]
      BY <1>t, <2>1 DEF GateTypes, BurstInv
    <3>2. Passes(p, p1, r, n) /\ Window(p, ip, s, c)
      <4>1. Passes(p, p1, r, n)
        BY <2>1, <2>8, <3>1 DEF Passes
      <4>2. Window(p, ip, s, c)
        BY Zenon, <1>t, <2>1, <2>8, <3>1 DEF BurstInv
      <4>. QED
        BY <4>1, <4>2
    <3>3. PICK s1 \in 0 .. LastTime, c1 \in 0 .. RateMax :
             /\ rateMap' = [rateMap EXCEPT ![ip] = [count |-> c1, start |-> s1]]
             /\ s1 <= n /\ Window(p1, ip, s1, c1)
      <4>1. CASE InWindow(ip)
        <5>1. c > 0 /\ n - s < RateWindow /\ ~(c >= RateMax)
          BY <2>8, <4>1 DEF isRateLimited, InWindow
        <5>2. c < RateMax /\ n < s + RateWindow /\ c + 1 \in 0 .. RateMax
          BY <1>0, <3>1, <5>1
        <5>3. Window(p1, ip, s, c + 1)
          BY <3>1, <3>2, <5>1, <5>2, WindowCounts
        <5>4. rateMap' = [rateMap EXCEPT ![ip] = [count |-> c + 1, start |-> s]]
          BY <2>8, <4>1 DEF Counted
        <5>. QED
          BY <3>1, <5>2, <5>3, <5>4
      <4>2. CASE ~InWindow(ip)
        <5>1. c = 0 \/ s + RateWindow <= n
          BY <1>0, <3>1, <4>2 DEF InWindow
        <5>2. Window(p1, ip, n, 1)
          BY <3>1, <3>2, <5>1, WindowBegins
        <5>3. rateMap' = [rateMap EXCEPT ![ip] = [count |-> 1, start |-> n]]
          BY <2>8, <4>2 DEF Counted
        <5>4. 1 \in 0 .. RateMax /\ n <= n
          BY <1>0, <3>1
        <5>. QED
          BY <3>1, <5>2, <5>3, <5>4
      <4>. QED
        BY <4>1, <4>2
    <3>4. GateTypes'
      <4>1. rateMap' \in [Ips -> [count : 0 .. RateMax, start : 0 .. LastTime]]
        BY <1>t, <3>3 DEF GateTypes
      <4>2. passed' \in [Requests -> 0 .. Never]
        BY <1>t, <1>0, <2>8 DEF GateTypes
      <4>. QED
        BY <1>t, <2>2, <2>3, <4>1, <4>2 DEF GateTypes
    <3>5. BurstInv'
      <4>1. ASSUME NEW q \in Requests
            PROVE  /\ stage'[q] = "new" => passed'[q] = Never
                   /\ passed'[q] # Never => passed'[q] <= now'
        <5>1. CASE q = r
          BY <1>t, <2>3, <2>6, <2>8, <3>1, <5>1 DEF GateTypes
        <5>2. CASE q # r
          BY <1>t, <2>3, <2>6, <2>8, <5>2 DEF GateTypes, BurstInv
        <5>. QED
          BY <5>1, <5>2
      <4>2. \A x \in Ips : rateMap'[x].start <= now'
        BY <1>t, <2>3, <3>3 DEF GateTypes, BurstInv
      <4>3. ASSUME NEW x \in Ips, NEW t \in 0 .. LastTime, NEW d \in 0 .. RateMax,
                   rateMap'[x] = [count |-> d, start |-> t]
            PROVE  Window(p1, x, t, d)
        <5>1. CASE x = ip
          <6>1. rateMap'[x] = [count |-> c1, start |-> s1]
            BY <1>t, <3>3, <5>1 DEF GateTypes
          <6>2. t = s1 /\ d = c1
            BY <4>3, <6>1
          <6>. QED
            BY <3>3, <5>1, <6>2
        <5>2. CASE x # ip
          <6>1. rateMap[x] = [count |-> d, start |-> t]
            BY <1>t, <3>3, <4>3, <5>2 DEF GateTypes
          <6>2. Window(p, x, t, d)
            BY Zenon, <1>t, <2>8, <4>3, <6>1 DEF BurstInv
          <6>3. \A a, b : Through(p1, x, a, b) = Through(p, x, a, b)
            BY <3>2, <5>2, OthersStay
          <6>4. \A q \in Requests : AddressOf[q] = x => p1[q] = p[q]
            BY <3>2, <5>2 DEF Passes
          <6>. QED
            BY <6>2, <6>3, <6>4 DEF Window
        <5>. QED
          BY <5>1, <5>2
      <4>4. \A x \in Ips, t \in 0 .. LastTime, d \in 0 .. RateMax :
               rateMap'[x] = [count |-> d, start |-> t] => Window(passed', x, t, d)
        BY Zenon, <4>3
      <4>. QED
        BY Zenon, <4>1, <4>2, <4>4 DEF BurstInv
    <3>. QED
      BY <2>4, <2>5, <3>4, <3>5 DEF GateInv
  <2>9. CASE ~protected /\ UNCHANGED rateMap /\ passed' = [passed EXCEPT ![r] = now]
    <3>1. GateTypes'
      BY <1>t, <1>0, <2>2, <2>3, <2>9 DEF GateTypes
    <3>2. ASSUME NEW q \in Requests
          PROVE  /\ stage'[q] = "new" => passed'[q] = Never
                 /\ passed'[q] # Never => passed'[q] <= now'
      <4>1. CASE q = r
        BY <1>t, <2>3, <2>6, <2>9, <4>1 DEF GateTypes
      <4>2. CASE q # r
        BY <1>t, <2>3, <2>6, <2>9, <4>2 DEF GateTypes, BurstInv
      <4>. QED
        BY <4>1, <4>2
    <3>3. BurstInv'
      BY <1>t, <2>3, <2>9, <3>2 DEF BurstInv
    <3>. QED
      BY <2>4, <2>5, <3>1, <3>3 DEF GateInv
  <2>. QED
    BY <1>2, <2>7, <2>8, <2>9 DEF Arrive
<1>3. ASSUME NEW r \in Requests, NEW from, NEW place,
             stage[r] = from, from # "new", place # "new", Goto(r, place),
             UNCHANGED <<proxied, protected, now, rateMap, passed>>
      PROVE  BurstInv'
  <2>1. \A q \in Requests : stage'[q] = "new" => stage[q] = "new"
    BY <1>3, <1>s DEF Goto
  <2>. QED
    BY <1>3, <1>b, <2>1
<1>4. ASSUME NEW r \in Requests, Invalid(r)
      PROVE  GateInv'
  <2>. USE <1>4 DEF Invalid, Answer
  <2>0. Goto(r, "answered") /\ stage[r] = "body" /\ activeAudits' = activeAudits
    OBVIOUS
  <2>1. GateTypes'
    BY <1>t DEF GateTypes, Goto
  <2>2. SlotsAccounted'
    BY <1>s, <1>t, <2>0, SlotsMove
  <2>3. BurstInv'
    BY <1>3, <2>0
  <2>4. RowInv'
    BY <1>t, <1>s DEF RowInv, GateTypes, Goto
  <2>. QED
    BY <2>1, <2>2, <2>3, <2>4 DEF GateInv
<1>5. ASSUME NEW r \in Requests, Spawn(r)
      PROVE  GateInv'
  <2>. USE <1>5 DEF Spawn
  <2>0. Goto(r, "child") /\ stage[r] = "body" /\ activeAudits' = activeAudits + 1
    OBVIOUS
  <2>1. GateTypes'
    BY <1>t DEF GateTypes, Goto
  <2>2. SlotsAccounted'
    BY <1>s, <1>t, <2>0, SlotsMove
  <2>3. BurstInv'
    BY <1>3, <2>0
  <2>4. RowInv'
    BY <1>t, <1>s DEF RowInv, GateTypes, Goto
  <2>. QED
    BY <2>1, <2>2, <2>3, <2>4 DEF GateInv
<1>6. ASSUME NEW r \in Requests, ChildFails(r)
      PROVE  GateInv'
  <2>. USE <1>6 DEF ChildFails, Answer
  <2>0. Goto(r, "answered") /\ stage[r] = "child" /\ activeAudits' = activeAudits - 1
    OBVIOUS
  <2>1. GateTypes'
    BY <1>t DEF GateTypes, Goto
  <2>2. SlotsAccounted'
    BY <1>s, <1>t, <2>0, SlotsMove
  <2>3. BurstInv'
    BY <1>3, <2>0
  <2>4. RowInv'
    BY <1>t, <1>s DEF RowInv, GateTypes, Goto
  <2>. QED
    BY <2>1, <2>2, <2>3, <2>4 DEF GateInv
<1>7. ASSUME NEW r \in Requests, ChildReports(r)
      PROVE  GateInv'
  <2>. USE <1>7 DEF ChildReports
  <2>0. Goto(r, "saving") /\ stage[r] = "child" /\ activeAudits' = activeAudits
    OBVIOUS
  <2>1. GateTypes'
    BY <1>t DEF GateTypes, Goto
  <2>2. SlotsAccounted'
    BY <1>s, <1>t, <2>0, SlotsMove
  <2>3. BurstInv'
    BY <1>3, <2>0
  <2>4. RowInv'
    BY <1>t, <1>s DEF RowInv, GateTypes, Goto
  <2>. QED
    BY <2>1, <2>2, <2>3, <2>4 DEF GateInv
<1>8. ASSUME NEW r \in Requests, Saved(r)
      PROVE  GateInv'
  <2>. USE <1>8 DEF Saved, Answer
  <2>0. Goto(r, "answered") /\ stage[r] = "saving" /\ activeAudits' = activeAudits - 1
    OBVIOUS
  <2>1. GateTypes'
    BY <1>t DEF GateTypes, Goto
  <2>2. SlotsAccounted'
    BY <1>s, <1>t, <2>0, SlotsMove
  <2>3. BurstInv'
    BY <1>3, <2>0
  <2>4. RowInv'
    BY <1>t, <1>s DEF RowInv, GateTypes, Goto
  <2>. QED
    BY <2>1, <2>2, <2>3, <2>4 DEF GateInv
<1>9. ASSUME NEW r \in Requests, ForwardJob(r)
      PROVE  GateInv'
  <2>. USE <1>9 DEF ForwardJob, Answer
  <2>0. Goto(r, "answered") /\ stage[r] = "body" /\ activeAudits' = activeAudits
    OBVIOUS
  <2>1. GateTypes'
    BY <1>t DEF GateTypes, Goto
  <2>2. SlotsAccounted'
    BY <1>s, <1>t, <2>0, SlotsMove
  <2>3. BurstInv'
    BY <1>3, <2>0
  <2>4. RowInv'
    BY <1>t, <1>s DEF RowInv, GateTypes, Goto
  <2>. QED
    BY <2>1, <2>2, <2>3, <2>4 DEF GateInv
<1>10. ASSUME NEW r \in Requests, RelayDone(r)
      PROVE  GateInv'
  <2>. USE <1>10 DEF RelayDone
  <2>0. Goto(r, "relayed") /\ stage[r] = "relay" /\ activeAudits' = activeAudits
    OBVIOUS
  <2>1. GateTypes'
    BY <1>t DEF GateTypes, Goto
  <2>2. SlotsAccounted'
    BY <1>s, <1>t, <2>0, SlotsMove
  <2>3. BurstInv'
    BY <1>3, <2>0
  <2>4. RowInv'
    <3>1. reply[r] = "job" /\ rows[r] + 1 <= opens[r] /\ rows[r] <= opens[r]
      BY <1>t DEF RowInv, GateTypes
    <3>2. /\ opens' = opens /\ reply' = reply
          /\ rows' = rows \/ rows' = [rows EXCEPT ![r] = @ + 1]
          /\ stage' = [stage EXCEPT ![r] = "relayed"]
      BY DEF Goto
    <3>3. ASSUME NEW q \in Requests, q # r
          PROVE  stage'[q] = stage[q] /\ rows'[q] = rows[q]
      BY <1>t, <3>2, <3>3 DEF GateTypes
    <3>4. stage'[r] = "relayed" /\ rows'[r] \in {rows[r], rows[r] + 1}
      BY <1>t, <3>2 DEF GateTypes
    <3>5. ASSUME NEW q \in Requests
          PROVE  /\ stage'[q] \in {"new", "body", "child", "saving"} => rows'[q] = 0 /\ opens'[q] = 0
                 /\ stage'[q] = "relay" => reply'[q] = "job" /\ rows'[q] < opens'[q]
                 /\ stage'[q] = "relayed" => reply'[q] = "job" /\ rows'[q] <= opens'[q]
                 /\ stage'[q] = "answered" => rows'[q] <= IF reply'[q] = "job" THEN opens'[q] ELSE 1
      <4>1. CASE q = r
        BY <3>1, <3>2, <3>4, <4>1
      <4>2. CASE q # r
        BY <1>t, <3>2, <3>3, <4>2 DEF RowInv
      <4>. QED
        BY <4>1, <4>2
    <3>. QED
      BY <3>5 DEF RowInv
  <2>. QED
    BY <2>1, <2>2, <2>3, <2>4 DEF GateInv
<1>11. ASSUME NEW r \in Requests, RelayEnds(r)
      PROVE  GateInv'
  <2>. USE <1>11 DEF RelayEnds
  <2>0. /\ Goto(r, "answered") /\ stage[r] \in {"relay", "relayed"}
        /\ activeAudits' = activeAudits
    OBVIOUS
  <2>1. GateTypes'
    BY <1>t DEF GateTypes, Goto
  <2>2. SlotsAccounted'
    BY <1>s, <1>t, <2>0, SlotsMove
  <2>3. BurstInv'
    BY <1>3, <2>0
  <2>4. RowInv'
    BY <1>t, <1>s DEF RowInv, GateTypes, Goto
  <2>. QED
    BY <2>1, <2>2, <2>3, <2>4 DEF GateInv
<1>12. ASSUME NEW r \in Requests, Open(r)
      PROVE  GateInv'
  <2>. USE <1>12 DEF Open, Goto
  <2>1. GateTypes'
    BY <1>t, <1>0 DEF GateTypes
  <2>2. SlotsAccounted'
    BY <1>s, <1>t, SlotsMove
  <2>3. BurstInv'
    BY <1>3
  <2>4. RowInv'
    BY <1>t, <1>s DEF RowInv, GateTypes
  <2>. QED
    BY <2>1, <2>2, <2>3, <2>4 DEF GateInv
<1>13. CASE UNCHANGED gateVars
  BY <1>13, <1>t, <1>b, <1>o DEF gateVars, GateInv, GateTypes, RowInv
<1>. QED
  BY <1>1, <1>2, <1>4, <1>5, <1>6, <1>7, <1>8, <1>9, <1>10, <1>11, <1>12, <1>13
     DEF GateNext, Handle

(* The gateway's requests, windows, slots and rows are as said above.      *)
THEOREM GateInvariant == GateSpec => []GateInv
<1>1. GateInit => GateInv
  BY GateStarts
<1>2. GateInv /\ [GateNext]_gateVars => GateInv'
  BY GateSteps
<1>. QED
  BY <1>1, <1>2, PTL DEF GateSpec

(* The gateway's state has its types: at no time does it count more audits *)
(* than requests came, a negative number of them, or more requests in a    *)
(* window than RATE_LIMIT_MAX.                                             *)
THEOREM GateTypeCorrect == GateSpec => []GateTypeOK
<1>1. GateInv => GateTypeOK
  <2>. SUFFICES ASSUME GateInv PROVE GateTypeOK
    OBVIOUS
  <2>1. activeAudits \in 0 .. Len(AddressOf)
    <3>1. Running \in SUBSET Requests
      BY DEF Running
    <3>. QED
      BY <3>1, RequestsFinite DEF GateInv, SlotsAccounted
  <2>2. rows \in [Requests -> 0 .. MaxOpens + 1]
    <3>1. ASSUME NEW r \in Requests
          PROVE  rows[r] \in 0 .. MaxOpens + 1
      <4>1. /\ rows[r] \in Nat /\ opens[r] \in 0 .. MaxOpens /\ MaxOpens \in Nat
            /\ stage[r] \in {"new", "body", "child", "saving", "answered", "relay", "relayed"}
        BY GatewayAssumption DEF GateInv, GateTypes
      <4>2. rows[r] <= MaxOpens + 1
        BY <4>1 DEF GateInv, RowInv
      <4>. QED
        BY <4>1, <4>2
    <3>. QED
      BY <3>1 DEF GateInv, GateTypes
  <2>. QED
    BY <2>1, <2>2 DEF GateInv, GateTypes, GateTypeOK
<1>. QED
  BY <1>1, GateInvariant, PTL

(* activeAudits is the number of requests that run a child or save its     *)
(* report: on every way out of the handler the slot is given back, once.   *)
THEOREM SlotsAreAccounted == GateSpec => []SlotsAccounted
<1>1. GateInv => SlotsAccounted
  BY DEF GateInv
<1>. QED
  BY <1>1, GateInvariant, PTL

(* Where the protection is on, isRateLimited counts in windows that begin  *)
(* with a request, not in a window that slides; a burst across the border  *)
(* of two of them stays below 2 * RATE_LIMIT_MAX all the same: a stretch   *)
(* no longer than a window that reaches into the second has left out the   *)
(* request that began the first.                                           *)
THEOREM BurstsAreBounded == GateSpec => []BurstBounded
<1>1. GateInv => BurstBounded
  <2>. SUFFICES ASSUME GateInv, protected, NEW ip \in Ips, NEW from \in 0 .. now
                PROVE  Cardinality(Through(passed, ip, from, from + RateWindow - 1)) < 2 * RateMax
    BY DEF BurstBounded, Through
  <2>1. /\ rateMap[ip] \in [count : 0 .. RateMax, start : 0 .. LastTime]
        /\ now \in 0 .. LastTime /\ LastTime \in Nat
    BY GatewayAssumption DEF GateInv, GateTypes
  <2>2. PICK s \in 0 .. LastTime, c \in 0 .. RateMax : rateMap[ip] = [count |-> c, start |-> s]
    BY <2>1
  <2>3. Window(passed, ip, s, c)
    BY <2>2 DEF GateInv, BurstInv
  <2>4. from \in 0 .. LastTime
    BY <2>1
  <2>. QED
    BY <2>3, <2>4 DEF Window
<1>. QED
  BY <1>1, GateInvariant, PTL

(* A report is stored at most once by the request whose child wrote it,    *)
(* and at most once by each stream that was opened on its job: a second    *)
(* row can only come from a page that opened the stream again.             *)
THEOREM RowsAreStoredOnce ==
    GateSpec => [](\A r \in Requests : rows[r] <= IF reply[r] = "job" THEN opens[r] ELSE 1)
<1>1. GateInv => \A r \in Requests : rows[r] <= IF reply[r] = "job" THEN opens[r] ELSE 1
  <2>. SUFFICES ASSUME GateInv, NEW r \in Requests
                PROVE  rows[r] <= IF reply[r] = "job" THEN opens[r] ELSE 1
    OBVIOUS
  <2>1. /\ rows[r] \in Nat /\ opens[r] \in 0 .. MaxOpens /\ MaxOpens \in Nat
        /\ stage[r] \in {"new", "body", "child", "saving", "answered", "relay", "relayed"}
    BY GatewayAssumption DEF GateInv, GateTypes
  <2>2. /\ stage[r] \in {"new", "body", "child", "saving"} => rows[r] = 0 /\ opens[r] = 0
        /\ stage[r] = "relay" => reply[r] = "job" /\ rows[r] < opens[r]
        /\ stage[r] = "relayed" => reply[r] = "job" /\ rows[r] <= opens[r]
        /\ stage[r] = "answered" => rows[r] <= IF reply[r] = "job" THEN opens[r] ELSE 1
    BY DEF GateInv, RowInv
  <2>. QED
    BY <2>1, <2>2
<1>. QED
  BY <1>1, GateInvariant, PTL
=============================================================================

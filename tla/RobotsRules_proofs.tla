------------------------ MODULE RobotsRules_proofs ------------------------
(***************************************************************************)
(* Proofs about RobotsRules, for any agents, paths, delays and bodies.     *)
(***************************************************************************)
EXTENDS RobotsRules, WellFoundedInduction, TLAPS

(* A ban of all crawlers that was noted is in a block that has ended, or   *)
(* is a rule of the one that is being read.                                *)
StarInv ==
    result.star =>
       <<Star, Root>> \in result.disallow \/ (Star \in uas /\ Root \in disallows)

LEMMA LineTyped ==
    ASSUME TypeOK, NEW l \in Lines, Line(l)
    PROVE  text' \in Seq(Lines)
BY DEF TypeOK, Line

LEMMA LinesAre ==
    /\ \A k \in {"blank", "comment", "sitemap", "other"} : [kind |-> k] \in Lines
    /\ \A a \in Agents : [kind |-> "agent", agent |-> a] \in Lines
    /\ \A k \in {"disallow", "allow"}, p \in Paths : [kind |-> k, path |-> p] \in Lines
    /\ \A s \in Delays : [kind |-> "delay", secs |-> s] \in Lines
BY DEF Lines

Results ==
    [disallow : SUBSET (Agents \X Paths), allow : SUBSET (Agents \X Paths),
     delays : SUBSET (Agents \X Delays), star : BOOLEAN, sitemap : BOOLEAN]

LEMMA FlushedTyped ==
    ASSUME TypeOK
    PROVE  Flushed \in Results
BY DEF TypeOK, Flushed, Results

(* What a flush does to the two fields StarInv is about.                   *)
LEMMA FlushKeeps ==
    ASSUME TypeOK
    PROVE  /\ Flushed.star = result.star
           /\ Flushed.disallow = result.disallow \cup (uas \X disallows)
BY DEF TypeOK, Flushed

LEMMA TypeOKKept ==
    ASSUME TypeOK, [Next]_vars
    PROVE  TypeOK'
<1>0. CASE UNCHANGED vars
  BY <1>0 DEF vars, TypeOK
<1>1. ASSUME NEW k \in {"blank", "comment"}, EmptyLine(k) PROVE TypeOK'
  <2>1. text' \in Seq(Lines)
    BY <1>1, LineTyped, LinesAre DEF EmptyLine
  <2>. QED
    BY <1>1, <2>1, FlushedTyped DEF EmptyLine, TypeOK, Results
<1>2. ASSUME NEW a \in Agents, AgentLine(a) PROVE TypeOK'
  <2>1. text' \in Seq(Lines)
    BY <1>2, LineTyped, LinesAre DEF AgentLine
  <2>. QED
    BY <1>2, <2>1 DEF AgentLine, TypeOK
<1>3. ASSUME NEW p \in Paths, DisallowLine(p) PROVE TypeOK'
  <2>1. text' \in Seq(Lines)
    BY <1>3, LineTyped, LinesAre DEF DisallowLine
  <2>. QED
    BY <1>3, <2>1 DEF DisallowLine, TypeOK
<1>4. ASSUME NEW p \in Paths, AllowLine(p) PROVE TypeOK'
  <2>1. text' \in Seq(Lines)
    BY <1>4, LineTyped, LinesAre DEF AllowLine
  <2>. QED
    BY <1>4, <2>1 DEF AllowLine, TypeOK
<1>5. ASSUME NEW s \in Delays, DelayLine(s) PROVE TypeOK'
  <2>1. text' \in Seq(Lines)
    BY <1>5, LineTyped, LinesAre DEF DelayLine
  <2>. QED
    BY <1>5, <2>1 DEF DelayLine, TypeOK
<1>6. CASE SitemapLine
  <2>1. text' \in Seq(Lines)
    BY <1>6, LineTyped, LinesAre DEF SitemapLine
  <2>. QED
    BY <1>6, <2>1 DEF SitemapLine, TypeOK
<1>7. CASE OtherLine
  <2>1. text' \in Seq(Lines)
    BY <1>7, LineTyped, LinesAre DEF OtherLine
  <2>. QED
    BY <1>7, <2>1 DEF OtherLine, TypeOK
<1>. QED
  BY <1>0, <1>1, <1>2, <1>3, <1>4, <1>5, <1>6, <1>7 DEF Next

LEMMA StarInvKept ==
    ASSUME TypeOK, StarInv, [Next]_vars
    PROVE  StarInv'
<1>0. CASE UNCHANGED vars
  BY <1>0 DEF vars, StarInv
<1>1. ASSUME NEW k \in {"blank", "comment"}, EmptyLine(k) PROVE StarInv'
  BY <1>1, FlushKeeps DEF EmptyLine, StarInv
<1>2. ASSUME NEW a \in Agents, AgentLine(a) PROVE StarInv'
  BY <1>2 DEF AgentLine, StarInv
<1>3. ASSUME NEW p \in Paths, DisallowLine(p) PROVE StarInv'
  BY <1>3 DEF DisallowLine, StarInv, TypeOK
<1>4. ASSUME NEW p \in Paths, AllowLine(p) PROVE StarInv'
  BY <1>4 DEF AllowLine, StarInv
<1>5. ASSUME NEW s \in Delays, DelayLine(s) PROVE StarInv'
  BY <1>5 DEF DelayLine, StarInv
<1>6. CASE SitemapLine
  BY <1>6 DEF SitemapLine, StarInv, TypeOK
<1>7. CASE OtherLine
  BY <1>7 DEF OtherLine, StarInv
<1>. QED
  BY <1>0, <1>1, <1>2, <1>3, <1>4, <1>5, <1>6, <1>7 DEF Next

(* Type correctness of the parser.                                         *)
THEOREM TypeCorrect == Spec => []TypeOK
<1>1. Init => TypeOK
  BY DEF Init, TypeOK
<1>2. TypeOK /\ [Next]_vars => TypeOK'
  BY TypeOKKept
<1>. QED
  BY <1>1, <1>2, PTL DEF Spec

(* A site-wide ban the auditor reports is one the gate obeys: the flag is  *)
(* set in passing, and no end of a block can take its rule away.           *)
THEOREM BansAreReal == Spec => []StarSound
<1>1. Init => StarInv
  BY DEF Init, StarInv
<1>2. TypeOK /\ StarInv /\ [Next]_vars => StarInv'
  BY StarInvKept
<1>3. TypeOK /\ StarInv => StarSound
  BY FlushKeeps DEF StarInv, StarSound, Parsed
<1>. QED
  BY <1>1, <1>2, <1>3, TypeCorrect, PTL DEF Spec

-----------------------------------------------------------------------------
(***************************************************************************)
(* Reading by the line against dividing the body.                          *)
(***************************************************************************)

AgentOf(a) == [kind |-> "agent", agent |-> a]
DisallowOf(p) == [kind |-> "disallow", path |-> p]
AllowOf(p) == [kind |-> "allow", path |-> p]
DelayOf(s) == [kind |-> "delay", secs |-> s]

(* Line i is in the block that is being read.                              *)
Open(i) == \A k \in DOMAIN text : i <= k => text[k].kind \notin Ends

OpenHas(l) == \E i \in DOMAIN text : Open(i) /\ text[i] = l

(* Line i names the agent and line j, in the same block, is l.             *)
Pair(i, j, a, l) ==
    /\ i \in DOMAIN text /\ j \in DOMAIN text
    /\ text[i] = AgentOf(a)
    /\ text[j] = l
    /\ Together(i, j, Ends)

Paired(a, l) == \E i, j \in DOMAIN text : Pair(i, j, a, l)

EndedHas(a, l) == \E i, j \in DOMAIN text : Pair(i, j, a, l) /\ ~Open(i)

(* Line j is the last delay of its block.                                  *)
LastDelay(j) ==
    \A k \in DOMAIN text : k > j /\ text[k].kind = "delay" => ~Together(j, k, Ends)

OpenLast(s) == \E j \in DOMAIN text : Open(j) /\ text[j] = DelayOf(s) /\ LastDelay(j)

PairedLast(a, s) == \E i, j \in DOMAIN text : Pair(i, j, a, DelayOf(s)) /\ LastDelay(j)

EndedLast(a, s) ==
    \E i, j \in DOMAIN text : Pair(i, j, a, DelayOf(s)) /\ LastDelay(j) /\ ~Open(i)

(* The four lists hold what the lines of the open block say, and the       *)
(* result what the ended ones do.                                          *)
BlockInv ==
    /\ \A a \in Agents : a \in uas <=> OpenHas(AgentOf(a))
    /\ \A p \in Paths : p \in disallows <=> OpenHas(DisallowOf(p))
    /\ \A p \in Paths : p \in allows <=> OpenHas(AllowOf(p))
    /\ \A s \in Delays : s \in delay <=> OpenLast(s)
    /\ \A a \in Agents, p \in Paths :
          /\ <<a, p>> \in result.disallow <=> EndedHas(a, DisallowOf(p))
          /\ <<a, p>> \in result.allow <=> EndedHas(a, AllowOf(p))
    /\ \A a \in Agents, s \in Delays : <<a, s>> \in result.delays <=> EndedLast(a, s)

(* What a line adds to the body.                                           *)
LEMMA BodyGrows ==
    ASSUME TypeOK, NEW m \in Lines, Line(m)
    PROVE  /\ Len(text) \in Nat
           /\ DOMAIN text = 1 .. Len(text)
           /\ DOMAIN text' = 1 .. (Len(text) + 1)
           /\ DOMAIN text' = DOMAIN text \cup {Len(text) + 1}
           /\ \A i \in DOMAIN text : text'[i] = text[i]
           /\ text'[Len(text) + 1] = m
<1>1. \A n \in Nat : 1 .. (n + 1) = (1 .. n) \cup {n + 1}
  OBVIOUS
<1>2. text \in Seq(Lines) /\ text' = Append(text, m)
  BY DEF TypeOK, Line
<1>3. /\ Len(text) \in Nat
      /\ DOMAIN text = 1 .. Len(text)
      /\ DOMAIN text' = 1 .. (Len(text) + 1)
      /\ \A i \in DOMAIN text : text'[i] = text[i]
      /\ text'[Len(text) + 1] = m
  BY <1>2
<1>. QED
  BY <1>1, <1>3

LEMMA OpenGrows ==
    ASSUME TypeOK, NEW m \in Lines, Line(m), NEW i \in DOMAIN text
    PROVE  Open(i)' <=> Open(i) /\ m.kind \notin Ends
BY BodyGrows DEF Open

LEMMA TogetherGrows ==
    ASSUME TypeOK, NEW m \in Lines, Line(m), NEW n, n = Len(text) + 1
    PROVE  /\ \A i, j \in DOMAIN text : Together(i, j, Ends)' <=> Together(i, j, Ends)
           /\ \A i \in DOMAIN text :
                 text[i].kind \notin Ends => (Together(i, n, Ends)' <=> Open(i))
<1>1. ASSUME NEW i \in DOMAIN text, NEW j \in DOMAIN text
      PROVE  Together(i, j, Ends)' <=> Together(i, j, Ends)
  BY BodyGrows DEF Together
<1>2. ASSUME NEW i \in DOMAIN text, text[i].kind \notin Ends
      PROVE  Together(i, n, Ends)' <=> Open(i)
  BY <1>2, BodyGrows DEF Together, Open
<1>. QED
  BY <1>1, <1>2

(* Lines of one block that has not ended are together, and together with   *)
(* no other.                                                               *)
LEMMA OpenIsTogether ==
    ASSUME TypeOK, NEW i \in DOMAIN text, NEW j \in DOMAIN text,
           text[i].kind \notin Ends, text[j].kind \notin Ends, Open(i)
    PROVE  Open(j) <=> Together(i, j, Ends)
<1>1. DOMAIN text = 1 .. Len(text) /\ Len(text) \in Nat
  BY DEF TypeOK
<1>. QED
  BY <1>1 DEF Open, Together

LEMMA TogetherIsEven ==
    \A i, j \in DOMAIN text : Together(i, j, Ends) <=> Together(j, i, Ends)
BY DEF Together

LEMMA KindsAreApart ==
    /\ \A a : AgentOf(a).kind = "agent"
    /\ \A p : DisallowOf(p).kind = "disallow"
    /\ \A p : AllowOf(p).kind = "allow"
    /\ \A s : DelayOf(s).kind = "delay"
    /\ {"agent", "disallow", "allow", "delay"} \cap Ends = {}
BY DEF AgentOf, DisallowOf, AllowOf, DelayOf, Ends

(* A rule of the body is one of an ended block or one of the open block.   *)
LEMMA PairsAreSplit ==
    ASSUME TypeOK, NEW a, NEW l, l.kind \notin Ends
    PROVE  Paired(a, l) <=> EndedHas(a, l) \/ (OpenHas(AgentOf(a)) /\ OpenHas(l))
<1>1. AgentOf(a).kind \notin Ends
  BY KindsAreApart
<1>2. ASSUME NEW i \in DOMAIN text, NEW j \in DOMAIN text, Pair(i, j, a, l), Open(i)
      PROVE  OpenHas(AgentOf(a)) /\ OpenHas(l)
  BY <1>1, <1>2, OpenIsTogether DEF Pair, OpenHas
<1>3. ASSUME NEW i \in DOMAIN text, NEW j \in DOMAIN text,
             Open(i), text[i] = AgentOf(a), Open(j), text[j] = l
      PROVE  Pair(i, j, a, l)
  BY <1>1, <1>3, OpenIsTogether DEF Pair
<1>. QED
  BY <1>2, <1>3 DEF Paired, EndedHas, OpenHas

LEMMA LastIsSplit ==
    ASSUME TypeOK, NEW a, NEW s
    PROVE  PairedLast(a, s) <=> EndedLast(a, s) \/ (OpenHas(AgentOf(a)) /\ OpenLast(s))
<1>1. AgentOf(a).kind \notin Ends /\ DelayOf(s).kind \notin Ends
  BY KindsAreApart
<1>2. ASSUME NEW i \in DOMAIN text, NEW j \in DOMAIN text,
             Pair(i, j, a, DelayOf(s)), LastDelay(j), Open(i)
      PROVE  OpenHas(AgentOf(a)) /\ OpenLast(s)
  BY <1>1, <1>2, OpenIsTogether DEF Pair, OpenHas, OpenLast
<1>3. ASSUME NEW i \in DOMAIN text, NEW j \in DOMAIN text,
             Open(i), text[i] = AgentOf(a), Open(j), text[j] = DelayOf(s)
      PROVE  Pair(i, j, a, DelayOf(s))
  BY <1>1, <1>3, OpenIsTogether DEF Pair
<1>. QED
  BY <1>2, <1>3 DEF PairedLast, EndedLast, OpenLast, OpenHas

(* What the open block has after a line, and the ended ones.               *)
LEMMA OpenHasGrows ==
    ASSUME TypeOK, NEW m \in Lines, Line(m), NEW l, l.kind \notin Ends
    PROVE  OpenHas(l)' <=> m.kind \notin Ends /\ (m = l \/ OpenHas(l))
<1>. PICK n : n = Len(text) + 1
  OBVIOUS
<1>1. n \in DOMAIN text' /\ text'[n] = m /\ (Open(n)' <=> m.kind \notin Ends)
  BY BodyGrows DEF Open
<1>2. DOMAIN text' = DOMAIN text \cup {n}
  BY BodyGrows
<1>. QED
  BY <1>1, <1>2, BodyGrows, OpenGrows DEF OpenHas

LEMMA PairGrows ==
    ASSUME TypeOK, NEW m \in Lines, Line(m), NEW a, NEW l
    PROVE  \A i, j \in DOMAIN text : Pair(i, j, a, l)' <=> Pair(i, j, a, l)
<1>1. DOMAIN text \subseteq DOMAIN text'
  BY BodyGrows
<1>. QED
  BY <1>1, BodyGrows, TogetherGrows DEF Pair

(* A line puts none of its own into an ended block.                        *)
LEMMA EndedIsOld ==
    ASSUME TypeOK, NEW m \in Lines, Line(m), NEW a, NEW l, l.kind \notin Ends,
           NEW i \in DOMAIN text', NEW j \in DOMAIN text', Pair(i, j, a, l)', ~Open(i)'
    PROVE  /\ i \in DOMAIN text /\ j \in DOMAIN text
           /\ Pair(i, j, a, l)
           /\ m.kind \notin Ends => ~Open(i)
<1>. PICK n : n = Len(text) + 1
  OBVIOUS
<1>1. DOMAIN text' = DOMAIN text \cup {n} /\ text'[n] = m
  BY BodyGrows
<1>2. text'[i].kind \notin Ends /\ text'[j].kind \notin Ends
  BY KindsAreApart DEF Pair
<1>3. CASE m.kind \in Ends
  <2>1. i \in DOMAIN text /\ j \in DOMAIN text
    BY <1>1, <1>2, <1>3
  <2>. QED
    BY <1>3, <2>1, PairGrows
<1>4. CASE m.kind \notin Ends
  <2>1. Open(n)'
    BY <1>4, BodyGrows DEF Open
  <2>2. i \in DOMAIN text /\ ~Open(i)
    BY <1>1, <1>4, <2>1, OpenGrows
  <2>3. j # n
    BY <1>2, <2>2, BodyGrows, TogetherGrows DEF Pair
  <2>. QED
    BY <1>1, <2>2, <2>3, PairGrows
<1>. QED
  BY <1>3, <1>4

LEMMA EndedHasGrows ==
    ASSUME TypeOK, NEW m \in Lines, Line(m), NEW a, NEW l, l.kind \notin Ends
    PROVE  EndedHas(a, l)' <=>
              EndedHas(a, l) \/ (m.kind \in Ends /\ OpenHas(AgentOf(a)) /\ OpenHas(l))
<1>1. DOMAIN text \subseteq DOMAIN text'
  BY BodyGrows
<1>2. ASSUME EndedHas(a, l)'
      PROVE  EndedHas(a, l) \/ (m.kind \in Ends /\ Paired(a, l))
  BY <1>2, EndedIsOld DEF EndedHas, Paired
<1>3. ASSUME EndedHas(a, l) \/ (m.kind \in Ends /\ Paired(a, l))
      PROVE  EndedHas(a, l)'
  BY <1>1, <1>3, PairGrows, OpenGrows DEF EndedHas, Paired
<1>. QED
  BY <1>2, <1>3, PairsAreSplit

(* The same of delays: a line can only take the place of the last delay of *)
(* the block that is open.                                                 *)
LEMMA LastGrows ==
    ASSUME TypeOK, NEW m \in Lines, Line(m), NEW j \in DOMAIN text, text[j].kind = "delay"
    PROVE  LastDelay(j)' <=> LastDelay(j) /\ ~(m.kind = "delay" /\ Open(j))
<1>. PICK n : n = Len(text) + 1
  OBVIOUS
<1>1. /\ DOMAIN text' = DOMAIN text \cup {n} /\ text'[n] = m
      /\ \A i \in DOMAIN text : text'[i] = text[i]
  BY BodyGrows
<1>0. n > j
  BY BodyGrows
<1>2. Together(j, n, Ends)' <=> Open(j)
  BY TogetherGrows, KindsAreApart DEF Ends
<1>3. \A k \in DOMAIN text : Together(j, k, Ends)' <=> Together(j, k, Ends)
  BY TogetherGrows
<1>. QED
  BY <1>0, <1>1, <1>2, <1>3 DEF LastDelay

LEMMA OpenLastGrows ==
    ASSUME TypeOK, NEW m \in Lines, Line(m), NEW s
    PROVE  OpenLast(s)' <=>
              /\ m.kind \notin Ends
              /\ m = DelayOf(s) \/ (m.kind # "delay" /\ OpenLast(s))
<1>. PICK n : n = Len(text) + 1
  OBVIOUS
<1>1. /\ DOMAIN text' = DOMAIN text \cup {n} /\ text'[n] = m
      /\ \A i \in DOMAIN text : text'[i] = text[i]
  BY BodyGrows
<1>2. LastDelay(n)' /\ (Open(n)' <=> m.kind \notin Ends)
  BY BodyGrows DEF Open, LastDelay
<1>3. DelayOf(s).kind = "delay"
  BY KindsAreApart
<1>4. ASSUME NEW j \in DOMAIN text, text[j] = DelayOf(s)
      PROVE  Open(j)' /\ LastDelay(j)' <=>
                m.kind \notin Ends /\ m.kind # "delay" /\ Open(j) /\ LastDelay(j)
  BY <1>3, <1>4, LastGrows, OpenGrows
<1>. QED
  BY <1>1, <1>2, <1>3, <1>4 DEF OpenLast

LEMMA EndedLastGrows ==
    ASSUME TypeOK, NEW m \in Lines, Line(m), NEW a, NEW s
    PROVE  EndedLast(a, s)' <=>
              EndedLast(a, s) \/ (m.kind \in Ends /\ OpenHas(AgentOf(a)) /\ OpenLast(s))
<1>. DEFINE l == DelayOf(s)
<1>1. DOMAIN text \subseteq DOMAIN text' /\ l.kind = "delay" /\ l.kind \notin Ends
  BY BodyGrows, KindsAreApart
<1>2. ASSUME NEW i \in DOMAIN text, NEW j \in DOMAIN text, Pair(i, j, a, l)
      PROVE  Open(i) <=> Open(j)
  BY <1>1, <1>2, OpenIsTogether, TogetherIsEven, KindsAreApart DEF Pair
<1>3. ASSUME NEW j \in DOMAIN text, text[j] = l, ~Open(j) \/ m.kind \in Ends
      PROVE  LastDelay(j)' <=> LastDelay(j)
  BY <1>1, <1>3, LastGrows DEF Ends
<1>4. ASSUME EndedLast(a, s)'
      PROVE  EndedLast(a, s) \/ (m.kind \in Ends /\ PairedLast(a, s))
  <2>1. PICK i \in DOMAIN text', j \in DOMAIN text' :
           Pair(i, j, a, l)' /\ LastDelay(j)' /\ ~Open(i)'
    BY <1>4 DEF EndedLast
  <2>2. /\ i \in DOMAIN text /\ j \in DOMAIN text /\ Pair(i, j, a, l)
        /\ m.kind \notin Ends => ~Open(i)
    BY <1>1, <2>1, EndedIsOld
  <2>3. LastDelay(j)
    BY <1>2, <1>3, <2>1, <2>2 DEF Pair
  <2>. QED
    BY <2>2, <2>3 DEF EndedLast, PairedLast
<1>5. ASSUME EndedLast(a, s) \/ (m.kind \in Ends /\ PairedLast(a, s))
      PROVE  EndedLast(a, s)'
  <2>1. PICK i \in DOMAIN text, j \in DOMAIN text :
           Pair(i, j, a, l) /\ LastDelay(j) /\ (~Open(i) \/ m.kind \in Ends)
    BY <1>5 DEF EndedLast, PairedLast
  <2>2. Pair(i, j, a, l)' /\ ~Open(i)'
    BY <2>1, PairGrows, OpenGrows
  <2>3. LastDelay(j)'
    BY <1>2, <1>3, <2>1 DEF Pair
  <2>. QED
    BY <1>1, <2>2, <2>3 DEF EndedLast
<1>. QED
  BY <1>4, <1>5, LastIsSplit

LEMMA FlushedFields ==
    ASSUME TypeOK
    PROVE  /\ Flushed.disallow = result.disallow \cup (uas \X disallows)
           /\ Flushed.allow = result.allow \cup (uas \X allows)
           /\ Flushed.delays = result.delays \cup (uas \X delay)
BY DEF TypeOK, Flushed

(* A line that ends no block leaves the ended blocks as they are.          *)
LEMMA EndedStay ==
    ASSUME TypeOK, NEW m \in Lines, Line(m), m.kind \notin Ends
    PROVE  /\ \A a \in Agents, p \in Paths :
                 /\ EndedHas(a, DisallowOf(p))' <=> EndedHas(a, DisallowOf(p))
                 /\ EndedHas(a, AllowOf(p))' <=> EndedHas(a, AllowOf(p))
           /\ \A a \in Agents, s \in Delays : EndedLast(a, s)' <=> EndedLast(a, s)
<1>1. ASSUME NEW a \in Agents, NEW p \in Paths
      PROVE  /\ EndedHas(a, DisallowOf(p))' <=> EndedHas(a, DisallowOf(p))
             /\ EndedHas(a, AllowOf(p))' <=> EndedHas(a, AllowOf(p))
  BY EndedHasGrows, KindsAreApart
<1>2. ASSUME NEW a \in Agents, NEW s \in Delays
      PROVE  EndedLast(a, s)' <=> EndedLast(a, s)
  BY EndedLastGrows
<1>. QED
  BY <1>1, <1>2

(* What the open block has after such a line.                              *)
LEMMA OpenStay ==
    ASSUME TypeOK, NEW m \in Lines, Line(m), m.kind \notin Ends
    PROVE  /\ \A a \in Agents : OpenHas(AgentOf(a))' <=> m = AgentOf(a) \/ OpenHas(AgentOf(a))
           /\ \A p \in Paths :
                 /\ OpenHas(DisallowOf(p))' <=> m = DisallowOf(p) \/ OpenHas(DisallowOf(p))
                 /\ OpenHas(AllowOf(p))' <=> m = AllowOf(p) \/ OpenHas(AllowOf(p))
           /\ \A s \in Delays :
                 OpenLast(s)' <=> m = DelayOf(s) \/ (m.kind # "delay" /\ OpenLast(s))
<1>1. \A a \in Agents : OpenHas(AgentOf(a))' <=> m = AgentOf(a) \/ OpenHas(AgentOf(a))
  BY OpenHasGrows, KindsAreApart
<1>2. ASSUME NEW p \in Paths
      PROVE  /\ OpenHas(DisallowOf(p))' <=> m = DisallowOf(p) \/ OpenHas(DisallowOf(p))
             /\ OpenHas(AllowOf(p))' <=> m = AllowOf(p) \/ OpenHas(AllowOf(p))
  BY OpenHasGrows, KindsAreApart
<1>3. \A s \in Delays :
         OpenLast(s)' <=> m = DelayOf(s) \/ (m.kind # "delay" /\ OpenLast(s))
  BY OpenLastGrows
<1>. QED
  BY <1>1, <1>2, <1>3

LEMMA BlockInvEmpty ==
    ASSUME TypeOK, BlockInv, NEW k \in {"blank", "comment"}, EmptyLine(k)
    PROVE  BlockInv'
<1>. PICK m \in Lines : m = [kind |-> k]
  BY LinesAre
<1>1. Line(m) /\ m.kind \in Ends
  BY DEF EmptyLine, Ends
<1>2. /\ \A a \in Agents : ~OpenHas(AgentOf(a))'
      /\ \A p \in Paths : ~OpenHas(DisallowOf(p))'
      /\ \A p \in Paths : ~OpenHas(AllowOf(p))'
      /\ \A s \in Delays : ~OpenLast(s)'
  BY <1>1, OpenHasGrows, OpenLastGrows, KindsAreApart
<1>3. ASSUME NEW a \in Agents, NEW p \in Paths
      PROVE  <<a, p>> \in result'.disallow <=> EndedHas(a, DisallowOf(p))'
  <2>1. EndedHas(a, DisallowOf(p))'
           <=> EndedHas(a, DisallowOf(p)) \/ (OpenHas(AgentOf(a)) /\ OpenHas(DisallowOf(p)))
    BY <1>1, EndedHasGrows, KindsAreApart
  <2>2. result'.disallow = result.disallow \cup (uas \X disallows)
    BY FlushedFields DEF EmptyLine
  <2>. QED
    BY <2>1, <2>2 DEF BlockInv
<1>4. ASSUME NEW a \in Agents, NEW p \in Paths
      PROVE  <<a, p>> \in result'.allow <=> EndedHas(a, AllowOf(p))'
  <2>1. EndedHas(a, AllowOf(p))'
           <=> EndedHas(a, AllowOf(p)) \/ (OpenHas(AgentOf(a)) /\ OpenHas(AllowOf(p)))
    BY <1>1, EndedHasGrows, KindsAreApart
  <2>2. result'.allow = result.allow \cup (uas \X allows)
    BY FlushedFields DEF EmptyLine
  <2>. QED
    BY <2>1, <2>2 DEF BlockInv
<1>5. ASSUME NEW a \in Agents, NEW s \in Delays
      PROVE  <<a, s>> \in result'.delays <=> EndedLast(a, s)'
  <2>1. EndedLast(a, s)'
           <=> EndedLast(a, s) \/ (OpenHas(AgentOf(a)) /\ OpenLast(s))
    BY <1>1, EndedLastGrows
  <2>2. result'.delays = result.delays \cup (uas \X delay)
    BY FlushedFields DEF EmptyLine
  <2>. QED
    BY <2>1, <2>2 DEF BlockInv
<1>6. uas' = {} /\ disallows' = {} /\ allows' = {} /\ delay' = {}
  BY DEF EmptyLine
<1>. QED
  BY <1>2, <1>3, <1>4, <1>5, <1>6 DEF BlockInv

(* Every other line puts what it says into the list of its kind.           *)
LEMMA BlockInvLine ==
    ASSUME TypeOK, BlockInv, NEW m \in Lines, Line(m), m.kind \notin Ends,
           uas' = uas \cup {a \in Agents : m = AgentOf(a)},
           disallows' = disallows \cup {p \in Paths : m = DisallowOf(p)},
           allows' = allows \cup {p \in Paths : m = AllowOf(p)},
           delay' = IF m.kind = "delay" THEN {s \in Delays : m = DelayOf(s)} ELSE delay,
           result'.disallow = result.disallow,
           result'.allow = result.allow,
           result'.delays = result.delays
    PROVE  BlockInv'
<1>1. \A a \in Agents : a \in uas' <=> OpenHas(AgentOf(a))'
  BY OpenStay DEF BlockInv
<1>2. \A p \in Paths : p \in disallows' <=> OpenHas(DisallowOf(p))'
  BY OpenStay DEF BlockInv
<1>3. \A p \in Paths : p \in allows' <=> OpenHas(AllowOf(p))'
  BY OpenStay DEF BlockInv
<1>4. \A s \in Delays : s \in delay' <=> OpenLast(s)'
  BY OpenStay, KindsAreApart DEF BlockInv
<1>5. \A a \in Agents, p \in Paths :
         /\ <<a, p>> \in result'.disallow <=> EndedHas(a, DisallowOf(p))'
         /\ <<a, p>> \in result'.allow <=> EndedHas(a, AllowOf(p))'
  BY EndedStay DEF BlockInv
<1>6. \A a \in Agents, s \in Delays : <<a, s>> \in result'.delays <=> EndedLast(a, s)'
  BY EndedStay DEF BlockInv
<1>. QED
  BY <1>1, <1>2, <1>3, <1>4, <1>5, <1>6 DEF BlockInv

LEMMA BlockInvKept ==
    ASSUME TypeOK, BlockInv, [Next]_vars
    PROVE  BlockInv'
<1>0. CASE UNCHANGED vars
  BY <1>0 DEF vars, BlockInv, OpenHas, OpenLast, EndedHas, EndedLast, Open, Pair, LastDelay,
              Together
<1>1. ASSUME NEW k \in {"blank", "comment"}, EmptyLine(k) PROVE BlockInv'
  BY <1>1, BlockInvEmpty
<1>2. ASSUME NEW a \in Agents, AgentLine(a) PROVE BlockInv'
  <2>. PICK m \in Lines : m = AgentOf(a)
    BY LinesAre DEF AgentOf
  <2>1. Line(m)
    BY <1>2 DEF AgentLine, AgentOf
  <2>. QED
    BY <1>2, <2>1, BlockInvLine, KindsAreApart
       DEF AgentLine, AgentOf, DisallowOf, AllowOf, DelayOf
<1>3. ASSUME NEW p \in Paths, DisallowLine(p) PROVE BlockInv'
  <2>. PICK m \in Lines : m = DisallowOf(p)
    BY LinesAre DEF DisallowOf
  <2>1. Line(m)
    BY <1>3 DEF DisallowLine, DisallowOf
  <2>2. /\ result'.disallow = result.disallow
        /\ result'.allow = result.allow
        /\ result'.delays = result.delays
    BY <1>3 DEF DisallowLine, TypeOK
  <2>. QED
    BY <1>3, <2>1, <2>2, BlockInvLine, KindsAreApart
       DEF DisallowLine, AgentOf, DisallowOf, AllowOf, DelayOf
<1>4. ASSUME NEW p \in Paths, AllowLine(p) PROVE BlockInv'
  <2>. PICK m \in Lines : m = AllowOf(p)
    BY LinesAre DEF AllowOf
  <2>1. Line(m)
    BY <1>4 DEF AllowLine, AllowOf
  <2>. QED
    BY <1>4, <2>1, BlockInvLine, KindsAreApart
       DEF AllowLine, AgentOf, DisallowOf, AllowOf, DelayOf
<1>5. ASSUME NEW s \in Delays, DelayLine(s) PROVE BlockInv'
  <2>. PICK m \in Lines : m = DelayOf(s)
    BY LinesAre DEF DelayOf
  <2>1. Line(m)
    BY <1>5 DEF DelayLine, DelayOf
  <2>. QED
    BY <1>5, <2>1, BlockInvLine, KindsAreApart
       DEF DelayLine, AgentOf, DisallowOf, AllowOf, DelayOf
<1>6. CASE SitemapLine
  <2>. PICK m \in Lines : m = [kind |-> "sitemap"]
    BY LinesAre
  <2>1. Line(m) /\ m.kind \notin Ends /\ m.kind # "delay"
    BY <1>6 DEF SitemapLine, Ends
  <2>2. /\ result'.disallow = result.disallow
        /\ result'.allow = result.allow
        /\ result'.delays = result.delays
    BY <1>6 DEF SitemapLine, TypeOK
  <2>. QED
    BY <1>6, <2>1, <2>2, BlockInvLine, KindsAreApart
       DEF SitemapLine, AgentOf, DisallowOf, AllowOf, DelayOf
<1>7. CASE OtherLine
  <2>. PICK m \in Lines : m = [kind |-> "other"]
    BY LinesAre
  <2>1. Line(m) /\ m.kind \notin Ends /\ m.kind # "delay"
    BY <1>7 DEF OtherLine, Ends
  <2>. QED
    BY <1>7, <2>1, BlockInvLine, KindsAreApart
       DEF OtherLine, AgentOf, DisallowOf, AllowOf, DelayOf
<1>. QED
  BY <1>0, <1>1, <1>2, <1>3, <1>4, <1>5, <1>6, <1>7 DEF Next

LEMMA BlockInvInit ==
    ASSUME Init
    PROVE  BlockInv
BY DEF Init, BlockInv, OpenHas, OpenLast, EndedHas, EndedLast

(* Truth values that imply each other are the same.                        *)
LEMMA Equivalent ==
    ASSUME NEW P \in BOOLEAN, NEW Q \in BOOLEAN, P <=> Q
    PROVE  P = Q
BY Zenon

LEMMA BlocksAreRead ==
    ASSUME TypeOK, BlockInv
    PROVE  RulesPerBlock
<1>1. ASSUME NEW a \in Agents, NEW p \in Paths
      PROVE  (<<a, p>> \in Parsed.disallow) = RuleLines("disallow", a, p, Ends)
  <2>1. Paired(a, DisallowOf(p))
           <=> EndedHas(a, DisallowOf(p)) \/ (OpenHas(AgentOf(a)) /\ OpenHas(DisallowOf(p)))
    BY PairsAreSplit, KindsAreApart
  <2>2. <<a, p>> \in Parsed.disallow <=> Paired(a, DisallowOf(p))
    BY <2>1, FlushedFields DEF Parsed, BlockInv
  <2>3. RuleLines("disallow", a, p, Ends) <=> Paired(a, DisallowOf(p))
    BY DEF RuleLines, Paired, Pair, AgentOf, DisallowOf
  <2>4. RuleLines("disallow", a, p, Ends) \in BOOLEAN
    BY SMT DEF RuleLines
  <2>5. (<<a, p>> \in Parsed.disallow) \in BOOLEAN
    BY SMT
  <2>. QED
    BY <2>2, <2>3, <2>4, <2>5, Equivalent, Zenon
<1>2. ASSUME NEW a \in Agents, NEW p \in Paths
      PROVE  (<<a, p>> \in Parsed.allow) = RuleLines("allow", a, p, Ends)
  <2>1. Paired(a, AllowOf(p))
           <=> EndedHas(a, AllowOf(p)) \/ (OpenHas(AgentOf(a)) /\ OpenHas(AllowOf(p)))
    BY PairsAreSplit, KindsAreApart
  <2>2. <<a, p>> \in Parsed.allow <=> Paired(a, AllowOf(p))
    BY <2>1, FlushedFields DEF Parsed, BlockInv
  <2>3. RuleLines("allow", a, p, Ends) <=> Paired(a, AllowOf(p))
    BY DEF RuleLines, Paired, Pair, AgentOf, AllowOf
  <2>4. RuleLines("allow", a, p, Ends) \in BOOLEAN
    BY SMT DEF RuleLines
  <2>5. (<<a, p>> \in Parsed.allow) \in BOOLEAN
    BY SMT
  <2>. QED
    BY <2>2, <2>3, <2>4, <2>5, Equivalent, Zenon
<1>3. ASSUME NEW a \in Agents, NEW s \in Delays
      PROVE  (<<a, s>> \in Parsed.delays) =
                \E i, j \in DOMAIN text :
                   /\ text[i] = [kind |-> "agent", agent |-> a]
                   /\ text[j] = [kind |-> "delay", secs |-> s]
                   /\ Together(i, j, Ends)
                   /\ \A k \in DOMAIN text :
                         k > j /\ text[k].kind = "delay" => ~Together(j, k, Ends)
  <2>1. <<a, s>> \in Parsed.delays <=> PairedLast(a, s)
    BY LastIsSplit, FlushedFields DEF Parsed, BlockInv
  <2>. DEFINE R == \E i, j \in DOMAIN text :
                      /\ text[i] = [kind |-> "agent", agent |-> a]
                      /\ text[j] = [kind |-> "delay", secs |-> s]
                      /\ Together(i, j, Ends)
                      /\ \A k \in DOMAIN text :
                            k > j /\ text[k].kind = "delay" => ~Together(j, k, Ends)
  <2>2. R <=> PairedLast(a, s)
    BY DEF PairedLast, Pair, LastDelay, AgentOf, DelayOf
  <2>3. R \in BOOLEAN
    BY SMT
  <2>4. (<<a, s>> \in Parsed.delays) \in BOOLEAN
    BY SMT
  <2>. QED
    BY <2>1, <2>2, <2>3, <2>4, Equivalent, Zenon
<1>. QED
  BY <1>1, <1>2, <1>3 DEF RulesPerBlock

(* An agent has the rules of its blocks and no others, whatever the order  *)
(* of the lines, and of the delays of a block the last.                    *)
THEOREM BlocksAreKept == Spec => []RulesPerBlock
<1>1. Init => BlockInv
  BY BlockInvInit
<1>2. TypeOK /\ BlockInv /\ [Next]_vars => BlockInv'
  BY BlockInvKept
<1>3. TypeOK /\ BlockInv => RulesPerBlock
  BY BlocksAreRead
<1>. QED
  BY <1>1, <1>2, <1>3, TypeCorrect, PTL DEF Spec

-----------------------------------------------------------------------------
(***************************************************************************)
(* The longest match.                                                      *)
(***************************************************************************)

(* A set of naturals that has a bound has a greatest member: the least of  *)
(* its bounds.                                                             *)
LEMMA GreatestExists ==
    ASSUME NEW S \in SUBSET Nat, S # {}, NEW b \in Nat, \A x \in S : x <= b
    PROVE  \E g \in S : \A x \in S : g >= x
<1>. DEFINE Bounds == {n \in Nat : \A x \in S : x <= n}
            Less == OpToRel(<, Nat)
<1>1. Bounds \subseteq Nat /\ Bounds # {}
  OBVIOUS
<1>2. \A m, n \in Nat : <<m, n>> \in Less <=> m < n
  BY DEF OpToRel
<1>. HIDE DEF Less
<1>3. IsWellFoundedOn(Less, Nat)
  BY NatLessThanWellFounded DEF Less
<1>. HIDE DEF Bounds
<1>4. PICK g \in Bounds : \A n \in Bounds : ~(<<n, g>> \in Less)
  BY <1>1, <1>3, WFMin
<1>. USE DEF Bounds
<1>5. \A n \in Bounds : ~(n < g)
  BY <1>1, <1>2, <1>4
<1>6. g \in S
  <2>. SUFFICES ASSUME g \notin S PROVE FALSE
    OBVIOUS
  <2>1. PICK y \in S : TRUE
    OBVIOUS
  <2>2. \A x \in S : x \in Nat /\ x < g
    BY <1>4
  <2>3. g - 1 \in Bounds /\ g - 1 < g
    BY <1>4, <2>1, <2>2
  <2>. QED
    BY <1>5, <2>3
<1>. QED
  BY <1>4, <1>6

LEMMA MaxIsGreatest ==
    ASSUME NEW S \in SUBSET Nat, S # {}, NEW b \in Nat, \A x \in S : x <= b
    PROVE  Max(S) \in S /\ \A x \in S : Max(S) >= x
<1>1. \E g \in S : \A x \in S : g >= x
  BY GreatestExists
<1>. QED
  BY <1>1 DEF Max

(* The lengths of the rules that match are bounded by that of the path.    *)
LEMMA MatchingIsBounded ==
    ASSUME NEW prefixes \in SUBSET Paths, NEW path \in Paths
    PROVE  /\ Matching(prefixes, path) \in SUBSET Nat
           /\ Len(path) \in Nat
           /\ \A n \in Matching(prefixes, path) : n <= Len(path)
           /\ \A p \in prefixes : IsPrefix(p, path) => Len(p) \in Matching(prefixes, path)
           /\ \A n \in Matching(prefixes, path) :
                 \E p \in prefixes : IsPrefix(p, path) /\ Len(p) = n
<1>1. \A p \in Paths : Len(p) \in Nat
  BY RulesAssumption
<1>2. \A p : IsPrefix(p, path) => Len(p) <= Len(path)
  BY DEF IsPrefix
<1>. QED
  BY <1>1, <1>2 DEF Matching

(* The rules that apply are rules about paths.                             *)
LEMMA ApplicableTyped ==
    ASSUME TypeOK
    PROVE  /\ Applicable(Parsed).disallow \in SUBSET Paths
           /\ Applicable(Parsed).allow \in SUBSET Paths
<1>1. /\ Parsed.disallow \subseteq Agents \X Paths
      /\ Parsed.allow \subseteq Agents \X Paths
  BY FlushedTyped DEF Parsed, Results
<1>2. \A agents, rules : rules \subseteq Agents \X Paths => For(agents, rules) \subseteq Paths
  BY DEF For
<1>. QED
  BY <1>1, <1>2 DEF Applicable

LEMMA LongestDecides ==
    ASSUME TypeOK
    PROVE  LongestWins
<1>. SUFFICES ASSUME NEW path \in Paths
              PROVE  Allowed(Parsed, path)
                        <=> \A d \in Applicable(Parsed).disallow :
                               IsPrefix(d, path) =>
                                  \E a \in Applicable(Parsed).allow :
                                     IsPrefix(a, path) /\ Len(a) >= Len(d)
  BY DEF LongestWins
<1>. DEFINE bans == Applicable(Parsed).disallow
            permits == Applicable(Parsed).allow
            D == Matching(bans, path)
            A == Matching(permits, path)
<1>1. bans \in SUBSET Paths /\ permits \in SUBSET Paths
  BY ApplicableTyped
<1>2. /\ D \in SUBSET Nat
      /\ \A d \in bans : IsPrefix(d, path) => Len(d) \in D
      /\ \A n \in D : \E d \in bans : IsPrefix(d, path) /\ Len(d) = n
  BY <1>1, MatchingIsBounded
<1>3. /\ A \in SUBSET Nat
      /\ \A a \in permits : IsPrefix(a, path) => Len(a) \in A
      /\ \A n \in A : \E a \in permits : IsPrefix(a, path) /\ Len(a) = n
  BY <1>1, MatchingIsBounded
<1>4. D # {} => Max(D) \in D /\ \A n \in D : Max(D) >= n
  BY <1>1, MatchingIsBounded, MaxIsGreatest
<1>5. A # {} => Max(A) \in A /\ \A n \in A : Max(A) >= n
  BY <1>1, MatchingIsBounded, MaxIsGreatest
<1>6. Allowed(Parsed, path) <=> D = {} \/ (A # {} /\ Max(A) >= Max(D))
  BY DEF Allowed
<1>. HIDE DEF D, A, bans, permits
<1>7. (D = {} \/ (A # {} /\ Max(A) >= Max(D))) <=> \A n \in D : \E k \in A : k >= n
  <2>1. CASE D = {}
    BY <2>1
  <2>2. CASE D # {} /\ A = {}
    BY <2>2
  <2>3. CASE D # {} /\ A # {}
    <3>. PICK mD \in Nat, mA \in Nat : mD = Max(D) /\ mA = Max(A)
      BY <1>2, <1>3, <1>4, <1>5, <2>3
    <3>1. mD \in D /\ mA \in A /\ (\A n \in D : mD >= n) /\ (\A n \in A : mA >= n)
      BY <1>4, <1>5, <2>3
    <3>2. mA >= mD <=> \A n \in D : \E k \in A : k >= n
      BY <1>2, <1>3, <3>1
    <3>. QED
      BY <2>3, <3>2
  <2>. QED
    BY <2>1, <2>2, <2>3
<1>8. (\A n \in D : \E k \in A : k >= n)
         <=> \A d \in bans : IsPrefix(d, path) =>
                \E a \in permits : IsPrefix(a, path) /\ Len(a) >= Len(d)
  BY <1>2, <1>3
<1>. QED
  BY <1>6, <1>7, <1>8 DEF bans, permits

(* Of the rules that match a path the longest decides, and a tie is a      *)
(* permission: for any rules a body can give.                              *)
THEOREM TheLongestRuleWins == Spec => []LongestWins
BY LongestDecides, TypeCorrect, PTL
=============================================================================

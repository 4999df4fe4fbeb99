---------------------------- MODULE RobotsRules ----------------------------
(***************************************************************************)
(* How a robots.txt is read and applied: parse_rules of                    *)
(* src/audit/robots.rs goes through the body line by line, and             *)
(* is_allowed_by_rules of src/crawler/robots_gate.rs asks the result about *)
(* a path.  The body is any sequence of lines; a behaviour reads one.      *)
(*                                                                         *)
(* The lists of the code are sets here: the gate takes the longest match   *)
(* and the limiter the largest delay, so neither order nor repetition      *)
(* counts.  A path is the sequence of its segments, "/" the empty one;     *)
(* among the prefixes of one path the longer has the more segments.        *)
(***************************************************************************)
EXTENDS Integers, Sequences, SequencesExt

CONSTANTS
    Agents,      \* the user-agent tokens, in lower case
    Star,        \* the token "*"
    Ours,        \* the tokens that are part of our own user agent's name
    Paths,       \* the paths the lines name and the gate is asked about
    Delays,      \* the values of Crawl-delay
    MaxLines     \* bound: the lines of the body

ASSUME RulesAssumption ==
    /\ Star \in Agents
    /\ Ours \subseteq Agents \ {Star}
    /\ \A p \in Paths : Len(p) \in Nat     \* a path is a sequence
    /\ MaxLines \in Nat

VARIABLES
    text,        \* the lines read so far
    uas,         \* current_uas
    disallows,   \* current_disallows
    allows,      \* current_allows
    delay,       \* current_delay: at most one value
    result       \* the rules of the blocks that have ended

vars == <<text, uas, disallows, allows, delay, result>>

Root == <<>>

(* A line by what parse_rules sees of it.  "other" is a line it ignores: a *)
(* rule without a value, a delay that is no number, an unknown directive,  *)
(* a line without a colon.                                                 *)
Lines ==
    [kind : {"blank", "comment", "sitemap", "other"}]
    \cup [kind : {"agent"}, agent : Agents]
    \cup [kind : {"disallow", "allow"}, path : Paths]
    \cup [kind : {"delay"}, secs : Delays]

TypeOK ==
    /\ text \in Seq(Lines)
    /\ uas \subseteq Agents
    /\ disallows \subseteq Paths
    /\ allows \subseteq Paths
    /\ delay \subseteq Delays
    /\ result \in [disallow : SUBSET (Agents \X Paths), allow : SUBSET (Agents \X Paths),
                   delays : SUBSET (Agents \X Delays), star : BOOLEAN, sitemap : BOOLEAN]

Init ==
    /\ text = <<>>
    /\ uas = {}
    /\ disallows = {}
    /\ allows = {}
    /\ delay = {}
    /\ result = [disallow |-> {}, allow |-> {}, delays |-> {}, star |-> FALSE, sitemap |-> FALSE]

-----------------------------------------------------------------------------
(* flush_block: every agent of the block gets every rule of the block.     *)
Flushed ==
    [result EXCEPT !.disallow = @ \cup (uas \X disallows),
                   !.allow = @ \cup (uas \X allows),
                   !.delays = @ \cup (uas \X delay)]

Line(l) ==
    /\ Len(text) < MaxLines
    /\ text' = Append(text, l)

(* A line that is empty once its comment is cut off ends the block.        *)
(* Mutant: its rules are left for the next.                                *)
MutKeepRules(k) ==
    /\ Line([kind |-> k])
    /\ result' = Flushed
    /\ uas' = {}
    /\ delay' = {}
    /\ UNCHANGED <<disallows, allows>>

EmptyLine(k) ==
    /\ Line([kind |-> k])
    /\ result' = Flushed
    /\ uas' = {}
    /\ disallows' = {}
    /\ allows' = {}
    /\ delay' = {}

AgentLine(a) ==
    /\ Line([kind |-> "agent", agent |-> a])
    /\ uas' = uas \cup {a}
    /\ UNCHANGED <<disallows, allows, delay, result>>

DisallowLine(p) ==
    /\ Line([kind |-> "disallow", path |-> p])
    /\ disallows' = disallows \cup {p}
    /\ result' = [result EXCEPT !.star = @ \/ (p = Root /\ Star \in uas)]
    /\ UNCHANGED <<uas, allows, delay>>

AllowLine(p) ==
    /\ Line([kind |-> "allow", path |-> p])
    /\ allows' = allows \cup {p}
    /\ UNCHANGED <<uas, disallows, delay, result>>

DelayLine(s) ==
    /\ Line([kind |-> "delay", secs |-> s])
    /\ delay' = {s}
    /\ UNCHANGED <<uas, disallows, allows, result>>

SitemapLine ==
    /\ Line([kind |-> "sitemap"])
    /\ result' = [result EXCEPT !.sitemap = TRUE]
    /\ UNCHANGED <<uas, disallows, allows, delay>>

OtherLine ==
    /\ Line([kind |-> "other"])
    /\ UNCHANGED <<uas, disallows, allows, delay, result>>

Next ==
    \/ EmptyLine("blank") \/ EmptyLine("comment")
    \/ \E a \in Agents : AgentLine(a)
    \/ \E p \in Paths : DisallowLine(p) \/ AllowLine(p)
    \/ \E s \in Delays : DelayLine(s)
    \/ SitemapLine \/ OtherLine

Spec == Init /\ [][Next]_vars

(* The last block needs no blank line: what parse_rules returns of the     *)
(* lines read so far.                                                      *)
Parsed == Flushed

-----------------------------------------------------------------------------
(* gather_ua_prefixes: the rules of our own tokens if they have any, else  *)
(* those of "*".                                                           *)
For(agents, rules) == {r[2] : r \in {x \in rules : x[1] \in agents}}

Applicable(rules) ==
    LET specific == [disallow |-> For(Ours, rules.disallow), allow |-> For(Ours, rules.allow)]
    IN  IF specific.disallow # {} \/ specific.allow # {}
        THEN specific
        ELSE [disallow |-> For({Star}, rules.disallow), allow |-> For({Star}, rules.allow)]

(* is_allowed_by_rules.                                                    *)
Matching(prefixes, path) == {Len(p) : p \in {q \in prefixes : IsPrefix(q, path)}}

(* Mutants: a tie goes to Disallow; the shortest Allow counts.             *)
MutAllowed(rules, path) ==
    LET bestDisallow == Matching(Applicable(rules).disallow, path)
        bestAllow == Matching(Applicable(rules).allow, path)
    IN  \/ bestDisallow = {}
        \/ bestAllow # {} /\ Max(bestAllow) > Max(bestDisallow)

Allowed(rules, path) ==
    LET bestDisallow == Matching(Applicable(rules).disallow, path)
        bestAllow == Matching(Applicable(rules).allow, path)
    IN  \/ bestDisallow = {}
        \/ bestAllow # {} /\ Max(bestAllow) >= Max(bestDisallow)

-----------------------------------------------------------------------------
(***************************************************************************)
(* Safety.                                                                 *)
(***************************************************************************)

(* Two lines belong together when no line of the given kinds lies between. *)
Together(i, j, breaks) ==
    \A k \in DOMAIN text : (i < k /\ k < j) \/ (j < k /\ k < i) => text[k].kind \notin breaks

RuleLines(kind, a, p, breaks) ==
    \E i, j \in DOMAIN text :
       /\ text[i] = [kind |-> "agent", agent |-> a]
       /\ text[j] = [kind |-> kind, path |-> p]
       /\ Together(i, j, breaks)

Ends == {"blank", "comment"}

(* Reading line by line comes to the same as dividing the whole body into  *)
(* blocks: an agent has the rules of its blocks and no others, and of the  *)
(* delays of a block the last.                                             *)
RulesPerBlock ==
    /\ \A a \in Agents, p \in Paths :
          /\ (<<a, p>> \in Parsed.disallow) = RuleLines("disallow", a, p, Ends)
          /\ (<<a, p>> \in Parsed.allow) = RuleLines("allow", a, p, Ends)
    /\ \A a \in Agents, s \in Delays :
          (<<a, s>> \in Parsed.delays) =
             \E i, j \in DOMAIN text :
                /\ text[i] = [kind |-> "agent", agent |-> a]
                /\ text[j] = [kind |-> "delay", secs |-> s]
                /\ Together(i, j, Ends)
                /\ \A k \in DOMAIN text :
                      k > j /\ text[k].kind = "delay" => ~Together(j, k, Ends)

(* The auditor reports a ban of all crawlers only of a body whose rules,   *)
(* read by the gate, hold one.                                             *)
StarSound == Parsed.star => <<Star, Root>> \in Parsed.disallow

(* The longest rule decides and a tie goes to Allow: a path is refused if  *)
(* and only if some Disallow is longer than every Allow that matches.      *)
LongestWins ==
    \A path \in Paths :
       Allowed(Parsed, path)
          <=> \A d \in Applicable(Parsed).disallow :
                 IsPrefix(d, path) =>
                    \E a \in Applicable(Parsed).allow : IsPrefix(a, path) /\ Len(a) >= Len(d)

(* What the doc comment of parse_rules says: a new User-agent starts a new *)
(* block, so that a rule is not the rule of an agent named after it.       *)
NewAgentNewBlock ==
    \A a \in Agents, p \in Paths :
       <<a, p>> \in Parsed.disallow =>
          \E i, j \in DOMAIN text :
             /\ i < j
             /\ text[i] = [kind |-> "agent", agent |-> a]
             /\ text[j] = [kind |-> "disallow", path |-> p]

(* What it says next: a comment is cut off its line, nothing more.         *)
CommentsIgnored ==
    \A a \in Agents, p \in Paths :
       RuleLines("disallow", a, p, {"blank"}) => <<a, p>> \in Parsed.disallow

(* What the doc comment of gather_ua_prefixes says: if there is a block    *)
(* for our agent, it is the one that is used.                              *)
OwnBlockUsed ==
    (\E i \in DOMAIN text : text[i].kind = "agent" /\ text[i].agent \in Ours) =>
       Applicable(Parsed).disallow = For(Ours, Parsed.disallow)
=============================================================================

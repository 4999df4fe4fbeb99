---------------------------- MODULE SitemapProbe ----------------------------
(***************************************************************************)
(* SitemapAuditor of src/audit/sitemap.rs, and after it, as the list of    *)
(* site auditors has it, the link auditor of LinkProbe: the audits of a    *)
(* worker on its page, over the same servers.  How robots.txt and the      *)
(* sitemaps are answered is chosen once, like the servers of LinkProbe.    *)
(* A sitemap is "missing" (any trouble but a 2xx), "malformed", an "index" *)
(* of others, or a "urlset" whose <loc> entries are URLs or Invalid.       *)
(***************************************************************************)
EXTENDS LinkProbe, Sequences, SequencesExt

CONSTANTS Locs,        \* the <loc> entries of a urlset, in their order
          Invalid,     \* an entry that is no URL
          MaxSampled,  \* MAX_SAMPLED_URLS
          MaxBuffer,   \* MAX_CONCURRENT_PROBES of sitemap.rs
          Validate,    \* --validate-sitemap
          SiteMaps     \* what may be at the named URL and at /sitemap.xml

Kinds == {"missing", "malformed", "index", "urlset"}

(* extract_loc_urls: entries that are no URL do not count, those that come *)
(* twice do, and those after the first MaxSampled URLs are not looked at.  *)
push(urls, entry) ==
    IF Len(urls) < MaxSampled /\ entry # Invalid THEN Append(urls, entry) ELSE urls

Sample == FoldLeft(push, <<>>, Locs)

ASSUME SitemapAssumption ==
    /\ Invalid \notin Urls
    /\ Locs \in Seq(Urls \cup {Invalid})
    /\ MaxSampled \in Nat /\ MaxBuffer \in Nat \ {0}
    /\ Validate \in BOOLEAN
    /\ SiteMaps \subseteq [named : Kinds, fallback : Kinds]

VARIABLES
    named,    \* whether robots.txt answers 2xx and names a sitemap
    sitemap,  \* what is at the named URL and at /sitemap.xml
    stage,    \* how far the sitemap audit of a page is
    target,   \* the sitemap it asks for
    loc,      \* where the probe of an entry of the sample is
    faults    \* what it found: a flaw of the sitemap, or entries of the sample

sitevars == <<named, sitemap, stage, target, loc, faults>>

all == <<vars, sitevars>>

SiteInit ==
    /\ Init
    /\ named \in BOOLEAN
    /\ sitemap \in SiteMaps
    /\ stage = [p \in Pages |-> "idle"]
    /\ target = [p \in Pages |-> "none"]
    /\ loc = [p \in Pages |-> <<>>]
    /\ faults = [p \in Pages |-> {}]

(* The first Sitemap: line of robots.txt that is a URL, or none.           *)
resolve_sitemap_url == IF named THEN {"named"} ELSE {}

(* robots.txt is asked for, once more, and the sitemap it names taken, or  *)
(* the one that is usual.                                                  *)
Resolve(p) ==
    /\ stage[p] = "idle"
    /\ \E t \in IF resolve_sitemap_url = {} THEN {"fallback"} ELSE resolve_sitemap_url :
          target' = [target EXCEPT ![p] = t]
    /\ stage' = [stage EXCEPT ![p] = "fetch"]
    /\ UNCHANGED <<vars, named, sitemap, loc, faults>>

Found(p) == sitemap[target[p]]

(* No 2xx or no XML: one finding, and the audit is through.                *)
FlawedSitemap(p) ==
    /\ stage[p] = "fetch"
    /\ Found(p) \in {"missing", "malformed"}
    /\ faults' = [faults EXCEPT ![p] = {Found(p)}]
    /\ stage' = [stage EXCEPT ![p] = "through"]
    /\ UNCHANGED <<vars, named, sitemap, target, loc>>

(* A sitemap index has no entries to sample.                               *)
SoundSitemap(p) ==
    /\ stage[p] = "fetch"
    /\ Found(p) \in {"index", "urlset"}
    /\ loc' = [loc EXCEPT ![p] =
          IF Validate /\ Found(p) = "urlset" THEN [i \in DOMAIN Sample |-> "queued"] ELSE <<>>]
    /\ stage' = [stage EXCEPT ![p] = "sample"]
    /\ UNCHANGED <<vars, named, sitemap, target, faults>>

(* buffer_unordered: the next entry is taken up while fewer than MaxBuffer *)
(* are under way.                                                          *)
SendLocHead(p, i) ==
    /\ stage[p] = "sample"
    /\ loc[p][i] = "queued"
    /\ \A j \in 1..(i - 1) : loc[p][j] # "queued"
    /\ Cardinality({j \in DOMAIN loc[p] : loc[p][j] \in {"head", "get"}}) < MaxBuffer
    /\ loc' = [loc EXCEPT ![p][i] = "head"]
    /\ UNCHANGED <<vars, named, sitemap, stage, target, faults>>

(* 200 to 399 will do, and everything else is one kind of finding.         *)
JudgeLoc(p, i, answer) ==
    /\ loc' = [loc EXCEPT ![p][i] = "judged"]
    /\ faults' = [faults EXCEPT ![p] = IF answer = "ok" THEN @ ELSE @ \cup {i}]

(* Mutant: a HEAD that gets no answer is not followed by a GET.            *)
MutLocNeedsGet(answer) == answer = "405"

LocNeedsGet(answer) == answer \in {"405", "none"}

LocHeadAnswered(p, i) ==
    LET answer == server[Sample[i]].head
    IN  /\ stage[p] = "sample"
        /\ loc[p][i] = "head"
        /\ IF LocNeedsGet(answer)
           THEN loc' = [loc EXCEPT ![p][i] = "get"] /\ UNCHANGED faults
           ELSE JudgeLoc(p, i, answer)
        /\ UNCHANGED <<vars, named, sitemap, stage, target>>

LocGetAnswered(p, i) ==
    /\ stage[p] = "sample"
    /\ loc[p][i] = "get"
    /\ JudgeLoc(p, i, server[Sample[i]].get)
    /\ UNCHANGED <<vars, named, sitemap, stage, target>>

(* The stream is drained.  Mutant: it is when nothing is queued.           *)
MutSampleDone(p) ==
    /\ stage[p] = "sample"
    /\ \A i \in DOMAIN loc[p] : loc[p][i] # "queued"
    /\ stage' = [stage EXCEPT ![p] = "through"]
    /\ UNCHANGED <<vars, named, sitemap, target, loc, faults>>

SampleDone(p) ==
    /\ stage[p] = "sample"
    /\ \A i \in DOMAIN loc[p] : loc[p][i] = "judged"
    /\ stage' = [stage EXCEPT ![p] = "through"]
    /\ UNCHANGED <<vars, named, sitemap, target, loc, faults>>

(* The worker is aborted during the sitemap audit: nothing of it was       *)
(* spawned, so all of it ends at once.                                     *)
DropEarly(p) ==
    /\ stage[p] \in {"idle", "fetch", "sample"}
    /\ stage' = [stage EXCEPT ![p] = "dropped"]
    /\ UNCHANGED <<vars, named, sitemap, target, loc, faults>>

(* The link audit of a page begins when its sitemap audit is through.      *)
StartLinks(p) ==
    /\ stage[p] = "through"
    /\ Start(p)
    /\ UNCHANGED sitevars

LinkStep ==
    /\ \/ \E p \in Pages : Finish(p) \/ Drop(p)
       \/ \E t \in Tasks : Task(t)
    /\ UNCHANGED sitevars

Advance(p) ==
    \/ Resolve(p) \/ FlawedSitemap(p) \/ SoundSitemap(p)
    \/ SampleDone(p) \/ StartLinks(p)

LocStep(p, i) == SendLocHead(p, i) \/ LocHeadAnswered(p, i) \/ LocGetAnswered(p, i)

SiteNext ==
    \/ \E p \in Pages : Advance(p) \/ DropEarly(p)
    \/ \E p \in Pages : \E i \in DOMAIN loc[p] : LocStep(p, i)
    \/ LinkStep

SiteSpec == SiteInit /\ [][SiteNext]_all

(* A worker goes on with its page, a server or its timeout answers.        *)
FairSiteSpec ==
    /\ SiteSpec
    /\ \A p \in Pages : WF_all(Advance(p))
    /\ \A p \in Pages : WF_all(\E i \in DOMAIN loc[p] : LocStep(p, i))
    /\ \A t \in Tasks : WF_all(Task(t) /\ UNCHANGED sitevars)
    /\ \A p \in Pages : WF_all(Finish(p) /\ UNCHANGED sitevars)

-----------------------------------------------------------------------------
(* A sitemap audit that is through says of the sitemap what is so, and of  *)
(* a sample that it was probed entry by entry, each as far as it had to    *)
(* be: the first MaxSampled entries that are URLs.  Before that it holds   *)
(* nothing that is not so.                                                 *)
DeadEntries ==
    LET valid == {k \in DOMAIN Locs : Locs[k] \in Urls}
        place(k) == Cardinality({j \in valid : j <= k})
    IN  {place(k) : k \in {j \in valid : /\ place(j) <= MaxSampled
                                         /\ Verdict(Locs[j]) # "ok"}}

DeservedFaults(p) ==
    LET kind == IF named THEN sitemap.named ELSE sitemap.fallback
    IN  CASE kind \in {"missing", "malformed"} -> {kind}
          [] kind = "index" -> {}
          [] kind = "urlset" -> IF Validate THEN DeadEntries ELSE {}

SampleJudged ==
    \A p \in Pages :
       /\ faults[p] \subseteq DeservedFaults(p)
       /\ stage[p] = "through" => faults[p] = DeservedFaults(p)

(* The two auditors never disagree about a URL: an entry of the sitemap is *)
(* unreachable exactly if a link to it is broken.                          *)
AuditorsAgree ==
    \A p, q \in Pages : \A i \in DOMAIN loc[p] :
       loc[p][i] = "judged" /\ audit[q] = "done" /\ Sample[i] \in Links[q] =>
          (i \in faults[p] <=> \E c \in Outcomes : <<Sample[i], c>> \in findings[q])

(* All audits of a page end: also the sitemap audit, whatever the servers  *)
(* of the sample do.                                                       *)
PageAudited ==
    \A p \in Pages :
       stage[p] # "idle" ~> stage[p] = "dropped" \/ audit[p] \in {"done", "dropped"}
=============================================================================

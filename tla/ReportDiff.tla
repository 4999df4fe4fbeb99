----------------------------- MODULE ReportDiff -----------------------------
(***************************************************************************)
(* An audit, an edit of the site, another audit, and `sandslash diff` on   *)
(* the two reports: src/diff over the scores of src/score.  A site maps    *)
(* the URLs an audit reaches to their pages; URLs are numbers in the order *)
(* of their strings, and a page is one of PageAudits with `others`, what   *)
(* the site auditors found on it.  A report goes through a JSON file as    *)
(* URLs, names of categories and numbers up to 100, which come back as     *)
(* they were.                                                              *)
(***************************************************************************)
EXTENDS PageAudits

CONSTANTS Sites,    \* the sites an owner may have
          Edits(_)  \* what the owner may make of a site, itself included

ASSUME EditsAssumption == \A s \in Sites : s \in Edits(s) /\ Edits(s) \subseteq Sites

Verdicts == {"missing", "empty", "short", "long", "fits"}

Nodes == [context : BOOLEAN, typed : BOOLEAN, types : Seq(STRING), fields : SUBSET STRING]

Page ==
    [title : Verdicts, description : Verdicts, canonicals : Seq(DOMAIN Href),
     https : BOOLEAN, plain : Nat, headings : [1..6 -> Nat], blank : Nat,
     noAlt : Nat, emptyAlt : Nat, social : SUBSET STRING,
     chain : Nat, html : BOOLEAN, thin : BOOLEAN, tags : Nat,
     jsonld : Seq([parsed : BOOLEAN, nodes : Seq(Nodes)]), others : Seq(Finding)]

(* Every penalty of the site auditors is a multiple of five.               *)
ASSUME SitesAssumption ==
    \A s \in Sites :
       /\ IsFiniteSet(DOMAIN s) /\ DOMAIN s \subseteq Nat
       /\ \A u \in DOMAIN s :
             /\ s[u] \in Page
             /\ \A i \in DOMAIN s[u].others : s[u].others[i].penalty % 5 = 0

VARIABLES site, first, mode, stage, before, after, shown

vars == <<site, first, mode, stage, before, after, shown>>

Nothing == "nothing"

-----------------------------------------------------------------------------
(* score_page on everything found on a page.                               *)
CategoryScoresOf(p) == CategoryScores(page_auditors(p) \o p.others)

score_page(p) ==
    LET cs == CategoryScoresOf(p)
    IN  {[category_scores |-> cs, score |-> s] : s \in PageScores(cs)}

OfEach(pages, f(_)) ==
    LET urls == SetToSeq(DOMAIN pages)
    IN  [i \in DOMAIN urls |-> f(pages[urls[i]])]

(* A single page that robots.txt forbids makes a report of 100 without     *)
(* pages, a crawl without pages one of 0.                                  *)
SiteScore(pages, m) ==
    IF m = "page" /\ DOMAIN pages = {} THEN 100
    ELSE score_site(OfEach(pages, LAMBDA r : r.score))

Reports(s, m) ==
    LET scored == {pages \in [DOMAIN s -> UNION {score_page(s[u]) : u \in DOMAIN s}] :
                     \A u \in DOMAIN s : pages[u] \in score_page(s[u])}
    IN  {[pages |-> pages, site_score |-> SiteScore(pages, m)] : pages \in scored}

-----------------------------------------------------------------------------
(* diff_reports.                                                           *)
PageDiff(b, a, u) ==
    LET score(r) == IF u \in DOMAIN r.pages THEN r.pages[u].score ELSE Nothing
        both == u \in DOMAIN b.pages /\ u \in DOMAIN a.pages
        delta == IF both THEN score(a) - score(b) ELSE 0
    IN  [url |-> u, before |-> score(b), after |-> score(a), delta |-> delta,
         kind |-> CASE u \notin DOMAIN b.pages -> "Added"
                    [] u \notin DOMAIN a.pages -> "Removed"
                    [] both -> IF delta = 0 THEN "Unchanged" ELSE "Changed"]

(* The worst first, pages of one delta in the order of their URLs: that    *)
(* leaves one order.                                                       *)
Precedes(x, y) == x.delta < y.delta \/ (x.delta = y.delta /\ x.url < y.url)

CategoryMean(r, c) == Mean(OfEach(r.pages, LAMBDA p : p.category_scores[c]))

(* Mutant: the categories are compared the other way round.                *)
MutCategoryDeltas(b, a) ==
    [c \in IF DOMAIN b.pages \cup DOMAIN a.pages = {} THEN {} ELSE Category |->
       CategoryMean(b, c) - CategoryMean(a, c)]

(* There is no category delta when neither report has a page.              *)
CategoryDeltas(b, a) ==
    [c \in IF DOMAIN b.pages \cup DOMAIN a.pages = {} THEN {} ELSE Category |->
       CategoryMean(a, c) - CategoryMean(b, c)]

diff_reports(b, a) ==
    LET urls == DOMAIN b.pages \cup DOMAIN a.pages
        row == [u \in urls |-> PageDiff(b, a, u)]
        order == CHOOSE o \in [1..Cardinality(urls) -> urls] :
                    \A i, j \in DOMAIN o : i < j => Precedes(row[o[i]], row[o[j]])
    IN  [before_site_score |-> b.site_score,
         after_site_score |-> a.site_score,
         site_score_delta |-> a.site_score - b.site_score,
         category_deltas |-> CategoryDeltas(b, a),
         pages |-> [i \in DOMAIN order |-> row[order[i]]]]

(* Summary::from_report and write_text: a category without a delta is      *)
(* shown as one of 0.                                                      *)
Summary(diff) ==
    LET count(Test(_)) == Cardinality({i \in DOMAIN diff.pages : Test(diff.pages[i])})
    IN  [regressions |-> count(LAMBDA p : p.kind = "Changed" /\ p.delta < 0),
         improvements |-> count(LAMBDA p : p.kind = "Changed" /\ p.delta >= 0),
         unchanged |-> count(LAMBDA p : p.kind = "Unchanged"),
         added |-> count(LAMBDA p : p.kind = "Added"),
         removed |-> count(LAMBDA p : p.kind = "Removed")]

CategoryTable(diff) ==
    [c \in Category |->
       IF c \in DOMAIN diff.category_deltas THEN diff.category_deltas[c] ELSE 0]

PageTable(diff) == diff.pages

write_text(diff) ==
    [summary |-> Summary(diff), site_score_delta |-> diff.site_score_delta,
     categories |-> CategoryTable(diff), pages |-> PageTable(diff)]

-----------------------------------------------------------------------------
Init ==
    /\ site \in Sites
    /\ mode \in {"page", "crawl"}
    /\ mode = "page" => DOMAIN site \subseteq {1}
    /\ first = site
    /\ stage = "first"
    /\ before = Nothing
    /\ after = Nothing
    /\ shown = Nothing

AuditBefore ==
    /\ stage = "first"
    /\ before' \in Reports(site, mode)
    /\ stage' = "edit"
    /\ UNCHANGED <<site, first, mode, after, shown>>

Edit ==
    /\ stage = "edit"
    /\ site' \in Edits(site)
    /\ mode = "page" => DOMAIN site' \subseteq {1}
    /\ stage' = "second"
    /\ UNCHANGED <<first, mode, before, after, shown>>

AuditAfter ==
    /\ stage = "second"
    /\ after' \in Reports(site, mode)
    /\ stage' = "compare"
    /\ UNCHANGED <<site, first, mode, before, shown>>

(* diff::run: both files are read and understood, the difference is shown  *)
(* as text (as JSON it is shown as it is).                                 *)
Compare ==
    /\ stage = "compare"
    /\ shown' = write_text(diff_reports(before, after))
    /\ stage' = "shown"
    /\ UNCHANGED <<site, first, mode, before, after>>

(* A file that is gone or is no report: an error, and nothing is shown.    *)
CompareFails ==
    /\ stage = "compare"
    /\ stage' = "failed"
    /\ UNCHANGED <<site, first, mode, before, after, shown>>

Next == AuditBefore \/ Edit \/ AuditAfter \/ Compare \/ CompareFails

Spec == Init /\ [][Next]_vars

-----------------------------------------------------------------------------
(* A site nobody touched gets the report it had, although a hash map       *)
(* decides in which order the weighted scores are added.                   *)
ReportRepeats ==
    stage \in {"compare", "shown", "failed"} /\ site = first => after = before

SamePages == DOMAIN site = DOMAIN first

Deltas == {shown.pages[i].delta : i \in DOMAIN shown.pages}

(* When both reports have the same pages, the site and each category move  *)
(* no further than the page that moved most, in either direction: means    *)
(* that are cut off do not invent a change.                                *)
SiteDeltaExplained ==
    stage = "shown" /\ SamePages /\ DOMAIN site # {} =>
    LET moves(c) == {after.pages[u].category_scores[c] - before.pages[u].category_scores[c] :
                       u \in DOMAIN site}
        within(d, S) == (\E x \in S : x <= d) /\ (\E x \in S : d <= x)
    IN  /\ within(shown.site_score_delta, Deltas)
        /\ \A c \in Category : within(shown.categories[c], moves(c))

(* A page and a better one.  Each part is as it was, or as it should be,   *)
(* or there is less of what should not be there; several parts at once.    *)
(* The move to https is a repair only if at most two resources stay behind *)
(* on http, and new headings only if the old ones were out of order.       *)
InOrder(p) == p.headings[1] = 1 /\ Skips(p) = {}

Repaired(p, q) ==
    /\ q.title \in {p.title, "fits"} /\ q.description \in {p.description, "fits"}
    /\ q.canonicals \in {p.canonicals, <<"self">>}
    /\ q.https = p.https \/ (q.https /\ HttpResources(q) <= 2)
    /\ q.plain <= p.plain /\ q.blank <= p.blank /\ q.chain <= p.chain
    /\ q.noAlt <= p.noAlt /\ q.emptyAlt <= p.emptyAlt
    /\ q.headings = p.headings \/ (~InOrder(p) /\ InOrder(q))
    /\ p.social \subseteq q.social
    /\ q.html = p.html /\ (q.thin => p.thin) /\ q.tags >= p.tags
    /\ q.jsonld = p.jsonld \/ StructuredDataAuditor(q) = <<>>
    /\ q.others \in {p.others, <<>>}

(* A site of which some pages were repaired is nowhere shown as worse: not *)
(* in a row, nor in the score of the site, nor in a category, although one *)
(* fault may hide another, faults beyond a category's hundred points go    *)
(* unseen, the score is rounded and the means are cut off.                 *)
RepairShows ==
    stage = "shown" /\ SamePages /\ (\A u \in DOMAIN site : Repaired(first[u], site[u])) =>
        /\ shown.summary.regressions = 0
        /\ shown.site_score_delta >= 0
        /\ \A c \in Category : shown.categories[c] >= 0

=============================================================================

----------------------------- MODULE SinglePage -----------------------------
(***************************************************************************)
(* An audit of one page: pipeline::run at depth 0, from the robots gate to *)
(* the exit code, and its twin run_for_server.  The fetch of the root is   *)
(* the one of Fetcher, step by step; what the gate says is a choice (see   *)
(* RobotsCache), and so is what the auditors find (see PageAudits,         *)
(* RobotsRules, SitemapProbe).                                             *)
(***************************************************************************)
EXTENDS Fetcher, Scores

CONSTANTS Configs,       \* whether the server runs it, and the flags that matter
          PageFindings,  \* what the page auditors may find
          SiteFindings   \* what each site auditor may find

SiteAuditors == <<"robots", "sitemap", "links">>

(* The server asks for no output, the command line for what its flags say. *)
ASSUME SinglePageAssumption ==
    /\ Caller = "single"
    /\ Configs \subseteq
          [server : BOOLEAN, respect_robots : BOOLEAN, quiet : BOOLEAN, output : BOOLEAN]
    /\ \A c \in Configs : c.server => ~c.quiet /\ ~c.output
    /\ PageFindings \subseteq Seq(Finding)
    /\ DOMAIN SiteFindings = Range(SiteAuditors)
    /\ \A a \in Range(SiteAuditors) : SiteFindings[a] \subseteq Seq(Finding)

VARIABLES
    config,    \* one of Configs
    phase,     \* how far the pipeline is
    findings,  \* what was found on the page
    result,    \* the AuditReport
    events,    \* the progress sent to the subscribers of a server
    stdout, stderr, file,  \* what was written: file is the one asked for
    exit       \* what the process or the task ends with

pipeline == <<config, phase, findings, result, events, stdout, stderr, file, exit>>

allvars == <<vars, pipeline>>

None == [none |-> TRUE]

Old == [old |-> TRUE]

PageInit ==
    /\ Init
    /\ config \in Configs
    /\ phase = "gate"
    /\ findings = <<>>
    /\ result = None
    /\ events = <<>>
    /\ stdout = <<>>
    /\ stderr = <<>>
    /\ file = <<Old>>
    /\ exit = "none"

-----------------------------------------------------------------------------
(* The report is there: the command line writes it, the server returns it. *)
Made(pages, score) ==
    /\ result' = [pages |-> pages, site_score |-> score]
    /\ phase' = IF config.server THEN "done" ELSE "emit"
    /\ exit' = IF config.server THEN "ok" ELSE exit

score_page(url, found) ==
    {[url |-> url, category_scores |-> CategoryScores(found), score |-> s] :
       s \in PageScores(CategoryScores(found))}

MadeOf(url, found) ==
    \E page \in score_page(url, found) : Made(<<page>>, score_site(<<page.score>>))

GateAllows ==
    /\ phase = "gate"
    /\ phase' = "fetch"
    /\ UNCHANGED <<vars, config, findings, result, events, stdout, stderr, file, exit>>

(* Mutant: the refusal is noted and the root fetched.                      *)
MutGateRefuses ==
    /\ phase = "gate"
    /\ config.respect_robots
    /\ result' = [pages |-> <<>>, site_score |-> 100]
    /\ phase' = "fetch"
    /\ UNCHANGED <<vars, config, findings, events, stdout, stderr, file, exit>>

GateRefuses ==
    /\ phase = "gate"
    /\ config.respect_robots
    /\ Made(<<>>, 100)
    /\ UNCHANGED <<vars, config, findings, events, stdout, stderr, file>>

Fetching ==
    /\ phase = "fetch"
    /\ \/ FindLoop \/ HopLimit \/ NoHost \/ StartHop \/ Acquire
       \/ Redirect \/ SendFails \/ Busy \/ Final \/ Awake
    /\ UNCHANGED pipeline

Fetched ==
    /\ phase = "fetch"
    /\ Report

FetchedPage ==
    /\ Fetched
    /\ report' = "page"
    /\ phase' = "page"
    /\ UNCHANGED <<config, findings, result, events, stdout, stderr, file, exit>>

(* handle_redirect_loop: a page of its own for the URL the loop ended at,  *)
(* with nothing found on it but the loop.                                  *)
LoopFinding == finding("redirects.loop", "Links", 40)

(* No constant is in it: it is here because the provers do not know that a *)
(* literal is a string.                                                    *)
ASSUME LiteralAssumption == LoopFinding.check \in STRING

handle_redirect_loop ==
    /\ Fetched
    /\ report' = "loop"
    /\ findings' = <<LoopFinding>>
    /\ MadeOf(current, findings')
    /\ UNCHANGED <<config, events, stdout, stderr, file>>

FetchFailed ==
    /\ Fetched
    /\ report' = "failed"
    /\ exit' = "error"
    /\ phase' = "done"
    /\ UNCHANGED <<config, findings, result, events, stdout, stderr, file>>

(* The page auditors run on a thread of their own, awaited at once; if one *)
(* of them panics the audit fails.                                         *)
AuditPage ==
    /\ phase = "page"
    /\ findings' \in PageFindings
    /\ phase' = "robots"
    /\ UNCHANGED <<vars, config, result, events, stdout, stderr, file, exit>>

AuditPanics ==
    /\ phase = "page"
    /\ phase' = "done"
    /\ exit' = "error"
    /\ UNCHANGED <<vars, config, findings, result, events, stdout, stderr, file>>

(* The site auditors, one after the other.                                 *)
After == [robots |-> "sitemap", sitemap |-> "links", links |-> "score"]

AuditSite ==
    /\ phase \in DOMAIN SiteFindings
    /\ \E found \in SiteFindings[phase] : findings' = findings \o found
    /\ phase' = After[phase]
    /\ UNCHANGED <<vars, config, result, events, stdout, stderr, file, exit>>

(* A server tells its subscribers of the page, before it returns.          *)
PageDone(page) ==
    events' = IF config.server
              THEN Append(events, [url |-> page.url, score |-> page.score]) ELSE events

Score ==
    /\ phase = "score"
    /\ MadeOf(current, findings)
    /\ PageDone(result'.pages[1])
    /\ UNCHANGED <<vars, config, findings, stdout, stderr, file>>

-----------------------------------------------------------------------------
(* src/report: what the two writers make of a report; a page of it has a   *)
(* url, category_scores and a score.  The JSON is the report; the text for *)
(* the terminal says less.                                                 *)
write_json(made) == [json |-> made]

(* The mean of each category over the pages, a bar of ten beside it.       *)
render_category_bars(made) ==
    [c \in Category |->
       Mean([i \in DOMAIN made.pages |-> made.pages[i].category_scores[c]])]

(* The pages, the lowest score first, those of one score as they came.     *)
render_page_table(made) ==
    LET rows == [i \in DOMAIN made.pages |->
                   [url |-> made.pages[i].url, score |-> made.pages[i].score]]
    IN  FlattenSeq([s \in 1..101 |-> SelectSeq(rows, LAMBDA r : r.score = s - 1)])

write_terminal(made, quiet) ==
    IF quiet THEN [score |-> made.site_score]
    ELSE [score |-> made.site_score, bars |-> render_category_bars(made),
          table |-> render_page_table(made)]

(* What stdout has of the JSON: its last line is not ended and waits in    *)
(* the buffer of the process.  The text ends with a line.                  *)
Clipped == [but_last_line |-> write_json(result)]

(* emit_report.  A write may fail half way and leaves a torn text; the run *)
(* fails with it.                                                          *)
Torn == [torn |-> TRUE]

Wrote(text, written, next) ==
    \/ /\ written = text
       /\ phase' = next
       /\ exit' = IF next = "done" THEN "ok" ELSE exit
    \/ /\ written = Torn
       /\ phase' = "done"
       /\ exit' = "error"

ScoreOnly == config.quiet /\ ~config.output

(* --quiet without --output: the score, and nothing else.                  *)
EmitScore ==
    /\ phase = "emit"
    /\ ScoreOnly
    /\ \E written \in {write_terminal(result, TRUE), Torn} :
          /\ Wrote(write_terminal(result, TRUE), written, "done")
          /\ stdout' = Append(stdout, written)
    /\ UNCHANGED <<vars, config, findings, result, events, stderr, file>>

(* File::create empties a file that is there.                              *)
CreateFile ==
    /\ phase = "emit"
    /\ config.output
    /\ \/ file' = <<>> /\ phase' = "json" /\ exit' = exit
       \/ file' = file /\ phase' = "done" /\ exit' = "error"
    /\ UNCHANGED <<vars, config, findings, result, events, stdout, stderr>>

(* The JSON goes to the file or, without one, to stdout.                   *)
EmitJson ==
    /\ \/ phase = "json"
       \/ phase = "emit" /\ ~config.output /\ ~ScoreOnly
    /\ LET text == IF config.output THEN write_json(result) ELSE Clipped IN
       \E written \in {text, Torn} :
          /\ Wrote(text, written, "terminal")
          /\ file' = IF config.output THEN Append(file, written) ELSE file
          /\ stdout' = IF config.output THEN stdout ELSE Append(stdout, written)
    /\ UNCHANGED <<vars, config, findings, result, events, stderr>>

(* The text goes to stdout if the JSON did not.  Mutant: it always does.   *)
MutEmitTerminal ==
    /\ phase = "terminal"
    /\ \E written \in {write_terminal(result, config.quiet), Torn} :
          /\ Wrote(write_terminal(result, config.quiet), written, "done")
          /\ stdout' = Append(stdout, written)
    /\ UNCHANGED <<vars, config, findings, result, events, stderr, file>>

EmitTerminal ==
    /\ phase = "terminal"
    /\ \E written \in {write_terminal(result, config.quiet), Torn} :
          /\ Wrote(write_terminal(result, config.quiet), written, "done")
          /\ stdout' = IF config.output THEN Append(stdout, written) ELSE stdout
          /\ stderr' = IF config.output THEN stderr ELSE Append(stderr, written)
    /\ UNCHANGED <<vars, config, findings, result, events, file>>

(* The process ends and writes what stdout still holds back; nobody asks   *)
(* whether that could be written.                                          *)
FlushAtExit ==
    /\ phase = "done" /\ ~config.server
    /\ phase' = "closed"
    /\ \/ stdout' = stdout
       \/ stdout = <<Clipped>> /\ stdout' = <<write_json(result)>>
    /\ UNCHANGED <<vars, config, findings, result, events, stderr, file, exit>>

PageNext ==
    \/ GateAllows \/ GateRefuses \/ Fetching
    \/ FetchedPage \/ handle_redirect_loop \/ FetchFailed
    \/ AuditPage \/ AuditPanics \/ AuditSite \/ Score
    \/ EmitScore \/ CreateFile \/ EmitJson \/ EmitTerminal \/ FlushAtExit

PageSpec == PageInit /\ [][PageNext]_allvars

-----------------------------------------------------------------------------
(***************************************************************************)
(* Safety.                                                                 *)
(***************************************************************************)

(* The report says what the fetch met: no page and a score of 100 only if  *)
(* the root was refused, and then it was never asked for; the page of the  *)
(* last URL asked if one came, with what the page auditors and then each   *)
(* site auditor found; a loop as the only finding if it was one.  A server *)
(* announced just the page that was audited.                               *)
InParts ==
    \E p \in PageFindings, r \in SiteFindings["robots"],
       s \in SiteFindings["sitemap"], l \in SiteFindings["links"] :
          findings = p \o r \o s \o l

ReportTellsFetch ==
    result # None =>
       \/ /\ result = [pages |-> <<>>, site_score |-> 100]
          /\ requests = <<>> /\ outcome = "none" /\ events = <<>>
       \/ /\ outcome \in {"page", "busy"} /\ InParts
          /\ result.pages[1].url = requests[Len(requests)].url
          /\ result.pages[1].category_scores = CategoryScores(findings)
          /\ events = IF ~config.server THEN <<>>
                      ELSE <<[url |-> result.pages[1].url, score |-> result.site_score]>>
       \/ /\ outcome = "loop" /\ findings = <<LoopFinding>>
          /\ result.pages[1].category_scores = CategoryScores(findings)
          /\ events = <<>>

(* A run that ends well has left the whole report in the file it was asked *)
(* to, and all but perhaps its last line on stdout; JSON never shares a    *)
(* stream with text; and a run that fails before there is a report leaves  *)
(* the file of an earlier run as it was.                                   *)
Json == write_json(result)

OutputWhole ==
    /\ exit = "ok" /\ ~config.server =>
          /\ config.output => file = <<Json>>
          /\ ~config.output /\ ~config.quiet => stdout \in {<<Json>>, <<Clipped>>}
          /\ Torn \notin Range(stdout) \cup Range(stderr) \cup Range(file)
    /\ \A json \in {Json, Clipped} :
          /\ json \in Range(stdout) => stdout = <<json>>
          /\ json \notin Range(stderr)
    /\ result = None => file = <<Old>> /\ stdout = <<>> /\ stderr = <<>>

(* "Audit one page, print JSON to stdout" in README.md: a run that ends    *)
(* well has printed the whole of it.                                       *)
StdoutWhole ==
    phase = "closed" /\ exit = "ok" /\ ~config.output /\ ~config.quiet => stdout = <<Json>>

(* The texts with bars that were written.                                  *)
Texts == {t \in Range(stdout) \cup Range(stderr) : "bars" \in DOMAIN t}

(* "Site Score: {score}/100" stands over the bars also when there is no    *)
(* page, and then the score is 100 and every bar is empty.                 *)
BarsAlwaysAgree == \A t \in Texts : \E c \in Category : t.bars[c] >= t.score
=============================================================================

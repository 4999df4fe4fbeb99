# sandslash, specified

sandslash audits web sites for search-engine problems. A command line (`src/src/main.rs`)
or an HTTP server (`src/src/server`) starts an audit of a root URL; with a depth above
zero a pool of workers crawls the site over a frontier kept in Redis, audits each page,
scores it and collects a report. This directory holds a TLA+ model of that program, the
instances TLC checks and the theorems TLAPS proves.

Paths below are relative to the repository: `src/crawler/engine.rs` is the file
`src/src/crawler/engine.rs` of `PROJECT.json`.

## Inventory

| component | state it keeps | operations | what makes it correct |
|---|---|---|---|
| frontier (`crawler/frontier.rs`) | three Redis keys per job: `seen` SET, `queue` LIST, `inflight` counter | enqueue (Lua), dequeue (LPOP), mark_done (DECR), is_complete (LLEN, GET), clear (DEL) | a URL enters once; `inflight` = queued + being worked on |
| crawl engine (`crawler/engine.rs`) | per worker: place in `worker_loop`, entry, links; shared: `pages_fetched`, `pages_done`, report channel, event broadcast | spawn_crawl_workers, worker_loop, mark_done_warn, run_crawl | nobody leaves early, everybody leaves in the end, cap and depth hold, no page twice, every page once |
| pipeline (`pipeline.rs`) | the driving task: collected reports, join handles, timeout; on the single-page path the findings, the report, the streams | run, run_for_server, handle_redirect_loop, emit_report | the report is complete, or partial after the timeout; keys are cleared; the call returns; one page is reported as it was fetched, and the output is whole |
| host rate limiter (`fetcher/rate_limiter.rs`) | token bucket, minimum interval and last acquire per host | acquire, set_min_interval | requests keep the rate and the crawl delay |
| fetcher (`fetcher/client.rs`) | per call: URL, chain, URLs seen, attempt | fetch, head | loops found, hops bounded, 429 and 503 retried, a cell of the limiter for each request |
| robots gate (`crawler/robots_gate.rs`) | a OnceCell of rules per host | allowed | one fetch of robots.txt per host, longest rule wins |
| robots.txt parser and auditor (`audit/robots.rs`) | while it reads: the running block | parse_rules, audit | each agent has the rules of its blocks and no others |
| link auditor (`audit/links.rs`) | per audit: a JoinSet and a semaphore of 32 | audit | a dead link is reported, a live one never; the audit ends |
| sitemap auditor (`audit/sitemap.rs`) | per audit: a stream of at most 32 probes | discovery, a sample of at most 50 URLs, probes; an index of sitemaps is not followed | a dead URL of the sample is reported, and the link auditor would agree |
| page auditors (`audit/*.rs`) | none | one page to its findings | a repair of a page never lowers its score |
| scores (`score/mod.rs`) | none | score_page, score_site | 0 to 100, more findings never score higher |
| audit server (`server/*.rs`) | map of jobs, terminal event per job, broadcast channel per job | start_audit, stream_events, sweeper | each subscriber gets Started, pages, one verdict, and its stream ends, if only when the job is forgotten |
| report diff (`diff/*.rs`) | none | compute, render | no change is shown where there is none, means move as the pages do |
| link discovery (`parser/links.rs`) | none | normalize, is_same_site, discover_links | one page, one URL |
| front end gateway (`frontend/app/api`) | a counter of active audits and a map of request counts by address, in memory; finished runs in a database | start, stream, history | rate and concurrency limits where they are switched on, a slot given back on every way out |
| HTML parser, report writers, configuration | none | | text processing and output |

How they interact: `pipeline::run` seeds the frontier and spawns the workers; each worker
takes an entry, asks the robots gate, fetches through the fetcher (which waits for the rate
limiter), audits the page on a blocking thread, sends a `PageReport` over an mpsc channel
to the driving task and a `PageDone` event over a broadcast channel to the subscribers, and
puts the links it found back into the frontier. The frontier is shared behind one tokio
mutex, the counters are atomics, Redis is another process.

What is hard here: the interleaving of the workers between their awaits; the counter
`inflight`, by which an empty queue is told from a finished crawl; the gate of
`--max-pages`, three steps that are not atomic; Redis calls that fail before or after they
were applied; `abort()` in the middle of a worker; the timeout that drops a future which
holds data; two requests of one host that sleep at the same time; a worker that is aborted
while it fetches the robots.txt the others wait for; servers that answer differently each
time; a subscriber that arrives while the audit ends; scores summed in floating point in the order
of a hash map; means that are cut off; a front end that tests a counter before an await. `PROJECT.json` lists these hazards, each at its line.

## Modules

| module | models | state |
|---|---|---|
| `Frontier` | `crawler/frontier.rs` | `seen`, `queue`, `inflight`: the three keys; `faults`: failed calls so far |
| `CrawlEngine` (EXTENDS Frontier) | `worker_loop` for any set of workers | `pc`, `cur`, `kids`, `kid`, `nth` per worker; `pagesFetched`, `pagesDone`, `channel`, `events` shared |
| `Crawl` | what a crawl promises; the abstract specification CrawlEngine implements | `known`, `settled`, `stopped` |
| `CrawlRun` (EXTENDS CrawlEngine) | the task that drives the pool: `run` with and without the timeout, `run_crawl` | `main`, `fate` of each task, `collected`, `timedOut` |
| `RateLimiter` | `acquire` and `set_min_interval` for one host, in discrete time | `now`, `tat`, `minInterval`, `lastAcquire`, `pc`, `min`, `wake`, `returns` |
| `AuditServer` | `start_audit`, its background task, `stream_events`, the sweeper | `jobs`, `age`, `task`, `outcome`, `terminal`, `sent`, and per request `st`, `job`, `snap`, `pos`, `done`, `got` |
| `RobotsRules` | `parse_rules` line by line, and the longest match of the gate | `text`: the lines read; `uas`, `disallows`, `allows`, `delay`: the running block; `result` |
| `RobotsCache` | the gate under the workers of a crawl: the OnceCell of each host | `todo`, `pc`, `page`, `cell`, `permit`, `file`, `registered`, and the counts `asked`, `audited`, `lost`, `requested` |
| `Fetcher` | one `fetch`, and what its caller reports of it | `pc`, `current`, `chain`, `seen`, `attempt`, `wait`, `outcome`, `report`, and the records `requests`, `cells` |
| `LinkProbe` | the audits of links of several pages at once | `server`, `audit`, `sem`, `probe`, `outcome`, `findings`, `probed` |
| `SitemapProbe` (EXTENDS LinkProbe) | the sitemap audit of each page, then its link audit, over the same servers | `named`, `sitemap`, `stage`, `target`, `loc`, `faults` |
| `SinglePage` (EXTENDS Fetcher, Scores) | the single-page path of `run` and `run_for_server`, to the exit code, with the writers of `report/json.rs` and `report/terminal.rs` | `config`, `phase`, `findings`, `result`, `events`, `stdout`, `stderr`, `file`, `exit` |
| `Gateway` | the route handlers of the front end, from await to await | `proxied`, `protected`, `now`, `rateMap`, `activeAudits`, and per request `stage`, `reply`, `passed`, `opens`, `rows` |
| `LinkDiscovery` (EXTENDS CrawlEngine) | `parser/links.rs` and `partition` of `audit/links.rs`; the crawl of any site given by the hrefs of its pages | operators; no state of its own |
| `Scores` | `score/mod.rs` | operators |
| `PageAudits` (EXTENDS Scores) | the nine page auditors | operators |
| `ReportDiff` (EXTENDS PageAudits) | two audits of a site, an edit between them, the diff | `site`, `first`, `mode`, `before`, `after`, `stage`, `shown` |
| `MCCrawlEngine`, `MCCrawlRun`, `MCCrawlSite`, `MCRobotsRules`, `MCRobotsCache`, `MCFetcher`, `MCSitemapProbe`, `MCSinglePage`, `MCReportDiff`, `MCGateway` | the sites, files, servers and requests TLC is given | |
| `CrawlEngine_proofs` (EXTENDS CrawlRun and LinkDiscovery), `RateLimiter_proofs`, `RobotsRules_proofs`, `RobotsCache_proofs`, `Fetcher_proofs` (EXTENDS SinglePage), `LinkProbe_proofs` (EXTENDS SitemapProbe), `ReportDiff_proofs`, `Server_proofs` (EXTENDS AuditServer and Gateway) | theorems | |

**Frontier and CrawlEngine.** A step of a worker is the code between two points at which
tasks can interleave: an await, an atomic operation, a send. The frontier mutex is held
across exactly one frontier call, so a call is one step, with one exception: in the loop
over the links the guard `f` of the enqueue lives to the end of the loop body, so the
rollback of `pages_fetched` runs under it (`EnqueueInVain`, then `Rollback`); every other
frontier call waits for it (`LockFree`). A call that fails has reached Redis or has not;
both are possible and the caller cannot tell (`EnqueueFails`, `DequeueFails`,
`MarkDoneFails`, `ClearFails`). `ConnectionManager` repeats no command by itself.
A queue entry is the pair that `encode` writes and `decode` reads: digits, `|`, URL, so the
first `|` is always the separator and an entry that was stored decodes.
A fetch, an audit and a robots lookup are choices of outcomes: the constants `Flaky`,
`Blocked` and `Links` say which pages may fail, which are refused and what they link to.

**CrawlRun.** `Receive` moves a report from the channel to `collected`; `ChannelClosed`
needs the channel empty and every worker gone, as `recv` returns `None` only when all the
senders are dropped. `Timeout` drops `collect_fut`: `collected` becomes empty. `abort()`
lets a task that is suspended be dropped where it stands (`Drop`), one command already on
its way be applied (`LastCommand`), and a task that is being polled on another thread run
to its next await (`LastLocalStep`). Dropping a task drops its mutex guard.

**RateLimiter.** The code between two awaits is short on the scale of a tick, so the clock
moves only while every task waits (`Waits`). A sleep may end up to `Lateness` ticks late.
The governor bucket is external: its documented cell-rate algorithm, one theoretical
arrival time per host. The two maps are concurrent hash maps: each operation on them is
atomic, two of them are not, which is why `ReadInterval`, `Compare` and `Stamp` are
separate actions.

**AuditServer.** `start_audit` creates the job and spawns its task. `run_for_server` is
reduced to the order of its events. `start_audit` passes no `redis_url`, so a job with
a depth other than zero (and the default is one) fails at once (`Deep`), and a job sends two
events at most: the buffer of 256 events cannot overflow, the `Lagged` branch cannot be
reached. A request looks the job up and copies its terminal event under the guard of the map
(`Look`), and subscribes in a second step (`Subscribe`): there is no await between the two,
but the audit runs on another thread. A stream that replays a stored verdict ends with it. One that
was subscribed does not end with the verdict it forwards: `scan` only notes it (`done`) and ends at a
further item or when the channel closes, and as the verdict is the last item and the map of jobs holds
a sender, that is when the sweeper forgets the job (`ChannelCloses`). The comment before `scan`
says otherwise (see below).

**RobotsRules.** A behaviour is a body read line by line; the last block is flushed by the
end of the body, so `Parsed` is what `parse_rules` returns of the lines read so far and an
invariant speaks of every body. A line is what the code sees of it: a comment that stands
alone is an empty line with a kind of its own. The lists of `ParsedRules` are sets, since the
gate takes a maximum over them and the limiter keeps the largest delay. A path is a sequence
of segments; among the prefixes of one path the longer has the more.

**RobotsCache.** A host is the key of the cache, the name without scheme and port. `permit`
is the semaphore inside tokio's OnceCell: it is given back when the initialiser is dropped,
and the next waiter starts again. `set_min_interval` is called once per delay with no await
between two, but workers on other threads ask the limiter meanwhile, so each is a step. An
abort takes effect at an await, so never between the answer and the filled cell. The rules
are the two functions `DelaysOf` and `Refused` of a file: what they are is RobotsRules.

**Fetcher.** A step is the code between two awaits, the checks at the head of the outer loop
one step each. The servers choose at every request. `requests` and `cells` are not in the
code: they record what was sent and taken, for the properties.

**LinkProbe.** A task of the JoinSet is a page with one of its links. A server's answers to
HEAD and GET are chosen once, so that the findings can be held against them; codes that the
auditor treats alike are one answer. The audit of a page that is aborted drops its tasks and
its semaphore with them.

**SitemapProbe.** robots.txt names a sitemap or not, and what is at that URL and at
`/sitemap.xml` is chosen once: missing, malformed, an index, a list of entries. The sample is
computed as `extract_loc_urls` does it, then probed through `buffer_unordered`, which takes
the entries up in order and ends them in any. The link audit of the page is LinkProbe's,
action by action; the worker's abort ends both. `site_auditors` lists robots, sitemap, links: the
robots auditor, which comes first, is in RobotsCache.

**SinglePage.** The fetch of the root is Fetcher's, action by action. What the gate answers and
what the auditors find are choices, each finding with its category and penalty, so that the
scores are those of the code. `emit_report` is four actions: the score alone, the creation of
the file, the JSON, the text; each of them may fail, and a write may have written a part
(`Torn`). The JSON on stdout does not end its last line, so that line waits in the buffer of stdout
(`Clipped`) and is written when the process ends, where nobody asks whether it could be
(`FlushAtExit`). A page auditor that panics on its thread fails the audit (`AuditPanics`).
`run_for_server` is the same path with `config.server`: it sends the page's event and
returns the report.

**LinkDiscovery.** A URL is a record and an href what `Url::join` can make of one. A query is
its pairs: the code decodes them and encodes them anew, so a pair stands for all its
spellings, and only the order and the dropped keys are left to model. The site of a crawl is
its `Hrefs`, any at all; `SiteAssumption` makes what `discover_links` returns for them the
`Links` of CrawlEngine. `Landing` says at which URL the redirects of each end: the crawl resolves the
links of a page against the URL it took from the queue, the link auditor against that one
(`page.url`). MCCrawlSite is a site of four pages with 13 hrefs, one of which has moved to another host.

**Scores, PageAudits.** A finding is its check, category and penalty. A page is
what the auditors read of it (see the head of PageAudits; the threshold for too little text is part
of the verdict `thin`, that for too few tags a constant, since the environment may set both): counts, verdicts on lengths, kinds of
canonical. The weighted sum is over `f64` in the order of a `HashMap`; `PageScores` is the set of
scores it can come to. The order is lost in the rounding except at exactly half a point, and
there it shows only if a term is no multiple of a quarter.

**ReportDiff.** A behaviour is one use: audit, edit, audit, diff. An audit is any report
`Reports` allows of the site. URLs are numbers, in the order of their strings.

**Gateway.** Node runs one handler at a time and only awaits let another in, so an action is
the code from one await to the next: in particular `Arrive` (rate limit and the test of the
counter) and `Spawn` (the increment) are two. `proxied` and `protected` are chosen at the start: the
rate limit and the refusal as busy hold only where LIVE_DEMO_RATE_LIMIT_PROTECTION is "true"
(route.ts:11), and docs/DEPLOY.md:23 has it off by default; what is said of them below is said for where
it is on. A report is stored when the child has ended well (`Saved`) or when `Done` passes through
the relay (`RelayDone`), which reads on until the audit server closes its stream (`RelayEnds`).

**Crawl.** The abstract crawl knows pages, settles each one it knows, learns of a page only
while it works on a page that links to it, and stops when all are settled. The mapping:
`known` is `seen`; a page is settled when it is neither queued nor with a worker;
`stopped` is "some worker has left".

## Runs

| run | what it checks | bounds | distinct states |
|---|---|---|---|
| `engine_capped` | InflightAccounting, CapAccounting, ProcessedOnce, ImplementsCrawl | 2 workers, 4 URLs, depth 2, cap 3, 2 failed calls | 18 807 |
| `engine_whole` | DepthSound, EverySeenReported, LinksFollowed, EventsNumbered, SpellingsMerged, InternalIsCrawled | 2 workers, 4 pages that 13 hrefs lead to or away from, one of them redirected, depth 2, no cap, no failed call | 10 694 |
| `run_timeout` | ReportsConserved, ResultComplete, LittleLeftBehind, EventuallyReturns | 2 workers, 3 URLs, depth 2, cap 3, 1 failed call, with and without a timeout | 324 693 |
| `limiter_slow` | OwnSpacing, HostSpacing | 2 tasks, 3 calls and those under way, delays 1 and 3, 2 cells and one more each tick, clock to 24 | 261 672 |
| `server_streams` | StreamShape, Replayable, VerdictArrives, StreamsEnd | 2 jobs (one of depth 1), 2 requests, jobs live 1 round | 117 608 |
| `robots_blocks` | RulesPerBlock, LongestWins | bodies of up to 4 lines, 3 agents, 3 nested paths, 2 delays | 54 241 |
| `robots_gate` | SingleFlight, DelaysKnown, LookupReturns | 3 workers, 3 pages of 2 hosts, 2 files or none | 163 958 |
| `single_page` | ChainTellsAll, RequestsBounded, RetriesPaid, ReportTellsFetch, OutputWhole | 4 URLs (2 hosts, one URL without), 2 redirects, 2 retries, the server and 4 sets of flags | 78 173 |
| `probe_audits` | FindingsExact, SampleJudged, AuditorsAgree, PageAudited | 2 pages that share a link, 4 entries cut to 2, 2 URLs, 5 kinds of server, 4 pairs of sitemaps, 1 permit, a buffer of 2 | 165 030 |
| `audit_diff` | ReportRepeats, SiteDeltaExplained, RepairShows | pages with up to two faults (three of the slight ones) and each repair of one part of them; sites of up to 2 of 5 pages, each turned into every other | 40 816 |
| `gateway` | SlotsAccounted, BurstBounded, BusyPasses | 5 requests of 2 addresses, with and without the protection, 1 slot, 2 requests to a window of 2 ticks, clock to 2, a stream opened once | 1 500 111 |

The type invariants of the state machines are theorems, and no run checks them again.
CapRespected, ExitIsFinal, NoEarlyExit, DelayGrows, StarSound, OneVerdict, Backoff,
PermitsAccounted, DeadReported and ResultWithinLimits are left to their theorems (see Proofs).

Why the bounds are enough: two workers are what every property about interleaving relates
(the properties speak of pairs, and a third worker adds a second copy of the same race);
the site has a diamond, a back link and a self-reachable root, so a page is found twice,
at two depths, and by two workers at once; the cap is smaller than the site, so slots are
refused, and larger than one, so that some are granted; two failed calls are needed to see
two different ones add up. Four lines of robots.txt hold an agent, a rule, an end or a second
agent, and one more; three nested paths give every order of a shorter and a longer rule.
Three workers are one that fetches robots.txt and two that wait when it is aborted. Two hops
of a fetch are what retries must be kept apart between, and the limit of ten differs from one
of two in nothing but the number. One permit for two links makes one wait for the other; a
sample of two out of four entries, one no URL and one twice, has something to cut and
something to skip. Two faults of a page are one that may hide the other; three slight ones are
needed to bring a score to half a point. Four requests of one address are twice what a window
lets through. A call that sleeps while another task returns twice is what HostSpacing is about: three calls
that return and one under way. The theorems hold for any number of workers, pages and failures.

One more run checks a sentence the code says of itself and shows that it does something else; it
is the finding of `PROJECT.json`:

| run | claim | what happens |
|---|---|---|
| `run_partial` | `CollectedKept`: pipeline.rs:157, "whatever completed" | the timeout drops the vector with the reports already received |

### What the code does otherwise

These too were met while modelling. Each is a property of its module; the configuration beside
it, `<module>_otherwise.cfg`, makes TLC print the counterexample
(`tlc -config MCFetcher_otherwise.cfg MCFetcher`; where a configuration lists several claims
TLC stops at the first that fails, so strike those out for the next). They are not among the runs.

| module | claim | what happens |
|---|---|---|
| `MCCrawlEngine` | `CapStrict`: engine.rs:358, "we didn't actually enqueue" | an enqueue that was applied and whose reply was lost gives its slot back, and one page too many is crawled |
| | `ExactlyMaxPages`: engine.rs:390, "exactly K of N" | the slot held for a duplicate turns another worker's new page away for good |
| | `Termination`: README.md:220, "without hangs" | one failed mark_done, or one pop with its reply lost, and `inflight` never reaches zero: the workers poll for ever |
| `MCCrawlSite` | `SpellingsMerged`, the root given with a tracking key | the root is seeded as given, the links to it normalised: it is crawled and reported twice |
| | `InternalAlwaysCrawled`: what is internal for the link auditor is internal for the crawl | on a redirected page it is not: the crawl resolves the links against the queued URL (engine.rs:274), the auditor against the last (links.rs:106), and internal links are probed and not crawled |
| `RateLimiter` | `Spacing`: rate_limiter.rs:24, "successive `acquire()` returns" | two tasks read the same stamp, sleep to the same instant and return together |
| `AuditServer` | `NoRaceWindow`: routes.rs:108, "no race window" | the verdict is stored and sent between lookup and subscription, and the client waits for an event that has gone by |
| | `EndsWithVerdict`: routes.rs:146, "terminates the stream after Done or Error" | a subscribed stream stays open after its verdict until the sweeper forgets the job, some ten minutes |
| `MCRobotsRules` | `NewAgentNewBlock`: audit/robots.rs:31, "a new `User-agent` starts a new block" | a User-agent after a rule line joins the block above it and inherits its rules |
| | `CommentsIgnored`: audit/robots.rs:32, "comments are stripped" | a line with only a comment ends the block |
| | `OwnBlockUsed`: robots_gate.rs:214, "if there is a UA-specific block, use it" | a block of ours without rules (`Disallow:` with nothing) falls back to `*` |
| `MCRobotsCache` | `EveryUrlConsulted`: docs/IMPLEMENTATION.md:582, "before fetching any URL" | the targets of redirects are not put to the gate |
| | `FetchedOnce`: tests/crawler_robots_gate.rs:340, "fetched exactly once" | the auditor fetches it again on every page; the test runs the whole pipeline, needs Redis and is ignored by default |
| `MCFetcher` | `LoopIsALoop`: error.rs:22, "Redirect loop detected" | the hop limit is reported as a loop |
| | `TenRedirectsFollowed`: docs/IMPLEMENTATION.md:396, `0..=10` | ten URLs are asked, nine redirects followed |
| | `LoopReported`: docs/PLAN.md:382, "emit Critical loop finding" | in a crawl the page is skipped |
| `MCSitemapProbe` | `TestedOnce`: docs/PLAN.md:238, "each URL is tested once" | a link of two pages is probed twice |
| | `HostileSpared`: docs/PLAN.md:238, "fall back to GET for HEAD-hostile servers" | only 405 and no answer lead to a GET |
| `MCSinglePage` | `BarsAlwaysAgree`: the score stands over the bars it is made of | a root that robots.txt refuses gets 100 over seven empty bars (a crawl without pages gets 0) |
| | `StdoutWhole`: README.md:63, "print JSON to stdout" | the last line is written as the process ends, and that it could not be is not reported: success over a report cut short |
| `MCReportDiff` | `HttpsShows`: the move to https is no regression, whatever the page loads | over http only the page is blamed, over https each of its http resources: the repair may lower the score |
| `MCGateway` | `AtMostMax`: docs/DEPLOY.md:23, "max 3 concurrent audits", with the protection on | the slot is taken an await after the test |
| | `OneRow`: one audit, one row of the history | a stream that is opened again stores its report again |

The counterexample to `Termination` is found under the fairness below: a loop in which both
workers keep polling.

Seen while the operators were written, and stated in them without a property of its own: a
relative canonical counts as invalid; any `link` with an http href, the canonical among them,
counts as mixed content; an item of an `@graph` is blamed for the context its parent has, and
one more `@type` can lower a score; the levels of headings are compared as counts, never in
their order on the page; scheme and port of a canonical are not compared; with two canonical
elements, the first without an href, the page counts as having none; a page that ends a redirect
loop scores 94; `is_same_site` ignores port and scheme; a single-page report carries the URL
the redirects led to, the report of a crawl the queued one; `File::create` empties the earlier
report before the new one is written; the gateway's map of addresses only grows; and a page
that leaves before `Done` has no row in the history.

## Fairness

- `CrawlEngine.Fairness`: weak fairness of each worker's step. A tokio task that can run is
  polled; a fetch has a client timeout, so it comes back; the tokio mutex is first come,
  first served, and its critical sections are single steps; an audit on a blocking thread is
  a finite computation. The wait that a server asks for with Retry-After has no upper bound
  in the fetcher: it is taken to be finite. Nothing is assumed of Redis: a call may fail up
  to `MaxFaults` times, and that the pool shuts down is claimed only for no failure or under a
  timeout (`EventuallyReturns`).
- `CrawlRun.RunFairness`: the driving task is polled, its timer fires, each task it spawned is
  polled or, when aborted, dropped.
- `AuditServer.Fairness`: the audit task and the stream of a client are polled, and the
  sweeper's interval timer fires; `PolledSpec` leaves the sweeper out, to ask what the code says
  of a stream by itself (`EndsWithVerdict`). A client need not stay (`Leave`), and nothing says that
  a request is ever made.
- `RobotsCache.Fairness`: a worker that has taken a page is polled, and a fetch comes back.
  That a OnceCell wakes one of its waiters when an initialiser is dropped is the fairness of
  `StartInit`. Nobody need take another page, and nobody need be aborted.
- `LinkProbe.Fairness`: each spawned task and each joining audit is polled. That a waiting
  task gets a permit does not need the order of the semaphore: each task takes one once.
- `SitemapProbe.FairSiteSpec`: each page's worker goes on, and one of the probes of its sample
  that can move does; the link audit as in LinkProbe.
- `Gateway.FairGateSpec`: what a handler awaits comes: the body, the end of the child, the answer of the
  database or of the server, the end of a relayed stream. route.ts puts no limit on the child; it
  ends because it audits one page: the requests of its fetch are bounded (`RequestsBounded`), each
  of them by the client's timeout, and the waits between them are finite as above. A relayed stream ends
  when the server closes its own (`StreamsEnd`) or the connection breaks. No request need arrive, and
  the clock need not move.
- RateLimiter, Fetcher and SinglePage state no fairness: only safety is claimed of them. That a fetch
  comes to an end follows from `RequestsBounded`; which of two tasks that wait for a cell gets
  it is up to the governor crate, and nothing is said of it.

## Proofs

Every property the passing runs check that is not a liveness property is a theorem, for every
value of the constants, with two hypotheses that are stated in their theorems (`-c` is not zero;
the root is a web address in normal form). The assumptions are the named
ones of the modules (`FrontierAssumption`, `EngineAssumption` and so on): that limits are numbers,
that the set of workers is finite, that a site's pages have the shape the code
gives them. Each invariant below was put to TLC on the module's run before it was proved.

**The pool (`CrawlEngine_proofs`)**, for any finite set of workers, any site, depth, cap and
number of failed calls.

- `TypeCorrect`; `InflightIsAccounted`: `inflight` is the length of the queue plus the number of
  busy workers, plus a gap between 0 and the failed calls; each action moves the three terms
  by amounts that cancel.
- `NoWorkerLeavesEarly` and `TheFirstExitIsFinal`: the second is what makes the first
  inductive. A worker leaves only with an empty queue and `inflight <= 0`; by the accounting
  no worker is then busy; and from there no step makes one busy again.
- `TheCounterIsAccounted` and `TheCapIsRespected`: `pages_fetched` is the number of URLs
  seen plus the slots in hand, less the lost replies. The strengthening says in addition
  that a worker with a slot for a new page got it when the counter was below the cap.
- `ThePoolImplementsCrawl`: the initial state maps to the abstract one, every step to
  `Discover`, `Settle`, `Stop` or a stutter. Needed besides the above: the links a worker holds
  are links of the page it works on, and its page and the queued ones have been seen.
- `EveryPageIsProcessedOnce`, from `ClaimInv`: a URL is at one place at most, in the queue, with a
  worker that has not reported it, or in the channel, and each of them has been seen; an enqueue
  adds only what was not seen.
- `EverySeenPageIsReported`, from `SettledInv`: while no call has failed, a seen page waits, is
  worked on, was reported or is excused. It has the hypothesis `Workers # {}`: the code
  takes `-c 0`, starts a pool of nobody and reports nothing, which "all have left" holds of.
- `EveryLinkIsFollowed`, from `FollowInv`: a link of a reported page was seen or is in the hand of
  the worker that reported it. The failing step of a first attempt was the
  refusal by the cap, so the invariant says that without one nobody is refused.
- `EveryDepthIsSound`, from `DepthInv`: an entry has the depth of a walk of links to its page, and
  whoever is about to enqueue a child is above the limit.
- `EventsAreNumbered`, from `EventInv`: the reports sent, counted and announced differ by the
  workers between those three steps, and the numbers in hand are new and different.

**The task that drives it (same module, over CrawlRun).** `RunTypeCorrect`; `NoReportIsLost`,
from `RunInv`: until the timeout nobody is aborted, and collected plus waiting reports are those
sent. `TheResultIsComplete` says what a crawl that ran to its end owes its user: all reports that
were sent, and, if no frontier call failed, the root and every page seen; without a cap the
result is closed: a page above the depth limit has all its links in it, but for pages that may
not be fetched or failed to load. `GatherInv` carries `SettledInv`, `FollowInv`, the accounting
and `NoEarlyExit` of the pool through the collection: the first two take the reports that have left
the channel as a parameter, so that one induction serves the pool alone (none has left) and the
crawl. `LittleIsLeftBehind`, from `LeftInv`: after the abort each task
can apply one command at most, so keys that come back after `clear` number at most the tasks
dropped. `NoPageIsTwiceInTheResult` lifts the pool's uniqueness to the report: no URL is twice
among the collected pages, whichever calls fail and whenever the timeout fires. Its invariant
`TakenInv` keeps the pool's invariants only until the keys are cleared, since the last command of
an aborted task may enqueue a page anew; by then nobody takes reports any more.
`TheResultIsWithinLimits`, from `LimitsInv`: no page of the result, timeout or not, is blocked,
beyond `--depth` or without a walk to it, and there are no more than `--max-pages`, up to one for
each enqueue whose reply was lost. The pool's `CapInv` does not survive an abort: a task dropped
between reserving and enqueueing keeps its slot for ever, and the counter runs ahead of the URLs.
Its upper bounds (`SlotsBounded`) do, a lost slot only makes the cap tighter; so they were
taken out of it and proved to be inductive on their own.

**The site (same module, over LinkDiscovery)**, for any hrefs on any pages and queries of any
length. `NormalFormsArePages`: two web addresses have one normal form exactly if they are the same
page, that is, agree up to the order of their keys, their fragments and the tracking keys; and
`NormalizeIsIdempotent`, the claim of links.rs:33. Both rest on what a stable sort does: the pairs of
each key keep their order, and a query sorted by key is determined by the pairs each key has.
Queries are induced over as the sums below are. `TheCrawlStaysInside`: a set of URLs that holds the root and
the links of its members holds all that is seen. `OnlyPagesAreSeen` takes for this set the web
addresses on the root's host in normal form, and the root. `SpellingsAreMerged` then needs the root
itself to be one of them, as its hypotheses say: a root given with a tracking key is seeded as it is
given, which is the counterexample of `MCCrawlSite_otherwise.cfg`. `InternalLinksAreCrawled`: what
the link auditor calls internal on a page that was not redirected, by rules of its own,
`discover_links` finds as well, and `EveryLinkIsFollowed` does the rest.

**`RateLimiter_proofs`**: `TypeCorrect`, `ATaskKeepsTheDelay`, `TheHostKeepsTheDelay` and
`TheDelayGrows` for any number of tasks, any rate, any delays. The invariant of the second says that the
stamp is no older than the latest return of any task, and that a task past its reading waits until
at least the interval it read after each of its own returns. That the delay holds for the
host fails (`Spacing`), but it holds up to one call of each task: a call may come too soon
after the last return of another task and after no earlier one. `DueCoversAll` is what makes this
inductive: a call that sleeps or is about to stamp is due an interval after every return there is,
or after every one but the last of its task, whose next call keeps an interval at least as long,
because it reads after, and the interval never shrinks.

**`RobotsRules_proofs`**, for any body. `TypeCorrect`; `BansAreReal`: the flag is set when
`Disallow: /` is read, the rule reaches the result when the block ends, and the invariant says that
it is in the one or the other. `BlocksAreKept`: `RulesPerBlock`, from `BlockInv`, which ties the
four lists of the parser to the lines of the open block and the result to those of the ended
blocks; a new line leaves the blocks of the earlier ones as they are, unless it opens one.
`TheLongestRuleWins`: the decision of the gate is that of the longest rule that matches.

**`RobotsCache_proofs`**, for any workers, hosts, pages and files: `TypeCorrect`;
`OneRequestAtATime`, by counting: requests are at most the aborted initialisers, plus one if
the cell is set or its permit taken; `DelaysComeFirst`; `TheVerdictStands`, which rests on the
fact that a cell is set once: only the holder of its permit sets it, and nobody holds the
permit of a cell that is set.

**`Fetcher_proofs`**, for any URLs, limits and servers. `TypeCorrect`; `AFetchIsBounded`: the
requests so far are at most `MaxRetries + 1` for each hop that is over and the attempts of this
one; `RetriesBackOff`: the invariant keeps, for an attempt under way, what the last request was.
`TheChainTellsAll`, from `ChainInv`: the chain, with the URL of this hop once it was asked, is the
list of the URLs asked, each once. `RetriesArePaid`, from `OwnInv`: the requests of the URL in hand
are the attempts, and each request took a cell; the URL is new at each hop, so those before do not
count.

Over SinglePage, for any flags and findings: `ThePageIsFetched`, a refinement (`PageSpec => Spec`:
every step is one of the fetch or leaves it alone, so that the theorems about Fetcher hold of
the page as well); `TheReportTellsTheFetch`, from `PhaseInv`: what has been found in each phase is
what the auditors that ran found, and the outcome of the fetch is fixed by then; `TheOutputIsWhole`,
from `OutInv`: nothing is written before there is a report, the file is emptied before the JSON, the
JSON goes out before the text, and a run that exits with success has torn nothing; the flush at the
end can only complete what is on stdout.

**`LinkProbe_proofs`**, for any pages, links, servers and number of permits. `TypeCorrect`;
`FindingsAreExact` and `DeadLinksAreReported` from one invariant (a task that has ended has its
server's verdict, a joined one is in the findings if it should be, and nothing else is);
`PermitsAreAccounted` by the cardinality of the tasks in flight. Over SitemapProbe, for any entries:
`TheLinksAreProbed`, a refinement as above, and `TheSiteFindingsAreExact` by it; `TheSampleIsJudged`
and `TheAuditorsAgree`, from `SiteInv`: the faults of a page are the entries judged so far whose
servers are dead, over a sample that is the first entries with a URL, each once, up to the limit.

**`ReportDiff_proofs`**, for any sites and edits: `ScoreWithin` (the score lies between the lowest
and the highest category: the clamp after the rounding has nothing to do and the cast loses
nothing); `ScoreMonotone`; `MeanMoves`; `Repeats`: `ReportRepeats` of the specification. The heart
of the last is `ScoreUnique`: when every category but Media is a multiple of five, half a point
makes every term a multiple of a quarter, which a binary fraction holds exactly, so that the order
of the sum cannot show. That the categories are such multiples is proved too (`Scored`): every
finding of the nine auditors (`PageFound`) outside Media takes a multiple of five, and so does a
sum of them, clamped. `NoDeltaIsInvented`: `SiteDeltaExplained`. The means are sums over the URLs in
order, cut off; two sums over the same pages differ by the differences of the pages, so a mean moves only
if a page did, and by no more than the page that moved most. `RepairsNeverShowAsWorse`: `RepairShows`,
for sites of any size, any number of pages repaired, each in any of its parts at once. What a
category loses is the sum of the penalties of its findings (`TotalJoined`, `CostOf`), and each auditor
takes from a repaired page no more than before in any category (`MetadataLess` to
`StructuredLess`). Headings and the test for pages rendered by scripts are taken together
(`StructureLess`): headings in order may be fewer, and fewer of them may make a page look rendered,
which costs no more than the disorder did. Clamping, weighing, rounding and the
cut-off mean are monotone, where `Fives` again rules out that the order of the sum shows.

**`Server_proofs`**, over AuditServer, for any jobs and requests: `TypeCorrect`;
`StreamsAreShaped` (Started, then a piece of the job's history without gap or repetition, and nothing
after the verdict) and `VerdictsAreReplayable`. `JobInv` says what a job has sent and stored at each place
of its task (a verdict is stored before it is sent, and sent last), `StreamInv` what a subscriber
has got of that: the events between the position at which it subscribed and the one it has read up to; a
replayed verdict is the end of the history, whether it has been sent by then or not.
Over Gateway, for any requests from any addresses: `GateTypeCorrect`; `SlotsAreAccounted`;
`RowsAreStoredOnce`, which no run checks: a report has one row of its child at most, and one of each
stream that was opened; `BurstsAreBounded`, which is the least obvious one: where the protection is on, the code counts in
windows that begin with a request, yet in any stretch of a window's length fewer than
`2 * RATE_LIMIT_MAX` pass. Each window lets `RATE_LIMIT_MAX` through at most; a stretch
that reaches into the next one begins after the request that began the first, and so has left it out.

How sums, samples and orders are proved. The provers cannot apply an induction theorem to a
predicate, and a fold of the community modules is a function chosen to satisfy its equation. Each
such fact is proved from the least index at which it would fail (`LeastExists`, from the
well-foundedness of the numbers): at zero and from one index to the next it cannot. First that
the chosen function exists (`FoldExists`, `PushesExist`), built from the longest partial one,
then what it computes. The lemmas on sums stand in Fetcher_proofs and in ReportDiff_proofs: a module
can extend the one or the other, not both.

Formulations chosen so that they can be reasoned about, equal to the ones the code suggests:
`Asked` says of a chain which requests each URL had, instead of rebuilding it from them; `InParts`
splits the findings by auditor; `Sample` is a fold of `push` over the entries; the order of the URLs
in a report is chosen by what it is, not sorted step by step. What the auditors that look at a whole
site find on a page comes as a constant, of which `SitesAssumption` says what their code does: each
takes a multiple of five. `LiteralAssumption` says that a literal is a string, which the
provers do not know.

Only model-checked:

- the liveness properties, which TLAPS does not reach (EventuallyReturns, VerdictArrives,
  StreamsEnd, LookupReturns, PageAudited, BusyPasses);
- that the claims of "What the code does otherwise" fail: each is a counterexample of TLC's.

## Not modelled, and why

- The parsing of HTML, XML and JSON-LD, of URL text and of the command line, the wording of
  findings, the layout and the colours of the output: text, of which no property speaks.
  PageAudits and LinkDiscovery begin where the text has been taken apart.
- Redis, the governor bucket, `Url::join` and the database: external, modelled by how the code uses them.
- The connections between modules that are not composed: in CrawlEngine a fetch, a lookup
  and an audit are outcomes, in RobotsCache a fetch is, in Fetcher the wait for a cell is one
  step, in SinglePage the gate and the auditors are choices. In a crawl a fetch leads
  to a page whose hrefs and whose last URL (`Landing`) are constants of LinkDiscovery: two entries
  that lead to one page are two pages, as they are in the report of the code.
- The multi-page path of `run_for_server`, which the server cannot reach with the `redis_url` it
  does not pass, beyond the order of its events.
- A panic of the background task of the server: nothing in `run_for_server` panics outside
  `spawn_blocking`, whose panics come back as errors.
- The `KeepAlive` comments sent every 15 seconds on an idle stream and the shape of events on
  the wire. The progress bar, whose total counts children and not the root.
- The React components, and reading the history.

## Plan

Done: every component of the inventory, as far as the section above does not take it back; the
proofs named above. Left, in this order:

1. A theorem that the refusal of a page by the gate, given RobotsRules, is the one RobotsCache
   assumes.
2. Redirect targets in the reports of a crawl, by giving CrawlEngine's fetch the outcomes of
   Fetcher.
3. An abstract audit (one verdict, one report) that AuditServer, CrawlRun and SinglePage all
   implement.

# A verification development for seo-crawler-mcp

seo-crawler-mcp is a Go program that crawls a site, records what it finds in
SQLite and serves reports through an MCP server and an HTTP API. This directory
holds TLA+ modules of the parts where several goroutines share state, the TLC
configurations that check them on small instances, and machine-checked proofs
of the safety properties that matter most, for every size of the instance.

Paths below are relative to the repository root (`internal/...`).

## 1. The system

### Components

| component | state it keeps | operations | hard behaviour | what makes it correct |
|---|---|---|---|---|
| **Crawl pipeline** (`engine/engine.go`, `frontier/queue.go`, `storage/urls.go`) | frontier heap and seen set, three bounded channels, counters `inFlight`, `pagesCrawled`, `urlsDiscovered`, `fetchSeq`, a cancel context with a cause, rows of urls/fetches/pages | dispatcher loop, fetcher pool, parser pool, persister, shutdown, finalizeJob | atomics read one after the other, every early exit must decrement `inFlight`, cancellation in any select, retries of a transaction, panics, close order of channels | `inFlight` is exact; nothing is lost by a quiet drain; budgets hold; no send on a closed channel; the crawl always ends with a truthful status |
| **Job lifecycle** (`httpserver/server.go`, `handlers.go`, `purge_worker.go`, `storage/jobs.go`, `main.go`) | the `crawl_jobs` row, `crawlMu`, `queue` (one token), `running` map, purge queue | POST, queue worker, runCrawlJob, DELETE, purge worker, reaping at start-up | the row is read and written by five parties without a common lock; restart | limit on running crawls; every running job has a run; a cancel reaches the crawl; an ended job never restarts; queued jobs are served |
| **Host onboarding** (`engine.ensureHostOnboarded`, `crawl/site_onboarding.go`, `robots/parser.go`) | hosts seen, robots rules, sitemap budget | once per host: robots.txt, sitemaps | the host is marked before its rules are there | rules apply to every fetch, budgets hold |
| **Per-host rate limiter** (`fetcher/ratelimit.go`) | per-host semaphore, last access, throttle delay and timer version | Acquire, Release, SetCrawlDelay, Throttle, Reset | a wait under the mutex, overlapping timers, Reset under use | concurrency limit, delay between requests, only the last throttle lifts itself |
| **Fetcher** (`fetcher/fetcher.go`, `decompress.go`, `ssrf/guard.go`) | redirect chain, seen set | fetch with redirects, one retry after 429 | the retry carries state of the first try | hops bounded, a loop is reported only when there is one |
| **Activity stream** (`httpserver/stream.go`, `storage/activity.go`, `storage/events.go`) | watermarks, stream slots | poll, batch, heartbeat, done event | the end of the job races with the last batches | a client gets every row once and in order while the job runs, however often its connection breaks; no status is behind the rows |
| **Request limiter, stream slots** (`httpserver/server.go`) | buckets and counters per address | allow, acquire, release, sweep | counting under concurrency | slots given back exactly once |
| **MCP jobs** (`mcp/tool_crawl.go`) | cancel functions by job, the same rows and the same engine | crawl_site, cancel_crawl, crawl_status | start in a goroutine races with cancel; no `crawlMu` | as the job lifecycle |
| **Post-crawl phases** (`engine.runPostCrawlPhases`) | rows | second pipeline, HEAD checks, enrichment, depths, rollups | errors of a phase, panics outside the pipeline's recover | the final status says what happened |
| **Renderer pool** (`renderer/*.go`) | slots, browser, closed flag | Render, Close | Close during a render | slots are given back |
| **Sitemap traversal** (`sitemap/parser.go`, `crawl/discovery.go`) | queue of indexes, visited set, counts | breadth-first walk with two limits | limits reached midway | each sitemap once, limits hold |
| **URL rules, issue detectors, HTML parser, robots matching** | none | pure functions | - | agreement with a reference definition |
| **Reports, DTOs, rollups** (`materialize`, `dto`, queries) | none beyond rows | SQL over finished crawls | - | agreement with the rows |
| **External audits** (`lighthouse`, `textquality`, `agentreadiness`, `llmstxt`) | none | clients of services | - | - |
| **Configuration, start-up** (`config`, `main.go`, `purge.go`) | configuration | load, wire, reap orphans, resume purges | restart | see job lifecycle |

### Interactions

An HTTP POST (or the MCP tool `crawl_site`) writes a row and, perhaps through
the queue worker, spawns `runCrawlJob`, which calls `Engine.RunCrawl`. RunCrawl
serialises crawls with `runMu`, seeds the frontier, onboards the seed host,
runs the pipeline and finalises the row. DELETE and `cancel_crawl` reach a crawl
on two ways: by its registered cancel function, and by the row's status, which
the crawl's status watcher polls. The fetchers call host onboarding, the rate
limiter and the fetcher; parsers push to the frontier the dispatcher pops from.
The activity stream and the reports read the rows.

## 2. Modules

### Crawl and CrawlPipeline

`Crawl` is what a crawl promises, without goroutines: each URL has a `stage` (new, waiting,
taken, answered, stored or closed) and a row. It is discovered once and taken once; its fetch
is answered and stored once, or fails on record, or is refused on record unless it is out of
scope; it is given up on its way only in a crawl that was disturbed (cancelled, or with a
failed worker); the verdict comes last, and an undisturbed crawl can only complete, with
nothing on its way. `Crawl` promises nothing about URLs that still wait when it ends: the
page limit, a failed drain check (section 3, 1) and a cancellation all leave some.

`CrawlPipeline` is the code, with one action per step of a goroutine that others can observe.
Its last section maps it to `Crawl`: `StageOf(u)` is read off the goroutine or channel that
has the item of `u` (`Asked`: on the way to a fetch or in one, `Answered`: after it), `row` and
`verdict` are the rows in the database, `disturbed` is `~Quiet`.

| part of the code | TLA+ |
|---|---|
| dispatcher loop, engine.go 1120-1162 | `DispatchReadPages`, `DispatchPop`, `DispatchNothing`, `DispatchSend(Cancelled)`, `DispatchReadCap`, `DispatchReadQueue`, `DispatchReadInFlight`, `DispatchTick`, `DispatchDone`. `pagesCrawled.Load() + inFlight.Load()` is two steps, because parsers and the persister run between them |
| shutdown 1164-1174, `finalizeJob` | `DispatchShutdown` (one disjunct per wait-and-close), `Finalize` |
| fetcher goroutine 1036-1118 | `FetcherTake`, `FetcherOnboard`, `FetcherOnboarded`, `FetcherOnboardFails`, `FetcherRobots`, `FetcherFetch`, `FetcherFetched`, `FetcherSend`, `FetcherCancelled`, `FetcherExit` |
| parser goroutine 1016-1033, `processParseResult` | `ParserTake`, `ParserCount`, `ParserReserve` and `ParserPush` for each link, `ParserSend`, `ParserCancelled`, `ParserExit` |
| persister 980-1011, `persistItem` | `PersistTake`, `PersistItem`, `PersistFails`, `PersistRetry`, `PersistCancelled`, `PersistFatal`, `PersisterExit` |
| context and `recoverWorker` | `Cancel`, `Panic`, `RecoverWorker`: a panicking worker runs `wg.Done` first and cancels afterwards |
| `frontier.Queue`, `UpsertURL` | `Push`, `Lowest`, `UpsertURLs` |

Data is abstracted: a URL is a model value in normal form, which stands for its
row too; the links of a page, the sitemap of a host, redirects, scope, robots
rules and the possible outcomes of a fetch are constants. A heap item is a
record; `Pop` returns any item of least depth, as the heap orders by depth only.

Assumed or left out: failing `UpsertURL` calls; the query-variant and repeated-segment
traps (links they reject are not in `Links`); how long the rate limiter waits
(a fetcher may stay in `acquire`); seeds share one host and sitemap entries
belong to the sitemap's host (`Onboarding` has entries on other hosts); `RespectRobots` on (`Disallowed = {}` is the other
case); assets, issues and edges of a page, the second and third pipeline and the
other post-crawl phases, which are `SiteAnalysis`'s. `"external"` is the cause for both `context.Canceled` and
`DeadlineExceeded`, which `isContextCancellation` does not tell apart.

### JobQueue and JobLifecycle

`JobQueue` is what the server promises about jobs, without requests, locks and signals: a
job is created once and waits; it starts once, while fewer than `Limit` jobs run, and
under a limit of one only if no older one waits; one goroutine works on it until after it is
over; a job that is over may be purged and is then gone for good; when the process ends, what ran
is over and what waits goes on waiting. It promises nothing about when a job starts: that is
`QueueServed`.

`JobLifecycle` maps to it in its last section: the rows that are cancelling, ended or
tombstoned are `over` (`LifeOf`), `created_at` gives the order, and a run is the job's
goroutine. Every SQL statement on a `crawl_jobs` row is a step; so are taking `crawlMu`,
registering a run, the engine's check of its context, and the calls of
`cancelRun` and `enqueue` after DELETE has written the row.

| part of the code | TLA+ |
|---|---|
| `handleCrawl` under `crawlMu` | `PostCount`, `PostCreate`, `PostStart` |
| `queueWorker` | `WorkerWake`, `WorkerCount`, `WorkerNext`, `WorkerClaim` |
| `runCrawlJob`, `registerRun`, `startJob`, `finalizeJob` | `RunRegister`, `RunLoad`, `RunCheck`, `RunCancelJob`, `RunWatch`, `RunFinalize`, `RunReport`, `RunPanic`, `RunRecover`, `RunExit` |
| `handleJobCancel` | `DeleteRead`, `DeleteWrite`, `DeleteCancelRun`, `DeleteEnqueue` |
| purge worker, `PurgeJob` | `PurgeNext` |
| `main`: end of the process, `MarkOrphanedJobsFailed`, `ResumePendingPurges` | `Restart` |

The crawl itself is one step, `RunFinalize`, whose outcomes are those of
`CrawlPipeline!Finalize`; a cancelled crawl may still complete and any crawl may
time out. Assumed or left out: writes of the job row succeed; the hourly job limit and the
address limiter (they only refuse a POST before the critical section);
`created_at` follows the order of creation; the purge queue is a set; resumed
purges are not limited by the queue's capacity; a graceful stop is a restart
like any other, because `main` cancels no crawl; unregistering a run and
signalling the queue are one step; acquiring `runMu` and the first read of the
row are one step.

### RateLimiter and Fetcher

`RateLimiter` declares the state of `fetcher/ratelimit.go` and one operator per
method or half of a method; `Fetcher` extends it and composes it with the workers.
Time is relative (what is left of a duration, how long ago a fetch was, cut off
at `MaxDelay`), so no behaviour is bounded by a clock.

| part of the code | TLA+ |
|---|---|
| `AcquireContext`: semaphore, then the mutex, then the wait with the mutex held | `AcquireSlot` / `TakeSlot`, `AcquireGranted` / `GrantNow`, `AcquireDelayed` / `StartWait`, `AcquireWaited` / `EndWait`, `AcquireCancelled` / `AbandonWait` |
| `Release`, `SetCrawlDelay`, `ThrottleHost` and its `time.AfterFunc`, `RecordTTFB`, `Reset` | the operators of these names, `TimerFires` |
| `ensureHostOnboarded` as far as the limiter is concerned | `Take`, `Onboarded` |
| `Fetch`, `doFetch`: redirects, loop check, hop limit, refused address, 429 | `FetchRedirect`, `FetchEnds`, `FetchTooMany`, `Throttle`, `Retry`, `RetryCancelled` |
| the worker's `Release` and `RecordTTFB`, a panic, the end of a crawl and the next | `ReleaseSlot`, `Record`, `Panic`, `Exit`, `Cancel`, `Close`, `NextCrawl` |

`Wired` says whether `Fetcher.RateLimiter` is set, which decides whether a 429
throttles the host. The address rules, bodies, decompression and HEAD requests are data.

### ActivityFeed and ActivityStream

`ActivityFeed` is what a client of a job's activity is promised, without
connections: after its snapshot, each row of each kind once and in order, and the
end only when the job has ended or is being deleted. `ActivityStream` is the
code: a server session's status, two queries and batches, terminal check and
ticker (`SendStatus`, `Query`, `SendRow`, `BatchSent`, `Terminal`, `TickFires`,
`Disconnected`), the slot it holds for its address, the connection's buffer
(`wire`), the client's snapshot and reconnection (`Snapshot`, `Open`, `Read`,
`Drop`), and what the rest of the program does to the job meanwhile
(`CommitFetch`, `CommitPhase`, `RemoveIssues`, `JobEnds`, `JobDeleted`, `PurgeIssues`,
`PurgeRow`, `JobGone`).

The issues of a job come and go: a page's are stored with its fetch, phases add more, a browser
pass deletes what its rendering refutes (engine.go:3843), the detection deletes the global
ones before it looks again (global.go:40), and the purge drains the table `issues` in chunks, before
the fetches, the events and the job's row, while a stream may still be opened
(jobs.go:215). So a count says nothing of when it was taken. `issues` is therefore the history of
the counts, and a message or a cache that carries a count names its place there.
`SnapshotCoversRows` says that a status counts the issues as they were when the last fetch
the client has was stored, or later. It does not say that counts never fall: they do, and a client
may read a smaller one than before.
Nor does it say that a count is of now: deletions alone do not make the cache stale, and
it may show issues that are gone until the next fetch.

Left out of `ActivityStream`: failing reads of the database (a failed count clears the stale mark
and keeps the old count); issues and events that phases write after a DELETE has tombstoned
the job (late batches of fetches and late deletions of issues are in); a tombstone
overwritten by the run's second write of its status.

The refinement mapping forgets sessions, connections and slots: `committed` is
`rows`, `received` is what the client has read, `phase` follows the status. The
client is an ideal one that resumes from the last row it has; it is external.

### McpJobs

| part of `mcp/tool_crawl.go` | TLA+ |
|---|---|
| `crawl_site`: the hourly limit, the limit on active jobs, the new row, the dry run | `CountRecent`, `CountActive`, `Create`, `DryRunEnds` |
| its goroutine and `RunCrawl` under `runMu` | `Register`, `Enter`, `CheckContext`, `Claim`, `Stop`, `Watch`, `Finalize`, `Panic`, `Report`, `Fail`, `Exit` |
| `cancel_crawl` | `CancelRead`, `CancelQueued`, `MarkCancelling`, `FinishCancelled`, `CancelRun` |

The module is like `JobLifecycle` but neither composes with nor refines it: the
two front ends never run in the same process. Assumed: writes succeed, an engine
is present, tool calls run concurrently (the library's worker pool), panics of a
dry run are left to the library. `crawlSiteViaHTTP` only forwards a call.

### Urls, PageIssues, SiteIssues, Settings, Onboarding, SiteAnalysis

These layers extend one another and give one job from its seeds to its report,
with one worker at a time: what the pools do to each other is `CrawlPipeline`'s
subject, what a phase reads of the phases before it is theirs.

| module | code | content |
|---|---|---|
| `Urls` | `urlutil`, `crawl/discovery.go` | URLs as records of parts; `Normalize`, `FrontierKey`, `HasRepeatedPathSegments`, scope, `BuildEdges` |
| `PageIssues` | `issues/pagelocal.go` | `DetectPageLocalIssues`: the set of issue types of an analysed page; texts are the attributes the rules ask of them |
| `SiteIssues` | `issues/global.go`, `materialize` | the tables of a job, the 29 site-wide detectors in their order, the clusters of the report |
| `Settings` | `engine.go` `effective*`, `has*Renderer` | how a job overrides the server's limits, which renderer a page gets |
| `Onboarding` | `crawl/site_onboarding.go`, `robots`, `sitemap`, `engine.ensureHostOnboarded` | robots.txt of each origin with retry and policy, rules by host name, groups and rules, the walk over sitemap indexes, admission of entries with nested onboarding (`calls` is the stack) and the two budgets |
| `SiteAnalysis` | `engine/engine.go` | the job |

| part of `engine.go` | TLA+ |
|---|---|
| seeding, `StartPipeline` | `OnboardSeedHost`, `StartCrawl` |
| a visit: scope, onboarding, robots, budget, fetch, redirects, parse, `persistItem` | `Dispatch`, `DropOutOfScope`, `OnboardVisited`, `SkipVisit`, `FetchFails`, `FetchAndAnalyze` (with `Observed`, `Context`, `Parse`, `Landed`, `Persist` for its parts) |
| end of a pipeline, with or without an error | `PipelineEnds`, `PipelineFails` |
| sitemap gap and browser enrichment | `StartGapEscalation`, `RenderKeyPage`, `EndGapEscalation`, `QueueBrowserDiscovered`, `StartEnrich`, `EnrichPage`, `EndEnrich` |
| asset HEADs, http audit, PageSpeed and axe, markdown, text quality | `HeadCheckAssets`, `StartHTTPAudit`, `AuditHTTPHost`, `EndHTTPAudit`, `RunAudits`, `CheckMarkdown`, `CheckText` |
| counts, depths, detection with its restore, rollups, `finalizeJob` | `RecalculateCounts`, `RecomputeDepths`, `StartDetection`, `RunDetector`, `DetectorFails`, `MaterializeAndCount`, `Finalize` |

`web` is what the outside world answers, a constant of a behaviour.

Left out here: concurrency inside pipelines and pools; cancellation inside a
post-crawl phase; failing statements other than detection and rollups; crawl
events; agent readiness and llms.txt findings; wildcards in robots patterns;
`RespectRobots` off; the redirect hops of failed fetches; the crawl's time limit;
`forceRenderPatterns`; image metrics; grouping of URL patterns and the address
guard's rules.

What may vary without touching the argument is a constant with an assumption: `Starts` is
any set of webs and settings whose parsed pages and robots files have finitely many parts
(`StartsAssumption`), limits are any integers, where 0 or less means no limit as in the
code's `> 0` tests (`LimitsAreNumbers`), thresholds any integers (`ThresholdsAreNumbers`).
Recursion (the walk over sitemap indexes, parsing line by line, a page's links one after the
other, breadth-first depths) is written as recursive functions, so that the modules can be
reasoned about.

In every module, an operator that stands before a definition, has its
parameters and differs from it by a dropped guard, step or reset
(`TimerFiresAnyway`, `ReturnLeaks`, `RestoreOverPartial`, ...) states a plausible mistake; no behaviour uses it. It
shows that the property beside it in `PROJECT.json` would notice.

### MC modules

`MCCrawlPipeline` defines the small sites (links, hosts, sitemaps, outcomes) the
configurations name; `MCJobLifecycle` the symmetry of jobs and requests; `MCFetcher`
the answers of a few URLs; `MCActivityStream` the length of a job;
`MCSiteAnalysis` three small webs and the settings they are crawled with.
`McpJobs` needs none.

## 3. Runs

| run | instance | question and answer |
|---|---|---|
| `CrawlPipeline` | 2 fetchers, 2 parsers, channels of 1, 6 URLs on 2 hosts with a sitemap, a redirect, a cycle, a page that may fail, a disallowed URL and one link beyond the budget; `MaxPages` 2, `MaxDepth` 1, `MaxDiscovered` 3; one failing transaction; cancel at any time | holds: `InFlightAccounting`, `QuietDrainSettles`, `DiscoveryBounded`, `DepthBounded`, `NoSendOnClosedChannel` |
| `CrawlPipelineLive` | 1 fetcher, 1 parser, no page limit, one host beyond the host budget, a URL out of scope, four failing transactions (enough for a fatal one), one panic | holds: `CrawlFinishes`, `CrawlImplemented` (it implements `Crawl`), `PanicNeverCompletes`, `FetchedOnce` |
| `CrawlPipelineEarlyStop` | `MaxPages` 2 | violated: `QuietDrainEmptiesFrontier` |
| `CrawlPipelineRobots` | 2 fetchers, a page with two links to a host not met before, one of them disallowed there | violated: `RobotsHonored` |
| `JobLifecycle` | 3 POSTs, 1 DELETE of any job, one slot, purging on, one restart | holds: `RunningWithinLimit`, `RunningHasRun`, `CancelReachesRun`, `EndedNeverRestarts`, `StartsInOrder`, `QueueImplemented` (it implements `JobQueue`) |
| `JobLifecycleLive` | 3 POSTs, 2 slots, one restart, panics, no DELETE | holds: `QueueServed` |
| `JobLifecycleStall` | 3 POSTs, 1 DELETE | violated: `QueueServed` |
| `Fetching` | 2 workers, one host with 2 slots, 3 URLs that redirect, loop, answer 429 or are refused, `MaxHops` 2, delays up to 2, cancel at any time, any number of crawls with a `Reset` between them | holds: `SlotsConserved`, `ThrottleKept`, `ChainIsPath`, `DelayRespected`, `WaitersServed` |
| `FetchingFalseLoop` | 1 worker, a redirect to a URL that answers 429 first | violated: `LoopIsReal` |
| `ActivityStream` | 2 sessions, 1 stream per address, batches of 1, a buffer of 1 message, 2 fetches, 1 phase event, 1 issue that may be deleted at any time, 1 break of the connection | holds: `FeedImplemented` (it implements `ActivityFeed`), `FeedDelivers`, `SlotsExact`, `SnapshotCoversRows` |
| `SiteAnalysis` | four initial states over three webs (below); `MaxPages` 5, `MaxDepth` 3, 10 discovered URLs, 3 hosts; one query variant per path, 2 key pages, 2 asset checks | holds: `FetchSeqUnique`, `NoStaleMissing`, `PagesInScope`, `RobotsKept`, `NothingLeftQueued`, `DepthsShortest`, `OrphansUnlinked`, `ClustersMatchIssues`, `RestoredOnFailure` |
| `McpJobs` | 2 `crawl_site`, 2 `cancel_crawl`, limits of one active job and one job an hour, which both calls may pass | holds: `ActiveHasRun`, `ActiveEnds` |

The type invariants are checked by `CrawlPipeline`, `JobLifecycle`, `ActivityStream` and
`SiteAnalysis`; the last one is the foreign keys of the schema. That of `Fetcher` is a
conjunct of the invariant proved in `Fetcher_proofs`.

### Why the bounds are enough

*Pipeline.* Two workers per pool and channels of capacity one make every full
and empty channel, every pair of workers at the same step and every blocked send
happen; the sites contain each kind of link (new, known, other host, out of scope,
disallowed, beyond the depth) once. Four failing transactions are one more than the
retries of one item. The liveness run has one worker per pool: the pools'
members do not wait for each other, only for channels, and a panic of the only
worker of a pool is the case in which nobody drains a channel.

*Jobs.* Three jobs are one that runs, one that is chosen and one that waits
behind it; two DELETEs instead of one were run by hand (10.7 million states, no
violation). `MaxRestarts = 1` gives a second life to rows in any state the first
one leaves. For MCP, two calls race on both limits, two cancellations race with
each other and with both jobs.

*Fetching.* With two slots and two workers both are inside at once, one asleep with the
mutex, the other before, behind or in a fetch; a panicked worker keeps its slot until the
next crawl's `Reset`. Two units of time tell a short throttle from a long one and an
expired timer from a pending one. Hosts share nothing, so one is enough.

*Stream.* The number of breaks equals the sessions that may be orphaned while the
next one wants the only slot. A batch of one makes each row a batch; the second
fetch is the row behind a full batch. One issue row that is found before (`MaxChanges`), and
deleted between, any two steps of a session gives every order of growing and
shrinking counts and reads of them; the theorem has no such bound.

*Site.* The first web has an index of sitemaps with a cycle, robots rules that compete by
length, a retry of robots.txt, a second host, redirects into and out of the site, a trap
of query variants, repeated segments, a file and an image, and more URLs than
`MaxPages`. The second is seen fully by a browser only, with a menu, late
content, a remote browser that fails on one page and a refused address, and starts all
three pipelines. The third has an http and an
https origin of one host with different rules and goes over its host budget; it is crawled without a
browser and with one that opens menus only. In all of them any pipeline may fail
or be cancelled, any detector may fail and so may the rollups; the order of visits and of every
per-page phase is free.

`CHECK_DEADLOCK FALSE` in the job, stream, MCP and site runs: requests, jobs and phases are
finitely many, so the system comes to rest. The pipeline's and the fetcher's
runs check for deadlock: the pipeline's specification stutters only once the job is
finalised, and the fetcher's workers always get to the next crawl.

### Fairness

`CrawlPipeline`: weak fairness of every goroutine, as the Go scheduler and the
request timeouts give it, and strong fairness of `DispatchDone`: on a cancelled
context the dispatcher's `select` has two ready cases in every round and Go
chooses at random. Cancel and Panic are never required to happen.
`JobLifecycle`: weak fairness of the steps of an accepted request, of the worker,
of each run and of the purge worker. A run ends because the crawl does, which
is `CrawlFinishes`. Nobody has to send a request and no restart has to happen.
`Fetcher`: weak fairness of time, of the end of a request (the client has a
timeout) and of a cancelled wait; strong fairness of a worker's progress, because
channels and Go's mutex serve waiters in turn. No worker has to take more work.
`ActivityStream`: weak fairness of sessions and of an honest client; strong fairness of
noticing a broken connection, since a session whose ticks still find the write
possible is not forced to look, and of opening a stream, since the slot comes and goes.
`McpJobs`: weak fairness of the goroutines of accepted calls, strong fairness of `Enter`
(`runMu` starves nobody). `SiteAnalysis` is checked for safety only.

### Disagreements found

With a run:

1. **The crawl may stop early** (`QuietDrainEmptiesFrontier`): the frontier's
   length and the page cap are read before `inFlight` (engine.go:1152).
2. **A disallowed URL may be fetched** (`RobotsHonored`): a host is marked onboarded
   before its robots.txt is fetched (engine.go:769), so a second fetcher that reaches the host
   meanwhile finds no rules and goes on. `tools.go:22` promises to "honor robots.txt
   directives" by default. Proved: it takes two fetchers (`OneFetcherHonors`) and never
   happens on the seeds' host (`SeedRulesHonored`).
3. **The queue may stall** (`QueueServed`): when the chosen job is cancelled
   before it is claimed, the worker goes back to waiting for a signal that no
   run is left to send (server.go:140).
4. **A loop where there is none** (`LoopIsReal`): the retry after a 429 starts again at the first
   URL with the hops and the seen set of the first try, so a redirect
   followed before is reported as a redirect loop (fetcher.go:305).

Seen by TLC in instances that are no longer kept:

5. **A dropped URL in a "completed" crawl.** On `ctx.Done`,
   and after the last failed transaction, workers decrement `inFlight`
   (engine.go:1005, 1030, 1074, 1115); the dispatcher may then see an empty
   frontier with nothing in flight and return nil, and `finalizeJob` looks at
   nothing else. The comment (engine.go:892) promises nil only "on clean drain".
   `QuietDrainSettles` is therefore about crawls that nobody has cancelled.
6. **The page limit may be exceeded**: `pagesCrawled` is
   read before `inFlight` (engine.go:1132). `PageBudget` proves
   by how much: never beyond twice the limit, which four seeds and a limit of 1 reach.
7. **A job may stay 'cancelling'**: DELETE writes what follows
   from a status read earlier (handlers.go:518).

Seen while modelling, by comparing code, comments and tests:

- *Limiter.* `main.go` creates the fetcher without a `RateLimiter`, so a 429 never
  throttles a host in production; only `fetcher_test.go` sets one. The retry does not
  pass the limiter, and the throttle goes to the host that was asked, even when
  a redirect's target answered 429.
- *Stream.* `done` is sent after one batch, rows beyond it are left to the client's
  next query (`ActivityFeed` lets the feed close early); the cached issue count does not
  see issues of post-crawl phases until the next fetch, and a failed count query
  clears the stale mark; 'deleting' does not end a stream.
- *MCP.* A job cancelled between its creation and the registration of its
  goroutine is answered 'cancelled', but RunCrawl then returns an error with a live
  context and the goroutine writes 'failed' (tool_crawl.go:309; tool_crawl_test.go:474
  wants 'cancelled'). The same happens after a time-out and after the watcher's
  cancellation. `cancel_crawl`'s last write may overwrite a crawl that started
  meanwhile, which goes on and ends 'completed', because the watcher looks for
  'cancelling' only. On the registered path 'cancelling' is written after `cancelRun` and may
  stay, which the comment at tool_crawl.go:533 wants to avoid. The two limits are
  not serialised with the creation of the row: concurrent calls may exceed them. A dry run
  overwrites 'cancelled' with 'completed'.
- *Job lifecycle.* `purge_worker.go` says the orphan reaper handles 'deleting' rows, which
  it does not; `runCrawlJob`'s second write of the final status may overwrite a
  'deleting' tombstone; `MaxConcurrentCrawls` above one still runs one crawl at a
  time, as `Engine.runMu` is held for a whole crawl.
- *Crawl.* Links and sitemaps draw on two separate budgets of `maxDiscoveredUrls`
  (`DiscoveryBounded` states what they keep together). The later pipelines start with a fresh
  frontier: a crawled page that a browser-discovered page links to is fetched
  again and counted twice. A second seed out of scope stays 'queued'. A page
  reached by a redirect keeps 'discovered' if its row had that. Browser-discovered URLs are
  normalised but not reduced to the frontier's key. Rules are keyed by host,
  onboarding and robots.txt by scheme, host and port: the file of `http://h` replaces that of
  `https://h` when it is onboarded later, and a page is then fetched that its own origin's file
  forbids. `RobotsKept` is what is left: some onboarded origin of the host permits the page. The second and third pipeline's error cancels the crawl but
  leaves the job 'completed'. Depths are recomputed from seeds with a page row
  (engine.go:4051): pages behind a seed that redirects keep the depths of the crawl. Text quality, markdown, the http audit and enrichment
  do not ask robots.txt. The comment at engine.go:1989 says ten key pages, the query takes five.
- *robots.txt, sitemaps.* A later group of the same agent replaces the earlier one, where RFC 9309
  combines them; a pattern with a wildcard before `$` is matched at the first
  occurrence only. A walk that goes over the sitemap limit discards the entries of its root.
- *Issues.* `crawl_trap_suspected` is inserted as a global issue (engine.go:1845), so
  `DetectGlobalIssues` always deletes it. `in_sitemap_not_crawled` asks for a status
  'pending' nobody writes, and `canonical_to_non_200` and `canonical_to_redirect` read
  a column nobody writes: the three never fire. Edges of links rejected by the trap
  guards are not stored, which makes false orphans. `deep_page` stays after depths are recomputed, and
  `title_same_as_h1` and `multiple_h1` after an enrichment; the gap
  pass may delete `missing_h1` and leave the page row without a heading. A 429 that is not HTML loses its issue.
  `http_to_https_missing` also fires for external pages. A failed HEAD
  overwrites a length measured by GET with NULL. `materialize.go` says
  self-referencing canonical, its query takes any known URL.

## 4. Proofs

`CrawlPipeline_proofs` proves, for any site, pool sizes, channel capacities and
budgets that satisfy `SiteAssumption`, `PoolAssumption`, `BudgetAssumption` and
`NoItemAssumption`:

| theorem | statement |
|---|---|
| `TypeCorrect` | `Spec => []TypeInv`, where `TypeInv` is `TypeOK` with `HandsFull`: a worker past taking an item holds one. `TypeOK` alone is not inductive: a hand-over appends what the worker holds |
| `TypeSafe` | `Spec => []TypeOK` |
| `InFlightExact` | `Spec => []InFlightAccounting`: inductive together with `TypeInv`. A step of one worker changes one member of a pool, and `OneDiffers` relates the two cardinalities |
| `ChannelsSafe` | `Spec => []NoSendOnClosedChannel`: a gone worker stays gone, and the dispatcher passes each wait only when all are |
| `PageBudget` | `Spec => []PagesBounded`. Strengthening `PagesInv`: `inFlight <= MaxPages`; the pages counted or still to come (`Coming`) are at most `2 * MaxPages`; and between the two reads of the dispatcher at most `pagesRead + MaxPages`, because whatever was counted since the first read was in flight. It needs `InFlightExact`: pages to come are in flight |

`JobLifecycle_proofs` proves, for any finite sets of jobs and DELETE requests and any
configuration (`JobsAssumption`, `ConfigAssumption`):

| theorem | statement and inductive invariant |
|---|---|
| `TypeCorrect`, `TypeSafe` | `TypeOK` with `HandsKnown`: a handler past its read knows its job, a run that reports has an error |
| `RowsGuarded` | `RowInv`: a POST creates only a job without a row, only ended jobs are purged, and a DELETE that read an ended status still finds an ended one |
| `NeverRestarts` | `EndedNeverRestarts`, from `StatusSteps`: one step creates, starts or ends a job, or leaves its status alone |
| `RunningJobsRun` | `RunningHasRun`, inductive with `TypeInv` and `RowInv` |
| `CancelDelivered` | `CancelReachesRun`, from `CancelInv`, which adds the moment before the crawl (`check`) and that a run is registered for as long as it lasts. The crux is `StatusTaken`: only a DELETE that goes on to `cancelRun` takes 'running' away from a job behind its run's back |
| `LockExclusive` | `LockInv`: `crawlMu` is held by one POST or by the worker |
| `SlotsKept`, `LimitHeld` | `RunningWithinLimit`, from `LimitInv`: whoever found a free slot under the lock still has it. A POST counts queued jobs too, which is why its own queued job keeps the place until it starts |
| `OrderKept`, `OrderOfStarts` | `StartsInOrder`, from `OrderInv`: the job the worker has chosen stays the oldest, and under a limit of one a POST that may start its job finds no other active one |
| `WaitingIsUnmanned` | `WaitingUnmanned`: a job that waits has no goroutine, so the one its start spawns is its only one |
| `QueueRefined` | `Spec => QueueImplemented`: the initial states are `JobQueue`'s, and each step is one of its steps under the mapping or a stutter |

`QueueRefined` goes through the actions: a write of an ended status ends a job that waits or
runs, purges one that is over, or is a stutter (`WriteRefines`), an update of a row that is gone is a
stutter (`SetRefines`), and `StartRefines` needs from whoever calls `UpdateJobStarted` that a slot
is free and the job the oldest. The queue worker has that from `LimitInv` and `OrderInv` as they
stand; a POST has counted queued jobs with its own among them, so that one slot less is taken than it
may count.

`CrawlItems_proofs` and `CrawlOutcome_proofs` go on with the pipeline, under the same
assumptions; each builds on the theorems before it.

| theorem | statement and inductive invariant |
|---|---|
| `OneItemKept` | `OneItem`: a function `at` from URLs to stages says for every URL where its only item is (`Placed`), and no stage has two items of a URL (`Alone`). The frontier's seen set is what keeps it: a URL never pushed has no item. Each action is shown to pass one item from one stage to the next (`Passes`) or to let all rest (`Rests`), and the witness follows |
| `NumbersKept`, `FetchesUnique` | `FetchedOnce`, from `OneItem` and `NumberInv`: items with a fetch number are stages of one fetch, numbers are given out once and are at most the counter |
| `DepthsKept` | `DepthBounded`, from `DepthInv`: an item below the limit came with the sitemap of a host first met at the limit, and that host is already onboarded, so nothing goes deeper. `Flow` says once for all actions where an item after a step was before it |
| `SeedRulesHonored`, `OneFetcherHonors` | What is left of `RobotsHonored`: on the seeds' host no fetch is of a disallowed URL, and with one fetcher on no host whose rules are stored. `RobotsInv`: whoever is past the check (`Asking`) is on a marked host, and a lone fetcher asks nothing of the host it is onboarding |
| `DrainKept`, `PanicsFail` | `PanicNeverCompletes`: `DrainInv` says that every return without an error is from `inFlight = 0`, and `InFlightExact` that a panicked worker's item is counted for ever |
| `StatusesKept` | `StatusInv`: while an answer is on its way, and after it is stored, the row of its URL says what the fetch came to; needs `OneItem`, because another item could overwrite the row |
| `SeenKept`, `DrainSettles` | `QuietDrainSettles`, from `SeenInv`: without a cancellation or a failed worker, what was pushed is in the pipeline or settled (`GoesOn`); `DrainInv` makes the pipeline empty at the end |
| `OutcomesKept` | `OutcomeInv`: the job row has its final status exactly when the dispatcher is through, an error of the dispatcher is a cancellation, and what was pushed has a row |
| `CrawlRefined` | `Spec => CrawlImplemented`: the initial states are `Crawl`'s, and each step is one of its steps under the mapping or a stutter. Argument below |
| `DiscoveryKept` | `DiscoveryBounded`, from `BudgetInv`: everything seen, or about to be pushed by a parser, was a seed or was paid for from one of the two counters |

`CrawlRefined` rests on `PromiseInv`, the conjunction of the invariants above. `StagesExact`
draws from `OneItem` that the stage of a URL agrees with whoever has its item (`StageInv`),
before and after a step. A step is then shown to touch items of one URL only (`OthersStay`), so
that every other URL stays in its stage (`StagesStay`), and that URL either stays too (a
hand-over between a worker and a channel on the same side of the fetch: a stutter, `NoStep`)
or moves as `Crawl` allows (`StepOf`). An item that is dropped leaves its URL without a home
(`Home`, `ClosedAfter`), which is where `Alone` is needed again. The refusals and answers need
the row the action writes, `Store` and `Fail` the row `StatusInv` knows, and the verdict needs
that an error is a cancellation (`OutcomeInv`) and that a return without one is from an empty
pipeline (`DrainInv`, `InFlightExact`).

`Fetcher_proofs` proves, for any workers, hosts, slots, answers and delays within
`LimiterAssumption` (finitely many workers) and `FetcherAssumption` (something to fetch), the invariant
`IInv == TypeOK /\ AttemptInv /\ MutexInv /\ SleepInv /\ SlotsConserved /\ PromiseInv /\ WalkInv`:

| theorem | statement and argument |
|---|---|
| `SlotsNeverLeak` | `[]SlotsConserved`: a step of one worker moves one member of `Holding`, `Reset` forgets those of the last crawl |
| `ThrottlesKept` | `[]ThrottleKept`. `PromiseInv` relates every throttle asked for to the host's end and delay; a timer that fires lifts a throttle only when no promise is left |
| `ChainsArePaths` | `[]ChainIsPath`, from `WalkInv`: the hops lead from the request's URL to where it is, and repeat a URL only where a loop was reported. For first attempts only: the retry is the defect `LoopIsReal` shows |
| `DelaysRespected` | `DelayRespected`, a property of steps. `MutexInv` and `SleepInv`: nobody sets the delay or the last fetch of a host whose mutex a sleeper holds, so the delay it computed is still right when it wakes |

`ActivityStream_proofs` proves, for any sessions, rows, batches and breaks of the connection
(`StreamAssumption`, finitely many sessions), the invariant `StreamInvariant`:
`TypeInv`, `JobInv`, `BoundsInv`, `SessionInv` (watermark and batch of a session against the rows, its cached count against the
history of the issues), `ClientInv`, `OrderInv`, `WireInv` (what the connection carries continues what the
client has: ascending, without gaps, up to the session's watermark, each status no older than the
rows before it) and `SlotsExact`. From it follow `SlotsCounted`, `SnapshotsFresh` and the
refinement `FeedRefined`: `Spec => FeedImplemented`, that the initial states are
`ActivityFeed`'s and each step is one of its steps under the mapping or a stutter.

`McpJobs_proofs` proves `ActiveJobsRun` (`[]ActiveHasRun`) for any calls and limits, from `HandsInv`: a
goroutine that skips its write, because its context was cancelled, is past an error, and on every way
to an error the engine has ended the job before; nobody makes an ended job active again.

`SiteAnalysis_proofs` proves, for any set of webs and settings, any seeds, scope mode, limits and
thresholds (`StartsAssumption`, `LimitsAreNumbers`, `ThresholdsAreNumbers`; the other assumptions
are not needed):

| theorem | statement and inductive invariant |
|---|---|
| `TypesKept` | `[]TypeOK`, the schema's foreign keys and the counters' ranges: `FrontierInv` (what is queued or with a worker has a row that says so), `TablesInv` (every row refers to known URLs, a page to its fetch), `CounterInv` (an item is taken only below the page limit) and `ReportInv` |
| `SequenceUnique` | `[]FetchSeqUnique`, from `SeqInv`: the counter is at or above every number stored, whichever pipeline stored it |
| `ScopeKept` | `[]PagesInScope`: inductive by itself, page by page of the phases that store or update one |
| `RobotsObeyed` | `[]RobotsKept`. `RobotsInv`: a host's rules are those of one of its onboarded origins, and it has some as soon as one of these has a file; a page is fetched only from an onboarded origin and if an origin's rules allow it, its own or those that took their place; `WebInv`: the web does not change. `RobotsParsed` is about the parser: what comes of the lines is a file whose groups are finite sets of given rules, so that a longest matching rule exists, whatever the file |
| `DepthsKept` | `[]DepthsShortest`, from `DepthInv` and `PagesInv` (finitely many complete page rows). `DistancesExact`: the walk of `Within` gives every page it reaches the length of a shortest path, on every finite graph |
| `NothingForgotten` | `[]NothingLeftQueued`. `PendingInv`: with pages to spare, a URL in scope that is marked as queued is in the queue or with a worker. `FoundInv`, `LevelInv`, `DeepInv`: what a browser found is in scope, queued with the next pipeline, or linked from the last level only. `Steady` is what every step but a new frontier does to queue and rows; that the budget only shrinks (`BudgetShrinks`) carries the condition "with pages to spare" backwards |
| `OrphansExact` | `[]OrphansUnlinked`, from `EdgesInv` (finitely many edges), `CountInv` (once counted, a page's count is the number of its links) and `ReportInv` |
| `ClustersAgree` | `[]ClustersMatchIssues`, from `ReportInv`: no issue of a site-wide type before detection, exactly those of the detectors that have run during it and after, although issues of single pages come and go around them |
| `NothingStale` | `[]NoStaleMissing`, from `ContentInv`: an issue about missing content is on a stored page that lacks it. `PageLocalTypesKnown` goes through the page-local detectors: no other one reports these types |
| `DetectionRestores` | `[]RestoredOnFailure`, from `DetectionInv`: what is kept aside is global, and after a failure no step touches the issues |

Induction over the recursive functions of the model goes by least counterexamples (`LeastNat`,
from the well-foundedness of the naturals): if a claim about the n-th value of a function fails
somewhere, it fails at a smallest n, whose predecessor contradicts it. `IsNear`, `IsReading` and
`IsExpansion` say what it is for a function to list the rounds of the depths, of the parser and of the
links of a page; `ParseExpanded` gives from the last what a visit makes of frontier,
rows and edges.

Trying to prove `NothingLeftQueued` and the type invariant showed where the models were too
loose to be reasoned about: limits had to be integers, and a negative limit is no limit in
the code, which the definitions first took for zero only.

Only model-checked: the liveness properties `CrawlFinishes`, `QueueServed`, `WaitersServed`,
`FeedDelivers` and `ActiveEnds`, which rest on fairness and ENABLED and are out of the
prover's reach. The violated properties of section 3 have no theorem, as they do not hold; what is left of
`RobotsHonored` has two.

## 5. Plan

Done: every component of section 2 with its runs, and every safety property
and step property that a passing run checks as a theorem, up to the exceptions of section 4.

To come, in this order:

1. **The overwritten tombstone** in `JobLifecycle`, and failing writes of its row.
2. **RendererPool**: slots, the browser's lifetime, Close during a render.

### Not modelled

HTML parsing, issue texts and explanations, report SQL, the API's views, the
clients of outside services (Lighthouse, LanguageTool, agent readiness): input
and output without state that outlives a call. The token buckets of the
address limiter are a library's. Loading the configuration and the `purge`
command are straight-line code. Panics inside the pools of
post-crawl phases (engine.go:2423, 3523) end the process and are not represented,
because the models take such a phase's pool as one worker.

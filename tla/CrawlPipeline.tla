--------------------------- MODULE CrawlPipeline ---------------------------
(***************************************************************************)
(* The crawl pipeline of internal/engine/engine.go: one dispatcher drains  *)
(* the frontier into fetchQueue, a pool of fetchers fetches, a pool of     *)
(* parsers parses and expands the frontier, one persister writes to        *)
(* SQLite.  The stages share atomic counters and one cancel context.       *)
(*                                                                         *)
(* Each atomic load the dispatcher makes is a step of its own, because the *)
(* other goroutines run between two of them.                               *)
(***************************************************************************)
EXTENDS Integers, Sequences, FiniteSets

CONSTANTS
    URLs,            \* normalized URLs; a URL stands for its row id too
    Hosts,
    HostOf,          \* the host of each URL
    Seeds,           \* the seed URLs of the job
    Links,           \* the in-page links of each URL, in document order
    SitemapOf,       \* the sitemap entries of each host, in file order
    InScope,         \* what scopeChecker.IsInScope accepts
    Disallowed,      \* what robots.txt disallows
    Final,           \* the URL each URL ends at after redirects
    Outcomes,        \* the outcomes a fetch of each URL may have
    Fetchers, Parsers,
    FetchQueueCap, FetchResultsCap, PersistQueueCap,
    MaxDepth,        \* 0 allows the seeds and sitemap entries only
    MaxPages, MaxDiscovered, MaxHosts,             \* 0 is "no limit"
    NoItem,          \* a worker's hands are empty
    MaxFaults,       \* bound: failing SQLite transactions
    MaxPanics        \* bound: worker panics

Outcome == {"html", "other", "error"}
SeedHosts == {HostOf[u] : u \in Seeds}

ASSUME SiteAssumption ==
    /\ IsFiniteSet(URLs) /\ IsFiniteSet(Hosts)
    /\ HostOf \in [URLs -> Hosts]
    /\ Seeds \in SUBSET URLs /\ Seeds # {}
    /\ \A u, v \in Seeds : HostOf[u] = HostOf[v]
    /\ Links \in [URLs -> Seq(URLs)]
    /\ SitemapOf \in [Hosts -> Seq(URLs)]
    /\ \A h \in Hosts : \A i \in DOMAIN SitemapOf[h] : HostOf[SitemapOf[h][i]] = h
    /\ InScope \in SUBSET URLs /\ Disallowed \in SUBSET URLs
    /\ Final \in [URLs -> URLs]
    /\ Outcomes \in [URLs -> SUBSET Outcome]
    /\ \A u \in URLs : Outcomes[u] # {}

ASSUME PoolAssumption ==
    /\ IsFiniteSet(Fetchers) /\ Fetchers # {}
    /\ IsFiniteSet(Parsers) /\ Parsers # {}
    /\ FetchQueueCap \in Nat \ {0}
    /\ FetchResultsCap \in Nat \ {0}
    /\ PersistQueueCap \in Nat \ {0}

ASSUME BudgetAssumption ==
    /\ MaxPages \in Nat /\ MaxDepth \in Nat
    /\ MaxDiscovered \in Nat /\ MaxHosts \in Nat
    /\ MaxFaults \in Nat /\ MaxPanics \in Nat

VARIABLES
    frontier,         \* items in the heap of frontier.Queue
    seen,             \* URLs ever pushed (frontier.Queue.seen)
    hostSeen,         \* hostOnboardingState.seen
    robotsRules,      \* hosts whose robots.txt is stored in e.robotsRules
    queuedDiscovered, \* the sitemap half of the discovery budget
    urlsDiscovered,   \* the link half, an atomic counter
    pagesCrawled, inFlight, fetchSeq,
    fetchQueue, fetchResults, persistQueue,
    dispPc, dispItem, pagesRead, maxPagesReached,
    fetcherPc, fetcherItem,
    parserPc, parserItem, parserLinks,
    persisterPc, persisterItem, attempt,
    cause,            \* context.Cause(ctx)
    completionErr,    \* what the dispatcher loop ended with
    urlStatus, fetches, pages, jobStatus,   \* rows of the database
    faults, panics                          \* faults that may still happen

frontierVars   == <<frontier, seen>>
onboardVars    == <<hostSeen, robotsRules, queuedDiscovered>>
counterVars    == <<urlsDiscovered, pagesCrawled, fetchSeq>>
channels       == <<fetchQueue, fetchResults, persistQueue>>
dispatcherVars == <<dispPc, dispItem, pagesRead, maxPagesReached, completionErr>>
fetcherVars    == <<fetcherPc, fetcherItem>>
parserVars     == <<parserPc, parserItem, parserLinks>>
persisterVars  == <<persisterPc, persisterItem, attempt>>
rowVars        == <<urlStatus, fetches, pages, jobStatus>>
envVars        == <<faults, panics>>
vars == <<frontierVars, onboardVars, counterVars, inFlight, channels, dispatcherVars,
          fetcherVars, parserVars, persisterVars, cause, rowVars, envVars>>

-----------------------------------------------------------------------------
(* Items and the values the variables range over.                          *)

Item == [url : URLs, depth : Nat, seq : Nat, outcome : Outcome \cup {"pending"}]
NewItem(u, d) == [url |-> u, depth |-> d, seq |-> 0, outcome |-> "pending"]

ASSUME NoItemAssumption == NoItem \notin Item

\* "external": context.Canceled or DeadlineExceeded, all isContextCancellation accepts.
Cause == {"external", "persist", "panic"}
UrlStatus == {"unknown", "queued", "fetched", "errored", "robots_blocked", "skipped_budget",
              "out_of_scope"}
DispPc == {"poll", "cap", "send", "check", "checkCap", "checkQueue", "checkFlight",
           "select", "waitFetchers", "waitParsers", "waitPersister", "returned", "finalized"}
FetcherPc == {"idle", "onboard", "onboarding", "robots", "acquire", "fetching", "send",
              "panicked", "crashed", "exited"}
ParserPc == {"idle", "parse", "links", "push", "panicked", "crashed", "exited"}
PersisterPc == {"idle", "write", "backoff", "fatal", "panicked", "crashed", "exited"}

\* A worker whose loop ended; "panicked" ran its deferred wg.Done, but not yet
\* recoverWorker, which is deferred before it.
Gone == {"panicked", "crashed", "exited"}
\* A worker whose item is still counted in inFlight; a crashed worker's item
\* stays counted for ever.
Holding(pc) == pc \notin {"idle", "fatal", "exited"}

Cancelled == cause # "none"
CancelWith(c) == cause' = IF cause = "none" THEN c ELSE cause

FetchQueueClosed == dispPc \in {"waitFetchers", "waitParsers", "waitPersister", "returned", "finalized"}
FetchResultsClosed == dispPc \in {"waitParsers", "waitPersister", "returned", "finalized"}
PersistQueueClosed == dispPc \in {"waitPersister", "returned", "finalized"}

-----------------------------------------------------------------------------
(* frontier.Queue and the database rows it mirrors.                        *)

\* UpsertURL inserts or ignores: a known URL keeps its status.
UpsertURLs(S) == [u \in URLs |-> IF u \in S /\ urlStatus[u] = "unknown"
                                 THEN "queued" ELSE urlStatus[u]]

\* Mutant of Push: the seen check is missing.
PushAgain(S, d) ==
    /\ seen' = seen \cup S
    /\ frontier' = frontier \cup {NewItem(u, d) : u \in S}

\* Push every URL of S at depth d, silently ignoring those already seen.
Push(S, d) ==
    /\ seen' = seen \cup S
    /\ frontier' = frontier \cup {NewItem(u, d) : u \in S \ seen}

\* Pop may return any item of least depth: the heap orders by depth only.
Lowest(i) == i \in frontier /\ \A j \in frontier : i.depth <= j.depth

\* The entries of a host's sitemap that scope lets through, by position, and how
\* many of them get through reserveDiscoveredURL: the first ones in file order.
\* One that is disallowed or already seen uses up the budget like any other.
SitemapEntries(h) == {i \in DOMAIN SitemapOf[h] : SitemapOf[h][i] \in InScope}
SitemapReserved(h, used) ==
    LET n == Cardinality(SitemapEntries(h))
    IN IF MaxDiscovered = 0 \/ used + n <= MaxDiscovered THEN n
       ELSE IF used >= MaxDiscovered THEN 0 ELSE MaxDiscovered - used
SitemapURLs(h, n) ==
    LET Position(i) == Cardinality({j \in SitemapEntries(h) : j <= i})
    IN {SitemapOf[h][i] : i \in {j \in SitemapEntries(h) : Position(j) <= n}} \ Disallowed

\* After seedFrontier and onboardSeedHosts: the seeds at depth 0, the sitemap
\* of their host at depth 1, and both budgets charged with what was queued.
Init ==
    LET h == CHOOSE x \in SeedHosts : TRUE
        n == SitemapReserved(h, Cardinality(Seeds))
        sitemap == SitemapURLs(h, n) \ Seeds
    IN /\ frontier = {NewItem(u, 0) : u \in Seeds} \cup {NewItem(u, 1) : u \in sitemap}
       /\ seen = Seeds \cup sitemap
       /\ hostSeen = SeedHosts /\ robotsRules = SeedHosts
       /\ queuedDiscovered = Cardinality(Seeds) + (IF MaxDiscovered = 0 THEN 0 ELSE n)
       /\ urlsDiscovered = Cardinality(seen)
       /\ pagesCrawled = 0 /\ inFlight = 0 /\ fetchSeq = 0
       /\ fetchQueue = <<>> /\ fetchResults = <<>> /\ persistQueue = <<>>
       /\ dispPc = "poll" /\ dispItem = NoItem /\ pagesRead = 0 /\ maxPagesReached = FALSE
       /\ fetcherPc = [f \in Fetchers |-> "idle"] /\ fetcherItem = [f \in Fetchers |-> NoItem]
       /\ parserPc = [p \in Parsers |-> "idle"] /\ parserItem = [p \in Parsers |-> NoItem]
       /\ parserLinks = [p \in Parsers |-> <<>>]
       /\ persisterPc = "idle" /\ persisterItem = NoItem /\ attempt = 0
       /\ cause = "none" /\ completionErr = "none"
       /\ urlStatus = [u \in URLs |-> IF u \in seen THEN "queued" ELSE "unknown"]
       /\ fetches = {} /\ pages = {} /\ jobStatus = "running"
       /\ faults = MaxFaults /\ panics = MaxPanics

-----------------------------------------------------------------------------
(* The dispatcher loop.  inFlight is read by nobody else.                   *)

DispatchStep(from, to) == dispPc = from /\ dispPc' = to
OthersOfDispatch == <<seen, onboardVars, counterVars, fetchResults, persistQueue, fetcherVars,
                      parserVars, persisterVars, cause, rowVars, envVars>>

PagesCapped == MaxPages > 0 /\ pagesRead + inFlight >= MaxPages

DispatchReadPages ==
    /\ \/ DispatchStep("poll", "cap")
       \/ DispatchStep("check", "checkCap")
    /\ pagesRead' = pagesCrawled
    /\ UNCHANGED <<dispItem, maxPagesReached, completionErr, inFlight, frontier, fetchQueue,
                   OthersOfDispatch>>

DispatchPop ==
    /\ ~PagesCapped
    /\ DispatchStep("cap", "send")
    /\ \E i \in frontier : Lowest(i) /\ dispItem' = i /\ frontier' = frontier \ {i}
    /\ inFlight' = inFlight + 1
    /\ pagesRead' = 0
    /\ UNCHANGED <<maxPagesReached, completionErr, fetchQueue, OthersOfDispatch>>

DispatchNothing ==
    /\ PagesCapped \/ frontier = {}
    /\ DispatchStep("cap", "check")
    /\ pagesRead' = 0
    /\ UNCHANGED <<dispItem, maxPagesReached, completionErr, inFlight, frontier, fetchQueue,
                   OthersOfDispatch>>

DispatchSend ==
    /\ Len(fetchQueue) < FetchQueueCap
    /\ DispatchStep("send", "poll")
    /\ fetchQueue' = Append(fetchQueue, dispItem)
    /\ dispItem' = NoItem
    /\ UNCHANGED <<pagesRead, maxPagesReached, completionErr, inFlight, frontier,
                   OthersOfDispatch>>

\* ctx.Done while an item is in hand: the item is dropped.
DispatchSendCancelled ==
    /\ Cancelled
    /\ DispatchStep("send", "waitFetchers")
    /\ inFlight' = inFlight - 1
    /\ dispItem' = NoItem
    /\ completionErr' = cause
    /\ UNCHANGED <<pagesRead, maxPagesReached, frontier, fetchQueue, OthersOfDispatch>>

DispatchReadCap ==
    /\ DispatchStep("checkCap", "checkQueue")
    /\ maxPagesReached' = PagesCapped
    /\ pagesRead' = 0
    /\ UNCHANGED <<dispItem, completionErr, inFlight, frontier, fetchQueue, OthersOfDispatch>>

\* q.Len() is read before inFlight, which is read only when it matters.
DispatchReadQueue ==
    /\ DispatchStep("checkQueue",
                    IF frontier = {} \/ maxPagesReached THEN "checkFlight" ELSE "select")
    /\ maxPagesReached' = FALSE
    /\ UNCHANGED <<dispItem, pagesRead, completionErr, inFlight, frontier, fetchQueue,
                   OthersOfDispatch>>

\* Mutant of DispatchReadInFlight: an empty frontier is taken for completion.
DispatchIgnoresInFlight ==
    /\ DispatchStep("checkFlight", "waitFetchers")
    /\ UNCHANGED <<dispItem, pagesRead, maxPagesReached, completionErr, inFlight, frontier,
                   fetchQueue, OthersOfDispatch>>

DispatchReadInFlight ==
    /\ DispatchStep("checkFlight", IF inFlight = 0 THEN "waitFetchers" ELSE "select")
    /\ UNCHANGED <<dispItem, pagesRead, maxPagesReached, completionErr, inFlight, frontier,
                   fetchQueue, OthersOfDispatch>>

DispatchTick ==
    /\ DispatchStep("select", "poll")
    /\ UNCHANGED <<dispItem, pagesRead, maxPagesReached, completionErr, inFlight, frontier,
                   fetchQueue, OthersOfDispatch>>

DispatchDone ==
    /\ Cancelled
    /\ DispatchStep("select", "waitFetchers")
    /\ completionErr' = cause
    /\ UNCHANGED <<dispItem, pagesRead, maxPagesReached, inFlight, frontier, fetchQueue,
                   OthersOfDispatch>>

\* Mutant of DispatchShutdown: fetchResults is closed before fetcherWg.Wait.
DispatchShutdownHasty ==
    /\ \/ DispatchStep("waitFetchers", "waitParsers")
       \/ DispatchStep("waitParsers", "waitPersister") /\ \A p \in Parsers : parserPc[p] \in Gone
       \/ DispatchStep("waitPersister", "returned") /\ persisterPc \in Gone
    /\ UNCHANGED <<dispItem, pagesRead, maxPagesReached, completionErr, inFlight, frontier,
                   fetchQueue, OthersOfDispatch>>

\* close(fetchQueue), fetcherWg.Wait, close(fetchResults), parserWg.Wait,
\* close(persistQueue), persisterWg.Wait.
DispatchShutdown ==
    /\ \/ DispatchStep("waitFetchers", "waitParsers") /\ \A f \in Fetchers : fetcherPc[f] \in Gone
       \/ DispatchStep("waitParsers", "waitPersister") /\ \A p \in Parsers : parserPc[p] \in Gone
       \/ DispatchStep("waitPersister", "returned") /\ persisterPc \in Gone
    /\ UNCHANGED <<dispItem, pagesRead, maxPagesReached, completionErr, inFlight, frontier,
                   fetchQueue, OthersOfDispatch>>

\* finalizeJob: the terminal status follows completionErr alone.
Finalize ==
    /\ DispatchStep("returned", "finalized")
    /\ jobStatus' = IF completionErr = "none" THEN "completed"
                    ELSE IF "external" \in {completionErr, cause} THEN "cancelled"
                    ELSE "failed"
    /\ UNCHANGED <<frontierVars, onboardVars, counterVars, inFlight, channels, dispItem,
                   pagesRead, maxPagesReached, completionErr, fetcherVars, parserVars,
                   persisterVars, cause, urlStatus, fetches, pages, envVars>>

-----------------------------------------------------------------------------
(* The fetcher pool.                                                        *)

FetcherStep(f, from, to) ==
    /\ fetcherPc[f] = from
    /\ fetcherPc' = [fetcherPc EXCEPT ![f] = to]
FetcherDrops(f) == fetcherItem' = [fetcherItem EXCEPT ![f] = NoItem] /\ inFlight' = inFlight - 1
OthersOfFetch == <<pagesCrawled, urlsDiscovered, persistQueue, dispatcherVars, parserVars,
                   persisterVars, cause, fetches, pages, jobStatus, envVars>>

\* Take an item.  An out-of-scope one is given up and its row stays "queued".
FetcherTake(f) ==
    /\ fetchQueue # <<>>
    /\ fetchQueue' = Tail(fetchQueue)
    /\ LET i == Head(fetchQueue)
       IN \/ /\ i.url \in InScope
             /\ FetcherStep(f, "idle", "onboard")
             /\ fetcherItem' = [fetcherItem EXCEPT ![f] = i]
             /\ UNCHANGED inFlight
          \/ /\ i.url \notin InScope
             /\ FetcherStep(f, "idle", "idle")
             /\ inFlight' = inFlight - 1
             /\ UNCHANGED fetcherItem
    /\ UNCHANGED <<frontierVars, onboardVars, fetchSeq, fetchResults, urlStatus, OthersOfFetch>>

\* ensureHostOnboarded under its lock: whoever marks the host first onboards
\* it, everybody else goes on at once, whether the rules are there or not.
FetcherOnboard(f) ==
    LET i == fetcherItem[f]
        h == HostOf[i.url]
    IN /\ \/ /\ FetcherStep(f, "onboard", "robots")
             /\ h \in hostSeen
             /\ UNCHANGED <<hostSeen, fetcherItem, inFlight, urlStatus>>
          \/ /\ FetcherStep(f, "onboard", "idle")
             /\ h \notin hostSeen
             /\ MaxHosts > 0 /\ Cardinality(hostSeen) >= MaxHosts
             /\ FetcherDrops(f)
             /\ urlStatus' = [urlStatus EXCEPT ![i.url] = "skipped_budget"]
             /\ UNCHANGED hostSeen
          \/ /\ FetcherStep(f, "onboard", "onboarding")
             /\ h \notin hostSeen
             /\ MaxHosts = 0 \/ Cardinality(hostSeen) < MaxHosts
             /\ hostSeen' = hostSeen \cup {h}
             /\ UNCHANGED <<fetcherItem, inFlight, urlStatus>>
       /\ UNCHANGED <<frontierVars, robotsRules, queuedDiscovered, fetchSeq, fetchQueue,
                      fetchResults, OthersOfFetch>>

\* Mutant of FetcherOnboarded: the caller and the callee both add a level.
FetcherOnboardedTooDeep(f) ==
    LET i == fetcherItem[f]
        h == HostOf[i.url]
        n == SitemapReserved(h, queuedDiscovered)
    IN /\ FetcherStep(f, "onboarding", "robots")
       /\ robotsRules' = robotsRules \cup {h}
       /\ queuedDiscovered' = queuedDiscovered + n
       /\ Push(SitemapURLs(h, n), i.depth + 2)
       /\ urlStatus' = UpsertURLs(SitemapURLs(h, n))
       /\ UNCHANGED <<hostSeen, fetchSeq, fetchQueue, fetchResults, fetcherItem, inFlight,
                      OthersOfFetch>>

\* OnboardHost came back: store the rules, then queue the sitemap; a cancel
\* stops enqueueSitemapEntry at any entry.
FetcherOnboarded(f) ==
    LET i == fetcherItem[f]
        h == HostOf[i.url]
        reserved == SitemapReserved(h, queuedDiscovered)
    IN /\ FetcherStep(f, "onboarding", "robots")
       /\ robotsRules' = robotsRules \cup {h}
       /\ \E n \in 0..reserved :
             /\ Cancelled \/ n = reserved
             /\ queuedDiscovered' = queuedDiscovered + (IF MaxDiscovered = 0 THEN 0 ELSE n)
             /\ Push(SitemapURLs(h, n), i.depth + 1)
             /\ urlStatus' = UpsertURLs(SitemapURLs(h, n))
       /\ UNCHANGED <<hostSeen, fetchSeq, fetchQueue, fetchResults, fetcherItem, inFlight,
                      OthersOfFetch>>

\* Mutant of FetcherOnboardFails: the item is given up without a trace.
FetcherOnboardFailsDrops(f) ==
    /\ FetcherStep(f, "onboarding", "idle")
    /\ FetcherDrops(f)
    /\ UNCHANGED <<frontierVars, onboardVars, fetchSeq, fetchQueue, fetchResults, urlStatus,
                   OthersOfFetch>>

\* OnboardHost failed: no rules, no sitemap, and the item is fetched anyway.
FetcherOnboardFails(f) ==
    /\ FetcherStep(f, "onboarding", "robots")
    /\ UNCHANGED <<frontierVars, onboardVars, fetchSeq, fetchQueue, fetchResults, fetcherItem,
                   inFlight, urlStatus, OthersOfFetch>>

FetcherRobots(f) ==
    LET u == fetcherItem[f].url
    IN /\ \/ /\ FetcherStep(f, "robots", "idle")
             /\ u \in Disallowed /\ HostOf[u] \in robotsRules
             /\ FetcherDrops(f)
             /\ urlStatus' = [urlStatus EXCEPT ![u] = "robots_blocked"]
          \/ /\ FetcherStep(f, "robots", "acquire")
             /\ u \notin Disallowed \/ HostOf[u] \notin robotsRules
             /\ UNCHANGED <<fetcherItem, inFlight, urlStatus>>
       /\ UNCHANGED <<frontierVars, onboardVars, fetchSeq, fetchQueue, fetchResults, OthersOfFetch>>

\* AcquireContext gave the host's slot: number the fetch and start it.
FetcherFetch(f) ==
    /\ FetcherStep(f, "acquire", "fetching")
    /\ fetchSeq' = fetchSeq + 1
    /\ fetcherItem' = [fetcherItem EXCEPT ![f].seq = fetchSeq']
    /\ UNCHANGED <<frontierVars, onboardVars, fetchQueue, fetchResults, inFlight, urlStatus,
                   OthersOfFetch>>

\* The request ended; under a cancelled context it may end in an error.
FetcherFetched(f) ==
    LET u == fetcherItem[f].url
    IN /\ FetcherStep(f, "fetching", "send")
       /\ \E o \in Outcomes[u] \cup (IF Cancelled THEN {"error"} ELSE {}) :
             /\ fetcherItem' = [fetcherItem EXCEPT ![f].outcome = o]
             /\ urlStatus' = [urlStatus EXCEPT ![u] = IF o = "error" THEN "errored" ELSE "fetched"]
       /\ UNCHANGED <<frontierVars, onboardVars, fetchSeq, fetchQueue, fetchResults, inFlight,
                      OthersOfFetch>>

FetcherSend(f) ==
    /\ Len(fetchResults) < FetchResultsCap
    /\ FetcherStep(f, "send", "idle")
    /\ fetchResults' = Append(fetchResults, fetcherItem[f])
    /\ fetcherItem' = [fetcherItem EXCEPT ![f] = NoItem]
    /\ UNCHANGED <<frontierVars, onboardVars, fetchSeq, fetchQueue, inFlight, urlStatus,
                   OthersOfFetch>>

\* ctx.Done in AcquireContext or in the send: drop the item and leave.
FetcherCancelled(f) ==
    /\ Cancelled
    /\ FetcherStep(f, "acquire", "exited") \/ FetcherStep(f, "send", "exited")
    /\ FetcherDrops(f)
    /\ UNCHANGED <<frontierVars, onboardVars, fetchSeq, fetchQueue, fetchResults, urlStatus,
                   OthersOfFetch>>

FetcherExit(f) ==
    /\ FetchQueueClosed /\ fetchQueue = <<>>
    /\ FetcherStep(f, "idle", "exited")
    /\ UNCHANGED <<frontierVars, onboardVars, fetchSeq, fetchQueue, fetchResults, fetcherItem,
                   inFlight, urlStatus, OthersOfFetch>>

-----------------------------------------------------------------------------
(* The parser pool.                                                         *)

ParserStep(p, from, to) ==
    /\ parserPc[p] = from
    /\ parserPc' = [parserPc EXCEPT ![p] = to]
OthersOfParse == <<onboardVars, fetchSeq, fetchQueue, dispatcherVars, fetcherVars,
                   persisterVars, cause, fetches, pages, jobStatus, envVars>>

ParserTake(p) ==
    /\ fetchResults # <<>>
    /\ ParserStep(p, "idle", "parse")
    /\ parserItem' = [parserItem EXCEPT ![p] = Head(fetchResults)]
    /\ fetchResults' = Tail(fetchResults)
    /\ UNCHANGED <<frontierVars, urlsDiscovered, pagesCrawled, inFlight, persistQueue,
                   parserLinks, urlStatus, OthersOfParse>>

\* Only an analyzable page counts; one past the page budget is not expanded.
ParserCount(p) ==
    LET i == parserItem[p]
    IN /\ ParserStep(p, "parse", "links")
       /\ pagesCrawled' = IF i.outcome = "html" THEN pagesCrawled + 1 ELSE pagesCrawled
       /\ parserLinks' = [parserLinks EXCEPT ![p] =
                            IF i.outcome = "html" /\ (MaxPages = 0 \/ pagesCrawled < MaxPages)
                            THEN Links[i.url] ELSE <<>>]
       /\ UNCHANGED <<frontierVars, urlsDiscovered, inFlight, fetchResults, persistQueue,
                      parserItem, urlStatus, OthersOfParse>>

\* Mutant of LinkAdmitted: links do not draw on the discovery budget.
LinkAdmittedUnbudgeted(p) ==
    /\ parserItem[p].depth + 1 <= MaxDepth
    /\ MaxPages = 0 \/ pagesCrawled < MaxPages

LinkAdmitted(p) ==
    /\ parserItem[p].depth + 1 <= MaxDepth
    /\ MaxPages = 0 \/ pagesCrawled < MaxPages
    /\ MaxDiscovered = 0 \/ urlsDiscovered < MaxDiscovered

\* One edge: the guards in their order, then the compare-and-swap that takes a
\* unit of the discovery budget, even for a URL that is already known.
ParserReserve(p) ==
    /\ parserLinks[p] # <<>>
    /\ \/ /\ ParserStep(p, "links", "push")
          /\ LinkAdmitted(p)
          /\ urlsDiscovered' = urlsDiscovered + 1
          /\ UNCHANGED parserLinks
       \/ /\ ParserStep(p, "links", "links")
          /\ ~LinkAdmitted(p)
          /\ parserLinks' = [parserLinks EXCEPT ![p] = Tail(@)]
          /\ UNCHANGED urlsDiscovered
    /\ UNCHANGED <<frontierVars, pagesCrawled, inFlight, fetchResults, persistQueue, parserItem,
                   urlStatus, OthersOfParse>>

ParserPush(p) ==
    LET u == Head(parserLinks[p])
    IN /\ ParserStep(p, "push", "links")
       /\ Push({u}, parserItem[p].depth + 1)
       /\ urlStatus' = UpsertURLs({u})
       /\ parserLinks' = [parserLinks EXCEPT ![p] = Tail(@)]
       /\ UNCHANGED <<urlsDiscovered, pagesCrawled, inFlight, fetchResults, persistQueue,
                      parserItem, OthersOfParse>>

ParserSend(p) ==
    /\ parserLinks[p] = <<>>
    /\ Len(persistQueue) < PersistQueueCap
    /\ ParserStep(p, "links", "idle")
    /\ persistQueue' = Append(persistQueue, parserItem[p])
    /\ parserItem' = [parserItem EXCEPT ![p] = NoItem]
    /\ UNCHANGED <<frontierVars, urlsDiscovered, pagesCrawled, inFlight, fetchResults,
                   parserLinks, urlStatus, OthersOfParse>>

\* Mutant of ParserCancelled: the exit path forgets inFlight.
ParserCancelledLeaks(p) ==
    /\ Cancelled
    /\ parserLinks[p] = <<>>
    /\ ParserStep(p, "links", "exited")
    /\ parserItem' = [parserItem EXCEPT ![p] = NoItem]
    /\ UNCHANGED <<frontierVars, urlsDiscovered, pagesCrawled, inFlight, fetchResults,
                   persistQueue, parserLinks, urlStatus, OthersOfParse>>

ParserCancelled(p) ==
    /\ Cancelled
    /\ parserLinks[p] = <<>>
    /\ ParserStep(p, "links", "exited")
    /\ parserItem' = [parserItem EXCEPT ![p] = NoItem]
    /\ inFlight' = inFlight - 1
    /\ UNCHANGED <<frontierVars, urlsDiscovered, pagesCrawled, fetchResults, persistQueue,
                   parserLinks, urlStatus, OthersOfParse>>

ParserExit(p) ==
    /\ FetchResultsClosed /\ fetchResults = <<>>
    /\ ParserStep(p, "idle", "exited")
    /\ UNCHANGED <<frontierVars, urlsDiscovered, pagesCrawled, inFlight, fetchResults,
                   persistQueue, parserItem, parserLinks, urlStatus, OthersOfParse>>

-----------------------------------------------------------------------------
(* The persister: one goroutine, one transaction per item, three retries.   *)

PersisterStep(from, to) == persisterPc = from /\ persisterPc' = to
OthersOfPersist == <<frontierVars, onboardVars, counterVars, fetchQueue, fetchResults,
                     dispatcherVars, fetcherVars, parserVars, jobStatus>>

PersistTake ==
    /\ persistQueue # <<>>
    /\ PersisterStep("idle", "write")
    /\ persisterItem' = Head(persistQueue)
    /\ persistQueue' = Tail(persistQueue)
    /\ UNCHANGED <<attempt, inFlight, cause, urlStatus, fetches, pages, envVars, OthersOfPersist>>

\* txUpsertURL of a redirect's final URL: a row that is there keeps its status.
UpsertFinal(u) ==
    IF urlStatus[Final[u]] # "unknown" THEN urlStatus
    ELSE [urlStatus EXCEPT ![Final[u]] = IF Final[u] \in InScope THEN "fetched" ELSE "out_of_scope"]

\* The transaction commits: the final URL's row, a fetch row, and a page row
\* unless the page is there already (INSERT OR IGNORE on the final URL).  A
\* failed fetch writes nothing, so it needs no transaction and no live context.
PersistItem ==
    LET i == persisterItem
    IN /\ PersisterStep("write", "idle")
       /\ \/ /\ i.outcome = "error"
             /\ UNCHANGED <<urlStatus, fetches, pages>>
          \/ /\ i.outcome # "error"
             /\ ~Cancelled
             /\ \A r \in fetches : r.seq # i.seq
             /\ urlStatus' = UpsertFinal(i.url)
             /\ fetches' = fetches \cup {i}
             /\ pages' = IF i.outcome = "html" THEN pages \cup {Final[i.url]} ELSE pages
       /\ persisterItem' = NoItem /\ attempt' = 0
       /\ inFlight' = inFlight - 1
       /\ UNCHANGED <<persistQueue, cause, envVars, OthersOfPersist>>

\* Mutant of PersistFails: no limit on the retries.
PersistFailsForEver ==
    /\ PersisterStep("write", "backoff") /\ persisterItem.outcome # "error"
    /\ \/ Cancelled /\ UNCHANGED faults
       \/ faults > 0 /\ faults' = faults - 1
    /\ attempt' = attempt + 1
    /\ UNCHANGED <<persistQueue, persisterItem, inFlight, cause, urlStatus, fetches, pages, panics,
                   OthersOfPersist>>

\* The transaction fails and is rolled back: SQLite failed, the context is
\* cancelled, or the fetch sequence number is taken (UNIQUE(job_id, fetch_seq)).
\* The fourth failure gives the item up, and only then cancels.
PersistFails ==
    /\ persisterPc = "write" /\ persisterItem.outcome # "error"
    /\ \/ /\ Cancelled \/ \E r \in fetches : r.seq = persisterItem.seq
          /\ UNCHANGED faults
       \/ faults > 0 /\ faults' = faults - 1
    /\ IF attempt < 3
       THEN /\ PersisterStep("write", "backoff")
            /\ attempt' = attempt + 1
            /\ UNCHANGED <<persisterItem, inFlight>>
       ELSE /\ PersisterStep("write", "fatal")
            /\ attempt' = 0
            /\ persisterItem' = NoItem
            /\ inFlight' = inFlight - 1
    /\ UNCHANGED <<persistQueue, cause, urlStatus, fetches, pages, panics, OthersOfPersist>>

PersistRetry ==
    /\ PersisterStep("backoff", "write")
    /\ UNCHANGED <<persistQueue, persisterItem, attempt, inFlight, cause, urlStatus, fetches, pages, envVars,
                   OthersOfPersist>>

PersistCancelled ==
    /\ Cancelled
    /\ PersisterStep("backoff", "exited")
    /\ persisterItem' = NoItem /\ attempt' = 0
    /\ inFlight' = inFlight - 1
    /\ UNCHANGED <<persistQueue, cause, urlStatus, fetches, pages, envVars, OthersOfPersist>>

\* Mutant of PersistFatal: the persister leaves without cancelling the crawl.
PersistFatalSilent ==
    /\ PersisterStep("fatal", "exited")
    /\ UNCHANGED <<persistQueue, persisterItem, attempt, inFlight, cause, urlStatus, fetches,
                   pages, envVars, OthersOfPersist>>

PersistFatal ==
    /\ PersisterStep("fatal", "exited")
    /\ CancelWith("persist")
    /\ UNCHANGED <<persistQueue, persisterItem, attempt, inFlight, urlStatus, fetches, pages, envVars,
                   OthersOfPersist>>

PersisterExit ==
    /\ PersistQueueClosed /\ persistQueue = <<>>
    /\ PersisterStep("idle", "exited")
    /\ UNCHANGED <<persistQueue, persisterItem, attempt, inFlight, cause, urlStatus, fetches, pages, envVars,
                   OthersOfPersist>>

-----------------------------------------------------------------------------
(* Cancellation from outside and panics inside.                             *)

\* The status watcher saw "cancelling", the caller cancelled the context, or
\* the crawl ran into its maximum duration.
Cancel ==
    /\ dispPc # "finalized"
    /\ ~Cancelled
    /\ cause' = "external"
    /\ UNCHANGED <<frontierVars, onboardVars, counterVars, inFlight, channels, dispatcherVars,
                   fetcherVars, parserVars, persisterVars, rowVars, envVars>>

OthersOfPanic == <<frontierVars, onboardVars, counterVars, inFlight, channels, dispatcherVars,
                   fetcherItem, parserItem, parserLinks, persisterItem, attempt, rowVars, faults>>

\* A worker panics with an item in hand: its deferred wg.Done runs first.
Panic ==
    /\ panics > 0 /\ panics' = panics - 1
    /\ \/ /\ \E f \in Fetchers : /\ fetcherPc[f] \notin Gone \cup {"idle"}
                                 /\ fetcherPc' = [fetcherPc EXCEPT ![f] = "panicked"]
          /\ UNCHANGED <<parserPc, persisterPc>>
       \/ /\ \E p \in Parsers : /\ parserPc[p] \notin Gone \cup {"idle"}
                                /\ parserPc' = [parserPc EXCEPT ![p] = "panicked"]
          /\ UNCHANGED <<fetcherPc, persisterPc>>
       \/ /\ PersisterStep("write", "panicked")
          /\ UNCHANGED <<fetcherPc, parserPc>>
    /\ UNCHANGED <<cause, OthersOfPanic>>

\* recoverWorker, the outer deferred call, cancels the crawl.
RecoverWorker ==
    /\ CancelWith("panic")
    /\ \/ /\ \E f \in Fetchers : FetcherStep(f, "panicked", "crashed")
          /\ UNCHANGED <<parserPc, persisterPc>>
       \/ /\ \E p \in Parsers : ParserStep(p, "panicked", "crashed")
          /\ UNCHANGED <<fetcherPc, persisterPc>>
       \/ /\ PersisterStep("panicked", "crashed")
          /\ UNCHANGED <<fetcherPc, parserPc>>
    /\ UNCHANGED <<panics, OthersOfPanic>>

-----------------------------------------------------------------------------
Dispatcher ==
    \/ DispatchReadPages \/ DispatchPop \/ DispatchNothing \/ DispatchSend
    \/ DispatchSendCancelled \/ DispatchReadCap \/ DispatchReadQueue \/ DispatchReadInFlight
    \/ DispatchTick \/ DispatchDone \/ DispatchShutdown \/ Finalize
Fetcher(f) ==
    \/ FetcherTake(f) \/ FetcherOnboard(f) \/ FetcherOnboarded(f) \/ FetcherOnboardFails(f)
    \/ FetcherRobots(f) \/ FetcherFetch(f) \/ FetcherFetched(f) \/ FetcherSend(f)
    \/ FetcherCancelled(f) \/ FetcherExit(f)
Parser(p) ==
    \/ ParserTake(p) \/ ParserCount(p) \/ ParserReserve(p) \/ ParserPush(p) \/ ParserSend(p)
    \/ ParserCancelled(p) \/ ParserExit(p)
Persister ==
    \/ PersistTake \/ PersistItem \/ PersistFails \/ PersistRetry \/ PersistCancelled
    \/ PersistFatal \/ PersisterExit
Environment == Cancel \/ Panic \/ RecoverWorker

\* The goroutines are gone and the job row has its terminal status.
Finished == dispPc = "finalized" /\ UNCHANGED vars

Next ==
    \/ Dispatcher
    \/ \E f \in Fetchers : Fetcher(f)
    \/ \E p \in Parsers : Parser(p)
    \/ Persister
    \/ Environment
    \/ Finished

\* Every goroutine runs (the Go scheduler, request and acquire timeouts).  The
\* dispatcher polls: on a cancelled context its select picks at random between
\* ctx.Done and the ticker, so it cannot miss ctx.Done for ever.
Fairness ==
    /\ WF_vars(Dispatcher) /\ SF_vars(DispatchDone)
    /\ \A f \in Fetchers : WF_vars(Fetcher(f))
    /\ \A p \in Parsers : WF_vars(Parser(p))
    /\ WF_vars(Persister) /\ WF_vars(RecoverWorker)

Spec == Init /\ [][Next]_vars
FairSpec == Spec /\ Fairness

-----------------------------------------------------------------------------
(* Properties.                                                              *)

\* Every variable has its type.
TypeOK ==
    /\ frontier \in SUBSET Item /\ seen \in SUBSET URLs
    /\ hostSeen \in SUBSET Hosts /\ robotsRules \in SUBSET Hosts
    /\ queuedDiscovered \in Nat /\ urlsDiscovered \in Nat
    /\ pagesCrawled \in Nat /\ inFlight \in Int /\ fetchSeq \in Nat
    /\ fetchQueue \in Seq(Item) /\ fetchResults \in Seq(Item) /\ persistQueue \in Seq(Item)
    /\ dispPc \in DispPc /\ dispItem \in Item \cup {NoItem}
    /\ pagesRead \in Nat /\ maxPagesReached \in BOOLEAN
    /\ fetcherPc \in [Fetchers -> FetcherPc]
    /\ fetcherItem \in [Fetchers -> Item \cup {NoItem}]
    /\ parserPc \in [Parsers -> ParserPc]
    /\ parserItem \in [Parsers -> Item \cup {NoItem}]
    /\ parserLinks \in [Parsers -> Seq(URLs)]
    /\ persisterPc \in PersisterPc /\ persisterItem \in Item \cup {NoItem} /\ attempt \in 0..3
    /\ cause \in Cause \cup {"none"} /\ completionErr \in Cause \cup {"none"}
    /\ urlStatus \in [URLs -> UrlStatus]
    /\ fetches \in SUBSET Item /\ pages \in SUBSET URLs
    /\ jobStatus \in {"running", "completed", "failed", "cancelled"}
    /\ faults \in Nat /\ panics \in Nat

One(b) == IF b THEN 1 ELSE 0
BusyFetchers == {f \in Fetchers : Holding(fetcherPc[f])}
BusyParsers == {p \in Parsers : Holding(parserPc[p])}

\* inFlight counts exactly the items between dispatch and the end of their
\* persisting: through every hand-over between goroutines, every drop on
\* ctx.Done, every failed transaction and every panic.  A count too high and
\* the dispatcher never stops; too low and it stops with work in the pipeline.
InFlightAccounting ==
    inFlight = One(dispPc = "send") + Len(fetchQueue) + Cardinality(BusyFetchers)
             + Len(fetchResults) + Cardinality(BusyParsers) + Len(persistQueue)
             + One(Holding(persisterPc))

PipelineReturned == dispPc \in {"returned", "finalized"}
Dispatched == seen \ {i.url : i \in frontier}

\* What became of a dispatched URL is on record: given up for a stated reason,
\* or fetched with a fetch row to show for it.
Settled(u) ==
    \/ u \notin InScope
    \/ urlStatus[u] \in {"errored", "robots_blocked", "skipped_budget"}
    \/ urlStatus[u] = "fetched" /\ \E r \in fetches : r.url = u

\* A crawl nobody cancelled and no worker failed that ends without an error has
\* settled every URL it dispatched: nothing is left in a channel or a worker.
QuietDrainSettles ==
    PipelineReturned /\ completionErr = "none" /\ ~Cancelled
        => \A u \in Dispatched : Settled(u)

\* The dispatcher's completion check is "nothing in queue and nothing in
\* flight" unless the page budget is used up.
QuietDrainEmptiesFrontier ==
    PipelineReturned /\ completionErr = "none" /\ ~Cancelled
        => frontier = {} \/ (MaxPages > 0 /\ pagesCrawled >= MaxPages)

\* "Honor robots.txt directives": once a host's rules are stored, no fetch on
\* record is of a URL they disallow.
RobotsHonored ==
    \A r \in fetches : HostOf[r.url] \in robotsRules => r.url \notin Disallowed

\* No URL is fetched twice, however many pages link to it while it is queued,
\* in a worker or already persisted, and fetch numbers identify fetch rows.
FetchedOnce ==
    \A r1, r2 \in fetches : r1.url = r2.url \/ r1.seq = r2.seq => r1 = r2

\* The page budget is checked against two counters read one after the other, so
\* pages may exceed it, but never by more than the budget itself.
PagesBounded == MaxPages > 0 => pagesCrawled <= 2 * MaxPages

\* Links and sitemaps draw on separate budgets of MaxDiscovered URLs; together
\* they never queue more than both, the seeds counted once.
DiscoveryBounded ==
    MaxDiscovered >= Cardinality(Seeds)
        => Cardinality(seen) <= 2 * MaxDiscovered - Cardinality(Seeds)

\* Only the sitemap of a host met at the last level goes past MaxDepth, and only
\* by one: an item past MaxDepth is on an onboarded host and expands no link.
DepthBounded ==
    \A i \in frontier \cup fetches : i.depth <= MaxDepth + 1

\* Nothing is sent on a closed channel, which would panic: the goroutines that
\* send on fetchResults and persistQueue are gone when those are closed.
NoSendOnClosedChannel ==
    /\ FetchResultsClosed => \A f \in Fetchers : fetcherPc[f] \in Gone
    /\ PersistQueueClosed => \A p \in Parsers : parserPc[p] \in Gone

\* A crawl in which a worker panicked never ends "completed", although wg.Done
\* runs before the recover that cancels.
PanicNeverCompletes ==
    jobStatus = "completed" =>
        /\ \A f \in Fetchers : fetcherPc[f] \notin {"panicked", "crashed"}
        /\ \A p \in Parsers : parserPc[p] \notin {"panicked", "crashed"}
        /\ persisterPc \notin {"panicked", "crashed"}

\* The pipeline always shuts down and the job gets its terminal status: with
\* full channels, cancellation at any point, a dead persister or dead workers.
CrawlFinishes == <>(dispPc = "finalized")

-----------------------------------------------------------------------------
(* The promise of Crawl, with the stage of a URL read off the goroutine or    *)
(* the channel that has its item.                                             *)

FetcherHands == {"onboard", "onboarding", "robots", "acquire", "fetching", "send"}
ParserHands == {"parse", "links", "push"}

ItemsIn(q) == {q[n] : n \in DOMAIN q}
DispItems == IF dispPc = "send" THEN {dispItem} ELSE {}
FetcherItems(pcs) == {fetcherItem[f] : f \in {g \in Fetchers : fetcherPc[g] \in pcs}}
ParserItems == {parserItem[p] : p \in {r \in Parsers : parserPc[r] \in ParserHands}}
PersisterItems == IF persisterPc \in {"write", "backoff"} THEN {persisterItem} ELSE {}

\* The items whose fetch has not ended, and those it has and that are not persisted yet.
Asked == DispItems \cup ItemsIn(fetchQueue) \cup FetcherItems(FetcherHands \ {"send"})
Answered == FetcherItems({"send"}) \cup ItemsIn(fetchResults) \cup ParserItems
              \cup ItemsIn(persistQueue) \cup PersisterItems

HasUrl(S, u) == \E i \in S : i.url = u
StageOf(u) ==
    IF u \notin seen THEN "new"
    ELSE IF HasUrl(frontier, u) THEN "waiting"
    ELSE IF HasUrl(Asked, u) THEN "taken"
    ELSE IF HasUrl(Answered, u) THEN "answered"
    ELSE IF HasUrl(fetches, u) THEN "stored"
    ELSE "closed"

\* No worker has failed and nobody cancelled the crawl.
Quiet ==
    /\ ~Cancelled /\ persisterPc \notin {"fatal", "panicked", "crashed"}
    /\ \A f \in Fetchers : fetcherPc[f] \notin {"panicked", "crashed"}
    /\ \A p \in Parsers : parserPc[p] \notin {"panicked", "crashed"}

Promise == INSTANCE Crawl WITH
    stage <- [u \in URLs |-> StageOf(u)],
    row <- urlStatus,
    disturbed <- ~Quiet,
    verdict <- jobStatus

\* The pools, their channels and the cancellation keep what a crawl promises: a URL
\* goes through them once and in order, leaves them early only on record or after a
\* disturbance, and the final status comes after the last of them.
CrawlImplemented == Promise!Spec

=============================================================================

------------------------ MODULE CrawlPipeline_proofs ------------------------
(***************************************************************************)
(* Proofs about the crawl pipeline, for every site, every size of the      *)
(* worker pools and of the channels, and every budget.                     *)
(***************************************************************************)
EXTENDS CrawlPipeline, FiniteSetTheorems, SequenceTheorems, TLAPS

\* A goroutine past the point where it took an item holds one, and a parser
\* that reserved a place for a link still has that link at hand.
HandsFull ==
    /\ dispPc = "send" => dispItem \in Item
    /\ \A f \in Fetchers : fetcherPc[f] \in FetcherHands => fetcherItem[f] \in Item
    /\ \A p \in Parsers : parserPc[p] \in ParserHands => parserItem[p] \in Item
    /\ \A p \in Parsers : parserPc[p] = "push" => parserLinks[p] # <<>>
    /\ persisterPc \in {"write", "backoff"} => persisterItem \in Item

\* TypeOK is not inductive alone: a step on an item needs the item to be one.
TypeInv == TypeOK /\ HandsFull

-----------------------------------------------------------------------------
(* Operators of the model.                                                  *)

\* A new item is an item: its number is 0 until it is fetched.
LEMMA NewItemType ==
    ASSUME NEW u \in URLs, NEW d \in Nat
    PROVE  NewItem(u, d) \in Item
BY DEF NewItem, Item, Outcome

\* Numbering an item, or recording the outcome of its fetch, leaves an item.
LEMMA ItemUpdate ==
    ASSUME NEW i \in Item
    PROVE  /\ \A n \in Nat : [i EXCEPT !.seq = n] \in Item
           /\ \A o \in Outcome : [i EXCEPT !.outcome = o] \in Item
BY DEF Item

\* A sitemap queues URLs only, and a whole number of them.
LEMMA SitemapType ==
    ASSUME NEW h \in Hosts, NEW used \in Nat
    PROVE  /\ SitemapReserved(h, used) \in Nat
           /\ \A n : SitemapURLs(h, n) \subseteq URLs
<1> DEFINE E == SitemapEntries(h)
<1>1. SitemapOf[h] \in Seq(URLs)
  BY SiteAssumption
<1>2. DOMAIN SitemapOf[h] = 1..Len(SitemapOf[h]) /\ Len(SitemapOf[h]) \in Nat
  BY <1>1
<1>3. IsFiniteSet(E)
  <2>1. IsFiniteSet(1..Len(SitemapOf[h]))
    BY <1>2, FS_Interval
  <2>2. E \in SUBSET (1..Len(SitemapOf[h]))
    BY <1>2 DEF SitemapEntries
  <2> QED
    BY <2>1, <2>2, FS_Subset
<1>4. Cardinality(E) \in Nat
  BY <1>3, FS_CardinalityType
<1>5. SitemapReserved(h, used) \in Nat
  BY <1>4, BudgetAssumption DEF SitemapReserved
<1>6. ASSUME NEW n PROVE SitemapURLs(h, n) \subseteq URLs
  <2> SUFFICES ASSUME NEW u \in SitemapURLs(h, n) PROVE u \in URLs
    OBVIOUS
  <2>1. PICK i \in SitemapEntries(h) : u = SitemapOf[h][i]
    BY Zenon DEF SitemapURLs
  <2> QED
    BY <1>1, <1>2, <2>1 DEF SitemapEntries
<1> QED
  BY <1>5, <1>6

\* frontier.Queue.Push keeps the frontier a set of items and seen a set of URLs.
LEMMA PushType ==
    ASSUME TypeOK, NEW S \in SUBSET URLs, NEW d \in Nat, Push(S, d)
    PROVE  frontier' \in SUBSET Item /\ seen' \in SUBSET URLs
BY NewItemType DEF TypeOK, Push

\* The two upserts of a URL row leave every row with a status.
LEMMA UpsertType ==
    ASSUME TypeOK, NEW S
    PROVE  UpsertURLs(S) \in [URLs -> UrlStatus]
BY DEF TypeOK, UpsertURLs, UrlStatus

-----------------------------------------------------------------------------
(* Type correctness.                                                        *)

\* The steps of the dispatcher loop keep the type invariant.
LEMMA DispatcherType ==
    ASSUME TypeInv, Dispatcher
    PROVE  TypeInv'
<1> USE DEF TypeInv, TypeOK, HandsFull, OthersOfDispatch, DispatchStep, DispPc, frontierVars,
            onboardVars, counterVars, channels, dispatcherVars, fetcherVars, parserVars,
            persisterVars, rowVars, envVars
<1>1. CASE DispatchReadPages
  BY <1>1 DEF DispatchReadPages
<1>2. CASE DispatchPop
  BY <1>2 DEF DispatchPop
<1>3. CASE DispatchNothing
  BY <1>3 DEF DispatchNothing
<1>4. CASE DispatchSend
  BY <1>4 DEF DispatchSend
<1>5. CASE DispatchSendCancelled
  BY <1>5 DEF DispatchSendCancelled
<1>6. CASE DispatchReadCap
  BY <1>6 DEF DispatchReadCap, PagesCapped
<1>7. CASE DispatchReadQueue
  BY <1>7 DEF DispatchReadQueue
<1>8. CASE DispatchReadInFlight
  BY <1>8 DEF DispatchReadInFlight
<1>9. CASE DispatchTick
  BY <1>9 DEF DispatchTick
<1>10. CASE DispatchDone
  BY <1>10 DEF DispatchDone
<1>11. CASE DispatchShutdown
  BY <1>11 DEF DispatchShutdown
<1>12. CASE Finalize
  BY <1>12 DEF Finalize
<1> QED
  BY <1>1, <1>2, <1>3, <1>4, <1>5, <1>6, <1>7, <1>8, <1>9, <1>10, <1>11, <1>12 DEF Dispatcher

\* The steps of a fetcher keep the type invariant.
LEMMA FetcherType ==
    ASSUME TypeInv, NEW f \in Fetchers, Fetcher(f)
    PROVE  TypeInv'
<1> USE DEF TypeInv, TypeOK, HandsFull, OthersOfFetch, FetcherStep, FetcherDrops, FetcherPc,
            FetcherHands, frontierVars, onboardVars, counterVars, channels, dispatcherVars,
            fetcherVars, parserVars, persisterVars, rowVars, envVars
<1>1. CASE FetcherTake(f)
  <2> DEFINE i == Head(fetchQueue)
  <2>1. i \in Item /\ Tail(fetchQueue) \in Seq(Item)
    BY <1>1, HeadTailProperties DEF FetcherTake
  <2>2. CASE i.url \in InScope
    <3>1. /\ fetcherPc' = [fetcherPc EXCEPT ![f] = "onboard"]
          /\ fetcherItem' = [fetcherItem EXCEPT ![f] = i] /\ fetchQueue' = Tail(fetchQueue)
          /\ UNCHANGED <<inFlight, frontierVars, onboardVars, fetchSeq, fetchResults, urlStatus,
                         OthersOfFetch>>
      BY <1>1, <2>2 DEF FetcherTake
    <3>2. /\ fetcherPc' \in [Fetchers -> FetcherPc]
          /\ fetcherItem' \in [Fetchers -> Item \cup {NoItem}] /\ fetchQueue' \in Seq(Item)
          /\ \A g \in Fetchers : fetcherPc'[g] \in FetcherHands => fetcherItem'[g] \in Item
      BY <2>1, <3>1
    <3> QED
      BY <3>1, <3>2, SMTT(30)
  <2>3. CASE i.url \notin InScope
    BY <1>1, <2>1, <2>3, SMTT(30) DEF FetcherTake
  <2> QED
    BY <2>2, <2>3
<1>2. CASE FetcherOnboard(f)
  <2>1. CASE /\ FetcherStep(f, "onboard", "idle")
             /\ FetcherDrops(f)
             /\ urlStatus' = [urlStatus EXCEPT ![fetcherItem[f].url] = "skipped_budget"]
             /\ UNCHANGED hostSeen
    <3>1. urlStatus' \in [URLs -> UrlStatus]
      BY <2>1 DEF UrlStatus
    <3> QED
      BY <1>2, <2>1, <3>1 DEF FetcherOnboard
  <2>2. CASE /\ FetcherStep(f, "onboard", "robots") \/ FetcherStep(f, "onboard", "onboarding")
             /\ hostSeen' \in {hostSeen, hostSeen \cup {HostOf[fetcherItem[f].url]}}
             /\ UNCHANGED <<fetcherItem, inFlight, urlStatus>>
    <3>1. fetcherItem[f] \in Item /\ fetcherItem[f].url \in URLs
      BY <2>2 DEF Item
    <3>2. hostSeen' \in SUBSET Hosts
      BY <2>2, <3>1, SiteAssumption
    <3>3. /\ fetcherPc' \in [Fetchers -> FetcherPc]
          /\ \A g \in Fetchers : fetcherPc'[g] \in FetcherHands => fetcherItem'[g] \in Item
      BY <2>2, <3>1
    <3>4. UNCHANGED <<fetcherItem, inFlight, urlStatus, frontierVars, robotsRules,
                      queuedDiscovered, fetchSeq, fetchQueue, fetchResults, OthersOfFetch>>
      BY <1>2, <2>2 DEF FetcherOnboard
    <3> QED
      BY <3>2, <3>3, <3>4, SMTT(30)
  <2> QED
    BY <1>2, <2>1, <2>2 DEF FetcherOnboard
<1>3. CASE FetcherOnboarded(f)
  <2> DEFINE i == fetcherItem[f]
             h == HostOf[i.url]
             reserved == SitemapReserved(h, queuedDiscovered)
  <2>1. i \in Item /\ i.url \in URLs /\ i.depth + 1 \in Nat
    BY <1>3 DEF FetcherOnboarded, Item
  <2>2. h \in Hosts
    BY <2>1, SiteAssumption
  <2>3. PICK n \in 0..reserved :
           /\ queuedDiscovered' = queuedDiscovered + (IF MaxDiscovered = 0 THEN 0 ELSE n)
           /\ Push(SitemapURLs(h, n), i.depth + 1)
           /\ urlStatus' = UpsertURLs(SitemapURLs(h, n))
    BY <1>3 DEF FetcherOnboarded
  <2>4. SitemapURLs(h, n) \subseteq URLs /\ n \in Nat
    BY <2>2, SitemapType
  <2>5. frontier' \in SUBSET Item /\ seen' \in SUBSET URLs
    BY <2>1, <2>3, <2>4, PushType
  <2>6. urlStatus' \in [URLs -> UrlStatus]
    BY <2>3, UpsertType
  <2> QED
    BY <1>3, <2>2, <2>3, <2>4, <2>5, <2>6 DEF FetcherOnboarded
<1>4. CASE FetcherOnboardFails(f)
  BY <1>4 DEF FetcherOnboardFails
<1>5. CASE FetcherRobots(f)
  <2>1. urlStatus' \in [URLs -> UrlStatus]
    BY <1>5 DEF FetcherRobots, UrlStatus
  <2>2. CASE FetcherStep(f, "robots", "idle") /\ FetcherDrops(f)
    BY <1>5, <2>1, <2>2 DEF FetcherRobots
  <2>3. CASE FetcherStep(f, "robots", "acquire") /\ UNCHANGED <<fetcherItem, inFlight>>
    BY <1>5, <2>1, <2>3 DEF FetcherRobots
  <2> QED
    BY <1>5, <2>2, <2>3 DEF FetcherRobots
<1>6. CASE FetcherFetch(f)
  <2>1. fetcherItem[f] \in Item
    BY <1>6 DEF FetcherFetch
  <2>2. [fetcherItem[f] EXCEPT !.seq = fetchSeq + 1] \in Item
    <3>1. fetchSeq + 1 \in Nat
      OBVIOUS
    <3> QED
      BY <2>1, <3>1, ItemUpdate
  <2>3. fetcherItem' = [fetcherItem EXCEPT ![f] = [fetcherItem[f] EXCEPT !.seq = fetchSeq + 1]]
    BY <1>6 DEF FetcherFetch
  <2>4. fetcherItem' \in [Fetchers -> Item \cup {NoItem}] /\ fetcherItem'[f] \in Item
    BY <2>2, <2>3
  <2>5. \A g \in Fetchers \ {f} : fetcherItem'[g] = fetcherItem[g]
    BY <2>3
  <2>6. /\ FetcherStep(f, "acquire", "fetching") /\ fetchSeq' = fetchSeq + 1
        /\ UNCHANGED <<frontierVars, onboardVars, fetchQueue, fetchResults, inFlight, urlStatus,
                       OthersOfFetch>>
    BY <1>6 DEF FetcherFetch
  <2> QED
    BY <2>4, <2>5, <2>6
<1>7. CASE FetcherFetched(f)
  <2>1. PICK o \in Outcomes[fetcherItem[f].url] \cup {"error"} :
           /\ fetcherItem' = [fetcherItem EXCEPT ![f].outcome = o]
           /\ urlStatus' = [urlStatus EXCEPT ![fetcherItem[f].url] =
                               IF o = "error" THEN "errored" ELSE "fetched"]
    BY <1>7 DEF FetcherFetched
  <2>2. fetcherItem[f] \in Item /\ fetcherItem[f].url \in URLs
    BY <1>7 DEF FetcherFetched, Item
  <2>3. o \in Outcome
    BY <2>2, SiteAssumption DEF Outcome
  <2>4. fetcherItem' \in [Fetchers -> Item \cup {NoItem}] /\ fetcherItem'[f] \in Item
    <3>1. [fetcherItem[f] EXCEPT !.outcome = o] \in Item
      BY <2>2, <2>3, ItemUpdate
    <3>2. fetcherItem' = [fetcherItem EXCEPT ![f] = [fetcherItem[f] EXCEPT !.outcome = o]]
      BY <2>1
    <3> QED
      BY <3>1, <3>2
  <2>5. urlStatus' \in [URLs -> UrlStatus]
    BY <2>1 DEF UrlStatus
  <2> QED
    BY <1>7, <2>1, <2>4, <2>5 DEF FetcherFetched
<1>8. CASE FetcherSend(f)
  BY <1>8 DEF FetcherSend
<1>9. CASE FetcherCancelled(f)
  <2>1. CASE FetcherStep(f, "acquire", "exited")
    BY <1>9, <2>1 DEF FetcherCancelled
  <2>2. CASE FetcherStep(f, "send", "exited")
    BY <1>9, <2>2 DEF FetcherCancelled
  <2> QED
    BY <1>9, <2>1, <2>2 DEF FetcherCancelled
<1>10. CASE FetcherExit(f)
  BY <1>10 DEF FetcherExit
<1> QED
  BY <1>1, <1>2, <1>3, <1>4, <1>5, <1>6, <1>7, <1>8, <1>9, <1>10 DEF Fetcher

\* The steps of a parser keep the type invariant.
LEMMA ParserType ==
    ASSUME TypeInv, NEW p \in Parsers, Parser(p)
    PROVE  TypeInv'
<1> USE DEF TypeInv, TypeOK, HandsFull, OthersOfParse, ParserStep, ParserPc, ParserHands,
            frontierVars, onboardVars, counterVars, channels, dispatcherVars, fetcherVars,
            parserVars, persisterVars, rowVars, envVars
<1>1. CASE ParserTake(p)
  BY <1>1 DEF ParserTake
<1>2. CASE ParserCount(p)
  <2>1. parserItem[p] \in Item /\ Links[parserItem[p].url] \in Seq(URLs)
    BY <1>2, SiteAssumption DEF ParserCount, Item
  <2>2. parserLinks' \in [Parsers -> Seq(URLs)]
    BY <1>2, <2>1 DEF ParserCount
  <2> QED
    BY <1>2, <2>2 DEF ParserCount
<1>3. CASE ParserReserve(p)
  <2>1. CASE ParserStep(p, "links", "push") /\ UNCHANGED parserLinks
    BY <1>3, <2>1 DEF ParserReserve
  <2>2. CASE /\ ParserStep(p, "links", "links")
             /\ parserLinks' = [parserLinks EXCEPT ![p] = Tail(@)]
    <3>1. Tail(parserLinks[p]) \in Seq(URLs)
      BY <1>3, HeadTailProperties DEF ParserReserve
    <3> QED
      BY <1>3, <2>2, <3>1 DEF ParserReserve
  <2> QED
    BY <1>3, <2>1, <2>2 DEF ParserReserve
<1>4. CASE ParserPush(p)
  <2> DEFINE u == Head(parserLinks[p])
  <2>1. parserItem[p] \in Item /\ parserItem[p].depth + 1 \in Nat
    BY <1>4 DEF ParserPush, Item
  <2>2. u \in URLs /\ Tail(parserLinks[p]) \in Seq(URLs)
    BY <1>4, HeadTailProperties DEF ParserPush
  <2>3. frontier' \in SUBSET Item /\ seen' \in SUBSET URLs
    BY <1>4, <2>1, <2>2, PushType DEF ParserPush
  <2>4. urlStatus' \in [URLs -> UrlStatus]
    BY <1>4, UpsertType DEF ParserPush
  <2> QED
    BY <1>4, <2>2, <2>3, <2>4 DEF ParserPush
<1>5. CASE ParserSend(p)
  BY <1>5 DEF ParserSend
<1>6. CASE ParserCancelled(p)
  BY <1>6 DEF ParserCancelled
<1>7. CASE ParserExit(p)
  BY <1>7 DEF ParserExit
<1> QED
  BY <1>1, <1>2, <1>3, <1>4, <1>5, <1>6, <1>7 DEF Parser

\* The steps of the persister keep the type invariant.
LEMMA PersisterType ==
    ASSUME TypeInv, Persister
    PROVE  TypeInv'
<1> USE DEF TypeInv, TypeOK, HandsFull, OthersOfPersist, PersisterStep, PersisterPc, frontierVars,
            onboardVars, counterVars, channels, dispatcherVars, fetcherVars, parserVars,
            persisterVars, rowVars, envVars
<1>1. CASE PersistTake
  BY <1>1 DEF PersistTake
<1>2. CASE PersistItem
  <2>1. persisterItem \in Item /\ Final[persisterItem.url] \in URLs
    BY <1>2, SiteAssumption DEF PersistItem, Item
  <2>2. UpsertFinal(persisterItem.url) \in [URLs -> UrlStatus]
    BY <2>1 DEF UpsertFinal, UrlStatus
  <2>3. CASE persisterItem.outcome = "error" /\ UNCHANGED <<urlStatus, fetches, pages>>
    BY <1>2, <2>3 DEF PersistItem
  <2>4. CASE /\ urlStatus' = UpsertFinal(persisterItem.url)
             /\ fetches' = fetches \cup {persisterItem}
             /\ pages' = IF persisterItem.outcome = "html"
                         THEN pages \cup {Final[persisterItem.url]} ELSE pages
    BY <1>2, <2>1, <2>2, <2>4 DEF PersistItem
  <2> QED
    BY <1>2, <2>3, <2>4 DEF PersistItem
<1>3. CASE PersistFails
  BY <1>3 DEF PersistFails
<1>4. CASE PersistRetry
  BY <1>4 DEF PersistRetry
<1>5. CASE PersistCancelled
  BY <1>5 DEF PersistCancelled
<1>6. CASE PersistFatal
  BY <1>6 DEF PersistFatal, CancelWith, Cause
<1>7. CASE PersisterExit
  BY <1>7 DEF PersisterExit
<1> QED
  BY <1>1, <1>2, <1>3, <1>4, <1>5, <1>6, <1>7 DEF Persister

\* A cancellation, a panic and its recovery keep the type invariant.
LEMMA EnvironmentType ==
    ASSUME TypeInv, Environment
    PROVE  TypeInv'
<1> USE DEF TypeInv, TypeOK, HandsFull, OthersOfPanic, FetcherStep, ParserStep, PersisterStep,
            Cause, FetcherPc, ParserPc, PersisterPc, FetcherHands, ParserHands, frontierVars,
            onboardVars, counterVars, channels, dispatcherVars, fetcherVars, parserVars,
            persisterVars, rowVars, envVars
<1>1. CASE Cancel
  BY <1>1 DEF Cancel
<1>2. CASE Panic
  <2>1. ASSUME NEW f \in Fetchers, fetcherPc' = [fetcherPc EXCEPT ![f] = "panicked"],
               UNCHANGED <<parserPc, persisterPc>>
        PROVE  TypeInv'
    BY <1>2, <2>1 DEF Panic
  <2>2. ASSUME NEW p \in Parsers, parserPc' = [parserPc EXCEPT ![p] = "panicked"],
               UNCHANGED <<fetcherPc, persisterPc>>
        PROVE  TypeInv'
    BY <1>2, <2>2 DEF Panic
  <2>3. ASSUME PersisterStep("write", "panicked"), UNCHANGED <<fetcherPc, parserPc>>
        PROVE  TypeInv'
    BY <1>2, <2>3 DEF Panic
  <2> QED
    BY <1>2, <2>1, <2>2, <2>3 DEF Panic
<1>3. CASE RecoverWorker
  <2>1. ASSUME NEW f \in Fetchers, FetcherStep(f, "panicked", "crashed"),
               UNCHANGED <<parserPc, persisterPc>>
        PROVE  TypeInv'
    BY <1>3, <2>1 DEF RecoverWorker, CancelWith
  <2>2. ASSUME NEW p \in Parsers, ParserStep(p, "panicked", "crashed"),
               UNCHANGED <<fetcherPc, persisterPc>>
        PROVE  TypeInv'
    BY <1>3, <2>2 DEF RecoverWorker, CancelWith
  <2>3. ASSUME PersisterStep("panicked", "crashed"), UNCHANGED <<fetcherPc, parserPc>>
        PROVE  TypeInv'
    BY <1>3, <2>3 DEF RecoverWorker, CancelWith
  <2> QED
    BY <1>3, <2>1, <2>2, <2>3 DEF RecoverWorker
<1> QED
  BY <1>1, <1>2, <1>3 DEF Environment

\* The state after seeding and onboarding has its types.
LEMMA InitType == Init => TypeInv
<1> DEFINE h == CHOOSE x \in SeedHosts : TRUE
           n == SitemapReserved(h, Cardinality(Seeds))
           sitemap == SitemapURLs(h, n) \ Seeds
<1>1. Seeds \subseteq URLs /\ SeedHosts \subseteq Hosts /\ h \in SeedHosts
  BY SiteAssumption DEF SeedHosts
<1>2. Cardinality(Seeds) \in Nat
  BY <1>1, SiteAssumption, FS_Subset, FS_CardinalityType
<1>3. n \in Nat /\ sitemap \subseteq URLs
  BY <1>1, <1>2, SitemapType
<1>4. SUFFICES ASSUME Init PROVE TypeInv
  OBVIOUS
<1>5. seen \in SUBSET URLs /\ Cardinality(seen) \in Nat
  <2>1. seen = Seeds \cup sitemap
    BY <1>4 DEF Init
  <2> QED
    BY <2>1, <1>1, <1>3, SiteAssumption, FS_Subset, FS_CardinalityType
<1>6. frontier \in SUBSET Item
  <2>1. frontier = {NewItem(u, 0) : u \in Seeds} \cup {NewItem(u, 1) : u \in sitemap}
    BY <1>4 DEF Init
  <2> QED
    BY <2>1, <1>1, <1>3, NewItemType
<1>7. queuedDiscovered \in Nat
  BY <1>4, <1>2, <1>3 DEF Init
<1>8. /\ hostSeen = SeedHosts /\ robotsRules = SeedHosts
      /\ urlsDiscovered = Cardinality(seen)
      /\ urlStatus = [u \in URLs |-> IF u \in seen THEN "queued" ELSE "unknown"]
  BY <1>4 DEF Init
<1>9. /\ pagesCrawled = 0 /\ inFlight = 0 /\ fetchSeq = 0
      /\ fetchQueue = <<>> /\ fetchResults = <<>> /\ persistQueue = <<>>
      /\ dispPc = "poll" /\ dispItem = NoItem /\ pagesRead = 0 /\ maxPagesReached = FALSE
      /\ fetcherPc = [f \in Fetchers |-> "idle"] /\ fetcherItem = [f \in Fetchers |-> NoItem]
      /\ parserPc = [p \in Parsers |-> "idle"] /\ parserItem = [p \in Parsers |-> NoItem]
      /\ parserLinks = [p \in Parsers |-> <<>>]
      /\ persisterPc = "idle" /\ persisterItem = NoItem /\ attempt = 0
      /\ cause = "none" /\ completionErr = "none"
      /\ fetches = {} /\ pages = {} /\ jobStatus = "running"
      /\ faults = MaxFaults /\ panics = MaxPanics
  BY <1>4 DEF Init
<1> HIDE DEF h, n, sitemap
<1>10. TypeOK
  <2>1. /\ parserLinks \in [Parsers -> Seq(URLs)]
        /\ fetchQueue \in Seq(Item) /\ fetchResults \in Seq(Item) /\ persistQueue \in Seq(Item)
    BY <1>9
  <2>2. /\ fetcherPc \in [Fetchers -> FetcherPc] /\ parserPc \in [Parsers -> ParserPc]
        /\ fetcherItem \in [Fetchers -> Item \cup {NoItem}]
        /\ parserItem \in [Parsers -> Item \cup {NoItem}]
    BY <1>9 DEF FetcherPc, ParserPc
  <2>3. urlStatus \in [URLs -> UrlStatus]
    BY <1>8 DEF UrlStatus
  <2>4. /\ hostSeen \in SUBSET Hosts /\ robotsRules \in SUBSET Hosts
        /\ urlsDiscovered \in Nat /\ faults \in Nat /\ panics \in Nat
    BY <1>1, <1>5, <1>8, <1>9, BudgetAssumption
  <2>5. /\ dispPc \in DispPc /\ dispItem \in Item \cup {NoItem}
        /\ persisterPc \in PersisterPc /\ persisterItem \in Item \cup {NoItem} /\ attempt \in 0..3
    BY <1>9 DEF DispPc, PersisterPc
  <2>6. fetches \in SUBSET Item /\ pages \in SUBSET URLs
    BY <1>9
  <2>7. /\ pagesCrawled \in Nat /\ inFlight \in Int /\ fetchSeq \in Nat
        /\ pagesRead \in Nat
        /\ cause \in Cause \cup {"none"} /\ completionErr \in Cause \cup {"none"}
        /\ jobStatus \in {"running", "completed", "failed", "cancelled"}
    BY <1>9
  <2>8. maxPagesReached \in BOOLEAN
    BY <1>4 DEF Init
  <2> QED
    BY <1>5, <1>6, <1>7, <2>1, <2>2, <2>3, <2>4, <2>5, <2>6, <2>7, <2>8 DEF TypeOK
<1>11. HandsFull
  BY <1>9 DEF HandsFull, FetcherHands, ParserHands
<1> QED
  BY <1>10, <1>11 DEF TypeInv

\* Every reachable state of the pipeline is well typed, and a goroutine that is
\* past taking an item from its channel holds that item.
THEOREM TypeCorrect == Spec => []TypeInv
<1>1. Init => TypeInv
  BY InitType
<1>2. TypeInv /\ [Next]_vars => TypeInv'
  <2> SUFFICES ASSUME TypeInv, [Next]_vars PROVE TypeInv'
    OBVIOUS
  <2>1. CASE UNCHANGED vars
    BY <2>1 DEF vars, TypeInv, TypeOK, HandsFull, frontierVars, onboardVars, counterVars,
                channels, dispatcherVars, fetcherVars, parserVars, persisterVars, rowVars, envVars
  <2>2. CASE Next
    BY <2>1, <2>2, DispatcherType, FetcherType, ParserType, PersisterType, EnvironmentType
    DEF Next, Finished
  <2> QED
    BY <2>1, <2>2
<1> QED
  BY <1>1, <1>2, PTL DEF Spec

\* The type invariant the runs check.
THEOREM TypeSafe == Spec => []TypeOK
BY TypeCorrect, PTL DEF TypeInv

-----------------------------------------------------------------------------
(* What inFlight counts.                                                    *)

\* Two subsets of a pool that differ in one worker at most: their sizes differ
\* by what that worker counts.
LEMMA OneDiffers ==
    ASSUME NEW S, IsFiniteSet(S), NEW w \in S, NEW A \in SUBSET S, NEW B \in SUBSET S,
           A \ {w} = B \ {w}
    PROVE  /\ Cardinality(A) \in Nat
           /\ Cardinality(B) = Cardinality(A) + One(w \in B) - One(w \in A)
<1> DEFINE R == A \ {w}
<1>1. IsFiniteSet(A) /\ IsFiniteSet(B)
  BY FS_Subset
<1>2. Cardinality(A) \in Nat /\ Cardinality(B) \in Nat
  BY <1>1, FS_CardinalityType
<1>3. Cardinality(R) = IF w \in A THEN Cardinality(A) - 1 ELSE Cardinality(A)
  BY <1>1, FS_RemoveElement
<1>4. Cardinality(R) = IF w \in B THEN Cardinality(B) - 1 ELSE Cardinality(B)
  BY <1>1, FS_RemoveElement
<1> QED
  BY <1>2, <1>3, <1>4 DEF One

\* A step of one fetcher changes the number of busy fetchers by what it does to that one.
LEMMA BusyFetchersStep ==
    ASSUME TypeOK, NEW f \in Fetchers, NEW from, NEW to, FetcherStep(f, from, to)
    PROVE  /\ Cardinality(BusyFetchers) \in Nat
           /\ Cardinality(BusyFetchers)' =
                 Cardinality(BusyFetchers) + One(Holding(to)) - One(Holding(from))
<1>1. /\ fetcherPc[f] = from /\ fetcherPc'[f] = to
      /\ \A g \in Fetchers \ {f} : fetcherPc'[g] = fetcherPc[g]
  BY DEF TypeOK, FetcherStep
<1>2. /\ BusyFetchers \in SUBSET Fetchers /\ BusyFetchers' \in SUBSET Fetchers
      /\ BusyFetchers \ {f} = BusyFetchers' \ {f}
      /\ f \in BusyFetchers <=> Holding(from)
      /\ f \in BusyFetchers' <=> Holding(to)
  BY <1>1 DEF BusyFetchers
<1>3. /\ Cardinality(BusyFetchers) \in Nat
      /\ Cardinality(BusyFetchers') =
            Cardinality(BusyFetchers) + One(f \in BusyFetchers') - One(f \in BusyFetchers)
  BY <1>2, OneDiffers, PoolAssumption
<1> QED
  BY <1>2, <1>3 DEF One

\* The same for the parsers.
LEMMA BusyParsersStep ==
    ASSUME TypeOK, NEW p \in Parsers, NEW from, NEW to, ParserStep(p, from, to)
    PROVE  /\ Cardinality(BusyParsers) \in Nat
           /\ Cardinality(BusyParsers)' =
                 Cardinality(BusyParsers) + One(Holding(to)) - One(Holding(from))
<1>1. /\ parserPc[p] = from /\ parserPc'[p] = to
      /\ \A q \in Parsers \ {p} : parserPc'[q] = parserPc[q]
  BY DEF TypeOK, ParserStep
<1>2. /\ BusyParsers \in SUBSET Parsers /\ BusyParsers' \in SUBSET Parsers
      /\ BusyParsers \ {p} = BusyParsers' \ {p}
      /\ p \in BusyParsers <=> Holding(from)
      /\ p \in BusyParsers' <=> Holding(to)
  BY <1>1 DEF BusyParsers
<1>3. /\ Cardinality(BusyParsers) \in Nat
      /\ Cardinality(BusyParsers') =
            Cardinality(BusyParsers) + One(p \in BusyParsers') - One(p \in BusyParsers)
  BY <1>2, OneDiffers, PoolAssumption
<1> QED
  BY <1>2, <1>3 DEF One

\* Both pools are finite, so their busy members can be counted.
LEMMA PoolsFinite == Cardinality(BusyFetchers) \in Nat /\ Cardinality(BusyParsers) \in Nat
<1>1. BusyFetchers \in SUBSET Fetchers /\ BusyParsers \in SUBSET Parsers
  BY DEF BusyFetchers, BusyParsers
<1> QED
  BY <1>1, PoolAssumption, FS_Subset, FS_CardinalityType

\* The dispatcher keeps inFlight exact: what it counts it holds or has sent.
LEMMA DispatcherAccounting ==
    ASSUME TypeInv, InFlightAccounting, Dispatcher
    PROVE  InFlightAccounting'
<1> USE PoolsFinite DEF TypeInv, TypeOK, InFlightAccounting, One, Holding, OthersOfDispatch,
            DispatchStep, frontierVars, onboardVars, counterVars, channels, dispatcherVars,
            fetcherVars, parserVars, persisterVars, rowVars, envVars
<1>1. BusyFetchers' = BusyFetchers /\ BusyParsers' = BusyParsers
  BY DEF Dispatcher, BusyFetchers, BusyParsers, DispatchReadPages, DispatchPop, DispatchNothing,
     DispatchSend, DispatchSendCancelled, DispatchReadCap, DispatchReadQueue,
     DispatchReadInFlight, DispatchTick, DispatchDone, DispatchShutdown, Finalize
<1>2. CASE DispatchReadPages
  BY <1>2, <1>1 DEF DispatchReadPages
<1>3. CASE DispatchPop
  BY <1>3, <1>1, SMTT(30) DEF DispatchPop
<1>4. CASE DispatchNothing
  BY <1>4, <1>1 DEF DispatchNothing
<1>5. CASE DispatchSend
  BY <1>5, <1>1 DEF DispatchSend
<1>6. CASE DispatchSendCancelled
  BY <1>6, <1>1, SMTT(30) DEF DispatchSendCancelled
<1>7. CASE DispatchReadCap
  BY <1>7, <1>1 DEF DispatchReadCap
<1>8. CASE DispatchReadQueue
  BY <1>8, <1>1 DEF DispatchReadQueue
<1>9. CASE DispatchReadInFlight
  BY <1>9, <1>1 DEF DispatchReadInFlight
<1>10. CASE DispatchTick
  BY <1>10, <1>1 DEF DispatchTick
<1>11. CASE DispatchDone
  BY <1>11, <1>1 DEF DispatchDone
<1>12. CASE DispatchShutdown
  BY <1>12, <1>1 DEF DispatchShutdown
<1>13. CASE Finalize
  BY <1>13, <1>1 DEF Finalize
<1> QED
  BY <1>2, <1>3, <1>4, <1>5, <1>6, <1>7, <1>8, <1>9, <1>10, <1>11, <1>12, <1>13 DEF Dispatcher

\* A fetcher's step keeps the account when inFlight changes by what the step
\* does to the two channels at its ends and to the fetcher's own hands.
LEMMA FetcherAccounts ==
    ASSUME TypeOK, InFlightAccounting, NEW f \in Fetchers, NEW from, NEW to,
           FetcherStep(f, from, to), UNCHANGED <<dispPc, persistQueue, parserPc, persisterPc>>,
           inFlight' = inFlight + Len(fetchQueue)' - Len(fetchQueue) + Len(fetchResults)'
                       - Len(fetchResults) + One(Holding(to)) - One(Holding(from)),
           Len(fetchQueue)' \in Int, Len(fetchResults)' \in Int
    PROVE  InFlightAccounting'
<1>1. BusyParsers' = BusyParsers
  BY DEF BusyParsers
<1>2. Cardinality(BusyFetchers)' =
        Cardinality(BusyFetchers) + One(Holding(to)) - One(Holding(from))
  BY BusyFetchersStep
<1>3. /\ One(Holding(to)) \in Int /\ One(Holding(from)) \in Int
      /\ One(dispPc = "send") \in Int /\ One(Holding(persisterPc)) \in Int
  BY DEF One
<1>4. /\ Len(fetchQueue) \in Int /\ Len(fetchResults) \in Int /\ Len(persistQueue) \in Int
      /\ inFlight \in Int
  BY DEF TypeOK
<1>5. /\ One(dispPc = "send")' = One(dispPc = "send")
      /\ One(Holding(persisterPc))' = One(Holding(persisterPc))
      /\ Len(persistQueue)' = Len(persistQueue)
      /\ Cardinality(BusyParsers)' = Cardinality(BusyParsers)
  BY <1>1
<1>6. Cardinality(BusyFetchers) \in Nat /\ Cardinality(BusyParsers) \in Nat
  BY PoolsFinite
<1>7. inFlight = One(dispPc = "send") + Len(fetchQueue) + Cardinality(BusyFetchers)
        + Len(fetchResults) + Cardinality(BusyParsers) + Len(persistQueue)
        + One(Holding(persisterPc))
  BY DEF InFlightAccounting
<1>8. inFlight' = One(dispPc = "send") + Len(fetchQueue)' + Cardinality(BusyFetchers)'
        + Len(fetchResults)' + Cardinality(BusyParsers)' + Len(persistQueue)'
        + One(Holding(persisterPc))
  <2> DEFINE d == One(dispPc = "send")
             w == One(Holding(persisterPc))
             m == One(Holding(from))
             n == One(Holding(to))
             cF == Cardinality(BusyFetchers)
             cP == Cardinality(BusyParsers)
             cFnext == Cardinality(BusyFetchers)'
             cPnext == Cardinality(BusyParsers)'
  <2>1. /\ d \in Int /\ w \in Int /\ m \in Int /\ n \in Int /\ cF \in Int /\ cP \in Int
    BY <1>3, <1>6
  <2>2. cFnext = cF + n - m /\ cPnext = cP
    BY <1>2, <1>5
  <2>3. inFlight = d + Len(fetchQueue) + cF + Len(fetchResults) + cP + Len(persistQueue) + w
    BY <1>7
  <2>4. inFlight' = inFlight + Len(fetchQueue)' - Len(fetchQueue) + Len(fetchResults)'
                      - Len(fetchResults) + n - m
    OBVIOUS
  <2> HIDE DEF d, w, m, n, cF, cP, cFnext, cPnext
  <2>5. inFlight' = d + Len(fetchQueue)' + cFnext + Len(fetchResults)' + cPnext
                      + Len(persistQueue)' + w
    BY <1>4, <1>5, <2>1, <2>2, <2>3, <2>4
  <2> QED
    BY <2>5 DEF d, w, cFnext, cPnext
<1> QED
  BY <1>5, <1>8 DEF InFlightAccounting

\* A step of a parser, in terms of its own hands and of the channels at its ends.
LEMMA ParserAccounts ==
    ASSUME TypeOK, InFlightAccounting, NEW p \in Parsers, NEW from, NEW to,
           ParserStep(p, from, to), UNCHANGED <<dispPc, fetchQueue, fetcherPc, persisterPc>>,
           inFlight' = inFlight + Len(fetchResults)' - Len(fetchResults) + Len(persistQueue)'
                       - Len(persistQueue) + One(Holding(to)) - One(Holding(from)),
           Len(fetchResults)' \in Int, Len(persistQueue)' \in Int
    PROVE  InFlightAccounting'
<1>1. BusyFetchers' = BusyFetchers
  BY DEF BusyFetchers
<1>2. Cardinality(BusyParsers)' =
        Cardinality(BusyParsers) + One(Holding(to)) - One(Holding(from))
  BY BusyParsersStep
<1>3. /\ One(Holding(to)) \in Int /\ One(Holding(from)) \in Int
      /\ One(dispPc = "send") \in Int /\ One(Holding(persisterPc)) \in Int
  BY DEF One
<1>4. /\ Len(fetchQueue) \in Int /\ Len(fetchResults) \in Int /\ Len(persistQueue) \in Int
      /\ inFlight \in Int
  BY DEF TypeOK
<1>5. /\ One(dispPc = "send")' = One(dispPc = "send")
      /\ One(Holding(persisterPc))' = One(Holding(persisterPc))
      /\ Len(fetchQueue)' = Len(fetchQueue)
      /\ Cardinality(BusyFetchers)' = Cardinality(BusyFetchers)
  BY <1>1
<1>6. Cardinality(BusyFetchers) \in Nat /\ Cardinality(BusyParsers) \in Nat
  BY PoolsFinite
<1>7. inFlight = One(dispPc = "send") + Len(fetchQueue) + Cardinality(BusyFetchers)
        + Len(fetchResults) + Cardinality(BusyParsers) + Len(persistQueue)
        + One(Holding(persisterPc))
  BY DEF InFlightAccounting
<1>8. inFlight' = One(dispPc = "send") + Len(fetchQueue)' + Cardinality(BusyFetchers)'
        + Len(fetchResults)' + Cardinality(BusyParsers)' + Len(persistQueue)'
        + One(Holding(persisterPc))
  <2> DEFINE d == One(dispPc = "send")
             w == One(Holding(persisterPc))
             m == One(Holding(from))
             n == One(Holding(to))
             cF == Cardinality(BusyFetchers)
             cP == Cardinality(BusyParsers)
             cFnext == Cardinality(BusyFetchers)'
             cPnext == Cardinality(BusyParsers)'
  <2>1. /\ d \in Int /\ w \in Int /\ m \in Int /\ n \in Int /\ cF \in Int /\ cP \in Int
    BY <1>3, <1>6
  <2>2. cPnext = cP + n - m /\ cFnext = cF
    BY <1>2, <1>5
  <2>3. inFlight = d + Len(fetchQueue) + cF + Len(fetchResults) + cP + Len(persistQueue) + w
    BY <1>7
  <2>4. inFlight' = inFlight + Len(fetchResults)' - Len(fetchResults) + Len(persistQueue)'
                      - Len(persistQueue) + n - m
    OBVIOUS
  <2> HIDE DEF d, w, m, n, cF, cP, cFnext, cPnext
  <2>5. inFlight' = d + Len(fetchQueue)' + cFnext + Len(fetchResults)' + cPnext
                      + Len(persistQueue)' + w
    BY <1>4, <1>5, <2>1, <2>2, <2>3, <2>4
  <2> QED
    BY <2>5 DEF d, w, cFnext, cPnext
<1> QED
  BY <1>5, <1>8 DEF InFlightAccounting

\* The steps of a fetcher keep inFlight exact.
LEMMA FetcherAccounting ==
    ASSUME TypeInv, InFlightAccounting, NEW f \in Fetchers, Fetcher(f)
    PROVE  InFlightAccounting'
<1> USE DEF OthersOfFetch, FetcherDrops, Holding, One, dispatcherVars, parserVars, persisterVars,
            onboardVars, counterVars, frontierVars
<1>1. UNCHANGED <<dispPc, persistQueue, parserPc, persisterPc>>
  BY DEF Fetcher, FetcherTake, FetcherOnboard, FetcherOnboarded, FetcherOnboardFails,
         FetcherRobots, FetcherFetch, FetcherFetched, FetcherSend, FetcherCancelled, FetcherExit
<1>2. /\ Len(fetchQueue) \in Int /\ Len(fetchResults) \in Int /\ inFlight \in Int
      /\ fetchQueue \in Seq(Item) /\ fetchResults \in Seq(Item)
      /\ TypeOK
  BY DEF TypeInv, TypeOK
<1>3. CASE FetcherTake(f)
  <2>1. Len(fetchQueue)' = Len(fetchQueue) - 1 /\ UNCHANGED fetchResults
    BY <1>2, <1>3, HeadTailProperties DEF FetcherTake
  <2>2. CASE FetcherStep(f, "idle", "onboard") /\ UNCHANGED inFlight
    BY <1>1, <1>2, <2>1, <2>2, FetcherAccounts
  <2>3. CASE FetcherStep(f, "idle", "idle") /\ inFlight' = inFlight - 1
    BY <1>1, <1>2, <2>1, <2>3, FetcherAccounts
  <2> QED
    BY <1>3, <2>2, <2>3 DEF FetcherTake
<1>4. CASE FetcherOnboard(f)
  <2>1. UNCHANGED <<fetchQueue, fetchResults>>
    BY <1>4 DEF FetcherOnboard
  <2>2. CASE FetcherStep(f, "onboard", "robots") /\ UNCHANGED inFlight
    BY <1>1, <1>2, <2>1, <2>2, FetcherAccounts
  <2>3. CASE FetcherStep(f, "onboard", "idle") /\ inFlight' = inFlight - 1
    BY <1>1, <1>2, <2>1, <2>3, FetcherAccounts
  <2>4. CASE FetcherStep(f, "onboard", "onboarding") /\ UNCHANGED inFlight
    BY <1>1, <1>2, <2>1, <2>4, FetcherAccounts
  <2> QED
    BY <1>4, <2>2, <2>3, <2>4 DEF FetcherOnboard
<1>5. CASE FetcherOnboarded(f) \/ FetcherOnboardFails(f)
  <2>1. FetcherStep(f, "onboarding", "robots") /\ UNCHANGED <<fetchQueue, fetchResults, inFlight>>
    BY <1>5 DEF FetcherOnboarded, FetcherOnboardFails
  <2> QED
    BY <1>1, <1>2, <2>1, FetcherAccounts
<1>6. CASE FetcherRobots(f)
  <2>1. UNCHANGED <<fetchQueue, fetchResults>>
    BY <1>6 DEF FetcherRobots
  <2>2. CASE FetcherStep(f, "robots", "idle") /\ inFlight' = inFlight - 1
    BY <1>1, <1>2, <2>1, <2>2, FetcherAccounts
  <2>3. CASE FetcherStep(f, "robots", "acquire") /\ UNCHANGED inFlight
    BY <1>1, <1>2, <2>1, <2>3, FetcherAccounts
  <2> QED
    BY <1>6, <2>2, <2>3 DEF FetcherRobots
<1>7. CASE FetcherFetch(f)
  <2>1. FetcherStep(f, "acquire", "fetching") /\ UNCHANGED <<fetchQueue, fetchResults, inFlight>>
    BY <1>7 DEF FetcherFetch
  <2> QED
    BY <1>1, <1>2, <2>1, FetcherAccounts
<1>8. CASE FetcherFetched(f)
  <2>1. FetcherStep(f, "fetching", "send") /\ UNCHANGED <<fetchQueue, fetchResults, inFlight>>
    BY <1>8 DEF FetcherFetched
  <2> QED
    BY <1>1, <1>2, <2>1, FetcherAccounts
<1>9. CASE FetcherSend(f)
  <2>1. fetcherItem[f] \in Item
    BY <1>9 DEF FetcherSend, FetcherStep, TypeInv, HandsFull, FetcherHands
  <2>2. /\ FetcherStep(f, "send", "idle") /\ UNCHANGED <<fetchQueue, inFlight>>
        /\ Len(fetchResults)' = Len(fetchResults) + 1
    BY <1>2, <1>9, <2>1, AppendProperties DEF FetcherSend
  <2> QED
    BY <1>1, <1>2, <2>2, FetcherAccounts
<1>10. CASE FetcherCancelled(f)
  <2>1. UNCHANGED <<fetchQueue, fetchResults>> /\ inFlight' = inFlight - 1
    BY <1>10 DEF FetcherCancelled
  <2>2. CASE FetcherStep(f, "acquire", "exited")
    BY <1>1, <1>2, <2>1, <2>2, FetcherAccounts
  <2>3. CASE FetcherStep(f, "send", "exited")
    BY <1>1, <1>2, <2>1, <2>3, FetcherAccounts
  <2> QED
    BY <1>10, <2>2, <2>3 DEF FetcherCancelled
<1>11. CASE FetcherExit(f)
  <2>1. FetcherStep(f, "idle", "exited") /\ UNCHANGED <<fetchQueue, fetchResults, inFlight>>
    BY <1>11 DEF FetcherExit
  <2> QED
    BY <1>1, <1>2, <2>1, FetcherAccounts
<1> QED
  BY <1>3, <1>4, <1>5, <1>6, <1>7, <1>8, <1>9, <1>10, <1>11 DEF Fetcher

\* The steps of a parser keep inFlight exact.
LEMMA ParserAccounting ==
    ASSUME TypeInv, InFlightAccounting, NEW p \in Parsers, Parser(p)
    PROVE  InFlightAccounting'
<1> USE DEF OthersOfParse, Holding, One, dispatcherVars, fetcherVars, persisterVars,
            onboardVars, frontierVars
<1>1. UNCHANGED <<dispPc, fetchQueue, fetcherPc, persisterPc>>
  BY DEF Parser, ParserTake, ParserCount, ParserReserve, ParserPush, ParserSend, ParserCancelled,
         ParserExit
<1>2. /\ Len(fetchResults) \in Int /\ Len(persistQueue) \in Int /\ inFlight \in Int
      /\ fetchResults \in Seq(Item) /\ persistQueue \in Seq(Item)
      /\ TypeOK
  BY DEF TypeInv, TypeOK
<1>3. CASE ParserTake(p)
  <2>1. /\ ParserStep(p, "idle", "parse") /\ UNCHANGED <<persistQueue, inFlight>>
        /\ Len(fetchResults)' = Len(fetchResults) - 1
    BY <1>2, <1>3, HeadTailProperties DEF ParserTake
  <2> QED
    BY <1>1, <1>2, <2>1, ParserAccounts
<1>4. CASE ParserCount(p)
  <2>1. ParserStep(p, "parse", "links") /\ UNCHANGED <<fetchResults, persistQueue, inFlight>>
    BY <1>4 DEF ParserCount
  <2> QED
    BY <1>1, <1>2, <2>1, ParserAccounts
<1>5. CASE ParserReserve(p)
  <2>1. UNCHANGED <<fetchResults, persistQueue, inFlight>>
    BY <1>5 DEF ParserReserve
  <2>2. CASE ParserStep(p, "links", "push")
    BY <1>1, <1>2, <2>1, <2>2, ParserAccounts
  <2>3. CASE ParserStep(p, "links", "links")
    BY <1>1, <1>2, <2>1, <2>3, ParserAccounts
  <2> QED
    BY <1>5, <2>2, <2>3 DEF ParserReserve
<1>6. CASE ParserPush(p)
  <2>1. ParserStep(p, "push", "links") /\ UNCHANGED <<fetchResults, persistQueue, inFlight>>
    BY <1>6 DEF ParserPush
  <2> QED
    BY <1>1, <1>2, <2>1, ParserAccounts
<1>7. CASE ParserSend(p)
  <2>1. parserItem[p] \in Item
    BY <1>7 DEF ParserSend, ParserStep, TypeInv, HandsFull, ParserHands
  <2>2. /\ ParserStep(p, "links", "idle") /\ UNCHANGED <<fetchResults, inFlight>>
        /\ Len(persistQueue)' = Len(persistQueue) + 1
    BY <1>2, <1>7, <2>1, AppendProperties DEF ParserSend
  <2> QED
    BY <1>1, <1>2, <2>2, ParserAccounts
<1>8. CASE ParserCancelled(p)
  <2>1. /\ ParserStep(p, "links", "exited") /\ UNCHANGED <<fetchResults, persistQueue>>
        /\ inFlight' = inFlight - 1
    BY <1>8 DEF ParserCancelled
  <2> QED
    BY <1>1, <1>2, <2>1, ParserAccounts
<1>9. CASE ParserExit(p)
  <2>1. ParserStep(p, "idle", "exited") /\ UNCHANGED <<fetchResults, persistQueue, inFlight>>
    BY <1>9 DEF ParserExit
  <2> QED
    BY <1>1, <1>2, <2>1, ParserAccounts
<1> QED
  BY <1>3, <1>4, <1>5, <1>6, <1>7, <1>8, <1>9 DEF Parser

\* The steps of the persister keep inFlight exact, each failed transaction included.
LEMMA PersisterAccounting ==
    ASSUME TypeInv, InFlightAccounting, Persister
    PROVE  InFlightAccounting'
<1> USE PoolsFinite DEF TypeInv, TypeOK, InFlightAccounting, One, Holding, OthersOfPersist,
            PersisterStep, frontierVars, onboardVars, counterVars, channels, dispatcherVars,
            fetcherVars, parserVars, persisterVars, rowVars, envVars
<1>1. BusyFetchers' = BusyFetchers /\ BusyParsers' = BusyParsers
  BY DEF Persister, BusyFetchers, BusyParsers, PersistTake, PersistItem, PersistFails, 
         PersistRetry, PersistCancelled, PersistFatal, PersisterExit
<1>2. CASE PersistTake
  BY <1>2, <1>1 DEF PersistTake
<1>3. CASE PersistItem
  <2>1. /\ persisterPc = "write" /\ persisterPc' = "idle" /\ inFlight' = inFlight - 1
        /\ UNCHANGED <<dispPc, fetchQueue, fetchResults, persistQueue>>
    BY <1>3 DEF PersistItem
  <2> QED
    BY <1>1, <2>1, SMTT(30)
<1>4. CASE PersistFails
  BY <1>4, <1>1, SMTT(30) DEF PersistFails
<1>5. CASE PersistRetry
  BY <1>5, <1>1 DEF PersistRetry
<1>6. CASE PersistCancelled
  BY <1>6, <1>1, SMTT(30) DEF PersistCancelled
<1>7. CASE PersistFatal
  BY <1>7, <1>1 DEF PersistFatal
<1>8. CASE PersisterExit
  BY <1>8, <1>1 DEF PersisterExit
<1> QED
  BY <1>2, <1>3, <1>4, <1>5, <1>6, <1>7, <1>8 DEF Persister

\* A panic keeps the item counted, and nothing else here touches it.
LEMMA EnvironmentAccounting ==
    ASSUME TypeInv, InFlightAccounting, Environment
    PROVE  InFlightAccounting'
<1> USE DEF Holding, One, dispatcherVars, channels
<1>1. UNCHANGED <<dispPc, inFlight, fetchQueue, fetchResults, persistQueue>>
  BY DEF Environment, Cancel, Panic, RecoverWorker, OthersOfPanic
<1>2. TypeOK
  BY DEF TypeInv
<1>3. /\ Len(fetchQueue) \in Int /\ Len(fetchResults) \in Int /\ Len(persistQueue) \in Int
      /\ inFlight \in Int
  BY <1>2 DEF TypeOK
<1>4. ASSUME NEW f \in Fetchers, NEW from, NEW to, FetcherStep(f, from, to),
             Holding(from), Holding(to), UNCHANGED <<parserPc, persisterPc>>
      PROVE  InFlightAccounting'
  BY <1>1, <1>2, <1>3, <1>4, FetcherAccounts
<1>5. ASSUME NEW p \in Parsers, NEW from, NEW to, ParserStep(p, from, to),
             Holding(from), Holding(to), UNCHANGED <<fetcherPc, persisterPc>>
      PROVE  InFlightAccounting'
  BY <1>1, <1>2, <1>3, <1>5, ParserAccounts
<1>6. ASSUME UNCHANGED <<fetcherPc, parserPc>>, Holding(persisterPc)' = Holding(persisterPc)
      PROVE  InFlightAccounting'
  BY <1>1, <1>6 DEF InFlightAccounting, BusyFetchers, BusyParsers
<1>7. CASE Cancel
  BY <1>6, <1>7 DEF Cancel, fetcherVars, parserVars, persisterVars
<1>8. CASE Panic
  <2>1. ASSUME NEW f \in Fetchers, fetcherPc[f] \notin Gone \cup {"idle"},
               fetcherPc' = [fetcherPc EXCEPT ![f] = "panicked"],
               UNCHANGED <<parserPc, persisterPc>>
        PROVE  InFlightAccounting'
    <3>1. FetcherStep(f, fetcherPc[f], "panicked")
      BY <2>1 DEF FetcherStep
    <3>2. Holding(fetcherPc[f])
      BY <1>2, <2>1 DEF TypeOK, FetcherPc, Gone
    <3> QED
      BY <1>4, <2>1, <3>1, <3>2
  <2>2. ASSUME NEW p \in Parsers, parserPc[p] \notin Gone \cup {"idle"},
               parserPc' = [parserPc EXCEPT ![p] = "panicked"],
               UNCHANGED <<fetcherPc, persisterPc>>
        PROVE  InFlightAccounting'
    <3>1. ParserStep(p, parserPc[p], "panicked")
      BY <2>2 DEF ParserStep
    <3>2. Holding(parserPc[p])
      BY <1>2, <2>2 DEF TypeOK, ParserPc, Gone
    <3> QED
      BY <1>5, <2>2, <3>1, <3>2
  <2>3. ASSUME PersisterStep("write", "panicked"), UNCHANGED <<fetcherPc, parserPc>>
        PROVE  InFlightAccounting'
    BY <1>6, <2>3 DEF PersisterStep
  <2> QED
    BY <1>8, <2>1, <2>2, <2>3 DEF Panic
<1>9. CASE RecoverWorker
  <2>1. ASSUME PersisterStep("panicked", "crashed"), UNCHANGED <<fetcherPc, parserPc>>
        PROVE  InFlightAccounting'
    BY <1>6, <2>1 DEF PersisterStep
  <2> QED
    BY <1>4, <1>5, <1>9, <2>1 DEF RecoverWorker
<1> QED
  BY <1>7, <1>8, <1>9 DEF Environment

\* inFlight is exact in every reachable state.
THEOREM InFlightExact == Spec => []InFlightAccounting
<1>1. Init => InFlightAccounting
  <2> SUFFICES ASSUME Init PROVE InFlightAccounting
    OBVIOUS
  <2>1. BusyFetchers = {} /\ BusyParsers = {}
    BY DEF Init, BusyFetchers, BusyParsers, Holding
  <2>2. Cardinality(BusyFetchers) = 0 /\ Cardinality(BusyParsers) = 0
    BY <2>1, FS_EmptySet
  <2>3. /\ inFlight = 0 /\ fetchQueue = <<>> /\ fetchResults = <<>> /\ persistQueue = <<>>
        /\ dispPc = "poll" /\ persisterPc = "idle"
    BY DEF Init
  <2> QED
    BY <2>2, <2>3 DEF InFlightAccounting, One, Holding
<1>2. TypeInv /\ InFlightAccounting /\ [Next]_vars => InFlightAccounting'
  <2> SUFFICES ASSUME TypeInv, InFlightAccounting, [Next]_vars PROVE InFlightAccounting'
    OBVIOUS
  <2>1. CASE UNCHANGED vars
    BY <2>1 DEF vars, InFlightAccounting, BusyFetchers, BusyParsers, channels, dispatcherVars,
                fetcherVars, parserVars, persisterVars
  <2>2. CASE Next
    BY <2>1, <2>2, DispatcherAccounting, FetcherAccounting, ParserAccounting,
       PersisterAccounting, EnvironmentAccounting DEF Next, Finished
  <2> QED
    BY <2>1, <2>2
<1> QED
  BY <1>1, <1>2, TypeCorrect, PTL DEF Spec

-----------------------------------------------------------------------------
(* Closing the channels.                                                    *)

\* No goroutine is left to send on a channel once the dispatcher closes it: a
\* worker that is gone stays gone, and the dispatcher waits for all of them.
THEOREM ChannelsSafe == Spec => []NoSendOnClosedChannel
<1> USE DEF FetchResultsClosed, PersistQueueClosed, Gone
<1>1. Init => NoSendOnClosedChannel
  BY DEF Init, NoSendOnClosedChannel
<1>2. TypeOK /\ NoSendOnClosedChannel /\ [Next]_vars => NoSendOnClosedChannel'
  <2> SUFFICES ASSUME TypeOK, NoSendOnClosedChannel, [Next]_vars
               PROVE  NoSendOnClosedChannel'
    OBVIOUS
  <2>1. CASE UNCHANGED vars
    BY <2>1 DEF NoSendOnClosedChannel, vars, dispatcherVars, fetcherVars, parserVars
  <2>2. CASE Dispatcher
    <3>1. UNCHANGED <<fetcherPc, parserPc>>
      BY <2>2 DEF Dispatcher, DispatchReadPages, DispatchPop, DispatchNothing, DispatchSend,
         DispatchSendCancelled, DispatchReadCap, DispatchReadQueue, DispatchReadInFlight,
         DispatchTick, DispatchDone, DispatchShutdown, Finalize, OthersOfDispatch, fetcherVars,
         parserVars
    <3>2. CASE DispatchShutdown
      BY <3>1, <3>2 DEF DispatchShutdown, DispatchStep, NoSendOnClosedChannel
    <3>3. CASE ~DispatchShutdown
      BY <2>2, <3>1, <3>3 DEF Dispatcher, DispatchReadPages, DispatchPop, DispatchNothing,
         DispatchSend, DispatchSendCancelled, DispatchReadCap, DispatchReadQueue,
         DispatchReadInFlight, DispatchTick, DispatchDone, Finalize, DispatchStep,
         NoSendOnClosedChannel
    <3> QED
      BY <3>2, <3>3
  <2>3. ASSUME NEW f \in Fetchers, Fetcher(f) PROVE NoSendOnClosedChannel'
    <3>1. fetcherPc[f] \notin Gone /\ UNCHANGED <<dispPc, parserPc>>
      BY <2>3 DEF Fetcher, FetcherTake, FetcherOnboard, FetcherOnboarded, FetcherOnboardFails,
         FetcherRobots, FetcherFetch, FetcherFetched, FetcherSend, FetcherCancelled, FetcherExit,
         FetcherStep, OthersOfFetch, dispatcherVars, parserVars
    <3> QED
      BY <3>1 DEF NoSendOnClosedChannel
  <2>4. ASSUME NEW p \in Parsers, Parser(p) PROVE NoSendOnClosedChannel'
    <3>1. parserPc[p] \notin Gone /\ UNCHANGED <<dispPc, fetcherPc>>
      BY <2>4 DEF Parser, ParserTake, ParserCount, ParserReserve, ParserPush, ParserSend,
         ParserCancelled, ParserExit, ParserStep, OthersOfParse, dispatcherVars, fetcherVars
    <3> QED
      BY <3>1 DEF NoSendOnClosedChannel
  <2>5. CASE Persister
    BY <2>5 DEF Persister, PersistTake, PersistItem, PersistFails, PersistRetry, PersistCancelled,
       PersistFatal, PersisterExit, OthersOfPersist, dispatcherVars, fetcherVars, parserVars,
       NoSendOnClosedChannel
  <2>6. CASE Environment
    <3>1. /\ UNCHANGED dispPc
          /\ \A f \in Fetchers : fetcherPc[f] \in Gone => fetcherPc'[f] \in Gone
          /\ \A p \in Parsers : parserPc[p] \in Gone => parserPc'[p] \in Gone
      <4>1. CASE Cancel
        BY <4>1 DEF Cancel, dispatcherVars, fetcherVars, parserVars
      <4>2. CASE Panic
        BY <4>2 DEF Panic, OthersOfPanic, dispatcherVars, TypeOK
      <4>3. CASE RecoverWorker
        BY <4>3 DEF RecoverWorker, OthersOfPanic, dispatcherVars, FetcherStep, ParserStep, TypeOK
      <4> QED
        BY <2>6, <4>1, <4>2, <4>3 DEF Environment
    <3> QED
      BY <3>1 DEF NoSendOnClosedChannel
  <2> QED
    BY <2>1, <2>2, <2>3, <2>4, <2>5, <2>6 DEF Next, Finished
<1> QED
  BY <1>1, <1>2, TypeSafe, PTL DEF Spec

-----------------------------------------------------------------------------
(* The page budget.                                                         *)

PastCount(pc) == pc \in {"links", "push", "panicked", "crashed"}
CountedParsers == {p \in Parsers : PastCount(parserPc[p])}

\* The items in flight that pagesCrawled has counted already, or that can no
\* longer be counted.
Counted == Cardinality(CountedParsers) + Len(persistQueue) + One(Holding(persisterPc))

\* Pages counted and still to be counted.
Coming == pagesCrawled + inFlight - Counted

\* Why the budget is never exceeded twofold: the pages still to be counted are
\* in flight, at most MaxPages of them, and a stale pagesRead is off by no more.
PagesInv ==
    /\ inFlight <= MaxPages
    /\ Coming <= 2 * MaxPages
    /\ dispPc = "cap" => Coming <= pagesRead + MaxPages

\* Counted is a natural number.
LEMMA CountedType == TypeOK => Counted \in Nat
<1>1. CountedParsers \in SUBSET Parsers
  BY DEF CountedParsers
<1>2. Cardinality(CountedParsers) \in Nat
  BY <1>1, PoolAssumption, FS_Subset, FS_CardinalityType
<1>3. One(Holding(persisterPc)) \in Nat
  BY DEF One
<1>4. TypeOK => Len(persistQueue) \in Nat
  BY DEF TypeOK
<1> QED
  BY <1>2, <1>3, <1>4 DEF Counted

\* A step of one parser changes the number of parsers with a counted page by what it does to that one.
LEMMA CountedParsersStep ==
    ASSUME TypeOK, NEW p \in Parsers, NEW from, NEW to, ParserStep(p, from, to)
    PROVE  Cardinality(CountedParsers)' =
             Cardinality(CountedParsers) + One(PastCount(to)) - One(PastCount(from))
<1>1. /\ parserPc[p] = from /\ parserPc'[p] = to
      /\ \A q \in Parsers \ {p} : parserPc'[q] = parserPc[q]
  BY DEF TypeOK, ParserStep
<1>2. /\ CountedParsers \in SUBSET Parsers /\ CountedParsers' \in SUBSET Parsers
      /\ CountedParsers \ {p} = CountedParsers' \ {p}
      /\ p \in CountedParsers <=> PastCount(from)
      /\ p \in CountedParsers' <=> PastCount(to)
  BY <1>1 DEF CountedParsers
<1>3. Cardinality(CountedParsers') =
        Cardinality(CountedParsers) + One(p \in CountedParsers') - One(p \in CountedParsers)
  BY <1>2, OneDiffers, PoolAssumption
<1> QED
  BY <1>2, <1>3 DEF One

\* A step that makes neither inFlight nor the pages to come grow, and does not
\* take the dispatcher to its page check, keeps PagesInv.
LEMMA NothingComing ==
    ASSUME TypeOK, TypeOK', PagesInv, inFlight' <= inFlight, Coming' <= Coming,
           dispPc' = "cap" => dispPc = "cap" /\ pagesRead' = pagesRead
    PROVE  PagesInv'
<1>1. Coming \in Int /\ Coming' \in Int
  <2>1. Counted \in Nat
    BY CountedType
  <2>3. (Counted \in Nat)'
    BY CountedType, PTL
  <2>2. /\ pagesCrawled \in Nat /\ inFlight \in Int
        /\ pagesCrawled' \in Nat /\ inFlight' \in Int
    BY DEF TypeOK
  <2> QED
    BY <2>1, <2>2, <2>3 DEF Coming
<1>2. /\ inFlight \in Int /\ inFlight' \in Int /\ pagesRead \in Nat /\ MaxPages \in Nat
  BY BudgetAssumption DEF TypeOK
<1> QED
  BY <1>1, <1>2 DEF PagesInv

\* The dispatcher keeps PagesInv: it takes on an item only below the limit it has read.
LEMMA DispatcherPages ==
    ASSUME TypeOK, TypeOK', InFlightAccounting, PagesInv, MaxPages > 0, Dispatcher
    PROVE  PagesInv'
<1>1. UNCHANGED <<pagesCrawled, parserPc, persistQueue, persisterPc>>
  BY DEF Dispatcher, DispatchReadPages, DispatchPop, DispatchNothing, DispatchSend,
     DispatchSendCancelled, DispatchReadCap, DispatchReadQueue, DispatchReadInFlight,
     DispatchTick, DispatchDone, DispatchShutdown, Finalize, OthersOfDispatch, counterVars,
     parserVars, persisterVars, channels
<1>2. Counted' = Counted
  BY <1>1 DEF Counted, CountedParsers
<1>3. /\ inFlight \in Int /\ inFlight' \in Int /\ pagesCrawled \in Nat /\ pagesRead \in Nat
      /\ Counted \in Nat /\ MaxPages \in Nat
  BY CountedType, BudgetAssumption DEF TypeOK
<1>4. Coming' = Coming + inFlight' - inFlight /\ Coming \in Int
  BY <1>1, <1>2, <1>3 DEF Coming
<1>5. CASE DispatchReadPages
  <2>1. inFlight' = inFlight /\ pagesRead' = pagesCrawled
    BY <1>5 DEF DispatchReadPages
  <2>2. Coming <= pagesCrawled + MaxPages
    BY <1>3 DEF Coming, PagesInv
  <2> QED
    BY <1>1, <1>3, <1>4, <2>1, <2>2 DEF PagesInv
<1>6. CASE DispatchPop
  <2>1. /\ dispPc = "cap" /\ dispPc' # "cap" /\ inFlight' = inFlight + 1
        /\ pagesRead + inFlight < MaxPages
    BY <1>3, <1>6 DEF DispatchPop, DispatchStep, PagesCapped
  <2>2. inFlight >= 0
    <3>1. /\ Len(fetchQueue) \in Nat /\ Len(fetchResults) \in Nat /\ Len(persistQueue) \in Nat
          /\ Cardinality(BusyFetchers) \in Nat /\ Cardinality(BusyParsers) \in Nat
      BY PoolsFinite, SMTT(30) DEF TypeOK
    <3>2. One(dispPc = "send") \in Nat /\ One(Holding(persisterPc)) \in Nat
      BY DEF One
    <3> QED
      BY <3>1, <3>2 DEF InFlightAccounting
  <2> QED
    BY <1>3, <1>4, <2>1, <2>2 DEF PagesInv
<1>7. CASE ~DispatchReadPages /\ ~DispatchPop
  <2>1. inFlight' <= inFlight /\ dispPc' # "cap"
    BY <1>3, <1>7 DEF Dispatcher, DispatchNothing, DispatchSend, DispatchSendCancelled,
       DispatchReadCap, DispatchReadQueue, DispatchReadInFlight, DispatchTick, DispatchDone,
       DispatchShutdown, Finalize, DispatchStep
  <2>2. Coming' <= Coming
    <3>1. Coming' = pagesCrawled + inFlight' - Counted
      BY <1>1, <1>2 DEF Coming
    <3> QED
      BY <1>3, <2>1, <3>1 DEF Coming
  <2> QED
    BY <2>1, <2>2, NothingComing
<1> QED
  BY <1>5, <1>6, <1>7

\* The fetchers keep PagesInv: they count no page.
LEMMA FetcherPages ==
    ASSUME TypeOK, TypeOK', PagesInv, NEW f \in Fetchers, Fetcher(f)
    PROVE  PagesInv'
<1>1. UNCHANGED <<pagesCrawled, parserPc, persistQueue, persisterPc, dispPc, pagesRead>>
  BY DEF Fetcher, FetcherTake, FetcherOnboard, FetcherOnboarded, FetcherOnboardFails,
     FetcherRobots, FetcherFetch, FetcherFetched, FetcherSend, FetcherCancelled, FetcherExit,
     OthersOfFetch, dispatcherVars, parserVars, persisterVars
<1>2. Counted' = Counted
  BY <1>1 DEF Counted, CountedParsers
<1>3. inFlight \in Int /\ inFlight' \in Int /\ pagesCrawled \in Nat /\ Counted \in Nat
  BY CountedType DEF TypeOK
<1>4. inFlight' <= inFlight
  BY <1>3 DEF Fetcher, FetcherTake, FetcherOnboard, FetcherOnboarded, FetcherOnboardFails,
     FetcherRobots, FetcherFetch, FetcherFetched, FetcherSend, FetcherCancelled, FetcherExit,
     FetcherDrops
<1>5. Coming' <= Coming
  <2>1. Coming' = pagesCrawled + inFlight' - Counted
    BY <1>1, <1>2 DEF Coming
  <2> QED
    BY <1>3, <1>4, <2>1 DEF Coming
<1> QED
  BY <1>1, <1>4, <1>5, NothingComing

\* A parser's step brings no page when pagesCrawled grows by no more than what
\* the step adds to Counted or takes from inFlight.
LEMMA ParserBrings ==
    ASSUME TypeOK, TypeOK', PagesInv, NEW p \in Parsers, NEW from, NEW to,
           ParserStep(p, from, to), UNCHANGED <<dispPc, pagesRead, persisterPc>>,
           inFlight' <= inFlight,
           pagesCrawled' + inFlight' - Len(persistQueue)' - One(PastCount(to))
             <= pagesCrawled + inFlight - Len(persistQueue) - One(PastCount(from))
    PROVE  PagesInv'
<1>1. Cardinality(CountedParsers)' =
        Cardinality(CountedParsers) + One(PastCount(to)) - One(PastCount(from))
  BY CountedParsersStep
<1>2. One(Holding(persisterPc))' = One(Holding(persisterPc))
  OBVIOUS
<1>3. /\ One(PastCount(to)) \in Int /\ One(PastCount(from)) \in Int
      /\ One(Holding(persisterPc)) \in Int
  BY DEF One
<1>4. /\ pagesCrawled \in Int /\ inFlight \in Int /\ Len(persistQueue) \in Int
      /\ pagesCrawled' \in Int /\ inFlight' \in Int /\ Len(persistQueue)' \in Int
  BY DEF TypeOK
<1>5. Cardinality(CountedParsers) \in Int
  <2>1. CountedParsers \in SUBSET Parsers
    BY DEF CountedParsers
  <2> QED
    BY <2>1, PoolAssumption, FS_Subset, FS_CardinalityType
<1>6. Coming' <= Coming
  <2> DEFINE c == Cardinality(CountedParsers)
             cNext == Cardinality(CountedParsers)'
             w == One(Holding(persisterPc))
             m == One(PastCount(from))
             n == One(PastCount(to))
  <2>1. /\ c \in Int /\ w \in Int /\ m \in Int /\ n \in Int /\ cNext = c + n - m
        /\ pagesCrawled' + inFlight' - Len(persistQueue)' - n
             <= pagesCrawled + inFlight - Len(persistQueue) - m
    BY <1>1, <1>3, <1>5
  <2>2. Coming = pagesCrawled + inFlight - (c + Len(persistQueue) + w)
    BY DEF Coming, Counted
  <2>3. Coming' = pagesCrawled' + inFlight' - (cNext + Len(persistQueue)' + w)
    BY <1>2 DEF Coming, Counted
  <2> HIDE DEF c, cNext, w, m, n
  <2> QED
    BY <1>4, <2>1, <2>2, <2>3, SMTT(30)
<1> QED
  BY <1>6, NothingComing

\* The parsers keep PagesInv: a page they count was in flight before.
LEMMA ParserPages ==
    ASSUME TypeInv, TypeOK', PagesInv, NEW p \in Parsers, Parser(p)
    PROVE  PagesInv'
<1> USE DEF OthersOfParse, PastCount, One, dispatcherVars, persisterVars, frontierVars,
            onboardVars
<1>1. UNCHANGED <<dispPc, pagesRead, persisterPc>>
  BY DEF Parser, ParserTake, ParserCount, ParserReserve, ParserPush, ParserSend, ParserCancelled,
     ParserExit
<1>2. /\ TypeOK /\ persistQueue \in Seq(Item) /\ Len(persistQueue) \in Int
      /\ inFlight \in Int /\ pagesCrawled \in Nat
  BY SMTT(30) DEF TypeInv, TypeOK
<1>3. CASE ParserTake(p)
  <2>1. ParserStep(p, "idle", "parse") /\ UNCHANGED <<persistQueue, inFlight, pagesCrawled>>
    BY <1>3 DEF ParserTake
  <2> QED
    BY <1>1, <1>2, <2>1, ParserBrings
<1>4. CASE ParserCount(p)
  <2>1. /\ ParserStep(p, "parse", "links") /\ UNCHANGED <<persistQueue, inFlight>>
        /\ pagesCrawled' <= pagesCrawled + 1
    BY <1>2, <1>4 DEF ParserCount
  <2>2. pagesCrawled' \in Nat
    BY DEF TypeOK
  <2> QED
    BY <1>1, <1>2, <2>1, <2>2, ParserBrings
<1>5. CASE ParserReserve(p)
  <2>1. UNCHANGED <<persistQueue, inFlight, pagesCrawled>>
    BY <1>5 DEF ParserReserve
  <2>2. CASE ParserStep(p, "links", "push")
    BY <1>1, <1>2, <2>1, <2>2, ParserBrings
  <2>3. CASE ParserStep(p, "links", "links")
    BY <1>1, <1>2, <2>1, <2>3, ParserBrings
  <2> QED
    BY <1>5, <2>2, <2>3 DEF ParserReserve
<1>6. CASE ParserPush(p)
  <2>1. ParserStep(p, "push", "links") /\ UNCHANGED <<persistQueue, inFlight, pagesCrawled>>
    BY <1>6 DEF ParserPush
  <2> QED
    BY <1>1, <1>2, <2>1, ParserBrings
<1>7. CASE ParserSend(p)
  <2>1. parserItem[p] \in Item
    BY <1>7 DEF ParserSend, ParserStep, TypeInv, HandsFull, ParserHands
  <2>2. /\ ParserStep(p, "links", "idle") /\ UNCHANGED <<inFlight, pagesCrawled>>
        /\ Len(persistQueue)' = Len(persistQueue) + 1
    BY <1>2, <1>7, <2>1, AppendProperties DEF ParserSend
  <2> QED
    BY <1>1, <1>2, <2>2, ParserBrings
<1>8. CASE ParserCancelled(p)
  <2>1. /\ ParserStep(p, "links", "exited") /\ UNCHANGED <<persistQueue, pagesCrawled>>
        /\ inFlight' = inFlight - 1
    BY <1>8 DEF ParserCancelled
  <2> QED
    BY <1>1, <1>2, <2>1, ParserBrings
<1>9. CASE ParserExit(p)
  <2>1. ParserStep(p, "idle", "exited") /\ UNCHANGED <<persistQueue, inFlight, pagesCrawled>>
    BY <1>9 DEF ParserExit
  <2> QED
    BY <1>1, <1>2, <2>1, ParserBrings
<1> QED
  BY <1>3, <1>4, <1>5, <1>6, <1>7, <1>8, <1>9 DEF Parser

\* The persister keeps PagesInv: it only takes items out of the pipeline.
LEMMA PersisterPages ==
    ASSUME TypeOK, TypeOK', PagesInv, Persister
    PROVE  PagesInv'
<1> USE DEF OthersOfPersist, PersisterStep, Holding, dispatcherVars, parserVars, counterVars
<1>1. UNCHANGED <<dispPc, pagesRead, pagesCrawled, parserPc>>
  BY DEF Persister, PersistTake, PersistItem, PersistFails, PersistRetry, PersistCancelled,
     PersistFatal, PersisterExit
<1>2. /\ inFlight \in Int /\ inFlight' \in Int /\ pagesCrawled \in Nat
      /\ persistQueue \in Seq(Item) /\ Len(persistQueue) \in Nat
  BY DEF TypeOK
<1>3. /\ inFlight' <= inFlight
      /\ inFlight' - Len(persistQueue)' - One(Holding(persisterPc'))
           <= inFlight - Len(persistQueue) - One(Holding(persisterPc))
      /\ Len(persistQueue)' \in Int
  <2>1. CASE PersistTake
    <3>1. Len(persistQueue)' = Len(persistQueue) - 1
      BY <1>2, <2>1, HeadTailProperties DEF PersistTake
    <3> QED
      BY <1>2, <2>1, <3>1 DEF PersistTake, One
  <2>2. CASE PersistItem
    BY <1>2, <2>2 DEF PersistItem, One
  <2>3. CASE PersistFails
    BY <1>2, <2>3 DEF PersistFails, One
  <2>4. CASE PersistRetry \/ PersistCancelled \/ PersistFatal \/ PersisterExit
    BY <1>2, <2>4 DEF PersistRetry, PersistCancelled, PersistFatal, PersisterExit, One
  <2> QED
    BY <2>1, <2>2, <2>3, <2>4 DEF Persister
<1>4. Cardinality(CountedParsers)' = Cardinality(CountedParsers)
  BY <1>1 DEF CountedParsers
<1>5. Cardinality(CountedParsers) \in Int
  <2>1. CountedParsers \in SUBSET Parsers
    BY DEF CountedParsers
  <2> QED
    BY <2>1, PoolAssumption, FS_Subset, FS_CardinalityType
<1>6. Coming' <= Coming
  <2> DEFINE c == Cardinality(CountedParsers)
             w == One(Holding(persisterPc))
             wNext == One(Holding(persisterPc'))
  <2>1. c \in Int /\ w \in Int /\ wNext \in Int
    BY <1>5 DEF One
  <2>2. Coming = pagesCrawled + inFlight - (c + Len(persistQueue) + w)
    BY DEF Coming, Counted
  <2>3. Coming' = pagesCrawled + inFlight' - (c + Len(persistQueue)' + wNext)
    BY <1>1, <1>4 DEF Coming, Counted
  <2>4. inFlight' - Len(persistQueue)' - wNext <= inFlight - Len(persistQueue) - w
    BY <1>3
  <2> HIDE DEF c, w, wNext
  <2> QED
    BY <1>2, <1>3, <2>1, <2>2, <2>3, <2>4, SMTT(30)
<1> QED
  BY <1>1, <1>3, <1>6, NothingComing

\* Cancellation and panics keep PagesInv.
LEMMA EnvironmentPages ==
    ASSUME TypeOK, TypeOK', PagesInv, Environment
    PROVE  PagesInv'
<1>1. UNCHANGED <<dispPc, pagesRead, pagesCrawled, inFlight, persistQueue>>
  BY DEF Environment, Cancel, Panic, RecoverWorker, OthersOfPanic, dispatcherVars, counterVars,
     channels
<1>2. inFlight \in Int /\ pagesCrawled \in Nat /\ Len(persistQueue) \in Int
  BY DEF TypeOK
<1>3. ASSUME UNCHANGED parserPc, Holding(persisterPc') <=> Holding(persisterPc)
      PROVE  PagesInv'
  <2>1. Cardinality(CountedParsers)' = Cardinality(CountedParsers)
    BY <1>3 DEF CountedParsers
  <2>2. One(Holding(persisterPc))' = One(Holding(persisterPc))
    BY <1>3 DEF One
  <2>3. Counted' = Counted
    BY <1>1, <2>1, <2>2 DEF Counted
  <2>4. Coming' = Coming /\ Coming \in Int
    BY <1>1, <1>2, <2>3, CountedType DEF Coming
  <2>5. inFlight' <= inFlight /\ Coming' <= Coming
    BY <1>1, <1>2, <2>4
  <2> QED
    BY <1>1, <2>5, NothingComing
<1>4. ASSUME NEW p \in Parsers, NEW from, NEW to, ParserStep(p, from, to), PastCount(to),
             UNCHANGED persisterPc
      PROVE  PagesInv'
  <2>1. One(PastCount(to)) = 1 /\ One(PastCount(from)) \in {0, 1}
    BY <1>4 DEF One
  <2>2. Len(persistQueue)' = Len(persistQueue)
    BY <1>1
  <2>3. inFlight' <= inFlight
    BY <1>1, <1>2
  <2>4. pagesCrawled' + inFlight' - Len(persistQueue)' - One(PastCount(to))
           <= pagesCrawled + inFlight - Len(persistQueue) - One(PastCount(from))
    BY <1>1, <1>2, <2>1, <2>2
  <2> QED
    BY <1>1, <1>4, <2>3, <2>4, ParserBrings
<1>5. CASE Cancel
  BY <1>3, <1>5 DEF Cancel, parserVars, persisterVars
<1>6. CASE Panic
  <2>1. CASE UNCHANGED <<parserPc, persisterPc>>
    BY <1>3, <2>1
  <2>2. CASE UNCHANGED parserPc /\ PersisterStep("write", "panicked")
    BY <1>3, <2>2 DEF PersisterStep, Holding
  <2>3. ASSUME NEW p \in Parsers, parserPc' = [parserPc EXCEPT ![p] = "panicked"],
               UNCHANGED persisterPc
        PROVE  PagesInv'
    <3>1. ParserStep(p, parserPc[p], "panicked") /\ PastCount("panicked")
      BY <2>3 DEF ParserStep, PastCount
    <3> QED
      BY <1>4, <2>3, <3>1
  <2> QED
    BY <1>6, <2>1, <2>2, <2>3 DEF Panic
<1>7. CASE RecoverWorker
  <2>1. CASE UNCHANGED <<parserPc, persisterPc>>
    BY <1>3, <2>1
  <2>2. CASE UNCHANGED parserPc /\ PersisterStep("panicked", "crashed")
    BY <1>3, <2>2 DEF PersisterStep, Holding
  <2>3. ASSUME NEW p \in Parsers, ParserStep(p, "panicked", "crashed"), UNCHANGED persisterPc
        PROVE  PagesInv'
    <3>1. PastCount("crashed")
      BY DEF PastCount
    <3> QED
      BY <1>4, <2>3, <3>1
  <2> QED
    BY <1>7, <2>1, <2>2, <2>3 DEF RecoverWorker
<1> QED
  BY <1>5, <1>6, <1>7 DEF Environment

\* Items with a counted page are among the items in flight.
LEMMA CountedInFlight ==
    ASSUME TypeOK, InFlightAccounting
    PROVE  inFlight >= Counted
<1>1. CountedParsers \subseteq BusyParsers /\ BusyParsers \in SUBSET Parsers
  BY DEF CountedParsers, BusyParsers, PastCount, Holding
<1>2. Cardinality(CountedParsers) <= Cardinality(BusyParsers)
  BY <1>1, PoolAssumption, FS_Subset
<1>3. CountedParsers \in SUBSET Parsers
  BY DEF CountedParsers
<1>4. /\ Cardinality(CountedParsers) \in Nat /\ Cardinality(BusyParsers) \in Nat
      /\ Cardinality(BusyFetchers) \in Nat
  BY <1>3, PoolsFinite, PoolAssumption, FS_Subset, FS_CardinalityType
<1>5. /\ Len(fetchQueue) \in Nat /\ Len(fetchResults) \in Nat /\ Len(persistQueue) \in Nat
      /\ inFlight \in Int
  BY DEF TypeOK
<1>6. One(dispPc = "send") \in Nat /\ One(Holding(persisterPc)) \in Nat
  BY DEF One
<1> QED
  BY <1>2, <1>4, <1>5, <1>6 DEF InFlightAccounting, Counted

\* However the dispatcher's two loads interleave with the workers, and for every
\* page budget and every number of workers, pagesCrawled is at most twice the
\* budget.
THEOREM PageBudget == Spec => []PagesBounded
<1> DEFINE Inv == MaxPages > 0 => PagesInv
<1>1. Init => Inv
  <2> SUFFICES ASSUME Init, MaxPages > 0 PROVE PagesInv
    OBVIOUS
  <2>1. /\ pagesCrawled = 0 /\ inFlight = 0 /\ persistQueue = <<>> /\ dispPc = "poll"
        /\ persisterPc = "idle"
    BY DEF Init
  <2>2. CountedParsers = {}
    BY DEF Init, CountedParsers, PastCount
  <2>3. Counted = 0
    BY <2>1, <2>2, FS_EmptySet DEF Counted, One, Holding
  <2> QED
    BY <2>1, <2>3, BudgetAssumption DEF PagesInv, Coming
<1>2. TypeInv /\ TypeInv' /\ InFlightAccounting /\ Inv /\ [Next]_vars => Inv'
  <2> SUFFICES ASSUME TypeInv, TypeInv', InFlightAccounting, PagesInv, MaxPages > 0, [Next]_vars
               PROVE  PagesInv'
    OBVIOUS
  <2>1. TypeOK /\ TypeOK'
    BY DEF TypeInv
  <2>2. CASE UNCHANGED vars
    BY <2>2 DEF vars, PagesInv, Coming, Counted, CountedParsers, channels, counterVars,
                dispatcherVars, parserVars, persisterVars
  <2>3. CASE Next
    BY <2>1, <2>2, <2>3, DispatcherPages, FetcherPages, ParserPages, PersisterPages,
       EnvironmentPages DEF Next, Finished
  <2> QED
    BY <2>2, <2>3
<1>3. TypeInv /\ InFlightAccounting /\ Inv => PagesBounded
  <2> SUFFICES ASSUME TypeInv, InFlightAccounting, PagesInv, MaxPages > 0
               PROVE  pagesCrawled <= 2 * MaxPages
    BY DEF PagesBounded
  <2>1. inFlight >= Counted
    BY CountedInFlight DEF TypeInv
  <2>2. inFlight \in Int /\ pagesCrawled \in Nat /\ Counted \in Nat /\ MaxPages \in Nat
    BY CountedType, BudgetAssumption DEF TypeInv, TypeOK
  <2> QED
    BY <2>1, <2>2 DEF PagesInv, Coming
<1> QED
  BY <1>1, <1>2, <1>3, TypeCorrect, InFlightExact, PTL DEF Spec

=============================================================================

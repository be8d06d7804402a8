------------------------ MODULE CrawlOutcome_proofs ------------------------
(***************************************************************************)
(* Proofs about what becomes of the URLs of a crawl, for every site, every  *)
(* pool and every budget: what was dispatched is settled when the crawl     *)
(* ends quietly, and what was discovered was paid for.                      *)
(***************************************************************************)
EXTENDS CrawlItems_proofs

-----------------------------------------------------------------------------
(* The invariants.                                                          *)

\* The row of a URL agrees with the outcome its item carries.
StatusInv ==
    /\ \A i \in Answered \cup fetches :
          urlStatus[i.url] = IF i.outcome = "error" THEN "errored" ELSE "fetched"
    /\ \A i \in fetches : i.outcome # "error"

\* A URL that was pushed is in the pipeline until it is settled.
SeenInv == Quiet => \A u \in seen : Settled(u) \/ \E i \in Carried : i.url = u

\* What was seen, or is about to be, was paid for from one of the two budgets.
Pushing == {p \in Parsers : parserPc[p] = "push"}
BudgetInv ==
    MaxDiscovered >= Cardinality(Seeds) =>
        /\ urlsDiscovered <= MaxDiscovered /\ queuedDiscovered <= MaxDiscovered
        /\ Cardinality(seen) + Cardinality(Pushing)
             <= urlsDiscovered + queuedDiscovered - Cardinality(Seeds)

-----------------------------------------------------------------------------
(* Rows and outcomes.                                                       *)

\* A fetcher decides on the row of the item in its hands before it answers.
Decides(f) == FetcherOnboard(f) \/ FetcherRobots(f) \/ FetcherFetched(f)

\* A row changes from "unknown", or by the fetcher that has its item.
LEMMA RowMoves ==
    ASSUME TypeInv, [Next]_vars, NEW u \in URLs
    PROVE  \/ urlStatus'[u] = urlStatus[u] \/ urlStatus[u] = "unknown"
           \/ \E f \in Fetchers : Decides(f) /\ u = fetcherItem[f].url
<1>1. urlStatus \in [URLs -> UrlStatus] /\ Final \in [URLs -> URLs]
  BY SiteAssumption DEF TypeInv, TypeOK
<1>2. ASSUME NEW f \in Fetchers, Fetcher(f)
      PROVE  \/ urlStatus'[u] = urlStatus[u] \/ urlStatus[u] = "unknown"
             \/ Decides(f) /\ u = fetcherItem[f].url
  <2>1. CASE Decides(f)
    BY <1>1, <2>1 DEF Decides, FetcherOnboard, FetcherRobots, FetcherFetched
  <2>2. CASE FetcherOnboarded(f)
    BY <1>1, <2>2 DEF FetcherOnboarded, UpsertURLs
  <2>3. CASE ~Decides(f) /\ ~FetcherOnboarded(f)
    <3>1. UNCHANGED urlStatus
      BY <1>2, <2>3 DEF Decides, Fetcher, FetcherTake, FetcherOnboardFails, FetcherFetch, FetcherSend,
         FetcherCancelled, FetcherExit
    <3> QED
      BY <3>1
  <2> QED
    BY <2>1, <2>2, <2>3
<1>3. ASSUME NEW p \in Parsers, Parser(p)
      PROVE  urlStatus'[u] = urlStatus[u] \/ urlStatus[u] = "unknown"
  <2>1. CASE ParserPush(p)
    BY <1>1, <2>1 DEF ParserPush, UpsertURLs
  <2>2. CASE ~ParserPush(p)
    <3>1. UNCHANGED urlStatus
      BY <1>3, <2>2 DEF Parser, ParserTake, ParserCount, ParserReserve, ParserSend, ParserCancelled,
         ParserExit
    <3> QED
      BY <3>1
  <2> QED
    BY <2>1, <2>2
<1>4. ASSUME Persister
      PROVE  urlStatus'[u] = urlStatus[u] \/ urlStatus[u] = "unknown"
  <2>1. urlStatus' = urlStatus \/ \E v : urlStatus' = UpsertFinal(v)
    BY <1>4 DEF Persister, PersistTake, PersistItem, PersistFails, PersistRetry, PersistCancelled,
       PersistFatal, PersisterExit
  <2> QED
    BY <1>1, <2>1 DEF UpsertFinal
<1>5. CASE Dispatcher \/ Environment \/ UNCHANGED vars
  <2>1. UNCHANGED urlStatus
    BY <1>5 DEF Dispatcher, DispatchReadPages, DispatchPop, DispatchNothing, DispatchSend,
       DispatchSendCancelled, DispatchReadCap, DispatchReadQueue, DispatchReadInFlight,
       DispatchTick, DispatchDone, DispatchShutdown, Finalize, OthersOfDispatch, Environment, Cancel,
       Panic, RecoverWorker, OthersOfPanic, rowVars, vars
  <2> QED
    BY <2>1
<1> QED
  BY <1>2, <1>3, <1>4, <1>5 DEF Next, Finished

\* The fetch rows change only by a commit of the persister.
LEMMA FetchRows ==
    ASSUME TypeInv, [Next]_vars
    PROVE  \/ fetches' = fetches
           \/ persisterItem.outcome # "error" /\ fetches' = fetches \cup {persisterItem}
<1>1. CASE \E f \in Fetchers : Fetcher(f)
  BY <1>1, FetcherFrame
<1>2. CASE \E p \in Parsers : Parser(p)
  BY <1>2, ParserFrame
<1>3. CASE Persister
  BY <1>3 DEF Persister, PersistTake, PersistItem, PersistFails, PersistRetry, PersistCancelled,
     PersistFatal, PersisterExit
<1>4. CASE Dispatcher \/ Environment \/ UNCHANGED vars
  BY <1>4 DEF Dispatcher, DispatchReadPages, DispatchPop, DispatchNothing, DispatchSend,
     DispatchSendCancelled, DispatchReadCap, DispatchReadQueue, DispatchReadInFlight, DispatchTick,
     DispatchDone, DispatchShutdown, Finalize, OthersOfDispatch, Environment, Cancel, Panic,
     RecoverWorker, OthersOfPanic, rowVars, vars
<1> QED
  BY <1>1, <1>2, <1>3, <1>4 DEF Next, Finished

\* The item in a fetcher's hands is the only one of its URL: no answer has that URL.
LEMMA Unanswered ==
    ASSUME TypeInv, OneItem, NEW f \in Fetchers, fetcherPc[f] \in FetcherHands \ {"send"},
           NEW i \in Answered \cup fetches
    PROVE  i.url # fetcherItem[f].url
<1>1. PICK at \in [URLs -> Stages] : Placed(at)
  BY DEF OneItem
<1>2. at[fetcherItem[f].url] = "fetcher"
  BY <1>1 DEF Placed
<1>3. CASE i \in FetcherItems({"send"})
  <2>1. PICK g \in Fetchers : fetcherPc[g] = "send" /\ i = fetcherItem[g]
    BY <1>3 DEF FetcherItems
  <2>2. g # f /\ fetcherPc[g] \in FetcherHands
    BY <2>1 DEF FetcherHands
  <2> QED
    BY <2>1, <2>2 DEF OneItem, Alone
<1>4. CASE i \notin FetcherItems({"send"})
  <2>1. at[i.url] # "fetcher"
    BY <1>1, <1>4 DEF Answered, ParserItems, PersisterItems, Placed
  <2> QED
    BY <1>2, <2>1
<1> QED
  BY <1>3, <1>4

\* Every step keeps rows and outcomes in agreement.
LEMMA StatusStep ==
    ASSUME TypeInv, OneItem, StatusInv, [Next]_vars
    PROVE  StatusInv'
<1>1. \A i \in Answered' \cup fetches' :
         i \in Answered \cup fetches \/ \E f \in Fetchers : FetcherFetched(f) /\ i = fetcherItem'[f]
  BY StepFlow DEF Flow
<1>2. \A i \in Answered \cup fetches : i.url \in URLs
  <2>1. Answered \subseteq Item
    BY ItemUrls DEF Answered, FetcherItems, ParserItems, PersisterItems, FetcherHands
  <2> QED
    BY <2>1, ItemUrls
<1>3. ASSUME NEW i \in Answered \cup fetches
      PROVE  urlStatus'[i.url] = IF i.outcome = "error" THEN "errored" ELSE "fetched"
  <2>1. urlStatus[i.url] = IF i.outcome = "error" THEN "errored" ELSE "fetched"
    BY DEF StatusInv
  <2>2. ASSUME NEW f \in Fetchers, Decides(f) PROVE i.url # fetcherItem[f].url
    <3>1. fetcherPc[f] \in FetcherHands \ {"send"}
      BY <2>2 DEF Decides, FetcherOnboard, FetcherRobots, FetcherFetched, FetcherStep, FetcherHands
    <3> QED
      BY <3>1, Unanswered
  <2>3. urlStatus'[i.url] = urlStatus[i.url]
    BY <1>2, <2>1, <2>2, RowMoves
  <2> QED
    BY <2>1, <2>3
<1>4. ASSUME NEW f \in Fetchers, FetcherFetched(f)
      PROVE  urlStatus'[fetcherItem'[f].url] =
                IF fetcherItem'[f].outcome = "error" THEN "errored" ELSE "fetched"
  <2> DEFINE u == fetcherItem[f].url
  <2>1. /\ fetcherItem[f] \in Item /\ u \in URLs /\ urlStatus \in [URLs -> UrlStatus]
        /\ fetcherItem \in [Fetchers -> Item \cup {NoItem}]
    BY <1>4, ItemUrls DEF FetcherFetched, FetcherStep, FetcherHands, TypeInv, TypeOK
  <2>2. PICK o : /\ fetcherItem' = [fetcherItem EXCEPT ![f].outcome = o]
                 /\ urlStatus' = [urlStatus EXCEPT ![u] = IF o = "error" THEN "errored" ELSE "fetched"]
    BY <1>4 DEF FetcherFetched
  <2>3. fetcherItem'[f] = [fetcherItem[f] EXCEPT !.outcome = o]
    BY <2>1, <2>2
  <2>4. fetcherItem'[f].url = u /\ fetcherItem'[f].outcome = o
    BY <2>1, <2>3 DEF Item
  <2> QED
    BY <2>1, <2>2, <2>4
<1>5. \A i \in fetches' : i.outcome # "error"
  BY FetchRows DEF StatusInv
<1> QED
  BY <1>1, <1>3, <1>4, <1>5 DEF StatusInv

\* The row of a URL always agrees with the outcome of its fetch, and a failed fetch has
\* no fetch row: no other worker touches the row while the answer is on its way.
THEOREM StatusesKept == Spec => []StatusInv
<1>1. Init => StatusInv
  BY InitItems DEF StatusInv
<1>2. TypeInv /\ OneItem /\ StatusInv /\ [Next]_vars => StatusInv'
  BY StatusStep
<1> QED
  BY <1>1, <1>2, TypeCorrect, OneItemKept, PTL DEF Spec

-----------------------------------------------------------------------------
(* What was pushed is settled or on its way.                                *)

\* A crawl that is quiet was so before, and its step is no cancellation and no panic.
LEMMA QuietBefore ==
    ASSUME TypeInv, [Next]_vars, Quiet'
    PROVE  Quiet /\ ~Environment
<1>1. ~Environment
  <2>1. ~Cancel /\ ~RecoverWorker
    BY DEF Quiet, Cancelled, Cancel, RecoverWorker, CancelWith
  <2>2. ASSUME Panic PROVE FALSE
    BY <2>2 DEF Quiet, Panic, PersisterStep, TypeInv, TypeOK
  <2> QED
    BY <2>1, <2>2 DEF Environment
<1>2. CASE \E f \in Fetchers : Fetcher(f)
  <2>1. PICK f \in Fetchers : Fetcher(f)
    BY <1>2
  <2>2. /\ UNCHANGED <<cause, parserPc, persisterPc>> /\ fetcherPc[f] \notin {"panicked", "crashed"}
        /\ \A g \in Fetchers \ {f} : fetcherPc'[g] = fetcherPc[g]
    <3>1. UNCHANGED cause /\ fetcherPc[f] \notin {"panicked", "crashed"}
      BY <2>1 DEF Fetcher, FetcherTake, FetcherOnboard, FetcherOnboarded, FetcherOnboardFails,
         FetcherRobots, FetcherFetch, FetcherFetched, FetcherSend, FetcherCancelled, FetcherExit,
         OthersOfFetch, FetcherStep
    <3> QED
      BY <2>1, <3>1, FetcherFrame
  <2> QED
    BY <1>1, <2>2 DEF Quiet, Cancelled
<1>3. CASE \E p \in Parsers : Parser(p)
  <2>1. PICK p \in Parsers : Parser(p)
    BY <1>3
  <2>2. /\ UNCHANGED <<cause, fetcherPc, persisterPc>> /\ parserPc[p] \notin {"panicked", "crashed"}
        /\ \A r \in Parsers \ {p} : parserPc'[r] = parserPc[r]
    <3>1. parserPc[p] \notin {"panicked", "crashed"}
      BY <2>1 DEF Parser, ParserTake, ParserCount, ParserReserve, ParserPush, ParserSend,
         ParserCancelled, ParserExit, ParserStep
    <3> QED
      BY <2>1, <3>1, ParserFrame
  <2> QED
    BY <1>1, <2>2 DEF Quiet, Cancelled
<1>4. CASE Persister
  <2>1. UNCHANGED <<fetcherPc, parserPc>> /\ persisterPc \notin {"panicked", "crashed"}
    BY <1>4 DEF Persister, PersistTake, PersistItem, PersistFails, PersistRetry, PersistCancelled,
       PersistFatal, PersisterExit, PersisterStep, OthersOfPersist, fetcherVars, parserVars
  <2>2. ~PersistFatal
    BY DEF Quiet, Cancelled, PersistFatal, CancelWith
  <2>3. UNCHANGED cause /\ persisterPc # "fatal"
    BY <1>4, <2>2 DEF Persister, PersistTake, PersistItem, PersistFails, PersistRetry,
       PersistCancelled, PersisterExit, PersisterStep
  <2> QED
    BY <1>1, <2>1, <2>3 DEF Quiet, Cancelled
<1>5. CASE Dispatcher \/ UNCHANGED vars
  <2>1. UNCHANGED <<cause, fetcherPc, parserPc, persisterPc>>
    BY <1>5 DEF Dispatcher, DispatchReadPages, DispatchPop, DispatchNothing, DispatchSend,
       DispatchSendCancelled, DispatchReadCap, DispatchReadQueue, DispatchReadInFlight,
       DispatchTick, DispatchDone, DispatchShutdown, Finalize, OthersOfDispatch, fetcherVars,
       parserVars, persisterVars, vars
  <2> QED
    BY <1>1, <2>1 DEF Quiet, Cancelled
<1> QED
  BY <1>1, <1>2, <1>3, <1>4, <1>5 DEF Next, Finished

\* The item is still carried after the step, or the step settled its URL.
SettledNow(u) ==
    \/ u \notin InScope
    \/ urlStatus'[u] \in {"errored", "robots_blocked", "skipped_budget"}
    \/ urlStatus'[u] = "fetched" /\ \E r \in fetches' : r.url = u
GoesOn(i) == (\E j \in Carried' : j.url = i.url) \/ SettledNow(i.url)

\* The dispatcher passes items on.
LEMMA DispatcherCarries ==
    ASSUME TypeInv, Quiet, Dispatcher, NEW i \in Carried
    PROVE  GoesOn(i)
<1>1. UNCHANGED <<fetcherPc, fetcherItem, parserPc, parserItem, persisterPc, persisterItem,
                  fetchResults, persistQueue>>
  BY DEF Dispatcher, DispatchReadPages, DispatchPop, DispatchNothing, DispatchSend,
     DispatchSendCancelled, DispatchReadCap, DispatchReadQueue, DispatchReadInFlight, DispatchTick,
     DispatchDone, DispatchShutdown, Finalize, OthersOfDispatch, fetcherVars, parserVars,
     persisterVars, channels
<1>2. UNCHANGED <<Answered, FetcherItems(FetcherHands)>>
  BY <1>1, HandsUnchanged DEF Answered
<1>3. frontier \cup DispItems \cup ItemsIn(fetchQueue) \subseteq
         frontier' \cup DispItems' \cup ItemsIn(fetchQueue)'
  <2>1. CASE DispatchPop
    <3>1. PICK j \in frontier : dispItem' = j /\ frontier' = frontier \ {j}
      BY <2>1 DEF DispatchPop, Lowest
    <3>2. /\ dispPc = "cap" /\ dispPc' = "send" /\ UNCHANGED fetchQueue
      BY <2>1 DEF DispatchPop, DispatchStep
    <3>3. UNCHANGED ItemsIn(fetchQueue) /\ DispItems = {} /\ DispItems' = {j}
      BY <3>1, <3>2, HandsUnchanged DEF DispItems
    <3> QED
      BY <3>1, <3>3
  <2>2. CASE DispatchSend
    <3>1. /\ fetchQueue' = Append(fetchQueue, dispItem) /\ fetchQueue \in Seq(Item)
          /\ dispItem \in Item /\ dispPc = "send" /\ dispPc' = "poll" /\ UNCHANGED frontier
      BY <2>2 DEF DispatchSend, DispatchStep, TypeInv, TypeOK, HandsFull
    <3>2. ItemsIn(Append(fetchQueue, dispItem)) = ItemsIn(fetchQueue) \cup {dispItem}
      BY <3>1, QueueItems
    <3>3. ItemsIn(fetchQueue)' = ItemsIn(fetchQueue) \cup {dispItem}
      BY <3>1, <3>2 DEF ItemsIn
    <3> QED
      BY <3>1, <3>3 DEF DispItems
  <2>3. CASE ~DispatchPop /\ ~DispatchSend
    <3>1. dispPc # "send" /\ UNCHANGED <<frontier, fetchQueue>>
      BY <2>3 DEF Dispatcher, DispatchReadPages, DispatchNothing, DispatchSendCancelled,
         DispatchReadCap, DispatchReadQueue, DispatchReadInFlight, DispatchTick, DispatchDone,
         DispatchShutdown, Finalize, DispatchStep, frontierVars, channels, Quiet
    <3> QED
      BY <3>1, HandsUnchanged DEF DispItems
  <2> QED
    BY <2>1, <2>2, <2>3
<1>4. Carried \subseteq Carried'
  BY <1>2, <1>3 DEF Carried
<1> QED
  BY <1>4 DEF GoesOn

\* A parser passes items on.
LEMMA ParserCarries ==
    ASSUME TypeInv, Quiet, NEW p \in Parsers, Parser(p), NEW i \in Carried
    PROVE  GoesOn(i)
<1>1. /\ UNCHANGED <<DispItems, PersisterItems, ItemsIn(fetchQueue)>>
      /\ UNCHANGED <<FetcherItems(FetcherHands), FetcherItems({"send"})>>
      /\ \A r \in Parsers \ {p} : parserPc'[r] = parserPc[r] /\ parserItem'[r] = parserItem[r]
  BY ParserFrame
<1>2. /\ parserItem \in [Parsers -> Item \cup {NoItem}] /\ parserPc \in [Parsers -> ParserPc]
      /\ parserPc[p] \in ParserHands => parserItem[p] \in Item
      /\ fetchResults \in Seq(Item) /\ persistQueue \in Seq(Item)
  BY DEF TypeInv, TypeOK, HandsFull
<1>3. frontier \subseteq frontier'
  BY DEF Parser, ParserTake, ParserCount, ParserReserve, ParserPush, ParserSend, ParserCancelled,
     ParserExit, frontierVars, Push
<1>4. ItemsIn(fetchResults) \cup ParserItems \cup ItemsIn(persistQueue) \subseteq
         ItemsIn(fetchResults)' \cup ParserItems' \cup ItemsIn(persistQueue)'
  <2>1. CASE ParserTake(p)
    <3>1. /\ fetchResults # <<>> /\ fetchResults' = Tail(fetchResults) /\ UNCHANGED persistQueue
          /\ parserItem'[p] = Head(fetchResults) /\ parserPc[p] = "idle" /\ parserPc'[p] = "parse"
      BY <1>2, <2>1 DEF ParserTake, ParserStep
    <3>2. ItemsIn(fetchResults) = ItemsIn(Tail(fetchResults)) \cup {Head(fetchResults)}
      BY <1>2, <3>1, QueueItems
    <3>3. ItemsIn(fetchResults) = ItemsIn(fetchResults)' \cup {Head(fetchResults)}
      BY <3>1, <3>2 DEF ItemsIn
    <3>4. parserPc[p] \notin ParserHands /\ parserPc'[p] \in ParserHands
      BY <3>1 DEF ParserHands
    <3>5. ParserItems \subseteq ParserItems' /\ Head(fetchResults) \in ParserItems'
      BY <1>1, <3>1, <3>4, ParserMoves
    <3>6. UNCHANGED ItemsIn(persistQueue)
      BY <3>1, HandsUnchanged
    <3> QED
      BY <3>3, <3>5, <3>6
  <2>2. CASE ParserSend(p)
    <3>1. /\ parserPc[p] = "links" /\ parserPc'[p] = "idle" /\ UNCHANGED fetchResults
          /\ persistQueue' = Append(persistQueue, parserItem[p])
      BY <1>2, <2>2 DEF ParserSend, ParserStep
    <3>2. ItemsIn(Append(persistQueue, parserItem[p])) = ItemsIn(persistQueue) \cup {parserItem[p]}
      BY <1>2, <3>1, QueueItems DEF ParserHands
    <3>3. ItemsIn(persistQueue)' = ItemsIn(persistQueue) \cup {parserItem[p]}
      BY <3>1, <3>2 DEF ItemsIn
    <3>4. \A j \in ParserItems : j \in ParserItems' \/ j = parserItem[p]
      BY <1>1, ParserMoves
    <3>5. UNCHANGED ItemsIn(fetchResults)
      BY <3>1, HandsUnchanged
    <3> QED
      BY <3>3, <3>4, <3>5
  <2>3. CASE ~ParserTake(p) /\ ~ParserSend(p)
    <3>1. UNCHANGED <<fetchResults, persistQueue>>
      BY <2>3 DEF Parser, ParserCount, ParserReserve, ParserPush, ParserCancelled, ParserExit
    <3>2. ~ParserCancelled(p)
      BY DEF ParserCancelled, Quiet
    <3>3. parserPc[p] \in ParserHands => parserPc'[p] \in ParserHands /\ parserItem'[p] = parserItem[p]
      BY <1>2, <2>3, <3>2 DEF Parser, ParserCount, ParserReserve, ParserPush, ParserExit, ParserStep,
         ParserHands
    <3>4. ParserItems \subseteq ParserItems'
      BY <1>1, <3>3, ParserMoves
    <3>5. UNCHANGED <<ItemsIn(fetchResults), ItemsIn(persistQueue)>>
      BY <3>1, HandsUnchanged
    <3> QED
      BY <3>4, <3>5
  <2> QED
    BY <2>1, <2>2, <2>3
<1>5. Carried \subseteq Carried'
  BY <1>1, <1>3, <1>4 DEF Carried, Answered
<1> QED
  BY <1>5 DEF GoesOn

\* A fetcher passes an item on, or settles its URL: out of scope, over the budget of hosts
\* or disallowed.
LEMMA FetcherCarries ==
    ASSUME TypeInv, Quiet, NEW f \in Fetchers, Fetcher(f), NEW i \in Carried
    PROVE  GoesOn(i)
<1>1. /\ UNCHANGED <<DispItems, ParserItems, PersisterItems, ItemsIn(persistQueue)>>
      /\ \A g \in Fetchers \ {f} :
            fetcherPc'[g] = fetcherPc[g] /\ fetcherItem'[g] = fetcherItem[g]
  BY FetcherFrame
<1>2. /\ fetcherItem \in [Fetchers -> Item \cup {NoItem}] /\ fetcherPc \in [Fetchers -> FetcherPc]
      /\ fetcherPc[f] \in FetcherHands => fetcherItem[f] \in Item
      /\ fetchQueue \in Seq(Item) /\ fetchResults \in Seq(Item)
      /\ urlStatus \in [URLs -> UrlStatus]
  BY DEF TypeInv, TypeOK, HandsFull
<1>3. frontier \subseteq frontier'
  BY DEF Fetcher, FetcherTake, FetcherOnboard, FetcherOnboarded, FetcherOnboardFails,
     FetcherRobots, FetcherFetch, FetcherFetched, FetcherSend, FetcherCancelled, FetcherExit,
     frontierVars, Push
<1>4. FetcherItems({"send"}) \subseteq FetcherItems(FetcherHands)
  BY DEF FetcherItems, FetcherHands
<1>5. /\ \A j \in FetcherItems(FetcherHands) :
            j \in FetcherItems(FetcherHands)' \/ (j = fetcherItem[f] /\ fetcherPc[f] \in FetcherHands)
      /\ fetcherPc'[f] \in FetcherHands => fetcherItem'[f] \in FetcherItems(FetcherHands)'
  BY <1>1, FetcherMoves
\* It is enough to look at the channels and at the item in the fetcher's hands.
<1>6. ASSUME \A j \in ItemsIn(fetchQueue) \cup ItemsIn(fetchResults) : GoesOn(j),
             fetcherPc[f] \in FetcherHands => GoesOn(fetcherItem[f])
      PROVE  GoesOn(i)
  <2>1. CASE i \in ItemsIn(fetchQueue) \cup ItemsIn(fetchResults)
    BY <1>6, <2>1
  <2>2. CASE i = fetcherItem[f] /\ fetcherPc[f] \in FetcherHands
    BY <1>6, <2>2
  <2>3. CASE /\ i \notin ItemsIn(fetchQueue) \cup ItemsIn(fetchResults)
             /\ ~(i = fetcherItem[f] /\ fetcherPc[f] \in FetcherHands)
    <3>1. i \in Carried'
      BY <1>1, <1>3, <1>4, <1>5, <2>3 DEF Carried, Answered
    <3> QED
      BY <3>1 DEF GoesOn
  <2> QED
    BY <2>1, <2>2, <2>3
<1>7. /\ \A j \in ItemsIn(fetchQueue)' \cup ItemsIn(fetchResults)' : GoesOn(j)
      /\ fetcherPc'[f] \in FetcherHands => GoesOn(fetcherItem'[f])
  BY <1>5 DEF GoesOn, Carried, Answered
<1>8. CASE FetcherTake(f)
  <2> DEFINE j == Head(fetchQueue)
  <2>1. /\ fetchQueue # <<>> /\ fetchQueue' = Tail(fetchQueue) /\ fetcherPc[f] = "idle"
        /\ UNCHANGED fetchResults
    BY <1>8 DEF FetcherTake, FetcherStep
  <2>2. ItemsIn(fetchQueue) = ItemsIn(fetchQueue)' \cup {j} /\ UNCHANGED ItemsIn(fetchResults)
    <3>1. ItemsIn(fetchQueue) = ItemsIn(Tail(fetchQueue)) \cup {j}
      BY <1>2, <2>1, QueueItems
    <3> QED
      BY <2>1, <3>1, HandsUnchanged DEF ItemsIn
  <2>3. GoesOn(j)
    <3>1. CASE j.url \in InScope
      <4>1. fetcherPc'[f] = "onboard" /\ fetcherItem'[f] = j
        BY <1>2, <1>8, <3>1 DEF FetcherTake, FetcherStep
      <4> QED
        BY <1>7, <4>1 DEF FetcherHands
    <3>2. CASE j.url \notin InScope
      BY <3>2 DEF GoesOn, SettledNow
    <3> QED
      BY <3>1, <3>2
  <2> HIDE DEF j
  <2> QED
    BY <1>6, <1>7, <2>1, <2>2, <2>3 DEF FetcherHands
<1>9. CASE FetcherSend(f)
  <2>1. /\ fetcherPc[f] = "send" /\ UNCHANGED fetchQueue
        /\ fetchResults' = Append(fetchResults, fetcherItem[f])
    BY <1>9 DEF FetcherSend, FetcherStep
  <2>2. /\ ItemsIn(fetchResults)' = ItemsIn(fetchResults) \cup {fetcherItem[f]}
        /\ UNCHANGED ItemsIn(fetchQueue)
    <3>1. ItemsIn(Append(fetchResults, fetcherItem[f])) = ItemsIn(fetchResults) \cup {fetcherItem[f]}
      BY <1>2, <2>1, QueueItems DEF FetcherHands
    <3> QED
      BY <2>1, <3>1, HandsUnchanged DEF ItemsIn
  <2> QED
    BY <1>6, <1>7, <2>2
<1>10. CASE ~FetcherTake(f) /\ ~FetcherSend(f)
  <2>1. UNCHANGED <<fetchQueue, fetchResults>> /\ ~FetcherCancelled(f)
    BY <1>10 DEF Fetcher, FetcherOnboard, FetcherOnboarded, FetcherOnboardFails, FetcherRobots,
       FetcherFetch, FetcherFetched, FetcherCancelled, FetcherExit, Quiet
  <2>2. UNCHANGED <<ItemsIn(fetchQueue), ItemsIn(fetchResults)>>
    BY <2>1, HandsUnchanged
  <2>3. ASSUME fetcherPc[f] \in FetcherHands, fetcherPc'[f] \in FetcherHands
        PROVE  fetcherItem'[f].url = fetcherItem[f].url
    <3>1. CASE FetcherFetch(f)
      <4>1. fetcherItem'[f] = [fetcherItem[f] EXCEPT !.seq = fetchSeq']
        BY <1>2, <3>1 DEF FetcherFetch
      <4> QED
        BY <1>2, <2>3, <4>1 DEF Item
    <3>2. CASE FetcherFetched(f)
      <4>1. PICK o : fetcherItem' = [fetcherItem EXCEPT ![f].outcome = o]
        BY <3>2 DEF FetcherFetched
      <4>2. fetcherItem'[f] = [fetcherItem[f] EXCEPT !.outcome = o]
        BY <1>2, <4>1
      <4> QED
        BY <1>2, <2>3, <4>2 DEF Item
    <3>3. CASE ~FetcherFetch(f) /\ ~FetcherFetched(f)
      BY <1>2, <1>10, <2>1, <2>3, <3>3 DEF Fetcher, FetcherOnboard, FetcherOnboarded,
         FetcherOnboardFails, FetcherRobots, FetcherExit, FetcherStep, FetcherHands
    <3> QED
      BY <3>1, <3>2, <3>3
  <2>4. ASSUME fetcherPc[f] \in FetcherHands, fetcherPc'[f] \notin FetcherHands
        PROVE  SettledNow(fetcherItem[f].url)
    <3>1. FetcherOnboard(f) \/ FetcherRobots(f)
      BY <1>2, <1>10, <2>1, <2>4 DEF Fetcher, FetcherOnboarded, FetcherOnboardFails, FetcherFetch,
         FetcherFetched, FetcherExit, FetcherStep, FetcherHands
    <3>2. fetcherItem[f].url \in URLs
      BY <1>2, <2>4 DEF Item
    <3>3. urlStatus'[fetcherItem[f].url] \in {"skipped_budget", "robots_blocked"}
      BY <1>2, <2>4, <3>1, <3>2 DEF FetcherOnboard, FetcherRobots, FetcherStep, FetcherHands
    <3> QED
      BY <3>3 DEF SettledNow
  <2>5. fetcherPc[f] \in FetcherHands => GoesOn(fetcherItem[f])
    BY <1>7, <2>3, <2>4 DEF GoesOn
  <2> QED
    BY <1>6, <1>7, <2>2, <2>5
<1> QED
  BY <1>8, <1>9, <1>10

\* The persister takes an item on or settles its URL: a failed fetch is on record as
\* "errored", any other has its fetch row.
LEMMA PersisterCarries ==
    ASSUME TypeInv, StatusInv, Quiet, Quiet', Persister, NEW i \in Carried
    PROVE  GoesOn(i)
<1>1. UNCHANGED <<frontier, dispPc, dispItem, fetcherPc, fetcherItem, parserPc, parserItem,
                  fetchQueue, fetchResults>>
  BY DEF Persister, PersistTake, PersistItem, PersistFails, PersistRetry, PersistCancelled,
     PersistFatal, PersisterExit, OthersOfPersist, frontierVars, dispatcherVars, fetcherVars,
     parserVars
<1>2. /\ UNCHANGED <<DispItems, ParserItems, ItemsIn(fetchQueue), ItemsIn(fetchResults)>>
      /\ UNCHANGED <<FetcherItems(FetcherHands), FetcherItems({"send"})>>
  BY <1>1, HandsUnchanged
<1>3. CASE PersistTake
  <2>1. /\ persistQueue # <<>> /\ persistQueue' = Tail(persistQueue) /\ persistQueue \in Seq(Item)
        /\ persisterItem' = Head(persistQueue) /\ persisterPc = "idle" /\ persisterPc' = "write"
    BY <1>3 DEF PersistTake, PersisterStep, TypeInv, TypeOK
  <2>2. ItemsIn(persistQueue) = ItemsIn(Tail(persistQueue)) \cup {Head(persistQueue)}
    BY <2>1, QueueItems
  <2>3. ItemsIn(persistQueue)' = ItemsIn(Tail(persistQueue))
    BY <2>1 DEF ItemsIn
  <2>4. PersisterItems = {} /\ PersisterItems' = {Head(persistQueue)}
    BY <2>1 DEF PersisterItems
  <2>5. Carried \subseteq Carried'
    BY <1>1, <1>2, <2>2, <2>3, <2>4 DEF Carried, Answered
  <2> QED
    BY <2>5 DEF GoesOn
<1>4. CASE PersistItem
  <2> DEFINE j == persisterItem
  <2>1. persisterPc = "write" /\ UNCHANGED persistQueue
    BY <1>4 DEF PersistItem, PersisterStep
  <2>2. j \in Answered /\ PersisterItems = {j} /\ j \in Item /\ j.url \in URLs
    BY <2>1, ItemUrls DEF Answered, PersisterItems
  <2>3. urlStatus[j.url] = IF j.outcome = "error" THEN "errored" ELSE "fetched"
    BY <2>2 DEF StatusInv
  <2>4. SettledNow(j.url)
    <3>1. CASE j.outcome = "error"
      <4>1. UNCHANGED urlStatus
        BY <1>4, <3>1 DEF PersistItem
      <4> QED
        BY <2>3, <3>1, <4>1 DEF SettledNow
    <3>2. CASE j.outcome # "error"
      <4>1. urlStatus' = UpsertFinal(j.url) /\ fetches' = fetches \cup {j}
        BY <1>4, <3>2 DEF PersistItem
      <4>2. urlStatus \in [URLs -> UrlStatus] /\ Final[j.url] \in URLs
        BY <2>2, SiteAssumption DEF TypeInv, TypeOK
      <4>3. urlStatus'[j.url] = "fetched"
        BY <2>2, <2>3, <3>2, <4>1, <4>2 DEF UpsertFinal
      <4> QED
        BY <4>1, <4>3 DEF SettledNow
    <3> QED
      BY <3>1, <3>2
  <2>5. UNCHANGED ItemsIn(persistQueue)
    BY <2>1, HandsUnchanged
  <2> HIDE DEF j
  <2>6. \A k \in Carried : k = j \/ k \in Carried'
    BY <1>1, <1>2, <2>2, <2>5 DEF Carried, Answered
  <2> QED
    BY <2>4, <2>6 DEF GoesOn
<1>5. CASE ~PersistTake /\ ~PersistItem
  <2>1. ~PersistCancelled /\ UNCHANGED persistQueue
    BY <1>5 DEF Quiet, Persister, PersistFails, PersistRetry, PersistCancelled, PersistFatal,
       PersisterExit
  <2>2. persisterPc \in {"write", "backoff"} =>
           persisterPc' \in {"write", "backoff"} /\ persisterItem' = persisterItem
    BY <1>5, <2>1 DEF Quiet, Persister, PersistFails, PersistRetry, PersistFatal, PersisterExit,
       PersisterStep
  <2>3. PersisterItems \subseteq PersisterItems' /\ UNCHANGED ItemsIn(persistQueue)
    BY <2>1, <2>2, HandsUnchanged DEF PersisterItems
  <2>4. Carried \subseteq Carried'
    BY <1>1, <1>2, <2>3 DEF Carried, Answered
  <2> QED
    BY <2>4 DEF GoesOn
<1> QED
  BY <1>3, <1>4, <1>5

\* A URL that is settled stays settled, or its fetcher is still deciding on it.
LEMMA SettledStays ==
    ASSUME TypeInv, Quiet, [Next]_vars, NEW u \in URLs, Settled(u)
    PROVE  SettledNow(u) \/ \E j \in Carried' : j.url = u
<1>1. fetches \subseteq fetches'
  BY FetchRows
<1>2. CASE urlStatus'[u] = urlStatus[u] \/ urlStatus[u] = "unknown"
  BY <1>1, <1>2 DEF Settled, SettledNow
<1>3. ASSUME NEW f \in Fetchers, Decides(f), u = fetcherItem[f].url
      PROVE  SettledNow(u) \/ \E j \in Carried' : j.url = u
  <2>1. Fetcher(f) /\ fetcherPc[f] \in FetcherHands
    BY <1>3 DEF Decides, Fetcher, FetcherOnboard, FetcherRobots, FetcherFetched, FetcherStep,
       FetcherHands
  <2>2. fetcherItem[f] \in Carried
    BY <2>1 DEF Carried, FetcherItems
  <2>3. GoesOn(fetcherItem[f])
    BY <2>1, <2>2, FetcherCarries
  <2> QED
    BY <1>3, <2>3 DEF GoesOn
<1> QED
  BY <1>2, <1>3, RowMoves

\* A URL enters seen with its item.
LEMMA SeenWithItem ==
    ASSUME TypeInv, [Next]_vars, NEW u \in seen' \ seen
    PROVE  \E j \in Carried' : j.url = u
<1>1. ASSUME NEW S, NEW d, Push(S, d) PROVE \E j \in frontier' : j.url = u
  <2>1. u \in S \ seen
    BY <1>1 DEF Push
  <2>2. NewItem(u, d) \in frontier'
    BY <1>1, <2>1 DEF Push
  <2> QED
    BY <2>2 DEF NewItem
<1>2. CASE \E f \in Fetchers : Fetcher(f)
  <2>1. PICK f \in Fetchers : Fetcher(f)
    BY <1>2
  <2>2. FetcherOnboarded(f)
    BY <2>1 DEF Fetcher, FetcherTake, FetcherOnboard, FetcherOnboardFails, FetcherRobots,
       FetcherFetch, FetcherFetched, FetcherSend, FetcherCancelled, FetcherExit, frontierVars
  <2>3. PICK S, d : Push(S, d)
    BY <2>2 DEF FetcherOnboarded
  <2> QED
    BY <1>1, <2>3 DEF Carried
<1>3. CASE \E p \in Parsers : Parser(p)
  <2>1. PICK p \in Parsers : Parser(p)
    BY <1>3
  <2>2. ParserPush(p)
    BY <2>1 DEF Parser, ParserTake, ParserCount, ParserReserve, ParserSend, ParserCancelled,
       ParserExit, frontierVars
  <2>3. PICK S, d : Push(S, d)
    BY <2>2 DEF ParserPush
  <2> QED
    BY <1>1, <2>3 DEF Carried
<1>4. CASE Dispatcher \/ Persister \/ Environment \/ UNCHANGED vars
  <2>1. UNCHANGED seen
    BY <1>4 DEF Dispatcher, DispatchReadPages, DispatchPop, DispatchNothing, DispatchSend,
       DispatchSendCancelled, DispatchReadCap, DispatchReadQueue, DispatchReadInFlight, DispatchTick,
       DispatchDone, DispatchShutdown, Finalize, OthersOfDispatch, Persister, PersistTake,
       PersistItem, PersistFails, PersistRetry, PersistCancelled, PersistFatal, PersisterExit,
       OthersOfPersist, Environment, Cancel, Panic, RecoverWorker, OthersOfPanic, frontierVars, vars
  <2> QED
    BY <2>1
<1> QED
  BY <1>2, <1>3, <1>4 DEF Next, Finished

\* Every step keeps what was pushed on its way until it is settled.
LEMMA SeenStep ==
    ASSUME TypeInv, StatusInv, SeenInv, [Next]_vars
    PROVE  SeenInv'
<1> SUFFICES ASSUME Quiet', NEW u \in seen' PROVE SettledNow(u) \/ \E j \in Carried' : j.url = u
  BY DEF SeenInv, Settled, SettledNow
<1>1. Quiet /\ ~Environment
  BY QuietBefore
<1>2. CASE u \notin seen
  BY <1>2, SeenWithItem
<1>3. CASE u \in seen /\ Settled(u)
  <2>1. u \in URLs
    BY <1>3 DEF TypeInv, TypeOK
  <2> QED
    BY <1>1, <1>3, <2>1, SettledStays
<1>4. ASSUME NEW i \in Carried, i.url = u
      PROVE  SettledNow(u) \/ \E j \in Carried' : j.url = u
  <2>1. CASE UNCHANGED vars
    <3>1. /\ UNCHANGED <<frontier, dispPc, dispItem, fetcherPc, fetcherItem, parserPc, parserItem>>
          /\ UNCHANGED <<persisterPc, persisterItem, fetchQueue, fetchResults, persistQueue>>
      BY <2>1 DEF vars, frontierVars, dispatcherVars, fetcherVars, parserVars, persisterVars, channels
    <3>2. UNCHANGED Carried
      BY <3>1, HandsUnchanged DEF Answered, Carried
    <3> QED
      BY <1>4, <3>2
  <2>2. CASE Next /\ ~UNCHANGED vars
    <3>1. GoesOn(i)
      BY <1>1, <2>2, DispatcherCarries, FetcherCarries, ParserCarries, PersisterCarries
         DEF Next, Finished
    <3> QED
      BY <1>4, <3>1 DEF GoesOn
  <2> QED
    BY <2>1, <2>2
<1> QED
  BY <1>1, <1>2, <1>3, <1>4 DEF SeenInv

\* At first everything pushed is in the frontier.
THEOREM SeenKept == Spec => []SeenInv
<1>1. Init => SeenInv
  <2> SUFFICES ASSUME Init, NEW u \in seen PROVE \E i \in Carried : i.url = u
    BY DEF SeenInv
  <2>1. PICK S \in SUBSET URLs :
           /\ frontier = {NewItem(v, 0) : v \in Seeds} \cup {NewItem(v, 1) : v \in S}
           /\ seen = Seeds \cup S
    BY InitItems
  <2>2. NewItem(u, 0).url = u /\ NewItem(u, 1).url = u
    BY DEF NewItem
  <2>3. NewItem(u, 0) \in frontier \/ NewItem(u, 1) \in frontier
    BY <2>1
  <2> QED
    BY <2>2, <2>3, InitItems
<1>2. TypeInv /\ StatusInv /\ SeenInv /\ [Next]_vars => SeenInv'
  BY SeenStep
<1> QED
  BY <1>1, <1>2, TypeCorrect, StatusesKept, PTL DEF Spec

\* For every site, every pool and every order of the workers: a crawl that ends without
\* an error, a cancellation or a failed worker has settled every URL it dispatched.
THEOREM DrainSettles == Spec => []QuietDrainSettles
<1>1. TypeInv /\ InFlightAccounting /\ DrainInv /\ SeenInv => QuietDrainSettles
  <2> SUFFICES ASSUME TypeInv, InFlightAccounting, DrainInv, SeenInv, PipelineReturned,
                      completionErr = "none", ~Cancelled, NEW u \in Dispatched
               PROVE  Settled(u)
    BY DEF QuietDrainSettles
  <2>1. inFlight = 0 /\ persisterPc \in Gone
    BY DEF DrainInv, FetchQueueClosed, PipelineReturned
  <2>2. /\ dispPc # "send" /\ ~Holding(persisterPc)
        /\ fetchQueue = <<>> /\ fetchResults = <<>> /\ persistQueue = <<>>
        /\ \A f \in Fetchers : ~Holding(fetcherPc[f])
        /\ \A p \in Parsers : ~Holding(parserPc[p])
    BY <2>1, NothingHeld
  <2>3. Quiet
    BY <2>1, <2>2 DEF Quiet, Holding, Gone
  <2>4. /\ DispItems = {} /\ PersisterItems = {} /\ ParserItems = {}
        /\ FetcherItems(FetcherHands) = {} /\ FetcherItems({"send"}) = {}
        /\ ItemsIn(fetchQueue) = {} /\ ItemsIn(fetchResults) = {} /\ ItemsIn(persistQueue) = {}
    BY <2>2 DEF DispItems, PersisterItems, ParserItems, FetcherItems, ItemsIn, Holding, FetcherHands,
       ParserHands
  <2>5. Carried = frontier
    BY <2>4 DEF Carried, Answered
  <2> QED
    BY <2>3, <2>5 DEF SeenInv, Dispatched
<1> QED
  BY <1>1, TypeCorrect, InFlightExact, DrainKept, SeenKept, PTL

-----------------------------------------------------------------------------
(* The budgets of discovery.                                                *)

\* How many elements of E come no later than i.
Rank(E, i) == Cardinality({j \in E : j <= i})

\* In a finite set of numbers at most n elements have a rank of at most n.
LEMMA FirstRanks ==
    ASSUME NEW E \in SUBSET Nat, IsFiniteSet(E), NEW n \in Nat
    PROVE  /\ IsFiniteSet({i \in E : Rank(E, i) <= n})
           /\ Cardinality({i \in E : Rank(E, i) <= n}) <= n
<1> DEFINE Upto(i) == {j \in E : j <= i}
           J == {i \in E : Rank(E, i) <= n}
           pos == [i \in J |-> Cardinality(Upto(i))]
<1>1. \A i \in E : /\ IsFiniteSet(Upto(i)) /\ Cardinality(Upto(i)) \in Nat
                   /\ Upto(i) # {} /\ Cardinality(Upto(i)) # 0
  <2> TAKE i \in E
  <2>1. Upto(i) \in SUBSET E /\ i \in Upto(i)
    OBVIOUS
  <2>2. IsFiniteSet(Upto(i))
    BY <2>1, FS_Subset
  <2>3. Cardinality(Upto(i)) \in Nat
    BY <2>2, FS_CardinalityType
  <2>4. Cardinality(Upto(i)) # 0
    BY <2>1, <2>2, FS_EmptySet
  <2> QED
    BY <2>1, <2>2, <2>3, <2>4
<1>2. ASSUME NEW i \in E, NEW k \in E, i < k
      PROVE  Cardinality(Upto(i)) # Cardinality(Upto(k))
  <2>1. /\ \A j \in Nat : j <= i => j <= k
        /\ i \in Nat /\ k \in Nat /\ k <= k /\ ~(k <= i)
    BY <1>2
  <2>2. Upto(i) \in SUBSET Upto(k) /\ k \in Upto(k) /\ k \notin Upto(i)
    BY <2>1
  <2> HIDE DEF Upto
  <2>3. Upto(i) # Upto(k) /\ IsFiniteSet(Upto(k))
    BY <1>1, <2>2
  <2> QED
    BY <2>2, <2>3, FS_Subset
<1>3. \A i \in J : Cardinality(Upto(i)) \in 1..n
  BY <1>1 DEF Rank
<1>4. \A i, k \in J : pos[i] = pos[k] => i = k
  <2> SUFFICES ASSUME NEW i \in J, NEW k \in J, i # k
               PROVE  Cardinality(Upto(i)) # Cardinality(Upto(k))
    OBVIOUS
  <2>1. i \in E /\ k \in E /\ (i < k \/ k < i)
    OBVIOUS
  <2> QED
    BY <1>2, <2>1
<1>5. pos \in Injection(J, 1..n)
  <2>1. pos \in [J -> 1..n]
    BY <1>3
  <2> HIDE DEF pos, J
  <2> QED
    BY <1>4, <2>1 DEF Injection, IsInjective
<1>6. IsFiniteSet(1..n) /\ Cardinality(1..n) = n
  BY FS_Interval
<1> HIDE DEF pos, J
<1>7. IsFiniteSet(J) /\ Cardinality(J) <= n
  BY <1>5, <1>6, FS_Injection
<1> QED
  BY <1>7 DEF J

\* The first n admissible entries of a sitemap are at most n URLs.
LEMMA SitemapCount ==
    ASSUME NEW h \in Hosts, NEW n \in Nat
    PROVE  /\ IsFiniteSet(SitemapURLs(h, n)) /\ Cardinality(SitemapURLs(h, n)) \in Nat
           /\ Cardinality(SitemapURLs(h, n)) <= n
<1> DEFINE E == SitemapEntries(h)
           J == {i \in E : Rank(E, i) <= n}
           T == {SitemapOf[h][i] : i \in J}
           url == [i \in J |-> SitemapOf[h][i]]
<1>1. E \in SUBSET Nat /\ IsFiniteSet(E)
  <2>1. SitemapOf[h] \in Seq(URLs)
    BY SiteAssumption
  <2>2. DOMAIN SitemapOf[h] = 1..Len(SitemapOf[h]) /\ Len(SitemapOf[h]) \in Nat
    BY <2>1
  <2>3. E \in SUBSET (1..Len(SitemapOf[h]))
    BY <2>2 DEF SitemapEntries
  <2>4. IsFiniteSet(1..Len(SitemapOf[h]))
    BY <2>2, FS_Interval
  <2> QED
    BY <2>2, <2>3, <2>4, FS_Subset
<1> HIDE DEF E
<1>2. IsFiniteSet(J) /\ Cardinality(J) <= n /\ Cardinality(J) \in Nat
  BY <1>1, FirstRanks, FS_CardinalityType
<1>3. url \in Surjection(J, T)
  <2>1. url \in [J -> T] /\ \A t \in T : \E i \in J : url[i] = t
    OBVIOUS
  <2> HIDE DEF url, T, J
  <2> QED
    BY <2>1 DEF Surjection
<1>4. SitemapURLs(h, n) = T \ Disallowed
  BY Zenon DEF SitemapURLs, E, Rank
<1> HIDE DEF T, J, url
<1>5. IsFiniteSet(T) /\ Cardinality(T) <= Cardinality(J)
  BY <1>2, <1>3, FS_Surjection
<1>6. SitemapURLs(h, n) \in SUBSET T
  BY <1>4
<1>7. IsFiniteSet(SitemapURLs(h, n)) /\ Cardinality(SitemapURLs(h, n)) <= Cardinality(T)
  BY <1>5, <1>6, FS_Subset
<1>8. Cardinality(SitemapURLs(h, n)) \in Nat /\ Cardinality(T) \in Nat
  BY <1>5, <1>7, FS_CardinalityType
<1> QED
  BY <1>2, <1>5, <1>7, <1>8

\* What a sitemap may queue fits in what is left of its budget.
LEMMA ReservedFits ==
    ASSUME NEW h \in Hosts, NEW used \in Nat, MaxDiscovered # 0, used <= MaxDiscovered
    PROVE  used + SitemapReserved(h, used) <= MaxDiscovered
BY SitemapType, BudgetAssumption DEF SitemapReserved

\* What the budgets count is finite, and there is a seed.
LEMMA SeenFinite ==
    ASSUME TypeInv
    PROVE  /\ IsFiniteSet(seen) /\ Cardinality(seen) \in Nat
           /\ Cardinality(Pushing) \in Nat
           /\ IsFiniteSet(Seeds) /\ Cardinality(Seeds) \in Nat \ {0}
<1>1. seen \in SUBSET URLs /\ Pushing \in SUBSET Parsers /\ Seeds \in SUBSET URLs /\ Seeds # {}
  BY SiteAssumption DEF TypeInv, TypeOK, Pushing
<1>2. IsFiniteSet(seen) /\ IsFiniteSet(Pushing) /\ IsFiniteSet(Seeds)
  BY <1>1, SiteAssumption, PoolAssumption, FS_Subset
<1> QED
  BY <1>1, <1>2, FS_CardinalityType, FS_EmptySet

\* How many parsers are about to push, after a step of one of them.
LEMMA PushingStep ==
    ASSUME TypeInv, NEW p \in Parsers, NEW from, NEW to, ParserStep(p, from, to)
    PROVE  Cardinality(Pushing') = Cardinality(Pushing) + One(to = "push") - One(from = "push")
<1>1. /\ parserPc[p] = from /\ parserPc'[p] = to
      /\ \A r \in Parsers \ {p} : parserPc'[r] = parserPc[r]
  BY DEF ParserStep, TypeInv, TypeOK
<1>2. /\ Pushing \in SUBSET Parsers /\ Pushing' \in SUBSET Parsers
      /\ Pushing \ {p} = Pushing' \ {p}
      /\ p \in Pushing <=> from = "push"
      /\ p \in Pushing' <=> to = "push"
  BY <1>1 DEF Pushing
<1>3. Cardinality(Pushing') = Cardinality(Pushing) + One(p \in Pushing') - One(p \in Pushing)
  BY <1>2, OneDiffers, PoolAssumption
<1> QED
  BY <1>2, <1>3 DEF One

\* A push adds at most the URLs it pushes.
LEMMA PushCount ==
    ASSUME TypeInv, NEW S, IsFiniteSet(S), NEW d, Push(S, d)
    PROVE  Cardinality(seen') <= Cardinality(seen) + Cardinality(S)
<1>1. IsFiniteSet(seen) /\ seen' = seen \cup S /\ IsFiniteSet(seen \cap S)
  BY SeenFinite, FS_Intersection DEF Push
<1>2. Cardinality(seen \cup S) = Cardinality(seen) + Cardinality(S) - Cardinality(seen \cap S)
  BY <1>1, FS_Union
<1>3. Cardinality(seen \cap S) \in Nat /\ Cardinality(seen) \in Nat /\ Cardinality(S) \in Nat
  BY <1>1, FS_CardinalityType
<1> QED
  BY <1>1, <1>2, <1>3

\* Every step keeps what was seen within the two budgets.
LEMMA BudgetStep ==
    ASSUME TypeInv, TypeInv', BudgetInv, [Next]_vars
    PROVE  BudgetInv'
<1> SUFFICES ASSUME MaxDiscovered >= Cardinality(Seeds)
             PROVE  /\ urlsDiscovered' <= MaxDiscovered /\ queuedDiscovered' <= MaxDiscovered
                    /\ Cardinality(seen') + Cardinality(Pushing')
                         <= urlsDiscovered' + queuedDiscovered' - Cardinality(Seeds)
  BY DEF BudgetInv
<1> DEFINE K == Cardinality(Seeds)
           sees == Cardinality(seen)
           pushes == Cardinality(Pushing)
<1>1. /\ K \in Nat \ {0} /\ sees \in Nat /\ pushes \in Nat /\ MaxDiscovered \in Nat \ {0}
      /\ Cardinality(seen') \in Nat /\ Cardinality(Pushing') \in Nat
      /\ urlsDiscovered \in Nat /\ queuedDiscovered \in Nat
  <2>1. K \in Nat \ {0} /\ sees \in Nat /\ pushes \in Nat
    BY SeenFinite
  <2>2. IsFiniteSet(seen') /\ IsFiniteSet(Pushing')
    <3>1. seen' \in SUBSET URLs /\ Pushing' \in SUBSET Parsers
      BY DEF TypeInv, TypeOK, Pushing
    <3> QED
      BY <3>1, SiteAssumption, PoolAssumption, FS_Subset
  <2>3. Cardinality(seen') \in Nat /\ Cardinality(Pushing') \in Nat
    BY <2>2, FS_CardinalityType
  <2>4. MaxDiscovered \in Nat \ {0}
    BY <2>1, BudgetAssumption
  <2>5. urlsDiscovered \in Nat /\ queuedDiscovered \in Nat
    BY DEF TypeInv, TypeOK
  <2> QED
    BY <2>1, <2>3, <2>4, <2>5
<1>2. /\ urlsDiscovered <= MaxDiscovered /\ queuedDiscovered <= MaxDiscovered
      /\ sees + pushes <= urlsDiscovered + queuedDiscovered - K
  BY DEF BudgetInv
<1> HIDE DEF K, sees, pushes
<1>3. ASSUME UNCHANGED <<seen, urlsDiscovered, queuedDiscovered>>, Pushing' \subseteq Pushing
      PROVE  /\ urlsDiscovered' <= MaxDiscovered /\ queuedDiscovered' <= MaxDiscovered
             /\ Cardinality(seen') + Cardinality(Pushing') <= urlsDiscovered' + queuedDiscovered' - K
  <2>1. IsFiniteSet(Pushing)
    BY PoolAssumption, FS_Subset DEF Pushing
  <2>2. Cardinality(Pushing') <= pushes
    BY <1>3, <2>1, FS_Subset DEF pushes
  <2>3. Cardinality(seen') = sees
    BY <1>3 DEF sees
  <2> QED
    BY <1>1, <1>2, <1>3, <2>2, <2>3
\* A sitemap is paid for from queuedDiscovered.
<1>4. ASSUME NEW f \in Fetchers, Fetcher(f)
      PROVE  /\ urlsDiscovered' <= MaxDiscovered /\ queuedDiscovered' <= MaxDiscovered
             /\ Cardinality(seen') + Cardinality(Pushing') <= urlsDiscovered' + queuedDiscovered' - K
  <2>1. UNCHANGED <<urlsDiscovered, parserPc>>
    BY <1>4 DEF Fetcher, FetcherTake, FetcherOnboard, FetcherOnboarded, FetcherOnboardFails,
       FetcherRobots, FetcherFetch, FetcherFetched, FetcherSend, FetcherCancelled, FetcherExit,
       OthersOfFetch, parserVars
  <2>2. UNCHANGED Pushing
    BY <2>1 DEF Pushing
  <2>3. CASE FetcherOnboarded(f)
    <3> DEFINE i == fetcherItem[f]
               h == HostOf[i.url]
               reserved == SitemapReserved(h, queuedDiscovered)
    <3>1. h \in Hosts
      <4>1. i \in Item
        BY <2>3, ItemUrls DEF FetcherOnboarded, FetcherStep, FetcherHands
      <4> QED
        BY <4>1, SiteAssumption DEF Item
    <3>2. PICK n \in 0..reserved : /\ queuedDiscovered' = queuedDiscovered + n
                                   /\ Push(SitemapURLs(h, n), i.depth + 1)
      BY <1>1, <2>3 DEF FetcherOnboarded
    <3> HIDE DEF i, h
    <3>3. reserved \in Nat /\ queuedDiscovered + reserved <= MaxDiscovered
      BY <1>1, <1>2, <3>1, SitemapType, ReservedFits
    <3> HIDE DEF reserved
    <3>4. n \in Nat /\ n <= reserved
      BY <3>3
    <3>5. /\ IsFiniteSet(SitemapURLs(h, n)) /\ Cardinality(SitemapURLs(h, n)) \in Nat
          /\ Cardinality(SitemapURLs(h, n)) <= n
      BY <3>1, <3>4, SitemapCount
    <3>6. Cardinality(seen') <= sees + Cardinality(SitemapURLs(h, n))
      BY <3>2, <3>5, PushCount DEF sees
    <3>7. Cardinality(Pushing') = pushes
      BY <2>2 DEF pushes
    <3> QED
      BY <1>1, <1>2, <2>1, <3>2, <3>3, <3>4, <3>5, <3>6, <3>7
  <2>4. CASE ~FetcherOnboarded(f)
    <3>1. UNCHANGED <<seen, queuedDiscovered>>
      BY <1>4, <2>4 DEF Fetcher, FetcherTake, FetcherOnboard, FetcherOnboardFails, FetcherRobots,
         FetcherFetch, FetcherFetched, FetcherSend, FetcherCancelled, FetcherExit, frontierVars,
         onboardVars
    <3> QED
      BY <1>3, <2>1, <2>2, <3>1
  <2> QED
    BY <2>3, <2>4
\* A link is paid for from urlsDiscovered before it is pushed.
<1>5. ASSUME NEW p \in Parsers, Parser(p)
      PROVE  /\ urlsDiscovered' <= MaxDiscovered /\ queuedDiscovered' <= MaxDiscovered
             /\ Cardinality(seen') + Cardinality(Pushing') <= urlsDiscovered' + queuedDiscovered' - K
  <2>1. UNCHANGED queuedDiscovered
    BY <1>5 DEF Parser, ParserTake, ParserCount, ParserReserve, ParserPush, ParserSend,
       ParserCancelled, ParserExit, OthersOfParse, onboardVars
  <2>2. CASE ParserReserve(p) /\ LinkAdmitted(p)
    <3>1. /\ ParserStep(p, "links", "push") /\ urlsDiscovered' = urlsDiscovered + 1
          /\ urlsDiscovered < MaxDiscovered /\ UNCHANGED seen
      BY <1>1, <2>2 DEF ParserReserve, LinkAdmitted, frontierVars
    <3>2. Cardinality(Pushing') = pushes + 1 /\ Cardinality(seen') = sees
      <4>1. Cardinality(Pushing') = pushes + One("push" = "push") - One("links" = "push")
        BY <3>1, PushingStep DEF pushes
      <4> QED
        BY <1>1, <3>1, <4>1 DEF One, sees
    <3> QED
      BY <1>1, <1>2, <2>1, <3>1, <3>2
  <2>3. CASE ParserPush(p)
    <3>1. /\ ParserStep(p, "push", "links") /\ UNCHANGED urlsDiscovered
          /\ Push({Head(parserLinks[p])}, parserItem[p].depth + 1)
      BY <2>3 DEF ParserPush
    <3>2. Cardinality(Pushing') = pushes - 1
      <4>1. Cardinality(Pushing') = pushes + One("links" = "push") - One("push" = "push")
        BY <3>1, PushingStep DEF pushes
      <4> QED
        BY <1>1, <4>1 DEF One
    <3>3. Cardinality(seen') <= sees + 1
      <4>1. IsFiniteSet({Head(parserLinks[p])}) /\ Cardinality({Head(parserLinks[p])}) = 1
        BY FS_Singleton
      <4> QED
        BY <3>1, <4>1, PushCount DEF sees
    <3> QED
      BY <1>1, <1>2, <2>1, <3>1, <3>2, <3>3
  <2>4. CASE ~(ParserReserve(p) /\ LinkAdmitted(p)) /\ ~ParserPush(p)
    <3>1. UNCHANGED <<seen, urlsDiscovered>>
      BY <1>5, <2>4 DEF Parser, ParserTake, ParserCount, ParserReserve, ParserSend, ParserCancelled,
         ParserExit, frontierVars
    <3>2. parserPc'[p] # "push"
      BY <1>5, <2>4 DEF Parser, ParserTake, ParserCount, ParserReserve, ParserSend, ParserCancelled,
         ParserExit, ParserStep, TypeInv, TypeOK
    <3>3. Pushing' \subseteq Pushing
      BY <1>5, <3>2, ParserFrame DEF Pushing
    <3> QED
      BY <1>3, <2>1, <3>1, <3>3
  <2> QED
    BY <2>2, <2>3, <2>4
<1>6. CASE ~(\E f \in Fetchers : Fetcher(f)) /\ ~(\E p \in Parsers : Parser(p))
  <2>1. UNCHANGED <<seen, urlsDiscovered, queuedDiscovered>>
    BY <1>6 DEF Next, Finished, Dispatcher, DispatchReadPages, DispatchPop, DispatchNothing,
       DispatchSend, DispatchSendCancelled, DispatchReadCap, DispatchReadQueue,
       DispatchReadInFlight, DispatchTick, DispatchDone, DispatchShutdown, Finalize,
       OthersOfDispatch, Persister, PersistTake, PersistItem, PersistFails, PersistRetry,
       PersistCancelled, PersistFatal, PersisterExit, OthersOfPersist, Environment, Cancel, Panic,
       RecoverWorker, OthersOfPanic, frontierVars, onboardVars, counterVars, vars
  <2>2. Pushing' \subseteq Pushing
    BY <1>6, OtherWorkers DEF Pushing
  <2> QED
    BY <1>3, <2>1, <2>2 DEF K
<1> QED
  BY <1>4, <1>5, <1>6 DEF K

\* At first the seeds and the sitemap of their host were paid for.
LEMMA InitBudget == Init => BudgetInv
<1> SUFFICES ASSUME Init, MaxDiscovered >= Cardinality(Seeds)
             PROVE  /\ urlsDiscovered <= MaxDiscovered /\ queuedDiscovered <= MaxDiscovered
                    /\ Cardinality(seen) + Cardinality(Pushing)
                         <= urlsDiscovered + queuedDiscovered - Cardinality(Seeds)
  BY DEF BudgetInv
<1> DEFINE K == Cardinality(Seeds)
           h == CHOOSE x \in SeedHosts : TRUE
           n == SitemapReserved(h, K)
           S == SitemapURLs(h, n) \ Seeds
<1>1. K \in Nat \ {0} /\ MaxDiscovered \in Nat \ {0} /\ IsFiniteSet(Seeds)
  <2>1. K \in Nat \ {0} /\ IsFiniteSet(Seeds)
    BY InitType, SeenFinite
  <2> QED
    BY <2>1, BudgetAssumption
<1>2. h \in Hosts
  BY SiteAssumption DEF SeedHosts
<1>3. seen = Seeds \cup S /\ urlsDiscovered = Cardinality(seen) /\ queuedDiscovered = K + n
  <2>1. queuedDiscovered = K + (IF MaxDiscovered = 0 THEN 0 ELSE n)
    BY Zenon DEF Init
  <2>2. seen = Seeds \cup S /\ urlsDiscovered = Cardinality(seen)
    BY Zenon DEF Init
  <2> QED
    BY <1>1, <2>1, <2>2
<1>4. Cardinality(Pushing) = 0
  <2>1. \A p \in Parsers : parserPc[p] = "idle"
    BY DEF Init
  <2>2. Pushing = {}
    BY <2>1 DEF Pushing
  <2> QED
    BY <2>2, FS_EmptySet
<1> HIDE DEF h
<1>5. n \in Nat /\ K + n <= MaxDiscovered
  BY <1>1, <1>2, SitemapType, ReservedFits
<1> HIDE DEF n
<1>6. /\ IsFiniteSet(SitemapURLs(h, n)) /\ Cardinality(SitemapURLs(h, n)) \in Nat
      /\ Cardinality(SitemapURLs(h, n)) <= n
  BY <1>2, <1>5, SitemapCount
<1>7. IsFiniteSet(S) /\ Cardinality(S) \in Nat /\ Cardinality(S) <= n
  <2>1. S \in SUBSET SitemapURLs(h, n)
    OBVIOUS
  <2>2. IsFiniteSet(S) /\ Cardinality(S) <= Cardinality(SitemapURLs(h, n))
    BY <1>6, <2>1, FS_Subset
  <2>3. Cardinality(S) \in Nat
    BY <2>2, FS_CardinalityType
  <2> QED
    BY <1>5, <1>6, <2>2, <2>3
<1>8. Cardinality(seen) \in Nat /\ Cardinality(seen) = K + Cardinality(S)
  <2>1. Seeds \cap S = {}
    OBVIOUS
  <2> HIDE DEF S
  <2>2. Cardinality(Seeds \cup S) = K + Cardinality(S) - Cardinality(Seeds \cap S)
    BY <1>1, <1>7, FS_Union
  <2>3. Cardinality(Seeds \cap S) = 0
    BY <2>1, FS_EmptySet
  <2> QED
    BY <1>1, <1>3, <1>7, <2>2, <2>3
<1> HIDE DEF S, K
<1> QED
  BY <1>1, <1>3, <1>4, <1>5, <1>7, <1>8 DEF K

\* For every site, whatever its sitemaps and links, in every order of the workers: links
\* and sitemaps together never queue more than their two budgets.
THEOREM DiscoveryKept == Spec => []DiscoveryBounded
<1>1. TypeInv /\ TypeInv' /\ BudgetInv /\ [Next]_vars => BudgetInv'
  BY BudgetStep
<1>2. TypeInv /\ BudgetInv => DiscoveryBounded
  <2> SUFFICES ASSUME TypeInv, BudgetInv, MaxDiscovered >= Cardinality(Seeds)
               PROVE  Cardinality(seen) <= 2 * MaxDiscovered - Cardinality(Seeds)
    BY DEF DiscoveryBounded
  <2>1. /\ Cardinality(seen) \in Nat /\ Cardinality(Pushing) \in Nat /\ Cardinality(Seeds) \in Nat
        /\ urlsDiscovered \in Nat /\ queuedDiscovered \in Nat /\ MaxDiscovered \in Nat
    BY SeenFinite, BudgetAssumption DEF TypeInv, TypeOK
  <2>2. /\ urlsDiscovered <= MaxDiscovered /\ queuedDiscovered <= MaxDiscovered
        /\ Cardinality(seen) + Cardinality(Pushing)
             <= urlsDiscovered + queuedDiscovered - Cardinality(Seeds)
    BY DEF BudgetInv
  <2> QED
    BY <2>1, <2>2
<1> QED
  BY <1>1, <1>2, InitBudget, TypeCorrect, PTL DEF Spec


-----------------------------------------------------------------------------
(* The promise of Crawl: the stage of each URL.                             *)

\* Home(u, h): h is the only place of the pipeline that may have an item of u.
Home(u, h) ==
    /\ u \notin seen => h = "new"
    /\ HasUrl(frontier, u) => h = "frontier"
    /\ HasUrl(DispItems, u) => h = "dispatcher"
    /\ HasUrl(ItemsIn(fetchQueue), u) => h = "fetchQueue"
    /\ HasUrl(FetcherItems(FetcherHands), u) => h = "fetcher"
    /\ HasUrl(ItemsIn(fetchResults), u) => h = "fetchResults"
    /\ HasUrl(ParserItems, u) => h = "parser"
    /\ HasUrl(ItemsIn(persistQueue), u) => h = "persistQueue"
    /\ HasUrl(PersisterItems, u) => h = "persister"
    /\ HasUrl(fetches, u) => h = "stored"

\* The stage of a URL agrees with whoever has its item.
StageInv ==
    \A u \in URLs :
        /\ HasUrl(frontier, u) => StageOf(u) = "waiting"
        /\ HasUrl(Asked, u) => StageOf(u) = "taken"
        /\ HasUrl(Answered, u) => StageOf(u) = "answered"
        /\ HasUrl(fetches, u) => StageOf(u) = "stored"

\* A and B differ by items of u only; a step that touches items of u only.
ButFor(A, B, u) == {i \in A : i.url # u} = {i \in B : i.url # u}
OthersStay(u) ==
    /\ UNCHANGED seen
    /\ ButFor(frontier, frontier', u) /\ ButFor(Asked, Asked', u)
    /\ ButFor(Answered, Answered', u) /\ ButFor(fetches, fetches', u)

\* Every URL has a home.
LEMMA HomeOf ==
    ASSUME OneItem, NEW u \in URLs
    PROVE  \E h \in Stages : Home(u, h)
<1>1. PICK at \in [URLs -> Stages] : Placed(at)
  BY DEF OneItem
<1>2. Home(u, at[u])
  BY <1>1 DEF Placed, Home, HasUrl, DispItems, FetcherItems, ParserItems, PersisterItems
<1> QED
  BY <1>1, <1>2

\* The fetchers hold items whose fetch has not ended and items whose fetch has.
LEMMA FetcherHalves ==
    FetcherItems(FetcherHands) = FetcherItems(FetcherHands \ {"send"}) \cup FetcherItems({"send"})
BY DEF FetcherItems, FetcherHands

\* One item for each URL leaves each URL in one stage.
LEMMA StagesExact == OneItem => StageInv
<1> SUFFICES ASSUME OneItem, NEW u \in URLs
             PROVE  /\ HasUrl(frontier, u) => StageOf(u) = "waiting"
                    /\ HasUrl(Asked, u) => StageOf(u) = "taken"
                    /\ HasUrl(Answered, u) => StageOf(u) = "answered"
                    /\ HasUrl(fetches, u) => StageOf(u) = "stored"
  BY DEF StageInv
<1>1. PICK h \in Stages : Home(u, h)
  BY HomeOf
<1>2. HasUrl(Asked, u) => h \in {"dispatcher", "fetchQueue", "fetcher"}
  BY <1>1, FetcherHalves DEF Home, HasUrl, Asked
<1>3. HasUrl(Answered, u) => h \in {"fetchResults", "parser", "persistQueue", "persister", "fetcher"}
  BY <1>1, FetcherHalves DEF Home, HasUrl, Answered
<1>4. ~(HasUrl(Asked, u) /\ HasUrl(Answered, u))
  <2> SUFFICES ASSUME HasUrl(Asked, u), HasUrl(Answered, u) PROVE FALSE
    OBVIOUS
  <2>1. h = "fetcher"
    BY <1>2, <1>3
  <2>2. PICK f \in Fetchers : fetcherPc[f] \in FetcherHands \ {"send"} /\ fetcherItem[f].url = u
    BY <1>1, <2>1 DEF Home, HasUrl, Asked, FetcherItems
  <2>3. PICK g \in Fetchers : fetcherPc[g] = "send" /\ fetcherItem[g].url = u
    BY <1>1, <2>1 DEF Home, HasUrl, Answered, FetcherItems
  <2> QED
    BY <2>2, <2>3 DEF OneItem, Alone, FetcherHands
<1>5. h # "new" => u \in seen
  BY <1>1 DEF Home
<1>6. /\ HasUrl(frontier, u) => h = "frontier"
      /\ HasUrl(fetches, u) => h = "stored"
  BY <1>1 DEF Home
<1> QED
  BY <1>2, <1>3, <1>4, <1>5, <1>6 DEF StageOf

\* A step that touches items of u only leaves every other URL in its stage.
LEMMA StagesStay ==
    ASSUME NEW u, OthersStay(u), NEW v, v # u
    PROVE  StageOf(v)' = StageOf(v)
<1>1. /\ HasUrl(frontier, v)' <=> HasUrl(frontier, v)
      /\ HasUrl(Asked, v)' <=> HasUrl(Asked, v)
      /\ HasUrl(Answered, v)' <=> HasUrl(Answered, v)
      /\ HasUrl(fetches, v)' <=> HasUrl(fetches, v)
  BY DEF OthersStay, ButFor, HasUrl
<1> QED
  BY <1>1 DEF StageOf, OthersStay

\* Sets that differ by items of u only.
LEMMA ButForSets ==
    ASSUME NEW u, NEW A, NEW B
    PROVE  /\ ButFor(A, A, u)
           /\ (\A i \in A : i \in B \/ i.url = u) /\ (\A i \in B : i \in A \/ i.url = u)
                  => ButFor(A, B, u)
           /\ \A C, D : ButFor(A, B, u) /\ ButFor(C, D, u) => ButFor(A \cup C, B \cup D, u)
BY DEF ButFor

\* The job row has its final status when the dispatcher is through, an error of the
\* dispatcher is a cancellation, and a URL that was pushed has a row.
OutcomeInv ==
    /\ jobStatus = "running" <=> dispPc # "finalized"
    /\ completionErr # "none" => Cancelled
    /\ \A u \in seen : urlStatus[u] # "unknown"

\* Everything the steps of the promise rest on.
PromiseInv ==
    /\ TypeInv /\ OneItem /\ StageInv /\ StatusInv /\ DrainInv /\ OutcomeInv
    /\ InFlightAccounting /\ NoSendOnClosedChannel

\* A step that moves one URL is a step of the promise for that URL.
LEMMA StepOf ==
    ASSUME NEW u \in URLs, OthersStay(u), NEW from, NEW to, StageOf(u) = from, StageOf(u)' = to,
           jobStatus = "running", UNCHANGED jobStatus
    PROVE  Promise!Step(u, from, to)
<1>1. \A v \in URLs \ {u} : StageOf(v)' = StageOf(v)
  BY StagesStay
<1> HIDE DEF StageOf
<1>2. [v \in URLs |-> StageOf(v)]' = [[v \in URLs |-> StageOf(v)] EXCEPT ![u] = to]
  BY <1>1
<1> QED
  BY <1>2 DEF Promise!Step

\* A step that leaves every URL in its stage, its row and the peace of the crawl is none
\* of the promise's.
LEMMA NoStep ==
    ASSUME \A v \in URLs : StageOf(v)' = StageOf(v), UNCHANGED <<urlStatus, jobStatus, Quiet>>
    PROVE  UNCHANGED Promise!vars
<1>1. UNCHANGED [v \in URLs |-> StageOf(v)]
  OBVIOUS
<1> QED
  BY <1>1 DEF Promise!vars

\* No goroutine disturbs the crawl but a persister that gives up.
LEMMA QuietStays ==
    ASSUME TypeInv,
           \/ Dispatcher \/ (\E f \in Fetchers : Fetcher(f)) \/ (\E p \in Parsers : Parser(p))
           \/ Persister /\ (persisterPc' = "fatal" => persisterPc = "fatal")
    PROVE  UNCHANGED Quiet
<1>1. Quiet' => Quiet
  BY QuietBefore DEF Next
<1>2. ASSUME Quiet, NEW f \in Fetchers, Fetcher(f) PROVE Quiet'
  <2>1. UNCHANGED <<cause, parserPc, persisterPc>> /\ fetcherPc'[f] \notin {"panicked", "crashed"}
    BY <1>2 DEF Fetcher, FetcherTake, FetcherOnboard, FetcherOnboarded, FetcherOnboardFails,
       FetcherRobots, FetcherFetch, FetcherFetched, FetcherSend, FetcherCancelled, FetcherExit,
       OthersOfFetch, FetcherStep, parserVars, persisterVars, TypeInv, TypeOK
  <2> QED
    BY <1>2, <2>1, FetcherFrame DEF Quiet, Cancelled
<1>3. ASSUME Quiet, NEW p \in Parsers, Parser(p) PROVE Quiet'
  <2>1. parserPc'[p] \notin {"panicked", "crashed"} /\ UNCHANGED <<cause, fetcherPc, persisterPc>>
    BY <1>3 DEF Parser, ParserTake, ParserCount, ParserReserve, ParserPush, ParserSend,
       ParserCancelled, ParserExit, ParserStep, OthersOfParse, fetcherVars, persisterVars, TypeInv, TypeOK
  <2> QED
    BY <1>3, <2>1, ParserFrame DEF Quiet, Cancelled
<1>4. ASSUME Quiet, Persister, persisterPc' = "fatal" => persisterPc = "fatal" PROVE Quiet'
  <2>1. persisterPc \notin {"fatal", "panicked", "crashed"}
    BY <1>4 DEF Quiet
  <2>2. /\ UNCHANGED <<cause, fetcherPc, parserPc>>
        /\ persisterPc' \notin {"fatal", "panicked", "crashed"}
    BY <1>4, <2>1 DEF Persister, PersistTake, PersistItem, PersistFails, PersistRetry, PersistCancelled,
       PersistFatal, PersisterExit, PersisterStep, OthersOfPersist, fetcherVars, parserVars
  <2> QED
    BY <1>4, <2>2 DEF Quiet, Cancelled
<1>5. ASSUME Quiet, Dispatcher PROVE Quiet'
  <2>1. UNCHANGED <<cause, fetcherPc, parserPc, persisterPc>>
    BY <1>5 DEF Dispatcher, DispatchReadPages, DispatchPop, DispatchNothing, DispatchSend,
       DispatchSendCancelled, DispatchReadCap, DispatchReadQueue, DispatchReadInFlight,
       DispatchTick, DispatchDone, DispatchShutdown, Finalize, OthersOfDispatch, fetcherVars,
       parserVars, persisterVars
  <2> QED
    BY <1>5, <2>1 DEF Quiet, Cancelled
<1>6. (Quiet' => Quiet) /\ (Quiet => Quiet')
  BY <1>1, <1>2, <1>3, <1>4, <1>5
<1> QED
  BY <1>6 DEF Quiet

\* A URL that was pushed and has no home any more is closed.
LEMMA ClosedAfter ==
    ASSUME NEW u, Home(u, "gone")'
    PROVE  StageOf(u)' = "closed"
<1>1. /\ u \in seen' /\ ~HasUrl(frontier, u)' /\ ~HasUrl(fetches, u)'
      /\ ~HasUrl(DispItems, u)' /\ ~HasUrl(ItemsIn(fetchQueue), u)'
      /\ ~HasUrl(FetcherItems(FetcherHands), u)' /\ ~HasUrl(ItemsIn(fetchResults), u)'
      /\ ~HasUrl(ParserItems, u)' /\ ~HasUrl(ItemsIn(persistQueue), u)' /\ ~HasUrl(PersisterItems, u)'
  BY DEF Home
<1>2. FetcherItems(FetcherHands)' =
         FetcherItems(FetcherHands \ {"send"})' \cup FetcherItems({"send"})'
  BY DEF FetcherItems, FetcherHands
<1>3. ~HasUrl(Asked, u)' /\ ~HasUrl(Answered, u)'
  BY <1>1, <1>2 DEF Asked, Answered, HasUrl
<1> QED
  BY <1>1, <1>3 DEF StageOf

\* The dispatcher takes URLs, gives one up when the crawl is cancelled, and has the last
\* word: a crawl it completes in peace has nothing on its way.
LEMMA DispatcherRefines ==
    ASSUME PromiseInv, StageInv', Dispatcher
    PROVE  [Promise!Next]_(Promise!vars)
<1>1. /\ UNCHANGED <<seen, fetches, urlStatus>>
      /\ UNCHANGED <<FetcherItems(FetcherHands), FetcherItems(FetcherHands \ {"send"})>>
      /\ UNCHANGED <<ItemsIn(fetchResults), ParserItems, ItemsIn(persistQueue), PersisterItems>>
      /\ UNCHANGED Answered
  <2>1. UNCHANGED <<seen, fetches, urlStatus, fetcherPc, fetcherItem, fetchResults, parserPc,
                    parserItem, persistQueue, persisterPc, persisterItem>>
    BY DEF Dispatcher, DispatchReadPages, DispatchPop, DispatchNothing, DispatchSend,
       DispatchSendCancelled, DispatchReadCap, DispatchReadQueue, DispatchReadInFlight, DispatchTick,
       DispatchDone, DispatchShutdown, Finalize, OthersOfDispatch, rowVars, frontierVars, fetcherVars,
       parserVars, persisterVars, channels
  <2> QED
    BY <2>1, HandsUnchanged DEF Answered
<1>2. UNCHANGED Quiet
  BY QuietStays DEF PromiseInv
<1>3. ~Finalize => UNCHANGED jobStatus
  BY DEF Dispatcher, DispatchReadPages, DispatchPop, DispatchNothing, DispatchSend,
     DispatchSendCancelled, DispatchReadCap, DispatchReadQueue, DispatchReadInFlight, DispatchTick,
     DispatchDone, DispatchShutdown, OthersOfDispatch, rowVars
<1>4. dispPc # "finalized" => jobStatus = "running"
  BY DEF PromiseInv, OutcomeInv
<1>5. CASE DispatchPop
  <2>1. PICK i \in frontier : dispItem' = i /\ frontier' = frontier \ {i}
    BY <1>5 DEF DispatchPop, Lowest
  <2>2. /\ dispPc = "cap" /\ dispPc' = "send" /\ UNCHANGED <<fetchQueue, jobStatus>>
    BY <1>5 DEF DispatchPop, DispatchStep, OthersOfDispatch, rowVars
  <2>3. i.url \in URLs
    BY <2>1, ItemUrls DEF PromiseInv
  <2>4. UNCHANGED ItemsIn(fetchQueue) /\ DispItems = {} /\ DispItems' = {i}
    BY <2>1, <2>2, HandsUnchanged DEF DispItems
  <2>5. OthersStay(i.url)
    BY <1>1, <2>1, <2>4 DEF OthersStay, ButFor, Asked
  <2>6. StageOf(i.url) = "waiting"
    BY <2>1, <2>3 DEF PromiseInv, StageInv, HasUrl
  <2>7. StageOf(i.url)' = "taken"
    BY <2>3, <2>4 DEF StageInv, HasUrl, Asked
  <2>8. Promise!Take(i.url)
    BY <1>1, <1>2, <1>4, <2>2, <2>3, <2>5, <2>6, <2>7, StepOf DEF Promise!Take
  <2> QED
    BY <2>3, <2>8 DEF Promise!Next
<1>6. CASE DispatchSend
  <2>1. /\ fetchQueue' = Append(fetchQueue, dispItem) /\ fetchQueue \in Seq(Item)
        /\ dispItem \in Item /\ dispPc = "send" /\ dispPc' = "poll"
        /\ UNCHANGED <<frontier, jobStatus>>
    BY <1>6 DEF DispatchSend, DispatchStep, PromiseInv, TypeInv, TypeOK, HandsFull, OthersOfDispatch,
       rowVars
  <2>2. ItemsIn(Append(fetchQueue, dispItem)) = ItemsIn(fetchQueue) \cup {dispItem}
    BY <2>1, QueueItems
  <2>3. UNCHANGED Asked
    BY <1>1, <2>1, <2>2 DEF ItemsIn, DispItems, Asked
  <2>4. \A v \in URLs : StageOf(v)' = StageOf(v)
    BY <1>1, <2>1, <2>3 DEF StageOf, HasUrl
  <2> QED
    BY <1>1, <1>2, <2>1, <2>4, NoStep
<1>7. CASE DispatchSendCancelled
  <2>1. /\ dispPc = "send" /\ dispPc' = "waitFetchers" /\ Cancelled
        /\ UNCHANGED <<frontier, fetchQueue, jobStatus>>
    BY <1>7 DEF DispatchSendCancelled, DispatchStep, OthersOfDispatch, rowVars
  <2>2. PICK u \in URLs : u = dispItem.url
    BY <2>1, ItemUrls DEF PromiseInv
  <2>3. UNCHANGED ItemsIn(fetchQueue) /\ DispItems = {dispItem} /\ DispItems' = {}
    BY <2>1, HandsUnchanged DEF DispItems
  <2>4. OthersStay(u)
    BY <1>1, <2>1, <2>2, <2>3 DEF OthersStay, ButFor, Asked
  <2>5. StageOf(u) = "taken"
    BY <2>2, <2>3 DEF PromiseInv, StageInv, HasUrl, Asked
  <2>6. PICK h \in Stages : Home(u, h)
    BY <2>2, HomeOf DEF PromiseInv
  <2>7. h = "dispatcher"
    BY <2>2, <2>3, <2>6 DEF Home, HasUrl
  <2>8. Home(u, "gone")'
    BY <1>1, <2>1, <2>3, <2>6, <2>7 DEF Home, HasUrl
  <2>9. ~Quiet'
    BY <1>2, <2>1 DEF Quiet
  <2>10. Promise!Abandon(u)
    BY <1>1, <1>4, <2>1, <2>2, <2>4, <2>5, <2>8, <2>9, ClosedAfter, StepOf DEF Promise!Abandon
  <2> QED
    BY <2>2, <2>10 DEF Promise!Next
<1>8. CASE Finalize
  <2>1. /\ dispPc = "returned" /\ UNCHANGED <<frontier, dispItem, fetchQueue>>
        /\ dispPc' = "finalized"
        /\ jobStatus' = IF completionErr = "none" THEN "completed"
                        ELSE IF "external" \in {completionErr, cause} THEN "cancelled"
                        ELSE "failed"
    BY <1>8 DEF Finalize, DispatchStep, frontierVars, channels
  <2>2. UNCHANGED <<DispItems, ItemsIn(fetchQueue)>>
    BY <2>1, HandsUnchanged DEF DispItems
  <2>3. UNCHANGED [v \in URLs |-> StageOf(v)]
    BY <1>1, <2>1, <2>2 DEF StageOf, HasUrl, Asked
  <2>4. ASSUME completionErr = "none", Quiet
        PROVE  \A v \in URLs : StageOf(v) \notin {"taken", "answered"}
    <3>1. inFlight = 0
      BY <2>1, <2>4 DEF PromiseInv, DrainInv, FetchQueueClosed
    <3>2. /\ dispPc # "send" /\ ~Holding(persisterPc)
          /\ fetchQueue = <<>> /\ fetchResults = <<>> /\ persistQueue = <<>>
          /\ \A f \in Fetchers : ~Holding(fetcherPc[f])
          /\ \A p \in Parsers : ~Holding(parserPc[p])
      BY <3>1, NothingHeld DEF PromiseInv
    <3>3. Asked = {} /\ Answered = {}
      BY <3>2 DEF Asked, Answered, DispItems, PersisterItems, ParserItems, FetcherItems, ItemsIn,
         Holding, FetcherHands, ParserHands
    <3> QED
      BY <3>3 DEF StageOf, HasUrl
  <2>5. completionErr # "none" => ~Quiet
    BY DEF PromiseInv, OutcomeInv, Quiet
  <2>6. /\ completionErr = "none" /\ Quiet => Promise!At("taken") \cup Promise!At("answered") = {}
    BY <2>4 DEF Promise!At
  <2>7. CASE completionErr = "none"
    <3>1. jobStatus = "running" /\ jobStatus' = "completed" /\ UNCHANGED <<urlStatus, ~Quiet>>
      BY <1>1, <1>2, <1>4, <2>1, <2>7
    <3>2. Promise!End
      BY <2>3, <2>6, <2>7, <3>1 DEF Promise!End
    <3> QED
      BY <3>2 DEF Promise!Next
  <2>8. CASE completionErr # "none"
    <3>1. /\ jobStatus = "running" /\ jobStatus' \in {"failed", "cancelled"} /\ ~Quiet
          /\ UNCHANGED <<urlStatus, ~Quiet>>
      BY <1>1, <1>2, <1>4, <2>1, <2>5, <2>8
    <3>2. Promise!End
      BY <2>3, <3>1 DEF Promise!End
    <3> QED
      BY <3>2 DEF Promise!Next
  <2> QED
    BY <2>7, <2>8
<1>9. CASE ~DispatchPop /\ ~DispatchSend /\ ~DispatchSendCancelled /\ ~Finalize
  <2>1. dispPc # "send" /\ dispPc' # "send" /\ UNCHANGED <<frontier, fetchQueue>>
    BY <1>9 DEF Dispatcher, DispatchReadPages, DispatchNothing, DispatchReadCap, DispatchReadQueue,
       DispatchReadInFlight, DispatchTick, DispatchDone, DispatchShutdown, DispatchStep
  <2>2. UNCHANGED <<DispItems, ItemsIn(fetchQueue)>>
    BY <2>1, HandsUnchanged DEF DispItems
  <2>3. \A v \in URLs : StageOf(v)' = StageOf(v)
    BY <1>1, <2>1, <2>2 DEF StageOf, HasUrl, Asked
  <2> QED
    BY <1>1, <1>2, <1>3, <1>9, <2>3, NoStep
<1> QED
  BY <1>5, <1>6, <1>7, <1>8, <1>9

\* A fetcher that holds an item of u, before a step or after it, touches items of u only.
LEMMA FetcherTouches ==
    ASSUME NEW f \in Fetchers, NEW u,
           \A g \in Fetchers \ {f} : fetcherPc'[g] = fetcherPc[g] /\ fetcherItem'[g] = fetcherItem[g],
           fetcherPc[f] \in FetcherHands => fetcherItem[f].url = u,
           fetcherPc'[f] \in FetcherHands => fetcherItem'[f].url = u
    PROVE  /\ ButFor(FetcherItems(FetcherHands \ {"send"}), FetcherItems(FetcherHands \ {"send"})', u)
           /\ ButFor(FetcherItems({"send"}), FetcherItems({"send"})', u)
<1>1. "send" \in FetcherHands
  BY DEF FetcherHands
<1>2. ASSUME NEW pcs \in SUBSET FetcherHands
      PROVE  ButFor(FetcherItems(pcs), FetcherItems(pcs)', u)
  BY FetcherMoves, ButForSets
<1> QED
  BY <1>1, <1>2

\* A step of a fetcher that holds u, and of the channels on its two sides.
LEMMA FetcherAside ==
    ASSUME TypeInv, NEW f \in Fetchers, Fetcher(f), NEW u,
           fetcherPc[f] \in FetcherHands => fetcherItem[f].url = u,
           fetcherPc'[f] \in FetcherHands => fetcherItem'[f].url = u,
           UNCHANGED <<seen, frontier>>,
           ButFor(ItemsIn(fetchQueue), ItemsIn(fetchQueue)', u),
           ButFor(ItemsIn(fetchResults), ItemsIn(fetchResults)', u)
    PROVE  OthersStay(u)
<1>1. /\ ButFor(FetcherItems(FetcherHands \ {"send"}), FetcherItems(FetcherHands \ {"send"})', u)
      /\ ButFor(FetcherItems({"send"}), FetcherItems({"send"})', u)
  BY FetcherFrame, FetcherTouches
<1>2. /\ UNCHANGED <<DispItems, ParserItems, PersisterItems, ItemsIn(persistQueue), fetches>>
  BY FetcherFrame
<1>3. ButFor(Asked, Asked', u)
  BY <1>1, <1>2, ButForSets DEF Asked
<1>4. ButFor(Answered, Answered', u)
  BY <1>1, <1>2, ButForSets DEF Answered
<1> QED
  BY <1>2, <1>3, <1>4 DEF OthersStay, ButFor

\* A fetcher that lets go of its item, and nobody takes it, leaves its URL without a home.
LEMMA FetcherCloses ==
    ASSUME OneItem, NEW f \in Fetchers, NEW u \in URLs, u = fetcherItem[f].url,
           fetcherPc[f] \in FetcherHands, fetcherPc'[f] \notin FetcherHands,
           \A g \in Fetchers \ {f} : fetcherPc'[g] = fetcherPc[g] /\ fetcherItem'[g] = fetcherItem[g],
           UNCHANGED <<seen, frontier, DispItems, ItemsIn(fetchQueue), ItemsIn(fetchResults),
                       ParserItems, ItemsIn(persistQueue), PersisterItems, fetches>>
    PROVE  OthersStay(u) /\ StageOf(u)' = "closed"
<1>1. PICK h \in Stages : Home(u, h)
  BY HomeOf
<1>2. h = "fetcher"
  BY <1>1, FetcherMoves DEF Home, HasUrl
<1>3. ~HasUrl(FetcherItems(FetcherHands), u)'
  <2> SUFFICES ASSUME NEW g \in Fetchers, fetcherPc'[g] \in FetcherHands, fetcherItem'[g].url = u
               PROVE  FALSE
    BY DEF HasUrl, FetcherItems
  <2> QED
    BY DEF OneItem, Alone
<1>4. Home(u, "gone")'
  BY <1>1, <1>2, <1>3 DEF Home, HasUrl
<1>5. /\ ButFor(FetcherItems(FetcherHands \ {"send"}), FetcherItems(FetcherHands \ {"send"})', u)
      /\ ButFor(FetcherItems({"send"}), FetcherItems({"send"})', u)
  BY FetcherTouches
<1>6. ButFor(Asked, Asked', u) /\ ButFor(Answered, Answered', u)
  BY <1>5, ButForSets DEF Asked, Answered
<1> QED
  BY <1>4, <1>6, ClosedAfter DEF OthersStay, ButFor

\* What is pushed to the frontier is discovered, and gets a row if it has none.
LEMMA PushRefines ==
    ASSUME PromiseInv, StageInv', NEW T \in SUBSET URLs, NEW d, Push(T, d),
           urlStatus' = UpsertURLs(T), jobStatus = "running",
           UNCHANGED <<Asked, Answered, fetches, jobStatus, Quiet>>
    PROVE  Promise!Next
<1> DEFINE S == T \ seen
<1>1. /\ seen' = seen \cup S /\ S \in SUBSET URLs /\ S \cap seen = {}
      /\ frontier' = frontier \cup {NewItem(u, d) : u \in S}
  BY DEF Push
<1>2. \A u \in S : StageOf(u) = "new"
  BY <1>1 DEF StageOf
<1>3. ASSUME NEW u \in S PROVE StageOf(u)' = "waiting"
  <2>1. NewItem(u, d) \in frontier' /\ NewItem(u, d).url = u
    BY <1>1, <1>3 DEF NewItem
  <2>2. HasUrl(frontier, u)'
    BY <2>1 DEF HasUrl
  <2> QED
    BY <1>1, <2>2 DEF StageInv
<1>4. ASSUME NEW u \in URLs \ S PROVE StageOf(u)' = StageOf(u)
  <2>1. \A v \in S : NewItem(v, d).url # u
    BY <1>4 DEF NewItem
  <2>2. HasUrl(frontier, u)' <=> HasUrl(frontier, u)
    BY <1>1, <2>1 DEF HasUrl
  <2>3. u \in seen' <=> u \in seen
    BY <1>1, <1>4
  <2> QED
    BY <2>2, <2>3 DEF StageOf, HasUrl
<1>5. urlStatus' = [u \in URLs |-> IF u \in S /\ urlStatus[u] = "unknown" THEN "queued" ELSE urlStatus[u]]
  BY DEF UpsertURLs, PromiseInv, OutcomeInv
<1> HIDE DEF S, StageOf
<1>6. [u \in URLs |-> StageOf(u)]' =
         [u \in URLs |-> IF u \in S THEN "waiting" ELSE [v \in URLs |-> StageOf(v)][u]]
  BY <1>1, <1>3, <1>4
<1>7. S \in SUBSET Promise!At("new")
  BY <1>1, <1>2 DEF Promise!At
<1>8. Promise!Discover
  BY <1>5, <1>6, <1>7 DEF Promise!Discover, Promise!Known
<1> QED
  BY <1>8 DEF Promise!Next

\* A fetcher with an item in its hands goes through the promise with it: it refuses it,
\* answers it, or abandons it when the crawl is cancelled, and may discover others.
LEMMA HoldingRefines ==
    ASSUME PromiseInv, StageInv', NEW f \in Fetchers, Fetcher(f), fetcherPc[f] \in FetcherHands,
           NEW u \in URLs, u = fetcherItem[f].url
    PROVE  [Promise!Next]_(Promise!vars)
<1>1. /\ UNCHANGED <<Quiet, jobStatus>> /\ jobStatus = "running"
      /\ UNCHANGED <<DispItems, ParserItems, PersisterItems, ItemsIn(persistQueue), fetches>>
      /\ \A g \in Fetchers \ {f} :
            fetcherPc'[g] = fetcherPc[g] /\ fetcherItem'[g] = fetcherItem[g]
  <2>1. UNCHANGED jobStatus
    BY DEF Fetcher, FetcherTake, FetcherOnboard, FetcherOnboarded, FetcherOnboardFails,
       FetcherRobots, FetcherFetch, FetcherFetched, FetcherSend, FetcherCancelled, FetcherExit,
       OthersOfFetch
  <2>2. dispPc # "finalized"
    BY DEF PromiseInv, NoSendOnClosedChannel, FetchResultsClosed, FetcherHands, Gone
  <2> QED
    BY <2>1, <2>2, QuietStays, FetcherFrame DEF PromiseInv, OutcomeInv
<1>2. /\ fetcherItem \in [Fetchers -> Item \cup {NoItem}] /\ fetcherPc \in [Fetchers -> FetcherPc]
      /\ urlStatus \in [URLs -> UrlStatus] /\ fetcherItem[f] \in Item /\ TypeInv
  BY DEF PromiseInv, TypeInv, TypeOK, HandsFull
<1>3. /\ fetcherPc[f] # "send" => StageOf(u) = "taken"
      /\ fetcherPc[f] = "send" => StageOf(u) = "answered"
  <2>1. fetcherPc[f] # "send" => HasUrl(Asked, u)
    BY DEF HasUrl, Asked, FetcherItems
  <2>2. fetcherPc[f] = "send" => HasUrl(Answered, u)
    BY DEF HasUrl, Answered, FetcherItems
  <2> QED
    BY <2>1, <2>2 DEF PromiseInv, StageInv
<1>4. ASSUME fetcherPc'[f] \in FetcherHands, fetcherItem'[f].url = u
      PROVE  /\ fetcherPc'[f] # "send" => StageOf(u)' = "taken"
             /\ fetcherPc'[f] = "send" => StageOf(u)' = "answered"
  <2>1. fetcherPc'[f] # "send" => HasUrl(Asked, u)'
    BY <1>4 DEF HasUrl, Asked, FetcherItems
  <2>2. fetcherPc'[f] = "send" => HasUrl(Answered, u)'
    BY <1>4 DEF HasUrl, Answered, FetcherItems
  <2> QED
    BY <2>1, <2>2 DEF StageInv
<1> HIDE DEF StageOf
<1>5. ASSUME UNCHANGED <<seen, frontier, fetchQueue, fetchResults>>,
             fetcherPc'[f] \in FetcherHands, fetcherItem'[f].url = u
      PROVE  OthersStay(u)
  <2>1. UNCHANGED <<ItemsIn(fetchQueue), ItemsIn(fetchResults)>>
    BY <1>5, HandsUnchanged
  <2> QED
    BY <1>2, <1>5, <2>1, FetcherAside DEF ButFor
<1>6. ASSUME UNCHANGED <<seen, frontier, fetchQueue, fetchResults>>, fetcherPc'[f] \notin FetcherHands
      PROVE  OthersStay(u) /\ StageOf(u)' = "closed"
  <2>1. UNCHANGED <<ItemsIn(fetchQueue), ItemsIn(fetchResults)>>
    BY <1>6, HandsUnchanged
  <2> QED
    BY <1>1, <1>6, <2>1, FetcherCloses DEF PromiseInv
<1>7. ASSUME UNCHANGED <<seen, frontier, fetchQueue, fetchResults, urlStatus>>,
             fetcherPc[f] # "send", fetcherPc'[f] \in FetcherHands \ {"send"}, fetcherItem'[f].url = u
      PROVE  UNCHANGED Promise!vars
  <2>1. \A v \in URLs : StageOf(v)' = StageOf(v)
    BY <1>3, <1>4, <1>5, <1>7, StagesStay
  <2> QED
    BY <1>1, <1>7, <2>1, NoStep
<1>8. CASE FetcherOnboard(f)
  <2>1. UNCHANGED <<seen, frontier, fetchQueue, fetchResults>> /\ fetcherPc[f] = "onboard"
    BY <1>8 DEF FetcherOnboard, FetcherStep, frontierVars
  <2>2. CASE fetcherPc'[f] = "idle"
    <3>1. urlStatus' = [urlStatus EXCEPT ![u] = "skipped_budget"]
      BY <1>2, <1>8, <2>2 DEF FetcherOnboard, FetcherStep
    <3>2. OthersStay(u) /\ StageOf(u)' = "closed"
      BY <1>6, <2>1, <2>2 DEF FetcherHands
    <3>3. Promise!Refuse(u)
      BY <1>1, <1>3, <2>1, <3>1, <3>2, StepOf DEF Promise!Refuse
    <3> QED
      BY <3>3 DEF Promise!Next
  <2>3. CASE fetcherPc'[f] # "idle"
    <3>1. fetcherPc'[f] \in {"robots", "onboarding"} /\ UNCHANGED <<fetcherItem, urlStatus>>
      BY <1>2, <1>8, <2>3 DEF FetcherOnboard, FetcherStep
    <3> QED
      BY <1>7, <2>1, <3>1 DEF FetcherHands
  <2> QED
    BY <2>2, <2>3
<1>9. CASE FetcherOnboarded(f)
  <2>1. /\ UNCHANGED <<fetchQueue, fetchResults, fetcherItem>>
        /\ fetcherPc[f] = "onboarding" /\ fetcherPc'[f] = "robots"
    BY <1>2, <1>9 DEF FetcherOnboarded, FetcherStep
  <2>2. PICK n : /\ Push(SitemapURLs(HostOf[u], n), fetcherItem[f].depth + 1)
                 /\ urlStatus' = UpsertURLs(SitemapURLs(HostOf[u], n))
    BY <1>9 DEF FetcherOnboarded
  <2>3. SitemapURLs(HostOf[u], n) \in SUBSET URLs
    <3>1. HostOf[u] \in Hosts
      BY SiteAssumption
    <3> QED
      BY <3>1, SitemapHost
  <2>4. UNCHANGED <<FetcherItems(FetcherHands \ {"send"}), FetcherItems({"send"})>>
    <3>1. /\ \A g \in Fetchers : fetcherPc'[g] = "send" <=> fetcherPc[g] = "send"
          /\ \A g \in Fetchers : fetcherPc'[g] \in FetcherHands \ {"send"}
                                 <=> fetcherPc[g] \in FetcherHands \ {"send"}
      BY <1>1, <2>1 DEF FetcherHands
    <3> QED
      BY <2>1, <3>1 DEF FetcherItems
  <2>5. UNCHANGED <<Asked, Answered>>
    <3>1. UNCHANGED <<ItemsIn(fetchQueue), ItemsIn(fetchResults)>>
      BY <2>1, HandsUnchanged
    <3> QED
      BY <1>1, <2>4, <3>1 DEF Asked, Answered
  <2> QED
    BY <1>1, <2>2, <2>3, <2>5, PushRefines
<1>10. CASE FetcherOnboardFails(f)
  <2>1. /\ UNCHANGED <<seen, frontier, fetchQueue, fetchResults, fetcherItem, urlStatus>>
        /\ fetcherPc[f] = "onboarding" /\ fetcherPc'[f] = "robots"
    BY <1>2, <1>10 DEF FetcherOnboardFails, FetcherStep, frontierVars
  <2> QED
    BY <1>7, <2>1 DEF FetcherHands
<1>11. CASE FetcherRobots(f)
  <2>1. UNCHANGED <<seen, frontier, fetchQueue, fetchResults>> /\ fetcherPc[f] = "robots"
    BY <1>11 DEF FetcherRobots, FetcherStep, frontierVars
  <2>2. CASE fetcherPc'[f] = "idle"
    <3>1. urlStatus' = [urlStatus EXCEPT ![u] = "robots_blocked"]
      BY <1>2, <1>11, <2>2 DEF FetcherRobots, FetcherStep
    <3>2. OthersStay(u) /\ StageOf(u)' = "closed"
      BY <1>6, <2>1, <2>2 DEF FetcherHands
    <3>3. Promise!Refuse(u)
      BY <1>1, <1>3, <2>1, <3>1, <3>2, StepOf DEF Promise!Refuse
    <3> QED
      BY <3>3 DEF Promise!Next
  <2>3. CASE fetcherPc'[f] # "idle"
    <3>1. fetcherPc'[f] = "acquire" /\ UNCHANGED <<fetcherItem, urlStatus>>
      BY <1>2, <1>11, <2>3 DEF FetcherRobots, FetcherStep
    <3> QED
      BY <1>7, <2>1, <3>1 DEF FetcherHands
  <2> QED
    BY <2>2, <2>3
<1>12. CASE FetcherFetch(f)
  <2>1. /\ UNCHANGED <<seen, frontier, fetchQueue, fetchResults, urlStatus>>
        /\ fetcherPc[f] = "acquire" /\ fetcherPc'[f] = "fetching"
        /\ fetcherItem'[f] = [fetcherItem[f] EXCEPT !.seq = fetchSeq']
    BY <1>2, <1>12 DEF FetcherFetch, FetcherStep, frontierVars
  <2>2. fetcherItem'[f].url = u
    BY <1>2, <2>1 DEF Item
  <2> QED
    BY <1>7, <2>1, <2>2 DEF FetcherHands
<1>13. CASE FetcherFetched(f)
  <2>1. /\ UNCHANGED <<seen, frontier, fetchQueue, fetchResults>>
        /\ fetcherPc[f] = "fetching" /\ fetcherPc'[f] = "send"
    BY <1>2, <1>13 DEF FetcherFetched, FetcherStep, frontierVars
  <2>2. PICK o : /\ fetcherItem' = [fetcherItem EXCEPT ![f].outcome = o]
                 /\ urlStatus' = [urlStatus EXCEPT ![u] = IF o = "error" THEN "errored" ELSE "fetched"]
    BY <1>13 DEF FetcherFetched
  <2>3. fetcherItem'[f].url = u
    <3>1. fetcherItem'[f] = [fetcherItem[f] EXCEPT !.outcome = o]
      BY <1>2, <2>2
    <3> QED
      BY <1>2, <3>1 DEF Item
  <2>4. OthersStay(u) /\ StageOf(u)' = "answered"
    BY <1>4, <1>5, <2>1, <2>3 DEF FetcherHands
  <2>5. Promise!Answer(u)
    BY <1>1, <1>3, <2>1, <2>2, <2>4, StepOf DEF Promise!Answer
  <2> QED
    BY <2>5 DEF Promise!Next
<1>14. CASE FetcherSend(f)
  <2>1. /\ UNCHANGED <<seen, frontier, fetchQueue, urlStatus>>
        /\ fetcherPc[f] = "send" /\ fetcherPc'[f] = "idle"
        /\ fetchResults' = Append(fetchResults, fetcherItem[f]) /\ fetchResults \in Seq(Item)
    BY <1>2, <1>14 DEF FetcherSend, FetcherStep, frontierVars, TypeInv, TypeOK
  <2>2. ItemsIn(Append(fetchResults, fetcherItem[f])) = ItemsIn(fetchResults) \cup {fetcherItem[f]}
    BY <1>2, <2>1, QueueItems
  <2>3. ItemsIn(fetchResults)' = ItemsIn(fetchResults) \cup {fetcherItem[f]}
    BY <2>1, <2>2 DEF ItemsIn
  <2>4. UNCHANGED ItemsIn(fetchQueue)
    BY <2>1, HandsUnchanged
  <2>5. ButFor(ItemsIn(fetchResults), ItemsIn(fetchResults)', u)
    BY <2>3 DEF ButFor
  <2>6. OthersStay(u)
    BY <1>2, <2>1, <2>4, <2>5, FetcherAside DEF ButFor, FetcherHands
  <2>7. HasUrl(Answered, u)'
    BY <2>3 DEF HasUrl, Answered
  <2>8. \A v \in URLs : StageOf(v)' = StageOf(v)
    BY <1>3, <2>1, <2>6, <2>7, StagesStay DEF StageInv
  <2> QED
    BY <1>1, <2>1, <2>8, NoStep
<1>15. CASE FetcherCancelled(f)
  <2>1. /\ UNCHANGED <<seen, frontier, fetchQueue, fetchResults, urlStatus>> /\ Cancelled
        /\ fetcherPc'[f] = "exited"
    BY <1>2, <1>15 DEF FetcherCancelled, FetcherStep, frontierVars
  <2>2. OthersStay(u) /\ StageOf(u)' = "closed"
    BY <1>6, <2>1 DEF FetcherHands
  <2>3. ~Quiet'
    BY <1>1, <2>1 DEF Quiet
  <2>4. Promise!Step(u, "taken", "closed") \/ Promise!Step(u, "answered", "closed")
    BY <1>1, <1>3, <2>2, StepOf
  <2>5. Promise!Abandon(u)
    BY <2>1, <2>3, <2>4 DEF Promise!Abandon
  <2> QED
    BY <2>5 DEF Promise!Next
<1>16. ~FetcherTake(f) /\ ~FetcherExit(f)
  BY DEF FetcherTake, FetcherExit, FetcherStep, FetcherHands
<1> QED
  BY <1>8, <1>9, <1>10, <1>11, <1>12, <1>13, <1>14, <1>15, <1>16 DEF Fetcher


\* A fetcher takes an item whose URL is taken already, and gives up one out of scope.
LEMMA TakeRefines ==
    ASSUME PromiseInv, StageInv', NEW f \in Fetchers, FetcherTake(f)
    PROVE  [Promise!Next]_(Promise!vars)
<1>1. Fetcher(f)
  BY DEF Fetcher
<1>2. /\ UNCHANGED <<Quiet, jobStatus, urlStatus, seen, frontier, fetchResults>>
      /\ jobStatus = "running" /\ fetcherPc[f] = "idle" /\ TypeInv
      /\ fetcherPc \in [Fetchers -> FetcherPc] /\ fetcherItem \in [Fetchers -> Item \cup {NoItem}]
  <2>1. /\ UNCHANGED <<jobStatus, urlStatus, seen, frontier, fetchResults>> /\ fetcherPc[f] = "idle"
    BY DEF FetcherTake, FetcherStep, OthersOfFetch, frontierVars
  <2>2. dispPc # "finalized"
    BY <2>1 DEF PromiseInv, NoSendOnClosedChannel, FetchResultsClosed, Gone
  <2> QED
    BY <1>1, <2>1, <2>2, QuietStays DEF PromiseInv, OutcomeInv, TypeInv, TypeOK
<1>3. /\ UNCHANGED <<DispItems, ParserItems, PersisterItems, ItemsIn(persistQueue), fetches>>
      /\ UNCHANGED ItemsIn(fetchResults)
      /\ \A g \in Fetchers \ {f} :
            fetcherPc'[g] = fetcherPc[g] /\ fetcherItem'[g] = fetcherItem[g]
  BY <1>1, <1>2, FetcherFrame, HandsUnchanged
<1>4. PICK i \in Item : /\ i = Head(fetchQueue)
                        /\ ItemsIn(fetchQueue) = ItemsIn(fetchQueue)' \cup {i}
                        /\ \A j \in ItemsIn(fetchQueue)' : j.url # i.url
  <2>1. fetchQueue \in Seq(Item) /\ fetchQueue # <<>> /\ fetchQueue' = Tail(fetchQueue)
        /\ Single(fetchQueue)
    BY <1>2 DEF FetcherTake, TypeInv, TypeOK, PromiseInv, OneItem, Alone
  <2>2. /\ ItemsIn(fetchQueue) = ItemsIn(Tail(fetchQueue)) \cup {Head(fetchQueue)}
        /\ \A j \in ItemsIn(Tail(fetchQueue)) : j.url # Head(fetchQueue).url
    BY <2>1, QueueItems, QueueSingle
  <2>3. Head(fetchQueue) \in Item
    BY <2>1
  <2>4. ItemsIn(fetchQueue)' = ItemsIn(Tail(fetchQueue))
    BY <2>1 DEF ItemsIn
  <2> QED
    BY <2>2, <2>3, <2>4
<1>5. PICK u \in URLs : u = i.url
  BY <1>2, ItemUrls
<1>6. StageOf(u) = "taken"
  BY <1>4, <1>5 DEF PromiseInv, StageInv, HasUrl, Asked
<1>7. ButFor(ItemsIn(fetchQueue), ItemsIn(fetchQueue)', u)
      /\ ButFor(ItemsIn(fetchResults), ItemsIn(fetchResults)', u)
  BY <1>3, <1>4, <1>5 DEF ButFor
<1>8. CASE i.url \in InScope
  <2>1. fetcherPc'[f] = "onboard" /\ fetcherItem'[f] = i
    BY <1>2, <1>4, <1>8 DEF FetcherTake, FetcherStep
  <2>2. OthersStay(u)
    BY <1>1, <1>2, <1>5, <1>7, <2>1, FetcherAside DEF FetcherHands
  <2>3. HasUrl(Asked, u)'
    <3>1. i \in FetcherItems(FetcherHands \ {"send"})'
      BY <2>1 DEF FetcherItems, FetcherHands
    <3> QED
      BY <1>5, <3>1 DEF HasUrl, Asked
  <2>4. StageOf(u)' = "taken"
    BY <2>3 DEF StageInv
  <2>5. \A v \in URLs : StageOf(v)' = StageOf(v)
    BY <1>6, <2>2, <2>4, StagesStay
  <2> QED
    BY <1>2, <2>5, NoStep
<1>9. CASE i.url \notin InScope
  <2>1. UNCHANGED <<fetcherPc, fetcherItem>>
    BY <1>2, <1>4, <1>9 DEF FetcherTake, FetcherStep
  <2>2. OthersStay(u)
    BY <1>1, <1>2, <1>7, <2>1, FetcherAside DEF FetcherHands
  <2>3. PICK h \in Stages : Home(u, h)
    BY HomeOf DEF PromiseInv
  <2>4. h = "fetchQueue" /\ ~HasUrl(ItemsIn(fetchQueue), u)'
    BY <1>4, <1>5, <2>3 DEF Home, HasUrl
  <2>5. UNCHANGED FetcherItems(FetcherHands)
    BY <2>1, HandsUnchanged
  <2>6. Home(u, "gone")'
    BY <1>2, <1>3, <2>3, <2>4, <2>5 DEF Home, HasUrl
  <2>7. StageOf(u)' = "closed"
    BY <2>6, ClosedAfter
  <2>8. Promise!Refuse(u)
    BY <1>2, <1>5, <1>6, <1>9, <2>2, <2>7, StepOf DEF Promise!Refuse
  <2> QED
    BY <2>8 DEF Promise!Next
<1> QED
  BY <1>8, <1>9

\* Every step of a fetcher.
LEMMA FetcherRefines ==
    ASSUME PromiseInv, StageInv', NEW f \in Fetchers, Fetcher(f)
    PROVE  [Promise!Next]_(Promise!vars)
<1>1. CASE fetcherPc[f] \in FetcherHands
  <2>1. PICK u \in URLs : u = fetcherItem[f].url
    BY <1>1, ItemUrls DEF PromiseInv
  <2> QED
    BY <1>1, <2>1, HoldingRefines
<1>2. CASE FetcherTake(f)
  BY <1>2, TakeRefines
<1>3. CASE FetcherExit(f)
  <2>1. /\ UNCHANGED <<seen, frontier, fetchQueue, fetchResults, fetcherItem, urlStatus, jobStatus>>
        /\ fetcherPc[f] = "idle" /\ fetcherPc'[f] = "exited"
    BY <1>3 DEF FetcherExit, FetcherStep, frontierVars, OthersOfFetch, PromiseInv, TypeInv, TypeOK
  <2>2. UNCHANGED <<ItemsIn(fetchQueue), ItemsIn(fetchResults)>>
    BY <2>1, HandsUnchanged
  <2>3. /\ UNCHANGED <<DispItems, ParserItems, PersisterItems, ItemsIn(persistQueue), fetches>>
        /\ \A g \in Fetchers \ {f} : fetcherPc'[g] = fetcherPc[g]
    BY FetcherFrame DEF PromiseInv
  <2>4. UNCHANGED <<FetcherItems(FetcherHands \ {"send"}), FetcherItems({"send"})>>
    <3>1. /\ \A g \in Fetchers : fetcherPc'[g] = "send" <=> fetcherPc[g] = "send"
          /\ \A g \in Fetchers : fetcherPc'[g] \in FetcherHands \ {"send"}
                                 <=> fetcherPc[g] \in FetcherHands \ {"send"}
      BY <2>1, <2>3 DEF FetcherHands
    <3> QED
      BY <2>1, <3>1 DEF FetcherItems
  <2>5. UNCHANGED <<Asked, Answered>>
    BY <2>2, <2>3, <2>4 DEF Asked, Answered
  <2>6. \A v \in URLs : StageOf(v)' = StageOf(v)
    BY <2>1, <2>3, <2>5 DEF StageOf, HasUrl
  <2>7. UNCHANGED Quiet
    BY QuietStays DEF PromiseInv
  <2> QED
    BY <2>1, <2>6, <2>7, NoStep
<1>4. fetcherPc[f] \in FetcherHands \/ FetcherTake(f) \/ FetcherExit(f)
  BY DEF Fetcher, FetcherOnboard, FetcherOnboarded, FetcherOnboardFails, FetcherRobots,
     FetcherFetch, FetcherFetched, FetcherSend, FetcherCancelled, FetcherStep, FetcherHands
<1> QED
  BY <1>1, <1>2, <1>3, <1>4

\* A parser that holds an item of u, before a step or after it, and the channels on its
\* two sides touch items of u only.
LEMMA ParserAside ==
    ASSUME TypeInv, NEW p \in Parsers, Parser(p), NEW u,
           parserPc[p] \in ParserHands => parserItem[p].url = u,
           parserPc'[p] \in ParserHands => parserItem'[p].url = u,
           UNCHANGED <<seen, frontier>>,
           ButFor(ItemsIn(fetchResults), ItemsIn(fetchResults)', u),
           ButFor(ItemsIn(persistQueue), ItemsIn(persistQueue)', u)
    PROVE  OthersStay(u)
<1>1. /\ UNCHANGED <<DispItems, PersisterItems, ItemsIn(fetchQueue), fetches>>
      /\ UNCHANGED <<FetcherItems(FetcherHands \ {"send"}), FetcherItems({"send"})>>
      /\ \A r \in Parsers \ {p} : parserPc'[r] = parserPc[r] /\ parserItem'[r] = parserItem[r]
  BY ParserFrame
<1>2. ButFor(ParserItems, ParserItems', u)
  BY <1>1, ParserMoves, ButForSets
<1>3. UNCHANGED Asked
  BY <1>1 DEF Asked
<1>4. ButFor(Answered, Answered', u)
  BY <1>1, <1>2, ButForSets DEF Answered
<1> QED
  BY <1>1, <1>3, <1>4 DEF OthersStay, ButFor

\* A parser that lets go of its item, and nobody takes it, leaves its URL without a home.
LEMMA ParserCloses ==
    ASSUME OneItem, NEW p \in Parsers, NEW u \in URLs, u = parserItem[p].url,
           parserPc[p] \in ParserHands, parserPc'[p] \notin ParserHands,
           \A r \in Parsers \ {p} : parserPc'[r] = parserPc[r] /\ parserItem'[r] = parserItem[r],
           UNCHANGED <<seen, frontier, DispItems, ItemsIn(fetchQueue), ItemsIn(fetchResults),
                       ItemsIn(persistQueue), PersisterItems, fetches>>,
           \A pcs : UNCHANGED FetcherItems(pcs)
    PROVE  OthersStay(u) /\ StageOf(u)' = "closed"
<1>1. PICK h \in Stages : Home(u, h)
  BY HomeOf
<1>2. h = "parser"
  BY <1>1, ParserMoves DEF Home, HasUrl
<1>3. ~HasUrl(ParserItems, u)'
  <2> SUFFICES ASSUME NEW r \in Parsers, parserPc'[r] \in ParserHands, parserItem'[r].url = u
               PROVE  FALSE
    BY DEF HasUrl, ParserItems
  <2> QED
    BY DEF OneItem, Alone
<1>4. UNCHANGED <<FetcherItems(FetcherHands), FetcherItems(FetcherHands \ {"send"}),
                  FetcherItems({"send"})>>
  OBVIOUS
<1>5. Home(u, "gone")'
  BY <1>1, <1>2, <1>3, <1>4 DEF Home, HasUrl
<1>6. ButFor(ParserItems, ParserItems', u)
  BY ParserMoves, ButForSets
<1>7. UNCHANGED Asked
  BY <1>4 DEF Asked
<1>8. ButFor(Answered, Answered', u)
  BY <1>4, <1>6, ButForSets DEF Answered
<1> QED
  BY <1>5, <1>7, <1>8, ClosedAfter DEF OthersStay, ButFor

\* A parser discovers URLs and keeps its own answered, until it hands it on or the crawl
\* is cancelled.
LEMMA ParserRefines ==
    ASSUME PromiseInv, StageInv', NEW p \in Parsers, Parser(p)
    PROVE  [Promise!Next]_(Promise!vars)
<1>1. /\ UNCHANGED <<Quiet, jobStatus>> /\ jobStatus = "running" /\ TypeInv
      /\ UNCHANGED <<DispItems, PersisterItems, ItemsIn(fetchQueue), fetches>>
      /\ UNCHANGED <<FetcherItems(FetcherHands \ {"send"}), FetcherItems({"send"})>>
      /\ \A r \in Parsers \ {p} : parserPc'[r] = parserPc[r] /\ parserItem'[r] = parserItem[r]
  <2>1. UNCHANGED jobStatus /\ parserPc[p] \notin Gone
    BY DEF Parser, ParserTake, ParserCount, ParserReserve, ParserPush, ParserSend, ParserCancelled,
       ParserExit, ParserStep, OthersOfParse, Gone
  <2>2. dispPc # "finalized"
    BY <2>1 DEF PromiseInv, NoSendOnClosedChannel, PersistQueueClosed
  <2> QED
    BY <2>1, <2>2, QuietStays, ParserFrame DEF PromiseInv, OutcomeInv
<1>2. /\ parserItem \in [Parsers -> Item \cup {NoItem}] /\ parserPc \in [Parsers -> ParserPc]
      /\ fetchResults \in Seq(Item) /\ persistQueue \in Seq(Item)
  BY <1>1 DEF TypeInv, TypeOK
<1>3. ASSUME parserPc[p] \in ParserHands, NEW u \in URLs, u = parserItem[p].url
      PROVE  StageOf(u) = "answered"
  <2>1. HasUrl(Answered, u)
    BY <1>3 DEF HasUrl, Answered, ParserItems
  <2> QED
    BY <1>3, <2>1 DEF PromiseInv, StageInv
<1>4. ASSUME UNCHANGED <<seen, frontier, fetchResults, persistQueue, urlStatus, ParserItems>>
      PROVE  UNCHANGED Promise!vars
  <2>1. UNCHANGED <<ItemsIn(fetchResults), ItemsIn(persistQueue)>>
    BY <1>4, HandsUnchanged
  <2>2. UNCHANGED <<Asked, Answered>>
    BY <1>1, <1>4, <2>1 DEF Asked, Answered
  <2>3. \A v \in URLs : StageOf(v)' = StageOf(v)
    BY <1>1, <1>4, <2>2 DEF StageOf, HasUrl
  <2> QED
    BY <1>1, <1>4, <2>3, NoStep
<1>5. CASE ParserTake(p)
  <2>1. /\ UNCHANGED <<seen, frontier, persistQueue, urlStatus>>
        /\ fetchResults # <<>> /\ fetchResults' = Tail(fetchResults)
        /\ parserPc[p] = "idle" /\ parserPc'[p] = "parse" /\ parserItem'[p] = Head(fetchResults)
    BY <1>2, <1>5 DEF ParserTake, ParserStep, frontierVars
  <2>2. PICK i \in Item : i = Head(fetchResults) /\ ItemsIn(fetchResults) = ItemsIn(fetchResults)' \cup {i}
    <3>1. Head(fetchResults) \in Item
      BY <1>2, <2>1
    <3>2. ItemsIn(fetchResults) = ItemsIn(Tail(fetchResults)) \cup {Head(fetchResults)}
      BY <1>2, <2>1, QueueItems
    <3>3. ItemsIn(fetchResults)' = ItemsIn(Tail(fetchResults))
      BY <2>1 DEF ItemsIn
    <3> QED
      BY <3>1, <3>2, <3>3
  <2>3. PICK u \in URLs : u = i.url
    BY <1>1, ItemUrls
  <2>4. UNCHANGED ItemsIn(persistQueue)
    BY <2>1, HandsUnchanged
  <2>5. ButFor(ItemsIn(fetchResults), ItemsIn(fetchResults)', u)
        /\ ButFor(ItemsIn(persistQueue), ItemsIn(persistQueue)', u)
    BY <2>2, <2>3, <2>4 DEF ButFor
  <2>6. OthersStay(u)
    BY <1>1, <2>1, <2>2, <2>3, <2>5, ParserAside DEF ParserHands
  <2>7. HasUrl(Answered, u) /\ HasUrl(Answered, u)'
    <3>1. i \in ParserItems'
      BY <2>1, <2>2 DEF ParserItems, ParserHands
    <3> QED
      BY <2>2, <2>3, <3>1 DEF HasUrl, Answered
  <2>8. StageOf(u) = "answered" /\ StageOf(u)' = "answered"
    BY <2>7 DEF PromiseInv, StageInv
  <2>9. \A v \in URLs : StageOf(v)' = StageOf(v)
    BY <2>6, <2>8, StagesStay
  <2> QED
    BY <1>1, <2>1, <2>9, NoStep
<1>6. CASE ParserCount(p) \/ ParserReserve(p) \/ ParserExit(p)
  <2>1. UNCHANGED <<seen, frontier, fetchResults, persistQueue, urlStatus, parserItem>>
    BY <1>6 DEF ParserCount, ParserReserve, ParserExit, frontierVars
  <2>2. parserPc'[p] \in ParserHands <=> parserPc[p] \in ParserHands
    BY <1>2, <1>6 DEF ParserCount, ParserReserve, ParserExit, ParserStep, ParserHands
  <2>3. UNCHANGED ParserItems
    BY <1>1, <2>1, <2>2 DEF ParserItems
  <2> QED
    BY <1>4, <2>1, <2>3
<1>7. CASE ParserPush(p)
  <2>1. /\ UNCHANGED <<fetchResults, persistQueue, parserItem>>
        /\ parserPc[p] = "push" /\ parserPc'[p] = "links"
        /\ Push({Head(parserLinks[p])}, parserItem[p].depth + 1)
        /\ urlStatus' = UpsertURLs({Head(parserLinks[p])})
    BY <1>2, <1>7 DEF ParserPush, ParserStep
  <2>2. {Head(parserLinks[p])} \in SUBSET URLs
    <3>1. parserLinks[p] \in Seq(URLs) /\ parserLinks[p] # <<>>
      BY <1>1, <2>1 DEF TypeInv, TypeOK, HandsFull
    <3> QED
      BY <3>1
  <2>3. UNCHANGED ParserItems
    BY <1>1, <2>1 DEF ParserItems, ParserHands
  <2>4. UNCHANGED <<Asked, Answered>>
    <3>1. UNCHANGED <<ItemsIn(fetchResults), ItemsIn(persistQueue)>>
      BY <2>1, HandsUnchanged
    <3> QED
      BY <1>1, <2>3, <3>1 DEF Asked, Answered
  <2> QED
    BY <1>1, <2>1, <2>2, <2>4, PushRefines
<1>8. CASE ParserSend(p)
  <2>1. /\ UNCHANGED <<seen, frontier, fetchResults, urlStatus>>
        /\ parserPc[p] = "links" /\ parserPc'[p] = "idle" /\ parserItem[p] \in Item
        /\ persistQueue' = Append(persistQueue, parserItem[p])
    BY <1>1, <1>2, <1>8 DEF ParserSend, ParserStep, frontierVars, TypeInv, HandsFull, ParserHands
  <2>2. PICK u \in URLs : u = parserItem[p].url
    BY <1>1, <2>1, ItemUrls
  <2>3. ItemsIn(persistQueue)' = ItemsIn(persistQueue) \cup {parserItem[p]}
    <3>1. ItemsIn(Append(persistQueue, parserItem[p])) = ItemsIn(persistQueue) \cup {parserItem[p]}
      BY <1>2, <2>1, QueueItems
    <3> QED
      BY <2>1, <3>1 DEF ItemsIn
  <2>4. UNCHANGED ItemsIn(fetchResults)
    BY <2>1, HandsUnchanged
  <2>5. ButFor(ItemsIn(fetchResults), ItemsIn(fetchResults)', u)
        /\ ButFor(ItemsIn(persistQueue), ItemsIn(persistQueue)', u)
    BY <2>2, <2>3, <2>4 DEF ButFor
  <2>6. OthersStay(u)
    BY <1>1, <2>1, <2>2, <2>5, ParserAside DEF ParserHands
  <2>7. HasUrl(Answered, u)'
    BY <2>2, <2>3 DEF HasUrl, Answered
  <2>8. StageOf(u) = "answered" /\ StageOf(u)' = "answered"
    BY <1>3, <2>1, <2>2, <2>7 DEF StageInv, ParserHands
  <2>9. \A v \in URLs : StageOf(v)' = StageOf(v)
    BY <2>6, <2>8, StagesStay
  <2> QED
    BY <1>1, <2>1, <2>9, NoStep
<1>9. CASE ParserCancelled(p)
  <2>1. /\ UNCHANGED <<seen, frontier, fetchResults, persistQueue, urlStatus>> /\ Cancelled
        /\ parserPc[p] = "links" /\ parserPc'[p] = "exited"
    BY <1>2, <1>9 DEF ParserCancelled, ParserStep, frontierVars
  <2>2. PICK u \in URLs : u = parserItem[p].url
    BY <1>1, <2>1, ItemUrls DEF ParserHands
  <2>3. UNCHANGED <<ItemsIn(fetchResults), ItemsIn(persistQueue)>> /\ \A pcs : UNCHANGED FetcherItems(pcs)
    BY <1>1, <2>1, HandsUnchanged, ParserFrame
  <2>4. OthersStay(u) /\ StageOf(u)' = "closed"
    BY <1>1, <2>1, <2>2, <2>3, ParserCloses DEF PromiseInv, ParserHands
  <2>5. ~Quiet'
    BY <1>1, <2>1 DEF Quiet
  <2>6. StageOf(u) = "answered"
    BY <1>3, <2>1, <2>2 DEF ParserHands
  <2>7. Promise!Abandon(u)
    BY <1>1, <2>1, <2>2, <2>4, <2>5, <2>6, StepOf DEF Promise!Abandon
  <2> QED
    BY <2>2, <2>7 DEF Promise!Next
<1> QED
  BY <1>4, <1>5, <1>6, <1>7, <1>8, <1>9 DEF Parser

\* A persister that holds an item of u, before a step or after it, and what it takes
\* from and stores touch items of u only.
LEMMA PersisterAside ==
    ASSUME NEW u,
           UNCHANGED <<seen, frontier, DispItems, ParserItems, ItemsIn(fetchQueue), ItemsIn(fetchResults)>>,
           \A pcs : UNCHANGED FetcherItems(pcs),
           \A i \in PersisterItems \cup PersisterItems' : i.url = u,
           ButFor(ItemsIn(persistQueue), ItemsIn(persistQueue)', u),
           ButFor(fetches, fetches', u)
    PROVE  OthersStay(u)
<1>1. UNCHANGED <<FetcherItems(FetcherHands \ {"send"}), FetcherItems({"send"})>>
  OBVIOUS
<1>2. ButFor(PersisterItems, PersisterItems', u)
  BY DEF ButFor
<1>3. UNCHANGED Asked
  BY <1>1 DEF Asked
<1>4. ButFor(Answered, Answered', u)
  BY <1>1, <1>2, ButForSets DEF Answered
<1> QED
  BY <1>3, <1>4 DEF OthersStay, ButFor

\* A persister that lets go of its item, and does not store it, leaves its URL without
\* a home.
LEMMA PersisterCloses ==
    ASSUME OneItem, NEW u \in URLs, HasUrl(PersisterItems, u), PersisterItems' = {},
           UNCHANGED <<seen, frontier, DispItems, ParserItems, ItemsIn(fetchQueue), ItemsIn(fetchResults),
                       ItemsIn(persistQueue), fetches>>,
           \A pcs : UNCHANGED FetcherItems(pcs)
    PROVE  OthersStay(u) /\ StageOf(u)' = "closed"
<1>1. PICK h \in Stages : Home(u, h)
  BY HomeOf
<1>2. h = "persister"
  BY <1>1 DEF Home
<1>3. UNCHANGED FetcherItems(FetcherHands)
  OBVIOUS
<1>4. Home(u, "gone")'
  BY <1>1, <1>2, <1>3 DEF Home, HasUrl
<1>5. \A i \in PersisterItems \cup PersisterItems' : i.url = u
  BY DEF HasUrl, PersisterItems
<1>6. OthersStay(u)
  BY <1>5, PersisterAside DEF ButFor
<1> QED
  BY <1>4, <1>6, ClosedAfter

\* The persister stores what was fetched and drops what was not; it abandons an item
\* only after a cancellation or as it gives up.
LEMMA PersisterRefines ==
    ASSUME PromiseInv, StageInv', Persister
    PROVE  [Promise!Next]_(Promise!vars)
<1>1. /\ UNCHANGED <<jobStatus, seen, frontier>> /\ jobStatus = "running" /\ TypeInv
      /\ UNCHANGED <<DispItems, ParserItems, ItemsIn(fetchQueue), ItemsIn(fetchResults)>>
      /\ \A pcs : UNCHANGED FetcherItems(pcs)
  <2>1. /\ UNCHANGED <<jobStatus, seen, frontier, dispPc, dispItem, fetchQueue, fetchResults, fetcherPc,
                       fetcherItem, parserPc, parserItem>>
        /\ persisterPc \notin Gone
    BY DEF Persister, PersistTake, PersistItem, PersistFails, PersistRetry, PersistCancelled,
       PersistFatal, PersisterExit, PersisterStep, OthersOfPersist, Gone, frontierVars, dispatcherVars,
       fetcherVars, parserVars
  <2>2. dispPc # "finalized"
    BY <2>1 DEF PromiseInv, DrainInv, PipelineReturned
  <2> QED
    BY <2>1, <2>2, HandsUnchanged DEF PromiseInv, OutcomeInv
<1>2. /\ UNCHANGED <<Asked>>
      /\ persistQueue \in Seq(Item) /\ urlStatus \in [URLs -> UrlStatus]
  <2>1. UNCHANGED FetcherItems(FetcherHands \ {"send"})
    BY <1>1
  <2> QED
    BY <1>1, <2>1 DEF Asked, TypeInv, TypeOK
<1>3. ASSUME persisterPc \in {"write", "backoff"}
      PROVE  \E u \in URLs : /\ u = persisterItem.url /\ HasUrl(PersisterItems, u)
                             /\ StageOf(u) = "answered"
  <2>1. PICK u \in URLs : u = persisterItem.url
    BY <1>1, <1>3, ItemUrls
  <2>2. HasUrl(PersisterItems, u) /\ HasUrl(Answered, u)
    BY <1>3, <2>1 DEF HasUrl, PersisterItems, Answered
  <2> QED
    BY <2>1, <2>2 DEF PromiseInv, StageInv
<1>4. ASSUME UNCHANGED <<persistQueue, fetches, urlStatus, PersisterItems, Quiet>>
      PROVE  UNCHANGED Promise!vars
  <2>1. UNCHANGED <<ItemsIn(persistQueue), FetcherItems({"send"})>>
    BY <1>1, <1>4, HandsUnchanged
  <2>2. UNCHANGED Answered
    BY <1>1, <1>4, <2>1 DEF Answered
  <2>3. \A v \in URLs : StageOf(v)' = StageOf(v)
    BY <1>1, <1>2, <1>4, <2>2 DEF StageOf, HasUrl
  <2> QED
    BY <1>1, <1>4, <2>3, NoStep
<1>5. persisterPc' # "fatal" => UNCHANGED Quiet
  BY QuietStays DEF PromiseInv
<1>6. ASSUME NEW u \in URLs, HasUrl(PersisterItems, u), StageOf(u) = "answered", PersisterItems' = {},
             UNCHANGED <<persistQueue, fetches, urlStatus>>, ~Quiet'
      PROVE  Promise!Abandon(u)
  <2>1. UNCHANGED ItemsIn(persistQueue)
    BY <1>6, HandsUnchanged
  <2>2. OthersStay(u) /\ StageOf(u)' = "closed"
    BY <1>1, <1>6, <2>1, PersisterCloses DEF PromiseInv
  <2> QED
    BY <1>1, <1>6, <2>2, StepOf DEF Promise!Abandon
<1>7. CASE PersistTake
  <2>1. /\ UNCHANGED <<urlStatus, fetches>> /\ persistQueue # <<>> /\ persistQueue' = Tail(persistQueue)
        /\ persisterPc = "idle" /\ persisterPc' = "write" /\ persisterItem' = Head(persistQueue)
    BY <1>7 DEF PersistTake, PersisterStep
  <2>2. PICK i \in Item : i = Head(persistQueue) /\ ItemsIn(persistQueue) = ItemsIn(persistQueue)' \cup {i}
    <3>1. Head(persistQueue) \in Item
      BY <1>2, <2>1
    <3>2. ItemsIn(persistQueue) = ItemsIn(Tail(persistQueue)) \cup {Head(persistQueue)}
      BY <1>2, <2>1, QueueItems
    <3>3. ItemsIn(persistQueue)' = ItemsIn(Tail(persistQueue))
      BY <2>1 DEF ItemsIn
    <3> QED
      BY <3>1, <3>2, <3>3
  <2>3. PICK u \in URLs : u = i.url
    BY <1>1, ItemUrls
  <2>4. PersisterItems = {} /\ PersisterItems' = {i}
    BY <2>1, <2>2 DEF PersisterItems
  <2>5. OthersStay(u)
    <3>1. ButFor(ItemsIn(persistQueue), ItemsIn(persistQueue)', u) /\ ButFor(fetches, fetches', u)
      BY <2>1, <2>2, <2>3 DEF ButFor
    <3> QED
      BY <1>1, <2>3, <2>4, <3>1, PersisterAside
  <2>6. HasUrl(Answered, u) /\ HasUrl(Answered, u)'
    BY <2>2, <2>3, <2>4 DEF HasUrl, Answered
  <2>7. StageOf(u) = "answered" /\ StageOf(u)' = "answered"
    BY <2>6 DEF PromiseInv, StageInv
  <2>8. \A v \in URLs : StageOf(v)' = StageOf(v)
    BY <2>5, <2>7, StagesStay
  <2> QED
    BY <1>1, <1>5, <2>1, <2>8, NoStep
<1>8. CASE PersistItem
  <2>1. /\ persisterPc = "write" /\ persisterPc' = "idle" /\ UNCHANGED persistQueue
        /\ PersisterItems' = {}
    BY <1>8 DEF PersistItem, PersisterStep, PersisterItems
  <2>2. PICK u \in URLs : u = persisterItem.url /\ HasUrl(PersisterItems, u) /\ StageOf(u) = "answered"
    BY <1>3, <2>1
  <2>3. urlStatus[u] = IF persisterItem.outcome = "error" THEN "errored" ELSE "fetched"
    BY <2>1, <2>2 DEF PromiseInv, StatusInv, Answered, PersisterItems
  <2>4. UNCHANGED ItemsIn(persistQueue)
    BY <2>1, HandsUnchanged
  <2>5. CASE persisterItem.outcome = "error"
    <3>1. UNCHANGED <<urlStatus, fetches>>
      BY <1>8, <2>5 DEF PersistItem
    <3>2. OthersStay(u) /\ StageOf(u)' = "closed"
      BY <1>1, <2>1, <2>2, <2>4, <3>1, PersisterCloses DEF PromiseInv
    <3>3. Promise!Fail(u)
      BY <1>1, <1>5, <2>1, <2>2, <2>3, <2>5, <3>1, <3>2, StepOf DEF Promise!Fail
    <3> QED
      BY <3>3 DEF Promise!Next
  <2>6. CASE persisterItem.outcome # "error"
    <3>1. urlStatus' = UpsertFinal(u) /\ fetches' = fetches \cup {persisterItem}
      BY <1>8, <2>2, <2>6 DEF PersistItem
    <3>2. OthersStay(u)
      <4>1. ButFor(ItemsIn(persistQueue), ItemsIn(persistQueue)', u) /\ ButFor(fetches, fetches', u)
        BY <2>2, <2>4, <3>1 DEF ButFor
      <4>2. \A i \in PersisterItems \cup PersisterItems' : i.url = u
        BY <2>1, <2>2 DEF PersisterItems
      <4> QED
        BY <1>1, <4>1, <4>2, PersisterAside
    <3>3. HasUrl(fetches, u)'
      BY <2>2, <3>1 DEF HasUrl
    <3>4. StageOf(u)' = "stored"
      BY <3>3 DEF StageInv
    <3>5. \/ UNCHANGED urlStatus
          \/ \E v \in URLs, s \in {"fetched", "out_of_scope"} :
                urlStatus[v] = "unknown" /\ urlStatus' = [urlStatus EXCEPT ![v] = s]
      <4>1. Final[u] \in URLs
        BY SiteAssumption
      <4> QED
        BY <3>1, <4>1 DEF UpsertFinal
    <3>6. Promise!Step(u, "answered", "stored") /\ UNCHANGED Quiet
      BY <1>1, <1>5, <2>1, <2>2, <3>2, <3>4, StepOf
    <3>7. Promise!Store(u)
      BY <2>3, <2>6, <3>5, <3>6 DEF Promise!Store
    <3> QED
      BY <3>7 DEF Promise!Next
  <2> QED
    BY <2>5, <2>6
<1>9. CASE PersistFails
  <2>1. /\ persisterPc = "write" /\ UNCHANGED <<persistQueue, urlStatus, fetches>>
        /\ \/ persisterPc' = "backoff" /\ UNCHANGED persisterItem
           \/ persisterPc' = "fatal"
    BY <1>9 DEF PersistFails, PersisterStep
  <2>2. CASE persisterPc' = "backoff" /\ UNCHANGED persisterItem
    BY <1>4, <1>5, <2>1, <2>2 DEF PersisterItems
  <2>3. CASE persisterPc' = "fatal"
    <3>1. PersisterItems' = {} /\ ~Quiet'
      BY <2>3 DEF PersisterItems, Quiet
    <3> QED
      BY <1>3, <1>6, <2>1, <3>1 DEF Promise!Next
  <2> QED
    BY <2>1, <2>2, <2>3
<1>10. CASE PersistRetry \/ PersisterExit
  <2>1. UNCHANGED <<persistQueue, urlStatus, fetches, persisterItem>> /\ persisterPc' # "fatal"
    BY <1>10 DEF PersistRetry, PersisterExit, PersisterStep
  <2>2. UNCHANGED PersisterItems
    BY <1>10, <2>1 DEF PersistRetry, PersisterExit, PersisterStep, PersisterItems
  <2> QED
    BY <1>4, <1>5, <2>1, <2>2
<1>11. CASE PersistCancelled
  <2>1. /\ UNCHANGED <<persistQueue, urlStatus, fetches>> /\ Cancelled
        /\ persisterPc = "backoff" /\ persisterPc' = "exited"
    BY <1>11 DEF PersistCancelled, PersisterStep
  <2>2. PersisterItems' = {} /\ ~Quiet'
    BY <1>5, <2>1 DEF PersisterItems, Quiet
  <2> QED
    BY <1>3, <1>6, <2>1, <2>2 DEF Promise!Next
<1>12. CASE PersistFatal
  <2>1. /\ UNCHANGED <<persistQueue, urlStatus, fetches>>
        /\ persisterPc = "fatal" /\ persisterPc' = "exited"
    BY <1>12 DEF PersistFatal, PersisterStep
  <2>2. UNCHANGED PersisterItems
    BY <2>1 DEF PersisterItems
  <2> QED
    BY <1>4, <1>5, <2>1, <2>2
<1> QED
  BY <1>7, <1>8, <1>9, <1>10, <1>11, <1>12 DEF Persister

\* A cancellation disturbs the crawl and moves nothing; a panic abandons the URL of the
\* worker; the recover that follows it changes nothing of the promise.
LEMMA EnvironmentRefines ==
    ASSUME PromiseInv, StageInv', Environment
    PROVE  [Promise!Next]_(Promise!vars)
<1>1. /\ UNCHANGED <<seen, frontier, fetches, urlStatus, jobStatus, dispPc, dispItem, fetchQueue,
                     fetchResults, persistQueue, fetcherItem, parserItem, persisterItem>>
      /\ UNCHANGED <<DispItems, ItemsIn(fetchQueue), ItemsIn(fetchResults), ItemsIn(persistQueue)>>
      /\ TypeInv
  <2>1. UNCHANGED <<seen, frontier, fetches, urlStatus, jobStatus, dispPc, dispItem, fetchQueue,
                    fetchResults, persistQueue, fetcherItem, parserItem, persisterItem>>
    BY DEF Environment, Cancel, Panic, RecoverWorker, OthersOfPanic, frontierVars, dispatcherVars,
       fetcherVars, parserVars, persisterVars, rowVars, channels
  <2> QED
    BY <2>1, HandsUnchanged DEF PromiseInv
<1>2. /\ fetcherPc \in [Fetchers -> FetcherPc] /\ parserPc \in [Parsers -> ParserPc]
  BY <1>1 DEF TypeInv, TypeOK
<1>3. dispPc # "finalized" => jobStatus = "running" /\ jobStatus' = "running"
  BY <1>1 DEF PromiseInv, OutcomeInv
<1>4. ASSUME UNCHANGED <<FetcherItems(FetcherHands \ {"send"}), FetcherItems({"send"}), ParserItems,
                         PersisterItems>>
      PROVE  \A v \in URLs : StageOf(v)' = StageOf(v)
  <2>1. UNCHANGED <<Asked, Answered>>
    BY <1>1, <1>4 DEF Asked, Answered
  <2> QED
    BY <1>1, <2>1 DEF StageOf, HasUrl
<1>5. CASE Cancel
  <2>1. UNCHANGED <<fetcherPc, parserPc, persisterPc>> /\ dispPc # "finalized" /\ ~Quiet'
    BY <1>5 DEF Cancel, Quiet, Cancelled, fetcherVars, parserVars, persisterVars
  <2>2. \A v \in URLs : StageOf(v)' = StageOf(v)
    BY <1>1, <1>4, <2>1, HandsUnchanged
  <2> HIDE DEF StageOf
  <2>3. UNCHANGED [v \in URLs |-> StageOf(v)]
    BY <2>2
  <2>4. Promise!Disturb
    BY <1>1, <1>3, <2>1, <2>3 DEF Promise!Disturb
  <2> QED
    BY <2>4 DEF Promise!Next
<1>6. CASE Panic
  <2>1. ASSUME NEW f \in Fetchers, fetcherPc[f] \notin Gone \cup {"idle"},
               fetcherPc' = [fetcherPc EXCEPT ![f] = "panicked"], UNCHANGED <<parserPc, persisterPc>>
        PROVE  Promise!Next
    <3>1. fetcherPc[f] \in FetcherHands /\ fetcherPc'[f] = "panicked" /\ ~Quiet'
      BY <1>2, <2>1 DEF FetcherHands, FetcherPc, Gone, Quiet
    <3>2. PICK u \in URLs : u = fetcherItem[f].url
      BY <1>1, <3>1, ItemUrls
    <3>3. dispPc # "finalized"
      BY <2>1 DEF PromiseInv, NoSendOnClosedChannel, FetchResultsClosed
    <3>4. UNCHANGED <<ParserItems, PersisterItems>>
      BY <1>1, <2>1, HandsUnchanged
    <3>5. \A g \in Fetchers \ {f} : fetcherPc'[g] = fetcherPc[g] /\ fetcherItem'[g] = fetcherItem[g]
      BY <1>1, <1>2, <2>1
    <3>6. OthersStay(u) /\ StageOf(u)' = "closed"
      BY <1>1, <3>1, <3>2, <3>4, <3>5, FetcherCloses DEF PromiseInv, FetcherHands
    <3>7. HasUrl(FetcherItems(FetcherHands), u)
      BY <3>1, <3>2 DEF HasUrl, FetcherItems
    <3>8. HasUrl(Asked, u) \/ HasUrl(Answered, u)
      BY <3>7, FetcherHalves DEF HasUrl, Asked, Answered
    <3>9. StageOf(u) = "taken" \/ StageOf(u) = "answered"
      BY <3>8 DEF PromiseInv, StageInv
    <3>10. Promise!Step(u, "taken", "closed") \/ Promise!Step(u, "answered", "closed")
      BY <1>1, <1>3, <3>3, <3>6, <3>9, StepOf
    <3>11. Promise!Abandon(u)
      BY <1>1, <3>1, <3>10 DEF Promise!Abandon
    <3> QED
      BY <3>11 DEF Promise!Next
  <2>2. ASSUME NEW p \in Parsers, parserPc[p] \notin Gone \cup {"idle"},
               parserPc' = [parserPc EXCEPT ![p] = "panicked"], UNCHANGED <<fetcherPc, persisterPc>>
        PROVE  Promise!Next
    <3>1. parserPc[p] \in ParserHands /\ parserPc'[p] = "panicked" /\ ~Quiet'
      BY <1>2, <2>2 DEF ParserHands, ParserPc, Gone, Quiet
    <3>2. PICK u \in URLs : u = parserItem[p].url
      BY <1>1, <3>1, ItemUrls
    <3>3. dispPc # "finalized"
      BY <2>2 DEF PromiseInv, NoSendOnClosedChannel, PersistQueueClosed
    <3>4. UNCHANGED PersisterItems /\ \A pcs : UNCHANGED FetcherItems(pcs)
      BY <1>1, <2>2, HandsUnchanged
    <3>5. \A r \in Parsers \ {p} : parserPc'[r] = parserPc[r] /\ parserItem'[r] = parserItem[r]
      BY <1>1, <1>2, <2>2
    <3>6. OthersStay(u) /\ StageOf(u)' = "closed"
      BY <1>1, <3>1, <3>2, <3>4, <3>5, ParserCloses DEF PromiseInv, ParserHands
    <3>7. HasUrl(Answered, u)
      BY <3>1, <3>2 DEF HasUrl, Answered, ParserItems
    <3>8. StageOf(u) = "answered"
      BY <3>7 DEF PromiseInv, StageInv
    <3>9. Promise!Abandon(u)
      BY <1>1, <1>3, <3>1, <3>3, <3>6, <3>8, StepOf DEF Promise!Abandon
    <3> QED
      BY <3>9 DEF Promise!Next
  <2>3. ASSUME PersisterStep("write", "panicked"), UNCHANGED <<fetcherPc, parserPc>>
        PROVE  Promise!Next
    <3>1. /\ persisterPc = "write" /\ PersisterItems = {persisterItem} /\ PersisterItems' = {}
          /\ ~Quiet'
      BY <2>3 DEF PersisterStep, PersisterItems, Quiet
    <3>2. PICK u \in URLs : u = persisterItem.url
      BY <1>1, <3>1, ItemUrls
    <3>3. dispPc # "finalized"
      BY <3>1 DEF PromiseInv, DrainInv, PipelineReturned, Gone
    <3>4. UNCHANGED ParserItems /\ \A pcs : UNCHANGED FetcherItems(pcs)
      BY <1>1, <2>3, HandsUnchanged
    <3>5. HasUrl(PersisterItems, u) /\ HasUrl(Answered, u)
      BY <3>1, <3>2 DEF HasUrl, Answered
    <3>6. OthersStay(u) /\ StageOf(u)' = "closed"
      BY <1>1, <3>1, <3>4, <3>5, PersisterCloses DEF PromiseInv
    <3>7. StageOf(u) = "answered"
      BY <3>5 DEF PromiseInv, StageInv
    <3>8. Promise!Abandon(u)
      BY <1>1, <1>3, <3>1, <3>3, <3>6, <3>7, StepOf DEF Promise!Abandon
    <3> QED
      BY <3>8 DEF Promise!Next
  <2> QED
    BY <1>6, <2>1, <2>2, <2>3 DEF Panic
<1>7. CASE RecoverWorker
  <2>1. /\ \A f \in Fetchers : fetcherPc'[f] = fetcherPc[f]
                               \/ (fetcherPc[f] = "panicked" /\ fetcherPc'[f] = "crashed")
        /\ \A p \in Parsers : parserPc'[p] = parserPc[p]
                              \/ (parserPc[p] = "panicked" /\ parserPc'[p] = "crashed")
        /\ persisterPc' = persisterPc \/ (persisterPc = "panicked" /\ persisterPc' = "crashed")
    BY <1>2, <1>7 DEF RecoverWorker, FetcherStep, ParserStep, PersisterStep
  <2>2. UNCHANGED <<FetcherItems(FetcherHands \ {"send"}), FetcherItems({"send"})>>
    <3>1. \A f \in Fetchers : /\ fetcherPc'[f] = "send" <=> fetcherPc[f] = "send"
                              /\ fetcherPc'[f] \in FetcherHands \ {"send"}
                                    <=> fetcherPc[f] \in FetcherHands \ {"send"}
      BY <2>1 DEF FetcherHands
    <3> QED
      BY <1>1, <3>1 DEF FetcherItems
  <2>3. UNCHANGED <<ParserItems, PersisterItems>>
    <3>1. \A p \in Parsers : parserPc'[p] \in ParserHands <=> parserPc[p] \in ParserHands
      BY <2>1 DEF ParserHands
    <3> QED
      BY <1>1, <2>1, <3>1 DEF ParserItems, PersisterItems
  <2>4. ~Quiet /\ ~Quiet'
    BY <1>7 DEF RecoverWorker, CancelWith, Quiet, Cancelled, FetcherStep, ParserStep, PersisterStep
  <2>5. \A v \in URLs : StageOf(v)' = StageOf(v)
    BY <1>4, <2>2, <2>3
  <2>6. UNCHANGED Quiet
    BY <2>4 DEF Quiet
  <2> QED
    BY <1>1, <2>5, <2>6, NoStep
<1> QED
  BY <1>5, <1>6, <1>7 DEF Environment

-----------------------------------------------------------------------------
(* The promise of Crawl: the job row, and every step of the crawl.          *)

\* The rows of what was pushed, the job row and the dispatcher's error.
LEMMA OutcomeStep ==
    ASSUME TypeInv, OutcomeInv, [Next]_vars
    PROVE  OutcomeInv'
<1>1. CASE Dispatcher
  <2>1. UNCHANGED <<seen, urlStatus, cause>>
    BY <1>1 DEF Dispatcher, DispatchReadPages, DispatchPop, DispatchNothing, DispatchSend,
       DispatchSendCancelled, DispatchReadCap, DispatchReadQueue, DispatchReadInFlight, DispatchTick,
       DispatchDone, DispatchShutdown, Finalize, OthersOfDispatch, rowVars, frontierVars
  <2>2. completionErr' = completionErr \/ Cancelled
    BY <1>1 DEF Dispatcher, DispatchReadPages, DispatchPop, DispatchNothing, DispatchSend,
       DispatchSendCancelled, DispatchReadCap, DispatchReadQueue, DispatchReadInFlight, DispatchTick,
       DispatchDone, DispatchShutdown, Finalize
  <2>3. jobStatus' = "running" <=> dispPc' # "finalized"
    BY <1>1 DEF Dispatcher, DispatchReadPages, DispatchPop, DispatchNothing, DispatchSend,
       DispatchSendCancelled, DispatchReadCap, DispatchReadQueue, DispatchReadInFlight, DispatchTick,
       DispatchDone, DispatchShutdown, Finalize, DispatchStep, OthersOfDispatch, rowVars, OutcomeInv
  <2> QED
    BY <2>1, <2>2, <2>3 DEF OutcomeInv, Cancelled
<1>2. CASE ~Dispatcher
  <2>1. UNCHANGED <<dispPc, completionErr, jobStatus>> /\ (Cancelled => Cancelled')
    <3>1. CASE \E f \in Fetchers : Fetcher(f)
      BY <3>1 DEF Fetcher, FetcherTake, FetcherOnboard, FetcherOnboarded, FetcherOnboardFails,
         FetcherRobots, FetcherFetch, FetcherFetched, FetcherSend, FetcherCancelled, FetcherExit,
         OthersOfFetch, dispatcherVars, Cancelled
    <3>2. CASE \E p \in Parsers : Parser(p)
      BY <3>2 DEF Parser, ParserTake, ParserCount, ParserReserve, ParserPush, ParserSend,
         ParserCancelled, ParserExit, OthersOfParse, dispatcherVars, Cancelled
    <3>3. CASE Persister
      BY <3>3 DEF Persister, PersistTake, PersistItem, PersistFails, PersistRetry, PersistCancelled,
         PersistFatal, PersisterExit, OthersOfPersist, dispatcherVars, Cancelled, CancelWith
    <3>4. CASE Environment \/ UNCHANGED vars
      BY <3>4 DEF Environment, Cancel, Panic, RecoverWorker, OthersOfPanic, dispatcherVars, rowVars, vars,
         Cancelled, CancelWith
    <3> QED
      BY <1>2, <3>1, <3>2, <3>3, <3>4 DEF Next, Finished
  <2>2. ASSUME NEW u \in seen' PROVE urlStatus'[u] # "unknown"
    <3>1. urlStatus \in [URLs -> UrlStatus] /\ seen \in SUBSET URLs
      BY DEF TypeInv, TypeOK
    <3>2. CASE u \in seen
      <4>1. u \in URLs /\ urlStatus[u] # "unknown"
        BY <3>1, <3>2 DEF OutcomeInv
      <4>2. ASSUME NEW f \in Fetchers, Decides(f), u = fetcherItem[f].url
            PROVE  urlStatus'[u] # "unknown"
        BY <3>1, <4>1, <4>2 DEF Decides, FetcherOnboard, FetcherRobots, FetcherFetched
      <4> QED
        BY <4>1, <4>2, RowMoves
    <3>3. CASE u \notin seen
      <4>1. PICK T, d : Push(T, d) /\ T \in SUBSET URLs /\ urlStatus' = UpsertURLs(T)
        <5>1. CASE \E f \in Fetchers : Fetcher(f)
          <6>1. PICK f \in Fetchers : FetcherOnboarded(f)
            BY <3>3, <5>1 DEF Fetcher, FetcherTake, FetcherOnboard, FetcherOnboardFails,
               FetcherRobots, FetcherFetch, FetcherFetched, FetcherSend, FetcherCancelled, FetcherExit,
               frontierVars
          <6>2. PICK n : /\ Push(SitemapURLs(HostOf[fetcherItem[f].url], n), fetcherItem[f].depth + 1)
                         /\ urlStatus' = UpsertURLs(SitemapURLs(HostOf[fetcherItem[f].url], n))
            BY <6>1 DEF FetcherOnboarded
          <6>3. fetcherItem[f].url \in URLs
            BY <6>1, ItemUrls DEF FetcherOnboarded, FetcherStep, FetcherHands
          <6>4. SitemapURLs(HostOf[fetcherItem[f].url], n) \in SUBSET URLs
            <7>1. HostOf[fetcherItem[f].url] \in Hosts
              BY <6>3, SiteAssumption
            <7> QED
              BY <7>1, SitemapHost
          <6> QED
            BY <6>2, <6>4
        <5>2. CASE \E p \in Parsers : Parser(p)
          <6>1. PICK p \in Parsers : ParserPush(p)
            BY <3>3, <5>2 DEF Parser, ParserTake, ParserCount, ParserReserve, ParserSend,
               ParserCancelled, ParserExit, frontierVars
          <6>2. {Head(parserLinks[p])} \in SUBSET URLs
            <7>1. parserLinks[p] \in Seq(URLs) /\ parserLinks[p] # <<>>
              BY <6>1 DEF ParserPush, ParserStep, TypeInv, TypeOK, HandsFull
            <7> QED
              BY <7>1
          <6> QED
            BY <6>1, <6>2 DEF ParserPush
        <5>3. CASE Persister \/ Environment \/ UNCHANGED vars
          BY <3>3, <5>3 DEF Persister, PersistTake, PersistItem, PersistFails, PersistRetry,
             PersistCancelled, PersistFatal, PersisterExit, OthersOfPersist, Environment, Cancel, Panic,
             RecoverWorker, OthersOfPanic, frontierVars, vars
        <5> QED
          BY <1>2, <5>1, <5>2, <5>3 DEF Next, Finished
      <4>2. u \in T
        BY <3>3, <4>1 DEF Push
      <4> QED
        BY <4>1, <4>2 DEF UpsertURLs
    <3> QED
      BY <3>2, <3>3
  <2> QED
    BY <2>1, <2>2 DEF OutcomeInv
<1> QED
  BY <1>1, <1>2

\* In every state the job row says whether the dispatcher is through, an error it ended
\* with is a cancellation, and no URL of the frontier is without a row.
THEOREM OutcomesKept == Spec => []OutcomeInv
<1>1. Init => OutcomeInv
  <2> SUFFICES ASSUME Init PROVE OutcomeInv
    OBVIOUS
  <2>1. seen \in SUBSET URLs
    BY InitType DEF TypeInv, TypeOK
  <2>2. jobStatus = "running" /\ dispPc = "poll" /\ completionErr = "none"
        /\ urlStatus = [u \in URLs |-> IF u \in seen THEN "queued" ELSE "unknown"]
    BY DEF Init
  <2> QED
    BY <2>1, <2>2 DEF OutcomeInv
<1>2. TypeInv /\ OutcomeInv /\ [Next]_vars => OutcomeInv'
  BY OutcomeStep
<1> QED
  BY <1>1, <1>2, TypeCorrect, PTL DEF Spec

\* The first URLs wait, and nothing has happened yet.
LEMMA InitRefines == Init => Promise!Init
<1> SUFFICES ASSUME Init PROVE Promise!Init
  OBVIOUS
<1>1. TypeInv /\ seen \in SUBSET URLs
  BY InitType DEF TypeInv, TypeOK
<1>2. PICK S \in SUBSET URLs :
         /\ frontier = {NewItem(u, 0) : u \in Seeds} \cup {NewItem(u, 1) : u \in S}
         /\ seen = Seeds \cup S
  BY InitItems
<1>3. ASSUME NEW u \in seen PROVE HasUrl(frontier, u)
  <2>1. \A d : NewItem(u, d).url = u
    BY DEF NewItem
  <2>2. \E d \in {0, 1} : NewItem(u, d) \in frontier
    BY <1>2, <1>3
  <2> QED
    BY <2>1, <2>2 DEF HasUrl
<1>4. ASSUME NEW u \in URLs PROVE StageOf(u) = IF u \in seen THEN "waiting" ELSE "new"
  BY <1>3 DEF StageOf
<1> HIDE DEF StageOf
<1>5. [u \in URLs |-> StageOf(u)] = [u \in URLs |-> IF u \in seen THEN "waiting" ELSE "new"]
  BY <1>4
<1>6. urlStatus = [u \in URLs |-> IF u \in seen THEN "queued" ELSE "unknown"] /\ jobStatus = "running"
  BY DEF Init
<1>7. Quiet
  BY DEF Init, Quiet, Cancelled
<1>8. seen # {}
  BY <1>2, SiteAssumption
<1> QED
  BY <1>1, <1>5, <1>6, <1>7, <1>8 DEF Promise!Init

\* Every step of the crawl.
LEMMA StepRefines ==
    ASSUME PromiseInv, StageInv', [Next]_vars
    PROVE  [Promise!Next]_(Promise!vars)
<1>1. CASE UNCHANGED vars
  <2>1. /\ UNCHANGED <<seen, frontier, dispPc, dispItem, fetcherPc, fetcherItem, parserPc, parserItem>>
        /\ UNCHANGED <<persisterPc, persisterItem, fetchQueue, fetchResults, persistQueue, fetches>>
        /\ UNCHANGED <<urlStatus, jobStatus, cause>>
    BY <1>1 DEF vars, frontierVars, dispatcherVars, fetcherVars, parserVars, persisterVars, channels,
       rowVars
  <2>2. UNCHANGED <<Asked, Answered>>
    <3>1. UNCHANGED <<DispItems, FetcherItems(FetcherHands \ {"send"}), FetcherItems({"send"}),
                      ParserItems, PersisterItems, ItemsIn(fetchQueue), ItemsIn(fetchResults),
                      ItemsIn(persistQueue)>>
      BY <2>1, HandsUnchanged
    <3> QED
      BY <3>1 DEF Asked, Answered
  <2>3. \A v \in URLs : StageOf(v)' = StageOf(v)
    BY <2>1, <2>2 DEF StageOf, HasUrl
  <2>4. UNCHANGED Quiet
    BY <2>1 DEF Quiet, Cancelled
  <2> QED
    BY <2>1, <2>3, <2>4, NoStep
<1> QED
  BY <1>1, DispatcherRefines, FetcherRefines, ParserRefines, PersisterRefines, EnvironmentRefines
     DEF Next, Finished

\* For every site, all pool sizes, channel capacities and budgets, and every order of the
\* goroutines, of cancellations, faults and panics: the crawl keeps the promise of Crawl.
THEOREM CrawlRefined == Spec => CrawlImplemented
<1>1. TypeInv /\ OneItem /\ StatusInv /\ DrainInv /\ OutcomeInv /\ InFlightAccounting
         /\ NoSendOnClosedChannel /\ StageInv /\ StageInv' /\ [Next]_vars
      => [Promise!Next]_(Promise!vars)
  BY StepRefines DEF PromiseInv
<1> QED
  BY <1>1, InitRefines, StagesExact, TypeCorrect, OneItemKept, StatusesKept, DrainKept, OutcomesKept,
     InFlightExact, ChannelsSafe, PTL DEF Spec, CrawlImplemented, Promise!Spec
=============================================================================

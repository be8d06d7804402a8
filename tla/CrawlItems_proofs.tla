------------------------- MODULE CrawlItems_proofs -------------------------
(***************************************************************************)
(* Proofs about the items of the crawl pipeline, for every site, every pool *)
(* and every budget: each URL has one item, which is in one place at a time, *)
(* and what becomes of it is on record.                                      *)
(***************************************************************************)
EXTENDS CrawlPipeline_proofs

-----------------------------------------------------------------------------
(* Where the items are.                                                     *)

\* No two entries of a channel are items of the same URL.
Single(q) == \A m, n \in DOMAIN q : q[m].url = q[n].url => m = n

\* The items between a push to the frontier and the end of their persisting.
Carried == frontier \cup DispItems \cup ItemsIn(fetchQueue) \cup FetcherItems(FetcherHands)
             \cup Answered

Stages == {"new", "frontier", "dispatcher", "fetchQueue", "fetcher", "fetchResults", "parser",
           "persistQueue", "persister", "stored"}

\* No stage has two items of the same URL.
Alone ==
    /\ \A i, j \in frontier : i.url = j.url => i = j
    /\ Single(fetchQueue) /\ Single(fetchResults) /\ Single(persistQueue)
    /\ \A f, g \in Fetchers :
          /\ fetcherPc[f] \in FetcherHands /\ fetcherPc[g] \in FetcherHands
          /\ fetcherItem[f].url = fetcherItem[g].url
          => f = g
    /\ \A p, r \in Parsers :
          /\ parserPc[p] \in ParserHands /\ parserPc[r] \in ParserHands
          /\ parserItem[p].url = parserItem[r].url
          => p = r
    /\ \A i, j \in fetches : i.url = j.url => i = j

\* at[u] is the only stage that may have an item of u, and a URL never pushed has none.
Placed(at) ==
    /\ \A u \in URLs \ seen : at[u] = "new"
    /\ \A i \in frontier : at[i.url] = "frontier"
    /\ dispPc = "send" => at[dispItem.url] = "dispatcher"
    /\ \A i \in ItemsIn(fetchQueue) : at[i.url] = "fetchQueue"
    /\ \A f \in Fetchers : fetcherPc[f] \in FetcherHands => at[fetcherItem[f].url] = "fetcher"
    /\ \A i \in ItemsIn(fetchResults) : at[i.url] = "fetchResults"
    /\ \A p \in Parsers : parserPc[p] \in ParserHands => at[parserItem[p].url] = "parser"
    /\ \A i \in ItemsIn(persistQueue) : at[i.url] = "persistQueue"
    /\ persisterPc \in {"write", "backoff"} => at[persisterItem.url] = "persister"
    /\ \A i \in fetches : at[i.url] = "stored"

\* A URL has one item, in one place.
OneItem == Alone /\ \E at \in [URLs -> Stages] : Placed(at)

\* Fetch numbers are given out once.
Numbered == FetcherItems({"fetching"}) \cup Answered \cup fetches
NumberInv ==
    \A i, j \in Numbered : i.seq \in 1..fetchSeq /\ (i.seq = j.seq => i.url = j.url)

\* The dispatcher returns without an error only from an empty pipeline, and after
\* the persister; only such a return completes the job.
DrainInv ==
    /\ FetchQueueClosed /\ completionErr = "none" => inFlight = 0
    /\ PipelineReturned => persisterPc \in Gone
    /\ jobStatus = "completed" => dispPc = "finalized" /\ completionErr = "none"

\* An item past MaxDepth is there by one level only, and its host is onboarded.
Shallow(i) == i.depth <= MaxDepth + 1 /\ (i.depth > MaxDepth => HostOf[i.url] \in hostSeen)

DepthInv ==
    /\ \A i \in Carried \cup fetches : Shallow(i)
    /\ \A f \in Fetchers : fetcherPc[f] = "onboarding" =>
          fetcherItem[f].depth <= MaxDepth /\ HostOf[fetcherItem[f].url] \in hostSeen
    /\ \A p \in Parsers : parserPc[p] = "push" => parserItem[p].depth < MaxDepth

-----------------------------------------------------------------------------
(* Channels.                                                                *)

\* What a send and a receive do to the items of a channel.
LEMMA QueueItems ==
    ASSUME NEW q \in Seq(Item)
    PROVE  /\ ItemsIn(<<>>) = {} /\ ItemsIn(q) \subseteq Item
           /\ \A i \in Item : ItemsIn(Append(q, i)) = ItemsIn(q) \cup {i}
           /\ q # <<>> => ItemsIn(q) = ItemsIn(Tail(q)) \cup {Head(q)}
<1> USE DEF ItemsIn
<1>1. ItemsIn(<<>>) = {} /\ ItemsIn(q) \subseteq Item
  OBVIOUS
<1>2. ASSUME NEW i \in Item PROVE ItemsIn(Append(q, i)) = ItemsIn(q) \cup {i}
  <2>1. /\ DOMAIN Append(q, i) = 1..Len(q) + 1 /\ DOMAIN q = 1..Len(q) /\ Len(q) \in Nat
        /\ \A n \in 1..Len(q) : Append(q, i)[n] = q[n]
        /\ Append(q, i)[Len(q) + 1] = i
    OBVIOUS
  <2>2. \A n \in 1..Len(q) + 1 : n \in 1..Len(q) \/ n = Len(q) + 1
    BY <2>1
  <2>3. \A n \in 1..Len(q) : n \in 1..Len(q) + 1
    BY <2>1
  <2>4. Len(q) + 1 \in 1..Len(q) + 1
    BY <2>1
  <2> QED
    BY <2>1, <2>2, <2>3, <2>4
<1>3. ASSUME q # <<>> PROVE ItemsIn(q) = ItemsIn(Tail(q)) \cup {Head(q)}
  <2>1. /\ DOMAIN Tail(q) = 1..Len(q) - 1 /\ DOMAIN q = 1..Len(q) /\ Len(q) \in Nat \ {0}
        /\ Head(q) = q[1]
        /\ \A n \in 1..Len(q) - 1 : Tail(q)[n] = q[n + 1]
    BY <1>3
  <2>2. \A n \in 1..Len(q) : n = 1 \/ n - 1 \in 1..Len(q) - 1
    BY <2>1
  <2>3. \A n \in 1..Len(q) - 1 : n + 1 \in 1..Len(q)
    BY <2>1
  <2>4. \A n \in 1..Len(q) : n = 1 \/ q[n] = Tail(q)[n - 1]
    BY <2>1, <2>2
  <2>5. \A x \in ItemsIn(q) : x = Head(q) \/ x \in ItemsIn(Tail(q))
    BY <2>1, <2>2, <2>4
  <2>6. 1 \in DOMAIN q
    BY <2>1
  <2>7. \A x \in ItemsIn(Tail(q)) : x \in ItemsIn(q)
    BY <2>1, <2>3
  <2>8. Head(q) \in ItemsIn(q)
    BY <2>1, <2>6
  <2> HIDE DEF ItemsIn
  <2> QED
    BY <2>5, <2>7, <2>8
<1> QED
  BY <1>1, <1>2, <1>3

\* A channel keeps one item of each URL when the item sent has another URL than
\* those in it, and a receive takes the only item of its URL.
LEMMA QueueSingle ==
    ASSUME NEW q \in Seq(Item), Single(q)
    PROVE  /\ \A i \in Item : (\A j \in ItemsIn(q) : j.url # i.url) => Single(Append(q, i))
           /\ q # <<>> => Single(Tail(q)) /\ \A j \in ItemsIn(Tail(q)) : j.url # Head(q).url
<1> USE DEF ItemsIn, Single
<1>1. ASSUME NEW i \in Item, \A j \in ItemsIn(q) : j.url # i.url PROVE Single(Append(q, i))
  <2>1. /\ DOMAIN Append(q, i) = 1..Len(q) + 1 /\ DOMAIN q = 1..Len(q) /\ Len(q) \in Nat
        /\ \A n \in 1..Len(q) : Append(q, i)[n] = q[n] /\ q[n].url # i.url
        /\ Append(q, i)[Len(q) + 1] = i
    BY <1>1
  <2>2. \A n \in 1..Len(q) + 1 : n \in 1..Len(q) \/ n = Len(q) + 1
    BY <2>1
  <2> QED
    BY <2>1, <2>2
<1>2. ASSUME q # <<>>
      PROVE  Single(Tail(q)) /\ \A j \in ItemsIn(Tail(q)) : j.url # Head(q).url
  <2>1. /\ DOMAIN Tail(q) = 1..Len(q) - 1 /\ DOMAIN q = 1..Len(q) /\ Len(q) \in Nat \ {0}
        /\ Head(q) = q[1] /\ 1 \in DOMAIN q
        /\ \A n \in 1..Len(q) - 1 : Tail(q)[n] = q[n + 1] /\ n + 1 \in DOMAIN q /\ n + 1 # 1
    BY <1>2
  <2>2. \A m, n \in 1..Len(q) - 1 : m + 1 = n + 1 => m = n
    OBVIOUS
  <2> QED
    BY <2>1, <2>2
<1> QED
  BY <1>1, <1>2

-----------------------------------------------------------------------------
(* An empty pipeline, and the end of the crawl.                             *)

\* When nothing is in flight, nothing is in a channel or in a worker's hands.
LEMMA NothingHeld ==
    ASSUME TypeInv, InFlightAccounting, inFlight = 0
    PROVE  /\ dispPc # "send" /\ ~Holding(persisterPc)
           /\ fetchQueue = <<>> /\ fetchResults = <<>> /\ persistQueue = <<>>
           /\ \A f \in Fetchers : ~Holding(fetcherPc[f])
           /\ \A p \in Parsers : ~Holding(parserPc[p])
<1>1. fetchQueue \in Seq(Item) /\ fetchResults \in Seq(Item) /\ persistQueue \in Seq(Item)
  BY DEF TypeInv, TypeOK
<1>2. /\ Len(fetchQueue) \in Nat /\ Len(fetchResults) \in Nat /\ Len(persistQueue) \in Nat
      /\ One(dispPc = "send") \in Nat /\ One(Holding(persisterPc)) \in Nat
  BY <1>1 DEF One
<1>3. /\ One(dispPc = "send") = 0 /\ One(Holding(persisterPc)) = 0
      /\ Len(fetchQueue) = 0 /\ Len(fetchResults) = 0 /\ Len(persistQueue) = 0
      /\ Cardinality(BusyFetchers) = 0 /\ Cardinality(BusyParsers) = 0
  BY <1>2, PoolsFinite DEF InFlightAccounting
<1>4. BusyFetchers = {} /\ BusyParsers = {}
  <2>1. BusyFetchers \in SUBSET Fetchers /\ BusyParsers \in SUBSET Parsers
    BY DEF BusyFetchers, BusyParsers
  <2>2. IsFiniteSet(BusyFetchers) /\ IsFiniteSet(BusyParsers)
    BY <2>1, PoolAssumption, FS_Subset
  <2> QED
    BY <1>3, <2>2, FS_EmptySet
<1> QED
  BY <1>1, <1>3, <1>4 DEF One, BusyFetchers, BusyParsers

\* inFlight is never negative.
LEMMA InFlightNat == TypeOK /\ InFlightAccounting => inFlight \in Nat
<1> SUFFICES ASSUME TypeOK, InFlightAccounting PROVE inFlight \in Nat
  OBVIOUS
<1>1. /\ Len(fetchQueue) \in Nat /\ Len(fetchResults) \in Nat /\ Len(persistQueue) \in Nat
      /\ One(dispPc = "send") \in Nat /\ One(Holding(persisterPc)) \in Nat
  BY DEF TypeOK, One
<1> QED
  BY <1>1, PoolsFinite DEF InFlightAccounting

\* Every step keeps the account of the crawl's end.
LEMMA DrainStep ==
    ASSUME TypeInv, inFlight \in Nat, inFlight' \in Nat, DrainInv, [Next]_vars
    PROVE  DrainInv'
<1> USE DEF FetchQueueClosed, PipelineReturned, DrainInv
<1>1. CASE UNCHANGED vars
  BY <1>1 DEF vars, dispatcherVars, persisterVars, rowVars
<1>2. CASE Dispatcher
  <2> USE DEF DispatchStep, OthersOfDispatch, persisterVars, rowVars
  <2>1. CASE DispatchSendCancelled \/ DispatchDone
    BY <2>1 DEF DispatchSendCancelled, DispatchDone, Cancelled
  <2>2. CASE DispatchReadInFlight
    BY <2>2 DEF DispatchReadInFlight
  <2>3. CASE DispatchShutdown
    BY <2>3 DEF DispatchShutdown
  <2>4. CASE Finalize
    BY <2>4 DEF Finalize, persisterVars
  <2>5. CASE DispatchReadPages \/ DispatchPop \/ DispatchNothing \/ DispatchSend \/ DispatchReadCap
    BY <2>5 DEF DispatchReadPages, DispatchPop, DispatchNothing, DispatchSend, DispatchReadCap
  <2>6. CASE DispatchReadQueue \/ DispatchTick
    BY <2>6 DEF DispatchReadQueue, DispatchTick
  <2> QED
    BY <1>2, <2>1, <2>2, <2>3, <2>4, <2>5, <2>6 DEF Dispatcher
<1>3. ASSUME UNCHANGED <<dispPc, completionErr, jobStatus>>, inFlight' <= inFlight,
             persisterPc \in Gone => persisterPc' \in Gone
      PROVE  DrainInv'
  <2>1. inFlight = 0 => inFlight' = 0
    BY <1>3
  <2> QED
    BY <1>3, <2>1
<1>4. ASSUME NEW f \in Fetchers, Fetcher(f) PROVE DrainInv'
  <2>1. UNCHANGED <<dispPc, completionErr, jobStatus, persisterPc>>
    BY <1>4 DEF Fetcher, FetcherTake, FetcherOnboard, FetcherOnboarded, FetcherOnboardFails,
       FetcherRobots, FetcherFetch, FetcherFetched, FetcherSend, FetcherCancelled, FetcherExit,
       OthersOfFetch, dispatcherVars, persisterVars
  <2>2. inFlight' = inFlight \/ inFlight' = inFlight - 1
    BY <1>4 DEF Fetcher, FetcherTake, FetcherOnboard, FetcherOnboarded, FetcherOnboardFails,
       FetcherRobots, FetcherFetch, FetcherFetched, FetcherSend, FetcherCancelled, FetcherExit,
       FetcherDrops
  <2> QED
    BY <1>3, <2>1, <2>2
<1>5. ASSUME NEW p \in Parsers, Parser(p) PROVE DrainInv'
  <2>1. UNCHANGED <<dispPc, completionErr, jobStatus, persisterPc>>
    BY <1>5 DEF Parser, ParserTake, ParserCount, ParserReserve, ParserPush, ParserSend,
       ParserCancelled, ParserExit, OthersOfParse, dispatcherVars, persisterVars
  <2>2. inFlight' <= inFlight
    BY <1>5 DEF Parser, ParserTake, ParserCount, ParserReserve, ParserPush, ParserSend,
       ParserCancelled, ParserExit, TypeInv, TypeOK
  <2> QED
    BY <1>3, <2>1, <2>2
<1>6. CASE Persister
  <2>1. /\ UNCHANGED <<dispPc, completionErr, jobStatus>>
        /\ persisterPc \notin Gone
    BY <1>6 DEF Persister, PersistTake, PersistItem, PersistFails, PersistRetry, PersistCancelled,
       PersistFatal, PersisterExit, PersisterStep, OthersOfPersist, dispatcherVars, Gone
  <2>2. inFlight' <= inFlight
    BY <1>6 DEF Persister, PersistTake, PersistItem, PersistFails, PersistRetry, PersistCancelled,
       PersistFatal, PersisterExit, TypeInv, TypeOK
  <2> QED
    BY <1>3, <2>1, <2>2
<1>7. CASE Environment
  <2>1. UNCHANGED <<dispPc, completionErr, jobStatus, inFlight>>
    BY <1>7 DEF Environment, Cancel, Panic, RecoverWorker, OthersOfPanic, dispatcherVars, rowVars
  <2>2. persisterPc \in Gone => persisterPc' \in Gone
    BY <1>7 DEF Environment, Cancel, Panic, RecoverWorker, PersisterStep, persisterVars, Gone
  <2>3. inFlight' <= inFlight
    BY <2>1 DEF TypeInv, TypeOK
  <2> QED
    BY <1>3, <2>1, <2>2, <2>3
<1> QED
  BY <1>1, <1>2, <1>4, <1>5, <1>6, <1>7 DEF Next, Finished

\* The dispatcher takes the crawl for complete only when it really is: at every
\* return without an error nothing is in flight.
THEOREM DrainKept == Spec => []DrainInv
<1>1. Init => DrainInv
  BY DEF Init, DrainInv, FetchQueueClosed, PipelineReturned
<1>2. TypeInv /\ inFlight \in Nat /\ (inFlight \in Nat)' /\ DrainInv /\ [Next]_vars => DrainInv'
  BY DrainStep
<1> QED
  BY <1>1, <1>2, InFlightNat, TypeSafe, TypeCorrect, InFlightExact, PTL DEF Spec

\* A crawl in which a worker panicked never ends "completed": the worker's item is
\* counted in flight for ever, so the dispatcher leaves by ctx.Done.
THEOREM PanicsFail == Spec => []PanicNeverCompletes
<1>1. TypeInv /\ InFlightAccounting /\ DrainInv => PanicNeverCompletes
  BY NothingHeld DEF DrainInv, FetchQueueClosed, PanicNeverCompletes, Holding
<1> QED
  BY <1>1, TypeCorrect, InFlightExact, DrainKept, PTL

-----------------------------------------------------------------------------
(* Where a step takes the items from.                                       *)

Same(i, j) == i.url = j.url /\ i.depth = j.depth

\* An item after a step is a new one of the frontier or was there before; one that is
\* answered or numbered after it was so before, or its fetcher has just made it so.
Flow ==
    /\ \A i \in Carried' \cup fetches' :
          i \in frontier' \ frontier \/ \E j \in Carried \cup fetches : Same(i, j)
    /\ \A i \in Answered' \cup fetches' :
          i \in Answered \cup fetches \/ \E f \in Fetchers : FetcherFetched(f) /\ i = fetcherItem'[f]
    /\ \A i \in Numbered' :
          \/ i \in Numbered
          \/ \E f \in Fetchers : (FetcherFetch(f) \/ FetcherFetched(f)) /\ i = fetcherItem'[f]

\* The sets of items that the dispatcher, the parsers and the persister hold depend on
\* their own variables only.
LEMMA HandsUnchanged ==
    /\ UNCHANGED <<dispPc, dispItem>> => UNCHANGED DispItems
    /\ UNCHANGED <<fetcherPc, fetcherItem>> => \A pcs : UNCHANGED FetcherItems(pcs)
    /\ UNCHANGED <<parserPc, parserItem>> => UNCHANGED ParserItems
    /\ UNCHANGED <<persisterPc, persisterItem>> => UNCHANGED PersisterItems
    /\ UNCHANGED fetchQueue => UNCHANGED ItemsIn(fetchQueue)
    /\ UNCHANGED fetchResults => UNCHANGED ItemsIn(fetchResults)
    /\ UNCHANGED persistQueue => UNCHANGED ItemsIn(persistQueue)
BY DEF DispItems, FetcherItems, ParserItems, PersisterItems, ItemsIn

\* What a step of one fetcher does to the items of the fetchers that are at one of pcs.
LEMMA FetcherMoves ==
    ASSUME NEW f \in Fetchers, NEW pcs,
           \A g \in Fetchers \ {f} : fetcherPc'[g] = fetcherPc[g] /\ fetcherItem'[g] = fetcherItem[g]
    PROVE  /\ \A i \in FetcherItems(pcs)' :
                 i \in FetcherItems(pcs) \/ (i = fetcherItem'[f] /\ fetcherPc'[f] \in pcs)
           /\ \A i \in FetcherItems(pcs) :
                 i \in FetcherItems(pcs)' \/ (i = fetcherItem[f] /\ fetcherPc[f] \in pcs)
           /\ fetcherPc[f] \in pcs => fetcherItem[f] \in FetcherItems(pcs)
           /\ fetcherPc'[f] \in pcs => fetcherItem'[f] \in FetcherItems(pcs)'
BY DEF FetcherItems

\* The same for the parsers.
LEMMA ParserMoves ==
    ASSUME NEW p \in Parsers,
           \A r \in Parsers \ {p} : parserPc'[r] = parserPc[r] /\ parserItem'[r] = parserItem[r]
    PROVE  /\ \A i \in ParserItems' :
                 i \in ParserItems \/ (i = parserItem'[p] /\ parserPc'[p] \in ParserHands)
           /\ \A i \in ParserItems :
                 i \in ParserItems' \/ (i = parserItem[p] /\ parserPc[p] \in ParserHands)
           /\ parserPc[p] \in ParserHands => parserItem[p] \in ParserItems
           /\ parserPc'[p] \in ParserHands => parserItem'[p] \in ParserItems'
BY DEF ParserItems

\* The dispatcher takes items from the frontier and gives them to the fetchers.
LEMMA DispatcherFlow ==
    ASSUME TypeInv, Dispatcher
    PROVE  Flow
<1>1. UNCHANGED <<fetcherPc, fetcherItem, parserPc, parserItem, persisterPc, persisterItem,
                  fetchResults, persistQueue, fetches>>
  BY DEF Dispatcher, DispatchReadPages, DispatchPop, DispatchNothing, DispatchSend,
     DispatchSendCancelled, DispatchReadCap, DispatchReadQueue, DispatchReadInFlight, DispatchTick,
     DispatchDone, DispatchShutdown, Finalize, OthersOfDispatch, fetcherVars, parserVars,
     persisterVars, channels, rowVars
<1>2. UNCHANGED <<Answered, Numbered>>
  BY <1>1, HandsUnchanged DEF Answered, Numbered
<1>3. frontier' \cup DispItems' \cup ItemsIn(fetchQueue)' \subseteq
         frontier \cup DispItems \cup ItemsIn(fetchQueue)
  <2>1. CASE DispatchPop
    <3>1. frontier' \subseteq frontier /\ UNCHANGED fetchQueue
      BY <2>1 DEF DispatchPop
    <3>2. DispItems' \subseteq frontier
      BY <2>1 DEF DispatchPop, DispItems, Lowest
    <3> QED
      BY <3>1, <3>2, HandsUnchanged
  <2>2. CASE DispatchSend
    <3>1. /\ fetchQueue' = Append(fetchQueue, dispItem) /\ fetchQueue \in Seq(Item)
          /\ dispItem \in Item /\ dispPc = "send" /\ dispPc' = "poll" /\ UNCHANGED frontier
      BY <2>2 DEF DispatchSend, DispatchStep, TypeInv, TypeOK, HandsFull
    <3>2. ItemsIn(fetchQueue)' = ItemsIn(fetchQueue) \cup {dispItem}
      <4>1. ItemsIn(Append(fetchQueue, dispItem)) = ItemsIn(fetchQueue) \cup {dispItem}
        BY <3>1, QueueItems
      <4> QED
        BY <3>1, <4>1 DEF ItemsIn
    <3> QED
      BY <3>1, <3>2 DEF DispItems
  <2>3. CASE ~DispatchPop /\ ~DispatchSend
    <3>1. dispPc' # "send" /\ UNCHANGED <<frontier, fetchQueue>>
      BY <2>3 DEF Dispatcher, DispatchReadPages, DispatchNothing, DispatchSendCancelled,
         DispatchReadCap, DispatchReadQueue, DispatchReadInFlight, DispatchTick, DispatchDone,
         DispatchShutdown, Finalize, DispatchStep, frontierVars, channels
    <3> QED
      BY <3>1, HandsUnchanged DEF DispItems
  <2> QED
    BY <2>1, <2>2, <2>3
<1>4. Carried' \cup fetches' \subseteq Carried \cup fetches
  BY <1>1, <1>2, <1>3, HandsUnchanged DEF Carried
<1> QED
  BY <1>1, <1>2, <1>4 DEF Flow, Same

\* What a fetcher's step does not change, and which fetcher it changes.
LEMMA FetcherFrame ==
    ASSUME TypeInv, NEW f \in Fetchers, Fetcher(f)
    PROVE  /\ UNCHANGED <<dispPc, dispItem, parserPc, parserItem, persisterPc, persisterItem,
                          persistQueue, fetches>>
           /\ UNCHANGED <<DispItems, ParserItems, PersisterItems, ItemsIn(persistQueue)>>
           /\ \A g \in Fetchers \ {f} :
                 fetcherPc'[g] = fetcherPc[g] /\ fetcherItem'[g] = fetcherItem[g]
<1>1. UNCHANGED <<dispPc, dispItem, parserPc, parserItem, persisterPc, persisterItem,
                  persistQueue, fetches>>
  BY DEF Fetcher, FetcherTake, FetcherOnboard, FetcherOnboarded, FetcherOnboardFails,
     FetcherRobots, FetcherFetch, FetcherFetched, FetcherSend, FetcherCancelled, FetcherExit,
     OthersOfFetch, dispatcherVars, parserVars, persisterVars
<1>2. \A g \in Fetchers \ {f} : fetcherPc'[g] = fetcherPc[g]
  BY DEF Fetcher, FetcherTake, FetcherOnboard, FetcherOnboarded, FetcherOnboardFails,
     FetcherRobots, FetcherFetch, FetcherFetched, FetcherSend, FetcherCancelled, FetcherExit,
     FetcherStep, TypeInv, TypeOK
<1>3. \A g \in Fetchers \ {f} : fetcherItem'[g] = fetcherItem[g]
  BY DEF Fetcher, FetcherTake, FetcherOnboard, FetcherOnboarded, FetcherOnboardFails,
     FetcherRobots, FetcherFetch, FetcherFetched, FetcherSend, FetcherCancelled, FetcherExit,
     FetcherDrops, TypeInv, TypeOK
<1> QED
  BY <1>1, <1>2, <1>3, HandsUnchanged

\* A step that leaves an item with its fetcher, or gives it up, and does not touch the
\* channels.
LEMMA FetcherStays ==
    ASSUME TypeInv, NEW f \in Fetchers, Fetcher(f), UNCHANGED <<fetchQueue, fetchResults>>,
           fetcherPc'[f] \in FetcherHands =>
               fetcherPc[f] \in FetcherHands /\ fetcherItem'[f] = fetcherItem[f],
           fetcherPc'[f] \in {"send", "fetching"} => fetcherPc'[f] = fetcherPc[f]
    PROVE  Flow
<1>1. \A i \in FetcherItems(FetcherHands)' : i \in FetcherItems(FetcherHands)
  BY FetcherFrame, FetcherMoves
<1>2. \A i \in FetcherItems({"send"})' : i \in FetcherItems({"send"})
  BY FetcherFrame, FetcherMoves DEF FetcherHands
<1>3. \A i \in FetcherItems({"fetching"})' : i \in FetcherItems({"fetching"})
  BY FetcherFrame, FetcherMoves DEF FetcherHands
<1>4. UNCHANGED <<ItemsIn(fetchQueue), ItemsIn(fetchResults)>>
  BY HandsUnchanged
<1>5. Answered' \subseteq Answered
  BY <1>2, <1>4, FetcherFrame DEF Answered
<1>6. Numbered' \subseteq Numbered
  BY <1>3, <1>5, FetcherFrame DEF Numbered
<1>7. \A i \in Carried' : i \in frontier' \ frontier \/ i \in Carried
  BY <1>1, <1>4, <1>5, FetcherFrame DEF Carried
<1> QED
  BY <1>5, <1>6, <1>7, FetcherFrame DEF Flow, Same

\* A fetcher's step.
LEMMA FetcherFlow ==
    ASSUME TypeInv, NEW f \in Fetchers, Fetcher(f)
    PROVE  Flow
<1>1. /\ UNCHANGED <<DispItems, ParserItems, PersisterItems, ItemsIn(persistQueue), fetches>>
      /\ \A g \in Fetchers \ {f} :
            fetcherPc'[g] = fetcherPc[g] /\ fetcherItem'[g] = fetcherItem[g]
  BY FetcherFrame
<1>2. /\ TypeOK /\ fetcherItem \in [Fetchers -> Item \cup {NoItem}]
      /\ fetcherPc \in [Fetchers -> FetcherPc]
      /\ fetcherPc[f] \in FetcherHands => fetcherItem[f] \in Item
  BY DEF TypeInv, TypeOK, HandsFull
<1>3. CASE FetcherTake(f)
  <2> DEFINE i == Head(fetchQueue)
  <2>1. i \in Item /\ ItemsIn(fetchQueue) = ItemsIn(fetchQueue)' \cup {i}
    <3>1. fetchQueue # <<>> /\ fetchQueue' = Tail(fetchQueue) /\ fetchQueue \in Seq(Item)
      BY <1>2, <1>3 DEF FetcherTake, TypeOK
    <3>2. i \in Item
      BY <3>1
    <3>3. ItemsIn(fetchQueue) = ItemsIn(Tail(fetchQueue)) \cup {i}
      BY <3>1, QueueItems
    <3> QED
      BY <3>1, <3>2, <3>3 DEF ItemsIn
  <2>2. fetcherPc'[f] = "idle" \/ (fetcherPc'[f] = "onboard" /\ fetcherItem'[f] = i)
    BY <1>2, <1>3 DEF FetcherTake, FetcherStep
  <2>3. \A j \in FetcherItems(FetcherHands)' : j \in FetcherItems(FetcherHands) \/ j = i
    <3>1. fetcherPc'[f] \notin FetcherHands \/ fetcherItem'[f] = i
      BY <2>2 DEF FetcherHands
    <3> QED
      BY <1>1, <3>1, FetcherMoves
  <2>4. \A j \in FetcherItems({"send"})' : j \in FetcherItems({"send"})
    BY <1>1, <2>2, FetcherMoves
  <2>5. \A j \in FetcherItems({"fetching"})' : j \in FetcherItems({"fetching"})
    BY <1>1, <2>2, FetcherMoves
  <2>6. UNCHANGED <<frontier, fetchResults, ItemsIn(fetchResults)>>
    <3>1. UNCHANGED <<frontier, fetchResults>>
      BY <1>3 DEF FetcherTake, frontierVars
    <3> QED
      BY <3>1, HandsUnchanged
  <2>7. Answered' \subseteq Answered
    BY <1>1, <2>4, <2>6 DEF Answered
  <2>8. Numbered' \subseteq Numbered
    BY <1>1, <2>5, <2>7 DEF Numbered
  <2> HIDE DEF i
  <2>9. Carried' \subseteq Carried
    BY <1>1, <2>1, <2>3, <2>6, <2>7 DEF Carried
  <2> QED
    BY <1>1, <2>7, <2>8, <2>9 DEF Flow, Same
<1>4. CASE FetcherOnboard(f) \/ FetcherOnboarded(f) \/ FetcherOnboardFails(f) \/ FetcherRobots(f)
  <2>1. UNCHANGED <<fetchQueue, fetchResults>>
    BY <1>4 DEF FetcherOnboard, FetcherOnboarded, FetcherOnboardFails, FetcherRobots
  <2>2. /\ fetcherPc[f] \in {"onboard", "onboarding", "robots"}
        /\ \/ fetcherPc'[f] = "idle"
           \/ /\ fetcherPc'[f] \in {"onboarding", "robots", "acquire"}
              /\ fetcherItem'[f] = fetcherItem[f]
    BY <1>2, <1>4 DEF FetcherOnboard, FetcherOnboarded, FetcherOnboardFails, FetcherRobots,
       FetcherStep
  <2> QED
    BY <2>1, <2>2, FetcherStays DEF FetcherHands
<1>5. CASE FetcherCancelled(f) \/ FetcherExit(f)
  <2>1. UNCHANGED <<fetchQueue, fetchResults>> /\ fetcherPc'[f] = "exited"
    BY <1>2, <1>5 DEF FetcherCancelled, FetcherExit, FetcherStep
  <2> QED
    BY <2>1, FetcherStays DEF FetcherHands
\* Numbering an item, or recording its outcome, leaves its URL and its depth.
<1>6. CASE FetcherFetch(f) \/ FetcherFetched(f)
  <2> DEFINE x == fetcherItem'[f]
  <2>1. /\ fetcherPc[f] \in {"acquire", "fetching"} /\ fetcherPc'[f] \in {"fetching", "send"}
        /\ fetcherPc'[f] = "send" => FetcherFetched(f)
    BY <1>2, <1>6 DEF FetcherFetch, FetcherFetched, FetcherStep
  <2>2. fetcherItem[f] \in Item
    BY <1>2, <2>1 DEF FetcherHands
  <2>3. Same(x, fetcherItem[f])
    <3>1. CASE FetcherFetch(f)
      <4>1. x = [fetcherItem[f] EXCEPT !.seq = fetchSeq']
        BY <1>2, <3>1 DEF FetcherFetch
      <4> QED
        BY <2>2, <4>1 DEF Item, Same
    <3>2. CASE FetcherFetched(f)
      <4>1. PICK o : fetcherItem' = [fetcherItem EXCEPT ![f].outcome = o]
        BY <3>2 DEF FetcherFetched
      <4>2. x = [fetcherItem[f] EXCEPT !.outcome = o]
        BY <1>2, <4>1
      <4> QED
        BY <2>2, <4>2 DEF Item, Same
    <3> QED
      BY <1>6, <3>1, <3>2
  <2>4. UNCHANGED <<frontier, ItemsIn(fetchQueue), ItemsIn(fetchResults)>>
    <3>1. UNCHANGED <<frontier, fetchQueue, fetchResults>>
      BY <1>6 DEF FetcherFetch, FetcherFetched, frontierVars
    <3> QED
      BY <3>1, HandsUnchanged
  <2> HIDE DEF x
  <2>5. /\ \A j \in FetcherItems(FetcherHands)' : j \in FetcherItems(FetcherHands) \/ j = x
        /\ fetcherPc[f] \in FetcherHands => fetcherItem[f] \in FetcherItems(FetcherHands)
    BY <1>1, FetcherMoves DEF x
  <2>6. fetcherItem[f] \in FetcherItems(FetcherHands)
    BY <2>1, <2>5 DEF FetcherHands
  <2>7. \A j \in FetcherItems({"send"})' :
           j \in FetcherItems({"send"}) \/ (fetcherPc'[f] = "send" /\ j = x)
    BY <1>1, FetcherMoves DEF x
  <2>8. \A j \in FetcherItems({"fetching"})' : j \in FetcherItems({"fetching"}) \/ j = x
    BY <1>1, FetcherMoves DEF x
  <2>9. \A j \in Answered' : j \in Answered \/ (FetcherFetched(f) /\ j = x)
    BY <1>1, <2>1, <2>4, <2>7 DEF Answered
  <2>10. \A j \in Numbered' : j \in Numbered \/ j = x
    BY <1>1, <2>8, <2>9 DEF Numbered
  <2>11. \A j \in Carried' : j \in Carried \/ j = x
    BY <1>1, <2>4, <2>5, <2>9 DEF Carried
  <2>12. fetcherItem[f] \in Carried
    BY <2>6 DEF Carried
  <2> QED
    BY <1>1, <1>6, <2>3, <2>9, <2>10, <2>11, <2>12 DEF Flow, Same, x
<1>7. CASE FetcherSend(f)
  <2>1. /\ fetcherPc[f] = "send" /\ fetcherPc'[f] = "idle"
        /\ fetchResults' = Append(fetchResults, fetcherItem[f]) /\ UNCHANGED <<frontier, fetchQueue>>
        /\ fetchResults \in Seq(Item)
    BY <1>2, <1>7 DEF FetcherSend, FetcherStep, frontierVars, TypeOK
  <2>2. ItemsIn(fetchResults)' = ItemsIn(fetchResults) \cup {fetcherItem[f]}
    <3>1. fetcherItem[f] \in Item
      BY <1>2, <2>1 DEF FetcherHands
    <3>2. ItemsIn(Append(fetchResults, fetcherItem[f])) = ItemsIn(fetchResults) \cup {fetcherItem[f]}
      BY <2>1, <3>1, QueueItems
    <3> QED
      BY <2>1, <3>2 DEF ItemsIn
  <2>3. \A j \in FetcherItems(FetcherHands)' : j \in FetcherItems(FetcherHands)
    <3>1. fetcherPc'[f] \notin FetcherHands
      BY <2>1 DEF FetcherHands
    <3> QED
      BY <1>1, <3>1, FetcherMoves
  <2>4. \A j \in FetcherItems({"send"})' : j \in FetcherItems({"send"})
    BY <1>1, <2>1, FetcherMoves
  <2>5. \A j \in FetcherItems({"fetching"})' : j \in FetcherItems({"fetching"})
    BY <1>1, <2>1, FetcherMoves
  <2>6. fetcherItem[f] \in FetcherItems({"send"})
    BY <1>1, <2>1, FetcherMoves
  <2>7. UNCHANGED ItemsIn(fetchQueue)
    BY <2>1, HandsUnchanged
  <2>8. Answered' \subseteq Answered
    BY <1>1, <2>2, <2>4, <2>6 DEF Answered
  <2>9. Numbered' \subseteq Numbered
    BY <1>1, <2>5, <2>8 DEF Numbered
  <2>10. Carried' \subseteq Carried
    BY <1>1, <2>1, <2>3, <2>7, <2>8 DEF Carried
  <2> QED
    BY <1>1, <2>8, <2>9, <2>10 DEF Flow, Same
<1> QED
  BY <1>3, <1>4, <1>5, <1>6, <1>7 DEF Fetcher

\* What a parser's step does not change, and which parser it changes.
LEMMA ParserFrame ==
    ASSUME TypeInv, NEW p \in Parsers, Parser(p)
    PROVE  /\ UNCHANGED <<dispPc, dispItem, fetcherPc, fetcherItem, persisterPc, persisterItem,
                          fetchQueue, fetches, hostSeen, fetchSeq, cause>>
           /\ UNCHANGED <<DispItems, PersisterItems, ItemsIn(fetchQueue)>>
           /\ \A pcs : UNCHANGED FetcherItems(pcs)
           /\ \A r \in Parsers \ {p} : parserPc'[r] = parserPc[r] /\ parserItem'[r] = parserItem[r]
<1>1. UNCHANGED <<dispPc, dispItem, fetcherPc, fetcherItem, persisterPc, persisterItem,
                  fetchQueue, fetches, hostSeen, fetchSeq, cause>>
  BY DEF Parser, ParserTake, ParserCount, ParserReserve, ParserPush, ParserSend, ParserCancelled,
     ParserExit, OthersOfParse, dispatcherVars, fetcherVars, persisterVars, onboardVars
<1>2. \A r \in Parsers \ {p} : parserPc'[r] = parserPc[r]
  BY DEF Parser, ParserTake, ParserCount, ParserReserve, ParserPush, ParserSend, ParserCancelled,
     ParserExit, ParserStep, TypeInv, TypeOK
<1>3. \A r \in Parsers \ {p} : parserItem'[r] = parserItem[r]
  BY DEF Parser, ParserTake, ParserCount, ParserReserve, ParserPush, ParserSend, ParserCancelled,
     ParserExit, TypeInv, TypeOK
<1> QED
  BY <1>1, <1>2, <1>3, HandsUnchanged

\* A parser's step.
LEMMA ParserFlow ==
    ASSUME TypeInv, NEW p \in Parsers, Parser(p)
    PROVE  Flow
<1>1. /\ UNCHANGED <<DispItems, PersisterItems, ItemsIn(fetchQueue), fetches>>
      /\ UNCHANGED <<FetcherItems(FetcherHands), FetcherItems({"send"}), FetcherItems({"fetching"})>>
      /\ \A r \in Parsers \ {p} : parserPc'[r] = parserPc[r] /\ parserItem'[r] = parserItem[r]
  BY ParserFrame
<1>2. /\ parserItem \in [Parsers -> Item \cup {NoItem}] /\ parserPc \in [Parsers -> ParserPc]
      /\ parserPc[p] \in ParserHands => parserItem[p] \in Item
      /\ fetchResults \in Seq(Item) /\ persistQueue \in Seq(Item)
  BY DEF TypeInv, TypeOK, HandsFull
<1>3. ASSUME Answered' \subseteq Answered PROVE Flow
  <2>1. Numbered' \subseteq Numbered
    BY <1>1, <1>3 DEF Numbered
  <2>2. \A i \in Carried' : i \in frontier' \ frontier \/ i \in Carried
    BY <1>1, <1>3 DEF Carried
  <2> QED
    BY <1>1, <1>3, <2>1, <2>2 DEF Flow, Same
<1>4. CASE ParserTake(p)
  <2> DEFINE i == Head(fetchResults)
  <2>1. /\ fetchResults # <<>> /\ fetchResults' = Tail(fetchResults) /\ UNCHANGED persistQueue
        /\ parserItem'[p] = i /\ parserPc[p] = "idle"
    BY <1>2, <1>4 DEF ParserTake, ParserStep
  <2>2. ItemsIn(fetchResults) = ItemsIn(fetchResults)' \cup {i}
    <3>1. ItemsIn(fetchResults) = ItemsIn(Tail(fetchResults)) \cup {i}
      BY <1>2, <2>1, QueueItems
    <3> QED
      BY <2>1, <3>1 DEF ItemsIn
  <2>3. \A j \in ParserItems' : j \in ParserItems \/ j = i
    BY <1>1, <2>1, ParserMoves
  <2>4. UNCHANGED ItemsIn(persistQueue)
    BY <2>1, HandsUnchanged
  <2> HIDE DEF i
  <2> QED
    BY <1>1, <1>3, <2>2, <2>3, <2>4 DEF Answered
<1>5. CASE ParserCount(p) \/ ParserReserve(p) \/ ParserPush(p) \/ ParserCancelled(p) \/ ParserExit(p)
  <2>1. UNCHANGED <<fetchResults, persistQueue>>
    BY <1>5 DEF ParserCount, ParserReserve, ParserPush, ParserCancelled, ParserExit
  <2>2. \/ parserPc'[p] = "exited"
        \/ parserPc[p] \in {"parse", "links", "push"} /\ parserItem'[p] = parserItem[p]
    BY <1>2, <1>5 DEF ParserCount, ParserReserve, ParserPush, ParserCancelled, ParserExit, ParserStep
  <2>3. parserPc'[p] \in ParserHands => parserPc[p] \in ParserHands /\ parserItem'[p] = parserItem[p]
    BY <2>2 DEF ParserHands
  <2>4. \A j \in ParserItems' : j \in ParserItems
    BY <1>1, <2>3, ParserMoves
  <2>5. UNCHANGED <<ItemsIn(fetchResults), ItemsIn(persistQueue)>>
    BY <2>1, HandsUnchanged
  <2> QED
    BY <1>1, <1>3, <2>4, <2>5 DEF Answered
<1>6. CASE ParserSend(p)
  <2>1. /\ parserPc[p] = "links" /\ parserPc'[p] = "idle" /\ UNCHANGED fetchResults
        /\ persistQueue' = Append(persistQueue, parserItem[p])
    BY <1>2, <1>6 DEF ParserSend, ParserStep
  <2>2. ItemsIn(persistQueue)' = ItemsIn(persistQueue) \cup {parserItem[p]}
    <3>1. parserItem[p] \in Item
      BY <1>2, <2>1 DEF ParserHands
    <3>2. ItemsIn(Append(persistQueue, parserItem[p])) = ItemsIn(persistQueue) \cup {parserItem[p]}
      BY <1>2, <3>1, QueueItems
    <3> QED
      BY <2>1, <3>2 DEF ItemsIn
  <2>3. parserPc[p] \in ParserHands /\ parserPc'[p] \notin ParserHands
    BY <2>1 DEF ParserHands
  <2>4. parserItem[p] \in ParserItems /\ \A j \in ParserItems' : j \in ParserItems
    BY <1>1, <2>3, ParserMoves
  <2>5. UNCHANGED ItemsIn(fetchResults)
    BY <2>1, HandsUnchanged
  <2> QED
    BY <1>1, <1>3, <2>2, <2>4, <2>5 DEF Answered
<1> QED
  BY <1>4, <1>5, <1>6 DEF Parser

\* The persister takes an item from its channel and, unless the transaction fails,
\* stores it.
LEMMA PersisterFlow ==
    ASSUME TypeInv, Persister
    PROVE  Flow
<1>1. UNCHANGED <<frontier, dispPc, dispItem, fetcherPc, fetcherItem, parserPc, parserItem,
                  fetchQueue, fetchResults>>
  BY DEF Persister, PersistTake, PersistItem, PersistFails, PersistRetry, PersistCancelled,
     PersistFatal, PersisterExit, OthersOfPersist, frontierVars, dispatcherVars, fetcherVars,
     parserVars
<1>2. /\ UNCHANGED <<DispItems, ParserItems, ItemsIn(fetchQueue), ItemsIn(fetchResults)>>
      /\ UNCHANGED <<FetcherItems(FetcherHands), FetcherItems({"send"}), FetcherItems({"fetching"})>>
  BY <1>1, HandsUnchanged
<1>3. ItemsIn(persistQueue)' \cup PersisterItems' \cup fetches' \subseteq
         ItemsIn(persistQueue) \cup PersisterItems \cup fetches
  <2>1. CASE PersistTake
    <3>1. /\ persistQueue # <<>> /\ persistQueue' = Tail(persistQueue) /\ persistQueue \in Seq(Item)
          /\ persisterItem' = Head(persistQueue) /\ UNCHANGED fetches
      BY <2>1 DEF PersistTake, TypeInv, TypeOK
    <3>2. ItemsIn(persistQueue) = ItemsIn(Tail(persistQueue)) \cup {Head(persistQueue)}
      BY <3>1, QueueItems
    <3>3. ItemsIn(persistQueue)' = ItemsIn(Tail(persistQueue))
      BY <3>1 DEF ItemsIn
    <3>4. \A i \in PersisterItems' : i = Head(persistQueue)
      BY <3>1 DEF PersisterItems
    <3> QED
      BY <3>1, <3>2, <3>3, <3>4
  <2>2. CASE ~PersistTake
    <3>1. UNCHANGED ItemsIn(persistQueue)
      <4>1. UNCHANGED persistQueue
        BY <2>2 DEF Persister, PersistItem, PersistFails, PersistRetry, PersistCancelled,
           PersistFatal, PersisterExit
      <4> QED
        BY <4>1, HandsUnchanged
    <3>2. PersisterItems' \subseteq PersisterItems
      BY <2>2 DEF Persister, PersistItem, PersistFails, PersistRetry, PersistCancelled, PersistFatal,
         PersisterExit, PersisterStep, PersisterItems
    <3>3. fetches' \subseteq fetches \cup PersisterItems
      BY <2>2 DEF Persister, PersistItem, PersistFails, PersistRetry, PersistCancelled, PersistFatal,
         PersisterExit, PersisterStep, PersisterItems
    <3> QED
      BY <3>1, <3>2, <3>3
  <2> QED
    BY <2>1, <2>2
<1>4. Answered' \cup fetches' \subseteq Answered \cup fetches
  BY <1>2, <1>3 DEF Answered
<1>5. Numbered' \subseteq Numbered
  BY <1>2, <1>4 DEF Numbered
<1>6. Carried' \cup fetches' \subseteq Carried \cup fetches
  BY <1>1, <1>2, <1>4 DEF Carried
<1> QED
  BY <1>4, <1>5, <1>6 DEF Flow, Same

\* A panic takes a worker's item out of the pipeline.
LEMMA EnvironmentFlow ==
    ASSUME TypeInv, Environment
    PROVE  Flow
<1>1. UNCHANGED <<frontier, dispPc, dispItem, fetcherItem, parserItem, persisterItem, fetchQueue,
                  fetchResults, persistQueue, fetches>>
  BY DEF Environment, Cancel, Panic, RecoverWorker, OthersOfPanic, frontierVars, dispatcherVars,
     fetcherVars, parserVars, persisterVars, rowVars, channels
<1>2. UNCHANGED <<DispItems, ItemsIn(fetchQueue), ItemsIn(fetchResults), ItemsIn(persistQueue)>>
  BY <1>1, HandsUnchanged
<1>3. /\ \A f \in Fetchers : fetcherPc'[f] = fetcherPc[f] \/ fetcherPc'[f] \in {"panicked", "crashed"}
      /\ \A p \in Parsers : parserPc'[p] = parserPc[p] \/ parserPc'[p] \in {"panicked", "crashed"}
      /\ persisterPc' = persisterPc \/ persisterPc' \in {"panicked", "crashed"}
  <2>1. CASE Cancel
    BY <2>1 DEF Cancel, fetcherVars, parserVars, persisterVars
  <2>2. CASE Panic
    BY <2>2 DEF Panic, PersisterStep, TypeInv, TypeOK
  <2>3. CASE RecoverWorker
    BY <2>3 DEF RecoverWorker, FetcherStep, ParserStep, PersisterStep, TypeInv, TypeOK
  <2> QED
    BY <2>1, <2>2, <2>3 DEF Environment
<1>4. FetcherItems(FetcherHands)' \subseteq FetcherItems(FetcherHands)
  BY <1>1, <1>3 DEF FetcherItems, FetcherHands
<1>5. /\ FetcherItems({"send"})' \subseteq FetcherItems({"send"})
      /\ FetcherItems({"fetching"})' \subseteq FetcherItems({"fetching"})
  BY <1>1, <1>3 DEF FetcherItems
<1>6. ParserItems' \subseteq ParserItems /\ PersisterItems' \subseteq PersisterItems
  BY <1>1, <1>3 DEF ParserItems, PersisterItems, ParserHands
<1>7. Answered' \subseteq Answered
  BY <1>2, <1>5, <1>6 DEF Answered
<1>8. Numbered' \subseteq Numbered
  BY <1>1, <1>5, <1>7 DEF Numbered
<1>9. Carried' \subseteq Carried
  BY <1>1, <1>2, <1>4, <1>7 DEF Carried
<1> QED
  BY <1>1, <1>7, <1>8, <1>9 DEF Flow, Same

\* A step that is not its own changes a worker only by a panic.
LEMMA OtherWorkers ==
    ASSUME TypeInv, [Next]_vars
    PROVE  /\ \A f \in Fetchers : ~Fetcher(f) =>
                 /\ fetcherItem'[f] = fetcherItem[f]
                 /\ fetcherPc'[f] = fetcherPc[f] \/ fetcherPc'[f] \in {"panicked", "crashed"}
           /\ \A p \in Parsers : ~Parser(p) =>
                 /\ parserItem'[p] = parserItem[p]
                 /\ parserPc'[p] = parserPc[p] \/ parserPc'[p] \in {"panicked", "crashed"}
<1>1. CASE Dispatcher \/ Persister \/ UNCHANGED vars
  BY <1>1 DEF Dispatcher, DispatchReadPages, DispatchPop, DispatchNothing, DispatchSend,
     DispatchSendCancelled, DispatchReadCap, DispatchReadQueue, DispatchReadInFlight,
     DispatchTick, DispatchDone, DispatchShutdown, Finalize, OthersOfDispatch, Persister,
     PersistTake, PersistItem, PersistFails, PersistRetry, PersistCancelled, PersistFatal,
     PersisterExit, OthersOfPersist, fetcherVars, parserVars, vars
<1>2. CASE \E f \in Fetchers : Fetcher(f)
  BY <1>2, FetcherFrame
<1>3. CASE \E p \in Parsers : Parser(p)
  BY <1>3, ParserFrame
<1>4. CASE Environment
  <2>1. CASE Cancel
    BY <2>1 DEF Cancel, fetcherVars, parserVars
  <2>2. CASE Panic
    BY <2>2 DEF Panic, OthersOfPanic, TypeInv, TypeOK
  <2>3. CASE RecoverWorker
    BY <2>3 DEF RecoverWorker, FetcherStep, ParserStep, OthersOfPanic, TypeInv, TypeOK
  <2> QED
    BY <1>4, <2>1, <2>2, <2>3 DEF Environment
<1> QED
  BY <1>1, <1>2, <1>3, <1>4 DEF Next, Finished

\* Every step of the crawl.
LEMMA StepFlow ==
    ASSUME TypeInv, [Next]_vars
    PROVE  Flow
<1>1. CASE UNCHANGED vars
  <2>1. /\ UNCHANGED <<frontier, dispPc, dispItem, fetcherPc, fetcherItem, parserPc, parserItem>>
        /\ UNCHANGED <<persisterPc, persisterItem, fetchQueue, fetchResults, persistQueue, fetches>>
    BY <1>1 DEF vars, frontierVars, dispatcherVars, fetcherVars, parserVars, persisterVars, channels,
       rowVars
  <2>2. UNCHANGED <<Answered, Carried, Numbered, fetches>>
    BY <2>1, HandsUnchanged DEF Answered, Carried, Numbered
  <2> QED
    BY <2>2 DEF Flow, Same
<1>2. CASE Next
  BY <1>1, <1>2, DispatcherFlow, FetcherFlow, ParserFlow, PersisterFlow, EnvironmentFlow
     DEF Next, Finished
<1> QED
  BY <1>1, <1>2

-----------------------------------------------------------------------------
(* Depth.                                                                   *)

\* The entries of a sitemap are URLs of its host, as the assumptions on the site say.
LEMMA SitemapHost ==
    ASSUME NEW h \in Hosts, NEW n, NEW u \in SitemapURLs(h, n)
    PROVE  u \in URLs /\ HostOf[u] = h
<1>1. PICK i \in SitemapEntries(h) : u = SitemapOf[h][i]
  BY Zenon DEF SitemapURLs
<1>2. i \in DOMAIN SitemapOf[h] /\ SitemapOf[h] \in Seq(URLs)
  BY SiteAssumption DEF SitemapEntries
<1> QED
  BY <1>1, <1>2, SiteAssumption

\* What a fetcher onboarding a host, or a parser, pushes to the frontier.
LEMMA PushedItems ==
    ASSUME NEW S, NEW d, Push(S, d), NEW i \in frontier' \ frontier
    PROVE  i.url \in S \ seen /\ i.depth = d /\ i = NewItem(i.url, d)
BY DEF Push, NewItem

\* Hosts stay marked, and a pushed item goes past MaxDepth only on a marked host.
LEMMA PushedShallow ==
    ASSUME TypeInv, TypeInv', DepthInv, [Next]_vars
    PROVE  hostSeen \subseteq hostSeen' /\ \A i \in frontier' \ frontier : Shallow(i)'
<1>1. hostSeen \subseteq hostSeen'
  <2>1. CASE \E f \in Fetchers : Fetcher(f)
    BY <2>1 DEF Fetcher, FetcherTake, FetcherOnboard, FetcherOnboarded, FetcherOnboardFails,
       FetcherRobots, FetcherFetch, FetcherFetched, FetcherSend, FetcherCancelled, FetcherExit,
       onboardVars
  <2>2. CASE Dispatcher \/ Persister \/ Environment
    BY <2>2 DEF Dispatcher, DispatchReadPages, DispatchPop, DispatchNothing, DispatchSend,
       DispatchSendCancelled, DispatchReadCap, DispatchReadQueue, DispatchReadInFlight, DispatchTick,
       DispatchDone, DispatchShutdown, Finalize, OthersOfDispatch, Persister, PersistTake,
       PersistItem, PersistFails, PersistRetry, PersistCancelled, PersistFatal, PersisterExit,
       OthersOfPersist, Environment, Cancel, Panic, RecoverWorker, OthersOfPanic, onboardVars
  <2>3. CASE \E p \in Parsers : Parser(p)
    BY <2>3, ParserFrame
  <2> QED
    BY <2>1, <2>2, <2>3 DEF Next, Finished, vars, onboardVars
<1>2. ASSUME NEW f \in Fetchers, FetcherOnboarded(f), NEW i \in frontier' \ frontier
      PROVE  Shallow(i)'
  <2> DEFINE j == fetcherItem[f]
             h == HostOf[j.url]
  <2>1. fetcherPc[f] = "onboarding" /\ j \in Item
    BY <1>2 DEF FetcherOnboarded, FetcherStep, TypeInv, HandsFull, FetcherHands
  <2>2. j.depth \in Nat /\ j.depth <= MaxDepth /\ h \in hostSeen /\ h \in Hosts
    BY <2>1, SiteAssumption DEF DepthInv, Item
  <2>3. PICK n : Push(SitemapURLs(h, n), j.depth + 1)
    BY <1>2 DEF FetcherOnboarded
  <2>4. i.url \in SitemapURLs(h, n) /\ i.depth = j.depth + 1
    BY <1>2, <2>3, PushedItems
  <2>5. HostOf[i.url] = h
    BY <2>2, <2>4, SitemapHost
  <2> QED
    BY <1>1, <2>2, <2>4, <2>5, BudgetAssumption DEF Shallow
<1>3. ASSUME NEW p \in Parsers, ParserPush(p), NEW i \in frontier' \ frontier
      PROVE  Shallow(i)'
  <2>1. parserPc[p] = "push" /\ parserItem[p] \in Item
    BY <1>3 DEF ParserPush, ParserStep, TypeInv, HandsFull, ParserHands
  <2>2. parserItem[p].depth \in Nat /\ parserItem[p].depth < MaxDepth
    BY <2>1 DEF DepthInv, Item
  <2>3. i.depth = parserItem[p].depth + 1
    BY <1>3, PushedItems DEF ParserPush
  <2> QED
    BY <2>2, <2>3, BudgetAssumption DEF Shallow
<1>4. ASSUME frontier' \subseteq frontier PROVE \A i \in frontier' \ frontier : Shallow(i)'
  BY <1>4
<1>5. CASE \E f \in Fetchers : Fetcher(f)
  <2>1. PICK f \in Fetchers : Fetcher(f)
    BY <1>5
  <2>2. CASE FetcherOnboarded(f)
    BY <1>1, <1>2, <2>2
  <2>3. CASE ~FetcherOnboarded(f)
    <3>1. frontier' = frontier
      BY <2>1, <2>3 DEF Fetcher, FetcherTake, FetcherOnboard, FetcherOnboardFails, FetcherRobots,
         FetcherFetch, FetcherFetched, FetcherSend, FetcherCancelled, FetcherExit, frontierVars
    <3> QED
      BY <1>1, <3>1
  <2> QED
    BY <2>2, <2>3
<1>6. CASE \E p \in Parsers : Parser(p)
  <2>1. PICK p \in Parsers : Parser(p)
    BY <1>6
  <2>2. CASE ParserPush(p)
    BY <1>1, <1>3, <2>2
  <2>3. CASE ~ParserPush(p)
    <3>1. frontier' = frontier
      BY <2>1, <2>3 DEF Parser, ParserTake, ParserCount, ParserReserve, ParserSend, ParserCancelled,
         ParserExit, frontierVars
    <3> QED
      BY <1>1, <3>1
  <2> QED
    BY <2>2, <2>3
<1>7. CASE Dispatcher \/ Persister \/ Environment \/ UNCHANGED vars
  <2>1. frontier' \subseteq frontier
    BY <1>7 DEF Dispatcher, DispatchReadPages, DispatchPop, DispatchNothing, DispatchSend,
       DispatchSendCancelled, DispatchReadCap, DispatchReadQueue, DispatchReadInFlight, DispatchTick,
       DispatchDone, DispatchShutdown, Finalize, Persister, PersistTake, PersistItem, PersistFails,
       PersistRetry, PersistCancelled, PersistFatal, PersisterExit, OthersOfPersist, Environment,
       Cancel, Panic, RecoverWorker, OthersOfPanic, frontierVars, vars
  <2> QED
    BY <1>1, <2>1
<1> QED
  BY <1>5, <1>6, <1>7 DEF Next, Finished

\* Every step keeps the depths.
LEMMA DepthStep ==
    ASSUME TypeInv, TypeInv', DepthInv, [Next]_vars
    PROVE  DepthInv'
<1>1. Flow /\ hostSeen \subseteq hostSeen' /\ \A i \in frontier' \ frontier : Shallow(i)'
  BY StepFlow, PushedShallow
<1>2. \A i \in Carried' \cup fetches' : Shallow(i)'
  BY <1>1 DEF Flow, Same, Shallow, DepthInv
<1>3. ASSUME NEW f \in Fetchers, fetcherPc'[f] = "onboarding"
      PROVE  fetcherItem'[f].depth <= MaxDepth /\ HostOf[fetcherItem'[f].url] \in hostSeen'
  <2>1. CASE fetcherPc[f] = "onboarding" /\ fetcherItem'[f] = fetcherItem[f]
    BY <1>1, <2>1 DEF DepthInv
  <2>2. CASE FetcherOnboard(f)
    <3>1. /\ fetcherPc[f] = "onboard" /\ HostOf[fetcherItem[f].url] \notin hostSeen
          /\ fetcherItem' = fetcherItem /\ hostSeen' = hostSeen \cup {HostOf[fetcherItem[f].url]}
      BY <1>3, <2>2 DEF FetcherOnboard, FetcherStep, TypeInv, TypeOK
    <3>2. fetcherItem[f] \in Item /\ fetcherItem[f] \in Carried
      BY <3>1 DEF TypeInv, HandsFull, FetcherHands, Carried, FetcherItems
    <3>3. Shallow(fetcherItem[f])
      BY <3>2 DEF DepthInv
    <3> QED
      BY <3>1, <3>2, <3>3, BudgetAssumption DEF Shallow, Item
  <2>3. CASE ~FetcherOnboard(f)
    <3>1. CASE Fetcher(f)
      BY <1>3, <2>3, <3>1 DEF Fetcher, FetcherTake, FetcherOnboarded, FetcherOnboardFails,
         FetcherRobots, FetcherFetch, FetcherFetched, FetcherSend, FetcherCancelled, FetcherExit,
         FetcherStep, TypeInv, TypeOK
    <3>2. CASE ~Fetcher(f)
      <4>1. fetcherPc[f] = "onboarding" /\ fetcherItem'[f] = fetcherItem[f]
        BY <1>3, <3>2, OtherWorkers
      <4> QED
        BY <2>1, <4>1
    <3> QED
      BY <3>1, <3>2
  <2> QED
    BY <2>2, <2>3
<1>4. ASSUME NEW p \in Parsers, parserPc'[p] = "push"
      PROVE  parserItem'[p].depth < MaxDepth
  <2>1. CASE Parser(p)
    <3>1. ParserReserve(p) /\ LinkAdmitted(p) /\ parserPc[p] = "links" /\ parserItem' = parserItem
      BY <1>4, <2>1 DEF Parser, ParserTake, ParserCount, ParserReserve, ParserPush, ParserSend,
         ParserCancelled, ParserExit, ParserStep, TypeInv, TypeOK
    <3>2. parserItem[p].depth \in Nat
      BY <3>1 DEF TypeInv, HandsFull, ParserHands, Item
    <3> QED
      BY <3>1, <3>2, BudgetAssumption DEF LinkAdmitted
  <2>2. CASE ~Parser(p)
    <3>1. parserItem'[p] = parserItem[p] /\ parserPc[p] = "push"
      BY <1>4, <2>2, OtherWorkers
    <3> QED
      BY <3>1 DEF DepthInv
  <2> QED
    BY <2>1, <2>2
<1> QED
  BY <1>2, <1>3, <1>4 DEF DepthInv

\* What the crawl starts with: the seeds at depth 0 and the sitemap of their host at 1.
LEMMA InitItems ==
    ASSUME Init
    PROVE  /\ Carried = frontier /\ Answered = {} /\ Numbered = {} /\ fetches = {}
           /\ fetchQueue = <<>> /\ fetchResults = <<>> /\ persistQueue = <<>>
           /\ \E S \in SUBSET URLs :
                 /\ frontier = {NewItem(u, 0) : u \in Seeds} \cup {NewItem(u, 1) : u \in S}
                 /\ seen = Seeds \cup S /\ S \cap Seeds = {}
                 /\ \A u \in S : HostOf[u] \in hostSeen
<1> DEFINE h == CHOOSE x \in SeedHosts : TRUE
           n == SitemapReserved(h, Cardinality(Seeds))
           S == SitemapURLs(h, n) \ Seeds
<1>1. h \in SeedHosts /\ SeedHosts \subseteq Hosts
  BY SiteAssumption DEF SeedHosts
<1>2. \A u \in S : u \in URLs /\ HostOf[u] = h
  BY <1>1, SitemapHost
<1>3. /\ frontier = {NewItem(u, 0) : u \in Seeds} \cup {NewItem(u, 1) : u \in S}
      /\ seen = Seeds \cup S /\ hostSeen = SeedHosts
  BY DEF Init
<1>4. /\ DispItems = {} /\ PersisterItems = {} /\ ParserItems = {} /\ \A pcs : "idle" \notin pcs =>
             FetcherItems(pcs) = {}
      /\ ItemsIn(fetchQueue) = {} /\ ItemsIn(fetchResults) = {} /\ ItemsIn(persistQueue) = {}
      /\ fetches = {} /\ fetchQueue = <<>> /\ fetchResults = <<>> /\ persistQueue = <<>>
  BY DEF Init, DispItems, PersisterItems, ParserItems, FetcherItems, ItemsIn, ParserHands
<1>5. FetcherItems(FetcherHands) = {} /\ FetcherItems({"send"}) = {} /\ FetcherItems({"fetching"}) = {}
  BY <1>4 DEF FetcherHands
<1>6. Answered = {} /\ Numbered = {} /\ Carried = frontier
  BY <1>4, <1>5 DEF Answered, Numbered, Carried
<1> HIDE DEF S
<1>7. S \in SUBSET URLs /\ S \cap Seeds = {} /\ \A u \in S : HostOf[u] \in hostSeen
  BY <1>1, <1>2, <1>3 DEF S
<1> QED
  BY <1>3, <1>4, <1>6, <1>7

\* For every site, every depth limit and every order in which hosts are met and
\* onboarded: no item goes past MaxDepth by more than the one level of a sitemap.
THEOREM DepthsKept == Spec => []DepthBounded
<1>1. Init => DepthInv
  <2> SUFFICES ASSUME Init PROVE DepthInv
    OBVIOUS
  <2>1. PICK S \in SUBSET URLs :
           /\ frontier = {NewItem(u, 0) : u \in Seeds} \cup {NewItem(u, 1) : u \in S}
           /\ \A u \in S : HostOf[u] \in hostSeen
    BY InitItems
  <2>2. \A i \in frontier : Shallow(i)
    BY <2>1, BudgetAssumption DEF Shallow, NewItem
  <2>3. /\ \A f \in Fetchers : fetcherPc[f] = "idle"
        /\ \A p \in Parsers : parserPc[p] = "idle"
    BY DEF Init
  <2> QED
    BY <2>2, <2>3, InitItems DEF DepthInv
<1>2. TypeInv /\ TypeInv' /\ DepthInv /\ [Next]_vars => DepthInv'
  BY DepthStep
<1>3. DepthInv => DepthBounded
  BY DEF DepthInv, DepthBounded, Carried, Shallow
<1> QED
  BY <1>1, <1>2, <1>3, TypeCorrect, PTL DEF Spec

-----------------------------------------------------------------------------
(* Fetch numbers.                                                           *)

\* Every step keeps the numbers apart: a fetch takes the next one, and everything else
\* passes items on with the number they have.
LEMMA NumberStep ==
    ASSUME TypeInv, NumberInv, [Next]_vars
    PROVE  NumberInv'
<1>1. Flow
  BY StepFlow
<1>2. ASSUME NEW f \in Fetchers, FetcherFetch(f)
      PROVE  NumberInv'
  <2> DEFINE x == fetcherItem'[f]
  <2>1. fetcherPc[f] = "acquire" /\ fetchSeq' = fetchSeq + 1 /\ fetchSeq \in Nat /\ fetcherItem[f] \in Item
    BY <1>2 DEF FetcherFetch, FetcherStep, TypeInv, TypeOK, HandsFull, FetcherHands
  <2>2. x.seq = fetchSeq + 1
    <3>1. x = [fetcherItem[f] EXCEPT !.seq = fetchSeq']
      BY <1>2 DEF FetcherFetch, TypeInv, TypeOK
    <3> QED
      BY <2>1, <3>1 DEF Item
  <2>3. \A g \in Fetchers : FetcherFetch(g) \/ FetcherFetched(g) => g = f
    BY <1>2 DEF FetcherFetch, FetcherFetched, FetcherStep, TypeInv, TypeOK
  <2>4. \A i \in Numbered' : i \in Numbered \/ i = x
    BY <1>1, <2>3 DEF Flow
  <2> HIDE DEF x
  <2>5. \A i \in Numbered' : i.seq \in 1..fetchSeq + 1 /\ (i.seq = fetchSeq + 1 => i = x)
    BY <2>1, <2>2, <2>4 DEF NumberInv
  <2>6. \A i, j \in Numbered' : i.seq = j.seq => i.url = j.url
    <3> SUFFICES ASSUME NEW i \in Numbered', NEW j \in Numbered', i.seq = j.seq PROVE i.url = j.url
      OBVIOUS
    <3>1. CASE i = x \/ j = x
      BY <2>2, <2>5, <3>1
    <3>2. CASE i \in Numbered /\ j \in Numbered
      BY <3>2 DEF NumberInv
    <3> QED
      BY <2>4, <3>1, <3>2
  <2> QED
    BY <2>1, <2>5, <2>6 DEF NumberInv
<1>3. ASSUME NEW f \in Fetchers, FetcherFetched(f)
      PROVE  NumberInv'
  <2> DEFINE x == fetcherItem'[f]
             y == fetcherItem[f]
  <2>1. fetcherPc[f] = "fetching" /\ fetchSeq' = fetchSeq /\ y \in Item
    BY <1>3 DEF FetcherFetched, FetcherStep, TypeInv, TypeOK, HandsFull, FetcherHands
  <2>2. x.seq = y.seq /\ x.url = y.url
    <3>1. PICK o : fetcherItem' = [fetcherItem EXCEPT ![f].outcome = o]
      BY <1>3 DEF FetcherFetched
    <3>2. x = [y EXCEPT !.outcome = o]
      BY <3>1 DEF TypeInv, TypeOK
    <3> QED
      BY <2>1, <3>2 DEF Item
  <2>3. y \in Numbered
    BY <2>1 DEF Numbered, FetcherItems
  <2>4. \A g \in Fetchers : FetcherFetch(g) \/ FetcherFetched(g) => g = f
    BY <1>3 DEF FetcherFetch, FetcherFetched, FetcherStep, TypeInv, TypeOK
  <2>5. \A i \in Numbered' : i \in Numbered \/ i = x
    BY <1>1, <2>4 DEF Flow
  <2> HIDE DEF x, y
  <2>6. \A i \in Numbered' : \E j \in Numbered : i.seq = j.seq /\ i.url = j.url
    BY <2>2, <2>3, <2>5
  <2> QED
    BY <2>1, <2>6 DEF NumberInv
<1>4. ASSUME \A f \in Fetchers : ~FetcherFetch(f) /\ ~FetcherFetched(f)
      PROVE  NumberInv'
  <2>1. Numbered' \subseteq Numbered
    BY <1>1, <1>4 DEF Flow
  <2>2. fetchSeq' = fetchSeq
    <3>1. CASE \E f \in Fetchers : Fetcher(f)
      BY <1>4, <3>1 DEF Fetcher, FetcherTake, FetcherOnboard, FetcherOnboarded, FetcherOnboardFails,
         FetcherRobots, FetcherSend, FetcherCancelled, FetcherExit
    <3>2. CASE Dispatcher \/ Persister \/ Environment \/ UNCHANGED vars
      BY <3>2 DEF Dispatcher, DispatchReadPages, DispatchPop, DispatchNothing, DispatchSend,
         DispatchSendCancelled, DispatchReadCap, DispatchReadQueue, DispatchReadInFlight,
         DispatchTick, DispatchDone, DispatchShutdown, Finalize, OthersOfDispatch, Persister,
         PersistTake, PersistItem, PersistFails, PersistRetry, PersistCancelled, PersistFatal,
         PersisterExit, OthersOfPersist, Environment, Cancel, Panic, RecoverWorker, OthersOfPanic,
         counterVars, vars
    <3>3. CASE \E p \in Parsers : Parser(p)
      BY <3>3, ParserFrame
    <3> QED
      BY <3>1, <3>2, <3>3 DEF Next, Finished
  <2> QED
    BY <2>1, <2>2 DEF NumberInv
<1> QED
  BY <1>2, <1>3, <1>4

\* At first nothing is numbered.
THEOREM NumbersKept == Spec => []NumberInv
<1>1. Init => NumberInv
  BY InitItems DEF NumberInv
<1>2. TypeInv /\ NumberInv /\ [Next]_vars => NumberInv'
  BY NumberStep
<1> QED
  BY <1>1, <1>2, TypeCorrect, PTL DEF Spec

-----------------------------------------------------------------------------
(* One item for each URL.                                                   *)

\* The URLs of the items in every stage.
LEMMA ItemUrls ==
    ASSUME TypeInv
    PROVE  /\ \A i \in Item : i.url \in URLs
           /\ frontier \subseteq Item /\ fetches \subseteq Item
           /\ ItemsIn(fetchQueue) \subseteq Item /\ ItemsIn(fetchResults) \subseteq Item
           /\ ItemsIn(persistQueue) \subseteq Item
           /\ dispPc = "send" => dispItem \in Item
           /\ \A f \in Fetchers : fetcherPc[f] \in FetcherHands => fetcherItem[f] \in Item
           /\ \A p \in Parsers : parserPc[p] \in ParserHands => parserItem[p] \in Item
           /\ persisterPc \in {"write", "backoff"} => persisterItem \in Item
<1>1. fetchQueue \in Seq(Item) /\ fetchResults \in Seq(Item) /\ persistQueue \in Seq(Item)
  BY DEF TypeInv, TypeOK
<1>2. /\ ItemsIn(fetchQueue) \subseteq Item /\ ItemsIn(fetchResults) \subseteq Item
      /\ ItemsIn(persistQueue) \subseteq Item
  BY <1>1, QueueItems
<1> QED
  BY <1>2 DEF TypeInv, TypeOK, HandsFull, Item

\* The item of u passes from one stage to another, and every other stage keeps or loses
\* items.
Passes(u, from, to) ==
    /\ UNCHANGED seen
    /\ \A i \in frontier' : i \in frontier /\ (from = "frontier" => i.url # u)
    /\ dispPc' = "send" =>
          \/ to = "dispatcher" /\ dispItem'.url = u
          \/ dispPc = "send" /\ dispItem' = dispItem /\ (from = "dispatcher" => dispItem.url # u)
    /\ \A i \in ItemsIn(fetchQueue)' :
          \/ to = "fetchQueue" /\ i.url = u
          \/ i \in ItemsIn(fetchQueue) /\ (from = "fetchQueue" => i.url # u)
    /\ \A f \in Fetchers : fetcherPc'[f] \in FetcherHands =>
          \/ to = "fetcher" /\ fetcherItem'[f].url = u
          \/ /\ fetcherPc[f] \in FetcherHands /\ fetcherItem'[f].url = fetcherItem[f].url
             /\ from = "fetcher" => fetcherItem[f].url # u
    /\ \A i \in ItemsIn(fetchResults)' :
          \/ to = "fetchResults" /\ i.url = u
          \/ i \in ItemsIn(fetchResults) /\ (from = "fetchResults" => i.url # u)
    /\ \A p \in Parsers : parserPc'[p] \in ParserHands =>
          \/ to = "parser" /\ parserItem'[p].url = u
          \/ /\ parserPc[p] \in ParserHands /\ parserItem'[p].url = parserItem[p].url
             /\ from = "parser" => parserItem[p].url # u
    /\ \A i \in ItemsIn(persistQueue)' :
          \/ to = "persistQueue" /\ i.url = u
          \/ i \in ItemsIn(persistQueue) /\ (from = "persistQueue" => i.url # u)
    /\ persisterPc' \in {"write", "backoff"} =>
          \/ to = "persister" /\ persisterItem'.url = u
          \/ /\ persisterPc \in {"write", "backoff"} /\ persisterItem' = persisterItem
             /\ from = "persister" => persisterItem.url # u
    /\ \A i \in fetches' : i \in fetches \/ (to = "stored" /\ i.url = u)

\* An item that passes on leaves every URL in at most one stage.
LEMMA PassesPlaced ==
    ASSUME TypeInv, NEW at \in [URLs -> Stages], Placed(at), NEW u \in seen,
           NEW from \in Stages \ {"stored", "new"}, NEW to \in Stages, at[u] = from, Passes(u, from, to)
    PROVE  \E b \in [URLs -> Stages] : Placed(b)'
<1> DEFINE b == [at EXCEPT ![u] = to]
<1>1. u \in URLs /\ seen \subseteq URLs
  BY DEF TypeInv, TypeOK
<1>2. b \in [URLs -> Stages] /\ b[u] = to /\ \A v \in URLs \ {u} : b[v] = at[v]
  BY <1>1
<1> HIDE DEF b
<1>3. \A v \in URLs \ seen' : b[v] = "new"
  BY <1>1, <1>2 DEF Passes, Placed
<1>4. \A i \in frontier' : b[i.url] = "frontier"
  BY <1>2, ItemUrls DEF Passes, Placed
<1>5. dispPc' = "send" => b[dispItem'.url] = "dispatcher"
  BY <1>2, ItemUrls DEF Passes, Placed
<1>6. \A i \in ItemsIn(fetchQueue)' : b[i.url] = "fetchQueue"
  BY <1>2, ItemUrls DEF Passes, Placed
<1>7. \A f \in Fetchers : fetcherPc'[f] \in FetcherHands => b[fetcherItem'[f].url] = "fetcher"
  BY <1>2, ItemUrls DEF Passes, Placed
<1>8. \A i \in ItemsIn(fetchResults)' : b[i.url] = "fetchResults"
  BY <1>2, ItemUrls DEF Passes, Placed
<1>9. \A p \in Parsers : parserPc'[p] \in ParserHands => b[parserItem'[p].url] = "parser"
  BY <1>2, ItemUrls DEF Passes, Placed
<1>10. \A i \in ItemsIn(persistQueue)' : b[i.url] = "persistQueue"
  BY <1>2, ItemUrls DEF Passes, Placed
<1>11. persisterPc' \in {"write", "backoff"} => b[persisterItem'.url] = "persister"
  BY <1>2, ItemUrls DEF Passes, Placed
<1>12. \A i \in fetches' : b[i.url] = "stored"
  BY <1>2, ItemUrls DEF Passes, Placed, Stages
<1>13. Placed(b)'
  BY <1>3, <1>4, <1>5, <1>6, <1>7, <1>8, <1>9, <1>10, <1>11, <1>12 DEF Placed
<1> QED
  BY <1>2, <1>13

\* Where no item is passed on.
Rests ==
    /\ UNCHANGED seen
    /\ frontier' \subseteq frontier
    /\ dispPc' = "send" => dispPc = "send" /\ dispItem' = dispItem
    /\ ItemsIn(fetchQueue)' \subseteq ItemsIn(fetchQueue) /\ Single(fetchQueue)'
    /\ UNCHANGED <<fetchResults, persistQueue, fetches>>
    /\ \A f \in Fetchers : fetcherPc'[f] \in FetcherHands =>
          fetcherPc[f] \in FetcherHands /\ fetcherItem'[f].url = fetcherItem[f].url
    /\ \A p \in Parsers : parserPc'[p] \in ParserHands =>
          parserPc[p] \in ParserHands /\ parserItem'[p].url = parserItem[p].url
    /\ persisterPc' \in {"write", "backoff"} =>
          persisterPc \in {"write", "backoff"} /\ persisterItem' = persisterItem

\* Items that stay where they are, or are given up, leave one item for each URL.
LEMMA RestsAlone ==
    ASSUME TypeInv, OneItem, Rests
    PROVE  OneItem'
<1>1. UNCHANGED <<ItemsIn(fetchResults), ItemsIn(persistQueue)>>
  BY HandsUnchanged DEF Rests
<1>2. Alone'
  BY DEF OneItem, Alone, Rests, Single
<1>3. ASSUME NEW at \in [URLs -> Stages], Placed(at) PROVE Placed(at)'
  BY <1>1, <1>3 DEF Rests, Placed
<1> QED
  BY <1>2, <1>3 DEF OneItem

\* New URLs enter the frontier, and the rest rests.
LEMMA PushesAlone ==
    ASSUME TypeInv, OneItem, NEW S \in SUBSET URLs, NEW d \in Nat, Push(S, d),
           UNCHANGED <<dispPc, dispItem, fetchQueue, fetchResults, persistQueue, fetches,
                       fetcherItem, parserItem, persisterPc, persisterItem>>,
           \A f \in Fetchers : fetcherPc'[f] \in FetcherHands => fetcherPc[f] \in FetcherHands,
           \A p \in Parsers : parserPc'[p] \in ParserHands => parserPc[p] \in ParserHands
    PROVE  OneItem'
<1>1. UNCHANGED <<ItemsIn(fetchQueue), ItemsIn(fetchResults), ItemsIn(persistQueue)>>
  BY HandsUnchanged
<1>2. PICK at \in [URLs -> Stages] : Placed(at)
  BY DEF OneItem
<1>3. PICK b \in [URLs -> Stages] :
         \A u \in URLs : b[u] = IF u \in S \ seen THEN "frontier" ELSE at[u]
  <2> DEFINE c == [u \in URLs |-> IF u \in S \ seen THEN "frontier" ELSE at[u]]
  <2>1. c \in [URLs -> Stages] /\ \A u \in URLs : c[u] = IF u \in S \ seen THEN "frontier" ELSE at[u]
    BY DEF Stages
  <2> QED
    BY <2>1
<1>4. /\ seen' = seen \cup S /\ frontier \subseteq frontier'
      /\ \A i \in frontier' : i \in frontier \/ (i.url \in S \ seen /\ i = NewItem(i.url, d))
  BY DEF Push, NewItem
<1>5. \A u \in URLs : at[u] # "new" => b[u] = at[u] /\ u \in seen
  BY <1>2, <1>3 DEF Placed
<1>6. \A i \in frontier : i.url \in seen
  BY <1>2, <1>5, ItemUrls DEF Placed
<1>7. \A i, j \in frontier' : i.url = j.url => i = j
  BY <1>4, <1>6 DEF OneItem, Alone
<1>8. Alone'
  BY <1>7 DEF OneItem, Alone, Single
<1>9. \A u \in URLs \ seen' : b[u] = "new"
  BY <1>2, <1>3, <1>4 DEF Placed
<1>10. \A i \in frontier' : b[i.url] = "frontier"
  BY <1>2, <1>3, <1>4, <1>5, ItemUrls DEF Placed
<1>11. /\ \A i \in ItemsIn(fetchQueue)' : b[i.url] = "fetchQueue"
       /\ \A i \in ItemsIn(fetchResults)' : b[i.url] = "fetchResults"
       /\ \A i \in ItemsIn(persistQueue)' : b[i.url] = "persistQueue"
       /\ \A i \in fetches' : b[i.url] = "stored"
  BY <1>1, <1>2, <1>5, ItemUrls DEF Placed
<1>12. \A f \in Fetchers : fetcherPc'[f] \in FetcherHands => b[fetcherItem'[f].url] = "fetcher"
  BY <1>2, <1>5, ItemUrls DEF Placed
<1>13. \A p \in Parsers : parserPc'[p] \in ParserHands => b[parserItem'[p].url] = "parser"
  BY <1>2, <1>5, ItemUrls DEF Placed
<1>14. /\ dispPc' = "send" => b[dispItem'.url] = "dispatcher"
       /\ persisterPc' \in {"write", "backoff"} => b[persisterItem'.url] = "persister"
  BY <1>2, <1>5, ItemUrls DEF Placed
<1>15. Placed(b)'
  BY <1>9, <1>10, <1>11, <1>12, <1>13, <1>14 DEF Placed
<1> QED
  BY <1>3, <1>8, <1>15 DEF OneItem

\* The dispatcher moves an item from the frontier to its hands and on to fetchQueue.
LEMMA DispatcherAlone ==
    ASSUME TypeInv, OneItem, Dispatcher
    PROVE  OneItem'
<1>1. /\ UNCHANGED <<fetcherPc, fetcherItem, parserPc, parserItem, persisterPc, persisterItem>>
      /\ UNCHANGED <<fetchResults, persistQueue, fetches, seen>>
  BY DEF Dispatcher, DispatchReadPages, DispatchPop, DispatchNothing, DispatchSend,
     DispatchSendCancelled, DispatchReadCap, DispatchReadQueue, DispatchReadInFlight, DispatchTick,
     DispatchDone, DispatchShutdown, Finalize, OthersOfDispatch, fetcherVars, parserVars,
     persisterVars, channels, rowVars, frontierVars
<1>2. UNCHANGED <<ItemsIn(fetchResults), ItemsIn(persistQueue)>>
  BY <1>1, HandsUnchanged
<1>3. PICK at \in [URLs -> Stages] : Placed(at)
  BY DEF OneItem
<1>4. \A i \in frontier : i.url \in seen
  BY <1>3, ItemUrls DEF Placed
<1>5. CASE DispatchPop
  <2>1. PICK i \in frontier : dispItem' = i /\ frontier' = frontier \ {i}
    BY <1>5 DEF DispatchPop, Lowest
  <2>2. dispPc' = "send" /\ UNCHANGED <<fetchQueue, ItemsIn(fetchQueue)>>
    BY <1>5, HandsUnchanged DEF DispatchPop, DispatchStep
  <2>3. at[i.url] = "frontier" /\ i.url \in seen /\ \A j \in frontier' : j.url # i.url
    BY <1>3, <1>4, <2>1 DEF OneItem, Alone, Placed
  <2>4. Passes(i.url, "frontier", "dispatcher")
    BY <1>1, <1>2, <2>1, <2>2, <2>3 DEF Passes
  <2>5. \E b \in [URLs -> Stages] : Placed(b)'
    BY <1>3, <2>3, <2>4, PassesPlaced DEF Stages
  <2>6. Alone'
    BY <1>1, <2>1, <2>2 DEF OneItem, Alone, Single
  <2> QED
    BY <2>5, <2>6 DEF OneItem
<1>6. CASE DispatchSend
  <2>1. /\ dispPc = "send" /\ dispPc' # "send" /\ dispItem \in Item /\ fetchQueue \in Seq(Item)
        /\ fetchQueue' = Append(fetchQueue, dispItem) /\ frontier' = frontier
    BY <1>6 DEF DispatchSend, DispatchStep, TypeInv, TypeOK, HandsFull
  <2>2. ItemsIn(fetchQueue)' = ItemsIn(fetchQueue) \cup {dispItem}
    <3>1. ItemsIn(Append(fetchQueue, dispItem)) = ItemsIn(fetchQueue) \cup {dispItem}
      BY <2>1, QueueItems
    <3> QED
      BY <2>1, <3>1 DEF ItemsIn
  <2>3. /\ at[dispItem.url] = "dispatcher" /\ dispItem.url \in seen
        /\ \A j \in ItemsIn(fetchQueue) : j.url # dispItem.url
    BY <1>3, <2>1, ItemUrls DEF Placed
  <2>4. Passes(dispItem.url, "dispatcher", "fetchQueue")
    BY <1>1, <1>2, <2>1, <2>2, <2>3 DEF Passes
  <2>5. \E b \in [URLs -> Stages] : Placed(b)'
    BY <1>3, <2>3, <2>4, PassesPlaced DEF Stages
  <2>6. Single(fetchQueue)'
    <3>1. Single(Append(fetchQueue, dispItem))
      BY <2>1, <2>3, QueueSingle DEF OneItem, Alone
    <3> QED
      BY <2>1, <3>1 DEF Single
  <2>7. Alone'
    BY <1>1, <2>1, <2>6 DEF OneItem, Alone, Single
  <2> QED
    BY <2>5, <2>7 DEF OneItem
<1>7. CASE ~DispatchPop /\ ~DispatchSend
  <2>1. dispPc' # "send" /\ UNCHANGED <<frontier, fetchQueue>>
    BY <1>7 DEF Dispatcher, DispatchReadPages, DispatchNothing, DispatchSendCancelled,
       DispatchReadCap, DispatchReadQueue, DispatchReadInFlight, DispatchTick, DispatchDone,
       DispatchShutdown, Finalize, DispatchStep, frontierVars, channels
  <2>2. UNCHANGED ItemsIn(fetchQueue) /\ Single(fetchQueue)'
    BY <2>1, HandsUnchanged DEF OneItem, Alone, Single
  <2>3. Rests
    BY <1>1, <2>1, <2>2 DEF Rests
  <2> QED
    BY <2>3, RestsAlone
<1> QED
  BY <1>5, <1>6, <1>7

\* A fetcher moves an item from fetchQueue to its hands and on to fetchResults, and pushes
\* the sitemap of a host it onboards.
LEMMA FetcherAlone ==
    ASSUME TypeInv, OneItem, NEW f \in Fetchers, Fetcher(f)
    PROVE  OneItem'
<1>1. /\ UNCHANGED <<dispPc, dispItem, parserPc, parserItem, persisterPc, persisterItem,
                     persistQueue, ItemsIn(persistQueue), fetches>>
      /\ \A g \in Fetchers \ {f} :
            fetcherPc'[g] = fetcherPc[g] /\ fetcherItem'[g] = fetcherItem[g]
  BY FetcherFrame
<1>2. /\ fetcherItem \in [Fetchers -> Item \cup {NoItem}] /\ fetcherPc \in [Fetchers -> FetcherPc]
      /\ fetcherPc[f] \in FetcherHands => fetcherItem[f] \in Item
      /\ fetchQueue \in Seq(Item) /\ fetchResults \in Seq(Item)
  BY DEF TypeInv, TypeOK, HandsFull
<1>3. PICK at \in [URLs -> Stages] : Placed(at)
  BY DEF OneItem
<1>4. CASE FetcherTake(f)
  <2> DEFINE i == Head(fetchQueue)
  <2>1. /\ fetchQueue # <<>> /\ fetchQueue' = Tail(fetchQueue) /\ i \in Item
        /\ UNCHANGED <<frontier, seen, fetchResults>>
    BY <1>2, <1>4 DEF FetcherTake, frontierVars
  <2>2. /\ ItemsIn(fetchQueue) = ItemsIn(fetchQueue)' \cup {i} /\ Single(fetchQueue)'
        /\ \A j \in ItemsIn(fetchQueue)' : j.url # i.url
    <3>1. /\ ItemsIn(fetchQueue) = ItemsIn(Tail(fetchQueue)) \cup {i}
          /\ Single(Tail(fetchQueue)) /\ \A j \in ItemsIn(Tail(fetchQueue)) : j.url # i.url
      BY <1>2, <2>1, QueueItems, QueueSingle DEF OneItem, Alone
    <3> QED
      BY <2>1, <3>1 DEF ItemsIn, Single
  <2>3. UNCHANGED ItemsIn(fetchResults)
    BY <2>1, HandsUnchanged
  <2>4. CASE fetcherPc'[f] = "idle"
    <3>1. \A g \in Fetchers : fetcherPc'[g] \in FetcherHands =>
             fetcherPc[g] \in FetcherHands /\ fetcherItem'[g].url = fetcherItem[g].url
      BY <1>1, <2>4 DEF FetcherHands
    <3> HIDE DEF i
    <3>2. Rests
      BY <1>1, <2>1, <2>2, <3>1 DEF Rests
    <3> QED
      BY <3>2, RestsAlone
  <2>5. CASE fetcherPc'[f] = "onboard"
    <3>1. fetcherItem'[f] = i /\ fetcherPc[f] = "idle"
      BY <1>2, <1>4, <2>5 DEF FetcherTake, FetcherStep
    <3>2. i \in ItemsIn(fetchQueue)
      BY <2>2
    <3> HIDE DEF i
    <3>3. at[i.url] = "fetchQueue" /\ i.url \in seen
      BY <1>3, <2>1, <3>2, ItemUrls DEF Placed
    <3>4. \A g \in Fetchers : fetcherPc'[g] \in FetcherHands =>
             \/ fetcherItem'[g].url = i.url
             \/ fetcherPc[g] \in FetcherHands /\ fetcherItem'[g].url = fetcherItem[g].url
      BY <1>1, <3>1
    <3>5. Passes(i.url, "fetchQueue", "fetcher")
      BY <1>1, <2>1, <2>2, <2>3, <3>4 DEF Passes
    <3>6. \E b \in [URLs -> Stages] : Placed(b)'
      BY <1>3, <3>3, <3>5, PassesPlaced DEF Stages
    <3>7. \A g \in Fetchers \ {f} : fetcherPc[g] \in FetcherHands => fetcherItem[g].url # i.url
      BY <1>3, <3>3 DEF Placed
    <3>8. \A g, k \in Fetchers :
             /\ fetcherPc'[g] \in FetcherHands /\ fetcherPc'[k] \in FetcherHands
             /\ fetcherItem'[g].url = fetcherItem'[k].url
             => g = k
      BY <1>1, <3>1, <3>7 DEF OneItem, Alone
    <3>9. Alone'
      BY <1>1, <2>1, <2>2, <3>8 DEF OneItem, Alone, Single
    <3> QED
      BY <3>6, <3>9 DEF OneItem
  <2> QED
    BY <1>2, <1>4, <2>4, <2>5 DEF FetcherTake, FetcherStep
<1>5. CASE FetcherSend(f)
  <2> DEFINE i == fetcherItem[f]
  <2>1. /\ fetcherPc[f] = "send" /\ fetcherPc'[f] = "idle"
        /\ fetchResults' = Append(fetchResults, i) /\ UNCHANGED <<frontier, seen, fetchQueue>>
    BY <1>2, <1>5 DEF FetcherSend, FetcherStep, frontierVars
  <2>2. i \in Item /\ fetcherPc[f] \in FetcherHands /\ fetcherPc'[f] \notin FetcherHands
    BY <1>2, <2>1 DEF FetcherHands
  <2>3. /\ at[i.url] = "fetcher" /\ i.url \in seen
        /\ \A j \in ItemsIn(fetchResults) : j.url # i.url
    BY <1>3, <2>2, ItemUrls DEF Placed
  <2>4. ItemsIn(fetchResults)' = ItemsIn(fetchResults) \cup {i} /\ Single(fetchResults)'
    <3>1. ItemsIn(Append(fetchResults, i)) = ItemsIn(fetchResults) \cup {i} /\ Single(Append(fetchResults, i))
      BY <1>2, <2>2, <2>3, QueueItems, QueueSingle DEF OneItem, Alone
    <3> QED
      BY <2>1, <3>1 DEF ItemsIn, Single
  <2>5. \A g \in Fetchers : fetcherPc'[g] \in FetcherHands =>
           /\ fetcherPc[g] \in FetcherHands /\ fetcherItem'[g].url = fetcherItem[g].url
           /\ fetcherItem[g].url # i.url
    BY <1>1, <2>2 DEF OneItem, Alone
  <2>6. UNCHANGED ItemsIn(fetchQueue)
    BY <2>1, HandsUnchanged
  <2> HIDE DEF i
  <2>7. Passes(i.url, "fetcher", "fetchResults")
    BY <1>1, <2>1, <2>4, <2>5, <2>6 DEF Passes
  <2>8. \E b \in [URLs -> Stages] : Placed(b)'
    BY <1>3, <2>3, <2>7, PassesPlaced DEF Stages
  <2>9. Alone'
    BY <1>1, <2>1, <2>4, <2>5 DEF OneItem, Alone, Single
  <2> QED
    BY <2>8, <2>9 DEF OneItem
<1>6. CASE FetcherOnboarded(f)
  <2> DEFINE i == fetcherItem[f]
             h == HostOf[i.url]
  <2>1. /\ fetcherPc[f] = "onboarding" /\ fetcherPc'[f] = "robots" /\ UNCHANGED fetcherItem
        /\ UNCHANGED <<fetchQueue, fetchResults>>
    BY <1>2, <1>6 DEF FetcherOnboarded, FetcherStep
  <2>2. PICK n : Push(SitemapURLs(h, n), i.depth + 1)
    BY <1>6 DEF FetcherOnboarded
  <2>3. i \in Item /\ i.depth + 1 \in Nat /\ h \in Hosts
    BY <1>2, <2>1, SiteAssumption DEF FetcherHands, Item
  <2>4. SitemapURLs(h, n) \in SUBSET URLs
    BY <2>3, SitemapHost
  <2>5. \A g \in Fetchers : fetcherPc'[g] \in FetcherHands => fetcherPc[g] \in FetcherHands
    BY <1>1, <2>1 DEF FetcherHands
  <2> HIDE DEF i, h
  <2> QED
    BY <1>1, <2>1, <2>2, <2>3, <2>4, <2>5, PushesAlone
<1>7. CASE ~FetcherTake(f) /\ ~FetcherSend(f) /\ ~FetcherOnboarded(f)
  <2>1. UNCHANGED <<frontier, seen, fetchQueue, fetchResults>>
    BY <1>7 DEF Fetcher, FetcherOnboard, FetcherOnboardFails, FetcherRobots, FetcherFetch,
       FetcherFetched, FetcherCancelled, FetcherExit, frontierVars
  <2>2. fetcherPc'[f] \in FetcherHands =>
           fetcherPc[f] \in FetcherHands /\ fetcherItem'[f].url = fetcherItem[f].url
    <3>1. CASE FetcherFetch(f) \/ FetcherFetched(f)
      <4>1. fetcherPc[f] \in FetcherHands /\ fetcherItem[f] \in Item
        BY <1>2, <3>1 DEF FetcherFetch, FetcherFetched, FetcherStep, FetcherHands
      <4>2. CASE FetcherFetch(f)
        <5>1. fetcherItem'[f] = [fetcherItem[f] EXCEPT !.seq = fetchSeq']
          BY <1>2, <4>2 DEF FetcherFetch
        <5> QED
          BY <4>1, <5>1 DEF Item
      <4>3. CASE FetcherFetched(f)
        <5>1. PICK o : fetcherItem' = [fetcherItem EXCEPT ![f].outcome = o]
          BY <4>3 DEF FetcherFetched
        <5>2. fetcherItem'[f] = [fetcherItem[f] EXCEPT !.outcome = o]
          BY <1>2, <5>1
        <5> QED
          BY <4>1, <5>2 DEF Item
      <4> QED
        BY <3>1, <4>2, <4>3
    <3>2. CASE FetcherOnboard(f) \/ FetcherOnboardFails(f) \/ FetcherRobots(f)
      BY <1>2, <3>2 DEF FetcherOnboard, FetcherOnboardFails, FetcherRobots, FetcherStep, FetcherHands
    <3>3. CASE FetcherCancelled(f) \/ FetcherExit(f)
      BY <1>2, <3>3 DEF FetcherCancelled, FetcherExit, FetcherStep, FetcherHands
    <3> QED
      BY <1>7, <3>1, <3>2, <3>3 DEF Fetcher
  <2>3. UNCHANGED ItemsIn(fetchQueue) /\ Single(fetchQueue)'
    BY <2>1, HandsUnchanged DEF OneItem, Alone, Single
  <2>4. Rests
    BY <1>1, <2>1, <2>2, <2>3 DEF Rests
  <2> QED
    BY <2>4, RestsAlone
<1> QED
  BY <1>4, <1>5, <1>6, <1>7

\* A parser moves an item from fetchResults to its hands and on to persistQueue, and
\* pushes the links it was admitted.
LEMMA ParserAlone ==
    ASSUME TypeInv, OneItem, NEW p \in Parsers, Parser(p)
    PROVE  OneItem'
<1>1. /\ UNCHANGED <<dispPc, dispItem, fetcherPc, fetcherItem, persisterPc, persisterItem,
                     fetchQueue, ItemsIn(fetchQueue), fetches>>
      /\ \A r \in Parsers \ {p} : parserPc'[r] = parserPc[r] /\ parserItem'[r] = parserItem[r]
  BY ParserFrame
<1>2. /\ parserItem \in [Parsers -> Item \cup {NoItem}] /\ parserPc \in [Parsers -> ParserPc]
      /\ parserPc[p] \in ParserHands => parserItem[p] \in Item
      /\ fetchResults \in Seq(Item) /\ persistQueue \in Seq(Item)
  BY DEF TypeInv, TypeOK, HandsFull
<1>3. PICK at \in [URLs -> Stages] : Placed(at)
  BY DEF OneItem
<1>4. CASE ParserTake(p)
  <2> DEFINE i == Head(fetchResults)
  <2>1. /\ fetchResults # <<>> /\ fetchResults' = Tail(fetchResults) /\ i \in Item
        /\ UNCHANGED <<frontier, seen, persistQueue>>
        /\ parserPc[p] = "idle" /\ parserPc'[p] = "parse" /\ parserItem'[p] = i
    BY <1>2, <1>4 DEF ParserTake, ParserStep, frontierVars
  <2>2. /\ ItemsIn(fetchResults) = ItemsIn(fetchResults)' \cup {i} /\ Single(fetchResults)'
        /\ \A j \in ItemsIn(fetchResults)' : j.url # i.url
    <3>1. /\ ItemsIn(fetchResults) = ItemsIn(Tail(fetchResults)) \cup {i}
          /\ Single(Tail(fetchResults)) /\ \A j \in ItemsIn(Tail(fetchResults)) : j.url # i.url
      BY <1>2, <2>1, QueueItems, QueueSingle DEF OneItem, Alone
    <3> QED
      BY <2>1, <3>1 DEF ItemsIn, Single
  <2>3. UNCHANGED ItemsIn(persistQueue)
    BY <2>1, HandsUnchanged
  <2>4. i \in ItemsIn(fetchResults)
    BY <2>2
  <2> HIDE DEF i
  <2>5. at[i.url] = "fetchResults" /\ i.url \in seen
    BY <1>3, <2>1, <2>4, ItemUrls DEF Placed
  <2>6. \A r \in Parsers : parserPc'[r] \in ParserHands =>
           \/ parserItem'[r].url = i.url
           \/ parserPc[r] \in ParserHands /\ parserItem'[r].url = parserItem[r].url
    BY <1>1, <2>1
  <2>7. Passes(i.url, "fetchResults", "parser")
    BY <1>1, <2>1, <2>2, <2>3, <2>6 DEF Passes
  <2>8. \E b \in [URLs -> Stages] : Placed(b)'
    BY <1>3, <2>5, <2>7, PassesPlaced DEF Stages
  <2>9. \A r \in Parsers \ {p} : parserPc[r] \in ParserHands => parserItem[r].url # i.url
    BY <1>3, <2>5 DEF Placed
  <2>10. \A r, k \in Parsers :
            /\ parserPc'[r] \in ParserHands /\ parserPc'[k] \in ParserHands
            /\ parserItem'[r].url = parserItem'[k].url
            => r = k
    BY <1>1, <2>1, <2>9 DEF OneItem, Alone
  <2>11. Alone'
    BY <1>1, <2>1, <2>2, <2>10 DEF OneItem, Alone, Single
  <2> QED
    BY <2>8, <2>11 DEF OneItem
<1>5. CASE ParserSend(p)
  <2> DEFINE i == parserItem[p]
  <2>1. /\ parserPc[p] = "links" /\ parserPc'[p] = "idle"
        /\ persistQueue' = Append(persistQueue, i) /\ UNCHANGED <<frontier, seen, fetchResults>>
    BY <1>2, <1>5 DEF ParserSend, ParserStep, frontierVars
  <2>2. i \in Item /\ parserPc[p] \in ParserHands /\ parserPc'[p] \notin ParserHands
    BY <1>2, <2>1 DEF ParserHands
  <2>3. /\ at[i.url] = "parser" /\ i.url \in seen
        /\ \A j \in ItemsIn(persistQueue) : j.url # i.url
    BY <1>3, <2>2, ItemUrls DEF Placed
  <2>4. ItemsIn(persistQueue)' = ItemsIn(persistQueue) \cup {i} /\ Single(persistQueue)'
    <3>1. ItemsIn(Append(persistQueue, i)) = ItemsIn(persistQueue) \cup {i} /\ Single(Append(persistQueue, i))
      BY <1>2, <2>2, <2>3, QueueItems, QueueSingle DEF OneItem, Alone
    <3> QED
      BY <2>1, <3>1 DEF ItemsIn, Single
  <2>5. \A r \in Parsers : parserPc'[r] \in ParserHands =>
           /\ parserPc[r] \in ParserHands /\ parserItem'[r].url = parserItem[r].url
           /\ parserItem[r].url # i.url
    BY <1>1, <2>2 DEF OneItem, Alone
  <2>6. UNCHANGED ItemsIn(fetchResults)
    BY <2>1, HandsUnchanged
  <2> HIDE DEF i
  <2>7. Passes(i.url, "parser", "persistQueue")
    BY <1>1, <2>1, <2>4, <2>5, <2>6 DEF Passes
  <2>8. \E b \in [URLs -> Stages] : Placed(b)'
    BY <1>3, <2>3, <2>7, PassesPlaced DEF Stages
  <2>9. Alone'
    BY <1>1, <2>1, <2>4, <2>5 DEF OneItem, Alone, Single
  <2> QED
    BY <2>8, <2>9 DEF OneItem
<1>6. CASE ParserPush(p)
  <2>1. /\ parserPc[p] = "push" /\ UNCHANGED <<parserItem, fetchResults, persistQueue>>
    BY <1>6 DEF ParserPush, ParserStep
  <2>2. Push({Head(parserLinks[p])}, parserItem[p].depth + 1)
    BY <1>6 DEF ParserPush
  <2>3. {Head(parserLinks[p])} \in SUBSET URLs /\ parserItem[p].depth + 1 \in Nat
    BY <1>2, <2>1 DEF TypeInv, TypeOK, HandsFull, ParserHands, Item
  <2>4. \A r \in Parsers : parserPc'[r] \in ParserHands => parserPc[r] \in ParserHands
    BY <1>1, <2>1 DEF ParserHands
  <2> QED
    BY <1>1, <2>1, <2>2, <2>3, <2>4, PushesAlone
<1>7. CASE ~ParserTake(p) /\ ~ParserSend(p) /\ ~ParserPush(p)
  <2>1. UNCHANGED <<frontier, seen, fetchResults, persistQueue>>
    BY <1>7 DEF Parser, ParserCount, ParserReserve, ParserCancelled, ParserExit, frontierVars
  <2>2. parserPc'[p] \in ParserHands => parserPc[p] \in ParserHands /\ parserItem'[p] = parserItem[p]
    BY <1>2, <1>7 DEF Parser, ParserCount, ParserReserve, ParserCancelled, ParserExit, ParserStep,
       ParserHands
  <2>3. Single(fetchQueue)'
    BY <1>1 DEF OneItem, Alone, Single
  <2>4. Rests
    BY <1>1, <2>1, <2>2, <2>3 DEF Rests
  <2> QED
    BY <2>4, RestsAlone
<1> QED
  BY <1>4, <1>5, <1>6, <1>7

\* The persister moves an item from persistQueue to its hands and on to the fetch rows.
LEMMA PersisterAlone ==
    ASSUME TypeInv, OneItem, Persister
    PROVE  OneItem'
<1>1. /\ UNCHANGED <<dispPc, dispItem, fetcherPc, fetcherItem, parserPc, parserItem>>
      /\ UNCHANGED <<frontier, seen, fetchQueue, fetchResults>>
  BY DEF Persister, PersistTake, PersistItem, PersistFails, PersistRetry, PersistCancelled,
     PersistFatal, PersisterExit, OthersOfPersist, frontierVars, dispatcherVars, fetcherVars,
     parserVars
<1>2. UNCHANGED <<ItemsIn(fetchQueue), ItemsIn(fetchResults)>>
  BY <1>1, HandsUnchanged
<1>3. PICK at \in [URLs -> Stages] : Placed(at)
  BY DEF OneItem
<1>4. CASE PersistTake
  <2> DEFINE i == Head(persistQueue)
  <2>1. /\ persistQueue # <<>> /\ persistQueue' = Tail(persistQueue) /\ persistQueue \in Seq(Item)
        /\ i \in Item /\ persisterItem' = i /\ UNCHANGED fetches
    BY <1>4 DEF PersistTake, TypeInv, TypeOK
  <2>2. /\ ItemsIn(persistQueue) = ItemsIn(persistQueue)' \cup {i} /\ Single(persistQueue)'
        /\ \A j \in ItemsIn(persistQueue)' : j.url # i.url
    <3>1. /\ ItemsIn(persistQueue) = ItemsIn(Tail(persistQueue)) \cup {i}
          /\ Single(Tail(persistQueue)) /\ \A j \in ItemsIn(Tail(persistQueue)) : j.url # i.url
      BY <2>1, QueueItems, QueueSingle DEF OneItem, Alone
    <3> QED
      BY <2>1, <3>1 DEF ItemsIn, Single
  <2>3. i \in ItemsIn(persistQueue)
    BY <2>2
  <2> HIDE DEF i
  <2>4. at[i.url] = "persistQueue" /\ i.url \in seen
    BY <1>3, <2>1, <2>3, ItemUrls DEF Placed
  <2>5. Passes(i.url, "persistQueue", "persister")
    BY <1>1, <1>2, <2>1, <2>2 DEF Passes
  <2>6. \E b \in [URLs -> Stages] : Placed(b)'
    BY <1>3, <2>4, <2>5, PassesPlaced DEF Stages
  <2>7. Alone'
    BY <1>1, <2>1, <2>2 DEF OneItem, Alone, Single
  <2> QED
    BY <2>6, <2>7 DEF OneItem
<1>5. CASE PersistItem /\ fetches' # fetches
  <2> DEFINE i == persisterItem
  <2>1. /\ persisterPc = "write" /\ persisterPc' = "idle" /\ fetches' = fetches \cup {i}
        /\ UNCHANGED <<persistQueue, ItemsIn(persistQueue)>>
    BY <1>5, HandsUnchanged DEF PersistItem, PersisterStep
  <2>2. at[i.url] = "persister" /\ i.url \in seen /\ \A r \in fetches : r.url # i.url
    BY <1>3, <2>1, ItemUrls DEF Placed
  <2> HIDE DEF i
  <2>3. Passes(i.url, "persister", "stored")
    BY <1>1, <1>2, <2>1 DEF Passes
  <2>4. \E b \in [URLs -> Stages] : Placed(b)'
    BY <1>3, <2>2, <2>3, PassesPlaced DEF Stages
  <2>5. Alone'
    BY <1>1, <2>1, <2>2 DEF OneItem, Alone, Single
  <2> QED
    BY <2>4, <2>5 DEF OneItem
<1>6. CASE ~PersistTake /\ fetches' = fetches
  <2>1. persisterPc' \in {"write", "backoff"} =>
           persisterPc \in {"write", "backoff"} /\ persisterItem' = persisterItem
    BY <1>6 DEF Persister, PersistItem, PersistFails, PersistRetry, PersistCancelled, PersistFatal,
       PersisterExit, PersisterStep
  <2>2. UNCHANGED persistQueue
    BY <1>6 DEF Persister, PersistItem, PersistFails, PersistRetry, PersistCancelled, PersistFatal,
       PersisterExit
  <2>3. Single(fetchQueue)'
    BY <1>1 DEF OneItem, Alone, Single
  <2>4. Rests
    BY <1>1, <1>2, <1>6, <2>1, <2>2, <2>3 DEF Rests
  <2> QED
    BY <2>4, RestsAlone
<1>7. fetches' # fetches => PersistItem
  BY DEF Persister, PersistTake, PersistItem, PersistFails, PersistRetry, PersistCancelled,
     PersistFatal, PersisterExit
<1>8. PersistTake => fetches' = fetches
  BY DEF PersistTake
<1> QED
  BY <1>4, <1>5, <1>6, <1>7, <1>8

\* Every step keeps one item for each URL.
LEMMA OneItemStep ==
    ASSUME TypeInv, OneItem, [Next]_vars
    PROVE  OneItem'
<1>1. CASE Environment \/ UNCHANGED vars
  <2>1. UNCHANGED <<seen, frontier, dispPc, dispItem, fetcherItem, parserItem, persisterItem,
                    fetchQueue, fetchResults, persistQueue, fetches>>
    BY <1>1 DEF Environment, Cancel, Panic, RecoverWorker, OthersOfPanic, frontierVars,
       dispatcherVars, fetcherVars, parserVars, persisterVars, rowVars, channels, vars
  <2>2. persisterPc' \in {"write", "backoff"} => persisterPc \in {"write", "backoff"}
    BY <1>1 DEF Environment, Cancel, Panic, RecoverWorker, PersisterStep, persisterVars, vars
  <2>3. CASE ~(\E f \in Fetchers : Fetcher(f)) /\ ~(\E p \in Parsers : Parser(p))
    <3>1. /\ \A f \in Fetchers : fetcherPc'[f] \in FetcherHands => fetcherPc[f] \in FetcherHands
          /\ \A p \in Parsers : parserPc'[p] \in ParserHands => parserPc[p] \in ParserHands
      BY <2>3, OtherWorkers DEF FetcherHands, ParserHands
    <3>2. UNCHANGED ItemsIn(fetchQueue) /\ Single(fetchQueue)'
      BY <2>1, HandsUnchanged DEF OneItem, Alone, Single
    <3>3. Rests
      BY <2>1, <2>2, <3>1, <3>2 DEF Rests
    <3> QED
      BY <3>3, RestsAlone
  <2> QED
    BY <2>3, FetcherAlone, ParserAlone
<1> QED
  BY <1>1, DispatcherAlone, FetcherAlone, ParserAlone, PersisterAlone DEF Next, Finished

\* Whatever the number of fetchers and parsers, and however often a URL is linked: it has
\* one item, in one stage, and at most one fetch row.
THEOREM OneItemKept == Spec => []OneItem
<1>1. Init => OneItem
  <2> SUFFICES ASSUME Init PROVE OneItem
    OBVIOUS
  <2>1. PICK S \in SUBSET URLs :
           /\ frontier = {NewItem(u, 0) : u \in Seeds} \cup {NewItem(u, 1) : u \in S}
           /\ seen = Seeds \cup S /\ S \cap Seeds = {}
    BY InitItems
  <2>2. \A i \in frontier : i.url \in seen
    BY <2>1 DEF NewItem
  <2>3. \A i, j \in frontier : i.url = j.url => i = j
    BY <2>1 DEF NewItem
  <2>4. /\ \A f \in Fetchers : fetcherPc[f] = "idle" /\ dispPc = "poll" /\ persisterPc = "idle"
        /\ \A p \in Parsers : parserPc[p] = "idle"
        /\ fetchQueue = <<>> /\ fetchResults = <<>> /\ persistQueue = <<>> /\ fetches = {}
    BY DEF Init
  <2>5. Alone
    BY <2>3, <2>4 DEF Alone, Single, FetcherHands, ParserHands
  <2> DEFINE b == [u \in URLs |-> IF u \in seen THEN "frontier" ELSE "new"]
  <2>6. b \in [URLs -> Stages] /\ \A u \in URLs : b[u] = IF u \in seen THEN "frontier" ELSE "new"
    BY DEF Stages
  <2>7. seen \subseteq URLs
    BY <2>1, SiteAssumption
  <2>8. ItemsIn(<<>>) = {}
    BY DEF ItemsIn
  <2>9. dispPc = "poll" /\ persisterPc = "idle"
    BY DEF Init
  <2> HIDE DEF b
  <2>10. Placed(b)
    BY <2>2, <2>4, <2>6, <2>7, <2>8, <2>9 DEF Placed, FetcherHands, ParserHands
  <2> QED
    BY <2>5, <2>6, <2>10 DEF OneItem
<1>2. TypeInv /\ OneItem /\ [Next]_vars => OneItem'
  BY OneItemStep
<1> QED
  BY <1>1, <1>2, TypeCorrect, PTL DEF Spec

\* No URL is fetched twice, and fetch numbers identify fetch rows.
THEOREM FetchesUnique == Spec => []FetchedOnce
<1>1. OneItem /\ NumberInv => FetchedOnce
  BY DEF OneItem, Alone, NumberInv, Numbered, FetchedOnce
<1> QED
  BY <1>1, OneItemKept, NumbersKept, PTL

-----------------------------------------------------------------------------
(* Robots rules.  RobotsHonored is not an invariant: a host is marked before  *)
(* its rules are stored, and a fetcher that finds the mark asks without them. *)
(* It holds for the hosts of the seeds, and for any host with one fetcher.    *)

\* The items past the check of the rules, and the hosts whose rules are always there
\* in time.
Asking == FetcherItems({"acquire"}) \cup Numbered
OneFetcher == \A f, g \in Fetchers : f = g
InTime(h) == h \in SeedHosts \/ OneFetcher
Honored(i) == InTime(HostOf[i.url]) /\ HostOf[i.url] \in robotsRules => i.url \notin Disallowed

\* Nobody asks a host that is not marked, and a lone fetcher asks none it is onboarding.
RobotsInv ==
    /\ SeedHosts \subseteq hostSeen /\ SeedHosts \subseteq robotsRules
    /\ \A i \in Asking : HostOf[i.url] \in hostSeen /\ Honored(i)
    /\ \A f \in Fetchers : fetcherPc[f] = "robots" => HostOf[fetcherItem[f].url] \in hostSeen
    /\ \A f \in Fetchers : fetcherPc[f] = "onboarding" =>
          LET h == HostOf[fetcherItem[f].url]
          IN h \in hostSeen \ SeedHosts /\ (OneFetcher => \A i \in Asking : HostOf[i.url] # h)

\* Only onboarding changes what is known of the hosts.
LEMMA HostsChange ==
    ASSUME TypeInv, [Next]_vars
    PROVE  \/ UNCHANGED <<hostSeen, robotsRules>>
           \/ \E f \in Fetchers :
                 /\ FetcherOnboard(f) /\ robotsRules' = robotsRules
                 /\ hostSeen' \in {hostSeen, hostSeen \cup {HostOf[fetcherItem[f].url]}}
           \/ \E f \in Fetchers :
                 /\ FetcherOnboarded(f) /\ fetcherPc[f] = "onboarding" /\ hostSeen' = hostSeen
                 /\ robotsRules' = robotsRules \cup {HostOf[fetcherItem[f].url]}
<1>1. CASE \E f \in Fetchers : Fetcher(f)
  <2>1. PICK f \in Fetchers : Fetcher(f)
    BY <1>1
  <2>2. CASE FetcherOnboard(f)
    BY <2>2 DEF FetcherOnboard
  <2>3. CASE FetcherOnboarded(f)
    BY <2>3 DEF FetcherOnboarded, FetcherStep
  <2>4. CASE ~FetcherOnboard(f) /\ ~FetcherOnboarded(f)
    BY <2>1, <2>4 DEF Fetcher, FetcherTake, FetcherOnboardFails, FetcherRobots, FetcherFetch,
       FetcherFetched, FetcherSend, FetcherCancelled, FetcherExit, onboardVars
  <2> QED
    BY <2>2, <2>3, <2>4
<1>2. CASE Dispatcher \/ Persister \/ Environment
  BY <1>2 DEF Dispatcher, DispatchReadPages, DispatchPop, DispatchNothing, DispatchSend,
     DispatchSendCancelled, DispatchReadCap, DispatchReadQueue, DispatchReadInFlight, DispatchTick,
     DispatchDone, DispatchShutdown, Finalize, OthersOfDispatch, Persister, PersistTake,
     PersistItem, PersistFails, PersistRetry, PersistCancelled, PersistFatal, PersisterExit,
     OthersOfPersist, Environment, Cancel, Panic, RecoverWorker, OthersOfPanic, onboardVars
<1>3. CASE \E p \in Parsers : Parser(p)
  BY <1>3 DEF Parser, ParserTake, ParserCount, ParserReserve, ParserPush, ParserSend,
     ParserCancelled, ParserExit, OthersOfParse, onboardVars
<1> QED
  BY <1>1, <1>2, <1>3 DEF Next, Finished, vars, onboardVars

\* Whoever asks asked before, or its fetcher has just found nothing against it.
LEMMA AskingFlow ==
    ASSUME TypeInv, [Next]_vars, NEW i \in Asking'
    PROVE  \/ \E j \in Asking : j.url = i.url
           \/ \E f \in Fetchers :
                 /\ FetcherRobots(f) /\ fetcherPc[f] = "robots" /\ i = fetcherItem[f]
                 /\ i.url \notin Disallowed \/ HostOf[i.url] \notin robotsRules
<1>1. CASE i \in Numbered'
  <2>1. CASE i \in Numbered
    BY <2>1 DEF Asking
  <2>2. ASSUME NEW f \in Fetchers, FetcherFetch(f) \/ FetcherFetched(f), i = fetcherItem'[f]
        PROVE  \E j \in Asking : j.url = i.url
    <3>1. fetcherPc[f] \in {"acquire", "fetching"} /\ fetcherItem[f] \in Item
      BY <2>2 DEF FetcherFetch, FetcherFetched, FetcherStep, TypeInv, TypeOK, HandsFull,
         FetcherHands
    <3>2. fetcherItem[f] \in Asking
      BY <3>1 DEF Asking, Numbered, FetcherItems
    <3>3. i.url = fetcherItem[f].url
      <4>1. CASE FetcherFetch(f)
        <5>1. i = [fetcherItem[f] EXCEPT !.seq = fetchSeq']
          BY <2>2, <4>1 DEF FetcherFetch, TypeInv, TypeOK
        <5> QED
          BY <3>1, <5>1 DEF Item
      <4>2. CASE FetcherFetched(f)
        <5>1. PICK o : fetcherItem' = [fetcherItem EXCEPT ![f].outcome = o]
          BY <4>2 DEF FetcherFetched
        <5>2. i = [fetcherItem[f] EXCEPT !.outcome = o]
          BY <2>2, <5>1 DEF TypeInv, TypeOK
        <5> QED
          BY <3>1, <5>2 DEF Item
      <4> QED
        BY <2>2, <4>1, <4>2
    <3> QED
      BY <3>2, <3>3
  <2> QED
    BY <1>1, <2>1, <2>2, StepFlow DEF Flow
<1>2. CASE i \in FetcherItems({"acquire"})'
  <2>1. PICK f \in Fetchers : fetcherPc'[f] = "acquire" /\ i = fetcherItem'[f]
    BY <1>2 DEF FetcherItems
  <2>2. CASE Fetcher(f)
    <3>1. FetcherRobots(f)
      BY <2>1, <2>2 DEF Fetcher, FetcherTake, FetcherOnboard, FetcherOnboarded,
         FetcherOnboardFails, FetcherRobots, FetcherFetch, FetcherFetched, FetcherSend,
         FetcherCancelled, FetcherExit, FetcherStep, TypeInv, TypeOK
    <3> QED
      BY <2>1, <3>1 DEF FetcherRobots, FetcherStep, TypeInv, TypeOK
  <2>3. CASE ~Fetcher(f)
    BY <2>1, <2>3, OtherWorkers DEF Asking, FetcherItems
  <2> QED
    BY <2>2, <2>3
<1> QED
  BY <1>1, <1>2 DEF Asking

\* Every step keeps the hosts marked, the seeds' rules in place, and the askers honest.
LEMMA RobotsStep ==
    ASSUME TypeInv, RobotsInv, [Next]_vars
    PROVE  RobotsInv'
<1>1. /\ hostSeen \subseteq hostSeen' /\ robotsRules \subseteq robotsRules'
  BY HostsChange
<1>2. \A f \in Fetchers : fetcherPc'[f] \in {"robots", "onboarding"} =>
         \/ fetcherPc'[f] = fetcherPc[f] /\ fetcherItem'[f] = fetcherItem[f]
         \/ /\ FetcherOnboard(f) /\ fetcherPc'[f] = "robots" /\ fetcherItem'[f] = fetcherItem[f]
            /\ HostOf[fetcherItem[f].url] \in hostSeen
         \/ /\ FetcherOnboard(f) /\ fetcherPc'[f] = "onboarding" /\ fetcherItem'[f] = fetcherItem[f]
            /\ HostOf[fetcherItem[f].url] \in hostSeen' \ hostSeen
         \/ /\ fetcherPc[f] = "onboarding" /\ fetcherPc'[f] = "robots"
            /\ fetcherItem'[f] = fetcherItem[f]
  <2> SUFFICES ASSUME NEW f \in Fetchers, fetcherPc'[f] \in {"robots", "onboarding"}
               PROVE  \/ fetcherPc'[f] = fetcherPc[f] /\ fetcherItem'[f] = fetcherItem[f]
                      \/ /\ FetcherOnboard(f) /\ fetcherPc'[f] = "robots"
                         /\ fetcherItem'[f] = fetcherItem[f]
                         /\ HostOf[fetcherItem[f].url] \in hostSeen
                      \/ /\ FetcherOnboard(f) /\ fetcherPc'[f] = "onboarding"
                         /\ fetcherItem'[f] = fetcherItem[f]
                         /\ HostOf[fetcherItem[f].url] \in hostSeen' \ hostSeen
                      \/ /\ fetcherPc[f] = "onboarding" /\ fetcherPc'[f] = "robots"
                         /\ fetcherItem'[f] = fetcherItem[f]
    OBVIOUS
  <2>1. CASE FetcherOnboard(f)
    BY <2>1 DEF FetcherOnboard, FetcherStep, TypeInv, TypeOK
  <2>2. CASE FetcherOnboarded(f) \/ FetcherOnboardFails(f)
    BY <2>2 DEF FetcherOnboarded, FetcherOnboardFails, FetcherStep, TypeInv, TypeOK
  <2>3. CASE Fetcher(f) /\ ~FetcherOnboard(f) /\ ~FetcherOnboarded(f) /\ ~FetcherOnboardFails(f)
    BY <2>3 DEF Fetcher, FetcherTake, FetcherRobots, FetcherFetch, FetcherFetched, FetcherSend,
       FetcherCancelled, FetcherExit, FetcherStep, TypeInv, TypeOK
  <2>4. CASE ~Fetcher(f)
    BY <2>4, OtherWorkers
  <2> QED
    BY <2>1, <2>2, <2>3, <2>4
<1>3. \A i \in Asking' : HostOf[i.url] \in hostSeen' /\ Honored(i)'
  <2> SUFFICES ASSUME NEW i \in Asking' PROVE HostOf[i.url] \in hostSeen' /\ Honored(i)'
    OBVIOUS
  <2> DEFINE h == HostOf[i.url]
  \* With the rules as they were.
  <2>1. /\ h \in hostSeen /\ Honored(i)
        /\ \A f \in Fetchers : fetcherPc[f] = "onboarding" /\ OneFetcher =>
              HostOf[fetcherItem[f].url] # h
    <3>1. CASE \E j \in Asking : j.url = i.url
      BY <3>1 DEF RobotsInv, Honored
    <3>2. ASSUME NEW f \in Fetchers, FetcherRobots(f), fetcherPc[f] = "robots", i = fetcherItem[f],
                 i.url \notin Disallowed \/ HostOf[i.url] \notin robotsRules
          PROVE  /\ h \in hostSeen /\ Honored(i)
                 /\ \A g \in Fetchers : fetcherPc[g] = "onboarding" /\ OneFetcher =>
                       HostOf[fetcherItem[g].url] # h
      BY <3>2 DEF RobotsInv, Honored, OneFetcher
    <3> QED
      BY <3>1, <3>2, AskingFlow
  <2>2. h \in robotsRules' \ robotsRules => ~InTime(h)
    <3> SUFFICES ASSUME h \in robotsRules' \ robotsRules PROVE ~InTime(h)
      OBVIOUS
    <3>1. PICK f \in Fetchers : fetcherPc[f] = "onboarding" /\ h = HostOf[fetcherItem[f].url]
      BY HostsChange
    <3> QED
      BY <2>1, <3>1 DEF RobotsInv, InTime
  <2> QED
    BY <1>1, <2>1, <2>2 DEF Honored, InTime
<1>4. ASSUME NEW f \in Fetchers, fetcherPc'[f] = "robots"
      PROVE  HostOf[fetcherItem'[f].url] \in hostSeen'
  BY <1>1, <1>2, <1>4 DEF RobotsInv
<1>5. ASSUME NEW f \in Fetchers, fetcherPc'[f] = "onboarding"
      PROVE  LET h == HostOf[fetcherItem'[f].url]
             IN h \in hostSeen' \ SeedHosts /\ (OneFetcher => \A i \in Asking' : HostOf[i.url] # h)
  <2> DEFINE h == HostOf[fetcherItem[f].url]
  <2>1. /\ fetcherItem'[f] = fetcherItem[f] /\ fetcherPc[f] # "robots"
        /\ h \in hostSeen' \ SeedHosts
        /\ OneFetcher => \A j \in Asking : HostOf[j.url] # h
    <3>1. CASE fetcherPc[f] = "onboarding" /\ fetcherItem'[f] = fetcherItem[f]
      BY <1>1, <3>1 DEF RobotsInv
    <3>2. CASE FetcherOnboard(f) /\ fetcherItem'[f] = fetcherItem[f] /\ h \in hostSeen' \ hostSeen
      BY <3>2 DEF FetcherOnboard, FetcherStep, RobotsInv
    <3> QED
      BY <1>2, <1>5, <3>1, <3>2
  <2>2. ASSUME OneFetcher, NEW i \in Asking'
        PROVE  HostOf[i.url] # h
    BY <2>1, <2>2, AskingFlow DEF OneFetcher
  <2> QED
    BY <2>1, <2>2
<1> QED
  BY <1>1, <1>3, <1>4, <1>5 DEF RobotsInv, OneFetcher

\* No fetch is on record and nobody asks when the crawl starts.
LEMMA RobotsKept == Spec => []RobotsInv
<1>1. Init => RobotsInv
  <2> SUFFICES ASSUME Init PROVE RobotsInv
    OBVIOUS
  <2>1. hostSeen = SeedHosts /\ robotsRules = SeedHosts /\ \A f \in Fetchers : fetcherPc[f] = "idle"
    BY DEF Init
  <2>2. Asking = {}
    BY <2>1, InitItems DEF Asking, FetcherItems
  <2> QED
    BY <2>1, <2>2 DEF RobotsInv
<1>2. TypeInv /\ RobotsInv /\ [Next]_vars => RobotsInv'
  BY RobotsStep
<1> QED
  BY <1>1, <1>2, TypeCorrect, PTL DEF Spec

\* What robots.txt disallows on the seeds' host is never fetched, whatever the fetchers
\* do at once, for any site: onboardSeedHosts stores its rules before they start.
THEOREM SeedRulesHonored ==
    Spec => [](\A r \in fetches : HostOf[r.url] \in SeedHosts => r.url \notin Disallowed)
<1>1. RobotsInv => \A r \in fetches : HostOf[r.url] \in SeedHosts => r.url \notin Disallowed
  BY DEF RobotsInv, Asking, Numbered, Honored, InTime
<1> QED
  BY <1>1, RobotsKept, PTL

\* A lone fetcher never fetches what a host's stored rules disallow: the order of
\* hostOnboardingState.seen and e.robotsRules is wrong only for two.
THEOREM OneFetcherHonors ==
    ASSUME \A f, g \in Fetchers : f = g
    PROVE  Spec => []RobotsHonored
<1>1. RobotsInv => RobotsHonored
  BY DEF RobotsInv, Asking, Numbered, Honored, InTime, OneFetcher, RobotsHonored
<1> QED
  BY <1>1, RobotsKept, PTL

=============================================================================

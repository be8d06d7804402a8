------------------------------- MODULE Fetcher -------------------------------
(***************************************************************************)
(* Fetcher workers over the per-host rate limiter: onboarding of a host on    *)
(* its first URL, Acquire, the HTTP request of internal/fetcher/fetcher.go    *)
(* with its redirect walk and its single retry after a 429, Release and       *)
(* RecordTTFB, as the fetcher pool of runCrawlPipeline calls them.  A crawl   *)
(* ends when every worker has returned; the next one resets the limiter.      *)
(***************************************************************************)
EXTENDS RateLimiter, Sequences

CONSTANTS
    URLs,
    Frontier,     \* URLs the dispatcher hands out; the others are met by redirects
    HostOf,       \* HostOf[u]: hostname of u
    Answers,      \* Answers[u]: what a server may answer for u (external)
    RobotsDelay,  \* RobotsDelay[h]: crawl delay in h's robots.txt
    RetryAfter,   \* waits a 429 may ask for, in time units
    MaxHops,      \* opts.MaxRedirectHops
    Blocked,      \* URLs the address guard refuses
    Wired         \* whether Fetcher.RateLimiter is set

ASSUME FetcherAssumption ==
    /\ Frontier \subseteq URLs /\ Frontier # {}
    /\ HostOf \in [URLs -> Hosts]
    /\ \A u \in URLs : Answers[u] \subseteq URLs \cup {"page", "429"}
    /\ RobotsDelay \in [Hosts -> Durations]
    /\ RetryAfter \subseteq Durations \ {0}
    /\ MaxHops \in Nat \ {0}
    /\ Blocked \subseteq URLs
    /\ Wired \in BOOLEAN

VARIABLES
    pc,          \* pc[w]: where worker w is
    req,         \* req[w]: its request
    wait,        \* wait[w]: what is left of the timer it sleeps on
    onboarded,   \* hosts some worker has begun to onboard
    cancelled,   \* the crawl's context has ended
    closing      \* the fetch queue is closed

vars == <<limiterVars, pc, req, wait, onboarded, cancelled, closing>>

\* A request for u.  hops: the redirects followed; seen: for loop detection;
\* end: how it ended.
Request(u) == [url |-> u, at |-> u, hops |-> <<>>, seen |-> {u},
               attempt |-> 1, due |-> 0, end |-> "none"]

NoRequest == Request(CHOOSE u \in Frontier : TRUE)

Ends == {"none", "page", "429", "loop", "exceeded", "error"}

Requests == [url : URLs, at : URLs, hops : Seq(URLs \X URLs), seen : SUBSET URLs,
             attempt : 1..2, due : Durations, end : Ends]

Places == {"idle", "robots", "sem", "lock", "delay", "fetch", "throttle", "backoff",
           "release", "record", "exited", "dead"}

\* Every variable has its type; a worker's redirect walk stays among the URLs.
TypeOK ==
    /\ LimiterTypeOK
    /\ pc \in [Workers -> Places]
    /\ req \in [Workers -> Requests]
    /\ wait \in [Workers -> Durations]
    /\ onboarded \subseteq Hosts
    /\ cancelled \in BOOLEAN
    /\ closing \in BOOLEAN

HostFor(w) == HostOf[req[w].url]

Init ==
    /\ LimiterInit
    /\ pc = [w \in Workers |-> "idle"]
    /\ req = [w \in Workers |-> NoRequest]
    /\ wait = [w \in Workers |-> 0]
    /\ onboarded = {}
    /\ cancelled = FALSE
    /\ closing = FALSE

Goto(w, l) == pc' = [pc EXCEPT ![w] = l]
crawlVars == <<onboarded, cancelled, closing>>

-----------------------------------------------------------------------------
(* One URL of the fetch queue: ensureHostOnboarded, then the limiter.         *)

\* The first worker on a host marks it and fetches its robots.txt; the others go on.
Take(w, u) ==
    /\ pc[w] = "idle" /\ ~closing
    /\ req' = [req EXCEPT ![w] = Request(u)]
    /\ onboarded' = onboarded \cup {HostOf[u]}
    /\ Goto(w, IF HostOf[u] \in onboarded THEN "sem" ELSE "robots")
    /\ UNCHANGED <<limiterVars, wait, cancelled, closing>>

\* Onboarding ends: it failed, there is no crawl delay, or there is one to set,
\* under the host's mutex.
Onboarded(w) ==
    /\ pc[w] = "robots"
    /\ \/ UNCHANGED limiterVars
       \/ /\ RobotsDelay[HostFor(w)] > 0 /\ ~cancelled
          /\ SetCrawlDelay(HostFor(w), RobotsDelay[HostFor(w)])
    /\ Goto(w, "sem")
    /\ UNCHANGED <<req, wait, crawlVars>>

AcquireSlot(w) ==
    /\ pc[w] = "sem"
    /\ TakeSlot(HostFor(w))
    /\ Goto(w, "lock")
    /\ UNCHANGED <<req, wait, crawlVars>>

AcquireGranted(w) ==
    /\ pc[w] = "lock"
    /\ GrantNow(HostFor(w))
    /\ Goto(w, "fetch")
    /\ UNCHANGED <<req, wait, crawlVars>>

AcquireDelayed(w) ==
    /\ pc[w] = "lock"
    /\ StartWait(HostFor(w), w)
    /\ wait' = [wait EXCEPT ![w] = EffectiveDelay(HostFor(w)) - age[HostFor(w)]]
    /\ Goto(w, "delay")
    /\ UNCHANGED <<req, crawlVars>>

AcquireWaited(w) ==
    /\ pc[w] = "delay" /\ wait[w] = 0
    /\ EndWait(HostFor(w))
    /\ Goto(w, "fetch")
    /\ UNCHANGED <<req, wait, crawlVars>>

\* The context ended in one of the two waits of AcquireContext.  The lock between
\* them is not interruptible.
AcquireCancelled(w) ==
    /\ cancelled
    /\ \/ pc[w] = "sem" /\ UNCHANGED limiterVars
       \/ pc[w] = "delay" /\ AbandonWait(HostFor(w))
    /\ wait' = [wait EXCEPT ![w] = 0]
    /\ Goto(w, "exited")
    /\ UNCHANGED <<req, crawlVars>>

-----------------------------------------------------------------------------
(* Fetcher.do                                                                *)

\* CheckRedirect without loop detection.
RedirectEndForgetful(r, to) ==
    IF Len(r.hops) + 1 >= MaxHops THEN "exceeded" ELSE "none"

\* CheckRedirect: the hop is recorded first, then a loop, the hop limit and the
\* address guard may end the request.
RedirectEnd(r, to) ==
    IF to \in r.seen THEN "loop"
    ELSE IF Len(r.hops) + 1 >= MaxHops THEN "exceeded"
    ELSE IF to \in Blocked THEN "error" ELSE "none"

Redirected(r, to) ==
    [r EXCEPT !.hops = Append(@, <<r.at, to>>),
              !.seen = @ \cup {to},
              !.end = RedirectEnd(r, to),
              !.at = IF RedirectEnd(r, to) = "none" THEN to ELSE @]

FetchRedirect(w, to) ==
    /\ pc[w] = "fetch"
    /\ to \in Answers[req[w].at] \cap URLs
    /\ req' = [req EXCEPT ![w] = Redirected(req[w], to)]
    /\ Goto(w, IF RedirectEnd(req[w], to) = "none" THEN "fetch" ELSE "release")
    /\ UNCHANGED <<limiterVars, wait, crawlVars>>

\* A page, the second 429, or an error: refused connection, timeout, cancellation.
FetchEnds(w) ==
    /\ pc[w] = "fetch"
    /\ \E e \in {"page", "429", "error"} :
          /\ e = "page" => "page" \in Answers[req[w].at]
          /\ e = "429" => "429" \in Answers[req[w].at] /\ req[w].attempt = 2
          /\ req' = [req EXCEPT ![w].end = e]
    /\ Goto(w, "release")
    /\ UNCHANGED <<limiterVars, wait, crawlVars>>

\* The first 429: ThrottleHost, when the fetcher has a limiter, computes the end
\* of the throttle and then waits for the host's mutex.
FetchTooMany(w, dur) ==
    /\ pc[w] = "fetch" /\ req[w].attempt = 1
    /\ "429" \in Answers[req[w].at]
    /\ req' = [req EXCEPT ![w].due = dur]
    /\ wait' = [wait EXCEPT ![w] = dur]
    /\ Goto(w, IF Wired THEN "throttle" ELSE "backoff")
    /\ UNCHANGED <<limiterVars, crawlVars>>

\* The host throttled is that of the URL asked for, whoever answered.  The wait
\* before the retry starts now.
Throttle(w) ==
    /\ pc[w] = "throttle"
    /\ ThrottleHost(HostFor(w), req[w].due, wait[w])
    /\ wait' = [wait EXCEPT ![w] = req[w].due]
    /\ Goto(w, "backoff")
    /\ UNCHANGED <<req, crawlVars>>

\* The retry starts again at the first URL, outside the limiter, and keeps the
\* hops and the seen set of the first attempt.
Retry(w) ==
    /\ pc[w] = "backoff" /\ wait[w] = 0
    /\ req' = [req EXCEPT ![w].at = req[w].url, ![w].attempt = @ + 1, ![w].due = 0]
    /\ Goto(w, "fetch")
    /\ UNCHANGED <<limiterVars, wait, crawlVars>>

RetryCancelled(w) ==
    /\ pc[w] = "backoff" /\ cancelled
    /\ req' = [req EXCEPT ![w].end = "error"]
    /\ wait' = [wait EXCEPT ![w] = 0]
    /\ Goto(w, "release")
    /\ UNCHANGED <<limiterVars, crawlVars>>

-----------------------------------------------------------------------------
(* After the request, and the life of a crawl.                               *)

\* A worker that keeps its slot after a failed request.
ReleaseSlotOnSuccess(w) ==
    /\ pc[w] = "release"
    /\ IF req[w].end = "error" THEN UNCHANGED limiterVars ELSE Release(HostFor(w))
    /\ Goto(w, "record")
    /\ UNCHANGED <<req, wait, crawlVars>>

ReleaseSlot(w) ==
    /\ pc[w] = "release"
    /\ Release(HostFor(w))
    /\ Goto(w, "record")
    /\ UNCHANGED <<req, wait, crawlVars>>

Record(w) ==
    /\ pc[w] = "record"
    /\ RecordTTFB(HostFor(w))
    /\ req' = [req EXCEPT ![w] = NoRequest]
    /\ Goto(w, "idle")
    /\ UNCHANGED <<wait, crawlVars>>

Exit(w) ==
    /\ pc[w] = "idle" /\ closing
    /\ Goto(w, "exited")
    /\ UNCHANGED <<limiterVars, req, wait, crawlVars>>

\* A panic inside the request leaks the slot; recoverWorker cancels the crawl.
Panic(w) ==
    /\ pc[w] = "fetch"
    /\ Goto(w, "dead")
    /\ cancelled' = TRUE
    /\ UNCHANGED <<limiterVars, req, wait, onboarded, closing>>

Cancel == cancelled' = TRUE /\ UNCHANGED <<limiterVars, pc, req, wait, onboarded, closing>>

Close == closing' = TRUE /\ UNCHANGED <<limiterVars, pc, req, wait, onboarded, cancelled>>

\* RunCrawl of the next job, serialised with this one by the engine's lock: the
\* pipeline has waited for its workers.
NextCrawl ==
    /\ \A w \in Workers : pc[w] \in {"exited", "dead"}
    /\ Reset
    /\ pc' = [w \in Workers |-> "idle"]
    /\ req' = [w \in Workers |-> NoRequest]
    /\ wait' = [w \in Workers |-> 0]
    /\ onboarded' = {} /\ cancelled' = FALSE /\ closing' = FALSE

Tick ==
    /\ LimiterTick
    /\ wait' = [w \in Workers |-> Less(wait[w])]
    /\ UNCHANGED <<pc, req, onboarded, cancelled, closing>>

Timer(t) == TimerFires(t) /\ UNCHANGED <<pc, req, wait, crawlVars>>

WorkerStep(w) ==
    \/ \E u \in Frontier : Take(w, u)
    \/ Onboarded(w)
    \/ AcquireSlot(w)
    \/ AcquireGranted(w)
    \/ AcquireDelayed(w)
    \/ AcquireWaited(w)
    \/ AcquireCancelled(w)
    \/ \E u \in URLs : FetchRedirect(w, u)
    \/ FetchEnds(w)
    \/ \E d \in RetryAfter : FetchTooMany(w, d)
    \/ Throttle(w)
    \/ Retry(w)
    \/ RetryCancelled(w)
    \/ ReleaseSlot(w)
    \/ Record(w)
    \/ Exit(w)

Next ==
    \/ \E w \in Workers : WorkerStep(w)
    \/ \E w \in Workers : Panic(w)
    \/ Cancel
    \/ Close
    \/ NextCrawl
    \/ \E t \in timers : Timer(t)
    \/ Tick

\* The Go scheduler runs every runnable goroutine; channels and mutexes are handed
\* over in turn, so a worker that could have had one infinitely often gets it; a
\* request ends (the client has a timeout) and time passes.  Nobody has to take
\* more work, and nobody has to cancel.
Progress(w) ==
    \/ Onboarded(w)
    \/ AcquireSlot(w) \/ AcquireGranted(w) \/ AcquireDelayed(w) \/ AcquireWaited(w)
    \/ FetchEnds(w) \/ Throttle(w) \/ Retry(w)
    \/ ReleaseSlot(w) \/ Record(w)

Spec == Init /\ [][Next]_vars

FairSpec ==
    /\ Spec
    /\ WF_vars(Tick)
    /\ \A w \in Workers :
          /\ WF_vars(FetchEnds(w))
          /\ WF_vars(AcquireCancelled(w))
          /\ SF_vars(Progress(w))

-----------------------------------------------------------------------------
(* Properties                                                                *)

Holds(w, h) ==
    /\ HostFor(w) = h
    /\ pc[w] \in {"lock", "delay", "fetch", "throttle", "backoff", "release", "dead"}

\* Every slot of a host is either in its semaphore or with one worker, on every
\* path out of Acquire and Fetch (cancelled waits, failed requests, retries), and
\* no Release ever meets a host state that a Reset has replaced.
SlotsConserved ==
    \A h \in Hosts :
        tokens[h] + Cardinality({w \in Workers : Holds(w, h)}) = PerHost

\* While a worker sleeps out the crawl delay the delay it computed stays right: a
\* request is only let through when the host's crawl delay has passed since the
\* one before it, although other workers set delays and throttles meanwhile.
DelayRespected ==
    [][\A w \in Workers :
          (pc[w] \in {"lock", "delay"} /\ pc'[w] = "fetch")
             => age[HostFor(w)] >= base'[HostFor(w)]]_vars

\* A throttle holds at least its delay for at least its duration, whatever
\* shorter or later throttles of the host overlap it.
ThrottleKept ==
    \A p \in promises : EffectiveDelay(p.host) >= p.delay

\* A request that ends without a loop, at its first attempt, has followed a simple
\* path from the URL asked for to the URL that answered, of fewer than MaxHops hops.
ChainIsPath ==
    \A w \in Workers :
        LET r == req[w] IN
        r.attempt = 1 /\ r.end \in {"page", "exceeded"} =>
            /\ r.seen = {r.url} \cup {r.hops[i][2] : i \in DOMAIN r.hops}
            /\ Cardinality(r.seen) = Len(r.hops) + 1
            /\ \A i \in DOMAIN r.hops :
                  r.hops[i][1] = IF i = 1 THEN r.url ELSE r.hops[i - 1][2]
            /\ Len(r.hops) <= MaxHops
            /\ r.end = "page" =>
                  r.at = IF r.hops = <<>> THEN r.url ELSE r.hops[Len(r.hops)][2]

\* A request is only reported as a redirect loop when its hops, each starting where
\* the one before it ended, come back to a URL of the chain.
LoopIsReal ==
    \A w \in Workers :
        LET hops == req[w].hops IN
        req[w].end = "loop" =>
            \A i \in DOMAIN hops \ {1} : hops[i][1] = hops[i - 1][2]

\* A worker that waits for a slot gets through the limiter or sees the crawl end.
WaitersServed ==
    \A w \in Workers : pc[w] = "sem" ~> pc[w] \in {"fetch", "exited"}
=============================================================================

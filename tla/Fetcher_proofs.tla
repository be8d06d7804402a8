---------------------------- MODULE Fetcher_proofs ----------------------------
(***************************************************************************)
(* Proofs about the fetcher workers and their per-host rate limiter, for any *)
(* number of workers, hosts and URLs, any answers and any delays.           *)
(***************************************************************************)
EXTENDS Fetcher, FiniteSetTheorems, SequenceTheorems, TLAPS

\* The places of a request that has not ended, or has not begun.
Unended == Places \ {"release", "record"}

\* Only a first attempt asks for a retry, and a request ends once.
AttemptInv ==
    \A w \in Workers :
        /\ pc[w] \in {"throttle", "backoff"} => req[w].attempt = 1
        /\ pc[w] \in Unended => req[w].end = "none"

\* The mutex of a host is held by the worker that sleeps out the host's delay.
MutexInv ==
    /\ \A h \in Hosts : mu[h] # NoWorker => pc[mu[h]] = "delay" /\ HostFor(mu[h]) = h
    /\ \A w \in Workers : pc[w] = "delay" => mu[HostFor(w)] = w

\* When the timer of a sleeping worker fires, the crawl delay will have passed:
\* nobody sets the delay or lastFetch of a host whose mutex is held.
SleepInv ==
    \A w \in Workers :
        pc[w] = "delay" => age[HostFor(w)] + wait[w] >= base[HostFor(w)]

\* A throttle asked for ends no later than the host's throttle and is no longer
\* than the host's delay.
PromiseInv ==
    \A p \in promises :
        /\ p.left >= 1
        /\ p.left <= until[p.host]
        /\ p.delay <= thr[p.host]

\* The URL the walk of r has come to.
Reached(r) == IF r.hops = <<>> THEN r.url ELSE r.hops[Len(r.hops)][2]

\* The walk of r is a path from its URL to `at`, where only a loop repeats a URL.
Walk(r) ==
    /\ IsFiniteSet(r.seen)
    /\ \A i \in DOMAIN r.hops :
          r.hops[i][1] = IF i = 1 THEN r.url ELSE r.hops[i - 1][2]
    /\ r.seen = {r.url} \cup {r.hops[i][2] : i \in DOMAIN r.hops}
    /\ r.end # "loop" => Cardinality(r.seen) = Len(r.hops) + 1
    /\ Len(r.hops) <= MaxHops
    /\ r.end = "none" => Len(r.hops) < MaxHops
    /\ r.end \in {"none", "page"} => r.at = Reached(r)

WalkInv == \A w \in Workers : req[w].attempt = 1 => Walk(req[w])

-----------------------------------------------------------------------------
(* Types.                                                                   *)

\* The request a worker starts from, and the hosts and URLs the constants give.
LEMMA Constants ==
    /\ NoRequest \in Requests
    /\ NoRequest.attempt = 1 /\ NoRequest.end = "none"
    /\ \A u \in Frontier : Request(u) \in Requests
    /\ 0 \in Durations /\ MaxDelay \in Durations
    /\ \A d \in Durations : Less(d) \in Durations /\ More(d) \in Durations
<1>1. \A u \in Frontier : Request(u) \in Requests
  <2> SUFFICES ASSUME NEW u \in Frontier PROVE Request(u) \in Requests
    OBVIOUS
  <2>1. u \in URLs /\ {u} \in SUBSET URLs /\ <<>> \in Seq(URLs \X URLs)
    BY FetcherAssumption
  <2>2. 0 \in Durations /\ 1 \in 1..2
    BY LimiterAssumption DEF Durations
  <2> QED
    BY <2>1, <2>2 DEF Request, Requests, Ends
<1>2. (CHOOSE u \in Frontier : TRUE) \in Frontier
  BY FetcherAssumption
<1>3. NoRequest \in Requests
  BY <1>1, <1>2 DEF NoRequest
<1>4. NoRequest.attempt = 1 /\ NoRequest.end = "none"
  BY DEF NoRequest, Request
<1>5. 0 \in Durations /\ MaxDelay \in Durations
  BY LimiterAssumption DEF Durations
<1>6. \A d \in Durations : Less(d) \in Durations /\ More(d) \in Durations
  BY LimiterAssumption DEF Durations, Less, More
<1> QED
  BY <1>1, <1>3, <1>4, <1>5, <1>6

\* One redirect keeps the type of a request.
LEMMA RedirectType ==
    ASSUME NEW r \in Requests, NEW to \in URLs
    PROVE  Redirected(r, to) \in Requests
<1>1. Append(r.hops, <<r.at, to>>) \in Seq(URLs \X URLs)
  BY DEF Requests
<1>2. RedirectEnd(r, to) \in Ends
  BY DEF RedirectEnd, Ends
<1> QED
  BY <1>1, <1>2 DEF Redirected, Requests

\* Every method of the limiter that a worker calls keeps the limiter's types.
LEMMA LimiterTypes ==
    ASSUME LimiterTypeOK, NEW h \in Hosts, NEW w \in Workers,
           \/ TakeSlot(h) \/ GrantNow(h) \/ StartWait(h, w) \/ EndWait(h)
           \/ AbandonWait(h) \/ Release(h) \/ RecordTTFB(h)
           \/ \E d \in Durations : SetCrawlDelay(h, d)
           \/ \E d \in Durations, l \in Durations : ThrottleHost(h, d, l)
           \/ UNCHANGED limiterVars
    PROVE  LimiterTypeOK'
<1> USE LimiterAssumption, Constants DEF LimiterTypeOK, DropExpired, PutSlot
<1>1. CASE TakeSlot(h)
  BY <1>1 DEF TakeSlot
<1>2. CASE GrantNow(h)
  BY <1>2 DEF GrantNow
<1>3. CASE StartWait(h, w)
  BY <1>3 DEF StartWait
<1>4. CASE EndWait(h)
  BY <1>4 DEF EndWait
<1>5. CASE AbandonWait(h)
  BY <1>5 DEF AbandonWait
<1>6. CASE Release(h)
  BY <1>6 DEF Release
<1>7. CASE RecordTTFB(h) \/ UNCHANGED limiterVars
  BY <1>7 DEF RecordTTFB, limiterVars
<1>8. CASE \E d \in Durations : SetCrawlDelay(h, d)
  BY <1>8 DEF SetCrawlDelay
<1>9. CASE \E d \in Durations, l \in Durations : ThrottleHost(h, d, l)
  <2> PICK d \in Durations, l \in Durations : ThrottleHost(h, d, l)
    BY <1>9
  <2> DEFINE end == Longer(l, until[h])
             kept == {[t EXCEPT !.current = @ /\ t.host # h] : t \in timers}
             new == [host |-> h, left |-> end, current |-> TRUE]
             Timers == [host : Hosts, left : Durations, current : BOOLEAN]
  <2>1. end \in Durations /\ Longer(d, thr[h]) \in Durations
    BY DEF Longer
  <2>2. kept \subseteq Timers
    <3> SUFFICES ASSUME NEW t \in timers
                 PROVE [t EXCEPT !.current = @ /\ t.host # h] \in Timers
      OBVIOUS
    <3>1. t \in Timers
      OBVIOUS
    <3> QED
      BY <3>1
  <2>3. new \in Timers
    BY <2>1
  <2>4. timers' \subseteq Timers
    BY <2>2, <2>3 DEF ThrottleHost
  <2>5. promises' \subseteq [host : Hosts, delay : Durations, left : Durations]
    BY DEF ThrottleHost
  <2>6. thr' \in [Hosts -> Durations] /\ until' \in [Hosts -> Durations]
    BY <2>1 DEF ThrottleHost
  <2> QED
    BY <2>4, <2>5, <2>6 DEF ThrottleHost
<1> QED
  BY <1>1, <1>2, <1>3, <1>4, <1>5, <1>6, <1>7, <1>8, <1>9

\* A worker keeps the limiter's types.
LEMMA WorkerLimiterTypes ==
    ASSUME TypeOK, NEW w \in Workers, WorkerStep(w) \/ Panic(w)
    PROVE  LimiterTypeOK'
<1> DEFINE h == HostFor(w)
<1>1. h \in Hosts /\ LimiterTypeOK
  BY FetcherAssumption DEF TypeOK, HostFor, Requests
<1>2. req[w].due \in Durations /\ wait[w] \in Durations /\ RobotsDelay[h] \in Durations
  BY <1>1, FetcherAssumption DEF TypeOK, Requests
<1>3. \/ TakeSlot(h) \/ GrantNow(h) \/ StartWait(h, w) \/ EndWait(h)
      \/ AbandonWait(h) \/ Release(h) \/ RecordTTFB(h)
      \/ SetCrawlDelay(h, RobotsDelay[h])
      \/ ThrottleHost(h, req[w].due, wait[w])
      \/ UNCHANGED limiterVars
  BY DEF WorkerStep, Take, Onboarded, AcquireSlot, AcquireGranted, AcquireDelayed,
         AcquireWaited, AcquireCancelled, FetchRedirect, FetchEnds, FetchTooMany, Throttle,
         Retry, RetryCancelled, ReleaseSlot, Record, Exit, Panic
<1> HIDE DEF h
<1> QED
  BY <1>1, <1>2, <1>3, LimiterTypes

\* A request that ends stays a request, in the same attempt.
LEMMA RequestEnds ==
    ASSUME NEW q \in Requests, NEW e \in Ends
    PROVE  /\ [q EXCEPT !.end = e] \in Requests
           /\ [q EXCEPT !.end = e].attempt = q.attempt
  BY DEF Requests

\* A worker keeps its own types, and only its first attempt is tried again.
LEMMA WorkerTypes ==
    ASSUME TypeOK, AttemptInv, NEW w \in Workers, WorkerStep(w) \/ Panic(w)
    PROVE  TypeOK' /\ AttemptInv'
<1> DEFINE Own == /\ pc \in [Workers -> Places]
                  /\ req \in [Workers -> Requests]
                  /\ wait \in [Workers -> Durations]
                  /\ onboarded \subseteq Hosts
                  /\ cancelled \in BOOLEAN
                  /\ closing \in BOOLEAN
<1>0. Own /\ LimiterTypeOK' /\ (Own' /\ AttemptInv' => TypeOK' /\ AttemptInv')
  BY WorkerLimiterTypes DEF TypeOK
<1> SUFFICES Own' /\ AttemptInv'
  BY <1>0
<1> USE <1>0, Constants DEF crawlVars, Goto, Places, Unended, AttemptInv
<1>1. CASE \E u \in Frontier : Take(w, u)
  <2> PICK u \in Frontier : Take(w, u)
    BY <1>1
  <2>1. Request(u) \in Requests /\ Request(u).end = "none" /\ HostOf[u] \in Hosts
    BY FetcherAssumption DEF Request
  <2> QED
    BY <2>1 DEF Take
<1>2. CASE Onboarded(w)
  BY <1>2 DEF Onboarded
<1>3. CASE AcquireSlot(w)
  BY <1>3 DEF AcquireSlot
<1>4. CASE AcquireGranted(w)
  BY <1>4 DEF AcquireGranted
<1>5. CASE AcquireDelayed(w)
  <2> DEFINE h == HostFor(w)
             d == EffectiveDelay(h) - age[h]
  <2>1. h \in Hosts
    BY FetcherAssumption DEF HostFor, Requests
  <2>2. EffectiveDelay(h) \in Durations /\ age[h] \in Durations
    BY <2>1 DEF TypeOK, LimiterTypeOK, EffectiveDelay, Longer
  <2>3. MustWait(h)
    BY <1>5 DEF AcquireDelayed, StartWait
  <2>4. d \in Durations
    BY <2>2, <2>3, LimiterAssumption DEF MustWait, Durations
  <2> HIDE DEF h, d
  <2>5. /\ pc' = [pc EXCEPT ![w] = "delay"] /\ wait' = [wait EXCEPT ![w] = d]
        /\ UNCHANGED <<req, onboarded, cancelled, closing>>
        /\ pc[w] = "lock"
    BY <1>5 DEF AcquireDelayed, d, h
  <2> QED
    BY <2>4, <2>5
<1>6. CASE AcquireWaited(w)
  BY <1>6 DEF AcquireWaited
<1>7. CASE AcquireCancelled(w)
  BY <1>7 DEF AcquireCancelled
<1>8. CASE \E u \in URLs : FetchRedirect(w, u)
  <2> PICK to \in URLs : FetchRedirect(w, to)
    BY <1>8
  <2> DEFINE r == Redirected(req[w], to)
  <2>1. r \in Requests /\ r.attempt = req[w].attempt
    BY RedirectType DEF Redirected, Requests
  <2>2. r.end = RedirectEnd(req[w], to)
    BY DEF Redirected, Requests
  <2> HIDE DEF r
  <2>3. /\ req' = [req EXCEPT ![w] = r]
        /\ pc' = [pc EXCEPT ![w] = IF r.end = "none" THEN "fetch" ELSE "release"]
        /\ UNCHANGED <<wait, onboarded, cancelled, closing>>
    BY <2>2 DEF FetchRedirect, r
  <2> QED
    BY <2>1, <2>3
<1>9. CASE FetchEnds(w)
  <2> PICK e \in {"page", "429", "error"} : req' = [req EXCEPT ![w].end = e]
    BY <1>9 DEF FetchEnds
  <2> DEFINE r == [req[w] EXCEPT !.end = e]
  <2>0. e \in Ends /\ req[w] \in Requests
    BY DEF Ends
  <2>1. r \in Requests /\ r.attempt = req[w].attempt
    BY <2>0 DEF Requests
  <2>2. req' = [req EXCEPT ![w] = r]
    OBVIOUS
  <2> HIDE DEF r
  <2> QED
    BY <1>9, <2>1, <2>2 DEF FetchEnds
<1>10. CASE \E d \in RetryAfter : FetchTooMany(w, d)
  <2> PICK d \in RetryAfter : FetchTooMany(w, d)
    BY <1>10
  <2> DEFINE r == [req[w] EXCEPT !.due = d]
  <2>1. d \in Durations
    BY FetcherAssumption
  <2>2. r \in Requests /\ r.attempt = req[w].attempt /\ r.end = req[w].end
    BY <2>1 DEF Requests
  <2>3. req' = [req EXCEPT ![w] = r]
    BY DEF FetchTooMany
  <2> HIDE DEF r
  <2> QED
    BY <2>1, <2>2, <2>3 DEF FetchTooMany
<1>11. CASE Throttle(w)
  <2>1. req[w].due \in Durations
    BY DEF Requests
  <2>2. /\ pc[w] = "throttle" /\ pc' = [pc EXCEPT ![w] = "backoff"]
        /\ wait' = [wait EXCEPT ![w] = req[w].due]
        /\ UNCHANGED <<req, onboarded, cancelled, closing>>
    BY <1>11 DEF Throttle
  <2> QED
    BY <2>1, <2>2
<1>12. CASE Retry(w)
  <2> DEFINE r == [req[w] EXCEPT !.at = req[w].url, !.attempt = @ + 1, !.due = 0]
  <2>1. req[w].attempt = 1 /\ req[w].end = "none"
    BY <1>12 DEF Retry
  <2>0. req[w] \in Requests /\ req[w].attempt + 1 \in 1..2 /\ req[w].url \in URLs
    BY <2>1 DEF Requests
  <2>2. r \in Requests /\ r.end = "none"
    BY <2>0, <2>1 DEF Requests
  <2>3. req' = [req EXCEPT ![w] = r]
    BY <1>12 DEF Retry
  <2> HIDE DEF r
  <2>4. pc[w] = "backoff" /\ pc' = [pc EXCEPT ![w] = "fetch"]
    BY <1>12 DEF Retry
  <2>5. UNCHANGED <<wait, onboarded, cancelled, closing>>
    BY <1>12 DEF Retry
  <2> QED
    BY <2>2, <2>3, <2>4, <2>5
<1>13. CASE RetryCancelled(w)
  <2> DEFINE r == [req[w] EXCEPT !.end = "error"]
  <2>1. r \in Requests /\ r.attempt = req[w].attempt
    BY RequestEnds DEF Ends
  <2>2. req' = [req EXCEPT ![w] = r]
    BY <1>13 DEF RetryCancelled
  <2> HIDE DEF r
  <2> QED
    BY <1>13, <2>1, <2>2 DEF RetryCancelled
<1>14. CASE ReleaseSlot(w)
  BY <1>14 DEF ReleaseSlot
<1>15. CASE Record(w)
  BY <1>15 DEF Record
<1>16. CASE Exit(w)
  BY <1>16 DEF Exit
<1>17. CASE Panic(w)
  BY <1>17 DEF Panic
<1> QED
  BY <1>1, <1>2, <1>3, <1>4, <1>5, <1>6, <1>7, <1>8, <1>9, <1>10, <1>11, <1>12, <1>13, <1>14, <1>15, <1>16, <1>17 DEF WorkerStep

\* Cancellation, the end of the frontier, the next crawl, timers and time keep the types.
LEMMA EnvironmentTypes ==
    ASSUME TypeOK, AttemptInv,
           Cancel \/ Close \/ NextCrawl \/ (\E t \in timers : Timer(t)) \/ Tick
    PROVE  TypeOK' /\ AttemptInv'
<1> DEFINE Timers == [host : Hosts, left : Durations, current : BOOLEAN]
           Promises == [host : Hosts, delay : Durations, left : Durations]
<1> USE Constants, LimiterAssumption DEF TypeOK, LimiterTypeOK, AttemptInv, Places, Unended
<1>1. CASE Cancel \/ Close
  BY <1>1 DEF Cancel, Close, limiterVars
<1>2. CASE NextCrawl
  <2>1. timers' \subseteq Timers
    <3> SUFFICES ASSUME NEW t \in timers PROVE [t EXCEPT !.current = FALSE] \in Timers
      BY <1>2 DEF NextCrawl, Reset
    <3>1. t \in Timers
      OBVIOUS
    <3> QED
      BY <3>1
  <2>2. /\ tokens' \in [Hosts -> 0..PerHost] /\ mu' \in [Hosts -> Workers \cup {NoWorker}]
        /\ base' \in [Hosts -> Durations] /\ thr' \in [Hosts -> Durations]
        /\ until' \in [Hosts -> Durations] /\ age' \in [Hosts -> Durations]
        /\ promises' \subseteq Promises
    BY <1>2 DEF NextCrawl, Reset
  <2> QED
    BY <1>2, <2>1, <2>2 DEF NextCrawl
<1>3. CASE \E t \in timers : Timer(t)
  BY <1>3 DEF Timer, TimerFires, crawlVars
<1>4. CASE Tick
  <2>1. timers' \subseteq Timers
    <3> SUFFICES ASSUME NEW t \in timers PROVE [t EXCEPT !.left = Less(@)] \in Timers
      BY <1>4 DEF Tick, LimiterTick
    <3>1. t \in Timers /\ Less(t.left) \in Durations
      OBVIOUS
    <3> QED
      BY <3>1
  <2>2. promises' \subseteq Promises
    <3> SUFFICES ASSUME NEW p \in promises, p.left > 1
                 PROVE [p EXCEPT !.left = @ - 1] \in Promises
      BY <1>4 DEF Tick, LimiterTick
    <3>1. p \in Promises /\ p.left - 1 \in Durations
      BY DEF Durations
    <3> QED
      BY <3>1
  <2>3. /\ age' \in [Hosts -> Durations] /\ until' \in [Hosts -> Durations]
        /\ wait' \in [Workers -> Durations]
    BY <1>4 DEF Tick, LimiterTick
  <2> QED
    BY <1>4, <2>1, <2>2, <2>3 DEF Tick, LimiterTick
<1> QED
  BY <1>1, <1>2, <1>3, <1>4

-----------------------------------------------------------------------------
(* The mutex of a host and the sleep under it.                              *)

\* A worker's URL, and so its host, only changes outside the limiter.
LEMMA HostStays ==
    ASSUME TypeOK, NEW w \in Workers, WorkerStep(w) \/ Panic(w)
    PROVE  /\ \A y \in Workers \ {w} : pc'[y] = pc[y] /\ req'[y] = req[y] /\ wait'[y] = wait[y]
           /\ pc[w] \notin {"idle", "record"} => HostFor(w)' = HostFor(w)
           /\ pc'[w] \in {"lock", "delay", "fetch", "throttle", "backoff", "release", "dead"}
                 => pc[w] \notin {"idle", "record"}
<1> USE DEF TypeOK, Goto, crawlVars, HostFor, Requests
<1>1. CASE \E u \in Frontier : Take(w, u)
  BY <1>1 DEF Take
<1>2. CASE Onboarded(w)
  BY <1>2 DEF Onboarded
<1>3. CASE AcquireSlot(w)
  BY <1>3 DEF AcquireSlot
<1>4. CASE AcquireGranted(w)
  BY <1>4 DEF AcquireGranted
<1>5. CASE AcquireDelayed(w)
  BY <1>5 DEF AcquireDelayed
<1>6. CASE AcquireWaited(w)
  BY <1>6 DEF AcquireWaited
<1>7. CASE AcquireCancelled(w)
  BY <1>7 DEF AcquireCancelled
<1>8. CASE \E u \in URLs : FetchRedirect(w, u)
  BY <1>8 DEF FetchRedirect, Redirected
<1>9. CASE FetchEnds(w)
  BY <1>9 DEF FetchEnds
<1>10. CASE \E d \in RetryAfter : FetchTooMany(w, d)
  BY <1>10 DEF FetchTooMany
<1>11. CASE Throttle(w)
  BY <1>11 DEF Throttle
<1>12. CASE Retry(w)
  BY <1>12 DEF Retry
<1>13. CASE RetryCancelled(w)
  BY <1>13 DEF RetryCancelled
<1>14. CASE ReleaseSlot(w)
  BY <1>14 DEF ReleaseSlot
<1>15. CASE Record(w)
  BY <1>15 DEF Record
<1>16. CASE Exit(w)
  BY <1>16 DEF Exit
<1>17. CASE Panic(w)
  BY <1>17 DEF Panic
<1> QED
  BY <1>1, <1>2, <1>3, <1>4, <1>5, <1>6, <1>7, <1>8, <1>9, <1>10, <1>11, <1>12, <1>13, <1>14, <1>15, <1>16, <1>17 DEF WorkerStep

\* A worker takes the mutex only when it goes to sleep and the delay it sleeps for
\* is the one in force; it gives the mutex back when it leaves its sleep.
LEMMA WorkerMutex ==
    ASSUME TypeOK, TypeOK', MutexInv, SleepInv, NEW w \in Workers, WorkerStep(w) \/ Panic(w)
    PROVE  MutexInv' /\ SleepInv'
<1> DEFINE h == HostFor(w)
<1>1. h \in Hosts /\ h' \in Hosts /\ \A y \in Workers : HostFor(y) \in Hosts
  BY FetcherAssumption DEF TypeOK, HostFor, Requests
<1>2. /\ \A y \in Workers \ {w} : pc'[y] = pc[y] /\ wait'[y] = wait[y] /\ HostFor(y)' = HostFor(y)
      /\ pc[w] \in {"robots", "lock", "delay"} => h' = h
  BY HostStays DEF HostFor
<1>3. /\ mu \in [Hosts -> Workers \cup {NoWorker}] /\ NoWorker \notin Workers
      /\ base \in [Hosts -> Nat] /\ age \in [Hosts -> Nat] /\ wait \in [Workers -> Nat]
      /\ thr \in [Hosts -> Nat] /\ until \in [Hosts -> Nat] /\ pc \in [Workers -> Places]
  BY LimiterAssumption DEF TypeOK, LimiterTypeOK, Durations
<1> HIDE DEF h
<1>4. CASE /\ UNCHANGED <<mu, base, age>>
           /\ pc[w] # "delay" /\ pc'[w] # "delay"
  BY <1>1, <1>2, <1>3, <1>4 DEF MutexInv, SleepInv
<1>5. CASE /\ pc[w] = "robots" /\ pc'[w] = "sem" /\ mu[h] = NoWorker
           /\ base' = [base EXCEPT ![h] = RobotsDelay[h]] /\ UNCHANGED <<mu, age>>
  BY <1>1, <1>2, <1>3, <1>5 DEF MutexInv, SleepInv
<1>6. CASE /\ pc[w] = "lock" /\ pc'[w] = "fetch" /\ mu[h] = NoWorker
           /\ age' = [age EXCEPT ![h] = 0] /\ UNCHANGED <<mu, base>>
  BY <1>1, <1>2, <1>3, <1>6 DEF MutexInv, SleepInv
<1>7. CASE /\ pc[w] = "lock" /\ pc'[w] = "delay" /\ mu[h] = NoWorker
           /\ mu' = [mu EXCEPT ![h] = w] /\ UNCHANGED <<base, age>>
           /\ wait'[w] = EffectiveDelay(h) - age[h]
  <2>1. EffectiveDelay(h) \in Nat /\ EffectiveDelay(h) >= base[h]
    BY <1>1, <1>3 DEF EffectiveDelay, Longer
  <2>2. MutexInv'
    BY <1>1, <1>2, <1>3, <1>7 DEF MutexInv, h
  <2>3. SleepInv'
    BY <1>1, <1>2, <1>3, <1>7, <2>1, h' = h DEF SleepInv, h
  <2> QED
    BY <2>2, <2>3
<1>8. CASE /\ pc[w] = "delay" /\ pc'[w] # "delay" /\ mu' = [mu EXCEPT ![h] = NoWorker]
           /\ \/ age' = [age EXCEPT ![h] = 0]
              \/ age' = age
           /\ base' = base
  BY <1>1, <1>2, <1>3, <1>8 DEF MutexInv, SleepInv, h
<1> USE DEF Goto, crawlVars, limiterVars, TypeOK, Places
<1>9. CASE \E u \in Frontier : Take(w, u)
  BY <1>9, <1>4 DEF Take
<1>10. CASE Onboarded(w)
  BY <1>10, <1>4, <1>5 DEF Onboarded, SetCrawlDelay, h
<1>11. CASE AcquireSlot(w)
  BY <1>11, <1>4 DEF AcquireSlot, TakeSlot
<1>12. CASE AcquireGranted(w)
  BY <1>12, <1>6 DEF AcquireGranted, GrantNow, h
<1>13. CASE AcquireDelayed(w)
  BY <1>13, <1>7 DEF AcquireDelayed, StartWait, h
<1>14. CASE AcquireWaited(w)
  BY <1>14, <1>8 DEF AcquireWaited, EndWait, h
<1>15. CASE AcquireCancelled(w)
  BY <1>15, <1>4, <1>8 DEF AcquireCancelled, AbandonWait, h
<1>16. CASE \E u \in URLs : FetchRedirect(w, u)
  BY <1>16, <1>4 DEF FetchRedirect
<1>17. CASE FetchEnds(w)
  BY <1>17, <1>4 DEF FetchEnds
<1>18. CASE \E d \in RetryAfter : FetchTooMany(w, d)
  BY <1>18, <1>4 DEF FetchTooMany
<1>19. CASE Throttle(w)
  BY <1>19, <1>4 DEF Throttle, ThrottleHost
<1>20. CASE Retry(w)
  BY <1>20, <1>4 DEF Retry
<1>21. CASE RetryCancelled(w)
  BY <1>21, <1>4 DEF RetryCancelled
<1>22. CASE ReleaseSlot(w)
  BY <1>22, <1>4 DEF ReleaseSlot, Release, PutSlot
<1>23. CASE Record(w)
  BY <1>23, <1>4 DEF Record, RecordTTFB
<1>24. CASE Exit(w)
  BY <1>24, <1>4 DEF Exit
<1>25. CASE Panic(w)
  BY <1>25, <1>4 DEF Panic
<1> QED
  BY <1>9, <1>10, <1>11, <1>12, <1>13, <1>14, <1>15, <1>16, <1>17, <1>18, <1>19, <1>20, <1>21, <1>22, <1>23, <1>24, <1>25 DEF WorkerStep

\* Nothing but a worker takes or frees a mutex, and a unit of time takes as much
\* from a sleep as it adds to the time since lastFetch.
LEMMA EnvironmentMutex ==
    ASSUME TypeOK, MutexInv, SleepInv,
           Cancel \/ Close \/ NextCrawl \/ (\E t \in timers : Timer(t)) \/ Tick
    PROVE  MutexInv' /\ SleepInv'
<1>1. CASE Cancel \/ Close
  BY <1>1 DEF Cancel, Close, limiterVars, MutexInv, SleepInv, HostFor
<1>2. CASE NextCrawl
  BY <1>2, LimiterAssumption DEF NextCrawl, Reset, MutexInv, SleepInv, HostFor
<1>3. CASE \E t \in timers : Timer(t)
  BY <1>3 DEF Timer, TimerFires, crawlVars, MutexInv, SleepInv, HostFor
<1>4. CASE Tick
  <2>1. MutexInv'
    BY <1>4 DEF Tick, LimiterTick, MutexInv, HostFor
  <2>2. SUFFICES ASSUME NEW w \in Workers, pc[w] = "delay"
                 PROVE age'[HostFor(w)] + wait'[w] >= base[HostFor(w)]
    BY <1>4, <2>1 DEF Tick, LimiterTick, SleepInv, HostFor
  <2> DEFINE h == HostFor(w)
  <2>3. h \in Hosts
    BY FetcherAssumption DEF TypeOK, HostFor, Requests
  <2>4. age[h] \in Durations /\ wait[w] \in Durations /\ base[h] \in Durations
    BY <2>3 DEF TypeOK, LimiterTypeOK
  <2>5. age'[h] = More(age[h]) /\ wait'[w] = Less(wait[w])
    BY <1>4, <2>3 DEF Tick, LimiterTick
  <2>6. age[h] + wait[w] >= base[h]
    BY <2>2 DEF SleepInv
  <2> HIDE DEF h
  <2>7. age'[h] + wait'[w] >= base[h]
    BY <2>4, <2>5, <2>6, LimiterAssumption DEF More, Less, Durations
  <2> QED
    BY <2>7 DEF h
<1> QED
  BY <1>1, <1>2, <1>3, <1>4

-----------------------------------------------------------------------------
(* The slots of a host.                                                     *)

\* 1 for a worker that counts, 0 for one that does not.
One(b) == IF b THEN 1 ELSE 0

\* Two sets of workers that differ in w at most: their sizes differ by what w counts.
LEMMA WorkerCounts ==
    ASSUME NEW w \in Workers, NEW A \in SUBSET Workers, NEW B \in SUBSET Workers,
           A \ {w} = B \ {w}
    PROVE  /\ Cardinality(A) \in Nat
           /\ Cardinality(B) = Cardinality(A) + One(w \in B) - One(w \in A)
<1>1. IsFiniteSet(A) /\ IsFiniteSet(B)
  BY LimiterAssumption, FS_Subset
<1>2. Cardinality(A) \in Nat /\ Cardinality(B) \in Nat
  BY <1>1, FS_CardinalityType
<1>3. Cardinality(A \ {w}) = IF w \in A THEN Cardinality(A) - 1 ELSE Cardinality(A)
  BY <1>1, FS_RemoveElement
<1>4. Cardinality(B \ {w}) = IF w \in B THEN Cardinality(B) - 1 ELSE Cardinality(B)
  BY <1>1, FS_RemoveElement
<1> QED
  BY <1>2, <1>3, <1>4 DEF One

\* The places of a worker that holds a slot.
Holding == {"lock", "delay", "fetch", "throttle", "backoff", "release", "dead"}

\* A slot leaves the semaphore of a host when a worker begins to hold it, and
\* returns when the worker stops: the host the worker releases is the one it acquired.
LEMMA WorkerSlots ==
    ASSUME TypeOK, TypeOK', SlotsConserved, NEW w \in Workers, WorkerStep(w) \/ Panic(w)
    PROVE  SlotsConserved'
<1> DEFINE h == HostFor(w)
           Holders(g) == {y \in Workers : Holds(y, g)}
           Move(p, q, n) ==
               /\ (pc[w] \in Holding) = p /\ (pc'[w] \in Holding) = q
               /\ p \/ q => h' = h
               /\ tokens' = [tokens EXCEPT ![h] = @ + n]
<1>1. h \in Hosts /\ h' \in Hosts
  BY FetcherAssumption DEF TypeOK, HostFor, Requests
<1>2. tokens \in [Hosts -> Int] /\ PerHost \in Int
  BY LimiterAssumption DEF TypeOK, LimiterTypeOK
<1>3. \A y \in Workers \ {w} : pc'[y] = pc[y] /\ HostFor(y)' = HostFor(y)
  BY HostStays DEF HostFor
<1>4. pc[w] \notin {"idle", "record"} => h' = h
  BY HostStays
<1>5. ASSUME NEW p \in BOOLEAN, NEW q \in BOOLEAN, Move(p, q, One(p) - One(q))
      PROVE SlotsConserved'
  <2> SUFFICES ASSUME NEW g \in Hosts
               PROVE tokens'[g] + Cardinality(Holders(g)') = PerHost
    BY DEF SlotsConserved
  <2>1. Holders(g) \ {w} = Holders(g)' \ {w}
    BY <1>3 DEF Holds
  <2>2. (w \in Holders(g)) = (g = h /\ p) /\ (w \in Holders(g)') = (g = h /\ q)
    BY <1>5 DEF Holds, Holding
  <2>3. tokens[g] + Cardinality(Holders(g)) = PerHost
    BY DEF SlotsConserved
  <2>4. /\ Cardinality(Holders(g)) \in Nat
        /\ Cardinality(Holders(g)') =
              Cardinality(Holders(g)) + One(w \in Holders(g)') - One(w \in Holders(g))
    BY <2>1, WorkerCounts
  <2>5. tokens'[g] = tokens[g] + One(g = h /\ p) - One(g = h /\ q)
    BY <1>1, <1>2, <1>5 DEF One
  <2> HIDE DEF h, Holders
  <2> QED
    BY <1>2, <2>2, <2>3, <2>4, <2>5 DEF One
<1> HIDE DEF h
<1>6. CASE tokens' = tokens /\ (pc[w] \in Holding) = (pc'[w] \in Holding)
  <2> DEFINE p == pc[w] \in Holding
  <2>1. Move(p, p, One(p) - One(p))
    BY <1>1, <1>2, <1>4, <1>6 DEF Holding, One
  <2>2. p \in BOOLEAN
    OBVIOUS
  <2> QED
    BY <1>5, <2>1, <2>2
<1>7. CASE pc[w] = "sem" /\ pc'[w] = "lock" /\ tokens' = [tokens EXCEPT ![h] = @ - 1]
  <2>1. tokens[h] - 1 = tokens[h] + (One(FALSE) - One(TRUE))
    BY <1>1, <1>2 DEF One
  <2>2. tokens' = [tokens EXCEPT ![h] = @ + (One(FALSE) - One(TRUE))]
    BY <1>7, <2>1
  <2>3. (pc[w] \in Holding) = FALSE /\ (pc'[w] \in Holding) = TRUE /\ h' = h
    BY <1>4, <1>7 DEF Holding
  <2>4. Move(FALSE, TRUE, One(FALSE) - One(TRUE))
    BY <2>2, <2>3
  <2> QED
    BY <1>5, <2>4
<1>8. CASE /\ pc[w] \in Holding /\ pc'[w] \in {"exited", "record"}
           /\ tokens' = [tokens EXCEPT ![h] = @ + 1]
  <2>1. Move(TRUE, FALSE, One(TRUE) - One(FALSE))
    BY <1>1, <1>2, <1>4, <1>8 DEF Holding, One
  <2> QED
    BY <1>5, <2>1
<1> USE DEF Goto, crawlVars, limiterVars, TypeOK, Places, Holding
<1>9. CASE \E u \in Frontier : Take(w, u)
  BY <1>9, <1>6 DEF Take
<1>10. CASE Onboarded(w)
  BY <1>10, <1>6 DEF Onboarded, SetCrawlDelay
<1>11. CASE AcquireSlot(w)
  BY <1>11, <1>7 DEF AcquireSlot, TakeSlot, h
<1>12. CASE AcquireGranted(w)
  BY <1>12, <1>6 DEF AcquireGranted, GrantNow, DropExpired
<1>13. CASE AcquireDelayed(w)
  BY <1>13, <1>6 DEF AcquireDelayed, StartWait, DropExpired
<1>14. CASE AcquireWaited(w)
  BY <1>14, <1>6 DEF AcquireWaited, EndWait
<1>15. CASE AcquireCancelled(w)
  BY <1>15, <1>6, <1>8 DEF AcquireCancelled, AbandonWait, PutSlot, h
<1>16. CASE \E u \in URLs : FetchRedirect(w, u)
  BY <1>16, <1>6 DEF FetchRedirect
<1>17. CASE FetchEnds(w)
  BY <1>17, <1>6 DEF FetchEnds
<1>18. CASE \E d \in RetryAfter : FetchTooMany(w, d)
  BY <1>18, <1>6 DEF FetchTooMany
<1>19. CASE Throttle(w)
  BY <1>19, <1>6 DEF Throttle, ThrottleHost
<1>20. CASE Retry(w)
  BY <1>20, <1>6 DEF Retry
<1>21. CASE RetryCancelled(w)
  BY <1>21, <1>6 DEF RetryCancelled
<1>22. CASE ReleaseSlot(w)
  BY <1>22, <1>8 DEF ReleaseSlot, Release, PutSlot, h
<1>23. CASE Record(w)
  BY <1>23, <1>6 DEF Record, RecordTTFB
<1>24. CASE Exit(w)
  BY <1>24, <1>6 DEF Exit
<1>25. CASE Panic(w)
  BY <1>25, <1>6 DEF Panic
<1> QED
  BY <1>9, <1>10, <1>11, <1>12, <1>13, <1>14, <1>15, <1>16, <1>17, <1>18, <1>19, <1>20, <1>21, <1>22, <1>23, <1>24, <1>25 DEF WorkerStep

\* Only workers move slots; the next crawl starts when no worker will release one.
LEMMA EnvironmentSlots ==
    ASSUME TypeOK, SlotsConserved,
           Cancel \/ Close \/ NextCrawl \/ (\E t \in timers : Timer(t)) \/ Tick
    PROVE  SlotsConserved'
<1>1. CASE NextCrawl
  <2> SUFFICES ASSUME NEW h \in Hosts
               PROVE tokens'[h] + Cardinality({w \in Workers : Holds(w, h)'}) = PerHost
    BY DEF SlotsConserved
  <2>1. tokens'[h] = PerHost /\ {w \in Workers : Holds(w, h)'} = {}
    BY <1>1 DEF NextCrawl, Reset, Holds
  <2> QED
    BY <2>1, FS_EmptySet, LimiterAssumption
<1>2. CASE Cancel \/ Close \/ (\E t \in timers : Timer(t)) \/ Tick
  <2>1. UNCHANGED <<tokens, pc, req>>
    BY <1>2 DEF Cancel, Close, Timer, TimerFires, Tick, LimiterTick, limiterVars
  <2> QED
    BY <2>1 DEF SlotsConserved, Holds, HostFor
<1> QED
  BY <1>1, <1>2

-----------------------------------------------------------------------------
(* Throttles.                                                               *)

\* A worker only lengthens a throttle, and drops one only after its end.
LEMMA WorkerPromises ==
    ASSUME TypeOK, PromiseInv, NEW w \in Workers, WorkerStep(w) \/ Panic(w)
    PROVE  PromiseInv'
<1> DEFINE h == HostFor(w)
<1>1. h \in Hosts
  BY FetcherAssumption DEF TypeOK, HostFor, Requests
<1>2. /\ thr \in [Hosts -> Nat] /\ until \in [Hosts -> Nat]
      /\ promises \subseteq [host : Hosts, delay : Nat, left : Nat]
      /\ req[w].due \in Nat /\ wait[w] \in Nat
  BY LimiterAssumption DEF TypeOK, LimiterTypeOK, Durations, Requests
<1> HIDE DEF h
<1>3. CASE UNCHANGED <<thr, until, promises>>
  BY <1>3 DEF PromiseInv
<1>4. CASE DropExpired(h) /\ UNCHANGED <<until, promises>>
  BY <1>1, <1>2, <1>4 DEF DropExpired, PromiseInv
<1>5. CASE ThrottleHost(h, req[w].due, wait[w])
  <2> DEFINE dur == req[w].due
             left == wait[w]
  <2>1. dur \in Nat /\ left \in Nat
    BY <1>2
  <2>2. /\ thr'[h] >= dur /\ until'[h] >= left
        /\ \A g \in Hosts : thr'[g] >= thr[g] /\ until'[g] >= until[g]
        /\ thr' \in [Hosts -> Nat] /\ until' \in [Hosts -> Nat]
    BY <1>1, <1>2, <1>5 DEF ThrottleHost, Longer
  <2> HIDE DEF dur, left
  <2>3. \A p \in promises' :
           \/ p \in promises
           \/ p = [host |-> h, delay |-> dur, left |-> left] /\ left > 0
    <3>1. promises' = promises \cup
             {p \in {[host |-> h, delay |-> dur, left |-> left]} : left > 0}
      BY <1>5 DEF ThrottleHost, dur, left
    <3> QED
      BY <3>1
  <2> SUFFICES ASSUME NEW p \in promises'
               PROVE p.left >= 1 /\ p.left <= until'[p.host] /\ p.delay <= thr'[p.host]
    BY DEF PromiseInv
  <2>4. CASE p \in promises
    <3>1. p.host \in Hosts /\ p.left \in Nat /\ p.delay \in Nat
      BY <1>2, <2>4
    <3>2. p.left >= 1 /\ p.left <= until[p.host] /\ p.delay <= thr[p.host]
      BY <2>4 DEF PromiseInv
    <3> QED
      BY <1>2, <2>2, <3>1, <3>2
  <2>5. CASE p = [host |-> h, delay |-> dur, left |-> left] /\ left > 0
    BY <1>1, <2>1, <2>2, <2>5
  <2> QED
    BY <2>3, <2>4, <2>5
<1> USE DEF crawlVars, limiterVars
<1>6. CASE \E u \in Frontier : Take(w, u)
  BY <1>6, <1>3 DEF Take
<1>7. CASE Onboarded(w)
  BY <1>7, <1>3 DEF Onboarded, SetCrawlDelay
<1>8. CASE AcquireSlot(w)
  BY <1>8, <1>3 DEF AcquireSlot, TakeSlot
<1>9. CASE AcquireGranted(w)
  BY <1>9, <1>4 DEF AcquireGranted, GrantNow, h
<1>10. CASE AcquireDelayed(w)
  BY <1>10, <1>4 DEF AcquireDelayed, StartWait, h
<1>11. CASE AcquireWaited(w)
  BY <1>11, <1>3 DEF AcquireWaited, EndWait
<1>12. CASE AcquireCancelled(w)
  BY <1>12, <1>3 DEF AcquireCancelled, AbandonWait, PutSlot
<1>13. CASE \E u \in URLs : FetchRedirect(w, u)
  BY <1>13, <1>3 DEF FetchRedirect
<1>14. CASE FetchEnds(w)
  BY <1>14, <1>3 DEF FetchEnds
<1>15. CASE \E d \in RetryAfter : FetchTooMany(w, d)
  BY <1>15, <1>3 DEF FetchTooMany
<1>16. CASE Throttle(w)
  BY <1>16, <1>5 DEF Throttle, h
<1>17. CASE Retry(w)
  BY <1>17, <1>3 DEF Retry
<1>18. CASE RetryCancelled(w)
  BY <1>18, <1>3 DEF RetryCancelled
<1>19. CASE ReleaseSlot(w)
  BY <1>19, <1>3 DEF ReleaseSlot, Release, PutSlot
<1>20. CASE Record(w)
  BY <1>20, <1>3 DEF Record, RecordTTFB
<1>21. CASE Exit(w)
  BY <1>21, <1>3 DEF Exit
<1>22. CASE Panic(w)
  BY <1>22, <1>3 DEF Panic
<1> QED
  BY <1>6, <1>7, <1>8, <1>9, <1>10, <1>11, <1>12, <1>13, <1>14, <1>15, <1>16, <1>17, <1>18, <1>19, <1>20, <1>21, <1>22 DEF WorkerStep

\* A timer lifts only a throttle whose end has passed, and time takes as much from a
\* promise as from the throttle.
LEMMA EnvironmentPromises ==
    ASSUME TypeOK, PromiseInv,
           Cancel \/ Close \/ NextCrawl \/ (\E t \in timers : Timer(t)) \/ Tick
    PROVE  PromiseInv'
<1>1. /\ thr \in [Hosts -> Nat] /\ until \in [Hosts -> Nat]
      /\ promises \subseteq [host : Hosts, delay : Nat, left : Nat]
  BY LimiterAssumption DEF TypeOK, LimiterTypeOK, Durations
<1>2. CASE Cancel \/ Close
  BY <1>2 DEF Cancel, Close, limiterVars, PromiseInv
<1>3. CASE NextCrawl
  BY <1>3 DEF NextCrawl, Reset, PromiseInv
<1>4. CASE \E t \in timers : Timer(t)
  <2> PICK t \in timers : TimerFires(t)
    BY <1>4 DEF Timer
  <2>1. t.host \in Hosts
    BY DEF TypeOK, LimiterTypeOK
  <2>2. \/ thr' = thr
        \/ until[t.host] = 0 /\ thr' = [thr EXCEPT ![t.host] = 0]
    BY DEF TimerFires
  <2>3. UNCHANGED <<until, promises>>
    BY DEF TimerFires
  <2> QED
    BY <1>1, <2>1, <2>2, <2>3 DEF PromiseInv
<1>5. CASE Tick
  <2> SUFFICES ASSUME NEW q \in promises, q.left > 1
               PROVE LET p == [q EXCEPT !.left = @ - 1] IN
                     p.left >= 1 /\ p.left <= until'[p.host] /\ p.delay <= thr'[p.host]
    BY <1>5 DEF Tick, LimiterTick, PromiseInv
  <2>1. q \in [host : Hosts, delay : Nat, left : Nat]
    BY <1>1
  <2>2. q.left <= until[q.host] /\ q.delay <= thr[q.host]
    BY DEF PromiseInv
  <2>3. until'[q.host] = Less(until[q.host]) /\ thr' = thr
    BY <1>5, <2>1 DEF Tick, LimiterTick
  <2> QED
    BY <1>1, <2>1, <2>2, <2>3 DEF Less
<1> QED
  BY <1>2, <1>3, <1>4, <1>5

-----------------------------------------------------------------------------
(* The redirect walk.                                                       *)

\* The walk of a new request is empty.
LEMMA RequestWalk == \A u \in URLs : Walk(Request(u))
<1> SUFFICES ASSUME NEW u \in URLs PROVE Walk(Request(u))
  OBVIOUS
<1>1. IsFiniteSet({u}) /\ Cardinality({u}) = 1
  BY FS_Singleton
<1> QED
  BY <1>1, FetcherAssumption DEF Walk, Request, Reached

\* One redirect makes the walk a step longer; a loop or the last hop allowed ends it.
LEMMA RedirectWalk ==
    ASSUME NEW r \in Requests, NEW to \in URLs, Walk(r), r.end = "none"
    PROVE  Walk(Redirected(r, to))
<1> DEFINE n == Len(r.hops)
           s == Redirected(r, to)
           hop == <<r.at, to>>
<1>1. /\ r.hops \in Seq(URLs \X URLs) /\ n \in Nat /\ DOMAIN r.hops = 1..n
      /\ r.at \in URLs /\ r.url \in URLs
  BY DEF Requests
<1>2. /\ s.url = r.url /\ s.hops = Append(r.hops, hop) /\ s.seen = r.seen \cup {to}
      /\ s.end = RedirectEnd(r, to)
      /\ s.at = IF s.end = "none" THEN to ELSE r.at
  BY DEF Redirected, Requests
<1>3. /\ DOMAIN s.hops = 1..(n + 1) /\ Len(s.hops) = n + 1
      /\ s.hops[n + 1] = hop
      /\ \A i \in 1..n : s.hops[i] = r.hops[i]
  BY <1>1, <1>2
<1>4. hop[1] = r.at /\ hop[2] = to
  OBVIOUS
<1>5. n < MaxHops /\ MaxHops \in Nat
  BY FetcherAssumption DEF Walk
<1>6. r.at = IF n = 0 THEN r.url ELSE r.hops[n][2]
  BY <1>1 DEF Walk, Reached
<1>7. IsFiniteSet(s.seen)
  BY <1>2, FS_AddElement DEF Walk
<1>8. \A i \in DOMAIN s.hops : s.hops[i][1] = IF i = 1 THEN s.url ELSE s.hops[i - 1][2]
  <2> SUFFICES ASSUME NEW i \in 1..(n + 1)
               PROVE s.hops[i][1] = IF i = 1 THEN s.url ELSE s.hops[i - 1][2]
    BY <1>3
  <2>1. CASE i = n + 1
    BY <1>1, <1>2, <1>3, <1>4, <1>6, <2>1
  <2>2. CASE i \in 1..n
    <3>1. r.hops[i][1] = IF i = 1 THEN r.url ELSE r.hops[i - 1][2]
      BY <1>1, <2>2 DEF Walk
    <3>2. s.hops[i] = r.hops[i] /\ (i # 1 => s.hops[i - 1] = r.hops[i - 1])
      BY <1>1, <1>3, <2>2
    <3> QED
      BY <1>2, <3>1, <3>2
  <2> QED
    BY <1>1, <2>1, <2>2
<1>9. s.seen = {s.url} \cup {s.hops[i][2] : i \in DOMAIN s.hops}
  <2>1. r.seen = {r.url} \cup {r.hops[i][2] : i \in 1..n}
    BY <1>1 DEF Walk
  <2>2. {s.hops[i][2] : i \in 1..(n + 1)} = {r.hops[i][2] : i \in 1..n} \cup {to}
    <3>1. ASSUME NEW i \in 1..(n + 1) PROVE s.hops[i][2] \in {r.hops[k][2] : k \in 1..n} \cup {to}
      <4>1. i = n + 1 \/ i \in 1..n
        BY <1>1
      <4> QED
        BY <1>3, <1>4, <4>1
    <3>2. ASSUME NEW i \in 1..n PROVE r.hops[i][2] \in {s.hops[k][2] : k \in 1..(n + 1)}
      <4>1. i \in 1..(n + 1)
        BY <1>1
      <4> QED
        BY <1>3, <4>1
    <3>3. to \in {s.hops[k][2] : k \in 1..(n + 1)}
      <4>1. n + 1 \in 1..(n + 1)
        BY <1>1
      <4> QED
        BY <1>3, <1>4, <4>1
    <3> HIDE DEF s, n, hop
    <3> QED
      BY <3>1, <3>2, <3>3
  <2> HIDE DEF s
  <2> QED
    BY <1>2, <1>3, <2>1, <2>2
<1>10. s.end # "loop" => Cardinality(s.seen) = Len(s.hops) + 1
  <2> SUFFICES ASSUME s.end # "loop" PROVE Cardinality(s.seen) = n + 2
    BY <1>1, <1>3
  <2>1. to \notin r.seen
    BY <1>2 DEF RedirectEnd
  <2>2. Cardinality(r.seen) = n + 1 /\ IsFiniteSet(r.seen)
    BY <1>2 DEF Walk
  <2>3. Cardinality(r.seen \cup {to}) = Cardinality(r.seen) + 1
    BY <2>1, <2>2, FS_AddElement
  <2>4. Cardinality(s.seen) = Cardinality(r.seen) + 1
    BY <1>2, <2>3
  <2> QED
    BY <1>1, <2>2, <2>4
<1>11. Len(s.hops) <= MaxHops /\ (s.end = "none" => Len(s.hops) < MaxHops)
  BY <1>1, <1>2, <1>3, <1>5 DEF RedirectEnd
<1>12. s.end \in {"none", "page"} => s.at = Reached(s)
  <2>1. s.end # "page"
    BY <1>2 DEF RedirectEnd
  <2>2. s.hops # <<>> /\ s.hops[Len(s.hops)][2] = to
    BY <1>1, <1>3, <1>4
  <2> HIDE DEF s
  <2> QED
    BY <1>2, <2>1, <2>2 DEF Reached
<1> HIDE DEF s, n
<1> QED
  BY <1>3, <1>7, <1>8, <1>9, <1>10, <1>11, <1>12 DEF Walk, s

\* A worker lengthens its walk by redirects alone, and a retry is no longer a first attempt.
LEMMA WorkerWalk ==
    ASSUME TypeOK, AttemptInv, WalkInv, NEW w \in Workers, WorkerStep(w) \/ Panic(w)
    PROVE  WalkInv'
<1>1. req \in [Workers -> Requests] /\ req' \in [Workers -> Requests]
  BY WorkerTypes DEF TypeOK
<1>2. \A y \in Workers \ {w} : req'[y] = req[y]
  BY HostStays
<1>3. SUFFICES ASSUME req'[w].attempt = 1 PROVE Walk(req'[w])
  BY <1>2 DEF WalkInv
<1>4. CASE req'[w] = req[w]
  BY <1>3, <1>4 DEF WalkInv
<1>5. ASSUME NEW u \in Frontier, req' = [req EXCEPT ![w] = Request(u)] PROVE Walk(req'[w])
  BY <1>1, <1>5, RequestWalk, FetcherAssumption
<1>6. ASSUME NEW e \in {"page", "429", "error"}, req' = [req EXCEPT ![w].end = e],
             req[w].end = "none"
      PROVE  Walk(req'[w])
  <2>1. /\ req'[w].attempt = req[w].attempt /\ req'[w].url = req[w].url
        /\ req'[w].at = req[w].at /\ req'[w].hops = req[w].hops
        /\ req'[w].seen = req[w].seen /\ req'[w].end = e
    BY <1>1, <1>6 DEF Requests
  <2>2. Walk(req[w])
    BY <1>3, <2>1 DEF WalkInv
  <2>3. req[w].end = "none" /\ e # "none" /\ e # "loop"
    BY <1>6
  <2>4. Reached(req'[w]) = Reached(req[w])
    BY <2>1 DEF Reached
  <2>5. \A i \in DOMAIN req'[w].hops :
           req'[w].hops[i][1] = IF i = 1 THEN req'[w].url ELSE req'[w].hops[i - 1][2]
    BY <2>1, <2>2 DEF Walk
  <2>6. req'[w].seen = {req'[w].url} \cup {req'[w].hops[i][2] : i \in DOMAIN req'[w].hops}
    BY <2>1, <2>2 DEF Walk
  <2> QED
    BY <2>1, <2>2, <2>3, <2>4, <2>5, <2>6 DEF Walk
<1> USE DEF AttemptInv, Unended, Places
<1>7. CASE \E u \in Frontier : Take(w, u)
  BY <1>7, <1>5 DEF Take
<1>8. CASE Onboarded(w)
  BY <1>8, <1>4 DEF Onboarded, crawlVars
<1>9. CASE AcquireSlot(w)
  BY <1>9, <1>4 DEF AcquireSlot, crawlVars
<1>10. CASE AcquireGranted(w)
  BY <1>10, <1>4 DEF AcquireGranted, crawlVars
<1>11. CASE AcquireDelayed(w)
  BY <1>11, <1>4 DEF AcquireDelayed, crawlVars
<1>12. CASE AcquireWaited(w)
  BY <1>12, <1>4 DEF AcquireWaited, crawlVars
<1>13. CASE AcquireCancelled(w)
  BY <1>13, <1>4 DEF AcquireCancelled, crawlVars
<1>14. CASE \E u \in URLs : FetchRedirect(w, u)
  <2> PICK to \in URLs : FetchRedirect(w, to)
    BY <1>14
  <2>1. req' = [req EXCEPT ![w] = Redirected(req[w], to)] /\ req[w].end = "none"
    BY DEF FetchRedirect
  <2>2. req'[w] = Redirected(req[w], to) /\ req[w] \in Requests
    BY <1>1, <2>1
  <2>3. Redirected(req[w], to).attempt = req[w].attempt
    BY <2>2 DEF Redirected, Requests
  <2> QED
    BY <1>3, <2>1, <2>2, <2>3, RedirectWalk DEF WalkInv
<1>15. CASE FetchEnds(w)
  BY <1>15, <1>6 DEF FetchEnds
<1>16. CASE \E d \in RetryAfter : FetchTooMany(w, d)
  <2>1. /\ req'[w].attempt = req[w].attempt /\ req'[w].url = req[w].url
        /\ req'[w].at = req[w].at /\ req'[w].hops = req[w].hops
        /\ req'[w].seen = req[w].seen /\ req'[w].end = req[w].end
    BY <1>1, <1>16 DEF FetchTooMany, Requests
  <2>2. Walk(req[w])
    BY <1>3, <2>1 DEF WalkInv
  <2> QED
    BY <2>1, <2>2 DEF Walk, Reached
<1>17. CASE Throttle(w)
  BY <1>17, <1>4 DEF Throttle, crawlVars
<1>18. CASE Retry(w)
  <2>1. req[w].attempt = 1 /\ req'[w].attempt = req[w].attempt + 1
    BY <1>1, <1>18 DEF Retry, Requests
  <2> QED
    BY <1>3, <2>1
<1>19. CASE RetryCancelled(w)
  BY <1>19, <1>6 DEF RetryCancelled
<1>20. CASE ReleaseSlot(w)
  BY <1>20, <1>4 DEF ReleaseSlot, crawlVars
<1>21. CASE Record(w)
  <2>1. (CHOOSE u \in Frontier : TRUE) \in Frontier
    BY FetcherAssumption
  <2> QED
    BY <1>21, <1>5, <2>1 DEF Record, NoRequest
<1>22. CASE Exit(w)
  BY <1>22, <1>4 DEF Exit, crawlVars
<1>23. CASE Panic(w)
  BY <1>23, <1>4 DEF Panic, crawlVars
<1> QED
  BY <1>7, <1>8, <1>9, <1>10, <1>11, <1>12, <1>13, <1>14, <1>15, <1>16, <1>17, <1>18, <1>19, <1>20, <1>21, <1>22, <1>23 DEF WorkerStep

\* The next crawl starts with empty walks; nothing else outside the workers has a part
\* in them.
LEMMA EnvironmentWalk ==
    ASSUME WalkInv,
           Cancel \/ Close \/ NextCrawl \/ (\E t \in timers : Timer(t)) \/ Tick
    PROVE  WalkInv'
<1>1. CASE NextCrawl
  <2>1. (CHOOSE u \in Frontier : TRUE) \in URLs
    BY FetcherAssumption
  <2>2. Walk(NoRequest)
    BY <2>1, RequestWalk DEF NoRequest
  <2>3. req' = [w \in Workers |-> NoRequest]
    BY <1>1 DEF NextCrawl
  <2> HIDE DEF NoRequest
  <2> QED
    BY <2>2, <2>3 DEF WalkInv
<1>2. CASE Cancel \/ Close \/ (\E t \in timers : Timer(t)) \/ Tick
  BY <1>2 DEF Cancel, Close, Timer, Tick, crawlVars, WalkInv
<1> QED
  BY <1>1, <1>2

-----------------------------------------------------------------------------
(* The theorems.                                                            *)

IInv == TypeOK /\ AttemptInv /\ MutexInv /\ SleepInv /\ SlotsConserved /\ PromiseInv /\ WalkInv

\* At first every slot is free, no mutex is held and no throttle was asked for.
LEMMA InitHolds == Init => IInv
<1> SUFFICES ASSUME Init PROVE IInv
  OBVIOUS
<1>1. TypeOK /\ AttemptInv
  <2>1. LimiterTypeOK
    BY Constants, LimiterAssumption DEF Init, LimiterInit, LimiterTypeOK
  <2>2. /\ pc \in [Workers -> Places] /\ req \in [Workers -> Requests]
        /\ wait \in [Workers -> Durations]
        /\ onboarded \subseteq Hosts /\ cancelled \in BOOLEAN /\ closing \in BOOLEAN
    BY Constants DEF Init, Places
  <2>3. AttemptInv
    BY Constants DEF Init, AttemptInv
  <2> QED
    BY <2>1, <2>2, <2>3 DEF TypeOK
<1>2. MutexInv /\ SleepInv /\ PromiseInv
  BY LimiterAssumption DEF Init, LimiterInit, MutexInv, SleepInv, PromiseInv
<1>3. SlotsConserved
  <2> SUFFICES ASSUME NEW h \in Hosts
               PROVE tokens[h] + Cardinality({w \in Workers : Holds(w, h)}) = PerHost
    BY DEF SlotsConserved
  <2>1. tokens[h] = PerHost /\ {w \in Workers : Holds(w, h)} = {}
    BY DEF Init, LimiterInit, Holds
  <2> QED
    BY <2>1, FS_EmptySet, LimiterAssumption
<1>4. WalkInv
  <2>1. (CHOOSE u \in Frontier : TRUE) \in URLs
    BY FetcherAssumption
  <2>2. Walk(NoRequest)
    BY <2>1, RequestWalk DEF NoRequest
  <2> HIDE DEF NoRequest
  <2> QED
    BY <2>2 DEF Init, WalkInv
<1> QED
  BY <1>1, <1>2, <1>3, <1>4 DEF IInv

\* Every step keeps the whole invariant.
LEMMA StepKeeps == IInv /\ [Next]_vars => IInv'
<1> SUFFICES ASSUME IInv, [Next]_vars PROVE IInv'
  OBVIOUS
<1> USE DEF IInv
<1>1. CASE UNCHANGED vars
  <2>1. TypeOK' /\ AttemptInv'
    BY <1>1 DEF vars, limiterVars, TypeOK, LimiterTypeOK, AttemptInv
  <2>2. MutexInv' /\ SleepInv' /\ PromiseInv' /\ WalkInv'
    BY <1>1 DEF vars, limiterVars, MutexInv, SleepInv, PromiseInv, WalkInv, HostFor
  <2>3. SlotsConserved'
    BY <1>1 DEF vars, limiterVars, SlotsConserved, Holds, HostFor
  <2> QED
    BY <2>1, <2>2, <2>3
<1>2. CASE \E w \in Workers : WorkerStep(w) \/ Panic(w)
  BY <1>2, WorkerTypes, WorkerMutex, WorkerSlots, WorkerPromises, WorkerWalk
<1>3. CASE Cancel \/ Close \/ NextCrawl \/ (\E t \in timers : Timer(t)) \/ Tick
  BY <1>3, EnvironmentTypes, EnvironmentMutex, EnvironmentSlots, EnvironmentPromises,
     EnvironmentWalk
<1> QED
  BY <1>1, <1>2, <1>3 DEF Next

\* In every reachable state the variables have their types, the mutex of a host is with
\* the worker that sleeps under it, its slots add up, its throttles cover what was
\* asked for and redirect walks are paths.
THEOREM FetcherInvariant == Spec => []IInv
BY InitHolds, StepKeeps, PTL DEF Spec

\* The type invariant.
THEOREM TypesCorrect == Spec => []TypeOK
<1>1. IInv => TypeOK
  BY DEF IInv
<1> QED
  BY <1>1, FetcherInvariant, PTL

\* No path out of Acquire and Fetch loses a slot of a host or returns one twice.
THEOREM SlotsNeverLeak == Spec => []SlotsConserved
<1>1. IInv => SlotsConserved
  BY DEF IInv
<1> QED
  BY <1>1, FetcherInvariant, PTL

\* No overlap of throttles and of the timers that lift them ends a throttle early or
\* shortens its delay.
THEOREM ThrottlesKept == Spec => []ThrottleKept
<1>1. IInv => ThrottleKept
  <2> SUFFICES ASSUME IInv, NEW p \in promises PROVE EffectiveDelay(p.host) >= p.delay
    BY DEF ThrottleKept
  <2>1. p.host \in Hosts /\ p.delay \in Nat /\ p.left \in Nat
    BY LimiterAssumption DEF IInv, TypeOK, LimiterTypeOK, Durations
  <2>2. thr[p.host] \in Nat /\ base[p.host] \in Nat /\ until[p.host] \in Nat
    BY <2>1, LimiterAssumption DEF IInv, TypeOK, LimiterTypeOK, Durations
  <2>3. p.left >= 1 /\ p.left <= until[p.host] /\ p.delay <= thr[p.host]
    BY DEF IInv, PromiseInv
  <2> QED
    BY <2>1, <2>2, <2>3 DEF EffectiveDelay, Longer
<1> QED
  BY <1>1, FetcherInvariant, PTL

\* The redirect chain recorded for a first attempt is a simple path within MaxHops.
THEOREM ChainsArePaths == Spec => []ChainIsPath
<1>1. IInv => ChainIsPath
  <2> SUFFICES ASSUME IInv, NEW w \in Workers,
                      req[w].attempt = 1, req[w].end \in {"page", "exceeded"}
               PROVE  LET r == req[w] IN
                      /\ r.seen = {r.url} \cup {r.hops[i][2] : i \in DOMAIN r.hops}
                      /\ Cardinality(r.seen) = Len(r.hops) + 1
                      /\ \A i \in DOMAIN r.hops :
                            r.hops[i][1] = IF i = 1 THEN r.url ELSE r.hops[i - 1][2]
                      /\ Len(r.hops) <= MaxHops
                      /\ r.end = "page" => r.at = Reached(r)
    BY DEF ChainIsPath, Reached
  <2> QED
    BY DEF IInv, WalkInv, Walk
<1> QED
  BY <1>1, FetcherInvariant, PTL

\* No request passes the limiter before the host's crawl delay has passed since the one
\* before it, whatever other workers do to the host between a worker's look at the
\* delay and the end of its sleep.
THEOREM DelaysRespected == Spec => DelayRespected
<1>1. IInv /\ [Next]_vars =>
        [\A w \in Workers :
            (pc[w] \in {"lock", "delay"} /\ pc'[w] = "fetch")
               => age[HostFor(w)] >= base'[HostFor(w)]]_vars
  <2> SUFFICES ASSUME IInv, Next, NEW y \in Workers,
                      pc[y] \in {"lock", "delay"}, pc'[y] = "fetch"
               PROVE  age[HostFor(y)] >= base'[HostFor(y)]
    BY DEF vars
  <2> USE DEF IInv
  <2>1. HostFor(y) \in Hosts
    BY FetcherAssumption DEF TypeOK, HostFor, Requests
  <2>2. /\ age[HostFor(y)] \in Nat /\ base[HostFor(y)] \in Nat /\ thr[HostFor(y)] \in Nat
        /\ wait[y] \in Nat
    BY <2>1, LimiterAssumption DEF TypeOK, LimiterTypeOK, Durations
  <2>3. WorkerStep(y)
    <3>1. ASSUME NEW w \in Workers, WorkerStep(w) \/ Panic(w) PROVE w = y /\ ~Panic(w)
      BY <3>1, HostStays DEF Panic, Goto, TypeOK
    <3>2. ~(Cancel \/ Close \/ NextCrawl \/ (\E t \in timers : Timer(t)) \/ Tick)
      BY DEF Cancel, Close, NextCrawl, Timer, Tick, crawlVars
    <3> QED
      BY <3>1, <3>2 DEF Next
  <2>4. AcquireGranted(y) \/ AcquireWaited(y)
    BY <2>3 DEF WorkerStep, Take, Onboarded, AcquireSlot, AcquireDelayed, AcquireCancelled,
         FetchRedirect, FetchEnds, FetchTooMany, Throttle, Retry, RetryCancelled,
         ReleaseSlot, Record, Exit, Goto, TypeOK
  <2>5. CASE AcquireGranted(y)
    BY <2>1, <2>2, <2>5 DEF AcquireGranted, GrantNow, MustWait, EffectiveDelay, Longer
  <2>6. CASE AcquireWaited(y)
    <3>1. age[HostFor(y)] + wait[y] >= base[HostFor(y)] /\ wait[y] = 0 /\ base' = base
      BY <2>6 DEF AcquireWaited, EndWait, SleepInv
    <3> QED
      BY <2>2, <3>1
  <2> QED
    BY <2>4, <2>5, <2>6
<1> QED
  BY <1>1, FetcherInvariant, PTL DEF Spec, DelayRespected
=============================================================================

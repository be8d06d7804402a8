----------------------------- MODULE RateLimiter -----------------------------
(***************************************************************************)
(* The per-host rate limiter of internal/fetcher/ratelimit.go: a semaphore   *)
(* per host, the robots crawl delay, and temporary throttles lifted by       *)
(* timers.  The module declares the limiter's state and one operator per     *)
(* method; Fetcher composes them with the workers that call them.            *)
(*                                                                         *)
(* Time is relative: every duration is what is left of it, or how long ago   *)
(* it was, cut off at MaxDelay, so that behaviours need no clock bound.      *)
(***************************************************************************)
EXTENDS Integers, FiniteSets

CONSTANTS
    Workers,     \* goroutines of the fetcher pool
    NoWorker,    \* nobody holds the mutex
    Hosts,
    PerHost,     \* requests to one host at a time
    MaxDelay     \* the longest crawl delay or throttle of an instance

ASSUME LimiterAssumption ==
    /\ IsFiniteSet(Workers)
    /\ NoWorker \notin Workers
    /\ PerHost \in Nat \ {0}
    /\ MaxDelay \in Nat \ {0}

VARIABLES
    tokens,      \* tokens[h]: free slots in the semaphore channel of h
    mu,          \* mu[h]: the worker that holds h's mutex across a wait
    base,        \* base[h]: baseDelay
    thr,         \* thr[h]: throttleDelay
    until,       \* until[h]: what is left until throttleUntil, 0 once it passed
    age,         \* age[h]: time since lastFetch, MaxDelay when long ago or never
    timers,      \* pending time.AfterFunc callbacks
    promises     \* throttles asked for and not yet over (history)

limiterVars == <<tokens, mu, base, thr, until, age, timers, promises>>

Durations == 0..MaxDelay
Less(d) == IF d = 0 THEN 0 ELSE d - 1
More(d) == IF d = MaxDelay THEN d ELSE d + 1
Longer(x, y) == IF x > y THEN x ELSE y

LimiterTypeOK ==
    /\ tokens \in [Hosts -> 0..PerHost]
    /\ mu \in [Hosts -> Workers \cup {NoWorker}]
    /\ base \in [Hosts -> Durations]
    /\ thr \in [Hosts -> Durations]
    /\ until \in [Hosts -> Durations]
    /\ age \in [Hosts -> Durations]
    /\ timers \subseteq [host : Hosts, left : Durations, current : BOOLEAN]
    /\ promises \subseteq [host : Hosts, delay : Durations, left : Durations]

\* Fresh host states, as getState makes them on the first use of a host.
LimiterInit ==
    /\ tokens = [h \in Hosts |-> PerHost]
    /\ mu = [h \in Hosts |-> NoWorker]
    /\ base = [h \in Hosts |-> 0]
    /\ thr = [h \in Hosts |-> 0]
    /\ until = [h \in Hosts |-> 0]
    /\ age = [h \in Hosts |-> MaxDelay]
    /\ timers = {}
    /\ promises = {}

\* Forget every host.  Timers already started keep the state they closed over,
\* which no host uses any more.
Reset ==
    /\ tokens' = [h \in Hosts |-> PerHost]
    /\ mu' = [h \in Hosts |-> NoWorker]
    /\ base' = [h \in Hosts |-> 0]
    /\ thr' = [h \in Hosts |-> 0]
    /\ until' = [h \in Hosts |-> 0]
    /\ age' = [h \in Hosts |-> MaxDelay]
    /\ timers' = {[t EXCEPT !.current = FALSE] : t \in timers}
    /\ promises' = {}

\* The delay in force: a throttle counts until it expires, the robots delay always.
EffectiveDelay(h) ==
    IF until[h] > 0 THEN Longer(thr[h], base[h]) ELSE base[h]

\* AcquireContext, first select: a slot of the host's semaphore.
TakeSlot(h) ==
    /\ tokens[h] > 0
    /\ tokens' = [tokens EXCEPT ![h] = @ - 1]
    /\ UNCHANGED <<mu, base, thr, until, age, timers, promises>>

\* A slot goes back to the channel, which blocks when the channel is full.
PutSlot(h) ==
    /\ tokens[h] < PerHost
    /\ tokens' = [tokens EXCEPT ![h] = @ + 1]

\* Under the mutex an expired throttle is dropped before the delay is read.
DropExpired(h) == thr' = [thr EXCEPT ![h] = IF until[h] > 0 THEN @ ELSE 0]

MustWait(h) == age[h] < EffectiveDelay(h)

\* AcquireContext, second part, when no delay is left to wait for.
GrantNow(h) ==
    /\ mu[h] = NoWorker
    /\ ~MustWait(h)
    /\ DropExpired(h)
    /\ age' = [age EXCEPT ![h] = 0]
    /\ UNCHANGED <<tokens, mu, base, until, timers, promises>>

\* A sleep that lets go of the mutex.
StartWaitUnlocked(h, w) ==
    /\ mu[h] = NoWorker
    /\ MustWait(h)
    /\ DropExpired(h)
    /\ UNCHANGED <<tokens, mu, base, until, age, timers, promises>>

\* Otherwise the worker sleeps with the mutex held.
StartWait(h, w) ==
    /\ mu[h] = NoWorker
    /\ MustWait(h)
    /\ DropExpired(h)
    /\ mu' = [mu EXCEPT ![h] = w]
    /\ UNCHANGED <<tokens, base, until, age, timers, promises>>

\* The worker's timer fired: lastFetch is now and the mutex is free again.
EndWait(h) ==
    /\ age' = [age EXCEPT ![h] = 0]
    /\ mu' = [mu EXCEPT ![h] = NoWorker]
    /\ UNCHANGED <<tokens, base, thr, until, timers, promises>>

\* A cancelled wait that keeps its slot.
AbandonWaitLeaks(h) ==
    /\ mu' = [mu EXCEPT ![h] = NoWorker]
    /\ UNCHANGED <<tokens, base, thr, until, age, timers, promises>>

\* The worker's context ended first: its slot goes back and nothing was fetched.
AbandonWait(h) ==
    /\ PutSlot(h)
    /\ mu' = [mu EXCEPT ![h] = NoWorker]
    /\ UNCHANGED <<base, thr, until, age, timers, promises>>

Release(h) ==
    /\ PutSlot(h)
    /\ UNCHANGED <<mu, base, thr, until, age, timers, promises>>

SetCrawlDelay(h, d) ==
    /\ mu[h] = NoWorker
    /\ base' = [base EXCEPT ![h] = d]
    /\ UNCHANGED <<tokens, mu, thr, until, age, timers, promises>>

\* ThrottleHost(h, dur), where `left` remains of its expiry time, which was
\* computed before the mutex was taken.  A throttle that neither lengthens the
\* delay nor its end changes nothing; any other one supersedes the pending timers.
ThrottleHost(h, dur, left) ==
    /\ mu[h] = NoWorker
    /\ promises' = promises \cup
          {p \in {[host |-> h, delay |-> dur, left |-> left]} : left > 0}
    /\ IF dur <= thr[h] /\ left <= until[h]
       THEN UNCHANGED <<thr, until, timers>>
       ELSE LET end == Longer(left, until[h]) IN
            /\ thr' = [thr EXCEPT ![h] = Longer(dur, @)]
            /\ until' = [until EXCEPT ![h] = end]
            /\ timers' = {[t EXCEPT !.current = @ /\ t.host # h] : t \in timers}
                           \cup {[host |-> h, left |-> end, current |-> TRUE]}
    /\ UNCHANGED <<tokens, mu, base, age>>

\* The callback without its two conditions: the first timer lifts every throttle.
TimerFiresAnyway(t) ==
    /\ t.left = 0
    /\ t.current => mu[t.host] = NoWorker
    /\ timers' = timers \ {t}
    /\ thr' = [thr EXCEPT ![t.host] = 0]
    /\ until' = [until EXCEPT ![t.host] = 0]
    /\ UNCHANGED <<tokens, mu, base, age, promises>>

\* The AfterFunc callback: it lifts the throttle only when no later throttle has
\* replaced it and the end has really passed.
TimerFires(t) ==
    /\ t.left = 0
    /\ t.current => mu[t.host] = NoWorker
    /\ timers' = timers \ {t}
    /\ IF t.current /\ until[t.host] = 0
       THEN thr' = [thr EXCEPT ![t.host] = 0]
       ELSE UNCHANGED thr
    /\ UNCHANGED <<tokens, mu, base, until, age, promises>>

\* RecordTTFB: only its lock matters here, the samples are data.
RecordTTFB(h) == mu[h] = NoWorker /\ UNCHANGED limiterVars

\* One unit of time passes.
LimiterTick ==
    /\ age' = [h \in Hosts |-> More(age[h])]
    /\ until' = [h \in Hosts |-> Less(until[h])]
    /\ timers' = {[t EXCEPT !.left = Less(@)] : t \in timers}
    /\ promises' = {[p EXCEPT !.left = @ - 1] : p \in {q \in promises : q.left > 1}}
    /\ UNCHANGED <<tokens, mu, base, thr>>
=============================================================================

---------------------------- MODULE JobLifecycle ----------------------------
(***************************************************************************)
(* The life of a crawl job in the HTTP server: POST /api/crawl creates it, *)
(* the queue worker promotes it when a slot is free, one goroutine runs it *)
(* in the engine, DELETE /api/jobs/{id} cancels or tombstones it, and a    *)
(* restart of the process fails what was running.                          *)
(*                                                                         *)
(* Every statement that reads or writes the crawl_jobs row is a step of    *)
(* its own: the handlers, the queue worker and the runs share the row, and *)
(* only POST and the queue worker take crawlMu.                            *)
(***************************************************************************)
EXTENDS Integers, Sequences, FiniteSets

CONSTANTS
    Jobs,            \* the jobs that may be created, each by a POST of its own
    Deleters,        \* the DELETE requests that may be made, of any job
    MaxConcurrent,   \* config.MaxConcurrentCrawls
    PurgeOnDelete,   \* SEO_CRAWLER_PURGE_ON_DELETE
    ResumePurges,    \* SEO_CRAWLER_RESUME_PURGES_ON_STARTUP
    PurgeQueueCap,   \* capacity of purgeWorker.queue
    NoJob,
    MaxRestarts      \* bound: restarts of the process

ASSUME JobsAssumption == IsFiniteSet(Jobs) /\ IsFiniteSet(Deleters) /\ NoJob \notin Jobs
ASSUME ConfigAssumption ==
    /\ MaxConcurrent \in Nat \ {0}
    /\ PurgeOnDelete \in BOOLEAN /\ ResumePurges \in BOOLEAN
    /\ PurgeQueueCap \in Nat \ {0}
    /\ MaxRestarts \in Nat

VARIABLES
    status,       \* crawl_jobs.status; "none": no row yet, "purged": row deleted
    created,      \* the jobs in the order of created_at
    crawlMu,      \* TRUE while a POST or the queue worker holds Server.crawlMu
    postPc, runNow,          \* handleCrawl, one request per job
    workerPc, workerJob,     \* queueWorker
    signal,       \* a token is in Server.queue, a channel of capacity 1
    runPc, runErr,           \* runCrawlJob, one goroutine per job
    running,      \* Server.running: the jobs with a registered cancel function
    ctxCancelled, \* the context of the job's run is cancelled
    delPc, delJob, delSeen,  \* handleJobCancel
    purgePending, \* purgeWorker.queue
    restarts      \* restarts that may still happen

rowVars     == <<status, created>>
postVars    == <<postPc, runNow>>
workerVars  == <<workerPc, workerJob>>
runVars     == <<runPc, runErr>>
ctxVars     == <<running, ctxCancelled>>
deleteVars  == <<delPc, delJob, delSeen>>
vars == <<rowVars, crawlMu, postVars, workerVars, signal, runVars, ctxVars, deleteVars,
          purgePending, restarts>>

-----------------------------------------------------------------------------
Status == {"none", "queued", "running", "cancelling", "cancelled", "completed", "failed",
           "deleting", "purged"}
Ended == {"cancelling", "cancelled", "completed", "failed", "deleting", "purged"}
RunPc == {"none", "spawned", "load", "check", "cancel", "crawl", "report", "panicked", "exit"}

Exists(j) == status[j] \notin {"none", "purged"}
WithStatus(S) == {j \in Jobs : status[j] \in S}

\* Mutant of SetStatus: the row is inserted if it is not there.
SetStatusUpsert(j, s) == status' = [status EXCEPT ![j] = s]

\* UPDATE crawl_jobs SET status = s WHERE id = j: no row, no effect.
SetStatus(j, s) == status' = IF Exists(j) THEN [status EXCEPT ![j] = s] ELSE status

\* UpdateJobStarted is conditional on 'queued'; who wins it spawns the run.
StartJob(j) ==
    IF status[j] = "queued"
    THEN status' = [status EXCEPT ![j] = "running"] /\ runPc' = [runPc EXCEPT ![j] = "spawned"]
    ELSE UNCHANGED <<status, runPc>>

\* Mutant of Active: only running jobs count, as for the queue worker.
ActiveRunningOnly == WithStatus({"running"})

\* CountActiveJobs and CountRunningJobs.
Active == WithStatus({"queued", "running"})
Running == WithStatus({"running"})

\* NextQueuedJob: the oldest one.
IsNextQueued(j) ==
    /\ status[j] = "queued"
    /\ \A m, n \in DOMAIN created : created[n] = j /\ m < n => status[created[m]] # "queued"

Init ==
    /\ status = [j \in Jobs |-> "none"] /\ created = <<>>
    /\ crawlMu = FALSE
    /\ postPc = [j \in Jobs |-> "idle"] /\ runNow = [j \in Jobs |-> FALSE]
    /\ workerPc = "wait" /\ workerJob = NoJob
    /\ signal = TRUE
    /\ runPc = [j \in Jobs |-> "none"] /\ runErr = [j \in Jobs |-> "none"]
    /\ running = {} /\ ctxCancelled = [j \in Jobs |-> FALSE]
    /\ delPc = [d \in Deleters |-> "idle"] /\ delJob = [d \in Deleters |-> NoJob]
    /\ delSeen = [d \in Deleters |-> "none"]
    /\ purgePending = {} /\ restarts = MaxRestarts

-----------------------------------------------------------------------------
(* POST /api/crawl: count, create, perhaps start, all under crawlMu.        *)

OthersOfPost == <<workerVars, signal, runErr, ctxVars, deleteVars, purgePending, restarts>>

\* Mutant of PostCount: no lock is taken.
PostCountUnlocked(j) ==
    /\ status[j] = "none" /\ postPc[j] = "idle"
    /\ postPc' = [postPc EXCEPT ![j] = "create"]
    /\ runNow' = [runNow EXCEPT ![j] = Cardinality(Active) < MaxConcurrent]
    /\ UNCHANGED <<rowVars, crawlMu, runPc, OthersOfPost>>

PostCount(j) ==
    /\ status[j] = "none" /\ postPc[j] = "idle"
    /\ ~crawlMu /\ crawlMu' = TRUE
    /\ postPc' = [postPc EXCEPT ![j] = "create"]
    /\ runNow' = [runNow EXCEPT ![j] = Cardinality(Active) < MaxConcurrent]
    /\ UNCHANGED <<rowVars, runPc, OthersOfPost>>

\* A job that finds no free slot stays queued, and nobody is signalled.
PostCreate(j) ==
    /\ postPc[j] = "create"
    /\ postPc' = [postPc EXCEPT ![j] = IF runNow[j] THEN "start" ELSE "idle"]
    /\ crawlMu' = runNow[j]
    /\ runNow' = [runNow EXCEPT ![j] = FALSE]
    /\ status' = [status EXCEPT ![j] = "queued"]
    /\ created' = Append(created, j)
    /\ UNCHANGED <<runPc, OthersOfPost>>

\* A job cancelled since it was created is not started.
PostStart(j) ==
    /\ postPc[j] = "start"
    /\ postPc' = [postPc EXCEPT ![j] = "idle"]
    /\ StartJob(j)
    /\ crawlMu' = FALSE
    /\ UNCHANGED <<created, runNow, OthersOfPost>>

-----------------------------------------------------------------------------
(* The queue worker.                                                        *)

WorkerStep(from, to) == workerPc = from /\ workerPc' = to
OthersOfWorker == <<created, postVars, runErr, ctxVars, deleteVars, purgePending, restarts>>

WorkerWake ==
    /\ signal /\ signal' = FALSE
    /\ WorkerStep("wait", "count")
    /\ UNCHANGED <<status, runPc, crawlMu, workerJob, OthersOfWorker>>

WorkerCount ==
    /\ ~crawlMu
    /\ crawlMu' = (Cardinality(Running) < MaxConcurrent)
    /\ WorkerStep("count", IF crawlMu' THEN "next" ELSE "wait")
    /\ UNCHANGED <<status, runPc, signal, workerJob, OthersOfWorker>>

WorkerNext ==
    /\ \/ /\ WorkerStep("next", "claim")
          /\ \E j \in Jobs : IsNextQueued(j) /\ workerJob' = j
          /\ UNCHANGED crawlMu
       \/ /\ WorkerStep("next", "wait")
          /\ \A j \in Jobs : status[j] # "queued"
          /\ crawlMu' = FALSE
          /\ UNCHANGED workerJob
    /\ UNCHANGED <<status, runPc, signal, OthersOfWorker>>

\* Mutant of WorkerClaim: UpdateJobStarted has no "AND status = 'queued'".
WorkerClaimUnconditional ==
    /\ WorkerStep("claim", "wait")
    /\ SetStatus(workerJob, "running")
    /\ runPc' = [runPc EXCEPT ![workerJob] = "spawned"]
    /\ workerJob' = NoJob
    /\ crawlMu' = FALSE
    /\ UNCHANGED <<signal, OthersOfWorker>>

\* The job may have been cancelled since NextQueuedJob: then the worker goes
\* back to wait for the next signal, whatever else is queued.
WorkerClaim ==
    /\ WorkerStep("claim", "wait")
    /\ StartJob(workerJob)
    /\ workerJob' = NoJob
    /\ crawlMu' = FALSE
    /\ UNCHANGED <<signal, OthersOfWorker>>

-----------------------------------------------------------------------------
(* runCrawlJob and Engine.RunCrawl.                                         *)

RunStep(j, from, to) ==
    /\ runPc[j] = from
    /\ runPc' = [runPc EXCEPT ![j] = to]
OthersOfRun == <<created, crawlMu, postVars, workerVars, deleteVars, purgePending, restarts>>

\* Engine.runMu: one crawl at a time, whatever MaxConcurrent says.
EngineBusy == \E k \in Jobs : runPc[k] \in {"check", "cancel", "crawl"}

\* registerRun's refusal of a second run of the same job has no case here: only
\* the step from 'queued' to 'running' spawns a run (EndedNeverRestarts).
RunRegister(j) ==
    /\ RunStep(j, "spawned", "load")
    /\ running' = running \cup {j}
    /\ UNCHANGED <<status, runErr, ctxCancelled, signal, OthersOfRun>>

\* Mutant of RunLoad: only a missing row or an ended job stops startJob.
RunLoadIgnoresCancel(j) ==
    /\ ~EngineBusy
    /\ \/ /\ RunStep(j, "load", "check")
          /\ status[j] \in {"running", "cancelling", "cancelled"}
          /\ UNCHANGED runErr
       \/ /\ RunStep(j, "load", "report")
          /\ status[j] \notin {"running", "cancelling", "cancelled"}
          /\ runErr' = [runErr EXCEPT ![j] = "failed"]
    /\ UNCHANGED <<status, ctxVars, signal, OthersOfRun>>

\* RunCrawl takes runMu and startJob reads the row, which its spawner has set
\* to 'running' before.
RunLoad(j) ==
    /\ ~EngineBusy
    /\ \/ /\ RunStep(j, "load", "check")
          /\ status[j] = "running"
          /\ UNCHANGED runErr
       \/ /\ RunStep(j, "load", "cancel")
          /\ status[j] \in {"cancelling", "cancelled"}
          /\ UNCHANGED runErr
       \/ /\ RunStep(j, "load", "report")
          /\ status[j] \notin {"running", "cancelling", "cancelled"}
          /\ runErr' = [runErr EXCEPT ![j] = "failed"]
    /\ UNCHANGED <<status, ctxVars, signal, OthersOfRun>>

\* startJob checks ctx.Err().
RunCheck(j) ==
    /\ RunStep(j, "check", IF ctxCancelled[j] THEN "cancel" ELSE "crawl")
    /\ UNCHANGED <<status, runErr, ctxVars, signal, OthersOfRun>>

RunCancelJob(j) ==
    /\ RunStep(j, "cancel", "report")
    /\ SetStatus(j, "cancelled")
    /\ runErr' = [runErr EXCEPT ![j] = IF Exists(j) THEN "cancelled" ELSE "failed"]
    /\ UNCHANGED <<ctxVars, signal, OthersOfRun>>

\* The status watcher of the crawl polls the row.
RunWatch(j) ==
    /\ runPc[j] = "crawl" /\ status[j] = "cancelling" /\ ~ctxCancelled[j]
    /\ ctxCancelled' = [ctxCancelled EXCEPT ![j] = TRUE]
    /\ UNCHANGED <<status, runVars, running, signal, OthersOfRun>>

\* Mutant of RunFinalize: a completed crawl is reported too, with no status.
RunFinalizeReports(j) ==
    /\ RunStep(j, "crawl", "report")
    /\ SetStatus(j, "completed")
    /\ UNCHANGED <<runErr, ctxVars, signal, OthersOfRun>>

\* The crawl ends and finalizeJob writes its status over whatever is there.  A
\* cancelled crawl may still complete, and any crawl may time out.  RunCrawl's
\* error is classified again by its text: a failure that quotes "context
\* canceled" is reported as cancelled.
RunFinalize(j) ==
    /\ \/ /\ RunStep(j, "crawl", "exit")
          /\ SetStatus(j, "completed")
          /\ UNCHANGED runErr
       \/ /\ RunStep(j, "crawl", "report")
          /\ \E s \in {"failed", "cancelled"} :
                /\ SetStatus(j, s)
                /\ \E e \in {s, "cancelled"} : runErr' = [runErr EXCEPT ![j] = e]
    /\ UNCHANGED <<ctxVars, signal, OthersOfRun>>

\* runCrawlJob writes the status of a failed run a second time.
RunReport(j) ==
    /\ RunStep(j, "report", "exit")
    /\ SetStatus(j, runErr[j])
    /\ UNCHANGED <<runErr, ctxVars, signal, OthersOfRun>>

RunPanic(j) ==
    /\ RunStep(j, "crawl", "panicked")
    /\ UNCHANGED <<status, runErr, ctxVars, signal, OthersOfRun>>

RunRecover(j) ==
    /\ RunStep(j, "panicked", "exit")
    /\ SetStatus(j, "failed")
    /\ UNCHANGED <<runErr, ctxVars, signal, OthersOfRun>>

\* Mutant of RunExit: only a run that ended without an error signals.
RunExitSilently(j) ==
    /\ RunStep(j, "exit", "none")
    /\ running' = running \ {j} /\ ctxCancelled' = [ctxCancelled EXCEPT ![j] = FALSE]
    /\ runErr' = [runErr EXCEPT ![j] = "none"]
    /\ signal' = (signal \/ runErr[j] = "none")
    /\ UNCHANGED <<status, OthersOfRun>>

\* The deferred calls: unregister (nobody can see whether a panic is recovered
\* before or after), then signal.  The send does not block: a token that is
\* there already stands for both.
RunExit(j) ==
    /\ RunStep(j, "exit", "none")
    /\ running' = running \ {j} /\ ctxCancelled' = [ctxCancelled EXCEPT ![j] = FALSE]
    /\ runErr' = [runErr EXCEPT ![j] = "none"]
    /\ signal' = TRUE
    /\ UNCHANGED <<status, OthersOfRun>>

-----------------------------------------------------------------------------
(* DELETE /api/jobs/{id}: read the row, write it, then cancel or purge.     *)

DeleteStep(d, from, to) ==
    /\ delPc[d] = from
    /\ delPc' = [delPc EXCEPT ![d] = to]
OthersOfDelete == <<created, crawlMu, postVars, workerVars, signal, runVars, running, restarts>>

DeleteRead(d) ==
    /\ DeleteStep(d, "idle", "write")
    /\ \E j \in Jobs : /\ Exists(j)
                       /\ delJob' = [delJob EXCEPT ![d] = j]
                       /\ delSeen' = [delSeen EXCEPT ![d] = status[j]]
    /\ UNCHANGED <<status, ctxCancelled, purgePending, OthersOfDelete>>

\* What is written follows from the status that was read, not from the one
\* that is overwritten.
DeleteWrite(d) ==
    LET j == delJob[d]
    IN /\ delPc[d] = "write"
       /\ \/ /\ ~Exists(j)
             /\ DeleteStep(d, "write", "done")
             /\ UNCHANGED status
          \/ /\ Exists(j) /\ delSeen[d] = "queued"
             /\ DeleteStep(d, "write", "cancelRun")
             /\ SetStatus(j, "cancelled")
          \/ /\ Exists(j) /\ delSeen[d] \in {"running", "cancelling"}
             /\ DeleteStep(d, "write", "cancelRun")
             /\ SetStatus(j, "cancelling")
          \/ /\ Exists(j) /\ delSeen[d] \notin {"queued", "running", "cancelling"}
             /\ DeleteStep(d, "write", IF PurgeOnDelete THEN "enqueue" ELSE "done")
             /\ SetStatus(j, "deleting")
       /\ delSeen' = [delSeen EXCEPT ![d] = "none"]
       /\ delJob' = [delJob EXCEPT ![d] = IF delPc'[d] = "done" THEN NoJob ELSE @]
       /\ UNCHANGED <<ctxCancelled, purgePending, OthersOfDelete>>

DeleteCancelRun(d) ==
    LET j == delJob[d]
    IN /\ DeleteStep(d, "cancelRun", "done")
       /\ ctxCancelled' = [ctxCancelled EXCEPT ![j] = @ \/ j \in running]
       /\ delJob' = [delJob EXCEPT ![d] = NoJob]
       /\ UNCHANGED <<status, delSeen, purgePending, OthersOfDelete>>

\* A full purge queue makes the handler purge the job itself.
DeleteEnqueue(d) ==
    LET j == delJob[d]
    IN /\ DeleteStep(d, "enqueue", "done")
       /\ \/ /\ Cardinality(purgePending) < PurgeQueueCap
             /\ purgePending' = purgePending \cup {j}
             /\ UNCHANGED status
          \/ /\ Cardinality(purgePending) >= PurgeQueueCap
             /\ status' = [status EXCEPT ![j] = "purged"]
             /\ UNCHANGED purgePending
       /\ delJob' = [delJob EXCEPT ![d] = NoJob]
       /\ UNCHANGED <<delSeen, ctxCancelled, OthersOfDelete>>

\* The purge worker: PurgeJob asks nothing about the job's status.
PurgeNext ==
    /\ \E j \in purgePending : /\ purgePending' = purgePending \ {j}
                               /\ status' = [status EXCEPT ![j] = "purged"]
    /\ UNCHANGED <<ctxCancelled, deleteVars, OthersOfDelete>>

-----------------------------------------------------------------------------
(* The process ends, gracefully or not (main cancels no crawl), and starts  *)
(* again: orphans fail, purges may be resumed, the worker is signalled.     *)

\* Mutant of Reaped: 'running' rows are left to a run that is gone.
ReapedCancellingOnly == WithStatus({"cancelling"})

\* MarkOrphanedJobsFailed.
Reaped == WithStatus({"running", "cancelling"})

Restart ==
    /\ restarts > 0 /\ restarts' = restarts - 1
    /\ status' = [j \in Jobs |-> IF j \in Reaped THEN "failed" ELSE status[j]]
    /\ purgePending' = IF ResumePurges THEN WithStatus({"deleting"}) ELSE {}
    /\ crawlMu' = FALSE
    /\ postPc' = [j \in Jobs |-> "idle"] /\ runNow' = [j \in Jobs |-> FALSE]
    /\ workerPc' = "wait" /\ workerJob' = NoJob
    /\ signal' = TRUE
    /\ runPc' = [j \in Jobs |-> "none"] /\ runErr' = [j \in Jobs |-> "none"]
    /\ running' = {} /\ ctxCancelled' = [j \in Jobs |-> FALSE]
    /\ delPc' = [d \in Deleters |-> IF delPc[d] = "idle" THEN "idle" ELSE "done"]
    /\ delJob' = [d \in Deleters |-> NoJob]
    /\ delSeen' = [d \in Deleters |-> "none"]
    /\ UNCHANGED created

-----------------------------------------------------------------------------
Post(j) == PostCount(j) \/ PostCreate(j) \/ PostStart(j)
Worker == WorkerWake \/ WorkerCount \/ WorkerNext \/ WorkerClaim
Run(j) ==
    \/ RunRegister(j) \/ RunLoad(j) \/ RunCheck(j) \/ RunCancelJob(j) \/ RunFinalize(j)
    \/ RunReport(j) \/ RunPanic(j) \/ RunRecover(j) \/ RunExit(j)
Delete(d) == DeleteRead(d) \/ DeleteWrite(d) \/ DeleteCancelRun(d) \/ DeleteEnqueue(d)

Next ==
    \/ \E j \in Jobs : Post(j) \/ Run(j) \/ RunWatch(j)
    \/ Worker
    \/ \E d \in Deleters : Delete(d)
    \/ PurgeNext
    \/ Restart

\* A request that was accepted is handled to its end, goroutines run, and a
\* crawl ends (CrawlPipeline!CrawlFinishes).  Nobody has to send a request.
Fairness ==
    /\ \A j \in Jobs : WF_vars(PostCreate(j) \/ PostStart(j)) /\ WF_vars(Run(j))
    /\ WF_vars(Worker)
    /\ \A d \in Deleters : WF_vars(DeleteWrite(d) \/ DeleteCancelRun(d) \/ DeleteEnqueue(d))
    /\ WF_vars(PurgeNext)

Spec == Init /\ [][Next]_vars
FairSpec == Spec /\ Fairness

-----------------------------------------------------------------------------
(* Properties.                                                              *)

\* Every variable has its type, and a row that was created has a status.
TypeOK ==
    /\ status \in [Jobs -> Status] /\ created \in Seq(Jobs)
    /\ \A n \in DOMAIN created : status[created[n]] # "none"
    /\ crawlMu \in BOOLEAN
    /\ postPc \in [Jobs -> {"idle", "create", "start"}]
    /\ runNow \in [Jobs -> BOOLEAN]
    /\ workerPc \in {"wait", "count", "next", "claim"} /\ workerJob \in Jobs \cup {NoJob}
    /\ signal \in BOOLEAN
    /\ runPc \in [Jobs -> RunPc] /\ runErr \in [Jobs -> {"none", "failed", "cancelled"}]
    /\ running \in SUBSET Jobs /\ ctxCancelled \in [Jobs -> BOOLEAN]
    /\ delPc \in [Deleters -> {"idle", "write", "cancelRun", "enqueue", "done"}]
    /\ delJob \in [Deleters -> Jobs \cup {NoJob}] /\ delSeen \in [Deleters -> Status]
    /\ purgePending \in SUBSET Jobs /\ restarts \in 0..MaxRestarts

\* Concurrent POSTs and the queue worker never start more crawls than the
\* configured limit (handleCrawl's comment on crawlMu).
RunningWithinLimit == Cardinality(Running) <= MaxConcurrent

\* A job that is 'running' has a run that will give it another status, even
\* when the crawl panics or the process restarts: no slot is lost for ever.
RunningHasRun ==
    \A j \in Running :
        runPc[j] \in {"spawned", "load", "check", "cancel", "crawl", "panicked"}

\* A crawl in progress whose row says anything but 'running' has its context
\* cancelled, or a DELETE is about to cancel it: a DELETE that comes before the
\* run is registered, or before the engine is free, is not lost.
CancelReachesRun ==
    \A j \in Jobs :
        runPc[j] = "crawl" /\ status[j] # "running"
            => ctxCancelled[j] \/ \E d \in Deleters : delPc[d] = "cancelRun" /\ delJob[d] = j

\* A job that was cancelled, ended or deleted is never started, although the
\* queue worker and handleCrawl decide to start it before they write so.
EndedNeverRestarts ==
    [][\A j \in Jobs : status[j] \in Ended => status'[j] \in Ended]_vars

\* One crawl at a time starts in the order of creation: a new POST does not
\* overtake a job that waits for the queue worker, even after a restart.
StartsInOrder ==
    [][\A m, n \in DOMAIN created :
          m < n /\ MaxConcurrent = 1 /\ status[created[n]] = "queued"
                /\ status'[created[n]] = "running"
              => status[created[m]] # "queued"]_vars

\* A queued job is started, or cancelled, at some time: the run that occupies
\* the slot signals the worker when it ends, however it ends.
QueueServed == \A j \in Jobs : status[j] = "queued" ~> status[j] # "queued"

-----------------------------------------------------------------------------
(* The abstract specification.  A job that is cancelling, tombstoned or in   *)
(* any final status is over; a run of a job is its goroutine.                *)

LifeOf(s) == IF s \in Ended \ {"purged"} THEN "over" ELSE s

Queue == INSTANCE JobQueue WITH
    Limit <- MaxConcurrent,
    order <- created,
    life <- [j \in Jobs |-> LifeOf(status[j])],
    manned <- {j \in Jobs : runPc[j] # "none"}

\* POSTs, the queue worker, the runs, DELETEs, the purge worker and a restart keep
\* together what the server promises about jobs: started once, within the limit, by one
\* goroutine that does not leave them running, and gone for good when they are purged.
QueueImplemented == Queue!Spec

=============================================================================

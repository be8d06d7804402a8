------------------------------ MODULE McpJobs ------------------------------
(***************************************************************************)
(* Crawl jobs of the MCP server (internal/mcp/tool_crawl.go): crawl_site    *)
(* counts and creates without a lock and starts the crawl in a goroutine;   *)
(* cancel_crawl acts on the status it read and on the run it finds          *)
(* registered.  The process has one engine, whose runMu admits one crawl at *)
(* a time, and no queue worker: queued jobs are goroutines at that lock.    *)
(*                                                                         *)
(* Tool calls run concurrently.  Each job stands for the call that creates  *)
(* it; jobs are never deleted here.  Writes of the job row succeed.         *)
(***************************************************************************)
EXTENDS Integers, FiniteSets

CONSTANTS
    Jobs,
    NoJob,
    Cancels,         \* cancel_crawl calls; a bound
    MaxConcurrent,   \* MaxConcurrentCrawls
    MaxPerHour       \* MaxJobsPerHour

ASSUME McpAssumption ==
    /\ NoJob \notin Jobs
    /\ MaxConcurrent \in Nat \ {0} /\ MaxPerHour \in Nat \ {0}

VARIABLES
    status,      \* status[j] of the job row, "none" before it exists
    old,         \* jobs created more than an hour ago
    callPc,      \* callPc[j]: where the crawl_site call is
    runPc,       \* runPc[j]: where the goroutine of j is
    registered,  \* the keys of Server.running
    ctx,         \* runs whose own context is cancelled
    crawlCtx,    \* runs whose crawl the status watcher has cancelled
    cancelPc, cancelJob   \* of each cancel_crawl call

runVars == <<runPc, registered, ctx, crawlCtx>>
callVars == <<old, callPc>>
cancelVars == <<cancelPc, cancelJob>>
vars == <<status, callVars, runVars, cancelVars>>

Init ==
    /\ status = [j \in Jobs |-> "none"] /\ old = {}
    /\ callPc = [j \in Jobs |-> "idle"] /\ runPc = [j \in Jobs |-> "none"]
    /\ registered = {} /\ ctx = {} /\ crawlCtx = {}
    /\ cancelPc = [c \in Cancels |-> "idle"] /\ cancelJob = [c \in Cancels |-> NoJob]

Created == {j \in Jobs : status[j] # "none"}
Active == {j \in Jobs : status[j] \in {"queued", "running"}}

SetStatus(j, s) == status' = [status EXCEPT ![j] = s]

-----------------------------------------------------------------------------
(* crawl_site.                                                              *)

CallStep(j, from, to) == callPc[j] = from /\ callPc' = [callPc EXCEPT ![j] = to]

CountRecent(j) ==
    /\ CallStep(j, "idle", IF Cardinality(Created \ old) < MaxPerHour THEN "count" ELSE "done")
    /\ UNCHANGED <<status, old, runVars, cancelVars>>

\* Queued jobs count, and other calls may create theirs before this one does.
CountActive(j) ==
    /\ CallStep(j, "count", IF Cardinality(Active) < MaxConcurrent THEN "create" ELSE "done")
    /\ UNCHANGED <<status, old, runVars, cancelVars>>

\* A dry run stays with the call, a crawl gets a goroutine.
Create(j) ==
    /\ \/ CallStep(j, "create", "dry") /\ UNCHANGED runPc
       \/ CallStep(j, "create", "done") /\ runPc' = [runPc EXCEPT ![j] = "spawned"]
    /\ SetStatus(j, "queued")
    /\ UNCHANGED <<old, registered, ctx, crawlCtx, cancelVars>>

\* Mutant of DryRunEnds: a dry run that meets an error returns at once.
DryRunEndsOrGivesUp(j) ==
    /\ CallStep(j, "dry", "done")
    /\ SetStatus(j, "completed") \/ UNCHANGED status
    /\ UNCHANGED <<old, runVars, cancelVars>>

\* Whatever failed in between, a dry run completes its job.
DryRunEnds(j) ==
    /\ CallStep(j, "dry", "done")
    /\ SetStatus(j, "completed")
    /\ UNCHANGED <<old, runVars, cancelVars>>

HourPasses(j) ==
    /\ j \in Created \ old
    /\ old' = old \cup {j}
    /\ UNCHANGED <<status, callPc, runVars, cancelVars>>

-----------------------------------------------------------------------------
(* The goroutine of a job, and RunCrawl.                                    *)

RunStep(j, from, to) == runPc[j] = from /\ runPc' = [runPc EXCEPT ![j] = to]
OthersOfRun == <<callVars, cancelVars>>

Register(j) ==
    /\ RunStep(j, "spawned", "enter")
    /\ registered' = registered \cup {j}
    /\ UNCHANGED <<status, ctx, crawlCtx, OthersOfRun>>

\* RunCrawl holds runMu in these places.
EngineBusy == \E j \in Jobs : runPc[j] \in {"check", "claim", "recheck", "stop", "crawl"}

\* startJob reads the row: a cancelled job is not started.
Enter(j) ==
    /\ ~EngineBusy
    /\ RunStep(j, "enter", IF status[j] = "queued" THEN "check" ELSE "stop")
    /\ UNCHANGED <<status, registered, ctx, crawlCtx, OthersOfRun>>

\* Its context is looked at before and after the claim.
CheckContext(j) ==
    /\ \/ RunStep(j, "check", IF j \in ctx THEN "stop" ELSE "claim")
       \/ RunStep(j, "recheck", IF j \in ctx THEN "stop" ELSE "crawl")
    /\ UNCHANGED <<status, registered, ctx, crawlCtx, OthersOfRun>>

\* UpdateJobStarted takes a queued row only.
Claim(j) ==
    /\ RunStep(j, "claim", IF status[j] = "queued" THEN "recheck" ELSE "stop")
    /\ IF status[j] = "queued" THEN SetStatus(j, "running") ELSE UNCHANGED status
    /\ UNCHANGED <<registered, ctx, crawlCtx, OthersOfRun>>

\* cancelJob.
Stop(j) ==
    /\ RunStep(j, "stop", "error")
    /\ SetStatus(j, "cancelled")
    /\ UNCHANGED <<registered, ctx, crawlCtx, OthersOfRun>>

\* The watcher looks for 'cancelling' only.
Watch(j) ==
    /\ runPc[j] = "crawl" /\ status[j] = "cancelling" /\ j \notin crawlCtx
    /\ crawlCtx' = crawlCtx \cup {j}
    /\ UNCHANGED <<status, runPc, registered, ctx, OthersOfRun>>

\* finalizeJob writes over whatever is there, seedFrontier's failJob as well.  A
\* crawl may end cancelled when one of its contexts is, or by its time limit.
Finalize(j) ==
    /\ \/ RunStep(j, "crawl", "exit") /\ SetStatus(j, "completed")
       \/ RunStep(j, "crawl", "error") /\ SetStatus(j, "failed")
       \/ RunStep(j, "crawl", "error") /\ SetStatus(j, "cancelled")
    /\ UNCHANGED <<registered, ctx, crawlCtx, OthersOfRun>>

Panic(j) ==
    /\ RunStep(j, "crawl", "panicked")
    /\ UNCHANGED <<status, registered, ctx, crawlCtx, OthersOfRun>>

\* An error of RunCrawl, a cancellation by the watcher included, fails the job
\* unless cancel_crawl has cancelled the goroutine's context.
Report(j) ==
    /\ RunStep(j, "error", IF j \in ctx THEN "exit" ELSE "fail")
    /\ UNCHANGED <<status, registered, ctx, crawlCtx, OthersOfRun>>

\* Mutant of Fail: a panic is recovered and forgotten.
FailUnlessPanicked(j) ==
    /\ \/ RunStep(j, "fail", "exit") /\ SetStatus(j, "failed")
       \/ RunStep(j, "panicked", "exit") /\ UNCHANGED status
    /\ UNCHANGED <<registered, ctx, crawlCtx, OthersOfRun>>

\* The write after an error or a recovered panic.
Fail(j) ==
    /\ RunStep(j, "fail", "exit") \/ RunStep(j, "panicked", "exit")
    /\ SetStatus(j, "failed")
    /\ UNCHANGED <<registered, ctx, crawlCtx, OthersOfRun>>

Exit(j) ==
    /\ RunStep(j, "exit", "none")
    /\ registered' = registered \ {j} /\ ctx' = ctx \ {j} /\ crawlCtx' = crawlCtx \ {j}
    /\ UNCHANGED <<status, OthersOfRun>>

-----------------------------------------------------------------------------
(* cancel_crawl.                                                            *)

CancelStep(c, from, to) == cancelPc[c] = from /\ cancelPc' = [cancelPc EXCEPT ![c] = to]
OthersOfCancel == <<callVars, runPc, registered, crawlCtx>>

CancelRead(c) ==
    /\ \E j \in Jobs :
          /\ status[j] \in {"queued", "running", "cancelling"}
          /\ CancelStep(c, "idle", IF status[j] = "queued" THEN "find" ELSE "write")
          /\ cancelJob' = [cancelJob EXCEPT ![c] = j]
    /\ UNCHANGED <<status, ctx, OthersOfCancel>>

\* cancelRun of a job that was queued: its goroutine may be at runMu, not
\* registered yet, or there may be none.
CancelQueued(c) ==
    /\ CancelStep(c, "find", IF cancelJob[c] \in registered THEN "mark" ELSE "finish")
    /\ ctx' = ctx \cup ({cancelJob[c]} \cap registered)
    /\ UNCHANGED <<status, cancelJob, OthersOfCancel>>

\* 'cancelling', before cancelRun for a job that was running, after it for one
\* that was queued.
MarkCancelling(c) ==
    /\ CancelStep(c, "mark", "done") \/ CancelStep(c, "write", "cancelRun")
    /\ SetStatus(cancelJob[c], "cancelling")
    /\ UNCHANGED <<cancelJob, ctx, OthersOfCancel>>

FinishCancelled(c) ==
    /\ CancelStep(c, "finish", "done")
    /\ SetStatus(cancelJob[c], "cancelled")
    /\ UNCHANGED <<cancelJob, ctx, OthersOfCancel>>

CancelRun(c) ==
    /\ CancelStep(c, "cancelRun", "done")
    /\ ctx' = ctx \cup ({cancelJob[c]} \cap registered)
    /\ UNCHANGED <<status, cancelJob, OthersOfCancel>>

-----------------------------------------------------------------------------
CallNext(j) == CountRecent(j) \/ CountActive(j) \/ Create(j) \/ DryRunEnds(j)

RunNext(j) ==
    \/ Register(j) \/ Enter(j) \/ CheckContext(j) \/ Claim(j) \/ Stop(j)
    \/ Finalize(j) \/ Panic(j) \/ Report(j) \/ Fail(j) \/ Exit(j)

CancelNext(c) ==
    \/ CancelRead(c) \/ CancelQueued(c) \/ MarkCancelling(c) \/ FinishCancelled(c)
    \/ CancelRun(c)

Next ==
    \/ \E j \in Jobs : CallNext(j) \/ HourPasses(j) \/ RunNext(j) \/ Watch(j)
    \/ \E c \in Cancels : CancelNext(c)

\* Goroutines go on, a crawl ends (CrawlFinishes of CrawlPipeline), and Go's mutex
\* starves nobody, hence strong fairness of Enter.
Spec ==
    /\ Init /\ [][Next]_vars
    /\ \A j \in Jobs :
          /\ WF_vars(DryRunEnds(j)) /\ WF_vars(RunNext(j)) /\ SF_vars(Enter(j))
    /\ \A c \in Cancels :
          WF_vars(CancelQueued(c) \/ MarkCancelling(c) \/ FinishCancelled(c) \/ CancelRun(c))

-----------------------------------------------------------------------------
(* Properties                                                               *)

\* A job that counts against MaxConcurrentCrawls is in somebody's hands: a dry run,
\* or a goroutine that will still write its status.  An error or a panic that nobody
\* writes would take its slot away until a restart.
ActiveHasRun ==
    \A j \in Active : callPc[j] = "dry" \/ runPc[j] \notin {"none", "exit"}

\* Every job leaves the queue and the engine, whatever panics, fails or is
\* cancelled, so that crawl_site is not refused for ever.
ActiveEnds == \A j \in Jobs : j \in Active ~> j \notin Active
=============================================================================

---------------------------- MODULE McpJobs_proofs ----------------------------
(***************************************************************************)
(* Proofs about the crawl jobs of the MCP server, for any jobs, any number  *)
(* of cancel_crawl calls and any limits.                                    *)
(***************************************************************************)
EXTENDS McpJobs, TLAPS

Statuses == {"none", "queued", "running", "cancelling", "completed", "failed", "cancelled"}
CallPcs == {"idle", "count", "create", "dry", "done"}
RunPcs == {"none", "spawned", "enter", "check", "claim", "recheck", "stop", "crawl",
           "error", "panicked", "fail", "exit"}
CancelPcs == {"idle", "find", "mark", "finish", "write", "cancelRun", "done"}

\* Every variable has its type, and a cancel_crawl past its read knows its job.
TypeInv ==
    /\ status \in [Jobs -> Statuses]
    /\ old \in SUBSET Jobs
    /\ callPc \in [Jobs -> CallPcs]
    /\ runPc \in [Jobs -> RunPcs]
    /\ registered \in SUBSET Jobs /\ ctx \in SUBSET Jobs /\ crawlCtx \in SUBSET Jobs
    /\ cancelPc \in [Cancels -> CancelPcs]
    /\ cancelJob \in [Cancels -> Jobs \cup {NoJob}]
    /\ \A c \in Cancels : cancelPc[c] # "idle" => cancelJob[c] \in Jobs

\* The places of a goroutine from which its job's row will still be written, or
\* which it only reaches after a write that ends the job.
InHands == RunPcs \ {"none", "error", "fail", "exit"}

\* The call of j has not created its row.
Uncreated(j) == callPc[j] \in {"idle", "count", "create"}

\* Why no active job is forgotten.  A goroutine that skips its write, because its
\* context was cancelled, has seen the engine write before: past an error the job
\* is not active.  Nobody makes it active again: only the call that creates the
\* job queues it, before anybody else knows of it, and only the goroutine claims it.
HandsInv ==
    /\ \A j \in Active : callPc[j] = "dry" \/ runPc[j] \in InHands
    /\ \A j \in Jobs : Uncreated(j) => status[j] = "none"
    /\ \A j \in Jobs : runPc[j] # "none" => callPc[j] = "done"
    /\ \A c \in Cancels : cancelPc[c] # "idle" => ~Uncreated(cancelJob[c])

\* At first there is no job.
LEMMA InitHolds == Init => TypeInv /\ HandsInv
BY DEF Init, TypeInv, HandsInv, Uncreated, Active, Statuses, CallPcs, RunPcs, CancelPcs, InHands

-----------------------------------------------------------------------------
(* Types.                                                                   *)

\* crawl_site keeps the types.
LEMMA CallTypes ==
    ASSUME TypeInv, NEW j \in Jobs, CallNext(j) \/ HourPasses(j)
    PROVE  TypeInv'
<1> USE DEF TypeInv, Statuses, CallPcs, RunPcs, CallStep, SetStatus, runVars, cancelVars
<1>1. CASE CountRecent(j)
  BY <1>1 DEF CountRecent
<1>2. CASE CountActive(j)
  BY <1>2 DEF CountActive
<1>3. CASE Create(j)
  BY <1>3 DEF Create
<1>4. CASE DryRunEnds(j)
  BY <1>4 DEF DryRunEnds
<1>5. CASE HourPasses(j)
  BY <1>5 DEF HourPasses, Created
<1> QED
  BY <1>1, <1>2, <1>3, <1>4, <1>5 DEF CallNext

\* The goroutine of a job keeps the types.
LEMMA RunTypes ==
    ASSUME TypeInv, NEW j \in Jobs, RunNext(j) \/ Watch(j)
    PROVE  TypeInv'
<1> USE DEF TypeInv, Statuses, RunPcs, RunStep, SetStatus, OthersOfRun, callVars, cancelVars
<1>1. CASE Register(j)
  BY <1>1 DEF Register
<1>2. CASE Enter(j)
  BY <1>2 DEF Enter
<1>3. CASE CheckContext(j)
  BY <1>3 DEF CheckContext
<1>4. CASE Claim(j)
  BY <1>4 DEF Claim
<1>5. CASE Stop(j)
  BY <1>5 DEF Stop
<1>6. CASE Finalize(j)
  BY <1>6 DEF Finalize
<1>7. CASE Panic(j)
  BY <1>7 DEF Panic
<1>8. CASE Report(j)
  BY <1>8 DEF Report
<1>9. CASE Fail(j)
  BY <1>9 DEF Fail
<1>10. CASE Exit(j)
  BY <1>10 DEF Exit
<1>11. CASE Watch(j)
  BY <1>11 DEF Watch
<1> QED
  BY <1>1, <1>2, <1>3, <1>4, <1>5, <1>6, <1>7, <1>8, <1>9, <1>10, <1>11 DEF RunNext

\* cancel_crawl keeps the types.
LEMMA CancelTypes ==
    ASSUME TypeInv, NEW c \in Cancels, CancelNext(c)
    PROVE  TypeInv'
<1> USE DEF TypeInv, Statuses, CancelPcs, CancelStep, SetStatus, OthersOfCancel, callVars
<1>1. CASE CancelRead(c)
  BY <1>1 DEF CancelRead
<1>2. CASE CancelQueued(c)
  BY <1>2 DEF CancelQueued
<1>3. CASE MarkCancelling(c)
  BY <1>3 DEF MarkCancelling
<1>4. CASE FinishCancelled(c)
  BY <1>4 DEF FinishCancelled
<1>5. CASE CancelRun(c)
  BY <1>5 DEF CancelRun
<1> QED
  BY <1>1, <1>2, <1>3, <1>4, <1>5 DEF CancelNext

-----------------------------------------------------------------------------
(* Active jobs.                                                             *)

\* crawl_site: a new active job is a dry run's or a goroutine's.
LEMMA CallHands ==
    ASSUME TypeInv, HandsInv, NEW j \in Jobs, CallNext(j) \/ HourPasses(j)
    PROVE  HandsInv'
<1> USE DEF TypeInv, HandsInv, Uncreated, Active, InHands, RunPcs, CallStep, SetStatus, runVars, cancelVars
<1>1. CASE CountRecent(j)
  BY <1>1 DEF CountRecent
<1>2. CASE CountActive(j)
  BY <1>2 DEF CountActive
<1>3. CASE Create(j)
  BY <1>3 DEF Create
<1>4. CASE DryRunEnds(j)
  BY <1>4 DEF DryRunEnds
<1>5. CASE HourPasses(j)
  BY <1>5 DEF HourPasses
<1> QED
  BY <1>1, <1>2, <1>3, <1>4, <1>5 DEF CallNext

\* A goroutine lets go of its job only with a write that ends it.
LEMMA RunHands ==
    ASSUME TypeInv, HandsInv, NEW j \in Jobs, RunNext(j) \/ Watch(j)
    PROVE  HandsInv'
<1> USE DEF TypeInv, HandsInv, Uncreated, Active, InHands, RunPcs, RunStep, SetStatus, OthersOfRun,
            callVars, cancelVars
<1>1. CASE Register(j)
  BY <1>1 DEF Register
<1>2. CASE Enter(j)
  BY <1>2 DEF Enter
<1>3. CASE CheckContext(j)
  BY <1>3 DEF CheckContext
<1>4. CASE Claim(j)
  BY <1>4 DEF Claim
<1>5. CASE Stop(j)
  BY <1>5 DEF Stop
<1>6. CASE Finalize(j)
  BY <1>6 DEF Finalize
<1>7. CASE Panic(j)
  BY <1>7 DEF Panic
<1>8. CASE Report(j)
  BY <1>8 DEF Report
<1>9. CASE Fail(j)
  BY <1>9 DEF Fail
<1>10. CASE Exit(j)
  BY <1>10 DEF Exit
<1>11. CASE Watch(j)
  BY <1>11 DEF Watch
<1> QED
  BY <1>1, <1>2, <1>3, <1>4, <1>5, <1>6, <1>7, <1>8, <1>9, <1>10, <1>11 DEF RunNext

\* cancel_crawl activates no job, and writes no row before its call created it.
LEMMA CancelHands ==
    ASSUME TypeInv, HandsInv, NEW c \in Cancels, CancelNext(c)
    PROVE  HandsInv'
<1> USE DEF TypeInv, HandsInv, Uncreated, Active, CancelStep, SetStatus, OthersOfCancel, callVars
<1>1. CASE CancelRead(c)
  BY <1>1 DEF CancelRead
<1>2. CASE CancelQueued(c)
  BY <1>2 DEF CancelQueued
<1>3. CASE MarkCancelling(c)
  BY <1>3 DEF MarkCancelling
<1>4. CASE FinishCancelled(c)
  BY <1>4 DEF FinishCancelled
<1>5. CASE CancelRun(c)
  BY <1>5 DEF CancelRun
<1> QED
  BY <1>1, <1>2, <1>3, <1>4, <1>5 DEF CancelNext

\* In every reachable state the variables have their types, and a job that counts
\* against MaxConcurrentCrawls is in the hands of a dry run or of a goroutine whose
\* row is still to be written.
THEOREM HandsKept == Spec => [](TypeInv /\ HandsInv)
<1>1. TypeInv /\ HandsInv /\ [Next]_vars => TypeInv' /\ HandsInv'
  <2> SUFFICES ASSUME TypeInv, HandsInv, [Next]_vars PROVE TypeInv' /\ HandsInv'
    OBVIOUS
  <2>1. CASE UNCHANGED vars
    BY <2>1 DEF vars, callVars, runVars, cancelVars, TypeInv, HandsInv, Uncreated, Active
  <2>2. CASE Next
    BY <2>2, CallTypes, RunTypes, CancelTypes, CallHands, RunHands, CancelHands DEF Next
  <2> QED
    BY <2>1, <2>2
<1> QED
  BY InitHolds, <1>1, PTL DEF Spec

\* No error, panic or cancellation makes a job count for ever with nobody left to
\* end it, for any number of calls at any moment.
THEOREM ActiveJobsRun == Spec => []ActiveHasRun
<1>1. TypeInv /\ HandsInv => ActiveHasRun
  BY DEF HandsInv, ActiveHasRun, InHands
<1> QED
  BY <1>1, HandsKept, PTL
=============================================================================

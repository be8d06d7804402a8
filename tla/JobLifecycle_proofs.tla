------------------------- MODULE JobLifecycle_proofs -------------------------
(***************************************************************************)
(* Proofs about the life of crawl jobs, for any number of jobs, of DELETE  *)
(* requests and of restarts, and for any crawl limit.                      *)
(***************************************************************************)
EXTENDS JobLifecycle, FiniteSetTheorems, SequenceTheorems, TLAPS

\* Whoever is about to write a row knows which one, and a run that reports an
\* error has one.
HandsKnown ==
    /\ workerPc = "claim" => workerJob \in Jobs
    /\ \A d \in Deleters : delPc[d] \in {"write", "cancelRun", "enqueue"} => delJob[d] \in Jobs
    /\ \A j \in Jobs : runPc[j] = "report" => runErr[j] # "none"

TypeInv == TypeOK /\ HandsKnown

-----------------------------------------------------------------------------
(* Types.                                                                   *)

\* The server starts with no job and an idle queue worker.
LEMMA InitType == Init => TypeInv
<1> SUFFICES ASSUME Init PROVE TypeInv
  OBVIOUS
<1>1. TypeOK
  <2>1. /\ status \in [Jobs -> Status] /\ runPc \in [Jobs -> RunPc]
        /\ runErr \in [Jobs -> {"none", "failed", "cancelled"}]
    BY DEF Init, Status, RunPc
  <2>2. created \in Seq(Jobs) /\ \A n \in DOMAIN created : status[created[n]] # "none"
    BY DEF Init
  <2>3. /\ postPc \in [Jobs -> {"idle", "create", "start"}] /\ runNow \in [Jobs -> BOOLEAN]
        /\ ctxCancelled \in [Jobs -> BOOLEAN] /\ running \in SUBSET Jobs
    BY DEF Init
  <2>4. crawlMu \in BOOLEAN /\ signal \in BOOLEAN
    BY DEF Init
  <2>5. workerPc \in {"wait", "count", "next", "claim"} /\ workerJob \in Jobs \cup {NoJob}
    BY DEF Init
  <2>6. /\ delPc \in [Deleters -> {"idle", "write", "cancelRun", "enqueue", "done"}]
        /\ delJob \in [Deleters -> Jobs \cup {NoJob}] /\ delSeen \in [Deleters -> Status]
    BY DEF Init, Status
  <2>7. purgePending \in SUBSET Jobs /\ restarts \in 0..MaxRestarts
    BY ConfigAssumption DEF Init
  <2> QED
    BY <2>1, <2>2, <2>3, <2>4, <2>5, <2>6, <2>7 DEF TypeOK
<1>2. HandsKnown
  BY DEF Init, HandsKnown
<1> QED
  BY <1>1, <1>2 DEF TypeInv

\* UpdateJobStarted keeps the types and forgets no row.
LEMMA StartType ==
    ASSUME TypeOK, NEW j \in Jobs, StartJob(j)
    PROVE  /\ status' \in [Jobs -> Status] /\ runPc' \in [Jobs -> RunPc]
           /\ \A k \in Jobs : status[k] # "none" => status'[k] # "none"
           /\ \A k \in Jobs : runPc'[k] = "report" => runPc[k] = "report"
<1>1. CASE status[j] = "queued"
  BY <1>1 DEF TypeOK, StartJob, Status, RunPc
<1>2. CASE status[j] # "queued"
  BY <1>2 DEF TypeOK, StartJob
<1> QED
  BY <1>1, <1>2

\* The three steps of a POST keep the types.
LEMMA PostType ==
    ASSUME TypeInv, NEW j \in Jobs, Post(j)
    PROVE  TypeInv'
<1> USE DEF TypeInv, TypeOK, HandsKnown, Status, RunPc, OthersOfPost, workerVars, ctxVars,
            deleteVars, rowVars
<1>1. CASE PostCount(j)
  BY <1>1 DEF PostCount
<1>2. CASE PostCreate(j)
  <2>1. /\ created' \in Seq(Jobs)
        /\ \A n \in DOMAIN created' : status'[created'[n]] # "none"
    <3>1. /\ created' = Append(created, j) /\ status' = [status EXCEPT ![j] = "queued"]
      BY <1>2 DEF PostCreate
    <3> QED
      BY <3>1
  <2>2. /\ status' \in [Jobs -> Status] /\ crawlMu' \in BOOLEAN
        /\ postPc' \in [Jobs -> {"idle", "create", "start"}]
        /\ runNow' \in [Jobs -> BOOLEAN]
    BY <1>2 DEF PostCreate
  <2> QED
    BY <1>2, <2>1, <2>2 DEF PostCreate
<1>3. CASE PostStart(j)
  <2>1. StartJob(j)
    BY <1>3 DEF PostStart
  <2>2. \A n \in DOMAIN created : status'[created[n]] # "none"
    BY <2>1, StartType
  <2> QED
    BY <1>3, <2>1, <2>2, StartType DEF PostStart
<1> QED
  BY <1>1, <1>2, <1>3 DEF Post

\* The steps of the queue worker keep the types.
LEMMA WorkerType ==
    ASSUME TypeInv, Worker
    PROVE  TypeInv'
<1> USE DEF TypeInv, TypeOK, HandsKnown, Status, RunPc, OthersOfWorker, postVars, ctxVars,
            deleteVars, WorkerStep
<1>1. CASE WorkerWake
  BY <1>1 DEF WorkerWake
<1>2. CASE WorkerCount
  BY <1>2 DEF WorkerCount
<1>3. CASE WorkerNext
  BY <1>3 DEF WorkerNext
<1>4. CASE WorkerClaim
  <2>1. workerJob \in Jobs /\ StartJob(workerJob)
    BY <1>4 DEF WorkerClaim
  <2>2. \A n \in DOMAIN created : status'[created[n]] # "none"
    BY <2>1, StartType
  <2> QED
    BY <1>4, <2>1, <2>2, StartType DEF WorkerClaim
<1> QED
  BY <1>1, <1>2, <1>3, <1>4 DEF Worker

\* The steps of a run keep the types.
LEMMA RunType ==
    ASSUME TypeInv, NEW j \in Jobs, Run(j) \/ RunWatch(j)
    PROVE  TypeInv'
<1> USE DEF TypeInv, TypeOK, HandsKnown, Status, RunPc, OthersOfRun, postVars, workerVars, ctxVars,
            deleteVars, RunStep, SetStatus, Exists
<1>1. CASE RunRegister(j)
  BY <1>1 DEF RunRegister
<1>2. CASE RunLoad(j)
  BY <1>2, SMTT(30) DEF RunLoad
<1>3. CASE RunCheck(j)
  BY <1>3 DEF RunCheck
<1>4. CASE RunCancelJob(j)
  BY <1>4 DEF RunCancelJob
<1>5. CASE RunWatch(j)
  BY <1>5 DEF RunWatch, runVars
<1>6. CASE RunFinalize(j)
  <2>1. PICK s \in {"completed", "failed", "cancelled"} : SetStatus(j, s)
    BY <1>6 DEF RunFinalize
  <2>2. /\ status' \in [Jobs -> Status]
        /\ \A n \in DOMAIN created : status'[created[n]] # "none"
    BY <2>1
  <2>3. runErr' \in [Jobs -> {"none", "failed", "cancelled"}] /\ runPc' \in [Jobs -> RunPc]
    BY <1>6, SMTT(30) DEF RunFinalize
  <2>4. \A k \in Jobs : runPc'[k] = "report" => runErr'[k] # "none"
    BY <1>6 DEF RunFinalize
  <2> QED
    BY <1>6, <2>2, <2>3, <2>4 DEF RunFinalize
<1>7. CASE RunReport(j)
  BY <1>7 DEF RunReport
<1>8. CASE RunPanic(j)
  BY <1>8 DEF RunPanic
<1>9. CASE RunRecover(j)
  BY <1>9 DEF RunRecover
<1>10. CASE RunExit(j)
  BY <1>10 DEF RunExit
<1> QED
  BY <1>1, <1>2, <1>3, <1>4, <1>5, <1>6, <1>7, <1>8, <1>9, <1>10 DEF Run

\* DELETE and the purge worker keep the types.
LEMMA DeleteType ==
    ASSUME TypeInv, (\E d \in Deleters : Delete(d)) \/ PurgeNext
    PROVE  TypeInv'
<1> USE DEF TypeInv, TypeOK, HandsKnown, Status, RunPc, OthersOfDelete, postVars, workerVars,
            runVars, DeleteStep, SetStatus, Exists
<1>1. ASSUME NEW d \in Deleters, DeleteRead(d) PROVE TypeInv'
  BY <1>1 DEF DeleteRead
<1>2. ASSUME NEW d \in Deleters, DeleteWrite(d) PROVE TypeInv'
  <2>1. /\ delJob[d] \in Jobs
        /\ delPc' \in [Deleters -> {"idle", "write", "cancelRun", "enqueue", "done"}]
        /\ \A x \in Deleters \ {d} : delPc'[x] = delPc[x]
    BY <1>2, SMTT(30) DEF DeleteWrite
  <2>2. /\ delJob' \in [Deleters -> Jobs \cup {NoJob}]
        /\ \A x \in Deleters \ {d} : delJob'[x] = delJob[x]
        /\ delPc'[d] # "done" => delJob'[d] = delJob[d]
    BY <1>2, <2>1 DEF DeleteWrite
  <2>3. delPc'[d] # "write" /\ delSeen' \in [Deleters -> Status]
    BY <1>2 DEF DeleteWrite
  <2>4. /\ status' \in [Jobs -> Status]
        /\ \A n \in DOMAIN created : status'[created[n]] # "none"
    BY <1>2, <2>1 DEF DeleteWrite
  <2>5. UNCHANGED <<ctxCancelled, purgePending, OthersOfDelete>>
    BY <1>2 DEF DeleteWrite
  <2>6. HandsKnown'
    BY <2>1, <2>2, <2>3, <2>5
  <2> QED
    BY <2>1, <2>2, <2>3, <2>4, <2>5, <2>6
<1>3. ASSUME NEW d \in Deleters, DeleteCancelRun(d) PROVE TypeInv'
  BY <1>3 DEF DeleteCancelRun
<1>4. ASSUME NEW d \in Deleters, DeleteEnqueue(d) PROVE TypeInv'
  BY <1>4 DEF DeleteEnqueue
<1>5. CASE PurgeNext
  BY <1>5 DEF PurgeNext, deleteVars
<1> QED
  BY <1>1, <1>2, <1>3, <1>4, <1>5 DEF Delete

\* A restart leaves a state of the right types.
LEMMA RestartType ==
    ASSUME TypeInv, Restart
    PROVE  TypeInv'
<1>1. /\ status' \in [Jobs -> Status]
      /\ \A k \in Jobs : status[k] # "none" => status'[k] # "none"
      /\ purgePending' \in SUBSET Jobs /\ restarts' \in 0..MaxRestarts
  BY ConfigAssumption DEF TypeInv, TypeOK, Restart, Status, WithStatus
<1>2. created' \in Seq(Jobs) /\ \A n \in DOMAIN created' : status'[created'[n]] # "none"
  BY <1>1 DEF TypeInv, TypeOK, Restart
<1>3. TypeOK'
  BY <1>1, <1>2 DEF TypeInv, TypeOK, Restart, Status, RunPc
<1>4. HandsKnown'
  BY DEF TypeInv, TypeOK, Restart, HandsKnown
<1> QED
  BY <1>3, <1>4 DEF TypeInv

\* Every step keeps the types.
LEMMA TypeStep == TypeInv /\ [Next]_vars => TypeInv'
<1> SUFFICES ASSUME TypeInv, [Next]_vars PROVE TypeInv'
  OBVIOUS
<1>1. CASE UNCHANGED vars
  BY <1>1 DEF vars, TypeInv, TypeOK, HandsKnown, rowVars, postVars, workerVars, runVars,
              ctxVars, deleteVars
<1>2. CASE Next
  BY <1>2, PostType, WorkerType, RunType, DeleteType, RestartType DEF Next
<1> QED
  BY <1>1, <1>2

\* Every reachable state of the server is well typed, and whoever is about to
\* write a row knows which one.
THEOREM TypeCorrect == Spec => []TypeInv
BY InitType, TypeStep, PTL DEF Spec

\* The type invariant the runs check.
THEOREM TypeSafe == Spec => []TypeOK
BY TypeCorrect, PTL DEF TypeInv

-----------------------------------------------------------------------------
(* The status of a job.                                                     *)

\* Who may write a row although its status says otherwise: a POST creates only
\* what does not exist, only ended jobs are purged, and a DELETE that read an
\* ended status still finds one.
RowInv ==
    /\ \A j \in Jobs : postPc[j] = "create" => status[j] = "none"
    /\ \A j \in purgePending : status[j] \in Ended
    /\ \A d \in Deleters : delPc[d] = "write" =>
          /\ status[delJob[d]] # "none"
          /\ delSeen[d] \notin {"queued", "running"} => status[delJob[d]] \in Ended
    /\ \A d \in Deleters : delPc[d] = "enqueue" => status[delJob[d]] \in Ended

\* What one step may do to the status of job j: create it, start it, end it.
Created(j) == postPc[j] = "create" /\ postPc'[j] # "create" /\ status'[j] = "queued"
Started(j) ==
    /\ status[j] = "queued" /\ status'[j] = "running" /\ runPc'[j] = "spawned"
    /\ \/ postPc[j] = "start" /\ postPc'[j] # "start"
       \/ workerPc = "claim" /\ workerPc' # "claim" /\ workerJob = j
EndedBy(j) == status[j] # "none" /\ status'[j] \in Ended
StatusStep(j) == status'[j] = status[j] \/ Created(j) \/ Started(j) \/ EndedBy(j)

\* UpdateJobStarted starts a queued job or does nothing.
LEMMA StartSteps ==
    ASSUME TypeOK, NEW j \in Jobs, StartJob(j)
    PROVE  /\ \A k \in Jobs \ {j} : status'[k] = status[k]
           /\ \/ status'[j] = status[j]
              \/ status[j] = "queued" /\ status'[j] = "running" /\ runPc'[j] = "spawned"
<1>1. CASE status[j] = "queued"
  BY <1>1 DEF TypeOK, StartJob
<1>2. CASE status[j] # "queued"
  BY <1>2 DEF TypeOK, StartJob
<1> QED
  BY <1>1, <1>2

\* A write of a status that ends a job touches that job only, and only if its
\* row is there.
LEMMA SetSteps ==
    ASSUME TypeOK, NEW j \in Jobs, NEW s \in Ended, SetStatus(j, s)
    PROVE  \A k \in Jobs : status'[k] = status[k] \/ EndedBy(k)
BY DEF TypeOK, SetStatus, Exists, EndedBy

\* Every step creates, starts or ends a job, or leaves its status alone.
LEMMA StatusSteps ==
    ASSUME TypeInv, RowInv, Next, NEW k \in Jobs
    PROVE  StatusStep(k)
<1> USE DEF TypeInv
<1>1. ASSUME NEW j \in Jobs, Post(j) PROVE StatusStep(k)
  <2>1. CASE PostCount(j)
    BY <2>1 DEF PostCount, rowVars, StatusStep
  <2>2. CASE PostCreate(j)
    BY <2>2 DEF PostCreate, TypeOK, StatusStep, Created
  <2>3. CASE PostStart(j)
    BY <2>3, StartSteps DEF PostStart, TypeOK, StatusStep, Started
  <2> QED
    BY <1>1, <2>1, <2>2, <2>3 DEF Post
<1>2. CASE Worker
  <2>1. CASE WorkerClaim
    BY <2>1, StartSteps DEF WorkerClaim, WorkerStep, HandsKnown, StatusStep, Started
  <2> QED
    BY <1>2, <2>1 DEF Worker, WorkerWake, WorkerCount, WorkerNext, StatusStep
<1>3. ASSUME NEW j \in Jobs, Run(j) \/ RunWatch(j) PROVE StatusStep(k)
  <2>1. CASE UNCHANGED status
    BY <2>1 DEF StatusStep
  <2>2. CASE \E s \in Ended : SetStatus(j, s)
    BY <2>2, SetSteps DEF StatusStep
  <2>3. CASE RunReport(j)
    <3>1. runErr[j] \in Ended /\ SetStatus(j, runErr[j])
      BY <2>3 DEF RunReport, RunStep, TypeOK, HandsKnown, Ended
    <3> QED
      BY <3>1, <2>2
  <2>4. CASE RunCancelJob(j) \/ RunRecover(j) \/ RunFinalize(j)
    <3>1. \E s \in {"cancelled", "failed", "completed"} : SetStatus(j, s)
      BY <2>4 DEF RunCancelJob, RunRecover, RunFinalize
    <3> QED
      BY <3>1, <2>2 DEF Ended
  <2>5. CASE ~(RunReport(j) \/ RunCancelJob(j) \/ RunRecover(j) \/ RunFinalize(j))
    BY <1>3, <2>1, <2>5 DEF Run, RunRegister, RunLoad, RunCheck, RunWatch, RunPanic, RunExit
  <2> QED
    BY <2>3, <2>4, <2>5
<1>4. ASSUME NEW d \in Deleters, Delete(d) PROVE StatusStep(k)
  <2>1. CASE DeleteRead(d) \/ DeleteCancelRun(d)
    BY <2>1 DEF DeleteRead, DeleteCancelRun, StatusStep
  <2>2. CASE DeleteWrite(d)
    <3>1. delJob[d] \in Jobs
      BY <2>2 DEF DeleteWrite, HandsKnown
    <3>2. UNCHANGED status \/ \E s \in {"cancelled", "cancelling", "deleting"} : SetStatus(delJob[d], s)
      BY <2>2 DEF DeleteWrite
    <3> QED
      BY <3>1, <3>2, SetSteps DEF Ended, StatusStep
  <2>3. CASE DeleteEnqueue(d)
    <3>1. delJob[d] \in Jobs /\ status[delJob[d]] # "none"
      BY <2>3 DEF DeleteEnqueue, DeleteStep, HandsKnown, RowInv, Ended
    <3>2. UNCHANGED status \/ status' = [status EXCEPT ![delJob[d]] = "purged"]
      BY <2>3 DEF DeleteEnqueue
    <3> QED
      BY <3>1, <3>2 DEF TypeOK, StatusStep, EndedBy, Ended
  <2> QED
    BY <1>4, <2>1, <2>2, <2>3 DEF Delete
<1>5. CASE PurgeNext
  BY <1>5 DEF PurgeNext, TypeOK, RowInv, StatusStep, EndedBy, Ended
<1>6. CASE Restart
  BY <1>6 DEF Restart, TypeOK, StatusStep, EndedBy, Ended, Reaped, WithStatus
<1> QED
  BY <1>1, <1>2, <1>3, <1>4, <1>5, <1>6 DEF Next

\* A DELETE request is changed by its own steps and by a restart only.
LEMMA DeleterFrame ==
    ASSUME TypeOK, Next, NEW d \in Deleters
    PROVE  \/ Delete(d) \/ Restart
           \/ delPc'[d] = delPc[d] /\ delJob'[d] = delJob[d] /\ delSeen'[d] = delSeen[d]
<1>1. CASE UNCHANGED deleteVars
  BY <1>1 DEF deleteVars
<1>2. ASSUME NEW j \in Jobs, Post(j) \/ Run(j) \/ RunWatch(j) PROVE UNCHANGED deleteVars
  BY <1>2 DEF Post, PostCount, PostCreate, PostStart, OthersOfPost, Run, RunRegister, RunLoad,
       RunCheck, RunCancelJob, RunWatch, RunFinalize, RunReport, RunPanic, RunRecover, RunExit,
       OthersOfRun
<1>3. Worker \/ PurgeNext => UNCHANGED deleteVars
  BY DEF Worker, WorkerWake, WorkerCount, WorkerNext, WorkerClaim, OthersOfWorker, PurgeNext
<1>4. ASSUME NEW x \in Deleters \ {d}, Delete(x)
      PROVE  delPc'[d] = delPc[d] /\ delJob'[d] = delJob[d] /\ delSeen'[d] = delSeen[d]
  BY <1>4 DEF Delete, DeleteRead, DeleteWrite, DeleteCancelRun, DeleteEnqueue, DeleteStep, TypeOK
<1> QED
  BY <1>1, <1>2, <1>3, <1>4 DEF Next

\* A job enters the purge queue by the DELETE that has tombstoned it, or because
\* a restart found its tombstone.
LEMMA PurgeFrame ==
    ASSUME TypeOK, Next, NEW j \in purgePending'
    PROVE  \/ j \in purgePending
           \/ \E d \in Deleters : delPc[d] = "enqueue" /\ delJob[d] = j
           \/ Restart /\ status[j] = "deleting"
<1>1. ASSUME NEW k \in Jobs, Post(k) \/ Run(k) \/ RunWatch(k) PROVE UNCHANGED purgePending
  BY <1>1 DEF Post, PostCount, PostCreate, PostStart, OthersOfPost, Run, RunRegister, RunLoad,
       RunCheck, RunCancelJob, RunWatch, RunFinalize, RunReport, RunPanic, RunRecover, RunExit,
       OthersOfRun
<1>2. Worker => UNCHANGED purgePending
  BY DEF Worker, WorkerWake, WorkerCount, WorkerNext, WorkerClaim, OthersOfWorker
<1>3. ASSUME NEW d \in Deleters, Delete(d), j \notin purgePending
      PROVE  delPc[d] = "enqueue" /\ delJob[d] = j
  BY <1>3 DEF Delete, DeleteRead, DeleteWrite, DeleteCancelRun, DeleteEnqueue, DeleteStep
<1>4. PurgeNext => purgePending' \subseteq purgePending
  BY DEF PurgeNext
<1>5. Restart => status[j] = "deleting"
  BY DEF Restart, WithStatus
<1> QED
  BY <1>1, <1>2, <1>3, <1>4, <1>5 DEF Next

\* RowInv holds in every reachable state.
THEOREM RowsGuarded == Spec => []RowInv
<1>1. Init => RowInv
  BY DEF Init, RowInv
<1>2. TypeInv /\ RowInv /\ [Next]_vars => RowInv'
  <2> SUFFICES ASSUME TypeInv, RowInv, [Next]_vars PROVE RowInv'
    OBVIOUS
  <2>1. CASE UNCHANGED vars
    BY <2>1 DEF vars, RowInv, rowVars, postVars, deleteVars
  <2>2. CASE Next
    <3>1. \A j \in Jobs : StatusStep(j)
      BY <2>2, StatusSteps
    <3>2. \A j \in Jobs : /\ status[j] \in Ended => status'[j] \in Ended
                          /\ status[j] # "none" => status'[j] # "none"
      BY <3>1 DEF RowInv, StatusStep, Created, Started, EndedBy, Ended
    <3>3. \A j \in Jobs : postPc'[j] = "create" => status'[j] = "none"
      <4> SUFFICES ASSUME NEW j \in Jobs, postPc'[j] = "create" PROVE status'[j] = "none"
        OBVIOUS
      <4>1. postPc[j] = "create" \/ PostCount(j)
        BY <2>2 DEF Next, TypeInv, TypeOK, Post, PostCreate, PostStart, PostCount,
            Worker, WorkerWake, WorkerCount, WorkerNext, WorkerClaim, OthersOfWorker, postVars,
            Run, RunRegister, RunLoad, RunCheck, RunCancelJob, RunWatch, RunFinalize, RunReport,
            RunPanic, RunRecover, RunExit, OthersOfRun,
            Delete, DeleteRead, DeleteWrite, DeleteCancelRun, DeleteEnqueue, PurgeNext,
            OthersOfDelete, Restart
      <4>2. CASE PostCount(j)
        BY <4>2 DEF PostCount, rowVars
      <4> QED
        BY <3>1, <4>1, <4>2 DEF RowInv, StatusStep, Created, Started, EndedBy
    <3>4. \A j \in purgePending' : status'[j] \in Ended
      <4> SUFFICES ASSUME NEW j \in purgePending' PROVE status'[j] \in Ended
        OBVIOUS
      <4>1. j \in Jobs
        BY <2>2, TypeStep DEF TypeInv, TypeOK
      <4>2. status[j] \in Ended
        BY <2>2, PurgeFrame DEF TypeInv, RowInv, Ended
      <4> QED
        BY <3>2, <4>1, <4>2
    <3>5. ASSUME NEW d \in Deleters, delPc'[d] = "write"
          PROVE  /\ status'[delJob'[d]] # "none"
                 /\ delSeen'[d] \notin {"queued", "running"} => status'[delJob'[d]] \in Ended
      <4>1. CASE DeleteRead(d)
        BY <4>1 DEF DeleteRead, DeleteStep, Exists, TypeInv, TypeOK, Status, Ended
      <4>2. CASE delPc'[d] = delPc[d] /\ delJob'[d] = delJob[d] /\ delSeen'[d] = delSeen[d]
        BY <3>2, <3>5, <4>2 DEF RowInv, TypeInv, HandsKnown
      <4>3. ~Restart /\ (Delete(d) => DeleteRead(d))
        BY <3>5 DEF Restart, Delete, DeleteRead, DeleteWrite, DeleteCancelRun, DeleteEnqueue,
             DeleteStep, TypeInv, TypeOK
      <4> QED
        BY <2>2, <4>1, <4>2, <4>3, DeleterFrame DEF TypeInv
    <3>6. ASSUME NEW d \in Deleters, delPc'[d] = "enqueue" PROVE status'[delJob'[d]] \in Ended
      <4>1. CASE DeleteWrite(d)
        <5>1. delJob[d] \in Jobs /\ delJob'[d] = delJob[d] /\ delSeen[d] \notin {"queued", "running"}
          BY <3>6, <4>1 DEF DeleteWrite, DeleteStep, TypeInv, TypeOK, HandsKnown
        <5> QED
          BY <3>2, <4>1, <5>1 DEF DeleteWrite, RowInv
      <4>2. CASE delPc'[d] = delPc[d] /\ delJob'[d] = delJob[d]
        BY <3>2, <3>6, <4>2 DEF RowInv, TypeInv, HandsKnown
      <4>3. ~Restart /\ (Delete(d) => DeleteWrite(d))
        BY <3>6 DEF Restart, Delete, DeleteRead, DeleteWrite, DeleteCancelRun, DeleteEnqueue,
             DeleteStep, TypeInv, TypeOK
      <4> QED
        BY <2>2, <4>1, <4>2, <4>3, DeleterFrame DEF TypeInv
    <3> QED
      BY <3>3, <3>4, <3>5, <3>6 DEF RowInv
  <2> QED
    BY <2>1, <2>2
<1> QED
  BY <1>1, <1>2, TypeCorrect, PTL DEF Spec

\* A job that was cancelled, ended or deleted is never started.
THEOREM NeverRestarts == Spec => EndedNeverRestarts
<1>1. TypeInv /\ RowInv /\ [Next]_vars
        => [\A j \in Jobs : status[j] \in Ended => status'[j] \in Ended]_vars
  BY StatusSteps DEF RowInv, StatusStep, Created, Started, EndedBy, Ended
<1> QED
  BY <1>1, TypeCorrect, RowsGuarded, PTL DEF Spec, EndedNeverRestarts

-----------------------------------------------------------------------------
(* The run of a running job.                                                *)

\* A goroutine is spawned for a queued job that starts.
Spawned(j) == status[j] = "queued" /\ status'[j] = "running" /\ runPc'[j] = "spawned"

\* Only a job's own run, its start and a restart move its goroutine.
LEMMA RunFrame ==
    ASSUME TypeInv, Next, NEW k \in Jobs
    PROVE  Run(k) \/ Restart \/ runPc'[k] = runPc[k] \/ Spawned(k)
<1> USE DEF TypeInv
<1>1. ASSUME NEW j \in Jobs, StartJob(j)
      PROVE  runPc'[k] = runPc[k] \/ Spawned(k)
  BY <1>1 DEF StartJob, TypeOK, Spawned
<1>2. ASSUME NEW j \in Jobs, Post(j)
      PROVE  runPc'[k] = runPc[k] \/ Spawned(k)
  BY <1>1, <1>2 DEF Post, PostCount, PostCreate, PostStart
<1>3. ASSUME Worker
      PROVE  runPc'[k] = runPc[k] \/ Spawned(k)
  <2>1. CASE WorkerClaim
    BY <1>1, <2>1 DEF WorkerClaim, WorkerStep, HandsKnown
  <2> QED
    BY <1>3, <2>1 DEF Worker, WorkerWake, WorkerCount, WorkerNext
<1>4. ASSUME NEW j \in Jobs \ {k}, Run(j) PROVE runPc'[k] = runPc[k]
  BY <1>4 DEF Run, RunRegister, RunLoad, RunCheck, RunCancelJob, RunFinalize, RunReport, RunPanic,
       RunRecover, RunExit, RunStep, TypeOK
<1>5. ASSUME NEW j \in Jobs, RunWatch(j) PROVE runPc'[k] = runPc[k]
  BY <1>5 DEF RunWatch, runVars
<1>6. (\E d \in Deleters : Delete(d)) \/ PurgeNext => runPc'[k] = runPc[k]
  BY DEF Delete, DeleteRead, DeleteWrite, DeleteCancelRun, DeleteEnqueue, PurgeNext,
     OthersOfDelete, runVars
<1> QED
  BY <1>2, <1>3, <1>4, <1>5, <1>6 DEF Next

\* Every step keeps a run for every running job.
LEMMA RunningHasRunStep ==
    ASSUME TypeInv, RowInv, RunningHasRun, Next
    PROVE  RunningHasRun'
<1> DEFINE Alive == {"spawned", "load", "check", "cancel", "crawl", "panicked"}
<1> SUFFICES ASSUME NEW k \in Jobs, status'[k] = "running" PROVE runPc'[k] \in Alive
  BY DEF RunningHasRun, Running, WithStatus
<1>1. CASE Started(k)
  BY <1>1 DEF Started
<1>2. CASE status[k] = "running"
  <2>1. runPc[k] \in Alive
    BY <1>2 DEF RunningHasRun, Running, WithStatus
  <2>2. CASE Run(k)
    BY <1>2, <2>1, <2>2 DEF Run, RunRegister, RunLoad, RunCheck, RunCancelJob, RunFinalize,
       RunReport, RunPanic, RunRecover, RunExit, RunStep, SetStatus, Exists, TypeInv, TypeOK
  <2>3. ~Restart
    BY <1>2 DEF Restart, Reaped, WithStatus
  <2> QED
    BY <1>2, <2>1, <2>2, <2>3, RunFrame DEF Spawned
<1>3. status[k] = "running" \/ Started(k)
  BY StatusSteps DEF StatusStep, Created, EndedBy, Ended
<1> QED
  BY <1>1, <1>2, <1>3

\* Every running job has a run that will give it another status.
THEOREM RunningJobsRun == Spec => []RunningHasRun
<1>1. Init => RunningHasRun
  BY DEF Init, RunningHasRun, Running, WithStatus
<1>2. TypeInv /\ RowInv /\ RunningHasRun /\ [Next]_vars => RunningHasRun'
  <2>1. RunningHasRun /\ UNCHANGED vars => RunningHasRun'
    BY DEF vars, rowVars, runVars, RunningHasRun, Running, WithStatus
  <2> QED
    BY <2>1, RunningHasRunStep
<1> QED
  BY <1>1, <1>2, TypeCorrect, RowsGuarded, PTL DEF Spec

-----------------------------------------------------------------------------
(* A DELETE reaches the crawl.                                              *)

\* A run is registered for as long as it lasts, and a run that has read its row
\* as 'running' knows of a cancellation, or will be told.
CancelInv ==
    /\ \A j \in Jobs : runPc[j] \notin {"none", "spawned"} => j \in running
    /\ \A j \in Jobs : runPc[j] \in {"check", "crawl"} /\ status[j] # "running"
          => ctxCancelled[j] \/ \E d \in Deleters : delPc[d] = "cancelRun" /\ delJob[d] = j

\* A run stays registered, and its context cancelled, until it exits.
LEMMA ContextFrame ==
    ASSUME TypeInv, Next, NEW k \in Jobs, ~RunExit(k), ~Restart
    PROVE  /\ k \in running => k \in running'
           /\ ctxCancelled[k] => ctxCancelled'[k]
<1> USE DEF TypeInv, TypeOK
<1>1. CASE UNCHANGED ctxVars
  BY <1>1 DEF ctxVars
<1>2. ASSUME NEW j \in Jobs, Post(j) PROVE UNCHANGED ctxVars
  BY <1>2 DEF Post, PostCount, PostCreate, PostStart, OthersOfPost
<1>3. Worker => UNCHANGED ctxVars
  BY DEF Worker, WorkerWake, WorkerCount, WorkerNext, WorkerClaim, OthersOfWorker
<1>4. ASSUME NEW j \in Jobs, Run(j) \/ RunWatch(j)
      PROVE  /\ k \in running => k \in running'
             /\ ctxCancelled[k] => ctxCancelled'[k]
  <2>1. CASE RunExit(j)
    BY <2>1 DEF RunExit
  <2>2. CASE RunRegister(j)
    BY <2>2 DEF RunRegister
  <2>3. CASE RunWatch(j)
    BY <2>3 DEF RunWatch
  <2>4. CASE ~(RunExit(j) \/ RunRegister(j) \/ RunWatch(j))
    BY <1>1, <1>4, <2>4 DEF Run, RunLoad, RunCheck, RunCancelJob, RunFinalize, RunReport,
       RunPanic, RunRecover
  <2> QED
    BY <2>1, <2>2, <2>3, <2>4
<1>5. ASSUME NEW d \in Deleters, Delete(d)
      PROVE  /\ k \in running => k \in running'
             /\ ctxCancelled[k] => ctxCancelled'[k]
  <2>1. CASE DeleteCancelRun(d)
    BY <2>1 DEF DeleteCancelRun, OthersOfDelete
  <2> QED
    BY <1>5, <2>1 DEF Delete, DeleteRead, DeleteWrite, DeleteEnqueue, OthersOfDelete
<1>6. PurgeNext => UNCHANGED ctxVars
  BY DEF PurgeNext, OthersOfDelete, ctxVars
<1> QED
  BY <1>1, <1>2, <1>3, <1>4, <1>5, <1>6 DEF Next

\* Every step keeps a run registered for as long as it lasts.
LEMMA RegisteredStep ==
    ASSUME TypeInv, CancelInv, Next, NEW k \in Jobs, runPc'[k] \notin {"none", "spawned"}
    PROVE  k \in running'
<1>1. ~Restart /\ ~RunExit(k)
  BY DEF Restart, RunExit, RunStep, TypeInv, TypeOK
<1>2. CASE RunRegister(k)
  BY <1>2 DEF RunRegister
<1>3. CASE Run(k) /\ ~RunRegister(k)
  <2>1. runPc[k] \notin {"none", "spawned"}
    BY <1>1, <1>3 DEF Run, RunLoad, RunCheck, RunCancelJob, RunFinalize, RunReport, RunPanic,
       RunRecover, RunStep
  <2> QED
    BY <1>1, <2>1, ContextFrame DEF CancelInv
<1>4. CASE runPc'[k] = runPc[k]
  BY <1>1, <1>4, ContextFrame DEF CancelInv
<1> QED
  BY <1>1, <1>2, <1>3, <1>4, RunFrame DEF Spawned

\* A DELETE that takes a running job's status away is about to cancel its run:
\* one that tombstones or purges a job has read, and still finds, an ended one.
LEMMA StatusTaken ==
    ASSUME TypeInv, RowInv, Next, NEW k \in Jobs, ~Run(k), ~Restart,
           status[k] = "running", status'[k] # "running"
    PROVE  \E d \in Deleters : delPc'[d] = "cancelRun" /\ delJob'[d] = k
<1> USE DEF TypeInv, TypeOK
<1>1. ASSUME NEW d \in Deleters, DeleteWrite(d)
      PROVE  delPc'[d] = "cancelRun" /\ delJob'[d] = k
  <2>1. delJob[d] = k
    BY <1>1 DEF DeleteWrite, SetStatus, HandsKnown
  <2>2. delSeen[d] \in {"queued", "running"}
    BY <1>1, <2>1 DEF DeleteWrite, RowInv, Ended
  <2>3. Exists(k)
    BY DEF Exists
  <2> QED
    BY <1>1, <2>1, <2>2, <2>3 DEF DeleteWrite, DeleteStep
<1>2. ASSUME NEW d \in Deleters PROVE ~(DeleteRead(d) \/ DeleteCancelRun(d) \/ DeleteEnqueue(d))
  BY <1>2 DEF DeleteRead, DeleteCancelRun, DeleteEnqueue, DeleteStep, RowInv, Ended, HandsKnown
<1>3. ~PurgeNext
  BY DEF PurgeNext, RowInv, Ended
<1>4. ASSUME NEW j \in Jobs PROVE ~Post(j)
  BY <1>4 DEF Post, PostCount, PostCreate, PostStart, StartJob, rowVars, RowInv
<1>5. ~Worker
  BY DEF Worker, WorkerWake, WorkerCount, WorkerNext, WorkerClaim, StartJob, WorkerStep, HandsKnown
<1>6. ASSUME NEW j \in Jobs PROVE ~(Run(j) \/ RunWatch(j))
  BY <1>6 DEF Run, RunRegister, RunLoad, RunCheck, RunCancelJob, RunFinalize, RunReport,
     RunPanic, RunRecover, RunExit, RunWatch, SetStatus
<1> QED
  BY <1>1, <1>2, <1>3, <1>4, <1>5, <1>6 DEF Next, Delete

\* Every step keeps the promise of a cancellation, or fulfils it.
LEMMA CancelStep ==
    ASSUME TypeInv, RowInv, CancelInv, Next, NEW k \in Jobs,
           runPc'[k] \in {"check", "crawl"}, status'[k] # "running"
    PROVE  ctxCancelled'[k] \/ \E d \in Deleters : delPc'[d] = "cancelRun" /\ delJob'[d] = k
<1>1. ~Restart /\ ~RunExit(k)
  BY DEF Restart, RunExit, RunStep, TypeInv, TypeOK
<1>2. CASE Run(k)
  <2>1. RunCheck(k)
    BY <1>2 DEF Run, RunRegister, RunLoad, RunCancelJob, RunFinalize, RunReport, RunPanic,
       RunRecover, RunExit, RunStep, TypeInv, TypeOK
  <2>2. /\ runPc[k] = "check" /\ status[k] # "running"
        /\ UNCHANGED deleteVars /\ UNCHANGED ctxVars
    BY <2>1 DEF RunCheck, RunStep, OthersOfRun
  <2> QED
    BY <2>2 DEF CancelInv, deleteVars, ctxVars
<1>3. CASE ~Run(k)
  <2>1. runPc'[k] = runPc[k]
    BY <1>1, <1>3, RunFrame DEF Spawned
  <2>2. CASE status[k] = "running"
    BY <1>1, <1>3, <2>2, StatusTaken
  <2>3. CASE status[k] # "running" /\ ctxCancelled[k]
    BY <1>1, <2>3, ContextFrame
  <2>4. CASE status[k] # "running" /\ ~ctxCancelled[k]
    <3>1. PICK d \in Deleters : delPc[d] = "cancelRun" /\ delJob[d] = k
      BY <2>1, <2>4 DEF CancelInv
    <3>2. CASE Delete(d)
      <4>1. DeleteCancelRun(d)
        BY <3>1, <3>2 DEF Delete, DeleteRead, DeleteWrite, DeleteEnqueue, DeleteStep
      <4>2. k \in running
        BY <2>1 DEF CancelInv
      <4> QED
        BY <3>1, <4>1, <4>2 DEF DeleteCancelRun, TypeInv, TypeOK
    <3> QED
      BY <1>1, <3>1, <3>2, DeleterFrame DEF TypeInv
  <2> QED
    BY <2>2, <2>3, <2>4
<1> QED
  BY <1>2, <1>3

\* CancelInv holds in every reachable state.
THEOREM RunsCancellable == Spec => []CancelInv
<1>1. Init => CancelInv
  BY DEF Init, CancelInv
<1>2. TypeInv /\ RowInv /\ CancelInv /\ [Next]_vars => CancelInv'
  <2>1. CancelInv /\ UNCHANGED vars => CancelInv'
    BY DEF vars, rowVars, runVars, ctxVars, deleteVars, CancelInv
  <2>2. TypeInv /\ RowInv /\ CancelInv /\ Next => CancelInv'
    <3> SUFFICES ASSUME TypeInv, RowInv, CancelInv, Next PROVE CancelInv'
      OBVIOUS
    <3>1. \A j \in Jobs : runPc'[j] \notin {"none", "spawned"} => j \in running'
      BY RegisteredStep
    <3>2. \A j \in Jobs : runPc'[j] \in {"check", "crawl"} /\ status'[j] # "running"
            => ctxCancelled'[j] \/ \E d \in Deleters : delPc'[d] = "cancelRun" /\ delJob'[d] = j
      BY CancelStep
    <3> QED
      BY <3>1, <3>2 DEF CancelInv
  <2> QED
    BY <2>1, <2>2
<1> QED
  BY <1>1, <1>2, TypeCorrect, RowsGuarded, PTL DEF Spec

\* A crawl in progress whose row no longer says 'running' is cancelled, or a
\* DELETE is about to cancel it.
THEOREM CancelDelivered == Spec => []CancelReachesRun
<1>1. CancelInv => CancelReachesRun
  BY DEF CancelInv, CancelReachesRun
<1> QED
  BY <1>1, RunsCancellable, PTL

-----------------------------------------------------------------------------
(* The critical section and the crawl limit.                                *)

\* crawlMu excludes POSTs and the queue worker from each other.
LockInv ==
    /\ \A j \in Jobs : postPc[j] # "idle" => crawlMu
    /\ workerPc \in {"next", "claim"} => crawlMu /\ \A j \in Jobs : postPc[j] = "idle"
    /\ \A j, k \in Jobs : postPc[j] # "idle" /\ postPc[k] # "idle" => j = k

\* Only its own request and a restart move a POST.
LEMMA OutsideLock ==
    ASSUME TypeInv, Next, \A j \in Jobs : ~Post(j), ~Worker, ~Restart
    PROVE  UNCHANGED <<crawlMu, created, postVars, workerVars>>
<1>1. ASSUME NEW j \in Jobs, Run(j) \/ RunWatch(j)
      PROVE  UNCHANGED <<crawlMu, created, postVars, workerVars>>
  BY <1>1 DEF Run, RunRegister, RunLoad, RunCheck, RunCancelJob, RunWatch, RunFinalize, RunReport,
     RunPanic, RunRecover, RunExit, OthersOfRun
<1>2. (\E d \in Deleters : Delete(d)) \/ PurgeNext
      => UNCHANGED <<crawlMu, created, postVars, workerVars>>
  BY DEF Delete, DeleteRead, DeleteWrite, DeleteCancelRun, DeleteEnqueue, PurgeNext, OthersOfDelete
<1> QED
  BY <1>1, <1>2 DEF Next

\* Every step keeps the critical section exclusive.
LEMMA LockStep ==
    ASSUME TypeInv, LockInv, Next
    PROVE  LockInv'
<1> USE DEF TypeInv, TypeOK, LockInv
<1>1. ASSUME NEW j \in Jobs, Post(j) PROVE LockInv'
  <2>1. CASE PostCount(j)
    BY <2>1 DEF PostCount, OthersOfPost, workerVars
  <2>2. CASE PostCreate(j)
    BY <2>2 DEF PostCreate, OthersOfPost, workerVars
  <2>3. CASE PostStart(j)
    BY <2>3 DEF PostStart, OthersOfPost, workerVars
  <2> QED
    BY <1>1, <2>1, <2>2, <2>3 DEF Post
<1>2. CASE Worker
  BY <1>2 DEF Worker, WorkerWake, WorkerCount, WorkerNext, WorkerClaim, WorkerStep,
     OthersOfWorker, postVars
<1>3. CASE Restart
  BY <1>3 DEF Restart
<1>4. CASE UNCHANGED <<crawlMu, created, postVars, workerVars>>
  BY <1>4 DEF postVars, workerVars
<1> QED
  BY <1>1, <1>2, <1>3, <1>4, OutsideLock

\* crawlMu is held by one party at most.
THEOREM LockExclusive == Spec => []LockInv
<1>1. Init => LockInv
  BY DEF Init, LockInv
<1>2. TypeInv /\ LockInv /\ [Next]_vars => LockInv'
  <2>1. LockInv /\ UNCHANGED vars => LockInv'
    BY DEF vars, postVars, workerVars, LockInv
  <2> QED
    BY <2>1, LockStep
<1> QED
  BY <1>1, <1>2, TypeCorrect, PTL DEF Spec

\* Whoever has found a free slot under the lock still has it: queued jobs count
\* for a POST, and only lock holders create or start jobs.
LimitInv ==
    /\ Cardinality(Running) <= MaxConcurrent
    /\ \A j \in Jobs : postPc[j] = "create" /\ runNow[j] => Cardinality(Active) < MaxConcurrent
    /\ \A j \in Jobs : postPc[j] = "start" => Cardinality(Active) <= MaxConcurrent
    /\ workerPc \in {"next", "claim"} => Cardinality(Running) < MaxConcurrent

\* Sets of jobs are finite: a smaller set counts less, and one more job counts
\* one more at most.
LEMMA JobCounts ==
    ASSUME NEW A \in SUBSET Jobs, NEW B \in SUBSET Jobs
    PROVE  /\ Cardinality(A) \in Nat
           /\ B \subseteq A => Cardinality(B) <= Cardinality(A)
           /\ \A j \in Jobs : B \subseteq A \cup {j} => Cardinality(B) <= Cardinality(A) + 1
<1>1. IsFiniteSet(A) /\ IsFiniteSet(B) /\ Cardinality(A) \in Nat /\ Cardinality(B) \in Nat
  BY JobsAssumption, FS_Subset, FS_CardinalityType
<1>2. B \subseteq A => Cardinality(B) <= Cardinality(A)
  BY <1>1, FS_Subset
<1>3. ASSUME NEW j \in Jobs, B \subseteq A \cup {j} PROVE Cardinality(B) <= Cardinality(A) + 1
  <2>1. /\ IsFiniteSet(A \cup {j})
        /\ Cardinality(A \cup {j}) = IF j \in A THEN Cardinality(A) ELSE Cardinality(A) + 1
    BY <1>1, FS_AddElement
  <2>2. Cardinality(B) <= Cardinality(A \cup {j})
    BY <1>3, <2>1, FS_Subset
  <2> QED
    BY <1>1, <2>1, <2>2
<1> QED
  BY <1>1, <1>2, <1>3

\* A step that creates no job adds none to the active ones, and one that starts
\* no job adds none to the running ones.
LEMMA SlotsTaken ==
    ASSUME TypeInv, RowInv, Next
    PROVE  /\ \A j \in Jobs : j \in Active' => j \in Active \/ Created(j)
           /\ \A j \in Jobs : j \in Running' => j \in Running \/ Started(j)
           /\ Active \in SUBSET Jobs /\ Active' \in SUBSET Jobs
           /\ Running \in SUBSET Active /\ Running' \in SUBSET Active'
<1>1. \A j \in Jobs : StatusStep(j)
  BY StatusSteps
<1> QED
  BY <1>1 DEF StatusStep, Created, Started, EndedBy, Ended, Active, Running, WithStatus

\* Every step keeps the slots that were found free.
LEMMA LimitStep ==
    ASSUME TypeInv, RowInv, LockInv, LimitInv, Next
    PROVE  LimitInv'
<1>1. MaxConcurrent \in Nat
  BY ConfigAssumption
<1>2. /\ Cardinality(Active) \in Nat /\ Cardinality(Active') \in Nat
      /\ Cardinality(Running) \in Nat /\ Cardinality(Running') \in Nat
      /\ Cardinality(Running') <= Cardinality(Active')
  BY SlotsTaken, JobCounts
<1>3. ASSUME \A j \in Jobs : ~Created(j)
      PROVE  Cardinality(Active') <= Cardinality(Active)
  BY <1>3, SlotsTaken, JobCounts
<1>4. ASSUME \A j \in Jobs : ~Started(j)
      PROVE  Cardinality(Running') <= Cardinality(Running)
  <2>1. Running' \subseteq Running /\ Running \in SUBSET Jobs /\ Running' \in SUBSET Jobs
    BY <1>4, SlotsTaken
  <2> QED
    BY <2>1, JobCounts
<1>5. ASSUME NEW j \in Jobs, Post(j) PROVE LimitInv'
  <2>1. CASE PostCount(j)
    <3>1. /\ UNCHANGED <<status, workerPc>>
          /\ \A k \in Jobs : postPc[k] = "idle"
          /\ workerPc \notin {"next", "claim"}
          /\ postPc' = [postPc EXCEPT ![j] = "create"]
          /\ runNow' = [runNow EXCEPT ![j] = Cardinality(Active) < MaxConcurrent]
      BY <2>1 DEF PostCount, LockInv, OthersOfPost, workerVars, rowVars
    <3>2. Active' = Active /\ Running' = Running
      BY <3>1 DEF Active, Running, WithStatus
    <3>3. \A k \in Jobs : postPc'[k] # "idle" => k = j /\ postPc'[k] = "create"
      BY <3>1 DEF TypeInv, TypeOK
    <3>4. runNow'[j] => Cardinality(Active) < MaxConcurrent
      BY <3>1 DEF TypeInv, TypeOK
    <3> QED
      BY <3>1, <3>2, <3>3, <3>4 DEF LimitInv
  <2>2. CASE PostCreate(j)
    <3>1. /\ \A k \in Jobs : postPc'[k] # "idle" => k = j /\ postPc'[k] = "start" /\ runNow[j]
          /\ postPc[j] = "create"
          /\ workerPc' \notin {"next", "claim"}
      BY <2>2 DEF PostCreate, LockInv, OthersOfPost, workerVars, TypeInv, TypeOK
    <3>2. \A k \in Jobs : ~Started(k) /\ (Created(k) => k = j)
      BY <2>2, <3>1 DEF PostCreate, LockInv, OthersOfPost, workerVars, Started, Created, TypeInv, TypeOK
    <3>3. Active' \subseteq Active \cup {j}
      BY <3>2, SlotsTaken
    <3>4. Cardinality(Active') <= Cardinality(Active) + 1
      BY <3>3, SlotsTaken, JobCounts
    <3> QED
      BY <1>1, <1>2, <1>4, <3>1, <3>2, <3>4 DEF LimitInv
  <2>3. CASE PostStart(j)
    <3>1. /\ \A k \in Jobs : postPc'[k] = "idle"
          /\ postPc[j] = "start"
          /\ workerPc' \notin {"next", "claim"}
          /\ \A k \in Jobs : ~Created(k)
      BY <2>3 DEF PostStart, LockInv, OthersOfPost, workerVars, Created, TypeInv, TypeOK
    <3> QED
      BY <1>1, <1>2, <1>3, <3>1 DEF LimitInv
  <2> QED
    BY <1>5, <2>1, <2>2, <2>3 DEF Post
<1>6. CASE Worker
  <2>1. UNCHANGED <<postPc, runNow>> /\ \A k \in Jobs : ~Created(k)
    BY <1>6 DEF Worker, WorkerWake, WorkerCount, WorkerNext, WorkerClaim, OthersOfWorker, postVars,
       Created
  <2>2. CASE WorkerClaim
    <3>1. /\ workerPc = "claim" /\ workerPc' = "wait" /\ workerJob \in Jobs
          /\ \A k \in Jobs : postPc'[k] = "idle"
          /\ \A k \in Jobs : Started(k) => k = workerJob
      BY <2>1, <2>2 DEF WorkerClaim, WorkerStep, LockInv, Started, TypeInv, HandsKnown
    <3>2. Running' \subseteq Running \cup {workerJob}
      BY <3>1, SlotsTaken
    <3>3. Cardinality(Running') <= Cardinality(Running) + 1
      BY <3>1, <3>2, SlotsTaken, JobCounts
    <3> QED
      BY <1>1, <1>2, <3>1, <3>3 DEF LimitInv
  <2>3. CASE WorkerWake \/ WorkerCount \/ WorkerNext
    <3>1. UNCHANGED status
      BY <2>3 DEF WorkerWake, WorkerCount, WorkerNext
    <3>2. Active' = Active /\ Running' = Running
      BY <3>1 DEF Active, Running, WithStatus
    <3>3. workerPc' \in {"next", "claim"} => Cardinality(Running) < MaxConcurrent
      BY <2>3 DEF WorkerWake, WorkerCount, WorkerNext, WorkerStep, LimitInv
    <3> QED
      BY <2>1, <3>2, <3>3 DEF LimitInv
  <2> QED
    BY <1>6, <2>2, <2>3 DEF Worker
<1>7. CASE Restart
  <2>1. /\ \A k \in Jobs : postPc'[k] = "idle"
        /\ workerPc' = "wait"
        /\ Running' = {}
    BY <1>7 DEF Restart, Running, Reaped, WithStatus, TypeInv, TypeOK
  <2>2. Running' \subseteq Running
    BY <2>1
  <2>3. Cardinality(Running') <= Cardinality(Running)
    BY <2>2, SlotsTaken, JobCounts
  <2> QED
    BY <1>1, <1>2, <2>1, <2>3 DEF LimitInv
<1>8. CASE UNCHANGED <<crawlMu, created, postVars, workerVars>>
  <2>1. UNCHANGED <<postPc, runNow, workerPc>> /\ \A k \in Jobs : ~Created(k) /\ ~Started(k)
    BY <1>8 DEF postVars, workerVars, Created, Started
  <2> QED
    BY <1>1, <1>2, <1>3, <1>4, <2>1 DEF LimitInv
<1> QED
  BY <1>5, <1>6, <1>7, <1>8, OutsideLock

\* LimitInv holds in every reachable state.
THEOREM SlotsKept == Spec => []LimitInv
<1>1. Init => LimitInv
  <2> SUFFICES ASSUME Init PROVE LimitInv
    OBVIOUS
  <2>1. Running = {}
    BY DEF Init, Running, WithStatus
  <2> QED
    BY <2>1, FS_EmptySet, ConfigAssumption DEF Init, LimitInv
<1>2. TypeInv /\ RowInv /\ LockInv /\ LimitInv /\ [Next]_vars => LimitInv'
  <2>1. LimitInv /\ UNCHANGED vars => LimitInv'
    BY DEF vars, rowVars, postVars, workerVars, LimitInv, Running, Active, WithStatus
  <2> QED
    BY <2>1, LimitStep
<1> QED
  BY <1>1, <1>2, TypeCorrect, RowsGuarded, LockExclusive, PTL DEF Spec

\* Concurrent POSTs and the queue worker never start more crawls than the limit.
THEOREM LimitHeld == Spec => []RunningWithinLimit
<1>1. LimitInv => RunningWithinLimit
  BY DEF LimitInv, RunningWithinLimit
<1> QED
  BY <1>1, SlotsKept, PTL

-----------------------------------------------------------------------------
(* The order of starts.                                                     *)

\* The oldest queued job stays the oldest until the worker has claimed it, and
\* a POST that may start its own job under a limit of one finds no other.
OrderInv ==
    /\ \A m, n \in DOMAIN created : created[m] = created[n] => m = n
    /\ workerPc = "claim" =>
          \A m, n \in DOMAIN created :
             created[n] = workerJob /\ m < n => status[created[m]] # "queued"
    /\ MaxConcurrent = 1 =>
          /\ \A j \in Jobs : postPc[j] = "create" /\ runNow[j] => Active = {}
          /\ \A j \in Jobs : postPc[j] = "start" => Active \subseteq {j}

\* Under a limit of one, no active job means none at all.
LEMMA NoneActive == MaxConcurrent = 1 /\ Cardinality(Active) < MaxConcurrent => Active = {}
<1>1. IsFiniteSet(Active) /\ Cardinality(Active) \in Nat
  BY JobsAssumption, FS_Subset, FS_CardinalityType DEF Active, WithStatus
<1>2. Cardinality(Active) = 0 <=> Active = {}
  BY <1>1, FS_EmptySet
<1> QED
  BY <1>1, <1>2

\* A new job is created last, and only once.
LEMMA CreatedOnce ==
    ASSUME TypeInv, RowInv, OrderInv, NEW j \in Jobs, PostCreate(j)
    PROVE  \A m, n \in DOMAIN created' : created'[m] = created'[n] => m = n
<1>1. /\ created' = Append(created, j) /\ created \in Seq(Jobs)
      /\ \A n \in DOMAIN created : created[n] # j
  BY DEF PostCreate, TypeInv, TypeOK, RowInv
<1>2. /\ DOMAIN created' = 1..(Len(created) + 1) /\ DOMAIN created = 1..Len(created)
      /\ Len(created) \in Nat
      /\ created'[Len(created) + 1] = j
      /\ \A n \in 1..Len(created) : created'[n] = created[n]
  BY <1>1
<1> QED
  BY <1>1, <1>2 DEF OrderInv

\* Every step keeps the order.
LEMMA OrderStep ==
    ASSUME TypeInv, RowInv, LockInv, OrderInv, Next
    PROVE  OrderInv'
<1>1. ASSUME NEW j \in Jobs, Post(j) PROVE OrderInv'
  <2>1. CASE PostCount(j)
    <3>1. /\ UNCHANGED <<status, created, workerPc, workerJob>>
          /\ \A k \in Jobs : postPc[k] = "idle"
          /\ workerPc \notin {"next", "claim"}
          /\ postPc' = [postPc EXCEPT ![j] = "create"]
          /\ runNow' = [runNow EXCEPT ![j] = Cardinality(Active) < MaxConcurrent]
      BY <2>1 DEF PostCount, LockInv, OthersOfPost, workerVars, rowVars
    <3>2. Active' = Active
      BY <3>1 DEF Active, WithStatus
    <3>3. \A k \in Jobs : postPc'[k] # "idle" => k = j /\ postPc'[k] = "create"
      BY <3>1 DEF TypeInv, TypeOK
    <3>4. runNow'[j] => Cardinality(Active) < MaxConcurrent
      BY <3>1 DEF TypeInv, TypeOK
    <3> QED
      BY <3>1, <3>2, <3>3, <3>4, NoneActive DEF OrderInv
  <2>2. CASE PostCreate(j)
    <3>1. /\ \A k \in Jobs : postPc'[k] # "idle" => k = j /\ postPc'[k] = "start" /\ runNow[j]
          /\ postPc[j] = "create"
          /\ workerPc' \notin {"next", "claim"}
      BY <2>2 DEF PostCreate, LockInv, OthersOfPost, workerVars, TypeInv, TypeOK
    <3>2. Active' \subseteq Active \cup {j}
      BY <2>2 DEF PostCreate, TypeInv, TypeOK, Active, WithStatus
    <3> QED
      BY <2>2, <3>1, <3>2, CreatedOnce DEF OrderInv
  <2>3. CASE PostStart(j)
    <3>1. /\ \A k \in Jobs : postPc'[k] = "idle"
          /\ workerPc' \notin {"next", "claim"}
          /\ UNCHANGED created
      BY <2>3 DEF PostStart, LockInv, OthersOfPost, workerVars, TypeInv, TypeOK
    <3> QED
      BY <3>1 DEF OrderInv
  <2> QED
    BY <1>1, <2>1, <2>2, <2>3 DEF Post
<1>2. CASE Worker
  <2>1. UNCHANGED <<created, postPc, runNow>>
    BY <1>2 DEF Worker, WorkerWake, WorkerCount, WorkerNext, WorkerClaim, OthersOfWorker, postVars
  <2>2. CASE WorkerClaim \/ WorkerCount
    <3>1. /\ workerPc' # "claim"
          /\ \A k \in Jobs : postPc[k] \in {"create", "start"} => Active' = Active
      BY <2>2 DEF WorkerClaim, WorkerCount, WorkerStep, LockInv, Active, WithStatus
    <3> QED
      BY <2>1, <3>1 DEF OrderInv
  <2>3. CASE WorkerWake \/ WorkerNext
    <3>1. UNCHANGED status /\ Active' = Active
      BY <2>3 DEF WorkerWake, WorkerNext, Active, WithStatus
    <3>2. workerPc' = "claim" => IsNextQueued(workerJob')
      BY <2>3 DEF WorkerWake, WorkerNext, WorkerStep
    <3>3. workerPc' = "claim" =>
             \A m, n \in DOMAIN created :
                created[n] = workerJob' /\ m < n => status[created[m]] # "queued"
      BY <3>2 DEF IsNextQueued
    <3> QED
      BY <2>1, <3>1, <3>3 DEF OrderInv
  <2> QED
    BY <1>2, <2>2, <2>3 DEF Worker
<1>3. CASE Restart
  BY <1>3 DEF Restart, OrderInv
<1>4. CASE UNCHANGED <<crawlMu, created, postVars, workerVars>>
  <2>1. UNCHANGED <<created, postPc, runNow, workerPc, workerJob>> /\ \A k \in Jobs : ~Created(k)
    BY <1>4 DEF postVars, workerVars, Created
  <2>2. Active' \subseteq Active
    BY <2>1, SlotsTaken
  <2>3. \A k \in Jobs : status'[k] = "queued" => status[k] = "queued"
    BY <2>1, StatusSteps DEF StatusStep, Started, EndedBy, Ended
  <2>4. \A m \in DOMAIN created : created[m] \in Jobs
    BY DEF TypeInv, TypeOK
  <2> QED
    BY <2>1, <2>2, <2>3, <2>4 DEF OrderInv
<1> QED
  BY <1>1, <1>2, <1>3, <1>4, OutsideLock

\* OrderInv holds in every reachable state.
THEOREM OrderKept == Spec => []OrderInv
<1>1. Init => OrderInv
  BY DEF Init, OrderInv
<1>2. TypeInv /\ RowInv /\ LockInv /\ OrderInv /\ [Next]_vars => OrderInv'
  <2>1. OrderInv /\ UNCHANGED vars => OrderInv'
    BY DEF vars, rowVars, postVars, workerVars, OrderInv, Active, WithStatus
  <2> QED
    BY <2>1, OrderStep
<1> QED
  BY <1>1, <1>2, TypeCorrect, RowsGuarded, LockExclusive, PTL DEF Spec

\* Under a limit of one, jobs start in the order in which they were created.
THEOREM OrderOfStarts == Spec => StartsInOrder
<1> DEFINE InOrder == \A m, n \in DOMAIN created :
                         m < n /\ MaxConcurrent = 1 /\ status[created[n]] = "queued"
                               /\ status'[created[n]] = "running"
                             => status[created[m]] # "queued"
<1>1. TypeInv /\ RowInv /\ LockInv /\ OrderInv /\ [Next]_vars => [InOrder]_vars
  <2> SUFFICES ASSUME TypeInv, RowInv, OrderInv, Next,
                      NEW m \in DOMAIN created, NEW n \in DOMAIN created,
                      m < n, MaxConcurrent = 1, status[created[n]] = "queued",
                      status'[created[n]] = "running"
               PROVE  status[created[m]] # "queued"
    OBVIOUS
  <2>1. created[m] \in Jobs /\ created[n] \in Jobs /\ m \in Nat /\ n \in Nat
    BY DEF TypeInv, TypeOK
  <2>2. Started(created[n])
    BY <2>1, StatusSteps DEF StatusStep, Created, EndedBy, Ended
  <2>3. CASE postPc[created[n]] = "start"
    BY <2>1, <2>3 DEF OrderInv, Active, WithStatus
  <2>4. CASE workerPc = "claim" /\ workerJob = created[n]
    BY <2>4 DEF OrderInv
  <2> QED
    BY <2>2, <2>3, <2>4 DEF Started
<1>2. Spec => [][InOrder]_vars
  BY <1>1, TypeCorrect, RowsGuarded, LockExclusive, OrderKept, PTL DEF Spec
<1> QED
  BY <1>2 DEF StartsInOrder

-----------------------------------------------------------------------------
(* The refinement: the server keeps the promise of JobQueue.                *)

Lives == [j \in Jobs |-> LifeOf(status[j])]
Manned == {j \in Jobs : runPc[j] # "none"}

\* A job that was not started has no goroutine.
WaitingUnmanned == \A j \in Jobs : status[j] \in {"none", "queued"} => runPc[j] = "none"

\* A goroutine comes with the start of its job, and a job goes back to waiting
\* in no step.
LEMMA WaitingUnmannedStep ==
    ASSUME TypeInv, RowInv, WaitingUnmanned, Next
    PROVE  WaitingUnmanned'
<1> SUFFICES ASSUME NEW k \in Jobs, status'[k] \in {"none", "queued"} PROVE runPc'[k] = "none"
  BY DEF WaitingUnmanned
<1>1. status[k] \in {"none", "queued"}
  BY StatusSteps DEF StatusStep, Created, Started, EndedBy, Ended, RowInv
<1>2. runPc[k] = "none"
  BY <1>1 DEF WaitingUnmanned
<1>3. ~Run(k)
  BY <1>2 DEF Run, RunRegister, RunLoad, RunCheck, RunCancelJob, RunFinalize, RunReport, RunPanic,
     RunRecover, RunExit, RunStep
<1>4. ~Spawned(k)
  BY DEF Spawned
<1>5. Restart => runPc'[k] = "none"
  BY DEF Restart
<1> QED
  BY <1>2, <1>3, <1>4, <1>5, RunFrame

\* A job that waits, or whose POST was not received, has no goroutine in any reachable
\* state: the one a start spawns is the job's only one.
THEOREM WaitingIsUnmanned == Spec => []WaitingUnmanned
<1>1. Init => WaitingUnmanned
  BY DEF Init, WaitingUnmanned
<1>2. TypeInv /\ RowInv /\ WaitingUnmanned /\ [Next]_vars => WaitingUnmanned'
  <2>1. WaitingUnmanned /\ UNCHANGED vars => WaitingUnmanned'
    BY DEF vars, rowVars, runVars, WaitingUnmanned
  <2> QED
    BY <2>1, WaitingUnmannedStep
<1> QED
  BY <1>1, <1>2, TypeCorrect, RowsGuarded, PTL DEF Spec

\* A step that leaves every life, the order and the goroutines alone is a stutter.
LEMMA LivesStay ==
    ASSUME \A k \in Jobs : LifeOf(status'[k]) = LifeOf(status[k]), UNCHANGED created,
           \A k \in Jobs : runPc'[k] = "none" <=> runPc[k] = "none"
    PROVE  UNCHANGED Queue!vars
<1>1. [j \in Jobs |-> LifeOf(status[j])]' = [j \in Jobs |-> LifeOf(status[j])]
  OBVIOUS
<1>2. {j \in Jobs : runPc[j] # "none"}' = {j \in Jobs : runPc[j] # "none"}
  OBVIOUS
<1> QED
  BY <1>1, <1>2 DEF Queue!vars

\* A step that writes one row moves one life.
LEMMA LivesMove ==
    ASSUME status \in [Jobs -> Status], NEW k \in Jobs, NEW s,
           status' = [status EXCEPT ![k] = s]
    PROVE  Lives' = [Lives EXCEPT ![k] = LifeOf(s)]
<1>1. \A j \in Jobs : status'[j] = IF j = k THEN s ELSE status[j]
  OBVIOUS
<1> QED
  BY <1>1 DEF Lives

\* A run that goes on keeps its goroutine.
LEMMA GoesOn ==
    ASSUME TypeOK, NEW j \in Jobs, NEW from, NEW to, RunStep(j, from, to),
           from # "none", to # "none"
    PROVE  \A k \in Jobs : runPc'[k] = "none" <=> runPc[k] = "none"
BY DEF TypeOK, RunStep

\* A write of an ended status ends a job that waits or runs, purges one that is over, or
\* changes nothing that JobQueue tells apart.
LEMMA WriteRefines ==
    ASSUME TypeOK, NEW k \in Jobs, NEW s \in Ended,
           status[k] # "none", status[k] = "purged" => s = "purged",
           s = "purged" => status[k] \in Ended,
           status' = [status EXCEPT ![k] = s], UNCHANGED created,
           \A j \in Jobs : runPc'[j] = "none" <=> runPc[j] = "none"
    PROVE  [Queue!Next]_(Queue!vars)
<1>1. status[k] \in Status /\ Lives' = [Lives EXCEPT ![k] = LifeOf(s)]
  BY LivesMove DEF TypeOK
<1>2. Lives[k] = LifeOf(status[k])
  BY DEF Lives
<1>3. Manned' = Manned
  BY DEF Manned
<1>4. CASE status[k] \in {"queued", "running"}
  <2>1. Lives[k] \in {"queued", "running"} /\ LifeOf(s) = "over"
    BY <1>2, <1>4 DEF LifeOf, Ended
  <2>2. Queue!End(k)
    BY <1>1, <1>3, <2>1 DEF Queue!End, Queue!Moves, Lives, Manned
  <2> QED
    BY <2>2 DEF Queue!Next
<1>5. CASE s = "purged" /\ status[k] # "purged"
  <2>1. Lives[k] = "over" /\ LifeOf(s) = "purged"
    BY <1>2, <1>5 DEF LifeOf
  <2>2. Queue!Purge(k)
    BY <1>1, <1>3, <2>1 DEF Queue!Purge, Queue!Moves, Lives, Manned
  <2> QED
    BY <2>2 DEF Queue!Next
<1>6. CASE status[k] \in Ended /\ (s = "purged" <=> status[k] = "purged")
  <2>1. \A j \in Jobs : LifeOf(status'[j]) = LifeOf(status[j])
    BY <1>6 DEF TypeOK, LifeOf
  <2> QED
    BY <2>1, LivesStay
<1>7. status[k] \in Ended \cup {"queued", "running"}
  BY <1>1 DEF Status, Ended
<1> QED
  BY <1>4, <1>5, <1>6, <1>7

\* The same for the update of a row that may be gone.
LEMMA SetRefines ==
    ASSUME TypeOK, NEW k \in Jobs, NEW s \in Ended \ {"purged"}, SetStatus(k, s), UNCHANGED created,
           \A j \in Jobs : runPc'[j] = "none" <=> runPc[j] = "none"
    PROVE  [Queue!Next]_(Queue!vars)
<1>1. CASE Exists(k)
  <2>1. status' = [status EXCEPT ![k] = s] /\ status[k] \notin {"none", "purged"}
    BY <1>1 DEF SetStatus, Exists
  <2> QED
    BY <2>1, WriteRefines
<1>2. CASE ~Exists(k)
  BY <1>2, LivesStay DEF SetStatus
<1> QED
  BY <1>1, <1>2

\* Both modules count alike.
LEMMA SameCount == \A S : Queue!Cardinality(S) = Cardinality(S)
BY DEF Queue!Cardinality, Cardinality

\* UpdateJobStarted, by whoever found a free slot and, under a limit of one, the
\* oldest job.
LEMMA StartRefines ==
    ASSUME TypeInv, WaitingUnmanned, NEW j \in Jobs, StartJob(j), UNCHANGED created,
           status[j] = "queued" => Cardinality(Running) < MaxConcurrent,
           status[j] = "queued" /\ MaxConcurrent = 1 =>
              \A m, n \in DOMAIN created :
                 created[n] = j /\ m < n => status[created[m]] # "queued"
    PROVE  [Queue!Next]_(Queue!vars)
<1>1. CASE status[j] = "queued"
  <2>1. status' = [status EXCEPT ![j] = "running"] /\ runPc' = [runPc EXCEPT ![j] = "spawned"]
    BY <1>1 DEF StartJob
  <2>2. Lives' = [Lives EXCEPT ![j] = "running"]
    BY <2>1, LivesMove DEF TypeInv, TypeOK, LifeOf, Ended
  <2>3. Lives[j] = "queued"
    BY <1>1 DEF Lives, LifeOf, Ended
  <2>4. j \notin Manned /\ Manned' = Manned \cup {j}
    BY <1>1, <2>1 DEF Manned, WaitingUnmanned, TypeInv, TypeOK
  <2>5. \A k \in Jobs : Lives[k] = "running" <=> status[k] = "running"
    BY DEF Lives, LifeOf, Ended
  <2>6. Queue!RunningJobs = Running
    BY <2>5 DEF Queue!RunningJobs, Running, WithStatus, Lives
  <2>7. MaxConcurrent = 1 => Queue!IsOldest(j)
    <3>1. \A k \in Jobs : Lives[k] = "queued" => status[k] = "queued"
      BY DEF Lives, LifeOf, Ended
    <3>2. \A m \in DOMAIN created : created[m] \in Jobs
      BY DEF TypeInv, TypeOK
    <3> QED
      BY <1>1, <3>1, <3>2 DEF Queue!IsOldest, Lives
  <2>8. Queue!Cardinality(Queue!RunningJobs) < MaxConcurrent
    BY <1>1, <2>6, SameCount
  <2>9. Queue!Moves(j, {"queued"}, "running")
    BY <2>2, <2>3 DEF Queue!Moves, Lives
  <2>10. Queue!Start(j)
    BY <2>4, <2>7, <2>8, <2>9 DEF Queue!Start, Manned
  <2> QED
    BY <2>10 DEF Queue!Next
<1>2. CASE status[j] # "queued"
  BY <1>2, LivesStay DEF StartJob
<1> QED
  BY <1>1, <1>2

\* A POST submits its job and may start it: its own queued job leaves a slot, and
\* under a limit of one no other job waits.
LEMMA PostRefines ==
    ASSUME TypeInv, RowInv, LimitInv, OrderInv, WaitingUnmanned, NEW j \in Jobs, Post(j)
    PROVE  [Queue!Next]_(Queue!vars)
<1>1. CASE PostCount(j)
  BY <1>1, LivesStay DEF PostCount, rowVars
<1>2. CASE PostCreate(j)
  <2>1. /\ status' = [status EXCEPT ![j] = "queued"] /\ created' = Append(created, j)
        /\ UNCHANGED runPc /\ status[j] = "none"
    BY <1>2 DEF PostCreate, RowInv
  <2>2. Lives' = [Lives EXCEPT ![j] = "queued"]
    BY <2>1, LivesMove DEF TypeInv, TypeOK, LifeOf, Ended
  <2>3. Lives[j] = "none" /\ Manned' = Manned
    BY <2>1 DEF Lives, LifeOf, Ended, Manned
  <2>4. Queue!Submit(j)
    BY <2>1, <2>2, <2>3 DEF Queue!Submit, Queue!Moves, Lives, Manned
  <2> QED
    BY <2>4 DEF Queue!Next
<1>3. CASE PostStart(j)
  <2>1. StartJob(j) /\ postPc[j] = "start" /\ UNCHANGED created
    BY <1>3 DEF PostStart
  <2>2. ASSUME status[j] = "queued" PROVE Cardinality(Running) < MaxConcurrent
    <3>1. IsFiniteSet(Active) /\ j \in Active /\ Running \subseteq Active \ {j}
      BY <2>2, JobsAssumption, FS_Subset DEF Active, Running, WithStatus
    <3>2. /\ IsFiniteSet(Active \ {j})
          /\ Cardinality(Active \ {j}) = Cardinality(Active) - 1
      BY <3>1, FS_RemoveElement
    <3>3. Cardinality(Running) <= Cardinality(Active) - 1
      BY <3>1, <3>2, FS_Subset
    <3>4. Cardinality(Active) <= MaxConcurrent
      BY <2>1 DEF LimitInv
    <3>5. Cardinality(Active) \in Nat /\ Cardinality(Running) \in Nat /\ MaxConcurrent \in Nat
      BY <3>1, FS_Subset, FS_CardinalityType, ConfigAssumption, JobCounts DEF Active, Running, WithStatus
    <3> QED
      BY <3>3, <3>4, <3>5
  <2>3. ASSUME MaxConcurrent = 1, NEW m \in DOMAIN created, NEW n \in DOMAIN created,
               created[n] = j, m < n
        PROVE  status[created[m]] # "queued"
    <3>1. Active \subseteq {j}
      BY <2>1, <2>3 DEF OrderInv
    <3>2. created[m] # j
      BY <2>3 DEF OrderInv, TypeInv, TypeOK
    <3>3. created[m] \in Jobs
      BY DEF TypeInv, TypeOK
    <3> QED
      BY <3>1, <3>2, <3>3 DEF Active, WithStatus
  <2> QED
    BY <2>1, <2>2, <2>3, StartRefines
<1> QED
  BY <1>1, <1>2, <1>3 DEF Post

\* The queue worker starts the job it has chosen, unless it was cancelled since.
LEMMA WorkerRefines ==
    ASSUME TypeInv, LimitInv, OrderInv, WaitingUnmanned, Worker
    PROVE  [Queue!Next]_(Queue!vars)
<1>1. CASE WorkerClaim
  <2>1. /\ workerPc = "claim" /\ workerJob \in Jobs /\ StartJob(workerJob)
        /\ UNCHANGED created
    BY <1>1 DEF WorkerClaim, WorkerStep, OthersOfWorker, TypeInv, HandsKnown
  <2>2. Cardinality(Running) < MaxConcurrent
    BY <2>1 DEF LimitInv
  <2>3. \A m, n \in DOMAIN created : created[n] = workerJob /\ m < n => status[created[m]] # "queued"
    BY <2>1 DEF OrderInv
  <2> QED
    BY <2>1, <2>2, <2>3, StartRefines
<1>2. CASE WorkerWake \/ WorkerCount \/ WorkerNext
  <2>1. UNCHANGED <<status, runPc, created>>
    BY <1>2 DEF WorkerWake, WorkerCount, WorkerNext, OthersOfWorker
  <2> QED
    BY <2>1, LivesStay
<1> QED
  BY <1>1, <1>2 DEF Worker

\* A run gives its job an ended status, or goes on, or leaves a job that has one.
LEMMA RunRefines ==
    ASSUME TypeInv, RunningHasRun, NEW j \in Jobs, Run(j) \/ RunWatch(j)
    PROVE  [Queue!Next]_(Queue!vars)
<1>1. CASE RunExit(j)
  <2>1. /\ runPc[j] = "exit" /\ runPc' = [runPc EXCEPT ![j] = "none"]
        /\ UNCHANGED <<status, created>>
    BY <1>1 DEF RunExit, RunStep, OthersOfRun
  <2>2. j \in Manned /\ Manned' = Manned \ {j}
    BY <2>1 DEF Manned, TypeInv, TypeOK
  <2>3. Lives[j] # "running" /\ Lives' = Lives
    BY <2>1 DEF RunningHasRun, Running, WithStatus, Lives, LifeOf
  <2>4. Queue!Leave(j)
    BY <2>1, <2>2, <2>3 DEF Queue!Leave, Lives, Manned
  <2> QED
    BY <2>4 DEF Queue!Next
<1>2. CASE RunWatch(j)
  BY <1>2, LivesStay DEF RunWatch, runVars, OthersOfRun
<1>3. CASE RunRegister(j) \/ RunLoad(j) \/ RunCheck(j) \/ RunPanic(j)
  <2>1. UNCHANGED <<status, created>>
    BY <1>3 DEF RunRegister, RunLoad, RunCheck, RunPanic, OthersOfRun
  <2>2. \E from, to \in RunPc \ {"none"} : RunStep(j, from, to)
    BY <1>3 DEF RunRegister, RunLoad, RunCheck, RunPanic, RunPc
  <2> QED
    BY <2>1, <2>2, GoesOn, LivesStay DEF TypeInv
<1>4. CASE RunCancelJob(j) \/ RunFinalize(j) \/ RunReport(j) \/ RunRecover(j)
  <2>1. UNCHANGED created
    BY <1>4 DEF RunCancelJob, RunFinalize, RunReport, RunRecover, OthersOfRun
  <2>2. \E from, to \in RunPc \ {"none"} : RunStep(j, from, to)
    BY <1>4 DEF RunCancelJob, RunFinalize, RunReport, RunRecover, RunPc
  <2>3. \E s \in {"cancelled", "completed", "failed"} : SetStatus(j, s)
    <3>1. RunReport(j) => runErr[j] \in {"cancelled", "failed"}
      BY DEF RunReport, RunStep, TypeInv, TypeOK, HandsKnown
    <3> QED
      BY <1>4, <3>1 DEF RunCancelJob, RunFinalize, RunReport, RunRecover
  <2>4. \A k \in Jobs : runPc'[k] = "none" <=> runPc[k] = "none"
    BY <2>2, GoesOn DEF TypeInv
  <2> QED
    BY <2>1, <2>3, <2>4, SetRefines DEF TypeInv, Ended
<1> QED
  BY <1>1, <1>2, <1>3, <1>4 DEF Run

\* A DELETE ends a job that waits or runs, or purges one that is over, as the purge
\* worker does.
LEMMA DeleteRefines ==
    ASSUME TypeInv, RowInv, (\E d \in Deleters : Delete(d)) \/ PurgeNext
    PROVE  [Queue!Next]_(Queue!vars)
<1>1. UNCHANGED <<created, runPc>>
  BY DEF Delete, DeleteRead, DeleteWrite, DeleteCancelRun, DeleteEnqueue, PurgeNext,
     OthersOfDelete, runVars
<1>2. ASSUME UNCHANGED status PROVE [Queue!Next]_(Queue!vars)
  BY <1>1, <1>2, LivesStay
<1>3. ASSUME NEW k \in Jobs, status[k] \in Ended, status' = [status EXCEPT ![k] = "purged"]
      PROVE  [Queue!Next]_(Queue!vars)
  BY <1>1, <1>3, WriteRefines DEF TypeInv, Ended
<1>4. ASSUME NEW d \in Deleters, Delete(d) PROVE [Queue!Next]_(Queue!vars)
  <2>1. CASE DeleteRead(d) \/ DeleteCancelRun(d)
    BY <1>2, <2>1 DEF DeleteRead, DeleteCancelRun
  <2>2. CASE DeleteWrite(d)
    <3>1. delJob[d] \in Jobs
      BY <2>2 DEF DeleteWrite, TypeInv, HandsKnown
    <3>2. \/ UNCHANGED status
          \/ \E s \in {"cancelled", "cancelling", "deleting"} : SetStatus(delJob[d], s)
      BY <2>2 DEF DeleteWrite
    <3>3. ASSUME NEW s \in {"cancelled", "cancelling", "deleting"}, SetStatus(delJob[d], s)
          PROVE  [Queue!Next]_(Queue!vars)
      BY <1>1, <3>1, <3>3, SetRefines DEF TypeInv, Ended
    <3> QED
      BY <1>2, <3>2, <3>3
  <2>3. CASE DeleteEnqueue(d)
    <3>1. delJob[d] \in Jobs /\ status[delJob[d]] \in Ended
      BY <2>3 DEF DeleteEnqueue, DeleteStep, TypeInv, HandsKnown, RowInv
    <3>2. UNCHANGED status \/ status' = [status EXCEPT ![delJob[d]] = "purged"]
      BY <2>3 DEF DeleteEnqueue
    <3> QED
      BY <1>2, <1>3, <3>1, <3>2
  <2> QED
    BY <1>4, <2>1, <2>2, <2>3 DEF Delete
<1>5. CASE PurgeNext
  <2>1. PICK k \in purgePending : status' = [status EXCEPT ![k] = "purged"]
    BY <1>5 DEF PurgeNext
  <2>2. k \in Jobs /\ status[k] \in Ended
    BY DEF TypeInv, TypeOK, RowInv
  <2> QED
    BY <1>3, <2>1, <2>2
<1> QED
  BY <1>4, <1>5

\* A restart ends what ran and leaves no goroutine; what waits goes on waiting.
LEMMA RestartRefines ==
    ASSUME TypeInv, Restart
    PROVE  Queue!Next
<1>1. \A j \in Jobs : LifeOf(status'[j]) = IF Lives[j] = "running" THEN "over" ELSE Lives[j]
  BY DEF Restart, Reaped, WithStatus, Lives, LifeOf, Ended
<1>2. Lives' = [j \in Jobs |-> IF Lives[j] = "running" THEN "over" ELSE Lives[j]]
  BY <1>1 DEF Lives
<1>3. Manned' = {} /\ UNCHANGED created
  BY DEF Restart, Manned
<1>4. Queue!Crash
  BY <1>2, <1>3 DEF Queue!Crash, Lives, Manned
<1> QED
  BY <1>4 DEF Queue!Next

\* For any number of jobs, of DELETE requests and of restarts, and for any limit: the
\* server keeps the promise of JobQueue.
THEOREM QueueRefined == Spec => QueueImplemented
<1>1. Init => Queue!Init
  <2> SUFFICES ASSUME Init PROVE Queue!Init
    OBVIOUS
  <2>1. [j \in Jobs |-> LifeOf(status[j])] = [j \in Jobs |-> "none"]
    BY DEF Init, LifeOf, Ended
  <2>2. {j \in Jobs : runPc[j] # "none"} = {} /\ created = <<>>
    BY DEF Init
  <2> QED
    BY <2>1, <2>2 DEF Queue!Init
<1>2. TypeInv /\ RowInv /\ LimitInv /\ OrderInv /\ WaitingUnmanned /\ RunningHasRun /\ [Next]_vars
        => [Queue!Next]_(Queue!vars)
  <2> SUFFICES ASSUME TypeInv, RowInv, LimitInv, OrderInv, WaitingUnmanned, RunningHasRun,
                      [Next]_vars
               PROVE  [Queue!Next]_(Queue!vars)
    OBVIOUS
  <2>1. CASE UNCHANGED vars
    BY <2>1, LivesStay DEF vars, rowVars, runVars
  <2> QED
    BY <2>1, PostRefines, WorkerRefines, RunRefines, DeleteRefines, RestartRefines DEF Next
<1> QED
  BY <1>1, <1>2, TypeCorrect, RowsGuarded, SlotsKept, OrderKept, WaitingIsUnmanned, RunningJobsRun,
     PTL DEF Spec, QueueImplemented, Queue!Spec

=============================================================================

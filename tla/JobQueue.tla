----------------------------- MODULE JobQueue -----------------------------
(***************************************************************************)
(* What the server promises about crawl jobs, whoever creates, starts,      *)
(* cancels or purges them: a job waits, is started once while a slot is     *)
(* free, is worked on by one goroutine until it is over, and never comes    *)
(* back.  It promises nothing about the jobs that wait: a job may be over   *)
(* without ever having been started.                                        *)
(***************************************************************************)
EXTENDS Integers, Sequences, FiniteSets

CONSTANTS
    Jobs,
    Limit     \* crawls at a time

VARIABLES
    order,    \* the jobs in the order of their creation
    life,     \* what has become of each job
    manned    \* the jobs a goroutine works on

vars == <<order, life, manned>>

Life == {"none", "queued", "running", "over", "purged"}

RunningJobs == {j \in Jobs : life[j] = "running"}

Moves(j, from, to) ==
    /\ life[j] \in from
    /\ life' = [life EXCEPT ![j] = to]

\* No job created earlier waits.
IsOldest(j) ==
    \A m, n \in DOMAIN order : order[n] = j /\ m < n => life[order[m]] # "queued"

Init ==
    /\ order = <<>>
    /\ life = [j \in Jobs |-> "none"]
    /\ manned = {}

Submit(j) ==
    /\ Moves(j, {"none"}, "queued")
    /\ order' = Append(order, j)
    /\ UNCHANGED manned

\* With more than one slot, a new job may overtake one that waits.
Start(j) ==
    /\ Moves(j, {"queued"}, "running")
    /\ Cardinality(RunningJobs) < Limit
    /\ Limit = 1 => IsOldest(j)
    /\ j \notin manned /\ manned' = manned \cup {j}
    /\ UNCHANGED order

\* The crawl ends by itself, or somebody cancels the job: its goroutine may
\* work on.
End(j) ==
    /\ Moves(j, {"queued", "running"}, "over")
    /\ UNCHANGED <<order, manned>>

\* A goroutine does not leave its job running.
Leave(j) ==
    /\ j \in manned /\ life[j] # "running"
    /\ manned' = manned \ {j}
    /\ UNCHANGED <<order, life>>

Purge(j) ==
    /\ Moves(j, {"over"}, "purged")
    /\ UNCHANGED <<order, manned>>

\* The process ends: the jobs that wait go on waiting.
Crash ==
    /\ life' = [j \in Jobs |-> IF life[j] = "running" THEN "over" ELSE life[j]]
    /\ manned' = {}
    /\ UNCHANGED order

Next ==
    \/ \E j \in Jobs : Submit(j) \/ Start(j) \/ End(j) \/ Leave(j) \/ Purge(j)
    \/ Crash

Spec == Init /\ [][Next]_vars
=============================================================================

------------------------------- MODULE Crawl -------------------------------
(***************************************************************************)
(* What a crawl promises about each URL, whoever fetches, parses and        *)
(* persists it: a URL is discovered once and taken once, its fetch is        *)
(* answered and stored once, nothing is given up without a record unless     *)
(* the crawl was disturbed, and nothing moves after the final verdict.  It   *)
(* promises nothing about the URLs that still wait when the crawl ends.      *)
(***************************************************************************)

CONSTANTS
    URLs,
    InScope     \* a URL out of scope is given up without a record

VARIABLES
    stage,      \* where each URL stands
    row,        \* the status of its row
    disturbed,  \* somebody cancelled the crawl, or a worker failed
    verdict     \* the status of the job

vars == <<stage, row, disturbed, verdict>>

Stage == {"new", "waiting", "taken", "answered", "stored", "closed"}

At(s) == {u \in URLs : stage[u] = s}

\* A URL that a redirect has led to before it is discovered keeps its row.
Known(S) == [u \in URLs |-> IF u \in S /\ row[u] = "unknown" THEN "queued" ELSE row[u]]

Init ==
    \E S \in SUBSET URLs :
        /\ S # {}
        /\ stage = [u \in URLs |-> IF u \in S THEN "waiting" ELSE "new"]
        /\ row = [u \in URLs |-> IF u \in S THEN "queued" ELSE "unknown"]
        /\ disturbed = FALSE
        /\ verdict = "running"

Step(u, from, to) ==
    /\ verdict = "running" /\ UNCHANGED verdict
    /\ stage[u] = from
    /\ stage' = [stage EXCEPT ![u] = to]

Discover ==
    \E S \in SUBSET At("new") :
        /\ verdict = "running"
        /\ stage' = [u \in URLs |-> IF u \in S THEN "waiting" ELSE stage[u]]
        /\ row' = Known(S)
        /\ UNCHANGED <<disturbed, verdict>>

Take(u) == Step(u, "waiting", "taken") /\ UNCHANGED <<row, disturbed>>

Answer(u) ==
    /\ Step(u, "taken", "answered")
    /\ \E s \in {"fetched", "errored"} : row' = [row EXCEPT ![u] = s]
    /\ UNCHANGED disturbed

\* Robots rules or the host budget decide against a fetch, or scope does.
Refuse(u) ==
    /\ Step(u, "taken", "closed")
    /\ \/ u \notin InScope /\ UNCHANGED row
       \/ \E s \in {"robots_blocked", "skipped_budget"} : row' = [row EXCEPT ![u] = s]
    /\ UNCHANGED disturbed

\* The fetch is stored, and a row for the URL it ended at if there was none.
Store(u) ==
    /\ row[u] = "fetched"
    /\ Step(u, "answered", "stored")
    /\ \/ UNCHANGED row
       \/ \E v \in URLs, s \in {"fetched", "out_of_scope"} :
             row[v] = "unknown" /\ row' = [row EXCEPT ![v] = s]
    /\ UNCHANGED disturbed

\* A failed fetch leaves nothing to store.
Fail(u) ==
    /\ row[u] = "errored"
    /\ Step(u, "answered", "closed")
    /\ UNCHANGED <<row, disturbed>>

\* Only a disturbed crawl gives up a URL that is on its way.
Abandon(u) ==
    /\ Step(u, "taken", "closed") \/ Step(u, "answered", "closed")
    /\ disturbed' = TRUE
    /\ UNCHANGED row

Disturb ==
    /\ verdict = "running"
    /\ disturbed' = TRUE
    /\ UNCHANGED <<stage, row, verdict>>

\* An undisturbed crawl completes, and with nothing on its way.
End ==
    /\ verdict = "running"
    /\ \/ /\ verdict' = "completed"
          /\ disturbed \/ At("taken") \cup At("answered") = {}
       \/ disturbed /\ verdict' \in {"failed", "cancelled"}
    /\ UNCHANGED <<stage, row, disturbed>>

Next ==
    \/ Discover \/ Disturb \/ End
    \/ \E u \in URLs :
          Take(u) \/ Answer(u) \/ Refuse(u) \/ Store(u) \/ Fail(u) \/ Abandon(u)

Spec == Init /\ [][Next]_vars
=============================================================================

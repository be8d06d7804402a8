---------------------------- MODULE ActivityFeed ----------------------------
(***************************************************************************)
(* What the activity feed of a job promises its client: after the snapshot    *)
(* it starts from, it receives every row of each kind once and in order, and   *)
(* is told that the feed is over only when the job has ended or is being        *)
(* deleted.  Nothing is said of connections, watermarks or batches.            *)
(***************************************************************************)
EXTENDS Naturals, Sequences

CONSTANTS Kinds

VARIABLES
    committed,   \* committed[k]: rows of kind k stored so far, numbered from 1
    from,        \* from[k]: <<n>> once the snapshot has shown rows up to n, else <<>>
    received,    \* received[k]: rows received since, in order of arrival
    phase,       \* "live", "ended" or "purging"
    closed       \* the client has been told that the feed is over

vars == <<committed, from, received, phase, closed>>

Init ==
    /\ committed = [k \in Kinds |-> 0]
    /\ from = [k \in Kinds |-> <<>>]
    /\ received = [k \in Kinds |-> <<>>]
    /\ phase = "live"
    /\ closed = FALSE

Commit(k) ==
    /\ committed' = [committed EXCEPT ![k] = @ + 1]
    /\ UNCHANGED <<from, received, phase, closed>>

Snapshot(k) ==
    /\ from[k] = <<>>
    /\ \E n \in 0..committed[k] :
          /\ phase # "purging" => n = committed[k]
          /\ from' = [from EXCEPT ![k] = <<n>>]
    /\ UNCHANGED <<committed, received, phase, closed>>

\* The last row the client has.
Received(k) ==
    IF received[k] # <<>> THEN received[k][Len(received[k])]
    ELSE IF from[k] # <<>> THEN from[k][1] ELSE 0

\* Rows may be missing only from a job that is being deleted.
Receive(k) ==
    /\ from[k] # <<>> /\ ~closed
    /\ \E i \in Received(k) + 1 .. committed[k] :
          /\ phase # "purging" => i = Received(k) + 1
          /\ received' = [received EXCEPT ![k] = Append(@, i)]
    /\ UNCHANGED <<committed, from, phase, closed>>

End ==
    /\ phase = "live" /\ phase' = "ended"
    /\ UNCHANGED <<committed, from, received, closed>>

Purge ==
    /\ phase # "purging" /\ phase' = "purging"
    /\ UNCHANGED <<committed, from, received, closed>>

Close ==
    /\ phase # "live" /\ closed' = TRUE
    /\ UNCHANGED <<committed, from, received, phase>>

Next ==
    \/ \E k \in Kinds : Commit(k) \/ Snapshot(k) \/ Receive(k)
    \/ End \/ Purge \/ Close

Spec == Init /\ [][Next]_vars

\* Every row stored after the snapshot arrives, unless the feed is over first.
Delivered ==
    \A k \in Kinds : (from[k] # <<>> /\ committed[k] > Received(k))
                       ~> (closed \/ phase = "purging" \/ committed[k] = Received(k))
=============================================================================

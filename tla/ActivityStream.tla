--------------------------- MODULE ActivityStream ---------------------------
(***************************************************************************)
(* The live activity of one job (internal/httpserver/stream.go): a client     *)
(* takes a snapshot with GET /activity and then follows GET /stream, resuming *)
(* from the last row it received whenever its connection breaks.  A session   *)
(* of the server polls the database, keeps a watermark per kind of row and a   *)
(* cached issue count, and holds one of the client's stream slots.            *)
(***************************************************************************)
EXTENDS Integers, Sequences, FiniteSets

CONSTANTS
    Sessions,    \* stream sessions that can exist at a time
    NoSession,
    MaxStreams,  \* maxStreamsPerIP
    Batch,       \* streamFetchBatch and streamEventBatch
    WireCap,     \* messages a connection buffers before writes block
    MaxRows,     \* bound: MaxRows[k] rows of kind k
    MaxIssues,   \* bound on the issue rows present at a time
    MaxChanges,  \* bound: issues are added only before so many changes of them
    MaxDrops     \* bound on broken connections

Kinds == {"fetch", "phase"}

ASSUME StreamAssumption ==
    /\ IsFiniteSet(Sessions) /\ NoSession \notin Sessions
    /\ MaxStreams \in Nat \ {0} /\ Batch \in Nat \ {0} /\ WireCap \in Nat \ {0}
    /\ MaxRows \in [Kinds -> Nat] /\ MaxDrops \in Nat
    /\ MaxIssues \in Nat /\ MaxChanges \in Nat

VARIABLES
    status,      \* of the job row: "running", "ended", "deleting", "gone"
    rows,        \* rows[k]: fetches and phase events stored; ids count from 1
    purged,      \* purged[k]: oldest rows already deleted by the purge worker
    issues,      \* how many issue rows the job had after each change of them, now last
    issuesAt,    \* issuesAt[i]: place in `issues` when fetch i was stored (history)
    draining,    \* the table the purge worker drains next
    sess,        \* the server's sessions
    wire,        \* messages written to a connection and not yet read
    slots,       \* streamCount of the client's address
    conn,        \* the connection the client reads
    from,        \* ids of its snapshot, <<>> before
    got,         \* rows it received since
    closed,      \* it got `done`, an error, or 404
    drops

jobVars == <<status, rows, purged, issues, issuesAt, draining>>
clientVars == <<from, got, closed, drops>>
vars == <<jobVars, sess, wire, slots, conn, clientVars>>

Closed == [pc |-> "free", kind |-> "fetch", last |-> [k \in Kinds |-> 0], batch |-> <<>>,
           cached |-> 0, stale |-> TRUE, first |-> TRUE, live |-> FALSE]

\* A row carries its id.  A status carries a count of issues, named by its place in
\* `issues`: two counts with the same rows are told apart by when they were true.
Message(t, k, n) == [type |-> t, kind |-> k, n |-> n]

NumIssues == issues[Len(issues)]

\* The issue rows become n.
Count(n) == issues' = IF n = NumIssues THEN issues ELSE Append(issues, n)

\* Every variable has its type, and no watermark runs ahead of the rows that were
\* stored.  A cached count is one the job once had: 0 before the first.
TypeOK ==
    /\ status \in {"running", "ended", "deleting", "gone"}
    /\ \A k \in Kinds : rows[k] \in 0..MaxRows[k] /\ purged[k] \in 0..rows[k]
    /\ issues # <<>> /\ NumIssues \in 0..MaxIssues /\ Len(issuesAt) = rows["fetch"]
    /\ draining \in {"issues", "fetch", "phase", "job"}
    /\ \A s \in Sessions :
          /\ sess[s].pc \in {"free", "status", "query", "send", "terminal", "wait"}
          /\ \A k \in Kinds : sess[s].last[k] \in 0..rows[k]
          /\ sess[s].cached \in 0..Len(issues)
          /\ Len(wire[s]) <= WireCap
          /\ Len(sess[s].batch) <= Batch
    /\ conn \in Sessions \cup {NoSession}
    /\ slots \in 0..MaxStreams
    /\ drops \in 0..MaxDrops

Init ==
    /\ status = "running"
    /\ rows = [k \in Kinds |-> 0] /\ purged = [k \in Kinds |-> 0]
    /\ issues = <<0>> /\ issuesAt = <<>> /\ draining = "issues"
    /\ sess = [s \in Sessions |-> Closed]
    /\ wire = [s \in Sessions |-> <<>>]
    /\ slots = 0 /\ conn = NoSession
    /\ from = [k \in Kinds |-> <<>>] /\ got = [k \in Kinds |-> <<>>]
    /\ closed = FALSE /\ drops = 0

-----------------------------------------------------------------------------
(* The job: what the crawl, its post-crawl phases and a DELETE write.         *)

\* Issue rows are added, or deleted by the run.
IssuesFound == Len(issues) <= MaxChanges /\ \E n \in NumIssues + 1 .. MaxIssues : Count(n)
IssuesWithdrawn == \E n \in 0 .. NumIssues - 1 : Count(n)

\* A fetch and the issues of its page are stored by one transaction.  A run that a
\* DELETE has cancelled may store the batch it holds.
CommitFetch ==
    /\ status \in {"running", "deleting"} /\ rows["fetch"] < MaxRows["fetch"]
    /\ rows' = [rows EXCEPT !["fetch"] = @ + 1]
    /\ IssuesFound \/ UNCHANGED issues
    /\ issuesAt' = Append(issuesAt, Len(issues'))
    /\ UNCHANGED <<status, purged, draining, sess, wire, slots, conn, clientVars>>

\* A phase event, or issues found by a phase after the crawl.
CommitPhase ==
    /\ status = "running"
    /\ \/ /\ rows["phase"] < MaxRows["phase"]
          /\ rows' = [rows EXCEPT !["phase"] = @ + 1] /\ UNCHANGED issues
       \/ IssuesFound /\ UNCHANGED rows
    /\ UNCHANGED <<status, purged, issuesAt, draining, sess, wire, slots, conn, clientVars>>

\* A browser pass deletes the issues its rendering has refuted, and the detection of
\* the global issues deletes those of an earlier one before it looks again.
RemoveIssues ==
    /\ status \in {"running", "deleting"} /\ IssuesWithdrawn
    /\ UNCHANGED <<status, rows, purged, issuesAt, draining, sess, wire, slots, conn,
                   clientVars>>

JobEnds ==
    /\ status = "running" /\ status' = "ended"
    /\ UNCHANGED <<rows, purged, issues, issuesAt, draining, sess, wire, slots, conn,
                   clientVars>>

JobDeleted ==
    /\ status \in {"running", "ended"} /\ status' = "deleting"
    /\ UNCHANGED <<rows, purged, issues, issuesAt, draining, sess, wire, slots, conn,
                   clientVars>>

\* The purge worker drains a table in chunks: a full chunk, after which it looks
\* again, or the rest, after which it turns to the next table.  The issues come first.
PurgeIssues ==
    /\ status = "deleting" /\ draining = "issues"
    /\ \E n \in {0} \cup 1 .. NumIssues - 1 :
          Count(n) /\ draining' = IF n = 0 THEN "fetch" ELSE draining
    /\ UNCHANGED <<status, rows, purged, issuesAt, sess, wire, slots, conn, clientVars>>

\* Then the fetches and the phase events.
PurgeRow(k) ==
    /\ status = "deleting" /\ draining = k
    /\ \E n \in {rows[k]} \cup purged[k] + 1 .. rows[k] :
          /\ purged' = [purged EXCEPT ![k] = n]
          /\ draining' = IF n < rows[k] THEN k ELSE IF k = "fetch" THEN "phase" ELSE "job"
    /\ UNCHANGED <<status, rows, issues, issuesAt, sess, wire, slots, conn, clientVars>>

\* The row of the job goes last and takes with it what was stored behind the worker.
JobGone ==
    /\ status = "deleting" /\ draining = "job" /\ status' = "gone"
    /\ purged' = rows /\ Count(0)
    /\ UNCHANGED <<rows, issuesAt, draining, sess, wire, slots, conn, clientVars>>

-----------------------------------------------------------------------------
(* A session.                                                                *)

\* send: the connection buffers the message, or the write blocks.  Writes to a
\* connection the client has left go nowhere.
Put(s, m) ==
    IF sess[s].live
    THEN Len(wire[s]) < WireCap /\ wire' = [wire EXCEPT ![s] = Append(@, m)]
    ELSE UNCHANGED wire

\* A session that returns without giving its slot back.
ReturnLeaks(s) == sess' = [sess EXCEPT ![s] = Closed] /\ UNCHANGED slots

\* The session returns and its deferred releaseStreamSlot runs.
Return(s) ==
    /\ sess' = [sess EXCEPT ![s] = Closed]
    /\ slots' = slots - 1

Go(s, l) == sess' = [sess EXCEPT ![s].pc = l]

\* The cached count, never recomputed after the first snapshot.
IssueCountOnce(s) == IF sess[s].first THEN Len(issues) ELSE sess[s].cached

\* issuesByType: the cached count, recomputed when a fetch made it stale.
IssueCount(s) == IF sess[s].stale THEN Len(issues) ELSE sess[s].cached

\* sendStatus.  Before the first tick its result is ignored; later a failed
\* write, which only a broken connection causes, ends the session.
SendStatus(s) ==
    /\ sess[s].pc = "status" /\ status # "gone"
    /\ Put(s, Message("status", "fetch", IssueCount(s)))
    /\ sess' = [sess EXCEPT ![s].cached = IssueCount(s), ![s].stale = FALSE,
                            ![s].pc = "query", ![s].kind = "fetch"]
    /\ UNCHANGED <<jobVars, slots, conn, clientVars>>

StatusFails(s) ==
    /\ sess[s].pc = "status" /\ ~sess[s].live /\ ~sess[s].first
    /\ Return(s)
    /\ UNCHANGED <<jobVars, wire, conn, clientVars>>

\* "job vanished".
StatusVanished(s) ==
    /\ sess[s].pc = "status" /\ status = "gone"
    /\ Put(s, Message("error", "fetch", 0))
    /\ IF sess[s].first
       THEN /\ sess' = [sess EXCEPT ![s].pc = "query", ![s].kind = "fetch"]
            /\ UNCHANGED slots
       ELSE Return(s)
    /\ UNCHANGED <<jobVars, conn, clientVars>>

\* Every row since, without a limit.
RowsUnlimited(k, last) ==
    LET lo == (IF last > purged[k] THEN last ELSE purged[k]) + 1
    IN  [i \in 1..(rows[k] - lo + 1) |-> lo + i - 1]

\* Rows of kind k after `last`, oldest first, at most Batch.
RowsSince(k, last) ==
    LET lo == (IF last > purged[k] THEN last ELSE purged[k]) + 1
        hi == IF rows[k] < lo + Batch - 1 THEN rows[k] ELSE lo + Batch - 1
    IN  [i \in 1..(hi - lo + 1) |-> lo + i - 1]

\* sendActivityDelta, one query for the fetches and one for the phase events.
\* New fetches make the cached counts stale.
Query(s) ==
    LET k == sess[s].kind
        new == RowsSince(k, sess[s].last[k])
    IN  /\ sess[s].pc = "query"
        /\ sess' = [sess EXCEPT ![s].batch = new, ![s].pc = "send",
                                ![s].stale = @ \/ (k = "fetch" /\ new # <<>>)]
        /\ UNCHANGED <<jobVars, wire, slots, conn, clientVars>>

\* One event per row; the watermark follows whether the write worked or not.
SendRow(s) ==
    LET k == sess[s].kind IN
    /\ sess[s].pc = "send" /\ sess[s].batch # <<>>
    /\ Put(s, Message("row", k, Head(sess[s].batch)))
    /\ sess' = [sess EXCEPT ![s].batch = Tail(@), ![s].last[k] = Head(sess[s].batch)]
    /\ UNCHANGED <<jobVars, slots, conn, clientVars>>

\* Phase events are left to the initial snapshot.
BatchSentFetchesOnly(s) ==
    /\ sess[s].pc = "send" /\ sess[s].batch = <<>>
    /\ sess' = [sess EXCEPT
          ![s].kind = "phase",
          ![s].first = @ /\ sess[s].kind = "fetch",
          ![s].pc = IF ~sess[s].first THEN "terminal"
                    ELSE IF sess[s].kind = "fetch" THEN "query" ELSE "wait"]
    /\ UNCHANGED <<jobVars, wire, slots, conn, clientVars>>

\* After the fetches come the events, after those the check for the end, which
\* the initial snapshot leaves out.
BatchSent(s) ==
    /\ sess[s].pc = "send" /\ sess[s].batch = <<>>
    /\ sess' = [sess EXCEPT
          ![s].kind = "phase",
          ![s].first = @ /\ sess[s].kind = "fetch",
          ![s].pc = IF sess[s].kind = "fetch" THEN "query"
                    ELSE IF sess[s].first THEN "wait" ELSE "terminal"]
    /\ UNCHANGED <<jobVars, wire, slots, conn, clientVars>>

\* terminal: a tombstoned job ('deleting') is not over yet.
Terminal(s) ==
    /\ sess[s].pc = "terminal"
    /\ IF status \in {"ended", "gone"}
       THEN /\ Put(s, Message(IF status = "ended" THEN "done" ELSE "error", "fetch", 0))
            /\ Return(s)
       ELSE Go(s, "wait") /\ UNCHANGED <<wire, slots>>
    /\ UNCHANGED <<jobVars, conn, clientVars>>

\* The ticker fires; keepalives in between carry nothing.
TickFires(s) ==
    /\ sess[s].pc = "wait"
    /\ Go(s, "status")
    /\ UNCHANGED <<jobVars, wire, slots, conn, clientVars>>

\* The request's context ended, or a keepalive could not be written.
Disconnected(s) ==
    /\ sess[s].pc = "wait" /\ ~sess[s].live
    /\ Return(s)
    /\ UNCHANGED <<jobVars, wire, conn, clientVars>>

-----------------------------------------------------------------------------
(* The client.                                                               *)

LastGot(k) == IF got[k] = <<>> THEN from[k][1] ELSE got[k][Len(got[k])]

\* GET /activity reads the newest fetches and the newest phase events with two
\* queries; the client starts from the latest id of each, 0 without rows.
Snapshot(k) ==
    /\ from[k] = <<>>
    /\ k = "phase" => from["fetch"] # <<>>
    /\ from' = [from EXCEPT ![k] = <<IF purged[k] = rows[k] THEN 0 ELSE rows[k]>>]
    /\ UNCHANGED <<jobVars, sess, wire, slots, conn, got, closed, drops>>

\* Sessions are interchangeable: a new one takes the first name that is free.
FreeSession == CHOOSE s \in Sessions : sess[s].pc = "free"

\* A session that starts from the client's snapshot every time.
OpenAtSnapshot(s) ==
    /\ conn = NoSession /\ ~closed /\ from["phase"] # <<>>
    /\ status # "gone" /\ sess[s].pc = "free" /\ s = FreeSession
    /\ slots < MaxStreams /\ slots' = slots + 1
    /\ conn' = s
    /\ sess' = [sess EXCEPT ![s] = [Closed EXCEPT !.pc = "status", !.live = TRUE,
                                                  !.last = [k \in Kinds |-> from[k][1]]]]
    /\ UNCHANGED <<jobVars, wire, clientVars>>

\* GET /stream from the last rows the client has: tryClaimStreamSlot refuses when
\* the address holds MaxStreams sessions, some of which may have lost their client.
Open(s) ==
    /\ conn = NoSession /\ ~closed /\ from["phase"] # <<>>
    /\ status # "gone" /\ sess[s].pc = "free" /\ s = FreeSession
    /\ slots < MaxStreams /\ slots' = slots + 1
    /\ conn' = s
    /\ sess' = [sess EXCEPT ![s] = [Closed EXCEPT !.pc = "status", !.live = TRUE,
                                                  !.last = [k \in Kinds |-> LastGot(k)]]]
    /\ UNCHANGED <<jobVars, wire, clientVars>>

\* The stream of a job that is gone answers 404.
OpenGone ==
    /\ conn = NoSession /\ ~closed /\ status = "gone"
    /\ closed' = TRUE
    /\ UNCHANGED <<jobVars, sess, wire, slots, conn, from, got, drops>>

\* The client closes its connection on `done` and on an error.
Read(s) ==
    /\ conn = s /\ wire[s] # <<>>
    /\ LET m == Head(wire[s])
           over == m.type \in {"done", "error"} IN
       /\ got' = IF m.type = "row" THEN [got EXCEPT ![m.kind] = Append(@, m.n)] ELSE got
       /\ closed' = over
       /\ conn' = IF over THEN NoSession ELSE s
       /\ wire' = [wire EXCEPT ![s] = IF over THEN <<>> ELSE Tail(@)]
       /\ sess' = [sess EXCEPT ![s].live = @ /\ ~over]
    /\ UNCHANGED <<jobVars, slots, from, drops>>

\* The connection breaks: what it had buffered is lost.
Drop(s) ==
    /\ conn = s /\ drops < MaxDrops
    /\ conn' = NoSession /\ drops' = drops + 1
    /\ wire' = [wire EXCEPT ![s] = <<>>]
    /\ sess' = [sess EXCEPT ![s].live = FALSE]
    /\ UNCHANGED <<jobVars, slots, from, got, closed>>

SessionStep(s) ==
    \/ SendStatus(s) \/ StatusFails(s) \/ StatusVanished(s)
    \/ Query(s) \/ SendRow(s) \/ BatchSent(s)
    \/ Terminal(s) \/ TickFires(s) \/ Disconnected(s)

ClientStep ==
    \/ \E k \in Kinds : Snapshot(k)
    \/ \E s \in Sessions : Open(s) \/ Read(s)
    \/ OpenGone

Next ==
    \/ CommitFetch \/ CommitPhase \/ RemoveIssues
    \/ JobEnds \/ JobDeleted \/ PurgeIssues \/ JobGone
    \/ \E k \in Kinds : PurgeRow(k)
    \/ \E s \in Sessions : SessionStep(s) \/ Drop(s)
    \/ ClientStep

\* The server's goroutines run, its tickers fire, and the client keeps reading and
\* reconnecting.  A session whose client is gone may tick for ever only if its
\* writes never fail, hence strong fairness of noticing.
FairSpec ==
    /\ Init /\ [][Next]_vars
    /\ \A s \in Sessions :
          /\ WF_vars(SessionStep(s)) /\ WF_vars(Read(s))
          /\ SF_vars(StatusFails(s) \/ Disconnected(s))
    /\ SF_vars(\E s \in Sessions : Open(s))
    /\ WF_vars(ClientStep)

Spec == Init /\ [][Next]_vars

-----------------------------------------------------------------------------
(* Properties                                                                *)

\* The slot count of an address is the number of its running sessions on every way
\* out of a session, so that a client which reconnects is only refused while old
\* sessions really run.
SlotsExact ==
    slots = Cardinality({s \in Sessions : sess[s].pc # "free"})

\* A status snapshot is never older than the rows the client received before it: it
\* counts the issues as they were when the last fetch the client has was stored, or
\* later.  So it includes the issues stored with that fetch, less only those deleted
\* since.  It may still show issues that were deleted after it was computed.
SnapshotCoversRows ==
    (/\ conn # NoSession /\ wire[conn] # <<>> /\ Head(wire[conn]).type = "status"
     /\ LastGot("fetch") > 0)
        => Head(wire[conn]).n >= issuesAt[LastGot("fetch")]

\* With the job and the client alone in view the server delivers the feed of
\* ActivityFeed: each row once, in order, without gaps, whatever breaks.
Feed == INSTANCE ActivityFeed WITH
    committed <- rows,
    received <- got,
    phase <- CASE status = "running" -> "live" [] status = "ended" -> "ended"
               [] OTHER -> "purging"

FeedImplemented == Feed!Spec

\* Every row stored after the snapshot reaches the client unless the job ends or is
\* deleted first: breaks, refused reconnections and full batches only delay it.
FeedDelivers == Feed!Delivered
=============================================================================

------------------------ MODULE ActivityStream_proofs ------------------------
(***************************************************************************)
(* Proofs about the live activity of a job, for any number of sessions and   *)
(* any bounds: the slots of an address, the freshness of status snapshots,    *)
(* and that the stream implements ActivityFeed.                             *)
(***************************************************************************)
EXTENDS ActivityStream, FiniteSetTheorems, SequenceTheorems, TLAPS

Statuses == {"running", "ended", "deleting", "gone"}

Messages == [type : {"status", "row", "done", "error"}, kind : Kinds, n : Nat]

Records == [pc : {"free", "status", "query", "send", "terminal", "wait"}, kind : Kinds,
            last : [Kinds -> Nat], batch : Seq(Nat), cached : Nat,
            stale : BOOLEAN, first : BOOLEAN, live : BOOLEAN]

\* Every variable has its type.
TypeInv ==
    /\ status \in Statuses
    /\ rows \in [Kinds -> Nat] /\ purged \in [Kinds -> Nat]
    /\ issues \in Seq(Nat) /\ issues # <<>> /\ issuesAt \in Seq(Nat)
    /\ draining \in {"issues", "fetch", "phase", "job"}
    /\ sess \in [Sessions -> Records]
    /\ wire \in [Sessions -> Seq(Messages)]
    /\ slots \in Int
    /\ conn \in Sessions \cup {NoSession}
    /\ from \in [Kinds -> {<<>>} \cup {<<n>> : n \in Nat}]
    /\ got \in [Kinds -> Seq(Nat)]
    /\ closed \in BOOLEAN
    /\ drops \in Nat

Purging == status \in {"deleting", "gone"}

\* The job.  Rows are purged only after its tombstone, and a fetch was stored with the
\* issues of that moment, whatever was deleted of them since.
JobInv ==
    /\ \A k \in Kinds : purged[k] <= rows[k] /\ (~Purging => purged[k] = 0)
    /\ Len(issuesAt) = rows["fetch"]
    /\ \A x \in DOMAIN issuesAt : issuesAt[x] <= Len(issues)

\* The bounds of the instance.
BoundsInv ==
    /\ \A k \in Kinds : rows[k] <= MaxRows[k]
    /\ NumIssues <= MaxIssues /\ slots <= MaxStreams /\ drops <= MaxDrops
    /\ \A s \in Sessions : Len(wire[s]) <= WireCap

\* A batch holds the next rows after the watermark of its kind, all of them unless
\* the purge took some, and a count that is not stale is no older than any fetch up to
\* the watermark.
RecordInv(r) ==
    LET last == r.last[r.kind] IN
    /\ \A k \in Kinds : r.last[k] <= rows[k]
    /\ r.cached <= Len(issues)
    /\ r.pc # "send" => r.batch = <<>>
    /\ Len(r.batch) <= Batch
    /\ \A i \in DOMAIN r.batch : last < r.batch[i] /\ r.batch[i] <= rows[r.kind]
    /\ \A i, j \in DOMAIN r.batch : i < j => r.batch[i] < r.batch[j]
    /\ ~Purging => \A i \in DOMAIN r.batch : r.batch[i] = last + i
    /\ r.batch # <<>> /\ r.kind = "fetch" => r.stale
    /\ ~r.stale => \A x \in DOMAIN issuesAt : x <= r.last["fetch"] => issuesAt[x] <= r.cached

SessionInv == \A s \in Sessions : RecordInv(sess[s])

\* The client.  Only the connection it reads carries anything, it has one only after
\* its snapshots and until it is told that the feed is over, and its rows exist.
ClientInv ==
    /\ \A s \in Sessions : (sess[s].live \/ wire[s] # <<>>) => conn = s
    /\ conn # NoSession => ~closed /\ \A k \in Kinds : from[k] # <<>>
    /\ \A k \in Kinds : from[k] = <<>> => got[k] = <<>>
    /\ \A k \in Kinds : from[k] # <<>> => LastGot(k) \in Nat /\ LastGot(k) <= rows[k]

\* The snapshot of the phase events follows that of the fetches.
OrderInv == from["phase"] # <<>> => from["fetch"] # <<>>

IsRow(m, k) == m.type = "row" /\ m.kind = k

\* The rows of kind k in w ascend from above lo to at most hi.
Ascending(w, k, lo, hi) ==
    /\ \A i \in DOMAIN w : IsRow(w[i], k) => lo < w[i].n /\ w[i].n <= hi
    /\ \A i, j \in DOMAIN w : i < j /\ IsRow(w[i], k) /\ IsRow(w[j], k) => w[i].n < w[j].n

\* No row above lo is missing below a row of w.
Dense(w, k, lo) ==
    \A i \in DOMAIN w : IsRow(w[i], k) =>
        \A x \in lo + 1 .. w[i].n - 1 : \E j \in DOMAIN w : IsRow(w[j], k) /\ w[j].n = x

\* The row hi has been written to w, unless the client had it before.
Reaches(w, k, lo, hi) ==
    lo < hi => \E j \in DOMAIN w : IsRow(w[j], k) /\ w[j].n = hi

\* Every status in w covers the fetch `lo` and the fetches before it in w, where at[x] is
\* the place of the issues stored with fetch x.
Covers(w, lo, at) ==
    \A i \in DOMAIN w : w[i].type = "status" =>
        /\ lo > 0 => w[i].n >= at[lo]
        /\ \A j \in DOMAIN w : j < i /\ IsRow(w[j], "fetch") => w[i].n >= at[w[j].n]

\* What the connection carries continues what the client has, up to the watermark of
\* the session while that lives, and no message says early that the feed is over.
WireInv ==
    conn # NoSession =>
        LET w == wire[conn] IN
        /\ \A k \in Kinds :
              /\ Ascending(w, k, LastGot(k), rows[k])
              /\ sess[conn].live => /\ LastGot(k) <= sess[conn].last[k]
                                    /\ Ascending(w, k, LastGot(k), sess[conn].last[k])
              /\ ~Purging => /\ Dense(w, k, LastGot(k))
                             /\ sess[conn].live =>
                                   Reaches(w, k, LastGot(k), sess[conn].last[k])
        /\ Covers(w, LastGot("fetch"), issuesAt)
        /\ \A i \in DOMAIN w : w[i].type \in {"done", "error"} => status # "running"

IInv == TypeInv /\ JobInv /\ BoundsInv /\ SessionInv /\ ClientInv /\ OrderInv
        /\ WireInv /\ SlotsExact

-----------------------------------------------------------------------------
(* What a connection carries: one more message, one message less.           *)

\* The places and messages of a sequence with one more message at its end.
LEMMA Appended ==
    ASSUME NEW S, NEW w \in Seq(S), NEW m \in S
    PROVE  /\ Append(w, m) \in Seq(S)
           /\ DOMAIN Append(w, m) = DOMAIN w \cup {Len(w) + 1}
           /\ \A i \in DOMAIN w : Append(w, m)[i] = w[i] /\ i \in Nat /\ i < Len(w) + 1
           /\ Append(w, m)[Len(w) + 1] = m
           /\ Len(w) + 1 \in Nat
OBVIOUS

\* The places and messages of a sequence without its first message.
LEMMA Tailed ==
    ASSUME NEW S, NEW w \in Seq(S), w # <<>>
    PROVE  /\ Tail(w) \in Seq(S) /\ Head(w) = w[1] /\ 1 \in DOMAIN w /\ Head(w) \in S
           /\ \A i \in DOMAIN Tail(w) : Tail(w)[i] = w[i + 1] /\ i + 1 \in DOMAIN w
                                      /\ i \in Nat /\ i + 1 > 1
           /\ \A i \in DOMAIN w : i \in Nat /\ i >= 1
                 /\ (i # 1 => i - 1 \in DOMAIN Tail(w) /\ Tail(w)[i - 1] = w[i])
OBVIOUS

\* Every message of a connection has a number and a kind.
LEMMA MessageTypes ==
    ASSUME NEW w \in Seq(Messages), NEW i \in DOMAIN w
    PROVE  w[i] \in Messages /\ w[i].n \in Nat /\ w[i].kind \in Kinds
<1>1. w[i] \in Messages
  OBVIOUS
<1> QED
  BY <1>1 DEF Messages

\* A message that is no row of kind k changes nothing for the rows of that kind.
LEMMA OtherAppended ==
    ASSUME NEW w \in Seq(Messages), NEW m \in Messages, NEW k \in Kinds, ~IsRow(m, k),
           NEW lo \in Nat, NEW hi \in Nat
    PROVE  /\ Ascending(w, k, lo, hi) => Ascending(Append(w, m), k, lo, hi)
           /\ Dense(w, k, lo) => Dense(Append(w, m), k, lo)
           /\ Reaches(w, k, lo, hi) => Reaches(Append(w, m), k, lo, hi)
<1> DEFINE v == Append(w, m)
<1>1. /\ DOMAIN v = DOMAIN w \cup {Len(w) + 1}
      /\ \A i \in DOMAIN w : v[i] = w[i] /\ i \in Nat
      /\ v[Len(w) + 1] = m /\ Len(w) + 1 \in Nat
  BY Appended
<1> HIDE DEF v
<1>2. Ascending(w, k, lo, hi) => Ascending(v, k, lo, hi)
  BY <1>1 DEF Ascending
<1>3. Dense(w, k, lo) => Dense(v, k, lo)
  BY <1>1 DEF Dense
<1>4. Reaches(w, k, lo, hi) => Reaches(v, k, lo, hi)
  BY <1>1 DEF Reaches
<1> QED
  BY <1>2, <1>3, <1>4 DEF v

\* A row above the watermark extends the ascent, the next row leaves no gap.
LEMMA RowAppended ==
    ASSUME NEW w \in Seq(Messages), NEW m \in Messages, NEW k \in Kinds, IsRow(m, k),
           NEW lo \in Nat, NEW hi \in Nat, NEW top \in Nat,
           lo <= hi, hi < m.n, Ascending(w, k, lo, hi)
    PROVE  /\ m.n <= top => Ascending(Append(w, m), k, lo, top)
           /\ m.n = hi + 1 /\ Dense(w, k, lo) /\ Reaches(w, k, lo, hi)
                 => Dense(Append(w, m), k, lo) /\ Reaches(Append(w, m), k, lo, m.n)
<1> DEFINE v == Append(w, m)
           e == Len(w) + 1
<1>1. /\ DOMAIN v = DOMAIN w \cup {e} /\ e \in Nat
      /\ \A i \in DOMAIN w : v[i] = w[i] /\ i \in Nat /\ i < e
      /\ v[e] = m
      /\ \A i \in DOMAIN w : w[i] \in Messages
  BY Appended
<1>2. m.n \in Nat /\ \A i \in DOMAIN w : w[i].n \in Nat
  BY <1>1 DEF Messages
<1> HIDE DEF v, e
<1>3. ASSUME m.n <= top PROVE Ascending(v, k, lo, top)
  <2>1. \A i \in DOMAIN v : IsRow(v[i], k) => lo < v[i].n /\ v[i].n <= top
    BY <1>1, <1>2, <1>3 DEF Ascending
  <2>2. \A i, j \in DOMAIN v : i < j /\ IsRow(v[i], k) /\ IsRow(v[j], k) => v[i].n < v[j].n
    <3> SUFFICES ASSUME NEW i \in DOMAIN v, NEW j \in DOMAIN v, i < j,
                        IsRow(v[i], k), IsRow(v[j], k)
                 PROVE v[i].n < v[j].n
      OBVIOUS
    <3>1. i \in DOMAIN w
      BY <1>1
    <3>2. CASE j \in DOMAIN w
      BY <1>1, <3>1, <3>2 DEF Ascending
    <3>3. CASE j = e
      <4>1. w[i].n <= hi
        BY <1>1, <3>1 DEF Ascending
      <4> QED
        BY <1>1, <1>2, <3>1, <3>3, <4>1
    <3> QED
      BY <1>1, <3>2, <3>3
  <2> QED
    BY <2>1, <2>2 DEF Ascending
<1>4. ASSUME m.n = hi + 1, Dense(w, k, lo), Reaches(w, k, lo, hi)
      PROVE  Dense(v, k, lo)
  <2> SUFFICES ASSUME NEW i \in DOMAIN v, IsRow(v[i], k), NEW x \in lo + 1 .. v[i].n - 1
               PROVE \E j \in DOMAIN v : IsRow(v[j], k) /\ v[j].n = x
    BY DEF Dense
  <2>1. SUFFICES \E j \in DOMAIN w : IsRow(w[j], k) /\ w[j].n = x
    BY <1>1
  <2>2. CASE i \in DOMAIN w
    BY <1>1, <1>4, <2>2 DEF Dense
  <2>3. CASE i = e
    <3>1. x \in lo + 1 .. hi /\ lo < hi
      BY <1>1, <1>4, <2>3
    <3>2. PICK j \in DOMAIN w : IsRow(w[j], k) /\ w[j].n = hi
      BY <1>4, <3>1 DEF Reaches
    <3>3. x = hi \/ x \in lo + 1 .. w[j].n - 1
      BY <3>1, <3>2
    <3> QED
      BY <1>4, <3>2, <3>3 DEF Dense
  <2> QED
    BY <1>1, <2>2, <2>3
<1>5. Reaches(v, k, lo, m.n)
  BY <1>1 DEF Reaches
<1> QED
  BY <1>3, <1>4, <1>5 DEF v

\* Reading a message that is no row of kind k.
LEMMA OtherRead ==
    ASSUME NEW w \in Seq(Messages), w # <<>>, NEW k \in Kinds, ~IsRow(Head(w), k),
           NEW lo \in Nat, NEW hi \in Nat
    PROVE  /\ Ascending(w, k, lo, hi) => Ascending(Tail(w), k, lo, hi)
           /\ Dense(w, k, lo) => Dense(Tail(w), k, lo)
           /\ Reaches(w, k, lo, hi) => Reaches(Tail(w), k, lo, hi)
<1> DEFINE v == Tail(w)
<1>1. /\ ~IsRow(w[1], k)
      /\ \A i \in DOMAIN v : v[i] = w[i + 1] /\ i + 1 \in DOMAIN w /\ i \in Nat
      /\ \A i \in DOMAIN w : i # 1 => i - 1 \in DOMAIN v /\ v[i - 1] = w[i]
  BY Tailed
<1> HIDE DEF v
<1>2. \A j \in DOMAIN w : IsRow(w[j], k) => \E i \in DOMAIN v : v[i] = w[j]
  BY <1>1
<1>3. Ascending(w, k, lo, hi) => Ascending(v, k, lo, hi)
  <2>1. \A i, j \in DOMAIN v : i < j => i + 1 < j + 1
    BY <1>1
  <2> QED
    BY <1>1, <2>1 DEF Ascending
<1>4. Dense(w, k, lo) => Dense(v, k, lo)
  <2> SUFFICES ASSUME Dense(w, k, lo), NEW i \in DOMAIN v, IsRow(v[i], k),
                      NEW x \in lo + 1 .. v[i].n - 1
               PROVE  \E j \in DOMAIN v : IsRow(v[j], k) /\ v[j].n = x
    BY DEF Dense
  <2>1. PICK j \in DOMAIN w : IsRow(w[j], k) /\ w[j].n = x
    BY <1>1 DEF Dense
  <2> QED
    BY <1>2, <2>1
<1>5. Reaches(w, k, lo, hi) => Reaches(v, k, lo, hi)
  BY <1>2 DEF Reaches
<1> QED
  BY <1>3, <1>4, <1>5 DEF v

\* Reading a row of kind k: it is the next one when none is missing, and what follows
\* continues from it.
LEMMA RowRead ==
    ASSUME NEW w \in Seq(Messages), w # <<>>, NEW k \in Kinds, IsRow(Head(w), k),
           NEW lo \in Nat, NEW hi \in Nat, Ascending(w, k, lo, hi)
    PROVE  /\ lo < Head(w).n /\ Head(w).n <= hi
           /\ Ascending(Tail(w), k, Head(w).n, hi)
           /\ Dense(w, k, lo) => Head(w).n = lo + 1 /\ Dense(Tail(w), k, Head(w).n)
           /\ \A top \in Nat : Reaches(w, k, lo, top) => Reaches(Tail(w), k, Head(w).n, top)
<1> DEFINE v == Tail(w)
           n == Head(w).n
<1>1. /\ 1 \in DOMAIN w /\ IsRow(w[1], k) /\ w[1].n = n
      /\ \A i \in DOMAIN v : v[i] = w[i + 1] /\ i + 1 \in DOMAIN w /\ i \in Nat /\ i + 1 > 1
      /\ \A i \in DOMAIN w : i # 1 => i - 1 \in DOMAIN v /\ v[i - 1] = w[i]
      /\ \A i \in DOMAIN w : i \in Nat /\ i >= 1 /\ w[i] \in Messages
  BY Tailed
<1>2. n \in Nat /\ \A i \in DOMAIN w : w[i].n \in Nat
  BY <1>1 DEF Messages
<1> HIDE DEF v, n
<1>3. \A j \in DOMAIN w : IsRow(w[j], k) /\ w[j].n # n => \E i \in DOMAIN v : v[i] = w[j]
  BY <1>1
<1>4. lo < n /\ n <= hi
  BY <1>1 DEF Ascending
<1>5. Ascending(v, k, n, hi)
  BY <1>1 DEF Ascending
<1>6. ASSUME Dense(w, k, lo) PROVE n = lo + 1
  <2> SUFFICES ASSUME n # lo + 1 PROVE FALSE
    OBVIOUS
  <2>1. lo + 1 \in lo + 1 .. n - 1
    BY <1>2, <1>4
  <2>2. PICK j \in DOMAIN w : IsRow(w[j], k) /\ w[j].n = lo + 1
    BY <1>1, <1>6, <2>1 DEF Dense
  <2>3. j # 1 /\ 1 < j
    BY <1>1, <2>2
  <2>4. n < lo + 1
    BY <1>1, <2>2, <2>3 DEF Ascending
  <2> QED
    BY <1>2, <1>4, <2>4
<1>7. ASSUME Dense(w, k, lo) PROVE Dense(v, k, n)
  <2> SUFFICES ASSUME NEW i \in DOMAIN v, IsRow(v[i], k), NEW x \in n + 1 .. v[i].n - 1
               PROVE  \E j \in DOMAIN v : IsRow(v[j], k) /\ v[j].n = x
    BY DEF Dense
  <2>1. v[i] = w[i + 1] /\ i + 1 \in DOMAIN w /\ x \in lo + 1 .. w[i + 1].n - 1
    BY <1>1, <1>2, <1>4
  <2>2. PICK j \in DOMAIN w : IsRow(w[j], k) /\ w[j].n = x
    BY <1>7, <2>1 DEF Dense
  <2>3. x # n
    BY <1>2
  <2> QED
    BY <1>3, <2>2, <2>3
<1>8. ASSUME NEW top \in Nat, Reaches(w, k, lo, top) PROVE Reaches(v, k, n, top)
  <2> SUFFICES ASSUME n < top PROVE \E j \in DOMAIN v : IsRow(v[j], k) /\ v[j].n = top
    BY DEF Reaches
  <2>1. PICK j \in DOMAIN w : IsRow(w[j], k) /\ w[j].n = top
    BY <1>2, <1>4, <1>8 DEF Reaches
  <2> QED
    BY <1>2, <1>3, <2>1
<1> QED
  BY <1>4, <1>5, <1>6, <1>7, <1>8 DEF v, n

\* A status at the end covers what came before it; a message of another type need not.
LEMMA CoversAppended ==
    ASSUME NEW w \in Seq(Messages), NEW m \in Messages, NEW lo \in Nat, NEW hi \in Nat, NEW at,
           Covers(w, lo, at), Ascending(w, "fetch", lo, hi), lo <= hi,
           m.type = "status" => \A x \in 1..hi : m.n >= at[x]
    PROVE  Covers(Append(w, m), lo, at)
<1> DEFINE v == Append(w, m)
           e == Len(w) + 1
<1>1. /\ DOMAIN v = DOMAIN w \cup {e} /\ e \in Nat
      /\ \A i \in DOMAIN w : v[i] = w[i] /\ i \in Nat /\ i < e
      /\ v[e] = m
      /\ \A i \in DOMAIN w : w[i] \in Messages
  BY Appended
<1>2. \A i \in DOMAIN w : w[i].n \in Nat
  BY <1>1 DEF Messages
<1> HIDE DEF v, e
<1> SUFFICES ASSUME NEW i \in DOMAIN v, v[i].type = "status"
             PROVE  /\ lo > 0 => v[i].n >= at[lo]
                    /\ \A j \in DOMAIN v :
                          j < i /\ IsRow(v[j], "fetch") => v[i].n >= at[v[j].n]
  BY DEF Covers, v
<1>3. CASE i \in DOMAIN w
  BY <1>1, <1>3 DEF Covers
<1>4. CASE i = e
  <2>1. lo > 0 => v[i].n >= at[lo]
    BY <1>1, <1>4
  <2>2. ASSUME NEW j \in DOMAIN v, j < i, IsRow(v[j], "fetch") PROVE v[i].n >= at[v[j].n]
    <3>1. j \in DOMAIN w /\ v[j] = w[j]
      BY <1>1, <1>4, <2>2
    <3>2. lo < w[j].n /\ w[j].n <= hi
      BY <2>2, <3>1 DEF Ascending
    <3>3. w[j].n \in 1..hi
      BY <1>2, <3>1, <3>2
    <3> QED
      BY <1>1, <1>4, <3>1, <3>3
  <2> QED
    BY <2>1, <2>2
<1> QED
  BY <1>1, <1>3, <1>4

\* Reading keeps the cover: a fetch that is read was before the statuses that remain.
LEMMA CoversRead ==
    ASSUME NEW w \in Seq(Messages), w # <<>>, NEW lo \in Nat, NEW at, Covers(w, lo, at)
    PROVE  /\ Covers(Tail(w), lo, at)
           /\ IsRow(Head(w), "fetch") => Covers(Tail(w), Head(w).n, at)
<1> DEFINE v == Tail(w)
<1>1. /\ 1 \in DOMAIN w /\ w[1] = Head(w)
      /\ \A i \in DOMAIN v : v[i] = w[i + 1] /\ i + 1 \in DOMAIN w /\ i \in Nat /\ i + 1 > 1
  BY Tailed
<1> HIDE DEF v
<1>2. \A i, j \in DOMAIN v : j < i => j + 1 < i + 1
  BY <1>1
<1>3. Covers(v, lo, at)
  BY <1>1, <1>2 DEF Covers
<1>4. ASSUME IsRow(Head(w), "fetch") PROVE Covers(v, Head(w).n, at)
  BY <1>1, <1>2, <1>4 DEF Covers
<1> QED
  BY <1>3, <1>4 DEF v

-----------------------------------------------------------------------------
(* The job.                                                                 *)

JobStep == \/ CommitFetch \/ CommitPhase \/ RemoveIssues \/ JobEnds \/ JobDeleted
           \/ PurgeIssues \/ JobGone \/ \E k \in Kinds : PurgeRow(k)

\* A change of the issue rows, upwards or downwards, is a later state of their table.
LEMMA CountChanges ==
    ASSUME TypeInv, NEW n \in Nat, Count(n)
    PROVE  /\ issues' \in Seq(Nat) /\ issues' # <<>> /\ NumIssues' = n
           /\ Len(issues) \in Nat /\ Len(issues') \in Nat /\ Len(issues) <= Len(issues')
<1>1. issues \in Seq(Nat) /\ issues # <<>>
  BY DEF TypeInv
<1>2. CASE n = NumIssues
  BY <1>1, <1>2 DEF Count, NumIssues
<1>3. CASE n # NumIssues
  <2>1. issues' = Append(issues, n)
    BY <1>3 DEF Count
  <2>2. /\ Len(issues') = Len(issues) + 1 /\ Len(issues) \in Nat
        /\ issues'[Len(issues) + 1] = n /\ issues' \in Seq(Nat)
    BY <1>1, <2>1
  <2> QED
    BY <2>1, <2>2 DEF NumIssues
<1> QED
  BY <1>2, <1>3

\* What a step of the job does to the issues.
LEMMA IssuesChange ==
    ASSUME TypeInv, JobStep
    PROVE  /\ issues' \in Seq(Nat) /\ issues' # <<>>
           /\ Len(issues) \in Nat /\ Len(issues') \in Nat /\ Len(issues) <= Len(issues')
           /\ NumIssues <= MaxIssues => NumIssues' <= MaxIssues
<1>1. issues \in Seq(Nat) /\ issues # <<>> /\ NumIssues \in Nat /\ MaxIssues \in Nat
  BY StreamAssumption DEF TypeInv, NumIssues
<1>2. \/ issues' = issues
      \/ \E n \in NumIssues + 1 .. MaxIssues : Count(n)
      \/ \E n \in 0 .. NumIssues - 1 : Count(n)
      \/ \E n \in {0} \cup 1 .. NumIssues - 1 : Count(n)
      \/ Count(0)
  BY DEF JobStep, CommitFetch, CommitPhase, RemoveIssues, IssuesFound, IssuesWithdrawn, JobEnds,
         JobDeleted, PurgeIssues, JobGone, PurgeRow
<1>3. CASE issues' = issues
  BY <1>1, <1>3 DEF NumIssues
<1>4. CASE \E n \in Nat : Count(n) /\ (n <= NumIssues \/ n <= MaxIssues)
  BY <1>1, <1>4, CountChanges
<1>5. issues' = issues \/ \E n \in Nat : Count(n) /\ (n <= NumIssues \/ n <= MaxIssues)
  BY <1>1, <1>2
<1> QED
  BY <1>3, <1>4, <1>5

\* What the rest of the system sees of the job: rows only grow, the issues only take
\* new states, a fetch that was stored keeps its place among them, a tombstone stays,
\* and an end is no new start.
LEMMA JobGrows ==
    ASSUME TypeInv, JobInv, JobStep
    PROVE  /\ status' \in Statuses /\ rows' \in [Kinds -> Nat] /\ purged' \in [Kinds -> Nat]
           /\ issues' \in Seq(Nat) /\ issues' # <<>> /\ issuesAt' \in Seq(Nat)
           /\ draining' \in {"issues", "fetch", "phase", "job"}
           /\ \A k \in Kinds : rows[k] <= rows'[k]
           /\ Len(issues) \in Nat /\ Len(issues') \in Nat /\ Len(issues) <= Len(issues')
           /\ \A x \in DOMAIN issuesAt : x \in DOMAIN issuesAt' /\ issuesAt'[x] = issuesAt[x]
           /\ Purging => Purging'
           /\ status # "running" => status' # "running"
           /\ UNCHANGED <<sess, wire, slots, conn, clientVars>>
           /\ JobInv'
<1> USE DEF TypeInv, JobInv, Purging, Statuses, Kinds, clientVars
<1>0. /\ issues' \in Seq(Nat) /\ issues' # <<>>
      /\ Len(issues) \in Nat /\ Len(issues') \in Nat /\ Len(issues) <= Len(issues')
  BY IssuesChange
<1> HIDE DEF JobStep
<1>a. ASSUME issuesAt' = issuesAt
      PROVE  \A x \in DOMAIN issuesAt' : issuesAt'[x] <= Len(issues')
  <2>1. \A x \in DOMAIN issuesAt : issuesAt[x] \in Nat /\ issuesAt[x] <= Len(issues)
    OBVIOUS
  <2> HIDE DEF TypeInv, JobInv
  <2> QED
    BY <1>0, <1>a, <2>1
<1>1. CASE CommitFetch
  <2> DEFINE n == Len(issues')
  <2>1. issuesAt' = Append(issuesAt, n) /\ n \in Nat
    BY <1>0, <1>1 DEF CommitFetch
  <2> HIDE DEF n
  <2>3. /\ issuesAt' \in Seq(Nat) /\ Len(issuesAt') = Len(issuesAt) + 1
        /\ DOMAIN issuesAt' = DOMAIN issuesAt \cup {Len(issuesAt) + 1}
        /\ \A x \in DOMAIN issuesAt : issuesAt'[x] = issuesAt[x] /\ issuesAt[x] \in Nat
        /\ issuesAt'[Len(issuesAt) + 1] = n
    <3>1. issuesAt \in Seq(Nat)
      OBVIOUS
    <3>2. Len(issuesAt') = Len(issuesAt) + 1 /\ \A x \in DOMAIN issuesAt : issuesAt[x] \in Nat
      BY <2>1, <3>1
    <3> QED
      BY <2>1, <3>1, <3>2, Appended
  <2>4. /\ rows' = [rows EXCEPT !["fetch"] = @ + 1] /\ purged' = purged /\ status' = status
        /\ draining' = draining /\ UNCHANGED <<sess, wire, slots, conn, clientVars>>
    BY <1>1 DEF CommitFetch
  <2>5. \A x \in DOMAIN issuesAt' : issuesAt'[x] <= Len(issues')
    <3>1. \A x \in DOMAIN issuesAt : issuesAt[x] \in Nat /\ issuesAt[x] <= Len(issues)
      OBVIOUS
    <3> HIDE DEF TypeInv, JobInv
    <3> QED
      BY <1>0, <2>1, <2>3, <3>1 DEF n
  <2>6. \A k \in Kinds : purged'[k] <= rows'[k] /\ (~Purging' => purged'[k] = 0) /\ rows[k] <= rows'[k]
    BY <2>4
  <2>7. Len(issuesAt') = rows'["fetch"]
    BY <2>3, <2>4
  <2>8. rows' \in [Kinds -> Nat]
    BY <2>4
  <2>9. JobInv'
    BY <2>5, <2>6, <2>7
  <2> HIDE DEF JobInv
  <2> QED
    BY <1>0, <2>3, <2>4, <2>6, <2>8, <2>9
<1>2. CASE CommitPhase \/ RemoveIssues
  <2>1. /\ issuesAt' = issuesAt /\ purged' = purged /\ status' = status /\ draining' = draining
        /\ rows' \in [Kinds -> Nat] /\ rows'["fetch"] = rows["fetch"]
        /\ \A k \in Kinds : rows[k] <= rows'[k]
        /\ UNCHANGED <<sess, wire, slots, conn, clientVars>>
    BY <1>2 DEF CommitPhase, RemoveIssues
  <2>2. \A x \in DOMAIN issuesAt' : issuesAt'[x] <= Len(issues')
    BY <1>a, <2>1
  <2>3. \A k \in Kinds : purged'[k] <= rows'[k] /\ (~Purging' => purged'[k] = 0)
    BY <2>1
  <2>4. JobInv'
    BY <2>1, <2>2, <2>3
  <2> HIDE DEF JobInv
  <2> QED
    BY <1>0, <2>1, <2>4
<1>3. CASE JobEnds
  BY <1>0, <1>3 DEF JobEnds
<1>4. CASE JobDeleted
  BY <1>0, <1>4 DEF JobDeleted
<1>5. CASE JobGone
  <2>1. /\ status = "deleting" /\ status' = "gone" /\ purged' = rows
        /\ UNCHANGED <<rows, issuesAt, draining, sess, wire, slots, conn, clientVars>>
    BY <1>5 DEF JobGone
  <2>2. \A x \in DOMAIN issuesAt' : issuesAt'[x] <= Len(issues')
    BY <1>a, <2>1
  <2>3. JobInv'
    BY <2>1, <2>2
  <2> HIDE DEF JobInv
  <2> QED
    BY <1>0, <2>1, <2>3
<1>6. CASE \E k \in Kinds : PurgeRow(k)
  <2>1. PICK k \in Kinds : PurgeRow(k)
    BY <1>6
  <2>2. PICK n \in {rows[k]} \cup purged[k] + 1 .. rows[k] :
              /\ purged' = [purged EXCEPT ![k] = n]
              /\ draining' = IF n < rows[k] THEN k ELSE IF k = "fetch" THEN "phase" ELSE "job"
    BY <2>1 DEF PurgeRow
  <2>3. /\ status = "deleting" /\ UNCHANGED <<status, rows, issues, issuesAt>>
        /\ UNCHANGED <<sess, wire, slots, conn, clientVars>>
    BY <2>1 DEF PurgeRow
  <2>4. n \in Nat /\ n <= rows[k]
    OBVIOUS
  <2>5. purged' \in [Kinds -> Nat] /\ \A q \in Kinds : purged'[q] <= rows[q]
    BY <2>2, <2>4
  <2> QED
    BY <1>0, <2>2, <2>3, <2>5
<1>7. CASE PurgeIssues
  <2>1. /\ status = "deleting" /\ UNCHANGED <<status, rows, purged, issuesAt>>
        /\ draining' \in {"issues", "fetch"}
        /\ UNCHANGED <<sess, wire, slots, conn, clientVars>>
    BY <1>7 DEF PurgeIssues
  <2>2. \A x \in DOMAIN issuesAt' : issuesAt'[x] <= Len(issues')
    BY <1>a, <2>1
  <2>3. JobInv'
    BY <2>1, <2>2
  <2> HIDE DEF JobInv
  <2> QED
    BY <1>0, <2>1, <2>3
<1> QED
  BY <1>1, <1>2, <1>3, <1>4, <1>5, <1>6, <1>7 DEF JobStep

\* What the job writes disturbs neither the sessions nor what a connection carries.
LEMMA JobKeeps ==
    ASSUME IInv, JobStep
    PROVE  IInv'
<1> USE DEF IInv
<1>7. /\ JobInv' /\ rows' \in [Kinds -> Nat] /\ issuesAt' \in Seq(Nat)
      /\ rows \in [Kinds -> Nat] /\ issuesAt \in Seq(Nat)
  BY JobGrows DEF TypeInv
<1>8. DOMAIN issuesAt = 1..rows["fetch"] /\ DOMAIN issuesAt' = 1..rows'["fetch"]
  BY <1>7 DEF JobInv
<1>0. /\ \A k \in Kinds : rows[k] \in Nat /\ rows'[k] \in Nat /\ rows[k] <= rows'[k]
      /\ Len(issues) \in Nat /\ Len(issues') \in Nat /\ Len(issues) <= Len(issues')
      /\ \A x \in DOMAIN issuesAt : x \in DOMAIN issuesAt' /\ issuesAt'[x] = issuesAt[x]
      /\ ~Purging' => ~Purging
      /\ status # "running" => status' # "running"
      /\ DOMAIN issuesAt = 1..rows["fetch"] /\ DOMAIN issuesAt' = 1..rows'["fetch"]
      /\ JobInv'
      /\ UNCHANGED <<sess, wire, slots, conn, from, got, closed, drops>>
  BY <1>7, <1>8, JobGrows DEF clientVars
<1>1. TypeInv'
  BY JobGrows DEF TypeInv, clientVars
<1>2. BoundsInv'
  <2>1. /\ \A k \in Kinds : rows'[k] <= MaxRows[k]
        /\ NumIssues' <= MaxIssues
    <3>0. /\ rows \in [Kinds -> Nat] /\ MaxRows \in [Kinds -> Nat]
          /\ \A k \in Kinds : rows[k] <= MaxRows[k]
          /\ NumIssues' <= MaxIssues
      BY StreamAssumption, IssuesChange DEF BoundsInv, TypeInv
    <3> HIDE DEF IInv
    <3>1. CASE CommitFetch
      BY <3>0, <3>1 DEF CommitFetch, Kinds
    <3>2. CASE CommitPhase
      BY <3>0, <3>2 DEF CommitPhase, Kinds
    <3>3. CASE \/ RemoveIssues \/ JobEnds \/ JobDeleted \/ PurgeIssues \/ JobGone
               \/ \E k \in Kinds : PurgeRow(k)
      BY <3>0, <3>3 DEF RemoveIssues, JobEnds, JobDeleted, PurgeIssues, JobGone, PurgeRow
    <3> QED
      BY <3>1, <3>2, <3>3 DEF JobStep
  <2> QED
    BY <1>0, <2>1 DEF BoundsInv
<1>3. SessionInv'
  <2> SUFFICES ASSUME NEW s \in Sessions PROVE RecordInv(sess[s])'
    BY DEF SessionInv
  <2> DEFINE r == sess[s]
  <2>1. r \in Records /\ r' = r /\ RecordInv(r)
    BY <1>0 DEF TypeInv, SessionInv
  <2>2. /\ \A k \in Kinds : r.last[k] \in Nat
        /\ r.cached \in Nat /\ r.kind \in Kinds
        /\ \A i \in DOMAIN r.batch : r.batch[i] \in Nat
        /\ r.stale \in BOOLEAN
    BY <2>1 DEF Records
  <2> HIDE DEF r
  <2>3. \A k \in Kinds : r.last[k] <= rows'[k]
    BY <1>0, <2>1, <2>2 DEF RecordInv
  <2>4. r.cached <= Len(issues')
    BY <1>0, <2>1, <2>2 DEF RecordInv
  <2>5. \A i \in DOMAIN r.batch : r.batch[i] <= rows'[r.kind]
    BY <1>0, <2>1, <2>2 DEF RecordInv
  <2>6. ~r.stale => \A x \in DOMAIN issuesAt' : x <= r.last["fetch"] => issuesAt'[x] <= r.cached
    <3> SUFFICES ASSUME ~r.stale, NEW x \in DOMAIN issuesAt', x <= r.last["fetch"]
                 PROVE issuesAt'[x] <= r.cached
      OBVIOUS
    <3>1. r.last["fetch"] <= rows["fetch"] /\ r.last["fetch"] \in Nat
      BY <2>1, <2>2 DEF RecordInv, Kinds
    <3>2. x \in DOMAIN issuesAt
      BY <1>0, <3>1 DEF Kinds
    <3> QED
      BY <1>0, <2>1, <3>2 DEF RecordInv
  <2>7. RecordInv(r)'
    BY <1>0, <2>1, <2>3, <2>4, <2>5, <2>6 DEF RecordInv
  <2> QED
    BY <2>7 DEF r
<1>4. ClientInv'
  <2>1. \A k \in Kinds : LastGot(k)' = LastGot(k)
    BY <1>0 DEF LastGot
  <2> QED
    BY <1>0, <2>1 DEF ClientInv
<1>5. WireInv'
  <2> SUFFICES ASSUME conn # NoSession PROVE WireInv'
    BY <1>0 DEF WireInv
  <2> DEFINE w == wire[conn]
  <2>1. w' = w /\ w \in Seq(Messages) /\ conn \in Sessions
    BY <1>0 DEF TypeInv
  <2>2. \A i \in DOMAIN w : w[i].n \in Nat
    BY <2>1, MessageTypes
  <2>3. \A k \in Kinds : LastGot(k)' = LastGot(k) /\ LastGot(k) \in Nat /\ LastGot(k) <= rows[k]
    BY <1>0 DEF LastGot, ClientInv
  <2>9. LastGot("fetch")' = LastGot("fetch")
    BY <1>0 DEF LastGot
  <2>4. Covers(w, LastGot("fetch"), issuesAt)
    BY DEF WireInv
  <2>5. \A k \in Kinds : Ascending(w, k, LastGot(k), rows[k])
    BY DEF WireInv
  <2>6. /\ \A k \in Kinds : sess[conn].live => /\ LastGot(k) <= sess[conn].last[k]
                                              /\ Ascending(w, k, LastGot(k), sess[conn].last[k])
        /\ \A k \in Kinds : ~Purging => /\ Dense(w, k, LastGot(k))
                                        /\ sess[conn].live =>
                                             Reaches(w, k, LastGot(k), sess[conn].last[k])
        /\ \A i \in DOMAIN w : w[i].type \in {"done", "error"} => status # "running"
    BY DEF WireInv
  <2> HIDE DEF w
  <2>7. ASSUME NEW k \in Kinds PROVE Ascending(w, k, LastGot(k), rows'[k])
    <3>1. \A i \in DOMAIN w : IsRow(w[i], k) => w[i].n <= rows'[k]
      BY <1>0, <2>2, <2>5 DEF Ascending
    <3> QED
      BY <2>5, <3>1 DEF Ascending
  <2>8. Covers(w, LastGot("fetch"), issuesAt')
    <3> DEFINE lo == LastGot("fetch")
    <3>1. lo \in Nat /\ lo' = lo /\ lo <= rows["fetch"] /\ Ascending(w, "fetch", lo, rows["fetch"])
      BY <2>3, <2>5 DEF Kinds
    <3> HIDE DEF lo
    <3>2. rows["fetch"] \in Nat
      BY <1>0 DEF Kinds
    <3>3. lo > 0 => issuesAt'[lo] = issuesAt[lo]
      BY <1>0, <3>1, <3>2
    <3>4. \A j \in DOMAIN w : IsRow(w[j], "fetch") => issuesAt'[w[j].n] = issuesAt[w[j].n]
      <4> SUFFICES ASSUME NEW j \in DOMAIN w, IsRow(w[j], "fetch")
                   PROVE issuesAt'[w[j].n] = issuesAt[w[j].n]
        OBVIOUS
      <4>1. lo < w[j].n /\ w[j].n <= rows["fetch"]
        BY <3>1 DEF Ascending
      <4>2. w[j].n \in 1..rows["fetch"]
        BY <2>2, <3>1, <3>2, <4>1
      <4> QED
        BY <1>0, <4>2
    <3>5. Covers(w, lo, issuesAt)
      BY <2>4 DEF lo
    <3>6. Covers(w, lo, issuesAt')
      BY <3>3, <3>4, <3>5 DEF Covers
    <3> QED
      BY <3>6 DEF lo
  <2> QED
    BY <1>0, <2>1, <2>3, <2>9, <2>6, <2>7, <2>8 DEF WireInv, w
<1>6. SlotsExact' /\ OrderInv'
  BY <1>0 DEF SlotsExact, OrderInv
<1> QED
  BY <1>0, <1>1, <1>2, <1>3, <1>4, <1>5, <1>6

-----------------------------------------------------------------------------
(* The slots.                                                               *)

\* 1 for a session that runs, 0 for one that does not.
One(b) == IF b THEN 1 ELSE 0

Running == {s \in Sessions : sess[s].pc # "free"}

\* Two sets of sessions that differ in s at most: their sizes differ by what s counts.
LEMMA SessionCounts ==
    ASSUME NEW s \in Sessions, NEW A \in SUBSET Sessions, NEW B \in SUBSET Sessions,
           A \ {s} = B \ {s}
    PROVE  /\ Cardinality(A) \in Nat
           /\ Cardinality(B) = Cardinality(A) + One(s \in B) - One(s \in A)
<1>1. IsFiniteSet(A) /\ IsFiniteSet(B)
  BY StreamAssumption, FS_Subset
<1>2. Cardinality(A) \in Nat /\ Cardinality(B) \in Nat
  BY <1>1, FS_CardinalityType
<1>3. Cardinality(A \ {s}) = IF s \in A THEN Cardinality(A) - 1 ELSE Cardinality(A)
  BY <1>1, FS_RemoveElement
<1>4. Cardinality(B \ {s}) = IF s \in B THEN Cardinality(B) - 1 ELSE Cardinality(B)
  BY <1>1, FS_RemoveElement
<1> QED
  BY <1>2, <1>3, <1>4 DEF One

\* A step that changes one session changes the number of running ones by that session.
LEMMA RunningCounts ==
    ASSUME TypeInv, NEW s \in Sessions, NEW r \in Records, sess' = [sess EXCEPT ![s] = r]
    PROVE  /\ Cardinality(Running) \in Nat
           /\ Cardinality(Running') =
                 Cardinality(Running) + One(r.pc # "free") - One(sess[s].pc # "free")
<1>1. sess'[s] = r /\ \A q \in Sessions \ {s} : sess'[q] = sess[q]
  BY DEF TypeInv
<1>2. /\ Running \in SUBSET Sessions /\ Running' \in SUBSET Sessions
      /\ Running \ {s} = Running' \ {s}
      /\ (s \in Running) = (sess[s].pc # "free") /\ (s \in Running') = (r.pc # "free")
  BY <1>1 DEF Running
<1> QED
  BY <1>2, SessionCounts

-----------------------------------------------------------------------------
(* A session.                                                               *)

\* A session that is over satisfies whatever a session must.
LEMMA ClosedIsFine ==
    ASSUME TypeInv, JobInv
    PROVE  Closed \in Records /\ RecordInv(Closed)
<1>1. Closed \in Records
  BY DEF Closed, Records, Kinds
<1>2. \A k \in Kinds : 0 <= rows[k]
  BY DEF TypeInv
<1> QED
  BY <1>1, <1>2, StreamAssumption DEF Closed, RecordInv, TypeInv, Kinds

\* What a session may write: a status that covers every fetch up to the watermark, the
\* next row of a kind, or, once the job is no longer running, that the feed is over.
Fits(s, r, m) ==
    LET last == sess[s].last IN
    \/ /\ m.type = "status" /\ r.last = last
       /\ \A x \in 1..last["fetch"] : m.n >= issuesAt[x]
    \/ /\ m.type \in {"done", "error"} /\ status # "running"
       /\ r = Closed \/ r.last = last
    \/ /\ m.type = "row" /\ r # Closed
       /\ last[m.kind] < m.n /\ m.n <= rows[m.kind] /\ (~Purging => m.n = last[m.kind] + 1)
       /\ r.last = [last EXCEPT ![m.kind] = m.n]

\* A step of session s that leaves it in r and writes at most one message.
Moves(s, r) ==
    /\ sess[s].pc # "free"
    /\ sess' = [sess EXCEPT ![s] = r]
    /\ UNCHANGED <<jobVars, conn, clientVars>>
    /\ \/ r = Closed /\ slots' = slots - 1
       \/ r.pc # "free" /\ slots' = slots /\ r.live = sess[s].live
    /\ \/ wire' = wire /\ (r = Closed \/ r.last = sess[s].last \/ ~sess[s].live)
       \/ /\ sess[s].live /\ Len(wire[s]) < WireCap
          /\ \E m \in Messages : Fits(s, r, m) /\ wire' = [wire EXCEPT ![s] = Append(@, m)]

\* Such a step keeps the types, the bounds, the slots and the client's connection.
LEMMA MovesKeepOwn ==
    ASSUME IInv, NEW s \in Sessions, NEW r \in Records, RecordInv(r), Moves(s, r)
    PROVE  /\ TypeInv' /\ JobInv' /\ BoundsInv' /\ SessionInv'
           /\ ClientInv' /\ OrderInv' /\ SlotsExact'
<1> USE DEF IInv
<1>0. /\ UNCHANGED <<status, rows, purged, issues, issuesAt, draining, conn, from, got, closed, drops>>
      /\ sess' = [sess EXCEPT ![s] = r] /\ sess[s].pc # "free"
      /\ sess \in [Sessions -> Records] /\ wire \in [Sessions -> Seq(Messages)]
  BY DEF Moves, jobVars, clientVars, TypeInv
<1>1. /\ wire' \in [Sessions -> Seq(Messages)]
      /\ \A q \in Sessions : Len(wire'[q]) <= WireCap
      /\ \A q \in Sessions : wire'[q] # <<>> => wire[q] # <<>> \/ (q = s /\ sess[s].live)
  <2>1. CASE wire' = wire
    BY <1>0, <2>1 DEF BoundsInv
  <2>2. CASE /\ sess[s].live /\ Len(wire[s]) < WireCap
             /\ \E m \in Messages : wire' = [wire EXCEPT ![s] = Append(@, m)]
    <3> PICK m \in Messages : wire' = [wire EXCEPT ![s] = Append(@, m)]
      BY <2>2
    <3> DEFINE v == Append(wire[s], m)
    <3>1. v \in Seq(Messages) /\ Len(v) = Len(wire[s]) + 1 /\ Len(wire[s]) \in Nat
      BY <1>0
    <3> HIDE DEF v
    <3>2. wire' = [wire EXCEPT ![s] = v]
      BY DEF v
    <3>3. Len(v) <= WireCap
      BY <2>2, <3>1, StreamAssumption
    <3> QED
      BY <1>0, <2>2, <3>1, <3>2, <3>3 DEF BoundsInv
  <2> QED
    BY <2>1, <2>2 DEF Moves
<1>2. slots' \in Int /\ slots' <= slots
  BY DEF Moves, TypeInv
<1>3. TypeInv'
  BY <1>0, <1>1, <1>2 DEF TypeInv
<1>4. JobInv' /\ OrderInv'
  BY <1>0 DEF JobInv, Purging, OrderInv
<1>5. BoundsInv'
  BY <1>0, <1>1, <1>2, StreamAssumption DEF BoundsInv, NumIssues, TypeInv
<1>6. SessionInv'
  BY <1>0 DEF SessionInv, RecordInv, Purging
<1>7. ClientInv'
  <2>1. r.live => sess[s].live
    <3>1. Closed.live = FALSE /\ r.live \in BOOLEAN /\ sess[s].live \in BOOLEAN
      BY <1>0 DEF Closed, Records
    <3> QED
      BY <3>1 DEF Moves
  <2>2. \A k \in Kinds : LastGot(k)' = LastGot(k)
    BY <1>0 DEF LastGot
  <2>3. \A q \in Sessions : sess'[q].live \/ wire'[q] # <<>> => conn = q
    BY <1>0, <1>1, <2>1 DEF ClientInv
  <2> QED
    BY <1>0, <2>2, <2>3 DEF ClientInv
<1>8. SlotsExact'
  <2>1. slots' = slots + One(r.pc # "free") - One(sess[s].pc # "free")
    <3>1. Closed.pc = "free"
      BY DEF Closed
    <3> QED
      BY <1>0, <3>1 DEF Moves, One, TypeInv
  <2>2. slots = Cardinality(Running)
    BY DEF SlotsExact, Running
  <2>3. slots' = Cardinality(Running')
    BY <1>0, <2>1, <2>2, RunningCounts
  <2> QED
    BY <2>3 DEF SlotsExact, Running
<1> QED
  BY <1>3, <1>4, <1>5, <1>6, <1>7, <1>8

\* Such a step continues what the connection carries.
LEMMA MovesKeepWire ==
    ASSUME IInv, NEW s \in Sessions, NEW r \in Records, RecordInv(r), Moves(s, r)
    PROVE  WireInv'
<1> USE DEF IInv
<1>0. /\ UNCHANGED <<status, rows, purged, issues, issuesAt, draining, conn, from, got, closed, drops>>
      /\ sess' = [sess EXCEPT ![s] = r]
      /\ sess \in [Sessions -> Records] /\ wire \in [Sessions -> Seq(Messages)]
  BY DEF Moves, jobVars, clientVars, TypeInv
<1> SUFFICES ASSUME conn # NoSession PROVE WireInv'
  BY <1>0 DEF WireInv
<1>1. conn \in Sessions /\ \A k \in Kinds : from[k] # <<>>
  BY DEF TypeInv, ClientInv
<1>2. /\ \A k \in Kinds : LastGot(k)' = LastGot(k) /\ LastGot(k) \in Nat
      /\ LastGot("fetch")' = LastGot("fetch")
      /\ Purging' = Purging
  BY <1>0, <1>1 DEF LastGot, ClientInv, Purging, Kinds
<1>3. CASE wire' = wire /\ sess'[conn] = sess[conn]
  BY <1>0, <1>2, <1>3 DEF WireInv
<1>4. CASE conn = s /\ wire' = wire
  <2>1. ~r.live \/ (sess[s].live /\ r.last = sess[s].last)
    <3>1. Closed.live = FALSE /\ r.live \in BOOLEAN /\ sess[s].live \in BOOLEAN
      BY <1>0 DEF Closed, Records
    <3>2. \A m \in Messages : [wire EXCEPT ![s] = Append(@, m)] # wire
      <4> SUFFICES ASSUME NEW m \in Messages, [wire EXCEPT ![s] = Append(@, m)] = wire PROVE FALSE
        OBVIOUS
      <4>1. wire[s] = Append(wire[s], m)
        BY <1>0
      <4>2. Len(Append(wire[s], m)) = Len(wire[s]) + 1 /\ Len(wire[s]) \in Nat
        BY <1>0
      <4> QED
        BY <4>1, <4>2
    <3>3. r = Closed \/ (r.live = sess[s].live /\ (r.last = sess[s].last \/ ~sess[s].live))
      BY <1>4, <3>2 DEF Moves
    <3> QED
      BY <3>1, <3>3
  <2> QED
    BY <1>0, <1>2, <1>4, <2>1 DEF WireInv
<1>5. CASE conn = s /\ wire' # wire
  <2>1. PICK m \in Messages : Fits(s, r, m) /\ wire' = [wire EXCEPT ![s] = Append(@, m)]
    BY <1>5 DEF Moves
  <2> DEFINE w == wire[s]
             v == Append(w, m)
             last == sess[s].last
  <2>2. w \in Seq(Messages) /\ wire'[s] = v /\ sess[s].live /\ last \in [Kinds -> Nat]
    BY <1>0, <1>5, <2>1 DEF Moves, Records
  <2>3. /\ \A k \in Kinds : /\ Ascending(w, k, LastGot(k), rows[k])
                            /\ LastGot(k) <= last[k]
                            /\ Ascending(w, k, LastGot(k), last[k])
                            /\ rows[k] \in Nat /\ last[k] \in Nat
                            /\ ~Purging => /\ Dense(w, k, LastGot(k))
                                           /\ Reaches(w, k, LastGot(k), last[k])
        /\ Covers(w, LastGot("fetch"), issuesAt)
        /\ \A i \in DOMAIN w : w[i].type \in {"done", "error"} => status # "running"
    BY <1>5, <2>2 DEF WireInv, TypeInv
  <2>4. /\ m.kind \in Kinds /\ m.n \in Nat
        /\ \A k \in Kinds : IsRow(m, k) => m.type = "row" /\ k = m.kind
    BY DEF Messages, IsRow
  <2>5. Fits(s, r, m)
    BY <2>1
  <2> HIDE DEF w, v
  <2>6. ASSUME NEW k \in Kinds
        PROVE  /\ Ascending(v, k, LastGot(k), rows[k])
               /\ r.live => LastGot(k) <= r.last[k] /\ Ascending(v, k, LastGot(k), r.last[k])
               /\ ~Purging => /\ Dense(v, k, LastGot(k))
                              /\ r.live => Reaches(v, k, LastGot(k), r.last[k])
    <3>1. CASE ~IsRow(m, k)
      <4>1. r.live => r.last[k] = last[k]
        BY <2>2, <2>4, <2>5, <3>1 DEF Fits, Closed, IsRow
      <4>2. /\ Ascending(v, k, LastGot(k), rows[k]) /\ Ascending(v, k, LastGot(k), last[k])
            /\ ~Purging => Dense(v, k, LastGot(k)) /\ Reaches(v, k, LastGot(k), last[k])
        BY <1>2, <2>2, <2>3, <3>1, OtherAppended DEF v
      <4> QED
        BY <2>3, <4>1, <4>2
    <3>2. CASE IsRow(m, k)
      <4>1. /\ k = m.kind /\ last[k] < m.n /\ m.n <= rows[k] /\ (~Purging => m.n = last[k] + 1)
            /\ r.last[k] = m.n
        BY <2>2, <2>4, <2>5, <3>2 DEF Fits
      <4>2. Ascending(v, k, LastGot(k), rows[k]) /\ Ascending(v, k, LastGot(k), m.n)
        BY <1>2, <2>2, <2>3, <2>4, <3>2, <4>1, RowAppended DEF v
      <4>3. ~Purging => Dense(v, k, LastGot(k)) /\ Reaches(v, k, LastGot(k), m.n)
        BY <1>2, <2>2, <2>3, <2>4, <3>2, <4>1, RowAppended DEF v
      <4> QED
        BY <1>2, <2>3, <2>4, <4>1, <4>2, <4>3
    <3> QED
      BY <3>1, <3>2
  <2>7. Covers(v, LastGot("fetch"), issuesAt)
    <3>1. m.type = "status" => \A x \in 1..last["fetch"] : m.n >= issuesAt[x]
      BY <2>5 DEF Fits
    <3> QED
      BY <1>2, <2>2, <2>3, <3>1, CoversAppended DEF v, Kinds
  <2>8. \A i \in DOMAIN v : v[i].type \in {"done", "error"} => status # "running"
    <3>1. m.type \in {"done", "error"} => status # "running"
      BY <2>5 DEF Fits
    <3>2. /\ DOMAIN v = DOMAIN w \cup {Len(w) + 1} /\ v[Len(w) + 1] = m
          /\ \A i \in DOMAIN w : v[i] = w[i]
      BY <2>2, Appended DEF v
    <3> QED
      BY <2>3, <3>1, <3>2
  <2>9. sess'[s] = r
    BY <1>0
  <2> QED
    BY <1>0, <1>2, <1>5, <2>2, <2>6, <2>7, <2>8, <2>9 DEF WireInv
<1>6. CASE conn # s /\ wire' # wire
  BY <1>1, <1>6 DEF Moves, ClientInv
<1> QED
  BY <1>0, <1>1, <1>3, <1>4, <1>5, <1>6

\* What a step may use of the session it belongs to.
LEMMA SessionFacts ==
    ASSUME IInv, NEW s \in Sessions
    PROVE  /\ sess[s] \in Records /\ RecordInv(sess[s])
           /\ sess[s].pc \in {"free", "status", "query", "send", "terminal", "wait"}
           /\ sess[s].kind \in Kinds /\ sess[s].batch \in Seq(Nat) /\ sess[s].cached \in Nat
           /\ sess[s].last \in [Kinds -> Nat]
           /\ sess[s].stale \in BOOLEAN /\ sess[s].first \in BOOLEAN /\ sess[s].live \in BOOLEAN
           /\ Closed \in Records /\ RecordInv(Closed)
<1>1. sess[s] \in Records /\ RecordInv(sess[s])
  BY DEF IInv, TypeInv, SessionInv
<1>2. Closed \in Records /\ RecordInv(Closed)
  BY ClosedIsFine DEF IInv
<1> QED
  BY <1>1, <1>2 DEF Records

\* What a write does to the connection.
LEMMA PutWrites ==
    ASSUME IInv, NEW s \in Sessions, NEW m \in Messages, Put(s, m)
    PROVE  \/ wire' = wire /\ ~sess[s].live
           \/ /\ sess[s].live /\ Len(wire[s]) < WireCap
              /\ wire' = [wire EXCEPT ![s] = Append(@, m)]
BY SessionFacts DEF Put

\* A status covers every fetch up to the watermark.
LEMMA StatusStep ==
    ASSUME IInv, NEW s \in Sessions, SendStatus(s)
    PROVE  IInv'
<1> USE SessionFacts
<1> DEFINE n == IssueCount(s)
           m == Message("status", "fetch", n)
           r == [sess[s] EXCEPT !.cached = n, !.stale = FALSE, !.pc = "query", !.kind = "fetch"]
<1>1. n \in Nat /\ n <= Len(issues) /\ Len(issues) \in Nat
  BY DEF IssueCount, RecordInv, IInv, TypeInv
<1>2. \A x \in DOMAIN issuesAt : x <= sess[s].last["fetch"] => issuesAt[x] <= n
  BY DEF IssueCount, RecordInv, IInv, JobInv
<1>3. m \in Messages /\ m.type = "status" /\ m.n = n
  BY <1>1 DEF Message, Messages, Kinds
<1> HIDE DEF n
<1>4. /\ r \in Records /\ r.pc = "query" /\ r.kind = "fetch" /\ r.cached = n /\ r.stale = FALSE
      /\ r.last = sess[s].last /\ r.batch = sess[s].batch /\ r.live = sess[s].live
  BY <1>1 DEF Records, Kinds
<1>5. sess' = [sess EXCEPT ![s] = r]
  BY DEF SendStatus, n
<1> HIDE DEF r, m
<1>6. sess[s].pc = "status" /\ sess[s].batch = <<>>
  BY DEF SendStatus, RecordInv
<1>7. RecordInv(r)
  BY <1>1, <1>2, <1>4, <1>6, StreamAssumption DEF RecordInv
<1>8. Fits(s, r, m)
  <2>1. \A x \in 1..sess[s].last["fetch"] : n >= issuesAt[x]
    <3> SUFFICES ASSUME NEW x \in 1..sess[s].last["fetch"] PROVE n >= issuesAt[x]
      OBVIOUS
    <3>1. sess[s].last["fetch"] <= rows["fetch"] /\ sess[s].last["fetch"] \in Nat
      BY DEF RecordInv, Kinds
    <3>2. DOMAIN issuesAt = 1..rows["fetch"] /\ rows["fetch"] \in Nat
      BY DEF IInv, JobInv, TypeInv, Kinds
    <3>3. x \in DOMAIN issuesAt /\ x <= sess[s].last["fetch"]
      BY <3>1, <3>2
    <3>4. issuesAt[x] \in Nat
      BY <3>3 DEF IInv, TypeInv
    <3> QED
      BY <1>1, <1>2, <3>3, <3>4
  <2> QED
    BY <1>3, <1>4, <2>1 DEF Fits
<1>9. Moves(s, r)
  <2>1. /\ UNCHANGED <<jobVars, slots, conn, clientVars>>
        /\ Put(s, m)
    BY DEF SendStatus, m, n
  <2> QED
    BY <1>3, <1>4, <1>5, <1>6, <1>8, <2>1, PutWrites DEF Moves
<1> QED
  BY <1>4, <1>7, <1>9, MovesKeepOwn, MovesKeepWire DEF IInv

\* A query takes the rows after the watermark, in order, and a fetch among them makes
\* the count stale.
LEMMA QueryStep ==
    ASSUME IInv, NEW s \in Sessions, Query(s)
    PROVE  IInv'
<1> USE SessionFacts
<1> DEFINE k == sess[s].kind
           last == sess[s].last[k]
           new == RowsSince(k, last)
           lo == (IF last > purged[k] THEN last ELSE purged[k]) + 1
           hi == IF rows[k] < lo + Batch - 1 THEN rows[k] ELSE lo + Batch - 1
           r == [sess[s] EXCEPT !.batch = new, !.pc = "send",
                                !.stale = @ \/ (k = "fetch" /\ new # <<>>)]
<1>1. /\ last \in Nat /\ purged[k] \in Nat /\ rows[k] \in Nat /\ Batch \in Nat \ {0}
      /\ last <= rows[k] /\ purged[k] <= rows[k] /\ (~Purging => purged[k] = 0)
  BY StreamAssumption DEF IInv, TypeInv, JobInv, RecordInv
<1>2. lo \in Nat /\ hi \in Nat /\ last < lo /\ lo <= hi + 1 /\ hi <= rows[k]
      /\ hi - lo + 1 <= Batch /\ (~Purging => lo = last + 1)
  <2>1. Batch \in Nat /\ Batch >= 1
    BY <1>1
  <2>2. /\ lo \in Nat /\ last < lo /\ lo <= rows[k] + 1
        /\ purged[k] = 0 => lo = last + 1
    <3>1. CASE last > purged[k]
      BY <1>1, <3>1
    <3>2. CASE ~(last > purged[k])
      BY <1>1, <3>2
    <3> QED
      BY <3>1, <3>2
  <2> HIDE DEF lo
  <2>3. hi \in Nat /\ lo <= hi + 1 /\ hi <= rows[k] /\ hi - lo + 1 <= Batch
    <3>1. CASE rows[k] < lo + Batch - 1
      BY <1>1, <2>1, <2>2, <3>1
    <3>2. CASE ~(rows[k] < lo + Batch - 1)
      BY <1>1, <2>1, <2>2, <3>2
    <3> QED
      BY <3>1, <3>2
  <2> HIDE DEF hi
  <2> QED
    BY <1>1, <2>2, <2>3
<1>3. new = [i \in 1..(hi - lo + 1) |-> lo + i - 1]
  BY DEF RowsSince
<1> HIDE DEF new, lo, hi, last
<1>4. hi - lo + 1 \in Nat
  BY <1>2
<1>5. /\ new \in Seq(Nat) /\ Len(new) = hi - lo + 1 /\ DOMAIN new = 1..(hi - lo + 1)
      /\ \A i \in DOMAIN new : new[i] = lo + i - 1
  BY <1>2, <1>3, <1>4
<1>6. \A i \in DOMAIN new : last < new[i] /\ new[i] <= rows[k] /\ (~Purging => new[i] = last + i)
  BY <1>1, <1>2, <1>5, SMTT(30)
<1>7. \A i, j \in DOMAIN new : i < j => new[i] < new[j]
  BY <1>2, <1>5
<1>8. /\ r \in Records /\ r.pc = "send" /\ r.kind = k /\ r.batch = new /\ r.cached = sess[s].cached
      /\ r.last = sess[s].last /\ r.live = sess[s].live
      /\ r.stale = (sess[s].stale \/ (k = "fetch" /\ new # <<>>))
  BY <1>5 DEF Records
<1>9. sess' = [sess EXCEPT ![s] = r] /\ sess[s].pc = "query"
      /\ UNCHANGED <<jobVars, wire, slots, conn, clientVars>>
  BY DEF Query, new, last
<1> HIDE DEF r
<1>10. RecordInv(r)
  <2>1. Len(r.batch) <= Batch
    BY <1>2, <1>5, <1>8
  <2>2. /\ \A i \in DOMAIN r.batch : r.last[r.kind] < r.batch[i] /\ r.batch[i] <= rows[r.kind]
        /\ ~Purging => \A i \in DOMAIN r.batch : r.batch[i] = r.last[r.kind] + i
        /\ \A i, j \in DOMAIN r.batch : i < j => r.batch[i] < r.batch[j]
    BY <1>6, <1>7, <1>8 DEF last
  <2>3. (r.batch # <<>> /\ r.kind = "fetch" => r.stale) /\ (~r.stale => ~sess[s].stale)
    BY <1>8
  <2>4. RecordInv(sess[s])
    OBVIOUS
  <2> HIDE DEF k
  <2> QED
    BY <1>8, <2>1, <2>2, <2>3, <2>4 DEF RecordInv
<1>11. Moves(s, r)
  BY <1>8, <1>9 DEF Moves
<1> QED
  BY <1>8, <1>10, <1>11, MovesKeepOwn, MovesKeepWire DEF IInv

\* A row goes out and the watermark follows it, whether anybody reads it or not.
LEMMA RowStep ==
    ASSUME IInv, NEW s \in Sessions, SendRow(s)
    PROVE  IInv'
<1> USE SessionFacts
<1> DEFINE k == sess[s].kind
           b == sess[s].batch
           n == Head(b)
           m == Message("row", k, n)
           l == [sess[s].last EXCEPT ![k] = n]
           r == [sess[s] EXCEPT !.batch = Tail(b), !.last = l]
<1>1. sess[s].pc = "send" /\ b # <<>> /\ b \in Seq(Nat) /\ k \in Kinds
  BY DEF SendRow
<1>2. /\ Tail(b) \in Seq(Nat) /\ n = b[1] /\ 1 \in DOMAIN b /\ n \in Nat
      /\ Len(Tail(b)) <= Len(b)
      /\ \A i \in DOMAIN Tail(b) : /\ Tail(b)[i] = b[i + 1] /\ i + 1 \in DOMAIN b
                                  /\ i \in Nat /\ i + 1 > 1
  <2>1. Len(Tail(b)) = Len(b) - 1 /\ Len(b) \in Nat
    BY <1>1
  <2>2. /\ Tail(b) \in Seq(Nat) /\ Head(b) = b[1] /\ 1 \in DOMAIN b /\ Head(b) \in Nat
        /\ \A i \in DOMAIN Tail(b) : /\ Tail(b)[i] = b[i + 1] /\ i + 1 \in DOMAIN b
                                    /\ i \in Nat /\ i + 1 > 1
    BY <1>1, Tailed
  <2> HIDE DEF b
  <2> QED
    BY <2>1, <2>2
<1>3. /\ \A i \in DOMAIN b : sess[s].last[k] < b[i] /\ b[i] <= rows[k] /\ b[i] \in Nat
      /\ \A i, j \in DOMAIN b : i < j => b[i] < b[j]
      /\ ~Purging => \A i \in DOMAIN b : b[i] = sess[s].last[k] + i
      /\ Len(b) <= Batch
      /\ sess[s].last[k] \in Nat
  BY <1>1 DEF RecordInv
<1> HIDE DEF n
<1>4. m \in Messages /\ m.type = "row" /\ m.kind = k /\ m.n = n
  BY <1>1, <1>2 DEF Message, Messages
<1>5. /\ l \in [Kinds -> Nat] /\ l[k] = n
      /\ \A q \in Kinds \ {k} : l[q] = sess[s].last[q]
  BY <1>1, <1>2
<1> HIDE DEF l
<1>6. /\ r \in Records /\ r.pc = sess[s].pc /\ r.kind = k /\ r.batch = Tail(b)
      /\ r.cached = sess[s].cached /\ r.last = l /\ r.stale = sess[s].stale /\ r.live = sess[s].live
  BY <1>2, <1>5 DEF Records
<1>7. /\ sess' = [sess EXCEPT ![s] = r]
      /\ UNCHANGED <<jobVars, slots, conn, clientVars>>
      /\ Put(s, m)
  BY DEF SendRow, n, l
<1> HIDE DEF r, m
<1>8. RecordInv(r)
  <2>1. \A q \in Kinds : r.last[q] <= rows[q]
    BY <1>2, <1>3, <1>5, <1>6 DEF RecordInv
  <2>2. \A i \in DOMAIN r.batch : r.last[k] < r.batch[i] /\ r.batch[i] <= rows[k]
    BY <1>2, <1>3, <1>5, <1>6
  <2>3. \A i, j \in DOMAIN r.batch : i < j => r.batch[i] < r.batch[j]
    <3> SUFFICES ASSUME NEW i \in DOMAIN r.batch, NEW j \in DOMAIN r.batch, i < j
                 PROVE  r.batch[i] < r.batch[j]
      BY Zenon
    <3>1. i \in DOMAIN Tail(b) /\ j \in DOMAIN Tail(b)
      BY <1>6
    <3>2. /\ i + 1 \in DOMAIN b /\ j + 1 \in DOMAIN b /\ i \in Nat /\ j \in Nat
          /\ r.batch[i] = b[i + 1] /\ r.batch[j] = b[j + 1]
      BY <1>2, <1>6, <3>1
    <3>3. i + 1 < j + 1
      BY <3>2
    <3>4. b[i + 1] < b[j + 1]
      BY <1>3, <3>2, <3>3
    <3> QED
      BY <3>2, <3>4
  <2>4. ~Purging => \A i \in DOMAIN r.batch : r.batch[i] = r.last[k] + i
    <3>1. ~Purging => n = sess[s].last[k] + 1
      BY <1>2, <1>3
    <3>2. ~Purging => \A i \in DOMAIN r.batch : r.batch[i] = sess[s].last[k] + (i + 1)
      BY <1>2, <1>3, <1>6
    <3>3. r.last[k] = n /\ DOMAIN r.batch = DOMAIN Tail(b)
      BY <1>5, <1>6
    <3>4. \A i \in DOMAIN r.batch : i \in Nat
      BY <1>2, <3>3
    <3> HIDE DEF k, b
    <3>5. sess[s].last[k] \in Nat
      BY <1>3
    <3> SUFFICES ASSUME ~Purging, NEW i \in DOMAIN r.batch PROVE r.batch[i] = r.last[k] + i
      OBVIOUS
    <3>6. n = sess[s].last[k] + 1 /\ r.batch[i] = sess[s].last[k] + (i + 1) /\ i \in Nat
      BY <3>1, <3>2, <3>4
    <3> DEFINE q == sess[s].last[k]
               y == r.batch[i]
    <3>7. q \in Nat /\ i \in Nat /\ n = q + 1 /\ y = q + (i + 1)
      BY <3>5, <3>6
    <3> HIDE DEF q, y
    <3>8. y = n + i
      BY <3>7
    <3> QED
      BY <3>3, <3>8 DEF y
  <2>5. /\ r.kind = "fetch" => r.stale
        /\ ~r.stale => r.last["fetch"] = sess[s].last["fetch"]
    BY <1>1, <1>5, <1>6 DEF RecordInv, Kinds
  <2>6. Len(r.batch) <= Batch
    BY <1>1, <1>2, <1>3, <1>6, StreamAssumption
  <2>7. RecordInv(sess[s])
    OBVIOUS
  <2> HIDE DEF k, b
  <2> QED
    BY <1>1, <1>6, <2>1, <2>2, <2>3, <2>4, <2>5, <2>6, <2>7 DEF RecordInv
<1>9. Fits(s, r, m)
  <2>1. r # Closed
    BY <1>1, <1>6 DEF Closed
  <2>2. sess[s].last[k] < n /\ n <= rows[k] /\ (~Purging => n = sess[s].last[k] + 1)
    BY <1>2, <1>3
  <2> QED
    BY <1>4, <1>6, <2>1, <2>2 DEF Fits, l
<1>10. Moves(s, r)
  BY <1>1, <1>4, <1>6, <1>7, <1>9, PutWrites DEF Moves
<1> QED
  BY <1>6, <1>8, <1>10, MovesKeepOwn, MovesKeepWire DEF IInv

\* The steps of a session that only go on, or end it.
LEMMA OtherStep ==
    ASSUME IInv, NEW s \in Sessions,
           \/ StatusFails(s) \/ StatusVanished(s) \/ BatchSent(s)
           \/ Terminal(s) \/ TickFires(s) \/ Disconnected(s)
    PROVE  IInv'
<1> USE SessionFacts
<1>0. Closed.pc = "free" /\ Closed.live = FALSE
  BY DEF Closed
<1>1. SUFFICES \E r \in Records : RecordInv(r) /\ Moves(s, r)
  BY MovesKeepOwn, MovesKeepWire DEF IInv
<1>2. ASSUME sess[s].pc # "free", Return(s), UNCHANGED <<jobVars, conn, clientVars>>,
             \/ wire' = wire
             \/ \E m \in Messages : Put(s, m) /\ m.type \in {"done", "error"} /\ status # "running"
      PROVE  Moves(s, Closed)
  BY <1>2, PutWrites DEF Moves, Return, Fits
<1>3. ASSUME NEW r \in Records, r.pc # "free", r.last = sess[s].last, r.live = sess[s].live,
             sess[s].pc # "free", sess' = [sess EXCEPT ![s] = r],
             UNCHANGED <<jobVars, slots, conn, clientVars>>,
             \/ wire' = wire
             \/ \E m \in Messages : Put(s, m) /\ m.type \in {"done", "error"} /\ status # "running"
      PROVE  Moves(s, r)
  BY <1>3, PutWrites DEF Moves, Fits
<1>4. ASSUME NEW t \in {"done", "error"}
      PROVE  Message(t, "fetch", 0) \in Messages /\ Message(t, "fetch", 0).type = t
  BY DEF Message, Messages, Kinds
<1>5. CASE StatusFails(s)
  BY <1>2, <1>5 DEF StatusFails
<1>6. CASE Disconnected(s)
  BY <1>2, <1>6 DEF Disconnected
<1>7. CASE StatusVanished(s)
  <2>1. /\ sess[s].pc = "status" /\ status # "running"
        /\ Put(s, Message("error", "fetch", 0)) /\ UNCHANGED <<jobVars, conn, clientVars>>
    BY <1>7 DEF StatusVanished
  <2>2. CASE ~sess[s].first
    BY <1>2, <1>4, <1>7, <2>1, <2>2 DEF StatusVanished
  <2>3. CASE sess[s].first
    <3> DEFINE r == [sess[s] EXCEPT !.pc = "query", !.kind = "fetch"]
    <3>1. /\ r \in Records /\ r.pc = "query" /\ r.last = sess[s].last /\ r.live = sess[s].live
          /\ r.batch = sess[s].batch /\ r.kind = "fetch"
          /\ r.cached = sess[s].cached /\ r.stale = sess[s].stale
      BY DEF Records, Kinds
    <3>2. sess' = [sess EXCEPT ![s] = r] /\ UNCHANGED slots
      BY <1>7, <2>3 DEF StatusVanished
    <3> HIDE DEF r
    <3>3. sess[s].batch = <<>>
      BY <2>1 DEF RecordInv
    <3>4. RecordInv(r)
      BY <3>1, <3>3, StreamAssumption DEF RecordInv
    <3>5. Moves(s, r)
      BY <1>3, <1>4, <2>1, <3>1, <3>2
    <3> QED
      BY <3>1, <3>4, <3>5
  <2> QED
    BY <2>2, <2>3
<1>8. CASE BatchSent(s)
  <2> DEFINE p == IF sess[s].kind = "fetch" THEN "query"
                  ELSE IF sess[s].first THEN "wait" ELSE "terminal"
             r == [sess[s] EXCEPT !.kind = "phase", !.first = @ /\ sess[s].kind = "fetch", !.pc = p]
  <2>1. p \in {"query", "wait", "terminal"}
    OBVIOUS
  <2>2. /\ sess[s].pc = "send" /\ sess[s].batch = <<>> /\ sess' = [sess EXCEPT ![s] = r]
        /\ UNCHANGED <<jobVars, wire, slots, conn, clientVars>>
    BY <1>8 DEF BatchSent
  <2> HIDE DEF p
  <2>3. /\ r \in Records /\ r.pc = p /\ r.last = sess[s].last /\ r.live = sess[s].live
        /\ r.batch = sess[s].batch /\ r.kind = "phase"
        /\ r.cached = sess[s].cached /\ r.stale = sess[s].stale
    BY <2>1 DEF Records, Kinds
  <2> HIDE DEF r
  <2>4. RecordInv(r)
    BY <2>1, <2>2, <2>3, StreamAssumption DEF RecordInv
  <2>5. Moves(s, r)
    BY <1>3, <2>1, <2>2, <2>3
  <2> QED
    BY <2>3, <2>4, <2>5
<1>9. ASSUME NEW p \in {"status", "wait"}, Go(s, p), sess[s].pc \in {"terminal", "wait"},
             UNCHANGED <<jobVars, wire, slots, conn, clientVars>>
      PROVE  \E r \in Records : RecordInv(r) /\ Moves(s, r)
  <2> DEFINE r == [sess[s] EXCEPT !.pc = p]
  <2>1. /\ r \in Records /\ r.pc = p /\ r.last = sess[s].last /\ r.live = sess[s].live
        /\ r.batch = sess[s].batch /\ r.kind = sess[s].kind
        /\ r.cached = sess[s].cached /\ r.stale = sess[s].stale
    BY DEF Records
  <2>2. sess' = [sess EXCEPT ![s] = r]
    BY <1>9 DEF Go
  <2> HIDE DEF r
  <2>3. sess[s].batch = <<>>
    BY <1>9 DEF RecordInv
  <2>4. RecordInv(r)
    BY <2>1, <2>3, StreamAssumption DEF RecordInv
  <2>5. Moves(s, r)
    BY <1>3, <1>9, <2>1, <2>2
  <2> QED
    BY <2>1, <2>4, <2>5
<1>10. CASE TickFires(s)
  BY <1>9, <1>10 DEF TickFires
<1>11. CASE Terminal(s)
  <2>1. CASE status \in {"ended", "gone"}
    BY <1>2, <1>4, <1>11, <2>1 DEF Terminal
  <2>2. CASE status \notin {"ended", "gone"}
    BY <1>9, <1>11, <2>2 DEF Terminal
  <2> QED
    BY <2>1, <2>2
<1> QED
  BY <1>5, <1>6, <1>7, <1>8, <1>10, <1>11

\* Every step of a session keeps the invariant.
LEMMA SessionKeeps ==
    ASSUME IInv, NEW s \in Sessions, SessionStep(s)
    PROVE  IInv'
BY StatusStep, QueryStep, RowStep, OtherStep DEF SessionStep

-----------------------------------------------------------------------------
(* The client.                                                              *)

\* A snapshot is taken before there is a connection and shows rows that exist.
LEMMA SnapshotKeeps ==
    ASSUME IInv, NEW k \in Kinds, Snapshot(k)
    PROVE  IInv'
<1> USE DEF IInv
<1>1. /\ UNCHANGED <<status, rows, purged, issues, issuesAt, draining, sess, wire, slots, conn, got, closed, drops>>
      /\ from[k] = <<>> /\ got[k] = <<>> /\ conn = NoSession
      /\ from \in [Kinds -> {<<>>} \cup {<<n>> : n \in Nat}]
      /\ rows[k] \in Nat
  BY DEF Snapshot, jobVars, TypeInv, ClientInv
<1> DEFINE n == IF purged[k] = rows[k] THEN 0 ELSE rows[k]
<1>2. n \in Nat /\ n <= rows[k] /\ from' = [from EXCEPT ![k] = <<n>>]
  BY <1>1 DEF Snapshot
<1> HIDE DEF n
<1>3. <<n>> \in {<<>>} \cup {<<x>> : x \in Nat} /\ <<n>> # <<>> /\ <<n>>[1] = n
  BY <1>2
<1>4. TypeInv'
  BY <1>1, <1>2, <1>3 DEF TypeInv
<1>5. JobInv' /\ BoundsInv' /\ SessionInv' /\ SlotsExact' /\ OrderInv'
  <2>1. OrderInv'
    BY <1>1, <1>2, <1>3 DEF OrderInv, Snapshot, Kinds, TypeInv
  <2> QED
    BY <1>1, <2>1 DEF JobInv, BoundsInv, NumIssues, SessionInv, RecordInv, SlotsExact, Purging
<1>6. ClientInv'
  <2>1. from'[k] = <<n>> /\ \A q \in Kinds \ {k} : from'[q] = from[q]
    BY <1>1, <1>2
  <2>2. LastGot(k)' = n
    BY <1>1, <1>3, <2>1 DEF LastGot
  <2>3. \A q \in Kinds \ {k} : LastGot(q)' = LastGot(q)
    BY <1>1, <2>1 DEF LastGot
  <2> QED
    BY <1>1, <1>2, <1>3, <2>1, <2>2, <2>3 DEF ClientInv
<1>7. WireInv'
  BY <1>1 DEF WireInv
<1> QED
  BY <1>4, <1>5, <1>6, <1>7

\* A new session starts where the client is, with an empty connection.
LEMMA OpenKeeps ==
    ASSUME IInv, NEW s \in Sessions, Open(s)
    PROVE  IInv'
<1> USE DEF IInv
<1> DEFINE l == [k \in Kinds |-> LastGot(k)]
           r == [Closed EXCEPT !.pc = "status", !.live = TRUE, !.last = l]
<1>1. /\ UNCHANGED <<status, rows, purged, issues, issuesAt, draining, wire, from, got, closed, drops>>
      /\ conn = NoSession /\ conn' = s /\ closed = FALSE /\ sess[s].pc = "free"
      /\ slots < MaxStreams /\ slots' = slots + 1
      /\ sess' = [sess EXCEPT ![s] = r]
      /\ sess \in [Sessions -> Records] /\ slots \in Int
  BY DEF Open, jobVars, clientVars, TypeInv
<1>2. \A k \in Kinds : from[k] # <<>>
  <2>1. from["phase"] # <<>>
    BY DEF Open
  <2>2. from["fetch"] # <<>>
    BY <2>1 DEF OrderInv
  <2> QED
    BY <2>1, <2>2 DEF Kinds
<1>3. \A k \in Kinds : LastGot(k) \in Nat /\ LastGot(k) <= rows[k] /\ LastGot(k)' = LastGot(k)
  BY <1>1, <1>2 DEF ClientInv, LastGot
<1>4. l \in [Kinds -> Nat] /\ \A k \in Kinds : l[k] = LastGot(k)
  BY <1>3
<1> HIDE DEF l
<1>5. /\ r \in Records /\ r.pc = "status" /\ r.last = l /\ r.batch = <<>> /\ r.cached = 0
      /\ r.kind = "fetch" /\ r.stale = TRUE /\ r.live = TRUE
  <2>1. /\ Closed \in Records /\ Closed.batch = <<>> /\ Closed.cached = 0
        /\ Closed.kind = "fetch" /\ Closed.stale = TRUE
    BY SessionFacts DEF Closed
  <2> QED
    BY <1>4, <2>1 DEF Records
<1> HIDE DEF r
<1>6. RecordInv(r)
  <2>1. 0 <= Len(issues)
    BY DEF TypeInv
  <2> QED
    BY <1>3, <1>4, <1>5, <2>1, StreamAssumption DEF RecordInv
<1>7. s # NoSession /\ wire[s] = <<>> /\ \A q \in Sessions : wire[q] = <<>> /\ ~sess[q].live
  BY <1>1, StreamAssumption DEF ClientInv
<1>8. sess'[s] = r /\ \A q \in Sessions \ {s} : sess'[q] = sess[q]
  BY <1>1
<1>9. TypeInv'
  BY <1>1, <1>5 DEF TypeInv
<1>10. JobInv' /\ BoundsInv'
  BY <1>1, StreamAssumption DEF JobInv, BoundsInv, NumIssues, Purging
<1>11. SessionInv'
  BY <1>1, <1>6, <1>8 DEF SessionInv, RecordInv, Purging
<1>12. ClientInv'
  BY <1>1, <1>2, <1>3, <1>7, <1>8 DEF ClientInv
<1>13. OrderInv'
  BY <1>1 DEF OrderInv
<1>14. WireInv'
  <2>1. wire'[s] = <<>> /\ DOMAIN wire'[s] = {} /\ sess'[s].last = l
    BY <1>1, <1>5, <1>7, <1>8
  <2>2. \A k \in Kinds : LastGot(k)' <= sess'[s].last[k] /\ ~(LastGot(k)' < sess'[s].last[k])
    BY <1>3, <1>4, <2>1
  <2> QED
    BY <1>1, <2>1, <2>2 DEF WireInv, Ascending, Dense, Reaches, Covers
<1>15. SlotsExact'
  <2>1. One(r.pc # "free") = 1 /\ One(sess[s].pc # "free") = 0
    BY <1>1, <1>5 DEF One
  <2>2. /\ Cardinality(Running) \in Nat
        /\ Cardinality(Running') =
              Cardinality(Running) + One(r.pc # "free") - One(sess[s].pc # "free")
    BY <1>1, <1>5, RunningCounts
  <2>3. Cardinality(Running') = Cardinality(Running) + 1
    BY <2>1, <2>2
  <2>4. slots = Cardinality(Running)
    BY DEF SlotsExact, Running
  <2>5. slots' = Cardinality(Running')
    BY <1>1, <2>3, <2>4
  <2> QED
    BY <2>5 DEF SlotsExact, Running
<1> QED
  BY <1>9, <1>10, <1>11, <1>12, <1>13, <1>14, <1>15

\* The client leaves a connection: what it carried is lost, the session goes on alone.
LEMMA LeaveKeeps ==
    ASSUME IInv, NEW s \in Sessions, conn = s, conn' = NoSession,
           wire' = [wire EXCEPT ![s] = <<>>], sess' = [sess EXCEPT ![s].live = FALSE],
           UNCHANGED <<jobVars, slots, from, got>>,
           closed' \in BOOLEAN, drops' \in Nat, drops' <= MaxDrops
    PROVE  IInv'
<1> USE DEF IInv
<1> DEFINE r == [sess[s] EXCEPT !.live = FALSE]
<1>1. /\ UNCHANGED <<status, rows, purged, issues, issuesAt, draining, slots, from, got>>
      /\ sess' = [sess EXCEPT ![s] = r] /\ sess \in [Sessions -> Records]
      /\ wire \in [Sessions -> Seq(Messages)]
  BY DEF jobVars, TypeInv
<1>2. /\ r \in Records /\ r.pc = sess[s].pc /\ r.last = sess[s].last /\ r.batch = sess[s].batch
      /\ r.cached = sess[s].cached /\ r.kind = sess[s].kind /\ r.stale = sess[s].stale
      /\ r.live = FALSE
  <2>1. sess[s] \in Records
    BY <1>1
  <2> HIDE DEF IInv
  <2> QED
    BY <2>1 DEF Records
<1> HIDE DEF r
<1>3. RecordInv(r)
  BY <1>2, SessionFacts DEF RecordInv
<1>4. /\ sess'[s] = r /\ \A q \in Sessions \ {s} : sess'[q] = sess[q] /\ wire'[q] = wire[q]
      /\ wire'[s] = <<>>
  BY <1>1
<1>5. TypeInv'
  <2>1. <<>> \in Seq(Messages)
    OBVIOUS
  <2>2. sess' \in [Sessions -> Records] /\ wire' \in [Sessions -> Seq(Messages)]
    BY <1>1, <1>2, <2>1
  <2> QED
    BY <1>1, <2>2 DEF TypeInv
<1>6. JobInv' /\ OrderInv'
  BY <1>1 DEF JobInv, Purging, OrderInv
<1>7. BoundsInv'
  <2>1. Len(<<>>) <= WireCap
    BY StreamAssumption
  <2> QED
    BY <1>1, <1>4, <2>1 DEF BoundsInv, NumIssues
<1>8. SessionInv'
  BY <1>1, <1>3, <1>4 DEF SessionInv, RecordInv, Purging
<1>9. ClientInv'
  <2>1. \A q \in Sessions : ~sess'[q].live /\ wire'[q] = <<>>
    BY <1>2, <1>4 DEF ClientInv
  <2>2. \A k \in Kinds : LastGot(k)' = LastGot(k)
    BY <1>1 DEF LastGot
  <2> QED
    BY <1>1, <2>1, <2>2 DEF ClientInv
<1>10. WireInv'
  BY DEF WireInv
<1>11. SlotsExact'
  <2>1. /\ Cardinality(Running) \in Nat
        /\ Cardinality(Running') =
              Cardinality(Running) + One(r.pc # "free") - One(sess[s].pc # "free")
    BY <1>1, <1>2, RunningCounts
  <2>2. One(r.pc # "free") = One(sess[s].pc # "free") /\ One(r.pc # "free") \in Nat
    BY <1>2 DEF One
  <2>3. Cardinality(Running') = Cardinality(Running)
    BY <2>1, <2>2
  <2>4. slots = Cardinality(Running)
    BY DEF SlotsExact, Running
  <2>5. slots' = Cardinality(Running')
    BY <1>1, <2>3, <2>4
  <2> QED
    BY <2>5 DEF SlotsExact, Running
<1> QED
  BY <1>5, <1>6, <1>7, <1>8, <1>9, <1>10, <1>11

\* The client reads on: a row becomes the last one it has.
LEMMA ReadOnKeeps ==
    ASSUME IInv, NEW s \in Sessions, Read(s), Head(wire[s]).type \notin {"done", "error"}
    PROVE  IInv'
<1> USE DEF IInv
<1> DEFINE w == wire[s]
           m == Head(w)
           v == Tail(w)
           g(k) == IF IsRow(m, k) THEN m.n ELSE LastGot(k)
<1> DEFINE over == m.type \in {"done", "error"}
<1>0. /\ UNCHANGED <<status, rows, purged, issues, issuesAt, draining, slots, from, drops>>
      /\ conn = s /\ conn' = s /\ w # <<>> /\ closed' = FALSE
      /\ wire' = [wire EXCEPT ![s] = v] /\ sess' = [sess EXCEPT ![s].live = @ /\ TRUE]
      /\ got' = IF m.type = "row" THEN [got EXCEPT ![m.kind] = Append(@, m.n)] ELSE got
      /\ wire \in [Sessions -> Seq(Messages)] /\ sess \in [Sessions -> Records]
      /\ got \in [Kinds -> Seq(Nat)]
      /\ conn # NoSession /\ \A k \in Kinds : from[k] # <<>>
  <2>1. /\ UNCHANGED <<jobVars, slots, from, drops>> /\ conn = s /\ w # <<>>
        /\ got' = IF m.type = "row" THEN [got EXCEPT ![m.kind] = Append(@, m.n)] ELSE got
        /\ closed' = over /\ conn' = IF over THEN NoSession ELSE s
        /\ wire' = [wire EXCEPT ![s] = IF over THEN <<>> ELSE Tail(@)]
        /\ sess' = [sess EXCEPT ![s].live = @ /\ ~over]
    BY DEF Read
  <2>2. over = FALSE
    OBVIOUS
  <2>3. conn # NoSession /\ \A k \in Kinds : from[k] # <<>>
    BY <2>1, StreamAssumption DEF ClientInv
  <2>4. /\ wire \in [Sessions -> Seq(Messages)] /\ sess \in [Sessions -> Records]
        /\ got \in [Kinds -> Seq(Nat)]
    BY DEF TypeInv
  <2> HIDE DEF over, m
  <2> QED
    BY <2>1, <2>2, <2>3, <2>4 DEF jobVars
<1>1. sess' = sess
  <2>1. sess[s].live \in BOOLEAN
    BY SessionFacts
  <2>2. [sess[s] EXCEPT !.live = @ /\ TRUE] = sess[s]
    BY <1>0, <2>1 DEF Records
  <2> QED
    BY <1>0, <2>2
<1>2. /\ w \in Seq(Messages) /\ v \in Seq(Messages) /\ m \in Messages /\ m = w[1] /\ 1 \in DOMAIN w
      /\ \A i \in DOMAIN v : v[i] = w[i + 1] /\ i + 1 \in DOMAIN w
      /\ Len(v) <= Len(w) /\ Len(w) \in Nat /\ Len(v) \in Nat
  <2>1. w \in Seq(Messages)
    BY <1>0
  <2>2. Len(v) = Len(w) - 1 /\ Len(w) \in Nat /\ Len(v) \in Nat
    BY <1>0, <2>1
  <2> HIDE DEF w
  <2> QED
    BY <1>0, <2>1, <2>2, Tailed
<1>3. m.n \in Nat /\ m.kind \in Kinds
  BY <1>2 DEF Messages
<1>4. wire'[s] = v /\ \A q \in Sessions \ {s} : wire'[q] = wire[q]
  BY <1>0
<1>5. /\ \A k \in Kinds : /\ Ascending(w, k, LastGot(k), rows[k])
                          /\ sess[s].live => /\ LastGot(k) <= sess[s].last[k]
                                              /\ Ascending(w, k, LastGot(k), sess[s].last[k])
                          /\ rows[k] \in Nat /\ sess[s].last[k] \in Nat
                          /\ LastGot(k) \in Nat /\ LastGot(k) <= rows[k]
                          /\ ~Purging => /\ Dense(w, k, LastGot(k))
                                         /\ sess[s].live => Reaches(w, k, LastGot(k), sess[s].last[k])
      /\ Covers(w, LastGot("fetch"), issuesAt)
      /\ \A i \in DOMAIN w : w[i].type \in {"done", "error"} => status # "running"
  BY <1>0, SessionFacts DEF WireInv, TypeInv, ClientInv
<1> HIDE DEF w, v, m
<1>6. got' \in [Kinds -> Seq(Nat)] /\ \A k \in Kinds : LastGot(k)' = g(k)
  <2>1. CASE m.type = "row"
    <3> DEFINE a == Append(got[m.kind], m.n)
    <3>0. got[m.kind] \in Seq(Nat)
      BY <1>0, <1>3
    <3>1. a \in Seq(Nat) /\ a # <<>> /\ a[Len(a)] = m.n
      <4> DEFINE b == got[m.kind]
      <4>1. /\ Append(b, m.n) \in Seq(Nat) /\ Len(Append(b, m.n)) = Len(b) + 1
            /\ Append(b, m.n)[Len(b) + 1] = m.n /\ Len(b) \in Nat
        BY <1>3, <3>0
      <4> QED
        BY <4>1
    <3> HIDE DEF a
    <3>2. got' = [got EXCEPT ![m.kind] = a]
      BY <1>0, <2>1 DEF a
    <3>3. got'[m.kind] = a /\ \A k \in Kinds : k # m.kind => got'[k] = got[k]
      BY <1>0, <1>3, <3>2
    <3> QED
      BY <1>0, <1>3, <2>1, <3>1, <3>2, <3>3 DEF LastGot, IsRow
  <2>2. CASE m.type # "row"
    BY <1>0, <2>2 DEF LastGot, IsRow
  <2> QED
    BY <2>1, <2>2
<1>7. ASSUME NEW k \in Kinds
      PROVE  /\ g(k) \in Nat /\ g(k) <= rows[k] /\ Ascending(v, k, g(k), rows[k])
             /\ sess[s].live => g(k) <= sess[s].last[k] /\ Ascending(v, k, g(k), sess[s].last[k])
             /\ ~Purging => /\ Dense(v, k, g(k))
                            /\ sess[s].live => Reaches(v, k, g(k), sess[s].last[k])
  <2>1. CASE IsRow(m, k)
    <3>1. /\ LastGot(k) < m.n /\ m.n <= rows[k] /\ Ascending(v, k, m.n, rows[k])
          /\ Dense(w, k, LastGot(k)) => Dense(v, k, m.n)
          /\ \A top \in Nat : Reaches(w, k, LastGot(k), top) => Reaches(v, k, m.n, top)
      BY <1>0, <1>2, <1>5, <2>1, RowRead DEF m, v
    <3>2. sess[s].live => m.n <= sess[s].last[k] /\ Ascending(v, k, m.n, sess[s].last[k])
      BY <1>0, <1>2, <1>5, <2>1, RowRead DEF m, v
    <3> QED
      BY <1>3, <1>5, <2>1, <3>1, <3>2
  <2>2. CASE ~IsRow(m, k)
    BY <1>0, <1>2, <1>5, <2>2, OtherRead DEF m, v
  <2> QED
    BY <2>1, <2>2
<1>8. Covers(v, g("fetch"), issuesAt)
  BY <1>0, <1>2, <1>5, CoversRead DEF m, v, Kinds
<1>9. \A i \in DOMAIN v : v[i].type \in {"done", "error"} => status # "running"
  BY <1>2, <1>5
<1> HIDE DEF g
<1>10. TypeInv'
  BY <1>0, <1>1, <1>2, <1>6 DEF TypeInv
<1>11. JobInv' /\ SessionInv' /\ SlotsExact' /\ OrderInv'
  <2>1. UNCHANGED <<status, rows, purged, issues, issuesAt, draining, slots, from, sess>>
    BY <1>0, <1>1
  <2> QED
    BY <2>1 DEF JobInv, SessionInv, RecordInv, SlotsExact, Purging, OrderInv
<1>12. BoundsInv'
  <2>1. Len(w) <= WireCap
    BY DEF BoundsInv, w
  <2>2. Len(v) <= WireCap
    BY <1>2, <2>1, StreamAssumption
  <2> QED
    BY <1>0, <1>4, <2>2 DEF BoundsInv, NumIssues
<1>13. ClientInv'
  BY <1>0, <1>1, <1>4, <1>6, <1>7 DEF ClientInv
<1>14. WireInv'
  <2>1. LastGot("fetch")' = g("fetch") /\ Purging' = Purging
    BY <1>0, <1>6 DEF Kinds, Purging
  <2> QED
    BY <1>0, <1>1, <1>4, <1>6, <1>7, <1>8, <1>9, <2>1 DEF WireInv
<1> QED
  BY <1>10, <1>11, <1>12, <1>13, <1>14

\* The steps of the client, and a break of its connection.
LEMMA ClientKeeps ==
    ASSUME IInv, ClientStep \/ \E s \in Sessions : Drop(s)
    PROVE  IInv'
<1>1. CASE \E k \in Kinds : Snapshot(k)
  BY <1>1, SnapshotKeeps
<1>2. CASE \E s \in Sessions : Open(s)
  BY <1>2, OpenKeeps
<1>3. CASE \E s \in Sessions : Read(s)
  <2> PICK s \in Sessions : Read(s)
    BY <1>3
  <2>1. CASE Head(wire[s]).type \in {"done", "error"}
    <3>1. sess' = [sess EXCEPT ![s].live = @ /\ FALSE] /\ sess \in [Sessions -> Records]
      BY <2>1 DEF Read, IInv, TypeInv
    <3>2. sess' = [sess EXCEPT ![s].live = FALSE]
      BY <3>1
    <3>3. /\ conn = s /\ conn' = NoSession /\ wire' = [wire EXCEPT ![s] = <<>>]
          /\ closed' = TRUE /\ UNCHANGED <<jobVars, slots, from, drops>>
      BY <2>1 DEF Read
    <3>4. got' = got
      BY <2>1 DEF Read
    <3>5. drops \in Nat /\ drops <= MaxDrops
      BY DEF IInv, TypeInv, BoundsInv
    <3> QED
      BY <3>2, <3>3, <3>4, <3>5, LeaveKeeps
  <2>2. CASE Head(wire[s]).type \notin {"done", "error"}
    BY <2>2, ReadOnKeeps
  <2> QED
    BY <2>1, <2>2
<1>4. CASE OpenGone
  <2>1. /\ UNCHANGED <<status, rows, purged, issues, issuesAt, draining, sess, wire, slots, conn, from, got, drops>>
        /\ conn = NoSession /\ closed' = TRUE
    BY <1>4 DEF OpenGone, jobVars
  <2>2. TypeInv' /\ JobInv' /\ BoundsInv' /\ SessionInv' /\ SlotsExact' /\ OrderInv'
    BY <2>1 DEF IInv, TypeInv, JobInv, BoundsInv, NumIssues, SessionInv, RecordInv, SlotsExact, Purging, OrderInv
  <2>3. ClientInv' /\ WireInv'
    BY <2>1 DEF IInv, ClientInv, WireInv, LastGot
  <2> QED
    BY <2>2, <2>3 DEF IInv
<1>5. CASE \E s \in Sessions : Drop(s)
  <2> PICK s \in Sessions : Drop(s)
    BY <1>5
  <2>1. /\ conn = s /\ conn' = NoSession /\ wire' = [wire EXCEPT ![s] = <<>>]
        /\ sess' = [sess EXCEPT ![s].live = FALSE]
        /\ UNCHANGED <<jobVars, slots, from, got, closed>>
        /\ drops < MaxDrops /\ drops' = drops + 1
    BY DEF Drop
  <2>2. closed \in BOOLEAN /\ drops + 1 \in Nat /\ drops + 1 <= MaxDrops
    BY <2>1, StreamAssumption DEF IInv, TypeInv
  <2> QED
    BY <2>1, <2>2, LeaveKeeps
<1> QED
  BY <1>1, <1>2, <1>3, <1>4, <1>5 DEF ClientStep

-----------------------------------------------------------------------------
(* The theorems.                                                            *)

\* At first there are no rows, no sessions and no connection.
LEMMA InitHolds == Init => IInv
<1> SUFFICES ASSUME Init PROVE IInv
  OBVIOUS
<1> USE StreamAssumption DEF Init
<1>1. TypeInv
  <2>1. Closed \in Records
    BY DEF Closed, Records, Kinds
  <2>2. <<>> \in Seq(Messages) /\ <<>> \in Seq(Nat)
    OBVIOUS
  <2>3. sess \in [Sessions -> Records]
    BY <2>1
  <2>4. wire \in [Sessions -> Seq(Messages)]
    BY <2>2
  <2>5. /\ rows \in [Kinds -> Nat] /\ purged \in [Kinds -> Nat]
        /\ issues \in Seq(Nat) /\ issues # <<>> /\ draining \in {"issues", "fetch", "phase", "job"}
    OBVIOUS
  <2>6. issuesAt \in Seq(Nat) /\ got \in [Kinds -> Seq(Nat)]
    BY <2>2
  <2>7. from \in [Kinds -> {<<>>} \cup {<<n>> : n \in Nat}]
    OBVIOUS
  <2>8. status \in Statuses /\ conn \in Sessions \cup {NoSession} /\ closed \in BOOLEAN
    BY Zenon DEF Statuses
  <2>9. slots \in Int /\ drops \in Nat
    OBVIOUS
  <2> QED
    BY <2>3, <2>4, <2>5, <2>6, <2>7, <2>8, <2>9 DEF TypeInv
<1>2. JobInv /\ BoundsInv
  BY DEF JobInv, BoundsInv, NumIssues, Kinds
<1>3. SessionInv
  BY <1>1, <1>2, ClosedIsFine DEF SessionInv
<1>4. ClientInv /\ OrderInv /\ WireInv
  BY DEF ClientInv, OrderInv, WireInv, Closed, Kinds
<1>5. SlotsExact
  <2>1. {s \in Sessions : sess[s].pc # "free"} = {}
    BY DEF Closed
  <2> QED
    BY <2>1, FS_EmptySet DEF SlotsExact
<1> QED
  BY <1>1, <1>2, <1>3, <1>4, <1>5 DEF IInv

\* Every step keeps the invariant.
LEMMA StepKeeps == IInv /\ [Next]_vars => IInv'
<1> SUFFICES ASSUME IInv, [Next]_vars PROVE IInv'
  OBVIOUS
<1>1. CASE UNCHANGED vars
  <2>1. /\ UNCHANGED <<status, rows, purged, issues, issuesAt, draining, sess, wire, slots, conn>>
        /\ UNCHANGED <<from, got, closed, drops>>
    BY <1>1 DEF vars, jobVars, clientVars
  <2>2. TypeInv' /\ JobInv' /\ BoundsInv' /\ SessionInv' /\ SlotsExact' /\ OrderInv'
    BY <2>1 DEF IInv, TypeInv, JobInv, BoundsInv, NumIssues, SessionInv, RecordInv, SlotsExact, Purging, OrderInv
  <2>3. \A k \in Kinds : LastGot(k)' = LastGot(k)
    BY <2>1 DEF LastGot
  <2>4. LastGot("fetch")' = LastGot("fetch")
    BY <2>1 DEF LastGot
  <2>5. ClientInv' /\ WireInv'
    BY <2>1, <2>3, <2>4 DEF IInv, ClientInv, WireInv, Purging
  <2> QED
    BY <2>2, <2>5 DEF IInv
<1>2. CASE JobStep
  BY <1>2, JobKeeps
<1>3. CASE \E s \in Sessions : SessionStep(s)
  BY <1>3, SessionKeeps
<1>4. CASE ClientStep \/ \E s \in Sessions : Drop(s)
  BY <1>4, ClientKeeps
<1> QED
  BY <1>1, <1>2, <1>3, <1>4 DEF Next, JobStep

\* In every reachable state the session's watermarks and its batch agree with the rows,
\* its cached count, unless marked stale, is no older than any fetch up to its
\* watermark, and what the connection carries continues what the client has.
THEOREM StreamInvariant == Spec => []IInv
BY InitHolds, StepKeeps, PTL DEF Spec

\* The type invariant.
THEOREM TypesCorrect == Spec => []TypeOK
<1>1. IInv => TypeOK
  <2> SUFFICES ASSUME IInv PROVE TypeOK
    OBVIOUS
  <2>1. slots \in 0..MaxStreams
    <3>1. Cardinality(Running) \in Nat
      <4>1. IsFiniteSet(Running)
        BY StreamAssumption, FS_Subset DEF Running
      <4> QED
        BY <4>1, FS_CardinalityType
    <3>2. slots = Cardinality(Running) /\ slots <= MaxStreams
      BY DEF IInv, SlotsExact, BoundsInv, Running
    <3> QED
      BY <3>1, <3>2, StreamAssumption
  <2>2. \A k \in Kinds : rows[k] \in 0..MaxRows[k] /\ purged[k] \in 0..rows[k]
    BY StreamAssumption DEF IInv, TypeInv, JobInv, BoundsInv
  <2>3. /\ issues # <<>> /\ NumIssues \in 0..MaxIssues
        /\ drops \in 0..MaxDrops /\ Len(issuesAt) = rows["fetch"]
    <3>1. NumIssues \in Nat /\ issues # <<>>
      BY DEF IInv, TypeInv, NumIssues
    <3> QED
      BY <3>1, StreamAssumption DEF IInv, TypeInv, JobInv, BoundsInv
  <2>4. ASSUME NEW s \in Sessions
        PROVE  /\ sess[s].pc \in {"free", "status", "query", "send", "terminal", "wait"}
               /\ \A k \in Kinds : sess[s].last[k] \in 0..rows[k]
               /\ sess[s].cached \in 0..Len(issues)
               /\ Len(wire[s]) <= WireCap
               /\ Len(sess[s].batch) <= Batch
    <3>1. \A k \in Kinds : rows[k] \in Nat /\ Len(issues) \in Nat
      BY DEF IInv, TypeInv
    <3> QED
      BY <3>1, SessionFacts DEF IInv, RecordInv, BoundsInv
  <2> QED
    BY <2>1, <2>2, <2>3, <2>4 DEF TypeOK, IInv, TypeInv, Statuses
<1> QED
  BY <1>1, StreamInvariant, PTL

\* An address is never refused for sessions that have ended, and never holds more
\* sessions than it was counted for.
THEOREM SlotsCounted == Spec => []SlotsExact
<1>1. IInv => SlotsExact
  BY DEF IInv
<1> QED
  BY <1>1, StreamInvariant, PTL

\* The client never sees an issue count from before a fetch it already has, though issues
\* are deleted by the run and by the purge while it reads.
THEOREM SnapshotsFresh == Spec => []SnapshotCoversRows
<1>1. IInv => SnapshotCoversRows
  <2> SUFFICES ASSUME IInv, conn # NoSession, wire[conn] # <<>>,
                      Head(wire[conn]).type = "status", LastGot("fetch") > 0
               PROVE  Head(wire[conn]).n >= issuesAt[LastGot("fetch")]
    BY DEF SnapshotCoversRows
  <2>1. wire[conn] \in Seq(Messages)
    BY DEF IInv, TypeInv
  <2>2. Head(wire[conn]) = wire[conn][1] /\ 1 \in DOMAIN wire[conn]
    BY <2>1
  <2>3. Covers(wire[conn], LastGot("fetch"), issuesAt)
    BY DEF IInv, WireInv
  <2> QED
    BY <2>2, <2>3 DEF Covers
<1> QED
  BY <1>1, StreamInvariant, PTL

-----------------------------------------------------------------------------
(* The refinement: the stream implements the feed.                          *)

\* The last row the client has, as the feed sees it.
LEMMA LastReceived ==
    ASSUME NEW k \in Kinds, from[k] # <<>>
    PROVE  Feed!Received(k) = LastGot(k)
BY DEF Feed!Received, LastGot

\* A message the client reads is, for the feed, the next row, the end, or nothing.
LEMMA ReadRefines ==
    ASSUME IInv, NEW s \in Sessions, Read(s)
    PROVE  Feed!Next \/ UNCHANGED Feed!vars
<1> DEFINE w == wire[s]
           m == Head(w)
           over == m.type \in {"done", "error"}
<1>1. /\ UNCHANGED <<status, rows, from>>
      /\ conn = s /\ conn # NoSession /\ w # <<>> /\ closed = FALSE
      /\ closed' = over
      /\ \A k \in Kinds : from[k] # <<>> /\ LastGot(k) \in Nat /\ rows[k] \in Nat
      /\ w \in Seq(Messages) /\ got \in [Kinds -> Seq(Nat)]
  BY StreamAssumption DEF Read, jobVars, IInv, TypeInv, ClientInv
<1>2. m \in Messages /\ m = w[1] /\ 1 \in DOMAIN w
  BY <1>1
<1>3. got' = IF m.type = "row" THEN [got EXCEPT ![m.kind] = Append(@, m.n)] ELSE got
  BY DEF Read
<1>4. CASE m.type = "row"
  <2> DEFINE k == m.kind
  <2>1. k \in Kinds /\ m.n \in Nat /\ IsRow(m, k) /\ over = FALSE
    BY <1>2, <1>4 DEF Messages, IsRow
  <2>2. Ascending(w, k, LastGot(k), rows[k]) /\ (~Purging => Dense(w, k, LastGot(k)))
    BY <1>1, <2>1 DEF IInv, WireInv
  <2>3. /\ LastGot(k) < m.n /\ m.n <= rows[k] /\ (~Purging => m.n = LastGot(k) + 1)
    BY <1>1, <2>1, <2>2, RowRead
  <2> HIDE DEF m, w, over, k
  <2>4. m.n \in Feed!Received(k) + 1 .. rows[k] /\ (~Purging => m.n = Feed!Received(k) + 1)
    BY <1>1, <2>1, <2>3, LastReceived
  <2>5. Feed!Receive(k)
    BY <1>1, <1>3, <1>4, <2>1, <2>4 DEF Feed!Receive, Purging, k
  <2> QED
    BY <2>1, <2>5 DEF Feed!Next
<1>5. CASE over
  <2>1. status # "running" /\ m.type # "row"
    BY <1>1, <1>2, <1>5 DEF IInv, WireInv
  <2>2. Feed!Close
    BY <1>1, <1>3, <1>5, <2>1 DEF Feed!Close
  <2> QED
    BY <2>2 DEF Feed!Next
<1>6. CASE m.type # "row" /\ ~over
  <2>1. got' = got
    BY <1>3, <1>6
  <2>2. closed' = over /\ closed = FALSE /\ ~over /\ over \in BOOLEAN
    BY <1>1, <1>6
  <2> HIDE DEF over
  <2>3. closed' = closed
    BY <2>2
  <2> QED
    BY <1>1, <2>1, <2>3 DEF Feed!vars
<1> QED
  BY <1>4, <1>5, <1>6

\* Every step is one of the feed, or the feed does not see it.
LEMMA StepRefines ==
    ASSUME IInv, [Next]_vars
    PROVE  Feed!Next \/ UNCHANGED Feed!vars
<1>1. CASE CommitFetch
  <2>1. Feed!Commit("fetch")
    BY <1>1 DEF CommitFetch, clientVars, Feed!Commit
  <2> QED
    BY <2>1 DEF Feed!Next, Kinds
<1>2. CASE CommitPhase
  <2>1. CASE rows' = [rows EXCEPT !["phase"] = @ + 1]
    <3>1. Feed!Commit("phase")
      BY <1>2, <2>1 DEF CommitPhase, clientVars, Feed!Commit
    <3> QED
      BY <3>1 DEF Feed!Next, Kinds
  <2>2. CASE rows' = rows
    BY <1>2, <2>2 DEF CommitPhase, clientVars, Feed!vars
  <2> QED
    BY <1>2, <2>1, <2>2 DEF CommitPhase
<1>3. CASE JobEnds
  <2>1. Feed!End
    BY <1>3 DEF JobEnds, clientVars, Feed!End
  <2> QED
    BY <2>1 DEF Feed!Next
<1>4. CASE JobDeleted
  <2>1. Feed!Purge
    BY <1>4 DEF JobDeleted, clientVars, Feed!Purge
  <2> QED
    BY <2>1 DEF Feed!Next
<1>5. CASE JobGone
  BY <1>5 DEF JobGone, clientVars, Feed!vars
<1>6. CASE RemoveIssues \/ PurgeIssues \/ \E k \in Kinds : PurgeRow(k)
  BY <1>6 DEF RemoveIssues, PurgeIssues, PurgeRow, clientVars, Feed!vars
<1>7. CASE \E s \in Sessions : SessionStep(s) \/ Drop(s) \/ Open(s)
  <2>1. UNCHANGED <<status, rows, from, got, closed>>
    BY <1>7 DEF SessionStep, SendStatus, StatusFails, StatusVanished, Query, SendRow, BatchSent,
         Terminal, TickFires, Disconnected, Drop, Open, jobVars, clientVars
  <2> QED
    BY <2>1 DEF Feed!vars
<1>8. CASE \E k \in Kinds : Snapshot(k)
  <2> PICK k \in Kinds : Snapshot(k)
    BY <1>8
  <2> DEFINE n == IF purged[k] = rows[k] THEN 0 ELSE rows[k]
  <2>1. n \in 0..rows[k] /\ (~Purging => n = rows[k])
    BY DEF IInv, TypeInv, JobInv
  <2>2. /\ from[k] = <<>> /\ from' = [from EXCEPT ![k] = <<n>>]
        /\ UNCHANGED <<status, rows, got, closed>>
    BY DEF Snapshot, jobVars
  <2> HIDE DEF n
  <2>3. Feed!Snapshot(k)
    BY <2>1, <2>2 DEF Feed!Snapshot, Purging, IInv, TypeInv, Statuses
  <2> QED
    BY <2>3 DEF Feed!Next
<1>9. CASE \E s \in Sessions : Read(s)
  BY <1>9, ReadRefines
<1>10. CASE OpenGone
  <2>1. Feed!Close
    BY <1>10 DEF OpenGone, jobVars, Feed!Close
  <2> QED
    BY <2>1 DEF Feed!Next
<1>11. CASE UNCHANGED vars
  BY <1>11 DEF vars, jobVars, clientVars, Feed!vars
<1> QED
  BY <1>1, <1>2, <1>3, <1>4, <1>5, <1>6, <1>7, <1>8, <1>9, <1>10, <1>11 DEF Next, ClientStep

\* Whatever breaks between server and client, and however often, the client receives
\* each row once, in order and without gaps, and is told that the feed is over only
\* when the job has ended or is being deleted.
THEOREM FeedRefined == Spec => FeedImplemented
<1>1. Init => Feed!Init
  BY DEF Init, Feed!Init
<1>2. IInv /\ [Next]_vars => [Feed!Next]_(Feed!vars)
  BY StepRefines
<1> QED
  BY <1>1, <1>2, StreamInvariant, PTL DEF Spec, FeedImplemented, Feed!Spec
=============================================================================

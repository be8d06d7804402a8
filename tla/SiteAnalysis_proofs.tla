------------------------ MODULE SiteAnalysis_proofs ------------------------
(***************************************************************************)
(* What holds of SiteAnalysis for every web, configuration and set of       *)
(* seeds.                                                                   *)
(***************************************************************************)
EXTENDS SiteAnalysis, FiniteSetTheorems, WellFoundedInduction, TLAPS

\* The phases that only report.
Reporting == {"materialize", "finalize", "done"}

\* What detection keeps aside is global, and after a failed detection nothing but the
\* report is left to do.
DetectionInv ==
    /\ \A i \in saved : i.scope = "global"
    /\ "detection" \in failures => phase \in Reporting /\ GlobalRows = saved

\* At the start nothing is kept aside and nothing has failed.
LEMMA DetectionInit == Init => DetectionInv
  BY DEF Init, InitWith, DetectionInv, GlobalRows

\* A failed detection leaves the rows kept aside as the global ones, and no later step of
\* the job touches an issue.
LEMMA DetectionStep ==
    ASSUME DetectionInv, [Next]_vars
    PROVE  DetectionInv'
<1> USE DEF DetectionInv, GlobalRows, Reporting, tables, progress, report, counters, RowsBeside
<1>1. CASE SitemapEntry
  BY <1>1 DEF SitemapEntry, AdmitEntry, OnboardEntryHost, EnqueueEntry, OnboardReturns
<1>2. CASE OnboardSeedHost
  BY <1>2 DEF OnboardSeedHost
<1>3. CASE StartCrawl
  BY <1>3 DEF StartCrawl, StartPipeline
<1>4. CASE Dispatch \/ DropOutOfScope \/ OnboardVisited \/ SkipVisit \/ FetchFails
  BY <1>4 DEF Dispatch, DropOutOfScope, OnboardVisited, SkipVisit, FetchFails
<1>5. CASE FetchAndAnalyze
  BY <1>5 DEF FetchAndAnalyze, MayFetch, Visiting
<1>6. CASE PipelineEnds
  BY <1>6 DEF PipelineEnds
<1>7. CASE PipelineFails
  BY <1>7 DEF PipelineFails
<1>8. CASE Browse
  BY <1>8 DEF Browse, StartGapEscalation, RenderKeyPage, EndGapEscalation,
              QueueBrowserDiscovered, StartEnrich, EnrichPage, EndEnrich
<1>9. CASE Audit
  BY <1>9 DEF Audit, HeadCheckAssets, StartHTTPAudit, AuditHTTPHost, EndHTTPAudit, RunAudits,
              CheckMarkdown, CheckText
<1>10. CASE RecalculateCounts \/ RecomputeDepths \/ StartDetection \/ RunDetector
  BY <1>10 DEF RecalculateCounts, RecomputeDepths, StartDetection, RunDetector
<1>11. CASE DetectorFails
  BY <1>11 DEF DetectorFails, RestoreGlobalIssues
<1>12. CASE MaterializeAndCount \/ Finalize
  BY <1>12 DEF MaterializeAndCount, Materialized, Finalize
<1>13. CASE UNCHANGED vars
  BY <1>13 DEF vars
<1> QED
  BY <1>1, <1>2, <1>3, <1>4, <1>5, <1>6, <1>7, <1>8, <1>9, <1>10, <1>11, <1>12, <1>13
     DEF Next, Crawl, Report

\* A detection that fails leaves the global issues as it found them.
THEOREM DetectionRestores == Spec => []RestoredOnFailure
<1>1. DetectionInv => RestoredOnFailure
  BY DEF DetectionInv, RestoredOnFailure
<1> QED
  BY DetectionInit, DetectionStep, <1>1, PTL DEF Spec

-----------------------------------------------------------------------------
(* Numbers.                                                                 *)

\* A set of naturals that is not empty has a least element, which Min gives.
LEMMA LeastNat ==
    ASSUME NEW S \in SUBSET Nat, S # {}
    PROVE  Min(S) \in S /\ \A y \in S : Min(S) <= y
<1>1. \A a, b \in Nat : a < b => <<a, b>> \in OpToRel(<, Nat)
  BY DEF OpToRel
<1>3. \E x \in S : \A y \in S : ~(<<y, x>> \in OpToRel(<, Nat))
  BY NatLessThanWellFounded, WFMin
<1>4. \E R : /\ \A a, b \in Nat : a < b => <<a, b>> \in R
             /\ \E x \in S : \A y \in S : ~(<<y, x>> \in R)
  BY <1>1, <1>3, Zenon
<1>5. PICK R : /\ \A a, b \in Nat : a < b => <<a, b>> \in R
               /\ \E x \in S : \A y \in S : ~(<<y, x>> \in R)
  BY <1>4
<1>6. PICK x \in S : \A y \in S : ~(<<y, x>> \in R)
  BY <1>5
<1>7. ASSUME NEW y \in S PROVE x <= y
  <2>1. x \in Nat /\ y \in Nat /\ ~(y < x)
    BY <1>5, <1>6
  <2> QED
    BY <2>1
<1>2. \E m \in S : \A y \in S : m <= y
  BY <1>7
<1> QED
  BY <1>2 DEF Min

\* ... and, when it is bounded, a largest one, which Max gives.
LEMMA LargestNat ==
    ASSUME NEW S \in SUBSET Nat, S # {}, NEW n \in Nat, \A x \in S : x <= n
    PROVE  Max(S) \in S /\ \A y \in S : y <= Max(S)
<1> DEFINE D == {n - x : x \in S}
<1>1. D \in SUBSET Nat /\ D # {}
  <2>1. \A x \in S : n - x \in Nat
    OBVIOUS
  <2> QED
    BY <2>1
<1> HIDE DEF D
<1>2. Min(D) \in D /\ \A y \in D : Min(D) <= y
  BY <1>1, LeastNat
<1>3. PICK x \in S : Min(D) = n - x
  BY <1>2 DEF D
<1>4. \A y \in S : n - x <= n - y
  BY <1>2, <1>3 DEF D
<1>5. \A y \in S : y <= x
  BY <1>4
<1>6. \E m \in S : \A y \in S : m >= y
  BY <1>5
<1> QED
  BY <1>6 DEF Max

-----------------------------------------------------------------------------
(* Sequence numbers.                                                        *)

\* The counter is at or above every number stored, whichever pipeline stored it.
SeqInv ==
    /\ fetchSeq \in Nat
    /\ \A f \in fetches : f.seq \in Nat /\ f.seq <= fetchSeq
    /\ FetchSeqUnique

\* No fetch is stored at the start.
LEMMA SeqInit == Init => SeqInv
  BY DEF Init, InitWith, SeqInv, FetchSeqUnique

\* The number a pipeline, or the http audit, takes up is that of the last fetch stored.
LEMMA LastStored ==
    ASSUME SeqInv
    PROVE  LET m == Max({0} \cup {f.seq : f \in fetches})
           IN  m \in Nat /\ \A f \in fetches : f.seq <= m
<1> DEFINE S == {0} \cup {f.seq : f \in fetches}
<1>1. S \in SUBSET Nat /\ S # {} /\ \A x \in S : x <= fetchSeq
  BY DEF SeqInv
<1>2. \A f \in fetches : f.seq \in S
  OBVIOUS
<1> HIDE DEF S
<1>3. Max(S) \in S /\ \A y \in S : y <= Max(S)
  BY <1>1, LargestNat DEF SeqInv
<1> QED
  BY <1>1, <1>2, <1>3 DEF S

\* One fetch more, under the next number, or none.
LEMMA NextNumber ==
    ASSUME SeqInv, fetchSeq' = fetchSeq + 1,
           NEW f, f.seq = fetchSeq + 1,
           fetches' = fetches \/ fetches' = fetches \cup {f}
    PROVE  SeqInv'
<1>1. fetchSeq + 1 \in Nat /\ \A g \in fetches : g.seq \in Nat /\ g.seq <= fetchSeq + 1
                                                /\ g.seq # fetchSeq + 1
  BY DEF SeqInv
<1>2. \A g \in fetches' : g \in fetches \/ g = f
  OBVIOUS
<1>3. FetchSeqUnique'
  BY <1>1, <1>2 DEF SeqInv, FetchSeqUnique
<1> QED
  BY <1>1, <1>2, <1>3 DEF SeqInv

\* Every step that stores a fetch takes the next number; a pipeline and the http audit start
\* from the last number stored.
LEMMA SeqStep ==
    ASSUME SeqInv, [Next]_vars
    PROVE  SeqInv'
<1> USE DEF tables, progress, report, counters, RowsBeside
<1>1. CASE UNCHANGED <<fetches, fetchSeq>>
  BY <1>1 DEF SeqInv, FetchSeqUnique
<1>2. CASE fetches' = fetches /\ fetchSeq' = Max({0} \cup {f.seq : f \in fetches})
  BY <1>2, LastStored DEF SeqInv, FetchSeqUnique
<1>3. CASE SitemapEntry
  BY <1>1, <1>3 DEF SitemapEntry, AdmitEntry, OnboardEntryHost, EnqueueEntry, OnboardReturns
<1>4. CASE OnboardSeedHost \/ Dispatch \/ DropOutOfScope \/ OnboardVisited \/ SkipVisit
           \/ PipelineEnds \/ PipelineFails
  BY <1>1, <1>4 DEF OnboardSeedHost, Dispatch, DropOutOfScope, OnboardVisited, SkipVisit,
                    PipelineEnds, PipelineFails
<1>5. CASE StartCrawl \/ QueueBrowserDiscovered \/ StartHTTPAudit
  BY <1>1, <1>2, <1>5 DEF StartCrawl, QueueBrowserDiscovered, StartHTTPAudit, StartPipeline
<1>6. CASE FetchFails
  <2>1. PICK i \in visiting :
          fetches' = IF i.url \in web.guarded THEN fetches
                     ELSE fetches \cup {[seq |-> fetchSeq + 1, url |-> i.url, final |-> i.url,
                                         code |-> 0, kind |-> "full"]}
    BY <1>6 DEF FetchFails
  <2>2. fetchSeq' = fetchSeq + 1
    BY <1>6 DEF FetchFails
  <2> DEFINE f == [seq |-> fetchSeq + 1, url |-> i.url, final |-> i.url, code |-> 0,
                   kind |-> "full"]
  <2>3. f.seq = fetchSeq + 1 /\ (fetches' = fetches \/ fetches' = fetches \cup {f})
    BY <2>1
  <2> HIDE DEF f
  <2> QED
    BY <2>2, <2>3, NextNumber
<1>7. CASE FetchAndAnalyze
  <2>1. \E i \in visiting : \E r \in web.answers[i.url] :
          fetches' = fetches \cup
                       {[seq |-> fetchSeq + 1, url |-> i.url, final |-> FiledUnder(i.url, r),
                         code |-> r.code, kind |-> "full"]}
    BY <1>7 DEF FetchAndAnalyze, Persist
  <2>2. fetchSeq' = fetchSeq + 1
    BY <1>7 DEF FetchAndAnalyze
  <2> QED
    BY <2>1, <2>2, NextNumber
<1>8. CASE AuditHTTPHost
  <2>1. \E u, final, code :
          fetches' = fetches \cup
                       {[seq |-> fetchSeq + 1, url |-> u, final |-> final,
                         code |-> code, kind |-> "http_https_audit"]}
    BY <1>8 DEF AuditHTTPHost
  <2>2. fetchSeq' = fetchSeq + 1
    BY <1>8 DEF AuditHTTPHost
  <2> QED
    BY <2>1, <2>2, NextNumber
<1>9. CASE StartGapEscalation \/ RenderKeyPage \/ EndGapEscalation \/ StartEnrich \/ EnrichPage
           \/ EndEnrich
  BY <1>1, <1>9 DEF StartGapEscalation, RenderKeyPage, EndGapEscalation, StartEnrich,
                    EnrichPage, EndEnrich
<1>10. CASE HeadCheckAssets \/ EndHTTPAudit \/ RunAudits \/ CheckMarkdown \/ CheckText
  BY <1>1, <1>10 DEF HeadCheckAssets, EndHTTPAudit, RunAudits, CheckMarkdown, CheckText
<1>11. CASE Report
  BY <1>1, <1>11 DEF Report, RecalculateCounts, RecomputeDepths, StartDetection, RunDetector,
                     DetectorFails, MaterializeAndCount, Finalize
<1>12. CASE UNCHANGED vars
  BY <1>1, <1>12 DEF vars
<1> QED
  BY <1>3, <1>4, <1>5, <1>6, <1>7, <1>8, <1>9, <1>10, <1>11, <1>12
     DEF Next, Crawl, Browse, Audit

\* No two stored fetches of a job share a number.
THEOREM SequenceUnique == Spec => []FetchSeqUnique
<1>1. SeqInv => FetchSeqUnique
  BY DEF SeqInv
<1> QED
  BY SeqInit, SeqStep, <1>1, PTL DEF Spec

-----------------------------------------------------------------------------
(* Scope.                                                                   *)

\* A URL has one normal form at most.
LEMMA OneForm ==
    ASSUME NEW u, NEW n \in Normalize(u)
    PROVE  Normalize(u) = {n} /\ The(Normalize(u)) = n
<1>1. \A m \in Normalize(u) : m = n
  BY DEF Normalize
<1> QED
  BY <1>1 DEF The

\* ... and one key.
LEMMA OneKey ==
    ASSUME NEW u, NEW k \in FrontierKey(u)
    PROVE  FrontierKey(u) = {k} /\ The(FrontierKey(u)) = k
<1>1. PICK n \in Normalize(u) : TRUE
  BY DEF FrontierKey
<1>2. Normalize(u) = {n}
  BY OneForm
<1>3. \A l \in FrontierKey(u) : l = k
  BY <1>2 DEF FrontierKey
<1> QED
  BY <1>3 DEF The

\* What an analysable answer is filed under is in scope.
LEMMA FiledInScope ==
    ASSUME NEW u, NEW r, IsInScope(u), Analyzable(r)
    PROVE  IsInScope(FiledUnder(u, r))
<1>1. PICK k \in FrontierKey(r.final) : IsInScope(k)
  BY DEF Analyzable
<1> QED
  BY <1>1, OneKey DEF FiledUnder

\* Beside a visit, no step changes which URLs have a page, nor the columns of a row.
LEMMA PageSteps ==
    ASSUME [Next]_vars
    PROVE  \/ /\ DOMAIN pages' = DOMAIN pages
              /\ \A u \in DOMAIN pages : DOMAIN pages'[u] = DOMAIN pages[u]
           \/ \E i \in visiting : \E r \in web.answers[i.url] :
                /\ MayFetch(i) /\ Analyzable(r)
                /\ pages' = Inserted(pages, OneRow(FiledUnder(i.url, r),
                                                    PageRow(r.page, fetchSeq + 1, i.depth)))
<1> USE DEF tables, progress, report, counters, RowsBeside
<1>1. CASE UNCHANGED pages
  BY <1>1
<1>2. CASE SitemapEntry
  BY <1>2 DEF SitemapEntry, AdmitEntry, OnboardEntryHost, EnqueueEntry, OnboardReturns
<1>3. CASE OnboardSeedHost \/ StartCrawl \/ Dispatch \/ DropOutOfScope \/ OnboardVisited
           \/ SkipVisit \/ FetchFails \/ PipelineEnds \/ PipelineFails
  BY <1>3 DEF OnboardSeedHost, StartCrawl, Dispatch, DropOutOfScope, OnboardVisited, SkipVisit,
              FetchFails, PipelineEnds, PipelineFails
<1>4. CASE FetchAndAnalyze
  BY <1>4 DEF FetchAndAnalyze, Persist
<1>5. CASE RenderKeyPage
  BY <1>5 DEF RenderKeyPage, UpdateGapPage, Enriched
<1>6. CASE EnrichPage
  BY <1>6 DEF EnrichPage, Enriched
<1>7. CASE StartGapEscalation \/ EndGapEscalation \/ QueueBrowserDiscovered \/ StartEnrich
           \/ EndEnrich
  BY <1>7 DEF StartGapEscalation, EndGapEscalation, QueueBrowserDiscovered, StartEnrich,
              EndEnrich
<1>8. CASE Audit
  BY <1>8 DEF Audit, HeadCheckAssets, StartHTTPAudit, AuditHTTPHost, EndHTTPAudit, RunAudits,
              CheckMarkdown, CheckText
<1>9. CASE Report
  BY <1>9, ZenonT(30) DEF Report, RecalculateCounts, RecomputeDepths, StartDetection, RunDetector,
              DetectorFails, MaterializeAndCount, Finalize, CountsOver, DepthsOver
<1>10. CASE UNCHANGED vars
  BY <1>10 DEF vars
<1> QED
  BY <1>2, <1>3, <1>4, <1>5, <1>6, <1>7, <1>8, <1>9, <1>10 DEF Next, Crawl, Browse

\* No page out of the crawl's scope is ever stored, through redirects either.
THEOREM ScopeKept == Spec => []PagesInScope
<1>1. Init => PagesInScope
  BY DEF Init, InitWith, PagesInScope
<1>2. ASSUME PagesInScope, [Next]_vars PROVE PagesInScope'
  <2>1. CASE DOMAIN pages' = DOMAIN pages
    BY <1>2, <2>1 DEF PagesInScope, IsInScope, SeedHost
  <2>2. ASSUME NEW i \in visiting, NEW r \in web.answers[i.url], MayFetch(i), Analyzable(r),
               pages' = Inserted(pages, OneRow(FiledUnder(i.url, r),
                                                PageRow(r.page, fetchSeq + 1, i.depth)))
        PROVE  PagesInScope'
    <3>1. DOMAIN pages' \subseteq DOMAIN pages \cup {FiledUnder(i.url, r)}
      BY <2>2 DEF Inserted, OneRow
    <3>2. IsInScope(FiledUnder(i.url, r))
      BY <2>2, FiledInScope DEF MayFetch
    <3> QED
      BY <1>2, <3>1, <3>2 DEF PagesInScope, IsInScope, SeedHost
  <2> QED
    BY <1>2, <2>1, <2>2, PageSteps
<1> QED
  BY <1>1, <1>2, PTL DEF Spec

-----------------------------------------------------------------------------
(* Depths.                                                                  *)

\* f lists the pages within 0 to N clicks.
IsNear(f, links, known, N) ==
    f = [n \in 0..N |-> IF n = 0 THEN SeedForms \cap known ELSE Further(links, known, f[n - 1])]

\* There is such a list: the recursion that Within is defined by has a solution.
LEMMA NearExists ==
    ASSUME NEW links, NEW known, NEW N \in Nat
    PROVE  \E f : IsNear(f, links, known, N)
<1> DEFINE Solves(f, m) == IsNear(f, links, known, m)
           Bad == {m \in 0..N : ~\E f : Solves(f, m)}
<1>0. N \in 0..N /\ Bad \in SUBSET Nat
  OBVIOUS
<1> SUFFICES ASSUME Bad # {} PROVE FALSE
  BY <1>0
<1> HIDE DEF Bad
<1>1. PICK m \in Bad : \A k \in Bad : m <= k
  BY <1>0, LeastNat
<1> USE DEF Bad, IsNear
<1>2. m \in 0..N /\ ~\E f : Solves(f, m)
  BY <1>1
<1>3. CASE m = 0
  <2> DEFINE f == [n \in 0..0 |-> SeedForms \cap known]
  <2>1. f = [n \in 0..m |-> IF n = 0 THEN SeedForms \cap known
                            ELSE Further(links, known, f[n - 1])]
    BY <1>3
  <2> QED
    BY <1>2, <2>1
<1>4. CASE m # 0
  <2>1. m - 1 \in 0..N /\ m - 1 \notin Bad
    BY <1>1, <1>2, <1>4, SMTT(30)
  <2>2. PICK f : Solves(f, m - 1)
    BY <2>1
  <2> DEFINE g == [n \in 0..m |-> IF n = m THEN Further(links, known, f[m - 1]) ELSE f[n]]
  <2>3. ASSUME NEW n \in 0..m
        PROVE  g[n] = IF n = 0 THEN SeedForms \cap known ELSE Further(links, known, g[n - 1])
    <3>1. CASE n = 0
      BY <1>2, <1>4, <2>2, <3>1
    <3>2. CASE n = m
      <4>1. n - 1 \in 0..m /\ n - 1 # m
        BY <1>2, <1>4, <3>2
      <4> QED
        BY <1>4, <3>2, <4>1
    <3>3. CASE n # 0 /\ n # m
      <4>1. n \in 0..m - 1 /\ n - 1 \in 0..m /\ n - 1 # m
        BY <1>2, <3>3
      <4>2. f[n] = Further(links, known, f[n - 1])
        BY <2>2, <3>3, <4>1
      <4> QED
        BY <3>3, <4>1, <4>2
    <3> QED
      BY <3>1, <3>2, <3>3
  <2>4. Solves(g, m)
    BY <2>3
  <2> QED
    BY <1>2, <2>4
<1> QED
  BY <1>3, <1>4

\* Within takes one click after another.
LEMMA WithinSteps ==
    ASSUME NEW links, NEW known, IsFiniteSet(known)
    PROVE  LET N == Cardinality(known)
               near == Within(links, known)
           IN  /\ N \in Nat /\ near[0] = SeedForms \cap known
               /\ \A n \in 1..N : near[n] = Further(links, known, near[n - 1])
<1> DEFINE N == Cardinality(known)
           near == Within(links, known)
<1>1. N \in Nat
  BY FS_CardinalityType
<1> HIDE DEF N
<1>2. \E f : IsNear(f, links, known, N)
  BY <1>1, NearExists
<1>3. IsNear(near, links, known, N)
  BY <1>2 DEF Within, N, IsNear
<1> HIDE DEF near
<1> USE DEF IsNear
<1>4. \A n \in 0..N : near[n] = IF n = 0 THEN SeedForms \cap known
                                ELSE Further(links, known, near[n - 1])
  BY <1>3
<1>5. 0 \in 0..N /\ \A n \in 1..N : n \in 0..N /\ n # 0
  BY <1>1
<1> QED
  BY <1>1, <1>4, <1>5 DEF N, near

\* Within n clicks there are only known pages, and none that is not within all N.
LEMMA WithinGrows ==
    ASSUME NEW links, NEW known, IsFiniteSet(known)
    PROVE  LET N == Cardinality(known)
               near == Within(links, known)
           IN  \A n \in 0..N : near[n] \subseteq known /\ near[n] \subseteq near[N]
<1> DEFINE N == Cardinality(known)
           near == Within(links, known)
<1>1. /\ N \in Nat /\ near[0] = SeedForms \cap known
      /\ \A n \in 1..N : near[n] = Further(links, known, near[n - 1])
  BY WithinSteps
<1> HIDE DEF N, near
<1>2. \A n \in 1..N : near[n - 1] \subseteq near[n]
  BY <1>1 DEF Further
<1>3. \A n \in 0..N : near[n] \subseteq known
  <2> DEFINE Bad == {n \in 0..N : ~(near[n] \subseteq known)}
  <2>1. Bad \in SUBSET Nat
    OBVIOUS
  <2> SUFFICES ASSUME Bad # {} PROVE FALSE
    OBVIOUS
  <2> HIDE DEF Bad
  <2>2. PICK m \in Bad : \A k \in Bad : m <= k
    BY <2>1, LeastNat
  <2>3. m \in 0..N /\ ~(near[m] \subseteq known)
    BY DEF Bad
  <2>4. m # 0
    BY <1>1, <2>3
  <2>5. m - 1 \in 0..N /\ m \in 1..N /\ m - 1 \notin Bad
    BY <1>1, <2>2, <2>3, <2>4
  <2>6. near[m - 1] \subseteq known
    BY <2>5 DEF Bad
  <2> QED
    BY <1>1, <2>3, <2>5, <2>6 DEF Further
<1>4. \A n \in 0..N : near[N - n] \subseteq near[N]
  <2> DEFINE Bad == {n \in 0..N : ~(near[N - n] \subseteq near[N])}
  <2>1. Bad \in SUBSET Nat
    OBVIOUS
  <2> SUFFICES ASSUME Bad # {} PROVE FALSE
    OBVIOUS
  <2> HIDE DEF Bad
  <2>2. PICK m \in Bad : \A k \in Bad : m <= k
    BY <2>1, LeastNat
  <2>3. m \in 0..N /\ ~(near[N - m] \subseteq near[N])
    BY DEF Bad
  <2>4. m # 0
    BY <1>1, <2>3
  <2>5. m - 1 \in 0..N /\ N - (m - 1) \in 1..N /\ (N - (m - 1)) - 1 = N - m /\ m - 1 \notin Bad
    BY <1>1, <2>2, <2>3, <2>4
  <2>6. near[N - (m - 1)] \subseteq near[N]
    BY <2>5 DEF Bad
  <2>7. near[N - m] \subseteq near[N - (m - 1)]
    BY <1>2, <2>5
  <2> QED
    BY <2>3, <2>6, <2>7
<1>5. \A n \in 0..N : near[n] \subseteq near[N]
  <2> SUFFICES ASSUME NEW n \in 0..N PROVE near[n] \subseteq near[N]
    OBVIOUS
  <2>1. N - n \in 0..N /\ N - (N - n) = n
    BY <1>1
  <2> QED
    BY <1>4, <2>1
<1> QED
  BY <1>3, <1>5 DEF N, near

\* What a list holds at its last place it holds from a first place on.
LEMMA FirstPlace ==
    ASSUME NEW N \in Nat, NEW near, NEW u, u \in near[N]
    PROVE  LET d == Min({n \in 0..N : u \in near[n]})
           IN  /\ d \in 0..N /\ u \in near[d]
               /\ \A n \in 0..N : u \in near[n] => d <= n
<1> DEFINE S == {n \in 0..N : u \in near[n]}
<1>1. S \in SUBSET Nat /\ S # {}
  BY DEF S
<1>2. \A n : n \in S <=> n \in 0..N /\ u \in near[n]
  OBVIOUS
<1> HIDE DEF S
<1>3. Min(S) \in S /\ \A n \in S : Min(S) <= n
  BY <1>1, LeastNat
<1> QED
  BY <1>2, <1>3 DEF S

\* DepthsOver gives each page the seeds reach its distance from them.
LEMMA DistancesExact ==
    ASSUME IsFiniteSet(DOMAIN pages),
           \A u \in DOMAIN pages : "depth" \in DOMAIN pages[u],
           NEW links
    PROVE  LET N == Cardinality(DOMAIN pages)
               reached == Within(links, DOMAIN pages)[N]
               depth == [u \in DOMAIN pages |-> DepthsOver(links)[u].depth]
           IN  \A u \in reached :
                 /\ depth[u] = 0 <=> u \in SeedForms
                 /\ \A e \in links : e.source \in reached /\ e.target = u
                                       => depth[u] <= depth[e.source] + 1
                 /\ u \notin SeedForms => \E e \in links : /\ e.source \in reached /\ e.target = u
                                                           /\ depth[u] = depth[e.source] + 1
<1> DEFINE known == DOMAIN pages
           N == Cardinality(known)
           near == Within(links, known)
           reached == near[N]
           depth == [u \in known |-> DepthsOver(links)[u].depth]
           First(u) == Min({n \in 0..N : u \in near[n]})
<1>1. /\ N \in Nat /\ near[0] = SeedForms \cap known
      /\ \A n \in 1..N : near[n] = Further(links, known, near[n - 1])
  BY WithinSteps
<1>2. \A n \in 0..N : near[n] \subseteq known /\ near[n] \subseteq reached
  BY WithinGrows
<1>3. \A u \in reached : /\ u \in known
                         /\ First(u) \in 0..N /\ u \in near[First(u)]
                         /\ \A n \in 0..N : u \in near[n] => First(u) <= n
  <2> SUFFICES ASSUME NEW u \in reached
               PROVE  /\ u \in known
                      /\ First(u) \in 0..N /\ u \in near[First(u)]
                      /\ \A n \in 0..N : u \in near[n] => First(u) <= n
    OBVIOUS
  <2>1. u \in known
    BY <1>1, <1>2
  <2> HIDE DEF N, near
  <2> QED
    BY <1>1, <2>1, FirstPlace
<1>4. \A u \in reached : depth[u] = First(u)
  <2> SUFFICES ASSUME NEW u \in reached PROVE depth[u] = First(u)
    OBVIOUS
  <2>1. u \in known /\ {n \in 0..N : u \in near[n]} # {}
    BY <1>1, <1>3
  <2>2. DepthsOver(links)[u] = [pages[u] EXCEPT !.depth = First(u)]
    BY <2>1 DEF DepthsOver
  <2> QED
    BY <2>1, <2>2
<1> HIDE DEF N, near, depth, First
<1> SUFFICES ASSUME NEW u \in reached
             PROVE  /\ depth[u] = 0 <=> u \in SeedForms
                    /\ \A e \in links : e.source \in reached /\ e.target = u
                                          => depth[u] <= depth[e.source] + 1
                    /\ u \notin SeedForms
                         => \E e \in links : /\ e.source \in reached /\ e.target = u
                                             /\ depth[u] = depth[e.source] + 1
  BY DEF N, near, depth
<1>5. /\ u \in known /\ depth[u] = First(u)
      /\ First(u) \in 0..N /\ u \in near[First(u)]
      /\ \A n \in 0..N : u \in near[n] => First(u) <= n
  BY <1>3, <1>4
<1>6. depth[u] = 0 <=> u \in SeedForms
  <2>1. 0 \in 0..N /\ (u \in near[0] <=> u \in SeedForms)
    BY <1>1, <1>5
  <2> QED
    BY <1>1, <1>5, <2>1
<1>7. ASSUME NEW e \in links, e.source \in reached, e.target = u
      PROVE  depth[u] <= depth[e.source] + 1
  <2> DEFINE d == First(e.source)
  <2>1. d \in 0..N /\ e.source \in near[d] /\ depth[e.source] = d
    BY <1>3, <1>4, <1>7
  <2>2. CASE d = N
    BY <1>1, <1>5, <2>1, <2>2
  <2>3. CASE d # N
    <3>1. d + 1 \in 1..N /\ d + 1 \in 0..N /\ (d + 1) - 1 = d
      BY <1>1, <2>1, <2>3
    <3>2. near[d + 1] = Further(links, known, near[d])
      BY <1>1, <3>1
    <3>3. u \in near[d + 1]
      BY <1>5, <1>7, <2>1, <3>2 DEF Further
    <3> QED
      BY <1>5, <2>1, <3>1, <3>3
  <2> QED
    BY <2>2, <2>3
<1>8. ASSUME u \notin SeedForms
      PROVE  \E e \in links : /\ e.source \in reached /\ e.target = u
                              /\ depth[u] = depth[e.source] + 1
  <2> DEFINE d == First(u)
  <2>1. d \in 1..N /\ d - 1 \in 0..N /\ u \notin near[d - 1]
    BY <1>1, <1>5, <1>6, <1>8
  <2>2. PICK e \in links : e.source \in near[d - 1] /\ e.target = u
    BY <1>1, <1>5, <2>1 DEF Further
  <2>3. e.source \in reached
    BY <1>2, <2>1, <2>2
  <2>4. /\ depth[e.source] = First(e.source) /\ First(e.source) \in 0..N
        /\ First(e.source) <= d - 1
    BY <1>3, <1>4, <2>1, <2>2, <2>3
  <2>5. depth[u] <= depth[e.source] + 1
    BY <1>7, <2>2, <2>3
  <2> QED
    BY <1>1, <1>5, <2>1, <2>2, <2>3, <2>4, <2>5
<1> QED
  BY <1>6, <1>7, <1>8

\* The columns of a page row.
PageColumns ==
    {"fetch", "depth", "title", "description", "hash", "h1", "h2", "words", "indexable",
     "canonical", "canonicalCode", "hreflangs", "next", "prev", "suspect", "inbound", "linking",
     "outbound"}

\* Finitely many pages, each with a complete row.
PagesInv ==
    /\ IsFiniteSet(DOMAIN pages)
    /\ \A u \in DOMAIN pages : DOMAIN pages[u] = PageColumns

\* There is no page at the start.
LEMMA PagesInit == Init => PagesInv
  BY FS_EmptySet DEF Init, InitWith, PagesInv

\* A visit adds one complete row; every other step changes fields of rows only.
LEMMA PagesStep ==
    ASSUME PagesInv, [Next]_vars
    PROVE  PagesInv'
<1>1. CASE /\ DOMAIN pages' = DOMAIN pages
           /\ \A u \in DOMAIN pages : DOMAIN pages'[u] = DOMAIN pages[u]
  BY <1>1 DEF PagesInv
<1>2. ASSUME NEW u, NEW row, DOMAIN row = PageColumns, pages' = Inserted(pages, OneRow(u, row))
      PROVE  PagesInv'
  <2>1. DOMAIN pages' = DOMAIN pages \cup {u}
    BY <1>2 DEF Inserted, OneRow
  <2>2. IsFiniteSet(DOMAIN pages')
    BY <2>1, FS_AddElement DEF PagesInv
  <2>3. \A v \in DOMAIN pages' : DOMAIN pages'[v] = PageColumns
    BY <1>2 DEF Inserted, OneRow, PagesInv
  <2> QED
    BY <2>2, <2>3 DEF PagesInv
<1>3. \A page, seq, depth : DOMAIN PageRow(page, seq, depth) = PageColumns
  BY DEF PageRow, PageColumns
<1> QED
  BY <1>1, <1>2, <1>3, PageSteps

\* Detection comes after the depths, and the report after detection.
DepthInv ==
    /\ detector \in Nat
    /\ detector > 0 => phase = "detect" \/ phase \in Reporting
    /\ DepthsShortest

\* Detection is not reached at the start.
LEMMA DepthInit == Init => DepthInv
  BY DEF Init, InitWith, DepthInv, DepthsShortest

\* Once they are computed, the pages and the links stay as they are.
LEMMA DepthsStay ==
    ASSUME DepthsShortest, UNCHANGED <<pages, edges>>,
           phase' = "detect" \/ detector' > 0 => phase = "detect" \/ detector > 0
    PROVE  DepthsShortest'
  BY DEF DepthsShortest, InternalLinks

\* The step that computes the depths establishes what is claimed of them.
LEMMA DepthsComputed ==
    ASSUME PagesInv, RecomputeDepths
    PROVE  DepthsShortest'
<1> DEFINE links == InternalLinks
           N == Cardinality(DOMAIN pages)
           reached == Within(links, DOMAIN pages)[N]
           depth == [u \in DOMAIN pages |-> DepthsOver(links)[u].depth]
<1>1. pages' = DepthsOver(links) /\ edges' = edges
  BY DEF RecomputeDepths
<1>2. DOMAIN pages' = DOMAIN pages /\ InternalLinks' = links
  BY <1>1 DEF DepthsOver, InternalLinks
<1>3. \A u \in reached :
        /\ depth[u] = 0 <=> u \in SeedForms
        /\ \A e \in links : e.source \in reached /\ e.target = u
                              => depth[u] <= depth[e.source] + 1
        /\ u \notin SeedForms => \E e \in links : /\ e.source \in reached /\ e.target = u
                                                  /\ depth[u] = depth[e.source] + 1
  BY DistancesExact DEF PagesInv, PageColumns
<1>4. reached \subseteq DOMAIN pages
  <2>1. N \in Nat
    BY FS_CardinalityType DEF PagesInv
  <2> QED
    BY <2>1, WithinGrows DEF PagesInv
<1>5. \A u \in DOMAIN pages : depth[u] = pages'[u].depth
  BY <1>1
<1>6. Within(InternalLinks, DOMAIN pages)[Cardinality(DOMAIN pages)]' = reached
  BY <1>2
<1> HIDE DEF reached, depth
<1> QED
  BY <1>2, <1>3, <1>4, <1>5, <1>6 DEF DepthsShortest

\* No step before the depths are computed reaches detection, none after it changes a page or
\* an edge.
LEMMA DepthStep ==
    ASSUME PagesInv, DepthInv, [Next]_vars
    PROVE  DepthInv'
<1> USE DEF tables, progress, report, counters, RowsBeside, DepthInv, Reporting
<1>1. CASE SitemapEntry \/ OnboardVisited
  <2>1. UNCHANGED <<pages, edges, phase, detector>>
    BY <1>1 DEF SitemapEntry, AdmitEntry, OnboardEntryHost, EnqueueEntry, OnboardReturns,
                OnboardVisited
  <2> QED
    BY <2>1, DepthsStay
<1>2. ASSUME phase \notin {"detect"} \cup Reporting, detector' = detector, phase' # "detect"
      PROVE  DepthInv'
  BY <1>2 DEF DepthsShortest
<1>3. CASE OnboardSeedHost \/ StartCrawl \/ Dispatch \/ PipelineEnds \/ PipelineFails
  BY <1>2, <1>3 DEF OnboardSeedHost, StartCrawl, StartPipeline, Dispatch, PipelineEnds,
                    PipelineFails, AfterPipeline
<1>4. CASE DropOutOfScope \/ SkipVisit \/ FetchFails \/ FetchAndAnalyze
  BY <1>2, <1>4 DEF DropOutOfScope, SkipVisit, FetchFails, FetchAndAnalyze, MayFetch, Visiting
<1>5. CASE Browse
  BY <1>2, <1>5 DEF Browse, StartGapEscalation, RenderKeyPage, EndGapEscalation,
                    QueueBrowserDiscovered, StartPipeline, StartEnrich, EnrichPage, EndEnrich
<1>6. CASE Audit
  BY <1>2, <1>6 DEF Audit, HeadCheckAssets, StartHTTPAudit, AuditHTTPHost, EndHTTPAudit,
                    RunAudits, CheckMarkdown, CheckText
<1>7. CASE RecalculateCounts
  BY <1>2, <1>7 DEF RecalculateCounts
<1>8. CASE RecomputeDepths
  <2>1. detector' = detector /\ phase' = "detect"
    BY <1>8 DEF RecomputeDepths
  <2> QED
    BY <1>8, <2>1, DepthsComputed
<1>9. CASE StartDetection
  <2>1. UNCHANGED <<pages, edges, phase>> /\ phase = "detect" /\ detector' = 1
    BY <1>9 DEF StartDetection
  <2> QED
    BY <2>1, DepthsStay
<1>10. CASE RunDetector
  <2>1. UNCHANGED <<pages, edges>> /\ phase = "detect" /\ detector' = detector + 1
        /\ phase' \in {"detect", "materialize"}
    BY <1>10 DEF RunDetector
  <2> QED
    BY <2>1, DepthsStay
<1>11. CASE DetectorFails
  <2>1. UNCHANGED <<pages, edges, detector>> /\ phase = "detect" /\ phase' = "materialize"
    BY <1>11 DEF DetectorFails
  <2> QED
    BY <2>1, DepthsStay
<1>12. CASE MaterializeAndCount \/ Finalize
  <2>1. UNCHANGED <<pages, edges, detector>> /\ phase' \in {"finalize", "done"}
    BY <1>12 DEF MaterializeAndCount, Finalize
  <2> QED
    BY <2>1, DepthsStay
<1>13. CASE UNCHANGED vars
  BY <1>13, DepthsStay DEF vars
<1> QED
  BY <1>1, <1>3, <1>4, <1>5, <1>6, <1>7, <1>8, <1>9, <1>10, <1>11, <1>12, <1>13
     DEF Next, Crawl, Report

\* From detection on, the depth of a page the seeds reach is its distance from them.
THEOREM DepthsKept == Spec => []DepthsShortest
<1>1. DepthInv => DepthsShortest
  BY DEF DepthInv
<1> QED
  BY PagesInit, PagesStep, DepthInit, DepthStep, <1>1, PTL DEF Spec

-----------------------------------------------------------------------------
(* robots.txt.                                                              *)

\* f lists what is known of a file after 0 to n of its lines.
IsReading(f, lines, n) ==
    f = [k \in 0..n |-> IF k = 0 THEN EmptyRobots ELSE ParseLine(f[k - 1], lines[k])]

\* There is such a list.
LEMMA ReadingExists ==
    ASSUME NEW lines, NEW n \in Nat
    PROVE  \E f : IsReading(f, lines, n)
<1> DEFINE Bad == {m \in 0..n : ~\E f : IsReading(f, lines, m)}
<1>0. n \in 0..n /\ Bad \in SUBSET Nat
  OBVIOUS
<1> SUFFICES ASSUME Bad # {} PROVE FALSE
  BY <1>0
<1> HIDE DEF Bad
<1>1. PICK m \in Bad : \A k \in Bad : m <= k
  BY <1>0, LeastNat
<1> USE DEF Bad, IsReading
<1>2. m \in 0..n /\ ~\E f : IsReading(f, lines, m)
  BY <1>1
<1>3. CASE m = 0
  <2> DEFINE f == [k \in 0..0 |-> EmptyRobots]
  <2>1. f = [k \in 0..m |-> IF k = 0 THEN EmptyRobots ELSE ParseLine(f[k - 1], lines[k])]
    BY <1>3
  <2> QED
    BY <1>2, <2>1
<1>4. CASE m # 0
  <2>1. m - 1 \in 0..n /\ m - 1 \notin Bad
    BY <1>1, <1>2, <1>4
  <2>2. PICK f : IsReading(f, lines, m - 1)
    BY <2>1
  <2> DEFINE g == [k \in 0..m |-> IF k = m THEN ParseLine(f[m - 1], lines[m]) ELSE f[k]]
  <2>3. ASSUME NEW k \in 0..m
        PROVE  g[k] = IF k = 0 THEN EmptyRobots ELSE ParseLine(g[k - 1], lines[k])
    <3>1. CASE k = 0
      BY <1>2, <1>4, <2>2, <3>1
    <3>2. CASE k = m
      <4>1. k - 1 \in 0..m /\ k - 1 # m
        BY <1>2, <1>4, <3>2
      <4> QED
        BY <1>4, <3>2, <4>1
    <3>3. CASE k # 0 /\ k # m
      <4>1. k \in 0..m - 1 /\ k - 1 \in 0..m /\ k - 1 # m
        BY <1>2, <3>3
      <4>2. f[k] = ParseLine(f[k - 1], lines[k])
        BY <2>2, <3>3, <4>1
      <4> QED
        BY <3>3, <4>1, <4>2
    <3> QED
      BY <3>1, <3>2, <3>3
  <2>4. IsReading(g, lines, m)
    BY <2>3
  <2> QED
    BY <1>2, <2>4
<1> QED
  BY <1>3, <1>4

\* A parsed file: every agent has a group, every group is a set of given rules.
IsFile(file, known) ==
    /\ DOMAIN file = {"agents", "groups", "open", "hadRule", "sitemaps"}
    /\ file.groups \in Seq(SUBSET known)
    /\ \A a \in DOMAIN file.agents : file.agents[a] \in 1..Len(file.groups)
    /\ file.open => Len(file.groups) > 0

RuleOf(line) ==
    [allow |-> line.field = "allow", path |-> line.path, anchored |-> line.anchored]

\* A line adds its rule to the group that is open, or opens one.
LEMMA LineParsed ==
    ASSUME NEW file, NEW line, NEW known, IsFile(file, known),
           line.field \in {"allow", "disallow"} => RuleOf(line) \in known
    PROVE  IsFile(ParseLine(file, line), known)
<1> USE DEF IsFile
<1>1. CASE line.field = "user-agent"
  <2> DEFINE groups == IF ~file.open \/ file.hadRule THEN Append(file.groups, {})
                       ELSE file.groups
             agents == Inserted(OneRow(line.value, Len(groups)), file.agents)
             next == ParseLine(file, line)
  <2>1. next = [file EXCEPT !.groups = groups, !.open = TRUE, !.hadRule = FALSE,
                            !.agents = agents]
    BY <1>1 DEF ParseLine
  <2>2. groups \in Seq(SUBSET known) /\ Len(groups) > 0 /\ Len(groups) >= Len(file.groups)
        /\ Len(groups) \in Nat /\ Len(file.groups) \in Nat
    OBVIOUS
  <2>3. \A a \in DOMAIN agents : agents[a] \in 1..Len(groups)
    BY <2>2 DEF Inserted, OneRow
  <2> HIDE DEF groups, agents, next
  <2>4. next.groups = groups /\ next.agents = agents /\ DOMAIN next = DOMAIN file
    BY <2>1
  <2> QED
    BY <2>2, <2>3, <2>4 DEF next
<1>2. CASE line.field = "sitemap"
  BY <1>2 DEF ParseLine
<1>3. CASE line.field \in {"allow", "disallow", "crawl-delay"} /\ ~file.open
  BY <1>3 DEF ParseLine
<1>4. CASE line.field \in {"allow", "disallow", "crawl-delay"} /\ file.open
  <2> DEFINE last == Len(file.groups)
             group == IF \/ line.field = "crawl-delay"
                         \/ line.field = "disallow" /\ line.path = << >>
                        THEN file.groups[last] ELSE file.groups[last] \cup {RuleOf(line)}
             groups == [file.groups EXCEPT ![last] = group]
             next == ParseLine(file, line)
  <2>1. next = [file EXCEPT !.hadRule = TRUE, !.groups = groups]
    BY <1>4 DEF ParseLine, RuleOf
  <2>2. last \in 1..Len(file.groups) /\ file.groups[last] \in SUBSET known
    BY <1>4
  <2>3. group \in SUBSET known
    BY <1>4, <2>2
  <2> HIDE DEF group
  <2>4. groups \in Seq(SUBSET known) /\ Len(groups) = Len(file.groups)
    BY <2>2, <2>3
  <2> HIDE DEF groups, next
  <2>5. next.groups = groups /\ next.agents = file.agents /\ next.open = file.open
        /\ DOMAIN next = DOMAIN file
    BY <2>1
  <2> QED
    BY <2>4, <2>5 DEF next
<1>5. CASE line.field \notin {"user-agent", "sitemap", "allow", "disallow", "crawl-delay"}
  BY <1>5 DEF ParseLine
<1> QED
  BY <1>1, <1>2, <1>3, <1>4, <1>5

HasLength(path) == Len(path) \in Nat /\ (path # << >> => Len(path) > 0)

RulesOf(lines) ==
    {RuleOf(lines[n]) : n \in {m \in 1..Len(lines) : lines[m].field \in {"allow", "disallow"}}}

\* The groups of a parsed file hold rules of its lines, which are finitely many.
LEMMA RobotsParsed ==
    ASSUME NEW lines, Len(lines) \in Nat
    PROVE  IsFile(ParseRobots(lines), RulesOf(lines)) /\ IsFiniteSet(RulesOf(lines))
<1> DEFINE N == Len(lines)
           known == RulesOf(lines)
<1>1. PICK f : IsReading(f, lines, N)
  BY ReadingExists
<1> DEFINE file[k \in 0..N] ==
             IF k = 0 THEN EmptyRobots ELSE ParseLine(file[k - 1], lines[k])
<1>2. IsReading(file, lines, N)
  BY <1>1 DEF IsReading
<1>3. ParseRobots(lines) = file[N]
  BY DEF ParseRobots
<1> HIDE DEF file
<1>4. \A k \in 0..N : file[k] = IF k = 0 THEN EmptyRobots ELSE ParseLine(file[k - 1], lines[k])
  BY <1>2 DEF IsReading
<1> HIDE DEF N, known
<1>5. N \in Nat
  BY DEF N
<1> DEFINE Bad == {k \in 0..N : ~IsFile(file[k], known)}
<1>6. Bad = {}
  <2>1. Bad \in SUBSET Nat
    OBVIOUS
  <2> SUFFICES ASSUME Bad # {} PROVE FALSE
    OBVIOUS
  <2> HIDE DEF Bad
  <2>2. PICK m \in Bad : \A k \in Bad : m <= k
    BY <2>1, LeastNat
  <2>3. m \in 0..N /\ ~IsFile(file[m], known)
    BY DEF Bad
  <2>4. m # 0
    <3>1. file[0] = EmptyRobots
      BY <1>4, <1>5
    <3>2. IsFile(EmptyRobots, known)
      BY DEF IsFile, EmptyRobots
    <3> QED
      BY <2>3, <3>1, <3>2
  <2>5. m - 1 \in 0..N /\ m - 1 \notin Bad /\ m \in 1..N
    BY <1>5, <2>2, <2>3, <2>4
  <2>6. IsFile(file[m - 1], known)
    BY <2>5 DEF Bad
  <2>7. lines[m].field \in {"allow", "disallow"} => RuleOf(lines[m]) \in known
    BY <2>5 DEF known, RulesOf, N
  <2>8. file[m] = ParseLine(file[m - 1], lines[m])
    BY <1>4, <2>3, <2>4
  <2> QED
    BY <2>3, <2>6, <2>7, <2>8, LineParsed
<1>7. IsFile(file[N], known)
  BY <1>5, <1>6
<1>8. IsFiniteSet(known)
  <2> DEFINE D == {m \in 1..N : lines[m].field \in {"allow", "disallow"}}
             rule == [n \in D |-> RuleOf(lines[n])]
  <2>1. IsFiniteSet(D)
    <3>1. IsFiniteSet(1..N)
      BY <1>5, FS_Interval
    <3> QED
      BY <3>1, FS_Subset
  <2>2. rule \in Surjection(D, known)
    BY DEF Surjection, known, RulesOf, N
  <2> HIDE DEF D, rule
  <2> QED
    BY <2>1, <2>2, FS_Surjection
<1> QED
  BY <1>3, <1>7, <1>8 DEF known

\* A finite set whose members measure naturals has a member of the greatest measure.
LEMMA Greatest ==
    ASSUME NEW S, IsFiniteSet(S), S # {}, NEW f, \A x \in S : f[x] \in Nat
    PROVE  \E x \in S : \A y \in S : f[y] <= f[x]
<1> DEFINE Above(x) == {y \in S : f[y] > f[x]}
           sizes == {Cardinality(Above(x)) : x \in S}
<1>1. \A x \in S : IsFiniteSet(Above(x)) /\ Cardinality(Above(x)) \in Nat
  BY FS_Subset, FS_CardinalityType
<1>2. sizes \in SUBSET Nat /\ sizes # {}
  BY <1>1
<1> HIDE DEF sizes
<1>3. PICK n \in sizes : \A k \in sizes : n <= k
  BY <1>2, LeastNat
<1>4. PICK x \in S : n = Cardinality(Above(x))
  BY <1>3 DEF sizes
<1>5. ASSUME NEW y \in S, ~(f[y] <= f[x]) PROVE FALSE
  <2>1. Above(y) \subseteq Above(x) /\ y \in Above(x) /\ y \notin Above(y)
    BY <1>5
  <2>2. Cardinality(Above(y)) <= n /\ (Cardinality(Above(y)) = n => Above(y) = Above(x))
    BY <1>1, <1>4, <2>1, FS_Subset
  <2>3. n <= Cardinality(Above(y))
    BY <1>3 DEF sizes
  <2>4. n \in Nat /\ Cardinality(Above(y)) \in Nat
    BY <1>1, <1>2
  <2> HIDE DEF Above
  <2> QED
    BY <2>1, <2>2, <2>3, <2>4
<1> QED
  BY <1>5

\* What a URL's robots.txt says of it is decided by a rule of the greatest length.
LEMMA RulesObeyed ==
    ASSUME NEW file, NEW known, IsFile(file, known), IsFiniteSet(known),
           \A r \in known : HasLength(r.path),
           NEW path, IsAllowed(file, path)
    PROVE  LET matching == {r \in FindGroup(file) : Matches(r, path)}
           IN  \A r \in matching :
                 r.allow \/ \E a \in matching : a.allow /\ PatternLength(a) >= PatternLength(r)
<1> DEFINE matching == {r \in FindGroup(file) : Matches(r, path)}
           length == [r \in matching |-> PatternLength(r)]
<1>1. FindGroup(file) \in SUBSET known
  <2> DEFINE agents == Append(AgentTokens, "*")
             named == {n \in 1..Len(agents) : agents[n] \in DOMAIN file.agents}
  <2>1. CASE named = {}
    BY <2>1 DEF FindGroup
  <2>2. CASE named # {}
    <3>1. named \in SUBSET Nat
      OBVIOUS
    <3> HIDE DEF named
    <3>2. Min(named) \in named
      BY <2>2, <3>1, LeastNat
    <3>3. agents[Min(named)] \in DOMAIN file.agents
      BY <3>2 DEF named
    <3>4. FindGroup(file) = file.groups[file.agents[agents[Min(named)]]]
      BY <2>2 DEF FindGroup, named
    <3> HIDE DEF agents
    <3> QED
      BY <3>3, <3>4 DEF IsFile
  <2> QED
    BY <2>1, <2>2
<1>2. matching \in SUBSET known /\ IsFiniteSet(matching)
  BY <1>1, FS_Subset
<1> HIDE DEF matching
<1>3. \A r \in matching : length[r] = PatternLength(r) /\ length[r] \in Nat
  <2> SUFFICES ASSUME NEW r \in matching PROVE PatternLength(r) \in Nat
    OBVIOUS
  <2>1. HasLength(r.path)
    BY <1>2
  <2>2. CASE r.path = << >>
    BY <2>1, <2>2 DEF PatternLength, HasLength
  <2>3. CASE r.path # << >>
    <3>1. Len(r.path) \in Nat /\ Len(r.path) > 0
      BY <2>1, <2>3 DEF HasLength
    <3>2. \/ PatternLength(r) = 2 * Len(r.path) - 1
          \/ PatternLength(r) = 2 * Len(r.path) - 0
      BY Zenon DEF PatternLength
    <3> QED
      BY <3>1, <3>2
  <2> QED
    BY <2>2, <2>3
<1> HIDE DEF length
<1> SUFFICES ASSUME NEW r \in matching
             PROVE  r.allow \/ \E a \in matching : a.allow /\ PatternLength(a) >= PatternLength(r)
  BY DEF matching
<1>4. PICK x \in matching : \A y \in matching : length[y] <= length[x]
  BY <1>2, <1>3, Greatest
<1>5. \A y \in matching : PatternLength(y) <= PatternLength(x)
  BY <1>3, <1>4
<1>6. PICK a \in matching : a.allow /\ \A s \in matching : PatternLength(s) <= PatternLength(a)
  BY <1>5 DEF IsAllowed, matching
<1> QED
  BY <1>3, <1>6

\* The web and the settings stay what they were when the job started.
WebInv == \E start \in Starts : web = start.web /\ settings = start.settings

\* The job starts with one of the given webs.
LEMMA WebInit == Init => WebInv
  BY DEF Init, InitWith, WebInv

\* No step changes the web or the settings.
LEMMA WebStep ==
    ASSUME WebInv, [Next]_vars
    PROVE  WebInv'
<1> USE DEF tables, onboarding, progress, report, counters, RowsBeside
<1>1. UNCHANGED <<web, settings>>
  <2>1. CASE SitemapEntry
    BY <2>1 DEF SitemapEntry, AdmitEntry, OnboardEntryHost, EnqueueEntry, OnboardReturns
  <2>2. CASE OnboardSeedHost \/ StartCrawl \/ Dispatch \/ DropOutOfScope \/ OnboardVisited
             \/ SkipVisit \/ FetchFails \/ FetchAndAnalyze \/ PipelineEnds \/ PipelineFails
    BY <2>2 DEF OnboardSeedHost, StartCrawl, Dispatch, DropOutOfScope, OnboardVisited, SkipVisit,
                FetchFails, FetchAndAnalyze, PipelineEnds, PipelineFails
  <2>3. CASE Browse
    BY <2>3 DEF Browse, StartGapEscalation, RenderKeyPage, EndGapEscalation,
                QueueBrowserDiscovered, StartEnrich, EnrichPage, EndEnrich
  <2>4. CASE Audit
    BY <2>4 DEF Audit, HeadCheckAssets, StartHTTPAudit, AuditHTTPHost, EndHTTPAudit, RunAudits,
                CheckMarkdown, CheckText
  <2>5. CASE Report
    BY <2>5 DEF Report, RecalculateCounts, RecomputeDepths, StartDetection, RunDetector,
                DetectorFails, MaterializeAndCount, Finalize
  <2>6. CASE UNCHANGED vars
    BY <2>6 DEF vars
  <2> QED
    BY <2>1, <2>2, <2>3, <2>4, <2>5, <2>6 DEF Next, Crawl
<1> QED
  BY <1>1 DEF WebInv

\* What an origin's robots.txt comes to: the policy for a file that cannot be read, no rules, or the
\* parsed lines of the file that is there.
LEMMA RobotsOutcomes ==
    ASSUME NEW k
    PROVE  \/ DiscoverRobots(k) = RobotsUnreachable
           \/ DiscoverRobots(k) = {}
           \/ /\ k \in DOMAIN web.robots
              /\ DiscoverRobots(k) = {ParseRobots(web.robots[k].lines)}
<1> DEFINE served == IF k \in DOMAIN web.robots THEN web.robots[k]
                     ELSE [codes |-> <<0, 0>>, lines |-> << >>]
           code == IF served.codes[1] >= 500 THEN served.codes[2] ELSE served.codes[1]
<1>1. DiscoverRobots(k) = CASE code = 0 \/ code >= 500 -> RobotsUnreachable
                            [] code \in 400..499 -> {}
                            [] OTHER -> {ParseRobots(served.lines)}
  BY DEF DiscoverRobots
<1>2. k \in DOMAIN web.robots => served = web.robots[k]
  OBVIOUS
<1>3. k \notin DOMAIN web.robots => code = 0
  OBVIOUS
<1> HIDE DEF served, code
<1>4. CASE code = 0 \/ code >= 500
  BY <1>1, <1>4
<1>5. CASE ~(code = 0 \/ code >= 500)
  BY <1>1, <1>2, <1>3, <1>5
<1> QED
  BY <1>4, <1>5

\* What robots.txt asks of an origin's rules, whichever file was found.
LEMMA FilesFound ==
    ASSUME WebInv, NEW k, NEW file \in DiscoverRobots(k)
    PROVE  \E known : /\ IsFile(file, known) /\ IsFiniteSet(known)
                      /\ \A r \in known : HasLength(r.path)
<1>1. CASE file = DisallowAll
  <2> DEFINE rule == [allow |-> FALSE, path |-> <<"">>, anchored |-> FALSE]
  <2>1. IsFile(file, {rule})
    <3>1. file.groups = <<{rule}>> /\ file.agents = OneRow("*", 1) /\ file.open = FALSE
          /\ DOMAIN file = {"agents", "groups", "open", "hadRule", "sitemaps"}
      BY <1>1 DEF DisallowAll, EmptyRobots
    <3> HIDE DEF rule
    <3> QED
      BY <3>1 DEF IsFile, OneRow
  <2>2. IsFiniteSet({rule})
    BY FS_Singleton
  <2>3. HasLength(rule.path)
    BY DEF HasLength
  <2> DEFINE known == {rule}
  <2>4. IsFile(file, known) /\ IsFiniteSet(known) /\ \A r \in known : HasLength(r.path)
    BY <2>1, <2>2, <2>3
  <2> HIDE DEF known
  <2> QED
    BY <2>4
<1>2. CASE file # DisallowAll
  <2> DEFINE served == web.robots[k]
  <2>1. file = ParseRobots(served.lines) /\ k \in DOMAIN web.robots
    BY <1>2, RobotsOutcomes DEF RobotsUnreachable
  <2>2. IsRobotsFile(served.lines)
    BY <2>1, StartsAssumption DEF WebInv
  <2> HIDE DEF served
  <2> DEFINE lines == served.lines
  <2>3. Len(lines) \in Nat /\ \A n \in 1..Len(lines) : lines[n] \in Range(lines)
    BY <2>2 DEF IsRobotsFile
  <2>4. \A r \in RulesOf(lines) : HasLength(r.path)
    <3>1. \A path \in Seq(STRING) : HasLength(path)
      BY DEF HasLength
    <3> QED
      BY <2>2, <2>3, <3>1 DEF RulesOf, RuleOf, IsRobotsFile
  <2> QED
    BY <2>1, <2>3, <2>4, RobotsParsed
<1> QED
  BY <1>1, <1>2

\* The file of the URL's own origin, or that of another origin of its host whose rules may have
\* replaced it, allows the URL.
Honored(u) ==
    \E k \in onboarded :
        /\ k.host = u.host
        /\ k = KeyOf(u) \/ DiscoverRobots(k) # {}
        /\ \A file \in DiscoverRobots(k) : IsAllowed(file, u.path)

\* The rules of a host are those of an onboarded origin of it, and it has some as soon as one of
\* its onboarded origins has; a page was only fetched from an onboarded origin, and if the rules
\* of an origin of its host allowed it.
RobotsInv ==
    /\ \A h \in DOMAIN rules : \E k \in onboarded : k.host = h /\ rules[h] \in DiscoverRobots(k)
    /\ \A k \in onboarded : DiscoverRobots(k) # {} => k.host \in DOMAIN rules
    /\ \A f \in fetches : f.kind = "full" => KeyOf(f.url) \in onboarded /\ Honored(f.url)

\* No host is marked and nothing fetched at the start.
LEMMA RobotsInit == Init => RobotsInv
  BY DEF Init, InitWith, RobotsInv

\* An origin's robots.txt is one file at most, and the same whenever it is asked for.
LEMMA OneFile ==
    ASSUME UNCHANGED web
    PROVE  \A k : /\ DiscoverRobots(k)' = DiscoverRobots(k)
                  /\ \A f, g \in DiscoverRobots(k) : f = g
<1>1. \A k : DiscoverRobots(k)' = DiscoverRobots(k)
  BY DEF DiscoverRobots, RobotsUnreachable
<1>2. ASSUME NEW k PROVE \A f, g \in DiscoverRobots(k) : f = g
  BY RobotsOutcomes DEF RobotsUnreachable
<1>3. \A k : \A f, g \in DiscoverRobots(k) : f = g
  BY <1>2
<1> QED
  BY <1>1, <1>3

\* A URL of an onboarded origin that the rules of its host allow.
LEMMA AllowedIsHonored ==
    ASSUME RobotsInv, UNCHANGED web, NEW u, KeyOf(u) \in onboarded, Allowed(u)
    PROVE  Honored(u)
<1>1. KeyOf(u).host = u.host
  BY DEF KeyOf
<1>2. CASE u.host \in DOMAIN rules
  <2>1. PICK k \in onboarded : k.host = u.host /\ rules[u.host] \in DiscoverRobots(k)
    BY <1>2 DEF RobotsInv
  <2>2. \A file \in DiscoverRobots(k) : file = rules[u.host]
    BY <2>1, OneFile
  <2>3. IsAllowed(rules[u.host], u.path)
    BY <1>2 DEF Allowed
  <2>4. \A file \in DiscoverRobots(k) : IsAllowed(file, u.path)
    BY <2>2, <2>3
  <2> QED
    BY <2>1, <2>4 DEF Honored
<1>3. CASE u.host \notin DOMAIN rules
  <2>1. DiscoverRobots(KeyOf(u)) = {}
    BY <1>1, <1>3 DEF RobotsInv
  <2> QED
    BY <1>1, <2>1 DEF Honored
<1> QED
  BY <1>2, <1>3

\* What was honored stays so while origins are only added.
LEMMA HonoredStays ==
    ASSUME UNCHANGED web, onboarded \subseteq onboarded', NEW u, Honored(u)
    PROVE  Honored(u)'
<1>1. \A k : DiscoverRobots(k)' = DiscoverRobots(k)
  BY OneFile
<1>2. PICK k \in onboarded : /\ k.host = u.host
                             /\ k = KeyOf(u) \/ DiscoverRobots(k) # {}
                             /\ \A file \in DiscoverRobots(k) : IsAllowed(file, u.path)
  BY DEF Honored
<1> QED
  BY <1>1, <1>2 DEF Honored

\* As long as no fetch is added and no host marked, nothing changes.
LEMMA RobotsStay ==
    ASSUME RobotsInv, UNCHANGED <<onboarded, rules, web, fetches>>
    PROVE  RobotsInv'
<1>1. \A k : DiscoverRobots(k)' = DiscoverRobots(k)
  BY OneFile
<1>2. ASSUME NEW f \in fetches, f.kind = "full" PROVE Honored(f.url)'
  BY <1>2, HonoredStays DEF RobotsInv
<1> QED
  BY <1>1, <1>2 DEF RobotsInv

\* Marking an origin puts its rules in the place of those of its host, if it has any, and leaves
\* those of the other hosts.
LEMMA HostMarked ==
    ASSUME RobotsInv, NEW key, NEW depth, CallOnboard(key, depth), UNCHANGED <<fetches, web>>
    PROVE  RobotsInv'
<1> DEFINE found == DiscoverRobots(key)
<1>1. onboarded' = onboarded \cup {key}
  BY DEF CallOnboard
<1>2. \A k : DiscoverRobots(k)' = DiscoverRobots(k)
  BY OneFile
<1>3. rules' = IF found = {} THEN rules
               ELSE Inserted(OneRow(key.host, CHOOSE f \in found : TRUE), rules)
  BY DEF CallOnboard
<1> HIDE DEF found
<1>4. /\ \A h : h \in DOMAIN rules' <=> (h \in DOMAIN rules \/ (found # {} /\ h = key.host))
      /\ \A h \in DOMAIN rules' : \/ h \in DOMAIN rules /\ rules'[h] = rules[h]
                                  \/ h = key.host /\ rules'[h] \in found
  <2>1. CASE found = {}
    BY <1>3, <2>1
  <2>2. CASE found # {}
    BY <1>3, <2>2 DEF Inserted, OneRow
  <2> QED
    BY <2>1, <2>2
<1>5. \A h \in DOMAIN rules' : \E k \in onboarded' : k.host = h /\ rules'[h] \in DiscoverRobots(k)
  BY <1>1, <1>4 DEF RobotsInv, found
<1>6. \A k \in onboarded' : DiscoverRobots(k) # {} => k.host \in DOMAIN rules'
  BY <1>1, <1>4 DEF RobotsInv, found
<1>7. ASSUME NEW f \in fetches, f.kind = "full"
      PROVE  KeyOf(f.url) \in onboarded' /\ Honored(f.url)'
  <2>1. KeyOf(f.url) \in onboarded /\ Honored(f.url)
    BY <1>7 DEF RobotsInv
  <2>2. onboarded \subseteq onboarded'
    BY <1>1
  <2> QED
    BY <2>1, <2>2, HonoredStays
<1> QED
  BY <1>2, <1>5, <1>6, <1>7 DEF RobotsInv

\* A fetch of a URL that may be visited, or one of another kind, keeps the claim.
LEMMA FetchStored ==
    ASSUME RobotsInv, UNCHANGED <<onboarded, rules, web>>,
           NEW f, f.kind = "full" => KeyOf(f.url) \in onboarded /\ Allowed(f.url),
           fetches' = fetches \/ fetches' = fetches \cup {f}
    PROVE  RobotsInv'
<1>1. \A k : DiscoverRobots(k)' = DiscoverRobots(k)
  BY OneFile
<1>2. ASSUME NEW g \in fetches', g.kind = "full"
      PROVE  KeyOf(g.url) \in onboarded /\ Honored(g.url)
  <2>1. CASE g \in fetches
    BY <1>2, <2>1 DEF RobotsInv
  <2>2. CASE g = f
    BY <1>2, <2>2, AllowedIsHonored
  <2> QED
    BY <2>1, <2>2
<1>3. \A g \in fetches' : g.kind = "full" => KeyOf(g.url) \in onboarded' /\ Honored(g.url)'
  BY <1>2, HonoredStays
<1> QED
  BY <1>1, <1>3 DEF RobotsInv

\* Only a visit that asked the rules, and the http audit, store a fetch.
LEMMA RobotsStep ==
    ASSUME RobotsInv, [Next]_vars
    PROVE  RobotsInv'
<1> USE DEF tables, onboarding, progress, report, counters, RowsBeside
<1>1. CASE UNCHANGED <<onboarded, rules, web, fetches>>
  BY <1>1, RobotsStay
<1>2. CASE OnboardSeedHost
  BY <1>1, <1>2, HostMarked DEF OnboardSeedHost
<1>3. CASE OnboardVisited
  BY <1>3, HostMarked DEF OnboardVisited
<1>4. CASE OnboardEntryHost /\ UNCHANGED <<progress, counters, report>>
  BY <1>4, HostMarked DEF OnboardEntryHost
<1>5. CASE (AdmitEntry \/ EnqueueEntry \/ OnboardReturns) /\ UNCHANGED <<progress, counters, report>>
  BY <1>1, <1>5 DEF AdmitEntry, EnqueueEntry, OnboardReturns
<1>6. CASE StartCrawl \/ Dispatch \/ DropOutOfScope \/ SkipVisit \/ PipelineEnds \/ PipelineFails
  BY <1>1, <1>6 DEF StartCrawl, Dispatch, DropOutOfScope, SkipVisit, PipelineEnds, PipelineFails
<1>7. CASE FetchFails
  <2>1. PICK i \in visiting :
          /\ MayFetch(i)
          /\ fetches' = IF i.url \in web.guarded THEN fetches
                        ELSE fetches \cup {[seq |-> fetchSeq + 1, url |-> i.url, final |-> i.url,
                                            code |-> 0, kind |-> "full"]}
    BY <1>7 DEF FetchFails
  <2>2. UNCHANGED <<onboarded, rules, web>>
    BY <1>7 DEF FetchFails
  <2> QED
    BY <2>1, <2>2, FetchStored DEF MayFetch
<1>8. CASE FetchAndAnalyze
  <2>1. \E i \in visiting : \E r \in web.answers[i.url] :
          /\ MayFetch(i)
          /\ fetches' = fetches \cup
                          {[seq |-> fetchSeq + 1, url |-> i.url, final |-> FiledUnder(i.url, r),
                            code |-> r.code, kind |-> "full"]}
    BY <1>8 DEF FetchAndAnalyze, Persist
  <2>2. UNCHANGED <<onboarded, rules, web>>
    BY <1>8 DEF FetchAndAnalyze
  <2> QED
    BY <2>1, <2>2, FetchStored DEF MayFetch
<1>9. CASE AuditHTTPHost
  <2>1. \E u, final, code :
          fetches' = fetches \cup
                       {[seq |-> fetchSeq + 1, url |-> u, final |-> final,
                         code |-> code, kind |-> "http_https_audit"]}
    BY <1>9 DEF AuditHTTPHost
  <2>2. UNCHANGED <<onboarded, rules, web>>
    BY <1>9 DEF AuditHTTPHost
  <2> QED
    BY <2>1, <2>2, FetchStored
<1>10. CASE Browse
  BY <1>1, <1>10 DEF Browse, StartGapEscalation, RenderKeyPage, EndGapEscalation,
                     QueueBrowserDiscovered, StartEnrich, EnrichPage, EndEnrich
<1>11. CASE HeadCheckAssets \/ StartHTTPAudit \/ EndHTTPAudit \/ RunAudits \/ CheckMarkdown
            \/ CheckText
  BY <1>1, <1>11 DEF HeadCheckAssets, StartHTTPAudit, EndHTTPAudit, RunAudits, CheckMarkdown,
                     CheckText
<1>12. CASE Report
  BY <1>1, <1>12 DEF Report, RecalculateCounts, RecomputeDepths, StartDetection, RunDetector,
                     DetectorFails, MaterializeAndCount, Finalize
<1>13. CASE UNCHANGED vars
  BY <1>1, <1>13 DEF vars
<1> QED
  BY <1>2, <1>3, <1>4, <1>5, <1>6, <1>7, <1>8, <1>9, <1>10, <1>11, <1>12, <1>13
     DEF Next, Crawl, Audit, SitemapEntry

\* A page is fetched only from an onboarded origin, and if the robots.txt of that origin or of
\* another one of its host permits it: for every file, however hosts are met.
THEOREM RobotsObeyed == Spec => []RobotsKept
<1>1. ASSUME WebInv, RobotsInv PROVE RobotsKept
  <2>1. ASSUME NEW k, NEW file \in DiscoverRobots(k), NEW path, IsAllowed(file, path)
        PROVE  Permits(file, path)
    <3>1. PICK known : /\ IsFile(file, known) /\ IsFiniteSet(known)
                       /\ \A r \in known : HasLength(r.path)
      BY <1>1, FilesFound
    <3> QED
      BY <2>1, <3>1, RulesObeyed DEF Permits
  <2> SUFFICES ASSUME NEW f \in fetches, f.kind = "full"
               PROVE  /\ KeyOf(f.url) \in onboarded
                      /\ \E k \in {o \in onboarded : o.host = f.url.host} :
                           /\ k = KeyOf(f.url) \/ DiscoverRobots(k) # {}
                           /\ \A file \in DiscoverRobots(k) : Permits(file, f.url.path)
    BY DEF RobotsKept
  <2>2. KeyOf(f.url) \in onboarded /\ Honored(f.url)
    BY <1>1 DEF RobotsInv
  <2>3. PICK k \in onboarded : /\ k.host = f.url.host
                               /\ k = KeyOf(f.url) \/ DiscoverRobots(k) # {}
                               /\ \A file \in DiscoverRobots(k) : IsAllowed(file, f.url.path)
    BY <2>2 DEF Honored
  <2>4. \A file \in DiscoverRobots(k) : Permits(file, f.url.path)
    BY <2>1, <2>3
  <2> QED
    BY <2>2, <2>3, <2>4
<1> QED
  BY WebInit, WebStep, RobotsInit, RobotsStep, <1>1, PTL DEF Spec

-----------------------------------------------------------------------------
(* Issue types.                                                             *)

\* Types that only a detector of the whole site reports, and types that a page's content decides.
SiteTypes == {"orphan_page", "duplicate_title", "duplicate_description", "duplicate_content"}

ContentTypes == {"missing_h1", "missing_h2", "thin_content"}

\* What a page of that content must lack to have the issue.
Lacks(type, h1, h2, words) ==
    /\ type = "missing_h1" => h1 = << >>
    /\ type = "missing_h2" => h2 = << >>
    /\ type = "thin_content" => words < ThinContent

\* The page-local detectors report no type of the site, and report missing content only of a
\* page that lacks it.
LEMMA PageLocalTypesKnown ==
    ASSUME NEW c, NEW type \in DetectPageLocalIssues(c)
    PROVE  type \notin SiteTypes /\ Lacks(type, c.page.h1, c.page.h2, c.page.words)
<1> USE DEF Found, SiteTypes, Lacks
<1>1. CASE type \in FetchIssues(c)
  BY <1>1 DEF FetchIssues
<1>2. CASE type \in TextIssues(c)
  <2>1. type \notin SiteTypes /\ type # "missing_h2" /\ type # "thin_content"
    BY <1>2 DEF TextIssues
  <2>2. "missing_h1" \in TextIssues(c) => c.page.h1 = << >>
    BY ZenonT(30) DEF TextIssues
  <2> QED
    BY <1>2, <2>1, <2>2
<1>3. CASE type \in SocialIssues(c)
  BY <1>3 DEF SocialIssues
<1>4. CASE type \in ContentIssues(c)
  <2>1. type \notin SiteTypes /\ type # "missing_h1" /\ type # "missing_h2"
    BY <1>4 DEF ContentIssues
  <2>2. "thin_content" \in ContentIssues(c) => Thin(c.page)
    BY SMT DEF ContentIssues
  <2> QED
    BY <1>4, <2>1, <2>2 DEF Thin
<1>5. CASE type \in HeadingIssues(c)
  <2>1. type \notin SiteTypes /\ type # "missing_h1" /\ type # "thin_content"
    BY <1>5 DEF HeadingIssues
  <2>2. "missing_h2" \in HeadingIssues(c) => c.page.h2 = << >>
    BY ZenonT(30) DEF HeadingIssues
  <2> QED
    BY <1>5, <2>1, <2>2
<1>6. CASE type \in LinkIssues(c)
  BY <1>6 DEF LinkIssues
<1>7. CASE type \in DetectURLIssues(c.url)
  BY <1>7 DEF DetectURLIssues
<1>8. CASE type \in SecurityIssues(c)
  BY <1>8 DEF SecurityIssues
<1>9. CASE type \in HreflangIssues(c)
  BY <1>9 DEF HreflangIssues
<1>10. CASE type \in HtmlIssues(c)
  BY <1>10 DEF HtmlIssues
<1> QED
  BY <1>1, <1>2, <1>3, <1>4, <1>5, <1>6, <1>7, <1>8, <1>9, <1>10 DEF DetectPageLocalIssues

\* The types of the site a detector reports.
SiteTypesOf(d) ==
    CASE d = 1 -> {"duplicate_title"}
      [] d = 2 -> {"duplicate_description"}
      [] d = 3 -> {"duplicate_content"}
      [] d = 6 -> {"orphan_page"}
      [] OTHER -> {}

\* The URLs the detectors file their rows under.
Reported == DOMAIN pages \cup DOMAIN urls \cup DOMAIN assets \cup {e.source : e \in edges}

\* A detector's rows are global, about a URL that has a row or about none, and each type of the
\* site has one detector.
LEMMA DetectedKnown ==
    ASSUME NEW d \in 1..NumDetectors, NEW i \in Detected(d)
    PROVE  /\ i.scope = "global" /\ i.on \subseteq Reported
           /\ i.type \in SiteTypes => i.type \in SiteTypesOf(d)
<1> DEFINE Known == /\ i.scope = "global" /\ i.on \subseteq Reported
                    /\ i.type \in SiteTypes => i.type \in SiteTypesOf(d)
<1> USE DEF GlobalIssue, SiteIssue, Row, Reported, SiteTypes, SiteTypesOf
<1>0. d \in Int /\ d >= 1 /\ d <= 29
  BY DEF NumDetectors
<1>1. CASE d = 1
  BY <1>1 DEF Detected, detectDuplicateField, DuplicateGroups
<1>2. CASE d = 2
  BY <1>2 DEF Detected, detectDuplicateField, DuplicateGroups
<1>3. CASE d = 3
  BY <1>3 DEF Detected, detectDuplicateField, DuplicateGroups
<1>4. CASE d = 4
  BY <1>4 DEF Detected, detectDuplicateField, DuplicateGroups
<1>5. CASE d = 5
  BY <1>5 DEF Detected, detectDuplicateField, DuplicateGroups
<1>6. CASE d = 6
  BY <1>6 DEF Detected, detectOrphanPages
<1>7. CASE d = 7
  BY <1>7 DEF Detected, detectDeepPages
<1>8. CASE d = 8
  BY <1>8 DEF Detected, detectHreflangNotReciprocal
<1>9. CASE d = 9
  BY <1>9 DEF Detected, detectBrokenHreflangTarget, Broken
<1>10. CASE d = 10
  BY <1>10 DEF Detected, detectCanonicalToNon200
<1>11. CASE d = 11
  BY <1>11 DEF Detected, detectCanonicalChain, CrossCanonical
<1>12. CASE d = 12
  BY <1>12 DEF Detected, detectCanonicalToRedirect
<1>13. CASE d = 13
  BY <1>13 DEF Detected, detectNonIndexableCanonical, CrossCanonical
<1>14. CASE d = 14
  BY <1>14 DEF Detected, detectUnlinkedCanonical, CrossCanonical
<1>15. CASE d = 15
  BY <1>15 DEF Detected, detectBrokenPaginationChain, Broken
<1>16. CASE d = 16
  BY <1>16 DEF Detected, detectPaginationCanonicalMismatch, CrossCanonical
<1>17. CASE d = 17
  BY <1>17 DEF Detected, detectSitemapNon200, BySlash
<1>18. CASE d = 18
  BY <1>18 DEF Detected, detectSitemapRedirectHostMismatch, BySlash
<1>19. CASE d = 19
  BY <1>19 DEF Detected, detectSitemapExternalHost
<1>20. CASE d = 20
  BY <1>20 DEF Detected, detectCrawledNotInSitemap
<1>21. CASE d = 21
  BY <1>21 DEF Detected, detectInSitemapNotCrawled
<1>22. CASE d = 22
  BY <1>22 DEF Detected, detectInSitemapRobotsBlocked, ByComparable
<1>23. CASE d = 23
  BY <1>23 DEF Detected, detectHTTPToHTTPSMissing
<1>24. CASE d = 24
  BY <1>24 DEF Detected, detectJSOnlyNavigation, InternalLinks
<1>25. CASE d = 25
  BY <1>25 DEF Detected, detectImageOver100KB
<1>26. CASE d = 26
  BY <1>26 DEF Detected, detectNoInternalOutlinks
<1>27. CASE d = 27
  BY <1>27 DEF Detected, detectNonIndexableInSitemap, ByComparable
<1>28. CASE d = 28
  BY <1>28 DEF Detected, detectURLInMultipleSitemaps
<1>29. CASE d = 29
  <2>1. i \in detectSitemapTooLarge
    BY <1>29 DEF Detected
  <2>2. PICK s : i = SiteIssue("sitemap_too_large", {s.source})
    BY <2>1, Zenon DEF detectSitemapTooLarge
  <2> QED
    BY <1>29, <2>2
<1> HIDE DEF Known
<1> QED
  BY <1>0, <1>1, <1>2, <1>3, <1>4, <1>5, <1>6, <1>7, <1>8, <1>9, <1>10, <1>11, <1>12, <1>13, <1>14, <1>15, <1>16, <1>17, <1>18, <1>19, <1>20, <1>21, <1>22, <1>23, <1>24, <1>25, <1>26, <1>27, <1>28, <1>29

-----------------------------------------------------------------------------
(* The expansion of the frontier.                                           *)

\* What has become of the frontier, the URL table and a page's edges after some of its links:
\* every URL that is new to the table is queued, and every edge kept leads to a known URL.
Expanded(s, i, r, fetched) ==
    /\ DOMAIN s = {"source", "depth", "crawled", "kept", "urls", "queue", "queued", "variants",
                   "flagged", "discovered", "traps"}
    /\ s.depth = i.depth + 1
    /\ s.crawled = IF Analyzable(r) THEN pagesCrawled + 1 ELSE pagesCrawled
    /\ DOMAIN fetched \subseteq DOMAIN s.urls
    /\ \A u \in DOMAIN fetched : s.urls[u] = fetched[u]
    /\ \A u \in DOMAIN s.urls \ DOMAIN fetched :
         /\ u \in s.queued
         /\ s.urls[u] = [status |-> "queued", internal |-> TRUE, via |-> "link"]
    /\ queued \subseteq s.queued /\ s.queued \subseteq queued \cup DOMAIN s.urls
    /\ queue \subseteq s.queue
    /\ \A item \in s.queue \ queue : item.depth = i.depth + 1 /\ item.url \in s.queued
    /\ \A u \in s.queued \ queued : \E item \in s.queue : item.url = u
    /\ IsFiniteSet(s.kept)
    /\ \A e \in s.kept \ (Built(i, r) \ Followed(i, r)) :
         \E link \in Followed(i, r) :
           /\ e = [link EXCEPT !.target = e.target, !.internal = IsInScope(e.target)]
           /\ e.target \in DOMAIN s.urls
    /\ \A t \in s.traps : \E u : t = SiteIssue("crawl_trap_suspected", {u})

\* One link more.
LEMMA LinkTaken ==
    ASSUME NEW i, NEW r, NEW fetched, NEW s, Expanded(s, i, r, fetched),
           NEW link \in Followed(i, r), {"target", "internal"} \subseteq DOMAIN link
    PROVE  Expanded(AdmitLink(link, s), i, r, fetched)
<1> DEFINE u == The(FrontierKey(link.target))
           seen == Observed(s.variants, u)
           trapped == Trapped(seen, u)
           next == AdmitLink(link, s)
<1>1. CASE next = s
  BY <1>1
<1>2. CASE next = [s EXCEPT !.variants = seen,
                     !.flagged = IF trapped THEN @ \cup {u.path} ELSE @,
                     !.traps = IF trapped /\ u.path \notin s.flagged
                                 THEN @ \cup {SiteIssue("crawl_trap_suspected", {u})} ELSE @]
  <2> HIDE DEF next, seen, trapped, u
  <2>1. /\ DOMAIN next = DOMAIN s /\ next.depth = s.depth /\ next.crawled = s.crawled
        /\ next.kept = s.kept /\ next.urls = s.urls /\ next.queue = s.queue
        /\ next.queued = s.queued
        /\ next.traps = s.traps \/ next.traps = s.traps \cup {SiteIssue("crawl_trap_suspected", {u})}
    BY <1>2 DEF Expanded
  <2>2. ASSUME NEW t \in next.traps
        PROVE  \E v : t = SiteIssue("crawl_trap_suspected", {v})
    <3>1. CASE t \in s.traps
      BY <3>1 DEF Expanded
    <3>2. CASE t = SiteIssue("crawl_trap_suspected", {u})
      BY <3>2
    <3> QED
      BY <2>1, <3>1, <3>2
  <2> QED
    BY <2>1, <2>2 DEF Expanded, next
<1>3. CASE next = [s EXCEPT !.variants = seen,
                     !.discovered = @ + 1,
                     !.urls = UpsertURL(@, u, "queued", TRUE, "link"),
                     !.queue = IF u \in s.queued THEN @
                               ELSE @ \cup {[url |-> u, depth |-> s.depth]},
                     !.queued = @ \cup {u},
                     !.kept = @ \cup {[link EXCEPT !.target = u, !.internal = IsInScope(u)]}]
  <2> DEFINE e == [link EXCEPT !.target = u, !.internal = IsInScope(u)]
             row == [status |-> "queued", internal |-> TRUE, via |-> "link"]
             item == [url |-> u, depth |-> s.depth]
  <2>0. e.target = u
    OBVIOUS
  <2> HIDE DEF next, seen, trapped
  <2>1. /\ DOMAIN next = DOMAIN s /\ next.depth = s.depth /\ next.crawled = s.crawled
        /\ next.traps = s.traps
        /\ next.kept = s.kept \cup {e}
        /\ next.urls = UpsertURL(s.urls, u, "queued", TRUE, "link")
        /\ next.queue = IF u \in s.queued THEN s.queue ELSE s.queue \cup {item}
        /\ next.queued = s.queued \cup {u}
    BY <1>3 DEF Expanded
  <2>2. /\ DOMAIN next.urls = DOMAIN s.urls \cup {u}
        /\ \A v \in DOMAIN s.urls : next.urls[v] = s.urls[v]
        /\ u \notin DOMAIN s.urls => next.urls[u] = row
    BY <2>1 DEF UpsertURL, Inserted, OneRow
  <2>3. IsFiniteSet(next.kept)
    <3> HIDE DEF e
    <3>1. IsFiniteSet(s.kept)
      BY DEF Expanded
    <3> QED
      BY <2>1, <3>1, FS_AddElement
  <2>4. item.url = u /\ item.depth = s.depth
    OBVIOUS
  <2>5. e = [link EXCEPT !.target = e.target, !.internal = IsInScope(e.target)]
    BY <2>0
  <2> HIDE DEF e, row, item, u
  <2>6. /\ DOMAIN fetched \subseteq DOMAIN next.urls
        /\ \A v \in DOMAIN fetched : next.urls[v] = fetched[v]
    BY <2>2 DEF Expanded
  <2>7. ASSUME NEW v \in DOMAIN next.urls \ DOMAIN fetched
        PROVE  v \in next.queued /\ next.urls[v] = row
    BY <2>1, <2>2 DEF Expanded, row
  <2>8. queued \subseteq next.queued /\ next.queued \subseteq queued \cup DOMAIN next.urls
    BY <2>1, <2>2 DEF Expanded
  <2>9. /\ queue \subseteq next.queue
        /\ \A x \in next.queue \ queue : x.depth = i.depth + 1 /\ x.url \in next.queued
        /\ \A v \in next.queued \ queued : \E x \in next.queue : x.url = v
    <3>1. /\ queue \subseteq s.queue
          /\ \A x \in s.queue \ queue : x.depth = i.depth + 1 /\ x.url \in s.queued
          /\ \A v \in s.queued \ queued : \E x \in s.queue : x.url = v
          /\ s.depth = i.depth + 1
      BY DEF Expanded
    <3>2. CASE u \in s.queued
      BY <2>1, <3>1, <3>2
    <3>3. CASE u \notin s.queued
      BY <2>1, <2>4, <3>1, <3>3
    <3> QED
      BY <3>2, <3>3
  <2>10. ASSUME NEW x \in next.kept \ (Built(i, r) \ Followed(i, r))
         PROVE  \E l \in Followed(i, r) :
                  /\ x = [l EXCEPT !.target = x.target, !.internal = IsInScope(x.target)]
                  /\ x.target \in DOMAIN next.urls
    <3>1. CASE x \in s.kept
      <4>1. PICK l \in Followed(i, r) :
              /\ x = [l EXCEPT !.target = x.target, !.internal = IsInScope(x.target)]
              /\ x.target \in DOMAIN s.urls
        BY <3>1 DEF Expanded
      <4> QED
        BY <4>1, <2>2
    <3>2. CASE x = e
      BY <3>2, <2>0, <2>2, <2>5
    <3> QED
      BY <2>1, <3>1, <3>2
  <2> QED
    BY <2>1, <2>3, <2>6, <2>7, <2>8, <2>9, <2>10 DEF Expanded, next, row
<1> QED
  BY <1>1, <1>2, <1>3 DEF AdmitLink

\* A finite set has a listing: SetToSeq yields each of its elements.
LEMMA Listed ==
    ASSUME NEW S, IsFiniteSet(S)
    PROVE  Cardinality(S) \in Nat /\ SetToSeq(S) \in [1..Cardinality(S) -> S]
<1>1. Cardinality(S) \in Nat /\ ExistsBijection(1..Cardinality(S), S)
  BY FS_CardinalityType
<1>2. PICK f \in [1..Cardinality(S) -> S] : IsInjective(f)
  BY <1>1 DEF ExistsBijection, Bijection, Injection
<1> QED
  BY <1>1, <1>2 DEF SetToSeq

\* f lists what becomes of the frontier s with one link after the other.
IsExpansion(f, s, links, N) ==
    f = [k \in 0..N |-> IF k = 0 THEN s ELSE AdmitLink(links[k], f[k - 1])]

\* There is such a list: the recursion that Parse is defined by has a solution.
LEMMA ExpansionExists ==
    ASSUME NEW s, NEW links, NEW N \in Nat
    PROVE  \E f : IsExpansion(f, s, links, N)
<1> DEFINE Solves(f, m) == IsExpansion(f, s, links, m)
           Bad == {m \in 0..N : ~\E f : Solves(f, m)}
<1>0. N \in 0..N /\ Bad \in SUBSET Nat
  OBVIOUS
<1> SUFFICES ASSUME Bad # {} PROVE FALSE
  BY <1>0
<1> HIDE DEF Bad
<1>1. PICK m \in Bad : \A k \in Bad : m <= k
  BY <1>0, LeastNat
<1> USE DEF Bad, IsExpansion
<1>2. m \in 0..N /\ ~\E f : Solves(f, m)
  BY <1>1
<1>3. CASE m = 0
  <2> DEFINE f == [n \in 0..0 |-> s]
  <2>1. f = [n \in 0..m |-> IF n = 0 THEN s ELSE AdmitLink(links[n], f[n - 1])]
    BY <1>3
  <2> QED
    BY <1>2, <2>1
<1>4. CASE m # 0
  <2>1. m - 1 \in 0..N /\ m - 1 \notin Bad
    BY <1>1, <1>2, <1>4
  <2>2. PICK f : Solves(f, m - 1)
    BY <2>1
  <2> DEFINE g == [n \in 0..m |-> IF n = m THEN AdmitLink(links[m], f[m - 1]) ELSE f[n]]
  <2>3. ASSUME NEW n \in 0..m
        PROVE  g[n] = IF n = 0 THEN s ELSE AdmitLink(links[n], g[n - 1])
    <3>1. CASE n = 0
      BY <1>2, <1>4, <2>2, <3>1
    <3>2. CASE n = m
      <4>1. n - 1 \in 0..m /\ n - 1 # m
        BY <1>2, <1>4, <3>2
      <4> QED
        BY <1>4, <3>2, <4>1
    <3>3. CASE n # 0 /\ n # m
      <4>1. n \in 0..m - 1 /\ n - 1 \in 0..m /\ n - 1 # m
        BY <1>2, <3>3
      <4>2. f[n] = AdmitLink(links[n], f[n - 1])
        BY <2>2, <3>3, <4>1
      <4> QED
        BY <3>3, <4>1, <4>2
    <3> QED
      BY <3>1, <3>2, <3>3
  <2>4. g = [n \in 0..m |-> IF n = 0 THEN s ELSE AdmitLink(links[n], g[n - 1])]
    <3> HIDE DEF IsExpansion
    <3>1. g = [n \in 0..m |-> g[n]]
      OBVIOUS
    <3> HIDE DEF g
    <3> QED
      BY <2>3, <3>1
  <2> QED
    BY <1>2, <2>4
<1> QED
  BY <1>3, <1>4

\* An edge of a page is a record of nine fields about the page it was built for; its target is
\* the normal form of what the page spells, and internal exactly when that is in scope.
LEMMA EdgeBuilt ==
    ASSUME NEW source, NEW base, NEW page, NEW mode, NEW host,
           NEW e \in BuildEdges(source, base, page, mode, host)
    PROVE  /\ DOMAIN e = {"source", "declared", "target", "relation", "mode", "internal", "rel",
                          "anchor", "blank"}
           /\ e.source = source /\ e.mode = mode
           /\ e.target \in Normalize(e.declared)
           /\ e.internal = InScopeOf(host, e.target)
<1> DEFINE Edge(u, relation, rel, anchor, blank) ==
             {[source |-> source, declared |-> u, target |-> n,
               relation |-> relation, mode |-> mode, internal |-> InScopeOf(host, n),
               rel |-> rel, anchor |-> anchor, blank |-> blank] : n \in Normalize(u)}
<1>1. \E u, relation, rel, anchor, blank : e \in Edge(u, relation, rel, anchor, blank)
  BY DEF BuildEdges
<1>2. PICK u, relation, rel, anchor, blank : e \in Edge(u, relation, rel, anchor, blank)
  BY <1>1
<1>3. PICK n \in Normalize(u) :
        e = [source |-> source, declared |-> u, target |-> n,
             relation |-> relation, mode |-> mode, internal |-> InScopeOf(host, n),
             rel |-> rel, anchor |-> anchor, blank |-> blank]
  BY <1>2
<1> QED
  BY <1>3

\* A set with at most one element for each element of a finite set is finite.
LEMMA OneForEach ==
    ASSUME NEW S, IsFiniteSet(S), NEW F, NEW T,
           \A x \in S : \A a, b \in F[x] : a = b,
           \A t \in T : \E x \in S : t \in F[x]
    PROVE  IsFiniteSet(T)
<1> DEFINE g == [x \in S |-> CHOOSE t : t \in F[x]]
           R == {g[x] : x \in S}
<1>1. g \in Surjection(S, R)
  BY DEF Surjection
<1>2. IsFiniteSet(R)
  <2> HIDE DEF g, R
  <2> QED
    BY <1>1, FS_Surjection
<1>3. T \subseteq R
  <2> SUFFICES ASSUME NEW t \in T PROVE t \in R
    OBVIOUS
  <2>1. PICK x \in S : t \in F[x]
    OBVIOUS
  <2>2. g[x] \in F[x]
    BY <2>1
  <2> QED
    BY <2>1, <2>2
<1> QED
  BY <1>2, <1>3, FS_Subset

\* A URL has one normal form.
LEMMA OneNormalForm ==
    ASSUME NEW u, NEW m \in Normalize(u), NEW n \in Normalize(u)
    PROVE  m = n
  BY DEF Normalize

\* A page has finitely many edges.
LEMMA FinitelyManyEdges ==
    ASSUME NEW source, NEW base, NEW page, NEW mode, NEW host, IsPage(page)
    PROVE  IsFiniteSet(BuildEdges(source, base, page, mode, host))
<1> DEFINE Edge(u, relation, rel, anchor, blank) ==
             {[source |-> source, declared |-> u, target |-> n,
               relation |-> relation, mode |-> mode, internal |-> InScopeOf(host, n),
               rel |-> rel, anchor |-> anchor, blank |-> blank] : n \in Normalize(u)}
           Plain(u, relation) == Edge(u, relation, {}, None, FALSE)
           Links == UNION {Edge(l.url, "link", l.rel, l.anchor, l.blank) :
                             l \in {x \in page.links : x.url.fragment = None}}
           Of(us, relation) == UNION {Plain(u, relation) : u \in us}
<1>1. ASSUME NEW u, NEW relation, NEW rel, NEW anchor, NEW blank,
             NEW a \in Edge(u, relation, rel, anchor, blank),
             NEW b \in Edge(u, relation, rel, anchor, blank)
      PROVE  a = b
  BY OneNormalForm
<1>2. IsFiniteSet(Links)
  <2> DEFINE S == page.links
             F == [l \in S |-> Edge(l.url, "link", l.rel, l.anchor, l.blank)]
  <2>1. IsFiniteSet(S)
    BY DEF IsPage
  <2>2. \A x \in S : \A a, b \in F[x] : a = b
    BY <1>1
  <2>3. \A t \in Links : \E x \in S : t \in F[x]
    OBVIOUS
  <2> HIDE DEF S, F, Links
  <2> QED
    BY <2>1, <2>2, <2>3, OneForEach
<1>3. ASSUME NEW us, IsFiniteSet(us), NEW relation
      PROVE  IsFiniteSet(Of(us, relation))
  <2> DEFINE F == [u \in us |-> Plain(u, relation)]
             T == Of(us, relation)
  <2>1. ASSUME NEW x \in us, NEW a \in F[x], NEW b \in F[x]
        PROVE  a = b
    <3>1. a \in Edge(x, relation, {}, None, FALSE) /\ b \in Edge(x, relation, {}, None, FALSE)
      OBVIOUS
    <3> HIDE DEF Edge
    <3> QED
      BY <1>1, <3>1
  <2>2. \A t \in T : \E x \in us : t \in F[x]
    OBVIOUS
  <2> HIDE DEF F, T
  <2>3. IsFiniteSet(T)
    BY <1>3, <2>1, <2>2, OneForEach
  <2> QED
    BY <2>3 DEF T
<1>4. IsFiniteSet(UNION {Plain(h.url, "hreflang") : h \in page.hreflangs})
  <2> DEFINE F == [h \in page.hreflangs |-> Plain(h.url, "hreflang")]
             T == UNION {Plain(h.url, "hreflang") : h \in page.hreflangs}
  <2>0. IsFiniteSet(page.hreflangs)
    BY DEF IsPage
  <2>1. ASSUME NEW x \in page.hreflangs, NEW a \in F[x], NEW b \in F[x]
        PROVE  a = b
    <3>1. /\ a \in Edge(x.url, "hreflang", {}, None, FALSE)
          /\ b \in Edge(x.url, "hreflang", {}, None, FALSE)
      OBVIOUS
    <3> HIDE DEF Edge
    <3> QED
      BY <1>1, <3>1
  <2>2. \A t \in T : \E x \in page.hreflangs : t \in F[x]
    OBVIOUS
  <2> HIDE DEF F, T
  <2>3. IsFiniteSet(T)
    BY <2>0, <2>1, <2>2, OneForEach
  <2> QED
    BY <2>3 DEF T
<1>5. /\ IsFiniteSet(page.canonical) /\ IsFiniteSet(page.next) /\ IsFiniteSet(page.prev)
      /\ IsFiniteSet(page.images)
  BY DEF IsPage
<1>6. /\ IsFiniteSet(Of(page.canonical, "canonical"))
      /\ IsFiniteSet(Of(page.next, "pagination_next"))
      /\ IsFiniteSet(Of(page.prev, "pagination_prev"))
      /\ IsFiniteSet(Of(page.images, "asset_ref"))
  <2> HIDE DEF Of
  <2> QED
    BY <1>3, <1>5
<1> DEFINE Kept == {e \in Links : e.target \notin Normalize(base)}
           H == UNION {Plain(h.url, "hreflang") : h \in page.hreflangs}
<1>7. IsFiniteSet(Kept)
  <2> HIDE DEF Links
  <2> QED
    BY <1>2, FS_Subset
<1>8. BuildEdges(source, base, page, mode, host)
        = Kept \cup Of(page.canonical, "canonical") \cup H \cup Of(page.next, "pagination_next")
               \cup Of(page.prev, "pagination_prev") \cup Of(page.images, "asset_ref")
  BY DEF BuildEdges
<1> HIDE DEF Kept, H, Of
<1>9. IsFiniteSet(H)
  BY <1>4 DEF H
<1> QED
  BY <1>6, <1>7, <1>8, <1>9, FS_Union

\* What Parse leaves of the frontier, the tables and a page's edges, whatever order it takes the
\* page's links in.
LEMMA ParseExpanded ==
    ASSUME NEW i, NEW r, NEW fetched, IsFiniteSet(Built(i, r))
    PROVE  Expanded(Parse(i, r, fetched), i, r, fetched)
<1> DEFINE S == Followed(i, r)
           N == Cardinality(S)
           links == SetToSeq(S)
           s == Unexpanded(i, r, fetched)
           f == CHOOSE f : IsExpansion(f, s, links, N)
           Bad == {k \in 0..N : ~Expanded(f[k], i, r, fetched)}
<1>1. IsFiniteSet(S) /\ IsFiniteSet(Built(i, r) \ Followed(i, r))
  BY FS_Subset DEF Followed
<1>2. N \in Nat /\ links \in [1..N -> S]
  <2> HIDE DEF S
  <2> QED
    BY <1>1, Listed
<1>3. ASSUME NEW link \in S
      PROVE  {"target", "internal"} \subseteq DOMAIN link
  <2>1. link \in BuildEdges(FiledUnder(i.url, r), r.final, r.page, "static", SeedHost)
    BY DEF Followed, Built
  <2> QED
    BY <2>1, EdgeBuilt
<1>4. Expanded(s, i, r, fetched)
  <2>1. /\ s.depth = i.depth + 1
        /\ s.crawled = IF Analyzable(r) THEN pagesCrawled + 1 ELSE pagesCrawled
        /\ s.kept = Built(i, r) \ Followed(i, r)
        /\ s.urls = fetched /\ s.queue = queue /\ s.queued = queued /\ s.traps = {}
        /\ DOMAIN s = {"source", "depth", "crawled", "kept", "urls", "queue", "queued",
                       "variants", "flagged", "discovered", "traps"}
    BY DEF Unexpanded
  <2> HIDE DEF s
  <2> QED
    BY <1>1, <2>1 DEF Expanded
<1>5. IsExpansion(f, s, links, N)
  <2> HIDE DEF s, links, N
  <2> QED
    BY <1>2, ExpansionExists
<1>6. Parse(i, r, fetched) = f[N]
  <2>1. f = CHOOSE g : g = [k \in 0..N |-> IF k = 0 THEN s ELSE AdmitLink(links[k], g[k - 1])]
    BY Zenon DEF IsExpansion
  <2> QED
    BY <2>1, Zenon DEF Parse
<1> HIDE DEF f, s, links, N
<1>7. Bad = {}
  <2> SUFFICES ASSUME Bad # {} PROVE FALSE
    OBVIOUS
  <2>1. Bad \in SUBSET Nat
    BY <1>2
  <2>2. PICK k \in Bad : \A l \in Bad : k <= l
    <3> HIDE DEF Bad
    <3> QED
      BY <2>1, LeastNat
  <2>3. k \in 0..N /\ ~Expanded(f[k], i, r, fetched)
    OBVIOUS
  <2>4. CASE k = 0
    BY <1>2, <1>4, <1>5, <2>3, <2>4 DEF IsExpansion
  <2>5. CASE k # 0
    <3>1. k - 1 \in 0..N /\ k - 1 \notin Bad
      BY <1>2, <2>2, <2>3, <2>5
    <3>2. Expanded(f[k - 1], i, r, fetched)
      BY <3>1
    <3>3. f[k] = AdmitLink(links[k], f[k - 1])
      BY <1>2, <1>5, <2>3, <2>5 DEF IsExpansion
    <3>4. links[k] \in S
      BY <1>2, <2>3, <2>5
    <3> HIDE DEF Bad
    <3> QED
      BY <1>3, <2>3, <3>2, <3>3, <3>4, LinkTaken
  <2> QED
    BY <2>4, <2>5
<1>8. N \in 0..N
  BY <1>2
<1> QED
  BY <1>6, <1>7, <1>8

-----------------------------------------------------------------------------
(* Link counts and orphans.                                                 *)

\* The table of edges is finite.
EdgesInv == IsFiniteSet(edges)

\* There is no edge at the start.
LEMMA EdgesInit == Init => EdgesInv
  BY FS_EmptySet DEF Init, InitWith, EdgesInv

\* What an answer, a menu or a rendered page adds to the table is finite, because the page is.
LEMMA PagesFinite ==
    ASSUME WebInv
    PROVE  /\ \A u \in DOMAIN web.answers : \A r \in web.answers[u] :
                r.kind = "html" => IsPage(r.page)
           /\ \A u \in DOMAIN web.menus : IsPage(web.menus[u].page) /\ IsFiniteSet(web.menus[u].links)
           /\ \A u \in DOMAIN web.contents : IsPage(web.contents[u].page)
  BY StartsAssumption DEF WebInv

\* The edges of an answer are finitely many.
LEMMA BuiltFinite ==
    ASSUME WebInv, NEW i, i.url \in DOMAIN web.answers, NEW r \in web.answers[i.url]
    PROVE  IsFiniteSet(Built(i, r))
<1>1. CASE Analyzable(r)
  <2>1. IsPage(r.page)
    BY <1>1, PagesFinite DEF Analyzable
  <2> QED
    BY <1>1, <2>1, FinitelyManyEdges DEF Built
<1>2. CASE ~Analyzable(r)
  BY <1>2, FS_EmptySet DEF Built
<1> QED
  BY <1>1, <1>2

\* A visit that is answered: the item, the answer, what its links made of the frontier, and the
\* report of a slow host.
Visit(i, r, p, slow) ==
    /\ i \in visiting /\ MayFetch(i) /\ i.url \in DOMAIN web.answers /\ r \in web.answers[i.url]
    /\ \A x \in slow : x = Row("slow_host", "page_local", {}, {})
    /\ Expanded(p, i, r, SetStatus(urls, i.url, "fetched"))
    /\ Persist(i, r, p, fetchSeq + 1, slow)
    /\ queue' = p.queue /\ queued' = p.queued /\ pagesCrawled' = p.crawled
    /\ fetchSeq' = fetchSeq + 1 /\ visiting' = {}
    /\ UNCHANGED <<web, onboarded, rules, reserved, calls, settings, phase, pipeline, todo, report>>

\* Every visit is one of those.
LEMMA Visited ==
    ASSUME WebInv, FetchAndAnalyze
    PROVE  \E i, r, p, slow : Visit(i, r, p, slow)
<1>1. PICK i \in visiting :
        /\ MayFetch(i) /\ i.url \in DOMAIN web.answers
        /\ \E r \in web.answers[i.url] :
           \E slow \in IF r.ttfb > 5000 THEN {{}, {Row("slow_host", "page_local", {}, {})}}
                       ELSE {{}} :
             LET p == Parse(i, r, SetStatus(urls, i.url, "fetched"))
             IN  /\ Persist(i, r, p, fetchSeq + 1, slow)
                 /\ queue' = p.queue /\ queued' = p.queued /\ pagesCrawled' = p.crawled
        /\ fetchSeq' = fetchSeq + 1 /\ visiting' = {}
        /\ UNCHANGED <<web, onboarded, rules, reserved, calls, settings, phase, pipeline, todo,
                       report>>
  BY DEF FetchAndAnalyze
<1>2. PICK r \in web.answers[i.url],
           slow \in SUBSET {Row("slow_host", "page_local", {}, {})} :
        LET p == Parse(i, r, SetStatus(urls, i.url, "fetched"))
        IN  /\ Persist(i, r, p, fetchSeq + 1, slow)
            /\ queue' = p.queue /\ queued' = p.queued /\ pagesCrawled' = p.crawled
  BY <1>1
<1> DEFINE p == Parse(i, r, SetStatus(urls, i.url, "fetched"))
<1>3. Expanded(p, i, r, SetStatus(urls, i.url, "fetched"))
  BY <1>1, <1>2, BuiltFinite, ParseExpanded
<1>4. Visit(i, r, p, slow)
  <2> HIDE DEF p
  <2> SUFFICES /\ Persist(i, r, p, fetchSeq + 1, slow)
               /\ queue' = p.queue /\ queued' = p.queued /\ pagesCrawled' = p.crawled
    BY <1>1, <1>2, <1>3 DEF Visit
  <2> QED
    BY <1>2 DEF p
<1> QED
  BY <1>4

\* The edges of a rendered page and of its menus are finitely many.
LEMMA GapEdgesFinite ==
    ASSUME NEW u, NEW r, NEW links, IsPage(r.page), IsFiniteSet(links)
    PROVE  IsFiniteSet(GapEdges(u, r, links))
<1> DEFINE Rendered == BuildEdges(u, r.final, r.page, "browser", SeedHost)
           F == [l \in links |-> {MenuEdge(u, l)}]
           M == {MenuEdge(u, l) : l \in links}
<1>1. IsFiniteSet(Rendered)
  BY FinitelyManyEdges
<1>2. IsFiniteSet(M)
  <2>1. \A x \in links : \A a, b \in F[x] : a = b
    OBVIOUS
  <2>2. \A t \in M : \E x \in links : t \in F[x]
    OBVIOUS
  <2> HIDE DEF F, M
  <2> QED
    BY <2>1, <2>2, OneForEach
<1>3. GapEdges(u, r, links) \subseteq Rendered \cup M
  BY DEF GapEdges, RenderedLinks
<1> HIDE DEF Rendered, M
<1>4. IsFiniteSet(Rendered \cup M)
  BY <1>1, <1>2, FS_Union
<1> QED
  BY <1>3, <1>4, FS_Subset

\* Beside a visit and the browser passes, no step adds an edge.
LEMMA EdgeSteps ==
    ASSUME [Next]_vars
    PROVE  UNCHANGED edges \/ FetchAndAnalyze \/ RenderKeyPage \/ EnrichPage
<1> USE DEF tables, progress, report, counters, RowsBeside
<1>1. CASE SitemapEntry
  BY <1>1 DEF SitemapEntry, AdmitEntry, OnboardEntryHost, EnqueueEntry, OnboardReturns
<1>2. CASE OnboardSeedHost \/ StartCrawl \/ Dispatch \/ DropOutOfScope \/ OnboardVisited
           \/ SkipVisit \/ FetchFails \/ PipelineEnds \/ PipelineFails
  BY <1>2 DEF OnboardSeedHost, StartCrawl, Dispatch, DropOutOfScope, OnboardVisited, SkipVisit,
              FetchFails, PipelineEnds, PipelineFails
<1>3. CASE StartGapEscalation \/ EndGapEscalation \/ QueueBrowserDiscovered \/ StartEnrich
           \/ EndEnrich
  BY <1>3 DEF StartGapEscalation, EndGapEscalation, QueueBrowserDiscovered, StartEnrich,
              EndEnrich
<1>4. CASE Audit
  BY <1>4 DEF Audit, HeadCheckAssets, StartHTTPAudit, AuditHTTPHost, EndHTTPAudit, RunAudits,
              CheckMarkdown, CheckText
<1>5. CASE Report
  BY <1>5 DEF Report, RecalculateCounts, RecomputeDepths, StartDetection, RunDetector,
              DetectorFails, MaterializeAndCount, Finalize
<1>6. CASE UNCHANGED vars
  BY <1>6 DEF vars
<1> QED
  BY <1>1, <1>2, <1>3, <1>4, <1>5, <1>6 DEF Next, Crawl, Browse

\* Every step adds finitely many edges.
LEMMA EdgesStep ==
    ASSUME WebInv, EdgesInv, [Next]_vars
    PROVE  EdgesInv'
<1> USE DEF EdgesInv
<1>1. CASE FetchAndAnalyze
  <2>1. PICK i, r, p, slow : Visit(i, r, p, slow)
    BY <1>1, Visited
  <2>2. IsFiniteSet(p.kept)
    BY <2>1 DEF Visit, Expanded
  <2>3. edges' = edges \/ edges' = edges \cup p.kept
    BY <2>1 DEF Visit, Persist, NewEdges
  <2> QED
    BY <2>2, <2>3, FS_Union
<1>2. CASE RenderKeyPage
  <2>1. PICK u \in todo :
          IF u \in DOMAIN web.menus /\ Renderable(u) /\ RendersMenus(settings, RemoteFails(u))
            THEN \E links \in {web.menus[u].links, {}} :
                   edges' = edges \cup GapEdges(u, web.menus[u], links)
            ELSE edges' = edges
    BY <1>2 DEF RenderKeyPage, AddEdges
  <2>2. CASE edges' # edges
    <3>1. u \in DOMAIN web.menus
      BY <2>1, <2>2
    <3>2. PICK links \in {web.menus[u].links, {}} :
            edges' = edges \cup GapEdges(u, web.menus[u], links)
      BY <2>1, <2>2
    <3>3. IsPage(web.menus[u].page) /\ IsFiniteSet(links)
      BY <3>1, <3>2, PagesFinite, FS_EmptySet
    <3> QED
      BY <3>2, <3>3, GapEdgesFinite, FS_Union
  <2> QED
    BY <2>2
<1>3. CASE EnrichPage
  <2> DEFINE built(u) == BuildEdges(u, web.contents[u].final, web.contents[u].page, "browser",
                                    SeedHost)
             missing(u) == {e \in RenderedLinks(u, web.contents[u]) :
                              e.target \notin Declared(EdgesOf(u))}
             new(u) == {CHOOSE e \in missing(u) : e.target = t :
                          t \in {e.target : e \in missing(u)}}
  <2>1. PICK u \in todo :
          \/ edges' = edges
          \/ u \in DOMAIN web.contents /\ edges' = edges \cup new(u)
    BY <1>3, Zenon DEF EnrichPage
  <2>2. CASE edges' # edges
    <3>1. IsFiniteSet(built(u))
      BY <2>1, <2>2, PagesFinite, FinitelyManyEdges
    <3>2. new(u) \subseteq missing(u)
      <4> SUFFICES ASSUME NEW x \in new(u) PROVE x \in missing(u)
        OBVIOUS
      <4>1. PICK e \in missing(u) : x = CHOOSE d \in missing(u) : d.target = e.target
        OBVIOUS
      <4> HIDE DEF missing
      <4> QED
        BY <4>1
    <3>3. missing(u) \subseteq built(u)
      BY DEF RenderedLinks
    <3> HIDE DEF new, missing, built
    <3>4. IsFiniteSet(new(u))
      BY <3>1, <3>2, <3>3, FS_Subset
    <3> QED
      BY <2>1, <2>2, <3>4, FS_Union
  <2> QED
    BY <2>2
<1>4. CASE UNCHANGED edges
  BY <1>4
<1> QED
  BY <1>1, <1>2, <1>3, <1>4, EdgeSteps

\* The reports for which the links are counted.
Counted == \/ phase \in {"depths", "detect", "materialize"}
           \/ phase \in {"finalize", "done"} /\ failures = {}

\* The links to a page, over all passes.
LinksTo(u) == {e \in InternalLinks : e.target = u}

\* A page's count of incoming links is their number.
CountInv == Counted => \A u \in DOMAIN pages : pages[u].inbound = Cardinality(LinksTo(u))

\* At the start nothing is counted.
LEMMA CountInit == Init => CountInv
  BY DEF Init, InitWith, CountInv, Counted

\* The counts are computed after the last edge is stored, and no later step changes them.
LEMMA CountStep ==
    ASSUME PagesInv, CountInv, [Next]_vars
    PROVE  CountInv'
<1> USE DEF tables, progress, report, counters, RowsBeside
<1>1. ASSUME ~Counted' PROVE CountInv'
  BY <1>1 DEF CountInv
<1>2. ASSUME UNCHANGED <<pages, edges>>, Counted' => Counted PROVE CountInv'
  BY <1>2 DEF CountInv, LinksTo, InternalLinks
<1>3. CASE SitemapEntry \/ OnboardVisited
  <2>1. UNCHANGED <<pages, edges, phase, failures>>
    BY <1>3 DEF SitemapEntry, AdmitEntry, OnboardEntryHost, EnqueueEntry, OnboardReturns,
                OnboardVisited
  <2> QED
    BY <1>2, <2>1 DEF Counted
<1>4. CASE OnboardSeedHost \/ StartCrawl \/ Dispatch \/ PipelineEnds
  BY <1>1, <1>4 DEF OnboardSeedHost, StartCrawl, StartPipeline, Dispatch, PipelineEnds,
                    AfterPipeline, Counted
<1>5. CASE PipelineFails
  BY <1>1, <1>5 DEF PipelineFails, Counted
<1>6. CASE DropOutOfScope \/ SkipVisit \/ FetchFails \/ FetchAndAnalyze
  BY <1>1, <1>6 DEF DropOutOfScope, SkipVisit, FetchFails, FetchAndAnalyze, MayFetch, Visiting,
                    Counted
<1>7. CASE Browse
  BY <1>1, <1>7 DEF Browse, StartGapEscalation, RenderKeyPage, EndGapEscalation,
                    QueueBrowserDiscovered, StartPipeline, StartEnrich, EnrichPage, EndEnrich,
                    Counted
<1>8. CASE Audit
  BY <1>1, <1>8 DEF Audit, HeadCheckAssets, StartHTTPAudit, AuditHTTPHost, EndHTTPAudit,
                    RunAudits, CheckMarkdown, CheckText, Counted
<1>9. CASE RecalculateCounts
  <2>1. pages' = CountsOver(InternalLinks) /\ edges' = edges
    BY <1>9 DEF RecalculateCounts
  <2>2. \A u \in DOMAIN pages : pages'[u].inbound = Cardinality(LinksTo(u))
    BY <2>1 DEF CountsOver, PagesInv, PageColumns, LinksTo
  <2>3. DOMAIN pages' = DOMAIN pages
    BY <2>1 DEF CountsOver
  <2> QED
    BY <2>1, <2>2, <2>3 DEF CountInv, LinksTo, InternalLinks
<1>10. CASE RecomputeDepths
  <2>1. pages' = DepthsOver(InternalLinks) /\ edges' = edges /\ phase = "depths"
    BY <1>10 DEF RecomputeDepths
  <2>2. \A u \in DOMAIN pages : pages'[u].inbound = pages[u].inbound
    BY <2>1 DEF DepthsOver, PagesInv, PageColumns
  <2>3. DOMAIN pages' = DOMAIN pages
    BY <2>1 DEF DepthsOver
  <2> QED
    BY <2>1, <2>2, <2>3 DEF CountInv, Counted, LinksTo, InternalLinks
<1>11. CASE StartDetection \/ RunDetector \/ DetectorFails \/ MaterializeAndCount \/ Finalize
  BY <1>2, <1>11 DEF StartDetection, RunDetector, DetectorFails, MaterializeAndCount,
                     Materialized, Finalize, Counted
<1>12. CASE UNCHANGED vars
  BY <1>2, <1>12 DEF vars, Counted
<1> QED
  BY <1>3, <1>4, <1>5, <1>6, <1>7, <1>8, <1>9, <1>10, <1>11, <1>12 DEF Next, Crawl, Report

\* The detectors of the types of the site.
SiteDetectors == {1, 2, 3, 6}

\* These detectors read the pages and the URLs only, not the issues.
LEMMA SiteDetectorsSteady ==
    ASSUME UNCHANGED <<pages, urls>>, NEW d \in SiteDetectors
    PROVE  Detected(d)' = Detected(d)
<1> USE DEF detectDuplicateField, DuplicateGroups, GroupKey, FirstFetched, detectOrphanPages
<1>1. CASE d = 1
  BY <1>1 DEF Detected
<1>2. CASE d = 2
  BY <1>2 DEF Detected
<1>3. CASE d = 3
  BY <1>3 DEF Detected
<1>4. CASE d = 6
  BY <1>4 DEF Detected
<1> QED
  BY <1>1, <1>2, <1>3, <1>4 DEF SiteDetectors

\* Of what any detector finds, the rows of one of these types are all the rows of its detector,
\* or none.
LEMMA OneDetector ==
    ASSUME NEW k \in 1..NumDetectors, NEW d \in SiteDetectors
    PROVE  {i \in Detected(k) : i.type \in SiteTypesOf(d)} = IF k = d THEN Detected(d) ELSE {}
<1>1. ASSUME NEW i \in Detected(k), i.type \in SiteTypesOf(d)
      PROVE  k = d
  <2>1. i.type \in SiteTypes
    BY <1>1 DEF SiteDetectors, SiteTypesOf, SiteTypes
  <2>2. i.type \in SiteTypesOf(k)
    BY <2>1, DetectedKnown
  <2> QED
    BY <1>1, <2>2 DEF SiteDetectors, SiteTypesOf
<1>2. ASSUME NEW i \in Detected(d)
      PROVE  i.type \in SiteTypesOf(d)
  <2> USE DEF detectDuplicateField, DuplicateGroups, detectOrphanPages, GlobalIssue, Row,
              SiteTypesOf
  <2>1. CASE d = 1
    BY <1>2, <2>1 DEF Detected
  <2>2. CASE d = 2
    BY <1>2, <2>2 DEF Detected
  <2>3. CASE d = 3
    BY <1>2, <2>3 DEF Detected
  <2>4. CASE d = 6
    BY <1>2, <2>4 DEF Detected
  <2> QED
    BY <2>1, <2>2, <2>3, <2>4 DEF SiteDetectors
<1>3. CASE k = d
  BY <1>2, <1>3
<1>4. CASE k # d
  BY <1>1, <1>4
<1> QED
  BY <1>3, <1>4

\* Outside detection, no step stores an issue of the site.
LEMMA IssueSteps ==
    ASSUME WebInv, [Next]_vars, phase # "detect"
    PROVE  \A i \in issues' \ issues : i.type \notin SiteTypes
<1> USE DEF tables, progress, report, counters, RowsBeside
<1>1. CASE SitemapEntry
  BY <1>1 DEF SitemapEntry, AdmitEntry, OnboardEntryHost, EnqueueEntry, OnboardReturns
<1>2. CASE OnboardSeedHost \/ StartCrawl \/ Dispatch \/ DropOutOfScope \/ OnboardVisited
           \/ SkipVisit \/ FetchFails \/ PipelineEnds \/ PipelineFails
  BY <1>2 DEF OnboardSeedHost, StartCrawl, Dispatch, DropOutOfScope, OnboardVisited, SkipVisit,
              FetchFails, PipelineEnds, PipelineFails
<1>3. CASE FetchAndAnalyze
  <2>1. PICK i, r, p, slow : Visit(i, r, p, slow)
    BY <1>3, Visited
  <2> DEFINE at == FiledUnder(i.url, r)
             kept == KeptIssues(r, at, PageLocalTypes(i, r))
  <2>2. issues' = issues \cup slow \cup p.traps \cup kept
    BY <2>1 DEF Visit, Persist
  <2>3. \A x \in slow : x.type \notin SiteTypes
    BY <2>1 DEF Visit, Row, SiteTypes
  <2>4. ASSUME NEW x \in p.traps PROVE x.type \notin SiteTypes
    <3>1. PICK u : x = SiteIssue("crawl_trap_suspected", {u})
      BY <2>1 DEF Visit, Expanded
    <3> QED
      BY <3>1 DEF SiteIssue, Row, SiteTypes
  <2>5. \A t \in PageLocalTypes(i, r) : t \notin SiteTypes
    <3>1. \A t \in DetectPageLocalIssues(Context(i, r, Built(i, r))) : t \notin SiteTypes
      BY PageLocalTypesKnown
    <3>2. "rate_limited" \notin SiteTypes
      BY DEF SiteTypes
    <3> QED
      BY <3>1, <3>2 DEF PageLocalTypes
  <2>6. \A x \in kept : x.type \notin SiteTypes
    BY <2>5 DEF KeptIssues, PageIssue, Row
  <2> HIDE DEF kept
  <2> QED
    BY <2>2, <2>3, <2>4, <2>6
<1>4. CASE RenderKeyPage
  BY <1>4 DEF RenderKeyPage, UpdateGapPage, IssuesWithout
<1>5. CASE EnrichPage
  BY <1>5 DEF EnrichPage, IssuesWithout
<1>6. CASE StartGapEscalation \/ EndGapEscalation \/ QueueBrowserDiscovered \/ StartEnrich
           \/ EndEnrich
  BY <1>6 DEF StartGapEscalation, EndGapEscalation, QueueBrowserDiscovered, StartEnrich,
              EndEnrich
<1>7. CASE HeadCheckAssets \/ StartHTTPAudit \/ AuditHTTPHost \/ EndHTTPAudit \/ RunAudits
  BY <1>7 DEF HeadCheckAssets, StartHTTPAudit, AuditHTTPHost, EndHTTPAudit, RunAudits
<1>8. CASE CheckMarkdown
  BY <1>8 DEF CheckMarkdown, Row, SiteTypes
<1>9. CASE CheckText
  <2>1. \A category : TextIssueType(category) \notin SiteTypes
    BY DEF TextIssueType, SiteTypes
  <2>2. \A i \in issues' \ issues : \E category, u : i = PageIssue(TextIssueType(category), u)
    BY <1>9 DEF CheckText
  <2> QED
    BY <2>1, <2>2 DEF PageIssue, Row
<1>10. CASE Report
  BY <1>10 DEF Report, RecalculateCounts, RecomputeDepths, StartDetection, RunDetector,
               DetectorFails, MaterializeAndCount, Finalize
<1>11. CASE UNCHANGED vars
  BY <1>11 DEF vars
<1> QED
  BY <1>1, <1>2, <1>3, <1>4, <1>5, <1>6, <1>7, <1>8, <1>9, <1>10, <1>11
     DEF Next, Crawl, Browse, Audit

\* No host is being onboarded after the crawl.
CallsInv == phase \notin {"seeds", "crawl"} => calls = << >>

\* No host is being onboarded at the start.
LEMMA CallsInit == Init => CallsInv
  BY DEF Init, InitWith, CallsInv

\* The phases of the crawl end between two calls.
LEMMA CallsStep ==
    ASSUME CallsInv, [Next]_vars
    PROVE  CallsInv'
<1> USE DEF onboarding, tables, progress, report, counters, RowsBeside, CallsInv
<1>1. CASE SitemapEntry
  BY <1>1 DEF SitemapEntry, AdmitEntry, OnboardEntryHost, EnqueueEntry, OnboardReturns
<1>2. CASE OnboardSeedHost \/ StartCrawl \/ Dispatch \/ DropOutOfScope \/ OnboardVisited
           \/ SkipVisit \/ FetchFails \/ FetchAndAnalyze
  BY <1>2 DEF OnboardSeedHost, StartCrawl, StartPipeline, Dispatch, DropOutOfScope,
              OnboardVisited, SkipVisit, FetchFails, FetchAndAnalyze, MayFetch, Visiting
<1>3. CASE PipelineEnds \/ PipelineFails
  BY <1>3 DEF PipelineEnds, PipelineFails
<1>4. CASE Browse
  BY <1>4 DEF Browse, StartGapEscalation, RenderKeyPage, EndGapEscalation,
              QueueBrowserDiscovered, StartPipeline, StartEnrich, EnrichPage, EndEnrich
<1>5. CASE Audit
  BY <1>5 DEF Audit, HeadCheckAssets, StartHTTPAudit, AuditHTTPHost, EndHTTPAudit, RunAudits,
              CheckMarkdown, CheckText
<1>6. CASE Report
  BY <1>6 DEF Report, RecalculateCounts, RecomputeDepths, StartDetection, RunDetector,
              DetectorFails, MaterializeAndCount, Finalize
<1>7. CASE UNCHANGED vars
  BY <1>7 DEF vars
<1> QED
  BY <1>1, <1>2, <1>3, <1>4, <1>5, <1>6, <1>7 DEF Next, Crawl

\* The issues of the types that detector d reports.
RowsOf(d) == {i \in issues : i.type \in SiteTypesOf(d)}

\* Before detection there is no issue of the site; during it, and in a report whose phases all
\* ran, there are exactly those of the detectors that have run, and the clusters are those of
\* the stored pages.
ReportInv ==
    /\ detector \in 0..(NumDetectors + 1)
    /\ detector = 0 => \A i \in issues : i.type \notin SiteTypes
    /\ detector > 0 /\ "detection" \notin failures =>
         \A d \in SiteDetectors : RowsOf(d) = IF d < detector THEN Detected(d) ELSE {}
    /\ phase \in Reporting /\ failures = {} => detector = NumDetectors + 1
    /\ phase \in {"finalize", "done"} /\ failures = {} =>
         clusters = CanonicalClusters \cup DuplicateClusters

\* There is no issue at the start.
LEMMA ReportInit == Init => ReportInv
  BY DEF Init, InitWith, ReportInv, NumDetectors, Reporting

\* A detector adds its own rows and no others of these types.
LEMMA DetectorRuns ==
    ASSUME ReportInv, RunDetector, "detection" \notin failures, NEW d \in SiteDetectors
    PROVE  RowsOf(d)' = IF d < detector' THEN Detected(d)' ELSE {}
<1>1. /\ detector \in 1..NumDetectors /\ detector' = detector + 1
      /\ issues' = issues \cup Detected(detector) /\ UNCHANGED <<pages, urls>>
  BY DEF RunDetector
<1>2. detector \in Nat /\ detector > 0 /\ d \in Nat
  BY <1>1 DEF NumDetectors, SiteDetectors
<1>3. RowsOf(d) = IF d < detector THEN Detected(d) ELSE {}
  BY <1>2 DEF ReportInv
<1>4. {i \in Detected(detector) : i.type \in SiteTypesOf(d)}
        = IF detector = d THEN Detected(d) ELSE {}
  BY <1>1, OneDetector
<1>5. RowsOf(d)' = RowsOf(d) \cup {i \in Detected(detector) : i.type \in SiteTypesOf(d)}
  BY <1>1 DEF RowsOf
<1>6. Detected(d)' = Detected(d)
  BY <1>1, SiteDetectorsSteady
<1> QED
  BY <1>1, <1>2, <1>3, <1>4, <1>5, <1>6

\* What each step does to the report.
LEMMA ReportStep ==
    ASSUME WebInv, CallsInv, DetectionInv, DepthInv, ReportInv, [Next]_vars
    PROVE  ReportInv'
<1> USE DEF onboarding, tables, progress, report, counters, RowsBeside, Reporting
<1>1. ASSUME phase \notin {"detect"} \cup Reporting, detector' = detector,
             phase' \notin Reporting \/ failures' # {}
      PROVE  ReportInv'
  <2>1. detector = 0
    BY <1>1 DEF DepthInv
  <2>2. \A i \in issues' : i.type \notin SiteTypes
    BY <1>1, <2>1, IssueSteps DEF ReportInv
  <2> QED
    BY <1>1, <2>1, <2>2 DEF ReportInv, NumDetectors
<1>2. ASSUME UNCHANGED <<pages, urls, fetches, issues, detector>>,
             phase' \in Reporting /\ failures' = {} => detector = NumDetectors + 1,
             "detection" \in failures => "detection" \in failures',
             phase' \in {"finalize", "done"} /\ failures' = {} =>
               clusters' = CanonicalClusters \cup DuplicateClusters
      PROVE  ReportInv'
  <2>1. (CanonicalClusters \cup DuplicateClusters)' = CanonicalClusters \cup DuplicateClusters
    BY <1>2 DEF CanonicalClusters, DuplicateClusters, DuplicateGroups, GroupKey, FirstFetched,
                LatestCode, LatestFetch
  <2>2. \A d \in SiteDetectors : Detected(d)' = Detected(d) /\ RowsOf(d)' = RowsOf(d)
    BY <1>2, SiteDetectorsSteady DEF RowsOf
  <2>3. detector > 0 /\ "detection" \notin failures =>
          \A d \in SiteDetectors : RowsOf(d)' = IF d < detector THEN Detected(d)' ELSE {}
    BY <2>2 DEF ReportInv
  <2> QED
    BY <1>2, <2>1, <2>3 DEF ReportInv
<1>3. CASE SitemapEntry
  <2>1. phase \in {"seeds", "crawl"}
    BY <1>3 DEF SitemapEntry, AdmitEntry, OnboardEntryHost, EnqueueEntry, OnboardReturns, CallsInv
  <2>2. UNCHANGED <<phase, detector>>
    BY <1>3 DEF SitemapEntry
  <2> QED
    BY <1>1, <2>1, <2>2
<1>4. CASE OnboardSeedHost \/ StartCrawl \/ Dispatch \/ PipelineEnds \/ PipelineFails
  BY <1>1, <1>4 DEF OnboardSeedHost, StartCrawl, StartPipeline, Dispatch, PipelineEnds,
                    PipelineFails, AfterPipeline
<1>5. CASE DropOutOfScope \/ OnboardVisited \/ SkipVisit \/ FetchFails \/ FetchAndAnalyze
  BY <1>1, <1>5 DEF DropOutOfScope, OnboardVisited, SkipVisit, FetchFails, FetchAndAnalyze,
                    MayFetch, Visiting
<1>6. CASE Browse
  BY <1>1, <1>6 DEF Browse, StartGapEscalation, RenderKeyPage, EndGapEscalation,
                    QueueBrowserDiscovered, StartPipeline, StartEnrich, EnrichPage, EndEnrich
<1>7. CASE Audit
  BY <1>1, <1>7 DEF Audit, HeadCheckAssets, StartHTTPAudit, AuditHTTPHost, EndHTTPAudit,
                    RunAudits, CheckMarkdown, CheckText
<1>8. CASE RecalculateCounts \/ RecomputeDepths
  BY <1>1, <1>8 DEF RecalculateCounts, RecomputeDepths
<1>9. CASE StartDetection
  <2>1. /\ phase = "detect" /\ phase' = "detect" /\ detector = 0 /\ detector' = 1
        /\ issues' \subseteq issues
    BY <1>9 DEF StartDetection
  <2>2. \A d \in SiteDetectors : RowsOf(d)' = {}
    BY <2>1 DEF ReportInv, RowsOf, SiteDetectors, SiteTypesOf, SiteTypes
  <2>3. \A d \in SiteDetectors : ~(d < 1)
    BY DEF SiteDetectors
  <2> QED
    BY <2>1, <2>2, <2>3 DEF ReportInv, NumDetectors
<1>10. CASE RunDetector
  <2>1. /\ phase = "detect" /\ detector \in 1..NumDetectors /\ detector' = detector + 1
        /\ phase' = IF detector = NumDetectors THEN "materialize" ELSE phase
        /\ failures' = failures
    BY <1>10 DEF RunDetector
  <2>2. "detection" \notin failures
    BY <2>1 DEF DetectionInv
  <2>3. \A d \in SiteDetectors : RowsOf(d)' = IF d < detector' THEN Detected(d)' ELSE {}
    BY <1>10, <2>2, DetectorRuns
  <2> QED
    BY <2>1, <2>3 DEF ReportInv, NumDetectors
<1>11. CASE DetectorFails
  <2>1. /\ phase' = "materialize" /\ "detection" \in failures' /\ detector' = detector
        /\ detector \in 1..NumDetectors
    BY <1>11 DEF DetectorFails
  <2> QED
    BY <2>1 DEF ReportInv, NumDetectors
<1>12. CASE MaterializeAndCount
  <2>1. \/ clusters' = CanonicalClusters \cup DuplicateClusters /\ failures' = failures
        \/ failures' = failures \cup {"rollups"}
    BY <1>12 DEF MaterializeAndCount, Materialized
  <2> QED
    BY <1>2, <1>12, <2>1 DEF MaterializeAndCount, ReportInv
<1>13. CASE Finalize
  BY <1>2, <1>13 DEF Finalize, ReportInv
<1>14. CASE UNCHANGED vars
  BY <1>2, <1>14 DEF vars, ReportInv
<1> QED
  BY <1>3, <1>4, <1>5, <1>6, <1>7, <1>8, <1>9, <1>10, <1>11, <1>12, <1>13, <1>14
     DEF Next, Crawl, Report

\* The detector of duplicates and the rollups of duplicates go by the same groups and spare the
\* same page of each.
LEMMA DuplicatesAgree ==
    ASSUME NEW field \in {"hash", "title", "description"}, NEW type
    PROVE  UNION {i.on : i \in detectDuplicateField(field, type)}
             = UNION {c.members \ {c.first} :
                        c \in {x \in CanonicalClusters \cup DuplicateClusters : x.kind = field}}
<1> DEFINE Spared == UNION {g \ {FirstFetched(g)} : g \in DuplicateGroups(field)}
           cluster(g) == [kind |-> field, members |-> g, first |-> FirstFetched(g)]
<1>1. UNION {i.on : i \in detectDuplicateField(field, type)} = Spared
  <2>1. \A i \in detectDuplicateField(field, type) :
          \E g \in DuplicateGroups(field) : \E u \in g \ {FirstFetched(g)} : i.on = {u}
    BY DEF detectDuplicateField, GlobalIssue, Row
  <2>2. ASSUME NEW g \in DuplicateGroups(field), NEW u \in g \ {FirstFetched(g)}
        PROVE  \E i \in detectDuplicateField(field, type) : i.on = {u}
    <3>1. GlobalIssue(type, u, {}) \in detectDuplicateField(field, type)
      BY DEF detectDuplicateField
    <3>2. GlobalIssue(type, u, {}).on = {u}
      BY DEF GlobalIssue, Row
    <3> QED
      BY <3>1, <3>2
  <2> QED
    BY <2>1, <2>2
<1>2. ASSUME NEW c \in CanonicalClusters \cup DuplicateClusters, c.kind = field
      PROVE  \E g \in DuplicateGroups(field) : c = cluster(g)
  <2>1. c \notin CanonicalClusters
    <3>1. ASSUME c \in CanonicalClusters PROVE c.kind = "canonical"
      <4>1. \E u : c = [kind |-> "canonical",
                        members |-> {v \in DOMAIN pages : pages[v].canonical = {u}},
                        first |-> u, code |-> LatestCode(u),
                        selfReferencing |-> u \in DOMAIN urls]
        BY <3>1, Zenon DEF CanonicalClusters
      <4>2. PICK m, u, k, self :
              c = [kind |-> "canonical", members |-> m, first |-> u, code |-> k,
                   selfReferencing |-> self]
        BY <4>1, Zenon
      <4> QED
        BY <4>2
    <3> QED
      BY <1>2, <3>1
  <2>2. c \in DuplicateClusters
    BY <2>1
  <2>3. PICK f \in {"hash", "title", "description"} :
          \E g \in DuplicateGroups(f) :
            c = [kind |-> f, members |-> g, first |-> FirstFetched(g)]
    BY <2>2 DEF DuplicateClusters
  <2> QED
    BY <1>2, <2>3
<1>3. ASSUME NEW g \in DuplicateGroups(field)
      PROVE  cluster(g) \in DuplicateClusters
  BY DEF DuplicateClusters
<1>4. \A g : cluster(g).kind = field /\ cluster(g).members = g /\ cluster(g).first = FirstFetched(g)
  OBVIOUS
<1> HIDE DEF cluster
<1>5. {c \in CanonicalClusters \cup DuplicateClusters : c.kind = field}
        = {cluster(g) : g \in DuplicateGroups(field)}
  BY <1>2, <1>3, <1>4
<1>6. {c.members \ {c.first} : c \in {cluster(g) : g \in DuplicateGroups(field)}}
        = {g \ {FirstFetched(g)} : g \in DuplicateGroups(field)}
  BY <1>4
<1> QED
  BY <1>1, <1>5, <1>6

\* In a report whose phases all ran, the duplicates that are reported as issues are those of the
\* clusters.
THEOREM ClustersAgree == Spec => []ClustersMatchIssues
<1>1. ASSUME ReportInv PROVE ClustersMatchIssues
  <2> SUFFICES ASSUME Done, failures = {},
                      NEW pair \in {<<"hash", "duplicate_content">>, <<"title", "duplicate_title">>,
                                    <<"description", "duplicate_description">>}
               PROVE  UNION {i.on : i \in {x \in issues : x.type = pair[2]}}
                        = UNION {c.members \ {c.first} : c \in {x \in clusters : x.kind = pair[1]}}
    BY DEF ClustersMatchIssues
  <2>1. /\ detector = 30 /\ clusters = CanonicalClusters \cup DuplicateClusters
        /\ \A d \in SiteDetectors : RowsOf(d) = Detected(d)
    BY <1>1 DEF ReportInv, Done, Reporting, NumDetectors, SiteDetectors
  <2>2. {x \in issues : x.type = pair[2]} = detectDuplicateField(pair[1], pair[2])
    <3>1. CASE pair = <<"hash", "duplicate_content">>
      <4>1. RowsOf(3) = {x \in issues : x.type = "duplicate_content"}
        BY DEF RowsOf, SiteTypesOf
      <4> QED
        BY <2>1, <3>1, <4>1 DEF SiteDetectors, Detected
    <3>2. CASE pair = <<"title", "duplicate_title">>
      <4>1. RowsOf(1) = {x \in issues : x.type = "duplicate_title"}
        BY DEF RowsOf, SiteTypesOf
      <4> QED
        BY <2>1, <3>2, <4>1 DEF SiteDetectors, Detected
    <3>3. CASE pair = <<"description", "duplicate_description">>
      <4>1. RowsOf(2) = {x \in issues : x.type = "duplicate_description"}
        BY DEF RowsOf, SiteTypesOf
      <4> QED
        BY <2>1, <3>3, <4>1 DEF SiteDetectors, Detected
    <3> QED
      BY <3>1, <3>2, <3>3
  <2>3. pair[1] \in {"hash", "title", "description"}
    OBVIOUS
  <2> QED
    BY <2>1, <2>2, <2>3, DuplicatesAgree
<1> QED
  BY WebInit, WebStep, CallsInit, CallsStep, DetectionInit, DetectionStep, PagesInit, PagesStep,
     DepthInit, DepthStep, ReportInit, ReportStep, <1>1, PTL DEF Spec

\* In a report whose phases all ran, a page is an orphan exactly when no stored internal link of
\* any pass leads to it and it is not a seed.
THEOREM OrphansExact == Spec => []OrphansUnlinked
<1>1. ASSUME EdgesInv, CountInv, ReportInv PROVE OrphansUnlinked
  <2> SUFFICES ASSUME Done, failures = {}, NEW u \in DOMAIN pages
               PROVE  (\E i \in issues : i.type = "orphan_page" /\ i.on = {u})
                        <=> /\ urls[u].via # "seed"
                            /\ ~\E e \in InternalLinks : e.target = u
    BY DEF OrphansUnlinked
  <2>1. {i \in issues : i.type = "orphan_page"} = detectOrphanPages
    <3>1. RowsOf(6) = Detected(6)
      BY <1>1 DEF ReportInv, Done, Reporting, NumDetectors, SiteDetectors
    <3>2. RowsOf(6) = {i \in issues : i.type = "orphan_page"}
      BY DEF RowsOf, SiteTypesOf
    <3> QED
      BY <3>1, <3>2 DEF Detected
  <2>2. (\E i \in detectOrphanPages : i.on = {u}) <=> pages[u].inbound = 0 /\ urls[u].via # "seed"
    <3>1. \A v : GlobalIssue("orphan_page", v, {}).on = {v}
      BY DEF GlobalIssue, Row
    <3>2. ASSUME NEW i \in detectOrphanPages, i.on = {u}
          PROVE  pages[u].inbound = 0 /\ urls[u].via # "seed"
      <4>1. PICK v \in DOMAIN pages : /\ pages[v].inbound = 0 /\ urls[v].via # "seed"
                                      /\ i = GlobalIssue("orphan_page", v, {})
        BY DEF detectOrphanPages
      <4>2. v = u
        BY <3>1, <3>2, <4>1
      <4> QED
        BY <4>1, <4>2
    <3>3. ASSUME pages[u].inbound = 0, urls[u].via # "seed"
          PROVE  GlobalIssue("orphan_page", u, {}) \in detectOrphanPages
      BY <3>3 DEF detectOrphanPages
    <3> QED
      BY <3>1, <3>2, <3>3
  <2>3. pages[u].inbound = Cardinality(LinksTo(u))
    BY <1>1 DEF CountInv, Counted, Done
  <2>4. IsFiniteSet(LinksTo(u))
    BY <1>1, FS_Subset DEF EdgesInv, LinksTo, InternalLinks
  <2>5. pages[u].inbound = 0 <=> LinksTo(u) = {}
    BY <2>3, <2>4, FS_EmptySet
  <2>6. LinksTo(u) = {} <=> ~\E e \in InternalLinks : e.target = u
    BY DEF LinksTo
  <2> QED
    BY <2>1, <2>2, <2>5, <2>6
<1> QED
  BY WebInit, WebStep, CallsInit, CallsStep, DetectionInit, DetectionStep, PagesInit, PagesStep,
     DepthInit, DepthStep, EdgesInit, EdgesStep, CountInit, CountStep, ReportInit, ReportStep,
     <1>1, PTL DEF Spec

-----------------------------------------------------------------------------
(* Missing content.                                                         *)

\* Stored pages have a number of words, and an issue about missing content is on a stored page
\* that lacks it.
ContentInv ==
    /\ \A u \in DOMAIN pages : pages[u].words \in Nat
    /\ \A i \in issues : i.scope = "page_local" /\ i.type \in ContentTypes =>
         \E u \in DOMAIN pages :
           i.on = {u} /\ Lacks(i.type, pages[u].h1, pages[u].h2, pages[u].words)

\* There is no page and no issue at the start.
LEMMA ContentInit == Init => ContentInv
  BY DEF Init, InitWith, ContentInv

\* A step that adds no issue of that kind and leaves the stored contents as they are.
LEMMA ContentKept ==
    ASSUME ContentInv,
           \A i \in issues' \ issues : ~(i.scope = "page_local" /\ i.type \in ContentTypes),
           DOMAIN pages' = DOMAIN pages,
           \A u \in DOMAIN pages :
             /\ pages'[u].h1 = pages[u].h1 /\ pages'[u].h2 = pages[u].h2
             /\ pages'[u].words = pages[u].words
    PROVE  ContentInv'
<1>1. \A u \in DOMAIN pages' : pages'[u].words \in Nat
  BY DEF ContentInv
<1>2. ASSUME NEW i \in issues', i.scope = "page_local", i.type \in ContentTypes
      PROVE  \E u \in DOMAIN pages' :
               i.on = {u} /\ Lacks(i.type, pages'[u].h1, pages'[u].h2, pages'[u].words)
  <2>1. i \in issues
    BY <1>2
  <2>2. PICK u \in DOMAIN pages :
          i.on = {u} /\ Lacks(i.type, pages[u].h1, pages[u].h2, pages[u].words)
    BY <1>2, <2>1 DEF ContentInv
  <2> QED
    BY <2>2
<1> QED
  BY <1>1, <1>2 DEF ContentInv

\* A page whose row takes what a browser rendered keeps none of the issues that are invalid now.
LEMMA ContentRendered ==
    ASSUME PagesInv, ContentInv, NEW u, NEW page, IsPage(page),
           pages' = [pages EXCEPT ![u] = Enriched(@, page)], issues' = IssuesWithout(u, page)
    PROVE  ContentInv'
<1>1. /\ DOMAIN pages' = DOMAIN pages
      /\ \A v \in DOMAIN pages : v # u => pages'[v] = pages[v]
      /\ u \in DOMAIN pages => /\ pages'[u].h1 = page.h1 /\ pages'[u].h2 = page.h2
                               /\ pages'[u].words = page.words
  BY DEF Enriched, PagesInv, PageColumns
<1>2. page.words \in Nat
  BY DEF IsPage
<1>3. \A v \in DOMAIN pages' : pages'[v].words \in Nat
  BY <1>1, <1>2 DEF ContentInv
<1>4. ASSUME NEW i \in issues', i.scope = "page_local", i.type \in ContentTypes
      PROVE  \E v \in DOMAIN pages' :
               i.on = {v} /\ Lacks(i.type, pages'[v].h1, pages'[v].h2, pages'[v].words)
  <2>1. i \in issues /\ ~(i.on = {u} /\ i.type \in Invalidated(page))
    BY <1>4 DEF IssuesWithout
  <2>2. PICK v \in DOMAIN pages :
          i.on = {v} /\ Lacks(i.type, pages[v].h1, pages[v].h2, pages[v].words)
    BY <1>4, <2>1 DEF ContentInv
  <2>3. CASE v # u
    BY <1>1, <2>2, <2>3
  <2>4. CASE v = u
    <3>1. Lacks(i.type, page.h1, page.h2, page.words)
      BY <1>2, <2>1, <2>2, <2>4, ThresholdsAreNumbers DEF Invalidated, Lacks
    <3> QED
      BY <1>1, <2>2, <2>4, <3>1
  <2> QED
    BY <2>3, <2>4
<1> QED
  BY <1>3, <1>4 DEF ContentInv

\* A new page has the issues its content asks for; a page that is stored already keeps its
\* content and gets no issue about it.
LEMMA ContentVisited ==
    ASSUME WebInv, PagesInv, ContentInv, NEW i, NEW r, NEW p, NEW slow, Visit(i, r, p, slow)
    PROVE  ContentInv'
<1> DEFINE at == FiledUnder(i.url, r)
           kept == KeptIssues(r, at, PageLocalTypes(i, r))
           row == PageRow(r.page, fetchSeq + 1, i.depth)
<1>1. /\ issues' = issues \cup slow \cup p.traps \cup kept
      /\ pages' = IF Analyzable(r) THEN Inserted(pages, OneRow(at, row)) ELSE pages
  BY DEF Visit, Persist
<1>2. \A x \in slow : x.type \notin ContentTypes
  BY DEF Visit, Row, ContentTypes
<1>3. ASSUME NEW x \in p.traps PROVE x.type \notin ContentTypes
  <2>1. PICK u : x = SiteIssue("crawl_trap_suspected", {u})
    BY DEF Visit, Expanded
  <2> QED
    BY <2>1 DEF SiteIssue, Row, ContentTypes
<1>4. ASSUME NEW x \in kept, x.type \in ContentTypes
      PROVE  /\ Analyzable(r) /\ at \notin DOMAIN pages /\ x.on = {at}
             /\ Lacks(x.type, r.page.h1, r.page.h2, r.page.words)
  <2>1. PICK t : /\ x = PageIssue(t, at) /\ t \in PageLocalTypes(i, r)
                 /\ IsNew(r, at) \/ t \in FetchOnlyIssues
    BY DEF KeptIssues
  <2>2. x.type = t /\ x.on = {at}
    BY <2>1 DEF PageIssue, Row
  <2>3. t \in ContentTypes
    BY <1>4, <2>2
  <2>4. IsNew(r, at) /\ t # "rate_limited"
    BY <2>1, <2>3 DEF FetchOnlyIssues, ContentTypes
  <2>5. Analyzable(r) /\ t \in DetectPageLocalIssues(Context(i, r, Built(i, r)))
    BY <2>1, <2>4 DEF PageLocalTypes
  <2>6. Lacks(t, r.page.h1, r.page.h2, r.page.words)
    BY <2>5, PageLocalTypesKnown DEF Context
  <2> QED
    BY <2>2, <2>4, <2>5, <2>6 DEF IsNew
<1>5. CASE Analyzable(r) /\ at \notin DOMAIN pages
  <2>1. /\ DOMAIN pages' = DOMAIN pages \cup {at}
        /\ \A u \in DOMAIN pages : pages'[u] = pages[u]
        /\ pages'[at] = row
    BY <1>1, <1>5 DEF Inserted, OneRow
  <2>2. row.h1 = r.page.h1 /\ row.h2 = r.page.h2 /\ row.words = r.page.words
    BY DEF PageRow
  <2>3. r.page.words \in Nat
    BY <1>5, PagesFinite DEF Visit, Analyzable, IsPage
  <2>4. \A u \in DOMAIN pages' : pages'[u].words \in Nat
    BY <2>1, <2>2, <2>3 DEF ContentInv
  <2>5. ASSUME NEW x \in issues', x.scope = "page_local", x.type \in ContentTypes
        PROVE  \E u \in DOMAIN pages' :
                 x.on = {u} /\ Lacks(x.type, pages'[u].h1, pages'[u].h2, pages'[u].words)
    <3> HIDE DEF kept, row
    <3>1. CASE x \in issues
      <4>1. PICK u \in DOMAIN pages :
              x.on = {u} /\ Lacks(x.type, pages[u].h1, pages[u].h2, pages[u].words)
        BY <2>5, <3>1 DEF ContentInv
      <4> QED
        BY <2>1, <4>1
    <3>2. CASE x \in kept
      <4>1. x.on = {at} /\ Lacks(x.type, r.page.h1, r.page.h2, r.page.words)
        BY <1>4, <2>5, <3>2
      <4> QED
        BY <2>1, <2>2, <4>1
    <3> QED
      BY <1>1, <1>2, <1>3, <2>5, <3>1, <3>2
  <2> QED
    BY <2>4, <2>5 DEF ContentInv
<1>6. CASE ~(Analyzable(r) /\ at \notin DOMAIN pages)
  <2>1. DOMAIN pages' = DOMAIN pages /\ \A u \in DOMAIN pages : pages'[u] = pages[u]
    BY <1>1, <1>6 DEF Inserted, OneRow
  <2>2. \A x \in issues' \ issues : x.type \notin ContentTypes
    <3> HIDE DEF kept
    <3> QED
      BY <1>1, <1>2, <1>3, <1>4, <1>6
  <2> QED
    BY <2>1, <2>2, ContentKept
<1> QED
  BY <1>5, <1>6

\* What each step does to the contents and to the issues about them.
LEMMA ContentStep ==
    ASSUME WebInv, PagesInv, DetectionInv, ContentInv, [Next]_vars
    PROVE  ContentInv'
<1> USE DEF tables, progress, report, counters, RowsBeside
<1>1. ASSUME UNCHANGED pages, issues' \subseteq issues PROVE ContentInv'
  BY <1>1, ContentKept
<1>2. CASE SitemapEntry
  BY <1>1, <1>2 DEF SitemapEntry, AdmitEntry, OnboardEntryHost, EnqueueEntry, OnboardReturns
<1>3. CASE OnboardSeedHost \/ StartCrawl \/ Dispatch \/ DropOutOfScope \/ OnboardVisited
           \/ SkipVisit \/ FetchFails \/ PipelineEnds \/ PipelineFails
  BY <1>1, <1>3 DEF OnboardSeedHost, StartCrawl, Dispatch, DropOutOfScope, OnboardVisited,
                    SkipVisit, FetchFails, PipelineEnds, PipelineFails
<1>4. CASE FetchAndAnalyze
  BY <1>4, Visited, ContentVisited
<1>5. CASE RenderKeyPage
  <2>1. PICK u \in todo :
          \/ UNCHANGED <<pages, issues>>
          \/ u \in DOMAIN web.menus /\ UpdateGapPage(u, web.menus[u].page)
    BY <1>5 DEF RenderKeyPage
  <2>2. CASE u \in DOMAIN web.menus /\ UpdateGapPage(u, web.menus[u].page)
    <3> DEFINE page == web.menus[u].page
    <3>1. IsPage(page) /\ page.words \in Nat
      BY <2>2, PagesFinite DEF IsPage
    <3>2. CASE u \in DOMAIN pages /\ page.words > pages[u].words
      <4>1. page.words > 0
        BY <3>1, <3>2 DEF ContentInv
      <4> QED
        BY <2>2, <3>1, <3>2, <4>1, ContentRendered DEF UpdateGapPage
    <3>3. CASE ~(u \in DOMAIN pages /\ page.words > pages[u].words)
      BY <1>1, <2>2, <3>3 DEF UpdateGapPage, IssuesWithout
    <3> QED
      BY <3>2, <3>3
  <2> QED
    BY <1>1, <2>1, <2>2
<1>6. CASE EnrichPage
  <2>1. PICK u \in todo :
          \/ UNCHANGED <<pages, issues>>
          \/ /\ u \in DOMAIN web.contents
             /\ pages' = [pages EXCEPT ![u] = Enriched(@, web.contents[u].page)]
             /\ issues' = IssuesWithout(u, web.contents[u].page)
    BY <1>6 DEF EnrichPage
  <2>2. CASE UNCHANGED <<pages, issues>>
    BY <1>1, <2>2
  <2>3. CASE ~UNCHANGED <<pages, issues>>
    BY <2>1, <2>3, PagesFinite, ContentRendered
  <2> QED
    BY <2>2, <2>3
<1>7. CASE StartGapEscalation \/ EndGapEscalation \/ QueueBrowserDiscovered \/ StartEnrich
           \/ EndEnrich
  BY <1>1, <1>7 DEF StartGapEscalation, EndGapEscalation, QueueBrowserDiscovered, StartEnrich,
                    EndEnrich
<1>8. CASE HeadCheckAssets \/ StartHTTPAudit \/ AuditHTTPHost \/ EndHTTPAudit \/ RunAudits
  BY <1>1, <1>8 DEF HeadCheckAssets, StartHTTPAudit, AuditHTTPHost, EndHTTPAudit, RunAudits
<1>9. CASE CheckMarkdown
  <2>1. UNCHANGED pages /\ \A i \in issues' \ issues : i.type \notin ContentTypes
    BY <1>9 DEF CheckMarkdown, Row, ContentTypes
  <2> QED
    BY <2>1, ContentKept
<1>10. CASE CheckText
  <2>1. \A category : TextIssueType(category) \notin ContentTypes
    BY DEF TextIssueType, ContentTypes
  <2>2. UNCHANGED pages /\ \A i \in issues' \ issues :
                             \E category, u : i = PageIssue(TextIssueType(category), u)
    BY <1>10 DEF CheckText
  <2>3. \A i \in issues' \ issues : i.type \notin ContentTypes
    BY <2>1, <2>2 DEF PageIssue, Row
  <2> QED
    BY <2>2, <2>3, ContentKept
<1>11. CASE RecalculateCounts
  <2>1. /\ DOMAIN pages' = DOMAIN pages /\ issues' = issues
        /\ \A u \in DOMAIN pages :
             /\ pages'[u].h1 = pages[u].h1 /\ pages'[u].h2 = pages[u].h2
             /\ pages'[u].words = pages[u].words
    BY <1>11 DEF RecalculateCounts, CountsOver, PagesInv, PageColumns
  <2> QED
    BY <2>1, ContentKept
<1>12. CASE RecomputeDepths
  <2>1. /\ DOMAIN pages' = DOMAIN pages /\ issues' = issues
        /\ \A u \in DOMAIN pages :
             /\ pages'[u].h1 = pages[u].h1 /\ pages'[u].h2 = pages[u].h2
             /\ pages'[u].words = pages[u].words
    BY <1>12 DEF RecomputeDepths, DepthsOver, PagesInv, PageColumns
  <2> QED
    BY <2>1, ContentKept
<1>13. CASE StartDetection \/ MaterializeAndCount \/ Finalize
  BY <1>1, <1>13 DEF StartDetection, MaterializeAndCount, Finalize
<1>14. CASE RunDetector
  <2>1. detector \in 1..NumDetectors /\ issues' = issues \cup Detected(detector) /\ UNCHANGED pages
    BY <1>14 DEF RunDetector
  <2>2. \A i \in issues' \ issues : i.scope = "global"
    BY <2>1, DetectedKnown
  <2> QED
    BY <2>1, <2>2, ContentKept
<1>15. CASE DetectorFails
  <2>1. UNCHANGED pages /\ \A i \in issues' \ issues : i.scope = "global"
    BY <1>15 DEF DetectorFails, RestoreGlobalIssues, DetectionInv
  <2> QED
    BY <2>1, ContentKept
<1>16. CASE UNCHANGED vars
  BY <1>1, <1>16 DEF vars
<1> QED
  BY <1>2, <1>3, <1>4, <1>5, <1>6, <1>7, <1>8, <1>9, <1>10, <1>11, <1>12, <1>13, <1>14, <1>15,
     <1>16 DEF Next, Crawl, Browse, Audit, Report

\* A page whose stored content has a heading or enough words never carries the issue that says it
\* has none, whatever the browser passes found.
THEOREM NothingStale == Spec => []NoStaleMissing
<1>1. ASSUME ContentInv PROVE NoStaleMissing
  <2> SUFFICES ASSUME NEW u \in DOMAIN pages, NEW type \in ContentTypes,
                      PageIssue(type, u) \in issues
               PROVE  Lacks(type, pages[u].h1, pages[u].h2, pages[u].words)
                        /\ pages[u].words \in Nat
    BY ThresholdsAreNumbers DEF NoStaleMissing, Lacks, ContentTypes
  <2>1. PageIssue(type, u).scope = "page_local" /\ PageIssue(type, u).type = type
        /\ PageIssue(type, u).on = {u}
    BY DEF PageIssue, Row
  <2>2. PICK v \in DOMAIN pages : /\ PageIssue(type, u).on = {v}
                                  /\ Lacks(type, pages[v].h1, pages[v].h2, pages[v].words)
    BY <1>1, <2>1 DEF ContentInv
  <2>3. v = u
    BY <2>1, <2>2
  <2> QED
    BY <1>1, <2>2, <2>3 DEF ContentInv
<1> QED
  BY WebInit, WebStep, PagesInit, PagesStep, DetectionInit, DetectionStep, ContentInit,
     ContentStep, <1>1, PTL DEF Spec

-----------------------------------------------------------------------------
(* The tables refer to one another.                                         *)

\* Every row of a table of URLs has its three columns and a status that means something.
GoodRows(table) ==
    \A u \in DOMAIN table : /\ DOMAIN table[u] = {"status", "internal", "via"}
                            /\ table[u].status \in Statuses

\* The URL table, the queue and what a worker holds.
FrontierInv ==
    /\ GoodRows(urls)
    /\ queued \subseteq DOMAIN urls
    /\ \A i \in queue \cup visiting : i.url \in queued
    /\ phase \notin {"crawl", "finalize", "done"} => visiting = {}

\* A table of URLs with one more row.
LEMMA RowAdded ==
    ASSUME NEW table, GoodRows(table), NEW u, NEW row,
           DOMAIN row = {"status", "internal", "via"}, row.status \in Statuses
    PROVE  LET next == Inserted(table, OneRow(u, row))
           IN  GoodRows(next) /\ DOMAIN table \subseteq DOMAIN next /\ u \in DOMAIN next
<1> DEFINE next == Inserted(table, OneRow(u, row))
<1>1. /\ DOMAIN next = DOMAIN table \cup {u}
      /\ \A v \in DOMAIN next : next[v] = IF v \in DOMAIN table THEN table[v] ELSE row
  BY DEF Inserted, OneRow
<1> HIDE DEF next
<1>2. GoodRows(next)
  BY <1>1 DEF GoodRows
<1>3. DOMAIN table \subseteq DOMAIN next /\ u \in DOMAIN next
  BY <1>1
<1> QED
  BY <1>2, <1>3 DEF next

\* New rows of a table of URLs are complete when they are made by an upsert, a discovery or a
\* change of status, and no row is lost.
LEMMA RowsUpserted ==
    ASSUME NEW table, GoodRows(table), NEW u, NEW status \in Statuses, NEW via
    PROVE  /\ GoodRows(UpsertURL(table, u, status, TRUE, via))
           /\ DOMAIN table \subseteq DOMAIN UpsertURL(table, u, status, TRUE, via)
           /\ u \in DOMAIN UpsertURL(table, u, status, TRUE, via)
           /\ GoodRows(UpsertURL(table, u, status, IsInScope(u), via))
           /\ DOMAIN table \subseteq DOMAIN UpsertURL(table, u, status, IsInScope(u), via)
           /\ u \in DOMAIN UpsertURL(table, u, status, IsInScope(u), via)
<1> DEFINE row == [status |-> status, internal |-> TRUE, via |-> via]
           scoped == [status |-> status, internal |-> IsInScope(u), via |-> via]
<1>1. /\ DOMAIN row = {"status", "internal", "via"} /\ row.status = status
      /\ DOMAIN scoped = {"status", "internal", "via"} /\ scoped.status = status
  OBVIOUS
<1>2. /\ UpsertURL(table, u, status, TRUE, via) = Inserted(table, OneRow(u, row))
      /\ UpsertURL(table, u, status, IsInScope(u), via) = Inserted(table, OneRow(u, scoped))
  BY Zenon DEF UpsertURL
<1> DEFINE one == Inserted(table, OneRow(u, row))
           other == Inserted(table, OneRow(u, scoped))
<1> HIDE DEF row, scoped
<1>3. GoodRows(one) /\ DOMAIN table \subseteq DOMAIN one /\ u \in DOMAIN one
  BY <1>1, RowAdded
<1>4. GoodRows(other) /\ DOMAIN table \subseteq DOMAIN other /\ u \in DOMAIN other
  BY <1>1, RowAdded
<1> QED
  BY <1>2, <1>3, <1>4

\* The same of a discovery.
LEMMA RowsDiscovered ==
    ASSUME NEW table, GoodRows(table), NEW us, NEW internal, NEW via
    PROVE  /\ GoodRows(Discover(table, us, internal, via))
           /\ DOMAIN table \subseteq DOMAIN Discover(table, us, internal, via)
           /\ us \subseteq DOMAIN Discover(table, us, internal, via)
<1> DEFINE rows == [u \in us |-> [status |-> "discovered", internal |-> u \in internal, via |-> via]]
           next == Discover(table, us, internal, via)
<1>1. /\ DOMAIN rows = us
      /\ \A u \in us : DOMAIN rows[u] = {"status", "internal", "via"} /\ rows[u].status \in Statuses
  BY DEF Statuses
<1> HIDE DEF rows
<1>2. /\ DOMAIN next = DOMAIN table \cup us
      /\ \A v \in DOMAIN next : next[v] = IF v \in DOMAIN table THEN table[v] ELSE rows[v]
  BY <1>1, Zenon DEF Discover, Inserted, rows
<1> HIDE DEF next
<1>3. GoodRows(next)
  BY <1>1, <1>2 DEF GoodRows
<1>4. DOMAIN table \subseteq DOMAIN next /\ us \subseteq DOMAIN next
  BY <1>2
<1> QED
  BY <1>3, <1>4 DEF next

\* The same of a change of status.
LEMMA RowsSet ==
    ASSUME NEW table, GoodRows(table), NEW u, NEW status \in Statuses
    PROVE  /\ GoodRows(SetStatus(table, u, status))
           /\ DOMAIN SetStatus(table, u, status) = DOMAIN table
  BY DEF GoodRows, SetStatus

\* The URLs that a visit adds to the table, and the rows it leaves there.
LEMMA RowsVisited ==
    ASSUME GoodRows(urls), NEW i, NEW r, NEW p, NEW slow, Visit(i, r, p, slow), i.url \in DOMAIN urls
    PROVE  /\ GoodRows(urls')
           /\ DOMAIN urls \cup DOMAIN p.urls \cup {FiledUnder(i.url, r)} \subseteq DOMAIN urls'
           /\ \A e \in NewEdges(r, FiledUnder(i.url, r), p.kept) : e.target \in DOMAIN urls'
           /\ \A x \in NewRefs(r, FiledUnder(i.url, r)) : x.asset \in DOMAIN urls'
<1> DEFINE fetched == SetStatus(urls, i.url, "fetched")
           at == FiledUnder(i.url, r)
           landed == Landed(p.urls, i.url, at)
           targets == {e.target : e \in NewEdges(r, at, p.kept)}
           files == {x.asset : x \in NewRefs(r, at)}
           linked == Discover(landed, targets, InScope(targets), "link")
<1>1. GoodRows(fetched) /\ DOMAIN fetched = DOMAIN urls
  BY RowsSet DEF Statuses
<1>2. GoodRows(p.urls) /\ DOMAIN urls \subseteq DOMAIN p.urls
  <2> DEFINE row == [status |-> "queued", internal |-> TRUE, via |-> "link"]
  <2>1. DOMAIN row = {"status", "internal", "via"} /\ row.status \in Statuses
    BY DEF Statuses
  <2>2. /\ DOMAIN fetched \subseteq DOMAIN p.urls
        /\ \A u \in DOMAIN fetched : p.urls[u] = fetched[u]
        /\ \A u \in DOMAIN p.urls \ DOMAIN fetched : p.urls[u] = row
    BY DEF Visit, Expanded
  <2> HIDE DEF row, fetched
  <2> QED
    BY <1>1, <2>1, <2>2 DEF GoodRows
<1>3. GoodRows(landed) /\ DOMAIN p.urls \subseteq DOMAIN landed /\ at \in DOMAIN landed
  <2>1. CASE at = i.url
    BY <1>2, <2>1 DEF Landed
  <2>2. CASE at # i.url
    <3> DEFINE status == IF IsInScope(at) THEN "fetched" ELSE "out_of_scope"
    <3>1. status \in Statuses
      BY DEF Statuses
    <3>2. landed = UpsertURL(p.urls, at, status, IsInScope(at), "redirect")
      BY <2>2 DEF Landed
    <3> HIDE DEF landed, status, at
    <3> QED
      BY <1>2, <3>1, <3>2, RowsUpserted
  <2> QED
    BY <2>1, <2>2
<1>4. GoodRows(linked) /\ DOMAIN landed \subseteq DOMAIN linked /\ targets \subseteq DOMAIN linked
  <2> HIDE DEF landed, targets
  <2> QED
    BY <1>3, RowsDiscovered
<1>5. urls' = Discover(linked, files, InScope(files), "asset")
  BY DEF Visit, Persist
<1> HIDE DEF linked, files
<1>6. GoodRows(urls') /\ DOMAIN linked \subseteq DOMAIN urls' /\ files \subseteq DOMAIN urls'
  BY <1>4, <1>5, RowsDiscovered
<1> QED
  BY <1>2, <1>3, <1>4, <1>6 DEF files

\* Each table's rows refer to URLs that have a row, and a page to the fetch it was made from.
TablesInv ==
    /\ \A e \in edges : e.source \in DOMAIN urls /\ e.target \in DOMAIN urls
    /\ \A f \in fetches : f.url \in DOMAIN urls /\ f.final \in DOMAIN urls
    /\ DOMAIN pages \subseteq DOMAIN urls
    /\ \A u \in DOMAIN pages : \E f \in fetches : f.seq = pages[u].fetch /\ f.final = u
    /\ DOMAIN assets \subseteq DOMAIN urls
    /\ \A r \in refs : r.asset \in DOMAIN urls /\ r.page \in DOMAIN urls
    /\ \A i \in issues \cup saved : i.on \subseteq DOMAIN urls
    /\ phase = "gapRender" => todo \subseteq DOMAIN urls
    /\ phase = "enrichPages" => todo \subseteq DOMAIN pages

\* What the audit of a host's insecure root stores.
Audited(u, final, code, status) ==
    LET known == UpsertURL(urls, u, "queued", TRUE, "http_https_audit")
        answered == SetStatus(known, u, status)
    IN  /\ urls' = IF final = u THEN answered
                   ELSE UpsertURL(answered, final, "fetched", IsInScope(final),
                                  "http_https_audit")
        /\ fetches' = fetches \cup
                        {[seq |-> fetchSeq + 1, url |-> u, final |-> final,
                          code |-> code, kind |-> "http_https_audit"]}

\* An answer or a failure is stored.
LEMMA HostAudited ==
    ASSUME AuditHTTPHost
    PROVE  \E u, final, code : \E status \in {"fetched", "errored"} :
             Audited(u, final, code, status)
  BY DEF AuditHTTPHost, Audited

\* ... and the URLs that it adds.
LEMMA HostAuditedRows ==
    ASSUME GoodRows(urls), AuditHTTPHost
    PROVE  /\ GoodRows(urls') /\ DOMAIN urls \subseteq DOMAIN urls'
           /\ \A f \in fetches' \ fetches : f.url \in DOMAIN urls' /\ f.final \in DOMAIN urls'
<1>1. PICK u, final, code : \E status \in {"fetched", "errored"} : Audited(u, final, code, status)
  BY HostAudited
<1>0. PICK status \in {"fetched", "errored"} : Audited(u, final, code, status)
  BY <1>1
<1> DEFINE known == UpsertURL(urls, u, "queued", TRUE, "http_https_audit")
           answered == SetStatus(known, u, status)
           last == UpsertURL(answered, final, "fetched", IsInScope(final), "http_https_audit")
<1>2. {"queued", "fetched"} \subseteq Statuses /\ status \in Statuses
  BY DEF Statuses
<1>3. GoodRows(known) /\ DOMAIN urls \subseteq DOMAIN known /\ u \in DOMAIN known
  BY <1>2, RowsUpserted
<1>4. /\ urls' = IF final = u THEN answered ELSE last
      /\ \A f \in fetches' \ fetches : f.url = u /\ f.final = final
  BY <1>0 DEF Audited
<1>5. GoodRows(answered) /\ DOMAIN answered = DOMAIN known
  <2> HIDE DEF known
  <2> QED
    BY <1>2, <1>3, RowsSet
<1>6. GoodRows(last) /\ DOMAIN answered \subseteq DOMAIN last /\ final \in DOMAIN last
  <2> HIDE DEF answered
  <2> QED
    BY <1>2, <1>5, RowsUpserted
<1> HIDE DEF last, answered, known
<1> QED
  BY <1>3, <1>4, <1>5, <1>6

\* The table of URLs only grows.
LEMMA UrlsGrow ==
    ASSUME WebInv, FrontierInv, [Next]_vars
    PROVE  GoodRows(urls') /\ DOMAIN urls \subseteq DOMAIN urls'
<1> USE DEF tables, progress, report, counters, RowsBeside
<1>0. GoodRows(urls) /\ \A i \in visiting : i.url \in DOMAIN urls
  BY DEF FrontierInv
<1>1. CASE UNCHANGED urls
  BY <1>0, <1>1
<1>2. CASE SitemapEntry
  <2>1. \/ UNCHANGED urls
        \/ \E u : urls' = UpsertURL(urls, u, "queued", TRUE, "sitemap")
    BY <1>2 DEF SitemapEntry, AdmitEntry, OnboardEntryHost, EnqueueEntry, OnboardReturns
  <2>2. "queued" \in Statuses
    BY DEF Statuses
  <2> QED
    BY <1>0, <1>1, <2>1, <2>2, RowsUpserted
<1>3. CASE OnboardSeedHost \/ StartCrawl \/ Dispatch \/ DropOutOfScope \/ OnboardVisited
           \/ PipelineEnds \/ PipelineFails
  BY <1>1, <1>3 DEF OnboardSeedHost, StartCrawl, Dispatch, DropOutOfScope, OnboardVisited,
                    PipelineEnds, PipelineFails
<1>4. CASE SkipVisit \/ FetchFails
  <2>1. \E i \in visiting : \E status \in {"skipped_budget", "robots_blocked", "errored"} :
          urls' = SetStatus(urls, i.url, status)
    BY <1>4 DEF SkipVisit, FetchFails
  <2>2. {"skipped_budget", "robots_blocked", "errored"} \subseteq Statuses
    BY DEF Statuses
  <2> QED
    BY <1>0, <2>1, <2>2, RowsSet
<1>5. CASE FetchAndAnalyze
  <2>1. PICK i, r, p, slow : Visit(i, r, p, slow)
    BY <1>5, Visited
  <2>2. i.url \in DOMAIN urls
    BY <1>0, <2>1 DEF Visit
  <2> QED
    BY <1>0, <2>1, <2>2, RowsVisited
<1>6. CASE RenderKeyPage
  <2>1. \/ UNCHANGED urls
        \/ \E us : urls' = Discover(urls, us, us, "browser")
    BY <1>6 DEF RenderKeyPage, AddEdges
  <2> QED
    BY <1>0, <1>1, <2>1, RowsDiscovered
<1>7. CASE EnrichPage
  <2>1. \/ UNCHANGED urls
        \/ \E us, vs : urls' = Discover(Discover(urls, us, us, "browser"), vs, {}, "asset")
    BY <1>7 DEF EnrichPage
  <2>2. ASSUME NEW us, NEW vs,
               urls' = Discover(Discover(urls, us, us, "browser"), vs, {}, "asset")
        PROVE  GoodRows(urls') /\ DOMAIN urls \subseteq DOMAIN urls'
    <3> DEFINE found == Discover(urls, us, us, "browser")
    <3>1. GoodRows(found) /\ DOMAIN urls \subseteq DOMAIN found
      BY <1>0, RowsDiscovered
    <3>2. urls' = Discover(found, vs, {}, "asset")
      BY <2>2
    <3> HIDE DEF found
    <3> QED
      BY <3>1, <3>2, RowsDiscovered
  <2> QED
    BY <1>1, <2>1, <2>2
<1>8. CASE QueueBrowserDiscovered
  <2>1. PICK found : urls' = [u \in DOMAIN urls |-> IF u \in found
                                                     THEN [urls[u] EXCEPT !.status = "queued"]
                                                     ELSE urls[u]]
    BY <1>8, Zenon DEF QueueBrowserDiscovered
  <2>2. "queued" \in Statuses
    BY DEF Statuses
  <2> QED
    BY <1>0, <2>1, <2>2 DEF GoodRows
<1>9. CASE StartGapEscalation \/ EndGapEscalation \/ StartEnrich \/ EndEnrich
  BY <1>1, <1>9 DEF StartGapEscalation, EndGapEscalation, StartEnrich, EndEnrich
<1>10. CASE HeadCheckAssets \/ StartHTTPAudit \/ EndHTTPAudit \/ RunAudits \/ CheckMarkdown
            \/ CheckText
  BY <1>1, <1>10 DEF HeadCheckAssets, StartHTTPAudit, EndHTTPAudit, RunAudits, CheckMarkdown,
                     CheckText
<1>11. CASE AuditHTTPHost
  BY <1>0, <1>11, HostAuditedRows
<1>12. CASE Report
  BY <1>1, <1>12 DEF Report, RecalculateCounts, RecomputeDepths, StartDetection, RunDetector,
                     DetectorFails, MaterializeAndCount, Finalize
<1>13. CASE UNCHANGED vars
  BY <1>1, <1>13 DEF vars
<1> QED
  BY <1>2, <1>3, <1>4, <1>5, <1>6, <1>7, <1>8, <1>9, <1>10, <1>11, <1>12, <1>13
     DEF Next, Crawl, Browse, Audit

\* At the start there are the rows of the seeds, and all of them are queued.
LEMMA FrontierInit == Init => FrontierInv
<1> SUFFICES ASSUME Init PROVE FrontierInv
  OBVIOUS
<1> DEFINE row == [status |-> "queued", internal |-> TRUE, via |-> "seed"]
<1>1. DOMAIN row = {"status", "internal", "via"} /\ row.status \in Statuses
  BY DEF Statuses
<1>2. /\ DOMAIN urls = SeedKeys /\ \A u \in DOMAIN urls : urls[u] = row
      /\ queued = SeedKeys /\ visiting = {}
      /\ \A i \in queue : i.url \in SeedKeys
  BY DEF Init, InitWith
<1> HIDE DEF row
<1> QED
  BY <1>1, <1>2 DEF FrontierInv, GoodRows

\* What is queued or held by a worker has a row.
LEMMA FrontierStep ==
    ASSUME WebInv, FrontierInv, TablesInv, [Next]_vars
    PROVE  FrontierInv'
<1> USE DEF onboarding, tables, progress, report, counters, RowsBeside
<1>0. GoodRows(urls') /\ DOMAIN urls \subseteq DOMAIN urls'
  BY UrlsGrow
<1>1. ASSUME UNCHANGED queued, queue' \cup visiting' \subseteq queue \cup visiting,
             phase' \notin {"crawl", "finalize", "done"} => visiting' = {}
      PROVE  FrontierInv'
  BY <1>0, <1>1 DEF FrontierInv
<1>2. CASE SitemapEntry
  <2>1. UNCHANGED <<visiting, phase>>
    BY <1>2 DEF SitemapEntry
  <2>2. \/ UNCHANGED <<queue, queued>>
        \/ \E u, d : /\ urls' = UpsertURL(urls, u, "queued", TRUE, "sitemap") /\ Push(u, d)
    BY <1>2 DEF SitemapEntry, AdmitEntry, OnboardEntryHost, EnqueueEntry, OnboardReturns
  <2>3. CASE UNCHANGED <<queue, queued>>
    BY <1>1, <2>1, <2>3 DEF FrontierInv
  <2>4. ASSUME NEW u, NEW d, urls' = UpsertURL(urls, u, "queued", TRUE, "sitemap"), Push(u, d)
        PROVE  FrontierInv'
    <3>1. u \in DOMAIN urls'
      BY <2>4, RowsUpserted DEF FrontierInv, Statuses
    <3> DEFINE item == [url |-> u, depth |-> d]
    <3>2. item.url = u
      OBVIOUS
    <3>3. queued' = queued \cup {u} /\ queue' \subseteq queue \cup {item}
      BY <2>4 DEF Push
    <3> HIDE DEF item
    <3> QED
      BY <1>0, <2>1, <3>1, <3>2, <3>3 DEF FrontierInv
  <2> QED
    BY <2>2, <2>3, <2>4
<1>3. CASE OnboardSeedHost \/ StartCrawl \/ OnboardVisited
  BY <1>1, <1>3 DEF OnboardSeedHost, StartCrawl, StartPipeline, OnboardVisited, FrontierInv
<1>4. CASE Dispatch
  BY <1>1, <1>4 DEF Dispatch
<1>5. CASE DropOutOfScope \/ SkipVisit \/ FetchFails
  BY <1>1, <1>5 DEF DropOutOfScope, SkipVisit, FetchFails
<1>6. CASE FetchAndAnalyze
  <2>1. PICK i, r, p, slow : Visit(i, r, p, slow)
    BY <1>6, Visited
  <2>2. /\ queue' = p.queue /\ queued' = p.queued /\ visiting' = {}
        /\ queued \subseteq p.queued /\ p.queued \subseteq queued \cup DOMAIN p.urls
        /\ \A x \in p.queue \ queue : x.url \in p.queued
    BY <2>1 DEF Visit, Expanded
  <2>3. DOMAIN p.urls \subseteq DOMAIN urls'
    BY <2>1, RowsVisited DEF FrontierInv, Visit
  <2> QED
    BY <1>0, <2>2, <2>3 DEF FrontierInv
<1>7. CASE PipelineEnds \/ PipelineFails
  BY <1>1, <1>7 DEF PipelineEnds, PipelineFails
<1>8. CASE QueueBrowserDiscovered
  <2> DEFINE found == {u \in BrowserDiscovered : MaxDepth <= 0 \/ BrowserDepth(u) <= MaxDepth}
             items == {[url |-> u, depth |-> BrowserDepth(u)] : u \in found}
  <2>1. queue' = items /\ queued' = found /\ visiting' = visiting /\ visiting = {}
    BY <1>8 DEF QueueBrowserDiscovered, FrontierInv
  <2>2. \A x \in items : x.url \in found
    OBVIOUS
  <2>3. found \subseteq DOMAIN urls
    BY DEF BrowserDiscovered, InternalLinks, TablesInv
  <2> HIDE DEF found, items
  <2> QED
    BY <1>0, <2>1, <2>2, <2>3 DEF FrontierInv
<1>9. CASE StartGapEscalation \/ RenderKeyPage \/ EndGapEscalation \/ StartEnrich \/ EnrichPage
           \/ EndEnrich
  BY <1>1, <1>9 DEF StartGapEscalation, RenderKeyPage, EndGapEscalation, StartEnrich, EnrichPage,
                    EndEnrich, FrontierInv
<1>10. CASE Audit
  BY <1>1, <1>10 DEF Audit, HeadCheckAssets, StartHTTPAudit, AuditHTTPHost, EndHTTPAudit,
                     RunAudits, CheckMarkdown, CheckText, FrontierInv
<1>11. CASE Report
  BY <1>1, <1>11 DEF Report, RecalculateCounts, RecomputeDepths, StartDetection, RunDetector,
                     DetectorFails, MaterializeAndCount, Finalize, FrontierInv
<1>12. CASE UNCHANGED vars
  BY <1>1, <1>12 DEF vars, FrontierInv
<1> QED
  BY <1>2, <1>3, <1>4, <1>5, <1>6, <1>7, <1>8, <1>9, <1>10, <1>11, <1>12
     DEF Next, Crawl, Browse

\* The edges that a step adds lead from a known URL to a known URL.
LEMMA EdgesKnown ==
    ASSUME WebInv, FrontierInv, TablesInv, [Next]_vars
    PROVE  \A e \in edges' : e.source \in DOMAIN urls' /\ e.target \in DOMAIN urls'
<1>0. DOMAIN urls \subseteq DOMAIN urls'
  BY UrlsGrow
<1>1. ASSUME NEW new, edges' \subseteq edges \cup new,
             \A e \in new : e.source \in DOMAIN urls' /\ e.target \in DOMAIN urls'
      PROVE  \A e \in edges' : e.source \in DOMAIN urls' /\ e.target \in DOMAIN urls'
  BY <1>0, <1>1 DEF TablesInv
<1>2. CASE UNCHANGED edges
  BY <1>0, <1>2 DEF TablesInv
<1>3. CASE FetchAndAnalyze
  <2>1. PICK i, r, p, slow : Visit(i, r, p, slow)
    BY <1>3, Visited
  <2> DEFINE at == FiledUnder(i.url, r)
             new == NewEdges(r, at, p.kept)
  <2>2. edges' = edges \cup new
    BY <2>1 DEF Visit, Persist
  <2>3. at \in DOMAIN urls' /\ \A e \in new : e.target \in DOMAIN urls'
    BY <2>1, RowsVisited DEF FrontierInv, Visit
  <2>4. ASSUME NEW e \in Built(i, r) PROVE e.source = at
    BY EdgeBuilt DEF Built
  <2>5. ASSUME NEW e \in p.kept PROVE e.source = at
    <3>1. CASE e \in Built(i, r)
      BY <2>4, <3>1
    <3>2. CASE e \notin Built(i, r)
      <4>1. PICK link \in Followed(i, r) :
              e = [link EXCEPT !.target = e.target, !.internal = IsInScope(e.target)]
        BY <2>1, <3>2 DEF Visit, Expanded
      <4>2. link \in BuildEdges(at, r.final, r.page, "static", SeedHost)
        BY DEF Followed, Built
      <4>3. DOMAIN link = {"source", "declared", "target", "relation", "mode", "internal", "rel",
                           "anchor", "blank"} /\ link.source = at
        BY <4>2, EdgeBuilt
      <4> QED
        BY <4>1, <4>3
    <3> QED
      BY <3>1, <3>2
  <2>6. new \subseteq p.kept
    BY DEF NewEdges
  <2> HIDE DEF at, new
  <2> QED
    BY <1>1, <2>2, <2>3, <2>5, <2>6
<1>4. CASE RenderKeyPage
  <2>1. PICK u \in todo :
          \/ edges' = edges
          \/ \E r, links : AddEdges(GapEdges(u, r, links))
    BY <1>4 DEF RenderKeyPage
  <2>2. u \in DOMAIN urls
    BY <1>4, <2>1 DEF RenderKeyPage, TablesInv
  <2>3. ASSUME NEW r, NEW links, AddEdges(GapEdges(u, r, links))
        PROVE  \A e \in edges' : e.source \in DOMAIN urls' /\ e.target \in DOMAIN urls'
    <3> DEFINE new == GapEdges(u, r, links)
               found == {e.target : e \in new}
    <3>1. edges' = edges \cup new /\ urls' = Discover(urls, found, found, "browser")
      BY <2>3 DEF AddEdges
    <3>2. \A e \in new : e.source = u
      <4>1. ASSUME NEW e \in RenderedLinks(u, r) PROVE e.source = u
        BY EdgeBuilt DEF RenderedLinks
      <4>2. \A l : MenuEdge(u, l).source = u
        BY DEF MenuEdge
      <4> QED
        BY <4>1, <4>2 DEF GapEdges
    <3>3. found \subseteq DOMAIN urls'
      <4> HIDE DEF found
      <4> QED
        BY <3>1, RowsDiscovered DEF FrontierInv
    <3> HIDE DEF new
    <3>4. \A e \in new : e.source \in DOMAIN urls' /\ e.target \in DOMAIN urls'
      BY <1>0, <2>2, <3>2, <3>3
    <3> QED
      BY <1>1, <3>1, <3>4
  <2> QED
    BY <1>2, <2>1, <2>3
<1>5. CASE EnrichPage
  <2>1. PICK u \in todo :
          \/ edges' = edges
          \/ \E missing \in SUBSET RenderedLinks(u, web.contents[u]) : \E vs :
               LET found == {e.target : e \in missing}
               IN  /\ edges' = edges \cup {CHOOSE e \in missing : e.target = t : t \in found}
                   /\ urls' = Discover(Discover(urls, found, found, "browser"), vs, {}, "asset")
    BY <1>5 DEF EnrichPage
  <2>2. u \in DOMAIN urls
    BY <1>5, <2>1 DEF EnrichPage, TablesInv
  <2>3. ASSUME NEW missing \in SUBSET RenderedLinks(u, web.contents[u]), NEW vs, NEW found,
               found = {e.target : e \in missing},
               edges' = edges \cup {CHOOSE e \in missing : e.target = t : t \in found},
               urls' = Discover(Discover(urls, found, found, "browser"), vs, {}, "asset")
        PROVE  \A e \in edges' : e.source \in DOMAIN urls' /\ e.target \in DOMAIN urls'
    <3> DEFINE new == {CHOOSE e \in missing : e.target = t : t \in found}
               table == Discover(urls, found, found, "browser")
    <3>1. ASSUME NEW e \in new PROVE e \in missing
      <4>1. PICK t \in found : e = CHOOSE x \in missing : x.target = t
        BY <3>1
      <4>2. \E x \in missing : x.target = t
        BY <2>3
      <4> QED
        BY <4>1, <4>2
    <3>2. \A e \in new : e.source = u /\ e.target \in found
      BY <2>3, <3>1, EdgeBuilt DEF RenderedLinks
    <3>3. GoodRows(table) /\ found \subseteq DOMAIN table
      BY RowsDiscovered DEF FrontierInv
    <3>4. urls' = Discover(table, vs, {}, "asset")
      BY <2>3
    <3> HIDE DEF table
    <3>5. found \subseteq DOMAIN urls'
      BY <3>3, <3>4, RowsDiscovered
    <3>6. \A e \in new : e.source \in DOMAIN urls' /\ e.target \in DOMAIN urls'
      BY <1>0, <2>2, <3>2, <3>5
    <3>7. edges' = edges \cup new
      BY <2>3
    <3> HIDE DEF new
    <3> QED
      BY <1>1, <3>6, <3>7
  <2> QED
    BY <1>2, <2>1, <2>3
<1> QED
  BY <1>2, <1>3, <1>4, <1>5, EdgeSteps

\* The fetches that a step adds are of a known URL and filed under a known URL, and none is lost.
LEMMA FetchesKnown ==
    ASSUME WebInv, FrontierInv, TablesInv, [Next]_vars
    PROVE  /\ fetches \subseteq fetches'
           /\ \A f \in fetches' : f.url \in DOMAIN urls' /\ f.final \in DOMAIN urls'
<1> USE DEF tables, progress, report, counters, RowsBeside
<1>0. DOMAIN urls \subseteq DOMAIN urls'
  BY UrlsGrow
<1>1. ASSUME fetches \subseteq fetches',
             \A f \in fetches' \ fetches : f.url \in DOMAIN urls' /\ f.final \in DOMAIN urls'
      PROVE  \A f \in fetches' : f.url \in DOMAIN urls' /\ f.final \in DOMAIN urls'
  BY <1>0, <1>1 DEF TablesInv
<1>2. CASE UNCHANGED fetches
  BY <1>1, <1>2
<1>3. CASE FetchFails
  <2>1. PICK i \in visiting :
          fetches' \subseteq fetches \cup {[seq |-> fetchSeq + 1, url |-> i.url, final |-> i.url,
                                            code |-> 0, kind |-> "full"]}
          /\ fetches \subseteq fetches'
    BY <1>3 DEF FetchFails
  <2>2. i.url \in DOMAIN urls'
    BY <1>0, <2>1 DEF FrontierInv
  <2>3. \A f \in fetches' \ fetches : f.url = i.url /\ f.final = i.url
    BY <2>1
  <2> QED
    BY <1>1, <2>1, <2>2, <2>3
<1>4. CASE FetchAndAnalyze
  <2>1. PICK i, r, p, slow : Visit(i, r, p, slow)
    BY <1>4, Visited
  <2>2. fetches' = fetches \cup
                     {[seq |-> fetchSeq + 1, url |-> i.url, final |-> FiledUnder(i.url, r),
                       code |-> r.code, kind |-> "full"]}
    BY <2>1 DEF Visit, Persist
  <2>3. i.url \in DOMAIN urls' /\ FiledUnder(i.url, r) \in DOMAIN urls'
    BY <1>0, <2>1, RowsVisited DEF FrontierInv, Visit
  <2>4. \A f \in fetches' \ fetches : f.url = i.url /\ f.final = FiledUnder(i.url, r)
    BY <2>2
  <2> QED
    BY <1>1, <2>2, <2>3, <2>4
<1>5. CASE AuditHTTPHost
  <2>1. fetches \subseteq fetches'
    BY <1>5, HostAudited DEF Audited
  <2> QED
    BY <1>1, <1>5, <2>1, HostAuditedRows DEF FrontierInv
<1>6. CASE SitemapEntry
  BY <1>2, <1>6 DEF SitemapEntry, AdmitEntry, OnboardEntryHost, EnqueueEntry, OnboardReturns
<1>7. CASE OnboardSeedHost \/ StartCrawl \/ Dispatch \/ DropOutOfScope \/ OnboardVisited
           \/ SkipVisit \/ PipelineEnds \/ PipelineFails
  BY <1>2, <1>7 DEF OnboardSeedHost, StartCrawl, Dispatch, DropOutOfScope, OnboardVisited,
                    SkipVisit, PipelineEnds, PipelineFails
<1>8. CASE Browse
  BY <1>2, <1>8 DEF Browse, StartGapEscalation, RenderKeyPage, EndGapEscalation,
                    QueueBrowserDiscovered, StartEnrich, EnrichPage, EndEnrich
<1>9. CASE HeadCheckAssets \/ StartHTTPAudit \/ EndHTTPAudit \/ RunAudits \/ CheckMarkdown
           \/ CheckText
  BY <1>2, <1>9 DEF HeadCheckAssets, StartHTTPAudit, EndHTTPAudit, RunAudits, CheckMarkdown,
                    CheckText
<1>10. CASE Report
  BY <1>2, <1>10 DEF Report, RecalculateCounts, RecomputeDepths, StartDetection, RunDetector,
                     DetectorFails, MaterializeAndCount, Finalize
<1>11. CASE UNCHANGED vars
  BY <1>2, <1>11 DEF vars
<1> QED
  BY <1>3, <1>4, <1>5, <1>6, <1>7, <1>8, <1>9, <1>10, <1>11 DEF Next, Crawl, Audit

\* Beside a visit, no step changes which fetch a page was made from.
LEMMA FetchOfPageKept ==
    ASSUME PagesInv, [Next]_vars, ~FetchAndAnalyze
    PROVE  /\ DOMAIN pages' = DOMAIN pages
           /\ \A u \in DOMAIN pages : pages'[u].fetch = pages[u].fetch
<1> USE DEF tables, progress, report, counters, RowsBeside
<1>1. CASE UNCHANGED pages
  BY <1>1
<1>2. ASSUME NEW u, NEW page, pages' = [pages EXCEPT ![u] = Enriched(@, page)]
      PROVE  /\ DOMAIN pages' = DOMAIN pages
             /\ \A v \in DOMAIN pages : pages'[v].fetch = pages[v].fetch
  BY <1>2 DEF Enriched, PagesInv, PageColumns
<1>3. CASE SitemapEntry
  BY <1>1, <1>3 DEF SitemapEntry, AdmitEntry, OnboardEntryHost, EnqueueEntry, OnboardReturns
<1>4. CASE OnboardSeedHost \/ StartCrawl \/ Dispatch \/ DropOutOfScope \/ OnboardVisited
           \/ SkipVisit \/ FetchFails \/ PipelineEnds \/ PipelineFails
  BY <1>1, <1>4 DEF OnboardSeedHost, StartCrawl, Dispatch, DropOutOfScope, OnboardVisited,
                    SkipVisit, FetchFails, PipelineEnds, PipelineFails
<1>5. CASE RenderKeyPage
  <2>1. UNCHANGED pages \/ \E u, page : pages' = [pages EXCEPT ![u] = Enriched(@, page)]
    BY <1>5 DEF RenderKeyPage, UpdateGapPage
  <2> QED
    BY <1>1, <1>2, <2>1
<1>6. CASE EnrichPage
  <2>1. UNCHANGED pages \/ \E u, page : pages' = [pages EXCEPT ![u] = Enriched(@, page)]
    BY <1>6 DEF EnrichPage
  <2> QED
    BY <1>1, <1>2, <2>1
<1>7. CASE StartGapEscalation \/ EndGapEscalation \/ QueueBrowserDiscovered \/ StartEnrich
           \/ EndEnrich
  BY <1>1, <1>7 DEF StartGapEscalation, EndGapEscalation, QueueBrowserDiscovered, StartEnrich,
                    EndEnrich
<1>8. CASE Audit
  BY <1>1, <1>8 DEF Audit, HeadCheckAssets, StartHTTPAudit, AuditHTTPHost, EndHTTPAudit,
                    RunAudits, CheckMarkdown, CheckText
<1>9. CASE RecalculateCounts
  BY <1>9 DEF RecalculateCounts, CountsOver, PagesInv, PageColumns
<1>10. CASE RecomputeDepths
  BY <1>10 DEF RecomputeDepths, DepthsOver, PagesInv, PageColumns
<1>11. CASE StartDetection \/ RunDetector \/ DetectorFails \/ MaterializeAndCount \/ Finalize
  BY <1>1, <1>11 DEF StartDetection, RunDetector, DetectorFails, MaterializeAndCount, Finalize
<1>12. CASE UNCHANGED vars
  BY <1>1, <1>12 DEF vars
<1> QED
  BY <1>3, <1>4, <1>5, <1>6, <1>7, <1>8, <1>9, <1>10, <1>11, <1>12
     DEF Next, Crawl, Browse, Report

\* No page is lost, each is of a known URL, and each has the fetch it was made from.
LEMMA PagesKnown ==
    ASSUME WebInv, PagesInv, FrontierInv, TablesInv, [Next]_vars
    PROVE  /\ DOMAIN pages \subseteq DOMAIN pages' /\ DOMAIN pages' \subseteq DOMAIN urls'
           /\ \A u \in DOMAIN pages' : \E f \in fetches' : f.seq = pages'[u].fetch /\ f.final = u
<1>0. DOMAIN urls \subseteq DOMAIN urls' /\ fetches \subseteq fetches'
  BY UrlsGrow, FetchesKnown
<1>1. CASE ~FetchAndAnalyze
  <2>1. /\ DOMAIN pages' = DOMAIN pages
        /\ \A u \in DOMAIN pages : pages'[u].fetch = pages[u].fetch
    BY <1>1, FetchOfPageKept
  <2> QED
    BY <1>0, <2>1 DEF TablesInv
<1>2. CASE FetchAndAnalyze
  <2>1. PICK i, r, p, slow : Visit(i, r, p, slow)
    BY <1>2, Visited
  <2> DEFINE at == FiledUnder(i.url, r)
             row == PageRow(r.page, fetchSeq + 1, i.depth)
             fetch == [seq |-> fetchSeq + 1, url |-> i.url, final |-> at, code |-> r.code,
                       kind |-> "full"]
  <2>2. /\ fetches' = fetches \cup {fetch}
        /\ pages' = IF Analyzable(r) THEN Inserted(pages, OneRow(at, row)) ELSE pages
    BY <2>1 DEF Visit, Persist
  <2>3. fetch.seq = row.fetch /\ fetch.final = at
    BY DEF PageRow
  <2>4. at \in DOMAIN urls'
    BY <2>1, RowsVisited DEF FrontierInv, Visit
  <2> HIDE DEF fetch, row, at
  <2>5. /\ DOMAIN pages \subseteq DOMAIN pages' /\ DOMAIN pages' \subseteq DOMAIN pages \cup {at}
        /\ \A u \in DOMAIN pages : pages'[u] = pages[u]
        /\ \A u \in DOMAIN pages' \ DOMAIN pages : pages'[u] = row
    BY <2>2 DEF Inserted, OneRow
  <2> QED
    BY <1>0, <2>2, <2>3, <2>4, <2>5 DEF TablesInv
<1> QED
  BY <1>1, <1>2

\* Each asset and each reference is of known URLs.
LEMMA AssetsKnown ==
    ASSUME WebInv, PagesInv, FrontierInv, TablesInv, [Next]_vars
    PROVE  /\ DOMAIN assets' \subseteq DOMAIN urls'
           /\ \A x \in refs' : x.asset \in DOMAIN urls' /\ x.page \in DOMAIN urls'
<1> USE DEF tables, progress, report, counters, RowsBeside
<1>0. DOMAIN urls \subseteq DOMAIN urls'
  BY UrlsGrow
<1>1. CASE UNCHANGED <<assets, refs>>
  BY <1>0, <1>1 DEF TablesInv
<1>2. CASE SitemapEntry
  BY <1>1, <1>2 DEF SitemapEntry, AdmitEntry, OnboardEntryHost, EnqueueEntry, OnboardReturns
<1>3. CASE OnboardSeedHost \/ StartCrawl \/ Dispatch \/ DropOutOfScope \/ OnboardVisited
           \/ SkipVisit \/ FetchFails \/ PipelineEnds \/ PipelineFails
  BY <1>1, <1>3 DEF OnboardSeedHost, StartCrawl, Dispatch, DropOutOfScope, OnboardVisited,
                    SkipVisit, FetchFails, PipelineEnds, PipelineFails
<1>4. CASE FetchAndAnalyze
  <2>1. PICK i, r, p, slow : Visit(i, r, p, slow)
    BY <1>4, Visited
  <2> DEFINE at == FiledUnder(i.url, r)
             new == NewRefs(r, at)
  <2>2. /\ refs' = refs \cup new
        /\ assets' = IF r.kind = "html" THEN assets
                     ELSE Inserted(OneRow(i.url, Length(r)), assets)
    BY <2>1 DEF Visit, Persist
  <2>3. i.url \in DOMAIN urls
    BY <2>1 DEF Visit, FrontierInv
  <2>4. at \in DOMAIN urls' /\ \A x \in new : x.asset \in DOMAIN urls'
    BY <2>1, <2>3, RowsVisited DEF FrontierInv
  <2>5. \A x \in new : x.page = at
    BY DEF NewRefs, RefsOf
  <2> HIDE DEF new, at
  <2>6. DOMAIN assets' \subseteq DOMAIN assets \cup {i.url}
    BY <2>2 DEF Inserted, OneRow
  <2> QED
    BY <1>0, <2>2, <2>3, <2>4, <2>5, <2>6 DEF TablesInv
<1>5. CASE EnrichPage
  <2>1. UNCHANGED assets
    BY <1>5 DEF EnrichPage
  <2>2. CASE UNCHANGED refs
    BY <1>1, <2>1, <2>2
  <2>3. CASE ~UNCHANGED refs
    <3>1. PICK u, vs, table :
            /\ u \in todo
            /\ urls' = Discover(table, vs, {}, "asset")
            /\ refs' = refs \cup {[asset |-> v, page |-> u, type |-> "img_src"] : v \in vs}
      BY <1>5, <2>3, Zenon DEF EnrichPage
    <3>2. u \in DOMAIN urls
      BY <1>5, <3>1 DEF EnrichPage, TablesInv
    <3>3. \A x \in refs' \ refs : x.asset \in vs /\ x.page = u
      BY <3>1
    <3>4. vs \subseteq DOMAIN urls'
      BY <3>1 DEF Discover, Inserted
    <3> QED
      BY <1>0, <2>1, <3>2, <3>3, <3>4 DEF TablesInv
  <2> QED
    BY <2>2, <2>3
<1>6. CASE StartGapEscalation \/ RenderKeyPage \/ EndGapEscalation \/ QueueBrowserDiscovered
           \/ StartEnrich \/ EndEnrich
  BY <1>1, <1>6 DEF StartGapEscalation, RenderKeyPage, EndGapEscalation, QueueBrowserDiscovered,
                    StartEnrich, EndEnrich
<1>7. CASE HeadCheckAssets
  <2>1. PICK checked \in SUBSET {x.asset : x \in refs} :
          DOMAIN assets' = checked \cup DOMAIN assets
    <3>1. \A k, S : kSubset(k, S) \subseteq SUBSET S
      BY DEF kSubset
    <3> DEFINE k == Min({AssetCheckLimit, Cardinality({x.asset : x \in refs})})
    <3>2. PICK checked \in kSubset(k, {x.asset : x \in refs}) :
            assets' = Inserted([u \in checked |-> IF u \in DOMAIN web.heads THEN web.heads[u]
                                                  ELSE -1], assets)
      BY <1>7 DEF HeadCheckAssets
    <3>3. DOMAIN assets' = checked \cup DOMAIN assets
      BY <3>2 DEF Inserted
    <3> HIDE DEF k
    <3> QED
      BY <3>1, <3>2, <3>3
  <2>2. UNCHANGED refs
    BY <1>7 DEF HeadCheckAssets
  <2> QED
    BY <1>0, <2>1, <2>2 DEF TablesInv
<1>8. CASE StartHTTPAudit \/ AuditHTTPHost \/ EndHTTPAudit \/ RunAudits \/ CheckMarkdown
           \/ CheckText
  BY <1>1, <1>8 DEF StartHTTPAudit, AuditHTTPHost, EndHTTPAudit, RunAudits, CheckMarkdown,
                    CheckText
<1>9. CASE Report
  BY <1>1, <1>9 DEF Report, RecalculateCounts, RecomputeDepths, StartDetection, RunDetector,
                    DetectorFails, MaterializeAndCount, Finalize
<1>10. CASE UNCHANGED vars
  BY <1>1, <1>10 DEF vars
<1> QED
  BY <1>2, <1>3, <1>4, <1>5, <1>6, <1>7, <1>8, <1>9, <1>10 DEF Next, Crawl, Browse, Audit

\* Every issue is filed under known URLs, those kept aside too.
LEMMA IssuesKnown ==
    ASSUME WebInv, PagesInv, FrontierInv, TablesInv, [Next]_vars
    PROVE  \A i \in issues' \cup saved' : i.on \subseteq DOMAIN urls'
<1> USE DEF tables, progress, report, counters, RowsBeside
<1>0. /\ DOMAIN urls \subseteq DOMAIN urls'
      /\ \A i \in issues \cup saved : i.on \subseteq DOMAIN urls'
  BY UrlsGrow DEF TablesInv
<1>1. ASSUME issues' \cup saved' \subseteq issues \cup saved
      PROVE  \A i \in issues' \cup saved' : i.on \subseteq DOMAIN urls'
  BY <1>0, <1>1
<1>2. CASE SitemapEntry
  BY <1>1, <1>2 DEF SitemapEntry, AdmitEntry, OnboardEntryHost, EnqueueEntry, OnboardReturns
<1>3. CASE OnboardSeedHost \/ StartCrawl \/ Dispatch \/ DropOutOfScope \/ OnboardVisited
           \/ SkipVisit \/ FetchFails \/ PipelineEnds \/ PipelineFails
  BY <1>1, <1>3 DEF OnboardSeedHost, StartCrawl, Dispatch, DropOutOfScope, OnboardVisited,
                    SkipVisit, FetchFails, PipelineEnds, PipelineFails
<1>4. CASE FetchAndAnalyze
  <2>1. PICK i, r, p, slow : Visit(i, r, p, slow)
    BY <1>4, Visited
  <2> DEFINE at == FiledUnder(i.url, r)
             kept == KeptIssues(r, at, PageLocalTypes(i, r))
  <2>2. issues' = issues \cup slow \cup p.traps \cup kept /\ UNCHANGED saved
    BY <2>1 DEF Visit, Persist
  <2>3. \A x \in slow : x.on = {}
    BY <2>1 DEF Visit, Row
  <2>4. ASSUME NEW x \in p.traps PROVE x.on = {}
    <3>1. PICK u : x = SiteIssue("crawl_trap_suspected", {u})
      BY <2>1 DEF Visit, Expanded
    <3> QED
      BY <3>1 DEF SiteIssue, Row
  <2>5. \A x \in kept : x.on = {at}
    BY DEF KeptIssues, PageIssue, Row
  <2>6. at \in DOMAIN urls'
    BY <2>1, RowsVisited DEF FrontierInv, Visit
  <2> HIDE DEF kept, at
  <2> QED
    BY <1>0, <2>2, <2>3, <2>4, <2>5, <2>6
<1>5. CASE RenderKeyPage
  BY <1>1, <1>5 DEF RenderKeyPage, UpdateGapPage, IssuesWithout
<1>6. CASE EnrichPage
  BY <1>1, <1>6 DEF EnrichPage, IssuesWithout
<1>7. CASE StartGapEscalation \/ EndGapEscalation \/ QueueBrowserDiscovered \/ StartEnrich
           \/ EndEnrich
  BY <1>1, <1>7 DEF StartGapEscalation, EndGapEscalation, QueueBrowserDiscovered, StartEnrich,
                    EndEnrich
<1>8. CASE HeadCheckAssets \/ StartHTTPAudit \/ AuditHTTPHost \/ EndHTTPAudit \/ RunAudits
  BY <1>1, <1>8 DEF HeadCheckAssets, StartHTTPAudit, AuditHTTPHost, EndHTTPAudit, RunAudits
<1>9. CASE CheckMarkdown
  <2>1. \A i \in issues' \ issues : i.on = {}
    BY <1>9 DEF CheckMarkdown, Row
  <2>2. UNCHANGED saved
    BY <1>9 DEF CheckMarkdown
  <2> QED
    BY <1>0, <2>1, <2>2
<1>10. CASE CheckText
  <2>1. /\ \A i \in issues' \ issues :
             \E category : \E u \in DOMAIN pages : i = PageIssue(TextIssueType(category), u)
        /\ UNCHANGED saved
    BY <1>10 DEF CheckText, kSubset
  <2>2. \A type, u : PageIssue(type, u).on = {u}
    BY DEF PageIssue, Row
  <2>3. \A i \in issues' \ issues : \E u \in DOMAIN pages : i.on = {u}
    BY <2>1, <2>2
  <2>4. DOMAIN pages \subseteq DOMAIN urls'
    BY <1>0 DEF TablesInv
  <2> QED
    BY <1>0, <2>1, <2>3, <2>4
<1>11. CASE RunDetector
  <2>1. /\ detector \in 1..NumDetectors /\ issues' = issues \cup Detected(detector)
        /\ UNCHANGED <<saved, urls>>
    BY <1>11 DEF RunDetector
  <2>2. \A i \in Detected(detector) : i.on \subseteq Reported
    BY <2>1, DetectedKnown
  <2>3. Reported \subseteq DOMAIN urls
    BY DEF Reported, TablesInv
  <2> QED
    BY <1>0, <2>1, <2>2, <2>3
<1>12. CASE RecalculateCounts \/ RecomputeDepths \/ StartDetection \/ DetectorFails
            \/ MaterializeAndCount \/ Finalize
  BY <1>1, <1>12 DEF RecalculateCounts, RecomputeDepths, StartDetection, GlobalRows,
                     DetectorFails, RestoreGlobalIssues, MaterializeAndCount, Finalize
<1>13. CASE UNCHANGED vars
  BY <1>1, <1>13 DEF vars
<1> QED
  BY <1>2, <1>3, <1>4, <1>5, <1>6, <1>7, <1>8, <1>9, <1>10, <1>11, <1>12, <1>13
     DEF Next, Crawl, Browse, Audit, Report

\* What a browser pass still has to render has a row.
LEMMA TodoKnown ==
    ASSUME WebInv, PagesInv, FrontierInv, TablesInv, [Next]_vars
    PROVE  /\ phase' = "gapRender" => todo' \subseteq DOMAIN urls'
           /\ phase' = "enrichPages" => todo' \subseteq DOMAIN pages'
<1> USE DEF tables, progress, report, counters, RowsBeside
<1>0. DOMAIN urls \subseteq DOMAIN urls' /\ DOMAIN pages \subseteq DOMAIN pages'
  BY UrlsGrow, PagesKnown
<1> DEFINE Known == /\ phase' = "gapRender" => todo' \subseteq DOMAIN urls'
                    /\ phase' = "enrichPages" => todo' \subseteq DOMAIN pages'
<1>1. ASSUME UNCHANGED phase, todo' \subseteq todo PROVE Known
  BY <1>0, <1>1 DEF TablesInv
<1>2. ASSUME phase' \notin {"gapRender", "enrichPages"} PROVE Known
  BY <1>2
<1>3. CASE StartGapEscalation
  <2>1. \A K \in KeyPages : K \subseteq DOMAIN urls
    BY DEF KeyPages, kSubset
  <2> QED
    BY <1>0, <1>3, <2>1 DEF StartGapEscalation
<1>4. CASE StartEnrich
  BY <1>0, <1>4 DEF StartEnrich
<1>5. CASE SitemapEntry
  <2>1. UNCHANGED phase /\ todo' \subseteq todo
    BY <1>5 DEF SitemapEntry
  <2> QED
    BY <1>1, <2>1
<1>6. CASE OnboardSeedHost \/ Dispatch \/ DropOutOfScope \/ OnboardVisited \/ SkipVisit
           \/ FetchFails \/ FetchAndAnalyze
  <2>1. UNCHANGED phase /\ todo' \subseteq todo
    BY <1>6 DEF OnboardSeedHost, Dispatch, DropOutOfScope, OnboardVisited, SkipVisit, FetchFails,
                FetchAndAnalyze
  <2> QED
    BY <1>1, <2>1
<1>7. CASE StartCrawl \/ PipelineEnds \/ PipelineFails
  BY <1>2, <1>7 DEF StartCrawl, StartPipeline, PipelineEnds, AfterPipeline, PipelineFails
<1>8. CASE RenderKeyPage \/ EnrichPage
  <2>1. UNCHANGED phase /\ todo' \subseteq todo
    BY <1>8 DEF RenderKeyPage, EnrichPage
  <2> QED
    BY <1>1, <2>1
<1>9. CASE EndGapEscalation \/ QueueBrowserDiscovered \/ EndEnrich
  BY <1>2, <1>9 DEF EndGapEscalation, QueueBrowserDiscovered, StartPipeline, EndEnrich
<1>10. CASE Audit
  BY <1>1, <1>2, <1>10 DEF Audit, HeadCheckAssets, StartHTTPAudit, AuditHTTPHost, EndHTTPAudit,
                           RunAudits, CheckMarkdown, CheckText
<1>11. CASE Report
  BY <1>1, <1>2, <1>11 DEF Report, RecalculateCounts, RecomputeDepths, StartDetection,
                           RunDetector, DetectorFails, MaterializeAndCount, Finalize
<1>12. CASE UNCHANGED vars
  <2>1. UNCHANGED phase /\ todo' \subseteq todo
    BY <1>12 DEF vars
  <2> QED
    BY <1>1, <2>1
<1> QED
  BY <1>3, <1>4, <1>5, <1>6, <1>7, <1>8, <1>9, <1>10, <1>11, <1>12 DEF Next, Crawl, Browse

\* The tables are empty at the start, but for the seeds.
LEMMA TablesInit == Init => TablesInv
  BY DEF Init, InitWith, TablesInv

\* No step leaves a row that refers to a URL without one.
LEMMA TablesStep ==
    ASSUME WebInv, PagesInv, FrontierInv, TablesInv, [Next]_vars
    PROVE  TablesInv'
  BY EdgesKnown, FetchesKnown, PagesKnown, AssetsKnown, IssuesKnown, TodoKnown DEF TablesInv

\* The counter of crawled pages stays within the limit, because an item is taken only below it
\* and one is held at a time; the job's row is complete.
CounterInv ==
    /\ pagesCrawled \in Nat
    /\ MaxPages > 0 => pagesCrawled <= MaxPages
    /\ visiting # {} => PagesLeft
    /\ DOMAIN job = {"status", "pages", "discovered", "issues"}
    /\ job.status \in {"running", "completed", "cancelled", "failed"}

\* Nothing is counted at the start.
LEMMA CounterInit == Init => CounterInv
<1>1. MaxPages \in Int
  BY LimitsAreNumbers DEF MaxPages, Limit
<1> QED
  BY <1>1 DEF Init, InitWith, CounterInv

\* What each step does to the counter and to the job's row.
LEMMA CounterStep ==
    ASSUME WebInv, CounterInv, [Next]_vars
    PROVE  CounterInv'
<1> USE DEF onboarding, tables, progress, report, counters, RowsBeside, PagesLeft
<1>0. MaxPages \in Int
  BY LimitsAreNumbers DEF MaxPages, Limit
<1>1. ASSUME UNCHANGED <<pagesCrawled, job>>, visiting' \subseteq visiting PROVE CounterInv'
  BY <1>1 DEF CounterInv
<1>2. CASE SitemapEntry
  BY <1>1, <1>2 DEF SitemapEntry
<1>3. CASE OnboardSeedHost \/ StartCrawl \/ DropOutOfScope \/ OnboardVisited \/ SkipVisit
           \/ FetchFails \/ PipelineEnds
  BY <1>1, <1>3 DEF OnboardSeedHost, StartCrawl, StartPipeline, DropOutOfScope, OnboardVisited,
                    SkipVisit, FetchFails, PipelineEnds
<1>4. CASE Dispatch
  BY <1>4 DEF Dispatch, CounterInv
<1>5. CASE FetchAndAnalyze
  <2>1. PICK i, r, p, slow : Visit(i, r, p, slow)
    BY <1>5, Visited
  <2>2. /\ visiting # {} /\ visiting' = {} /\ UNCHANGED job
        /\ pagesCrawled' = pagesCrawled \/ pagesCrawled' = pagesCrawled + 1
    BY <2>1 DEF Visit, Expanded
  <2> QED
    BY <1>0, <2>2 DEF CounterInv
<1>6. CASE PipelineFails
  <2>1. /\ UNCHANGED <<pagesCrawled, visiting>>
        /\ \E status \in {"cancelled", "failed"} :
             job' = [job EXCEPT !.status = status] \/ UNCHANGED job
    BY <1>6 DEF PipelineFails
  <2> QED
    BY <2>1 DEF CounterInv
<1>7. CASE Browse
  BY <1>1, <1>7 DEF Browse, StartGapEscalation, RenderKeyPage, EndGapEscalation,
                    QueueBrowserDiscovered, StartPipeline, StartEnrich, EnrichPage, EndEnrich
<1>8. CASE Audit
  BY <1>1, <1>8 DEF Audit, HeadCheckAssets, StartHTTPAudit, AuditHTTPHost, EndHTTPAudit,
                    RunAudits, CheckMarkdown, CheckText
<1>9. CASE RecalculateCounts \/ RecomputeDepths \/ StartDetection \/ RunDetector
           \/ DetectorFails \/ MaterializeAndCount
  BY <1>1, <1>9 DEF RecalculateCounts, RecomputeDepths, StartDetection, RunDetector,
                    DetectorFails, MaterializeAndCount
<1>10. CASE Finalize
  BY <1>10 DEF Finalize, CounterInv
<1>11. CASE UNCHANGED vars
  BY <1>1, <1>11 DEF vars
<1> QED
  BY <1>2, <1>3, <1>4, <1>5, <1>6, <1>7, <1>8, <1>9, <1>10, <1>11 DEF Next, Crawl, Report

\* The tables refer to one another and to URLs that have a row, as the schema's foreign keys ask,
\* and the counters stay in their ranges.
THEOREM TypesKept == Spec => []TypeOK
<1>1. ASSUME FrontierInv, TablesInv, CounterInv, ReportInv PROVE TypeOK
  BY <1>1 DEF TypeOK, FrontierInv, TablesInv, CounterInv, ReportInv, GoodRows
<1> QED
  BY WebInit, WebStep, PagesInit, PagesStep, FrontierInit, FrontierStep, TablesInit, TablesStep,
     CounterInit, CounterStep, CallsInit, CallsStep, DetectionInit, DetectionStep, DepthInit,
     DepthStep, ReportInit, ReportStep, <1>1, PTL DEF Spec

-----------------------------------------------------------------------------
(* What is left of the frontier.                                            *)

\* The phases up to the end of the crawls.
Crawling == {"seeds", "crawl", "gap", "gapRender", "queueGap", "enrich", "enrichPages",
             "queueEnriched", "assets"}

\* The internal links to a URL that a browser found.
BrowserLinks(u) == {e \in InternalLinks : e.mode = "browser" /\ e.target = u}

\* All of them are on pages at the last level or below it.
TooDeep(u) ==
    /\ MaxDepth > 0
    /\ \A e \in BrowserLinks(u) :
         e.source \in DOMAIN pages /\ pages[e.source].depth + 1 > MaxDepth

\* A call's record is complete and its depth a number.
CallDepths(s) ==
    \E C : s \in Seq(C) /\ \A c \in C : DOMAIN c = {"depth", "left", "current"} /\ c.depth \in Nat

\* What a browser found is in scope, and a worker holds one item.
FoundInv ==
    /\ \A e \in edges : e.mode = "browser" /\ e.internal /\ e.relation = "link" =>
         IsInScope(e.target)
    /\ \A i, j \in visiting : i = j

\* Depths are numbers until they are recomputed.
LevelInv ==
    phase \in Crawling =>
      /\ CallDepths(calls)
      /\ \A i \in queue \cup visiting : i.depth \in Nat
      /\ \A u \in DOMAIN pages : pages[u].depth \in Nat

\* With pages to spare, a URL in scope that is marked as queued is in the queue or with a worker,
\* and the crawl ends with an empty queue.
PendingInv ==
    phase \in Crawling /\ PagesLeft =>
      /\ \A u \in DOMAIN urls :
           urls[u].status = "queued" /\ IsInScope(u) => \E i \in queue \cup visiting : i.url = u
      /\ phase \notin {"seeds", "crawl"} => queue = {}

\* Between two crawls, with pages to spare, what a browser found and is not queued for the next
\* one is too deep.
DeepInv ==
    phase \in {"seeds", "crawl", "gap", "enrich", "assets"} /\ PagesLeft =>
      \A u \in BrowserDiscovered : urls[u].status = "queued" \/ TooDeep(u)

\* A URL that a browser found is a level below the shallowest of the pages that link to it.
LEMMA BrowserLevel ==
    ASSUME \A v \in DOMAIN pages : pages[v].depth \in Nat, NEW u, BrowserLinks(u) # {}
    PROVE  /\ BrowserDepth(u) \in Nat
           /\ MaxDepth > 0 => (BrowserDepth(u) > MaxDepth <=> TooDeep(u))
<1> DEFINE level(e) == IF e.source \in DOMAIN pages THEN pages[e.source].depth + 1 ELSE 1
           levels == {level(e) : e \in BrowserLinks(u)}
<1>0. MaxDepth \in Int
  BY LimitsAreNumbers DEF MaxDepth, Limit
<1>1. \A e : level(e) \in Nat
  OBVIOUS
<1>2. BrowserDepth(u) = Min(levels)
  BY DEF BrowserDepth, BrowserLinks
<1>3. levels \in SUBSET Nat /\ levels # {}
  <2> HIDE DEF level
  <2> QED
    BY <1>1
<1>4. Min(levels) \in levels /\ \A y \in levels : Min(levels) <= y
  <2> HIDE DEF levels
  <2> QED
    BY <1>3, LeastNat
<1>5. PICK e \in BrowserLinks(u) : BrowserDepth(u) = level(e)
  BY <1>2, <1>4
<1>6. \A x \in BrowserLinks(u) : BrowserDepth(u) <= level(x)
  BY <1>2, <1>4
<1>7. ASSUME MaxDepth > 0, BrowserDepth(u) > MaxDepth PROVE TooDeep(u)
  <2>1. ASSUME NEW x \in BrowserLinks(u)
        PROVE  x.source \in DOMAIN pages /\ pages[x.source].depth + 1 > MaxDepth
    <3>1. BrowserDepth(u) <= level(x) /\ level(x) \in Nat /\ BrowserDepth(u) \in Nat
      BY <1>1, <1>5, <1>6
    <3>2. level(x) > MaxDepth
      <4> HIDE DEF level
      <4> QED
        BY <1>0, <1>7, <3>1
    <3> QED
      BY <1>0, <1>7, <3>2
  <2> QED
    BY <1>7, <2>1 DEF TooDeep
<1>8. ASSUME TooDeep(u) PROVE BrowserDepth(u) > MaxDepth
  BY <1>0, <1>5, <1>8 DEF TooDeep
<1> QED
  BY <1>1, <1>5, <1>7, <1>8

\* An internal edge leads to a URL in scope.
LEMMA InternalInScope ==
    ASSUME NEW source, NEW base, NEW page, NEW mode, NEW host,
           NEW e \in BuildEdges(source, base, page, mode, host), e.internal
    PROVE  InScopeOf(host, e.target)
<1> DEFINE Edge(u, relation, rel, anchor, blank) ==
             {[source |-> source, declared |-> u, target |-> n,
               relation |-> relation, mode |-> mode, internal |-> InScopeOf(host, n),
               rel |-> rel, anchor |-> anchor, blank |-> blank] : n \in Normalize(u)}
<1>1. \E u, relation, rel, anchor, blank : e \in Edge(u, relation, rel, anchor, blank)
  BY DEF BuildEdges
<1>2. PICK u, relation, rel, anchor, blank : e \in Edge(u, relation, rel, anchor, blank)
  BY <1>1
<1>3. PICK n \in Normalize(u) :
        e = [source |-> source, declared |-> u, target |-> n,
             relation |-> relation, mode |-> mode, internal |-> InScopeOf(host, n),
             rel |-> rel, anchor |-> anchor, blank |-> blank]
  BY <1>2
<1>4. e.target = n /\ InScopeOf(host, n)
  BY <1>3
<1> QED
  BY <1>4

\* The edges that a visit adds are static, and those that a browser pass adds are in scope.
LEMMA EdgesFound ==
    ASSUME WebInv, [Next]_vars
    PROVE  /\ \A e \in edges' \ edges : e.mode # "static" => IsInScope(e.target)
           /\ phase \in {"seeds", "crawl", "gap", "enrich", "assets", "queueGap", "queueEnriched"} =>
                \A e \in edges' \ edges : e.mode = "static"
           /\ edges \subseteq edges'
<1>1. CASE UNCHANGED edges
  BY <1>1
<1>2. CASE FetchAndAnalyze
  <2>1. PICK i, r, p, slow : Visit(i, r, p, slow)
    BY <1>2, Visited
  <2> DEFINE at == FiledUnder(i.url, r)
             new == NewEdges(r, at, p.kept)
  <2>2. edges' = edges \cup new
    BY <2>1 DEF Visit, Persist
  <2>3. ASSUME NEW e \in Built(i, r) PROVE e.mode = "static"
    BY EdgeBuilt DEF Built
  <2>4. ASSUME NEW e \in p.kept PROVE e.mode = "static"
    <3>1. CASE e \in Built(i, r)
      BY <2>3, <3>1
    <3>2. CASE e \notin Built(i, r)
      <4>1. PICK link \in Followed(i, r) :
              e = [link EXCEPT !.target = e.target, !.internal = IsInScope(e.target)]
        BY <2>1, <3>2 DEF Visit, Expanded
      <4>2. link \in BuildEdges(at, r.final, r.page, "static", SeedHost)
        BY DEF Followed, Built
      <4>3. DOMAIN link = {"source", "declared", "target", "relation", "mode", "internal", "rel",
                           "anchor", "blank"} /\ link.mode = "static"
        BY <4>2, EdgeBuilt
      <4> QED
        BY <4>1, <4>3
    <3> QED
      BY <3>1, <3>2
  <2>5. new \subseteq p.kept
    BY DEF NewEdges
  <2> HIDE DEF new
  <2> QED
    BY <2>2, <2>4, <2>5
<1>3. ASSUME NEW u, NEW r, NEW e \in RenderedLinks(u, r) PROVE IsInScope(e.target)
  <2>1. e \in BuildEdges(u, r.final, r.page, "browser", SeedHost) /\ e.internal
    BY DEF RenderedLinks
  <2> QED
    BY <2>1, InternalInScope, Zenon DEF IsInScope
<1>4. CASE RenderKeyPage
  <2>1. /\ phase = "gapRender"
        /\ UNCHANGED edges \/ \E u, r, links : edges' = edges \cup GapEdges(u, r, links)
    BY <1>4 DEF RenderKeyPage, AddEdges
  <2>2. ASSUME NEW u, NEW r, NEW links, NEW e \in GapEdges(u, r, links) PROVE IsInScope(e.target)
    <3>1. CASE e \in RenderedLinks(u, r)
      BY <1>3, <3>1
    <3>2. CASE e \notin RenderedLinks(u, r)
      <4>1. PICK l : e = MenuEdge(u, l) /\ \E n \in Normalize(l) : IsInScope(n)
        BY <3>2 DEF GapEdges
      <4>2. PICK n \in Normalize(l) : IsInScope(n)
        BY <4>1
      <4>3. e.target = The(Normalize(l))
        BY <4>1 DEF MenuEdge
      <4> QED
        BY <4>2, <4>3, OneForm
    <3> QED
      BY <3>1, <3>2
  <2> QED
    BY <1>1, <2>1, <2>2
<1>5. CASE EnrichPage
  <2> DEFINE missing(u) == {e \in RenderedLinks(u, web.contents[u]) :
                              e.target \notin Declared(EdgesOf(u))}
             new(u) == {CHOOSE e \in missing(u) : e.target = t :
                          t \in {e.target : e \in missing(u)}}
  <2>1. UNCHANGED edges \/ \E u : edges' = edges \cup new(u)
    BY <1>5, Zenon DEF EnrichPage
  <2>2. ASSUME NEW u, NEW e \in new(u) PROVE IsInScope(e.target)
    <3>1. PICK t \in {x.target : x \in missing(u)} : e = CHOOSE x \in missing(u) : x.target = t
      OBVIOUS
    <3>2. e \in missing(u)
      BY <3>1
    <3>3. e \in RenderedLinks(u, web.contents[u])
      BY <3>2
    <3> QED
      BY <1>3, <3>3
  <2>3. phase = "enrichPages"
    BY <1>5 DEF EnrichPage
  <2> HIDE DEF missing, new
  <2> QED
    BY <1>1, <2>1, <2>2, <2>3
<1> QED
  BY <1>1, <1>2, <1>4, <1>5, EdgeSteps

\* A worker holds no item or one at the start.
LEMMA FoundInit == Init => FoundInv
  BY DEF Init, InitWith, FoundInv

\* Only Dispatch hands out an item, when none is held.
LEMMA FoundStep ==
    ASSUME WebInv, FoundInv, [Next]_vars
    PROVE  FoundInv'
<1> USE DEF tables, progress, report, counters, RowsBeside
<1>1. \A e \in edges' : e.mode = "browser" /\ e.internal /\ e.relation = "link" =>
        IsInScope(e.target)
  BY EdgesFound DEF FoundInv
<1>2. visiting' \subseteq visiting \/ \E i : visiting' = {i}
  <2>1. CASE SitemapEntry
    BY <2>1 DEF SitemapEntry
  <2>7. CASE Dispatch
    BY <2>7 DEF Dispatch
  <2>2. CASE Crawl /\ ~SitemapEntry /\ ~Dispatch
    BY <2>2 DEF Crawl, OnboardSeedHost, StartCrawl, StartPipeline, DropOutOfScope,
                OnboardVisited, SkipVisit, FetchFails, FetchAndAnalyze, PipelineEnds,
                PipelineFails
  <2>3. CASE Browse
    BY <2>3 DEF Browse, StartGapEscalation, RenderKeyPage, EndGapEscalation,
                QueueBrowserDiscovered, StartPipeline, StartEnrich, EnrichPage, EndEnrich
  <2>4. CASE Audit
    BY <2>4 DEF Audit, HeadCheckAssets, StartHTTPAudit, AuditHTTPHost, EndHTTPAudit, RunAudits,
                CheckMarkdown, CheckText
  <2>5. CASE Report
    BY <2>5 DEF Report, RecalculateCounts, RecomputeDepths, StartDetection, RunDetector,
                DetectorFails, MaterializeAndCount, Finalize
  <2>6. CASE UNCHANGED vars
    BY <2>6 DEF vars
  <2> QED
    BY <2>1, <2>2, <2>3, <2>4, <2>5, <2>6, <2>7 DEF Next
<1> QED
  BY <1>1, <1>2 DEF FoundInv

\* A sequence with another first element, one more, or one less.
LEMMA FirstChanged ==
    ASSUME NEW C, NEW s \in Seq(C), NEW c
    PROVE  /\ s # << >> => /\ [s EXCEPT ![1] = c] \in Seq(C \cup {c})
                           /\ Tail(s) \in Seq(C) /\ s[1] \in C
           /\ <<c>> \o s \in Seq(C \cup {c})
<1>1. s \in Seq(C \cup {c}) /\ <<c>> \in Seq(C \cup {c})
  OBVIOUS
<1>2. <<c>> \o s \in Seq(C \cup {c})
  BY <1>1
<1>3. ASSUME s # << >> PROVE [s EXCEPT ![1] = c] \in Seq(C \cup {c})
  BY <1>1, <1>3
<1>4. ASSUME s # << >> PROVE Tail(s) \in Seq(C) /\ s[1] \in C
  BY <1>4
<1> QED
  BY <1>2, <1>3, <1>4

\* A new call brings its own depth.
LEMMA CallMade ==
    ASSUME CallDepths(calls), NEW key, NEW depth \in Nat, CallOnboard(key, depth)
    PROVE  CallDepths(calls')
<1>1. PICK C : /\ calls \in Seq(C)
               /\ \A c \in C : DOMAIN c = {"depth", "left", "current"} /\ c.depth \in Nat
  BY DEF CallDepths
<1>2. PICK found : calls' = <<[depth |-> depth, left |-> found, current |-> {}]>> \o calls
  BY DEF CallOnboard
<1> DEFINE c == [depth |-> depth, left |-> found, current |-> {}]
<1>3. DOMAIN c = {"depth", "left", "current"} /\ c.depth \in Nat
  OBVIOUS
<1> HIDE DEF c
<1>4. calls' \in Seq(C \cup {c})
  BY <1>1, <1>2, FirstChanged DEF c
<1> QED
  BY <1>1, <1>3, <1>4 DEF CallDepths

\* A call keeps its depth.
LEMMA CallsLevel ==
    ASSUME CallDepths(calls)
    PROVE  /\ calls # << >> => calls[1].depth \in Nat
           /\ AdmitEntry \/ EnqueueEntry \/ OnboardReturns => CallDepths(calls')
<1>1. PICK C : /\ calls \in Seq(C)
               /\ \A c \in C : DOMAIN c = {"depth", "left", "current"} /\ c.depth \in Nat
  BY DEF CallDepths
<1>2. ASSUME NEW c, DOMAIN c = {"depth", "left", "current"}, c.depth \in Nat,
             calls' \in Seq(C \cup {c})
      PROVE  CallDepths(calls')
  BY <1>1, <1>2 DEF CallDepths
<1>4. calls # << >> => calls[1] \in C /\ 1 \in DOMAIN calls
  BY <1>1
<1>5. CASE AdmitEntry \/ EnqueueEntry
  <2>1. PICK left, current :
          calls' = [calls EXCEPT ![1].left = left, ![1].current = current]
          \/ calls' = [calls EXCEPT ![1].current = current]
    BY <1>5 DEF AdmitEntry, EnqueueEntry
  <2>2. calls # << >>
    BY <1>5 DEF AdmitEntry, EnqueueEntry
  <2> PICK c : c = calls'[1]
    OBVIOUS
  <2>3. calls' = [calls EXCEPT ![1] = c]
    BY <1>1, <1>4, <2>1, <2>2
  <2>4. DOMAIN c = {"depth", "left", "current"} /\ c.depth \in Nat
    BY <1>1, <1>4, <2>1, <2>2
  <2>5. calls' \in Seq(C \cup {c})
    BY <1>1, <2>2, <2>3, FirstChanged
  <2> QED
    BY <1>1, <1>2, <1>4, <2>4, <2>5
<1>6. CASE OnboardReturns
  <2>1. calls' \in Seq(C)
    BY <1>1, <1>6, FirstChanged DEF OnboardReturns
  <2> QED
    BY <1>1, <1>4, <2>1 DEF CallDepths
<1> QED
  BY <1>1, <1>4, <1>5, <1>6

\* The seeds are at depth 0.
LEMMA LevelInit == Init => LevelInv
<1> SUFFICES ASSUME Init PROVE LevelInv
  OBVIOUS
<1>1. calls \in Seq({})
  BY DEF Init, InitWith
<1>2. CallDepths(calls)
  BY <1>1 DEF CallDepths
<1>3. visiting = {} /\ DOMAIN pages = {} /\ queue = {[url |-> u, depth |-> 0] : u \in SeedKeys}
  BY DEF Init, InitWith
<1> QED
  BY <1>2, <1>3 DEF LevelInv

\* Until the depths are recomputed, every new depth is a number: a link is a level below its page,
\* a page is where its item was, a browser's find is below the pages that link to it.
LEMMA LevelStep ==
    ASSUME WebInv, CallsInv, FrontierInv, PagesInv, LevelInv, [Next]_vars
    PROVE  LevelInv'
<1> USE DEF onboarding, tables, progress, report, counters, RowsBeside, Crawling
<1>1. ASSUME phase' \in Crawling => phase \in Crawling, UNCHANGED <<calls, pages>>,
             queue' \cup visiting' \subseteq queue \cup visiting
      PROVE  LevelInv'
  <2>1. CallDepths(calls)' <=> CallDepths(calls)
    BY <1>1 DEF CallDepths
  <2> QED
    BY <1>1, <2>1 DEF LevelInv
<1>2. ASSUME UNCHANGED phase, UNCHANGED <<calls, queue, visiting>>, NEW u, NEW page,
             pages' = [pages EXCEPT ![u] = Enriched(@, page)]
      PROVE  LevelInv'
  <2>1. CallDepths(calls)' <=> CallDepths(calls)
    BY <1>2 DEF CallDepths
  <2>2. DOMAIN pages' = DOMAIN pages /\ \A v \in DOMAIN pages : pages'[v].depth = pages[v].depth
    BY <1>2 DEF Enriched, PagesInv, PageColumns
  <2> QED
    BY <1>2, <2>1, <2>2 DEF LevelInv
<1>3. CASE EnqueueEntry /\ SitemapEntry
  <2>1. UNCHANGED <<phase, pages, visiting>>
    BY <1>3 DEF SitemapEntry, EnqueueEntry
  <2>2. UNCHANGED queue \/ \E u : Push(u, calls[1].depth)
    BY <1>3 DEF EnqueueEntry
  <2>3. ASSUME phase \in Crawling
        PROVE  CallDepths(calls)' /\ \A i \in queue' : i.depth \in Nat
    <3>1. CallDepths(calls') /\ calls[1].depth \in Nat
      BY <1>3, <2>3, CallsLevel DEF LevelInv, EnqueueEntry
    <3>2. \A i \in queue' \ queue : i.depth = calls[1].depth
      BY <2>2 DEF Push
    <3> QED
      BY <2>3, <3>1, <3>2 DEF LevelInv, CallDepths
  <2> QED
    BY <2>1, <2>3 DEF LevelInv
<1>4. CASE OnboardEntryHost /\ SitemapEntry
  <2>1. PICK u : calls # << >> /\ CallOnboard(KeyOf(u), calls[1].depth)
    BY <1>4 DEF OnboardEntryHost
  <2>2. phase \in Crawling => CallDepths(calls')
    BY <2>1, CallsLevel, CallMade DEF LevelInv
  <2>3. UNCHANGED <<phase, pages, visiting, queue>>
    BY <1>4 DEF SitemapEntry, OnboardEntryHost
  <2> QED
    BY <2>2, <2>3 DEF LevelInv, CallDepths
<1>5. CASE (AdmitEntry \/ OnboardReturns) /\ SitemapEntry
  <2>1. phase \in Crawling => CallDepths(calls')
    BY <1>5, CallsLevel DEF LevelInv
  <2>2. UNCHANGED <<phase, pages, visiting, queue>>
    BY <1>5 DEF SitemapEntry, AdmitEntry, OnboardReturns
  <2> QED
    BY <2>1, <2>2 DEF LevelInv, CallDepths
<1>6. CASE OnboardSeedHost
  <2>1. phase = "seeds" /\ UNCHANGED <<phase, pages, visiting, queue>>
    BY <1>6 DEF OnboardSeedHost
  <2>2. UNCHANGED calls \/ \E key : CallOnboard(key, 1)
    BY <1>6 DEF OnboardSeedHost
  <2>3. CallDepths(calls')
    BY <2>1, <2>2, CallMade DEF LevelInv, CallDepths
  <2> QED
    BY <2>1, <2>3 DEF LevelInv, CallDepths
<1>7. CASE OnboardVisited
  <2>1. PICK i \in visiting : Visiting(i) /\ CallOnboard(KeyOf(i.url), i.depth + 1)
    BY <1>7 DEF OnboardVisited
  <2>2. i.depth + 1 \in Nat
    BY <2>1 DEF Visiting, LevelInv
  <2>3. CallDepths(calls')
    BY <2>1, <2>2, CallMade DEF Visiting, LevelInv
  <2>4. UNCHANGED <<phase, pages, visiting, queue>>
    BY <1>7 DEF OnboardVisited
  <2> QED
    BY <2>3, <2>4 DEF LevelInv, CallDepths
<1>8. CASE FetchAndAnalyze
  <2>1. PICK i, r, p, slow : Visit(i, r, p, slow)
    BY <1>8, Visited
  <2>2. /\ phase \in Crawling /\ UNCHANGED <<phase, calls>> /\ i \in visiting /\ visiting' = {}
        /\ queue' = p.queue /\ \A x \in p.queue \ queue : x.depth = i.depth + 1
    BY <2>1 DEF Visit, Expanded, MayFetch, Visiting
  <2>3. pages' = IF Analyzable(r) THEN Inserted(pages, OneRow(FiledUnder(i.url, r),
                                                      PageRow(r.page, fetchSeq + 1, i.depth)))
                 ELSE pages
    BY <2>1 DEF Visit, Persist
  <2>4. PageRow(r.page, fetchSeq + 1, i.depth).depth = i.depth
    BY DEF PageRow
  <2>5. i.depth \in Nat /\ i.depth + 1 \in Nat
    BY <2>2 DEF LevelInv
  <2>6. \A u \in DOMAIN pages' : pages'[u].depth \in Nat
    BY <2>2, <2>3, <2>4, <2>5 DEF LevelInv, Inserted, OneRow
  <2>7. CallDepths(calls)'
    BY <2>2 DEF LevelInv, CallDepths
  <2> QED
    BY <2>2, <2>5, <2>6, <2>7 DEF LevelInv
<1>9. CASE StartCrawl \/ DropOutOfScope \/ SkipVisit \/ FetchFails \/ PipelineEnds
            \/ PipelineFails
  BY <1>1, <1>9 DEF StartCrawl, StartPipeline, DropOutOfScope, SkipVisit, FetchFails,
                     PipelineEnds, PipelineFails
<1>10. CASE Dispatch
  BY <1>1, <1>10 DEF Dispatch
<1>11. CASE RenderKeyPage
  <2>1. /\ UNCHANGED <<phase, calls, queue, visiting>>
        /\ UNCHANGED pages \/ \E u, page : pages' = [pages EXCEPT ![u] = Enriched(@, page)]
    BY <1>11 DEF RenderKeyPage, UpdateGapPage
  <2> QED
    BY <1>1, <1>2, <2>1
<1>12. CASE EnrichPage
  <2>1. /\ UNCHANGED <<phase, calls, queue, visiting>>
        /\ UNCHANGED pages \/ \E u, page : pages' = [pages EXCEPT ![u] = Enriched(@, page)]
    BY <1>12 DEF EnrichPage
  <2> QED
    BY <1>1, <1>2, <2>1
<1>13. CASE QueueBrowserDiscovered
  <2> DEFINE found == {u \in BrowserDiscovered : MaxDepth <= 0 \/ BrowserDepth(u) <= MaxDepth}
             items == {[url |-> u, depth |-> BrowserDepth(u)] : u \in found}
  <2>1. /\ phase \in Crawling /\ queue' = items /\ UNCHANGED <<calls, pages, visiting>>
        /\ visiting = {}
    BY <1>13 DEF QueueBrowserDiscovered, FrontierInv
  <2>2. ASSUME NEW u \in found PROVE BrowserDepth(u) \in Nat
    <3>1. BrowserLinks(u) # {}
      BY DEF BrowserDiscovered, BrowserLinks
    <3> QED
      BY <2>1, <3>1, BrowserLevel DEF LevelInv
  <2>3. \A i \in items : i.depth \in Nat
    BY <2>2
  <2>4. CallDepths(calls)'
    BY <2>1 DEF LevelInv, CallDepths
  <2> HIDE DEF items
  <2> QED
    BY <2>1, <2>3, <2>4 DEF LevelInv
<1>14. CASE StartGapEscalation \/ EndGapEscalation \/ StartEnrich \/ EndEnrich
  BY <1>1, <1>14 DEF StartGapEscalation, EndGapEscalation, StartEnrich, EndEnrich
<1>15. CASE Audit
  BY <1>1, <1>15 DEF Audit, HeadCheckAssets, StartHTTPAudit, AuditHTTPHost, EndHTTPAudit,
                     RunAudits, CheckMarkdown, CheckText
<1>16. CASE Report
  <2>1. phase' \notin Crawling
    BY <1>16 DEF Report, RecalculateCounts, RecomputeDepths, StartDetection, RunDetector,
                 DetectorFails, MaterializeAndCount, Finalize
  <2> QED
    BY <2>1 DEF LevelInv
<1>17. CASE UNCHANGED vars
  BY <1>1, <1>17 DEF vars
<1> QED
  BY <1>3, <1>4, <1>5, <1>6, <1>7, <1>8, <1>9, <1>10, <1>11, <1>12, <1>13, <1>14, <1>15, <1>16,
     <1>17 DEF Next, Crawl, Browse, SitemapEntry

\* A table that keeps all its rows, and whose new rows have a given status.
Keeps(table, next, status) ==
    /\ \A v \in DOMAIN table : v \in DOMAIN next /\ next[v] = table[v]
    /\ \A v \in DOMAIN next \ DOMAIN table : next[v].status = status

\* A discovery keeps the rows there are and marks new ones as discovered.
LEMMA DiscoverKeeps ==
    ASSUME NEW table, NEW us, NEW internal, NEW via
    PROVE  Keeps(table, Discover(table, us, internal, via), "discovered")
<1> DEFINE rows == [u \in us |-> [status |-> "discovered", internal |-> u \in internal, via |-> via]]
           next == Discover(table, us, internal, via)
<1>1. DOMAIN rows = us /\ \A u \in us : rows[u].status = "discovered"
  OBVIOUS
<1> HIDE DEF rows
<1>2. /\ DOMAIN next = DOMAIN table \cup us
      /\ \A v \in DOMAIN next : next[v] = IF v \in DOMAIN table THEN table[v] ELSE rows[v]
  BY <1>1, Zenon DEF Discover, Inserted, rows
<1> HIDE DEF next
<1>3. Keeps(table, next, "discovered")
  BY <1>1, <1>2 DEF Keeps
<1> QED
  BY <1>3 DEF next

\* An upsert keeps the rows there are and gives a new one its status.
LEMMA UpsertKeeps ==
    ASSUME NEW table, NEW u, NEW status, NEW via
    PROVE  /\ Keeps(table, UpsertURL(table, u, status, TRUE, via), status)
           /\ Keeps(table, UpsertURL(table, u, status, IsInScope(u), via), status)
           /\ \A v \in DOMAIN UpsertURL(table, u, status, TRUE, via) \ DOMAIN table : v = u
<1> DEFINE row == [status |-> status, internal |-> TRUE, via |-> via]
           other == [status |-> status, internal |-> IsInScope(u), via |-> via]
<1>1. row.status = status /\ other.status = status
  OBVIOUS
<1>2. /\ UpsertURL(table, u, status, TRUE, via) = Inserted(table, OneRow(u, row))
      /\ UpsertURL(table, u, status, IsInScope(u), via) = Inserted(table, OneRow(u, other))
  BY Zenon DEF UpsertURL
<1> HIDE DEF row, other
<1>3. ASSUME NEW any, any.status = status
      PROVE  /\ Keeps(table, Inserted(table, OneRow(u, any)), status)
             /\ \A v \in DOMAIN Inserted(table, OneRow(u, any)) \ DOMAIN table : v = u
  BY <1>3 DEF Inserted, OneRow, Keeps
<1> QED
  BY <1>1, <1>2, <1>3

\* A visit changes the row of its own URL, which it marks as fetched; the new rows that are queued
\* are those of the links it followed.
LEMMA RowsAfterVisit ==
    ASSUME NEW i, NEW r, NEW p, NEW slow, Visit(i, r, p, slow), i.url \in DOMAIN urls,
           GoodRows(urls)
    PROVE  /\ \A u \in DOMAIN urls : u # i.url => urls'[u] = urls[u]
           /\ urls'[i.url].status = "fetched"
           /\ \A u \in DOMAIN urls' \ DOMAIN urls : urls'[u].status = "queued" => u \in p.queued
<1> DEFINE fetched == SetStatus(urls, i.url, "fetched")
           at == FiledUnder(i.url, r)
           landed == Landed(p.urls, i.url, at)
           targets == {e.target : e \in NewEdges(r, at, p.kept)}
           files == {x.asset : x \in NewRefs(r, at)}
           linked == Discover(landed, targets, InScope(targets), "link")
<1>1. /\ DOMAIN fetched = DOMAIN urls /\ fetched[i.url].status = "fetched"
      /\ \A u \in DOMAIN urls : u # i.url => fetched[u] = urls[u]
  BY DEF SetStatus, GoodRows
<1>2. /\ DOMAIN fetched \subseteq DOMAIN p.urls
      /\ \A u \in DOMAIN fetched : p.urls[u] = fetched[u]
      /\ \A u \in DOMAIN p.urls \ DOMAIN fetched : u \in p.queued
  BY DEF Visit, Expanded
<1>3. /\ \A u \in DOMAIN p.urls : u \in DOMAIN landed /\ landed[u] = p.urls[u]
      /\ \A u \in DOMAIN landed \ DOMAIN p.urls : landed[u].status # "queued"
  <2> DEFINE status == IF IsInScope(at) THEN "fetched" ELSE "out_of_scope"
  <2>1. status # "queued"
    OBVIOUS
  <2>2. landed = p.urls \/ landed = UpsertURL(p.urls, at, status, IsInScope(at), "redirect")
    BY DEF Landed
  <2> HIDE DEF landed, status, at
  <2>3. landed = p.urls \/ Keeps(p.urls, landed, status)
    BY <2>2, UpsertKeeps
  <2> QED
    BY <2>1, <2>3 DEF Keeps
<1>4. Keeps(landed, linked, "discovered")
  <2> HIDE DEF landed, targets
  <2> QED
    BY DiscoverKeeps
<1>5. urls' = Discover(linked, files, InScope(files), "asset")
  BY DEF Visit, Persist
<1> HIDE DEF linked, files
<1>6. Keeps(linked, urls', "discovered")
  BY <1>5, DiscoverKeeps
<1> HIDE DEF landed, fetched
<1> QED
  BY <1>1, <1>2, <1>3, <1>4, <1>6 DEF Keeps

\* What a step makes of the URL table and of the frontier: rows keep their status or leave the
\* frontier, new rows that are queued are in the queue, and an item is given up only when its URL
\* is out of scope or no longer marked as queued.
Steady ==
    /\ \A u \in DOMAIN urls : urls'[u] = urls[u] \/ urls'[u].status \notin {"queued", "discovered"}
    /\ \A u \in DOMAIN urls' \ DOMAIN urls :
         urls'[u].status = "queued" => \E i \in queue' : i.url = u
    /\ \A i \in queue \cup visiting :
         i \in queue' \cup visiting' \/ ~IsInScope(i.url) \/ urls'[i.url].status # "queued"

\* Up to the end of the crawls, only a new frontier is not that steady.
LEMMA SteadySteps ==
    ASSUME WebInv, FrontierInv, FoundInv, [Next]_vars, ~QueueBrowserDiscovered, phase \in Crawling
    PROVE  Steady
<1> USE DEF onboarding, tables, progress, report, counters, RowsBeside
<1>0. GoodRows(urls) /\ \A i \in visiting : i.url \in DOMAIN urls
  BY DEF FrontierInv
<1>1. ASSUME UNCHANGED urls, queue \cup visiting \subseteq queue' \cup visiting' PROVE Steady
  BY <1>1 DEF Steady
<1>2. ASSUME Keeps(urls, urls', "discovered"), UNCHANGED <<queue, visiting>> PROVE Steady
  BY <1>2 DEF Steady, Keeps
<1>3. CASE EnqueueEntry /\ SitemapEntry
  <2>1. UNCHANGED visiting
    BY <1>3 DEF SitemapEntry
  <2>2. \/ UNCHANGED <<urls, queue>>
        \/ \E u, d : urls' = UpsertURL(urls, u, "queued", TRUE, "sitemap") /\ Push(u, d)
    BY <1>3 DEF EnqueueEntry
  <2>3. ASSUME NEW u, NEW d, urls' = UpsertURL(urls, u, "queued", TRUE, "sitemap"), Push(u, d)
        PROVE  Steady
    <3>1. /\ Keeps(urls, urls', "queued")
          /\ \A v \in DOMAIN urls' \ DOMAIN urls : v = u
      BY <2>3, UpsertKeeps
    <3>2. u \notin DOMAIN urls => u \notin queued
      BY DEF FrontierInv
    <3>3. queue \subseteq queue' /\ (u \notin queued => [url |-> u, depth |-> d] \in queue')
      BY <2>3 DEF Push
    <3>4. [url |-> u, depth |-> d].url = u
      OBVIOUS
    <3>5. u \notin DOMAIN urls => \E i \in queue' : i.url = u
      BY <3>2, <3>3, <3>4
    <3> QED
      BY <2>1, <3>1, <3>3, <3>5 DEF Steady, Keeps
  <2> QED
    BY <1>1, <2>1, <2>2, <2>3
<1>4. CASE (AdmitEntry \/ OnboardEntryHost \/ OnboardReturns) /\ SitemapEntry
  BY <1>1, <1>4 DEF SitemapEntry, AdmitEntry, OnboardEntryHost, OnboardReturns
<1>5. CASE OnboardSeedHost \/ StartCrawl \/ OnboardVisited \/ PipelineEnds \/ PipelineFails
  BY <1>1, <1>5 DEF OnboardSeedHost, StartCrawl, StartPipeline, OnboardVisited, PipelineEnds,
                    PipelineFails
<1>6. CASE Dispatch
  BY <1>1, <1>6 DEF Dispatch
<1>7. CASE DropOutOfScope
  BY <1>7 DEF DropOutOfScope, Steady, FoundInv
<1>8. CASE SkipVisit \/ FetchFails
  <2>1. PICK i \in visiting, status \in {"skipped_budget", "robots_blocked", "errored"} :
          urls' = SetStatus(urls, i.url, status)
    BY <1>8 DEF SkipVisit, FetchFails
  <2>2. UNCHANGED queue /\ visiting' = {}
    BY <1>8 DEF SkipVisit, FetchFails
  <2>3. /\ DOMAIN urls' = DOMAIN urls /\ \A u \in DOMAIN urls : u # i.url => urls'[u] = urls[u]
        /\ urls'[i.url].status = status
    BY <1>0, <2>1 DEF SetStatus, GoodRows
  <2>4. \A j \in visiting : j = i
    BY <2>1 DEF FoundInv
  <2> QED
    BY <2>1, <2>2, <2>3, <2>4 DEF Steady
<1>9. CASE FetchAndAnalyze
  <2>1. PICK i, r, p, slow : Visit(i, r, p, slow)
    BY <1>9, Visited
  <2>2. /\ i \in visiting /\ queue' = p.queue /\ queue \subseteq p.queue
        /\ \A u \in p.queued \ queued : \E x \in p.queue : x.url = u
    BY <2>1 DEF Visit, Expanded
  <2>3. /\ \A u \in DOMAIN urls : u # i.url => urls'[u] = urls[u]
        /\ urls'[i.url].status = "fetched"
        /\ \A u \in DOMAIN urls' \ DOMAIN urls : urls'[u].status = "queued" => u \in p.queued
    BY <1>0, <2>1, <2>2, RowsAfterVisit
  <2>4. \A j \in visiting : j = i
    BY <2>2 DEF FoundInv
  <2>5. queued \subseteq DOMAIN urls
    BY DEF FrontierInv
  <2> QED
    BY <2>2, <2>3, <2>4, <2>5 DEF Steady
<1>10. CASE RenderKeyPage
  <2>1. /\ UNCHANGED <<queue, visiting>>
        /\ UNCHANGED urls \/ \E us : urls' = Discover(urls, us, us, "browser")
    BY <1>10 DEF RenderKeyPage, AddEdges
  <2> QED
    BY <1>1, <1>2, <2>1, DiscoverKeeps
<1>11. CASE EnrichPage
  <2>1. /\ UNCHANGED <<queue, visiting>>
        /\ \/ UNCHANGED urls
           \/ \E us, vs : urls' = Discover(Discover(urls, us, us, "browser"), vs, {}, "asset")
    BY <1>11 DEF EnrichPage
  <2>2. ASSUME NEW us, NEW vs,
               urls' = Discover(Discover(urls, us, us, "browser"), vs, {}, "asset")
        PROVE  Keeps(urls, urls', "discovered")
    <3> DEFINE found == Discover(urls, us, us, "browser")
    <3>1. Keeps(urls, found, "discovered")
      BY DiscoverKeeps
    <3>2. urls' = Discover(found, vs, {}, "asset")
      BY <2>2
    <3> HIDE DEF found
    <3>3. Keeps(found, urls', "discovered")
      BY <3>2, DiscoverKeeps
    <3> QED
      BY <3>1, <3>3 DEF Keeps
  <2> QED
    BY <1>1, <1>2, <2>1, <2>2
<1>12. CASE StartGapEscalation \/ EndGapEscalation \/ StartEnrich \/ EndEnrich
  BY <1>1, <1>12 DEF StartGapEscalation, EndGapEscalation, StartEnrich, EndEnrich
<1>13. CASE Audit
  BY <1>1, <1>13 DEF Audit, HeadCheckAssets, StartHTTPAudit, AuditHTTPHost, EndHTTPAudit,
                     RunAudits, CheckMarkdown, CheckText, Crawling
<1>14. CASE Report
  BY <1>14 DEF Report, RecalculateCounts, RecomputeDepths, StartDetection, RunDetector,
               DetectorFails, MaterializeAndCount, Finalize, Crawling
<1>15. CASE UNCHANGED vars
  BY <1>1, <1>15 DEF vars
<1> QED
  BY <1>3, <1>4, <1>5, <1>6, <1>7, <1>8, <1>9, <1>10, <1>11, <1>12, <1>13, <1>14, <1>15
     DEF Next, Crawl, Browse, SitemapEntry

\* The page budget only shrinks, and no step leads back to the crawls.
LEMMA BudgetShrinks ==
    ASSUME WebInv, CounterInv, [Next]_vars
    PROVE  /\ PagesLeft' => PagesLeft
           /\ phase' \in Crawling => phase \in Crawling
<1> USE DEF tables, progress, report, counters, RowsBeside, Crawling
<1>0. MaxPages \in Int
  BY LimitsAreNumbers DEF MaxPages, Limit
<1>1. pagesCrawled' = pagesCrawled \/ pagesCrawled' = pagesCrawled + 1
  <2>1. CASE FetchAndAnalyze
    <3>1. PICK i, r, p, slow : Visit(i, r, p, slow)
      BY <2>1, Visited
    <3> QED
      BY <3>1 DEF Visit, Expanded
  <2>2. CASE SitemapEntry
    BY <2>2 DEF SitemapEntry
  <2>3. CASE OnboardSeedHost \/ StartCrawl \/ Dispatch \/ DropOutOfScope \/ OnboardVisited
             \/ SkipVisit \/ FetchFails \/ PipelineEnds \/ PipelineFails
    BY <2>3 DEF OnboardSeedHost, StartCrawl, Dispatch, DropOutOfScope, OnboardVisited, SkipVisit,
                FetchFails, PipelineEnds, PipelineFails
  <2>4. CASE Browse
    BY <2>4 DEF Browse, StartGapEscalation, RenderKeyPage, EndGapEscalation,
                QueueBrowserDiscovered, StartEnrich, EnrichPage, EndEnrich
  <2>5. CASE Audit
    BY <2>5 DEF Audit, HeadCheckAssets, StartHTTPAudit, AuditHTTPHost, EndHTTPAudit, RunAudits,
                CheckMarkdown, CheckText
  <2>6. CASE Report
    BY <2>6 DEF Report, RecalculateCounts, RecomputeDepths, StartDetection, RunDetector,
                DetectorFails, MaterializeAndCount, Finalize
  <2>7. CASE UNCHANGED vars
    BY <2>7 DEF vars
  <2> QED
    BY <2>1, <2>2, <2>3, <2>4, <2>5, <2>6, <2>7 DEF Next, Crawl
<1>2. PagesLeft' => PagesLeft
  BY <1>0, <1>1 DEF PagesLeft, CounterInv
<1>3. phase' \in Crawling => phase \in Crawling
  <2>1. CASE SitemapEntry
    BY <2>1 DEF SitemapEntry
  <2>2. CASE Crawl /\ ~SitemapEntry
    BY <2>2 DEF Crawl, OnboardSeedHost, StartCrawl, StartPipeline, Dispatch, DropOutOfScope,
                OnboardVisited, SkipVisit, FetchFails, FetchAndAnalyze, PipelineEnds, PipelineFails
  <2>3. CASE Browse
    BY <2>3 DEF Browse, StartGapEscalation, RenderKeyPage, EndGapEscalation,
                QueueBrowserDiscovered, StartPipeline, StartEnrich, EnrichPage, EndEnrich
  <2>4. CASE Audit
    BY <2>4 DEF Audit, HeadCheckAssets, StartHTTPAudit, AuditHTTPHost, EndHTTPAudit, RunAudits,
                CheckMarkdown, CheckText
  <2>5. CASE Report
    BY <2>5 DEF Report, RecalculateCounts, RecomputeDepths, StartDetection, RunDetector,
                DetectorFails, MaterializeAndCount, Finalize
  <2>6. CASE UNCHANGED vars
    BY <2>6 DEF vars
  <2> QED
    BY <2>1, <2>2, <2>3, <2>4, <2>5, <2>6 DEF Next
<1> QED
  BY <1>2, <1>3

\* The seeds are all in the queue at the start.
LEMMA PendingInit == Init => PendingInv /\ DeepInv
<1> SUFFICES ASSUME Init PROVE PendingInv /\ DeepInv
  OBVIOUS
<1>1. /\ DOMAIN urls = SeedKeys /\ phase = "seeds" /\ edges = {}
      /\ queue = {[url |-> u, depth |-> 0] : u \in SeedKeys}
  BY DEF Init, InitWith
<1>2. \A u \in SeedKeys : [url |-> u, depth |-> 0] \in queue /\ [url |-> u, depth |-> 0].url = u
  BY <1>1
<1>3. \A u \in DOMAIN urls : \E i \in queue : i.url = u
  BY <1>1, <1>2
<1> QED
  BY <1>1, <1>3 DEF PendingInv, DeepInv, BrowserDiscovered, InternalLinks

\* The crawl ends with an empty queue or a spent budget, and nobody fills the queue between crawls.
LEMMA QueueEmptied ==
    ASSUME WebInv, CounterInv, CallsInv, FrontierInv, PendingInv, [Next]_vars, PagesLeft,
           phase' \in Crawling \ {"seeds", "crawl"}
    PROVE  queue' = {}
<1> USE DEF onboarding, tables, progress, report, counters, RowsBeside
<1>0. phase \in Crawling /\ (phase \notin {"seeds", "crawl"} => queue = {} /\ calls = << >>)
  BY BudgetShrinks DEF PendingInv, CallsInv
<1>1. ASSUME phase \notin {"seeds", "crawl"}, UNCHANGED queue PROVE queue' = {}
  BY <1>0, <1>1
<1>2. CASE SitemapEntry
  <2>1. calls # << >> /\ UNCHANGED phase
    BY <1>2 DEF SitemapEntry, AdmitEntry, OnboardEntryHost, EnqueueEntry, OnboardReturns
  <2> QED
    BY <1>0, <2>1
<1>3. CASE OnboardSeedHost \/ StartCrawl \/ Dispatch \/ DropOutOfScope \/ OnboardVisited
           \/ SkipVisit \/ FetchFails \/ FetchAndAnalyze \/ PipelineFails
  BY <1>3 DEF OnboardSeedHost, StartCrawl, StartPipeline, Dispatch, DropOutOfScope,
              OnboardVisited, SkipVisit, FetchFails, FetchAndAnalyze, MayFetch, Visiting,
              PipelineFails, Crawling, FrontierInv
<1>4. CASE PipelineEnds
  BY <1>4 DEF PipelineEnds
<1>5. CASE QueueBrowserDiscovered
  <2> DEFINE found == {u \in BrowserDiscovered : MaxDepth <= 0 \/ BrowserDepth(u) <= MaxDepth}
             items == {[url |-> u, depth |-> BrowserDepth(u)] : u \in found}
  <2>1. queue' = items /\ (found # {} => phase' = "crawl")
    BY <1>5 DEF QueueBrowserDiscovered, StartPipeline
  <2>2. found = {} => items = {}
    OBVIOUS
  <2> HIDE DEF found, items
  <2> QED
    BY <2>1, <2>2
<1>6. CASE StartGapEscalation \/ RenderKeyPage \/ EndGapEscalation \/ StartEnrich \/ EnrichPage
           \/ EndEnrich
  BY <1>1, <1>6 DEF StartGapEscalation, RenderKeyPage, EndGapEscalation, StartEnrich, EnrichPage,
                    EndEnrich
<1>7. CASE Audit \/ Report
  BY <1>7 DEF Audit, HeadCheckAssets, StartHTTPAudit, AuditHTTPHost, EndHTTPAudit, RunAudits,
              CheckMarkdown, CheckText, Report, RecalculateCounts, RecomputeDepths,
              StartDetection, RunDetector, DetectorFails, MaterializeAndCount, Finalize, Crawling
<1>8. CASE UNCHANGED vars
  BY <1>0, <1>1, <1>8 DEF vars
<1> QED
  BY <1>2, <1>3, <1>4, <1>5, <1>6, <1>7, <1>8 DEF Next, Crawl, Browse

\* Nothing that is marked as queued is forgotten.
LEMMA PendingStep ==
    ASSUME WebInv, CounterInv, CallsInv, FrontierInv, FoundInv, PendingInv, [Next]_vars
    PROVE  PendingInv'
<1> SUFFICES ASSUME phase' \in Crawling, PagesLeft'
             PROVE  \A u \in DOMAIN urls' :
                      urls'[u].status = "queued" /\ IsInScope(u) =>
                        \E i \in queue' \cup visiting' : i.url = u
  BY BudgetShrinks, QueueEmptied DEF PendingInv
<1>1. phase \in Crawling /\ PagesLeft
  BY BudgetShrinks
<1>2. \A u \in DOMAIN urls :
        urls[u].status = "queued" /\ IsInScope(u) => \E i \in queue \cup visiting : i.url = u
  BY <1>1 DEF PendingInv
<1>3. CASE ~QueueBrowserDiscovered
  <2>1. Steady
    BY <1>1, <1>3, SteadySteps
  <2> TAKE u \in DOMAIN urls'
  <2> HAVE urls'[u].status = "queued" /\ IsInScope(u)
  <2>2. CASE u \in DOMAIN urls
    <3>1. urls[u].status = "queued"
      BY <2>1, <2>2 DEF Steady
    <3>2. PICK i \in queue \cup visiting : i.url = u
      BY <1>2, <2>2, <3>1
    <3>3. i \in queue' \cup visiting'
      BY <2>1, <3>2 DEF Steady
    <3> QED
      BY <3>2, <3>3
  <2>3. CASE u \notin DOMAIN urls
    BY <2>1, <2>3 DEF Steady
  <2> QED
    BY <2>2, <2>3
<1>4. CASE QueueBrowserDiscovered
  <2> DEFINE found == {u \in BrowserDiscovered : MaxDepth <= 0 \/ BrowserDepth(u) <= MaxDepth}
             items == {[url |-> u, depth |-> BrowserDepth(u)] : u \in found}
  <2>1. /\ phase \in {"queueGap", "queueEnriched"} /\ queue' = items
        /\ urls' = [u \in DOMAIN urls |->
                      IF u \in found THEN [urls[u] EXCEPT !.status = "queued"] ELSE urls[u]]
    BY <1>4 DEF QueueBrowserDiscovered
  <2>2. queue = {} /\ visiting = {}
    BY <1>1, <2>1 DEF PendingInv, FrontierInv
  <2>3. \A u \in found : \E i \in items : i.url = u
    <3> TAKE u \in found
    <3>1. [url |-> u, depth |-> BrowserDepth(u)] \in items
          /\ [url |-> u, depth |-> BrowserDepth(u)].url = u
      OBVIOUS
    <3> QED
      BY <3>1
  <2> HIDE DEF found, items
  <2> QED
    BY <1>2, <2>1, <2>2, <2>3
<1> QED
  BY <1>3, <1>4

\* Up to the browser passes and between them, stored pages keep their rows.
LEMMA RowsOfPagesKept ==
    ASSUME WebInv, [Next]_vars, phase \in {"seeds", "crawl", "gap", "enrich", "assets"}
    PROVE  \A u \in DOMAIN pages : u \in DOMAIN pages' /\ pages'[u] = pages[u]
<1> USE DEF tables, progress, report, counters, RowsBeside
<1>1. CASE UNCHANGED pages
  BY <1>1
<1>2. CASE SitemapEntry
  BY <1>1, <1>2 DEF SitemapEntry, AdmitEntry, OnboardEntryHost, EnqueueEntry, OnboardReturns
<1>3. CASE OnboardSeedHost \/ StartCrawl \/ Dispatch \/ DropOutOfScope \/ OnboardVisited
           \/ SkipVisit \/ FetchFails \/ PipelineEnds \/ PipelineFails
  BY <1>1, <1>3 DEF OnboardSeedHost, StartCrawl, Dispatch, DropOutOfScope, OnboardVisited,
                    SkipVisit, FetchFails, PipelineEnds, PipelineFails
<1>4. CASE FetchAndAnalyze
  <2>1. PICK i, r, p, slow : Visit(i, r, p, slow)
    BY <1>4, Visited
  <2>2. UNCHANGED pages \/ \E u, row : pages' = Inserted(pages, OneRow(u, row))
    BY <2>1 DEF Visit, Persist
  <2> QED
    BY <2>2 DEF Inserted, OneRow
<1>5. CASE Browse
  BY <1>1, <1>5 DEF Browse, StartGapEscalation, RenderKeyPage, EndGapEscalation,
                    QueueBrowserDiscovered, StartEnrich, EnrichPage, EndEnrich
<1>6. CASE Audit
  BY <1>1, <1>6 DEF Audit, HeadCheckAssets, StartHTTPAudit, AuditHTTPHost, EndHTTPAudit,
                    RunAudits, CheckMarkdown, CheckText
<1>7. CASE Report
  BY <1>1, <1>7 DEF Report, RecalculateCounts, RecomputeDepths, StartDetection, RunDetector,
                    DetectorFails, MaterializeAndCount, Finalize
<1>8. CASE UNCHANGED vars
  BY <1>1, <1>8 DEF vars
<1> QED
  BY <1>2, <1>3, <1>4, <1>5, <1>6, <1>7, <1>8 DEF Next, Crawl

\* A browser pass is left only through a new frontier.
LEMMA PassesEnd ==
    ASSUME [Next]_vars, ~QueueBrowserDiscovered,
           phase' \in {"seeds", "crawl", "gap", "enrich", "assets"}
    PROVE  phase \in {"seeds", "crawl", "gap", "enrich", "assets"}
<1> USE DEF progress
<1>1. CASE SitemapEntry
  BY <1>1 DEF SitemapEntry
<1>2. CASE Crawl /\ ~SitemapEntry
  BY <1>2 DEF Crawl, OnboardSeedHost, StartCrawl, StartPipeline, Dispatch, DropOutOfScope,
              OnboardVisited, SkipVisit, FetchFails, FetchAndAnalyze, PipelineEnds, PipelineFails
<1>3. CASE Browse
  BY <1>3 DEF Browse, StartGapEscalation, RenderKeyPage, EndGapEscalation, StartEnrich,
              EnrichPage, EndEnrich
<1>4. CASE Audit
  BY <1>4 DEF Audit, HeadCheckAssets, StartHTTPAudit, AuditHTTPHost, EndHTTPAudit, RunAudits,
              CheckMarkdown, CheckText
<1>5. CASE Report
  BY <1>5 DEF Report, RecalculateCounts, RecomputeDepths, StartDetection, RunDetector,
              DetectorFails, MaterializeAndCount, Finalize
<1>6. CASE UNCHANGED vars
  BY <1>6 DEF vars
<1> QED
  BY <1>1, <1>2, <1>3, <1>4, <1>5, <1>6 DEF Next

\* What a browser found is queued or too deep when the next crawl starts, and stays so: no crawl
\* adds a browser link or moves a stored page.
LEMMA DeepStep ==
    ASSUME WebInv, CounterInv, PagesInv, FrontierInv, TablesInv, FoundInv, LevelInv, DeepInv,
           [Next]_vars
    PROVE  DeepInv'
<1> SUFFICES ASSUME phase' \in {"seeds", "crawl", "gap", "enrich", "assets"}, PagesLeft',
                    NEW u \in BrowserDiscovered', urls'[u].status # "queued"
             PROVE  TooDeep(u)'
  BY DEF DeepInv
<1>0. PagesLeft
  BY BudgetShrinks
<1>1. PICK e \in edges' : /\ e.internal /\ e.relation = "link" /\ e.mode = "browser"
                          /\ e.target = u
  BY DEF BrowserDiscovered, InternalLinks
<1>2. urls'[u].status \in {"queued", "discovered"} /\ u \notin DOMAIN pages'
  BY DEF BrowserDiscovered
<1>3. CASE QueueBrowserDiscovered
  <2> DEFINE found == {v \in BrowserDiscovered : MaxDepth <= 0 \/ BrowserDepth(v) <= MaxDepth}
  <2>1. /\ phase \in Crawling /\ UNCHANGED <<edges, pages>>
        /\ urls' = [v \in DOMAIN urls |->
                      IF v \in found THEN [urls[v] EXCEPT !.status = "queued"] ELSE urls[v]]
    BY <1>3 DEF QueueBrowserDiscovered, Crawling
  <2>2. u \in DOMAIN urls /\ DOMAIN urls[u] = {"status", "internal", "via"}
    BY <1>1, <2>1 DEF TablesInv, FrontierInv, GoodRows
  <2>3. u \notin found /\ urls'[u] = urls[u]
    <3> HIDE DEF found
    <3> QED
      BY <2>1, <2>2
  <2>4. u \in BrowserDiscovered /\ e \in BrowserLinks(u)
    BY <1>1, <1>2, <2>1, <2>3 DEF BrowserDiscovered, BrowserLinks, InternalLinks
  <2>5. MaxDepth > 0 /\ BrowserDepth(u) > MaxDepth
    <3>1. BrowserDepth(u) \in Nat /\ MaxDepth \in Int
      BY <2>1, <2>4, BrowserLevel, LimitsAreNumbers DEF LevelInv, MaxDepth, Limit
    <3> QED
      BY <2>3, <2>4, <3>1
  <2>6. TooDeep(u)
    BY <2>1, <2>4, <2>5, BrowserLevel DEF LevelInv
  <2> QED
    BY <2>1, <2>6 DEF TooDeep, BrowserLinks, InternalLinks
<1>4. CASE ~QueueBrowserDiscovered
  <2>1. phase \in {"seeds", "crawl", "gap", "enrich", "assets"}
    BY <1>4, PassesEnd
  <2>2. Steady
    BY <1>4, <2>1, SteadySteps DEF Crawling
  <2>3. \A x \in edges' \ edges : x.mode = "static"
    BY <2>1, EdgesFound
  <2>4. e \in edges /\ u \in DOMAIN urls
    BY <1>1, <2>3 DEF TablesInv
  <2>5. urls'[u] = urls[u]
    BY <1>2, <2>2, <2>4 DEF Steady
  <2>6. \A v \in DOMAIN pages : v \in DOMAIN pages' /\ pages'[v] = pages[v]
    BY <2>1, RowsOfPagesKept
  <2>7. u \in BrowserDiscovered
    BY <1>1, <1>2, <2>4, <2>5, <2>6 DEF BrowserDiscovered, InternalLinks
  <2>8. TooDeep(u)
    BY <1>0, <2>1, <2>5, <2>7 DEF DeepInv
  <2>9. \A x \in BrowserLinks(u)' : x \in BrowserLinks(u)
    BY <2>3 DEF BrowserLinks, InternalLinks
  <2> QED
    BY <2>6, <2>8, <2>9 DEF TooDeep
<1> QED
  BY <1>3, <1>4

\* When the crawl is over with pages to spare, no URL in scope is left queued, and every internal
\* link a browser found within the depth budget has been visited.
THEOREM NothingForgotten == Spec => []NothingLeftQueued
<1>1. ASSUME FrontierInv, TablesInv, FoundInv, LevelInv, PendingInv, DeepInv
      PROVE  NothingLeftQueued
  <2> SUFFICES ASSUME phase = "assets", PagesLeft
               PROVE  /\ \A u \in DOMAIN urls : urls[u].status = "queued" => ~IsInScope(u)
                      /\ \A u \in BrowserDiscovered : MaxDepth > 0 /\ BrowserDepth(u) > MaxDepth
    BY DEF NothingLeftQueued
  <2>1. queue = {} /\ visiting = {}
    BY <1>1 DEF PendingInv, FrontierInv, Crawling
  <2>2. \A u \in DOMAIN urls : urls[u].status = "queued" => ~IsInScope(u)
    BY <1>1, <2>1 DEF PendingInv, Crawling
  <2>3. ASSUME NEW u \in BrowserDiscovered PROVE MaxDepth > 0 /\ BrowserDepth(u) > MaxDepth
    <3>1. PICK e \in BrowserLinks(u) : TRUE
      BY DEF BrowserDiscovered, BrowserLinks
    <3>2. IsInScope(u) /\ u \in DOMAIN urls
      BY <1>1, <3>1 DEF BrowserLinks, InternalLinks, FoundInv, TablesInv
    <3>3. TooDeep(u)
      BY <1>1, <2>2, <3>2 DEF DeepInv
    <3> QED
      BY <1>1, <3>1, <3>3, BrowserLevel DEF LevelInv, Crawling, TooDeep
  <2> QED
    BY <2>2, <2>3
<1> QED
  BY WebInit, WebStep, PagesInit, PagesStep, FrontierInit, FrontierStep, TablesInit, TablesStep,
     CounterInit, CounterStep, CallsInit, CallsStep, FoundInit, FoundStep, LevelInit, LevelStep,
     PendingInit, PendingStep, DeepStep, <1>1, PTL DEF Spec
=============================================================================

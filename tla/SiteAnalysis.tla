--------------------------- MODULE SiteAnalysis ---------------------------
(***************************************************************************)
(* One job from its seeds to its report (internal/engine/engine.go): the    *)
(* visits of the crawl, then the post-crawl phases in their order, on the   *)
(* tables of SiteIssues.  One worker at a time: what the worker pools do to *)
(* each other is CrawlPipeline's subject, what a phase reads of the phases  *)
(* before it is this module's.                                              *)
(*                                                                          *)
(* web, beside what Onboarding reads: web.answers gives for a URL the set   *)
(* of answers a fetch may return (no entry: the fetch fails), web.guarded   *)
(* the URLs the address guard refuses, web.menus and web.contents what a    *)
(* browser renders with and without opening menus, web.remoteFails the URLs *)
(* the remote browser does not render, web.heads the content length of a    *)
(* HEAD, web.markdown the URLs that negotiate markdown, web.grammar the     *)
(* matches LanguageTool returns.                                            *)
(* settings is the job's configuration beside its limits: render ("static", *)
(* "hybrid"), the renderers, and whether PageSpeed and LanguageTool are     *)
(* there to be asked.                                                       *)
(***************************************************************************)
EXTENDS Onboarding

CONSTANTS
  Starts,              \* [web, settings]: what a job may find and be asked for
  VariantLimit,        \* MaxQueryVariantsPerPath
  KeyPageLimit,        \* 5 in the code
  AssetCheckLimit      \* 2000 in the code

VARIABLES
  settings,    \* constant during a behaviour
  phase,       \* where RunCrawl is
  pipeline,    \* the crawl's pipeline: 1, 2 after the sitemap gap, 3 after enrichment
  todo,        \* what is left of a phase that works through a set
  visiting,    \* the item a worker holds, if any
  fetchSeq,    \* the pipeline's fetch counter
  variants,    \* [path, query] pairs seen by the pipeline's trap tracker
  flagged,     \* paths it reported
  pagesCrawled, discovered, issuesFound,   \* crawlCounters
  audits,      \* [kind, url] of the audit results
  detector,    \* the next detector
  saved,       \* the global issues before detection
  failures,    \* the steps that failed
  job          \* the job row: status and final counters

(* A parsed page and a line of robots.txt have finitely many parts.         *)
IsPage(page) ==
  /\ page.words \in Nat
  /\ \A parts \in {page.links, page.canonical, page.hreflangs, page.next, page.prev,
                   page.images} : IsFiniteSet(parts)

IsRobotsFile(lines) ==
  /\ lines \in Seq(Range(lines))
  /\ \A line \in Range(lines) :
       line.field \in {"allow", "disallow"} => line.path \in Seq(STRING)

ASSUME StartsAssumption ==
  \A start \in Starts :
    LET w == start.web
    IN  /\ \A u \in DOMAIN w.answers : \A r \in w.answers[u] : r.kind = "html" => IsPage(r.page)
        /\ \A u \in DOMAIN w.menus : IsPage(w.menus[u].page) /\ IsFiniteSet(w.menus[u].links)
        /\ \A u \in DOMAIN w.contents : IsPage(w.contents[u].page)
        /\ \A k \in DOMAIN w.robots : IsRobotsFile(w.robots[k].lines)

progress == <<settings, phase, pipeline, todo, visiting>>

counters == <<fetchSeq, variants, flagged, pagesCrawled, discovered, issuesFound>>

report == <<audits, detector, saved, failures, job>>

vars == <<tables, web, onboarding, progress, counters, report>>

RowsBeside == <<fetches, hops, sitemap, clusters>>

The(set) == CHOOSE x \in set : TRUE

-----------------------------------------------------------------------------
(* Seeds and their hosts. *)

SeedKeys == UNION {FrontierKey(s) : s \in Seeds}

InitWith(w, s) ==
  /\ web = w /\ settings = s
  /\ urls = [u \in SeedKeys |-> [status |-> "queued", internal |-> TRUE, via |-> "seed"]]
  /\ queue = {[url |-> u, depth |-> 0] : u \in SeedKeys}
  /\ queued = SeedKeys
  /\ reserved = Cardinality(SeedKeys)
  /\ fetches = {} /\ hops = {} /\ edges = {} /\ sitemap = {} /\ refs = {}
  /\ issues = {} /\ clusters = {} /\ audits = {} /\ saved = {} /\ failures = {}
  /\ pages = [u \in {} |-> 0] /\ assets = [u \in {} |-> 0] /\ rules = [h \in {} |-> 0]
  /\ onboarded = {} /\ calls = << >>
  /\ phase = "seeds" /\ pipeline = 0 /\ todo = Seeds /\ visiting = {}
  /\ fetchSeq = 0 /\ variants = {} /\ flagged = {}
  /\ pagesCrawled = 0 /\ discovered = 0 /\ issuesFound = 0
  /\ detector = 0
  /\ job = [status |-> "running", pages |-> 0, discovered |-> 0, issues |-> 0]

Init == \E start \in Starts : InitWith(start.web, start.settings)

(* onboardSeedHosts: the seeds' hosts one after the other; a host over the  *)
(* budget is passed by.                                                     *)
OnboardSeedHost ==
  /\ phase = "seeds" /\ calls = << >>
  /\ \E s \in todo :
       /\ todo' = todo \ {s}
       /\ \/ CallOnboard(KeyOf(s), 1)
          \/ /\ KeyOf(s) \in onboarded \/ ~BudgetLeft
             /\ UNCHANGED <<onboarded, rules, sitemap, calls>>
  /\ UNCHANGED <<urls, fetches, hops, pages, edges, assets, refs, issues, clusters,
                 web, queue, queued, reserved, settings, phase, pipeline, visiting,
                 counters, report>>

(* Mutant: every pipeline counts its fetches from the start. *)
StartPipelineFromZero(n) ==
  /\ phase' = "crawl" /\ pipeline' = n
  /\ fetchSeq' = 0
  /\ variants' = {} /\ flagged' = {}

(* runCrawlPipeline takes up the job's fetch sequence and starts a new trap *)
(* tracker; the counters go on.                                             *)
StartPipeline(n) ==
  /\ phase' = "crawl" /\ pipeline' = n
  /\ fetchSeq' = Max({0} \cup {f.seq : f \in fetches})
  /\ variants' = {} /\ flagged' = {}

StartCrawl ==
  /\ phase = "seeds" /\ calls = << >> /\ todo = {}
  /\ StartPipeline(1)
  /\ discovered' = Cardinality(queue)
  /\ UNCHANGED <<tables, web, onboarding, settings, todo, visiting, pagesCrawled,
                 issuesFound, report>>

-----------------------------------------------------------------------------
(* A crawl pipeline. *)

PagesLeft == MaxPages <= 0 \/ pagesCrawled < MaxPages

(* Pop: an item of the least depth. *)
Dispatch ==
  /\ phase = "crawl" /\ calls = << >> /\ visiting = {} /\ PagesLeft
  /\ \E i \in queue :
       /\ \A j \in queue : i.depth <= j.depth
       /\ queue' = queue \ {i}
       /\ visiting' = {i}
  /\ UNCHANGED <<tables, web, queued, onboarded, rules, reserved, calls, settings, phase,
                 pipeline, todo, counters, report>>

Visiting(i) == phase = "crawl" /\ calls = << >> /\ i \in visiting

SetStatus(table, u, status) == [table EXCEPT ![u].status = status]

(* The fetch worker's checks, in their order: the scope, the host's         *)
(* onboarding, the host budget, robots.txt.                                 *)
DropOutOfScope ==
  /\ \E i \in visiting : Visiting(i) /\ ~IsInScope(i.url)
  /\ visiting' = {}
  /\ UNCHANGED <<tables, web, onboarding, settings, phase, pipeline, todo, counters, report>>

OnboardVisited ==
  /\ \E i \in visiting :
       Visiting(i) /\ IsInScope(i.url) /\ CallOnboard(KeyOf(i.url), i.depth + 1)
  /\ UNCHANGED <<urls, fetches, hops, pages, edges, assets, refs, issues, clusters,
                 web, queue, queued, reserved, progress, counters, report>>

SkipVisit ==
  /\ \E i \in visiting :
       /\ Visiting(i) /\ IsInScope(i.url)
       /\ \/ /\ KeyOf(i.url) \notin onboarded /\ ~BudgetLeft
             /\ urls' = SetStatus(urls, i.url, "skipped_budget")
          \/ /\ KeyOf(i.url) \in onboarded /\ ~Allowed(i.url)
             /\ urls' = SetStatus(urls, i.url, "robots_blocked")
  /\ visiting' = {}
  /\ UNCHANGED <<fetches, hops, pages, edges, sitemap, assets, refs, issues, clusters,
                 web, onboarding, settings, phase, pipeline, todo, counters, report>>

MayFetch(i) == Visiting(i) /\ IsInScope(i.url) /\ KeyOf(i.url) \in onboarded /\ Allowed(i.url)

(* A failed fetch leaves a row without an answer; one that the address      *)
(* guard refuses leaves none, and takes a sequence number all the same.     *)
FetchFails ==
  /\ \E i \in visiting :
       /\ MayFetch(i) /\ i.url \notin DOMAIN web.answers
       /\ urls' = SetStatus(urls, i.url, "errored")
       /\ fetches' = IF i.url \in web.guarded THEN fetches
                     ELSE fetches \cup {[seq |-> fetchSeq + 1, url |-> i.url, final |-> i.url,
                                         code |-> 0, kind |-> "full"]}
  /\ visiting' = {}
  /\ fetchSeq' = fetchSeq + 1
  /\ UNCHANGED <<hops, pages, edges, sitemap, assets, refs, issues, clusters,
                 web, onboarding, settings, phase, pipeline, todo, variants, flagged,
                 pagesCrawled, discovered, issuesFound, report>>

(* The trap tracker with one more URL: the variants seen, and whether its   *)
(* path has too many of them.                                               *)
Observed(seen, u) == IF u.query = << >> THEN seen
                     ELSE seen \cup {[path |-> u.path, query |-> u.query]}

Trapped(seen, u) ==
  u.query # << >> /\ Cardinality({v \in seen : v.path = u.path}) > VariantLimit

(* The frontier's expansion with one internal link of a page: s is what the *)
(* links before it made of the page's edges, the tables and the counters.   *)
(* A link that trips a guard is neither followed nor kept.                  *)
AdmitLink(link, s) ==
  LET u == The(FrontierKey(link.target))
      seen == Observed(s.variants, u)
      trapped == Trapped(seen, u)
      budget == DiscoveredMax <= 0 \/ s.discovered < DiscoveredMax
  IN  IF \/ u = s.source
         \/ s.depth > MaxDepth
         \/ MaxPages > 0 /\ s.crawled >= MaxPages
         \/ HasRepeatedPathSegments(u) THEN s
      ELSE IF trapped \/ ~budget THEN
        [s EXCEPT !.variants = seen,
                  !.flagged = IF trapped THEN @ \cup {u.path} ELSE @,
                  !.traps = IF trapped /\ u.path \notin s.flagged
                              THEN @ \cup {SiteIssue("crawl_trap_suspected", {u})} ELSE @]
      ELSE
        [s EXCEPT !.variants = seen,
                  !.discovered = @ + 1,
                  !.urls = UpsertURL(@, u, "queued", TRUE, "link"),
                  !.queue = IF u \in s.queued THEN @
                            ELSE @ \cup {[url |-> u, depth |-> s.depth]},
                  !.queued = @ \cup {u},
                  !.kept = @ \cup {[link EXCEPT !.target = u, !.internal = IsInScope(u)]}]

AssetRefs ==
  [script |-> "script_src", stylesheet |-> "stylesheet_href", font |-> "font_preload",
   icon |-> "icon_href", video |-> "video_src", audio |-> "audio_src",
   preload |-> "preload_href"]

RefsOf(u, page) ==
  (UNION {{[asset |-> n, page |-> u, type |-> "img_src"] : n \in Normalize(v)} :
            v \in page.images})
  \cup (UNION {{[asset |-> n, page |-> u,
                 type |-> IF a.type \in DOMAIN AssetRefs THEN AssetRefs[a.type] ELSE "other"] :
                  n \in Normalize(a.url)} : a \in page.assets})

(* Mutant: the page refers to the fetch before its own. *)
PageRowOfPrevious(page, seq, depth) ==
  [fetch |-> seq - 1, depth |-> depth, title |-> page.title, description |-> page.description,
   hash |-> page.hash, h1 |-> page.h1, h2 |-> page.h2, words |-> page.words,
   indexable |-> page.indexable, canonical |-> page.canonical, canonicalCode |-> {},
   hreflangs |-> page.hreflangs, next |-> page.next, prev |-> page.prev,
   suspect |-> page.suspect, inbound |-> 0, linking |-> 0, outbound |-> 0]

(* The row of an analysed page. *)
PageRow(page, seq, depth) ==
  [fetch |-> seq, depth |-> depth, title |-> page.title, description |-> page.description,
   hash |-> page.hash, h1 |-> page.h1, h2 |-> page.h2, words |-> page.words,
   indexable |-> page.indexable, canonical |-> page.canonical, canonicalCode |-> {},
   hreflangs |-> page.hreflangs, next |-> page.next, prev |-> page.prev,
   suspect |-> page.suspect, inbound |-> 0, linking |-> 0, outbound |-> 0]

(* Upserts of a set of URLs with one origin, some of them internal. *)
Discover(table, us, internal, via) ==
  Inserted(table, [u \in us |-> [status |-> "discovered", internal |-> u \in internal,
                                 via |-> via]])

InScope(us) == {u \in us : IsInScope(u)}

(* Mutant: the URL a redirect led to is not held against the scope. *)
AnalyzableAnywhere(r) == r.kind = "html" /\ r.code \in 200..299

(* isAnalyzablePageStatus and isFinalURLInScope: the answers that are pages. *)
Analyzable(r) ==
  r.kind = "html" /\ r.code \in 200..299 /\ \E k \in FrontierKey(r.final) : IsInScope(k)

(* The URL a fetch is filed under: the final one, if it has a key. *)
FiledUnder(u, r) ==
  IF r.final = u \/ FrontierKey(r.final) = {} THEN u ELSE The(FrontierKey(r.final))

Context(i, r, built) ==
  [page |-> r.page, status |-> r.code, hops |-> Cardinality(r.hops), loop |-> r.loop,
   exceeded |-> r.exceeded, ttfb |-> r.ttfb, kilobytes |-> r.kilobytes,
   headers |-> r.headers, hasHeaders |-> TRUE, policy |-> r.policy, url |-> r.final,
   edges |-> built, depth |-> i.depth]

(* The edges of an answer, and those the frontier is expanded with. *)
Built(i, r) ==
  IF Analyzable(r) THEN BuildEdges(FiledUnder(i.url, r), r.final, r.page, "static", SeedHost)
  ELSE {}

Followed(i, r) == {e \in Built(i, r) : e.relation = "link" /\ e.internal}

PageLocalTypes(i, r) ==
  IF Analyzable(r) THEN DetectPageLocalIssues(Context(i, r, Built(i, r)))
  ELSE IF r.code = 429 THEN {"rate_limited"} ELSE {}

(* What the frontier's expansion starts from. *)
Unexpanded(i, r, fetched) ==
  [source |-> IF FrontierKey(r.final) = {} THEN i.url ELSE The(FrontierKey(r.final)),
   depth |-> i.depth + 1,
   crawled |-> IF Analyzable(r) THEN pagesCrawled + 1 ELSE pagesCrawled,
   kept |-> Built(i, r) \ Followed(i, r), urls |-> fetched, queue |-> queue,
   queued |-> queued, variants |-> variants, flagged |-> flagged,
   discovered |-> discovered, traps |-> {}]

(* processParseResult: the frontier is expanded with one link after the     *)
(* other.                                                                   *)
Parse(i, r, fetched) ==
  LET n == Cardinality(Followed(i, r))
      links == SetToSeq(Followed(i, r))
      expanded[k \in 0..n] ==
        IF k = 0 THEN Unexpanded(i, r, fetched) ELSE AdmitLink(links[k], expanded[k - 1])
  IN  expanded[n]

(* The table with the URL a visit is filed under. *)
Landed(table, u, at) ==
  IF at = u THEN table
  ELSE UpsertURL(table, at, IF IsInScope(at) THEN "fetched" ELSE "out_of_scope",
                 IsInScope(at), "redirect")

(* A page that is already stored keeps its row, its edges and its assets:   *)
(* only the issues about the fetch are added.                               *)
IsNew(r, at) == r.kind = "html" /\ ~(Analyzable(r) /\ at \in DOMAIN pages)

KeptIssues(r, at, types) ==
  {PageIssue(t, at) : t \in IF r.kind # "html" THEN {}
                            ELSE IF IsNew(r, at) THEN types ELSE types \cap FetchOnlyIssues}

NewEdges(r, at, kept) == IF IsNew(r, at) THEN kept ELSE {}

NewRefs(r, at) == IF IsNew(r, at) /\ Analyzable(r) THEN RefsOf(at, r.page) ELSE {}

(* The length of a file: the header's, or that of the body. *)
Length(r) == IF r.length > 0 THEN r.length ELSE r.size

(* persistItem, on what Parse left (p). *)
Persist(i, r, p, seq, slow) ==
  LET at == FiledUnder(i.url, r)
      linked == NewEdges(r, at, p.kept)
      targets == {e.target : e \in linked}
      attached == NewRefs(r, at)
      files == {x.asset : x \in attached}
  IN  /\ urls' = Discover(Discover(Landed(p.urls, i.url, at), targets, InScope(targets), "link"),
                          files, InScope(files), "asset")
      /\ fetches' = fetches \cup
                      {[seq |-> seq, url |-> i.url, final |-> at, code |-> r.code,
                        kind |-> "full"]}
      /\ hops' = hops \cup r.hops
      /\ assets' = IF r.kind = "html" THEN assets ELSE Inserted(OneRow(i.url, Length(r)), assets)
      /\ pages' = IF Analyzable(r) THEN Inserted(pages, OneRow(at, PageRow(r.page, seq, i.depth)))
                  ELSE pages
      /\ edges' = edges \cup linked
      /\ refs' = refs \cup attached
      /\ issues' = issues \cup slow \cup p.traps \cup KeptIssues(r, at, PageLocalTypes(i, r))
      /\ UNCHANGED <<sitemap, clusters>>

(* A visit whose fetch is answered.  slow_host is reported when the average *)
(* of the host's last answers is high, which takes a slow one.              *)
FetchAndAnalyze ==
  \E i \in visiting :
    /\ MayFetch(i) /\ i.url \in DOMAIN web.answers
    /\ \E r \in web.answers[i.url] :
       \E slow \in IF r.ttfb > 5000 THEN {{}, {Row("slow_host", "page_local", {}, {})}}
                   ELSE {{}} :
         LET p == Parse(i, r, SetStatus(urls, i.url, "fetched"))
         IN  /\ Persist(i, r, p, fetchSeq + 1, slow)
             /\ queue' = p.queue /\ queued' = p.queued
             /\ variants' = p.variants /\ flagged' = p.flagged
             /\ pagesCrawled' = p.crawled
             /\ discovered' = p.discovered
             /\ issuesFound' = issuesFound + Cardinality(PageLocalTypes(i, r))
    /\ fetchSeq' = fetchSeq + 1
    /\ visiting' = {}
    /\ UNCHANGED <<web, onboarded, rules, reserved, calls, settings, phase, pipeline, todo,
                   report>>

AfterPipeline ==
  IF RenderMode(settings) = "static" \/ pipeline = 3 THEN "assets"
  ELSE IF pipeline = 1 THEN "gap" ELSE "enrich"

(* The queue is empty or the page budget is spent. *)
PipelineEnds ==
  /\ phase = "crawl" /\ calls = << >> /\ visiting = {}
  /\ queue = {} \/ ~PagesLeft
  /\ phase' = AfterPipeline
  /\ UNCHANGED <<tables, web, onboarding, settings, pipeline, todo, visiting, counters, report>>

(* The context is cancelled or a worker fails.  The first pipeline's error  *)
(* decides the job's status; a later one's only skips the remaining phases, *)
(* and the job is finalised with the first one's nil.                       *)
PipelineFails ==
  /\ phase = "crawl" /\ calls = << >>
  /\ phase' = "finalize"
  /\ failures' = failures \cup {"pipeline"}
  /\ \E status \in {"cancelled", "failed"} :
       job' = IF pipeline = 1 THEN [job EXCEPT !.status = status] ELSE job
  /\ UNCHANGED <<tables, web, onboarding, settings, pipeline, todo, visiting, counters,
                 audits, detector, saved>>

-----------------------------------------------------------------------------
(* The browser passes. *)

StaticLinks == {e \in InternalLinks : e.mode = "static"}

(* The sitemap's URLs that no page links to in its static HTML. *)
SitemapGap ==
  (UNION {Normalize(s.url) : s \in sitemap})
    \ UNION {Normalize(e.declared) \ {e.source} : e \in StaticLinks}

EdgesOf(u) == {e \in edges : e.source = u}

(* The internal pages with the most edges, KeyPageLimit of them. *)
KeyPages ==
  LET fetched == {u \in DOMAIN urls : urls[u].status = "fetched" /\ urls[u].internal}
  IN  {K \in kSubset(Min({KeyPageLimit, Cardinality(fetched)}), fetched) :
         \A u \in K, v \in fetched \ K :
           Cardinality(EdgesOf(u)) >= Cardinality(EdgesOf(v))}

(* The pages a browser is let near: the address guard is asked again. *)
Renderable(u) == u \notin web.guarded

RemoteFails(u) == u \in web.remoteFails

StartGapEscalation ==
  /\ phase = "gap"
  /\ IF SitemapGap # {} /\ HasMenuRenderer(settings)
       THEN phase' = "gapRender" /\ todo' \in KeyPages
       ELSE phase' = "queueGap" /\ UNCHANGED todo
  /\ UNCHANGED <<tables, web, onboarding, settings, pipeline, visiting, counters, report>>

(* Mutant: only the suspicion is withdrawn. *)
InvalidatedMark(page) == {"js_suspect_not_rendered"}

(* removeInvalidatedBrowserIssues: what the rendered page no longer misses. *)
Invalidated(page) ==
  {"js_suspect_not_rendered"}
    \cup (IF page.h1 # << >> THEN {"missing_h1"} ELSE {})
    \cup (IF page.h2 # << >> THEN {"missing_h2"} ELSE {})
    \cup (IF page.words >= ThinContent THEN {"thin_content"} ELSE {})

IssuesWithout(u, page) ==
  {i \in issues : ~(i.scope = "page_local" /\ i.on = {u} /\ i.type \in Invalidated(page))}

(* A page row with the rendered content. *)
Enriched(row, page) ==
  [row EXCEPT !.words = page.words, !.hash = page.hash, !.h1 = page.h1, !.h2 = page.h2]

(* The gap pass updates the row when the browser saw more words, and drops  *)
(* the page's invalidated issues when it saw any.                           *)
UpdateGapPage(u, page) ==
  /\ pages' = IF u \in DOMAIN pages /\ page.words > pages[u].words
                THEN [pages EXCEPT ![u] = Enriched(@, page)] ELSE pages
  /\ issues' = IF page.words > 0 THEN IssuesWithout(u, page) ELSE issues

RenderedLinks(u, r) ==
  {e \in BuildEdges(u, r.final, r.page, "browser", SeedHost) :
     e.relation = "link" /\ e.internal}

Declared(es) == UNION {Normalize(e.declared) : e \in es}

MenuEdge(u, link) ==
  [source |-> u, declared |-> link, target |-> The(Normalize(link)), relation |-> "link",
   mode |-> "browser", internal |-> TRUE, rel |-> {}, anchor |-> None, blank |-> FALSE]

(* Links of the rendered page and of the opened menus that its static HTML  *)
(* does not have.                                                           *)
GapEdges(u, r, links) ==
  LET existing == Declared({e \in EdgesOf(u) : e.mode = "static"})
      all == BuildEdges(u, r.final, r.page, "browser", SeedHost)
  IN  {e \in RenderedLinks(u, r) : e.target \notin existing}
      \cup {MenuEdge(u, l) :
              l \in {x \in links :
                       /\ x.fragment = None
                       /\ \E n \in Normalize(x) :
                            /\ IsInScope(n)
                            /\ n \notin existing \cup {e.target : e \in all}}}

AddEdges(new) ==
  /\ edges' = edges \cup new
  /\ LET found == {e.target : e \in new}
     IN  urls' = Discover(urls, found, found, "browser")

(* sitemapGapEscalation, one key page; a page that does not render is left, *)
(* and the local browser reports no links of the menus it opened.           *)
RenderKeyPage ==
  /\ phase = "gapRender"
  /\ \E u \in todo :
       /\ todo' = todo \ {u}
       /\ IF u \in DOMAIN web.menus /\ Renderable(u) /\ RendersMenus(settings, RemoteFails(u))
            THEN LET r == web.menus[u]
                     links == IF RendersContent(settings, RemoteFails(u)) THEN r.links ELSE {}
                 IN  /\ UpdateGapPage(u, r.page)
                     /\ AddEdges(GapEdges(u, r, links))
            ELSE UNCHANGED <<pages, issues, edges, urls>>
  /\ UNCHANGED <<RowsBeside, assets, refs, web, onboarding, settings, phase, pipeline,
                 visiting, counters, report>>

EndGapEscalation ==
  /\ phase = "gapRender" /\ todo = {}
  /\ phase' = "queueGap"
  /\ UNCHANGED <<tables, web, onboarding, settings, pipeline, todo, visiting, counters, report>>

(* queueBrowserDiscoveredLinkURLs: a new frontier of the browser-discovered *)
(* internal URLs without a page, one click below the shallowest page that   *)
(* links to them, within MaxDepth if that is positive.                      *)
BrowserDiscovered ==
  {e.target : e \in {x \in InternalLinks :
                       /\ x.mode = "browser"
                       /\ urls[x.target].status \in {"discovered", "queued"}
                       /\ x.target \notin DOMAIN pages}}

BrowserDepth(u) ==
  Min({IF e.source \in DOMAIN pages THEN pages[e.source].depth + 1 ELSE 1 :
         e \in {x \in InternalLinks : x.mode = "browser" /\ x.target = u}})

QueueBrowserDiscovered ==
  /\ phase \in {"queueGap", "queueEnriched"}
  /\ LET found == {u \in BrowserDiscovered : MaxDepth <= 0 \/ BrowserDepth(u) <= MaxDepth}
     IN  /\ queue' = {[url |-> u, depth |-> BrowserDepth(u)] : u \in found}
         /\ queued' = found
         /\ urls' = [u \in DOMAIN urls |->
                       IF u \in found THEN [urls[u] EXCEPT !.status = "queued"] ELSE urls[u]]
         /\ IF found = {}
              THEN /\ phase' = IF phase = "queueGap" THEN "enrich" ELSE "assets"
                   /\ UNCHANGED <<pipeline, fetchSeq, variants, flagged>>
              ELSE StartPipeline(IF phase = "queueGap" THEN 2 ELSE 3)
  /\ UNCHANGED <<fetches, hops, pages, edges, sitemap, assets, refs, issues, clusters, web,
                 onboarded, rules, reserved, calls, settings, todo, visiting, pagesCrawled,
                 discovered, issuesFound, report>>

(* browserEnrichPages: the pages that look incomplete. *)
StartEnrich ==
  /\ phase = "enrich"
  /\ IF HasContentRenderer(settings)
       THEN /\ phase' = "enrichPages"
            /\ todo' = {u \in DOMAIN pages :
                          pages[u].suspect \/ pages[u].words < 3 * ThinContent}
       ELSE phase' = "assets" /\ UNCHANGED todo
  /\ UNCHANGED <<tables, web, onboarding, settings, pipeline, visiting, counters, report>>

(* browserEnrichPage: edges to targets the page has none to, one for each;  *)
(* images as they are spelled; the row and the issues only if the browser   *)
(* saw more words.                                                          *)
EnrichPage ==
  /\ phase = "enrichPages"
  /\ \E u \in todo :
       /\ todo' = todo \ {u}
       /\ IF u \in DOMAIN web.contents /\ Renderable(u)
               /\ RendersContent(settings, RemoteFails(u))
            THEN LET r == web.contents[u]
                     missing == {e \in RenderedLinks(u, r) :
                                   e.target \notin Declared(EdgesOf(u))}
                     found == {e.target : e \in missing}
                     new == {CHOOSE e \in missing : e.target = t : t \in found}
                     more == r.page.words > pages[u].words
                 IN  /\ edges' = edges \cup new
                     /\ urls' = Discover(Discover(urls, found, found, "browser"),
                                         r.page.images, {}, "asset")
                     /\ refs' = refs \cup {[asset |-> v, page |-> u, type |-> "img_src"] :
                                             v \in r.page.images}
                     /\ pages' = IF more THEN [pages EXCEPT ![u] = Enriched(@, r.page)]
                                 ELSE pages
                     /\ issues' = IF more THEN IssuesWithout(u, r.page) ELSE issues
            ELSE UNCHANGED <<edges, urls, refs, pages, issues>>
  /\ UNCHANGED <<RowsBeside, assets, web, onboarding, settings, phase, pipeline, visiting,
                 counters, report>>

(* Mutant: what the browser found last is not crawled. *)
EndEnrichToAssets ==
  /\ phase = "enrichPages" /\ todo = {}
  /\ phase' = "assets"
  /\ UNCHANGED <<tables, web, onboarding, settings, pipeline, todo, visiting, counters, report>>

EndEnrich ==
  /\ phase = "enrichPages" /\ todo = {}
  /\ phase' = "queueEnriched"
  /\ UNCHANGED <<tables, web, onboarding, settings, pipeline, todo, visiting, counters, report>>

-----------------------------------------------------------------------------
(* Asset checks and audits. *)

(* headCheckAssets: a row for each checked asset; a failed HEAD, or one     *)
(* without a length, leaves the length unknown, also where a GET had it.    *)
HeadCheckAssets ==
  /\ phase = "assets"
  /\ LET referenced == {r.asset : r \in refs}
     IN  \E checked \in kSubset(Min({AssetCheckLimit, Cardinality(referenced)}), referenced) :
           assets' = Inserted([u \in checked |-> IF u \in DOMAIN web.heads THEN web.heads[u]
                                                 ELSE -1], assets)
  /\ phase' = "httpAudit"
  /\ UNCHANGED <<urls, fetches, hops, pages, edges, sitemap, refs, issues, clusters, web,
                 onboarding, settings, pipeline, todo, visiting, counters, report>>

(* auditHTTPToHTTPSRedirects: the hosts of the internal https URLs; the     *)
(* audits number their fetches after the last stored one.                   *)
StartHTTPAudit ==
  /\ phase = "httpAudit"
  /\ phase' = "httpAuditHosts"
  /\ todo' = {[HomePage("http", u.host) EXCEPT !.port = u.port] :
                u \in {v \in DOMAIN urls : v.scheme = "https" /\ urls[v].internal}}
  /\ fetchSeq' = Max({0} \cup {f.seq : f \in fetches})
  /\ UNCHANGED <<tables, web, onboarding, settings, pipeline, visiting, variants, flagged,
                 pagesCrawled, discovered, issuesFound, report>>

(* auditHTTPToHTTPSHost: the insecure root of one host is fetched, whatever *)
(* robots.txt says, and stored as answered or as failed.                    *)
AuditHTTPHost ==
  /\ phase = "httpAuditHosts"
  /\ \E root \in todo :
       LET u == The(Normalize(root))
           known == UpsertURL(urls, u, "queued", TRUE, "http_https_audit")
           Store(final, code, status, more) ==
             /\ urls' = LET answered == SetStatus(known, u, status)
                        IN  IF final = u THEN answered
                            ELSE UpsertURL(answered, final, "fetched", IsInScope(final),
                                           "http_https_audit")
             /\ fetches' = fetches \cup
                             {[seq |-> fetchSeq + 1, url |-> u, final |-> final,
                               code |-> code, kind |-> "http_https_audit"]}
             /\ hops' = hops \cup more
       IN  /\ todo' = todo \ {root}
           /\ IF u \in DOMAIN web.answers
                THEN \E r \in web.answers[u] :
                       Store(IF Normalize(r.final) = {} THEN u ELSE The(Normalize(r.final)),
                             r.code, "fetched", r.hops)
                ELSE Store(u, 0, "errored", {})
  /\ fetchSeq' = fetchSeq + 1
  /\ UNCHANGED <<pages, edges, sitemap, assets, refs, issues, clusters, web, onboarding,
                 settings, phase, pipeline, visiting, variants, flagged, pagesCrawled,
                 discovered, issuesFound, report>>

EndHTTPAudit ==
  /\ phase = "httpAuditHosts" /\ todo = {}
  /\ phase' = "audits"
  /\ UNCHANGED <<tables, web, onboarding, settings, pipeline, todo, visiting, counters, report>>

(* The first of the pages, in the order they were stored. *)
FirstStored(us, limit) ==
  IF limit = 0 THEN us
  ELSE {u \in us : Cardinality({v \in us : pages[v].fetch < pages[u].fetch}) < limit}

psiAuditPageURLs ==
  FirstStored({u \in DOMAIN pages :
                 \E f \in fetches : f.seq = pages[u].fetch /\ f.code \in 200..299}, PSIMax)

axeAuditPageURLs == FirstStored(DOMAIN pages, AxeMax)

(* PageSpeed audits each page by itself, axe the whole batch or nothing.    *)
LighthouseAudits ==
  {{[kind |-> "psi_audit", url |-> u] : u \in done} : done \in SUBSET psiAuditPageURLs}

AxeAudits == {{}, {[kind |-> "axe_audit", url |-> u] : u \in axeAuditPageURLs}}

(* The two run side by side and write rows of their own. *)
RunAudits ==
  /\ phase = "audits"
  /\ \E psi \in IF settings.psi THEN LighthouseAudits ELSE {{}},
        axe \in IF settings.playwright THEN AxeAudits ELSE {{}} :
       audits' = audits \cup psi \cup axe
  /\ phase' = "markdown"
  /\ UNCHANGED <<tables, web, onboarding, settings, pipeline, todo, visiting, counters,
                 detector, saved, failures, job>>

(* checkMarkdownNegotiation: one issue per page, filed under no URL. *)
CheckMarkdown ==
  /\ phase = "markdown"
  /\ issues' = issues \cup
       {Row(IF u \in web.markdown THEN "supports_markdown_negotiation"
            ELSE "missing_markdown_negotiation", "page_local", {}, {u}) : u \in DOMAIN pages}
  /\ phase' = "text"
  /\ UNCHANGED <<urls, fetches, hops, pages, edges, sitemap, assets, refs, clusters, web,
                 onboarding, settings, pipeline, todo, visiting, counters, report>>

TextIssueType(category) ==
  CASE category = "Possible Typo" -> "text_quality_spelling"
    [] category \in {"Grammar", "Misc"} -> "text_quality_grammar"
    [] category = "Punctuation" -> "text_quality_punctuation"
    [] OTHER -> "text_quality_style"

(* A match counts unless its rule is noisy or it is a repetition across the *)
(* boundary of two blocks.                                                  *)
Counts(match) == ~match.noisy /\ ~(match.repetition /\ match.acrossBlocks)

(* runTextQualityChecks: pages with words, the shallow ones first; a page   *)
(* that no longer answers is passed by.                                     *)
CheckText ==
  /\ phase = "text"
  /\ LET eligible == {u \in DOMAIN pages : pages[u].words > 0}
         limit == IF GrammarMax = 0 THEN Cardinality(eligible)
                  ELSE Min({GrammarMax, Cardinality(eligible)})
     IN  \E checked \in kSubset(limit, eligible) :
           /\ \A u \in checked, v \in eligible \ checked : pages[u].depth <= pages[v].depth
           /\ issues' = IF ~settings.languageTool THEN issues
                        ELSE issues \cup
                          UNION {{PageIssue(TextIssueType(m.category), u) :
                                    m \in {x \in web.grammar[u] : Counts(x)}} :
                                   u \in checked \cap DOMAIN web.grammar
                                                 \cap DOMAIN web.answers}
  /\ phase' = "counts"
  /\ UNCHANGED <<urls, fetches, hops, pages, edges, sitemap, assets, refs, clusters, web,
                 onboarding, settings, pipeline, todo, visiting, counters, report>>

-----------------------------------------------------------------------------
(* The report. *)

(* The pages with their link counts over the given edges. *)
CountsOver(links) ==
  [u \in DOMAIN pages |->
     LET into == {e \in links : e.target = u}
     IN  [pages[u] EXCEPT
            !.inbound = Cardinality(into),
            !.linking = Cardinality({e.source : e \in into}),
            !.outbound = Cardinality({e \in links : e.source = u})]]

(* Mutant: the links only a browser saw are not counted. *)
RecalculateStaticCounts ==
  /\ phase = "counts"
  /\ pages' = CountsOver(StaticLinks)
  /\ phase' = "depths"
  /\ UNCHANGED <<urls, fetches, hops, edges, sitemap, assets, refs, issues, clusters, web,
                 onboarding, settings, pipeline, todo, visiting, counters, report>>

(* recalculatePageLinkCounts, on the internal link edges of every pass. *)
RecalculateCounts ==
  /\ phase = "counts"
  /\ pages' = CountsOver(InternalLinks)
  /\ phase' = "depths"
  /\ UNCHANGED <<urls, fetches, hops, edges, sitemap, assets, refs, issues, clusters, web,
                 onboarding, settings, pipeline, todo, visiting, counters, report>>

SeedForms == UNION {Normalize(s) : s \in Seeds}

(* The pages one click further over the given links. *)
Further(links, known, us) ==
  us \cup {e.target : e \in {x \in links : x.source \in us /\ x.target \in known}}

(* The pages, of those known, within n clicks of a seed's page. *)
Within(links, known) ==
  LET near[n \in 0..Cardinality(known)] ==
        IF n = 0 THEN SeedForms \cap known ELSE Further(links, known, near[n - 1])
  IN  near

(* recomputePageDepths: breadth-first from the seeds that have a page; a    *)
(* page they do not reach keeps the depth of the frontier.                  *)
DepthsOver(links) ==
  LET near == Within(links, DOMAIN pages)
  IN  [u \in DOMAIN pages |->
         LET steps == {n \in 0..Cardinality(DOMAIN pages) : u \in near[n]}
         IN  IF steps = {} THEN pages[u] ELSE [pages[u] EXCEPT !.depth = Min(steps)]]

(* Mutant: only static links are walked. *)
RecomputeStaticDepths ==
  /\ phase = "depths"
  /\ pages' = DepthsOver(StaticLinks)
  /\ phase' = "detect"
  /\ UNCHANGED <<urls, fetches, hops, edges, sitemap, assets, refs, issues, clusters, web,
                 onboarding, settings, pipeline, todo, visiting, counters, report>>

RecomputeDepths ==
  /\ phase = "depths"
  /\ pages' = DepthsOver(InternalLinks)
  /\ phase' = "detect"
  /\ UNCHANGED <<urls, fetches, hops, edges, sitemap, assets, refs, issues, clusters, web,
                 onboarding, settings, pipeline, todo, visiting, counters, report>>

(* DetectGlobalIssues: the previous global issues are kept aside and        *)
(* deleted, then the detectors run in turn.                                 *)
StartDetection ==
  /\ phase = "detect" /\ detector = 0
  /\ saved' = GlobalRows
  /\ issues' = issues \ GlobalRows
  /\ detector' = 1
  /\ UNCHANGED <<urls, fetches, hops, pages, edges, sitemap, assets, refs, clusters, web,
                 onboarding, progress, counters, audits, failures, job>>

RunDetector ==
  /\ phase = "detect" /\ detector \in 1..NumDetectors
  /\ issues' = issues \cup Detected(detector)
  /\ detector' = detector + 1
  /\ phase' = IF detector = NumDetectors THEN "materialize" ELSE phase
  /\ UNCHANGED <<urls, fetches, hops, pages, edges, sitemap, assets, refs, clusters, web,
                 onboarding, settings, pipeline, todo, visiting, counters, audits, saved,
                 failures, job>>

(* Mutant: what the detectors inserted before the failure stays. *)
RestoreOverPartial == issues' = issues \cup saved

(* A detector fails: the previous global issues are restored, and the job   *)
(* goes on to the rollups.                                                  *)
RestoreGlobalIssues == issues' = (issues \ GlobalRows) \cup saved

DetectorFails ==
  /\ phase = "detect" /\ detector \in 1..NumDetectors
  /\ RestoreGlobalIssues
  /\ phase' = "materialize"
  /\ failures' = failures \cup {"detection"}
  /\ UNCHANGED <<urls, fetches, hops, pages, edges, sitemap, assets, refs, clusters, web,
                 onboarding, settings, pipeline, todo, visiting, counters, audits, detector,
                 saved, job>>

(* Materialize, in one transaction. *)
Materialized ==
  \/ /\ clusters' = CanonicalClusters \cup DuplicateClusters
     /\ UNCHANGED failures
  \/ /\ failures' = failures \cup {"rollups"}
     /\ UNCHANGED clusters

(* The counter of issues is taken from the table. *)
SyncIssueCount == issuesFound' = Cardinality(issues)

MaterializeAndCount ==
  /\ phase = "materialize"
  /\ Materialized
  /\ SyncIssueCount
  /\ phase' = "finalize"
  /\ UNCHANGED <<urls, fetches, hops, pages, edges, sitemap, assets, refs, issues, web,
                 onboarding, settings, pipeline, todo, visiting, fetchSeq, variants, flagged,
                 pagesCrawled, discovered, audits, detector, saved, job>>

(* finalizeJob *)
Finalize ==
  /\ phase = "finalize"
  /\ job' = [status |-> IF job.status = "running" THEN "completed" ELSE job.status,
             pages |-> pagesCrawled, discovered |-> discovered, issues |-> issuesFound]
  /\ phase' = "done"
  /\ UNCHANGED <<tables, web, onboarding, settings, pipeline, todo, visiting, counters,
                 audits, detector, saved, failures>>

-----------------------------------------------------------------------------
SitemapEntry ==
  /\ AdmitEntry \/ OnboardEntryHost \/ EnqueueEntry \/ OnboardReturns
  /\ UNCHANGED <<progress, counters, report>>

Crawl ==
  \/ OnboardSeedHost \/ SitemapEntry \/ StartCrawl
  \/ Dispatch \/ DropOutOfScope \/ OnboardVisited \/ SkipVisit \/ FetchFails
  \/ FetchAndAnalyze \/ PipelineEnds \/ PipelineFails

Browse ==
  \/ StartGapEscalation \/ RenderKeyPage \/ EndGapEscalation
  \/ QueueBrowserDiscovered \/ StartEnrich \/ EnrichPage \/ EndEnrich

Audit ==
  \/ HeadCheckAssets \/ StartHTTPAudit \/ AuditHTTPHost \/ EndHTTPAudit
  \/ RunAudits \/ CheckMarkdown \/ CheckText

Report ==
  \/ RecalculateCounts \/ RecomputeDepths \/ StartDetection \/ RunDetector
  \/ DetectorFails \/ MaterializeAndCount \/ Finalize

Next == Crawl \/ Browse \/ Audit \/ Report

Spec == Init /\ [][Next]_vars

-----------------------------------------------------------------------------
(* Properties. *)

Statuses == {"queued", "discovered", "fetched", "errored", "out_of_scope", "robots_blocked",
             "skipped_budget"}

(* The tables refer to one another and to URLs that have a row: what the    *)
(* foreign keys of the schema ask, and the counters are in their ranges.    *)
TypeOK ==
  LET known == DOMAIN urls
  IN  /\ \A u \in known : urls[u].status \in Statuses
      /\ DOMAIN pages \cup DOMAIN assets \cup queued \subseteq known
      /\ {i.url : i \in queue \cup visiting} \subseteq queued
      /\ \A e \in edges : {e.source, e.target} \subseteq known
      /\ \A f \in fetches : {f.url, f.final} \subseteq known
      /\ \A u \in DOMAIN pages : \E f \in fetches : f.seq = pages[u].fetch /\ f.final = u
      /\ \A r \in refs : r.asset \in known /\ r.page \in known
      /\ \A i \in issues : i.on \subseteq known
      /\ pagesCrawled \in Nat /\ (MaxPages > 0 => pagesCrawled <= MaxPages)
      /\ detector \in 0..(NumDetectors + 1)
      /\ job.status \in {"running", "completed", "cancelled", "failed"}

(* Every stored fetch has a sequence number of its own, over the three      *)
(* pipelines and the http audit: the schema's UNIQUE (job_id, fetch_seq),   *)
(* which would fail a whole pipeline, is never hit.                         *)
FetchSeqUnique == \A f, g \in fetches : f.seq = g.seq => f = g

(* A page whose stored content has a heading or enough words never carries  *)
(* the issue that says it has none, whatever the browser passes found.      *)
NoStaleMissing ==
  \A u \in DOMAIN pages :
    /\ pages[u].h1 # << >> => PageIssue("missing_h1", u) \notin issues
    /\ pages[u].h2 # << >> => PageIssue("missing_h2", u) \notin issues
    /\ pages[u].words >= ThinContent => PageIssue("thin_content", u) \notin issues

(* No page is stored for a URL out of the crawl's scope, through redirects  *)
(* and browser-discovered links either.                                     *)
PagesInScope == \A u \in DOMAIN pages : IsInScope(u)

(* A path that a disallow rule of the crawler's group matches is matched by *)
(* an allow rule at least as long.  The group is the one the code's parser  *)
(* leaves, where the last of several groups of an agent counts.             *)
Permits(file, path) ==
  LET matching == {r \in FindGroup(file) : Matches(r, path)}
  IN  \A r \in matching :
        r.allow \/ \E a \in matching : a.allow /\ PatternLength(a) >= PatternLength(r)

(* A page is only fetched once robots.txt was asked of its origin, and if   *)
(* that file permits it or the file of another onboarded origin of the same *)
(* host does, whose rules replaced it: with one origin to a host nothing is *)
(* fetched that its own robots.txt forbids.  An origin without a file lifts *)
(* no rules but its own.                                                    *)
RobotsKept ==
  \A f \in {g \in fetches : g.kind = "full"} :
    /\ KeyOf(f.url) \in onboarded
    /\ \E k \in {o \in onboarded : o.host = f.url.host} :
         /\ k = KeyOf(f.url) \/ DiscoverRobots(k) # {}
         /\ \A file \in DiscoverRobots(k) : Permits(file, f.url.path)

(* When the crawl is over with pages to spare, no URL in scope is left      *)
(* queued, and every internal link a browser found within the depth budget  *)
(* has been visited.                                                        *)
NothingLeftQueued ==
  phase = "assets" /\ PagesLeft =>
    /\ \A u \in DOMAIN urls : urls[u].status = "queued" => ~IsInScope(u)
    /\ \A u \in BrowserDiscovered : MaxDepth > 0 /\ BrowserDepth(u) > MaxDepth

(* From detection on, the depth of a page that the seeds reach is its       *)
(* distance from them in the final link graph.                              *)
DepthsShortest ==
  phase = "detect" \/ detector > 0 =>
    LET reached == Within(InternalLinks, DOMAIN pages)[Cardinality(DOMAIN pages)]
        seeds == reached \cap SeedForms
        Steps(u) == {e \in InternalLinks : e.source \in reached /\ e.target = u}
    IN  \A u \in reached :
          /\ pages[u].depth = 0 <=> u \in seeds
          /\ \A e \in Steps(u) : pages[u].depth <= pages[e.source].depth + 1
          /\ u \notin seeds => \E e \in Steps(u) : pages[u].depth = pages[e.source].depth + 1

Done == phase = "done"

(* In a report whose phases all ran, a page is an orphan exactly when no    *)
(* stored internal link of any pass leads to it and it is not a seed.       *)
OrphansUnlinked ==
  Done /\ failures = {} =>
    \A u \in DOMAIN pages :
      (\E i \in issues : i.type = "orphan_page" /\ i.on = {u})
        <=> /\ urls[u].via # "seed"
            /\ ~\E e \in InternalLinks : e.target = u

(* The members of a duplicate cluster, its first page apart, are the pages  *)
(* with the matching issue: the detectors and the rollups agree.            *)
ClustersMatchIssues ==
  Done /\ failures = {} =>
    \A pair \in {<<"hash", "duplicate_content">>, <<"title", "duplicate_title">>,
                 <<"description", "duplicate_description">>} :
      UNION {i.on : i \in {x \in issues : x.type = pair[2]}}
        = UNION {c.members \ {c.first} : c \in {x \in clusters : x.kind = pair[1]}}

(* A failed detection leaves the global issues as it found them: none of    *)
(* its own, none of the earlier ones lost.                                  *)
RestoredOnFailure == "detection" \in failures => GlobalRows = saved
=============================================================================

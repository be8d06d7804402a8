---------------------------- MODULE SiteIssues ----------------------------
(***************************************************************************)
(* The tables of one job and the site-wide detectors that read them         *)
(* (internal/issues/global.go), with the rollups of internal/materialize.   *)
(*                                                                          *)
(* urls      normalised URL -> [status, internal, via]                      *)
(* fetches   [seq, url, final, code, kind]; final is the URL answered       *)
(* hops      [from, to] redirect hops                                       *)
(* pages     URL -> the page row                                            *)
(* edges     the stored edges, as BuildEdges makes them                     *)
(* sitemap   [url, source] sitemap entries, url as it was spelled           *)
(* assets    URL -> content length (-1: unknown)                            *)
(* refs      [asset, page, type] asset references                           *)
(* issues    [type, scope, on, about]: on is {} or {url}; about is the set  *)
(*           of URLs the row's details name                                 *)
(* clusters  the canonical and duplicate clusters of the report             *)
(* A row the detectors would insert twice with equal details counts once.   *)
(***************************************************************************)
EXTENDS PageIssues

CONSTANTS
  Seeds,       \* the job's seed URLs
  FirstSeed    \* the first of them, which decides the scope

ASSUME FirstSeedIsSeed == FirstSeed \in Seeds

VARIABLES urls, fetches, hops, pages, edges, sitemap, assets, refs, issues, clusters

tables == <<urls, fetches, hops, pages, edges, sitemap, assets, refs, issues, clusters>>

SeedHost == FirstSeed.host

IsInScope(u) == InScopeOf(SeedHost, u)

Row(type, scope, on, about) == [type |-> type, scope |-> scope, on |-> on, about |-> about]

PageIssue(type, u) == Row(type, "page_local", {u}, {})

GlobalIssue(type, u, about) == Row(type, "global", {u}, about)

SiteIssue(type, about) == Row(type, "global", {}, about)

GlobalRows == {i \in issues : i.scope = "global"}

InternalLinks == {e \in edges : e.internal /\ e.relation = "link"}

(* The status of the latest fetch of a URL: {} when it was never fetched. *)
LatestFetch(u) ==
  {f \in fetches : f.url = u /\ \A g \in fetches : g.url = u => g.seq <= f.seq}

LatestCode(u) == {f.code : f \in LatestFetch(u)}

(* The value pages are grouped by; {} (NULL or empty) joins no group. *)
GroupKey(u, field) ==
  IF field \in {"h1", "h2"}
    THEN IF pages[u][field] = << >> THEN {} ELSE {Head(pages[u][field])}
    ELSE {pages[u][field]} \ {None}

DuplicateGroups(field) ==
  LET keys == {GroupKey(u, field) : u \in DOMAIN pages} \ {{}}
  IN  {g \in {{u \in DOMAIN pages : GroupKey(u, field) = k} : k \in keys} :
         Cardinality(g) > 1}

(* The page of a group that was fetched first is its canonical member. *)
FirstFetched(group) ==
  CHOOSE u \in group : \A v \in group : pages[u].fetch <= pages[v].fetch

detectDuplicateField(field, type) ==
  UNION {{GlobalIssue(type, u, {}) : u \in g \ {FirstFetched(g)}} :
           g \in DuplicateGroups(field)}

detectOrphanPages ==
  {GlobalIssue("orphan_page", u, {}) :
     u \in {v \in DOMAIN pages : pages[v].inbound = 0 /\ urls[v].via # "seed"}}

detectDeepPages ==
  {GlobalIssue("deep_page", u, {}) :
     u \in {v \in DOMAIN pages :
              /\ pages[v].depth > DeepPage
              /\ ~\E i \in issues : i.type = "deep_page" /\ i.on = {v}}}

Targets(u) == {h.url : h \in pages[u].hreflangs}

detectHreflangNotReciprocal ==
  UNION {{GlobalIssue("hreflang_not_reciprocal", u, {t}) :
            t \in {x \in Targets(u) \ {u} :
                     ~(x \in DOMAIN pages /\ u \in Targets(x))}} : u \in DOMAIN pages}

(* Pages with a reference to a URL whose latest fetch did not answer 200. *)
Broken(type, References(_)) ==
  UNION {{GlobalIssue(type, u, {t}) :
            t \in {x \in References(u) : LatestCode(x) \notin {{}, {200}}}} :
           u \in DOMAIN pages}

detectBrokenHreflangTarget == Broken("broken_hreflang_target", Targets)

PaginationOf(u) == pages[u].next \cup pages[u].prev

detectBrokenPaginationChain == Broken("broken_pagination_chain", PaginationOf)

(* Pages whose canonical is another URL, and that URL. *)
CrossCanonical ==
  {p \in UNION {{u} \X pages[u].canonical : u \in DOMAIN pages} : p[2] # p[1]}

detectCanonicalChain ==
  {GlobalIssue("canonical_chain", p[1], {p[2]}) :
     p \in {q \in CrossCanonical :
              q[2] \in DOMAIN pages /\ pages[q[2]].canonical \notin {{}, {q[2]}}}}

(* The detectors read pages.canonical_status_code, which no step of a crawl *)
(* writes: canonicalCode stays empty.                                       *)
detectCanonicalToNon200 ==
  {GlobalIssue("canonical_to_non_200", u, pages[u].canonical) :
     u \in {v \in DOMAIN pages : /\ pages[v].canonical # {}
                                 /\ pages[v].canonicalCode \notin {{}, {200}}}}

detectCanonicalToRedirect ==
  {GlobalIssue("canonical_to_redirect", u, pages[u].canonical) :
     u \in {v \in DOMAIN pages :
              /\ pages[v].canonical # {}
              /\ pages[v].canonicalCode \cap {301, 302, 307, 308} # {}}}

detectNonIndexableCanonical ==
  {GlobalIssue("non_indexable_canonical", p[1], {p[2]}) :
     p \in {q \in CrossCanonical : q[2] \in DOMAIN pages /\ ~pages[q[2]].indexable}}

detectUnlinkedCanonical ==
  {GlobalIssue("unlinked_canonical", p[1], {p[2]}) :
     p \in {q \in CrossCanonical : ~\E e \in InternalLinks : e.declared = q[2]}}

detectPaginationCanonicalMismatch ==
  {GlobalIssue("pagination_canonical_mismatch", p[1], {p[2]}) :
     p \in {q \in CrossCanonical : PaginationOf(q[1]) # {}}}

(* Sitemap entries matched with known URLs, up to the slash or, for most    *)
(* detectors, up to scheme, www. and slash.                                 *)
BySlash == {m \in sitemap \X DOMAIN urls : SlashTrimmed(m[1].url) = SlashTrimmed(m[2])}

ByComparable == {m \in sitemap \X DOMAIN urls : Comparable(m[1].url) = Comparable(m[2])}

detectSitemapNon200 ==
  {GlobalIssue("sitemap_non_200", m[2], {m[1].url}) :
     m \in {x \in BySlash : LatestCode(x[2]) \notin {{}, {200}}}}

detectSitemapRedirectHostMismatch ==
  {GlobalIssue("sitemap_url_redirect_host_mismatch", m[2], {m[1].url}) :
     m \in {x \in BySlash : \E f \in LatestFetch(x[2]) : f.final.host # x[2].host}}

(* One row per group of comparable entries, for the spelling SQLite keeps. *)
detectSitemapExternalHost ==
  {SiteIssue("sitemap_url_external_host", {Comparable(s.url)}) :
     s \in {x \in sitemap : /\ x.url.host # << >>
                            /\ ~\E seed \in Seeds : InScopeOf(seed.host, x.url)}}

detectCrawledNotInSitemap ==
  {GlobalIssue("crawled_not_in_sitemap", u, {}) :
     u \in {v \in DOMAIN pages : /\ pages[v].indexable
                                 /\ ~\E m \in ByComparable : m[2] = v}}

detectInSitemapNotCrawled ==
  {SiteIssue("in_sitemap_not_crawled", {s.url}) :
     s \in {x \in sitemap : \/ ~\E m \in ByComparable : m[1] = x
                            \/ \E m \in ByComparable :
                                 m[1] = x /\ urls[m[2]].status = "pending"}}

detectInSitemapRobotsBlocked ==
  {GlobalIssue("in_sitemap_robots_blocked", m[2], {m[1].url}) :
     m \in {x \in ByComparable : urls[x[2]].status = "robots_blocked"}}

detectNonIndexableInSitemap ==
  {GlobalIssue("non_indexable_in_sitemap", m[2], {m[1].url}) :
     m \in {x \in ByComparable : x[2] \in DOMAIN pages /\ ~pages[x[2]].indexable}}

detectURLInMultipleSitemaps ==
  {SiteIssue("url_in_multiple_sitemaps", {Comparable(s.url)}) :
     s \in {x \in sitemap : \E y \in sitemap : /\ Comparable(x.url) = Comparable(y.url)
                                               /\ x.source # y.source}}

CONSTANT SitemapLimit   \* 50 000 in the code

detectSitemapTooLarge ==
  {SiteIssue("sitemap_too_large", {s.source}) :
     s \in {x \in sitemap :
              Cardinality({y \in sitemap : y.source = x.source}) > SitemapLimit}}

detectHTTPToHTTPSMissing ==
  {SiteIssue("http_to_https_missing", {HomePage("http", h)}) :
     h \in {x \in {u.host : u \in {v \in DOMAIN urls : v.scheme = "http"}} :
              ~\E hop \in hops : /\ hop.from.scheme = "http" /\ hop.from.host = x
                                 /\ hop.to.scheme = "https"}}

detectJSOnlyNavigation ==
  {GlobalIssue("js_only_navigation", e.source, {e.declared}) :
     e \in {x \in InternalLinks :
              /\ x.mode = "browser"
              /\ x.declared.fragment = None
              /\ x.source \notin Normalize(x.declared)
              /\ ~\E y \in edges : /\ y.source = x.source /\ y.mode = "static"
                                   /\ y.declared = x.declared}}

detectImageOver100KB ==
  {GlobalIssue("image_over_100kb", u, {}) :
     u \in {v \in DOMAIN assets :
              /\ assets[v] > 102400
              /\ \E r \in refs : r.asset = v /\ r.type = "img_src"}}

detectNoInternalOutlinks ==
  {GlobalIssue("no_internal_outlinks", u, {}) :
     u \in {v \in DOMAIN pages : ~\E e \in InternalLinks : e.source = v}}

(* DetectGlobalIssues runs the detectors in this order, each one reading    *)
(* what the ones before it inserted.                                        *)
NumDetectors == 29

Detected(d) ==
  CASE d = 1 -> detectDuplicateField("title", "duplicate_title")
    [] d = 2 -> detectDuplicateField("description", "duplicate_description")
    [] d = 3 -> detectDuplicateField("hash", "duplicate_content")
    [] d = 4 -> detectDuplicateField("h1", "duplicate_h1")
    [] d = 5 -> detectDuplicateField("h2", "duplicate_h2")
    [] d = 6 -> detectOrphanPages
    [] d = 7 -> detectDeepPages
    [] d = 8 -> detectHreflangNotReciprocal
    [] d = 9 -> detectBrokenHreflangTarget
    [] d = 10 -> detectCanonicalToNon200
    [] d = 11 -> detectCanonicalChain
    [] d = 12 -> detectCanonicalToRedirect
    [] d = 13 -> detectNonIndexableCanonical
    [] d = 14 -> detectUnlinkedCanonical
    [] d = 15 -> detectBrokenPaginationChain
    [] d = 16 -> detectPaginationCanonicalMismatch
    [] d = 17 -> detectSitemapNon200
    [] d = 18 -> detectSitemapRedirectHostMismatch
    [] d = 19 -> detectSitemapExternalHost
    [] d = 20 -> detectCrawledNotInSitemap
    [] d = 21 -> detectInSitemapNotCrawled
    [] d = 22 -> detectInSitemapRobotsBlocked
    [] d = 23 -> detectHTTPToHTTPSMissing
    [] d = 24 -> detectJSOnlyNavigation
    [] d = 25 -> detectImageOver100KB
    [] d = 26 -> detectNoInternalOutlinks
    [] d = 27 -> detectNonIndexableInSitemap
    [] d = 28 -> detectURLInMultipleSitemaps
    [] d = 29 -> detectSitemapTooLarge

(* Materialize: clusters of pages with one canonical URL and of duplicate   *)
(* pages, replaced in one transaction.                                      *)
CanonicalClusters ==
  {[kind |-> "canonical", members |-> {u \in DOMAIN pages : pages[u].canonical = {c}},
    first |-> c, code |-> LatestCode(c), selfReferencing |-> c \in DOMAIN urls] :
     c \in {x \in UNION {pages[u].canonical : u \in DOMAIN pages} :
              Cardinality({u \in DOMAIN pages : pages[u].canonical = {x}}) >= 2}}

(* Mutant: the shallowest page stands for its cluster. *)
DuplicateClustersByDepth ==
  UNION {{[kind |-> field, members |-> g,
           first |-> CHOOSE u \in g : \A v \in g : pages[u].depth <= pages[v].depth] :
            g \in DuplicateGroups(field)} : field \in {"hash", "title", "description"}}

DuplicateClusters ==
  UNION {{[kind |-> field, members |-> g, first |-> FirstFetched(g)] :
            g \in DuplicateGroups(field)} : field \in {"hash", "title", "description"}}
=============================================================================

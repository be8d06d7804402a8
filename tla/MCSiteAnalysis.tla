-------------------------- MODULE MCSiteAnalysis --------------------------
(* Small webs for SiteAnalysis: a site with sitemaps, traps and redirects,  *)
(* one whose navigation only a browser sees, and one over its host budget.  *)
EXTENDS SiteAnalysis

Www == <<"www", "site", "com">>
Blog == <<"blog", "site", "com">>
Other == <<"other", "com">>

At(host, path) == [HomePage("https", host) EXCEPT !.path = path]

Home == At(Www, <<"">>)
OtherHome == At(Other, <<"">>)
Query(u, q) == [u EXCEPT !.query = q]

MCSeeds == {Home, OtherHome}
MCFirstSeed == Home
MCAgents == <<"seocrawler">>

MCServerConfig ==
  [maxPages |-> 9, maxDepth |-> 3, maxDiscoveredUrls |-> 10, maxOnboardedHosts |-> 3,
   psiMaxPages |-> 1, axeMaxPages |-> 2, grammarMaxPages |-> 1]

MCJobConfig == [maxPages |-> 5, maxDiscoveredUrls |-> 0, axeMaxPages |-> -1]

Counted == {"title", "description", "ogTitle", "ogDescription", "noAlt", "emptyAlt",
            "firstHeading", "h1AltOnly", "longAlts", "unsizedImages", "httpForms",
            "protocolRelative", "invalidInHead"}

(* A page with nothing to report but what its fields say. *)
Page(title, links, words) ==
  [title |-> title, description |-> "about", h1 |-> <<"heading">>, h2 |-> <<"part">>,
   words |-> words, hash |-> title, canonical |-> {}, hreflangs |-> {}, next |-> {},
   prev |-> {}, images |-> {}, assets |-> {},
   links |-> {[url |-> u, rel |-> {}, anchor |-> "text", blank |-> FALSE] : u \in links},
   indexable |-> TRUE, suspect |-> FALSE,
   og |-> [title |-> "o", description |-> "o", image |-> "o", url |-> {}, type |-> "o"],
   twitter |-> [card |-> "summary", title |-> "t", image |-> "i"],
   metaRobots |-> {}, xRobots |-> {}, jsonld |-> {}, has |-> {},
   n |-> [c \in Counted |-> 0] @@
         [c \in {"titles", "descriptions", "canonicals", "heads", "bodies", "jsonld"} |-> 1]]

Answer(final, page) ==
  [final |-> final, code |-> 200, kind |-> "html", hops |-> {}, page |-> page,
   loop |-> FALSE, exceeded |-> FALSE, ttfb |-> 100, kilobytes |-> 10,
   headers |-> {"Strict-Transport-Security", "X-Content-Type-Options", "X-Frame-Options",
                "Content-Security-Policy"},
   policy |-> "same-origin", length |-> 0, size |-> 1]

File(u, length) ==
  [final |-> u, code |-> 200, kind |-> "asset", hops |-> {}, ttfb |-> 100, length |-> length,
   size |-> 5000, page |-> {}]

Status(u, code) == [Answer(u, Page("gone", {}, 0)) EXCEPT !.code = code]

Redirect(from, to, page) ==
  [Answer(to, page) EXCEPT !.hops = {[from |-> from, to |-> to]}]

Empty == [u \in {} |-> 0]

Origin(scheme, host) == [scheme |-> scheme, host |-> host, port |-> 0]
HttpsWww == Origin("https", Www)
HttpWww == Origin("http", Www)

NoRobots ==
  [k \in {HttpsWww, HttpWww, Origin("https", Blog), Origin("https", Other)} |->
     [codes |-> <<404, 404>>, lines |-> << >>]]

BareWeb ==
  [robots |-> NoRobots, sitemaps |-> Empty, answers |-> Empty, menus |-> Empty,
   contents |-> Empty, guarded |-> {}, remoteFails |-> {}, heads |-> Empty,
   markdown |-> {}, grammar |-> Empty]

Index(u, children) == [final |-> u, children |-> children, locs |-> << >>]
Urlset(u, locs) == [final |-> u, children |-> << >>, locs |-> locs]

-----------------------------------------------------------------------------
P == At(Www, <<"p">>)
Q == At(Www, <<"q">>)
R == At(Www, <<"r">>)
Old == At(Www, <<"old">>)
Away == At(Www, <<"away">>)
Trap == At(Www, <<"x", "x", "x">>)
Private == At(Www, <<"private">>)
PrivateOk == At(Www, <<"private", "ok">>)
Doc == At(Www, <<"doc.pdf">>)
Post == At(Blog, <<"post">>)
Logo == At(Www, <<"logo.png">>)
Map == At(Www, <<"sitemap.xml">>)
Map2 == At(Www, <<"map2.xml">>)
HttpHome == [Home EXCEPT !.scheme = "http"]
HttpOld == [Old EXCEPT !.scheme = "http"]

Static == [render |-> "hybrid", asked |-> "static", provider |-> "auto", remote |-> FALSE,
           renderer |-> FALSE, playwright |-> FALSE, psi |-> TRUE, languageTool |-> TRUE]

Hybrid == [Static EXCEPT !.asked = "", !.remote = TRUE, !.playwright = TRUE,
                         !.psi = FALSE]

(* Sitemaps over an index with a cycle, rules of robots.txt, a second host, *)
(* redirects into and out of the site, a trap of query variants, a file.    *)
MappedWeb ==
  [BareWeb EXCEPT
     !.robots = [NoRobots EXCEPT ![HttpsWww] =
       [codes |-> <<503, 200>>,
        lines |-> <<[field |-> "user-agent", value |-> "*"],
                    [field |-> "crawl-delay"],
                    [field |-> "allow", path |-> <<"">>, anchored |-> FALSE],
                    [field |-> "disallow", path |-> <<"private">>, anchored |-> FALSE],
                    [field |-> "allow", path |-> <<"private", "ok">>, anchored |-> FALSE],
                    [field |-> "sitemap", url |-> Map]>>]],
     !.sitemaps = (Map :> Index(Map, <<Map2, Map>>))
                  @@ (Map2 :> Urlset(Map2, <<PrivateOk, Post, OtherHome>>)),
     !.answers = (Home :> {Answer(Home, [Page("home",
                       {P, Query(P, <<"utm">>), Query(P, <<"a">>), Query(P, <<"b">>), Old,
                        Trap, Home, OtherHome}, 300)
                       EXCEPT !.images = {Logo}])})
                 @@ (P :> {Answer(P, [Page("same", {Home, Doc, Private}, 300) EXCEPT !.canonical = {Home}])})
                 @@ (Query(P, <<"a">>) :> {Status(Query(P, <<"a">>), 429)})
                 @@ (Query(P, <<"b">>) :> {Status(Query(P, <<"b">>), 429)})
                 @@ (Old :> {Redirect(Old, P, Page("same", {Home}, 300))})
                 @@ (PrivateOk :> {Answer(PrivateOk, Page("same", {P}, 300))})
                 @@ (Private :> {Answer(Private, Page("private", {}, 300))})
                 @@ (Doc :> {File(Doc, 0)})
                 @@ (HttpHome :> {Redirect(HttpHome, Home, Page("home", {}, 300))}),
     !.heads = (Logo :> 200000),
     !.grammar = (P :> {[category |-> "Possible Typo", noisy |-> FALSE, repetition |-> FALSE,
                         acrossBlocks |-> FALSE]})]

(* Navigation that only a browser sees: q behind a menu, r in late content. *)
RenderedWeb ==
  [BareWeb EXCEPT
     !.robots = [NoRobots EXCEPT ![HttpsWww] =
       [codes |-> <<200, 200>>, lines |-> <<[field |-> "sitemap", url |-> Map]>>]],
     !.sitemaps = (Map :> Urlset(Map, <<Q>>)),
     !.answers = (Home :> {Answer(Home, Page("home", {P, Away, Post}, 700))})
                 @@ (Away :> {Redirect(Away, OtherHome, Page("other", {}, 300))})
                 @@ (P :> {[Answer(P, [Page("p", {}, 50) EXCEPT !.h1 = << >>, !.h2 = << >>,
                                                             !.suspect = TRUE])
                            EXCEPT !.ttfb = 6000]})
                 @@ (Q :> {Answer(Q, Page("q", {P}, 300))})
                 @@ (R :> {Answer(R, Page("r", {Home, HttpOld}, 700))}),
     !.menus = (Home :> [final |-> Home, page |-> Page("home", {P}, 700),
                         links |-> {Old, P, [R EXCEPT !.fragment = "top"]}]),
     !.contents = (P :> [final |-> P, page |-> [Page("p", {R, Home, Q}, 300)
                                               EXCEPT !.images = {Logo}]]),
     !.markdown = {Home},
     !.guarded = {Old},
     !.remoteFails = {P}]

(* A sitemap that leads to more hosts than the budget has, and no browser,  *)
(* or one that only opens menus.  The http origin of the site, which the    *)
(* sitemap names, forbids other paths than the https one: its rules lift    *)
(* those on /private and forbid /r.                                         *)
CrowdedWeb ==
  [BareWeb EXCEPT
     !.robots = [NoRobots EXCEPT
       ![HttpsWww] = [codes |-> <<200, 200>>,
                      lines |-> <<[field |-> "user-agent", value |-> "*"],
                                  [field |-> "disallow", path |-> <<"private">>,
                                   anchored |-> FALSE]>>],
       ![HttpWww] = [codes |-> <<200, 200>>,
                     lines |-> <<[field |-> "user-agent", value |-> "*"],
                                 [field |-> "disallow", path |-> <<"r">>,
                                  anchored |-> FALSE]>>]],
     !.sitemaps = (Map :> Urlset(Map, <<Private, HttpOld, Post, Private>>)),
     !.answers = (Home :> {Answer(Home, Page("home", {}, 300))}),
     !.menus = (Home :> [final |-> Home, page |-> Page("home", {P}, 400), links |-> {R}])]

NoBrowser == [Hybrid EXCEPT !.remote = FALSE, !.playwright = FALSE]

MenuBrowser == [NoBrowser EXCEPT !.renderer = TRUE]

MCStarts ==
  {[web |-> MappedWeb, settings |-> Static], [web |-> RenderedWeb, settings |-> Hybrid],
   [web |-> CrowdedWeb, settings |-> NoBrowser], [web |-> CrowdedWeb, settings |-> MenuBrowser]}
=============================================================================

-------------------------- MODULE MCCrawlPipeline --------------------------
(***************************************************************************)
(* Small sites for the crawl pipeline.                                      *)
(***************************************************************************)
EXTENDS CrawlPipeline, TLC

CONSTANTS a, b, c, d, e, x, h1, h2

MCHosts == {h1, h2}
OneHost == [u \in URLs |-> h1]
NoSitemap == [h \in MCHosts |-> <<>>]
LinksOf(f) == [u \in URLs |-> IF u \in DOMAIN f THEN f[u] ELSE <<>>]

\* c redirects to d; every other URL answers itself.
OneRedirect == [u \in URLs |-> IF u = c THEN d ELSE u]

\* Two hosts: a link leads to c on a host not met before, whose sitemap names d
\* and e, with c itself, as the link to x, beyond the budget of discovered URLs.
CrossHostOf == [u \in URLs |-> IF u \in {c, d, e} THEN h2 ELSE h1]
CrossLinks == LinksOf((a :> <<c, b, x>>) @@ (c :> <<d, a>>))
CrossSitemap == (h1 :> <<>>) @@ (h2 :> <<d, e, c>>)
CrossOutcomes == [u \in URLs |-> IF u = d THEN {"html", "error"} ELSE {"html"}]

\* A page that links to two pages of a host not met before.
NewHostOf == [u \in URLs |-> IF u = a THEN h1 ELSE h2]
NewHostLinks == LinksOf(a :> <<c, d>>)
NoRedirect == [u \in URLs |-> u]

\* Links to a host beyond the host budget (c), out of scope (d), and back to a
\* page already crawled.
EdgeHostOf == [u \in URLs |-> IF u = c THEN h2 ELSE h1]
EdgeLinks == LinksOf((a :> <<b, c, d>>) @@ (b :> <<a>>))
EdgeScope == {a, b, c}

\* One host, every URL an HTML page: the page budget stops the crawl.
FlatLinks == LinksOf((a :> <<b, c>>) @@ (b :> <<a>>))
AllPages == [u \in URLs |-> {"html"}]
=============================================================================

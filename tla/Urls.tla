------------------------------- MODULE Urls -------------------------------
(***************************************************************************)
(* URLs, their normal form, the crawl scope and the typed edges of a page   *)
(* (internal/urlutil, internal/crawl/discovery.go).                         *)
(*                                                                          *)
(* A URL is a record: scheme, host (a sequence of labels), port (0 when     *)
(* none is written), path (its segments; <<>> is the empty path, <<"">> is  *)
(* "/", a trailing "" is a trailing slash), query (a sequence of parameter  *)
(* names), fragment, and escaped, which is TRUE for a spelling that differs *)
(* from the normal one by letter case, percent-encoding or control          *)
(* characters.                                                              *)
(***************************************************************************)
EXTENDS Integers, Sequences, FiniteSets, SequencesExt

CONSTANTS
  IgnoredParams,   \* query parameters the frontier ignores
  ScopeMode,       \* "registrable_domain", "exact_host" or "allowlist"
  AllowedHosts     \* the hosts of an allowlist

ASSUME ScopeModeKnown ==
  ScopeMode \in {"registrable_domain", "exact_host", "allowlist"}

None == "none"

DroppedSchemes == {"ftp", "mailto", "javascript", "tel", "data", "file"}

DefaultPort == [http |-> 80, https |-> 443]

IsDroppedScheme(u) == u.scheme \in DroppedSchemes

(* The normal form of u: the set that holds it, empty when Normalize        *)
(* returns an error.                                                        *)
Normalize(u) ==
  {[u EXCEPT !.port = IF @ = DefaultPort[u.scheme] THEN 0 ELSE @,
             !.path = IF @ = << >> THEN <<"">> ELSE @,
             !.fragment = None,
             !.escaped = FALSE] :
     ok \in {x \in {u} : /\ ~IsDroppedScheme(x)
                         /\ x.scheme \in DOMAIN DefaultPort
                         /\ x.host # << >>}}

(* The key the frontier, the sitemap and the redirects use: the normal form *)
(* without the ignored parameters.                                          *)
FrontierKey(u) ==
  {[n EXCEPT !.query = SelectSeq(@, LAMBDA q : q \notin IgnoredParams)] :
     n \in Normalize(u)}

(* Three equal consecutive segments: a crawl trap. *)
HasRepeatedPathSegments(u) ==
  \E i \in 1..(Len(u.path) - 2) :
    /\ u.path[i] # ""
    /\ u.path[i] = u.path[i + 1]
    /\ u.path[i] = u.path[i + 2]

TrimSlashes(path) ==
  SubSeq(path, 1, Max({0} \cup {i \in DOMAIN path : path[i] # ""}))

(* rtrim(url, '/') of the reports' SQL. *)
SlashTrimmed(u) ==
  IF u.query = << >> /\ u.fragment = None
    THEN [u EXCEPT !.path = TrimSlashes(@)]
    ELSE u

(* SitemapComparableURLSQL: scheme, www. and trailing slashes dropped. *)
Comparable(u) ==
  [SlashTrimmed(u) EXCEPT
     !.scheme = "http",
     !.host = IF @ # << >> /\ Head(@) = "www" THEN Tail(@) ELSE @]

(* The registrable domain, as the public suffix list gives it for a         *)
(* one-label suffix; the set is empty when there is none.                   *)
RegistrableDomain(host) ==
  {SubSeq(host, Len(host) - 1, Len(host)) : h \in {x \in {host} : Len(x) >= 2}}

InScopeOf(seedHost, u) ==
  /\ u.scheme \in DOMAIN DefaultPort
  /\ u.host # << >>
  /\ CASE ScopeMode = "registrable_domain" ->
            RegistrableDomain(u.host) \cap RegistrableDomain(seedHost) # {}
       [] ScopeMode = "exact_host" -> u.host = seedHost
       [] ScopeMode = "allowlist" -> u.host \in AllowedHosts

(* The root of a host, as the engine spells it. *)
HomePage(scheme, host) ==
  [scheme |-> scheme, host |-> host, port |-> 0, path |-> <<"">>, query |-> << >>,
   fragment |-> None, escaped |-> FALSE]

(* BuildEdges: the typed edges of a parsed page.  A link with a fragment or *)
(* to the page itself is dropped, whatever has no normal form is dropped.   *)
BuildEdges(source, base, page, mode, seedHost) ==
  LET Edge(u, relation, rel, anchor, blank) ==
        {[source |-> source, declared |-> u, target |-> n,
          relation |-> relation, mode |-> mode, internal |-> InScopeOf(seedHost, n),
          rel |-> rel, anchor |-> anchor, blank |-> blank] : n \in Normalize(u)}
      Plain(u, relation) == Edge(u, relation, {}, None, FALSE)
  IN  {e \in UNION {Edge(l.url, "link", l.rel, l.anchor, l.blank) :
                      l \in {x \in page.links : x.url.fragment = None}} :
         e.target \notin Normalize(base)}
      \cup (UNION {Plain(u, "canonical") : u \in page.canonical})
      \cup (UNION {Plain(h.url, "hreflang") : h \in page.hreflangs})
      \cup (UNION {Plain(u, "pagination_next") : u \in page.next})
      \cup (UNION {Plain(u, "pagination_prev") : u \in page.prev})
      \cup (UNION {Plain(u, "asset_ref") : u \in page.images})
=============================================================================

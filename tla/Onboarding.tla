---------------------------- MODULE Onboarding ----------------------------
(***************************************************************************)
(* Onboarding a host: robots.txt with its retry and its policy for an       *)
(* unreachable file (internal/crawl/site_onboarding.go), the parser and the *)
(* matcher (internal/robots), the traversal of sitemap indexes              *)
(* (internal/sitemap), and the engine's admission of sitemap entries, which *)
(* onboards the hosts they lead to.                                         *)
(*                                                                          *)
(* web is what the hosts serve during the job.  web.robots gives, for an    *)
(* origin (scheme, host and port) that is there, the codes of up to two     *)
(* requests for robots.txt (0: no answer) and the lines of the file;        *)
(* web.sitemaps gives, for a sitemap URL that answers, the URL it was       *)
(* answered from, its children if it is an index and its locations if it is *)
(* a urlset.                                                                *)
(***************************************************************************)
EXTENDS SiteIssues, Settings

CONSTANTS
  AgentTokens,        \* agents of robots.txt the user agent contains, longest first
  UnreachablePolicy,  \* "allow", "disallow" or "cache_then_allow"
  SitemapMax,         \* entries kept per host
  SitemapFetchMax     \* sitemaps fetched per traversal (1000 in the code)

VARIABLES
  web,         \* what the web serves; constant during a behaviour
  queue,       \* the frontier's items [url, depth]
  queued,      \* the URLs ever pushed on this frontier
  onboarded,   \* [scheme, host, port] keys marked as seen
  rules,       \* host -> the parsed robots.txt of the origin of it onboarded last
  reserved,    \* URLs counted against DiscoveredMax
  calls        \* running ensureHostOnboarded calls, the innermost first

onboarding == <<queue, queued, onboarded, rules, reserved, calls>>

(* INSERT OR IGNORE: the rows a table has not yet. *)
Inserted(table, rows) ==
  [k \in DOMAIN table \cup DOMAIN rows |-> IF k \in DOMAIN table THEN table[k] ELSE rows[k]]

OneRow(key, row) == [k \in {key} |-> row]

(* robots.Parse: agents before the first rule share a group; a group is     *)
(* closed by the agent line after a rule, and a later group of the same     *)
(* agent replaces the earlier one.                                          *)
EmptyRobots ==
  [agents |-> [a \in {} |-> 0], groups |-> << >>, open |-> FALSE, hadRule |-> FALSE,
   sitemaps |-> << >>]

ParseLine(file, line) ==
  LET fresh == ~file.open \/ file.hadRule
      groups == IF fresh THEN Append(file.groups, {}) ELSE file.groups
      last == Len(file.groups)
  IN  CASE line.field = "user-agent" ->
             [file EXCEPT !.groups = groups, !.open = TRUE, !.hadRule = FALSE,
                          !.agents = Inserted(OneRow(line.value, Len(groups)), @)]
        [] line.field = "sitemap" -> [file EXCEPT !.sitemaps = Append(@, line.url)]
        [] line.field \in {"allow", "disallow", "crawl-delay"} ->
             IF ~file.open THEN file
             ELSE [file EXCEPT !.hadRule = TRUE,
                     !.groups[last] =
                       IF \/ line.field = "crawl-delay"
                          \/ line.field = "disallow" /\ line.path = << >> THEN @
                       ELSE @ \cup {[allow |-> line.field = "allow", path |-> line.path,
                                     anchored |-> line.anchored]}]
        [] OTHER -> file

ParseRobots(lines) ==
  LET file[n \in 0..Len(lines)] ==
        IF n = 0 THEN EmptyRobots ELSE ParseLine(file[n - 1], lines[n])
  IN  file[Len(lines)]

(* The group of the first of the crawler's agents that robots.txt names, {} *)
(* when it names none.                                                      *)
FindGroup(file) ==
  LET agents == Append(AgentTokens, "*")
      named == {n \in 1..Len(agents) : agents[n] \in DOMAIN file.agents}
  IN  IF named = {} THEN {} ELSE file.groups[file.agents[agents[Min(named)]]]

(* A pattern is a prefix of the path, or all of it when anchored; a last ""  *)
(* is a slash, under which everything lies.  Wildcards are not modelled.    *)
Matches(rule, path) ==
  LET n == Len(rule.path)
      open == n > 0 /\ rule.path[n] = ""
  IN  IF rule.anchored THEN path = rule.path
      ELSE Len(path) >= n /\ IsPrefix(IF open THEN Front(rule.path) ELSE rule.path, path)

(* Patterns that match one path are ordered by length as by their segments. *)
PatternLength(rule) ==
  2 * Len(rule.path)
    - (IF rule.path # << >> /\ rule.path[Len(rule.path)] = "" THEN 1 ELSE 0)

(* Mutant: an allow rule wins over every disallow rule. *)
IsAllowedByAny(file, path) ==
  LET matching == {r \in FindGroup(file) : Matches(r, path)}
  IN  matching = {} \/ \E r \in matching : r.allow

IsAllowed(file, path) ==
  LET matching == {r \in FindGroup(file) : Matches(r, path)}
      longest == {r \in matching : \A s \in matching : PatternLength(s) <= PatternLength(r)}
  IN  longest = {} \/ \E r \in longest : r.allow

DisallowAll ==
  [EmptyRobots EXCEPT !.agents = OneRow("*", 1),
     !.groups = <<{[allow |-> FALSE, path |-> <<"">>, anchored |-> FALSE]}>>]

(* applyRobotsUnreachablePolicy: only "disallow" leaves rules behind. *)
RobotsUnreachable == IF UnreachablePolicy = "disallow" THEN {DisallowAll} ELSE {}

(* discoverRobots: the rules an origin serves, {} when it adds none. *)
DiscoverRobots(key) ==
  LET served == IF key \in DOMAIN web.robots THEN web.robots[key]
                ELSE [codes |-> <<0, 0>>, lines |-> << >>]
      code == IF served.codes[1] >= 500 THEN served.codes[2] ELSE served.codes[1]
  IN  CASE code = 0 \/ code >= 500 -> RobotsUnreachable
        [] code \in 400..499 -> {}
        [] OTHER -> {ParseRobots(served.lines)}

(* FetchAndParse: breadth-first over indexes; a sitemap seen under its own  *)
(* or its final URL is not read twice; too many sitemaps end the traversal  *)
(* with what was collected and an error, which discards it.                 *)
Discarded(t) == [t EXCEPT !.todo = << >>, !.entries = << >>]

(* One round of its loop, for at most max entries. *)
TraversalRound(t, max) ==
  LET here == Head(t.todo)
      page == web.sitemaps[here]
      tried == [t EXCEPT !.todo = Tail(@), !.visited = @ \cup {here}]
      read == [tried EXCEPT !.visited = @ \cup {page.final}, !.count = @ + 1]
      found == [i \in 1..Min({Len(page.locs), max - Len(t.entries)}) |->
                  [url |-> page.locs[i], source |-> page.final]]
  IN  IF t.todo = << >> \/ Len(t.entries) >= max THEN t
      ELSE IF t.count >= SitemapFetchMax THEN Discarded(t)
      ELSE IF \/ here \in t.visited \/ here \notin DOMAIN web.sitemaps
              \/ page.final # here /\ page.final \in t.visited THEN tried
      ELSE IF page.children = << >> THEN [read EXCEPT !.entries = @ \o found]
      ELSE IF Cardinality(read.visited) + Len(read.todo) + Len(page.children) > SitemapFetchMax
        THEN Discarded(t)
        ELSE [read EXCEPT !.todo = @ \o page.children]

(* The loop is over after as many rounds as sitemaps can ever be queued.    *)
Traverse(root, max) ==
  LET rounds == 1 + SitemapFetchMax * SitemapFetchMax
      after[n \in 0..rounds] ==
        IF n = 0 THEN [todo |-> <<root>>, visited |-> {}, count |-> 0, entries |-> << >>]
        ELSE TraversalRound(after[n - 1], max)
  IN  after[rounds].entries

StandardPaths ==
  <<<<"sitemap.xml">>, <<"sitemap_index.xml">>, <<"sitemap.xml.gz">>>>
    \o [i \in 1..6 |-> <<<<"docs", "blog", "guides", "help", "learn", "resources">>[i],
                         "sitemap.xml">>]

(* The declared sitemaps, then the standard places, each of them once. *)
SitemapCandidates(key, declared) ==
  LET At(path) == [HomePage(key.scheme, key.host) EXCEPT !.port = key.port, !.path = path]
      Add(all, u) == IF Contains(all, u) THEN all ELSE Append(all, u)
  IN  FoldLeft(Add, << >>, declared \o [i \in DOMAIN StandardPaths |-> At(StandardPaths[i])])

(* discoverSitemaps: candidates in turn until SitemapMax entries; entries   *)
(* of a sitemap already collected from an earlier candidate are dropped.    *)
DiscoverSitemaps(key, declared) ==
  LET Collect(all, root) ==
        LET sources == {all[i].source : i \in DOMAIN all}
        IN  all \o SelectSeq(Traverse(root, SitemapMax - Len(all)),
                             LAMBDA e : e.source \notin sources)
  IN  FoldLeft(Collect, << >>, SitemapCandidates(key, declared))

KeyOf(u) == [scheme |-> u.scheme, host |-> u.host, port |-> u.port]

BudgetLeft == OnboardedMax <= 0 \/ Cardinality(onboarded) < OnboardedMax

(* ensureHostOnboarded for an origin not seen yet: it is marked first, then *)
(* onboarded; its rules are kept under the name of its host, where they     *)
(* replace those of another origin of that host; its sitemap entries are    *)
(* admitted one by one by the call.                                         *)
CallOnboard(key, depth) ==
  LET file == DiscoverRobots(key)
      declared == UNION {{f.sitemaps} : f \in file}
      found == DiscoverSitemaps(key, IF file = {} THEN << >> ELSE CHOOSE s \in declared : TRUE)
  IN  /\ key \notin onboarded
      /\ BudgetLeft
      /\ onboarded' = onboarded \cup {key}
      /\ rules' = IF file = {} THEN rules
                  ELSE Inserted(OneRow(key.host, CHOOSE f \in file : TRUE), rules)
      /\ sitemap' = sitemap \cup {found[i] : i \in DOMAIN found}
      /\ calls' = <<[depth |-> depth, left |-> found, current |-> {}]>> \o calls

Allowed(u) == u.host \in DOMAIN rules => IsAllowed(rules[u.host], u.path)

(* The first writer of a URL decides its row. *)
UpsertURL(table, u, status, internal, via) ==
  Inserted(table, OneRow(u, [status |-> status, internal |-> internal, via |-> via]))

ReserveDiscovered == DiscoveredMax <= 0 \/ reserved < DiscoveredMax

(* Queue.Push: a URL is queued once per frontier. *)
Push(u, depth) ==
  /\ queue' = IF u \in queued THEN queue ELSE queue \cup {[url |-> u, depth |-> depth]}
  /\ queued' = queued \cup {u}

(* enqueueSitemapEntry, first half: an entry that has a normal form, is in  *)
(* scope and fits the budget is reserved; any other is dropped.             *)
AdmitEntry ==
  /\ calls # << >>
  /\ calls[1].current = {} /\ calls[1].left # << >>
  /\ LET keys == {k \in FrontierKey(Head(calls[1].left).url) : IsInScope(k)}
         admitted == IF ReserveDiscovered THEN keys ELSE {}
     IN  /\ calls' = [calls EXCEPT ![1].left = Tail(@), ![1].current = admitted]
         /\ reserved' = IF admitted = {} THEN reserved ELSE reserved + 1
  /\ UNCHANGED <<tables, web, queue, queued, onboarded, rules>>

(* ... its host is onboarded, by a nested call, if nobody has ... *)
OnboardEntryHost ==
  /\ calls # << >>
  /\ \E u \in calls[1].current : CallOnboard(KeyOf(u), calls[1].depth)
  /\ UNCHANGED <<urls, fetches, hops, pages, edges, assets, refs, issues, clusters,
                 web, queue, queued, reserved>>

(* ... and it is queued, unless its host has no budget or its robots.txt    *)
(* disallows it; the reservation is kept.                                   *)
EnqueueEntry ==
  /\ calls # << >>
  /\ \E u \in calls[1].current :
       /\ KeyOf(u) \in onboarded \/ ~BudgetLeft
       /\ LET kept == KeyOf(u) \in onboarded /\ Allowed(u)
          IN  /\ urls' = IF kept THEN UpsertURL(urls, u, "queued", TRUE, "sitemap") ELSE urls
              /\ IF kept THEN Push(u, calls[1].depth) ELSE UNCHANGED <<queue, queued>>
  /\ calls' = [calls EXCEPT ![1].current = {}]
  /\ UNCHANGED <<fetches, hops, pages, edges, sitemap, assets, refs, issues, clusters,
                 web, onboarded, rules, reserved>>

OnboardReturns ==
  /\ calls # << >>
  /\ calls[1].current = {} /\ calls[1].left = << >>
  /\ calls' = Tail(calls)
  /\ UNCHANGED <<tables, web, queue, queued, onboarded, rules, reserved>>
=============================================================================

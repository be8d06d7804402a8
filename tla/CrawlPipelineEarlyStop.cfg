SPECIFICATION Spec
CONSTANTS
  a = a
  b = b
  c = c
  d = d
  e = e
  x = x
  h1 = h1
  h2 = h2
  NoItem = NoItem
  URLs = {a, b, c, d}
  Hosts <- MCHosts
  HostOf <- OneHost
  Seeds = {a}
  Links <- FlatLinks
  SitemapOf <- NoSitemap
  InScope = {a, b, c, d}
  Disallowed = {}
  Final <- OneRedirect
  Outcomes <- AllPages
  Fetchers = {f1, f2}
  Parsers = {p1}
  FetchQueueCap = 1
  FetchResultsCap = 1
  PersistQueueCap = 1
  MaxPages = 2
  MaxDepth = 1
  MaxDiscovered = 4
  MaxHosts = 2
  MaxFaults = 0
  MaxPanics = 0
INVARIANT
  QuietDrainEmptiesFrontier

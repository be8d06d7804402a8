SPECIFICATION FairSpec
CONSTANTS
  a = a
  b = b
  c = c
  d = d
  e = e
  x = x
  h1 = h1
  h2 = h2
  NoItem = NoItem
  URLs = {a, b, c, d}
  Hosts <- MCHosts
  HostOf <- EdgeHostOf
  Seeds = {a}
  Links <- EdgeLinks
  SitemapOf <- NoSitemap
  InScope <- EdgeScope
  Disallowed = {}
  Final <- OneRedirect
  Outcomes <- AllPages
  Fetchers = {f1}
  Parsers = {p1}
  FetchQueueCap = 1
  FetchResultsCap = 1
  PersistQueueCap = 1
  MaxPages = 0
  MaxDepth = 2
  MaxDiscovered = 0
  MaxHosts = 1
  MaxFaults = 4
  MaxPanics = 1
INVARIANTS
  
  PanicNeverCompletes
PROPERTIES
  CrawlFinishes
  

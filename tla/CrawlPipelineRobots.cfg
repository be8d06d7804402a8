SPECIFICATION Spec
CONSTANTS
  a = a
  b = b
  c = c
  d = d
  e = e
  x = x
  h1 = h1
  h2 = h2
  NoItem = NoItem
  URLs = {a, c, d}
  Hosts <- MCHosts
  HostOf <- NewHostOf
  Seeds = {a}
  Links <- NewHostLinks
  SitemapOf <- NoSitemap
  InScope = {a, c, d}
  Disallowed = {d}
  Final <- NoRedirect
  Outcomes <- AllPages
  Fetchers = {f1, f2}
  Parsers = {p1}
  FetchQueueCap = 1
  FetchResultsCap = 1
  PersistQueueCap = 1
  MaxPages = 0
  MaxDepth = 1
  MaxDiscovered = 4
  MaxHosts = 2
  MaxFaults = 0
  MaxPanics = 0
INVARIANT
  RobotsHonored

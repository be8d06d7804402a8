SPECIFICATION Spec
CONSTANTS
  a = a
  b = b
  c = c
  d = d
  e = e
  x = x
  h1 = h1
  h2 = h2
  NoItem = NoItem
  URLs = {a, b, c, d, e, x}
  Hosts <- MCHosts
  HostOf <- CrossHostOf
  Seeds = {a}
  Links <- CrossLinks
  SitemapOf <- CrossSitemap
  InScope = {a, b, c, d, e, x}
  Disallowed = {b}
  Final <- OneRedirect
  Outcomes <- CrossOutcomes
  Fetchers = {f1, f2}
  Parsers = {p1, p2}
  FetchQueueCap = 1
  FetchResultsCap = 1
  PersistQueueCap = 1
  MaxPages = 2
  MaxDepth = 1
  MaxDiscovered = 3
  MaxHosts = 2
  MaxFaults = 1
  MaxPanics = 0
INVARIANTS
  TypeOK
  InFlightAccounting
  QuietDrainSettles
  DiscoveryBounded
  DepthBounded
  NoSendOnClosedChannel

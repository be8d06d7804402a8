SPECIFICATION Spec
CONSTANTS
  IgnoredParams = {"utm"}
  ScopeMode = "registrable_domain"
  AllowedHosts = {}
  TitleMax = 60
  TitleMin = 30
  DescriptionMax = 160
  DescriptionMin = 70
  ThinContent = 200
  DeepPage = 3
  LongTexts = {}
  GenericAnchors = {"here"}
  Languages = {"en"}
  Regions = {"us"}
  LongUrls = {}
  SpacedUrls = {}
  UpperCaseUrls = {}
  UnderscoreUrls = {}
  Starts <- MCStarts
  Seeds <- MCSeeds
  FirstSeed <- MCFirstSeed
  SitemapLimit = 3
  ServerConfig <- MCServerConfig
  JobConfig <- MCJobConfig
  AgentTokens <- MCAgents
  UnreachablePolicy = "allow"
  SitemapMax = 5
  SitemapFetchMax = 4
  VariantLimit = 1
  KeyPageLimit = 2
  AssetCheckLimit = 2
INVARIANTS
  TypeOK
  FetchSeqUnique
  NoStaleMissing
  PagesInScope
  
  NothingLeftQueued
  DepthsShortest
  OrphansUnlinked
  ClustersMatchIssues
  RestoredOnFailure
CHECK_DEADLOCK FALSE

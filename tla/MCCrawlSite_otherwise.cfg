\* The root is given with a tracking key: it is seeded as it was given, the links to it are not.
\* One page is redirected to another host: the crawl and the link auditor read its links apart.
CONSTANTS
  Keys <- TheKeys
  Tracking = {"ref", "utm_source"}
  NoHost = NoHost
  Pairs <- ThePairs
  Hrefs <- SiteHrefs
  Landing <- SiteLanding
  TaggedRoot = TRUE
  Urls <- SiteUrls
  Root <- TheRoot
  Links <- SiteLinks
  Disallowed <- TheAdmin
  RespectRobots = TRUE
  Unparseable = {}
  Flaky <- TheShop
  MaxDepth = 2
  Capped = FALSE
  MaxPages = 0
  MaxFaults = 0
  Workers = {w1, w2}
SPECIFICATION FairSpec
INVARIANTS
  SpellingsMerged
  InternalAlwaysCrawled

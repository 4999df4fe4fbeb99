\* No cap and no failed call: the whole site within the depth limit is crawled.
CONSTANTS
  Keys <- TheKeys
  Tracking = {"ref", "utm_source"}
  NoHost = NoHost
  Pairs <- ThePairs
  Hrefs <- SiteHrefs
  Landing <- SiteLanding
  TaggedRoot = FALSE
  Urls <- SiteUrls
  Root <- TheRoot
  Links <- SiteLinks
  Disallowed <- TheAdmin
  RespectRobots = TRUE
  Unparseable = {}
  Flaky <- TheShop
  MaxDepth = 2
  Capped = FALSE
  MaxPages = 0
  MaxFaults = 0
  Workers = {w1, w2}
SPECIFICATION FairSpec
INVARIANTS
  DepthSound
  EverySeenReported
  LinksFollowed
  EventsNumbered
  SpellingsMerged
  InternalIsCrawled

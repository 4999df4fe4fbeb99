\* Claims that fail: a link of two pages, a server that answers GET and not HEAD.
CONSTANTS
  p = p  q = q  a = a  b = b
  Pages = {p, q}
  Urls = {a, b}
  Links <- OneLinkEach
  Servers <- HostileServers
  Permits = 1
  Invalid = Invalid
  Locs <- FourLocs
  MaxSampled = 2
  MaxBuffer = 2
  Validate = TRUE
  SiteMaps <- FourSites
SPECIFICATION SiteSpec
INVARIANTS
  TestedOnce
  HostileSpared
CHECK_DEADLOCK FALSE

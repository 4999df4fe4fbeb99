\* Two workers audit a page each: the sitemap, then the links; one permit.
CONSTANTS
  p = p  q = q  a = a  b = b
  Pages = {p, q}
  Urls = {a, b}
  Links <- OneLinkEach
  Servers <- KindsOfServer
  Permits = 1
  Invalid = Invalid
  Locs <- FourLocs
  MaxSampled = 2
  MaxBuffer = 2
  Validate = TRUE
  SiteMaps <- FourSites
SPECIFICATION FairSiteSpec
INVARIANTS
  FindingsExact
  SampleJudged
  AuditorsAgree
PROPERTIES
  PageAudited
CHECK_DEADLOCK FALSE

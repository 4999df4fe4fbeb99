\* One page audited by the command line and by the server: two redirects, two retries.
CONSTANTS
  u1 = u1  u2 = u2  u3 = u3  mailto = mailto  A = A  B = B
  Urls = {u1, u2, u3, mailto}
  Hosts = {A, B}
  HostOf <- HostOfUrl
  MaxRedirects = 2
  MaxRetries = 2
  RetryAfters = {}
  Caller = "single"
  Configs <- ServerAndFlags
  PageFindings <- FoundOnPage
  SiteFindings <- FoundOnSite
SPECIFICATION PageSpec
INVARIANTS
  ChainTellsAll
  RetriesPaid
  ReportTellsFetch
  OutputWhole
  RequestsBounded
CHECK_DEADLOCK FALSE

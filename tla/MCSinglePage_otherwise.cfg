\* Claims that fail: a refused root scores 100 over seven empty bars, and the last
\* line of the JSON on stdout may be lost at exit. Bounds as in MCSinglePage_run.cfg.
CONSTANTS
  u1 = u1  u2 = u2  u3 = u3  mailto = mailto  A = A  B = B
  Urls = {u1, u2, u3, mailto}
  Hosts = {A, B}
  HostOf <- HostOfUrl
  MaxRedirects = 2
  MaxRetries = 2
  RetryAfters = {}
  Caller = "single"
  Configs <- ServerAndFlags
  PageFindings <- FoundOnPage
  SiteFindings <- FoundOnSite
SPECIFICATION PageSpec
INVARIANTS
  BarsAlwaysAgree
  StdoutWhole
CHECK_DEADLOCK FALSE

\* Two workers, a cap of three pages, up to two failed frontier calls.
CONSTANTS
  a = a  b = b  c = c  d = d
  Urls = {a, b, c, d}
  Root = a
  Links <- Diamond
  Disallowed = {c}
  RespectRobots = TRUE
  Unparseable = {}
  Flaky = {b, d}
  MaxDepth = 2
  Capped = TRUE
  MaxPages = 3
  MaxFaults = 2
  Workers = {w1, w2}
SPECIFICATION Spec
INVARIANTS
  InflightAccounting
  CapAccounting
  ProcessedOnce
PROPERTIES
  ImplementsCrawl

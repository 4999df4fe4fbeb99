\* Claims that fail: a cap of three pages, one failed call.
CONSTANTS
  a = a  b = b  c = c  d = d
  Urls = {a, b, c, d}
  Root = a
  Links <- BackLink
  Disallowed = {}
  RespectRobots = TRUE
  Unparseable = {}
  Flaky = {}
  MaxDepth = 2
  Capped = TRUE
  MaxPages = 3
  MaxFaults = 1
  Workers = {w1, w2}
SPECIFICATION FairSpec
INVARIANTS
  CapStrict
  ExactlyMaxPages
PROPERTIES
  Termination

\* With and without --global-timeout, with a frontier call that may fail.
CONSTANTS
  a = a  b = b  c = c
  Urls = {a, b, c}
  Root = a
  Links <- Triangle
  Disallowed = {}
  RespectRobots = TRUE
  Unparseable = {}
  Flaky = {b}
  MaxDepth = 2
  Capped = TRUE
  MaxPages = 3
  MaxFaults = 1
  Workers = {w1, w2}
SPECIFICATION FairRunSpec
INVARIANTS
  ReportsConserved
  ResultComplete
  LittleLeftBehind
PROPERTIES
  EventuallyReturns

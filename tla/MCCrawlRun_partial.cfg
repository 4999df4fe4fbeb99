\* What the timeout does to the reports already taken.
CONSTANTS
  a = a  b = b  c = c
  Urls = {a, b, c}
  Root = a
  Links <- Triangle
  Disallowed = {}
  RespectRobots = TRUE
  Unparseable = {}
  Flaky = {b}
  MaxDepth = 1
  Capped = TRUE
  MaxPages = 2
  MaxFaults = 0
  Workers = {w1, w2}
SPECIFICATION RunSpec
PROPERTIES
  CollectedKept

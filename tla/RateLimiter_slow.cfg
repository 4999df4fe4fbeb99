\* Two cells and one more each tick, two tasks, crawl delays of one and three ticks.
CONSTANTS
  Tasks = {t1, t2}
  Burst = 2
  Period = 1
  Delays = {1, 3}
  Lateness = 1
  MaxCalls = 3
  MaxTime = 4
  Horizon = 24
SPECIFICATION Spec
INVARIANTS
  OwnSpacing
  HostSpacing

\* Two tasks that measure from the same stamp return together.
CONSTANTS
  Tasks = {t1, t2}
  Burst = 2
  Period = 1
  Delays = {2}
  Lateness = 1
  MaxCalls = 3
  MaxTime = 4
  Horizon = 24
SPECIFICATION Spec
INVARIANTS
  Spacing

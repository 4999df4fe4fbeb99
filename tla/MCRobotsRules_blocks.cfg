\* Every body of up to four lines.
CONSTANTS
  Agents = {star, us, other}
  Star = star
  Ours = {us}
  Paths <- NestedPaths
  Delays = {1, 2}
  MaxLines = 4
SPECIFICATION Spec
INVARIANTS
  RulesPerBlock
  LongestWins
CHECK_DEADLOCK FALSE

\* Claims that fail: bodies of up to four lines.
CONSTANTS
  Agents = {star, us}
  Star = star
  Ours = {us}
  Paths <- NestedPaths
  Delays = {1}
  MaxLines = 4
SPECIFICATION Spec
INVARIANTS
  NewAgentNewBlock
  CommentsIgnored
  OwnBlockUsed
CHECK_DEADLOCK FALSE

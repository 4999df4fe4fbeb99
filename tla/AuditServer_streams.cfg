\* One job of depth 0, one of depth 1, two clients, a sweeper.
CONSTANTS
  Jobs = {j0, j1}
  Deep = {j1}
  Streams = {s1, s2}
  Ttl = 1
  None = None
SPECIFICATION FairSpec
INVARIANTS
  StreamShape
  Replayable
PROPERTIES
  VerdictArrives
  StreamsEnd

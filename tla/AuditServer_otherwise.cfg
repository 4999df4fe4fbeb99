\* The audit stores and sends its verdict between lookup and subscription; and a
\* client that has its verdict waits for the sweeper.
CONSTANTS
  Jobs = {j0}
  Deep = {}
  Streams = {s1}
  Ttl = 1
  None = None
SPECIFICATION PolledSpec
INVARIANTS
  NoRaceWindow
PROPERTIES
  EndsWithVerdict

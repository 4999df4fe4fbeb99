\* Three workers over two hosts, any of them aborted, under fairness.
CONSTANTS
  a1 = a1  a2 = a2  b1 = b1  A = A  B = B  strict = strict  slow = slow
  Workers = {w1, w2, w3}
  Pages <- ThreePages
  Hosts <- TwoHosts
  HostOf <- HostOfPage
  Rules <- TwoFiles
  Missing = missing
  Unset = unset
  Nobody = nobody
  NoPage = noPage
  Delays = {1, 2}
  DelaysOf <- FileDelays
  Refused <- FileRefuses
  Redirects <- ToOtherHost
SPECIFICATION FairSpec
INVARIANTS
  SingleFlight
  DelaysKnown
PROPERTIES
  LookupReturns
CHECK_DEADLOCK FALSE

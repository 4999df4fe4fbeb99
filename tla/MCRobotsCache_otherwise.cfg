\* Claims that fail: one worker, and a page that redirects to another host.
CONSTANTS
  a1 = a1  a2 = a2  b1 = b1  A = A  B = B  strict = strict  slow = slow
  Workers = {w1}
  Pages <- ThreePages
  Hosts <- TwoHosts
  HostOf <- HostOfPage
  Rules <- TwoFiles
  Missing = missing
  Unset = unset
  Nobody = nobody
  NoPage = noPage
  Delays = {1, 2}
  DelaysOf <- FileDelays
  Refused <- FileRefuses
  Redirects <- ToOtherHost
SPECIFICATION Spec
INVARIANTS
  EveryUrlConsulted
  FetchedOnce
CHECK_DEADLOCK FALSE

\* Claims that fail: a worker, loops and chains longer than the limit.
CONSTANTS
  u1 = u1  u2 = u2  u3 = u3  mailto = mailto  A = A  B = B
  Urls = {u1, u2, u3, mailto}
  Hosts = {A, B}
  HostOf <- HostOfUrl
  MaxRedirects = 2
  MaxRetries = 3
  RetryAfters = {5}
  Caller = "worker"
SPECIFICATION Spec
INVARIANTS
  LoopIsALoop
  TenRedirectsFollowed
  LoopReported
CHECK_DEADLOCK FALSE

\* Claims that fail: two streams of one job, and more audits than slots.
CONSTANTS
  AddressOf <- FewAddresses
  MaxConcurrent = 1
  RateMax = 2
  RateWindow = 2
  LastTime = 2
  MaxOpens = 2
SPECIFICATION GateSpec
CHECK_DEADLOCK FALSE
INVARIANTS
  AtMostMax
  OneRow

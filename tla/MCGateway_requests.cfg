\* Five requests of two addresses over two windows, one slot, streams opened once.
CONSTANTS
  AddressOf <- Addresses
  MaxConcurrent = 1
  RateMax = 2
  RateWindow = 2
  LastTime = 2
  MaxOpens = 1
SPECIFICATION FairGateSpec
INVARIANTS
  SlotsAccounted
  BurstBounded
PROPERTY BusyPasses
CHECK_DEADLOCK FALSE

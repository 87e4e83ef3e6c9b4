SPECIFICATION Spec
CONSTANTS
  d1 = d1
  d2 = d2
  Null = Null
  Devices <- TwoDevices
  Ceiling = 10
  MaxDelta = 1
  MaxLiters = 2
  MaxSales = 1
  MaxConfirms = 2
  Failures <- NoFailures
  Misreads <- NoMisreads
CHECK_DEADLOCK FALSE
INVARIANTS
  LatestBaseline

SPECIFICATION Spec
CONSTANTS
  d1 = d1
  d2 = d2
  Null = Null
  Devices <- TwoDevices
  Ceiling = 3
  MaxDelta = 1
  MaxLiters = 2
  MaxSales = 4
  MaxConfirms = 2
  Failures <- LossesOnly
  Misreads <- SomeMisreads
CHECK_DEADLOCK FALSE
INVARIANTS
  AlarmsJustified
  QuietReadsClose
  BaselineAudited
  AckedAudited
SYMMETRY DeviceSymmetry

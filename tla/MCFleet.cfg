SPECIFICATION Spec
CONSTANTS
  h1 = h1
  h2 = h2
  a = a
  b = b
  zero = zero
  d1 = d1
  d2 = d2
  u1 = u1
  u2 = u2
  v1 = v1
  v2 = v2
  here = here
  there = there
  off = off
  NoPlace = NoPlace
  NoCard = NoCard
  NoFix = NoFix
  NoRow = NoRow
  NoSummary = NoSummary
  Handlers <- TwoHandlers
  Companies <- SharedPrefix
  Devices = {d1, d2}
  Users = {u1, u2}
  Versions = {v1, v2}
  Places = {here, there}
  OffGlobe = {off}
  Sent <- FewPayloads
  Bodies <- StoredBodies
  Hour = 1
  Day = 2
  Week = 2
  MaxTime = 3
  MaxRows = 3
SYMMETRY HandlerSymmetry
INVARIANTS
  CardsCounted
  FleetHealth
  SummaryCovers
PROPERTIES
  ImplementsRegistry
  CardsAdvance
CHECK_DEADLOCK FALSE

SPECIFICATION Spec
CONSTANTS
  i1 = i1
  i2 = i2
  i3 = i3
  kirima = kirima
  main = main
  depot = depot
  arm64 = arm64
  arm7 = arm7
  Null = Null
  Blank = Blank
  Admin = Admin
  Ids <- ThreeIds
  Urls <- OneUrl
  Prefixes <- TwoPrefixes
  Versions <- OneVersion
  Abis <- TwoAbis
  Payloads <- WholeScopes
  PageSize = 1
  MaxClock = 3
SYMMETRY Alike
INVARIANTS
  DeliveredAsAsked
  NoTwins
  ScanComplete

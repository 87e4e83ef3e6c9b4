SPECIFICATION Spec
CONSTANTS
  h1 = h1
  h2 = h2
  a = a
  b = b
  NoRow = NoRow
  NoRecords = NoRecords
  NoScan = NoScan
  NoStrip = NoStrip
  Open = Open
  Handlers <- TwoHandlers
  Pings <- TwoPings
  Sent <- TwoSubmissions
  Bodies <- StoredBodies
  Filters <- PingFilters
  BulkFilters <- SubmissionFilters
  PageSize = 1
  ExportCap = 2
  DayTicks = 2
  MaxTime = 2
  MaxRows = 3
SYMMETRY HandlerSymmetry
INVARIANTS
  ScanMissesFew
  FileHasScreen
  StripAgrees
CHECK_DEADLOCK FALSE

SPECIFICATION Spec
CONSTANTS
  s1 = s1
  s2 = s2
  s3 = s3
  p1 = p1
  p2 = p2
  p3 = p3
  Blank = Blank
  Null = Null
  Absent = Absent
  Ids <- ThreeSites
  Names = {1, 2, 3}
  Pairs <- ThreePairs
  Searches <- TwoSearches
  PageSize = 1
SYMMETRY SiteSymmetry
INVARIANTS
  ScanFindsSettled

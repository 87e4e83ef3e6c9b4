SPECIFICATION FairSpec
CONSTANTS
  kirima = kirima
  wakulima = wakulima
  meru1 = meru1
  r1 = r1
  r2 = r2
  Companies <- TwoPrefixes
  PrefixOf <- Prefixes
  Readers <- OneReader
  DailyCap = 1
  MaxRows = 2
  Outcomes <- AllOutcomes
  Failures <- AnyFailures
PROPERTIES
  EveryCallLogged

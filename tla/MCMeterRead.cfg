SPECIFICATION FairSpec
CONSTANTS
  kirima = kirima
  wakulima = wakulima
  meru1 = meru1
  r1 = r1
  r2 = r2
  Companies <- SharedPrefix
  PrefixOf <- Prefixes
  Readers <- TwoReaders
  DailyCap = 1
  MaxRows = 1
  Outcomes <- FewOutcomes
  Failures <- AnyFailures
INVARIANTS
  TypeOK
  CapOvershoot
  RetryBudget
  RetriesJustified
  RateLimitedLast
PROPERTIES
  EveryReadAnswered

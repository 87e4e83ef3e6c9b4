SPECIFICATION Spec
CONSTANTS
  id1 = id1
  id2 = id2
  h1 = h1
  h2 = h2
  h3 = h3
  good = good
  better = better
  junk = junk
  Absent = Absent
  Torn = Torn
  Ids <- OneId
  Handlers <- TwoHandlers
  Contents <- AllContents
  Apks <- TwoApks
  Required <- OneField
  Failures <- HangupsOnly
PROPERTIES
  ConflictMeansRunning

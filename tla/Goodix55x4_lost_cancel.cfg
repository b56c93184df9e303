CONSTANTS
  Actions = {"verify"}
  NrStages = 1
  Faults = {}
SPECIFICATION GoodixFairSpec
PROPERTIES CancelEnds

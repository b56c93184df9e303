CONSTANTS
  outer = outer
  inner = inner
  leaf = leaf
  Machines = {outer, inner, leaf}
  None = None
  NrStates <- MCNrStates
  StartCleanup <- MCStartCleanup
SPECIFICATION SsmSpec
INVARIANTS ParentsWait TimersAreAwaited CleanupIsDone
PROPERTY FirstErrorIsKept
CHECK_DEADLOCK FALSE

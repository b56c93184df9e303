CONSTANTS
  Operations = {"verify", "enroll", "delete"}
  Classes = {{}, {"suspend"}, {"cancel", "temperature"}, {"cancel", "suspend"}}
  MaxCritical = 2
SPECIFICATION ContextFairSpec
INVARIANTS AssertionsHold NothingForgotten SuspendedAtRest
  TemperatureWatched RemovedWhenClosed
PROPERTIES DriverUndisturbed KeepsTask SuspendEnds
CHECK_DEADLOCK FALSE

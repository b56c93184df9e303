CONSTANTS
  Actions = {"enroll", "verify", "capture"}
  NrStages = 3
  Faults = {"open", "close", "activate", "tls", "scan", "idle"}
SPECIFICATION GoodixFairSpec
INVARIANTS SomeoneCompletes NeverBusy InStep SessionLives
PROPERTIES KeepsContract CancelledScanEnds

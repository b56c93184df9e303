CONSTANTS
  Actions = {"enroll", "verify", "identify", "capture"}
  NrStages = 3
  Faults = {"open", "close", "activate", "session", "deactivate"}
SPECIFICATION ImageSpec
INVARIANTS NothingLeft OneImageAtATime ReportedFirst EnrollsAllStages
PROPERTIES StateMachine CancelledEnds KeepsTask

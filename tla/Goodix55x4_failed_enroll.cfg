CONSTANTS
  Actions = {"enroll"}
  NrStages = 2
  Faults = {"enroll_scan"}
SPECIFICATION GoodixSpec
PROPERTIES StateMachine

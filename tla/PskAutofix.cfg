CONSTANTS
  Attempts = 3
  MaxResponses = 4
SPECIFICATION PskSpec
INVARIANTS WritesOther SuccessStands

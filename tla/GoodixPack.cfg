CONSTANTS
  Flags = {1}
  Payloads <- MCPayloads
  MaxLength = 3
  MaxRead = 4
  MaxPacket = 9
  MaxPadding = 1
  MaxPacks = 3
  MaxLosses = 1
SPECIFICATION PackFairSpec
INVARIANTS NeverTooLarge
PROPERTIES KeepsPacks PacksArrive

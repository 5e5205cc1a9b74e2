SPECIFICATION PSpec
CONSTANTS
  p1 = p1
  p2 = p2
  Responses = {r1}
  Parts = {p1, p2}
  FirstParts = {p1, p2}
  Formats <- OneFormat
  ConfiguredFormat <- Pcm
  Chunks = {3, 4}
  Positions = {}
  MaxParts = 2
  MaxCount = 10000
  CanTruncate = TRUE
  FrankieExtensions = TRUE
  None = None
  Rate = 1000
  Frame = 2
  Opening <- InOrder
  FirstOf <- OwnItems
  MaxQueued = 6
  MaxHeld = 2
  MaxBytes = 4
  MaxEvents = 2
  MaxControls = 1
  MaxCommands = 1
INVARIANTS BytesCounted HeardRendered SettledCut StopsWithinAFrame

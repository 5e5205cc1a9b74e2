SPECIFICATION Spec
CONSTANTS
  Responses = {r1, r2}
  Parts = {p1, p2}
  FirstParts = {p1}
  Formats <- BothFormats
  ConfiguredFormat <- Pcm
  Chunks = {6}
  Positions = {0, 1}
  MaxParts = 2
  MaxCount = 10000
  CanTruncate = TRUE
  FrankieExtensions = TRUE
  None = None
  MaxBytes = 6
CONSTRAINT Short
PROPERTY OmittedPartsUnheard

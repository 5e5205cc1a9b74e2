SPECIFICATION ESpec
SYMMETRY Symmetry
CONSTRAINT InLoop
CONSTANTS
  Responses = {r1, r2}
  Calls = {c1}
  Inputs = {good, bad}
  Runnable = {good}
  Requests = {q1, q2}
  Reports <- AllReports
  ClientContinues = TRUE
  ConcurrentTools = 2
  MaxResponses = 2
  MaxCalls = 2
  None = None
INVARIANTS
  OneSpeaker
  StoppedAgrees
  InBandOnly
PROPERTIES
  Attributed

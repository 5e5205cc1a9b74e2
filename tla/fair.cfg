SPECIFICATION FairSpec
CONSTANTS
  Responses = {r1}
  Calls = {c1, c2}
  Inputs = {good, bad}
  Runnable = {good}
  Requests = {q1, q2}
  Reports = {"unreported"}
  ClientContinues = TRUE
  ConcurrentTools = 2
  MaxResponses = 2
  MaxCalls = 2
  None = None
INVARIANTS
  QuietWhenOver
PROPERTIES
  KeepsContract
  EveryCallSettled
  EveryRequestSettled
  EveryEndPublished

SPECIFICATION Spec
SYMMETRY Symmetry
CONSTRAINT InLoop
CONSTANTS
  Responses = {r1}
  Calls = {c1, c2, c3}
  Inputs = {good, bad}
  Runnable = {good}
  Requests = {q1, q2}
  Reports = {"unreported"}
  ClientContinues = FALSE
  ConcurrentTools = 1
  MaxResponses = 1
  MaxCalls = 2
  None = None
INVARIANTS
  AtMostOnce
  CallsAccountedFor
  ResultsSupervised
  Bounded

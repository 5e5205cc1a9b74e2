SPECIFICATION HonestSpec
CONSTANTS
  Responses = {r1, r2}
  Calls = {c1}
  Inputs = {good}
  Runnable = {good}
  Requests = {q1, q2}
  Reports = {"unreported"}
  ClientContinues = TRUE
  ConcurrentTools = 2
  MaxResponses = 2
  MaxCalls = 2
  None = None
INVARIANTS
  NoForgottenBatch
  ContinuedOnce
PROPERTIES
  BatchFrozen
  EveryBatchContinued

SPECIFICATION FairSpec
CONSTANTS
  Queue = 1
  Controls = 1
  Priority = 2
  Backlog = 1
INVARIANTS JoinedOnce CutOnlyWhenStopped WriterErrorTold
PROPERTIES ShutdownEnds DeadEndsEnd

SPECIFICATION MFairSpec
CONSTANTS
  s1 = s1
  s2 = s2
  t1 = t1
  t2 = t2
  a1 = a1
  a2 = a2
  a3 = a3
  Servers = {s1, s2}
  Order <- MCOrder
  Tools = {t1, t2}
  TaskOnly <- MCTaskOnly
  Misshapen <- MCMisshapen
  Aliases = {a1, a2, a3}
  Alias <- MCAlias
  Cursors = {n1}
  Selections <- MCSelections
  MaxPages = 2
  MaxListed = 2
  MaxTools = 2
  Everything = Everything
  None = None
  Calls = {c1, c2}
INVARIANTS TypeOK RoutesAsAdvertised OutcomeTrue DispatchSettled DrainedBeforeClose NothingRuns
PROPERTIES ShutdownReturns CancelledCallsEnd

SPECIFICATION FairSpec
CONSTANTS
  t1 = t1  t2 = t2  t3 = t3
  cl = cl  s1 = s1  s2 = s2  c1 = c1  c2 = c2  h1 = h1  h2 = h2  pr = pr
  start = start  stop = stop
  None = None
  Object <- MCObject
  Action <- MCAction
  Scope <- MCScope
  Task = {t1, t2}
  Pid = {p1, p2}
  target <- PairTarget
  owner <- PairTarget
  action <- PairAction
  Blocking = {t1, t2}
  Restartable = {}
  Killable = {p1, p2}
  NewScheduler = TRUE
  EagerWorker = FALSE
  MaxRestarts = 0
PROPERTIES TaskFinishes LostRunnerIsFinalized

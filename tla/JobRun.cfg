SPECIFICATION FairSpec
CONSTANTS
  r1 = r1  r2 = r2
  theTask = theTask  thePid = thePid  theObject = theObject  theAction = theAction  nobody = nobody
  JobCount = 3
  Internal = {2}
  Request = {r1, r2}
  FailureMode <- MCFailureMode
INVARIANTS SequenceInv  VerdictIsJustified  OwnerStateMatchesStatus
PROPERTIES RunnerRefines TaskEnds TerminationWins
CHECK_DEADLOCK FALSE

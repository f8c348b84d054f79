\* A child, two descendants that stay in its group, one Terminate.
SPECIFICATION FairProcSpec
CONSTANTS
  Kids = {"k1", "k2"}
  Offsets = 1
  MaxTerms = 1
  Detach = FALSE
INVARIANT VerdictIsCause
INVARIANT DoneIsClean
PROPERTY DoneFollowsExit
\* the process has ended
CHECK_DEADLOCK FALSE

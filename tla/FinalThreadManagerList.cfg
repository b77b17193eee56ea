CONSTANTS
  Jobs = {j1, j2}
  Terminators = {t1, t2}
  Void = Void
  MaxQueries = 2
  CreateMayFail = FALSE
SPECIFICATION FinalFairSpec
PROPERTY
  ListIsCancelled
CHECK_DEADLOCK FALSE

\* Three threads for one place: the idle handler and AddThread each use it.
CONSTANTS
  mnStartedSize = 1
  MaxThreads = 3
SPECIFICATION Spec
INVARIANT StartedAtMostLimit
CHECK_DEADLOCK FALSE

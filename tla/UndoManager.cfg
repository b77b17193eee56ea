SPECIFICATION Spec
CONSTANTS
    MaxChanges = 3
    EmptyMarkStays = FALSE
INVARIANT UnmodifiedIsSaved
CHECK_DEADLOCK FALSE

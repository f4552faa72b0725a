SPECIFICATION Spec
CONSTANTS
    DegradedAfter = 3
    MaxTime = 8
INVARIANT OutageTracked
INVARIANT DegradedOnlyLate

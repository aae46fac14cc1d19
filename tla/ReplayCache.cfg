\* Three tokens, a cache that holds two, and a clock that crosses five
\* buckets of width 2.
SPECIFICATION MCSpec
CONSTANTS
    Tokens = {t1, t2, t3}
    Tolerance = 2
    MaxSize = 2
    MaxTime = 9
\* the clock stops at its bound
CHECK_DEADLOCK FALSE
INVARIANTS AcceptedOnce CountAccounted Remembered
PROPERTY ClientsAdmitted

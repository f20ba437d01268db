\* Pages of one over three places, which two writers write during the walk, in and
\* out of the filter; two clock readings fall into each microsecond, the
\* rows of the table are of two of these and the writes of the second and a third.
CONSTANTS
    Places = {1, 2, 3}
    Limit = 1
    Writers = {w1, w2}
    Micro = 2
    Past = 2
    Horizon = 4
    None = None
SPECIFICATION FairSpec
INVARIANTS TypeOK UnwrittenPlacesOnce
PROPERTIES WalkEnds
CHECK_DEADLOCK FALSE

\* Requests on a key that has no bucket yet or loses it to the evictor, and a
\* second key.
CONSTANTS
    None = None
    Keys = {k1, k2}
    Callers = {c1, c2}
    Period = 2
    Burst = 2
    Horizon = 4
    MaxBuckets = 3
    MaxGrants = 5
SPECIFICATION Spec
INVARIANTS TypeOK RefusesOnlyWhenSpent OverAdmitsOnlyRaced
CHECK_DEADLOCK FALSE

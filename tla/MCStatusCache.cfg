\* One request after another for two trackings against three updates; every
\* best-effort call may fail, and time and handlers go on.
CONSTANTS
    i1 = i1  i2 = i2  r1 = r1
    Ids = {i1, i2}
    Readers = {r1}
    Updates <- MCUpdatesOfTwo
    TTL = 2
    CallsMayFail = TRUE
    MaxReschedules = 1
SPECIFICATION FairSpec
INVARIANTS TypeOK EveryIdAnswered OnlyStoredStatuses
PROPERTIES ConsumerCachesNewest EventuallyCurrent

\* Two workers and one tracking: what the lease does and does not keep apart.
CONSTANTS
    w1 = w1  w2 = w2  t1 = t1  p1 = p1
    Workers = {w1, w2}
    Trackings = {t1}
    Partitions = {p1}
    MaxStep = 2
    Lease = 1
    RecheckDelays <- MCRecheckDelays
    Backoff <- MCBackoff
    DeliveredDelay = 9
    BatchSize = 1
    Attempts = 1
    Horizon = 2
    MaxTime = 2
    MaxLog = 1
    MaxRestarts = 0
SPECIFICATION Spec
INVARIANTS NotSelectedWhileProcessed

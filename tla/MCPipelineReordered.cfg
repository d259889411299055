\* Two workers and two partitions: checks of one tracking overlap, and their
\* messages reach the consumer in any order.
CONSTANTS
    w1 = w1  w2 = w2  t1 = t1  p1 = p1  p2 = p2
    Workers = {w1, w2}
    Trackings = {t1}
    Partitions = {p1, p2}
    MaxStep = 2
    Lease = 1
    RecheckDelays <- MCRecheckDelays
    Backoff <- MCBackoff
    DeliveredDelay = 9
    BatchSize = 1
    Attempts = 1
    Horizon = 2
    MaxTime = 2
    MaxLog = 1
    MaxRestarts = 1
SPECIFICATION Spec
SYMMETRY Interchangeable
INVARIANTS TypeOK HistoryCoversStatus NeverParkedUndelivered

\* One worker and one partition, as docker-compose deploys them.
CONSTANTS
    w1 = w1  t1 = t1  p1 = p1
    Workers = {w1}
    Trackings = {t1}
    Partitions = {p1}
    MaxStep = 2
    Lease = 1
    RecheckDelays <- MCRecheckDelays
    Backoff <- MCBackoff
    DeliveredDelay = 9
    BatchSize = 2
    Attempts = 2
    Horizon = 2
    MaxTime = 1
    MaxLog = 3
    MaxRestarts = 1
SPECIFICATION FairSpec
INVARIANTS NoUpdateLost
PROPERTIES StatusNeverRegresses ImplementsLifecycle EveryUpdateConsumed

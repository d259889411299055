\* Three clients, two connections, overlapping batches in opposite orders.
CONSTANTS
    a = a  b = b  c = c  bad = bad
    r1 = r1  r2 = r2  r3 = r3  nobody = nobody
    Requests = {r1, r2, r3}
    Pairs = {a, b, c}
    Malformed = bad
    KeyOf <- MCKeyOf
    Batches <- MCBatches
    MaxItems = 3
    PoolSize = 2
    Nobody = nobody
    MaxCalls = 1
SPECIFICATION FairSpec
INVARIANTS TypeOK AnswerCoversBatch
PROPERTIES IdsNeverChange ImplementsRegistry EveryCallEnds
CHECK_DEADLOCK FALSE

\* Three trackings and claims of one row: two always wait.  When all are
\* delivered nothing is left to do.
CONSTANTS
    w1 = w1  w2 = w2  t1 = t1  t2 = t2  t3 = t3
    Workers = {w1, w2}
    Trackings = {t1, t2, t3}
    BatchSize = 1
    MaxChecks = 2
SPECIFICATION ClaimsFairSpec
INVARIANTS ClaimsTypeOK
PROPERTIES DueIsClaimed
CHECK_DEADLOCK FALSE

\* Two goroutines, two minutes of three ticks.
CONSTANTS
    g1 = g1  g2 = g2
    cdek = cdek  other = other
    Goroutines = {g1, g2}
    Carriers = {cdek, other}
    CarrierLimit <- MCCarrierLimit
    GlobalLimit = 1
    Minute = 3
    KeyTTL = 4
    MaxDelay = 1
    MaxTime = 5
    MaxChecks = 4
SPECIFICATION Spec
INVARIANTS TypeOK AllowedWithinLimit

\* Two threads, two minutes, a reset or a seed in between.
CONSTANTS
    cdek = cdek  other = other  h1 = h1  h2 = h2
    Handlers = {h1, h2}
    Carriers = {cdek, other}
    LimitPerMin <- MCLimitPerMin
    Tracks <- MCTracks
    DefaultSteps = 3
    SeedSizes = {0, 2}
    MaxMinute = 1
    MaxRequests = 2
    MaxAdmin = 1
SPECIFICATION Spec
SYMMETRY Interchangeable
INVARIANTS TypeOK RefusedOnlyOverLimit StepWithinScenario HistoryHasNoGaps
CHECK_DEADLOCK FALSE

\* Two overlapping checks with each client, and one reader.
CONSTANTS
    c1 = c1  c2 = c2
    Checks = {c1, c2}
    Modes <- MCModes
    DeliverySounding <- MCSounding
    Seeds <- MCSeeds
    DefaultSteps <- MCDefault
    V1Steps <- MCV1
    StepSeconds = 1
    Limits = {0, 2, 3}
    DefaultLimit = 1
    MaxLimit = 2
    MaxTime <- MCMaxTime
    MaxScenarios = 2
SPECIFICATION FairSpec
INVARIANTS TypeOK StepsStoredOnce SkippedOnlyAmongTies
PROPERTIES HistoryCatchesUp

\* One track-api with one call at a time, one worker, an older database or none.
CONSTANTS
    api = api  worker = worker  e1 = e1  c1 = c1
    Processes = {api, worker}
    Apis = {api}
    Events = {e1}
    Calls = {c1}
    PoolSize = 1
    Tries = 6
    MaxRow = 3
SPECIFICATION FairSpec
INVARIANTS TypeOK ServesOnSoundSchema GivesUpOnlyAfterOutage
PROPERTIES HistoryKept SignalEndsProcess

\* Three items, two slots.
CONSTANTS
    BatchSize = 3
    Concurrency = 2
    Wrap = 4
SPECIFICATION FairSpec
INVARIANTS TypeOK ConcurrencyBounded EveryClaimAccounted CyclesDoNotOverlap
PROPERTIES TriggerLeadsToClaim CancelledReturns

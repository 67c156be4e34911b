SPECIFICATION FairSpec
CONSTANTS
    a1 = a1
    a2 = a2
    r1 = r1
    r2 = r2
    none = none
    Job = {1, 2}
    Type <- EndsType
    TestJob = {1}
    Batches = {}
    Bytes <- Sizes
    ApiWorkers = {a1}
    Runners = {r1}
    NoWorker = none
    Slots <- TwoSlots
    Quotas <- BudgetQuotas
    MaxDay = 1
PROPERTIES
    ImplementsContract
    EveryJobEnds

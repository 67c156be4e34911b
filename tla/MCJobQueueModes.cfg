SPECIFICATION Spec
CONSTANTS
    a1 = a1
    a2 = a2
    r1 = r1
    r2 = r2
    none = none
    Job = {1, 2}
    Type <- ModesType
    TestJob = {1, 2}
    Batches = {}
    Bytes <- Sizes
    ApiWorkers = {}
    Runners = {r1, r2}
    NoWorker = none
    Slots <- TwoSlots
    Quotas <- ModesQuotas
    MaxDay = 1
INVARIANTS
    ModesExclusive
    QuotaConserved
    AttemptsBounded
    CancelWins
    StreamEnds

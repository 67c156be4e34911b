SPECIFICATION Spec
CONSTANTS
    a1 = a1
    a2 = a2
    r1 = r1
    r2 = r2
    none = none
    Job = {1, 2}
    Type <- ResultsType
    TestJob = {}
    Batches = {}
    Bytes <- Sizes
    ApiWorkers = {a1, a2}
    Runners = {}
    NoWorker = none
    Slots <- TwoSlots
    Quotas <- BudgetQuotas
    MaxDay = 1
INVARIANTS
    ResultsFenced
    CommitOncePerResult
PROPERTIES
    CancelStopsCommit
    TerminalIsFinal

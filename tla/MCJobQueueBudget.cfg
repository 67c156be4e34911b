SPECIFICATION Spec
CONSTANTS
    a1 = a1
    a2 = a2
    r1 = r1
    r2 = r2
    none = none
    Job = {1, 2}
    Type <- BudgetType
    TestJob = {}
    Batches <- BudgetBatches
    Bytes <- EqualSizes
    ApiWorkers = {}
    Runners = {r1}
    NoWorker = none
    Slots <- TwoSlots
    Quotas <- BudgetQuotas
    MaxDay = 2
INVARIANTS
    TypeOK
    ReservationReady
    QuotaConserved
PROPERTIES
    WithinDailyBudget
    SlotsRespected
    RevisionIdentifies

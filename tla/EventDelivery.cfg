CONSTANTS
    None = None
    Worker = worker
    Boot = boot
    Handlers = {worker, boot, r1}
    Bodies = {e}
    Ids = {f}
    SubIds = {t, u}
    Serial = FALSE
    Guarded = TRUE
    DeliveryIds = {d1, d2, d3}
    maxPersistedDeliveries = 2
    deliveryQueueSize = 1
    MaxRevision = 1
    ExecutionIds = {}
    MaxCrashes = 1
    MaxRequests = 4
SPECIFICATION FairSpec
CHECK_DEADLOCK FALSE
INVARIANTS SucceededHasRun TriggersSurviveRestart
PROPERTIES RunsOnce IntentsKept QueueDrains

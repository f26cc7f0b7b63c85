CONSTANTS
    None = None
    Worker = worker
    Boot = boot
    Handlers = {worker, boot, r1}
    Bodies = {e}
    Ids = {f, g}
    SubIds = {t}
    Serial = FALSE
    Guarded = TRUE
    DeliveryIds = {d1, d2}
    maxPersistedDeliveries = 1
    deliveryQueueSize = 1
    MaxRevision = 1
    ExecutionIds = {}
    MaxCrashes = 1
    MaxRequests = 5
SPECIFICATION Spec
CHECK_DEADLOCK FALSE
INVARIANT TriggersSurviveRestart

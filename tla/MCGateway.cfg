CONSTANTS
    None = None
    strict = TRUE
    lazy = lazy
    durable = durable
    shim = shim
    Handlers = {r1, r2}
    Durable = {durable}
    Plain = {lazy}
    Shims = {shim}
    Rules <- MCRules
    Targets <- MCTargets
    MaxTime = 1
    MaxRequests = 2
    MaxStops = 1
    MaxRestarts = 1
SPECIFICATION FairSpec
CHECK_DEADLOCK FALSE
INVARIANTS AttemptsPrecede HealthyChainVerifies QuotaExact
PROPERTY EveryRequestAnswered

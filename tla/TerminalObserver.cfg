\* Two subscriptions that Shutdown waits for, two operations: one notification
\* while the worker has taken a token, one while it calls back.
SPECIFICATION FairSpec
CONSTANTS
    Observers = {o1, o2}
    Operations = {a, b}
    Nil = Nil
CHECK_DEADLOCK FALSE
PROPERTIES QuietAfterShutdown LatestDelivered WorkerExits

\* One name given to two tasks, the first deleted before the second is
\* created; nothing fails and nothing crashes.
CONSTANTS
    t0 = t0  t1 = t1  t2 = t2  t3 = t3  n1 = n1  n2 = n2  c1 = c1  c2 = c2  None = None
    Crews = {"all"}
    Tasks = {t1, t2}
    Names = {n1}
    NameOf <- OneName
    HttpTasks = {t1, t2}
    GivenAttempts <- NoAttempts
    Clients = {c1}
    Closer = Closer
    MaxWorkers = 2
    QueueAttempts = 1
    TimeLimited = FALSE
    Disruptions = {}
SPECIFICATION MCSpec
CHECK_DEADLOCK FALSE
INVARIANT CompletedWasSent

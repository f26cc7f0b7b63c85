\* A crash and the next start with an unfinished task.
CONSTANTS
    t0 = t0  t1 = t1  t2 = t2  t3 = t3  n1 = n1  n2 = n2  c1 = c1  c2 = c2  None = None
    Crews = {"all"}
    Tasks = {t1}
    Names = {n1}
    NameOf <- OwnNames
    HttpTasks = {t1}
    GivenAttempts <- NoAttempts
    Clients = {c1}
    Closer = Closer
    MaxWorkers = 2
    QueueAttempts = 1
    TimeLimited = FALSE
    Disruptions = {"crash"}
SPECIFICATION MCSpec
CHECK_DEADLOCK FALSE
PROPERTY UnfinishedResumed

\* The budget is one attempt; a body gives -1, 0 or 5 of them.  Two goroutines
\* of a name may overlap, one of them cancelled.
CONSTANTS
    t0 = t0  t1 = t1  t2 = t2  t3 = t3  n1 = n1  n2 = n2  c1 = c1  c2 = c2  None = None
    Crews = {"alone", "racing"}
    Tasks = {t0, t1, t2, t3}
    Names = {n1, n2}
    NameOf <- OwnNames
    HttpTasks = {t0, t1, t3}
    GivenAttempts <- BodyAttempts
    Clients = {c1, c2}
    Closer = Closer
    MaxWorkers = 2
    QueueAttempts = 1
    TimeLimited = TRUE
    Disruptions = {"save", "crash", "shutdown"}
SPECIFICATION MCSpec
CHECK_DEADLOCK FALSE
INVARIANTS BudgetKept QuietAfterShutdown AcceptedKept
PROPERTIES DeletedNotSent OutcomeStable TasksSettle

\* One name, two executions at a time, one request at a time beside them,
\* failed Saves and readbacks, crashes, unreadable state and Shutdown.
SPECIFICATION FairSpec
CONSTANTS
    Names = {n1}
    Bodies = {b}
    Clients = {c1}
    Slots = {s1, s2}
    MaxTicks = 1
    None = None
INVARIANTS JobsScheduled AckedKept QuietAfterShutdown
PROPERTY ShutdownEnds

\* A daemon whose goroutines share its flocks, next to an offline command: the
\* locks, the durable map and the return of every call.
CONSTANTS
    d1 = d1  d2 = d2  c = c  daemon = daemon  cli = cli  a = a  b = b  x = x
    Absent = absent
    Procs = {daemon, cli}
    Threads = {d1, d2, c}
    Handles = {daemon, cli}
    ProcOf <- DaemonAndCli
    HandleOf <- DaemonAndCli
    ReadOnlyProcs = {}
    Entries = {a, b}
    Payloads = {x}
    Imports <- SnapshotDocs
    Ops = {"save", "delete", "load", "export", "import"}
SPECIFICATION MCSpec
INVARIANTS WritersExclude OwnerWritesAlone
PROPERTIES ImplementsEntryStore PairReturns

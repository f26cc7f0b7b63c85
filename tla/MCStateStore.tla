---------------------------- MODULE MCStateStore ----------------------------
\* A daemon and an offline command, in two crews: one goroutine of the daemon
\* next to the command with every operation, and two goroutines that share the
\* daemon's flocks next to the command with the operations that lock
\* differently.
EXTENDS StateStore, TLC

CONSTANTS d1, d2, c, daemon, cli, a, b, x
VARIABLE crew

DaemonAndCli == [t \in Threads |-> IF t = c THEN cli ELSE daemon]
SnapshotDocs == {[e \in Entries |-> IF e = a THEN x ELSE Absent]}

Pair == {d1, c}

\* The pair saves b and deletes or reads a, each beside the other entry; in the
\* crowd d2 only reads.
Started(t, r) ==
    /\ crew = Pair => (r.op = "save" => r.e = b) /\ (r.op \in {"delete", "load"} => r.e = a)
    /\ crew # Pair => r.op \in {"save", "load", "import"} /\ r.e # b
    /\ t = d2 => r.op = "load"
    /\ t = c => r.op \notin {"delete", "load"}

MCInit == Init /\ crew \in {Pair, Threads}

MCNext ==
    /\ Next
    /\ \A t \in Threads :
          /\ t \notin crew => th'[t] = th[t]
          /\ th[t].pc = "idle" /\ th'[t].pc # "idle" => Started(t, th'[t].req)
    /\ UNCHANGED crew

MCSpec ==
    /\ MCInit /\ [][MCNext]_<<vars, crew>>
    /\ \A t \in Threads : SF_vars(Advance(t))

\* Every call of the pair returns: no reader or writer waits for ever for the
\* gate, the path lock or a flock (withStateLock, withMutationLock, Import).
\* With two reading goroutines a writer of another process may starve, as
\* flock(2) grants a shared lock while an exclusive one is waited for; nobody
\* waits in a circle then.
PairReturns ==
    /\ crew = Pair => CallsReturn
    /\ crew # Pair => []NoLockCycle
=============================================================================

----------------------------- MODULE Scheduler -----------------------------
(***************************************************************************)
(* Cloud Scheduler, pkg/shims/scheduler/api.go: jobs, their cron entries,  *)
(* the executions that ticks and manual runs start, the transactions that  *)
(* keep memory, cron and state file together, Shutdown and restart.        *)
(*                                                                         *)
(* Every change of api.jobs holds persistMu from its snapshot to its last  *)
(* write, so one record, `tx`, is the transaction in progress: Save, the   *)
(* readback after a failed Save, and the change of memory and cron, which  *)
(* is one critical section of api.mu.  Ticks and executions take api.mu    *)
(* only, and run between the steps of a transaction.                       *)
(*                                                                         *)
(* A schedule is parsed before persistMu is taken, by the parser AddFunc   *)
(* uses, so the rollback of an invalid schedule has no step.  Of a job,    *)
(* the body a client sent, the state and a stamp of the last outcome are   *)
(* kept; get and list change nothing.                                      *)
(***************************************************************************)
EXTENDS Naturals, FiniteSets

CONSTANTS
    Names,      \* job names
    Bodies,     \* what clients post: schedule, target, description
    Clients,    \* request goroutines
    Slots,      \* bound: executions at a time
    MaxTicks,   \* bound: dispatched ticks of one job that have not run yet
    None        \* no job, no request

ASSUME SlotsAssumption == Clients \cap Slots = {}
ASSUME TicksAssumption == MaxTicks \in Nat

VARIABLES
    up,          \* the process is alive
    jobs,        \* api.jobs
    cron,        \* per name: entries of api.cron, and whether cronIDs has one
    ticks,       \* per name: cron goroutines that have not taken api.mu yet
    exec,        \* per slot: the goroutine of startJobExecution
    adm,         \* per client: a request past the look at persistenceErr
    tx,          \* the transaction that holds persistMu
    persistErr,  \* api.persistenceErr is set
    sick,        \* Store.degradedErr is set in this process
    durable,     \* the scheduler entry of the profile's state file
    exists,      \* that entry has been written
    closer,      \* Shutdown: its step, and which idle channel it waits for
    allowed      \* history: what a reader of the file may find for a name

vars == <<up, jobs, cron, ticks, exec, adm, tx, persistErr, sick, durable,
          exists, closer, allowed>>

States == {"ENABLED", "PAUSED"}
Jobs == [body : Bodies, state : States, last : 0..2]
Metadata == [Names -> Jobs \cup {None}]
Empty == [n \in Names |-> None]

Requests ==
    [op : {"create"}, n : Names, body : Bodies]
        \cup [op : {"delete", "pause", "resume", "run"}, n : Names, body : {None}]

ASSUME NoneAssumption == None \notin Jobs \cup Requests

NoTx == [pc |-> "none", who |-> None, op |-> "none", n |-> None,
         prev |-> Empty, next |-> Empty]
Idle == [pc |-> "idle", n |-> None]

Init ==
    /\ up = FALSE /\ jobs = Empty
    /\ cron = [n \in Names |-> [entries |-> 0, id |-> FALSE]]
    /\ ticks = [n \in Names |-> 0]
    /\ exec = [s \in Slots |-> Idle]
    /\ adm = [c \in Clients |-> None]
    /\ tx = NoTx /\ persistErr = FALSE /\ sick = FALSE
    /\ durable = Empty /\ exists = FALSE
    /\ closer = [pc |-> "none", idle |-> "none"]
    /\ allowed = [n \in Names |-> {None}]

-----------------------------------------------------------------------------
\* Cron entries.

\* scheduleJobLocked on an enabled job: the new entry, then the old one goes.
Schedule(k) ==
    [entries |-> IF k.id THEN k.entries ELSE k.entries + 1, id |-> TRUE]
Unschedule(k) ==
    [entries |-> IF k.id THEN k.entries - 1 ELSE k.entries, id |-> FALSE]

\* A tick dispatches the entry's function in a goroutine of its own.
Tick(n) ==
    /\ up /\ closer.pc \in {"none", "closed"} /\ cron[n].entries > 0
    /\ ticks[n] < MaxTicks
    /\ ticks' = [ticks EXCEPT ![n] = @ + 1]
    /\ UNCHANGED <<up, jobs, cron, exec, adm, tx, persistErr, sick, durable,
                   exists, closer, allowed>>

-----------------------------------------------------------------------------
\* Executions.

Active == {s \in Slots : exec[s].pc # "idle"}
Closed == closer.pc # "none"

\* startJobExecution: the job is looked up by name under api.mu; the first
\* of several executions replaces the closed idle channel.
\* In the fault api.closed is not looked at.
StartableLate(n) == jobs[n] # None
Startable(n) == ~Closed /\ jobs[n] # None

Start(n) ==
    \/ /\ ~Startable(n)
       /\ UNCHANGED <<exec, closer>>
    \/ /\ Startable(n)
       /\ \E s \in Slots \ Active : exec' = [exec EXCEPT ![s] = [pc |-> "deliver", n |-> n]]
       /\ closer' = IF Active = {} /\ closer.idle = "current"
                    THEN [closer EXCEPT !.idle = "replaced"] ELSE closer

TickRuns(n) ==
    /\ up /\ ticks[n] > 0
    /\ ticks' = [ticks EXCEPT ![n] = @ - 1]
    /\ Start(n)
    /\ UNCHANGED <<up, jobs, cron, adm, tx, persistErr, sick, durable, exists, allowed>>

\* runJob: startJobExecution decides, whatever the earlier lookup saw.
RunJob(c) ==
    /\ up /\ adm[c] # None /\ adm[c].op = "run"
    /\ Start(adm[c].n)
    /\ adm' = [adm EXCEPT ![c] = None]
    /\ UNCHANGED <<up, jobs, cron, ticks, tx, persistErr, sick, durable, exists, allowed>>

\* The target answers, the client times out or the context is cancelled.
Deliver(s) ==
    /\ up /\ exec[s].pc = "deliver"
    /\ exec' = [exec EXCEPT ![s].pc = "record"]
    /\ UNCHANGED <<up, jobs, cron, ticks, adm, tx, persistErr, sick, durable,
                   exists, closer, allowed>>

\* finishJobExecution; the last one closes the idle channel.  In the fault
\* the execution is not counted down.
FinishUncounted(s) ==
    /\ up /\ exec[s].pc = "finish" /\ UNCHANGED vars
FinishJobExecution(s) ==
    /\ up /\ exec[s].pc = "finish"
    /\ exec' = [exec EXCEPT ![s] = Idle]
    /\ UNCHANGED <<up, jobs, cron, ticks, adm, tx, persistErr, sick, durable,
                   exists, closer, allowed>>

-----------------------------------------------------------------------------
\* Transactions.

\* What a reader of the file learns about a job; outcomes are metadata.
Essence(job) == IF job = None THEN None ELSE <<job.body, job.state>>

\* persistMu.Lock, snapshotJobs and the changed clone.
Begin(who, op, n, job) ==
    /\ up /\ tx.pc = "none"
    /\ tx' = [pc |-> "save", who |-> who, op |-> op, n |-> n,
              prev |-> jobs, next |-> [jobs EXCEPT ![n] = job]]
    /\ allowed' = [allowed EXCEPT ![n] = @ \cup {Essence(job)}]

\* ServeHTTP: the look at persistenceErr; persistMu is taken later.
ServeHTTP(c, r) ==
    /\ up /\ adm[c] = None /\ ~persistErr
    /\ adm' = [adm EXCEPT ![c] = r]
    /\ UNCHANGED <<up, jobs, cron, ticks, exec, tx, persistErr, sick, durable,
                   exists, closer, allowed>>

Change(c, op, job) ==
    /\ adm[c] # None /\ adm[c].op = op
    /\ Begin(c, op, adm[c].n, job)
    /\ UNCHANGED <<up, jobs, cron, ticks, exec, adm, persistErr, sick, durable,
                   exists, closer>>

\* The changed clone of a job; the last outcome stays.
InState(job, state) == IF job = None THEN None ELSE [job EXCEPT !.state = state]

CreateJob(c) ==
    Change(c, "create", [body |-> adm[c].body, state |-> "ENABLED", last |-> 0])
DeleteJob(c) == Change(c, "delete", None)
PauseJob(c)  == Change(c, "pause", InState(jobs[adm[c].n], "PAUSED"))
ResumeJob(c) == Change(c, "resume", InState(jobs[adm[c].n], "ENABLED"))

\* applyExecutionOutcome: the time of the attempt differs from the last one's.
Outcome(job) == [job EXCEPT !.last = IF @ = 1 THEN 2 ELSE 1]

\* recordExecutionOutcome: on the job that has the name now, if there is one.
RecordExecutionOutcome(s) ==
    /\ exec[s].pc = "record" /\ jobs[exec[s].n] # None
    /\ Begin(s, "record", exec[s].n, Outcome(jobs[exec[s].n]))
    /\ UNCHANGED <<up, jobs, cron, ticks, exec, adm, persistErr, sick, durable,
                   exists, closer>>
NothingToRecord(s) ==
    /\ up /\ tx.pc = "none" /\ exec[s].pc = "record" /\ jobs[exec[s].n] = None
    /\ exec' = [exec EXCEPT ![s].pc = "finish"]
    /\ UNCHANGED <<up, jobs, cron, ticks, adm, tx, persistErr, sick, durable,
                   exists, closer, allowed>>

\* saveJobs.  A failed Save may have replaced the file; it makes the store
\* refuse every later one.
Save ==
    /\ up /\ tx.pc = "save"
    /\ \E ok, committed \in BOOLEAN :
        /\ ok => committed
        /\ committed => ~sick
        /\ durable' = IF committed THEN tx.next ELSE durable
        /\ exists' = (exists \/ committed)
        /\ sick' = (sick \/ ~ok)
        /\ tx' = [tx EXCEPT !.pc = IF ok THEN "apply" ELSE "readback"]
    /\ UNCHANGED <<up, jobs, cron, ticks, exec, adm, persistErr, closer, allowed>>

\* The return of the handler or of executeJob, which releases persistMu.
Return ==
    /\ tx' = NoTx
    /\ adm' = IF tx.who \in Clients THEN [adm EXCEPT ![tx.who] = None] ELSE adm
    /\ exec' = IF tx.who \in Slots THEN [exec EXCEPT ![tx.who].pc = "finish"] ELSE exec

\* saveJobsTransaction's readback: the durable state is the new one, the old
\* one, or unknown; a missing entry is the old one if there were no jobs.
\* The fault takes every failed Save for one that changed nothing.
VerdictHopeful(loads) == "old"
Verdict(loads) ==
    CASE loads /\ exists /\ durable = tx.next -> "new"
      [] loads /\ exists /\ durable = tx.prev /\ durable # tx.next -> "old"
      [] loads /\ ~exists /\ tx.prev = Empty -> "old"
      [] OTHER -> "unknown"

Readback ==
    /\ up /\ tx.pc = "readback"
    /\ \E loads \in BOOLEAN :
        LET v == Verdict(loads) IN
        /\ \/ v = "new" /\ tx' = [tx EXCEPT !.pc = "apply"] /\ UNCHANGED <<adm, exec>>
           \/ v # "new" /\ Return
        /\ persistErr' = (persistErr \/ v = "unknown")
        /\ sick' = (sick \/ ~loads)
        /\ allowed' = IF v = "old"
                      THEN [allowed EXCEPT ![tx.n] = {Essence(tx.prev[tx.n])}]
                      ELSE allowed
    /\ UNCHANGED <<up, jobs, cron, ticks, durable, exists, closer>>

\* The critical section of api.mu after the Save: memory and cron together.
Apply(op, entry) ==
    /\ up /\ tx.pc = "apply" /\ tx.op = op
    /\ jobs' = [jobs EXCEPT ![tx.n] = tx.next[tx.n]]
    /\ cron' = [cron EXCEPT ![tx.n] = entry]
    /\ Return
    /\ allowed' = [allowed EXCEPT ![tx.n] = {Essence(tx.next[tx.n])}]
    /\ UNCHANGED <<up, ticks, persistErr, sick, durable, exists, closer>>

IfPresent(entry) == IF jobs[tx.n] = None THEN cron[tx.n] ELSE entry

ApplyCreate  == Apply("create", Schedule(cron[tx.n]))
ApplyDelete  == Apply("delete", Unschedule(cron[tx.n]))
\* Fault: the cron entry of a paused job stays.
ApplyPauseOnly == Apply("pause", cron[tx.n])
ApplyPause   == Apply("pause", IfPresent(Unschedule(cron[tx.n])))
ApplyResume  == Apply("resume", IfPresent(Schedule(cron[tx.n])))
ApplyOutcome == Apply("record", cron[tx.n])

-----------------------------------------------------------------------------
\* Shutdown: closed and cancel under api.mu, cron.Stop outside it, then the
\* look at the idle channel, and the two waits under the caller's deadline.

Shutdown ==
    /\ up /\ closer.pc = "none"
    /\ closer' = [closer EXCEPT !.pc = "closed"]
    /\ UNCHANGED <<up, jobs, cron, ticks, exec, adm, tx, persistErr, sick,
                   durable, exists, allowed>>

StopCron ==
    /\ up /\ closer.pc = "closed"
    /\ closer' = [closer EXCEPT !.pc = "stopped"]
    /\ UNCHANGED <<up, jobs, cron, ticks, exec, adm, tx, persistErr, sick,
                   durable, exists, allowed>>

\* Also the first step of a later call, after a deadline has passed.
CaptureIdle ==
    /\ up /\ closer.pc \in {"stopped", "expired"}
    /\ closer' = [pc |-> "wait", idle |-> "current"]
    /\ UNCHANGED <<up, jobs, cron, ticks, exec, adm, tx, persistErr, sick,
                   durable, exists, allowed>>

\* The channel of cron.Stop and the captured idle channel are closed.
Drained ==
    /\ \A n \in Names : ticks[n] = 0
    /\ closer.idle = "replaced" \/ Active = {}

ShutdownReturns ==
    /\ up /\ closer.pc = "wait" /\ Drained
    /\ closer' = [pc |-> "returned", idle |-> "none"]
    /\ UNCHANGED <<up, jobs, cron, ticks, exec, adm, tx, persistErr, sick,
                   durable, exists, allowed>>

DeadlinePasses ==
    /\ up /\ closer.pc = "wait"
    /\ closer' = [pc |-> "expired", idle |-> "none"]
    /\ UNCHANGED <<up, jobs, cron, ticks, exec, adm, tx, persistErr, sick,
                   durable, exists, allowed>>

-----------------------------------------------------------------------------
\* The process.

Crash ==
    /\ up /\ up' = FALSE
    /\ jobs' = Empty
    /\ cron' = [n \in Names |-> [entries |-> 0, id |-> FALSE]]
    /\ ticks' = [n \in Names |-> 0]
    /\ exec' = [s \in Slots |-> Idle]
    /\ adm' = [c \in Clients |-> None]
    /\ tx' = NoTx /\ persistErr' = FALSE /\ sick' = FALSE
    /\ closer' = [pc |-> "none", idle |-> "none"]
    /\ UNCHANGED <<durable, exists, allowed>>

\* NewAPIWithConfigAndStore: the jobs of the file, the enabled ones scheduled.
Restored(job) ==
    IF job # None /\ job.state = "ENABLED"
    THEN [entries |-> 1, id |-> TRUE] ELSE [entries |-> 0, id |-> FALSE]

Boot ==
    /\ ~up /\ up' = TRUE
    /\ jobs' = durable
    /\ cron' = [n \in Names |-> Restored(durable[n])]
    /\ UNCHANGED <<ticks, exec, adm, tx, persistErr, sick, durable, exists,
                   closer, allowed>>

\* NewAPI after a failed Load: an API without jobs over the same store, which
\* the failure has made refuse every Save.
BlindBoot ==
    /\ ~up /\ up' = TRUE /\ sick' = TRUE
    /\ UNCHANGED <<jobs, cron, ticks, exec, adm, tx, persistErr, durable,
                   exists, closer, allowed>>

-----------------------------------------------------------------------------
Execution(s) ==
    Deliver(s) \/ RecordExecutionOutcome(s) \/ NothingToRecord(s) \/ FinishJobExecution(s)
Mutation(c) == CreateJob(c) \/ DeleteJob(c) \/ PauseJob(c) \/ ResumeJob(c)
Transaction ==
    \/ Save \/ Readback
    \/ ApplyCreate \/ ApplyDelete \/ ApplyPause \/ ApplyResume \/ ApplyOutcome
Closing == StopCron \/ CaptureIdle \/ ShutdownReturns

Next ==
    \/ \E n \in Names : Tick(n) \/ TickRuns(n)
    \/ \E s \in Slots : Execution(s)
    \/ \E c \in Clients : RunJob(c) \/ Mutation(c) \/ \E r \in Requests : ServeHTTP(c, r)
    \/ Transaction
    \/ Shutdown \/ Closing \/ DeadlinePasses
    \/ Crash \/ Boot \/ BlindBoot

Spec == Init /\ [][Next]_vars

\* Goroutines run, targets answer within the client's ten seconds, mutexes
\* are fair: a waiter of persistMu gets it although others come and go.
Fairness ==
    /\ \A n \in Names : WF_vars(TickRuns(n))
    /\ \A s \in Slots : SF_vars(Execution(s))
    /\ WF_vars(Transaction) /\ WF_vars(Closing)

FairSpec == Spec /\ Fairness

-----------------------------------------------------------------------------
\* Properties.

TypeOK ==
    /\ up \in BOOLEAN /\ persistErr \in BOOLEAN /\ sick \in BOOLEAN
    /\ exists \in BOOLEAN
    /\ jobs \in Metadata /\ durable \in Metadata
    /\ cron \in [Names -> [entries : 0..1, id : BOOLEAN]]
    /\ ticks \in [Names -> 0..MaxTicks]
    /\ exec \in [Slots -> [pc : {"idle", "deliver", "record", "finish"},
                           n : Names \cup {None}]]
    /\ adm \in [Clients -> Requests \cup {None}]
    /\ tx \in [pc : {"none", "save", "readback", "apply"},
               who : Clients \cup Slots \cup {None},
               op : {"none", "create", "delete", "pause", "resume", "record"},
               n : Names \cup {None}, prev : Metadata, next : Metadata]
    /\ closer \in [pc : {"none", "closed", "stopped", "wait", "expired", "returned"},
                   idle : {"none", "current", "replaced"}]
    /\ allowed \in [Names -> SUBSET ((Bodies \X States) \cup {None})]

\* A job has one cron entry while it is enabled and none otherwise, whatever
\* creates, deletes, pauses, resumes and recorded outcomes raced for it: a
\* paused or deleted job stops firing, an enabled one fires once per tick.
JobsScheduled ==
    up => \A n \in Names : cron[n] = Restored(jobs[n])

\* Between transactions, and unless persistence is reported unavailable,
\* memory is what a restart would read, however the Saves failed; or it has
\* no jobs, after a start that could not read the file.
MemoryIsDurable ==
    up /\ tx.pc \in {"none", "save"} /\ ~persistErr
        => jobs = durable \/ (sick /\ jobs = Empty)

\* The state file has every job in the state last acknowledged for it; where
\* the answer was an error, in the state before or after the refused change.
AckedKept ==
    \A n \in Names : Essence(durable[n]) \in allowed[n]

\* Once Shutdown has returned without an error, nothing delivers or is about
\* to: no execution, and no dispatched tick.
QuietAfterShutdown ==
    closer.pc = "returned" => Active = {} /\ \A n \in Names : ticks[n] = 0

\* A call of Shutdown returns: its deadline passes or all is drained.
ShutdownEnds ==
    closer.pc = "closed" ~> ~up \/ closer.pc \in {"returned", "expired"}
=============================================================================

----------------------------- MODULE CloudTasks -----------------------------
(***************************************************************************)
(* The Cloud Tasks shim (pkg/shims/cloudtasks/api.go) with one queue: its  *)
(* request handlers, its delivery goroutines, Shutdown, and the restarts   *)
(* of the daemon.                                                          *)
(*                                                                         *)
(* Two mutexes: api.mu is held for one step at a time; api.persistMu is    *)
(* held across a Save, by deletions and delivery outcomes from their       *)
(* change of memory on, by the other callers only for the snapshot and the *)
(* Save.  A task object is a pointer: the list of the queue holds objects, *)
(* deliveries look theirs up by name, and names may be used again.         *)
(*                                                                         *)
(* The store is a handle of pkg/state: a failed Save may have replaced the *)
(* document, and refuses every later one.  Payloads, response bodies and   *)
(* timestamps are left out; an expired retry duration is a choice.         *)
(***************************************************************************)
EXTENDS Integers, Sequences, FiniteSets, FiniteSetsExt

CONSTANTS
    Tasks, NameOf, Names,   \* task objects, and the name each is created with
    HttpTasks,              \* the tasks with an httpRequest
    GivenAttempts,          \* the attemptCount in the body that creates each task
    Clients, Closer,        \* request handlers; the caller of Shutdown
    MaxWorkers,             \* bound: goroutines per name that are not done yet
    QueueAttempts,          \* the queue's retryConfig.maxAttempts
    TimeLimited,            \* the queue has a maxRetryDuration
    Disruptions,            \* which of "save", "crash", "shutdown" may happen
    None

ASSUME TasksAssumption ==
    /\ NameOf \in [Tasks -> Names] /\ HttpTasks \subseteq Tasks
    /\ None \notin Tasks /\ MaxWorkers \in Nat \ {0}
    /\ Closer \notin Clients
ASSUME RetryAssumption ==
    /\ QueueAttempts \in Int /\ TimeLimited \in BOOLEAN
    /\ GivenAttempts \in [Tasks -> Int]

VARIABLES
    up,         \* the API serves
    closed,     \* api.closed; api.ctx is cancelled with it
    queue,      \* the queue exists
    list,       \* api.tasks of the queue
    heap,       \* the task objects
    jobs,       \* api.jobs: the goroutine of each name
    disk,       \* the Cloud Tasks entry of the state file
    sick,       \* the store refuses to save
    persistMu,  \* the holder of api.persistMu
    th,         \* handlers, delivery goroutines and Shutdown
    created, acked,   \* history: tasks created, creations answered
    asked, removed,   \* history: tasks a deletion took, deletions answered
    sent        \* history: requests sent for each task object

vars == <<up, closed, queue, list, heap, jobs, disk, sick, persistMu, th,
          created, acked, asked, removed, sent>>
history == <<created, acked, asked, removed, sent>>
memory == <<queue, list, heap, jobs>>

Slots == Names \X (1..MaxWorkers)
Callers == Clients \cup {Closer} \cup Slots

ASSUME CallersAssumption ==
    /\ Closer \notin Slots /\ Clients \cap Slots = {} /\ None \notin Callers

-----------------------------------------------------------------------------
\* Tasks and documents.

Terminal(task) == task.status \in {"COMPLETED", "FAILED"}
NewTask == [status |-> "PENDING", attempts |-> 0]

\* normalizedRetryConfig; a task without a queue gets the zero RetryConfig.
NormalizedAttempts(n) == IF n <= 0 THEN 3 ELSE IF n > 100 THEN 100 ELSE n
MaxAttempts(q) == NormalizedAttempts(IF q THEN QueueAttempts ELSE 0)

\* The first object in the list with the name, as every loop finds it.
Named(l, n) == {i \in DOMAIN l : NameOf[l[i]] = n}
Find(l, n) == IF Named(l, n) = {} THEN None ELSE l[Min(Named(l, n))]
\* removeTaskLocked and deleteTask close the gap that task leaves.
Without(l, n) ==
    IF Named(l, n) = {} THEN l
    ELSE [j \in 1..(Len(l) - 1) |-> l[IF j < Min(Named(l, n)) THEN j ELSE j + 1]]
Elements(l) == {l[i] : i \in DOMAIN l}

CloneMetadata(q, l, h) ==
    [queue |-> q, list |-> l,
     task |-> [t \in Tasks |-> IF t \in Elements(l) THEN h[t] ELSE NewTask]]

\* Fault: finished tasks are marked too.
MarkAll(l, h) ==
    [t \in Tasks |-> IF t \in Elements(l)
                     THEN [h[t] EXCEPT !.status = "FAILED"] ELSE h[t]]

MarkInterrupted(l, h) ==
    [t \in Tasks |-> IF t \in Elements(l) /\ ~Terminal(h[t])
                     THEN [h[t] EXCEPT !.status = "FAILED"] ELSE h[t]]

\* One thread.  op and pc: what it does and the step to take next; n, t: the
\* name and the object it is about; list, queue, was: what it restores when a
\* Save fails; doc: the snapshot it saves; max, k: the attempts of the job and
\* the one it makes; out: its outcome; dead: the job was cancelled.
Idle == [pc |-> "idle", op |-> "none", n |-> None, t |-> None, list |-> <<>>,
         queue |-> FALSE, was |-> NewTask, doc |-> None, max |-> 0, k |-> 0,
         out |-> "none", dead |-> FALSE]

Goto(p, pc) == th' = [th EXCEPT ![p].pc = pc]
Cancelled(w) == closed \/ th[w].dead

-----------------------------------------------------------------------------
Init ==
    /\ up = TRUE /\ closed = FALSE /\ sick = FALSE /\ persistMu = None
    /\ queue = FALSE /\ list = <<>> /\ heap = [t \in Tasks |-> NewTask]
    /\ jobs = [n \in Names |-> None]
    /\ disk = CloneMetadata(FALSE, <<>>, heap)
    /\ th = [p \in Callers |-> Idle]
    /\ created = {} /\ acked = {} /\ asked = {} /\ removed = {}
    /\ sent = [t \in Tasks |-> 0]

\* scheduleDeliveryLocked for a set of tasks: one goroutine per name, none
\* for a name that has one.
FreeSlots(n) == {w \in Slots : w[1] = n /\ th[w].pc = "idle"}
SlotOf(n) == CHOOSE w \in FreeSlots(n) : TRUE
NewJobs(T) == {n \in {NameOf[t] : t \in T} : jobs[n] = None}
JobsWith(T) ==
    [n \in Names |-> IF n \in NewJobs(T) THEN SlotOf(n) ELSE jobs[n]]
Started(T, max, threads) ==
    [p \in Callers |->
        IF \E n \in NewJobs(T) : p = SlotOf(n)
        THEN [Idle EXCEPT !.pc = "loop", !.op = "deliver", !.n = p[1], !.max = max]
        ELSE threads[p]]

-----------------------------------------------------------------------------
\* persistMetadata, and the Save of every caller.

\* Deletions and outcomes keep persistMu while they finish or roll back.
KeepsLock(op) == op \in {"deleteTask", "deleteQueue", "outcome"}

PersistMetadata(p) ==
    /\ th[p].pc = "persist" /\ persistMu = None
    /\ persistMu' = p
    /\ th' = [th EXCEPT ![p].pc = "save", ![p].doc = CloneMetadata(queue, list, heap)]
    /\ UNCHANGED <<up, closed, memory, disk, sick, history>>

SaveOk(p) ==
    /\ th[p].pc = "save" /\ ~sick
    /\ disk' = th[p].doc
    /\ th' = [th EXCEPT ![p].pc = "saved", ![p].doc = None]
    /\ persistMu' = IF KeepsLock(th[p].op) THEN p ELSE None
    /\ UNCHANGED <<up, closed, memory, sick, history>>

SaveFails(p) ==
    /\ th[p].pc = "save" /\ "save" \in Disruptions
    /\ disk' = disk \/ (~sick /\ disk' = th[p].doc)
    /\ sick' = TRUE
    /\ th' = [th EXCEPT ![p].pc = "failed", ![p].doc = None]
    /\ persistMu' = IF KeepsLock(th[p].op) THEN p ELSE None
    /\ UNCHANGED <<up, closed, memory, history>>

-----------------------------------------------------------------------------
\* Request handlers.

Open(c, op) == [Idle EXCEPT !.op = op, !.pc = "persist"]

\* createQueue; an existing queue is a conflict.
CreateQueue(c) ==
    /\ up /\ th[c].pc = "idle" /\ ~queue
    /\ queue' = TRUE
    /\ th' = [th EXCEPT ![c] = Open(c, "createQueue")]
    /\ UNCHANGED <<up, closed, list, heap, jobs, disk, sick, persistMu, history>>

CreateQueueEnds(c) ==
    /\ th[c].op = "createQueue" /\ th[c].pc \in {"saved", "failed"}
    /\ queue' = (queue /\ th[c].pc = "saved")
    /\ th' = [th EXCEPT ![c] = Idle]
    /\ UNCHANGED <<up, closed, list, heap, jobs, disk, sick, persistMu, history>>

\* createTask: append, with no look at the names in use; the body's
\* attemptCount stays, whatever it is; queue and closed are read here and used
\* after the Save.
CreateTask(c, t) ==
    /\ up /\ th[c].pc = "idle" /\ t \notin created
    /\ list' = Append(list, t)
    /\ heap' = [heap EXCEPT ![t] = [NewTask EXCEPT !.attempts = GivenAttempts[t]]]
    /\ th' = [th EXCEPT ![c] = [Open(c, "createTask") EXCEPT
                 !.t = t, !.max = MaxAttempts(queue), !.dead = closed]]
    /\ created' = created \cup {t}
    /\ UNCHANGED <<up, closed, queue, jobs, disk, sick, persistMu, acked,
                   asked, removed, sent>>

\* Fault: only the closed flag read before the Save counts.
DeliverableBefore(c) == IF th[c].dead THEN {} ELSE {th[c].t} \cap HttpTasks

Deliverable(c) == IF closed \/ th[c].dead THEN {} ELSE {th[c].t} \cap HttpTasks

CreateTaskEnds(c) ==
    /\ th[c].op = "createTask" /\ th[c].pc = "saved"
    /\ LET T == Deliverable(c)
       IN /\ \A n \in NewJobs(T) : FreeSlots(n) # {}
          /\ jobs' = JobsWith(T)
          /\ th' = [Started(T, th[c].max, th) EXCEPT ![c] = Idle]
    /\ acked' = acked \cup {th[c].t}
    /\ UNCHANGED <<up, closed, queue, list, heap, disk, sick, persistMu,
                   created, asked, removed, sent>>

\* removeTaskLocked takes the first task with the name.
CreateTaskFails(c) ==
    /\ th[c].op = "createTask" /\ th[c].pc = "failed"
    /\ list' = Without(list, NameOf[th[c].t])
    /\ th' = [th EXCEPT ![c] = Idle]
    /\ UNCHANGED <<up, closed, queue, heap, jobs, disk, sick, persistMu, history>>

\* deleteTask and deleteQueue: memory first, under persistMu ...
DeleteTask(c, n) ==
    /\ up /\ th[c].pc = "idle" /\ persistMu = None
    /\ Find(list, n) # None
    /\ list' = Without(list, n)
    /\ persistMu' = c
    /\ th' = [th EXCEPT ![c] = [Open(c, "deleteTask") EXCEPT
                 !.pc = "save", !.n = n, !.t = Find(list, n), !.list = list,
                 !.doc = CloneMetadata(queue, list', heap)]]
    /\ asked' = asked \cup {Find(list, n)}
    /\ UNCHANGED <<up, closed, queue, heap, jobs, disk, sick, created, acked,
                   removed, sent>>

DeleteQueue(c) ==
    /\ up /\ th[c].pc = "idle" /\ persistMu = None
    /\ queue' = FALSE /\ list' = <<>>
    /\ persistMu' = c
    /\ th' = [th EXCEPT ![c] = [Open(c, "deleteQueue") EXCEPT
                 !.pc = "save", !.queue = queue, !.list = list,
                 !.doc = CloneMetadata(FALSE, <<>>, heap)]]
    /\ asked' = asked \cup Elements(list)
    /\ UNCHANGED <<up, closed, heap, jobs, disk, sick, created, acked, removed, sent>>

Deletes(c) == th[c].op \in {"deleteTask", "deleteQueue"}
Gone(c) == IF th[c].op = "deleteTask" THEN {th[c].t} ELSE Elements(th[c].list)

\* Fault: the jobs are forgotten, not cancelled.
DeleteForgets(c) ==
    /\ Deletes(c) /\ th[c].pc = "saved"
    /\ th' = [th EXCEPT ![c] = Idle]
    /\ jobs' = [n \in Names |-> IF \E t \in Gone(c) : NameOf[t] = n THEN None ELSE jobs[n]]
    /\ removed' = removed \cup Gone(c)
    /\ persistMu' = None
    /\ UNCHANGED <<up, closed, queue, list, heap, disk, sick, created, acked,
                   asked, sent>>

\* ... then the jobs of the deleted tasks, by name ...
DeleteEnds(c) ==
    /\ Deletes(c) /\ th[c].pc = "saved"
    /\ LET names == {NameOf[t] : t \in Gone(c)}
       IN /\ th' = [p \in Callers |->
                      IF p = c THEN Idle
                      ELSE IF \E n \in names : jobs[n] = p
                           THEN [th[p] EXCEPT !.dead = TRUE] ELSE th[p]]
          /\ jobs' = [n \in Names |-> IF n \in names THEN None ELSE jobs[n]]
    /\ removed' = removed \cup Gone(c)
    /\ persistMu' = None
    /\ UNCHANGED <<up, closed, queue, list, heap, disk, sick, created, acked,
                   asked, sent>>

\* ... or the list as it was.  Go restores an empty list only if it is not
\* nil, which depends on how it became empty.
DeleteFails(c) ==
    /\ Deletes(c) /\ th[c].pc = "failed"
    /\ queue' = (queue \/ th[c].queue)
    /\ list' = th[c].list \/ (th[c].list = <<>> /\ list' = list)
    /\ persistMu' = None
    /\ th' = [th EXCEPT ![c] = Idle]
    /\ UNCHANGED <<up, closed, heap, jobs, disk, sick, history>>

-----------------------------------------------------------------------------
\* executeTask: the goroutine of one job.

\* The top of the loop, after the schedule time or the backoff.
CheckContext(w) ==
    /\ th[w].op = "deliver" /\ th[w].pc = "loop"
    /\ Goto(w, IF Cancelled(w) THEN "exit" ELSE "start")
    /\ UNCHANGED <<up, closed, memory, disk, sick, persistMu, history>>

\* Fault: the attempt is not counted.
NextUncounted(task, exhausted) ==
    IF exhausted THEN [task EXCEPT !.status = "FAILED"]
    ELSE [task EXCEPT !.status = "RETRYING"]

NextAttempt(task, exhausted) ==
    IF exhausted THEN [task EXCEPT !.status = "FAILED"]
    ELSE [status |-> "RETRYING", attempts |-> task.attempts + 1]

\* recordAttemptStart, under api.mu only.  The first attempt the duration is
\* counted from may be the body's too.
RecordAttemptStart(w) ==
    /\ th[w].pc = "start"
    /\ LET t == Find(list, th[w].n) IN
       IF t = None \/ (t # None /\ Terminal(heap[t]))
       THEN Goto(w, "exit") /\ UNCHANGED heap
       ELSE \E expired \in {FALSE, TimeLimited} :
            LET exhausted == expired \/ heap[t].attempts >= th[w].max
                next == NextAttempt(heap[t], exhausted)
            IN /\ heap' = [heap EXCEPT ![t] = next]
               /\ th' = [th EXCEPT ![w] = [@ EXCEPT
                    !.op = "start", !.pc = "persist", !.t = t, !.was = heap[t],
                    !.k = next.attempts, !.out = IF exhausted THEN "FAILED" ELSE "none"]]
    /\ UNCHANGED <<up, closed, queue, list, jobs, disk, sick, persistMu, history>>

AttemptStarted(w) ==
    /\ th[w].op = "start" /\ th[w].pc = "saved"
    /\ th' = [th EXCEPT ![w].op = "deliver", ![w].was = NewTask,
                        ![w].pc = IF th[w].out = "FAILED" THEN "exit" ELSE "prepare"]
    /\ UNCHANGED <<up, closed, memory, disk, sick, persistMu, history>>

\* The rollback looks for the name and the attempt it counted.
AttemptNotStarted(w) ==
    /\ th[w].op = "start" /\ th[w].pc = "failed"
    /\ LET same == {i \in DOMAIN list : NameOf[list[i]] = th[w].n
                                          /\ heap[list[i]].attempts = th[w].k}
       IN heap' = IF same = {} THEN heap
                  ELSE [heap EXCEPT ![list[Min(same)]] = th[w].was]
    /\ th' = [th EXCEPT ![w].op = "deliver", ![w].pc = "exit", ![w].was = NewTask]
    /\ UNCHANGED <<up, closed, queue, list, jobs, disk, sick, persistMu, history>>

\* The body, the target or its resolution may be refused; a cancelled context
\* fails the resolution too.  The refusal is final, whatever the context.
Prepare(w) ==
    /\ th[w].pc = "prepare"
    /\ \/ Goto(w, "send")
       \/ th' = [th EXCEPT ![w].pc = "record", ![w].out = "FAILED"]
    /\ UNCHANGED <<up, closed, memory, disk, sick, persistMu, history>>

\* The client sends nothing with a cancelled context.
Send(w) ==
    /\ th[w].pc = "send"
    /\ IF Cancelled(w) THEN Goto(w, "exit") /\ UNCHANGED sent
       ELSE /\ Goto(w, "inflight")
            /\ sent' = [sent EXCEPT ![th[w].t] = @ + 1]
    /\ UNCHANGED <<up, closed, memory, disk, sick, persistMu, created, acked,
                   asked, removed>>

\* The answer, and the look at the context after it.
Answer(w) ==
    /\ th[w].pc = "inflight"
    /\ IF Cancelled(w) THEN Goto(w, "exit")
       ELSE \E ok \in BOOLEAN, expired \in {FALSE, TimeLimited} :
               th' = [th EXCEPT ![w].pc = "record",
                   ![w].out = IF ok THEN "COMPLETED"
                              ELSE IF expired \/ th[w].k >= th[w].max
                                   THEN "FAILED" ELSE "RETRYING"]
    /\ UNCHANGED <<up, closed, memory, disk, sick, persistMu, history>>

\* Fault: no retry after a failed attempt.
NeverRetry(out) == "exit"

AfterOutcome(out) == IF out = "RETRYING" THEN "loop" ELSE "exit"

\* recordAttemptOutcome: the first task with the name, under persistMu.
RecordAttemptOutcome(w) ==
    /\ th[w].pc = "record" /\ persistMu = None
    /\ LET t == Find(list, th[w].n)
           next == [heap EXCEPT ![t].status = th[w].out]
       IN IF t = None
          THEN /\ Goto(w, AfterOutcome(th[w].out))
               /\ UNCHANGED <<heap, persistMu>>
          ELSE /\ heap' = next
               /\ persistMu' = w
               /\ th' = [th EXCEPT ![w] = [@ EXCEPT
                    !.op = "outcome", !.pc = "save", !.was = heap[t],
                    !.doc = CloneMetadata(queue, list, next)]]
    /\ UNCHANGED <<up, closed, queue, list, jobs, disk, sick, history>>

OutcomeRecorded(w) ==
    /\ th[w].op = "outcome" /\ th[w].pc = "saved"
    /\ th' = [th EXCEPT ![w] = [@ EXCEPT
            !.op = "deliver", !.was = NewTask, !.t = None,
            !.pc = AfterOutcome(th[w].out)]]
    /\ persistMu' = None
    /\ UNCHANGED <<up, closed, memory, disk, sick, history>>

OutcomeNotRecorded(w) ==
    /\ th[w].op = "outcome" /\ th[w].pc = "failed"
    /\ LET t == Find(list, th[w].n)
       IN heap' = IF t = None THEN heap ELSE [heap EXCEPT ![t] = th[w].was]
    /\ th' = [th EXCEPT ![w].op = "deliver", ![w].pc = "exit", ![w].was = NewTask]
    /\ persistMu' = None
    /\ UNCHANGED <<up, closed, queue, list, jobs, disk, sick, history>>

\* The deferred calls: leave api.jobs unless another goroutine is there.
Exit(w) ==
    /\ th[w].pc = "exit"
    /\ jobs' = [n \in Names |-> IF jobs[n] = w THEN None ELSE jobs[n]]
    /\ th' = [th EXCEPT ![w] = Idle]
    /\ UNCHANGED <<up, closed, queue, list, heap, disk, sick, persistMu, history>>

-----------------------------------------------------------------------------
\* Shutdown, process death and the next start.

Shutdown ==
    /\ "shutdown" \in Disruptions /\ up /\ th[Closer].pc = "idle"
    /\ closed' = TRUE
    /\ th' = [th EXCEPT ![Closer] = [Idle EXCEPT !.op = "shutdown", !.pc = "wait"]]
    /\ UNCHANGED <<up, memory, disk, sick, persistMu, history>>

\* wg.Wait returns: mark what is unfinished, then persist ...
WorkersDone ==
    /\ th[Closer].pc = "wait" /\ \A w \in Slots : th[w].pc = "idle"
    /\ heap' = MarkInterrupted(list, heap)
    /\ Goto(Closer, "persist")
    /\ UNCHANGED <<up, closed, queue, list, jobs, disk, sick, persistMu, history>>

\* ... or the caller's deadline passes, or the Save failed; Shutdown may be
\* called again.
ShutdownFails ==
    /\ th[Closer].pc \in {"wait", "failed"}
    /\ th' = [th EXCEPT ![Closer] = Idle]
    /\ UNCHANGED <<up, closed, memory, disk, sick, persistMu, history>>

Crash ==
    /\ "crash" \in Disruptions /\ up
    /\ up' = FALSE /\ closed' = FALSE /\ sick' = FALSE /\ persistMu' = None
    /\ queue' = FALSE /\ list' = <<>> /\ heap' = [t \in Tasks |-> NewTask]
    /\ jobs' = [n \in Names |-> None]
    /\ th' = [p \in Callers |-> Idle]
    /\ UNCHANGED <<disk, history>>

\* ResumePendingDeliveries: what OnPostBoot finds to schedule.
Resumable(d) ==
    {t \in Elements(d.list) \cap HttpTasks : d.queue /\ ~Terminal(d.task[t])}

\* NewAPIWithStore, then OnPostBoot, before requests are served.  Unfinished
\* tasks are marked and saved; if that fails the shim stays disabled.
Boot ==
    /\ ~up
    /\ LET marked == [disk EXCEPT !.task = MarkInterrupted(disk.list, disk.task)]
       IN \/ /\ up' = TRUE /\ disk' = marked
             /\ queue' = marked.queue /\ list' = marked.list /\ heap' = marked.task
             /\ jobs' = JobsWith(Resumable(marked))
             /\ th' = Started(Resumable(marked), MaxAttempts(queue'), th)
          \/ /\ disk' \in {disk, marked}
             /\ UNCHANGED <<up, memory, th>>
    /\ UNCHANGED <<closed, sick, persistMu, history>>

-----------------------------------------------------------------------------
Save(p) == PersistMetadata(p) \/ SaveOk(p) \/ SaveFails(p)

Handle(c) == CreateQueueEnds(c) \/ CreateTaskEnds(c) \/ CreateTaskFails(c)
                \/ DeleteEnds(c) \/ DeleteFails(c)

ExecuteTask(w) ==
    \/ CheckContext(w) \/ RecordAttemptStart(w) \/ AttemptStarted(w)
    \/ AttemptNotStarted(w) \/ Prepare(w) \/ Send(w) \/ Answer(w)
    \/ RecordAttemptOutcome(w) \/ OutcomeRecorded(w) \/ OutcomeNotRecorded(w)
    \/ Exit(w)

Next ==
    \/ \E c \in Clients :
          \/ CreateQueue(c) \/ DeleteQueue(c)
          \/ \E t \in Tasks : CreateTask(c, t)
          \/ \E n \in Names : DeleteTask(c, n)
          \/ Handle(c)
    \/ \E p \in Callers : Save(p)
    \/ \E w \in Slots : ExecuteTask(w)
    \/ Shutdown \/ WorkersDone \/ ShutdownFails
    \/ Crash \/ Boot

Spec == Init /\ [][Next]_vars

\* Goroutines that can run do; sync.Mutex starves no waiter, hence the strong
\* fairness of the steps that take persistMu; targets answer within the
\* client's timeout.
Fairness ==
    /\ \A c \in Clients : SF_vars(Handle(c) \/ Save(c))
    /\ \A w \in Slots : SF_vars(ExecuteTask(w) \/ Save(w))
    /\ SF_vars(Save(Closer))

FairSpec == Spec /\ Fairness

-----------------------------------------------------------------------------
\* Properties.

Records == [status : {"PENDING", "RETRYING", "COMPLETED", "FAILED"}, attempts : Int]
Documents == [queue : BOOLEAN, list : Seq(Tasks), task : [Tasks -> Records]]
Threads ==
    [pc : {"idle", "persist", "save", "saved", "failed", "loop", "start", "prepare",
           "send", "inflight", "record", "exit", "wait"},
     op : {"none", "createQueue", "createTask", "deleteTask", "deleteQueue",
           "deliver", "start", "outcome", "shutdown"},
     n : Names \cup {None}, t : Tasks \cup {None}, list : Seq(Tasks), queue : BOOLEAN,
     was : Records, doc : Documents \cup {None}, max : 0..100, k : Int,
     out : {"none", "COMPLETED", "FAILED", "RETRYING"}, dead : BOOLEAN]

TypeOK ==
    /\ up \in BOOLEAN /\ closed \in BOOLEAN /\ queue \in BOOLEAN /\ sick \in BOOLEAN
    /\ list \in Seq(Tasks) /\ heap \in [Tasks -> Records] /\ disk \in Documents
    /\ jobs \in [Names -> Slots \cup {None}]
    /\ persistMu \in Callers \cup {None}
    /\ th \in [Callers -> Threads]
    /\ created \subseteq Tasks /\ acked \subseteq Tasks
    /\ asked \subseteq Tasks /\ removed \subseteq Tasks
    /\ sent \in [Tasks -> Nat]

\* recordAttemptStart persists before the request leaves: while a request is
\* in flight the state file counts its attempt, unless the task is deleted or
\* the store has failed.
RecordedBeforeSent ==
    \A w \in Slots : th[w].pc = "inflight" =>
        LET t == th[w].t IN
        \/ sick \/ t \notin Elements(list)
        \/ t \in Elements(disk.list) /\ disk.task[t].attempts >= th[w].k

\* Through rollbacks, restarts and deletions the attempts a task is created
\* with and its requests stay within the retry configuration together: a count
\* at the budget is sent no more, one below zero is sent that much more often.
\* And no request is in flight that the state file does not count.
BudgetKept ==
    /\ RecordedBeforeSent
    /\ \A w \in Slots : th[w].t # None =>
          LET t == th[w].t
          IN sent[t] > 0 => GivenAttempts[t] + sent[t] <= th[w].max

\* A deletion that was answered stops the deliveries of its tasks.
DeletedNotSent ==
    [][\A t \in removed : sent'[t] = sent[t]]_vars

\* An outcome in the state file is final, and survives restarts.
OutcomeStable ==
    [][\A t \in Elements(disk.list) :
          Terminal(disk.task[t]) /\ t \in Elements(disk'.list) =>
              disk'.task[t] = disk.task[t]]_vars

\* A task whose creation was answered stays in the state file and in memory
\* until it is deleted, although a deletion that fails restores a list it
\* took before the task was appended: the store that failed it fails the
\* creation too.
AckedKept ==
    \A t \in acked \ asked :
        \/ sick
        \/ t \in Elements(disk.list) /\ (up => t \in Elements(list))

\* Nobody is forgotten: an accepted task that is not finished has a goroutine,
\* unless the API is closing or its store has failed.
Attended ==
    up /\ ~closed /\ ~sick =>
        \A t \in acked \cap HttpTasks : t \in Elements(list) /\ ~Terminal(heap[t]) =>
            jobs[NameOf[t]] # None

\* What createTask has answered is neither lost nor forgotten.
AcceptedKept == AckedKept /\ Attended

\* After Shutdown returned nil no delivery runs, and none starts.
QuietAfterShutdown ==
    th[Closer].pc = "saved" => \A w \in Slots : th[w].pc = "idle"

\* Every accepted task reaches an outcome, unless it is deleted, the store
\* fails or the process ends: of finitely many, none is left in the end.
Unsettled == {t \in acked \cap HttpTasks \cap Elements(list) : ~Terminal(heap[t])}
TasksSettle == Unsettled # {} ~> Unsettled = {} \/ sick \/ closed \/ ~up

\* "Cloud Tasks persists stable task IDs, attempts, schedules, and outcomes":
\* a task that reads COMPLETED was sent.
CompletedWasSent ==
    \A t \in Elements(list) : heap[t].status = "COMPLETED" => sent[t] > 0

\* "Nonterminal tasks are resumed once per API lifetime after restart".
UnfinishedResumed ==
    [][~up /\ up' => \A t \in Resumable(disk) : jobs'[NameOf[t]] # None]_vars
=============================================================================

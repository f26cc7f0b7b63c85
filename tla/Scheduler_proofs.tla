-------------------------- MODULE Scheduler_proofs --------------------------
(***************************************************************************)
(* The safety of Scheduler for every set of names, bodies, clients and     *)
(* slots.  The inductive invariant adds to the properties what a           *)
(* transaction knows: its snapshot is memory, its new document differs     *)
(* from memory at its own name only, and what it will do to cron is what   *)
(* the new state of the job asks for.  A store that has not failed agrees  *)
(* with memory between transactions; one that has failed is frozen.        *)
(***************************************************************************)
EXTENDS Scheduler, TLAPS

\* What the end of the transaction does to the cron entry of its job.
AppliedCron(k) ==
    CASE tx.op = "create" -> Schedule(k)
      [] tx.op = "resume" /\ jobs[tx.n] # None -> Schedule(k)
      [] tx.op = "pause" /\ jobs[tx.n] # None -> Unschedule(k)
      [] tx.op = "delete" -> Unschedule(k)
      [] OTHER -> k

TxInv ==
    tx.pc # "none" =>
        /\ tx.n \in Names /\ tx.who \in Clients \cup Slots
        /\ tx.who \in Slots => exec[tx.who].pc = "record"
        /\ tx.prev = jobs
        /\ tx.next = [jobs EXCEPT ![tx.n] = tx.next[tx.n]]
        /\ Essence(tx.next[tx.n]) \in allowed[tx.n]
        /\ AppliedCron(Restored(jobs[tx.n])) = Restored(tx.next[tx.n])

CronInv == \A n \in Names : cron[n] = Restored(jobs[n])

StoreInv ==
    /\ ~exists => durable = Empty
    /\ persistErr => sick
    /\ tx.pc = "readback" => sick
    /\ tx.pc = "apply" => durable = tx.next
    /\ up /\ tx.pc \in {"none", "save"} =>
        /\ ~sick => jobs = durable
        /\ persistErr \/ jobs = durable \/ jobs = Empty
    /\ ~up => jobs = Empty /\ tx.pc = "none" /\ ~sick

CloserInv ==
    /\ closer.idle # "replaced"
    /\ closer.idle = "current" => closer.pc = "wait"
    /\ closer.pc = "returned" => Active = {} /\ \A n \in Names : ticks[n] = 0

ExecInv == \A s \in Slots : exec[s].pc # "idle" => exec[s].n \in Names

IInv == TypeOK /\ ExecInv /\ TxInv /\ CronInv /\ StoreInv /\ CloserInv /\ AckedKept

\* The initial state satisfies the invariant.
LEMMA InitInv == Init => IInv
  <1> SUFFICES ASSUME Init PROVE IInv
    OBVIOUS
  <1> USE DEF Init
  <1>1. TypeOK
    <2>1. Empty \in Metadata
      BY DEF Empty, Metadata
    <2>2. tx \in [pc : {"none", "save", "readback", "apply"},
                  who : Clients \cup Slots \cup {None},
                  op : {"none", "create", "delete", "pause", "resume", "record"},
                  n : Names \cup {None}, prev : Metadata, next : Metadata]
      BY <2>1 DEF NoTx
    <2>3. cron \in [Names -> [entries : 0..1, id : BOOLEAN]]
      OBVIOUS
    <2>4. exec \in [Slots -> [pc : {"idle", "deliver", "record", "finish"},
                              n : Names \cup {None}]]
      BY DEF Idle
    <2>5. allowed \in [Names -> SUBSET ((Bodies \X States) \cup {None})]
      OBVIOUS
    <2>6. ticks \in [Names -> 0..MaxTicks] /\ adm \in [Clients -> Requests \cup {None}]
      BY TicksAssumption
    <2>7. closer \in [pc : {"none", "closed", "stopped", "wait", "expired", "returned"},
                      idle : {"none", "current", "replaced"}]
      OBVIOUS
    <2> QED
      BY <2>1, <2>2, <2>3, <2>4, <2>5, <2>6, <2>7 DEF TypeOK
  <1>2. TxInv /\ CronInv
    BY DEF TxInv, CronInv, NoTx, Restored, Empty
  <1>3. StoreInv
    BY DEF StoreInv, NoTx
  <1>4. CloserInv /\ AckedKept
    BY DEF CloserInv, Active, Idle, AckedKept, Essence, Empty
  <1>5. ExecInv
    BY DEF ExecInv, Idle
  <1> QED
    BY <1>1, <1>2, <1>3, <1>4, <1>5 DEF IInv

\* Scheduling and unscheduling, from either state of a job.
LEMMA CronSwitch ==
    ASSUME NEW k \in {[entries |-> 1, id |-> TRUE], [entries |-> 0, id |-> FALSE]}
    PROVE  /\ Schedule(k) = [entries |-> 1, id |-> TRUE]
           /\ Unschedule(k) = [entries |-> 0, id |-> FALSE]
  <1>1. CASE k = [entries |-> 1, id |-> TRUE]
    BY <1>1 DEF Schedule, Unschedule
  <1>2. CASE k = [entries |-> 0, id |-> FALSE]
    BY <1>2 DEF Schedule, Unschedule
  <1> QED
    BY <1>1, <1>2

\* A restored entry is well typed.
LEMMA RestoredType ==
    ASSUME NEW job PROVE Restored(job) \in [entries : 0..1, id : BOOLEAN]
  <1>1. [entries |-> 1, id |-> TRUE] \in [entries : 0..1, id : BOOLEAN]
    OBVIOUS
  <1>2. [entries |-> 0, id |-> FALSE] \in [entries : 0..1, id : BOOLEAN]
    OBVIOUS
  <1> QED
    BY <1>1, <1>2 DEF Restored

\* Beginning a transaction, for any change whose effect on cron is right.
LEMMA BeginInv ==
    ASSUME IInv, NEW who \in Clients \cup Slots,
           NEW op \in {"create", "delete", "pause", "resume", "record"},
           NEW n \in Names, NEW job \in Jobs \cup {None},
           who \in Slots => exec[who].pc = "record",
           Begin(who, op, n, job),
           AppliedCron(Restored(jobs[n]))' = Restored(job),
           UNCHANGED <<up, jobs, cron, ticks, exec, adm, persistErr, sick,
                       durable, exists, closer>>
    PROVE  IInv'
  <1> USE DEF IInv, Begin
  <1>1. tx'.pc = "save" /\ tx'.who = who /\ tx'.op = op /\ tx'.n = n
        /\ tx'.prev = jobs /\ tx'.next = [jobs EXCEPT ![n] = job] /\ tx.pc = "none" /\ up
    OBVIOUS
  <1>2. Essence(job) \in (Bodies \X States) \cup {None}
    BY DEF Essence, Jobs
  <1>3. tx'.next \in Metadata /\ tx'.next[n] = job
    BY DEF TypeOK, Metadata
  <1>4. TypeOK'
    BY <1>1, <1>2, <1>3 DEF TypeOK
  <1>5. TxInv'
    <2>1. AppliedCron(Restored(jobs[tx.n]))' = Restored(tx.next[tx.n])'
      BY <1>1, <1>3 DEF AppliedCron, Restored
    <2>2. tx'.next = [jobs' EXCEPT ![tx'.n] = tx'.next[tx'.n]]
      BY <1>1, <1>3 DEF Begin
    <2>3. Essence(tx.next[tx.n])' \in allowed'[tx'.n]
      BY <1>1, <1>3 DEF Essence, TypeOK
    <2> QED
      BY <1>1, <2>1, <2>2, <2>3 DEF TxInv
  <1>6. CronInv' /\ StoreInv' /\ CloserInv' /\ ExecInv'
    BY <1>1 DEF CronInv, StoreInv, CloserInv, Active, Restored, ExecInv
  <1>7. AckedKept'
    BY DEF AckedKept, TypeOK, Essence
  <1> QED
    BY <1>4, <1>5, <1>6, <1>7

\* createJob, deleteJob, pauseJob, resumeJob.
LEMMA MutateInv == ASSUME IInv, NEW c \in Clients, Mutation(c) PROVE IInv'
  <1> USE DEF Mutation, CreateJob, DeleteJob, PauseJob, ResumeJob, Change
  <1>1. PICK r \in Requests : r = adm[c] /\ r # None
    BY DEF IInv, TypeOK
  <1>2. r.op \in {"create", "delete", "pause", "resume"} /\ r.n \in Names
    BY <1>1 DEF Requests
  <1>3. PICK job : job = CASE r.op = "create" -> [body |-> r.body, state |-> "ENABLED", last |-> 0]
                           [] r.op = "delete" -> None
                           [] r.op = "pause" -> InState(jobs[r.n], "PAUSED")
                           [] r.op = "resume" -> InState(jobs[r.n], "ENABLED")
    OBVIOUS
  <1>4. jobs[r.n] \in Jobs \cup {None} /\ UNCHANGED <<jobs, up, cron, ticks, exec, adm,
             persistErr, sick, durable, exists, closer>>
    BY <1>2 DEF IInv, TypeOK, Metadata
  <1>5. job \in Jobs \cup {None}
    BY <1>2, <1>3, <1>4 DEF InState, Jobs, States, Requests
  <1>a. r.op = "create" \/ (r.op # "delete" /\ jobs[r.n] # None) => job \in Jobs
    BY <1>2, <1>3, <1>4 DEF InState, Jobs, States, Requests
  <1>6. Begin(c, r.op, r.n, job)
    BY <1>1, <1>2, <1>3
  <1>7. tx'.op = r.op /\ tx'.n = r.n
    BY <1>6 DEF Begin
  <1>8. AppliedCron(Restored(jobs[r.n]))' = Restored(job)
    <2> DEFINE on == [entries |-> 1, id |-> TRUE]
               off == [entries |-> 0, id |-> FALSE]
               k == Restored(jobs[r.n])
    <2> USE <1>3, <1>4, <1>5, <1>7, <1>a, NoneAssumption
    <2>0. k \in {on, off} /\ Restored(jobs[r.n])' = k
      BY DEF Restored
    <2>a. Schedule(k) = on /\ Unschedule(k) = off
      BY <2>0, CronSwitch
    <2>1. CASE r.op = "create"
      <3>1. job # None /\ job.state = "ENABLED"
        BY <2>1
      <3>2. AppliedCron(Restored(jobs[r.n]))' = Schedule(k)
        BY <2>0, <2>1 DEF AppliedCron, Schedule
      <3> QED
        BY <2>a, <3>1, <3>2 DEF Restored
    <2>2. CASE r.op = "delete"
      <3>1. job = None
        BY <2>2
      <3>2. AppliedCron(Restored(jobs[r.n]))' = Unschedule(k)
        BY <2>0, <2>2 DEF AppliedCron, Unschedule
      <3> QED
        BY <2>a, <3>1, <3>2 DEF Restored
    <2>3. CASE jobs[r.n] = None /\ r.op \in {"pause", "resume"}
      BY <2>0, <2>3 DEF InState, AppliedCron
    <2>4. CASE jobs[r.n] # None /\ r.op = "pause"
      <3>1. job # None /\ job.state = "PAUSED"
        BY <2>4 DEF InState, Jobs
      <3>2. AppliedCron(Restored(jobs[r.n]))' = Unschedule(k)
        BY <2>0, <2>4 DEF AppliedCron, Unschedule
      <3> QED
        BY <2>a, <3>1, <3>2 DEF Restored
    <2>5. CASE jobs[r.n] # None /\ r.op = "resume"
      <3>1. job # None /\ job.state = "ENABLED"
        BY <2>5 DEF InState, Jobs
      <3>2. AppliedCron(Restored(jobs[r.n]))' = Schedule(k)
        BY <2>0, <2>5 DEF AppliedCron, Schedule
      <3> QED
        BY <2>a, <3>1, <3>2 DEF Restored
    <2> QED
      BY <1>2, <2>1, <2>2, <2>3, <2>4, <2>5
  <1> QED
    BY <1>2, <1>4, <1>5, <1>6, <1>8, BeginInv, SlotsAssumption

\* recordExecutionOutcome: an outcome leaves the state of the job alone.
LEMMA RecordInv ==
    ASSUME IInv, NEW s \in Slots, RecordExecutionOutcome(s) PROVE IInv'
  <1>1. PICK n \in Names \cup {None} : n = exec[s].n
    BY DEF IInv, TypeOK
  <1>2. n \in Names /\ jobs[n] \in Jobs /\ jobs' = jobs
    BY <1>1 DEF IInv, TypeOK, Metadata, ExecInv, RecordExecutionOutcome
  <1>3. PICK job : job = Outcome(jobs[n])
    OBVIOUS
  <1>4. job \in Jobs /\ job.state = jobs[n].state
    BY <1>2, <1>3 DEF Outcome, Jobs
  <1>5. Begin(s, "record", n, job)
    BY <1>1, <1>3 DEF RecordExecutionOutcome
  <1>6. tx'.op = "record"
    BY <1>5 DEF Begin
  <1>7. AppliedCron(Restored(jobs[n]))' = Restored(job)
    BY <1>2, <1>4, <1>6, NoneAssumption DEF AppliedCron, Restored
  <1> QED
    BY <1>2, <1>4, <1>5, <1>7, BeginInv DEF RecordExecutionOutcome

\* The return of a transaction keeps requests and executions well typed.
LEMMA ReturnTypes ==
    ASSUME TypeOK, Return
    PROVE  /\ adm' \in [Clients -> Requests \cup {None}]
           /\ exec' \in [Slots -> [pc : {"idle", "deliver", "record", "finish"},
                                  n : Names \cup {None}]]
           /\ tx' \in [pc : {"none", "save", "readback", "apply"},
                       who : Clients \cup Slots \cup {None},
                       op : {"none", "create", "delete", "pause", "resume", "record"},
                       n : Names \cup {None}, prev : Metadata, next : Metadata]
  <1>1. adm' \in [Clients -> Requests \cup {None}]
    BY DEF TypeOK, Return
  <1>2. exec' \in [Slots -> [pc : {"idle", "deliver", "record", "finish"},
                            n : Names \cup {None}]]
    BY DEF TypeOK, Return
  <1>3. Empty \in Metadata
    BY DEF Empty, Metadata
  <1> QED
    BY <1>1, <1>2, <1>3 DEF Return, NoTx

\* A slot whose execution holds persistMu is active before and after.
LEMMA ReturnActive ==
    ASSUME TypeOK, TxInv, ExecInv, tx.pc # "none", Return
    PROVE  Active' = Active /\ ExecInv'
  <1>1. \A s \in Slots : exec'[s].pc # "idle" <=> exec[s].pc # "idle"
    BY DEF TypeOK, TxInv, Return
  <1>2. \A s \in Slots : exec'[s].n = exec[s].n
    BY DEF TypeOK, TxInv, Return
  <1> QED
    BY <1>1, <1>2 DEF Active, ExecInv

\* saveJobs: what may be written is what the history allows.
LEMMA SaveInv == ASSUME IInv, Save PROVE IInv'
  <1> USE DEF IInv, Save
  <1>1. PICK ok \in BOOLEAN, committed \in BOOLEAN :
          /\ ok => committed
          /\ committed => ~sick
          /\ durable' = IF committed THEN tx.next ELSE durable
          /\ exists' = (exists \/ committed)
          /\ sick' = (sick \/ ~ok)
          /\ tx' = [tx EXCEPT !.pc = IF ok THEN "apply" ELSE "readback"]
    OBVIOUS
  <1>2. /\ tx'.n = tx.n /\ tx'.who = tx.who /\ tx'.op = tx.op
        /\ tx'.prev = tx.prev /\ tx'.next = tx.next
        /\ tx'.pc = IF ok THEN "apply" ELSE "readback"
    BY <1>1 DEF TypeOK
  <1>3. TypeOK'
    BY <1>1 DEF TypeOK
  <1>4. TxInv'
    BY <1>2 DEF TxInv, AppliedCron, Restored, Essence
  <1>5. CronInv' /\ CloserInv' /\ ExecInv'
    BY DEF CronInv, CloserInv, Active, Restored, ExecInv
  <1>6. StoreInv'
    <2>1. CASE ok
      BY <1>1, <1>2, <2>1 DEF StoreInv
    <2>2. CASE ~ok
      <3>1. tx'.pc = "readback" /\ sick' = TRUE /\ UNCHANGED <<persistErr, up>> /\ up
        BY <1>1, <1>2, <2>2
      <3>2. ~exists' => durable' = Empty
        BY <1>1 DEF StoreInv
      <3> QED
        BY <3>1, <3>2 DEF StoreInv
    <2> QED
      BY <2>1, <2>2
  <1>7. AckedKept'
    <2>1. ASSUME NEW n \in Names PROVE Essence(durable[n])' \in allowed'[n]
      <3>1. CASE ~committed
        BY <1>1, <3>1 DEF AckedKept, Essence
      <3>2. CASE committed /\ n = tx.n
        BY <1>1, <3>2 DEF TxInv, Essence
      <3>3. CASE committed /\ n # tx.n
        <4>1. jobs = durable
          BY <1>1, <3>3 DEF StoreInv
        <4>2. durable'[n] = durable[n]
          BY <1>1, <3>3, <4>1 DEF TxInv, TypeOK, Metadata
        <4> QED
          BY <4>2 DEF AckedKept, Essence
      <3> QED
        BY <3>1, <3>2, <3>3
    <2> QED
      BY <2>1 DEF AckedKept
  <1> QED
    BY <1>3, <1>4, <1>5, <1>6, <1>7

\* The readback after a failed Save.
LEMMA ReadbackInv == ASSUME IInv, Readback PROVE IInv'
  <1> USE DEF IInv, Readback
  <1>1. PICK loads \in BOOLEAN :
          /\ \/ /\ Verdict(loads) = "new"
                /\ tx' = [tx EXCEPT !.pc = "apply"] /\ UNCHANGED <<adm, exec>>
             \/ Verdict(loads) # "new" /\ Return
          /\ persistErr' = (persistErr \/ Verdict(loads) = "unknown")
          /\ sick' = (sick \/ ~loads)
          /\ allowed' = IF Verdict(loads) = "old"
                        THEN [allowed EXCEPT ![tx.n] = {Essence(tx.prev[tx.n])}]
                        ELSE allowed
    OBVIOUS
  <1>2. sick /\ sick' /\ UNCHANGED <<jobs, cron, durable, exists, up, ticks, closer>>
    BY <1>1 DEF StoreInv, TypeOK
  <1>3. CronInv'
    BY <1>2 DEF CronInv, Restored
  <1>4. CASE Verdict(loads) = "new"
    <2>1. durable = tx.next
      BY <1>4 DEF Verdict
    <2>2. /\ tx'.n = tx.n /\ tx'.who = tx.who /\ tx'.op = tx.op
          /\ tx'.prev = tx.prev /\ tx'.next = tx.next /\ tx'.pc = "apply"
          /\ allowed' = allowed /\ UNCHANGED <<adm, exec>> /\ persistErr' = persistErr
      BY <1>1, <1>4 DEF TypeOK
    <2>3. TypeOK'
      BY <1>1, <1>2, <1>4, <2>2 DEF TypeOK
    <2>4. TxInv'
      BY <1>2, <2>2 DEF TxInv, AppliedCron, Restored, Essence
    <2>5. StoreInv' /\ CloserInv' /\ AckedKept' /\ ExecInv'
      BY <1>2, <2>1, <2>2 DEF StoreInv, CloserInv, Active, AckedKept, Essence, ExecInv
    <2> QED
      BY <1>3, <2>3, <2>4, <2>5
  <1>5. CASE Verdict(loads) # "new"
    <2>1. Return /\ tx'.pc = "none"
      BY <1>1, <1>5 DEF Return, NoTx
    <2>2. Verdict(loads) \in {"old", "unknown"}
      BY <1>5 DEF Verdict
    <2>3. Verdict(loads) = "old" => durable = jobs
      BY DEF Verdict, TxInv, StoreInv
    <2>4. TypeOK'
      <3>1. allowed' \in [Names -> SUBSET ((Bodies \X States) \cup {None})]
        <4>1. tx.prev[tx.n] \in Jobs \cup {None}
          BY DEF TxInv, TypeOK, Metadata
        <4>2. Essence(tx.prev[tx.n]) \in (Bodies \X States) \cup {None}
          BY <4>1 DEF Essence, Jobs
        <4> QED
          BY <1>1, <4>2 DEF TypeOK
      <3> QED
        BY <1>1, <1>2, <2>1, <3>1, ReturnTypes DEF TypeOK
    <2>5. TxInv'
      BY <2>1 DEF TxInv
    <2>6. StoreInv'
      BY <1>1, <1>2, <2>1, <2>2, <2>3 DEF StoreInv
    <2>7. CloserInv' /\ ExecInv'
      BY <1>2, <2>1, ReturnActive DEF CloserInv
    <2>8. AckedKept'
      <3>1. CASE Verdict(loads) = "old"
        <4>1. tx.n \in Names /\ tx.prev = durable
          BY <2>3, <3>1 DEF TxInv
        <4>2. allowed' = [allowed EXCEPT ![tx.n] = {Essence(durable[tx.n])}]
          BY <1>1, <3>1, <4>1
        <4>3. \A n \in Names : Essence(durable[n]) \in allowed'[n]
          BY <4>1, <4>2 DEF AckedKept, TypeOK
        <4> QED
          BY <1>2, <4>3 DEF AckedKept, Essence
      <3>2. CASE Verdict(loads) # "old"
        BY <1>1, <1>2, <3>2 DEF AckedKept, Essence
      <3> QED
        BY <3>1, <3>2
    <2> QED
      BY <1>3, <2>4, <2>5, <2>6, <2>7, <2>8
  <1> QED
    BY <1>4, <1>5

\* Memory and cron take over what is durable.
LEMMA ApplyInv ==
    ASSUME IInv,
           ApplyCreate \/ ApplyDelete \/ ApplyPause \/ ApplyResume \/ ApplyOutcome
    PROVE  IInv'
  <1> USE DEF IInv
  <1>0. /\ up /\ tx.pc = "apply" /\ Return
        /\ jobs' = [jobs EXCEPT ![tx.n] = tx.next[tx.n]]
        /\ cron' = [cron EXCEPT ![tx.n] = AppliedCron(cron[tx.n])]
        /\ allowed' = [allowed EXCEPT ![tx.n] = {Essence(tx.next[tx.n])}]
        /\ UNCHANGED <<up, ticks, persistErr, sick, durable, exists, closer>>
    BY DEF ApplyCreate, ApplyDelete, ApplyPause, ApplyResume, ApplyOutcome, Apply,
           IfPresent, AppliedCron
  <1> USE <1>0
  <1>1. /\ tx.n \in Names /\ tx.prev = jobs /\ durable = tx.next
        /\ tx'.pc = "none" /\ Active' = Active /\ ExecInv'
        /\ UNCHANGED <<up, ticks, persistErr, sick, durable, exists, closer>>
    BY ReturnActive DEF TxInv, StoreInv, Return, NoTx
  <1>2. jobs' = tx.next
    BY <1>1 DEF TxInv
  <1>3. \A n \in Names : cron'[n] = Restored(jobs'[n])
    <2>1. cron'[tx.n] = AppliedCron(Restored(jobs[tx.n]))
      BY <1>1 DEF TypeOK, CronInv, AppliedCron
    <2>2. \A n \in Names \ {tx.n} : cron'[n] = cron[n] /\ jobs'[n] = jobs[n]
      BY DEF TypeOK, Metadata
    <2>3. cron'[tx.n] = Restored(jobs'[tx.n])
      BY <1>2, <2>1 DEF TxInv
    <2> QED
      BY <2>2, <2>3 DEF CronInv
  <1>4. tx.next[tx.n] \in Jobs \cup {None}
    BY <1>1 DEF TypeOK, Metadata
  <1>5. TypeOK'
    <2>1. allowed' \in [Names -> SUBSET ((Bodies \X States) \cup {None})]
      <3>1. Essence(tx.next[tx.n]) \in (Bodies \X States) \cup {None}
        BY <1>4 DEF Essence, Jobs
      <3> QED
        BY <3>1 DEF TypeOK
    <2>2. cron' \in [Names -> [entries : 0..1, id : BOOLEAN]]
      <3>1. cron' = [n \in Names |-> cron'[n]]
        BY DEF TypeOK
      <3>2. ASSUME NEW n \in Names PROVE cron'[n] \in [entries : 0..1, id : BOOLEAN]
        BY <1>3, RestoredType
      <3> QED
        BY <3>1, <3>2
    <2> QED
      BY <1>1, <1>2, <2>1, <2>2, ReturnTypes DEF TypeOK
  <1>6. TxInv' /\ StoreInv'
    BY <1>1, <1>2 DEF TxInv, StoreInv
  <1>7. CronInv'
    BY <1>3 DEF CronInv, Restored
  <1>8. CloserInv'
    BY <1>1 DEF CloserInv
  <1>9. AckedKept'
    BY <1>1 DEF AckedKept, Essence, TypeOK
  <1> QED
    BY <1>1, <1>5, <1>6, <1>7, <1>8, <1>9

\* The steps that touch neither memory, cron, store nor a transaction.
LEMMA QuietInv ==
    ASSUME IInv, TypeOK', ExecInv', CloserInv',
           UNCHANGED <<up, jobs, cron, tx, persistErr, sick, durable, exists, allowed>>,
           \A s \in Slots : exec[s].pc = "record" /\ tx.pc # "none" /\ s = tx.who
                                => exec'[s].pc = "record"
    PROVE  IInv'
  <1>1. TxInv'
    BY DEF IInv, TxInv, AppliedCron, Restored, Essence
  <1>2. CronInv' /\ StoreInv' /\ AckedKept'
    BY DEF IInv, CronInv, Restored, StoreInv, AckedKept, Essence
  <1> QED
    BY <1>1, <1>2 DEF IInv

\* startJobExecution does nothing once Shutdown has begun.
LEMMA StartInv ==
    ASSUME IInv, NEW n \in Names, Start(n)
    PROVE  /\ exec' \in [Slots -> [pc : {"idle", "deliver", "record", "finish"},
                                  n : Names \cup {None}]]
           /\ closer' = closer
           /\ closer.pc = "returned" => Active' = Active
           /\ ExecInv'
           /\ \A s \in Slots : exec[s].pc = "record" => exec'[s].pc = "record"
  <1>1. CASE ~Startable(n)
    BY <1>1 DEF Start, IInv, TypeOK, ExecInv, Active
  <1>2. CASE Startable(n)
    <2>1. PICK s \in Slots \ Active : exec' = [exec EXCEPT ![s] = [pc |-> "deliver", n |-> n]]
      BY <1>2 DEF Start
    <2>2. closer.pc = "none" /\ closer.idle # "current"
      BY <1>2 DEF Startable, Closed, IInv, CloserInv
    <2>3. closer' = closer
      BY <1>2, <2>2 DEF Start
    <2>4. exec[s].pc = "idle"
      BY <2>1 DEF Active
    <2> QED
      BY <2>1, <2>2, <2>3, <2>4 DEF IInv, TypeOK, ExecInv
  <1> QED
    BY <1>1, <1>2

\* Every step preserves the invariant.
LEMMA NextInv == IInv /\ [Next]_vars => IInv'
  <1> SUFFICES ASSUME IInv, [Next]_vars PROVE IInv'
    OBVIOUS
  <1>1. ASSUME NEW n \in Names, Tick(n) PROVE IInv'
    <2>1. TypeOK'
      BY <1>1, TicksAssumption DEF Tick, IInv, TypeOK
    <2>2. CloserInv' /\ ExecInv'
      BY <1>1 DEF Tick, IInv, CloserInv, ExecInv, Active
    <2> QED
      BY <1>1, <2>1, <2>2, QuietInv DEF Tick
  <1>2. ASSUME NEW n \in Names, TickRuns(n) PROVE IInv'
    <2>1. Start(n) /\ ticks[n] # 0
      BY <1>2 DEF TickRuns, IInv, TypeOK
    <2>2. TypeOK'
      BY <1>2, <2>1, StartInv, TicksAssumption DEF TickRuns, IInv, TypeOK
    <2>3. CloserInv'
      BY <2>1, StartInv DEF IInv, CloserInv
    <2> QED
      BY <1>2, <2>1, <2>2, <2>3, StartInv, QuietInv DEF TickRuns
  <1>3. ASSUME NEW c \in Clients, RunJob(c) PROVE IInv'
    <2>1. PICK n \in Names : n = adm[c].n
      BY <1>3 DEF RunJob, IInv, TypeOK, Requests
    <2>2. Start(n)
      BY <1>3, <2>1 DEF RunJob
    <2>3. TypeOK'
      BY <1>3, <2>2, StartInv DEF RunJob, IInv, TypeOK
    <2>4. CloserInv'
      BY <1>3, <2>2, StartInv DEF RunJob, IInv, CloserInv
    <2> QED
      BY <1>3, <2>2, <2>3, <2>4, StartInv, QuietInv DEF RunJob
  <1>4. ASSUME NEW s \in Slots, Deliver(s) \/ NothingToRecord(s) \/ FinishJobExecution(s)
        PROVE  IInv'
    <2>1. TypeOK'
      BY <1>4 DEF Deliver, NothingToRecord, FinishJobExecution, Idle, IInv, TypeOK
    <2>2. ExecInv'
      BY <1>4 DEF Deliver, NothingToRecord, FinishJobExecution, Idle, IInv, TypeOK, ExecInv
    <2>3. CloserInv'
      BY <1>4 DEF Deliver, NothingToRecord, FinishJobExecution, Idle, IInv, TypeOK,
                  CloserInv, Active
    <2>4. \A u \in Slots : exec[u].pc = "record" /\ tx.pc # "none" /\ u = tx.who
                             => exec'[u].pc = "record"
      BY <1>4 DEF Deliver, NothingToRecord, FinishJobExecution, IInv, TypeOK
    <2> QED
      BY <1>4, <2>1, <2>2, <2>3, <2>4, QuietInv
      DEF Deliver, NothingToRecord, FinishJobExecution
  <1>5. ASSUME NEW c \in Clients, NEW r \in Requests, ServeHTTP(c, r) PROVE IInv'
    <2>1. TypeOK' /\ ExecInv' /\ CloserInv'
      BY <1>5 DEF ServeHTTP, IInv, TypeOK, ExecInv, CloserInv, Active
    <2> QED
      BY <1>5, <2>1, QuietInv DEF ServeHTTP
  <1>6. CASE Shutdown \/ StopCron \/ CaptureIdle \/ ShutdownReturns \/ DeadlinePasses
    <2>1. TypeOK' /\ ExecInv'
      BY <1>6 DEF Shutdown, StopCron, CaptureIdle, ShutdownReturns, DeadlinePasses,
                  IInv, TypeOK, ExecInv
    <2>2. CloserInv'
      BY <1>6 DEF Shutdown, StopCron, CaptureIdle, ShutdownReturns, DeadlinePasses,
                  IInv, TypeOK, CloserInv, Active, Drained
    <2> QED
      BY <1>6, <2>1, <2>2, QuietInv
      DEF Shutdown, StopCron, CaptureIdle, ShutdownReturns, DeadlinePasses
  <1>7. CASE Crash
    <2>1. TypeOK'
      <3>1. Empty \in Metadata
        BY DEF Empty, Metadata
      <3>2. tx' \in [pc : {"none", "save", "readback", "apply"},
                     who : Clients \cup Slots \cup {None},
                     op : {"none", "create", "delete", "pause", "resume", "record"},
                     n : Names \cup {None}, prev : Metadata, next : Metadata]
        BY <1>7, <3>1 DEF Crash, NoTx
      <3>3. /\ cron' \in [Names -> [entries : 0..1, id : BOOLEAN]]
            /\ ticks' \in [Names -> 0..MaxTicks]
        BY <1>7, TicksAssumption DEF Crash
      <3>4. exec' \in [Slots -> [pc : {"idle", "deliver", "record", "finish"},
                                n : Names \cup {None}]]
        BY <1>7 DEF Crash, Idle
      <3> QED
        BY <1>7, <3>1, <3>2, <3>3, <3>4 DEF Crash, IInv, TypeOK
    <2>2. TxInv' /\ CronInv'
      BY <1>7 DEF Crash, NoTx, TxInv, CronInv, Restored, Empty
    <2>3. StoreInv'
      BY <1>7 DEF Crash, NoTx, IInv, StoreInv
    <2>4. CloserInv' /\ ExecInv' /\ AckedKept'
      BY <1>7 DEF Crash, Idle, IInv, CloserInv, ExecInv, AckedKept, Essence
    <2> QED
      BY <2>1, <2>2, <2>3, <2>4 DEF IInv
  <1>8. CASE Boot
    <2>1. TypeOK'
      <3>1. ASSUME NEW n \in Names PROVE Restored(durable[n]) \in [entries : 0..1, id : BOOLEAN]
        BY RestoredType
      <3> QED
        BY <1>8, <3>1 DEF Boot, IInv, TypeOK
    <2>2. TxInv' /\ CronInv' /\ StoreInv'
      BY <1>8 DEF Boot, IInv, TxInv, CronInv, StoreInv, Restored
    <2>3. CloserInv' /\ ExecInv' /\ AckedKept'
      BY <1>8 DEF Boot, IInv, CloserInv, Active, ExecInv, AckedKept, Essence
    <2> QED
      BY <2>1, <2>2, <2>3 DEF IInv
  <1>9. CASE BlindBoot
    <2>1. TypeOK' /\ TxInv' /\ CronInv' /\ StoreInv'
      BY <1>9 DEF BlindBoot, IInv, TypeOK, TxInv, CronInv, StoreInv, Restored
    <2>2. CloserInv' /\ ExecInv' /\ AckedKept'
      BY <1>9 DEF BlindBoot, IInv, CloserInv, Active, ExecInv, AckedKept, Essence
    <2> QED
      BY <2>1, <2>2 DEF IInv
  <1>10. CASE UNCHANGED vars
    <2>1. TypeOK' /\ ExecInv' /\ CloserInv'
      BY <1>10 DEF vars, IInv, TypeOK, ExecInv, CloserInv, Active
    <2> QED
      BY <1>10, <2>1, QuietInv DEF vars
  <1> QED
    BY <1>1, <1>2, <1>3, <1>4, <1>5, <1>6, <1>7, <1>8, <1>9, <1>10,
       MutateInv, RecordInv, SaveInv, ReadbackInv, ApplyInv
    DEF Next, Execution, Transaction, Closing

\* The inductive invariant holds in every behaviour of the shim: what the
\* transactions, the store, the executions and Shutdown know of each other.
THEOREM Invariance == Spec => []IInv
  BY InitInv, NextInv, PTL DEF Spec

\* Type correctness of the shim's state, for all constants.
THEOREM TypeCorrect == Spec => []TypeOK
  BY Invariance, PTL DEF IInv

\* Cron entries follow the jobs' states through every race of creates,
\* deletes, pauses, resumes and recorded outcomes.
THEOREM JobsScheduledHolds == Spec => []JobsScheduled
  <1>1. IInv => JobsScheduled
    BY DEF IInv, CronInv, JobsScheduled
  <1> QED
    BY <1>1, Invariance, PTL

\* Memory agrees with the state file between transactions, however Saves and
\* readbacks failed.
THEOREM MemoryIsDurableHolds == Spec => []MemoryIsDurable
  <1>1. IInv => MemoryIsDurable
    BY DEF IInv, StoreInv, MemoryIsDurable, TypeOK
  <1> QED
    BY <1>1, Invariance, PTL

\* The state file has what was last acknowledged, over crashes, failed Saves
\* and starts that could not read it.
THEOREM AckedKeptHolds == Spec => []AckedKept
  BY Invariance, PTL DEF IInv

\* After Shutdown has returned without an error nothing delivers.
THEOREM QuietAfterShutdownHolds == Spec => []QuietAfterShutdown
  <1>1. IInv => QuietAfterShutdown
    BY DEF IInv, CloserInv, QuietAfterShutdown
  <1> QED
    BY <1>1, Invariance, PTL
=============================================================================

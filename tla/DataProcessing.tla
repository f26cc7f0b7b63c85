--------------------------- MODULE DataProcessing ---------------------------
(* Shims that run jobs in containers. Each section is one shim with a        *)
(* next-state relation of its own; the sections share no state.              *)
EXTENDS PlannedState

CONSTANTS
    MaxJobs,
    MaxUuid   \* bounds on the numbers given out

-----------------------------------------------------------------------------
(* pkg/shims/batch: jobs, and the containers of those that can be executed.  *)
(* An executable job has a runtime intent in the entry from before its       *)
(* container exists until after its cleanup; a goroutine executes it, for    *)
(* which the handler that created the job stands.  The value of a job is its *)
(* state.                                                                    *)

Jobs == {<<"job", None, i>> : i \in Ids}
BatchRuntime(job) == <<"runtime", None, job[3]>>
Run(job) == <<"run", None, job[3]>>
Terminal == {"SUCCEEDED", "FAILED", "CANCELLED"}
SetState(doc, job, state) ==
    IF job \in DOMAIN doc /\ doc[job] # "CANCELLED" THEN Put(doc, job, state) ELSE doc

batch_createJob(h) ==
    \E n \in Jobs \ Live :
        /\ MayStart(h)
        /\ \/ Change(h, Put(mem, n, "QUEUED"), {n}, None, <<Save(Revert)>>)
           \/ Change(h, Put(Put(mem, n, "QUEUED"), BatchRuntime(n), "intent"), {n, BatchRuntime(n)}, n,
                     <<Save(Revert), <<"start", Keep>>>>)

(* startContainerJob enters the run in runs, where others can find it.       *)
startContainerJob(h) ==
    /\ At(h, "start")
    /\ call' = [call EXCEPT ![h] = [Idle EXCEPT !.on = Run(call[h].on), !.todo = <<<<"running", Keep>>>>]]
    /\ UNCHANGED <<mem, disk, degraded, unsaved, backend>>
Running(job) == \E g \in Handlers : call[g].on = Run(job)
JobOf(h) == <<"job", None, call[h].on[3]>>

(* executeContainerJob: RUNNING, whatever the state was; the container; its  *)
(* cleanup and the outcome, unless the job has been cancelled.               *)
setJobState(h) ==
    /\ At(h, "running")
    /\ Record(h, IF JobOf(h) \in Live THEN Put(mem, JobOf(h), "RUNNING") ELSE mem, {JobOf(h)},
              <<Save(<<<<"finish", Keep>>>>), <<"run", Keep>>>>)
    /\ UNCHANGED <<disk, degraded, unsaved, backend>>
executeContainerJob(h) ==
    /\ At(h, "run")
    /\ backend' \in {backend, backend \union {JobOf(h)}}
    /\ Follow(h, <<<<"finish", Keep>>>>)
    /\ UNCHANGED <<mem, disk, degraded, unsaved>>
finishContainerJob(h) ==
    /\ At(h, "finish")
    /\ LET j == JobOf(h)
       IN  \/ /\ backend' = backend \ {j}
              /\ \E state \in {"SUCCEEDED", "FAILED"} :
                    Record(h, Drop(SetState(mem, j, state), {BatchRuntime(j)}), {j, BatchRuntime(j)}, <<Save(Keep)>>)
           \/ UNCHANGED backend /\ Record(h, SetState(mem, j, "FAILED"), {j}, <<Save(Keep)>>)
    /\ UNCHANGED <<disk, degraded, unsaved>>

(* A terminal job only gets an operation.                                    *)
batch_cancelJob(h) ==
    \E n \in Jobs \cap Live :
        IF mem[n] \in Terminal THEN Handle(h, mem, {}, <<Register(Keep)>>)
        ELSE Handle(h, Put(mem, n, "CANCELLED"), {n}, <<Register(Revert), Save(Revert)>>)

(* deleteJob waits for the run it finds, up to 10 seconds, before it takes   *)
(* the lock that removes the job.                                            *)
deleteJob(h) ==
    \E n \in Jobs \cap Live :
        Look(h, n, IF Running(n) THEN <<<<"await", Keep>>, <<"drop", Keep>>>> ELSE <<<<"drop", Keep>>>>)
AwaitRun(h) ==
    /\ At(h, "await")
    /\ \/ ~Running(call[h].on) /\ BatchRuntime(call[h].on) \notin Live /\ Proceed(h)
       \/ Follow(h, <<>>)       \* timed out, or the cleanup is still pending
    /\ UNCHANGED <<mem, disk, degraded, unsaved, backend>>
DropJob(h) ==
    /\ At(h, "drop")
    /\ IF call[h].on \in Live
       THEN Change(h, Drop(mem, {call[h].on}), {call[h].on}, None, <<Register(Revert), Save(Revert)>>)
       ELSE Follow(h, <<>>) /\ UNCHANGED <<mem, disk, degraded, unsaved, backend>>

validateBatchMetadata(doc) ==
    \A r \in Of("runtime", doc) : <<"job", None, r[3]>> \in DOMAIN doc

(* loadState removes the containers of interrupted runs and fails their      *)
(* jobs.  It stops at an entry it does not accept, with nothing loaded, and  *)
(* at the first container it cannot remove; the store works in both cases.   *)
Interrupted(doc, cleaned) ==
    [n \in DOMAIN doc \ {BatchRuntime(j) : j \in cleaned} |->
        IF n \in cleaned /\ doc[n] \notin Terminal THEN "FAILED" ELSE doc[n]]
batch_loadState ==
    /\ call' = [h \in Handlers |-> Idle]
    /\ \/ mem' = Nothing /\ degraded' = "unread" /\ UNCHANGED <<disk, backend>>
       \/ ~validateBatchMetadata(disk) /\ mem' = Nothing /\ degraded' = "no" /\ UNCHANGED <<disk, backend>>
       \/ /\ validateBatchMetadata(disk)
          /\ LET pending == {j \in Jobs : BatchRuntime(j) \in DOMAIN disk}
             IN  \E cleaned \in SUBSET pending :
                    /\ backend' = backend \ cleaned
                    /\ mem' = Interrupted(disk, cleaned)
                    /\ IF cleaned # pending THEN degraded' = "no" /\ UNCHANGED disk
                       ELSE \/ degraded' = "no" /\ disk' = mem'
                            \/ degraded' = "unread" /\ pending # {} /\ disk' \in {disk, mem'}
    /\ unsaved' = {n \in DOMAIN mem' \union DOMAIN disk' : Value(mem', n) # Value(disk', n)}

batch_persistState(h) == SaveOk(h) \/ SaveFails(h)

BatchNext ==
    \/ \E h \in Handlers :
          \/ batch_createJob(h) \/ startContainerJob(h) \/ setJobState(h) \/ executeContainerJob(h)
          \/ finishContainerJob(h) \/ batch_cancelJob(h) \/ deleteJob(h) \/ AwaitRun(h) \/ DropJob(h)
    \/ \E h \in Handlers : batch_persistState(h) \/ Rollback(h)
    \/ OperationStep \/ batch_loadState

-----------------------------------------------------------------------------
(* pkg/shims/dataflow: batch jobs, run in the background by a local runner.  *)
(* mutationMu is held for a request and for each of the two changes of state *)
(* that the background makes.                                                *)

Job(i, s) == [name |-> i, currentState |-> s]
Terminated == {"JOB_STATE_CANCELLED", "JOB_STATE_DRAINED"}
(* Jobs are numbered on from the highest number known, and never removed.    *)
nextID == <<"job", None, Cardinality(Of("job", mem)) + 1>>

Set(n, s) == Put(mem, n, [mem[n] EXCEPT !.currentState = s])

dataflow_createJob(h) ==
    \E i \in Ids \ {mem[n].name : n \in Live} :
        /\ MayStart(h) /\ PersistMuFree
        /\ Change(h, Put(mem, nextID, Job(i, "JOB_STATE_PENDING")), {nextID}, persistMu,
                  <<Save(Revert), <<"start", Keep, nextID>>>>)

reconcile(n) == <<<<"reconcile", Keep, n>>>>
(* In the background: the job is RUNNING, whatever it was.                   *)
setExecutionState(h) ==
    LET n == Head(call[h].todo)[3]
    IN  /\ At(h, "start") /\ PersistMuFree /\ n \in Live
        /\ Record(h, Set(n, "JOB_STATE_RUNNING"), {n}, <<Save(reconcile(n)), <<"run", Keep, n>>>>)
        /\ UNCHANGED <<disk, degraded, unsaved, backend>>
dataflow_runJob(h) ==
    LET n == Head(call[h].todo)[3]
    IN  /\ At(h, "run") /\ PersistMuFree
        /\ IF n \notin Live \/ mem[n].currentState \in Terminated
           THEN Follow(h, <<>>) /\ UNCHANGED mem
           ELSE \E s \in {"JOB_STATE_DONE", "JOB_STATE_FAILED"} :
                   Record(h, Set(n, s), {n}, <<Save(reconcile(n))>>)
        /\ UNCHANGED <<disk, degraded, unsaved, backend>>

reconcileRestoredJob(job) ==
    IF job.currentState \in {"JOB_STATE_PENDING", "JOB_STATE_RUNNING"}
    THEN [job EXCEPT !.currentState = "JOB_STATE_STOPPED"] ELSE job
(* After a failed save the job is what the entry says, if it can be read,    *)
(* and stopped.                                                              *)
reconcileJobFromDurableState(h) ==
    LET n == Head(call[h].todo)[3]
    IN  /\ At(h, "reconcile")
        /\ \/ mem' = Set(n, "JOB_STATE_STOPPED")
           \/ n \in DOMAIN disk /\ mem' = Put(mem, n, reconcileRestoredJob(disk[n]))
           \/ n \notin DOMAIN disk /\ mem' = Drop(mem, {n})
        /\ Proceed(h)
        /\ UNCHANGED <<disk, degraded, unsaved, backend>>

dataflow_cancelJob(h) ==
    \E n \in Live, s \in Terminated :
        CommitLocked(h, Set(n, s), {n})

(* What was running is stopped, in memory.                                   *)
dataflow_loadState ==
    LET doc == [n \in DOMAIN disk |-> reconcileRestoredJob(disk[n])]
    IN  /\ call' = [h \in Handlers |-> Idle]
        /\ \/ mem' = doc /\ degraded' = "no" /\ unsaved' = {n \in DOMAIN disk : doc[n] # disk[n]}
           \/ mem' = Nothing /\ degraded' = "unread" /\ unsaved' = {}
        /\ UNCHANGED <<disk, backend>>

dataflow_persistState(h) == SaveOk(h) \/ SaveFails(h)

DataflowNext ==
    \/ \E h \in Handlers :
          \/ dataflow_createJob(h) \/ setExecutionState(h) \/ dataflow_runJob(h)
          \/ reconcileJobFromDurableState(h) \/ dataflow_cancelJob(h)
    \/ \E h \in Handlers : dataflow_persistState(h) \/ Rollback(h)
    \/ dataflow_loadState

(* A job that a restart or a failed save has stopped is never run again.     *)
StoppedStays ==
    \A n \in Live \cap DOMAIN mem' :
       mem[n].currentState = "JOB_STATE_STOPPED"
          => mem'[n].currentState \notin {"JOB_STATE_PENDING", "JOB_STATE_RUNNING"}

-----------------------------------------------------------------------------
(* pkg/shims/dataproc: clusters of containers, the record of which containers*)
(* a cluster may own (its runtime), and jobs run on a cluster.  mutationMu is*)
(* held for one change of the metadata; the containers are started, stopped  *)
(* and used in the background.  backend holds the containers, <<cluster,     *)
(* role>>.                                                                   *)

clusterKey(i) == <<"cluster", None, i>>
Clusters == {clusterKey(i) : i \in Ids}
DataprocRuntime(n) == <<"runtime", None, n[3]>>
Cluster(s, u) == [state |-> s, uuid |-> u]
Containers(n) == {<<n, "m">>, <<n, "w">>}

(* Times that nothing has recorded yet serve as uuids and as job ids.        *)
Uuids(doc) == {doc[n].uuid : n \in Of("cluster", doc) \union Of("job", doc)}
FreshUuid == {u \in 1..MaxUuid : \A v \in Uuids(mem) \union Uuids(disk) : v < u}
Lowest(S) == {u \in S : \A v \in S : u <= v}
jobKey == <<"job", None, Cardinality(Of("job", mem) \union Of("job", disk)) + 1>>

Continue(h, todo) == call' = [call EXCEPT ![h] = [Idle EXCEPT !.todo = todo]]
(* persistence is sticky: a closed shim changes nothing more.                *)
Outcome(h, next, todo, failed) ==
    \/ degraded # "closed" /\ commitMetadataOutcome(next, Follow(h, todo), Follow(h, failed))
    \/ degraded = "closed" /\ Follow(h, failed) /\ UNCHANGED <<mem, disk, degraded>>

createCluster(h) ==
    \E n \in Clusters \ Live, u \in Lowest(FreshUuid) :
        LET next == Put(Put(mem, n, Cluster("CREATING", u)), DataprocRuntime(n), n)
        IN  /\ MayStart(h)
            /\ \/ commitMetadata(next, Continue(h, <<<<"provision", Keep, n>>>>), UNCHANGED call)
               \/ UNCHANGED <<mem, disk, degraded, call>>     \* RegisterDurable failed
            /\ UNCHANGED <<unsaved, backend>>

status(n, s) == <<<<"status", Keep, n, s>>>>
(* The master, then the workers; a failure of one takes all of them back.    *)
ProvisionComputeVM(h) ==
    LET n == Head(call[h].todo)[3]
        S == IF <<n, "m">> \in backend THEN <<n, "w">> ELSE <<n, "m">>
        failed(how) == Follow(h, <<<<"compensate", Keep, n>>>> \o how)
    IN  /\ At(h, "provision")
        /\ \/ /\ degraded # "closed" /\ backend' = backend \union {S}
              /\ IF S[2] = "m" THEN UNCHANGED call ELSE Follow(h, status(n, "RUNNING"))
           \/ /\ degraded # "closed" /\ backend' \in {backend, backend \union {S}}
              /\ failed(status(n, "ERROR"))
           \/ /\ degraded = "closed" /\ UNCHANGED backend
              /\ IF S[2] = "m" THEN Follow(h, <<>>) ELSE failed(<<>>)
        /\ UNCHANGED <<mem, disk, degraded, unsaved>>
(* A container that cannot be removed again closes the shim, after the       *)
(* status is saved.                                                          *)
compensateProvisionedCluster(h) ==
    LET n == Head(call[h].todo)[3]
        rest == Tail(call[h].todo)
    IN  /\ At(h, "compensate")
        /\ \/ backend' = backend \ Containers(n) /\ Follow(h, rest)
           \/ \E R \in SUBSET (Containers(n) \cap backend) :
                 /\ R # Containers(n) \cap backend /\ backend' = backend \ R
                 /\ Follow(h, IF rest = <<>> THEN rest ELSE rest \o <<<<"close", Keep, n>>>>)
        /\ UNCHANGED <<mem, disk, degraded, unsaved>>
setClusterStatus(h) ==
    LET step == Head(call[h].todo)
        n == step[3]
        rest == Tail(call[h].todo)
        failed == (IF step[4] = "RUNNING" THEN <<<<"compensate", Keep, n>>>> ELSE <<>>) \o <<<<"close", Keep, n>>>>
    IN  /\ At(h, "status")
        /\ IF n \notin Live THEN Follow(h, failed) /\ UNCHANGED <<mem, disk, degraded>>
           ELSE Outcome(h, Put(mem, n, Cluster(step[4], mem[n].uuid)), rest, failed)
        /\ UNCHANGED <<unsaved, backend>>
degrade(h) ==
    /\ At(h, "close")
    /\ degraded' = "closed" /\ Proceed(h)
    /\ UNCHANGED <<mem, disk, unsaved, backend>>

deleteCluster(h) ==
    \E n \in Clusters \cap Live :
        /\ MayStart(h)
        /\ \/ commitMetadata(Put(mem, n, Cluster("DELETING", mem[n].uuid)),
                             Continue(h, <<<<"delete", status(n, "ERROR"), n, "m">>,
                                           <<"delete", status(n, "ERROR"), n, "w">>,
                                           <<"forget", Keep, n>>>>), UNCHANGED call)
           \/ UNCHANGED <<mem, disk, degraded, call>>
        /\ UNCHANGED <<unsaved, backend>>
DeleteComputeVM(h) ==
    LET step == Head(call[h].todo)
    IN  /\ At(h, "delete")
        /\ \/ degraded = "closed" /\ UNCHANGED backend /\ Follow(h, <<>>)
           \/ degraded # "closed" /\ backend' = backend \ {<<step[3], step[4]>>} /\ Proceed(h)
           \/ degraded # "closed" /\ UNCHANGED backend /\ Fail(h)
        /\ UNCHANGED <<mem, disk, degraded, unsaved>>
deleteClusterMetadata(h) ==
    LET n == Head(call[h].todo)[3]
    IN  /\ At(h, "forget")
        /\ Outcome(h, Drop(mem, {n, DataprocRuntime(n)}), <<>>, <<>>)
        /\ UNCHANGED <<unsaved, backend>>

(* submitJob: the cluster is looked at before mutationMu is taken, and again *)
(* when the job is about to run.                                             *)
submitJob(h) ==
    \E n \in Clusters \cap Live :
        mem[n].state = "RUNNING" /\ Look(h, None, <<<<"submit", Keep, n, mem[n].uuid>>>>)
addJob(h) ==
    LET step == Head(call[h].todo)
        j == jobKey
        job == [uuid |-> step[4], state |-> "PENDING"]
    IN  /\ At(h, "submit") /\ j[3] <= MaxJobs
        /\ IF degraded = "closed" THEN Follow(h, <<>>) /\ UNCHANGED <<mem, disk, degraded>>
           ELSE commitMetadata(Put(mem, j, job),
                               Follow(h, <<<<"job", Keep, j, "RUNNING">>, <<"check", Keep, j, step[3]>>>>),
                               Follow(h, <<>>))
        /\ UNCHANGED <<unsaved, backend>>
persistJob(h) ==
    LET step == Head(call[h].todo)
    IN  /\ At(h, "job")
        /\ Outcome(h, Put(mem, step[3], [mem[step[3]] EXCEPT !.state = step[4]]), Tail(call[h].todo),
                   <<<<"close", Keep, step[3]>>>>)
        /\ UNCHANGED <<unsaved, backend>>
(* RunCommandInContainer gives one outcome or the other.                     *)
dataproc_runJob(h) ==
    LET step == Head(call[h].todo)
        same == step[4] \in Live /\ mem[step[4]] = Cluster("RUNNING", mem[step[3]].uuid)
    IN  /\ At(h, "check")
        /\ \/ ~same /\ Follow(h, <<<<"job", Keep, step[3], "ERROR">>>>)
           \/ same /\ degraded = "closed" /\ Follow(h, <<>>)
           \/ same /\ degraded # "closed"
              /\ \E s \in {"DONE", "ERROR"} : Follow(h, <<<<"job", Keep, step[3], s>>>>)
        /\ UNCHANGED <<mem, disk, degraded, unsaved, backend>>

(* Every container a runtime names is removed before the runtime is; no      *)
(* cluster and no job goes on.                                               *)
normalizeDataprocMetadata(doc) ==
    [n \in DOMAIN doc \ Of("runtime", doc) |->
        IF n[1] = "job" /\ doc[n].state = "DONE" THEN doc[n] ELSE [doc[n] EXCEPT !.state = "ERROR"]]
reconcileDataprocRuntimes ==
    LET owned == UNION {Containers(disk[n]) : n \in Of("runtime", disk)}
        doc == normalizeDataprocMetadata(disk)
    IN  /\ call' = [h \in Handlers |-> Idle] /\ unsaved' = {}
        /\ \/ backend' = backend \ owned /\ mem' = doc /\ disk' = doc /\ degraded' = "no"
           \/ backend' = backend \ owned /\ mem' = Nothing /\ disk' \in {disk, doc} /\ degraded' = "closed"
           \/ /\ \E R \in SUBSET owned : backend' = backend \ R
              /\ mem' = Nothing /\ disk' = disk /\ degraded' = "closed"

(* What a start accepts of the entry.                                        *)
validateDataprocRuntimeIntents(doc) == \A n \in Of("runtime", doc) : doc[n] \in DOMAIN doc

DataprocNext ==
    \/ \E h \in Handlers :
          \/ createCluster(h) \/ ProvisionComputeVM(h) \/ compensateProvisionedCluster(h)
          \/ setClusterStatus(h) \/ degrade(h)
          \/ deleteCluster(h) \/ DeleteComputeVM(h) \/ deleteClusterMetadata(h)
          \/ submitJob(h) \/ addJob(h) \/ persistJob(h) \/ dataproc_runJob(h)
    \/ reconcileDataprocRuntimes

(* One request at a time: every container is named by a runtime on disk, so  *)
(* that the next start removes it, wherever the daemon stops.                *)
BackendsRecorded == Serial => \A c \in backend : DataprocRuntime(c[1]) \in DOMAIN disk
(* One request at a time: a cluster shown as running has all its containers. *)
RunningHasBackend ==
    Serial /\ degraded # "closed" =>
        \A n \in Clusters \cap Live : mem[n].state = "RUNNING" => Containers(n) \subseteq backend
=============================================================================

------------------------------- MODULE Builds -------------------------------
(* Shims that build, keep and roll out artifacts. Each section is one shim   *)
(* with a next-state relation of its own; the sections share no state.       *)
EXTENDS PlannedState

CONSTANTS
    maxPersistedOperationOutcomes,
    MaxOperations   \* bound on the operation numbers

-----------------------------------------------------------------------------
(* pkg/shims/cloudbuild: builds, run in the background by containers on a    *)
(* workspace volume.  mutationMu is held for one change of the metadata,     *)
(* which is saved before it is published.  backend holds the volumes and the *)
(* containers of the builds.                                                 *)

Builds == {<<"build", None, i>> : i \in Ids}
Volume(n) == <<"volume", n>>
Container(n) == <<"container", n>>
Ended == {"SUCCESS", "FAILURE", "INTERNAL_ERROR"}

(* A random id that no build, known or in the making, has.                   *)
allocateBuildID ==
    {n \in Builds : n \notin Live \union DOMAIN disk /\ \A h \in Handlers : call[h].on # n}

(* One commit: saved and published, or refused and the shim degraded.        *)
commit(doc, ok, failed) ==
    \/ degraded = "no" /\ mem' = doc /\ disk' = doc /\ UNCHANGED degraded /\ ok
    \/ degraded = "no" /\ disk' = disk /\ degraded' = "clean" /\ UNCHANGED mem /\ failed
    \/ degraded = "no" /\ disk' = doc /\ degraded' = "torn" /\ UNCHANGED mem /\ failed
    \/ degraded # "no" /\ UNCHANGED <<mem, disk, degraded>> /\ failed
commitBuild(n, status, ok, failed) == commit(Put(mem, n, status), ok, failed)

Execution(n) ==
    <<Register(<<<<"remove", Keep, n>>>>), <<"working", Keep, n>>, <<"workspace", Keep, n>>,
      <<"steps", Keep, n>>>>
handleCreateBuild(h) ==
    /\ MayStart(h) /\ degraded = "no"
    /\ \E n \in allocateBuildID :
          commitBuild(n, "QUEUED", call' = [call EXCEPT ![h] = [Idle EXCEPT !.todo = Execution(n), !.on = n]],
                      UNCHANGED call)
    /\ UNCHANGED <<unsaved, backend>>
removeBuild(h) ==
    /\ At(h, "remove")
    /\ commit(Drop(mem, {call[h].on}), Proceed(h), Proceed(h))
    /\ UNCHANGED <<unsaved, backend>>

(* executeBuild: WORKING is saved before anything is started, the outcome    *)
(* after the last container has been waited for; the deferred cleanups, which*)
(* only log their errors, come last.                                         *)
StartBuild(h) ==
    /\ At(h, "working")
    /\ commitBuild(call[h].on, "WORKING", Proceed(h), Fail(h))
    /\ UNCHANGED <<unsaved, backend>>
EnsureBuildWorkspace(h) ==
    LET n == call[h].on
    IN  /\ At(h, "workspace")
        /\ \/ backend' = backend \union {Volume(n)} /\ Proceed(h)
           \/ backend' \in {backend, backend \union {Volume(n)}} /\ Follow(h, <<<<"outcome", Keep, "FAILURE">>>>)
        /\ UNCHANGED <<mem, disk, degraded, unsaved>>
(* Any number of steps, one container at a time, until one fails.            *)
ProvisionBuildStep(h) ==
    LET n == call[h].on
        end(status) == Follow(h, <<<<"outcome", Keep, status>>, <<"cleanup", Keep, n>>>>)
    IN  /\ At(h, "steps")
        /\ \/ Container(n) \notin backend /\ backend' = backend \union {Container(n)} /\ UNCHANGED call
           \/ Container(n) \in backend /\ backend' = backend \ {Container(n)} /\ UNCHANGED call
           \/ Container(n) \notin backend /\ UNCHANGED backend /\ end("SUCCESS")
           \/ UNCHANGED backend /\ end("FAILURE")
        /\ UNCHANGED <<mem, disk, degraded, unsaved>>
executeBuild(h) ==
    /\ At(h, "outcome")
    /\ commitBuild(call[h].on, Head(call[h].todo)[3], Proceed(h), Proceed(h))
    /\ UNCHANGED <<unsaved, backend>>
removeBuildContainer(h) ==
    /\ At(h, "cleanup")
    /\ \E R \in SUBSET {Container(call[h].on), Volume(call[h].on)} : backend' = backend \ R
    /\ Proceed(h)
    /\ UNCHANGED <<mem, disk, degraded, unsaved>>

(* What was running is reported as interrupted, and that is saved; then the  *)
(* containers and volumes of an earlier process are removed, as far as       *)
(* Docker does it.                                                           *)
interruptedBuildStatus == "INTERNAL_ERROR"
cloudbuild_loadState ==
    LET normalized == [n \in DOMAIN disk |-> IF disk[n] \in Ended THEN disk[n] ELSE interruptedBuildStatus]
    IN  /\ call' = [h \in Handlers |-> Idle] /\ unsaved' = {}
        /\ \/ /\ mem' = normalized /\ disk' = normalized /\ degraded' = "no"
              /\ backend' \in SUBSET backend
           \/ /\ mem' = normalized /\ degraded' = "clean" /\ disk # normalized
              /\ UNCHANGED <<disk, backend>>
           \/ /\ mem' = normalized /\ disk' = normalized /\ degraded' = "torn" /\ disk # normalized
              /\ UNCHANGED backend
           \/ mem' = Nothing /\ degraded' = "unread" /\ UNCHANGED <<disk, backend>>

CloudBuildNext ==
    \/ \E h \in Handlers :
          \/ handleCreateBuild(h) \/ removeBuild(h)
          \/ StartBuild(h) \/ EnsureBuildWorkspace(h) \/ ProvisionBuildStep(h)
          \/ executeBuild(h) \/ removeBuildContainer(h)
    \/ OperationStep \/ cloudbuild_loadState

(* A build that ended, or was interrupted by a restart, keeps its status:    *)
(* nothing is replayed.                                                      *)
EndedStays ==
    \A n \in DOMAIN disk : disk[n] \in Ended => n \in DOMAIN disk' /\ disk'[n] = disk[n]
(* A container or a volume exists only for a build on disk, so that the next *)
(* start knows whose it is, wherever the daemon stops.                       *)
BackendsRecorded == {c[2] : c \in backend} \subseteq DOMAIN disk

-----------------------------------------------------------------------------
(* pkg/shims/artifactregistry: repositories, and for each operation of the   *)
(* shared registry the outcome that a client polls.  backend holds that      *)
(* registry's operations, <<number, state>>; numbers grow with the sequence  *)
(* of the outcomes because both are given under mutationMu.                  *)

Repositories == {<<"repository", None, i>> : i \in Ids}
Outcome(k) == <<"outcome", None, k>>
Outcomes(doc) == Of("outcome", doc)
Numbers == {o[1] : o \in backend} \union {n[3] : n \in Outcomes(mem)}
Number == CHOOSE k \in 1..(MaxOperations + 1) : (\A j \in Numbers : j < k) /\ (k > 1 => k - 1 \in Numbers)

(* An operation is registered, then the change is saved with its outcome.    *)
mutate(h, n, v) ==
    LET k == Number
        next == Put(IF v = None THEN Drop(mem, {n}) ELSE Put(mem, n, v), Outcome(k), n)
    IN  /\ MayStart(h) /\ PersistMuFree /\ k <= MaxOperations
        /\ backend' = backend \union {<<k, "pending">>}
        /\ call' = [call EXCEPT ![h] =
               [todo |-> <<<<"transact", <<<<"failop", Keep, k>>>>, next>>, <<"publish", Keep, next>>,
                           <<"run", Keep, k>>>>,
                undo |-> Before({n, Outcome(k)}), on |-> persistMu]]
        /\ UNCHANGED <<mem, disk, degraded, unsaved>>
handleCreateRepository(h) == \E n \in Repositories \ Live, b \in Bodies : mutate(h, n, b)
handleDeleteRepository(h) == \E n \in Repositories \cap Live : mutate(h, n, None)

End(k, how) == (backend \ {<<k, "pending">>}) \union {<<k, how>>}
(* Not after an ambiguous save; the shim closes when this write fails too.   *)
failRegisteredOperation(h) ==
    /\ At(h, "failop")
    /\ \/ degraded = "closed" /\ UNCHANGED <<backend, degraded>>
       \/ degraded # "closed" /\ backend' = End(Head(call[h].todo)[3], "failed") /\ UNCHANGED degraded
       \/ degraded # "closed" /\ degraded' = "closed" /\ UNCHANGED backend
    /\ Proceed(h)
    /\ UNCHANGED <<mem, disk, unsaved>>
(* The operation ends, and its observer compacts the outcomes.               *)
operationRunner(h) ==
    /\ At(h, "run")
    /\ backend' = End(Head(call[h].todo)[3], "done")
    /\ Follow(h, <<<<"compact", Keep, FALSE>>>>)
    /\ UNCHANGED <<mem, disk, degraded, unsaved>>

(* Outcomes without an operation go, and the oldest of ended operations.     *)
operationOutcomeEvictions ==
    LET pending == {n \in Outcomes(mem) : <<n[3], "pending">> \in backend}
        unknown == {n \in Outcomes(mem) : ~\E o \in backend : o[1] = n[3]}
        ended == Outcomes(mem) \ (pending \union unknown)
    IN  unknown \union
        {n \in ended : Cardinality({m \in ended : m[3] > n[3]}) + Cardinality(pending)
                          >= maxPersistedOperationOutcomes}
(* The operations are removed one by one before the outcomes are saved.      *)
compactOperationOutcomes(h) ==
    LET E == operationOutcomeEvictions
        next == Drop(mem, E)
        Without(S) == {o \in backend : Outcome(o[1]) \notin S}
    IN  /\ At(h, "compact") /\ PersistMuFree
        /\ \/ E = {} /\ Proceed(h) /\ UNCHANGED <<mem, degraded, backend>>
           \/ /\ E # {} /\ backend' = Without(E)
              /\ call' = [call EXCEPT ![h] =
                     [todo |-> <<<<"transact", <<<<"degrade", Keep>>>>, next>>, <<"publish", Keep, next>>>>,
                      undo |-> Before(E), on |-> persistMu]]
              /\ UNCHANGED <<mem, degraded>>
           \/ /\ E # {} /\ \E R \in SUBSET E : R # E /\ backend' = Without(R)
              /\ IF Head(call[h].todo)[3] THEN mem' = Nothing /\ degraded' = "closed"
                 ELSE UNCHANGED <<mem, degraded>>
              /\ Proceed(h)
        /\ UNCHANGED <<disk, unsaved>>
degrade(h) ==
    /\ At(h, "degrade")
    /\ degraded' = "closed"
    /\ Proceed(h)
    /\ UNCHANGED <<mem, disk, unsaved, backend>>

(* The registry fails what was pending; the shim compacts before it serves.  *)
NewAPIWithRegistryIndexAndStore ==
    /\ unsaved' = {}
    /\ backend' = {<<o[1], IF o[2] = "pending" THEN "failed" ELSE o[2]>> : o \in backend}
    /\ \/ /\ mem' = disk /\ degraded' = "no"
          /\ \E h \in Handlers :
                call' = [g \in Handlers |-> IF g = h THEN [Idle EXCEPT !.todo = <<<<"compact", Keep, TRUE>>>>]
                                            ELSE Idle]
       \/ mem' = Nothing /\ degraded' = "closed" /\ call' = [h \in Handlers |-> Idle]
    /\ UNCHANGED disk

ArtifactRegistryNext ==
    \/ \E h \in Handlers :
          \/ handleCreateRepository(h) \/ handleDeleteRepository(h)
          \/ failRegisteredOperation(h) \/ operationRunner(h)
          \/ compactOperationOutcomes(h) \/ degrade(h)
    \/ PlannedStep \/ NewAPIWithRegistryIndexAndStore

(* A client that polls an operation which ended well finds its outcome, now  *)
(* and after a crash at any point of a compaction.                           *)
OutcomesOutliveOperations ==
    \A o \in backend : o[2] = "done" => Outcome(o[1]) \in DOMAIN disk

-----------------------------------------------------------------------------
(* pkg/shims/clouddeploy: delivery pipelines, their releases, and rollouts,  *)
(* which a goroutine executes after the request has been answered; the       *)
(* handler that created the rollout stands for it.                           *)

Pipelines == {<<"pipeline", None, i>> : i \in Ids}
Releases == {<<"release", p, i>> : p \in Pipelines, i \in SubIds}
Rollouts == {<<"rollout", r, i>> : r \in Releases, i \in SubIds}

(* The operations of creations are finished by a goroutine of their own.     *)
finishMutation(h, doc, S, async) ==
    Handle(h, doc, S, <<Register(Revert), Save(Compensate)>>
                        \o IF async THEN <<>> ELSE <<Finalize(Compensate)>>)

createPipeline(h) ==
    \E n \in Pipelines \ Live, b \in Bodies : finishMutation(h, Put(mem, n, b), {n}, TRUE)
patchPipeline(h) ==
    \E n \in Pipelines \cap Live, b \in Bodies : finishMutation(h, Put(mem, n, b), {n}, FALSE)
deletePipeline(h) ==
    \E n \in Pipelines \cap Live :
        Under(n, mem) = {} /\ finishMutation(h, Drop(mem, {n}), {n}, FALSE)

createRelease(h) ==
    \E n \in Releases \ Live, b \in Bodies :
        n[2] \in Live /\ finishMutation(h, Put(mem, n, b), {n}, TRUE)
deleteRelease(h) ==
    \E n \in Releases \cap Live : Under(n, mem) = {} /\ CommitLocked(h, Drop(mem, {n}), {n})

createRollout(h) ==
    \E n \in Rollouts \ Live :
        /\ MayStart(h) /\ n[2] \in Live
        /\ Change(h, Put(mem, n, "IN_PROGRESS"), {n}, n,
                  <<Register(Revert), Save(Compensate), <<"execute", Keep>>>>)
deleteRollout(h) ==
    \E n \in Rollouts \cap Live : CommitLocked(h, Drop(mem, {n}), {n})

(* executeRollout (the policy evaluator and the local target decide) and     *)
(* finishRolloutExecution, which finds the rollout by its name.              *)
executeRollout(h) ==
    /\ At(h, "execute")
    /\ \E state \in {"SUCCEEDED", "FAILED"} :
          Record(h, IF call[h].on \in Live THEN Put(mem, call[h].on, state) ELSE mem, {call[h].on},
                 <<Save(<<Finalize(Keep)>>), Finalize(Keep)>>)
    /\ UNCHANGED <<disk, degraded, unsaved, backend>>

clouddeploy_loadState == StartWith(disk, "unread")

persistState(h) == SaveOk(h) \/ SaveFails(h)

CloudDeployNext ==
    \/ \E h \in Handlers :
          \/ createPipeline(h) \/ patchPipeline(h) \/ deletePipeline(h)
          \/ createRelease(h) \/ deleteRelease(h)
          \/ createRollout(h) \/ deleteRollout(h) \/ executeRollout(h)
    \/ \E h \in Handlers : persistState(h) \/ Rollback(h)
    \/ OperationStep \/ clouddeploy_loadState

validateCloudDeployMetadata(doc) ==
    \A n \in Of("release", doc) \union Of("rollout", doc) : n[2] \in DOMAIN doc
=============================================================================

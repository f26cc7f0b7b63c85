----------------------------- MODULE Serverless -----------------------------
(* Shims that run functions, services and versions in containers. Each       *)
(* section is one shim with a next-state relation of its own; the sections   *)
(* share no state.                                                           *)
EXTENDS PlannedState

-----------------------------------------------------------------------------
(* pkg/shims/serverless: functions and services, deployed and deleted in the *)
(* background, each as one container.  tryLifecycle lets one request at a    *)
(* time work on a resource (call.on names it) and refuses the others; the    *)
(* store is not guarded.  backend holds the containers.                      *)

Functions == {<<"function", None, i>> : i \in Ids}
Services == {<<"service", None, i>> : i \in Ids}
Twin(n) == {m \in Functions \union Services : m[3] = n[3]}
tryLifecycle(n) == \A g \in Handlers : call[g].on # n
On(h) == call[h].on

(* The resource is replaced, also one that exists.  A registered operation   *)
(* builds the image and starts the container.                                *)
createFunction(h) ==
    \E n \in Functions :
        /\ MayStart(h) /\ tryLifecycle(n)
        /\ Change(h, Put(mem, n, "DEPLOYING"), {n}, n, <<Save(Keep), Register(Keep), <<"build", Keep>>>>)
createService(h) ==
    \E n \in Services :
        /\ MayStart(h) /\ tryLifecycle(n)
        /\ Change(h, Put(mem, n, "DEPLOYING"), {n}, n, <<Save(Keep), Register(Keep), <<"build", Keep>>>>)
(* /deploy registers first, and on a failure marks the function and the      *)
(* service of that name.                                                     *)
deployResource(h) ==
    \E n \in Functions \union Services :
        /\ tryLifecycle(n)
        /\ Look(h, n, <<Register(Keep), Apply([m \in {n} |-> "DEPLOYING"]), Save(Keep), <<"deploy", Keep>>>>)

Failed(h, S) ==
    Record(h, [m \in Live |-> IF m \in S THEN "FAILED" ELSE mem[m]], S \cap Live, <<Save(Keep)>>)
Marked(h) == IF At(h, "deploy") THEN Twin(On(h)) ELSE {On(h)}
(* Without the Buildpacks backend only the metadata is kept; a failed build  *)
(* is recorded; otherwise the container is replaced.                         *)
BuildFunction(h) ==
    /\ At(h, "build") \/ At(h, "deploy")
    /\ \/ At(h, "build") /\ Record(h, Put(mem, On(h), "SIMULATED"), {On(h)}, <<Save(Keep)>>)
       \/ Failed(h, Marked(h))
       \/ Follow(h, <<<<"provision", Keep, Marked(h)>>>>) /\ UNCHANGED mem
    /\ UNCHANGED <<disk, degraded, unsaved, backend>>
ServerlessProvisionServerlessVM(h) ==
    LET n == On(h)
    IN  /\ At(h, "provision")
        /\ \/ /\ backend' = backend \union {n}
              /\ Record(h, Put(mem, n, "ACTIVE"), {n}, <<Save(<<<<"cleanup", Keep>>>>)>>)
           \/ /\ backend' \in {backend, backend \ {n}, backend \union {n}}
              /\ Failed(h, Head(call[h].todo)[3])
        /\ UNCHANGED <<disk, degraded, unsaved>>
failProvisionPersistence(h) ==
    /\ At(h, "cleanup")
    /\ backend' \in {backend, backend \ {On(h)}}
    /\ Failed(h, {On(h)})
    /\ UNCHANGED <<disk, degraded, unsaved>>

deleteFunction(h) ==
    \E n \in Functions \cap Live :
        tryLifecycle(n) /\ Look(h, n, <<Register(Keep), <<"delete", Keep>>, <<"forget", Keep>>>>)
deleteService(h) ==
    \E n \in Services \cap Live :
        tryLifecycle(n) /\ Look(h, n, <<Register(Keep), <<"delete", Keep>>, <<"forget", Keep>>>>)
handleDeleteAction(h) ==
    \E n \in (Functions \union Services) \cap Live :
        tryLifecycle(n) /\ Look(h, n, <<<<"delete", Keep>>, <<"forget", Keep>>>>)
ServerlessDeleteServerlessVM(h) ==
    /\ At(h, "delete")
    /\ \/ backend' = backend \ {On(h)} /\ Proceed(h)
       \/ UNCHANGED backend /\ Fail(h)
    /\ UNCHANGED <<mem, disk, degraded, unsaved>>
(* The removal and its save hold persistMu; a failed save puts it back.      *)
deleteMetadata(h) ==
    LET next == Drop(mem, {On(h)})
    IN  /\ At(h, "forget") /\ Proceed(h)
        /\ \/ mem' = next /\ IF degraded = "unstored" THEN UNCHANGED <<disk, degraded, unsaved>>
                             ELSE disk' = next /\ degraded' = "no" /\ unsaved' = {}
           \/ degraded # "unstored" /\ degraded' = Failure("clean") /\ UNCHANGED <<mem, disk, unsaved>>
           \/ degraded # "unstored" /\ degraded' = "torn" /\ disk' = next /\ UNCHANGED <<mem, unsaved>>
        /\ UNCHANGED backend

(* Nothing is provisioned after a start; a shim that cannot read its entry   *)
(* works without a store.                                                    *)
ServerlessNewAPIWithStore == StartWith(disk, "unstored")
persistMetadata(h) ==
    /\ At(h, "save") /\ degraded = "unstored"
    /\ Proceed(h)
    /\ UNCHANGED <<mem, disk, degraded, unsaved, backend>>

ServerlessNext ==
    \/ \E h \in Handlers :
          \/ createFunction(h) \/ createService(h) \/ deployResource(h) \/ BuildFunction(h)
          \/ ServerlessProvisionServerlessVM(h) \/ failProvisionPersistence(h)
          \/ deleteFunction(h) \/ deleteService(h) \/ handleDeleteAction(h)
          \/ ServerlessDeleteServerlessVM(h) \/ deleteMetadata(h) \/ ApplyChange(h) \/ persistMetadata(h)
          \/ (degraded # "unstored" /\ (SaveOk(h) \/ SaveFails(h)))
    \/ OperationStep \/ ServerlessNewAPIWithStore

(* Whatever other requests do to the same resource meanwhile, the container  *)
(* of a function or service exists only while the entry names it, so that it *)
(* can still be deleted after a crash.                                       *)
StartedIsRecorded ==
    degraded = "no" => (backend' \ backend) \subseteq DOMAIN disk

-----------------------------------------------------------------------------
(* pkg/shims/appengine: versions of a project's services.  A deployment      *)
(* records the version, answers, and builds and starts its container in the  *)
(* background; backend holds the containers.  mutationMu is held for one     *)
(* change of the metadata, not for the deployment.                           *)

Versions == {<<"version", <<"service", None, s>>, v>> : s \in Ids, v \in SubIds}
appEngineVersionKey(n) == <<"deletion", None, n>>

handleDirectDeploy(h) ==
    \E n \in Versions :
        LET next == Put(Put(mem, n[2], "service"), n, "STOPPED")
        IN  PlanThen(h, next, {n, n[2]}, <<Register(Keep), <<"transact", Keep, next>>>>,
                     <<<<"provision", Keep, n>>>>)

(* The image is built and its container started, or one of the two fails.    *)
AppEngineProvisionServerlessVM(h) ==
    /\ At(h, "provision")
    /\ LET n == Head(call[h].todo)[3]
       IN  \/ degraded # "closed" /\ backend' = backend \union {n} /\ Follow(h, <<<<"activate", Keep, n>>>>)
           \/ UNCHANGED backend /\ Fail(h)
    /\ UNCHANGED <<mem, disk, degraded, unsaved>>

(* setVersionState: any error of the save closes the shim, also when the     *)
(* entry read back is the new one, and the container is deleted again.       *)
setVersionState(h) ==
    LET n == Head(call[h].todo)[3]
        next == Put(mem, n, "SERVING")
        cleanup == Follow(h, <<<<"cleanup", Keep, n>>>>)
    IN  /\ At(h, "activate") /\ PersistMuFree
        /\ \/ /\ degraded = "closed" \/ n \notin Live
              /\ cleanup /\ UNCHANGED <<mem, disk, degraded>>
           \/ /\ degraded # "closed" /\ n \in Live
              /\ commitMetadataOutcome(next, Proceed(h), cleanup)
        /\ UNCHANGED <<unsaved, backend>>
activateVersion(h) ==
    /\ At(h, "cleanup")
    /\ \/ backend' = backend \ {Head(call[h].todo)[3]}
       \/ UNCHANGED backend
    /\ Proceed(h)
    /\ UNCHANGED <<mem, disk, degraded, unsaved>>

(* DELETE: the intent is saved, the container deleted, the version removed;  *)
(* mutationMu is held throughout.                                            *)
handleVersions(h) ==
    \E n \in Versions \cap Live :
        LET intent == Put(mem, appEngineVersionKey(n), n)
            finalized == Drop(mem, {n, appEngineVersionKey(n)})
        IN  PlanThen(h, intent, {n, appEngineVersionKey(n)}, <<<<"transact", Keep, intent>>>>,
                     <<<<"delete", Keep, n>>, <<"transact", Keep, finalized>>, <<"publish", Keep, finalized>>>>)
AppEngineDeleteServerlessVM(h) ==
    /\ At(h, "delete")
    /\ \/ backend' = backend \ {Head(call[h].todo)[3]} /\ Proceed(h)
       \/ UNCHANGED backend /\ Fail(h)
    /\ UNCHANGED <<mem, disk, degraded, unsaved>>

(* No version serves after a start; that is saved before the shim answers.   *)
normalizeAppEngineMetadata(doc) ==
    [n \in DOMAIN doc |-> IF n[1] = "version" THEN "STOPPED" ELSE doc[n]]
AppEngineNewAPIWithStore ==
    /\ call' = [h \in Handlers |-> Idle] /\ unsaved' = {}
    /\ \/ mem' = normalizeAppEngineMetadata(disk) /\ disk' = mem' /\ degraded' = "no"
       \/ mem' = Nothing /\ disk' \in {disk, normalizeAppEngineMetadata(disk)} /\ degraded' = "closed"
    /\ UNCHANGED backend

AppEngineNext ==
    \/ \E h \in Handlers :
          \/ handleDirectDeploy(h) \/ AppEngineProvisionServerlessVM(h) \/ setVersionState(h) \/ activateVersion(h)
          \/ handleVersions(h) \/ AppEngineDeleteServerlessVM(h)
    \/ PlannedStep \/ OperationStep \/ AppEngineNewAPIWithStore

(* One request at a time: a container is started only for a version on disk, *)
(* and the version stays there until its container is gone, whatever fails   *)
(* and wherever the daemon stops.                                            *)
BackendsRecorded == Serial => backend \subseteq DOMAIN disk
(* One request at a time: a version that is shown as serving has a container,*)
(* unless its deletion has begun.                                            *)
ServingHasBackend ==
    Serial /\ degraded # "closed" =>
        \A n \in Versions \cap Live :
            mem[n] = "SERVING" => n \in backend \/ appEngineVersionKey(n) \in Live
=============================================================================

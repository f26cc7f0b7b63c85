----------------------------- MODULE Instances ------------------------------
(* Shims that run a container, or keep a directory, per environment, cluster *)
(* or instance. Each section is one shim with a next-state relation of its   *)
(* own; the sections share no state.                                         *)
EXTENDS ShimState

CONSTANTS
    MaxTime   \* bound on the update times in use at once

-----------------------------------------------------------------------------
(* pkg/shims/composer: environments, each an Airflow container that is       *)
(* started in the background.  mutationMu is held for a request, and for the *)
(* whole of the background work.  backend holds the containers.              *)

Environments == {<<"environment", None, i>> : i \in Ids}
Environment(s, b) == [state |-> s, config |-> b]
ComposerInState(n, s) == [mem[n] EXCEPT !.state = s]

createEnvironment(h) ==
    \E n \in Environments \ Live, b \in Bodies :
        /\ MayStart(h) /\ PersistMuFree
        /\ Change(h, Put(mem, n, Environment("CREATING", b)), {n}, persistMu,
                  <<Register(Revert), Save(Revert), <<"provision", Keep, n>>>>)

(* The container is started whether or not the environment is still there;   *)
(* when it cannot be, or does not answer, it is removed, as far as Docker    *)
(* does it.                                                                  *)
(* In the fault the environment runs without waiting for its container.      *)
ProvisionUnchecked(h) ==
    LET n == Head(call[h].todo)[3]
    IN  /\ At(h, "provision") /\ PersistMuFree /\ n \in Live
        /\ backend' \in {backend, backend \union {n}}
        /\ Record(h, Put(mem, n, ComposerInState(n, "RUNNING")), {n}, <<Save(Keep)>>)
        /\ UNCHANGED <<disk, degraded, unsaved>>
ComposerProvision(h) ==
    LET n == Head(call[h].todo)[3]
        outcome(s, else) ==
            IF n \in Live THEN Record(h, Put(mem, n, ComposerInState(n, s)), {n}, <<Save(else)>>)
            ELSE UNCHANGED mem /\ Follow(h, <<Save(Keep)>>)
    IN  /\ At(h, "provision") /\ PersistMuFree
        /\ \/ /\ backend' = backend \union {n}
              /\ outcome("RUNNING", <<Apply([m \in {n} \cap Live |-> ComposerInState(n, "ERROR")])>>)
           \/ /\ backend' \in {backend, backend \union {n}}
              /\ outcome("ERROR", Keep)
        /\ UNCHANGED <<disk, degraded, unsaved>>

patchEnvironment(h) ==
    \E n \in Environments \cap Live, b \in Bodies :
        LookLocked(h, <<Register(Keep), Apply([m \in {n} |-> [mem[n] EXCEPT !.config = b]]),
                        Save(Revert), Finalize(Keep)>>)

(* In the fault the environment is forgotten before its container is removed.*)
deleteEnvironmentFirst(h) ==
    \E n \in Environments \cap Live :
        LookLocked(h, <<Register(Keep), Apply([m \in {n} |-> None]), Save(Revert),
                        <<"remove", Keep, n>>, Finalize(Keep)>>)
deleteEnvironment(h) ==
    \E n \in Environments \cap Live :
        LookLocked(h, <<Register(Keep), <<"remove", Keep, n>>, Apply([m \in {n} |-> None]),
                        Save(<<Apply([m \in {n} |-> ComposerInState(n, "ERROR")])>>), Finalize(Keep)>>)
ComposerDeleteContainer(h) ==
    /\ At(h, "remove")
    /\ \/ backend' = backend \ {Head(call[h].todo)[3]} /\ Proceed(h)
       \/ UNCHANGED backend /\ Fail(h)
    /\ UNCHANGED <<mem, disk, degraded, unsaved>>

(* An environment runs after a start when its container is there and         *)
(* answers; that is not saved.                                               *)
composer_loadState ==
    LET restored(R) == [n \in DOMAIN disk |-> [disk[n] EXCEPT !.state = IF n \in R THEN "RUNNING" ELSE "ERROR"]]
    IN  /\ call' = [h \in Handlers |-> Idle]
        /\ \/ \E R \in SUBSET (backend \cap DOMAIN disk) :
                 /\ mem' = restored(R) /\ degraded' = "no"
                 /\ unsaved' = {n \in DOMAIN disk : restored(R)[n] # disk[n]}
           \/ mem' = Nothing /\ degraded' = "unread" /\ unsaved' = {}
        /\ UNCHANGED <<disk, backend>>

composer_persistState(h) == SaveOk(h) \/ SaveFails(h)

ComposerNext ==
    \/ \E h \in Handlers :
          \/ createEnvironment(h) \/ ComposerProvision(h) \/ patchEnvironment(h)
          \/ deleteEnvironment(h) \/ ComposerDeleteContainer(h) \/ ApplyChange(h)
    \/ \E h \in Handlers : composer_persistState(h) \/ Rollback(h)
    \/ OperationStep \/ composer_loadState

(* One request at a time: a container exists only for an environment on disk.*)
ComposerBackendsRecorded == Serial => backend \subseteq DOMAIN disk
(* An environment that is shown as running has its container, unless the     *)
(* request that deletes it is at work.                                       *)
ComposerRunningHasBackend ==
    PersistMuFree => \A n \in Environments \cap Live : mem[n].state = "RUNNING" => n \in backend

-----------------------------------------------------------------------------
(* pkg/shims/managedkafka: clusters, each a Kafka container that is started  *)
(* in the background, and their topics.  mutationMu is held for a request    *)
(* and for the whole of the background work.  backend holds the containers   *)
(* and the topics inside them.                                               *)

Clusters == {<<"cluster", None, i>> : i \in Ids}
Topics == {<<"topic", c, t>> : c \in Clusters, t \in SubIds}
Cluster(s, b) == [state |-> s, config |-> b]
ManagedKafkaInState(n, s) == [mem[n] EXCEPT !.state = s]
Locked(h, doc, S, todo) == MayStart(h) /\ PersistMuFree /\ Change(h, doc, S, persistMu, todo)

createCluster(h) ==
    \E n \in Clusters \ Live, b \in Bodies :
        Locked(h, Put(mem, n, Cluster("CREATING", b)), {n},
               <<Register(Revert), Save(Revert), <<"provision", Keep, n>>>>)

(* The container is started whether or not the cluster is still there; when  *)
(* it cannot be, or does not answer, it is removed, as far as Docker does it.*)
ManagedKafkaProvision(h) ==
    LET n == Head(call[h].todo)[3]
        outcome(s, else) ==
            IF n \in Live THEN Record(h, Put(mem, n, ManagedKafkaInState(n, s)), {n}, <<Save(else)>>)
            ELSE UNCHANGED mem /\ Follow(h, <<Save(Keep)>>)
    IN  /\ At(h, "provision") /\ PersistMuFree
        /\ \/ /\ backend' = backend \union {n}
              /\ outcome("ACTIVE", <<Apply([m \in {n} \cap Live |-> ManagedKafkaInState(n, "FAILED")])>>)
           \/ /\ backend' \in {backend, backend \union {n}}
              /\ outcome("FAILED", Keep)
        /\ UNCHANGED <<disk, degraded, unsaved>>

patchCluster(h) ==
    \E n \in Clusters \cap Live, b \in Bodies :
        LookLocked(h, <<Register(Keep), Apply([m \in {n} |-> [mem[n] EXCEPT !.config = b]]),
                        Save(Revert), Finalize(Keep)>>)

(* The topics go with their cluster, and come back with it, FAILED.          *)
deleteCluster(h) ==
    \E n \in Clusters \cap Live :
        LET S == {n} \union Under(n, mem)
        IN  LookLocked(h, <<Register(Keep), <<"remove", Keep, S>>, Apply([m \in S |-> None]),
                            Save(<<Apply([m \in S |-> IF m = n THEN ManagedKafkaInState(n, "FAILED") ELSE mem[m]])>>),
                            Finalize(Keep)>>)
ManagedKafkaDeleteContainer(h) ==
    LET S == Head(call[h].todo)[3]
    IN  /\ At(h, "remove")
        /\ \/ backend' = {b \in backend : b \notin S /\ b[2] \notin S} /\ Proceed(h)
           \/ UNCHANGED backend /\ Fail(h)
        /\ UNCHANGED <<mem, disk, degraded, unsaved>>

(* The topic is made on the broker first; a save that fails unmakes it.      *)
createTopic(h) ==
    \E t \in Topics \ Live, b \in Bodies :
        /\ t[2] \in Live
        /\ LookLocked(h, <<<<"make", Keep, t>>, Apply([m \in {t} |-> b]),
                           Save(<<Undo, <<"unmake", Keep, t>>>>)>>)
CreateTopic(h) ==
    LET t == Head(call[h].todo)[3]
    IN  /\ At(h, "make")
        /\ \/ t[2] \in backend /\ backend' = backend \union {t} /\ Proceed(h)
           \/ UNCHANGED backend /\ Fail(h)
        /\ UNCHANGED <<mem, disk, degraded, unsaved>>
(* The broker is told after the save; a refusal of its is saved back.        *)
patchTopic(h) ==
    \E t \in Topics \cap Live, b \in Bodies :
        Locked(h, Put(mem, t, b), {t}, <<Save(Revert), <<"update", Compensate, t>>>>)
UpdateTopic(h) ==
    LET t == Head(call[h].todo)[3]
    IN  /\ At(h, "update")
        /\ (t \in backend /\ Proceed(h)) \/ Fail(h)
        /\ UNCHANGED <<mem, disk, degraded, unsaved, backend>>
deleteTopic(h) ==
    \E t \in Topics \cap Live :
        LookLocked(h, <<<<"unmake", Keep, t>>, Apply([m \in {t} |-> None]), Save(Revert)>>)
DeleteTopic(h) ==
    /\ At(h, "unmake")
    /\ \/ backend' = backend \ {Head(call[h].todo)[3]} /\ Proceed(h)
       \/ UNCHANGED backend /\ Fail(h)
    /\ UNCHANGED <<mem, disk, degraded, unsaved>>

(* A cluster is ACTIVE after a start when its container is there and answers;*)
(* that is not saved.                                                        *)
managedkafka_loadState ==
    LET restored(R) ==
            [n \in DOMAIN disk |-> IF n \in Clusters
                                   THEN [disk[n] EXCEPT !.state = IF n \in R THEN "ACTIVE" ELSE "FAILED"]
                                   ELSE disk[n]]
    IN  /\ call' = [h \in Handlers |-> Idle]
        /\ \/ \E R \in SUBSET (backend \cap Of("cluster", disk)) :
                 /\ mem' = restored(R) /\ degraded' = "no"
                 /\ unsaved' = {n \in DOMAIN disk : restored(R)[n] # disk[n]}
           \/ mem' = Nothing /\ degraded' = "unread" /\ unsaved' = {}
        /\ UNCHANGED <<disk, backend>>

managedkafka_persistState(h) == SaveOk(h) \/ SaveFails(h)

ManagedKafkaNext ==
    \/ \E h \in Handlers :
          \/ createCluster(h) \/ ManagedKafkaProvision(h) \/ patchCluster(h) \/ deleteCluster(h) \/ ManagedKafkaDeleteContainer(h)
          \/ createTopic(h) \/ CreateTopic(h) \/ patchTopic(h) \/ UpdateTopic(h)
          \/ deleteTopic(h) \/ DeleteTopic(h) \/ ApplyChange(h)
    \/ \E h \in Handlers : managedkafka_persistState(h) \/ Rollback(h)
    \/ OperationStep \/ managedkafka_loadState

validateManagedKafkaMetadata(doc) == \A n \in Of("topic", doc) : n[2] \in DOMAIN doc

(* One request at a time: a container exists only for a cluster on disk.     *)
ManagedKafkaBackendsRecorded == Serial => backend \cap Clusters \subseteq DOMAIN disk
(* A cluster shown as ACTIVE has its container, unless the request that      *)
(* deletes it is at work.                                                    *)
ManagedKafkaRunningHasBackend ==
    PersistMuFree => \A n \in Clusters \cap Live : mem[n].state = "ACTIVE" => n \in backend

-----------------------------------------------------------------------------
(* pkg/shims/filestore: instances with a directory of shares.  create and    *)
(* delete hold backendMu throughout, patch does not.  backend holds the      *)
(* data directories, and the renamed ones a delete is about to remove.       *)

Instances == {<<"instance", None, i>> : i \in Ids}
Tombstone(n) == <<"deleting", n>>
Instance(state, time) == [state |-> state, updateTime |-> time]

(* A time of day nobody has recorded yet.                                    *)
Times(doc) == {doc[n].updateTime : n \in {m \in DOMAIN doc : doc[m] # None}}
FreeTimes ==
    (1..MaxTime) \ UNION ({Times(mem), Times(disk)} \union {Times(call[h].undo) : h \in Handlers})
Now == CHOOSE t \in FreeTimes : \A u \in FreeTimes : t <= u

BackendMuFree == \A g \in Handlers : call[g].on \notin Instances
Begin(h, n, on, todo) ==
    /\ MayStart(h)
    /\ call' = [call EXCEPT ![h] = [todo |-> todo, undo |-> Before({n}), on |-> on]]
    /\ UNCHANGED <<mem, disk, degraded, unsaved, backend>>

(* A failed save is followed by a second one, of the maps as they were; the  *)
(* readback after that one meets the guard's sticky error.                   *)
compensateState == <<Undo, Save(Keep)>>
discard == <<"discard", Keep>>
createInstance(h) ==
    \E n \in Instances \ Live :
        /\ BackendMuFree
        /\ Begin(h, n, n, <<<<"make", Keep>>, Register(<<Undo, discard>>),
                            Save(compensateState \o <<discard>>)>>)

createShareDirectories(h) ==
    /\ At(h, "make") /\ FreeTimes # {}
    /\ backend' = backend \union {call[h].on}
    /\ mem' = Put(mem, call[h].on, Instance("READY", Now))
    /\ Proceed(h)
    /\ UNCHANGED <<disk, degraded, unsaved>>

(* removeInstanceData can fail, and the error is dropped.                    *)
removeInstanceData(h) ==
    /\ At(h, "discard")
    /\ backend' \in {backend, backend \ {call[h].on}}
    /\ Proceed(h)
    /\ UNCHANGED <<mem, disk, degraded, unsaved>>

(* patchInstance: reads, registers, and replaces what it has read unless it  *)
(* was updated meanwhile.                                                    *)
patchInstance(h) ==
    \E n \in Instances \cap Live : Begin(h, n, None, <<Register(Keep), <<"apply", Keep>>>>)
applyPatch(h) ==
    /\ At(h, "apply") /\ FreeTimes # {}
    /\ \E n \in DOMAIN call[h].undo :
          LET old == call[h].undo[n]
          IN  IF n \in Live /\ mem[n].updateTime = old.updateTime
              THEN /\ mem' = Put(mem, n, Instance(old.state, Now))
                   /\ Follow(h, <<Save(compensateState), Finalize(compensateState)>>)
              ELSE Follow(h, Keep) /\ UNCHANGED mem
    /\ UNCHANGED <<disk, degraded, unsaved, backend>>

back == <<"back", Keep>>
deleteInstance(h) ==
    \E n \in Instances \cap Live :
        /\ BackendMuFree
        /\ Begin(h, n, n, <<Register(Keep), <<"rename", Keep>>, <<"drop", Keep>>,
                            Save(<<Undo, back, Save(Keep)>>), <<"remove", <<back, Undo, Save(Keep)>>>>>>)

renameData(h) ==
    LET n == call[h].on
    IN  /\ At(h, "rename")
        /\ \/ n \in backend /\ backend' = (backend \ {n}) \union {Tombstone(n)} /\ Proceed(h)
           \/ n \notin backend /\ Proceed(h) /\ UNCHANGED backend
           \/ Fail(h) /\ UNCHANGED backend
        /\ UNCHANGED <<mem, disk, degraded, unsaved>>
dropInstance(h) ==
    /\ At(h, "drop")
    /\ mem' = Drop(mem, {call[h].on})
    /\ Proceed(h)
    /\ UNCHANGED <<disk, degraded, unsaved, backend>>
renameBack(h) ==
    LET n == call[h].on
    IN  /\ At(h, "back")
        /\ backend' \in {backend} \union
              {(backend \ {Tombstone(n)}) \union {n} : x \in {n} \cap {m \in Instances : Tombstone(m) \in backend}}
        /\ Proceed(h)
        /\ UNCHANGED <<mem, disk, degraded, unsaved>>
removeTombstone(h) ==
    LET t == Tombstone(call[h].on)
    IN  /\ At(h, "remove")
        /\ \/ backend' = backend \ {t} /\ Proceed(h)
           \/ t \in backend /\ UNCHANGED backend /\ Fail(h)
        /\ UNCHANGED <<mem, disk, degraded, unsaved>>

(* loadState: an instance whose directory is gone is in ERROR, which is      *)
(* saved; a start that fails answers nothing.                                *)
Reconciled(doc) ==
    [n \in DOMAIN doc |-> IF n \in backend THEN doc[n] ELSE [doc[n] EXCEPT !.state = "ERROR"]]
filestore_loadState ==
    /\ call' = [h \in Handlers |-> Idle]
    /\ unsaved' = {} /\ mem' = Reconciled(disk)
    /\ \/ degraded' = "no" /\ disk' = mem'
       \/ degraded' = "closed" /\ disk' \in {disk, mem'}
    /\ UNCHANGED backend

filestore_persistState(h) == SaveOk(h) \/ SaveFails(h)

FilestoreNext ==
    \/ \E h \in Handlers :
          \/ createInstance(h) \/ createShareDirectories(h) \/ removeInstanceData(h)
          \/ patchInstance(h) \/ applyPatch(h)
          \/ deleteInstance(h) \/ renameData(h) \/ dropInstance(h) \/ renameBack(h) \/ removeTombstone(h)
    \/ \E h \in Handlers : filestore_persistState(h) \/ Rollback(h)
    \/ OperationStep \/ filestore_loadState

(* An instance that says READY has its data, under its own name or the one   *)
(* a failed delete could not change back, or a request is at work on it.     *)
ReadyHasData ==
    degraded = "no" => \A n \in Live : Settled(n) /\ mem[n].state = "READY"
                                       => {n, Tombstone(n)} \cap backend # {}
=============================================================================

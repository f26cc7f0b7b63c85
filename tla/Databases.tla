----------------------------- MODULE Databases ------------------------------
(* Shims that run or front a database or a cache. Each section is one shim   *)
(* with a next-state relation of its own; the sections share no state.       *)
EXTENDS ShimState

CONSTANTS
    MaxOperations   \* bound on the operations kept

-----------------------------------------------------------------------------
(* pkg/shims/alloydb: clusters, and instances that have a container.         *)

AlloyDBClusters == {<<"cluster", None, i>> : i \in Ids}
AlloyDBInstances == {<<"instance", c, i>> : c \in AlloyDBClusters, i \in SubIds}

(* An instance: its state, and the request whose Instance value it is.       *)
AlloyDBInstance(state, h) == [state |-> state, made |-> h]

createCluster(h) ==
    \E n \in AlloyDBClusters \ Live, b \in Bodies :
        Handle(h, Put(mem, n, b), {n}, <<Register(Revert), Save(Revert)>>)
patchCluster(h) ==
    \E n \in AlloyDBClusters \cap Live, b \in Bodies :
        Handle(h, Put(mem, n, b), {n}, <<Save(Revert), Register(Keep)>>)
deleteCluster(h) ==
    \E n \in AlloyDBClusters \cap Live :
        Under(n, mem) = {} /\ Handle(h, Drop(mem, {n}), {n}, <<Save(Revert), Register(Keep)>>)

(* createInstance: record, operation, save, container, READY, save.          *)
alloydb_createInstance(h) ==
    \E n \in AlloyDBInstances \ Live :
        /\ MayStart(h) /\ n[2] \in Live
        /\ Change(h, Put(mem, n, AlloyDBInstance("CREATING", h)), {n}, n,
                  <<Register(Revert), Save(Revert), <<"provision", Keep>>>>)

removeStep == <<"remove", Keep>>
setError == <<"error", Keep>>
cleanupStep == <<"cleanup", <<setError, Save(Keep)>>>>

Provision(h) ==
    /\ At(h, "provision")
    /\ \/ backend' = backend \union {call[h].on} /\ Follow(h, <<<<"ready", Keep>>>>)
       \/ backend' = backend \union {call[h].on}       \* failed after creating it
          /\ Follow(h, <<cleanupStep, removeStep, Save(Keep)>>)
       \/ UNCHANGED backend /\ Follow(h, <<removeStep, Save(Keep)>>)
    /\ UNCHANGED <<mem, disk, degraded, unsaved>>

(* READY is written to the request's own Instance value, found or not.       *)
Ready(h) ==
    /\ At(h, "ready")
    /\ LET n == call[h].on
       IN  mem' = IF n \in Live /\ mem[n].made = h THEN Put(mem, n, AlloyDBInstance("READY", h)) ELSE mem
    /\ Follow(h, <<Save(<<<<"cleanup", <<removeStep>>>>, removeStep>>)>>)
    /\ UNCHANGED <<disk, degraded, unsaved, backend>>

cleanupBackend(h) ==
    /\ At(h, "cleanup")
    /\ \/ backend' = backend \ {call[h].on} /\ Proceed(h)
       \/ UNCHANGED backend /\ Fail(h)
    /\ UNCHANGED <<mem, disk, degraded, unsaved>>

removeInstance(h) ==
    /\ At(h, "remove")
    /\ Record(h, Drop(mem, {call[h].on}), {call[h].on}, Tail(call[h].todo))
    /\ UNCHANGED <<disk, degraded, unsaved, backend>>

setInstanceState(h) ==
    /\ At(h, "error") \/ At(h, "reset")
    /\ LET n == call[h].on
           state == IF At(h, "error") THEN "ERROR" ELSE call[h].undo[n].state
       IN  Record(h, IF n \in Live THEN [mem EXCEPT ![n].state = state] ELSE mem, {n},
                  Tail(call[h].todo))
    /\ unsaved' = IF At(h, "reset") /\ degraded = "no" THEN unsaved \union {call[h].on} ELSE unsaved
    /\ UNCHANGED <<disk, degraded, backend>>

alloydb_deleteInstance(h) ==
    \E n \in AlloyDBInstances \cap Live :
        LET reset == <<<<"reset", Keep>>>>
        IN  /\ MayStart(h)
            /\ Change(h, [mem EXCEPT ![n].state = "DELETING"], {n}, n,
                      <<Register(reset), Save(reset), cleanupStep, removeStep, Save(Keep)>>)

(* loadState and reconcileBackends: every instance takes the state of its    *)
(* container, and the result is saved before the shim answers.               *)
reconcileBackends(doc, unknown) ==
    [n \in {m \in DOMAIN doc : m[1] = "instance" /\ m \notin backend \union unknown
                                  => doc[m].state # "DELETING"} |->
        IF n[1] # "instance" THEN doc[n]
        ELSE [doc[n] EXCEPT !.state = IF n \in unknown THEN "ERROR"
                                      ELSE IF n \in backend THEN "READY" ELSE "STOPPED"]]

initializeState ==
    /\ call' = [h \in Handlers |-> Idle]
    /\ unsaved' = {}
    /\ UNCHANGED backend
    /\ \/ degraded' = "closed" /\ mem' = Nothing /\ UNCHANGED disk
       \/ \E unknown \in SUBSET Of("instance", disk) :
             LET doc == reconcileBackends(disk, unknown)
             IN  /\ mem' = doc
                 /\ \/ degraded' = "no" /\ disk' = doc
                    \/ /\ degraded' = "closed" /\ Of("instance", disk) # {}
                       /\ disk' \in {disk, doc}

persistState(h) == SaveOk(h) \/ SaveFails(h)

AlloyDBNext ==
    \/ \E h \in Handlers :
          \/ createCluster(h) \/ patchCluster(h) \/ deleteCluster(h)
          \/ alloydb_createInstance(h) \/ Provision(h) \/ Ready(h) \/ cleanupBackend(h)
          \/ removeInstance(h) \/ setInstanceState(h) \/ alloydb_deleteInstance(h)
    \/ \E h \in Handlers : persistState(h) \/ Rollback(h)
    \/ OperationStep \/ initializeState

(* No container without a record: when nothing is under way and the store    *)
(* works, every container the shim made can still be found and deleted.      *)
AlloyDBBackendsRecorded == Quiet /\ degraded = "no" => backend \subseteq Live

-----------------------------------------------------------------------------
(* pkg/shims/bigtable: instances, their tables and clusters, and the         *)
(* finished operations on clusters; mutationMu is held for a whole request.  *)
(* A state says READY only while the instance has not been reloaded; it is   *)
(* left out.  The store is not guarded.                                      *)

BigtableInstances == {<<"instance", None, i>> : i \in Ids}
Tables == {<<"table", n, t>> : n \in BigtableInstances, t \in SubIds}
BigtableClusters == {<<"cluster", n, c>> : n \in BigtableInstances, c \in SubIds}

(* An operation is named after the time, and stays.                          *)
scopedClusterOperationName == <<"operation", None, Cardinality(Of("operation", mem)) + 1>>

routeInstances(h) ==
    \E n \in BigtableInstances :
        \/ \E b \in Bodies : Create(h, n, b)
        \/ DeleteAll(h, n, Under(n, mem))
routeTables(h) ==
    \E n \in Tables :
        \/ n[2] \in Live /\ \E b \in Bodies : Create(h, n, b)
        \/ Delete(h, n)
routeClusters(h) ==
    \E n \in BigtableClusters :
        LET o == scopedClusterOperationName
        IN  /\ o[3] <= MaxOperations
            /\ \/ /\ n[2] \in Live /\ n \notin Live
                  /\ \E b \in Bodies : Commit(h, Put(Put(mem, n, b), o, n), {n, o})
               \/ n \in Live /\ Commit(h, Put(Drop(mem, {n}), o, n), {n, o})

(* When the entry cannot be read the shim starts empty, with the store that  *)
(* could not read it and refuses every Save from then on.                    *)
NewAPI == StartWith(disk, "unread")

persistMetadata(h) == SaveOk(h) \/ SaveFails(h)

BigtableNext ==
    \/ \E h \in Handlers : routeInstances(h) \/ routeTables(h) \/ routeClusters(h)
    \/ \E h \in Handlers : persistMetadata(h) \/ Rollback(h)
    \/ NewAPI

(* No table or cluster outlives its instance, in memory or in the entry.     *)
NoOrphans ==
    \A doc \in {mem, disk} : \A n \in DOMAIN doc : n[2] # None => n[2] \in DOMAIN doc

-----------------------------------------------------------------------------
(* pkg/shims/memorystore, api.go: Redis instances, each a container that is  *)
(* started and deleted in the background.  There is no mutationMu: mu is     *)
(* released before each save and each call of the backend.  backend holds    *)
(* the containers; the operations, which only polling reads, are left out.   *)
(* The store is not guarded.                                                 *)

RedisInstances == {<<"instance", None, i>> : i \in Ids}
RedisInState(n, s) == IF n \in Live THEN Put(mem, n, s) ELSE mem

redis_createInstance(h) ==
    \E n \in RedisInstances \ Live :
        Handle(h, Put(mem, n, "CREATING"), {n}, <<Save(Revert), <<"provision", Keep, n>>>>)

(* A provisioning that fails may leave a container, which is cleaned up.     *)
ProvisionRedis(h) ==
    LET n == Head(call[h].todo)[3]
    IN  /\ At(h, "provision")
        /\ \/ backend' = backend \union {n} /\ Follow(h, <<<<"started", Keep, n, "READY">>>>)
           \/ /\ backend' \in {backend, backend \union {n}}
              /\ Follow(h, <<<<"started", Keep, n, "REPAIRING">>>>)
        /\ UNCHANGED <<mem, disk, degraded, unsaved>>
provisioned(h) ==
    LET n == Head(call[h].todo)[3]
        s == Head(call[h].todo)[4]
        cleanup == <<<<"cleanup", Keep, n>>>>
    IN  /\ At(h, "started")
        /\ Record(h, RedisInState(n, s), {n}, IF s = "READY" THEN <<Save(cleanup)>> ELSE cleanup)
        /\ UNCHANGED <<disk, degraded, unsaved, backend>>
(* The instance goes when its container is known to be gone.                 *)
cleanupRedisBackend(h) ==
    LET n == Head(call[h].todo)[3]
    IN  /\ At(h, "cleanup")
        /\ \/ backend' = backend \ {n} /\ Record(h, Drop(mem, {n}), {n}, <<Save(Keep)>>)
           \/ UNCHANGED backend /\ Record(h, RedisInState(n, "REPAIRING"), {n}, <<Save(Keep)>>)
        /\ UNCHANGED <<disk, degraded, unsaved>>

redis_deleteInstance(h) ==
    \E n \in RedisInstances \cap Live :
        Handle(h, Put(mem, n, "DELETING"), {n}, <<Save(Revert), <<"delete", Keep, n>>>>)
DeleteRedis(h) ==
    LET n == Head(call[h].todo)[3]
    IN  /\ At(h, "delete")
        /\ \/ backend' = backend \ {n} /\ Follow(h, <<<<"deleted", Keep, n>>>>) /\ UNCHANGED mem
           \/ UNCHANGED backend /\ Record(h, RedisInState(n, "REPAIRING"), {n}, <<Save(Keep)>>)
        /\ UNCHANGED <<disk, degraded, unsaved>>
deleted(h) ==
    /\ At(h, "deleted")
    /\ LET n == Head(call[h].todo)[3] IN Record(h, Drop(mem, {n}), {n}, <<Save(Keep)>>)
    /\ UNCHANGED <<disk, degraded, unsaved, backend>>

(* A deletion is resumed, an instance without a container is forgotten while *)
(* CREATING and REPAIRING otherwise; a start that cannot delete or save      *)
(* answers nothing.                                                          *)
NewAPIWithStore ==
    LET deleting == {n \in DOMAIN disk : disk[n] = "DELETING"}
        forgotten == {n \in DOMAIN disk \ backend : disk[n] = "CREATING"}
        Reconciled(R, F) ==
            [n \in DOMAIN disk \ (deleting \union F) |-> IF n \in R THEN "READY" ELSE "REPAIRING"]
    IN  /\ call' = [h \in Handlers |-> Idle] /\ unsaved' = {}
        /\ \E R \in SUBSET (backend \cap DOMAIN disk), F \in SUBSET forgotten, D \in SUBSET deleting :
              /\ backend' = backend \ D
              /\ \/ /\ D = deleting /\ degraded' = "no"
                    /\ mem' = Reconciled(R, F) /\ disk' = Reconciled(R, F)
                 \/ /\ D = deleting /\ degraded' = "closed"
                    /\ mem' = Nothing /\ disk' \in {disk, Reconciled(R, F)}
                 \/ D # deleting /\ degraded' = "closed" /\ mem' = Nothing /\ disk' = disk

persist(h) == SaveOk(h) \/ SaveFails(h)

RedisNext ==
    \/ \E h \in Handlers :
          \/ redis_createInstance(h) \/ ProvisionRedis(h) \/ provisioned(h) \/ cleanupRedisBackend(h)
          \/ redis_deleteInstance(h) \/ DeleteRedis(h) \/ deleted(h)
    \/ \E h \in Handlers : persist(h) \/ Rollback(h)
    \/ NewAPIWithStore

(* One request at a time: a container exists only for an instance on disk,   *)
(* whatever fails and wherever the daemon stops.                             *)
RedisBackendsRecorded == Serial => backend \subseteq DOMAIN disk
(* One request at a time: an instance shown as READY has its container, or   *)
(* the request that is at work on it says otherwise.                         *)
RedisRunningHasBackend ==
    Serial => \A n \in RedisInstances \cap Live : mem[n] = "READY" /\ Settled(n) => n \in backend

-----------------------------------------------------------------------------
(* pkg/shims/memorystore, memcache.go: Memcached instances, each a container,*)
(* and for each admitted operation an association with its instance, so that *)
(* the next start can reconcile what was interrupted.  A request takes       *)
(* mutationMu or is refused; the background work holds it until its outcome  *)
(* is saved.  Metadata is saved, then published.                             *)

MemcacheInstances == {<<"instance", None, i>> : i \in Ids}
MemcacheInstance(s, b) == [state |-> s, displayName |-> b]
MemcacheInState(n, s) == [mem[n] EXCEPT !.state = s]
Operation(n, k) == <<"operation", n, k>>
Operations(doc) == Of("operation", doc)
FreshOperation(n) ==
    {Operation(n, k) : k \in {i \in 1..MaxOperations : \A o \in Operations(mem) \union Operations(disk) : o[3] # i
                                                       /\ \A j \in 1..(i - 1) : \E p \in Operations(mem) : p[3] = j}}

mutationMu == <<"mutationMu">>
Free == \A g \in Handlers : call[g].on # mutationMu
Acquire(h, todo) == call' = [call EXCEPT ![h] = [Idle EXCEPT !.todo = todo, !.on = mutationMu]]

(* Saved and published, or refused and the store degraded for good.          *)
commitMetadata(new, ok, failed) ==
    LET candidate == Restore(mem, new)
    IN  \/ degraded = "no" /\ mem' = candidate /\ disk' = candidate /\ UNCHANGED degraded /\ ok
        \/ degraded = "no" /\ disk' = disk /\ degraded' = "clean" /\ UNCHANGED mem /\ failed
        \/ degraded = "no" /\ disk' = candidate /\ degraded' = "torn" /\ UNCHANGED mem /\ failed
        \/ degraded # "no" /\ UNCHANGED <<mem, disk, degraded>> /\ failed
Commit_(else, n, v) == <<"commit", else, [m \in {n} |-> v]>>
commit(h) ==
    /\ At(h, "commit")
    /\ commitMetadata(Head(call[h].todo)[3], Proceed(h), Fail(h))
    /\ UNCHANGED <<unsaved, backend>>

(* The operation is made durably terminal, and then its association cleared; *)
(* when the first fails the second does not happen.                          *)
Finalized(o) == <<<<"finalize", Keep>>, <<"commit", Keep, [m \in {o} |-> None]>>>>
Unresolved == <<<<"finalize", Keep>>>>

(* A request admits an operation: one commit of the instance and the         *)
(* association.                                                              *)
admit(h, n, v, action, work) ==
    /\ MayStart(h) /\ Free /\ degraded = "no"
    /\ \E o \in FreshOperation(n) :
          commitMetadata([m \in {n, o} |-> IF m = n THEN v ELSE action],
                         call' = [call EXCEPT ![h] = [Idle EXCEPT !.todo = <<<<work, Keep, n, o>>>>]], UNCHANGED call)
    /\ UNCHANGED <<unsaved, backend>>
createMemcacheInstance(h) ==
    \E n \in MemcacheInstances \ Live, b \in Bodies :
        admit(h, n, MemcacheInstance("CREATING", b), "create", "provision")
updateMemcacheInstance(h) ==
    \E n \in MemcacheInstances \cap Live, b \in Bodies :
        mem[n].state = "READY" /\ admit(h, n, MemcacheInstance("UPDATING", b), "update", "update")
deleteMemcacheInstance(h) ==
    \E n \in MemcacheInstances \cap Live :
        mem[n].state = "READY" /\ admit(h, n, MemcacheInState(n, "DELETING"), "delete", "delete")

(* In the background.  A container that may have been left is deleted before *)
(* the instance is forgotten.                                                *)
completeMemcacheCreate(h) ==
    LET n == Head(call[h].todo)[3]
        o == Head(call[h].todo)[4]
        forget == <<Commit_(Unresolved, n, None)>> \o Finalized(o)
        discard(after) == <<<<"discard", Unresolved, n>>>> \o after
    IN  /\ At(h, "provision") /\ Free
        /\ \/ /\ backend' = backend \union {n}
              /\ Acquire(h, <<Commit_(discard(forget), n, MemcacheInState(n, "READY"))>> \o Finalized(o))
           \/ backend' \in {backend, backend \union {n}} /\ Acquire(h, discard(forget))
           \/ UNCHANGED backend /\ Acquire(h, Unresolved)
           \/ n \notin backend /\ UNCHANGED backend /\ Acquire(h, forget)
        /\ UNCHANGED <<mem, disk, degraded, unsaved>>
completeMemcacheUpdate(h) ==
    LET n == Head(call[h].todo)[3]
        o == Head(call[h].todo)[4]
    IN  /\ At(h, "update") /\ Free
        /\ Acquire(h, IF n \in Live THEN <<Commit_(Unresolved, n, MemcacheInState(n, "READY"))>> \o Finalized(o)
                      ELSE Unresolved)
        /\ UNCHANGED <<mem, disk, degraded, unsaved, backend>>
completeMemcacheDelete(h) ==
    LET n == Head(call[h].todo)[3]
        o == Head(call[h].todo)[4]
    IN  /\ At(h, "delete") /\ Free
        /\ Acquire(h, <<<<"discard", Unresolved, n>>, Commit_(Unresolved, n, None)>> \o Finalized(o))
        /\ UNCHANGED <<mem, disk, degraded, unsaved, backend>>
deleteMemcacheBackend(h) ==
    /\ At(h, "discard")
    /\ \/ backend' = backend \ {Head(call[h].todo)[3]} /\ Proceed(h)
       \/ UNCHANGED backend /\ Fail(h)
    /\ UNCHANGED <<mem, disk, degraded, unsaved>>

(* What a start accepts: every association has its instance in a state that  *)
(* fits, one association to an instance, and no instance in transition       *)
(* without one.                                                              *)
restoreMemcacheOperations(doc) ==
    /\ \A o \in Operations(doc) :
          /\ \A p \in Operations(doc) : p[2] = o[2] => p = o
          /\ CASE doc[o] = "create" -> o[2] \in DOMAIN doc /\ doc[o[2]].state \in {"CREATING", "READY"}
               [] doc[o] = "update" -> o[2] \in DOMAIN doc /\ doc[o[2]].state \in {"UPDATING", "READY"}
               [] doc[o] = "delete" -> o[2] \in DOMAIN doc => doc[o[2]].state = "DELETING"
    /\ \A n \in Of("instance", doc) :
          doc[n].state \in {"CREATING", "UPDATING", "DELETING"} => \E o \in Operations(doc) : o[2] = n

(* A start: the associations one after the other, then the other instances.  *)
(* mutationMu stands for the start, during which no request is answered; any *)
(* error ends it, with a shim that answers nothing.                          *)
Refused == <<<<"refuse", Keep>>>>
newMemcacheAPI ==
    /\ unsaved' = {} /\ UNCHANGED <<disk, backend>>
    /\ \/ /\ restoreMemcacheOperations(disk)
          /\ mem' = disk /\ degraded' = "no"
          /\ \E h \in Handlers :
                call' = [g \in Handlers |-> IF g = h /\ disk # Nothing
                                            THEN [Idle EXCEPT !.todo = <<<<"reconcile", Keep, {}>>>>, !.on = mutationMu]
                                            ELSE Idle]
       \/ /\ mem' = Nothing /\ degraded' = "closed"
          /\ call' = [g \in Handlers |-> Idle]
(* Whether Docker answers, and what there is, decide; an operation that      *)
(* cannot be decided keeps its association.                                  *)
reconcileMemcacheOperation(h) ==
    LET done == Head(call[h].todo)[3]
    IN  /\ At(h, "reconcile")
        /\ \E o \in Operations(mem) :
              LET n == o[2]
                  rest == <<<<"reconcile", Keep, done \union {o}>>>>
                  resolve(v) == <<<<"commit", Refused, [m \in {n} |-> v]>>, <<"finalize", Refused>>,
                                  <<"commit", Refused, [m \in {o} |-> None]>>>> \o rest
              IN  /\ o \notin done
                  /\ \/ Follow(h, rest) /\ UNCHANGED backend
                     \/ /\ n \in backend /\ mem[o] # "delete" /\ UNCHANGED backend
                        /\ Follow(h, resolve(MemcacheInState(n, "READY")))
                     \/ n \notin backend /\ UNCHANGED backend /\ Follow(h, resolve(None))
                     \/ n \in backend /\ mem[o] = "delete" /\ backend' = backend \ {n} /\ Follow(h, resolve(None))
        /\ UNCHANGED <<mem, disk, degraded, unsaved>>
reconcile(h) ==
    LET done == Head(call[h].todo)[3]
        rest == {n \in Of("instance", mem) : \A o \in done : o[2] # n}
        new(R) == [n \in rest |-> MemcacheInState(n, IF n \in R THEN "READY" ELSE "STATE_UNSPECIFIED")]
    IN  /\ At(h, "reconcile") /\ Operations(mem) \subseteq done
        /\ \E R \in SUBSET (rest \cap backend) :
              IF \A n \in rest : new(R)[n] = mem[n] THEN Proceed(h) /\ UNCHANGED <<mem, disk, degraded>>
              ELSE commitMetadata(new(R), Proceed(h), Follow(h, Refused))
        /\ UNCHANGED <<unsaved, backend>>
refuse(h) ==
    /\ At(h, "refuse")
    /\ mem' = Nothing /\ degraded' = "closed" /\ Proceed(h)
    /\ UNCHANGED <<disk, unsaved, backend>>

MemcacheNext ==
    \/ \E h \in Handlers :
          \/ createMemcacheInstance(h) \/ updateMemcacheInstance(h) \/ deleteMemcacheInstance(h)
          \/ completeMemcacheCreate(h) \/ completeMemcacheUpdate(h) \/ completeMemcacheDelete(h)
          \/ deleteMemcacheBackend(h) \/ commit(h)
          \/ reconcileMemcacheOperation(h) \/ reconcile(h) \/ refuse(h)
    \/ OperationStep \/ newMemcacheAPI

(* A container exists only for an instance on disk: whatever fails and       *)
(* wherever the daemon stops, the next start knows whose it is.              *)
MemcacheBackendsRecorded == backend \subseteq DOMAIN disk
(* An instance shown as READY with no operation left undecided has its       *)
(* container, while nobody is at work.                                       *)
MemcacheRunningHasBackend ==
    Free => \A n \in MemcacheInstances \cap Live :
               mem[n].state = "READY" /\ (\A o \in Operations(mem) : o[2] # n) => n \in backend
=============================================================================

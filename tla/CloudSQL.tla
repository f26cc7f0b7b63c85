------------------------------ MODULE CloudSQL ------------------------------
(* pkg/shims/cloudsql: database instances, each a container and a volume     *)
(* made in the background, with the databases and users created inside it.   *)
(* adminMu is held from a request until its background work is done, so the  *)
(* handlers and the reconciliation after a start take turns; the store is    *)
(* not guarded.  Whether an instance may be touched is decided by a local    *)
(* marker, a file outside the entry, written before it: backend holds the    *)
(* markers, the containers and the volumes.                                  *)
EXTENDS ShimState

Instances == {<<"instance", None, i>> : i \in Ids}
Databases == {<<"database", n, x>> : n \in Instances, x \in SubIds}
Users == {<<"user", n, x>> : n \in Instances, x \in SubIds}
Marker(n) == <<"marker", n>>
Volume(n) == <<"volume", n>>
Container(n) == <<"container", n>>

(* state: SUSPENDED is split by the reason the instance shows: RECONCILING,  *)
(* RETRYABLE, or SUSPENDED for good.  phase: "image" until the creation      *)
(* intent is saved.  reconcile: the key is in api.reconcile; preserved: in   *)
(* api.preservedInstances, the start shows it suspended and every save       *)
(* writes it as it was read.                                                 *)
Instance(s, phase) == [state |-> s, phase |-> phase, reconcile |-> FALSE, preserved |-> FALSE]
InState(n, s) == Put(mem, n, [mem[n] EXCEPT !.state = s])
Set(n, s) == <<"set", Keep, n, s>>
On(h) == Head(call[h].todo)[3]

set(h) ==
    /\ At(h, "set")
    /\ Record(h, InState(On(h), Head(call[h].todo)[4]), {On(h)}, Tail(call[h].todo))
    /\ UNCHANGED <<disk, degraded, unsaved, backend>>
(* The instance and all that is kept for it leave the maps.                  *)
forget(h) ==
    LET S == {On(h)} \union Under(On(h), mem)
    IN  /\ At(h, "forget")
        /\ mem' = Drop(mem, S)
        /\ call' = [call EXCEPT ![h].todo = Tail(@), ![h].undo = Before(S)]
        /\ UNCHANGED <<disk, degraded, unsaved, backend>>

-----------------------------------------------------------------------------
(* Local provenance.                                                         *)
writeCloudSQLLocalProvenance(h) ==
    /\ At(h, "mark")
    /\ \/ backend' = backend \union {Marker(On(h))} /\ Proceed(h)
       \/ UNCHANGED backend /\ Fail(h)
    /\ UNCHANGED <<mem, disk, degraded, unsaved>>
removeCloudSQLLocalProvenance(h) ==
    /\ At(h, "unmark")
    /\ backend' \in {backend, backend \ {Marker(On(h))}}
    /\ Proceed(h)
    /\ UNCHANGED <<mem, disk, degraded, unsaved>>
cloudSQLHasLocalProvenance(n) == Marker(n) \in backend

-----------------------------------------------------------------------------
(* Creation.  What a failed attempt leaves is forgotten, unless something    *)
(* could not be cleaned up or that could not be saved: then the instance     *)
(* stays as an ERROR from which its deletion can be tried.                   *)
Error(n) == <<Set(n, "ERROR"), Save(Keep)>>
rollbackCreate(n) == <<<<"forget", Keep, n>>, Save(<<Undo>> \o Error(n)), <<"unmark", Keep, n>>>>

createInstance(h) ==
    \E n \in Instances \ Live :
        Handle(h, Put(mem, n, Instance("PENDING_CREATE", "image")), {n},
               <<<<"mark", Revert, n>>, Save(<<Undo, <<"unmark", Keep, n>>>>),
                 Register(Error(n)), <<"prepare", Keep, n>>>>)
(* The image is pulled, and the creation intent saved before anything is     *)
(* created.  A container of that name refuses.                               *)
PrepareCloudSQLVM(h) ==
    LET n == On(h)
    IN  /\ At(h, "prepare")
        /\ \/ /\ Container(n) \notin backend
              /\ Record(h, Put(mem, n, [mem[n] EXCEPT !.phase = "intent"]), {n},
                        <<Save(rollbackCreate(n)), <<"provision", Keep, n>>>>)
           \/ Follow(h, rollbackCreate(n)) /\ UNCHANGED mem
        /\ UNCHANGED <<disk, degraded, unsaved, backend>>
(* A failure leaves any part of the backend and is tried again later.        *)
ProvisionCloudSQLVM(h) ==
    LET n == On(h)
        made == {Volume(n), Container(n)}
    IN  /\ At(h, "provision")
        /\ \/ backend' = backend \union made /\ Follow(h, <<<<"runnable", Keep, n>>>>) /\ UNCHANGED mem
           \/ /\ \E part \in SUBSET made : backend' = backend \union part
              /\ Record(h, Put(mem, n, [mem[n] EXCEPT !.state = "RETRYABLE", !.reconcile = TRUE]), {n},
                        <<Save(<<<<"close", Keep>>>>)>>)
        /\ UNCHANGED <<disk, degraded, unsaved>>
close(h) ==
    /\ At(h, "close")
    /\ degraded' = "closed" /\ Proceed(h)
    /\ UNCHANGED <<mem, disk, unsaved, backend>>
(* The instance is saved as RUNNABLE before it is shown so.                  *)
publishRunnable(h) ==
    LET n == On(h)
        next == InState(n, "RUNNABLE")
        failed == Follow(h, <<<<"unprovision", <<<<"keep", Keep, n>>>>, n>>>>)
    IN  /\ At(h, "runnable")
        /\ \/ mem' = next /\ disk' = next /\ degraded' = "no" /\ unsaved' = {} /\ Proceed(h)
           \/ UNCHANGED <<mem, disk, unsaved>> /\ degraded' = Failure("clean") /\ failed
           \/ UNCHANGED <<mem, unsaved>> /\ disk' = next /\ degraded' = "torn" /\ failed
        /\ UNCHANGED backend
unprovision(h) ==
    LET n == On(h)
    IN  /\ At(h, "unprovision")
        /\ \/ backend' = backend \ {Volume(n), Container(n)} /\ Follow(h, rollbackCreate(n))
           \/ backend' \in {backend, backend \ {Container(n)}} /\ Follow(h, Error(n))
        /\ UNCHANGED <<mem, disk, degraded, unsaved>>

-----------------------------------------------------------------------------
(* Deletion, only of an instance this profile has made.                      *)
deleteInstance(h) ==
    \E n \in Instances \cap Live :
        /\ cloudSQLHasLocalProvenance(n)
        /\ Handle(h, InState(n, "PENDING_DELETE"), {n},
                  <<Save(Revert), Register(Error(n))>>
                  \o (IF mem[n].phase = "intent" THEN <<<<"delete", Keep, n>>>> ELSE <<>>)
                  \o rollbackCreate(n))
DeleteCloudSQLVMContext(h) ==
    LET n == On(h)
    IN  /\ At(h, "delete")
        /\ \/ backend' = backend \ {Volume(n), Container(n)} /\ Proceed(h)
           \/ backend' \in {backend, backend \ {Container(n)}} /\ Follow(h, Error(n))
        /\ UNCHANGED <<mem, disk, degraded, unsaved>>

-----------------------------------------------------------------------------
(* Databases and users.  The statement runs in the container first.          *)
Admin(else, m) == <<"admin", else, m>>
Runnable(n) == n \in Live /\ mem[n].state = "RUNNABLE" /\ ~mem[n].preserved
executeAdmin(h) ==
    LET n == On(h)[2]
    IN  /\ At(h, "admin")
        /\ \/ cloudSQLHasLocalProvenance(n) /\ Container(n) \in backend /\ Proceed(h)
           \/ Fail(h)
        /\ UNCHANGED <<mem, disk, degraded, unsaved, backend>>
createChild(h, Children) ==
    \E m \in Children \ Live :
        /\ Runnable(m[2])
        /\ Look(h, None, <<Admin(Keep, m), Apply([x \in {m} |-> "listed"]),
                           Save(<<Admin(Error(m[2]), m), Undo>>)>>)
deleteChild(h, Children) ==
    \E m \in Children \cap Live :
        /\ Runnable(m[2])
        /\ Look(h, None, <<Admin(Keep, m), Apply([x \in {m} |-> None]), Save(<<Undo>> \o Error(m[2]))>>)
routeDatabases(h) == createChild(h, Databases) \/ deleteChild(h, Databases)
routeUsers(h) == createChild(h, Users) \/ deleteChild(h, Users)

-----------------------------------------------------------------------------
(* The start: what was running or being created is suspended until it has    *)
(* been reconciled, a deletion is over, and an instance without its marker   *)
(* is only shown.                                                            *)
Restarted(n) ==
    LET v == [disk[n] EXCEPT !.reconcile = FALSE, !.preserved = FALSE]
    IN  IF ~cloudSQLHasLocalProvenance(n) THEN [v EXCEPT !.preserved = TRUE]
        ELSE IF v.phase = "image" THEN [v EXCEPT !.state = "SUSPENDED"]
        ELSE CASE v.state \in {"RUNNABLE", "PENDING_CREATE", "RETRYABLE"} ->
                    [v EXCEPT !.state = "RECONCILING", !.reconcile = TRUE]
               [] v.state \in {"ERROR", "PENDING_DELETE"} -> [v EXCEPT !.state = "ERROR"]
               [] OTHER -> [v EXCEPT !.state = "SUSPENDED"]
newAPIWithStoreDependencies ==
    LET doc == [m \in DOMAIN disk |-> IF m \in Instances THEN Restarted(m) ELSE disk[m]]
    IN  /\ call' = [h \in Handlers |-> Idle]
        /\ \/ mem' = doc /\ degraded' = "no" /\ unsaved' = DOMAIN doc \cap Instances
           \/ mem' = Nothing /\ degraded' = "closed" /\ unsaved' = {}
        /\ UNCHANGED <<disk, backend>>

(* After the start and before each later request that reads: the containers  *)
(* of some of the waiting instances are brought up, when their volumes are   *)
(* there; then all is saved, the instances not tried as the start found them.*)
ReconcileCloudSQLVMResolved(n) == Volume(n) \in backend
reconcileRestoredOnce ==
    LET waiting == {n \in Instances \cap Live : mem[n].reconcile}
    IN  /\ Quiet /\ degraded # "closed"
        /\ \E tried \in SUBSET waiting : \E up \in SUBSET {n \in tried : ReconcileCloudSQLVMResolved(n)} :
              LET next == [m \in Live |->
                              IF m \in up THEN Instance("RUNNABLE", mem[m].phase)
                              ELSE IF m \in tried THEN [mem[m] EXCEPT !.state = "RETRYABLE"] ELSE mem[m]]
                  Source(m) == m \in waiting \ tried /\ mem[m].state = "RECONCILING" /\ m \in DOMAIN disk
                  saved == [m \in Live |-> IF Source(m) THEN disk[m] ELSE next[m]]
              IN  /\ tried # {} \/ unsaved # {}
                  /\ backend' = backend \union {Container(n) : n \in up}
                  /\ \/ /\ disk' = saved /\ mem' = next /\ degraded' = "no"
                        /\ unsaved' = {m \in Live : Source(m)}
                     \/ /\ disk' \in {disk, saved} /\ degraded' = "closed" /\ UNCHANGED unsaved
                        /\ mem' = [m \in Live |-> IF m \in waiting THEN [mem[m] EXCEPT !.state = "ERROR"] ELSE mem[m]]
        /\ UNCHANGED call

persistMetadata(h) == SaveOk(h) \/ SaveFails(h)

Next ==
    \/ \E h \in Handlers :
          \/ createInstance(h) \/ PrepareCloudSQLVM(h) \/ ProvisionCloudSQLVM(h) \/ publishRunnable(h)
          \/ unprovision(h) \/ close(h) \/ set(h) \/ forget(h)
          \/ writeCloudSQLLocalProvenance(h) \/ removeCloudSQLLocalProvenance(h)
          \/ deleteInstance(h) \/ DeleteCloudSQLVMContext(h)
          \/ routeDatabases(h) \/ routeUsers(h) \/ executeAdmin(h) \/ ApplyChange(h)
    \/ \E h \in Handlers : persistMetadata(h) \/ Rollback(h)
    \/ OperationStep \/ newAPIWithStoreDependencies \/ reconcileRestoredOnce

(* A container or a volume exists only for an instance on disk whose saved   *)
(* creation intent and local marker let a later start find and delete it,    *)
(* whatever fails and wherever the daemon stops.                             *)
BackendsRecorded ==
    \A n \in Instances : {Volume(n), Container(n)} \cap backend # {} =>
        n \in DOMAIN disk /\ disk[n].phase = "intent" /\ cloudSQLHasLocalProvenance(n)
(* An instance that answers as RUNNABLE has its container and its volume,    *)
(* unless a request is at work on it.                                        *)
RunningHasBackend ==
    \A n \in Instances : Runnable(n) /\ Settled(n) => {Volume(n), Container(n)} \subseteq backend
=============================================================================

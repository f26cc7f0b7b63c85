---------------------------- MODULE ComputeState ----------------------------
(* pkg/shims/compute, what its parts share: one entry of the profile's store *)
(* for all resources, saved under persistMu, and initializationErr, after    *)
(* which no request is answered ("closed") while background work goes on.    *)
EXTENDS ShimState

Sticky(d) == IF degraded = "closed" THEN "closed" ELSE d

persistMetadata(h) ==
    /\ At(h, "save") /\ ~Waits(h)
    /\ \/ disk' = mem /\ degraded' = Sticky("no") /\ unsaved' = {} /\ Proceed(h)
       \/ /\ \/ disk' = disk /\ degraded' = Sticky(Failure("clean"))
             \/ disk' = mem /\ degraded' = Sticky("torn")
          /\ unsaved' = IF Head(call[h].todo)[2] = Keep THEN unsaved \union Touches(h) ELSE unsaved
          /\ Fail(h)
    /\ UNCHANGED <<mem, backend>>

(* A failed save is read back: the new metadata is a success, the old a      *)
(* refusal, anything else closes the shim.                                   *)
Planned(n, v) == IF v = None THEN Drop(mem, {n}) ELSE Put(mem, n, v)
saveMetadataTransaction(h) ==
    LET next == Planned(Head(call[h].todo)[3], Head(call[h].todo)[4])
    IN  /\ At(h, "transact")
        /\ \/ disk' = next /\ degraded' = Sticky("no") /\ unsaved' = {} /\ Proceed(h)
           \/ disk' = disk /\ disk = mem /\ degraded' = Sticky(Failure("clean")) /\ UNCHANGED unsaved /\ Fail(h)
           \/ disk' = next /\ degraded' = Sticky("torn") /\ UNCHANGED unsaved /\ Proceed(h)
           \/ disk' \in {disk, next} /\ degraded' = "closed" /\ UNCHANGED unsaved /\ Fail(h)
        /\ UNCHANGED <<mem, backend>>
publish(h) ==
    /\ At(h, "publish")
    /\ mem' = Planned(Head(call[h].todo)[3], Head(call[h].todo)[4])
    /\ Proceed(h)
    /\ UNCHANGED <<disk, degraded, unsaved, backend>>
(* The operation of a refused change is made terminal; the shim closes when  *)
(* that fails.                                                               *)
failControlPlaneOperation(h) ==
    /\ At(h, "failop")
    /\ degraded' \in {degraded, "closed"} /\ Proceed(h)
    /\ UNCHANGED <<mem, disk, unsaved, backend>>
setInitializationError(h) ==
    /\ At(h, "close")
    /\ degraded' = "closed" /\ Proceed(h)
    /\ UNCHANGED <<mem, disk, unsaved, backend>>

Transact(n, v) == <<"transact", <<<<"failop", Keep>>>>, n, v>>
Publish(n, v) == <<"publish", Keep, n, v>>
Close == <<"close", Keep>>
(* A handler that holds persistMu from its check to its publication.         *)
Transaction(h, n, todo) ==
    /\ MayStart(h) /\ PersistMuFree
    /\ call' = [call EXCEPT ![h] = [todo |-> <<Register(Keep)>> \o todo, undo |-> Before({n}), on |-> persistMu]]
    /\ UNCHANGED <<mem, disk, degraded, unsaved, backend>>

ComputeStep ==
    \/ \E h \in Handlers :
          \/ persistMetadata(h) \/ saveMetadataTransaction(h) \/ publish(h)
          \/ failControlPlaneOperation(h) \/ setInitializationError(h) \/ Rollback(h)
    \/ OperationStep
=============================================================================

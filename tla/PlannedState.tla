---------------------------- MODULE PlannedState ----------------------------
(* The discipline of the shims that save first: a handler holds persistMu,   *)
(* copies the maps, changes the copy, saves it, and publishes the change in  *)
(* memory only when saveMetadataTransaction has found it durable.            *)
EXTENDS ShimState

(* next is the changed copy, S the names that differ from the maps; after    *)
(* is what the handler does once the change is published.                    *)
PlanThen(h, next, S, todo, after) ==
    /\ MayStart(h) /\ PersistMuFree
    /\ call' = [call EXCEPT ![h] = [todo |-> todo \o <<<<"publish", Keep, next>>>> \o after,
                                    undo |-> Before(S), on |-> persistMu]]
    /\ UNCHANGED <<mem, disk, degraded, unsaved, backend>>
Plan(h, next, S, todo) == PlanThen(h, next, S, todo, <<>>)

CommitPlanned(h, n, v) ==
    LET next == IF v = None THEN Drop(mem, {n}) ELSE Put(mem, n, v)
    IN  Plan(h, next, {n}, <<<<"transact", Keep, next>>>>)

(* A save that fails is read back: the new metadata there is a success, the  *)
(* old one a refusal, an unreadable entry closes the shim.                   *)
(* In the fault a failed save is not read back.                              *)
saveMetadataUnchecked(h) ==
    LET next == Head(call[h].todo)[3]
    IN  /\ At(h, "transact")
        /\ \/ Writable /\ degraded' = "no" /\ disk' = next /\ Proceed(h)
           \/ Writable /\ degraded' = Failure("clean") /\ disk' = disk /\ Fail(h)
           \/ Writable /\ degraded' = "torn" /\ disk' = next /\ Fail(h)
        /\ UNCHANGED <<mem, unsaved, backend>>
saveMetadataTransaction(h) ==
    LET next == Head(call[h].todo)[3]
        ReadBack == \/ disk' = next /\ Proceed(h)
                    \/ disk' # next /\ Fail(h)
    IN  /\ At(h, "transact")
        /\ \/ Writable /\ degraded' = "no" /\ disk' = next /\ Proceed(h)
           \/ Writable /\ degraded' = Failure("clean") /\ disk' = disk /\ ReadBack
           \/ Writable /\ degraded' = "torn" /\ disk' = next /\ ReadBack
           \/ ~Writable /\ UNCHANGED <<degraded, disk>> /\ ReadBack
           \/ degraded' = "closed" /\ disk' \in {disk, IF Writable THEN next ELSE disk} /\ Fail(h)
        /\ UNCHANGED <<mem, unsaved, backend>>

(* Two shims save the copy without reading it back.                          *)
saveCopy(h) ==
    LET next == Head(call[h].todo)[3]
    IN  /\ At(h, "copy")
        /\ \/ Writable /\ degraded' = "no" /\ disk' = next /\ Proceed(h)
           \/ Writable /\ degraded' = Failure("clean") /\ disk' = disk /\ Fail(h)
           \/ Writable /\ degraded' = "torn" /\ disk' = next /\ Fail(h)
           \/ ~Writable /\ UNCHANGED <<degraded, disk>> /\ Fail(h)
        /\ UNCHANGED <<mem, unsaved, backend>>

publish(h) ==
    /\ At(h, "publish")
    /\ mem' = Restore(mem, [n \in Touches(h) |-> Value(Head(call[h].todo)[3], n)])
    /\ Proceed(h)
    /\ UNCHANGED <<disk, degraded, unsaved, backend>>

(* The same as one step, where mutationMu is held from the copy to the       *)
(* publication and a save can follow a failed one: afterwards memory and     *)
(* entry agree, or the shim has closed.  ok and failed say how the handler   *)
(* goes on.                                                                  *)
commitMetadata(next, ok, failed) ==
    \/ mem' = next /\ disk' = next /\ UNCHANGED degraded /\ ok
    \/ UNCHANGED <<mem, disk, degraded>> /\ failed
    \/ UNCHANGED mem /\ disk' \in {disk, next} /\ degraded' = "closed" /\ failed
(* Background work that closes the shim after any error of the save.         *)
commitMetadataOutcome(next, ok, failed) ==
    \/ mem' = next /\ disk' = next /\ UNCHANGED degraded /\ ok
    \/ mem' = next /\ disk' = next /\ degraded' = "closed" /\ failed
    \/ UNCHANGED mem /\ disk' \in {disk, next} /\ degraded' = "closed" /\ failed

PlannedStep == \E h \in Handlers : saveMetadataTransaction(h) \/ publish(h)
CopyStep == \E h \in Handlers : saveCopy(h) \/ publish(h)

(* Nobody ever sees what is not on disk: memory runs behind the entry by the *)
(* change of the one handler that is publishing, and by nothing else, also   *)
(* after the store has failed.                                               *)
PublishedIsDurable ==
    degraded # "closed" =>
        /\ \A n \in DOMAIN mem \union DOMAIN disk : Value(mem, n) # Value(disk, n) => ~Settled(n)
        /\ Quiet => mem = disk
=============================================================================

-------------------------------- MODULE GKE ---------------------------------
(* pkg/shims/gke: clusters, each optionally a Kind cluster under a fresh     *)
(* random name (the nonce) with a kubeconfig file and Compute instances for  *)
(* its nodes.  KindBackend records where a creation or deletion is in an     *)
(* intent, one per cluster name, in two slots written in turn, outside the   *)
(* entry.  The store is not guarded; mu is released before every save and    *)
(* every call of the backend.  The operation records, which only polling     *)
(* reads, are left out, except that their save ends all background work.     *)
EXTENDS ShimState

CONSTANT MaxNonce     \* bound: the random backend names

Clusters == {<<"cluster", None, i>> : i \in Ids}
Ownership(n) == <<"ownership", None, n[3]>>   \* api.ownerships: the nonce

(* backend: the kubeconfig file, the Kind clusters, the intent, the nodes;   *)
(* and until the daemon stops kubeconfigOwners.                              *)
File(n, k) == <<"file", n, k>>
Filed(n) == \E k \in 1..MaxNonce : File(n, k) \in backend
Nodes(n) == <<"nodes", n>>
Kind(n, k) == <<"kind", n, k>>
Owner(n, k) == <<"owner", n, k>>
Owners(n) == {Owner(n, x) : x \in 1..MaxNonce}
Intent(b, n) == {e \in b : e[1] = "intent" /\ e[2] = n}
writeKubeconfigIntent(b, n, phase, k) == (b \ Intent(b, n)) \union {<<"intent", n, phase, k>>}
(* A write that reports an error may have been made all the same.            *)
Tries(b, n, phase, k) == {b, writeKubeconfigIntent(b, n, phase, k)}
Nonces == {e[3] : e \in {x \in backend : x[1] \in {"kind", "owner", "file"}}}
          \union {e[4] : e \in {x \in backend : x[1] = "intent"}}
          \union {Value(mem, Ownership(n)) : n \in Clusters} \union {Value(disk, Ownership(n)) : n \in Clusters}
kubeconfigOwnershipFromTarget == {k \in 1..MaxNonce : k \notin Nonces}

On(h) == Head(call[h].todo)[3]
Nonce(h) == Head(call[h].todo)[4]
Step(s, n, k) == <<s, Keep, n, k>>
WithStatus(n, s) == IF n \in Live THEN Put(mem, n, s) ELSE mem
finishGKEOperation == <<Save(Keep)>>
markClusterError(n) == <<Step("error", n, None), Save(Keep)>>
setError(h) ==
    /\ At(h, "error")
    /\ Record(h, WithStatus(On(h), "ERROR"), {On(h)} \cap Live, Tail(call[h].todo))
    /\ UNCHANGED <<disk, degraded, unsaved, backend>>

(* A cluster whose creation left nothing is forgotten, or shown as ERROR     *)
(* (without its ownership) when that cannot be saved.                        *)
rollbackCreate(n) ==
    <<Step("forget", n, None), Save(<<Undo>> \o markClusterError(n) \o finishGKEOperation)>> \o finishGKEOperation
Drops(h, S, old) ==
    /\ mem' = Drop(mem, S)
    /\ call' = [call EXCEPT ![h].todo = Tail(@), ![h].undo = old]
    /\ UNCHANGED <<disk, degraded, unsaved, backend>>
removeCluster(h) ==
    LET n == On(h)
        kept == {n} \cap Live
    IN  /\ At(h, "forget")
        /\ Drops(h, {n, Ownership(n)}, [m \in kept \union {Ownership(n)} |-> IF m = n THEN mem[n] ELSE None])

-----------------------------------------------------------------------------
(* Creation.                                                                 *)
createCluster(h) ==
    \E n \in Clusters \ Live :
        Handle(h, Put(mem, n, "PROVISIONING"), {n},
               <<Register(markClusterError(n)), Save(markClusterError(n)), Step("prepare", n, None)>>)
(* The file at its final path, created only when there is none, then the     *)
(* first intent.  Without Kind the cluster is only metadata.                 *)
prepareKubeconfigWithIntent(h) ==
    LET n == On(h)
    IN  /\ At(h, "prepare")
        /\ \/ UNCHANGED backend /\ Follow(h, <<Step("nodes", n, None)>>)
           \/ /\ ~Filed(n)
              /\ \E k \in kubeconfigOwnershipFromTarget :
                    /\ backend' = writeKubeconfigIntent(backend \union {File(n, k)}, n, "PREPARED", k)
                    /\ Follow(h, <<Step("start", n, k)>>)
           \/ /\ ~Filed(n) /\ \E k \in kubeconfigOwnershipFromTarget : backend' = backend \union {File(n, k)}
              /\ Follow(h, rollbackCreate(n))
           \/ UNCHANGED backend /\ Follow(h, rollbackCreate(n))
        /\ UNCHANGED <<mem, disk, degraded, unsaved>>
(* The intent runs ahead of each thing it announces.                         *)
CreateClusterContext(h) ==
    LET n == On(h)
        k == Nonce(h)
        unfiled == backend \ {File(n, k)}
    IN  /\ \/ /\ At(h, "start")
              /\ \/ /\ backend' = writeKubeconfigIntent(backend, n, "CREATE_STARTED", k)
                    /\ Follow(h, <<Step("run", n, k)>>)
                 \/ /\ backend' \in {backend} \union Tries(unfiled, n, "TERMINAL", k)
                    /\ Follow(h, rollbackCreate(n))
           \/ /\ At(h, "run")
              /\ \/ backend' = backend \union {Kind(n, k)} /\ Follow(h, <<Step("seal", n, k)>>)
                 \/ backend' \in {backend, backend \union {Kind(n, k)}} /\ Follow(h, <<Step("abort", n, k)>>)
           \/ /\ At(h, "seal")
              /\ \/ /\ backend' = (writeKubeconfigIntent(backend, n, "BACKEND_CREATED", k) \ Owners(n)) \union {Owner(n, k)}
                    /\ Follow(h, <<Step("nodes", n, k)>>)
                 \/ /\ backend' \in Tries(backend, n, "BACKEND_CREATED", k)
                    /\ Follow(h, <<Step("abort", n, k)>>)
        /\ UNCHANGED <<mem, disk, degraded, unsaved>>
(* The Kind cluster must be gone before the file is touched.                 *)
cleanupOwnedCreateAttempt(b, n, k, ok) ==
    IF ok THEN Tries(b \ {Kind(n, k), File(n, k)}, n, "TERMINAL", k)
    ELSE UNION {Tries(c, n, "CLEANUP_PENDING", k) : c \in {b, b \ {Kind(n, k)}, b \ {Kind(n, k), File(n, k)}}}
abortCreate(h) ==
    /\ At(h, "abort")
    /\ \E ok \in BOOLEAN : backend' \in cleanupOwnedCreateAttempt(backend, On(h), Nonce(h), ok)
    /\ Follow(h, rollbackCreate(On(h)))
    /\ UNCHANGED <<mem, disk, degraded, unsaved>>
registerNodes(h) ==
    LET n == On(h)
    IN  /\ At(h, "nodes")
        /\ \/ backend' = backend \union {Nodes(n)} /\ Follow(h, <<Step("running", n, Nonce(h))>>)
           \/ backend' \in {backend, backend \union {Nodes(n)}} /\ Follow(h, <<Step("cleanup", n, Nonce(h))>>)
        /\ UNCHANGED <<mem, disk, degraded, unsaved>>
setRunning(h) ==
    LET n == On(h)
        k == Nonce(h)
        running == WithStatus(n, "RUNNING")
    IN  /\ At(h, "running")
        /\ IF k = None THEN Record(h, running, {n}, <<Save(<<Step("cleanup", n, k)>>)>> \o finishGKEOperation)
           ELSE Record(h, Put(running, Ownership(n), k), {n, Ownership(n)},
                       <<Save(<<Step("cleanup", n, k)>>), Step("commit", n, k)>> \o finishGKEOperation)
        /\ UNCHANGED <<disk, degraded, unsaved, backend>>
CommitKubeconfigIntent(h) ==
    /\ At(h, "commit")
    /\ backend' \in Tries(backend, On(h), "COMMITTED", Nonce(h))
    /\ Proceed(h)
    /\ UNCHANGED <<mem, disk, degraded, unsaved>>

(* What DeleteClusterContext may leave: it refuses without the ownership it  *)
(* holds in memory.                                                          *)
DeleteClusterContext(b, n, ok) ==
    LET owned == {k \in 1..MaxNonce : Owner(n, k) \in b}
    IN  IF owned = {} THEN IF ok THEN {} ELSE {b}
        ELSE LET k == CHOOSE x \in owned : TRUE
             IN  IF ok THEN {writeKubeconfigIntent(b \ {Kind(n, k), File(n, k)}, n, "DELETE_CLEANED", k)}
                 ELSE Tries(b, n, "DELETE_PENDING", k) \union {b \ {Kind(n, k)}, b \ {Kind(n, k), File(n, k)}}
cleanupGKEBackend(h) ==
    LET n == On(h)
    IN  /\ At(h, "cleanup")
        /\ \E nodesGone, ok \in BOOLEAN :
              LET b == IF nodesGone THEN backend \ {Nodes(n)} ELSE backend
              IN  /\ IF Nonce(h) = None THEN ok /\ backend' = b ELSE backend' \in DeleteClusterContext(b, n, ok)
                  /\ Follow(h, IF nodesGone /\ ok THEN rollbackCreate(n)
                               ELSE markClusterError(n) \o finishGKEOperation)
        /\ UNCHANGED <<mem, disk, degraded, unsaved>>

-----------------------------------------------------------------------------
(* Deletion.  With Kind unavailable an owned cluster is marked for a retry.  *)
deleteCluster(h) ==
    \E n \in Clusters \cap Live :
        Handle(h, Put(mem, n, "STOPPING"), {n},
               <<Register(markClusterError(n)), Save(markClusterError(n)), Step("delete", n, None)>>)
respondDeleteUnavailable(h) ==
    \E n \in Clusters \cap Live :
        /\ Ownership(n) \in Live /\ MayStart(h)
        /\ mem' = Put(mem, n, "ERROR")
        /\ call' = [call EXCEPT ![h] = [Idle EXCEPT !.todo = <<Save(Keep)>>, !.undo = [m \in {n} |-> "ERROR"]]]
        /\ backend' \in Tries(backend, n, "DELETE_PENDING", mem[Ownership(n)])
        /\ UNCHANGED <<disk, degraded, unsaved>>
deleteBackend(h) ==
    LET n == On(h)
    IN  /\ At(h, "delete")
        /\ \/ Ownership(n) \notin Live /\ UNCHANGED backend /\ Follow(h, <<Step("unregister", n, None)>>)
           \/ backend' \in DeleteClusterContext(backend, n, TRUE) /\ Follow(h, <<Step("unregister", n, None)>>)
           \/ /\ backend' \in DeleteClusterContext(backend, n, FALSE)
              /\ Follow(h, markClusterError(n) \o finishGKEOperation)
        /\ UNCHANGED <<mem, disk, degraded, unsaved>>
unregisterNodes(h) ==
    LET n == On(h)
    IN  /\ At(h, "unregister")
        /\ \/ backend' = backend \ {Nodes(n)} /\ Follow(h, <<Step("drop", n, None)>>)
           \/ UNCHANGED backend /\ Follow(h, markClusterError(n) \o finishGKEOperation)
        /\ UNCHANGED <<mem, disk, degraded, unsaved>>
dropCluster(h) ==
    LET n == On(h)
        S == {n, Ownership(n)}
        restore == <<Undo, Step("error", n, None)>> \o finishGKEOperation
    IN  /\ At(h, "drop")
        /\ mem' = Drop(mem, S)
        /\ call' = [call EXCEPT ![h].undo = Before(S),
                                ![h].todo = <<Save(restore)>>
                                    \o (IF Ownership(n) \in Live THEN <<Step("finalize", n, mem[Ownership(n)])>> ELSE <<>>)
                                    \o finishGKEOperation]
        /\ UNCHANGED <<disk, degraded, unsaved, backend>>
FinalizeDeleteIntent(h) ==
    LET n == On(h)
        k == Nonce(h)
    IN  /\ At(h, "finalize")
        /\ \/ backend' = writeKubeconfigIntent(backend, n, "TERMINAL", k) \ Owners(n)
           \/ backend' \in Tries(backend, n, "TERMINAL", k)
        /\ Proceed(h)
        /\ UNCHANGED <<mem, disk, degraded, unsaved>>

-----------------------------------------------------------------------------
(* The start.  An ownership needs its cluster.                               *)
validateGKEMetadataImport(doc) == \A m \in Of("ownership", doc) : <<"cluster", None, m[3]>> \in DOMAIN doc
(* An intent the entry agrees with is committed, or left for the deletion to *)
(* be retried; any other is finished or what it names is removed, and stays  *)
(* when that fails: a file without the digest sealed into the intent is set  *)
(* aside, and the intent kept as evidence.                                   *)
ReconcileKubeconfigIntents(n, ok) ==
    LET b == {e \in backend : e[2] = n /\ e[1] # "owner"}
        cleanup == {"CREATE_STARTED", "BACKEND_CREATED", "CLEANUP_PENDING", "COMMITTED", "DELETE_PENDING"}
    IN  UNION {LET phase == e[3]
                   k == e[4]
               IN  IF Value(disk, Ownership(n)) = k
                   THEN IF phase \in {"DELETE_PENDING", "DELETE_CLEANED"} THEN {b}
                        ELSE Tries(b, n, "COMMITTED", k)
                   ELSE IF phase \in cleanup THEN cleanupOwnedCreateAttempt(b, n, k, ok /\ phase # "CREATE_STARTED")
                   ELSE IF phase = "PREPARED" THEN {b, b \ {File(n, k)}}
                   ELSE Tries(b, n, "TERMINAL", k)
               : e \in Intent(b, n)}
        \union {b : e \in {x \in {n} : Intent(b, n) = {}}}
newAPIWithStoreAndBackend ==
    /\ call' = [h \in Handlers |-> Idle] /\ unsaved' = {}
    /\ \/ /\ validateGKEMetadataImport(disk)
          /\ \E parts \in [Clusters -> UNION {ReconcileKubeconfigIntents(n, ok) : n \in Clusters, ok \in BOOLEAN}] :
                /\ \A n \in Clusters : \E ok \in BOOLEAN : parts[n] \in ReconcileKubeconfigIntents(n, ok)
                /\ backend' = UNION {parts[n] : n \in Clusters}
                              \union {Owner(n, disk[Ownership(n)]) : n \in {m \in Clusters : Ownership(m) \in DOMAIN disk}}
          /\ \E seen \in SUBSET {n \in Clusters : Ownership(n) \in DOMAIN disk
                                                  /\ Kind(n, disk[Ownership(n)]) \in backend'} :
                LET next == [m \in DOMAIN disk |->
                               IF m \in Clusters THEN IF m \in seen THEN "RUNNING" ELSE "ERROR" ELSE disk[m]]
                IN  \/ mem' = next /\ disk' = next /\ degraded' = "no"
                    \/ mem' = Nothing /\ disk' \in {disk, next} /\ degraded' = "closed"
       \/ mem' = Nothing /\ degraded' = "closed" /\ UNCHANGED disk
          /\ backend' = {e \in backend : e[1] # "owner"}

persistMetadata(h) == SaveOk(h) \/ SaveFails(h)

Next ==
    \/ \E h \in Handlers :
          \/ createCluster(h) \/ prepareKubeconfigWithIntent(h) \/ CreateClusterContext(h) \/ abortCreate(h)
          \/ registerNodes(h) \/ setRunning(h) \/ CommitKubeconfigIntent(h) \/ cleanupGKEBackend(h)
          \/ deleteCluster(h) \/ respondDeleteUnavailable(h) \/ deleteBackend(h) \/ unregisterNodes(h)
          \/ dropCluster(h) \/ FinalizeDeleteIntent(h) \/ removeCluster(h) \/ setError(h)
    \/ \E h \in Handlers : persistMetadata(h) \/ Rollback(h)
    \/ OperationStep \/ newAPIWithStoreAndBackend

(* No Kind cluster is lost: wherever the daemon stops and whatever fails,    *)
(* the intent of its name goes on naming it in a phase that a later start or *)
(* deletion acts on, and no other creation of that name takes the intent     *)
(* over.  Only a deletion through the ownership that an earlier creation of  *)
(* the name left in memory overwrites it.                                    *)
Recorded(n, k) ==
    \E e \in Intent(backend, n) : e[3] \notin {"PREPARED", "DELETE_CLEANED", "TERMINAL"} /\ e[4] = k
StartedIsRecorded ==
    \A n \in Clusters, k \in 1..MaxNonce :
       Kind(n, k) \in backend' /\ ~Recorded(n, k)'
          => /\ Kind(n, k) \in backend
             /\ Recorded(n, k) => \E other \in Owners(n) \ {Owner(n, k)} : other \in backend
(* One request at a time: a cluster shown as RUNNING and owned has its Kind  *)
(* cluster.                                                                  *)
RunningHasBackend ==
    Serial => \A n \in Clusters \cap Live :
        mem[n] = "RUNNING" /\ Ownership(n) \in Live /\ Settled(n) => Kind(n, mem[Ownership(n)]) \in backend
=============================================================================

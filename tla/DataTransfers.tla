--------------------------- MODULE DataTransfers ----------------------------
(* Shims that run numbered compilations, invocations and transfers. Each     *)
(* section is one shim with a next-state relation of its own; the sections   *)
(* share no state.                                                           *)
EXTENDS ShimState

CONSTANTS
    MaxResults,   \* bound on each of the two counters
    MaxNumber   \* bound on each of the two counters

-----------------------------------------------------------------------------
(* pkg/shims/dataform: repositories, their workspaces, the compilations of a *)
(* workspace and the invocations of a compilation, both numbered.            *)

Repositories == {<<"repository", None, i>> : i \in Ids}
Workspaces == {<<"workspace", r, i>> : r \in Repositories, i \in SubIds}
nextCompilationID == <<"next", None, "compilation">>
nextInvocationID == <<"next", None, "invocation">>
DataformIssued(c) == IF c \in Live THEN mem[c] ELSE 0

(* A result is named by the counter and keeps the resource it was made from. *)
NewResult(h, kind, counter, repository, source) ==
    LET n == <<kind, repository, DataformIssued(counter) + 1>>
    IN  /\ DataformIssued(counter) < MaxResults
        /\ Commit(h, Put(Put(mem, n, source), counter, DataformIssued(counter) + 1), {n, counter})

createRepository(h) == \E r \in Repositories, b \in Bodies : Create(h, r, b)
updateRepository(h) == \E r \in Repositories, b \in Bodies : Update(h, r, b)
deleteRepository(h) == \E r \in Repositories : DeleteAll(h, r, Under(r, mem))

createWorkspace(h) == \E w \in Workspaces, b \in Bodies : w[2] \in Live /\ Create(h, w, b)
updateWorkspace(h) == \E w \in Workspaces, b \in Bodies : Update(h, w, b)
deleteWorkspace(h) ==
    \E w \in Workspaces :
        LET compilations == {c \in Of("compilation", mem) : mem[c] = w}
            invocations == {i \in Of("invocation", mem) : mem[i] \in compilations}
        IN  DeleteAll(h, w, compilations \union invocations)

createCompilationResult(h) ==
    \E w \in Workspaces \cap Live :
        w[2] \in Live /\ NewResult(h, "compilation", nextCompilationID, w[2], w)
createWorkflowInvocation(h) ==
    \E c \in Of("compilation", mem) :
        c[2] \in Live /\ NewResult(h, "invocation", nextInvocationID, c[2], c)

dataform_loadState == StartWith(disk, "unread")

dataform_persistState(h) == SaveOk(h) \/ SaveFails(h)

DataformNext ==
    \/ \E h \in Handlers :
          \/ createRepository(h) \/ updateRepository(h) \/ deleteRepository(h)
          \/ createWorkspace(h) \/ updateWorkspace(h) \/ deleteWorkspace(h)
          \/ createCompilationResult(h) \/ createWorkflowInvocation(h)
    \/ \E h \in Handlers : dataform_persistState(h) \/ Rollback(h)
    \/ dataform_loadState

validateDataformMetadata(doc) ==
    /\ \A n \in Resources(doc) : n[2] # None => n[2] \in DOMAIN doc
    /\ \A c \in Of("compilation", doc) : doc[c] \in DOMAIN doc /\ doc[c][2] = c[2]
    /\ \A i \in Of("invocation", doc) : doc[i] \in DOMAIN doc /\ doc[i][2] = i[2]

-----------------------------------------------------------------------------
(* pkg/shims/storagetransfer: numbered transfer jobs and the numbered        *)
(* operations of their runs.  The value of a job is its status.              *)

seqNum == <<"next", None, "job">>
operationSeq == <<"next", None, "operation">>
StorageTransferIssued(doc, c) == IF c \in DOMAIN doc THEN doc[c] ELSE 0
Numbered(h, c, kind, v, on, todo) ==
    LET n == <<kind, None, StorageTransferIssued(mem, c) + 1>>
    IN  /\ StorageTransferIssued(mem, c) < MaxNumber
        /\ Change(h, Put(Put(mem, c, n[3]), n, v), {n}, on, todo)

(* A failed save is followed by a second one, of the maps as they were; the  *)
(* readback after that one meets the guard's sticky error.                   *)
compensateState == <<Undo, Save(Keep)>>

(* The counters stay where they are when the save fails.                     *)
createTransferJob(h) ==
    \E status \in {"ENABLED", "DISABLED"} :
        MayStart(h) /\ Numbered(h, seqNum, "job", status, None, <<Save(Revert)>>)
patchTransferJob(h) ==
    \E j \in Of("job", mem), status \in {"ENABLED", "DISABLED", "DELETED"} :
        Handle(h, Put(mem, j, status), {j}, <<Save(compensateState)>>)

(* runTransferJob reads the job under one lock and admits the run under the  *)
(* next: one run of a job at a time.                                         *)
runTransferJob(h) ==
    \E j \in Of("job", mem) : mem[j] = "ENABLED" /\ Look(h, j, <<<<"admit", Keep>>>>)
activeRuns(j) == {g \in Handlers : call[g].on = j /\ ~At(g, "admit")}
Admit(h) ==
    /\ At(h, "admit")
    /\ IF activeRuns(call[h].on) # {}
       THEN Follow(h, <<>>) /\ UNCHANGED <<mem, disk, degraded, unsaved, backend>>
       ELSE Numbered(h, operationSeq, "operation", "IN_PROGRESS", call[h].on,
                     <<Save(compensateState), <<"copy", Keep>>>>)
(* The objects are copied through the Storage shim, outside every lock.      *)
Copy(h) ==
    /\ At(h, "copy")
    /\ \E n \in Touches(h), status \in {"SUCCESS", "FAILED"} :
          Record(h, Put(mem, n, status), {n}, <<Save(Keep)>>)
    /\ UNCHANGED <<disk, degraded, unsaved, backend>>

storagetransfer_loadState == StartWith(disk, "closed")

storagetransfer_persistState(h) == SaveOk(h) \/ SaveFails(h)

StorageTransferNext ==
    \/ \E h \in Handlers : \/ createTransferJob(h) \/ patchTransferJob(h)
                           \/ runTransferJob(h) \/ Admit(h) \/ Copy(h)
    \/ \E h \in Handlers : storagetransfer_persistState(h) \/ Rollback(h)
    \/ storagetransfer_loadState

validateStorageTransferMetadata(doc) ==
    \A j \in Of("job", doc) : j[3] <= StorageTransferIssued(doc, seqNum)
=============================================================================

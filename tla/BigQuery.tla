------------------------------ MODULE BigQuery ------------------------------
(* pkg/shims/bigquery: jobs, datasets and tables, and uploads.               *)
EXTENDS ShimState

CONSTANTS
    MaxRows,   \* bound on the rows of a table
    MaxUploadSessions,   \* maxBigQueryUploadSessions
    MaxCompletedSessions   \* maxBigQueryCompletedSessions

-----------------------------------------------------------------------------
(* pkg/shims/bigquery, what its parts share: a mutation holds mutationMu     *)
(* from its snapshot of the maps until the snapshot is saved or restored,    *)
(* and is one step here.  Jobs run in the background.  persistenceErr closes *)
(* the shim ("closed") while background work goes on.                        *)

Jobs == {<<"job", None, i>> : i \in Ids}
Job(s, upload, created) == [state |-> s, upload |-> upload, created |-> created]
Sticky(d) == IF degraded = "closed" THEN "closed" ELSE d
Finished(doc) ==
    [n \in DOMAIN doc |-> IF n[1] = "job" /\ doc[n].state = "RUNNING" THEN [doc[n] EXCEPT !.state = "DONE"]
                          ELSE doc[n]]

(* The save of a mutation that fails has the maps restored; the entry may    *)
(* have been replaced all the same, until the next save.                     *)
persistOrRollback(next, ok, failed) ==
    \/ mem' = next /\ disk' = next /\ degraded' = Sticky("no") /\ ok
    \/ UNCHANGED mem /\ disk' = disk /\ degraded' = Sticky(Failure("clean")) /\ failed
    \/ UNCHANGED mem /\ disk' = next /\ degraded' = Sticky("torn") /\ failed

(* The job is published as finished when that is saved, or when three        *)
(* attempts have failed; then the shim closes.                               *)
Run(n) == <<"run", Keep, n>>
completeJob(h) ==
    LET n == Head(call[h].todo)[3]
        next == Put(mem, n, [mem[n] EXCEPT !.state = "DONE"])
    IN  /\ At(h, "run")
        /\ IF n \in Live
           THEN \/ mem' = next /\ disk' = next /\ degraded' = Sticky("no")
                \/ mem' = next /\ disk' \in {disk, next} /\ degraded' = "closed"
           ELSE UNCHANGED <<mem, disk, degraded>>
        /\ Proceed(h)
        /\ UNCHANGED <<unsaved, backend>>
insertJob(h) ==
    \E n \in Jobs \ Live :
        /\ MayStart(h)
        /\ persistOrRollback(Put(mem, n, Job("RUNNING", None, None)),
                             call' = [call EXCEPT ![h] = [Idle EXCEPT !.todo = <<Run(n)>>]], UNCHANGED call)
        /\ UNCHANGED <<unsaved, backend>>

(* A job that was running is finished as interrupted, and saved.             *)
newAPIWithMetadataStore ==
    /\ call' = [h \in Handlers |-> Idle]
    /\ \/ mem' = Finished(disk) /\ disk' = Finished(disk) /\ degraded' = "no"
       \/ mem' = Nothing /\ disk' \in {disk, Finished(disk)} /\ degraded' = "closed"
    /\ unsaved' = {}

(* A job that has been shown as finished is not running again, and not gone, *)
(* whatever is saved, restored, read back or restarted; not until the shim   *)
(* has closed.                                                               *)
DoneStays ==
    \A n \in Of("job", mem) :
       mem[n].state = "DONE" /\ "closed" \notin {degraded, degraded'} => n \in Of("job", mem') /\ mem'[n].state = "DONE"

-----------------------------------------------------------------------------
(* pkg/shims/bigquery: datasets, tables with their rows, and jobs.  backend  *)
(* holds DuckDB's tables, and the rows the daemon holds of a table, which it *)
(* does not save.                                                            *)

Datasets == {<<"dataset", None, i>> : i \in Ids}
Tables == {<<"table", None, i>> : i \in SubIds}
Mutation(h, next) ==
    /\ MayStart(h)
    /\ persistOrRollback(next, UNCHANGED call, UNCHANGED call)
    /\ UNCHANGED unsaved

createDataset(h) == \E n \in Datasets \ Live, b \in Bodies : Mutation(h, Put(mem, n, b)) /\ UNCHANGED backend
applyDatasetUpdate(h) ==
    \E n \in Datasets \cap Live, b \in Bodies : Mutation(h, Put(mem, n, b)) /\ UNCHANGED backend
deleteDataset(h) == \E n \in Datasets \cap Live : Mutation(h, Drop(mem, {n})) /\ UNCHANGED backend

(* With a schema a table is made in DuckDB first, where it stays when the    *)
(* request is refused and when the table is deleted.                         *)
Duck(n) == <<"duckdb", n>>
createTable(h) ==
    \E n \in Tables \ Live, schema \in BOOLEAN :
        \/ Mutation(h, Put(mem, n, [schema |-> schema, numRows |-> 0]))
           /\ backend' = IF schema THEN backend \union {Duck(n)} ELSE backend
        \/ schema /\ MayStart(h) /\ UNCHANGED <<mem, disk, degraded, unsaved, call, backend>>
Rows(n) == {r \in backend : r[1] = "rows" /\ r[2] = n}
Held(n) == IF Rows(n) = {} THEN 0 ELSE (CHOOSE r \in Rows(n) : TRUE)[3]
Holding(n, k) == (backend \ Rows(n)) \union (IF k = 0 THEN {} ELSE {<<"rows", n, k>>})
deleteTable(h) ==
    \E n \in Tables \cap Live :
        /\ Mutation(h, Drop(mem, {n}))
        /\ backend' = IF n \in DOMAIN mem' THEN backend ELSE Holding(n, 0)
(* The count is that of the rows held, which a start does not bring back.    *)
insertAll(h) ==
    \E n \in Tables \cap Live :
        /\ Held(n) < MaxRows
        /\ Mutation(h, Put(mem, n, [mem[n] EXCEPT !.numRows = Held(n) + 1]))
        /\ backend' = IF degraded' = Sticky("no") THEN Holding(n, Held(n) + 1) ELSE backend
BigQueryNewAPI == newAPIWithMetadataStore /\ backend' = {r \in backend : r[1] # "rows"}

BigQueryNext ==
    \/ \E h \in Handlers :
          \/ createDataset(h) \/ applyDatasetUpdate(h) \/ deleteDataset(h)
          \/ createTable(h) \/ deleteTable(h) \/ insertAll(h) \/ insertJob(h) \/ completeJob(h)
    \/ BigQueryNewAPI

(* A table with a schema can be queried: DuckDB has it, also after failed    *)
(* requests and a restart.                                                   *)
TablesInDuckDB == \A n \in Of("table", mem) : mem[n].schema => Duck(n) \in backend

-----------------------------------------------------------------------------
(* pkg/shims/bigquery, upload.go: resumable uploads.  A session is a file;   *)
(* finishing it writes the response into the file (prepares it), commits the *)
(* job, writes a completion and removes the session.  A retry is answered    *)
(* with the same response.  backend holds the files, which the maps of the   *)
(* daemon mirror.                                                            *)

(* The time of creation in a response tells two responses apart.             *)
Uploads == SubIds
Session(u, n, created) == <<"session", u, n, created>>      \* None: not prepared
Completed(u, n, created) == <<"completed", u, n, created>>
Files(kind) == {f \in backend : f[1] = kind}
Pending(u) == {f \in Files("session") : f[2] = u}
Completion(u) == {f \in Files("completed") : f[2] = u}
Known ==
    {f[2] : f \in backend} \union {mem[n].upload : n \in Of("job", mem)} \union {disk[n].upload : n \in Of("job", disk)}
    \union {call[h].on : h \in Handlers}

(* An expired file is removed by whoever comes next.                         *)
cleanupExpired(f) ==
    /\ f \in backend /\ backend' = backend \ {f}
    /\ UNCHANGED <<mem, disk, degraded, unsaved, call>>

createSession(h) ==
    \E u \in Uploads \ Known, n \in Jobs :
        /\ MayStart(h) /\ Cardinality(Files("session")) < MaxUploadSessions
        /\ backend' = backend \union {Session(u, n, None)}
        /\ UNCHANGED <<mem, disk, degraded, unsaved, call>>

uploadJobMatches(doc, u, n, created) ==
    n \in DOMAIN doc /\ doc[n].upload = u /\ doc[n].created = created
completedUploadReplay(u) == \E c \in Completion(u) : uploadJobMatches(mem, u, c[3], c[4])
finishResumableUpload(h) ==
    \E u \in Uploads, s \in Files("session") :
        /\ s[2] = u /\ ~completedUploadReplay(u)
        /\ MayStart(h)
        /\ call' = [call EXCEPT ![h] = [Idle EXCEPT !.todo = <<<<"prepare", Keep, s>>>>, !.on = u]]
        /\ UNCHANGED <<mem, disk, degraded, unsaved, backend>>
(* Another request for the same upload may have prepared it meanwhile: then  *)
(* that response is taken.                                                   *)
prepareSession(h) ==
    LET s == Head(call[h].todo)[3]
        u == s[2]
        commit(created) == Follow(h, <<<<"commit", Keep, u, s[3], created>>>>)
    IN  /\ At(h, "prepare")
        /\ \/ s[4] # None /\ commit(s[4]) /\ UNCHANGED backend
           \/ s[4] = None /\ Pending(u) = {} /\ UNCHANGED backend
              /\ IF Completion(u) = {} THEN Proceed(h) ELSE \E c \in Completion(u) : commit(c[4])
           \/ /\ s[4] = None
              /\ \E p \in Pending(u) : p[4] # None /\ commit(p[4])
              /\ UNCHANGED backend
           \/ /\ s[4] = None /\ s \in backend
              /\ \/ \E t \in Bodies : backend' = (backend \ {s}) \union {Session(u, s[3], t)} /\ commit(t)
                 \/ UNCHANGED backend /\ Proceed(h)
        /\ UNCHANGED <<mem, disk, degraded, unsaved>>
(* startUploadedJob: the job runs while the upload is completed.             *)
Started(h, complete, n) == \E todo \in {complete \o <<Run(n)>>, <<Run(n)>> \o complete} : Follow(h, todo)
commitPreparedUploadJob(h) ==
    LET step == Head(call[h].todo)
        n == step[4]
        complete == <<[step EXCEPT ![1] = "complete"]>>
    IN  /\ At(h, "commit")
        /\ IF n \in Live
           THEN /\ UNCHANGED <<mem, disk, degraded>>
                /\ IF uploadJobMatches(mem, step[3], n, step[5]) THEN Follow(h, complete) ELSE Proceed(h)
           ELSE persistOrRollback(Put(mem, n, Job("RUNNING", step[3], step[5])),
                                  Started(h, complete, n),
                                  Follow(h, <<[step EXCEPT ![1] = "readback"]>>))
        /\ UNCHANGED <<unsaved, backend>>
(* The save failed: the job is committed all the same when it is in memory   *)
(* or on disk now.                                                           *)
readBackCommittedUpload(h) ==
    LET step == Head(call[h].todo)
        n == step[4]
        complete == <<[step EXCEPT ![1] = "complete"]>>
        matches(doc) == uploadJobMatches(doc, step[3], n, step[5])
    IN  /\ At(h, "readback")
        /\ \/ matches(mem) /\ UNCHANGED mem /\ Follow(h, complete)
           \/ ~matches(mem) /\ matches(disk) /\ mem' = Put(mem, n, disk[n]) /\ Started(h, complete, n)
           \/ ~matches(mem) /\ UNCHANGED mem /\ Proceed(h)
        /\ UNCHANGED <<disk, degraded, unsaved, backend>>
completeSession(h) ==
    LET step == Head(call[h].todo)
        u == step[3]
        session == Pending(u)
        done == (backend \union {Completed(u, step[4], step[5])})
    IN  /\ At(h, "complete")
        /\ \/ /\ Completion(u) = {} /\ session # {} /\ Cardinality(Files("completed")) < MaxCompletedSessions
              /\ backend' \in {done \ session, done}
           \/ UNCHANGED backend
        /\ Proceed(h)
        /\ UNCHANGED <<mem, disk, degraded, unsaved>>

loadPendingSessions == backend' = {f \in backend : f[1] = "session" => Completion(f[2]) = {}}
BigQueryUploadsNewAPI == newAPIWithMetadataStore /\ loadPendingSessions

BigQueryUploadsNext ==
    \/ \E h \in Handlers :
          \/ createSession(h) \/ finishResumableUpload(h) \/ prepareSession(h)
          \/ commitPreparedUploadJob(h) \/ readBackCommittedUpload(h) \/ completeSession(h)
          \/ insertJob(h) \/ completeJob(h)
    \/ \E f \in backend : cleanupExpired(f)
    \/ BigQueryUploadsNewAPI

(* A completion answers every retry: the job it names is on disk, as it      *)
(* names it, after any failed save, retry, restart and request for the same  *)
(* upload or the same job id.                                                *)
CompletedHasJob == \A c \in Files("completed") : uploadJobMatches(disk, c[2], c[3], c[4])
(* Retries of an upload agree: all that is kept of it, in its files, in      *)
(* memory and on disk, names one response.                                   *)
OneResponse ==
    \A u \in Uploads :
        Cardinality({f[4] : f \in {g \in backend : g[2] = u /\ g[4] # None}}
                    \union {doc[n].created : <<doc, n>> \in
                              {<<mem, m>> : m \in {k \in Of("job", mem) : mem[k].upload = u}}
                              \union {<<disk, m>> : m \in {k \in Of("job", disk) : disk[k].upload = u}}}) <= 1
=============================================================================

------------------------------ MODULE AuditLog ------------------------------
(***************************************************************************)
(* The mutation audit log of pkg/security/audit.go: a hash chain of records *)
(* appended to a file, with a checkpoint file that names the chain's tail.  *)
(* A record is written and synced first and the checkpoint replaced         *)
(* afterwards, both under the log's mutex; a crash can fall between the two.*)
(***************************************************************************)
EXTENDS Naturals, Sequences, SequencesExt
CONSTANT None
VARIABLES
    records,         \* the lines of mutations.jsonl
    synced,          \* how many of them the last successful Sync covered
    checkpoint,      \* the checkpoint file: None or <<sequence, hash>>
    sequence,        \* AuditLog.sequence
    lastHash,        \* AuditLog.lastHash
    persistenceErr,  \* AuditLog.persistenceErr is set
    opened           \* OpenAuditLog returned a log
auditVars == <<records, synced, checkpoint, sequence, lastHash, persistenceErr, opened>>

(* A record's hash covers everything it says; what tells records apart is    *)
(* who wrote it in which phase, its id.  A partial line is Torn.             *)
AuditRecord(n, previous, id) == [sequence |-> n, previousHash |-> previous, id |-> id]
Torn == AuditRecord(0, None, None)
hashAuditRecord(record) == record.id

readAndVerifyAudit(lines) ==
    \A i \in DOMAIN lines :
        /\ lines[i].sequence = i
        /\ lines[i].previousHash = IF i = 1 THEN None ELSE hashAuditRecord(lines[i - 1])

verifyAuditPath(lines, point) ==
    /\ readAndVerifyAudit(lines)
    /\ IF lines = <<>> THEN point = None
       ELSE point = <<Last(lines).sequence, hashAuditRecord(Last(lines))>>

(* AuditLog.append up to the checkpoint.  A failed Write may leave part of   *)
(* the line, a failed Sync the whole of it, and neither advances the chain.  *)
append(id, ok, failed) ==
    LET record == AuditRecord(sequence + 1, lastHash, id)
    IN  \/ /\ records' = Append(records, record)
           /\ synced' = Len(records) + 1
           /\ sequence' = record.sequence
           /\ lastHash' = hashAuditRecord(record)
           /\ UNCHANGED persistenceErr
           /\ ok
        \/ /\ records' \in {records, Append(records, Torn), Append(records, record)}
           /\ persistenceErr' = TRUE
           /\ UNCHANGED <<synced, sequence, lastHash>>
           /\ failed

(* The checkpoint is replaced by a rename; when that reports an error the    *)
(* old or the new one is in place.                                           *)
(* In the fault a failed checkpoint is not reported.                         *)
writeCheckpointQuietly(ok, failed) ==
    \/ checkpoint' = <<sequence, lastHash>> /\ UNCHANGED persistenceErr /\ ok
    \/ UNCHANGED <<checkpoint, persistenceErr>> /\ failed
writeCheckpoint(ok, failed) ==
    \/ /\ checkpoint' = <<sequence, lastHash>>
       /\ UNCHANGED persistenceErr
       /\ ok
    \/ /\ checkpoint' \in {checkpoint, <<sequence, lastHash>>}
       /\ persistenceErr' = TRUE
       /\ failed

(* What a crash leaves of the lines that were never synced is any prefix.    *)
OpenAuditLog ==
    \E k \in synced..Len(records) :
        LET lines == SubSeq(records, 1, k)
        IN  /\ records' = lines
            /\ synced' = k
            /\ opened' = verifyAuditPath(lines, checkpoint)
            /\ sequence' = IF opened' /\ k > 0 THEN lines[k].sequence ELSE 0
            /\ lastHash' = IF opened' /\ k > 0 THEN hashAuditRecord(lines[k]) ELSE None
            /\ persistenceErr' = FALSE
            /\ UNCHANGED checkpoint

AuditInit ==
    /\ records = <<>> /\ synced = 0 /\ checkpoint = None
    /\ sequence = 0 /\ lastHash = None
    /\ persistenceErr = FALSE /\ opened = TRUE
=============================================================================

---------------------------- MODULE Gateway_proofs ----------------------------
(***************************************************************************)
(* Proofs about the gateway for any number of handlers, rules, requests and *)
(* restarts: what the strict audit promises, that a healthy audit chain     *)
(* verifies, and that the quotas are exact.                                 *)
(***************************************************************************)
EXTENDS Gateway, SequenceTheorems, TLAPS

Marks == (Nat \X {"attempt", "complete"}) \cup {None}
Entries == [sequence : Nat, previousHash : Marks, id : Marks]
Steps == {"free", "attempt", "attempted", "check", "clock", "quota", "inspect", "create",
          "start", "ready", "wire", "dispatch", "serve", "complete", "completed"}
Requests == [step : Steps, id : Nat, target : Targets \cup {None}, time : Nat]

(* The steps at which the request holds nothing of the audit log and has its *)
(* attempt behind it.                                                        *)
Inside == Steps \ {"free", "attempt", "attempted", "completed"}

AuditTypeOK ==
    /\ records \in Seq(Entries) /\ synced \in 0..Len(records)
    /\ sequence \in Nat /\ lastHash \in Marks
RequestTypeOK ==
    /\ arrived \in Nat /\ now \in Nat
    /\ request \in [Handlers -> Requests]
    /\ \A h \in Handlers : request[h].step # "free" => request[h].target \in Targets
TypeOK == AuditTypeOK /\ RequestTypeOK

(* AttemptsPrecede, made inductive: the record is among the synced ones, and *)
(* it is there from the moment the request may go on.                        *)
AttemptSynced(n) == \E i \in 1..synced : records[i].id = <<n, "attempt">>
AttemptsSynced ==
    strict =>
        /\ \A n \in dispatched : AttemptSynced(n)
        /\ \A h \in Handlers :
              Audited(h) /\ request[h].step \notin {"free", "attempt"} => AttemptSynced(Id(h))

(* HealthyChainVerifies, made inductive: what the log remembers of its tail  *)
(* is the tail, and the checkpoint is behind only while the mutex is held.   *)
Tip == IF records = <<>> THEN None ELSE hashAuditRecord(records[Len(records)])
ChainHolds ==
    opened /\ ~persistenceErr =>
        /\ readAndVerifyAudit(records)
        /\ sequence = Len(records) /\ lastHash = Tip
        /\ AuditMuFree => checkpoint = IF records = <<>> THEN None ELSE <<Len(records), Tip>>
        /\ ~AuditMuFree => records # <<>>

-----------------------------------------------------------------------------
(* A step of a request that is past its attempt and not at its audit record: *)
(* the request goes on or is answered.                                       *)
Moves(h) ==
    /\ request[h].step \in Inside
    /\ \/ request' = [request EXCEPT ![h] = Free]
       \/ \E s \in Inside, t \in Nat : request' = [request EXCEPT ![h].step = s, ![h].time = t]
    /\ dispatched' \in {dispatched, IF Audited(h) THEN dispatched \cup {Id(h)} ELSE dispatched}
    /\ UNCHANGED <<auditVars, arrived, now>>

LEMMA GotoMoves ==
    ASSUME TypeOK, NEW h \in Handlers, NEW s \in Inside, Goto(h, s)
    PROVE  \E z \in Inside, t \in Nat : request' = [request EXCEPT ![h].step = z, ![h].time = t]
<1>1. request[h] \in Requests
  BY DEF TypeOK, RequestTypeOK
<1>2. request' = [request EXCEPT ![h].step = s, ![h].time = request[h].time]
  BY <1>1 DEF TypeOK, RequestTypeOK, Goto, Requests
<1> QED
  BY <1>1, <1>2 DEF Requests

LEMMA AnswerMoves ==
    ASSUME TypeOK, NEW h \in Handlers, Answer(h)
    PROVE  \/ request' = [request EXCEPT ![h] = Free]
           \/ \E s \in Inside, t \in Nat : request' = [request EXCEPT ![h].step = s, ![h].time = t]
<1>1. CASE Audited(h)
  BY <1>1, GotoMoves DEF Answer, Inside, Steps
<1>2. CASE ~Audited(h)
  BY <1>2 DEF Answer, Gone
<1> QED
  BY <1>1, <1>2

LEMMA StepMoves ==
    ASSUME TypeOK, NEW h \in Handlers,
           \/ authorizeRequest(h) \/ readClock(h) \/ checkQuota(h)
           \/ EnsureServiceRunning(h) \/ wireRoute(h) \/ dispatch(h) \/ serve(h)
    PROVE  Moves(h)
<1> USE GotoMoves, AnswerMoves DEF Inside, Steps
<1>1. CASE authorizeRequest(h)
  BY <1>1 DEF authorizeRequest, Moves, At, quotaVars
<1>2. CASE readClock(h)
  BY <1>2 DEF readClock, Moves, At, quotaVars, TypeOK, RequestTypeOK
<1>3. CASE checkQuota(h)
  BY <1>3 DEF checkQuota, Allow, Moves, At
<1>4. CASE EnsureServiceRunning(h)
  BY <1>4 DEF EnsureServiceRunning, Moves, At, quotaVars, inspectEmulator, createEmulator,
              startEmulator, emulatorReady, coldStartFailed
<1>5. CASE wireRoute(h)
  BY <1>5 DEF wireRoute, Moves, At, quotaVars
<1>6. CASE dispatch(h)
  BY <1>6 DEF dispatch, Moves, At, quotaVars
<1>7. CASE serve(h)
  BY <1>7 DEF serve, Moves, At, quotaVars
<1> QED
  BY <1>1, <1>2, <1>3, <1>4, <1>5, <1>6, <1>7

(* The other steps, as cases for the proofs below.                           *)
LEMMA NextCases ==
    ASSUME TypeOK, [Next]_allVars
    PROVE  \/ \E h \in Handlers : Arrive(h) \/ Attempt(h) \/ Attempted(h) \/ Complete(h) \/ Completed(h) \/ Moves(h)
           \/ Clock \/ stopService \/ Restart \/ UNCHANGED allVars
  BY StepMoves DEF Next, Step

-----------------------------------------------------------------------------
LEMMA TypeInit == GatewayInit => TypeOK
<1> SUFFICES ASSUME GatewayInit PROVE TypeOK
  OBVIOUS
<1>1. AuditTypeOK
  <2>1. records = <<>> /\ synced = 0 /\ sequence = 0 /\ lastHash = None
    BY DEF GatewayInit, AuditInit
  <2>2. <<>> \in Seq(Entries) /\ Len(<<>>) = 0
    BY EmptySeq
  <2> QED
    BY <2>1, <2>2 DEF AuditTypeOK, Marks
<1>2. RequestTypeOK
  BY DEF GatewayInit, QuotaInit, RequestTypeOK, Requests, Free, Steps
<1> QED
  BY <1>1, <1>2 DEF TypeOK

LEMMA EntryType ==
    ASSUME AuditTypeOK, NEW n \in Nat, NEW phase \in {"attempt", "complete"}
    PROVE  /\ AuditRecord(sequence + 1, lastHash, <<n, phase>>) \in Entries
           /\ Torn \in Entries
           /\ <<n, phase>> \in Marks
  BY DEF AuditTypeOK, AuditRecord, Torn, Entries, Marks

LEMMA AppendType ==
    ASSUME AuditTypeOK, NEW n \in Nat, NEW phase \in {"attempt", "complete"},
           append(<<n, phase>>, TRUE, TRUE), opened' = opened
    PROVE  AuditTypeOK'
<1> DEFINE record == AuditRecord(sequence + 1, lastHash, <<n, phase>>)
<1>1. record \in Entries /\ Torn \in Entries /\ <<n, phase>> \in Marks
  BY EntryType
<1>2. records \in Seq(Entries) /\ Len(records) \in Nat
  BY DEF AuditTypeOK
<1>3. \A e \in Entries : Append(records, e) \in Seq(Entries) /\ Len(Append(records, e)) = Len(records) + 1
  BY <1>2, AppendProperties
<1>4. records' \in {records, Append(records, Torn), Append(records, record)}
  BY DEF append
<1>5. record.sequence = sequence + 1 /\ hashAuditRecord(record) = <<n, phase>>
  BY DEF AuditRecord, hashAuditRecord
<1>6. \/ records' = Append(records, record) /\ synced' = Len(records) + 1
          /\ sequence' = record.sequence /\ lastHash' = hashAuditRecord(record)
      \/ synced' = synced /\ sequence' = sequence /\ lastHash' = lastHash
  BY DEF append
<1> HIDE DEF record
<1>7. records' \in Seq(Entries) /\ Len(records') \in Nat /\ Len(records') >= Len(records)
  <2>1. CASE records' = records
    BY <1>2, <2>1
  <2>2. CASE records' = Append(records, Torn)
    BY <1>1, <1>2, <1>3, <2>2
  <2>3. CASE records' = Append(records, record)
    BY <1>1, <1>2, <1>3, <2>3
  <2> QED
    BY <1>4, <2>1, <2>2, <2>3
<1>8. synced \in Nat /\ synced <= Len(records) /\ sequence \in Nat /\ lastHash \in Marks
  BY <1>2 DEF AuditTypeOK
<1>9. synced' \in 0..Len(records')
  BY <1>1, <1>2, <1>3, <1>6, <1>7, <1>8
<1>10. sequence' \in Nat /\ lastHash' \in Marks
  BY <1>1, <1>5, <1>6, <1>8
<1> QED
  BY <1>7, <1>9, <1>10 DEF AuditTypeOK

LEMMA RecordEffect ==
    ASSUME TypeOK, NEW h \in Handlers, NEW phase \in {"attempt", "complete"},
           NEW ACTION ok, NEW ACTION failed, Record(h, phase, ok, failed)
    PROVE  /\ AuditMuFree /\ append(<<Id(h), phase>>, ok, failed)
           /\ UNCHANGED <<checkpoint, opened, now, arrived, dispatched, buckets, passed>>
           /\ AuditTypeOK'
  <1>1. /\ AuditMuFree /\ append(<<Id(h), phase>>, ok, failed)
        /\ UNCHANGED <<checkpoint, opened, now, arrived, dispatched, buckets, passed>>
    BY DEF Record, quotaVars
  <1>2. append(<<Id(h), phase>>, TRUE, TRUE)
    BY <1>1 DEF append
  <1>3. Id(h) \in Nat
    BY DEF TypeOK, RequestTypeOK, Requests, Id
  <1> QED
    BY <1>1, <1>2, <1>3, AppendType DEF TypeOK

(* What a restart keeps of the log: a prefix with all that was synced.       *)
LEMMA OpenEffect ==
    ASSUME AuditTypeOK, OpenAuditLog
    PROVE  \E k \in synced..Len(records) :
              /\ records' \in Seq(Entries) /\ Len(records') = k
              /\ \A i \in 1..k : records'[i] = records[i]
              /\ synced' = k /\ checkpoint' = checkpoint
              /\ opened' = verifyAuditPath(records', checkpoint)
              /\ sequence' = (IF opened' /\ k > 0 THEN records'[k].sequence ELSE 0)
              /\ lastHash' = (IF opened' /\ k > 0 THEN hashAuditRecord(records'[k]) ELSE None)
<1>1. records \in Seq(Entries) /\ Len(records) \in Nat /\ synced \in Nat
  BY DEF AuditTypeOK
<1>2. PICK k \in synced..Len(records) :
          /\ records' = SubSeq(records, 1, k)
          /\ synced' = k /\ checkpoint' = checkpoint
          /\ opened' = verifyAuditPath(records', checkpoint)
          /\ sequence' = (IF opened' /\ k > 0 THEN records'[k].sequence ELSE 0)
          /\ lastHash' = (IF opened' /\ k > 0 THEN hashAuditRecord(records'[k]) ELSE None)
  BY DEF OpenAuditLog
<1>3. k \in Nat /\ k <= Len(records)
  BY <1>1
<1>4. \A i \in 1..k : records[i] \in Entries
  BY <1>1, <1>3, ElementOfSeq
<1>5. /\ SubSeq(records, 1, k) \in Seq(Entries)
      /\ Len(SubSeq(records, 1, k)) = IF 1 <= k THEN k - 1 + 1 ELSE 0
      /\ \A i \in 1..(k - 1 + 1) : SubSeq(records, 1, k)[i] = records[1 + i - 1]
  BY <1>3, <1>4, SubSeqProperties
<1>6. Len(records') = k
  BY <1>2, <1>3, <1>5
<1>7. \A i \in 1..k : records'[i] = records[i]
  BY <1>2, <1>3, <1>5
<1> QED
  BY <1>2, <1>5, <1>6, <1>7

LEMMA OpenType ==
    ASSUME AuditTypeOK, OpenAuditLog
    PROVE  AuditTypeOK'
<1>1. PICK k \in synced..Len(records) :
          /\ records' \in Seq(Entries) /\ Len(records') = k
          /\ synced' = k
          /\ sequence' = (IF opened' /\ k > 0 THEN records'[k].sequence ELSE 0)
          /\ lastHash' = (IF opened' /\ k > 0 THEN hashAuditRecord(records'[k]) ELSE None)
  BY OpenEffect
<1>2. k \in Nat
  BY DEF AuditTypeOK
<1>3. k > 0 => records'[k] \in Entries
  BY <1>1, <1>2, ElementOfSeq
<1>4. sequence' \in Nat /\ lastHash' \in Marks
  BY <1>1, <1>2, <1>3 DEF Entries, Marks, hashAuditRecord
<1> QED
  BY <1>1, <1>2, <1>4 DEF AuditTypeOK

LEMMA TypeStep == TypeOK /\ [Next]_allVars => TypeOK'
<1> SUFFICES ASSUME TypeOK, [Next]_allVars PROVE TypeOK'
  OBVIOUS
<1>1. ASSUME NEW h \in Handlers, Arrive(h) PROVE TypeOK'
  <2>1. AuditTypeOK'
    BY <1>1 DEF Arrive, auditVars, TypeOK, AuditTypeOK
  <2>2. arrived' \in Nat /\ now' \in Nat
    BY <1>1 DEF Arrive, quotaVars, TypeOK, RequestTypeOK
  <2>3. PICK target \in Targets, s \in {"attempt", "check"} :
            request' = [request EXCEPT ![h] = [step |-> s, id |-> arrived + 1, target |-> target, time |-> 0]]
    BY <1>1 DEF Arrive
  <2>4. [step |-> s, id |-> arrived + 1, target |-> target, time |-> 0] \in Requests
    BY DEF Requests, Steps, TypeOK, RequestTypeOK
  <2>5. request' \in [Handlers -> Requests]
    BY <2>3, <2>4 DEF TypeOK, RequestTypeOK
  <2>6. \A g \in Handlers : request'[g].step # "free" => request'[g].target \in Targets
    BY <2>3 DEF TypeOK, RequestTypeOK
  <2> QED
    BY <2>1, <2>2, <2>5, <2>6 DEF TypeOK, RequestTypeOK
<1>2. ASSUME NEW h \in Handlers, request[h].step # "free", NEW s \in Steps, NEW t \in Nat,
             \/ request' = [request EXCEPT ![h].step = s]
             \/ request' = [request EXCEPT ![h].step = s, ![h].time = t]
             \/ request' = [request EXCEPT ![h] = Free]
      PROVE  /\ request' \in [Handlers -> Requests]
             /\ \A g \in Handlers : request'[g].step # "free" => request'[g].target \in Targets
  <2>1. request \in [Handlers -> Requests] /\ request[h].target \in Targets
    BY <1>2 DEF TypeOK, RequestTypeOK
  <2>2. CASE request' = [request EXCEPT ![h].step = s]
    BY <2>1, <2>2, <1>2 DEF TypeOK, RequestTypeOK, Requests
  <2>3. CASE request' = [request EXCEPT ![h].step = s, ![h].time = t]
    <3>1. request'[h] = [request[h] EXCEPT !.step = s, !.time = t] /\ request[h] \in Requests
      BY <2>1, <2>3
    <3>2. request'[h] \in Requests /\ request'[h].target \in Targets
      BY <2>1, <1>2, <3>1 DEF Requests
    <3>3. \A g \in Handlers \ {h} : request'[g] = request[g]
      BY <2>1, <2>3
    <3>4. request' \in [Handlers -> Requests]
      BY <2>1, <2>3, <3>2, <3>3
    <3> QED
      BY <3>2, <3>3, <3>4 DEF TypeOK, RequestTypeOK
  <2>4. CASE request' = [request EXCEPT ![h] = Free]
    <3>1. Free \in Requests /\ Free.step = "free"
      BY DEF Requests, Free, Steps
    <3> QED
      BY <2>1, <2>4, <3>1 DEF TypeOK, RequestTypeOK
  <2> QED
    BY <1>2, <2>2, <2>3, <2>4
<1>3. ASSUME NEW h \in Handlers, Attempt(h) \/ Complete(h) PROVE TypeOK'
  <2>1. AuditTypeOK' /\ arrived' = arrived /\ now' = now
    BY <1>3, RecordEffect DEF Attempt, Complete
  <2>2. request[h].step # "free" /\ (Goto(h, "attempted") \/ Goto(h, "completed") \/ Gone(h))
    BY <1>3 DEF Attempt, Complete, At, Record, append
  <2> QED
    BY <1>2, <2>1, <2>2 DEF TypeOK, RequestTypeOK, Goto, Gone, Steps
<1>4. ASSUME NEW h \in Handlers, Attempted(h) \/ Completed(h) PROVE TypeOK'
  <2>1. AuditTypeOK' /\ arrived' = arrived /\ now' = now
    BY <1>4 DEF Attempted, Completed, Checkpoint, writeCheckpoint, quotaVars, TypeOK, AuditTypeOK
  <2>2. request[h].step # "free" /\ (Goto(h, "check") \/ Gone(h))
    BY <1>4 DEF Attempted, Completed, At, Checkpoint, writeCheckpoint
  <2> QED
    BY <1>2, <2>1, <2>2 DEF TypeOK, RequestTypeOK, Goto, Gone, Steps
<1>5. ASSUME NEW h \in Handlers, Moves(h) PROVE TypeOK'
  <2>1. AuditTypeOK' /\ arrived' = arrived /\ now' = now
    BY <1>5 DEF Moves, auditVars, TypeOK, AuditTypeOK
  <2>2. PICK s \in Steps, t \in Nat :
           \/ request' = [request EXCEPT ![h].step = s, ![h].time = t]
           \/ request' = [request EXCEPT ![h] = Free]
    BY <1>5 DEF Moves, Inside, Steps
  <2>3. request[h].step # "free"
    BY <1>5 DEF Moves, Inside
  <2> QED
    BY <1>2, <2>1, <2>2, <2>3 DEF TypeOK, RequestTypeOK
<1>6. CASE Clock
  BY <1>6 DEF Clock, Tick, auditVars, gatewayVars, TypeOK, AuditTypeOK, RequestTypeOK
<1>7. CASE stopService
  BY <1>7 DEF stopService, auditVars, quotaVars, TypeOK, AuditTypeOK, RequestTypeOK
<1>8. CASE Restart
  <2>1. AuditTypeOK' /\ arrived' = arrived /\ now' = now
    BY <1>8, OpenType DEF Restart, TypeOK
  <2>2. request' = [h \in Handlers |-> Free]
    BY <1>8 DEF Restart
  <2>3. Free \in Requests /\ Free.step = "free"
    BY DEF Free, Requests, Steps
  <2> QED
    BY <2>1, <2>2, <2>3 DEF TypeOK, RequestTypeOK
<1>9. CASE UNCHANGED allVars
  BY <1>9 DEF allVars, auditVars, quotaVars, gatewayVars, TypeOK, AuditTypeOK, RequestTypeOK
<1> QED
  BY NextCases, <1>1, <1>3, <1>4, <1>5, <1>6, <1>7, <1>8, <1>9

(* Requests, records and the clock have the types the actions rely on.       *)
THEOREM TypeCorrect == Spec => []TypeOK
<1>1. TypeOK /\ [Next]_allVars => TypeOK'
  BY TypeStep
<1> QED
  BY TypeInit, <1>1, PTL DEF Spec

-----------------------------------------------------------------------------
(* The audit record precedes the mutation.                                   *)

LEMMA SyncedGrows ==
    ASSUME AuditTypeOK, synced' \in Nat, synced' >= synced,
           \A i \in 1..synced : records'[i] = records[i]
    PROVE  \A n : AttemptSynced(n) => AttemptSynced(n)'
<1>1. synced \in Nat
  BY DEF AuditTypeOK
<1>2. \A i \in 1..synced : i \in 1..synced'
  BY <1>1
<1> QED
  BY <1>2 DEF AttemptSynced

LEMMA RecordSyncs ==
    ASSUME TypeOK, NEW h \in Handlers, NEW phase \in {"attempt", "complete"},
           NEW ACTION ok, NEW ACTION failed, Record(h, phase, ok, failed)
    PROVE  /\ \A n : AttemptSynced(n) => AttemptSynced(n)'
           /\ \/ failed
              \/ ok /\ records'[synced'].id = <<Id(h), phase>> /\ synced' \in 1..synced'
<1> DEFINE record == AuditRecord(sequence + 1, lastHash, <<Id(h), phase>>)
<1>1. Id(h) \in Nat
  BY DEF TypeOK, RequestTypeOK, Requests, Id
<1>2. record \in Entries /\ Torn \in Entries
  BY <1>1, EntryType DEF TypeOK
<1>3. records \in Seq(Entries) /\ Len(records) \in Nat /\ synced \in Nat /\ synced <= Len(records)
  BY DEF TypeOK, AuditTypeOK
<1>4. \A e \in Entries : /\ \A i \in 1..Len(records) : Append(records, e)[i] = records[i]
                         /\ Append(records, e)[Len(records) + 1] = e
  BY <1>3, AppendProperties
<1>5. record.id = <<Id(h), phase>>
  BY DEF AuditRecord
<1>6. /\ records' \in {records, Append(records, Torn), Append(records, record)}
      /\ \/ ok /\ records' = Append(records, record) /\ synced' = Len(records) + 1
         \/ failed /\ synced' = synced
  <2>1. append(<<Id(h), phase>>, ok, failed)
    BY RecordEffect
  <2> QED
    BY <2>1 DEF append
<1> HIDE DEF record
<1>7. synced' \in Nat /\ synced' >= synced
  BY <1>3, <1>6
<1>8. \A i \in 1..Len(records) : records'[i] = records[i]
  BY <1>2, <1>4, <1>6
<1>9. \A i \in 1..synced : records'[i] = records[i]
  BY <1>3, <1>8
<1>10. \/ failed
       \/ ok /\ records'[synced'].id = <<Id(h), phase>> /\ synced' \in 1..synced'
  BY <1>2, <1>3, <1>4, <1>5, <1>6
<1> QED
  BY <1>7, <1>9, <1>10, SyncedGrows DEF TypeOK

LEMMA AttemptsStep == TypeOK /\ AttemptsSynced /\ [Next]_allVars => AttemptsSynced'
<1> SUFFICES ASSUME TypeOK, AttemptsSynced, [Next]_allVars, strict PROVE AttemptsSynced'
  BY DEF AttemptsSynced
<1> USE DEF AttemptsSynced, Audited, Id
<1>1. ASSUME NEW h \in Handlers, Arrive(h) PROVE AttemptsSynced'
  <2>1. UNCHANGED <<records, synced, opened, dispatched>>
    BY <1>1 DEF Arrive, auditVars
  <2>2. PICK target \in Targets :
            request' = [request EXCEPT ![h] =
              [step |-> IF target.mutation /\ opened /\ strict THEN "attempt" ELSE "check",
               id |-> arrived + 1, target |-> target, time |-> 0]]
    BY <1>1 DEF Arrive
  <2>3. \A g \in Handlers \ {h} : request'[g] = request[g]
    BY <2>2 DEF TypeOK, RequestTypeOK
  <2>4. request'[h].target.mutation /\ opened => request'[h].step = "attempt"
    BY <2>2 DEF TypeOK, RequestTypeOK
  <2> QED
    BY <2>1, <2>3, <2>4 DEF AttemptSynced
<1>2. ASSUME NEW h \in Handlers, Attempt(h) PROVE AttemptsSynced'
  <2>1. /\ \A n : AttemptSynced(n) => AttemptSynced(n)'
        /\ \/ Gone(h)
           \/ Goto(h, "attempted") /\ records'[synced'].id = <<request[h].id, "attempt">> /\ synced' \in 1..synced'
    BY <1>2, RecordSyncs DEF Attempt
  <2>2. UNCHANGED <<opened, dispatched>>
    BY <1>2, RecordEffect DEF Attempt
  <2>3. CASE Gone(h)
    BY <2>1, <2>2, <2>3 DEF Gone, Free, TypeOK, RequestTypeOK
  <2>4. CASE Goto(h, "attempted") /\ records'[synced'].id = <<request[h].id, "attempt">> /\ synced' \in 1..synced'
    <3>1. \A g \in Handlers : /\ request'[g].id = request[g].id /\ request'[g].target = request[g].target
                              /\ g # h => request'[g].step = request[g].step
      BY <2>4 DEF Goto, TypeOK, RequestTypeOK, Requests
    <3>2. AttemptSynced(request[h].id)'
      BY <2>4, <3>1 DEF AttemptSynced
    <3>3. ASSUME NEW g \in Handlers, Audited(g)', request'[g].step \notin {"free", "attempt"}
          PROVE  AttemptSynced(request[g].id)'
      BY <2>1, <2>2, <3>1, <3>2, <3>3
    <3> QED
      BY <2>1, <2>2, <3>3
  <2> QED
    BY <2>1, <2>3, <2>4
<1>3. ASSUME NEW h \in Handlers, Complete(h) PROVE AttemptsSynced'
  <2>1. /\ \A n : AttemptSynced(n) => AttemptSynced(n)'
        /\ Gone(h) \/ Goto(h, "completed")
    BY <1>3, RecordSyncs DEF Complete
  <2>2. UNCHANGED <<opened, dispatched>> /\ request[h].step = "complete"
    BY <1>3, RecordEffect DEF Complete, At
  <2>3. CASE Gone(h)
    BY <2>1, <2>2, <2>3 DEF Gone, Free, TypeOK, RequestTypeOK
  <2>4. CASE Goto(h, "completed")
    BY <2>1, <2>2, <2>4 DEF Goto, TypeOK, RequestTypeOK, Requests
  <2> QED
    BY <2>1, <2>3, <2>4
<1>4. ASSUME NEW h \in Handlers, Attempted(h) \/ Completed(h) PROVE AttemptsSynced'
  <2>1. UNCHANGED <<records, synced, opened, dispatched>> /\ request[h].step \in {"attempted", "completed"}
        /\ (Gone(h) \/ Goto(h, "check"))
    BY <1>4 DEF Attempted, Completed, Checkpoint, writeCheckpoint, At
  <2>2. CASE Gone(h)
    BY <2>1, <2>2 DEF Gone, Free, TypeOK, RequestTypeOK, AttemptSynced
  <2>3. CASE Goto(h, "check")
    <3>1. \A g \in Handlers : /\ request'[g].id = request[g].id /\ request'[g].target = request[g].target
                              /\ g # h => request'[g].step = request[g].step
      BY <2>3 DEF Goto, TypeOK, RequestTypeOK, Requests
    <3>2. \A n : AttemptSynced(n) => AttemptSynced(n)'
      BY <2>1 DEF AttemptSynced
    <3>3. ASSUME NEW g \in Handlers, Audited(g)', request'[g].step \notin {"free", "attempt"}
          PROVE  AttemptSynced(request[g].id)'
      BY <2>1, <3>1, <3>2, <3>3
    <3> QED
      BY <2>1, <3>2, <3>3
  <2> QED
    BY <2>1, <2>2, <2>3
<1>5. ASSUME NEW h \in Handlers, Moves(h) PROVE AttemptsSynced'
  <2>1. UNCHANGED <<records, synced, opened>> /\ request[h].step \in Inside
    BY <1>5 DEF Moves, auditVars
  <2>2. \A n \in dispatched' : AttemptSynced(n)'
    BY <1>5, <2>1 DEF Moves, AttemptSynced, Inside
  <2>3. CASE request' = [request EXCEPT ![h] = Free]
    BY <2>1, <2>2, <2>3 DEF Free, TypeOK, RequestTypeOK, AttemptSynced
  <2>4. ASSUME NEW s \in Inside, NEW t \in Nat, request' = [request EXCEPT ![h].step = s, ![h].time = t]
        PROVE  AttemptsSynced'
    <3>1. \A g \in Handlers : /\ request'[g].id = request[g].id /\ request'[g].target = request[g].target
                              /\ g # h => request'[g].step = request[g].step
      BY <2>4 DEF TypeOK, RequestTypeOK, Requests
    <3>2. \A n : AttemptSynced(n) => AttemptSynced(n)'
      BY <2>1 DEF AttemptSynced
    <3>3. ASSUME NEW g \in Handlers, Audited(g)', request'[g].step \notin {"free", "attempt"}
          PROVE  AttemptSynced(request[g].id)'
      BY <2>1, <3>1, <3>2, <3>3 DEF Inside
    <3> QED
      BY <2>2, <3>3
  <2> QED
    BY <1>5, <2>3, <2>4 DEF Moves
<1>6. CASE Clock
  BY <1>6 DEF Clock, auditVars, gatewayVars, AttemptSynced
<1>7. CASE stopService
  BY <1>7 DEF stopService, auditVars, AttemptSynced
<1>8. CASE Restart
  <2>1. request' = [h \in Handlers |-> Free] /\ dispatched' = dispatched /\ OpenAuditLog
    BY <1>8 DEF Restart
  <2>2. PICK k \in synced..Len(records) : synced' = k /\ \A i \in 1..k : records'[i] = records[i]
    BY <2>1, OpenEffect DEF TypeOK
  <2>3. synced \in Nat /\ Len(records) \in Nat
    BY DEF TypeOK, AuditTypeOK
  <2>4. \A n : AttemptSynced(n) => AttemptSynced(n)'
    BY <2>2, <2>3, SyncedGrows DEF TypeOK
  <2>5. \A h \in Handlers : request'[h].step = "free"
    BY <2>1 DEF Free
  <2> QED
    BY <2>1, <2>4, <2>5
<1>9. CASE UNCHANGED allVars
  BY <1>9 DEF allVars, auditVars, gatewayVars, AttemptSynced
<1> QED
  BY NextCases, <1>1, <1>2, <1>3, <1>4, <1>5, <1>6, <1>7, <1>8, <1>9

(* audit.go:148: under the strict audit a mutation reaches its handler only  *)
(* after its attempt is in the log file for good: no crash, torn line or     *)
(* failed checkpoint of any other request takes it out again.                *)
THEOREM AttemptsPrecedeHolds == Spec => []AttemptsPrecede
<1>1. GatewayInit => AttemptsSynced
  BY DEF GatewayInit, AttemptsSynced, Free
<1>2. TypeOK /\ AttemptsSynced => AttemptsPrecede
  <2> SUFFICES ASSUME TypeOK, AttemptsSynced, strict, NEW n \in dispatched
               PROVE  \E i \in DOMAIN records : records[i].id = <<n, "attempt">>
    BY DEF AttemptsPrecede
  <2>1. PICK i \in 1..synced : records[i].id = <<n, "attempt">>
    BY DEF AttemptsSynced, AttemptSynced
  <2>2. DOMAIN records = 1..Len(records) /\ synced \in 0..Len(records) /\ Len(records) \in Nat
    BY DEF TypeOK, AuditTypeOK
  <2> QED
    BY <2>1, <2>2
<1>3. TypeOK /\ AttemptsSynced /\ [Next]_allVars => AttemptsSynced'
  BY AttemptsStep
<1> QED
  BY TypeCorrect, <1>1, <1>2, <1>3, PTL DEF Spec

-----------------------------------------------------------------------------
(* A log that reports no error verifies.                                     *)

(* What append does to a log whose chain holds.                              *)
LEMMA AppendChain ==
    ASSUME AuditTypeOK, NEW n \in Nat, NEW phase \in {"attempt", "complete"},
           readAndVerifyAudit(records), sequence = Len(records), lastHash = Tip,
           records' = Append(records, AuditRecord(sequence + 1, lastHash, <<n, phase>>)),
           sequence' = sequence + 1, lastHash' = <<n, phase>>
    PROVE  /\ readAndVerifyAudit(records)' /\ sequence' = Len(records)'
           /\ lastHash' = Tip' /\ records' # <<>>
<1> DEFINE entry == AuditRecord(sequence + 1, lastHash, <<n, phase>>)
<1>1. entry \in Entries /\ records \in Seq(Entries) /\ Len(records) \in Nat
  BY EntryType DEF AuditTypeOK
<1>2. /\ entry.sequence = Len(records) + 1 /\ entry.previousHash = Tip
      /\ hashAuditRecord(entry) = <<n, phase>>
  BY DEF AuditRecord, hashAuditRecord
<1> HIDE DEF entry
<1>3. /\ Len(records') = Len(records) + 1
      /\ \A i \in 1..Len(records) : records'[i] = records[i]
      /\ records'[Len(records) + 1] = entry
      /\ records' \in Seq(Entries)
  BY <1>1, AppendProperties DEF entry
<1>4. DOMAIN records = 1..Len(records) /\ DOMAIN records' = 1..(Len(records) + 1)
  BY <1>1, <1>3
<1>5. records' # <<>> /\ (records = <<>> <=> Len(records) = 0)
  BY <1>1, <1>3, EmptySeq
<1>6. readAndVerifyAudit(records)'
  <2> SUFFICES ASSUME NEW i \in 1..(Len(records) + 1)
               PROVE  /\ records'[i].sequence = i
                      /\ records'[i].previousHash = IF i = 1 THEN None ELSE hashAuditRecord(records'[i - 1])
    BY <1>4 DEF readAndVerifyAudit
  <2>1. CASE i \in 1..Len(records)
    <3>1. i # 1 => i - 1 \in 1..Len(records)
      BY <1>1, <2>1
    <3>2. /\ records[i].sequence = i
          /\ records[i].previousHash = IF i = 1 THEN None ELSE hashAuditRecord(records[i - 1])
      BY <1>4, <2>1 DEF readAndVerifyAudit
    <3> QED
      BY <1>3, <2>1, <3>1, <3>2
  <2>2. CASE i = Len(records) + 1
    <3>1. i # 1 => Len(records) \in 1..Len(records) /\ i - 1 = Len(records) /\ records # <<>>
      BY <1>1, <1>5, <2>2
    <3>2. i = 1 => records = <<>>
      BY <1>1, <1>5, <2>2
    <3> QED
      BY <1>2, <1>3, <2>2, <3>1, <3>2 DEF Tip
  <2> QED
    BY <1>1, <2>1, <2>2
<1>7. lastHash' = Tip'
  BY <1>2, <1>3, <1>5 DEF Tip
<1> QED
  BY <1>1, <1>3, <1>5, <1>6, <1>7

(* The checkpoint that verifyAuditPath wants is the one ChainHolds names.    *)
LEMMA VerifiedTail ==
    ASSUME NEW lines \in Seq(Entries), NEW point
    PROVE  verifyAuditPath(lines, point) <=>
             /\ readAndVerifyAudit(lines)
             /\ point = IF lines = <<>> THEN None ELSE <<Len(lines), hashAuditRecord(lines[Len(lines)])>>
<1>1. lines # <<>> => Len(lines) \in DOMAIN lines
  BY EmptySeq
<1> QED
  BY <1>1 DEF verifyAuditPath, readAndVerifyAudit, Last

LEMMA ChainInit == GatewayInit => ChainHolds
<1> SUFFICES ASSUME GatewayInit PROVE ChainHolds
  OBVIOUS
<1>1. records = <<>> /\ sequence = 0 /\ lastHash = None /\ checkpoint = None
  BY DEF GatewayInit, AuditInit
<1>2. AuditMuFree
  BY DEF GatewayInit, AuditMuFree, Free
<1>3. Len(<<>>) = 0 /\ readAndVerifyAudit(<<>>)
  BY DEF readAndVerifyAudit
<1> QED
  BY <1>1, <1>2, <1>3 DEF ChainHolds, Tip

(* A request that writes its record holds the mutex until the checkpoint.    *)
LEMMA RecordChain ==
    ASSUME TypeOK, ChainHolds, NEW h \in Handlers, NEW phase \in {"attempt", "complete"},
           NEW s \in {"attempted", "completed"}, request[h].step \notin {"attempted", "completed"},
           Record(h, phase, Goto(h, s), Gone(h))
    PROVE  ChainHolds'
<1> SUFFICES ASSUME opened', ~persistenceErr' PROVE ChainHolds'
  BY DEF ChainHolds
<1>1. /\ AuditMuFree /\ append(<<Id(h), phase>>, Goto(h, s), Gone(h))
      /\ opened' = opened
  BY RecordEffect
<1>2. /\ records' = Append(records, AuditRecord(sequence + 1, lastHash, <<Id(h), phase>>))
      /\ sequence' = sequence + 1 /\ lastHash' = <<Id(h), phase>>
      /\ persistenceErr' = persistenceErr /\ Goto(h, s)
  BY <1>1 DEF append, AuditRecord, hashAuditRecord
<1>3. readAndVerifyAudit(records) /\ sequence = Len(records) /\ lastHash = Tip
  BY <1>1, <1>2 DEF ChainHolds
<1>4. Id(h) \in Nat /\ AuditTypeOK
  BY DEF TypeOK, RequestTypeOK, Requests, Id
<1>5. /\ readAndVerifyAudit(records)' /\ sequence' = Len(records)'
      /\ lastHash' = Tip' /\ records' # <<>>
  BY <1>2, <1>3, <1>4, AppendChain
<1>6. request'[h].step = s
  BY <1>2 DEF Goto, TypeOK, RequestTypeOK, Requests
<1>7. ~AuditMuFree'
  BY <1>6 DEF AuditMuFree
<1> QED
  BY <1>5, <1>7 DEF ChainHolds

(* No two requests are at the mutex: it is what ChainHolds rests on when one *)
(* writes the checkpoint and leaves.                                         *)
AtMostOne ==
    \A g, h \in Handlers :
        (/\ request[g].step \in {"attempted", "completed"}
         /\ request[h].step \in {"attempted", "completed"}) => g = h

LEMMA CheckpointChain ==
    ASSUME TypeOK, ChainHolds, AtMostOne, NEW h \in Handlers,
           request[h].step \in {"attempted", "completed"},
           NEW ACTION ok, ok => Goto(h, "check") \/ Gone(h), Checkpoint(h, ok, Gone(h))
    PROVE  ChainHolds'
<1> SUFFICES ASSUME opened', ~persistenceErr' PROVE ChainHolds'
  BY DEF ChainHolds
<1>1. /\ UNCHANGED <<records, sequence, lastHash, opened, persistenceErr>>
      /\ checkpoint' = <<sequence, lastHash>> /\ (Goto(h, "check") \/ Gone(h))
  BY DEF Checkpoint, writeCheckpoint
<1>2. ~AuditMuFree
  BY DEF AuditMuFree
<1>3. /\ readAndVerifyAudit(records) /\ sequence = Len(records) /\ lastHash = Tip
      /\ records # <<>>
  BY <1>1, <1>2 DEF ChainHolds
<1>4. AuditMuFree'
  <2>1. request'[h].step \in {"check", "free"} /\ \A g \in Handlers \ {h} : request'[g] = request[g]
    BY <1>1 DEF Goto, Gone, Free, TypeOK, RequestTypeOK, Requests
  <2> QED
    BY <2>1 DEF AtMostOne, AuditMuFree
<1>5. Tip' = Tip
  BY <1>1 DEF Tip
<1> QED
  BY <1>1, <1>3, <1>4, <1>5 DEF ChainHolds

(* Neither the log nor a request at its mutex changes.                       *)
LEMMA ChainKept ==
    ASSUME TypeOK, ChainHolds, UNCHANGED auditVars, AuditMuFree' <=> AuditMuFree
    PROVE  ChainHolds'
  BY DEF ChainHolds, Tip, auditVars

LEMMA AtMostOneInit == GatewayInit => AtMostOne
  BY DEF GatewayInit, Free, AtMostOne

(* A restart finds the chain whole or opens no log.                          *)
LEMMA OpenChain ==
    ASSUME AuditTypeOK, OpenAuditLog, AuditMuFree'
    PROVE  ChainHolds'
<1> SUFFICES ASSUME opened' PROVE ChainHolds'
  BY DEF ChainHolds
<1>1. PICK k \in synced..Len(records) :
              /\ records' \in Seq(Entries) /\ Len(records') = k /\ checkpoint' = checkpoint
              /\ opened' = verifyAuditPath(records', checkpoint)
              /\ sequence' = (IF opened' /\ k > 0 THEN records'[k].sequence ELSE 0)
              /\ lastHash' = (IF opened' /\ k > 0 THEN hashAuditRecord(records'[k]) ELSE None)
  BY OpenEffect
<1>2. k \in Nat /\ (records' = <<>> <=> k = 0)
  BY <1>1, EmptySeq DEF AuditTypeOK
<1>3. verifyAuditPath(records', checkpoint')
  BY <1>1
<1>4. /\ readAndVerifyAudit(records')
      /\ checkpoint' = IF records' = <<>> THEN None ELSE <<k, hashAuditRecord(records'[k])>>
  BY <1>1, <1>3, VerifiedTail
<1>5. k > 0 => k \in DOMAIN records'
  BY <1>1, <1>2
<1>6. sequence' = k /\ lastHash' = Tip'
  <2>1. k > 0 => records'[k].sequence = k
    BY <1>4, <1>5 DEF readAndVerifyAudit
  <2> QED
    BY <1>1, <1>2, <2>1 DEF Tip
<1>7. checkpoint' = IF records' = <<>> THEN None ELSE <<Len(records'), Tip'>>
  BY <1>1, <1>4 DEF Tip
<1> QED
  BY <1>1, <1>4, <1>6, <1>7 DEF ChainHolds

LEMMA ChainStep == TypeOK /\ ChainHolds /\ AtMostOne /\ [Next]_allVars => ChainHolds' /\ AtMostOne'
<1> SUFFICES ASSUME TypeOK, ChainHolds, AtMostOne, [Next]_allVars PROVE ChainHolds' /\ AtMostOne'
  OBVIOUS
<1> DEFINE AtMutex(g) == request[g].step \in {"attempted", "completed"}
<1>1. ASSUME NEW h \in Handlers, ~AtMutex(h), ~AtMutex(h)', \A g \in Handlers \ {h} : request'[g] = request[g]
      PROVE  (AuditMuFree' <=> AuditMuFree) /\ AtMostOne'
  BY <1>1 DEF AuditMuFree, AtMostOne
<1>2. ASSUME NEW h \in Handlers, Arrive(h) PROVE ChainHolds' /\ AtMostOne'
  <2>1. UNCHANGED auditVars /\ ~AtMutex(h) /\ ~AtMutex(h)' /\ \A g \in Handlers \ {h} : request'[g] = request[g]
    BY <1>2 DEF Arrive, At, TypeOK, RequestTypeOK
  <2> QED
    BY <1>1, <2>1, ChainKept
<1>3. ASSUME NEW h \in Handlers, Attempt(h) \/ Complete(h) PROVE ChainHolds' /\ AtMostOne'
  <2>1. PICK s \in {"attempted", "completed"}, phase \in {"attempt", "complete"} :
            ~AtMutex(h) /\ Record(h, phase, Goto(h, s), Gone(h))
    BY <1>3 DEF Attempt, Complete, At
  <2>2. ChainHolds'
    BY <2>1, RecordChain
  <2>3. AuditMuFree /\ (Goto(h, s) \/ Gone(h))
    BY <2>1 DEF Record, append
  <2>4. \A g \in Handlers \ {h} : request'[g] = request[g]
    BY <2>3 DEF Goto, Gone, TypeOK, RequestTypeOK
  <2> QED
    BY <2>2, <2>3, <2>4 DEF AuditMuFree, AtMostOne
<1>4. ASSUME NEW h \in Handlers, Attempted(h) \/ Completed(h) PROVE ChainHolds' /\ AtMostOne'
  <2>1. AtMutex(h) /\ (Checkpoint(h, Goto(h, "check"), Gone(h)) \/ Checkpoint(h, Gone(h), Gone(h)))
    BY <1>4 DEF Attempted, Completed, At
  <2>2. ChainHolds'
    BY <2>1, CheckpointChain
  <2>3. Goto(h, "check") \/ Gone(h)
    BY <2>1 DEF Checkpoint, writeCheckpoint
  <2>4. request'[h].step \in {"check", "free"} /\ \A g \in Handlers \ {h} : request'[g] = request[g]
    BY <2>3 DEF Goto, Gone, Free, TypeOK, RequestTypeOK, Requests
  <2> QED
    BY <2>2, <2>4 DEF AtMostOne
<1>5. ASSUME NEW h \in Handlers, Moves(h) PROVE ChainHolds' /\ AtMostOne'
  <2>1. UNCHANGED auditVars /\ ~AtMutex(h)
    BY <1>5 DEF Moves, Inside
  <2>2. ~AtMutex(h)' /\ \A g \in Handlers \ {h} : request'[g] = request[g]
    <3>1. CASE request' = [request EXCEPT ![h] = Free]
      BY <3>1 DEF Free, TypeOK, RequestTypeOK
    <3>2. ASSUME NEW s \in Inside, NEW t \in Nat, request' = [request EXCEPT ![h].step = s, ![h].time = t]
          PROVE  ~AtMutex(h)' /\ \A g \in Handlers \ {h} : request'[g] = request[g]
      BY <3>2 DEF TypeOK, RequestTypeOK, Requests, Inside
    <3> QED
      BY <1>5, <3>1, <3>2 DEF Moves
  <2> QED
    BY <1>1, <2>1, <2>2, ChainKept
<1>6. CASE Clock \/ stopService \/ UNCHANGED allVars
  <2>1. UNCHANGED auditVars /\ request' = request
    BY <1>6 DEF Clock, stopService, allVars, gatewayVars
  <2> QED
    BY <2>1, ChainKept DEF AuditMuFree, AtMostOne
<1>7. CASE Restart
  <2>1. OpenAuditLog /\ \A g \in Handlers : request'[g].step = "free"
    BY <1>7 DEF Restart, Free
  <2> QED
    BY <2>1, OpenChain DEF AuditMuFree, AtMostOne, TypeOK
<1> QED
  BY NextCases, <1>2, <1>3, <1>4, <1>5, <1>6, <1>7

(* audit.go:227: while the daemon reports no audit error, verifying the log  *)
(* and its checkpoint succeeds whenever no record is being written, whatever *)
(* writes, syncs, checkpoints and restarts came before.                      *)
THEOREM HealthyChainVerifiesHolds == Spec => []HealthyChainVerifies
<1>1. TypeOK /\ ChainHolds => HealthyChainVerifies
  <2> SUFFICES ASSUME TypeOK, ChainHolds, opened, ~persistenceErr, AuditMuFree
               PROVE  verifyAuditPath(records, checkpoint)
    BY DEF HealthyChainVerifies
  <2> QED
    BY VerifiedTail DEF ChainHolds, Tip, TypeOK, AuditTypeOK
<1>2. TypeOK /\ ChainHolds /\ AtMostOne /\ [Next]_allVars => ChainHolds' /\ AtMostOne'
  BY ChainStep
<1> QED
  BY TypeCorrect, ChainInit, AtMostOneInit, <1>1, <1>2, PTL DEF Spec

-----------------------------------------------------------------------------
(* The quotas.                                                               *)

(* QuotaExact, made inductive: a bucket is the newest window of its key, and *)
(* what it has counted is what that window let through.                      *)
Window(w) == w = <<w[1], w[2]>> /\ w[1] \in DOMAIN Rules /\ w[2] \in Nat
BucketsOK ==
    \A k \in DOMAIN buckets :
        /\ k \in DOMAIN Rules
        /\ buckets[k].count \in Nat /\ buckets[k].reset \in Nat
        /\ buckets[k] = [count |-> buckets[k].count, reset |-> buckets[k].reset]
        /\ <<k, buckets[k].reset>> \in DOMAIN passed
        /\ buckets[k].count = passed[<<k, buckets[k].reset>>]
PassedOK ==
    \A w \in DOMAIN passed :
        /\ Window(w) /\ passed[w] \in Nat /\ passed[w] <= Rules[w[1]].limit
        /\ w[1] \in DOMAIN buckets /\ w[2] <= buckets[w[1]].reset
Spaced ==
    \A v, w \in DOMAIN passed : v[1] = w[1] /\ v[2] > w[2] => v[2] - w[2] >= Rules[w[1]].window
QuotaInv == BucketsOK /\ PassedOK /\ Spaced

(* What the steps do to the quotas: nothing, a restart, or a request that    *)
(* all its buckets have room for.                                            *)
LEMMA QuotaCases ==
    ASSUME TypeOK, [Next]_allVars
    PROVE  \/ UNCHANGED <<buckets, passed>>
           \/ buckets' = <<>> /\ passed' = <<>>
           \/ \E keys \in SUBSET DOMAIN Rules, t \in Nat :
                 (\A k \in keys : ~Full(k, t)) /\ Charge(keys, t) /\ Pass(keys, t)
<1> DEFINE Goal == \/ UNCHANGED <<buckets, passed>>
                   \/ buckets' = <<>> /\ passed' = <<>>
                   \/ \E keys \in SUBSET DOMAIN Rules, t \in Nat :
                        (\A k \in keys : ~Full(k, t)) /\ Charge(keys, t) /\ Pass(keys, t)
<1>1. ASSUME NEW h \in Handlers, checkQuota(h) PROVE Goal
  <2>1. Keys(h) \in SUBSET DOMAIN Rules
    BY DEF Keys, matched
  <2>2. request[h].time \in Nat
    BY DEF TypeOK, RequestTypeOK, Requests
  <2>3. \/ /\ \A k \in Keys(h) : ~Full(k, request[h].time)
           /\ Charge(Keys(h), request[h].time) /\ Pass(Keys(h), request[h].time)
        \/ UNCHANGED <<buckets, passed>>
    BY <1>1 DEF checkQuota, Allow
  <2> QED
    BY <2>1, <2>2, <2>3
<1>2. ASSUME NEW h \in Handlers, Arrive(h) \/ (Step(h) /\ ~checkQuota(h)) PROVE UNCHANGED <<buckets, passed>>
  <2>1. CASE Arrive(h)
    BY <2>1 DEF Arrive, quotaVars
  <2>2. CASE Attempt(h) \/ Complete(h)
    BY <2>2, RecordEffect DEF Attempt, Complete
  <2>3. CASE Attempted(h) \/ Completed(h)
    BY <2>3 DEF Attempted, Completed, Checkpoint, quotaVars
  <2>4. CASE authorizeRequest(h) \/ readClock(h) \/ wireRoute(h) \/ dispatch(h) \/ serve(h)
    BY <2>4 DEF authorizeRequest, readClock, wireRoute, dispatch, serve, quotaVars
  <2>5. CASE EnsureServiceRunning(h)
    BY <2>5 DEF EnsureServiceRunning, quotaVars
  <2> QED
    BY <1>2, <2>1, <2>2, <2>3, <2>4, <2>5 DEF Step
<1>3. CASE Clock \/ stopService \/ UNCHANGED allVars
  BY <1>3 DEF Clock, Tick, stopService, allVars, quotaVars
<1>4. CASE Restart
  BY <1>4 DEF Restart
<1> QED
  BY <1>1, <1>2, <1>3, <1>4 DEF Next

LEMMA ChargeStep ==
    ASSUME QuotaInv, NEW keys \in SUBSET DOMAIN Rules, NEW t \in Nat,
           \A k \in keys : ~Full(k, t), Charge(keys, t), Pass(keys, t)
    PROVE  QuotaInv'
<1> DEFINE R(k) == quotaBucket(k, t).reset
           C(k) == quotaBucket(k, t).count
           Now(k) == <<k, R(k)>>
<1>1. ASSUME NEW k \in keys
      PROVE  /\ k \in DOMAIN Rules /\ Rules[k].limit \in Nat /\ Rules[k].window \in Nat
             /\ C(k) \in Nat /\ R(k) \in Nat /\ C(k) + 1 <= Rules[k].limit
             /\ quotaBucket(k, t) = [count |-> C(k), reset |-> R(k)]
  <2>1. Rules[k].limit \in Nat /\ Rules[k].window \in Nat
    BY RulesAssumption
  <2>2. C(k) \in Nat /\ R(k) \in Nat /\ quotaBucket(k, t) = [count |-> C(k), reset |-> R(k)]
    <3>1. CASE k \in DOMAIN buckets /\ t < buckets[k].reset
      <4>1. quotaBucket(k, t) = buckets[k]
        BY <3>1 DEF quotaBucket
      <4> QED
        BY <3>1, <4>1 DEF QuotaInv, BucketsOK
    <3>2. CASE ~(k \in DOMAIN buckets /\ t < buckets[k].reset)
      <4>1. quotaBucket(k, t) = [count |-> 0, reset |-> t + Rules[k].window]
        BY <3>2 DEF quotaBucket
      <4> QED
        BY <2>1, <4>1
    <3> QED
      BY <3>1, <3>2
  <2>3. ~(C(k) >= Rules[k].limit)
    BY DEF Full
  <2> QED
    BY <2>1, <2>2, <2>3
<1>2. ASSUME NEW k \in keys
      PROVE  \/ /\ k \in DOMAIN buckets /\ buckets[k].reset = R(k)
                /\ Now(k) \in DOMAIN passed /\ passed[Now(k)] = C(k)
             \/ /\ C(k) = 0 /\ Now(k) \notin DOMAIN passed
                /\ \A w \in DOMAIN passed : w[1] = k => w[2] + Rules[k].window <= R(k) /\ w[2] < R(k)
  <2>1. CASE k \in DOMAIN buckets /\ t < buckets[k].reset
    BY <2>1 DEF quotaBucket, QuotaInv, BucketsOK
  <2>2. CASE ~(k \in DOMAIN buckets /\ t < buckets[k].reset)
    <3>1. C(k) = 0 /\ R(k) = t + Rules[k].window /\ Rules[k].window \in Nat \ {0}
      BY <2>2, RulesAssumption DEF quotaBucket
    <3>2. ASSUME NEW w \in DOMAIN passed, w[1] = k
          PROVE  w[2] + Rules[k].window <= R(k) /\ w[2] < R(k)
      <4>1. w[2] \in Nat /\ k \in DOMAIN buckets /\ w[2] <= buckets[k].reset
        BY <3>2 DEF QuotaInv, PassedOK, Window
      <4>2. buckets[k].reset \in Nat
        BY <4>1 DEF QuotaInv, BucketsOK
      <4>3. buckets[k].reset <= t
        BY <2>2, <4>1, <4>2
      <4> QED
        BY <3>1, <4>1, <4>2, <4>3
    <3>3. Now(k) \notin DOMAIN passed
      <4>1. Now(k)[1] = k /\ Now(k)[2] = R(k)
        OBVIOUS
      <4>2. ~(R(k) < R(k))
        BY <1>1
      <4> QED
        BY <3>2, <4>1, <4>2
    <3> QED
      BY <3>1, <3>2, <3>3
  <2> QED
    BY <2>1, <2>2
<1>3. /\ DOMAIN passed' = DOMAIN passed \cup {Now(k) : k \in keys}
      /\ \A k \in keys : passed'[Now(k)] = C(k) + 1
      /\ \A w \in DOMAIN passed : (\A k \in keys : w # Now(k)) => passed'[w] = passed[w]
  <2>1. DOMAIN passed' = DOMAIN passed \cup {Now(k) : k \in keys}
    BY DEF Pass
  <2>2. ASSUME NEW k \in keys PROVE passed'[Now(k)] = C(k) + 1
    <3>1. Now(k)[1] = k /\ Now(k)[2] = R(k) /\ Now(k) \in DOMAIN passed'
      BY <2>1
    <3>2. passed'[Now(k)] = (IF Now(k) \in DOMAIN passed THEN passed[Now(k)] ELSE 0) + 1
      BY <2>1, <3>1 DEF Pass
    <3> QED
      BY <1>2, <3>2
  <2>3. ASSUME NEW w \in DOMAIN passed, \A k \in keys : w # Now(k) PROVE passed'[w] = passed[w]
    <3>1. w = <<w[1], w[2]>>
      BY DEF QuotaInv, PassedOK, Window
    <3>2. ~(w[1] \in keys /\ w[2] = R(w[1]))
      BY <2>3, <3>1
    <3> QED
      BY <3>2 DEF Pass
  <2> QED
    BY <2>1, <2>2, <2>3
<1>4. /\ DOMAIN buckets' = DOMAIN buckets \cup keys
      /\ \A k \in keys : buckets'[k] = [count |-> C(k) + 1, reset |-> R(k)]
      /\ \A k \in DOMAIN buckets \ keys : buckets'[k] = buckets[k]
  <2>1. \A k \in keys : [quotaBucket(k, t) EXCEPT !.count = @ + 1] = [count |-> C(k) + 1, reset |-> R(k)]
    BY <1>1
  <2> QED
    BY <2>1 DEF Charge
<1> HIDE DEF R, C
<1>5. ASSUME NEW w \in DOMAIN passed'
      PROVE  \/ w[1] \in keys /\ w[2] = R(w[1]) /\ w = Now(w[1])
             \/ w \in DOMAIN passed /\ \A k \in keys : w # Now(k)
  BY <1>3
<1>6. ASSUME NEW w \in DOMAIN passed, w[1] \in keys PROVE w[2] <= R(w[1])
  <2>1. w[2] \in Nat /\ w[2] <= buckets[w[1]].reset
    BY DEF QuotaInv, PassedOK, Window
  <2>2. CASE buckets[w[1]].reset = R(w[1])
    BY <2>1, <2>2
  <2>3. CASE \A v \in DOMAIN passed : v[1] = w[1] => v[2] + Rules[w[1]].window <= R(w[1]) /\ v[2] < R(w[1])
    <3>1. w[2] < R(w[1]) /\ R(w[1]) \in Nat
      BY <1>1, <1>6, <2>3
    <3> QED
      BY <2>1, <3>1
  <2> QED
    BY <1>2, <1>6, <2>2, <2>3
<1>7. BucketsOK'
  <2> SUFFICES ASSUME NEW k \in DOMAIN buckets'
               PROVE  /\ k \in DOMAIN Rules
                      /\ buckets'[k].count \in Nat /\ buckets'[k].reset \in Nat
                      /\ buckets'[k] = [count |-> buckets'[k].count, reset |-> buckets'[k].reset]
                      /\ <<k, buckets'[k].reset>> \in DOMAIN passed'
                      /\ buckets'[k].count = passed'[<<k, buckets'[k].reset>>]
    BY DEF BucketsOK
  <2>1. CASE k \in keys
    <3>1. buckets'[k].count = C(k) + 1 /\ buckets'[k].reset = R(k)
      BY <1>4, <2>1
    <3> QED
      BY <1>1, <1>3, <1>4, <2>1, <3>1
  <2>2. CASE k \in DOMAIN buckets \ keys
    <3>1. \A j \in keys : <<k, buckets[k].reset>> # Now(j)
      BY <2>2
    <3> QED
      BY <1>3, <1>4, <2>2, <3>1 DEF QuotaInv, BucketsOK
  <2> QED
    BY <1>4, <2>1, <2>2
<1>8. PassedOK'
  <2> SUFFICES ASSUME NEW w \in DOMAIN passed'
               PROVE  /\ Window(w) /\ passed'[w] \in Nat /\ passed'[w] <= Rules[w[1]].limit
                      /\ w[1] \in DOMAIN buckets' /\ w[2] <= buckets'[w[1]].reset
    BY DEF PassedOK, Window
  <2>1. CASE w[1] \in keys /\ w[2] = R(w[1]) /\ w = Now(w[1])
    <3>1. passed'[w] = C(w[1]) + 1 /\ buckets'[w[1]].reset = R(w[1])
      BY <1>3, <1>4, <2>1
    <3>2. Window(w)
      BY <1>1, <2>1 DEF Window
    <3> QED
      BY <1>1, <1>4, <2>1, <3>1, <3>2
  <2>2. CASE w \in DOMAIN passed /\ \A k \in keys : w # Now(k)
    <3>1. /\ Window(w) /\ passed'[w] \in Nat /\ passed'[w] <= Rules[w[1]].limit
          /\ w[1] \in DOMAIN buckets'
      BY <1>3, <1>4, <2>2 DEF QuotaInv, PassedOK
    <3>2. CASE w[1] \in keys
      <4>1. w[2] <= R(w[1]) /\ buckets'[w[1]].reset = R(w[1])
        BY <1>4, <1>6, <2>2, <3>2
      <4> QED
        BY <3>1, <4>1
    <3>3. CASE w[1] \notin keys
      <4>1. w[2] <= buckets[w[1]].reset /\ buckets'[w[1]] = buckets[w[1]]
        BY <1>4, <2>2, <3>3 DEF QuotaInv, PassedOK
      <4> QED
        BY <3>1, <4>1
    <3> QED
      BY <3>1, <3>2, <3>3
  <2> QED
    BY <1>5, <2>1, <2>2
<1>9. Spaced'
  <2> SUFFICES ASSUME NEW v \in DOMAIN passed', NEW w \in DOMAIN passed', v[1] = w[1], v[2] > w[2]
               PROVE  v[2] - w[2] >= Rules[w[1]].window
    BY DEF Spaced
  <2>1. v[2] \in Nat /\ w[2] \in Nat /\ w[1] \in DOMAIN Rules
    BY <1>8 DEF PassedOK, Window
  <2>2. Rules[w[1]].window \in Nat
    BY <2>1, RulesAssumption
  <2>3. CASE v \in DOMAIN passed /\ w \in DOMAIN passed
    BY <2>3 DEF QuotaInv, Spaced
  <2>4. CASE v \notin DOMAIN passed /\ w \in DOMAIN passed
    <3>1. w[1] \in keys /\ v[2] = R(w[1]) /\ v = Now(w[1])
      BY <1>5, <2>4
    <3>2. w[2] + Rules[w[1]].window <= R(w[1])
      BY <1>2, <2>4, <3>1
    <3> QED
      BY <2>1, <2>2, <3>1, <3>2
  <2>5. CASE w \notin DOMAIN passed
    <3>1. w[1] \in keys /\ w[2] = R(w[1])
      BY <1>5, <2>5
    <3>2. v[2] <= R(w[1])
      <4>1. CASE v \in DOMAIN passed
        BY <1>6, <3>1, <4>1
      <4>2. CASE v \notin DOMAIN passed
        BY <1>5, <4>2, <2>1, <3>1
      <4> QED
        BY <4>1, <4>2
    <3> QED
      BY <2>1, <3>1, <3>2
  <2> QED
    BY <2>3, <2>4, <2>5
<1> QED
  BY <1>7, <1>8, <1>9 DEF QuotaInv

LEMMA NoWindows == ASSUME buckets = <<>>, passed = <<>> PROVE QuotaInv
<1>1. DOMAIN buckets = {} /\ DOMAIN passed = {}
  OBVIOUS
<1> QED
  BY <1>1 DEF QuotaInv, BucketsOK, PassedOK, Spaced

(* quota.go:100 and 142: in every window of every rule at most the limit is  *)
(* let through, the windows of a rule do not overlap, and a bucket counts    *)
(* just what its window let through; for any rules, any number of requests   *)
(* and whatever order their clock readings are decided in.                   *)
THEOREM QuotaExactHolds == Spec => []QuotaExact
<1>1. GatewayInit => QuotaInv
  BY NoWindows DEF GatewayInit, QuotaInit, NewQuotaLimiter
<1>2. TypeOK /\ QuotaInv /\ [Next]_allVars => QuotaInv'
  <2> SUFFICES ASSUME TypeOK, QuotaInv, [Next]_allVars PROVE QuotaInv'
    OBVIOUS
  <2>1. CASE UNCHANGED <<buckets, passed>>
    BY <2>1 DEF QuotaInv, BucketsOK, PassedOK, Spaced
  <2>2. CASE buckets' = <<>> /\ passed' = <<>>
    <3>1. DOMAIN buckets' = {} /\ DOMAIN passed' = {}
      BY <2>2
    <3> QED
      BY <3>1 DEF QuotaInv, BucketsOK, PassedOK, Spaced
  <2> QED
    BY QuotaCases, ChargeStep, <2>1, <2>2
<1>3. QuotaInv => QuotaExact
  BY DEF QuotaInv, BucketsOK, PassedOK, Spaced, QuotaExact, QuotaHolds, RefusalsAreFree
<1> QED
  BY TypeCorrect, <1>1, <1>2, <1>3, PTL DEF Spec

=============================================================================

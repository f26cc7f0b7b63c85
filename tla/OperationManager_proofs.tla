----------------------- MODULE OperationManager_proofs -----------------------
(***************************************************************************)
(* Proofs about OperationManager for every set of names, codes, bodies,    *)
(* metadata and clock values and for both kinds of store.                  *)
(***************************************************************************)
EXTENDS OperationManager, FiniteSetTheorems, TLAPS

-----------------------------------------------------------------------------
\* What the constructors of operations return.

\* canonicalRPCCode returns a code for every code.
LEMMA CanonicalCode == ASSUME NEW code \in Nat PROVE CanonicalRPCCode(code) \in Nat
  BY DEF CanonicalRPCCode

\* A terminal result is one of the results pollers can be given, never an
\* interruption.
LEMMA ResultIsFinal ==
  ASSUME NEW n \in Names, NEW code \in Codes, NEW body \in Bodies
  PROVE  /\ TerminalResult(n, code, body) \in FinalResults
         /\ TerminalResult(n, code, body) \in Results
         /\ TerminalResult(n, code, body).body # Interruption
<1>1. ResultCode(n, code) \in Nat
  BY CanonicalCode, CodesAssumption DEF ResultCode
<1>2. body \in ResponseBodies /\ Typed(body) \in ResponseBodies
  BY DEF ResponseBodies
<1>3. TerminalResult(n, code, body) \in FinalResults
  BY <1>1, <1>2 DEF TerminalResult, FinalResults
<1>4. \A r \in FinalResults : r \in Results /\ r.body # Interruption
  BY BodiesAssumption DEF FinalResults, Results
<1> QED BY <1>3, <1>4

\* The interruption of a restart is a typed terminal result.
LEMMA InterruptionTyped ==
  ASSUME NEW n \in Names
  PROVE  InterruptedResult(n) \in Results /\ InterruptedResult(n).body = Interruption
  BY CanonicalCode, 500 \in Nat DEF InterruptedResult, ResultCode, Results

\* A registration starts as a typed operation that is not terminal.
LEMMA NewTyped == NewOperation \in Ops /\ NewOperation # NoOp /\ ~Done(NewOperation)
<1>1. NoRes \in Results
  BY BodiesAssumption DEF NoRes, Results, ResponseBodies
<1>2. NewOperation \in Ops
  BY <1>1, MetasAssumption DEF NewOperation, Ops, Statuses
<1> QED BY <1>2, OpsAssumption DEF NewOperation, Done

\* The candidate of a finalization is a typed, final operation.
LEMMA CandidateFinal ==
  ASSUME NEW op \in Ops, NEW n \in Names, NEW code \in Codes, NEW body \in Bodies,
         NEW t \in EndTimes
  PROVE  LET c == TerminalOperationCandidate(op, n, code, body, t)
         IN  c \in Ops /\ c # NoOp /\ Final(c)
<1> DEFINE c == TerminalOperationCandidate(op, n, code, body, t)
<1>1. c \in Ops
  BY ResultIsFinal DEF TerminalOperationCandidate, Ops, Statuses
<1>2. c.status = "DONE" /\ c.res = TerminalResult(n, code, body)
  BY DEF TerminalOperationCandidate, Ops
<1> QED BY <1>1, <1>2, ResultIsFinal, OpsAssumption DEF Final, Done, IsInterrupted

\* Interrupting keeps absent and terminal operations and makes the others
\* terminal.
LEMMA InterruptTyped ==
  ASSUME NEW op \in Ops \cup {NoOp}, NEW n \in Names, NEW t \in EndTimes
  PROVE  LET i == InterruptOperation(op, n, t)
         IN  /\ i \in Ops \cup {NoOp}
             /\ i = NoOp <=> op = NoOp
             /\ op = NoOp \/ Done(op) => i = op
             /\ i # NoOp => Done(i)
<1> DEFINE i == InterruptOperation(op, n, t)
<1>1. CASE op = NoOp \/ Done(op)
  BY <1>1 DEF InterruptOperation, Done
<1>2. CASE ~(op = NoOp \/ Done(op))
  <2>1. op \in Ops /\ i = [op EXCEPT !.status = "DONE", !.res = InterruptedResult(n), !.end = t]
    BY <1>2 DEF InterruptOperation
  <2>2. i \in Ops
    BY <2>1, InterruptionTyped DEF Ops, Statuses
  <2>3. i.status = "DONE"
    BY <2>1 DEF Ops
  <2> QED BY <1>2, <2>2, <2>3, OpsAssumption DEF Done
<1> QED BY <1>1, <1>2

\* Changing the status or the metadata of an operation leaves the rest.
LEMMA FieldUpdates ==
  ASSUME NEW op \in Ops, NEW meta \in Metas
  PROVE  /\ [op EXCEPT !.status = "RUNNING"] \in Ops
         /\ ~Done([op EXCEPT !.status = "RUNNING"])
         /\ [op EXCEPT !.meta = meta] \in Ops
         /\ [op EXCEPT !.meta = meta].status = op.status
         /\ [op EXCEPT !.meta = meta].res = op.res
  BY DEF Ops, Statuses, Done

-----------------------------------------------------------------------------
\* Type correctness.

\* The values the variables are initialised with are typed.
LEMMA InitTyped == Init => TypeOK
<1> SUFFICES ASSUME Init PROVE TypeOK
  OBVIOUS
<1>1. Idle \in Calls
  BY DEF Calls
<1>2. ops \in [Names -> Ops \cup {NoOp}] /\ durable \in [Names -> Ops \cup {NoOp}]
  BY DEF Init, Empty
<1>3. run \in [Names -> Phases] /\ seen \in [Names -> SUBSET Results]
  BY DEF Init, Phases
<1> QED BY <1>1, <1>2, <1>3 DEF Init, TypeOK

\* Watch keeps the history of results typed.
LEMMA WatchTyped ==
  ASSUME seen \in [Names -> SUBSET Results], ops' \in [Names -> Ops \cup {NoOp}], Watch
  PROVE  seen' \in [Names -> SUBSET Results]
<1>1. \A n \in Names : Observed(up', ops', n) \subseteq Results
  BY DEF Observed, Done, Ops
<1> QED BY <1>1 DEF Watch

\* A call in progress is that of a method on a name, or the one of a restart.
LEMMA CallTyped ==
  ASSUME TypeOK
  PROVE  \/ cs = Idle
         \/ cs \in [pc : Steps, m : Methods, n : Names, op : Ops \cup {NoOp}]
         \/ cs.pc = "save" /\ cs.m = "restart" /\ cs.op = NoOp
  BY DEF TypeOK, Calls

\* The snapshot that is saved is typed.
LEMMA SnapshotTyped ==
  ASSUME TypeOK PROVE Snapshot \in [Names -> Ops \cup {NoOp}]
<1>1. cs.op \in Ops \cup {NoOp}
  BY CallTyped DEF Idle
<1> QED BY <1>1 DEF TypeOK, Snapshot

\* Every step keeps the types of the variables.
LEMMA StepTyped == TypeOK /\ [Next]_vars => TypeOK'
<1> SUFFICES ASSUME TypeOK, [Next]_vars PROVE TypeOK'
  OBVIOUS
<1> USE NewTyped, NamesAssumption, MetasAssumption
<1>0. Idle \in Calls
  BY DEF Calls
<1>c. ASSUME NEW m \in Methods, NEW n \in Names, NEW op \in Ops \cup {NoOp}
      PROVE  Call(m, n, op) \in Calls
  BY DEF Call, Calls, Steps
<1>p. ASSUME NEW pc \in Steps, cs # Idle, cs.m # "restart"
      PROVE  cs.n \in Names /\ cs.m \in Methods /\ [cs EXCEPT !.pc = pc] \in Calls
  <2>1. cs \in [pc : Steps, m : Methods, n : Names, op : Ops \cup {NoOp}]
    BY <1>p, CallTyped
  <2>2. [cs EXCEPT !.pc = pc] \in [pc : Steps, m : Methods, n : Names, op : Ops \cup {NoOp}]
    BY <2>1
  <2> QED BY <2>1, <2>2 DEF Calls
<1>1. CASE UNCHANGED vars
  BY <1>1 DEF TypeOK, vars
<1>2. CASE Next
  <2> USE DEF history
  <2>w. ops' \in [Names -> Ops \cup {NoOp}] => seen' \in [Names -> SUBSET Results]
    BY <1>2, WatchTyped DEF Next, TypeOK
  <2>1. ASSUME NEW n \in Names, NEW m \in {"register", "registerDurable"}, Insert(m, n)
        PROVE  TypeOK'
    <3>1. ops' \in [Names -> Ops \cup {NoOp}]
      BY <2>1 DEF Insert, TypeOK
    <3> QED BY <2>1, <2>w, <3>1, <1>c DEF Insert, TypeOK, Methods
  <2>2. ASSUME NEW n \in Names, AdvanceDurable(n), run' \in [Names -> Phases]
        PROVE  TypeOK'
    <3>1. CASE ops[n] = NoOp \/ Done(ops[n])
      BY <2>2, <2>w, <3>1 DEF AdvanceDurable, TypeOK
    <3>2. CASE ~(ops[n] = NoOp \/ Done(ops[n]))
      <4>1. ops[n] \in Ops
        BY <3>2 DEF TypeOK
      <4>2. [ops[n] EXCEPT !.status = "RUNNING"] \in Ops
        BY <4>1, FieldUpdates
      <4>3. ops' = [ops EXCEPT ![n] = [ops[n] EXCEPT !.status = "RUNNING"]]
        BY <2>2, <3>2 DEF AdvanceDurable
      <4>4. ops' \in [Names -> Ops \cup {NoOp}]
        BY <4>2, <4>3 DEF TypeOK
      <4> QED BY <2>2, <2>w, <3>2, <4>4, <1>c DEF AdvanceDurable, TypeOK, Methods
    <3> QED BY <3>1, <3>2
  <2>3. ASSUME NEW n \in Names, NEW meta \in Metas, UpdateMetadata(n, meta)
        PROVE  TypeOK'
    <3>1. [ops[n] EXCEPT !.meta = meta] \in Ops
      BY <2>3, FieldUpdates DEF UpdateMetadata, TypeOK
    <3>2. ops' \in [Names -> Ops \cup {NoOp}]
      BY <2>3, <3>1 DEF UpdateMetadata, TypeOK
    <3> QED BY <2>3, <2>w, <3>2, <1>c DEF UpdateMetadata, TypeOK, Methods
  <2>4. ASSUME NEW n \in Names, NEW code \in Codes, NEW body \in Bodies,
               NEW t \in EndTimes, FinalizeDurable(n, code, body, t),
               run' \in [Names -> Phases]
        PROVE  TypeOK'
    <3>1. cs' = cs \/ (ops[n] \in Ops /\ cs' = Call("finalize", n,
                         TerminalOperationCandidate(ops[n], n, code, body, t)))
      BY <2>4 DEF FinalizeDurable, TypeOK
    <3>2. cs' \in Calls
      BY <3>1, <1>c, CandidateFinal DEF TypeOK, Methods
    <3> QED BY <2>4, <2>w, <3>2 DEF FinalizeDurable, TypeOK
  <2>5. ASSUME NEW n \in Names, NEW code \in Codes, NEW body \in Bodies,
               NEW t \in EndTimes, FinalizeScopedDurableWithBarrier(n, code, body, t)
        PROVE  TypeOK'
    <3>1. ops[n] \in Ops
      BY <2>5 DEF FinalizeScopedDurableWithBarrier, TypeOK
    <3> QED BY <2>5, <2>w, <3>1, <1>c, CandidateFinal
            DEF FinalizeScopedDurableWithBarrier, TypeOK, Methods
  <2>6. ASSUME NEW n \in Names, NEW m \in {"rollback", "remove"}, Delete(m, n)
        PROVE  TypeOK'
    BY <2>6, <2>w, <1>c DEF Delete, TypeOK, Methods
  <2>7. CASE SaveOk
    <3>0. cs # Idle
      BY <2>7 DEF SaveOk, Idle
    <3>1. cs' \in Calls
      BY <2>7, <1>0, <1>p, <3>0 DEF SaveOk, Steps
    <3>2. acked' \subseteq Names
      BY <2>7, <1>p, <3>0 DEF SaveOk, TypeOK, Steps
    <3>3. run' \in [Names -> Phases]
      BY <2>7 DEF SaveOk, TypeOK, Phases
    <3> QED BY <2>7, <2>w, <3>1, <3>2, <3>3, SnapshotTyped DEF SaveOk, TypeOK
  <2>8. CASE SaveFails
    <3>0. cs # Idle /\ (cs.m = "restart" => cs.pc = "save")
      BY <2>8 DEF SaveFails, Idle, TypeOK, Calls, Methods
    <3>1. cs' \in Calls
      BY <2>8, <1>0, <1>p, <3>0 DEF SaveFails, Steps
    <3>2. run' \in [Names -> Phases]
      BY <2>8 DEF SaveFails, TypeOK, Phases
    <3>3. ops' \in [Names -> Ops \cup {NoOp}]
      BY <2>8 DEF SaveFails, TypeOK, Empty
    <3> QED BY <2>8, <2>w, <3>1, <3>2, <3>3, SnapshotTyped DEF SaveFails, TypeOK
  <2>9. CASE Readback
    <3>0. cs.n \in Names /\ cs.op \in Ops \cup {NoOp}
      BY <2>9, CallTyped DEF Readback, Idle
    <3>1. cs' \in Calls
      BY <2>9, <1>0, <1>p DEF Readback, ReadbackTerminal, ReadbackRegistration,
           ReadbackRollback, ReadbackRemoval, Finalizing, Steps, Idle
    <3>2. ops' \in [Names -> Ops \cup {NoOp}]
      BY <2>9, <3>0 DEF Readback, ReadbackTerminal, ReadbackRegistration,
           ReadbackRollback, ReadbackRemoval, TypeOK
    <3>3. sick' \in BOOLEAN /\ persistErr' \in BOOLEAN
      BY <2>9 DEF Readback, ReadbackTerminal, ReadbackRegistration,
           ReadbackRollback, ReadbackRemoval, TypeOK
    <3> QED BY <2>9, <2>w, <3>1, <3>2, <3>3 DEF Readback, TypeOK
  <2>10. CASE RunBarrier
    <3>1. cs # Idle /\ cs.m # "restart"
      BY <2>10, CallTyped DEF RunBarrier, Idle, Methods
    <3>2. cs' \in Calls /\ cs.n \in Names
      BY <2>10, <3>1, <1>p DEF RunBarrier, Steps
    <3> QED BY <2>10, <2>w, <3>2 DEF RunBarrier, TypeOK
  <2>11. CASE PublishTerminalCandidate
    <3>1. cs.op \in Ops \cup {NoOp}
      BY CallTyped DEF Idle
    <3> QED BY <2>11, <2>w, <1>0, <3>1 DEF PublishTerminalCandidate, TypeOK
  <2>12. CASE MarkPersistenceFailure \/ StoreDegrades
    BY <2>12, <2>w DEF MarkPersistenceFailure, StoreDegrades, TypeOK
  <2>13. ASSUME NEW n \in Names, RunAsync(n) \/ RunWork(n)
         PROVE  TypeOK'
    <3>1. run' \in [Names -> Phases]
      BY <2>13 DEF RunAsync, RunWork, TypeOK, Phases
    <3> QED BY <2>13, <2>w, <3>1 DEF RunAsync, RunWork, TypeOK
  <2>14. ASSUME NEW n \in Names, RunAdvance(n)
         PROVE  TypeOK'
    <3>1. run' \in [Names -> Phases]
      BY <2>14 DEF RunAdvance, TypeOK, Phases
    <3> QED BY <2>14, <3>1, <2>2 DEF RunAdvance
  <2>15. ASSUME NEW n \in Names, RunFinish(n)
         PROVE  TypeOK'
    <3>1. run' \in [Names -> Phases]
      BY <2>15 DEF RunFinish, TypeOK, Phases
    <3>2. \E t \in EndTimes, code \in Codes, body \in Bodies : FinalizeDurable(n, code, body, t)
      BY <2>15, BodiesAssumption, CodesAssumption DEF RunFinish
    <3> QED BY <3>1, <3>2, <2>4
  <2>16. CASE Crash
    <3>1. ops' \in [Names -> Ops \cup {NoOp}]
      BY <2>16 DEF Crash, Empty
    <3>2. run' \in [Names -> Phases]
      BY <2>16 DEF Crash, Phases
    <3> QED BY <2>16, <2>w, <1>0, <3>1, <3>2 DEF Crash, TypeOK
  <2>17. ASSUME NEW t \in EndTimes, Restart(t)
         PROVE  TypeOK'
    <3>1. ops' \in [Names -> Ops \cup {NoOp}]
      BY <2>17, InterruptTyped DEF Restart, TypeOK
    <3>2. cs' \in Calls /\ up' \in BOOLEAN
      <4>1. Call("restart", NoName, NoOp) \in Calls
        BY DEF Call, Calls
      <4> QED BY <2>17, <4>1 DEF Restart, TypeOK
    <3> QED BY <2>17, <2>w, <3>1, <3>2 DEF Restart, TypeOK
  <2>18. run' = run => run' \in [Names -> Phases]
    BY DEF TypeOK
  <2> QED
    BY <1>2, <2>1, <2>2, <2>3, <2>4, <2>5, <2>6, <2>7, <2>8, <2>9, <2>10, <2>11, <2>12,
       <2>13, <2>14, <2>15, <2>16, <2>17, <2>18
    DEF Next, Step, Register, RegisterDurable, RollbackScopedRegistration, RemoveDurable
<1> QED BY <1>1, <1>2

\* The variables keep their types in every behaviour of the registry.
THEOREM TypeCorrect == Spec => []TypeOK
  BY InitTyped, StepTyped, PTL DEF Spec

-----------------------------------------------------------------------------
\* The inductive invariant.

\* Every copy agrees with what pollers saw, and a result that was not visible
\* before is the durable one.
SeenKept ==
    \A n \in Names :
        /\ Agrees(ops'[n], seen[n])
        /\ Agrees(durable'[n], seen[n])
        /\ up' /\ Done(ops'[n]) => ops'[n].res \in seen[n] \/ ops'[n] = durable'[n]

\* The history of results stays consistent in such a step.
LEMMA SeenStep ==
  ASSUME TypeOK, TypeOK', SeenInv, Watch, SeenKept
  PROVE  SeenInv'
<1> SUFFICES ASSUME NEW n \in Names
             PROVE  /\ Agrees(ops'[n], seen'[n])
                    /\ Agrees(durable'[n], seen'[n])
                    /\ up' /\ Done(ops'[n]) => ops'[n].res \in seen'[n]
                    /\ \A r, q \in seen'[n] :
                         r.body # Interruption /\ q.body # Interruption => r = q
  BY DEF SeenInv, Agrees, Done
<1>1. seen'[n] = seen[n] \cup Observed(up', ops', n)
  BY DEF Watch
<1>2. CASE Observed(up', ops', n) \subseteq seen[n]
  <2>1. seen'[n] = seen[n]
    BY <1>1, <1>2
  <2>2. up' /\ Done(ops'[n]) => ops'[n].res \in seen[n]
    BY <1>2 DEF Observed
  <2>4. Agrees(ops'[n], seen[n]) /\ Agrees(durable'[n], seen[n])
    BY DEF SeenKept
  <2>3. \A r, q \in seen[n] : r.body # Interruption /\ q.body # Interruption => r = q
    BY DEF SeenInv
  <2> QED BY <2>1, <2>2, <2>3, <2>4
<1>3. CASE ~(Observed(up', ops', n) \subseteq seen[n])
  <2>1. up' /\ Done(ops'[n]) /\ ops'[n] = durable'[n] /\ seen'[n] = seen[n] \cup {ops'[n].res}
    BY <1>1, <1>3 DEF Observed, SeenKept
  <2>2. \A r \in seen[n] : r.body # Interruption => ops'[n].res = r
    BY <2>1 DEF Agrees, Done, SeenKept
  <2>3. \A r \in seen'[n] : r.body # Interruption => ops'[n].res = r
    BY <2>1, <2>2
  <2> QED BY <2>1, <2>3 DEF Agrees
<1> QED BY <1>2, <1>3

\* The candidate of a finalization agrees with what pollers saw: the
\* operation it replaces was not final.
LEMMA CandidateAgrees ==
  ASSUME TypeOK, SeenInv, CallInv, Finalizing
  PROVE  cs.n \in Names /\ Agrees(cs.op, seen[cs.n])
<1>1. cs.n \in Names
  BY CallTyped DEF Finalizing, Idle
<1>2. Done(cs.op) /\ ops[cs.n] # NoOp /\ ~Final(ops[cs.n])
  BY DEF CallInv, Final
<1>3. Agrees(ops[cs.n], seen[cs.n])
  BY <1>1 DEF SeenInv
<1>4. seen[cs.n] # {} => \A r \in seen[cs.n] : r.body = Interruption
  BY <1>2, <1>3 DEF Agrees, Final, IsInterrupted
<1> QED BY <1>1, <1>2, <1>4 DEF Agrees

\* The snapshot that is saved agrees with what pollers saw, and differs from
\* the visible operations only in the candidate of a finalization.
LEMMA SnapshotAgrees ==
  ASSUME TypeOK, SeenInv, CallInv, NEW n \in Names
  PROVE  /\ Agrees(Snapshot[n], seen[n])
         /\ Snapshot[n] = ops[n] \/ (Finalizing /\ n = cs.n /\ Snapshot[n] = cs.op)
         /\ Finalizing => Snapshot[cs.n] = cs.op
<1>1. Agrees(ops[n], seen[n])
  BY DEF SeenInv
<1>2. CASE Finalizing
  BY <1>1, <1>2, CandidateAgrees DEF Snapshot, TypeOK
<1>3. CASE ~Finalizing
  BY <1>1, <1>3 DEF Snapshot
<1> QED BY <1>2, <1>3

\* A step that only moves the goroutines, the error flags or the mutex.
LEMMA QuietStep ==
  ASSUME IInv, TypeOK', Watch, UNCHANGED <<up, ops, durable, cs, cleared, history>>
  PROVE  IInv'
<1> USE DEF history
<1>1. \A n \in Names : Observed(up, ops, n) \subseteq seen[n]
  BY DEF IInv, SeenInv, Observed
<1>2. \A n \in Names : seen'[n] = seen[n]
  BY <1>1 DEF Watch, IInv, TypeOK, Observed
<1>3. seen' = seen
  BY <1>2 DEF IInv, TypeOK
<1> QED BY <1>3 DEF IInv, SeenInv, FreshInv, CallInv, LostInv, PublishedIsDurable,
                    AckedDurable, BarrierOrder, Agrees, Finalizing, Final, Done, IsInterrupted

\* register, RegisterDurable and RegisterScopedDurable insert a fresh name.
LEMMA InsertStep ==
  ASSUME IInv, TypeOK', Watch, NEW n \in Names,
         NEW m \in {"register", "registerDurable"}, Insert(m, n)
  PROVE  IInv'
<1> USE NewTyped DEF history
<1>0. /\ up /\ up' /\ cs = Idle /\ n \notin used /\ durable' = durable
      /\ ops'[n] = NewOperation /\ \A k \in Names \ {n} : ops'[k] = ops[k]
  BY DEF Insert, Free, IInv, TypeOK
<1>1. seen[n] = {} /\ n \notin acked /\ n \notin cleared /\ durable[n] = NoOp
  BY <1>0 DEF IInv, FreshInv
<1>2. SeenInv'
  <2>1. SeenKept
    BY <1>0, <1>1 DEF IInv, SeenInv, SeenKept, Agrees
  <2> QED BY <2>1, SeenStep DEF IInv
<1>3. \A k \in Names : seen'[k] = seen[k]
  BY <1>0 DEF Watch, Observed, IInv, SeenInv
<1>4. FreshInv'
  BY <1>0, <1>3 DEF IInv, FreshInv, Insert, Call, Idle
<1>5. CallInv'
  BY <1>0, <1>1, <1>3 DEF IInv, CallInv, Insert, Call, Finalizing
<1>6. LostInv'
  BY <1>0, <1>1 DEF IInv, LostInv, Insert, Call, Idle
<1>7. PublishedIsDurable' /\ AckedDurable' /\ BarrierOrder'
  BY <1>0, <1>1 DEF IInv, PublishedIsDurable, AckedDurable, BarrierOrder, Insert, Final,
                    Done, IsInterrupted
<1> QED BY <1>2, <1>4, <1>5, <1>6, <1>7 DEF IInv

\* AdvanceDurable moves an operation that pollers have not seen terminal.
LEMMA AdvanceStep ==
  ASSUME IInv, TypeOK', Watch, NEW n \in Names, AdvanceDurable(n)
  PROVE  IInv'
<1> USE DEF history
<1>1. CASE ops[n] = NoOp \/ Done(ops[n])
  BY <1>1, QuietStep DEF AdvanceDurable
<1>2. CASE ~(ops[n] = NoOp \/ Done(ops[n]))
  <2> DEFINE o == [ops[n] EXCEPT !.status = "RUNNING"]
  <2>0. /\ up /\ up' /\ cs = Idle /\ durable' = durable /\ cs' = Call("advance", n, NoOp)
        /\ ops'[n] = o /\ \A k \in Names \ {n} : ops'[k] = ops[k]
        /\ UNCHANGED <<cleared, used, acked, dropped>>
        /\ acked \subseteq Names /\ cleared \subseteq Names
    BY <1>2 DEF AdvanceDurable, Free, IInv, TypeOK
  <2>1. o # NoOp /\ ~Done(o) /\ seen[n] = {} /\ n \in used
    <3>1. ops[n] \in Ops
      BY <1>2 DEF IInv, TypeOK
    <3>2. o # NoOp /\ ~Done(o)
      BY <3>1, FieldUpdates, MetasAssumption, OpsAssumption
    <3> QED BY <1>2, <3>2 DEF IInv, SeenInv, FreshInv, Agrees
  <2> HIDE DEF o
  <2>2. SeenInv'
    <3>1. SeenKept
      BY <2>0, <2>1 DEF IInv, SeenInv, SeenKept, Agrees
    <3> QED BY <3>1, SeenStep DEF IInv
  <2>3. \A k \in Names : seen'[k] = seen[k]
    BY <2>0, <2>1 DEF Watch, Observed, IInv, SeenInv
  <2>4. FreshInv'
    BY <2>0, <2>1, <2>3 DEF IInv, FreshInv, Call, Idle
  <2>5. CallInv'
    BY <2>0 DEF IInv, CallInv, Call, Finalizing
  <2>6. LostInv'
    BY <1>2, <2>0, <2>1 DEF IInv, LostInv, Call, Idle, Final
  <2>7. PublishedIsDurable' /\ AckedDurable' /\ BarrierOrder'
    BY <2>0, <2>1 DEF IInv, PublishedIsDurable, AckedDurable, BarrierOrder,
                      Final, Done, IsInterrupted
  <2> QED BY <2>2, <2>4, <2>5, <2>6, <2>7 DEF IInv
<1> QED BY <1>1, <1>2

\* UpdateMetadata keeps status and result.
LEMMA MetadataStep ==
  ASSUME IInv, TypeOK', Watch, NEW n \in Names, NEW meta \in Metas, UpdateMetadata(n, meta)
  PROVE  IInv'
<1> USE DEF history
<1> DEFINE o == [ops[n] EXCEPT !.meta = meta]
<1>0. /\ up /\ up' /\ cs = Idle /\ durable' = durable /\ cs' = Call("metadata", n, NoOp)
      /\ ops[n] # NoOp /\ ops'[n] = o /\ \A k \in Names \ {n} : ops'[k] = ops[k]
      /\ UNCHANGED <<cleared, used, acked, dropped>>
      /\ acked \subseteq Names /\ cleared \subseteq Names
  BY DEF UpdateMetadata, Free, IInv, TypeOK
<1>1. o # NoOp /\ o.status = ops[n].status /\ o.res = ops[n].res /\ n \in used
  <2>1. ops[n] \in Ops /\ n \in used
    BY <1>0 DEF IInv, TypeOK, FreshInv
  <2> QED BY <2>1, FieldUpdates, OpsAssumption
<1> HIDE DEF o
<1>2. SeenInv'
  <2>1. SeenKept
    BY <1>0, <1>1 DEF IInv, SeenInv, SeenKept, Agrees, Done
  <2> QED BY <2>1, SeenStep DEF IInv
<1>3. \A k \in Names : seen'[k] = seen[k]
  BY <1>0, <1>1 DEF Watch, Observed, IInv, SeenInv, Done
<1>4. FreshInv'
  BY <1>0, <1>1, <1>3 DEF IInv, FreshInv, Call, Idle
<1>5. CallInv'
  BY <1>0 DEF IInv, CallInv, Call, Finalizing
<1>6. LostInv'
  BY <1>0, <1>1 DEF IInv, LostInv, Call, Idle, Final, Done, IsInterrupted
<1>7. PublishedIsDurable' /\ AckedDurable' /\ BarrierOrder'
  BY <1>0, <1>1 DEF IInv, PublishedIsDurable, AckedDurable, BarrierOrder,
                    Final, Done, IsInterrupted
<1> QED BY <1>2, <1>4, <1>5, <1>6, <1>7 DEF IInv

\* finalizeDurable and FinalizeScopedDurableWithBarrier hide a final candidate
\* of an operation that is not final.
LEMMA CandidateStep ==
  ASSUME IInv, TypeOK', Watch, NEW n \in Names, NEW op, Free,
         ops[n] # NoOp, ~Final(ops[n]), Final(op),
         NEW m \in {"finalize", "barrier"}, cs' = Call(m, n, op),
         UNCHANGED <<up, ops, durable, cleared, history>>
  PROVE  IInv'
<1> USE DEF history
<1>0. /\ up /\ cs = Idle /\ n \in used
      /\ acked \subseteq Names /\ cleared \subseteq Names
  BY DEF Free, IInv, TypeOK, FreshInv
<1>1. \A k \in Names : Observed(up, ops, k) \subseteq seen[k]
  BY DEF IInv, SeenInv, Observed
<1>2. \A k \in Names : seen'[k] = seen[k]
  BY <1>1 DEF Watch, IInv, TypeOK, Observed
<1>3. SeenInv'
  BY <1>2 DEF IInv, SeenInv, Agrees, Done
<1>4. FreshInv'
  BY <1>0, <1>2 DEF IInv, FreshInv, Call
<1>5. CallInv'
  BY <1>0 DEF CallInv, Call, Finalizing, Final, Done, IsInterrupted
<1>6. LostInv'
  BY <1>0 DEF IInv, LostInv, Call, Idle, Final, Done, IsInterrupted
<1>7. PublishedIsDurable' /\ AckedDurable' /\ BarrierOrder'
  BY DEF IInv, PublishedIsDurable, AckedDurable, BarrierOrder, Final, Done, IsInterrupted
<1> QED BY <1>3, <1>4, <1>5, <1>6, <1>7 DEF IInv

\* RollbackScopedRegistration and RemoveDurable keep a copy of the operation
\* they take out of the registry.
LEMMA DeleteStep ==
  ASSUME IInv, TypeOK', Watch, NEW n \in Names,
         NEW m \in {"rollback", "remove"}, Delete(m, n)
  PROVE  IInv'
<1> USE DEF history
<1>0. /\ up /\ up' /\ cs = Idle /\ n \in used /\ durable' = durable /\ ops[n] # NoOp
      /\ ops'[n] = NoOp /\ \A k \in Names \ {n} : ops'[k] = ops[k]
      /\ dropped' = dropped \cup {n} /\ cs' = Call(m, n, ops[n])
      /\ UNCHANGED <<cleared, used, acked>>
      /\ acked \subseteq Names /\ cleared \subseteq Names
  BY DEF Delete, Free, IInv, TypeOK, FreshInv
<1>1. SeenInv'
  <2>1. SeenKept
    BY <1>0 DEF IInv, SeenInv, SeenKept, Agrees, Done
  <2> QED BY <2>1, SeenStep DEF IInv
<1>2. \A k \in Names : seen'[k] = seen[k]
  BY <1>0 DEF Watch, Observed, IInv, SeenInv, Done
<1>3. FreshInv'
  BY <1>0, <1>2 DEF IInv, FreshInv, Call
<1>4. Agrees(ops[n], seen[n]) /\ (Done(ops[n]) => ops[n].res \in seen[n])
  BY <1>0 DEF IInv, SeenInv
<1>5. CallInv'
  BY <1>0, <1>2, <1>4 DEF CallInv, Call, Finalizing
<1>6. LostInv'
  BY <1>0 DEF IInv, LostInv, Call, Idle, Final, Done, IsInterrupted
<1>7. PublishedIsDurable' /\ AckedDurable' /\ BarrierOrder'
  BY <1>0 DEF IInv, PublishedIsDurable, AckedDurable, BarrierOrder
<1> QED BY <1>1, <1>3, <1>5, <1>6, <1>7 DEF IInv

\* A state file that keeps what pollers, registrations and barriers rely on.
DurableOk(d) ==
    \A n \in Names :
        /\ Agrees(d[n], seen[n])
        /\ n \notin used => d[n] = NoOp
        /\ n \in acked \ dropped => d[n] # NoOp
        /\ n \in cleared \ dropped => Final(d[n])
        /\ n \notin dropped /\ up /\ Done(ops[n]) =>
             Done(d[n]) /\ (Final(ops[n]) => d[n].res = ops[n].res)

\* While a Save is due, both the old file and the snapshot are of that kind,
\* so it does not matter whether a failed Save committed.
LEMMA EitherFile ==
  ASSUME IInv, cs.pc \in {"save", "compensate"}
  PROVE  DurableOk(durable) /\ DurableOk(Snapshot)
<1>1. DurableOk(durable)
  BY DEF IInv, DurableOk, SeenInv, FreshInv, PublishedIsDurable, AckedDurable, BarrierOrder
<1>2. ASSUME NEW n \in Names
      PROVE  /\ Agrees(Snapshot[n], seen[n])
             /\ n \notin used => Snapshot[n] = NoOp
             /\ n \in acked \ dropped => Snapshot[n] # NoOp
             /\ n \in cleared \ dropped => Final(Snapshot[n])
             /\ n \notin dropped /\ up /\ Done(ops[n]) =>
                  Done(Snapshot[n]) /\ (Final(ops[n]) => Snapshot[n].res = ops[n].res)
  <2>0. cs.m # "none" /\ (up \/ cs.m = "restart")
    BY CallTyped DEF IInv, CallInv, Idle, Methods
  <2>1. /\ n \in acked \ dropped => ops[n] # NoOp
        /\ n \in cleared \ dropped => Final(ops[n])
        /\ n \notin used => ops[n] = NoOp /\ cs.n # n
    BY <2>0 DEF IInv, LostInv, FreshInv
  <2>2. Agrees(Snapshot[n], seen[n])
    BY SnapshotAgrees DEF IInv
  <2>3. CASE Snapshot[n] = ops[n]
    BY <2>1, <2>2, <2>3
  <2>4. CASE Finalizing /\ n = cs.n /\ Snapshot[n] = cs.op
    BY <2>1, <2>2, <2>4 DEF IInv, CallInv, Final, Done
  <2> QED BY <2>3, <2>4, SnapshotAgrees DEF IInv
<1> QED BY <1>1, <1>2 DEF DurableOk

\* A successful Save.
LEMMA SaveOkStep ==
  ASSUME IInv, TypeOK', Watch, SaveOk
  PROVE  IInv'
<1> USE DEF history
<1>0. /\ DurableOk(Snapshot) /\ durable' = Snapshot /\ ops' = ops
      /\ cs.m # "none" /\ (up <=> cs.m # "restart") /\ up'
      /\ UNCHANGED <<cleared, used, dropped>>
      /\ acked \subseteq Names /\ cleared \subseteq Names
  <2>1. cs.m # "none" /\ (up <=> cs.m # "restart")
    BY CallTyped DEF SaveOk, IInv, CallInv, Idle, Methods
  <2>2. DurableOk(Snapshot)
    BY EitherFile DEF SaveOk
  <2>3. up'
    BY <2>1 DEF SaveOk
  <2> QED BY <2>1, <2>2, <2>3 DEF SaveOk, IInv, TypeOK
<1>1. acked' = acked \/ (/\ acked' = acked \cup {cs.n}
                        /\ cs.m \in {"register", "registerDurable"} /\ cs.pc = "save")
  BY DEF SaveOk
<1>2. cs.m = "restart" => ~Finalizing /\ Snapshot = ops
  BY DEF Finalizing, Snapshot
<1>3. SeenInv'
  <2>1. SeenKept
    BY <1>0, <1>2 DEF IInv, SeenInv, SeenKept, DurableOk
  <2> QED BY <2>1, SeenStep DEF IInv
<1>4. FreshInv'
  <2>1. \A n \in Names \ used : seen'[n] = {} /\ n \notin acked'
    BY <1>0, <1>1 DEF Watch, Observed, IInv, FreshInv, Done
  <2>2. cs' = Idle \/ cs'.n = cs.n
    BY CallTyped DEF SaveOk, IInv, Finalizing
  <2> QED BY <1>0, <2>1, <2>2, NamesAssumption DEF IInv, FreshInv, DurableOk, Idle
<1>5. CallInv'
  <2>1. CASE cs' = Idle
    BY <2>1 DEF CallInv, Idle, Finalizing
  <2>2. CASE Finalizing
    <3>0. cs \in [pc : Steps, m : Methods, n : Names, op : Ops \cup {NoOp}]
      BY <2>2, CallTyped DEF IInv, Idle, Finalizing
    <3>1. /\ cs'.n = cs.n /\ cs'.op = cs.op /\ cs'.m = cs.m
          /\ cs'.pc \in {"publish", "barrier"}
      BY <2>2, <3>0 DEF SaveOk, Finalizing
    <3>2. Snapshot[cs.n] = cs.op
      BY <2>2, <3>0, SnapshotAgrees DEF IInv
    <3>3. ops[cs.n] # NoOp /\ ~Final(ops[cs.n]) /\ Final(cs.op)
      BY <2>2 DEF IInv, CallInv
    <3> QED BY <1>0, <2>2, <3>1, <3>2, <3>3 DEF CallInv, Finalizing, Final, Done, IsInterrupted
  <2> QED BY <2>1, <2>2 DEF SaveOk, Finalizing
<1>6. LostInv'
  <2>1. cs.m \in {"register", "registerDurable"} /\ cs.pc = "save" => ops[cs.n] # NoOp
    BY NewTyped DEF IInv, CallInv
  <2>2. cs.pc # "publish"
    BY DEF SaveOk
  <2> QED BY <1>0, <1>1, <2>1, <2>2 DEF IInv, LostInv, Final, Done, IsInterrupted
<1>7. PublishedIsDurable' /\ AckedDurable' /\ BarrierOrder'
  <2>1. cs.m \in {"register", "registerDurable"} /\ cs.pc = "save" =>
           cs.n \in Names /\ ops[cs.n] # NoOp /\ Snapshot[cs.n] # NoOp
    BY NewTyped, CallTyped, SnapshotAgrees DEF IInv, CallInv, Idle, Finalizing
  <2>2. PublishedIsDurable'
    <3>1. ASSUME NEW n \in Names, n \notin dropped, Done(ops[n])
          PROVE  Done(Snapshot[n]) /\ (Final(ops[n]) => Snapshot[n].res = ops[n].res)
      BY <1>0, <1>2, <3>1 DEF DurableOk
    <3> QED BY <1>0, <3>1 DEF PublishedIsDurable, Final, Done, IsInterrupted
  <2>3. AckedDurable'
    BY <1>0, <1>1, <1>6, <2>1 DEF AckedDurable, LostInv, DurableOk
  <2>4. BarrierOrder'
    BY <1>0 DEF BarrierOrder, DurableOk, Final, Done, IsInterrupted
  <2> QED BY <2>2, <2>3, <2>4
<1> QED BY <1>3, <1>4, <1>5, <1>6, <1>7 DEF IInv

\* A failed Save, committed or not.
LEMMA SaveFailsStep ==
  ASSUME IInv, TypeOK', Watch, SaveFails
  PROVE  IInv'
<1> USE DEF history
<1>0. /\ DurableOk(durable')
      /\ cs.m # "none" /\ (up <=> cs.m # "restart") /\ up' = up
      /\ UNCHANGED <<cleared, used, dropped, acked>>
      /\ acked \subseteq Names /\ cleared \subseteq Names /\ cs.pc # "publish"
  BY EitherFile, CallTyped DEF SaveFails, IInv, CallInv, TypeOK, Idle, Methods
<1>1. CASE cs.m = "restart"
  <2>0. ops' = Empty /\ cs' = Idle /\ ~up'
    BY <1>0, <1>1, CallTyped DEF SaveFails, IInv, Methods, Idle
  <2>1. \A n \in Names : ops'[n] = NoOp
    BY <2>0 DEF Empty
  <2>2. SeenInv'
    <3>1. SeenKept
      BY <1>0, <2>0, <2>1 DEF SeenKept, DurableOk, Agrees, Done
    <3> QED BY <3>1, SeenStep DEF IInv
  <2>3. \A n \in Names : seen'[n] = seen[n]
    BY <2>0 DEF Watch, Observed
  <2>4. FreshInv'
    BY <1>0, <2>0, <2>1, <2>3, NamesAssumption DEF IInv, FreshInv, DurableOk, Idle
  <2>5. CallInv' /\ LostInv'
    BY <2>0 DEF CallInv, LostInv, Idle, Finalizing, Empty
  <2>6. PublishedIsDurable' /\ AckedDurable' /\ BarrierOrder'
    BY <1>0, <2>0 DEF PublishedIsDurable, AckedDurable, BarrierOrder, DurableOk, Final,
                      Done, IsInterrupted
  <2> QED BY <2>2, <2>4, <2>5, <2>6 DEF IInv
<1>2. CASE cs.m # "restart"
  <2>0. /\ up /\ up' /\ cs \in [pc : Steps, m : Methods, n : Names, op : Ops \cup {NoOp}]
    BY <1>0, <1>2, CallTyped DEF IInv, Idle
  <2>1. \/ ops' = ops /\ (cs' = Idle \/ (cs' = [cs EXCEPT !.pc = "readback"]
                              /\ cs.m \in {"finalize", "barrier", "rollback", "remove",
                                           "registerDurable"}
                              /\ (cs.m = "registerDurable" => cs.pc = "compensate")))
        \/ /\ cs.m = "registerDurable" /\ cs' = [cs EXCEPT !.pc = "compensate"]
           /\ ops' = [ops EXCEPT ![cs.n] = NoOp]
    BY <1>2 DEF SaveFails, IInv, CallInv
  <2>2. \A n \in Names : ops'[n] = ops[n] \/ (ops'[n] = NoOp /\ n = cs.n
                                              /\ cs.m = "registerDurable")
    BY <2>0, <2>1 DEF IInv, TypeOK
  <2>3. SeenKept
    BY <1>0, <2>0, <2>2 DEF SeenKept, DurableOk, IInv, SeenInv, Agrees, Done
  <2>4. SeenInv'
    BY <2>3, SeenStep DEF IInv
  <2>5. \A n \in Names : seen'[n] = seen[n]
    BY <2>0, <2>2 DEF Watch, Observed, IInv, SeenInv, Done
  <2>6. cs' = Idle \/ (cs'.n = cs.n /\ cs'.op = cs.op /\ cs'.m = cs.m /\ cs' # Idle
                       /\ cs'.pc \in {"readback", "compensate"})
    BY <2>0, <2>1 DEF Idle
  <2>7. FreshInv'
    BY <1>0, <2>2, <2>5, <2>6, NamesAssumption DEF IInv, FreshInv, DurableOk, Idle
  <2>8. CallInv'
    <3>1. CASE cs' = Idle
      BY <3>1 DEF CallInv, Idle, Finalizing
    <3>2. CASE cs' # Idle
      <4>1. /\ cs'.n = cs.n /\ cs'.op = cs.op /\ cs'.m = cs.m
            /\ cs'.pc \in {"readback", "compensate"}
            /\ cs.m \in {"finalize", "barrier", "rollback", "remove", "registerDurable"}
            /\ cs'.pc = "compensate" => cs.m = "registerDurable"
            /\ cs.m # "registerDurable" => ops' = ops
        BY <2>0, <2>1, <2>6, <3>2
      <4>2. seen'[cs.n] = seen[cs.n] /\ acked' = acked /\ cleared' = cleared
            /\ dropped' = dropped
        BY <1>0, <2>0, <2>5
      <4> QED BY <2>0, <4>1, <4>2 DEF IInv, CallInv, Finalizing, Final, Done, IsInterrupted, Agrees
    <3> QED BY <3>1, <3>2
  <2>9. LostInv'
    <3>1. cs.m = "registerDurable" => cs.n \notin acked /\ cs.n \notin cleared
      BY DEF IInv, CallInv
    <3>2. \A n \in acked \cup cleared : ops'[n] = ops[n]
      BY <1>0, <2>2, <3>1
    <3> QED BY <1>0, <2>0, <3>2 DEF IInv, LostInv, Final, Done, IsInterrupted
  <2>10. PublishedIsDurable' /\ AckedDurable' /\ BarrierOrder'
    <3>1. PublishedIsDurable'
      BY <1>0, <2>0, <2>2 DEF PublishedIsDurable, DurableOk, Final, Done, IsInterrupted
    <3>2. AckedDurable'
      BY <1>0, <2>0, <2>9 DEF AckedDurable, LostInv, DurableOk
    <3>3. BarrierOrder'
      BY <1>0 DEF BarrierOrder, DurableOk, Final, Done, IsInterrupted
    <3> QED BY <3>1, <3>2, <3>3
  <2> QED BY <2>4, <2>7, <2>8, <2>9, <2>10 DEF IInv
<1> QED BY <1>1, <1>2

\* The readback after a failed Save.
LEMMA ReadbackStep ==
  ASSUME IInv, TypeOK', Watch, Readback
  PROVE  IInv'
<1> USE DEF history
<1>0. /\ up /\ up' /\ durable' = durable
      /\ cs \in [pc : Steps, m : Methods, n : Names, op : Ops \cup {NoOp}]
      /\ UNCHANGED <<cleared, used, dropped, acked>>
      /\ acked \subseteq Names /\ cleared \subseteq Names /\ cs.pc # "publish"
  <2>1. cs \in [pc : Steps, m : Methods, n : Names, op : Ops \cup {NoOp}]
    BY CallTyped DEF Readback, IInv, Idle
  <2>2. up
    BY <2>1 DEF IInv, CallInv, Methods
  <2> QED BY <2>1, <2>2 DEF Readback, IInv, TypeOK
<1>1. CASE Finalizing
  <2>1. ops' = ops /\ (cs' = Idle \/ (/\ durable[cs.n] = cs.op
                                      /\ cs'.pc \in {"barrier", "publish"}
                                      /\ cs'.n = cs.n /\ cs'.m = cs.m /\ cs'.op = cs.op))
    BY <1>0, <1>1 DEF Readback, ReadbackTerminal, ReadbackRegistration, ReadbackRollback,
                      ReadbackRemoval, Finalizing
  <2>2. SeenInv'
    <3>1. SeenKept
      BY <1>0, <2>1 DEF SeenKept, IInv, SeenInv
    <3> QED BY <3>1, SeenStep DEF IInv
  <2>3. \A n \in Names : seen'[n] = seen[n]
    BY <1>0, <2>1 DEF Watch, Observed, IInv, SeenInv
  <2>4. FreshInv'
    BY <1>0, <2>1, <2>3, NamesAssumption DEF IInv, FreshInv, Idle
  <2>5. CallInv'
    <3>1. CASE cs' = Idle
      BY <3>1 DEF CallInv, Idle, Finalizing
    <3>2. CASE cs' # Idle
      BY <1>0, <1>1, <2>1, <3>2 DEF IInv, CallInv, Finalizing, Final, Done, IsInterrupted
    <3> QED BY <3>1, <3>2
  <2>6. LostInv'
    BY <1>0, <2>1 DEF IInv, LostInv, Final, Done, IsInterrupted
  <2>7. PublishedIsDurable' /\ AckedDurable' /\ BarrierOrder'
    BY <1>0, <2>1 DEF IInv, PublishedIsDurable, AckedDurable, BarrierOrder, Final, Done,
                      IsInterrupted
  <2> QED BY <2>2, <2>4, <2>5, <2>6, <2>7 DEF IInv
<1>2. CASE ~Finalizing
  <2>1. /\ cs' = Idle /\ cs.m \in {"registerDurable", "rollback", "remove"}
        /\ \E o \in {cs.op, durable[cs.n], NoOp} : ops' = [ops EXCEPT ![cs.n] = o]
    BY <1>2 DEF Readback, ReadbackTerminal, ReadbackRegistration, ReadbackRollback,
                ReadbackRemoval
  <2>2. /\ \A n \in Names \ {cs.n} : ops'[n] = ops[n]
        /\ ops'[cs.n] \in {cs.op, durable[cs.n], NoOp}
    BY <1>0, <2>1 DEF IInv, TypeOK
  <2>3. /\ Agrees(cs.op, seen[cs.n])
        /\ Done(cs.op) => cs.op.res \in seen[cs.n]
        /\ cs.n \in dropped \/ (cs.n \notin acked /\ cs.n \notin cleared /\ ~Done(cs.op))
        /\ cs.n \in used
    <3>1. CASE cs.m \in {"rollback", "remove"}
      BY <1>0, <3>1 DEF IInv, CallInv, FreshInv
    <3>2. CASE cs.m = "registerDurable"
      BY <1>0, <3>2, NewTyped DEF IInv, CallInv, FreshInv, Agrees
    <3> QED BY <2>1, <3>1, <3>2
  <2>4. SeenInv'
    <3>1. SeenKept
      BY <1>0, <2>2, <2>3 DEF SeenKept, IInv, SeenInv, Agrees, Done
    <3> QED BY <3>1, SeenStep DEF IInv
  <2>5. FreshInv'
    <3>1. \A n \in Names \ used : ops'[n] = NoOp /\ seen'[n] = {}
      BY <2>2, <2>3 DEF Watch, Observed, IInv, FreshInv, Done
    <3> QED BY <1>0, <2>1, <3>1, NamesAssumption DEF IInv, FreshInv, Idle
  <2>6. CallInv'
    BY <2>1 DEF CallInv, Idle, Finalizing
  <2>7. LostInv'
    BY <1>0, <2>2, <2>3 DEF IInv, LostInv, Final, Done, IsInterrupted
  <2>8. PublishedIsDurable' /\ AckedDurable' /\ BarrierOrder'
    <3>1. PublishedIsDurable'
      <4>1. ASSUME NEW n \in Names, n \notin dropped, Done(ops'[n])
            PROVE  Done(durable[n]) /\ (Final(ops'[n]) => durable[n].res = ops'[n].res)
        <5>1. CASE n = cs.n
          BY <4>1, <5>1, <2>2, <2>3 DEF Done
        <5>2. CASE n # cs.n
          BY <1>0, <4>1, <5>2, <2>2 DEF IInv, PublishedIsDurable
        <5> QED BY <5>1, <5>2
      <4> QED BY <1>0, <4>1 DEF PublishedIsDurable, Final, Done, IsInterrupted
    <3>2. AckedDurable' /\ BarrierOrder'
      BY <1>0, <2>2, <2>3 DEF IInv, AckedDurable, BarrierOrder, Final, Done, IsInterrupted
    <3> QED BY <3>1, <3>2
  <2> QED BY <2>4, <2>5, <2>6, <2>7, <2>8 DEF IInv
<1> QED BY <1>1, <1>2

\* The barrier runs after the commit and before the publication.
LEMMA BarrierStep ==
  ASSUME IInv, TypeOK', Watch, RunBarrier
  PROVE  IInv'
<1> USE DEF history
<1>0. /\ cs \in [pc : Steps, m : Methods, n : Names, op : Ops \cup {NoOp}]
      /\ up /\ Finalizing /\ durable[cs.n] = cs.op
      /\ ops[cs.n] # NoOp /\ ~Final(ops[cs.n]) /\ Final(cs.op)
  <2>1. cs \in [pc : Steps, m : Methods, n : Names, op : Ops \cup {NoOp}]
    BY CallTyped DEF RunBarrier, IInv, Idle
  <2> QED BY <2>1 DEF RunBarrier, IInv, CallInv, Methods
<1>1. /\ cs'.n = cs.n /\ cs'.op = cs.op /\ cs'.m = cs.m /\ cs'.pc = "publish"
      /\ cleared' \in {cleared, cleared \cup {cs.n}}
      /\ UNCHANGED <<up, ops, durable, used, acked, dropped>>
  BY <1>0 DEF RunBarrier
<1>2. \A n \in Names : seen'[n] = seen[n]
  BY <1>1 DEF Watch, Observed, IInv, SeenInv
<1>3. SeenInv'
  BY <1>1, <1>2 DEF IInv, SeenInv, Agrees, Done
<1>4. FreshInv'
  BY <1>0, <1>1, <1>2 DEF IInv, FreshInv
<1>5. CallInv'
  BY <1>0, <1>1 DEF CallInv, Finalizing, Final, Done, IsInterrupted
<1>6. LostInv'
  BY <1>0, <1>1 DEF IInv, LostInv, RunBarrier, Final, Done, IsInterrupted
<1>7. PublishedIsDurable' /\ AckedDurable' /\ BarrierOrder'
  BY <1>0, <1>1 DEF IInv, PublishedIsDurable, AckedDurable, BarrierOrder, Final, Done,
                    IsInterrupted
<1> QED BY <1>3, <1>4, <1>5, <1>6, <1>7 DEF IInv

\* publishTerminalCandidate shows pollers what is durable already.
LEMMA PublishStep ==
  ASSUME IInv, TypeOK', Watch, PublishTerminalCandidate
  PROVE  IInv'
<1> USE DEF history
<1>0. /\ cs \in [pc : Steps, m : Methods, n : Names, op : Ops \cup {NoOp}]
      /\ up /\ Finalizing /\ durable[cs.n] = cs.op
      /\ ops[cs.n] # NoOp /\ ~Final(ops[cs.n]) /\ Final(cs.op)
      /\ acked \subseteq Names /\ cleared \subseteq Names
  <2>1. cs \in [pc : Steps, m : Methods, n : Names, op : Ops \cup {NoOp}]
    BY CallTyped DEF PublishTerminalCandidate, IInv, Idle
  <2> QED BY <2>1 DEF PublishTerminalCandidate, IInv, CallInv, Methods, TypeOK
<1>1. /\ cs' = Idle /\ ops'[cs.n] = cs.op /\ \A n \in Names \ {cs.n} : ops'[n] = ops[n]
      /\ UNCHANGED <<up, durable, used, acked, dropped, cleared>>
  BY <1>0 DEF PublishTerminalCandidate, IInv, TypeOK
<1>2. Agrees(cs.op, seen[cs.n]) /\ cs.n \in used /\ cs.op # NoOp
  BY <1>0, CandidateAgrees DEF IInv, FreshInv, Final, Done
<1>3. SeenInv'
  <2>1. SeenKept
    BY <1>0, <1>1, <1>2 DEF SeenKept, IInv, SeenInv
  <2> QED BY <2>1, SeenStep DEF IInv
<1>4. FreshInv'
  <2>1. \A n \in Names \ used : ops'[n] = NoOp /\ seen'[n] = {}
    BY <1>1, <1>2 DEF Watch, Observed, IInv, FreshInv, Done
  <2> QED BY <1>1, <2>1, NamesAssumption DEF IInv, FreshInv, Idle
<1>5. CallInv'
  BY <1>1 DEF CallInv, Idle, Finalizing
<1>6. LostInv'
  BY <1>0, <1>1, <1>2 DEF IInv, LostInv, Final, Done, IsInterrupted
<1>7. PublishedIsDurable' /\ AckedDurable' /\ BarrierOrder'
  BY <1>0, <1>1, <1>2 DEF IInv, PublishedIsDurable, AckedDurable, BarrierOrder, Final,
                          Done, IsInterrupted
<1> QED BY <1>3, <1>4, <1>5, <1>6, <1>7 DEF IInv

\* A crash loses the registry and the call in progress, not the file.
LEMMA CrashStep ==
  ASSUME IInv, TypeOK', Watch, Crash
  PROVE  IInv'
<1> USE DEF history
<1>0. /\ ~up' /\ cs' = Idle /\ durable' = durable /\ ops' = Empty
      /\ \A n \in Names : ops'[n] = NoOp
      /\ UNCHANGED <<used, acked, dropped, cleared>>
  BY DEF Crash, Empty
<1>1. \A n \in Names : seen'[n] = seen[n]
  BY <1>0 DEF Watch, Observed, IInv, TypeOK
<1>2. SeenInv'
  BY <1>0, <1>1 DEF IInv, SeenInv, Agrees, Done
<1>3. FreshInv'
  BY <1>0, <1>1, NamesAssumption DEF IInv, FreshInv, Idle
<1>4. CallInv' /\ LostInv'
  BY <1>0 DEF CallInv, LostInv, Idle, Finalizing, Empty
<1>5. PublishedIsDurable' /\ AckedDurable' /\ BarrierOrder'
  BY <1>0 DEF IInv, PublishedIsDurable, AckedDurable, BarrierOrder, Final, Done, IsInterrupted
<1> QED BY <1>2, <1>3, <1>4, <1>5 DEF IInv

\* A restart shows pollers the durable results and interrupts the rest.
LEMMA RestartStep ==
  ASSUME IInv, TypeOK', Watch, NEW t \in EndTimes, Restart(t)
  PROVE  IInv'
<1> USE DEF history
<1>0. /\ ~up /\ cs = Idle /\ durable' = durable
      /\ \A n \in Names : ops'[n] = InterruptOperation(durable[n], n, t)
      /\ \/ up' /\ cs' = Idle /\ ops' = durable
         \/ ~up' /\ cs' = Call("restart", NoName, NoOp)
      /\ UNCHANGED <<used, acked, dropped, cleared>>
      /\ acked \subseteq Names /\ cleared \subseteq Names
  BY DEF Restart, IInv, TypeOK
<1>1. ASSUME NEW n \in Names
      PROVE  /\ durable[n] = NoOp => ops'[n] = NoOp
             /\ Done(durable[n]) => ops'[n] = durable[n]
             /\ durable[n] # NoOp => ops'[n] # NoOp /\ Done(ops'[n])
  BY <1>0, InterruptTyped DEF IInv, TypeOK
<1>2. SeenInv'
  <2>1. ASSUME NEW n \in Names PROVE Agrees(ops'[n], seen[n])
    <3>1. Agrees(durable[n], seen[n])
      BY DEF IInv, SeenInv
    <3> QED BY <1>1, <3>1 DEF Agrees
  <2>2. SeenKept
    BY <1>0, <2>1 DEF SeenKept, IInv, SeenInv
  <2> QED BY <2>2, SeenStep DEF IInv
<1>3. FreshInv'
  <2>1. ASSUME NEW n \in Names, n \notin used PROVE ops'[n] = NoOp /\ seen'[n] = {}
    <3>1. ops'[n] = NoOp /\ seen[n] = {}
      BY <1>1, <2>1 DEF IInv, FreshInv
    <3> QED BY <3>1 DEF Watch, Observed, Done
  <2> QED BY <1>0, <2>1, NamesAssumption DEF IInv, FreshInv, Idle, Call
<1>4. CallInv'
  BY <1>0 DEF CallInv, Idle, Call, Finalizing
<1>5. LostInv'
  <2>1. ASSUME NEW n \in cleared \ dropped PROVE Final(ops'[n])
    <3>1. n \in Names /\ Final(durable[n])
      BY <1>0 DEF IInv, BarrierOrder
    <3> QED BY <1>1, <3>1 DEF Final
  <2>2. ASSUME NEW n \in acked \ dropped PROVE ops'[n] # NoOp
    <3>1. n \in Names /\ durable[n] # NoOp
      BY <1>0 DEF IInv, AckedDurable
    <3> QED BY <1>1, <3>1
  <2> QED BY <1>0, <2>1, <2>2 DEF LostInv, Call, Final, Done, IsInterrupted
<1>6. PublishedIsDurable' /\ AckedDurable' /\ BarrierOrder'
  BY <1>0, <1>1 DEF IInv, PublishedIsDurable, AckedDurable, BarrierOrder, Final, Done,
                    IsInterrupted
<1> QED BY <1>2, <1>3, <1>4, <1>5, <1>6 DEF IInv

\* The first state satisfies the invariant.
LEMMA InitInv == Init => IInv
<1> SUFFICES ASSUME Init PROVE IInv
  OBVIOUS
<1>1. \A n \in Names : ops[n] = NoOp /\ durable[n] = NoOp /\ seen[n] = {}
  BY DEF Init, Empty
<1>2. SeenInv /\ PublishedIsDurable
  BY <1>1 DEF SeenInv, Agrees, PublishedIsDurable, Done
<1>3. FreshInv
  BY <1>1, NamesAssumption DEF Init, FreshInv, Idle
<1>4. CallInv /\ LostInv /\ AckedDurable /\ BarrierOrder
  BY DEF Init, CallInv, LostInv, AckedDurable, BarrierOrder, Idle, Finalizing
<1> QED BY <1>2, <1>3, <1>4, InitTyped DEF IInv

\* Every step keeps the invariant.
LEMMA StepInv == IInv /\ [Next]_vars => IInv'
<1> SUFFICES ASSUME IInv, [Next]_vars PROVE IInv'
  OBVIOUS
<1>t. TypeOK'
  BY StepTyped DEF IInv
<1>1. CASE UNCHANGED vars
  BY <1>1, <1>t DEF vars, IInv, SeenInv, FreshInv, CallInv, LostInv, PublishedIsDurable,
       AckedDurable, BarrierOrder, Agrees, Finalizing, Final, Done, IsInterrupted
<1>2. CASE Next
  <2>w. Watch
    BY <1>2 DEF Next
  <2> USE <1>t, <2>w
  <2>1. ASSUME NEW n \in Names, Register(n) \/ RegisterDurable(n) PROVE IInv'
    BY <2>1, InsertStep DEF Register, RegisterDurable
  <2>2. ASSUME NEW n \in Names, AdvanceDurable(n) PROVE IInv'
    BY <2>2, AdvanceStep
  <2>3. ASSUME NEW n \in Names, NEW meta \in Metas, UpdateMetadata(n, meta) PROVE IInv'
    BY <2>3, MetadataStep
  <2>4. ASSUME NEW n \in Names, NEW code \in Codes, NEW body \in Bodies, NEW t \in EndTimes,
               FinalizeDurable(n, code, body, t)
        PROVE  IInv'
    <3>1. CASE ops[n] = NoOp \/ Final(ops[n])
      BY <2>4, <3>1, QuietStep DEF FinalizeDurable
    <3>2. CASE ~(ops[n] = NoOp \/ Final(ops[n]))
      <4>1. ops[n] \in Ops
        BY <3>2 DEF IInv, TypeOK
      <4>2. Final(TerminalOperationCandidate(ops[n], n, code, body, t))
        BY <4>1, CandidateFinal
      <4> QED BY <2>4, <3>2, <4>2, CandidateStep DEF FinalizeDurable
    <3> QED BY <3>1, <3>2
  <2>5. ASSUME NEW n \in Names, NEW code \in Codes, NEW body \in Bodies, NEW t \in EndTimes,
               FinalizeScopedDurableWithBarrier(n, code, body, t)
        PROVE  IInv'
    <3>1. ops[n] \in Ops
      BY <2>5 DEF FinalizeScopedDurableWithBarrier, IInv, TypeOK
    <3>2. Final(TerminalOperationCandidate(ops[n], n, code, body, t))
      BY <3>1, CandidateFinal
    <3> QED BY <2>5, <3>2, CandidateStep DEF FinalizeScopedDurableWithBarrier
  <2>6. ASSUME NEW n \in Names, RollbackScopedRegistration(n) \/ RemoveDurable(n) PROVE IInv'
    BY <2>6, DeleteStep DEF RollbackScopedRegistration, RemoveDurable
  <2>7. ASSUME NEW n \in Names, RunAsync(n) \/ RunWork(n) PROVE IInv'
    BY <2>7, QuietStep DEF RunAsync, RunWork
  <2>8. ASSUME NEW n \in Names, RunAdvance(n) PROVE IInv'
    BY <2>8, AdvanceStep DEF RunAdvance
  <2>9. ASSUME NEW n \in Names, RunFinish(n) PROVE IInv'
    <3>1. \E t \in EndTimes, code \in Codes, body \in Bodies : FinalizeDurable(n, code, body, t)
      BY <2>9, BodiesAssumption, CodesAssumption DEF RunFinish
    <3> QED BY <3>1, <2>4
  <2>10. CASE MarkPersistenceFailure \/ StoreDegrades
    BY <2>10, QuietStep DEF MarkPersistenceFailure, StoreDegrades
  <2>11. ASSUME NEW t \in EndTimes, Restart(t) PROVE IInv'
    BY <2>11, RestartStep
  <2> QED
    BY <1>2, <2>1, <2>2, <2>3, <2>4, <2>5, <2>6, <2>7, <2>8, <2>9, <2>10, <2>11,
       SaveOkStep, SaveFailsStep, ReadbackStep, BarrierStep, PublishStep, CrashStep
    DEF Next, Step
<1> QED BY <1>1, <1>2

\* The inductive invariant holds in every reachable state.
THEOREM Invariance == Spec => []IInv
  BY InitInv, StepInv, PTL DEF Spec

\* Pollers never see two different results of one name.
THEOREM PublishedOnceHolds == Spec => []PublishedOnce
<1>1. IInv => PublishedOnce
  <2> SUFFICES ASSUME IInv, NEW n \in Names
               PROVE  Cardinality({r \in seen[n] : r.body # Interruption}) <= 1
    BY DEF PublishedOnce
  <2> DEFINE S == {r \in seen[n] : r.body # Interruption}
  <2>1. \A r, q \in S : r = q
    BY DEF IInv, SeenInv
  <2>2. S = {} \/ \E r : S = {r}
    BY <2>1
  <2> HIDE DEF S
  <2>3. S = {} => Cardinality(S) <= 1
    BY FS_EmptySet
  <2>4. (\E r : S = {r}) => Cardinality(S) <= 1
    BY FS_Singleton
  <2> QED BY <2>2, <2>3, <2>4 DEF S
<1> QED BY <1>1, Invariance, PTL

\* A terminal answer is durable before pollers can see it.
THEOREM PublishedIsDurableHolds == Spec => []PublishedIsDurable
<1>1. IInv => PublishedIsDurable
  BY DEF IInv
<1> QED BY <1>1, Invariance, PTL

\* A saved registration stays pollable until its removal is asked for.
THEOREM AckedDurableHolds == Spec => []AckedDurable
<1>1. IInv => AckedDurable
  BY DEF IInv
<1> QED BY <1>1, Invariance, PTL

\* An association is cleared only after its operation's result is durable.
THEOREM BarrierOrderHolds == Spec => []BarrierOrder
<1>1. IInv => BarrierOrder
  BY DEF IInv
<1> QED BY <1>1, Invariance, PTL

-----------------------------------------------------------------------------
\* Refinement of OperationContract.

\* The strongest answer in a history that holds at most one result.
LEMMA StrongestValue ==
  ASSUME NEW shown,
         \A r, q \in shown : r.body # Interruption /\ q.body # Interruption => r = q
  PROVE  /\ shown = {} => Strongest(shown) = Unknown
         /\ \A r \in shown : r.body # Interruption => Strongest(shown) = r
         /\ (shown # {} /\ \A r \in shown : r.body = Interruption) =>
               Strongest(shown) = Interruption
<1> DEFINE F == {r \in shown : r.body # Interruption}
<1>1. \A r, q \in F : r = q
  OBVIOUS
<1>2. ASSUME NEW r \in F PROVE (CHOOSE q \in F : TRUE) = r
  BY <1>1
<1>3. Strongest(shown) = IF F # {} THEN CHOOSE r \in F : TRUE
                         ELSE IF shown # {} THEN Interruption ELSE Unknown
  BY DEF Strongest
<1> QED BY <1>2, <1>3

\* A final operation carries a result of the contract.
LEMMA FinalTyped ==
  ASSUME NEW op \in Ops, Final(op)
  PROVE  op.res \in FinalResults /\ op.res.body # Interruption
<1>1. op.res.body # Interruption
  BY DEF Final, Done, IsInterrupted
<1>2. op.res \in Results
  BY DEF Ops
<1> QED BY <1>1, <1>2 DEF Results, FinalResults

\* Every step of the registry is a step of the contract.
LEMMA ContractStep ==
  ASSUME IInv, IInv', Next
  PROVE  Contract!Next
<1>1. ASSUME NEW n \in Names
      PROVE  /\ Answer(n)' \in Contract!Answers
             /\ Answer(n)' \in Contract!MayFollow(Strongest(seen[n]))
             /\ Strongest(seen'[n]) = IF Answer(n)' \in {Unknown, Active} THEN Strongest(seen[n])
                              ELSE Answer(n)'
  <2> USE AnswersAssumption
  <2>w. seen'[n] = seen[n] \cup Observed(up', ops', n)
    BY DEF Next, Watch
  <2>a. Agrees(ops'[n], seen'[n])
    BY DEF IInv, SeenInv, Agrees, Done
  <2>s. /\ seen[n] = {} => Strongest(seen[n]) = Unknown
        /\ \A r \in seen[n] : r.body # Interruption => Strongest(seen[n]) = r
        /\ (seen[n] # {} /\ \A r \in seen[n] : r.body = Interruption) =>
              Strongest(seen[n]) = Interruption
    BY StrongestValue DEF IInv, SeenInv
  <2>p. /\ \A r \in seen'[n] : r.body # Interruption => Strongest(seen'[n]) = r
        /\ (seen'[n] # {} /\ \A r \in seen'[n] : r.body = Interruption) =>
              Strongest(seen'[n]) = Interruption
    BY StrongestValue DEF IInv, SeenInv
  <2>1. CASE ~up' \/ ops'[n] = NoOp
    <3>1. Answer(n)' = Unknown
      BY <2>1 DEF Answer
    <3>2. seen'[n] = seen[n]
      BY <2>1, <2>w DEF Observed, Done
    <3> QED BY <3>1, <3>2 DEF Contract!Answers, Contract!MayFollow
  <2>2. CASE up' /\ ops'[n] # NoOp /\ ~Done(ops'[n])
    <3>1. Answer(n)' = Active
      BY <2>2 DEF Answer, Done
    <3>2. seen'[n] = seen[n] /\ seen[n] = {}
      BY <2>2, <2>w, <2>a DEF Observed, Agrees
    <3> QED BY <3>1, <3>2, <2>s DEF Contract!Answers, Contract!MayFollow
  <2>3. CASE up' /\ IsInterrupted(ops'[n])
    <3>1. Answer(n)' = Interruption
      BY <2>3 DEF Answer, IsInterrupted, Done
    <3>2. ops'[n].res \in seen'[n] /\ \A r \in seen'[n] : r.body = Interruption
      BY <2>3, <2>w, <2>a DEF Observed, Agrees, IsInterrupted, Done
    <3>3. Strongest(seen'[n]) = Interruption
      BY <2>p, <3>2
    <3>4. Strongest(seen[n]) \in {Unknown, Interruption}
      BY <2>w, <2>s, <3>2
    <3> QED BY <3>1, <3>3, <3>4 DEF Contract!Answers, Contract!MayFollow
  <2>4. CASE up' /\ Final(ops'[n])
    <3>1. Answer(n)' = ops'[n].res
      BY <2>4 DEF Answer, Final, IsInterrupted, Done
    <3>2. ops'[n].res \in FinalResults /\ ops'[n].res.body # Interruption
      <4>1. ops'[n] \in Ops
        BY <2>4 DEF IInv, TypeOK, Final, Done
      <4> QED BY <2>4, <4>1, FinalTyped
    <3>3. ops'[n].res \in seen'[n] /\ \A r \in seen'[n] : r.body # Interruption => ops'[n].res = r
      BY <2>4, <2>w, <2>a DEF Observed, Agrees, Final, Done
    <3>4. Strongest(seen'[n]) = ops'[n].res
      BY <2>p, <3>2, <3>3
    <3>5. Strongest(seen[n]) \in {Unknown, Interruption, ops'[n].res}
      BY <2>w, <2>s, <3>3
    <3> QED BY <3>1, <3>2, <3>4, <3>5 DEF Contract!Answers, Contract!MayFollow
  <2> QED BY <2>1, <2>2, <2>3, <2>4 DEF Final
<1> QED BY <1>1 DEF Contract!Next

\* The registry implements the promise to its pollers.
THEOREM Refinement == Spec => ImplementsContract
<1>1. Init => Contract!Init
  <2> SUFFICES ASSUME Init PROVE Contract!Init
    OBVIOUS
  <2>1. \A n \in Names : Answer(n) = Unknown
    BY DEF Init, Empty, Answer
  <2>2. \A n \in Names : Strongest(seen[n]) = Unknown
    BY StrongestValue DEF Init
  <2> QED BY <2>1, <2>2 DEF Contract!Init
<1>2. IInv /\ IInv' /\ [Next]_vars => [Contract!Next]_Contract!vars
  <2>1. CASE Next
    BY <2>1, ContractStep
  <2>2. CASE UNCHANGED vars
    BY <2>2 DEF vars, Contract!vars, Answer, Done, IsInterrupted
  <2> QED BY <2>1, <2>2
<1> QED BY <1>1, <1>2, Invariance, PTL DEF Spec, ImplementsContract, Contract!Spec
=============================================================================

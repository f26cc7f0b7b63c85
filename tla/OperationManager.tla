-------------------------- MODULE OperationManager --------------------------
(***************************************************************************)
(* The long-running-operation registry of pkg/orchestrator/operations.go,  *)
(* its profile store and the restarts of the daemon.                       *)
(*                                                                         *)
(* Every mutation holds persistMu from its first change of om.ops to its   *)
(* last, so one record, `cs`, describes the call that holds the mutex; the *)
(* steps of a call are the writes of om.ops (each under om.mu, hence       *)
(* visible to pollers), the Save of the whole snapshot, the readback after *)
(* a failed Save, the caller's barrier and the publication.  A crash may   *)
(* fall between any two of them.  A Save that reports an error may have    *)
(* replaced the file (the directory sync comes after the rename), so a     *)
(* failed Save is committed or not.                                        *)
(*                                                                         *)
(* Progress, StartTime, InsertTime and the descriptive fields are left     *)
(* out: no branch reads them.  EndTime stays, because exact readback       *)
(* compares it and its resolution is one second.                           *)
(***************************************************************************)
EXTENDS Integers, FiniteSets

CONSTANTS
    Names,         \* operation names (a random suffix makes each one fresh)
    ScopedNames,   \* the names of the form .../operations/..., with a service
    TypedNames,    \* scoped names whose service has a typed response
    Bodies,        \* responses and error messages a caller may pass
    NoBody,        \* the absent response
    Interruption,  \* interruptedOperationMessage
    Codes,         \* codes a caller may pass; 0 is success
    Metas,         \* metadata values, NoMeta among them
    NoMeta,
    EndTimes,      \* values of the one-second clock
    StickyStore,   \* TRUE: state.Store, whose first failure refuses all Saves
    NoOp, NoName,  \* no operation, no name
    Unknown, Active   \* what a poll answers without a terminal result

ASSUME NamesAssumption ==
    /\ NoName \notin Names
    /\ ScopedNames \subseteq Names
    /\ TypedNames \subseteq ScopedNames
ASSUME CodesAssumption == Codes \subseteq Nat /\ 0 \in Codes
ASSUME MetasAssumption == NoMeta \in Metas
ASSUME StickyAssumption == StickyStore \in BOOLEAN

VARIABLES
    up,          \* a manager exists and serves
    ops,         \* om.ops
    durable,     \* the operations entry of the profile's state file
    exists,      \* that entry has been written at least once
    sick,        \* Store.degradedErr is set in this process
    persistErr,  \* om.persistenceErr is set
    cs,          \* the call that holds persistMu
    run,         \* the goroutine RunAsync started for each name
    cleared,     \* associations a barrier cleared in the caller's own state
    used,        \* history: names ever generated
    acked,       \* history: names whose registration was saved and returned
    dropped,     \* history: names a Rollback or Remove was called for
    seen         \* history: terminal results pollers could see

vars == <<up, ops, durable, exists, sick, persistErr, cs, run, cleared,
          used, acked, dropped, seen>>
history == <<used, acked, dropped>>

-----------------------------------------------------------------------------
\* Terminal results, as they reach pollers and the state file.

CanonicalRPCCode(code) ==
    CASE code \in 0..16 -> code
      [] code = 400 -> 3   [] code = 401 -> 16  [] code = 403 -> 7
      [] code = 404 -> 5   [] code = 409 -> 6   [] code = 412 -> 9
      [] code = 429 -> 8   [] code = 499 -> 1   [] code = 501 -> 12
      [] code = 503 -> 14  [] code = 504 -> 4   [] OTHER -> 13

ResultCode(n, code) ==
    IF n \in ScopedNames THEN CanonicalRPCCode(code) ELSE code

\* ensureScopedTerminalResponse adds the type to a scoped response.
Typed(body) == <<"@type", body>>
ResponseBodies == Bodies \cup {Typed(b) : b \in Bodies}

\* No caller passes the message that marks an interruption.
ASSUME BodiesAssumption == NoBody \in Bodies /\ Interruption \notin ResponseBodies

Results == [code : Nat, body : ResponseBodies \cup {Interruption}]
NoRes == [code |-> 0, body |-> NoBody]

TerminalResult(n, code, body) ==
    IF code # 0 THEN [code |-> ResultCode(n, code), body |-> body]
    ELSE [code |-> 0, body |-> IF n \in TypedNames THEN Typed(body) ELSE body]

InterruptedResult(n) == [code |-> ResultCode(n, 500), body |-> Interruption]

Statuses == {"PENDING", "RUNNING", "DONE"}
Ops == [status : Statuses, res : Results, meta : Metas, end : EndTimes \cup {0}]
ASSUME OpsAssumption == NoOp \notin Ops

NewOperation == [status |-> "PENDING", res |-> NoRes, meta |-> NoMeta, end |-> 0]

Done(op) == op # NoOp /\ op.status = "DONE"
IsInterrupted(op) == Done(op) /\ op.res.body = Interruption
Final(op) == Done(op) /\ ~IsInterrupted(op)

TerminalOperationCandidate(op, n, code, body, t) ==
    [op EXCEPT !.status = "DONE", !.res = TerminalResult(n, code, body), !.end = t]

\* Fault of the restart: terminal operations are interrupted too.
InterruptTerminalToo(op, n, t) ==
    IF op = NoOp THEN op
    ELSE [op EXCEPT !.status = "DONE", !.res = InterruptedResult(n), !.end = t]

InterruptOperation(op, n, t) ==
    IF op = NoOp \/ Done(op) THEN op
    ELSE [op EXCEPT !.status = "DONE", !.res = InterruptedResult(n), !.end = t]

-----------------------------------------------------------------------------
\* The mutex and the store.

Methods == {"register", "registerDurable", "advance", "metadata", "finalize",
            "barrier", "rollback", "remove"}
Steps == {"save", "compensate", "readback", "barrier", "publish"}
Idle == [pc |-> "idle", m |-> "none", n |-> NoName, op |-> NoOp]
Calls == {Idle}
    \cup [pc : Steps, m : Methods, n : Names, op : Ops \cup {NoOp}]
    \cup [pc : {"save"}, m : {"restart"}, n : {NoName}, op : {NoOp}]

\* Where RunAsync's goroutine for a name is; "new" is a registration that was
\* returned to its caller.
Phases == {"none", "new", "adv5", "adv25", "work", "adv85", "fail", "final", "end"}

Empty == [n \in Names |-> NoOp]

\* The call takes persistMu and goes on to save; `op` is the candidate of a
\* registration or a finalization, the previous operation of a removal.
Call(m, n, op) == [pc |-> "save", m |-> m, n |-> n, op |-> op]
Free == up /\ cs = Idle

Finalizing == cs.m \in {"finalize", "barrier"}

\* Fault: a finalization saves its candidate and nothing else.
SnapshotOfCandidate == IF Finalizing THEN [Empty EXCEPT ![cs.n] = cs.op] ELSE ops

\* The snapshot persistLocked writes: om.ops, or om.ops with the hidden
\* terminal candidate in place of the visible operation.
Snapshot == IF Finalizing THEN [ops EXCEPT ![cs.n] = cs.op] ELSE ops

TypeOK ==
    /\ up \in BOOLEAN /\ exists \in BOOLEAN
    /\ sick \in BOOLEAN /\ persistErr \in BOOLEAN
    /\ ops \in [Names -> Ops \cup {NoOp}]
    /\ durable \in [Names -> Ops \cup {NoOp}]
    /\ cs \in Calls
    /\ run \in [Names -> Phases]
    /\ cleared \subseteq Names /\ used \subseteq Names
    /\ acked \subseteq Names /\ dropped \subseteq Names
    /\ seen \in [Names -> SUBSET Results]

Init ==
    /\ up = TRUE /\ sick = FALSE /\ persistErr = FALSE /\ exists = FALSE
    /\ ops = Empty /\ durable = Empty /\ cs = Idle
    /\ run = [n \in Names |-> "none"]
    /\ cleared = {} /\ used = {} /\ acked = {} /\ dropped = {}
    /\ seen = [n \in Names |-> {}]

-----------------------------------------------------------------------------
\* Calls: the critical section up to the Save.

\* register / RegisterScopedDurable, first write of insertDurable.
Insert(m, n) ==
    /\ Free /\ n \notin used
    /\ used' = used \cup {n}
    /\ ops' = [ops EXCEPT ![n] = NewOperation]
    /\ cs' = Call(m, n, NewOperation)
    /\ UNCHANGED <<up, durable, exists, sick, persistErr, run, cleared,
                   acked, dropped>>

\* Register: a failed Save leaves the operation in memory.
Register(n) == n \notin ScopedNames /\ Insert("register", n)
\* RegisterDurable and RegisterScopedDurable: a failed Save is compensated.
RegisterDurable(n) == Insert("registerDurable", n)

\* The successful path of AdvanceDurable to RUNNING up to its Save; a missing
\* operation is a no-op, a terminal one a conflict.
AdvanceDurable(n) ==
    /\ Free
    /\ IF ops[n] = NoOp \/ Done(ops[n]) THEN UNCHANGED <<ops, cs>>
       ELSE /\ ops' = [ops EXCEPT ![n].status = "RUNNING"]
            /\ cs' = Call("advance", n, NoOp)
    /\ UNCHANGED <<up, durable, exists, sick, persistErr, cleared, history>>

UpdateMetadata(n, meta) ==
    /\ Free /\ ops[n] # NoOp
    /\ ops' = [ops EXCEPT ![n].meta = meta]
    /\ cs' = Call("metadata", n, NoOp)
    /\ UNCHANGED <<up, durable, exists, sick, persistErr, run, cleared, history>>

\* finalizeDurable up to its Save.  A final operation only has its result
\* compared with the retry's, an interrupted one may still be finalized.
\* The candidate is hidden: om.ops does not change.
FinalizeDurable(n, code, body, t) ==
    /\ Free
    /\ IF ops[n] = NoOp \/ Final(ops[n]) THEN UNCHANGED cs
       ELSE cs' = Call("finalize", n,
                       TerminalOperationCandidate(ops[n], n, code, body, t))
    /\ UNCHANGED <<up, ops, durable, exists, sick, persistErr, cleared, history>>

\* Fault: the association is cleared before the result is saved.
BarrierFirst(n, code, body, t) ==
    /\ Free /\ n \in ScopedNames /\ ops[n] # NoOp /\ ~Final(ops[n])
    /\ cs' = Call("barrier", n,
                  TerminalOperationCandidate(ops[n], n, code, body, t))
    /\ cleared' = cleared \cup {n}
    /\ UNCHANGED <<up, ops, durable, exists, sick, persistErr, run, history>>

FinalizeScopedDurableWithBarrier(n, code, body, t) ==
    /\ Free /\ n \in ScopedNames /\ ops[n] # NoOp /\ ~Final(ops[n])
    /\ cs' = Call("barrier", n,
                  TerminalOperationCandidate(ops[n], n, code, body, t))
    /\ UNCHANGED <<up, ops, durable, exists, sick, persistErr, run, cleared,
                   history>>

\* The operation leaves om.ops before the Save.
Delete(m, n) ==
    /\ Free /\ ops[n] # NoOp
    /\ ops' = [ops EXCEPT ![n] = NoOp]
    /\ cs' = Call(m, n, ops[n])
    /\ dropped' = dropped \cup {n}
    /\ UNCHANGED <<up, durable, exists, sick, persistErr, run, cleared, used,
                   acked>>

RollbackScopedRegistration(n) == Delete("rollback", n)
RemoveDurable(n) == Done(ops[n]) /\ Delete("remove", n)

\* A resource handler reports a failure of its own compensation.
MarkPersistenceFailure ==
    /\ up /\ ~persistErr /\ persistErr' = TRUE
    /\ UNCHANGED <<up, ops, durable, exists, sick, cs, run, cleared, history>>

\* Another entry of the shared store fails to load or save.
StoreDegrades ==
    /\ StickyStore /\ ~sick /\ (up \/ cs.m = "restart")
    /\ sick' = TRUE
    /\ UNCHANGED <<up, ops, durable, exists, persistErr, cs, run, cleared,
                   history>>

-----------------------------------------------------------------------------
\* The Save, and what each method does with its outcome.

SaveOk ==
    /\ cs.pc \in {"save", "compensate"} /\ ~sick
    /\ durable' = Snapshot /\ exists' = TRUE
    /\ cs' = CASE cs.m = "finalize" -> [cs EXCEPT !.pc = "publish"]
               [] cs.m = "barrier"  -> [cs EXCEPT !.pc = "barrier"]
               [] OTHER             -> Idle
    /\ up' = (up \/ cs.m = "restart")
    /\ IF cs.pc = "save" /\ cs.m \in {"register", "registerDurable"}
       THEN acked' = acked \cup {cs.n} /\ run' = [run EXCEPT ![cs.n] = "new"]
       ELSE UNCHANGED <<acked, run>>
    \* a compensated registration records its failure on the way out
    /\ persistErr' = (persistErr \/ cs.pc = "compensate")
    /\ UNCHANGED <<ops, sick, cleared, used, dropped>>

\* An error from Save.  A store that is already degraded writes nothing.
SaveFails ==
    /\ cs.pc \in {"save", "compensate"}
    /\ \/ UNCHANGED <<durable, exists>>
       \/ ~sick /\ durable' = Snapshot /\ exists' = TRUE
    /\ sick' = (sick \/ StickyStore)
    /\ persistErr' = (persistErr \/ cs.m \in {"register", "advance", "metadata",
                                              "finalize", "barrier"})
    /\ \/ /\ cs.m \in {"register", "advance", "metadata"}
          /\ cs' = Idle
          /\ run' = IF cs.m = "register" THEN [run EXCEPT ![cs.n] = "new"] ELSE run
          /\ UNCHANGED ops
       \/ /\ cs.m = "registerDurable" /\ cs.pc = "save"
          /\ ops' = [ops EXCEPT ![cs.n] = NoOp]
          /\ cs' = [cs EXCEPT !.pc = "compensate"]
          /\ UNCHANGED run
       \/ /\ \/ cs.m \in {"finalize", "barrier", "rollback", "remove"}
             \/ cs.pc = "compensate"
          /\ cs' = [cs EXCEPT !.pc = "readback"]
          /\ UNCHANGED <<ops, run>>
       \/ /\ cs.m = "restart"          \* NewOperationManagerWithStore fails
          /\ ops' = Empty /\ cs' = Idle
          /\ UNCHANGED run
    /\ UNCHANGED <<up, cleared, history>>

\* Fault: any successful readback counts as a commit.
ReadbackTrusting(failed) ==
    /\ Finalizing
    /\ cs' = IF failed THEN Idle
             ELSE [cs EXCEPT !.pc = IF cs.m = "barrier" THEN "barrier" ELSE "publish"]
    /\ UNCHANGED <<ops, persistErr>>

\* persistTerminalCandidateLocked: only an exact match proves the commit.
ReadbackTerminal(failed) ==
    /\ Finalizing
    /\ cs' = IF failed \/ durable[cs.n] # cs.op THEN Idle
             ELSE [cs EXCEPT !.pc = IF cs.m = "barrier" THEN "barrier" ELSE "publish"]
    /\ UNCHANGED <<ops, persistErr>>

\* insertDurable: an entry that was never written reads as an empty one.
ReadbackRegistration(failed) ==
    /\ cs.m = "registerDurable"
    /\ ops' = [ops EXCEPT ![cs.n] = IF failed THEN cs.op ELSE durable[cs.n]]
    /\ persistErr' = TRUE
    /\ cs' = Idle

\* RollbackScopedRegistration: here a missing entry is a failed readback.
ReadbackRollback(failed) ==
    /\ cs.m = "rollback"
    /\ ops' = [ops EXCEPT ![cs.n] = IF failed \/ ~exists THEN cs.op ELSE durable[cs.n]]
    /\ persistErr' = TRUE
    /\ cs' = Idle

\* RemoveDurable restores its own copy, not the durable one, and records no
\* persistence failure.
ReadbackRemoval(failed) ==
    /\ cs.m = "remove"
    /\ ops' = [ops EXCEPT ![cs.n] =
                  IF ~failed /\ exists /\ durable[cs.n] = NoOp THEN NoOp ELSE cs.op]
    /\ UNCHANGED persistErr
    /\ cs' = Idle

\* loadOperationSnapshot after the failed Save.  An error other than
\* ErrNotFound degrades the store.
Readback ==
    /\ cs.pc = "readback"
    /\ \E failed \in BOOLEAN :
          /\ \/ ReadbackTerminal(failed)
             \/ ReadbackRegistration(failed)
             \/ ReadbackRollback(failed)
             \/ ReadbackRemoval(failed)
          /\ sick' = (sick \/ (failed /\ StickyStore))
    /\ UNCHANGED <<up, durable, exists, run, cleared, history>>

\* runOperationTerminalBarrier: the caller's cleanup, which may fail or panic
\* before or after its own save took effect.  The result is published anyway.
RunBarrier ==
    /\ cs.pc = "barrier"
    /\ \/ cleared' = cleared \cup {cs.n}
       \/ UNCHANGED cleared
    /\ cs' = [cs EXCEPT !.pc = "publish"]
    /\ UNCHANGED <<up, ops, durable, exists, sick, persistErr, run, history>>

PublishTerminalCandidate ==
    /\ cs.pc = "publish"
    /\ ops' = [ops EXCEPT ![cs.n] = cs.op]
    /\ cs' = Idle
    /\ UNCHANGED <<up, durable, exists, sick, persistErr, run, cleared, history>>

-----------------------------------------------------------------------------
\* RunAsync: the goroutine that drives a registered operation.  Each of its
\* calls is one of the calls above; only a terminal conflict stops it.

RunAsync(n) ==
    /\ up /\ run[n] = "new"
    /\ run' = [run EXCEPT ![n] = "adv5"]
    /\ UNCHANGED <<up, ops, durable, exists, sick, persistErr, cs, cleared, history>>

RunAdvance(n) ==
    /\ run[n] \in {"adv5", "adv25", "adv85"}
    /\ AdvanceDurable(n)
    /\ run' = [run EXCEPT ![n] =
                  CASE Done(ops[n])      -> "end"
                    [] run[n] = "adv5"   -> "adv25"
                    [] run[n] = "adv25"  -> "work"
                    [] OTHER             -> "final"]

\* Fault: the error of the work function is dropped.
RunWorkDropsError(n) ==
    /\ up /\ run[n] = "work"
    /\ \E outcome \in {"adv85", "end"} : run' = [run EXCEPT ![n] = outcome]
    /\ UNCHANGED <<up, ops, durable, exists, sick, persistErr, cs, cleared, history>>

RunWork(n) ==
    /\ up /\ run[n] = "work"
    /\ \E outcome \in {"adv85", "fail"} : run' = [run EXCEPT ![n] = outcome]
    /\ UNCHANGED <<up, ops, durable, exists, sick, persistErr, cs, cleared, history>>

RunFinish(n) ==
    /\ \E t \in EndTimes :
          \/ /\ run[n] = "fail"
             /\ \E code \in Codes \ {0}, body \in Bodies : FinalizeDurable(n, code, body, t)
          \/ run[n] = "final" /\ FinalizeDurable(n, 0, NoBody, t)
    /\ run' = [run EXCEPT ![n] = "end"]

-----------------------------------------------------------------------------
\* Process death and the next start.

Crash ==
    /\ up \/ cs.m = "restart"
    /\ up' = FALSE /\ ops' = Empty /\ cs' = Idle
    /\ sick' = FALSE /\ persistErr' = FALSE
    /\ run' = [n \in Names |-> "none"]
    /\ UNCHANGED <<durable, exists, cleared, history>>

\* NewOperationManagerWithStore: operations that were not terminal become
\* interrupted, and the manager serves only once that is saved.  Until then
\* om.ops is not reachable by any caller.  A failed Load leaves the process
\* down, as it was.
Restart(t) ==
    /\ ~up /\ cs = Idle
    /\ ops' = [n \in Names |-> InterruptOperation(durable[n], n, t)]
    /\ IF ops' = durable THEN up' = TRUE /\ UNCHANGED cs
       ELSE cs' = Call("restart", NoName, NoOp) /\ UNCHANGED up
    /\ sick' = FALSE
    /\ UNCHANGED <<durable, exists, persistErr, run, cleared, history>>

\* What pollers can see of a name in the given state of the manager.
Observed(u, o, n) == IF u /\ Done(o[n]) THEN {o[n].res} ELSE {}

Step ==
    \/ \E n \in Names :
          \/ Register(n)
          \/ RegisterDurable(n)
          \/ ~Done(ops[n]) /\ ops[n] # NoOp /\ AdvanceDurable(n) /\ UNCHANGED run
          \/ \E meta \in Metas : UpdateMetadata(n, meta)
          \/ \E code \in Codes, body \in Bodies, t \in EndTimes :
                \/ FinalizeDurable(n, code, body, t) /\ UNCHANGED run
                \/ FinalizeScopedDurableWithBarrier(n, code, body, t)
          \/ RollbackScopedRegistration(n)
          \/ RemoveDurable(n)
          \/ RunAsync(n)
          \/ RunAdvance(n)
          \/ RunWork(n)
          \/ RunFinish(n)
    \/ SaveOk
    \/ SaveFails
    \/ Readback
    \/ RunBarrier
    \/ PublishTerminalCandidate
    \/ MarkPersistenceFailure
    \/ StoreDegrades
    \/ Crash
    \/ \E t \in EndTimes : Restart(t)

Watch == seen' = [n \in Names |-> seen[n] \cup Observed(up', ops', n)]

Next == Step /\ Watch

Spec == Init /\ [][Next]_vars

\* sync.Mutex hands over to its oldest waiter after a millisecond, so a call
\* that waits for persistMu forever would have to be enabled over and over;
\* the work function of an operation is assumed to return.
Fairness ==
    /\ WF_vars((SaveOk \/ SaveFails) /\ Watch)
    /\ WF_vars(Readback /\ Watch)
    /\ WF_vars(RunBarrier /\ Watch)
    /\ WF_vars(PublishTerminalCandidate /\ Watch)
    /\ \A n \in Names : /\ SF_vars(RunAdvance(n) /\ Watch)
                        /\ WF_vars(RunWork(n) /\ Watch)
                        /\ SF_vars(RunFinish(n) /\ Watch)

FairSpec == Spec /\ Fairness

-----------------------------------------------------------------------------
\* Properties.

\* Pollers of one name never see two different results, whatever retries,
\* failed Saves, readbacks and restarts happen in between; only the
\* interruption a restart reports may be superseded (finalizeDurable's
\* conflict check, persist-before-publish).
PublishedOnce ==
    \A n \in Names :
        Cardinality({r \in seen[n] : r.body # Interruption}) <= 1

\* A terminal answer survives the loss of the process: what pollers see as
\* DONE is DONE in the state file, a result with the same result (an
\* interruption may be superseded there before it is in memory), unless the
\* removal of the operation was asked for.
PublishedIsDurable ==
    \A n \in Names \ dropped :
        up /\ Done(ops[n]) =>
            /\ Done(durable[n])
            /\ Final(ops[n]) => durable[n].res = ops[n].res

\* A registration that was saved and returned to its caller stays pollable,
\* through failed Saves of other calls, their compensations and restarts,
\* until somebody rolls it back or removes it.
AckedDurable ==
    \A n \in acked \ dropped :
        durable[n] # NoOp /\ (up => ops[n] # NoOp)

\* The caller's association with an operation is cleared only after the
\* operation's result is durable, so no crash leaves an operation
\* unfinished whose association is gone (FinalizeScopedDurableWithBarrier).
BarrierOrder ==
    \A n \in cleared \ dropped : Final(durable[n])

\* A started RunAsync settles its operation, or the operation is gone, or the
\* manager reports degraded persistence, or the process has died.
AsyncCompletes ==
    \A n \in Names :
        run[n] = "adv5" ~> \/ ~up \/ persistErr
                           \/ ops[n] = NoOp \/ Done(ops[n])

\* Get, PollScoped: what a poll answers, and the strongest answer so far.
Answer(n) ==
    IF ~up \/ ops[n] = NoOp THEN Unknown
    ELSE IF ~Done(ops[n]) THEN Active
    ELSE IF IsInterrupted(ops[n]) THEN Interruption ELSE ops[n].res

Strongest(shown) ==
    LET final == {r \in shown : r.body # Interruption}
    IN  IF final # {} THEN CHOOSE r \in final : TRUE
        ELSE IF shown # {} THEN Interruption ELSE Unknown

FinalResults == [code : Nat, body : ResponseBodies]

ASSUME AnswersAssumption ==
    /\ Unknown # Active /\ Unknown # Interruption /\ Active # Interruption
    /\ {Unknown, Active, Interruption} \cap FinalResults = {}

Contract == INSTANCE OperationContract WITH
    Results <- FinalResults, Interrupted <- Interruption,
    answer <- [n \in Names |-> Answer(n)],
    settled <- [n \in Names |-> Strongest(seen[n])]

\* The registry, with its store, its failures and its restarts, implements
\* the promise to pollers stated in OperationContract.
ImplementsContract == Contract!Spec

-----------------------------------------------------------------------------
\* The inductive invariant of the proofs.

\* A copy of an operation that may become visible agrees with what pollers
\* have seen of its name.
Agrees(op, shown) ==
    op # NoOp /\ shown # {} =>
        /\ Done(op)
        /\ \A r \in shown : r.body # Interruption => op.res = r

SeenInv ==
    \A n \in Names :
        /\ Agrees(ops[n], seen[n])
        /\ Agrees(durable[n], seen[n])
        /\ up /\ Done(ops[n]) => ops[n].res \in seen[n]
        /\ \A r, q \in seen[n] :
              r.body # Interruption /\ q.body # Interruption => r = q

FreshInv ==
    \A n \in Names \ used :
        /\ ops[n] = NoOp /\ durable[n] = NoOp /\ seen[n] = {}
        /\ n \notin acked /\ n \notin cleared /\ cs.n # n

\* What the call that holds persistMu knows of its name.
CallInv ==
    /\ cs.m # "none" => (up <=> cs.m # "restart")
    /\ cs.m \in {"advance", "metadata", "register"} => cs.pc = "save"
    /\ cs.pc = "compensate" => cs.m = "registerDurable"
    /\ cs.pc \in {"barrier", "publish"} => Finalizing /\ durable[cs.n] = cs.op
    /\ Finalizing =>
         ops[cs.n] # NoOp /\ ~Final(ops[cs.n]) /\ Final(cs.op)
    /\ cs.m \in {"rollback", "remove"} =>
         /\ ops[cs.n] = NoOp /\ cs.op # NoOp /\ cs.n \in dropped
         /\ Agrees(cs.op, seen[cs.n])
         /\ Done(cs.op) => cs.op.res \in seen[cs.n]
    /\ cs.m \in {"register", "registerDurable"} =>
         /\ cs.op = NewOperation /\ seen[cs.n] = {}
         /\ cs.n \notin acked /\ cs.n \notin cleared
         /\ cs.pc = "save" => ops[cs.n] = NewOperation

LostInv ==
    /\ ~up /\ cs.m # "restart" => ops = Empty
    /\ \A n \in acked \ dropped : up \/ cs.m = "restart" => ops[n] # NoOp
    /\ \A n \in cleared \ dropped :
         up \/ cs.m = "restart" =>
            Final(ops[n]) \/ (cs.pc = "publish" /\ cs.n = n)

IInv ==
    /\ TypeOK /\ SeenInv /\ FreshInv /\ CallInv /\ LostInv
    /\ PublishedIsDurable /\ AckedDurable /\ BarrierOrder
=============================================================================

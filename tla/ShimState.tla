------------------------------ MODULE ShimState ------------------------------
(* The discipline by which a shim keeps its resources: maps in memory under  *)
(* mu, one entry of the profile's state store, and request handlers that     *)
(* change the maps, release mu, save a snapshot of all maps under persistMu  *)
(* and take their change back when the save fails.  pkg/state/guard.go makes *)
(* the first failed save sticky.  The modules of the shims extend this one;  *)
(* a resource is a name, <<kind, name of the parent or None, id>>, mapped to  *)
(* the attributes its handlers tell apart.                                   *)
EXTENDS Naturals, Sequences, FiniteSets

CONSTANTS
    Handlers,   \* requests that may be in progress at the same time
    Bodies,     \* the values a request body can give a resource
    Ids,        \* the ids a request can give a resource
    SubIds,     \* the ids a request can give a resource inside another one
    Serial,     \* TRUE: the shim's mutationMu is held for the whole handler
    Guarded,    \* TRUE: the shim saves through a GuardedEntryStore; FALSE: it
                \* calls the store it was given, where a save after a failed one
                \* may succeed (state.Store refuses it too, the stores of the
                \* shims' tests do not: more can happen here than in the daemon)
    None

ASSUME DisciplineAssumption == Serial \in BOOLEAN /\ Guarded \in BOOLEAN

VARIABLES
    mem,        \* the maps of the API value: a function on the live names
    disk,       \* the same function in the entry last written to the store
    degraded,   \* GuardedEntryStore.degraded: "no"; "clean" when the save that
                \* failed left the entry alone, "torn" when it had replaced it
                \* before the error; "unread" when loadState could not read the
                \* entry or save what it repaired, "closed" when the shim then
                \* answers no request at all.  Without the guard: whether the
                \* last save failed, and how
    unsaved,    \* names a handler took back while the store worked (it refused
                \* the request for another reason, and rolls back in memory
                \* only), or left changed when an unguarded save had failed, or
                \* a start changed in memory; no save has followed
    call,       \* per handler: where it is, and what it would take back
    backend     \* what exists outside the daemon (containers, directories)

shimVars == <<mem, disk, degraded, unsaved, call, backend>>

Nothing == [n \in {} |-> None]
Idle == [todo |-> <<>>, undo |-> Nothing, on |-> None]

-----------------------------------------------------------------------------
(* Maps of resources.                                                        *)

Live == DOMAIN mem
Put(doc, n, v) == [m \in DOMAIN doc \union {n} |-> IF m = n THEN v ELSE doc[m]]
Drop(doc, S) == [m \in DOMAIN doc \ S |-> doc[m]]
Value(doc, n) == IF n \in DOMAIN doc THEN doc[n] ELSE None
Resources(doc) == {n \in DOMAIN doc : n[1] # "next"}  \* all but the id counters
Before(S) == [n \in S |-> Value(mem, n)]
Of(kind, doc) == {n \in DOMAIN doc : n[1] = kind}
Under(n, doc) == {m \in DOMAIN doc : m[2] = n}
Restore(doc, old) ==
    [n \in {m \in DOMAIN doc \union DOMAIN old : m \in DOMAIN old => old[m] # None} |->
        IF n \in DOMAIN old THEN old[n] ELSE doc[n]]

-----------------------------------------------------------------------------
(* A handler: under mu it checks and changes the maps; what is left to do is *)
(* a sequence of steps, each a call that can fail and the steps the handler  *)
(* goes on with instead when it does.                                        *)

Save(else) == <<"save", else>>            \* persistState
Register(else) == <<"register", else>>    \* OperationManager.RegisterDurable
Finalize(else) == <<"finalize", else>>    \* OperationManager.CompleteDurable
Undo == <<"undo", <<>>>>                  \* the change is taken back in memory
Apply(new) == <<"apply", <<>>, new>>      \* the maps change only now: new maps
                                          \* names to values, None for removed

Keep == <<>>                              \* answer with the error, leave the change
Revert == <<Undo>>
Compensate == <<Undo, Save(Keep)>>        \* take it back and save the maps again

(* mutationMu, where there is one, keeps a second handler out until the      *)
(* first has answered; mu alone does not.                                    *)
MayStart(h) ==
    /\ call[h] = Idle /\ degraded # "closed"
    /\ Serial => \A g \in Handlers : call[g] = Idle

At(h, step) == call[h].todo # <<>> /\ Head(call[h].todo)[1] = step
Follow(h, todo) ==
    call' = [call EXCEPT ![h] = IF todo = <<>> THEN Idle ELSE [@ EXCEPT !.todo = todo]]
Proceed(h) == Follow(h, Tail(call[h].todo))
Fail(h) == Follow(h, Head(call[h].todo)[2])

(* The change of the maps: doc replaces them, S are the names it touched and *)
(* would put back.                                                           *)
Change(h, doc, S, on, todo) ==
    /\ mem' = doc
    /\ call' = [call EXCEPT ![h] = [todo |-> todo, undo |-> Before(S), on |-> on]]
    /\ UNCHANGED <<disk, degraded, unsaved, backend>>

(* A later change of the maps, which the handler does not take back.         *)
Record(h, doc, S, todo) ==
    /\ mem' = doc
    /\ call' = [call EXCEPT ![h] = IF todo = <<>> THEN Idle
                                   ELSE [@ EXCEPT !.todo = todo, !.undo = [n \in S |-> Value(doc, n)]]]

Handle(h, doc, S, todo) == MayStart(h) /\ Change(h, doc, S, None, todo)
Commit(h, doc, S) == Handle(h, doc, S, <<Save(Revert)>>)

(* finishMutation: an operation is registered before the save and finalised  *)
(* after it.                                                                 *)
FinishMutation == <<Register(Revert), Save(Compensate), Finalize(Compensate)>>
CommitOperation(h, doc, S) == Handle(h, doc, S, FinishMutation)

(* A first critical section that only looks; the rest is left to do.         *)
Look(h, on, todo) ==
    /\ MayStart(h)
    /\ call' = [call EXCEPT ![h] = [todo |-> todo, undo |-> Nothing, on |-> on]]
    /\ UNCHANGED <<mem, disk, degraded, unsaved, backend>>

Create(h, n, v) == n \notin Live /\ Commit(h, Put(mem, n, v), {n})
Update(h, n, v) == n \in Live /\ Commit(h, Put(mem, n, v), {n})
Delete(h, n) == n \in Live /\ Commit(h, Drop(mem, {n}), {n})
DeleteAll(h, n, S) == n \in Live /\ Commit(h, Drop(mem, S \union {n}), S \union {n})

(* Some handlers hold persistMu from their check (on is then persistMu)      *)
(* until they have saved, undone or published; the saves of the others wait. *)
persistMu == <<"persistMu">>
Holds(h) ==
    /\ call[h].on = persistMu
    /\ \E i \in DOMAIN call[h].todo :
          call[h].todo[i][1] \in {"save", "undo", "apply", "transact", "copy", "publish",
                                   "degrade", "failop", "reconcile", "update", "ensure",
                                   "unbridge", "rebridge", "close", "rules", "invalidate", "cancelled"}
PersistMuFree == \A g \in Handlers : ~Holds(g)
CommitLocked(h, doc, S) ==
    MayStart(h) /\ PersistMuFree /\ Change(h, doc, S, persistMu, <<Save(Revert)>>)
LookLocked(h, todo) == PersistMuFree /\ Look(h, persistMu, todo)
Waits(h) == ~Holds(h) /\ ~PersistMuFree

(* persistState: the snapshot of the maps and the store's Save, both under   *)
(* persistMu, so that no other save comes between them.                      *)
Writable == degraded = "no" \/ (~Guarded /\ degraded \in {"clean", "torn"})
Failure(how) == IF degraded = "torn" THEN "torn" ELSE how

(* In the fault the save keeps what the maps have dropped.                   *)
SaveOkMerging(h) ==
    /\ At(h, "save") /\ ~Waits(h) /\ Writable
    /\ disk' = [n \in Live \union DOMAIN disk |-> IF n \in Live THEN mem[n] ELSE disk[n]]
    /\ degraded' = "no" /\ unsaved' = {}
    /\ Proceed(h)
    /\ UNCHANGED <<mem, backend>>
SaveOk(h) ==
    /\ At(h, "save") /\ ~Waits(h) /\ Writable
    /\ disk' = mem /\ degraded' = "no" /\ unsaved' = {}
    /\ Proceed(h)
    /\ UNCHANGED <<mem, backend>>

SaveFails(h) ==
    /\ At(h, "save") /\ ~Waits(h)
    /\ \/ Writable /\ disk' = disk /\ degraded' = Failure("clean")
       \/ Writable /\ disk' = mem /\ degraded' = "torn"
       \/ ~Writable /\ UNCHANGED <<disk, degraded>>
    /\ unsaved' = IF ~Guarded /\ Head(call[h].todo)[2] = Keep THEN unsaved \union DOMAIN call[h].undo
                  ELSE unsaved
    /\ Fail(h)
    /\ UNCHANGED <<mem, backend>>

Rollback(h) ==
    /\ At(h, "undo")
    /\ mem' = Restore(mem, call[h].undo)
    /\ unsaved' = IF degraded # "no" THEN IF Guarded THEN {} ELSE unsaved
                  ELSE IF \E i \in 2..Len(call[h].todo) : call[h].todo[i][1] = "save" THEN unsaved
                  ELSE unsaved \union DOMAIN call[h].undo
    /\ Proceed(h)
    /\ UNCHANGED <<disk, degraded, backend>>

ApplyChange(h) ==
    /\ At(h, "apply")
    /\ LET new == Head(call[h].todo)[3]
       IN  /\ mem' = Restore(mem, new)
           /\ call' = [call EXCEPT ![h] = IF Tail(@.todo) = <<>> THEN Idle
                                          ELSE [@ EXCEPT !.todo = Tail(@), !.undo = Before(DOMAIN new)]]
    /\ UNCHANGED <<disk, degraded, unsaved, backend>>

(* The shared operation registry (OperationManager): each of its durable     *)
(* writes can fail by itself.                                                *)
OperationWrite(h) ==
    /\ At(h, "register") \/ At(h, "finalize")
    /\ Proceed(h) \/ Fail(h)
    /\ UNCHANGED <<mem, disk, degraded, unsaved, backend>>

(* The daemon dies and a new one starts with what loadState makes of the     *)
(* entry.  An entry that cannot be read leaves the shim empty: with a store  *)
(* that refuses every save ("unread": the guard, and state.Store itself,     *)
(* remember the failed Load), or answering nothing ("closed").               *)
(* In the fault a start that cannot read the entry goes on with an empty one.*)
StartAfresh(doc, unreadable) ==
    /\ call' = [h \in Handlers |-> Idle]
    /\ mem' \in {doc, Nothing} /\ degraded' = "no" /\ unsaved' = {}
    /\ UNCHANGED <<disk, backend>>
StartWith(doc, unreadable) ==
    /\ call' = [h \in Handlers |-> Idle]
    /\ \/ mem' = doc /\ degraded' = "no"
       \/ mem' = Nothing /\ degraded' = unreadable
    /\ unsaved' = {}
    /\ UNCHANGED <<disk, backend>>

ShimInit ==
    /\ mem = Nothing /\ disk = Nothing /\ backend = {}
    /\ degraded = "no" /\ unsaved = {}
    /\ call = [h \in Handlers |-> Idle]

ShimStep == \E h \in Handlers : SaveOk(h) \/ SaveFails(h) \/ Rollback(h)
OperationStep == \E h \in Handlers : OperationWrite(h)

-----------------------------------------------------------------------------
(* What every shim of this discipline keeps.                                 *)

Touches(h) == DOMAIN call[h].undo
Settled(n) == \A h \in Handlers : n \notin Touches(h)
Quiet == \A h \in Handlers : call[h] = Idle

(* A resource no handler is changing, and none has taken back unsaved, is on *)
(* disk exactly as in memory: what a request was told, and what the next     *)
(* reads show, survives a crash.                                             *)
SettledIsDurable ==
    degraded = "no" => \A n \in Resources(mem) \union Resources(disk) :
                          Settled(n) /\ n \notin unsaved => Value(mem, n) = Value(disk, n)

(* One request at a time: a request that is refused because the entry cannot *)
(* be saved has put everything back that it touched, the resources it         *)
(* removed along with another one and the counters too.                      *)
RefusalRestores ==
    \A h \in Handlers :
       (/\ Serial /\ call[h] # Idle /\ call'[h] = Idle
        /\ degraded' \in {"clean", "torn"} /\ ~At(h, "publish"))
          => \A n \in Touches(h) : Value(mem', n) = call[h].undo[n]

(* The entry changes for a name only while a handler is changing that name:  *)
(* no save overwrites a resource with a stale or an empty map, also not one  *)
(* made after a start that could not read the entry.  (The save after one    *)
(* that had replaced the entry before its error takes that back; it may be   *)
(* that of background work, when the shim has closed.)                       *)
OnlyHandlersChangeDisk ==
    \A n \in Resources(disk) \union Resources(disk') :
       Value(disk, n) # Value(disk', n) => ~Settled(n) \/ n \in unsaved \/ degraded \in {"torn", "closed"}
=============================================================================

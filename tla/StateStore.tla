----------------------------- MODULE StateStore -----------------------------
(***************************************************************************)
(* The state file of one profile (pkg/state/store.go, filelock.go,         *)
(* lockanchor_unix.go): every thread of every process that opens it, its   *)
(* locks and its failures.                                                 *)
(*                                                                         *)
(* Three lock layers protect the file: the ownership gate (a RWMutex of    *)
(* the process), the path lock s.lock (another one), and flocks on pinned  *)
(* directories: the owner anchor, the transaction anchor and the profile   *)
(* directory.  A flock belongs to an open file description: the calls of a *)
(* process that owns the profile share the descriptions of its ownership   *)
(* (one LOCK_UN drops the lock for all of them), any other call opens its  *)
(* own.  gate.Lock is only held across calls that do not block, so taking  *)
(* or releasing ownership is one step that waits for the gate's readers.   *)
(*                                                                         *)
(* A document is a function from entries to payloads; encoding, checksums  *)
(* of directory identity and permissions appear as the failures they       *)
(* cause.  The profile directory exists.  The new file is synced before    *)
(* the rename, so a file in place is whole; the rename itself is safe from *)
(* a power failure only after the directory sync.                          *)
(***************************************************************************)
EXTENDS Integers, FiniteSets

CONSTANTS
    Procs, Threads, Handles,   \* processes, their goroutines, Store handles
    ProcOf, HandleOf,          \* the process and the handle of a thread
    ReadOnlyProcs,             \* processes without write access to the root
    Entries, Payloads, Absent,
    Ops,                       \* the operations called
    Imports                    \* documents a snapshot may hold

ASSUME ProcsAssumption ==
    /\ ProcOf \in [Threads -> Procs] /\ HandleOf \in [Threads -> Handles]
    /\ ReadOnlyProcs \subseteq Procs /\ Procs \cap Threads = {}
    /\ \A t, u \in Threads : HandleOf[t] = HandleOf[u] => ProcOf[t] = ProcOf[u]

Docs == [Entries -> Payloads \cup {Absent}]
ASSUME ImportsAssumption == Imports \subseteq Docs

VARIABLES
    file,      \* the document in place
    media,     \* the document a power failure falls back to
    owner, tx, prof,   \* flock mode of each open file description
    owned,     \* ownedProfiles: processes with a registered ownership
    degraded,  \* handles whose degradedErr is set
    th         \* what each thread does

vars == <<file, media, owner, tx, prof, owned, degraded, th>>

-----------------------------------------------------------------------------
\* Requests and their effects.

Requests ==
    [op : Ops \cap {"save"}, e : Entries, v : Payloads]
        \cup [op : Ops \cap {"delete", "load"}, e : Entries, v : {Absent}]
        \cup [op : Ops \cap {"import"}, e : {Absent}, v : Imports]
        \cup [op : Ops \cap {"export"}, e : {Absent}, v : {Absent}]

Reads(r) == r.op \in {"load", "export"}
Mutates(r) == r.op \in {"save", "delete"}
EmptyDocument == [e \in Entries |-> Absent]

\* The open call of a thread, as its caller knows it.
OpenCall(r) ==
    IF r.pc = "idle" THEN [st |-> "none"]
    ELSE [req |-> r.req, st |-> r.st,
          got |-> IF Reads(r.req) /\ r.st # "open" THEN r.doc ELSE EmptyDocument]

Promise == INSTANCE EntryStore WITH
    doc <- file, safe <- media,
    call <- [t \in Threads |-> OpenCall(th[t])],
    ret <- [t \in Threads |-> th[t].ret]

Effect(r, d) == Promise!Effect(r, d)

NoRequest == [op |-> "none", e |-> Absent, v |-> Absent]

\* pc: the step to take next; own: the call uses the process's registered
\* resources; held: the flocks it acquired; doc: the document it read;
\* st: history, how far the call took effect; ret: what it returned.
IdleThread(ret) == [pc |-> "idle", req |-> NoRequest, own |-> FALSE, held |-> {},
                    doc |-> EmptyDocument, st |-> "none", ret |-> ret]

Waiting == {"lock", "owner", "tx", "prof"}
Inside == {"read", "write", "renamed"}
Closing == {"close", "closeFailed"}   \* Import, after its write
Ending == {"done", "fail"} \cup Closing

FDs == Threads \cup Procs
FD(t) == IF th[t].own THEN ProcOf[t] ELSE t
Modes == {"none", "sh", "ex"}

\* flock(2): another description's lock conflicts, the same one's never.
Compatible(lock, fd, mode) ==
    \A o \in FDs \ {fd} : lock[o] = "none" \/ (mode = "sh" /\ lock[o] = "sh")

Siblings(t) == {u \in Threads \ {t} : ProcOf[u] = ProcOf[t]}

\* The threads inside gate.RLock; Import holds the gate only while it takes
\* and releases its ownership.
InGate(p) == {t \in Threads : ProcOf[t] = p /\ th[t].pc # "idle" /\ th[t].req.op # "import"}

\* The threads that hold s.lock.
Locked(t) == th[t].pc \notin {"idle", "lock"} \cup Closing

\* Fault: every flock is a shared one.
ModeShared(t) == "sh"

Mode(t) == IF Reads(th[t].req) THEN "sh" ELSE "ex"

-----------------------------------------------------------------------------
TypeOK ==
    /\ file \in Docs /\ media \in Docs
    /\ owner \in [FDs -> Modes] /\ tx \in [FDs -> Modes] /\ prof \in [FDs -> Modes]
    /\ owned \subseteq Procs /\ degraded \subseteq Handles
    /\ th \in [Threads ->
         [pc : {"idle"} \cup Waiting \cup Inside \cup Ending,
          req : Requests \cup {NoRequest}, own : BOOLEAN,
          held : SUBSET {"tx", "prof"}, doc : Docs,
          st : {"none", "open", "applied", "settled"},
          ret : {"none", "ok", "err"}]]

Init ==
    /\ file = EmptyDocument /\ media = EmptyDocument
    /\ owner = [fd \in FDs |-> "none"]
    /\ tx = [fd \in FDs |-> "none"] /\ prof = [fd \in FDs |-> "none"]
    /\ owned = {} /\ degraded = {}
    /\ th = [t \in Threads |-> IdleThread("none")]

Goto(t, pc) == th' = [th EXCEPT ![t].pc = pc]

Open(t, r) ==
    th' = [th EXCEPT ![t] =
        [IdleThread("none") EXCEPT !.pc = "lock", !.req = r, !.st = "open"]]

-----------------------------------------------------------------------------
\* Ownership.

\* acquireOwnership under gate.Lock: not when this process has registered an
\* ownership, and only if the non-blocking exclusive flock succeeds.
CanOwn(t, fd) ==
    /\ ProcOf[t] \notin ReadOnlyProcs
    /\ InGate(ProcOf[t]) = {}
    /\ ProcOf[t] \notin owned
    /\ Compatible(owner, fd, "ex")

AcquireOwnership(t) ==
    /\ th[t].pc = "idle" /\ CanOwn(t, ProcOf[t])
    /\ owner' = [owner EXCEPT ![ProcOf[t]] = "ex"]
    /\ owned' = owned \cup {ProcOf[t]}
    /\ UNCHANGED <<file, media, tx, prof, degraded, th>>

\* Ownership.Close: gate.Lock waits for the calls that use the resources.
ReleaseOwnership(p) ==
    /\ p \in owned /\ InGate(p) = {}
    /\ owner' = [owner EXCEPT ![p] = "none"]
    /\ owned' = owned \ {p}
    /\ UNCHANGED <<file, media, tx, prof, degraded, th>>

-----------------------------------------------------------------------------
\* The calls.

\* Save, Delete, Load and Export up to gate.RLock.
Enter(t, r) ==
    /\ th[t].pc = "idle" /\ r.op # "import"
    /\ Mutates(r) => HandleOf[t] \notin degraded
    /\ Open(t, r)
    /\ UNCHANGED <<file, media, owner, tx, prof, owned, degraded>>

\* Import: the snapshot is valid and the profile is not in use.
EnterImport(t, r) ==
    /\ th[t].pc = "idle" /\ r.op = "import" /\ CanOwn(t, t)
    /\ owner' = [owner EXCEPT ![t] = "ex"]
    /\ Open(t, r)
    /\ UNCHANGED <<file, media, tx, prof, owned, degraded>>

\* A degraded handle, an invalid snapshot or name, a profile in use.
Refuse(t) ==
    /\ th[t].pc = "idle"
    /\ th' = [th EXCEPT ![t].ret = "err"]
    /\ UNCHANGED <<file, media, owner, tx, prof, owned, degraded>>

\* s.lock.RLock or s.lock.Lock; then the registered resources, if there are.
\* A read without write access to the root locks the profile only.
TakeLock(t) ==
    /\ th[t].pc = "lock"
    /\ \A u \in Siblings(t) : Locked(u) => Reads(th[u].req) /\ Reads(th[t].req)
    /\ LET own == ProcOf[t] \in owned /\ th[t].req.op # "import"
       IN th' = [th EXCEPT
            ![t].own = own,
            ![t].pc = IF Mutates(th[t].req) /\ ~own THEN "owner"
                      ELSE IF Reads(th[t].req) /\ ProcOf[t] \in ReadOnlyProcs
                           THEN "prof" ELSE "tx"]
    /\ UNCHANGED <<file, media, owner, tx, prof, owned, degraded>>

\* Fault: the owner's flock is not respected.
ShareOwnerAnyway(t) ==
    /\ th[t].pc = "owner" /\ ProcOf[t] \notin ReadOnlyProcs
    /\ owner' = [owner EXCEPT ![t] = "sh"] /\ Goto(t, "tx")
    /\ UNCHANGED <<file, media, tx, prof, owned, degraded>>

\* withMutationLock: the non-blocking shared flock on the owner anchor.
ShareOwner(t) ==
    /\ th[t].pc = "owner"
    /\ IF ProcOf[t] \notin ReadOnlyProcs /\ Compatible(owner, t, "sh")
       THEN owner' = [owner EXCEPT ![t] = "sh"] /\ Goto(t, "tx")
       ELSE Goto(t, "fail") /\ UNCHANGED owner
    /\ UNCHANGED <<file, media, tx, prof, owned, degraded>>

\* Fault: the transaction flock is not recorded for release.
TakeTxUnrecorded(t) ==
    /\ th[t].pc = "tx" /\ Compatible(tx, FD(t), Mode(t))
    /\ tx' = [tx EXCEPT ![FD(t)] = Mode(t)]
    /\ Goto(t, "prof")
    /\ UNCHANGED <<file, media, owner, prof, owned, degraded>>

\* withPinnedStateLock: the blocking flocks on transaction anchor and profile.
TakeTx(t) ==
    /\ th[t].pc = "tx" /\ Compatible(tx, FD(t), Mode(t))
    /\ tx' = [tx EXCEPT ![FD(t)] = Mode(t)]
    /\ th' = [th EXCEPT ![t].pc = "prof", ![t].held = @ \cup {"tx"}]
    /\ UNCHANGED <<file, media, owner, prof, owned, degraded>>

TakeProf(t) ==
    /\ th[t].pc = "prof" /\ Compatible(prof, FD(t), Mode(t))
    /\ prof' = [prof EXCEPT ![FD(t)] = Mode(t)]
    /\ th' = [th EXCEPT ![t].pc = IF th[t].req.op = "import" THEN "write" ELSE "read",
                        ![t].held = @ \cup {"prof"}]
    /\ UNCHANGED <<file, media, owner, tx, owned, degraded>>

\* readLocked; a read, and a Delete of a missing entry, are then done.
ReadLocked(t) ==
    /\ th[t].pc = "read"
    /\ LET idle == Reads(th[t].req)
                     \/ (th[t].req.op = "delete" /\ file[th[t].req.e] = Absent)
       IN th' = [th EXCEPT ![t].doc = file,
                           ![t].pc = IF idle THEN "done" ELSE "write",
                           ![t].st = IF idle THEN "settled" ELSE @]
    /\ UNCHANGED <<file, media, owner, tx, prof, owned, degraded>>

\* writeLocked: the temporary file replaces the state file ...
Rename(t) ==
    /\ th[t].pc = "write"
    /\ file' = Effect(th[t].req, th[t].doc)
    /\ th' = [th EXCEPT ![t].pc = "renamed", ![t].st = "applied",
                        ![t].doc = EmptyDocument]
    /\ UNCHANGED <<media, owner, tx, prof, owned, degraded>>

\* Fault: success without the directory sync.
SyncNothing(t) ==
    /\ th[t].pc = "renamed"
    /\ th' = [th EXCEPT ![t].pc = "done", ![t].st = "settled"]
    /\ UNCHANGED <<file, media, owner, tx, prof, owned, degraded>>

\* ... and the directory is synced.
SyncDir(t) ==
    /\ th[t].pc = "renamed"
    /\ media' = file
    /\ th' = [th EXCEPT ![t].pc = "done", ![t].st = "settled"]
    /\ UNCHANGED <<file, owner, tx, prof, owned, degraded>>

\* Opening, locking, identity checks, reading, writing, syncing and
\* unlocking may fail, the last ones after the rename or the sync.
Fail(t) ==
    /\ th[t].pc \in {"owner", "tx", "prof", "read", "write", "renamed", "done"}
    /\ Goto(t, "fail")
    /\ UNCHANGED <<file, media, owner, tx, prof, owned, degraded>>

\* The deferred unlocks.  Import keeps its ownership until Close.
Unlock(t) ==
    /\ th[t].pc \in {"done", "fail"}
    /\ LET ret == IF th[t].pc = "done" THEN "ok" ELSE "err"
           import == th[t].req.op = "import"
       IN /\ th' = [th EXCEPT ![t] = IF import
                       THEN [@ EXCEPT !.held = {}, !.pc =
                                IF ret = "ok" THEN "close" ELSE "closeFailed"]
                       ELSE IdleThread(ret)]
          /\ owner' = IF import THEN owner ELSE [owner EXCEPT ![t] = "none"]
          /\ degraded' = IF ret = "err" /\ th[t].req.op \in {"save", "delete", "load"}
                         THEN degraded \cup {HandleOf[t]} ELSE degraded
    /\ tx' = IF "tx" \in th[t].held THEN [tx EXCEPT ![FD(t)] = "none"] ELSE tx
    /\ prof' = IF "prof" \in th[t].held THEN [prof EXCEPT ![FD(t)] = "none"] ELSE prof
    /\ UNCHANGED <<file, media, owned>>

\* Import's ownership.Close under gate.Lock; its error is Import's error.
CloseImport(t) ==
    /\ th[t].pc \in Closing /\ InGate(ProcOf[t]) = {}
    /\ owner' = [owner EXCEPT ![t] = "none"]
    /\ \/ th[t].pc = "close" /\ th' = [th EXCEPT ![t] = IdleThread("ok")]
       \/ th' = [th EXCEPT ![t] = IdleThread("err")]
    /\ UNCHANGED <<file, media, tx, prof, owned, degraded>>

-----------------------------------------------------------------------------
\* Process death: the kernel drops the flocks of the process.

Die(P) ==
    LET gone == {fd \in FDs : fd \in P \/ (fd \in Threads /\ ProcOf[fd] \in P)}
        Drop(lock) == [fd \in FDs |-> IF fd \in gone THEN "none" ELSE lock[fd]]
    IN /\ owner' = Drop(owner) /\ tx' = Drop(tx) /\ prof' = Drop(prof)
       /\ owned' = owned \ P
       /\ degraded' = degraded \ {HandleOf[t] : t \in gone \cap Threads}
       /\ th' = [t \in Threads |-> IF t \in gone THEN IdleThread("none") ELSE th[t]]

Crash(p) == Die({p}) /\ UNCHANGED <<file, media>>

PowerLoss ==
    /\ Die(Procs)
    /\ file' \in {file, media}
    /\ media' = file'

Advance(t) ==
    \/ ShareOwner(t) \/ ReadLocked(t) \/ Rename(t) \/ SyncDir(t) \/ Unlock(t)
    \/ TakeLock(t) \/ TakeTx(t) \/ TakeProf(t) \/ CloseImport(t)

Next ==
    \/ \E t \in Threads :
          \/ AcquireOwnership(t)
          \/ \E r \in Requests : Enter(t, r) \/ EnterImport(t, r)
          \/ Refuse(t)
          \/ Advance(t)
          \/ Fail(t)
    \/ \E p \in Procs : ReleaseOwnership(p) \/ Crash(p)
    \/ PowerLoss

Spec == Init /\ [][Next]_vars

\* A running call goes on; the blocking locks are not held against one waiter
\* for ever (RWMutex queues its writers ahead of new readers, flock its
\* waiters).  The fairness is strong: while a thread waits for a lock its next
\* step is enabled again and again, not all the time.
FairSpec == Spec /\ \A t \in Threads : SF_vars(Advance(t))

-----------------------------------------------------------------------------
\* Properties.

\* Nobody reads the file while another thread is between its read and the
\* directory sync of its write, and two writers never overlap, although two
\* reads of an owning process share one flock that the first to finish drops
\* for both.
WritersExclude ==
    \A t, u \in Threads :
        t # u /\ th[t].pc \in Inside /\ th[u].pc \in Inside =>
            Reads(th[t].req) /\ Reads(th[u].req)

\* While a process owns the profile, only its own Saves and Deletes change
\* the state file, and no Import does ("offline operations such as Import
\* cannot replace state while the daemon is active").
OwnerWritesAlone ==
    \A p \in owned, t \in Threads :
        th[t].pc \in Inside /\ ~Reads(th[t].req) =>
            ProcOf[t] = p /\ th[t].own

\* The file with its locks, failures and crashes implements the durable map
\* of EntryStore: no update is lost, no acknowledged one is undone.
ImplementsEntryStore == Promise!Spec

\* The gate, the path lock and the three flocks never leave every open call
\* waiting for another one.
NoLockCycle ==
    (\E t \in Threads : th[t].pc # "idle") => \E t \in Threads : ENABLED Advance(t)

\* Every call returns: no reader or writer waits for ever for the gate, the
\* path lock or a flock (withStateLock, withMutationLock, Import).
CallsReturn == \A t \in Threads : th[t].pc # "idle" ~> th[t].pc = "idle"

-----------------------------------------------------------------------------
\* The inductive invariant of the proofs.

Exclusive(lock) ==
    \A f, g \in FDs : f # g /\ lock[f] = "ex" => lock[g] = "none"

ThreadInv ==
    \A t \in Threads :
        /\ th[t].pc = "idle" <=> th[t].req = NoRequest
        /\ th[t].pc \in {"idle", "lock", "owner", "tx"} \cup Closing => th[t].held = {}
        /\ th[t].pc \in Inside => "prof" \in th[t].held
        /\ th[t].pc \in Closing => th[t].req.op = "import"
        /\ th[t].pc = "owner" => Mutates(th[t].req)

\* A call inside the gate uses the registered resources exactly when its
\* process owns the profile: ownership changes only while the gate is empty.
GateInv ==
    \A t \in Threads :
        /\ th[t].own => Locked(t) /\ th[t].req.op # "import"
        /\ Locked(t) /\ th[t].req.op # "import" => (th[t].own <=> ProcOf[t] \in owned)

PathInv ==
    \A t \in Threads : \A u \in Siblings(t) :
        Locked(t) /\ Locked(u) => Reads(th[t].req) /\ Reads(th[u].req)

OwnerInv ==
    /\ Exclusive(owner)
    /\ \A p \in Procs : p \in owned => owner[p] = "ex"
    /\ \A t \in Threads :
         /\ th[t].req.op = "import" => owner[t] = "ex"
         /\ Mutates(th[t].req) /\ ~th[t].own
              /\ th[t].pc \in {"tx", "prof", "done"} \cup Inside => owner[t] = "sh"

\* What a thread knows of a flock it holds.  A read of an owning process
\* knows nothing of the description it shares.
FlockInv(lock, name) ==
    /\ Exclusive(lock)
    /\ \A t \in Threads :
         /\ ~th[t].own /\ name \in th[t].held => lock[t] = Mode(t)
         /\ th[t].own /\ name \in th[t].held /\ ~Reads(th[t].req) => lock[ProcOf[t]] = "ex"

IInv ==
    /\ TypeOK /\ ThreadInv /\ GateInv /\ PathInv /\ OwnerInv
    /\ FlockInv(prof, "prof")

\* How far a call took effect, and that the document it read is still the
\* one in place when it writes.
DataOK(r, f) ==
    /\ r.pc = "idle" <=> r.st = "none"
    /\ r.pc \in Waiting \cup {"read", "write"} => r.st = "open"
    /\ r.pc = "renamed" => r.st = "applied"
    /\ r.pc \in {"done", "close"} => r.st = "settled"
    /\ r.pc # "idle" => r.ret = "none"
    /\ r.pc = "read" => r.req.op # "import"
    /\ r.pc = "write" => ~Reads(r.req)
    /\ r.pc = "write" /\ Mutates(r.req) =>
         r.doc = f /\ (r.req.op = "delete" => f[r.req.e] # Absent)

DataInv == \A t \in Threads : DataOK(th[t], file)
=============================================================================

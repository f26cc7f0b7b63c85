-------------------------- MODULE StateStore_proofs --------------------------
(***************************************************************************)
(* Machine-checked proofs about StateStore: the lock layers exclude        *)
(* overlapping writes, for any number of processes, threads, handles and   *)
(* entries.                                                                *)
(***************************************************************************)
EXTENDS StateStore, TLAPS

PCs == {"idle"} \cup Waiting \cup Inside \cup Ending
ThreadStates ==
    [pc : PCs, req : Requests \cup {NoRequest}, own : BOOLEAN,
     held : SUBSET {"tx", "prof"}, doc : Docs,
     st : {"none", "open", "applied", "settled"}, ret : {"none", "ok", "err"}]

\* Every request is a read, a mutation or an import.
LEMMA RequestKinds ==
    \A r \in Requests :
        /\ r.op \in {"save", "delete", "load", "export", "import"}
        /\ r # NoRequest
BY DEF Requests, NoRequest

\* The fields of a thread with no open call.
LEMMA IdleFields ==
    ASSUME NEW ret
    PROVE  /\ IdleThread(ret).pc = "idle" /\ IdleThread(ret).req = NoRequest
           /\ IdleThread(ret).own = FALSE /\ IdleThread(ret).held = {}
           /\ IdleThread(ret).ret = ret
           /\ ret \in {"none", "ok", "err"} => IdleThread(ret) \in ThreadStates
  <1>1. EmptyDocument \in Docs
    BY DEF EmptyDocument, Docs
  <1> QED
    BY <1>1 DEF IdleThread, ThreadStates, PCs

\* A document after a request is a document.
LEMMA EffectType ==
    ASSUME NEW r \in Requests, NEW d \in Docs
    PROVE  Effect(r, d) \in Docs
  <1> DEFINE P == Payloads \cup {Absent}
  <1>1. CASE r.op = "save"
    <2>1. r.e \in Entries /\ r.v \in P
      BY <1>1 DEF Requests
    <2> QED
      BY <1>1, <2>1 DEF Effect, Promise!Effect, Promise!Reads, Docs
  <1>2. CASE r.op = "delete"
    BY <1>2 DEF Effect, Promise!Effect, Promise!Reads, Docs
  <1>3. CASE r.op = "import"
    <2>1. r.v \in Imports
      BY <1>3 DEF Requests
    <2> QED
      BY <1>3, <2>1, ImportsAssumption DEF Effect, Promise!Effect, Promise!Reads
  <1>4. CASE r.op \in {"load", "export"}
    BY <1>4 DEF Effect, Promise!Effect, Promise!Reads
  <1> QED
    BY <1>1, <1>2, <1>3, <1>4, RequestKinds

-----------------------------------------------------------------------------
\* The fields of a thread state.
LEMMA Fields ==
    ASSUME NEW r \in ThreadStates
    PROVE  /\ r.pc \in PCs /\ r.req \in Requests \cup {NoRequest}
           /\ r.own \in BOOLEAN /\ r.held \in SUBSET {"tx", "prof"} /\ r.doc \in Docs
BY DEF ThreadStates

\* Initially nobody holds a lock.
LEMMA InitInv == Init => IInv
  <1> SUFFICES ASSUME Init PROVE IInv
    OBVIOUS
  <1>0. EmptyDocument \in Docs
    BY DEF EmptyDocument, Docs
  <1>1. \A t \in Threads : th[t] = IdleThread("none")
    BY DEF Init
  <1>2. TypeOK
    <2>1. th \in [Threads -> ThreadStates]
      BY <1>1, IdleFields DEF Init
    <2> QED
      BY <1>0, <2>1 DEF Init, TypeOK, ThreadStates, PCs, Modes
  <1>3. \A t \in Threads : /\ th[t].pc = "idle" /\ th[t].req = NoRequest
                            /\ th[t].own = FALSE /\ th[t].held = {}
    BY <1>1 DEF IdleThread
  <1>4. ThreadInv /\ GateInv /\ PathInv
    BY <1>3 DEF ThreadInv, GateInv, PathInv, Locked, Closing, Inside, Siblings
  <1>5. OwnerInv
    BY <1>3 DEF Init, OwnerInv, Exclusive, Mutates, NoRequest
  <1>6. FlockInv(prof, "prof")
    BY <1>3 DEF Init, FlockInv, Exclusive
  <1> QED
    BY <1>2, <1>4, <1>5, <1>6 DEF IInv

\* The part of TypeOK that the lock invariants use.
Types ==
    /\ th \in [Threads -> ThreadStates]
    /\ owner \in [FDs -> Modes] /\ prof \in [FDs -> Modes]
    /\ owned \subseteq Procs

LEMMA TypeUse == TypeOK => Types
BY DEF TypeOK, Types, ThreadStates, PCs

LockInv == ThreadInv /\ GateInv /\ PathInv /\ OwnerInv /\ FlockInv(prof, "prof")

\* A step of a thread that stays inside its locks: it keeps the request, the
\* resources and the profile flock, and gets no further in than it was.
Moves(t) ==
    /\ UNCHANGED <<owner, prof, owned>>
    /\ th' \in [Threads -> ThreadStates]
    /\ \A u \in Threads : u # t => th'[u] = th[u]
    /\ th'[t].req = th[t].req /\ th'[t].own = th[t].own
    /\ "prof" \in th'[t].held <=> "prof" \in th[t].held
    /\ \/ th'[t].pc = th[t].pc /\ th'[t].held = th[t].held
       \/ /\ th[t].pc \in {"owner", "tx", "prof", "done"} \cup Inside
          /\ \/ th'[t].pc = "fail"
             \/ th[t].pc \in Inside /\ th'[t].pc \in {"write", "renamed", "done"}
             \/ th[t].pc = "tx" /\ th'[t].pc = "prof"

LEMMA MovesInv ==
    ASSUME Types, LockInv, NEW t \in Threads, Moves(t)
    PROVE  LockInv'
  <1> USE DEF Inside, Closing
  <1>0. \A u \in Threads :
          /\ th'[u].req = th[u].req /\ th'[u].own = th[u].own
          /\ "prof" \in th'[u].held <=> "prof" \in th[u].held
          /\ Locked(u)' <=> Locked(u)
    BY DEF Moves, Locked
  <1>1. ThreadInv'
    BY DEF LockInv, ThreadInv, Moves
  <1>2. GateInv'
    BY <1>0 DEF LockInv, GateInv, Moves
  <1>3. PathInv'
    BY <1>0 DEF LockInv, PathInv, Siblings
  <1>4. OwnerInv'
    BY <1>0 DEF LockInv, OwnerInv, Exclusive, Mutates, Moves
  <1>5. FlockInv(prof, "prof")'
    BY <1>0 DEF LockInv, FlockInv, Exclusive, Mode, Moves
  <1> QED
    BY <1>1, <1>2, <1>3, <1>4, <1>5 DEF LockInv

\* The actions that only move a thread inside its locks.
LEMMA QuietMoves ==
    ASSUME Types, NEW t \in Threads, th' \in [Threads -> ThreadStates],
           Refuse(t) \/ TakeTx(t) \/ ReadLocked(t) \/ Rename(t) \/ SyncDir(t) \/ Fail(t)
    PROVE  Moves(t)
  <1> USE DEF Moves, Types, ThreadStates, Inside
  <1>1. CASE Refuse(t)
    BY <1>1 DEF Refuse
  <1>2. CASE TakeTx(t)
    BY <1>2 DEF TakeTx
  <1>3. CASE ReadLocked(t)
    <2>1. /\ th[t].pc = "read" /\ UNCHANGED <<owner, prof, owned>>
          /\ \E pc \in {"done", "write"} : \E st : th' =
               [th EXCEPT ![t].doc = file, ![t].pc = pc, ![t].st = st]
      BY <1>3 DEF ReadLocked
    <2> QED
      BY <2>1
  <1>4. CASE Rename(t)
    BY <1>4 DEF Rename
  <1>5. CASE SyncDir(t)
    BY <1>5 DEF SyncDir
  <1>6. CASE Fail(t)
    BY <1>6 DEF Fail, Goto
  <1> QED
    BY <1>1, <1>2, <1>3, <1>4, <1>5, <1>6

\* Taking ownership: the gate is empty, so no call of the process notices.
LEMMA AcquireInv ==
    ASSUME Types, LockInv, NEW t \in Threads, AcquireOwnership(t)
    PROVE  LockInv'
  <1> USE DEF Inside, Closing
  <1> DEFINE p == ProcOf[t]
  <1>0. /\ th' = th /\ prof' = prof
        /\ owner' = [owner EXCEPT ![p] = "ex"] /\ owned' = owned \cup {p}
        /\ Compatible(owner, p, "ex") /\ InGate(p) = {} /\ p \in Procs /\ p \in FDs
    BY ProcsAssumption DEF AcquireOwnership, CanOwn, FDs
  <1>1. \A f \in FDs \ {p} : owner[f] = "none"
    BY <1>0 DEF Compatible
  <1>2. \A u \in Threads : u # p /\ u \in FDs /\ owner'[u] = owner[u]
    BY <1>0, ProcsAssumption DEF FDs, Types
  <1>3. ThreadInv' /\ PathInv' /\ FlockInv(prof, "prof")'
    BY <1>0 DEF LockInv, ThreadInv, PathInv, FlockInv, Exclusive, Locked, Mode, Siblings
  <1>4. GateInv'
    BY <1>0 DEF LockInv, GateInv, InGate, Locked
  <1>5. OwnerInv'
    <2>1. Exclusive(owner)'
      BY <1>0, <1>1 DEF Exclusive, Types
    <2>2. \A q \in Procs : q \in owned' => owner'[q] = "ex"
      BY <1>0 DEF LockInv, OwnerInv, Types, FDs
    <2> QED
      BY <1>0, <1>2, <2>1, <2>2 DEF LockInv, OwnerInv
  <1> QED
    BY <1>3, <1>4, <1>5 DEF LockInv

LEMMA ReleaseInv ==
    ASSUME Types, LockInv, NEW p \in Procs, ReleaseOwnership(p)
    PROVE  LockInv'
  <1> USE DEF Inside, Closing
  <1>0. /\ th' = th /\ prof' = prof
        /\ owner' = [owner EXCEPT ![p] = "none"] /\ owned' = owned \ {p}
        /\ InGate(p) = {} /\ p \in FDs
    BY DEF ReleaseOwnership, FDs
  <1>1. \A f \in FDs : owner'[f] = IF f = p THEN "none" ELSE owner[f]
    BY <1>0 DEF Types
  <1>2. ThreadInv' /\ PathInv' /\ FlockInv(prof, "prof")'
    BY <1>0 DEF LockInv, ThreadInv, PathInv, FlockInv, Exclusive, Locked, Mode, Siblings
  <1>3. GateInv'
    BY <1>0 DEF LockInv, GateInv, InGate, Locked
  <1>4. OwnerInv'
    <2>1. Exclusive(owner)'
      BY <1>1 DEF LockInv, OwnerInv, Exclusive
    <2>2. \A u \in Threads : owner'[u] = owner[u]
      BY <1>1, ProcsAssumption DEF FDs
    <2>3. \A q \in Procs : q \in owned' => owner'[q] = "ex"
      BY <1>0, <1>1 DEF LockInv, OwnerInv, FDs
    <2> QED
      BY <1>0, <2>1, <2>2, <2>3 DEF LockInv, OwnerInv
  <1> QED
    BY <1>2, <1>3, <1>4 DEF LockInv

\* A call enters: it holds nothing yet but, for an Import, the ownership.
LEMMA EnterInv ==
    ASSUME Types, LockInv, NEW t \in Threads, NEW r \in Requests,
           th' \in [Threads -> ThreadStates],
           Enter(t, r) \/ EnterImport(t, r)
    PROVE  LockInv'
  <1> USE DEF Inside, Closing
  <1>0. /\ prof' = prof /\ owned' = owned /\ th[t].pc = "idle"
        /\ th'[t].pc = "lock" /\ th'[t].req = r /\ th'[t].own = FALSE
        /\ th'[t].held = {}
        /\ \A u \in Threads : u # t => th'[u] = th[u]
    <2>1. /\ prof' = prof /\ owned' = owned /\ th[t].pc = "idle" /\ Open(t, r)
      BY DEF Enter, EnterImport
    <2> DEFINE new == [IdleThread("none") EXCEPT !.pc = "lock", !.req = r, !.st = "open"]
    <2>2. new.pc = "lock" /\ new.req = r /\ new.own = FALSE /\ new.held = {}
      BY DEF IdleThread
    <2>3. th' = [th EXCEPT ![t] = new]
      BY <2>1 DEF Open
    <2> HIDE DEF new
    <2> QED
      BY <2>1, <2>2, <2>3 DEF Types
  <1>1. ThreadInv'
    BY <1>0, RequestKinds DEF LockInv, ThreadInv
  <1>2. GateInv' /\ PathInv'
    BY <1>0 DEF LockInv, GateInv, PathInv, Locked, Siblings
  <1>3. FlockInv(prof, "prof")'
    BY <1>0 DEF LockInv, FlockInv, Exclusive, Mode
  <1>4. OwnerInv'
    <2>1. CASE Enter(t, r)
      <3>1. owner' = owner /\ r.op # "import"
        BY <2>1 DEF Enter
      <3> QED
        BY <1>0, <3>1 DEF LockInv, OwnerInv, Exclusive, Mutates
    <2>2. CASE EnterImport(t, r)
      <3>1. /\ owner' = [owner EXCEPT ![t] = "ex"] /\ r.op = "import"
            /\ \A f \in FDs \ {t} : owner[f] = "none"
        BY <2>2 DEF EnterImport, CanOwn, Compatible
      <3>2. \A f \in FDs : owner'[f] = IF f = t THEN "ex" ELSE "none"
        BY <3>1 DEF Types
      <3>3. \A p \in Procs : p \in FDs /\ p # t
        BY ProcsAssumption DEF FDs
      <3>4. \A u \in Threads : u \in FDs
        BY DEF FDs
      <3>5. Exclusive(owner)'
        BY <3>2 DEF Exclusive
      <3>6. \A p \in Procs : p \in owned' => owner'[p] = "ex"
        BY <1>0, <3>1, <3>3 DEF LockInv, OwnerInv
      <3>7. ASSUME NEW u \in Threads
            PROVE  /\ th'[u].req.op = "import" => owner'[u] = "ex"
                   /\ Mutates(th'[u].req) /\ ~th'[u].own
                        /\ th'[u].pc \in {"tx", "prof", "done"} \cup Inside
                        => owner'[u] = "sh"
        <4>1. CASE u = t
          BY <1>0, <3>2, <3>4, <4>1
        <4>2. CASE u # t
          <5>1. th'[u] = th[u] /\ owner[u] = "none" /\ owner'[u] = "none"
            BY <1>0, <3>1, <3>2, <3>4, <4>2
          <5> QED
            BY <5>1 DEF LockInv, OwnerInv
        <4> QED
          BY <4>1, <4>2
      <3> QED
        BY <3>5, <3>6, <3>7 DEF OwnerInv, Mutates
    <2> QED
      BY <2>1, <2>2
  <1> QED
    BY <1>1, <1>2, <1>3, <1>4 DEF LockInv

\* The path lock: the resources are chosen after it, inside the gate.
LEMMA TakeLockInv ==
    ASSUME Types, LockInv, NEW t \in Threads, th' \in [Threads -> ThreadStates],
           TakeLock(t)
    PROVE  LockInv'
  <1> USE DEF Inside, Closing
  <1>0. /\ prof' = prof /\ owned' = owned /\ owner' = owner /\ th[t].pc = "lock"
        /\ th'[t].req = th[t].req /\ th'[t].held = th[t].held
        /\ th'[t].own <=> ProcOf[t] \in owned /\ th[t].req.op # "import"
        /\ \A u \in Threads : u # t => th'[u] = th[u]
    BY DEF TakeLock, Types, ThreadStates
  <1>1. /\ th'[t].pc \in {"owner", "prof", "tx"}
        /\ Mutates(th[t].req) /\ ~th'[t].own => th'[t].pc = "owner"
        /\ th'[t].pc = "owner" => Mutates(th[t].req)
    BY DEF TakeLock, Types, ThreadStates, Mutates, Reads
  <1>2. \A u \in Siblings(t) : Locked(u) => Reads(th[u].req) /\ Reads(th[t].req)
    BY DEF TakeLock
  <1>3. th[t].held = {}
    BY <1>0 DEF LockInv, ThreadInv
  <1>4. ThreadInv'
    BY <1>0, <1>1, <1>3 DEF LockInv, ThreadInv, Mutates
  <1>5. GateInv'
    BY <1>0, <1>1 DEF LockInv, GateInv, Locked
  <1>6. PathInv'
    <2>1. \A u, v \in Threads : v \in Siblings(u) => u \in Siblings(v)
      BY DEF Siblings
    <2>2. \A u \in Threads : th'[u].req = th[u].req
      BY <1>0
    <2> QED
      BY <1>0, <1>2, <2>1, <2>2 DEF LockInv, PathInv, Locked, Reads, Siblings
  <1>7. OwnerInv'
    BY <1>0, <1>1 DEF LockInv, OwnerInv, Exclusive, Mutates
  <1>8. FlockInv(prof, "prof")'
    BY <1>0, <1>3 DEF LockInv, FlockInv, Exclusive, Mode, Reads
  <1> QED
    BY <1>4, <1>5, <1>6, <1>7, <1>8 DEF LockInv

\* The shared flock of an offline mutation.
LEMMA ShareOwnerInv ==
    ASSUME Types, LockInv, NEW t \in Threads, th' \in [Threads -> ThreadStates],
           ShareOwner(t)
    PROVE  LockInv'
  <1> USE DEF Inside, Closing
  <1>0. /\ prof' = prof /\ owned' = owned /\ th[t].pc = "owner"
        /\ th'[t].req = th[t].req /\ th'[t].held = th[t].held
        /\ th'[t].own = th[t].own /\ th'[t].pc \in {"tx", "fail"}
        /\ \A u \in Threads : u # t => th'[u] = th[u]
    BY DEF ShareOwner, Goto, Types, ThreadStates
  <1>1. th[t].held = {}
    BY <1>0 DEF LockInv, ThreadInv
  <1>2. ThreadInv' /\ GateInv'
    BY <1>0, <1>1 DEF LockInv, ThreadInv, GateInv, Locked
  <1>3. PathInv'
    <2>1. \A u \in Threads : th'[u].req = th[u].req /\ (Locked(u)' <=> Locked(u))
      BY <1>0 DEF Locked
    <2> QED
      BY <2>1 DEF LockInv, PathInv, Reads, Siblings
  <1>4. FlockInv(prof, "prof")'
    BY <1>0, <1>1 DEF LockInv, FlockInv, Exclusive, Mode, Reads
  <1>5. OwnerInv'
    <2>1. CASE owner' = owner /\ th'[t].pc = "fail"
      BY <1>0, <2>1 DEF LockInv, OwnerInv, Exclusive, Mutates
    <2>2. CASE owner' = [owner EXCEPT ![t] = "sh"] /\ Compatible(owner, t, "sh")
      <3>1. \A f \in FDs \ {t} : owner'[f] = owner[f] /\ owner[f] # "ex"
        BY <2>2 DEF Compatible, Types
      <3>2. t \in FDs /\ owner'[t] = "sh"
        BY <2>2 DEF Types, FDs
      <3>3. Exclusive(owner)'
        BY <3>1, <3>2 DEF Exclusive
      <3>4. \A p \in Procs : p \in FDs /\ p # t
        BY ProcsAssumption DEF FDs
      <3>5. \A p \in Procs : p \in owned' => owner'[p] = "ex"
        BY <1>0, <3>1, <3>4 DEF LockInv, OwnerInv
      <3>6. ASSUME NEW u \in Threads
            PROVE  /\ th'[u].req.op = "import" => owner'[u] = "ex"
                   /\ Mutates(th'[u].req) /\ ~th'[u].own
                        /\ th'[u].pc \in {"tx", "prof", "done"} \cup Inside
                        => owner'[u] = "sh"
        <4>1. CASE u = t
          <5>1. th[t].req.op # "import"
            BY <1>0 DEF LockInv, ThreadInv, Mutates
          <5> QED
            BY <1>0, <3>2, <4>1, <5>1
        <4>2. CASE u # t
          <5>1. th'[u] = th[u] /\ owner'[u] = owner[u]
            BY <1>0, <3>1, <4>2 DEF FDs
          <5> QED
            BY <5>1 DEF LockInv, OwnerInv
        <4> QED
          BY <4>1, <4>2
      <3> QED
        BY <3>3, <3>5, <3>6 DEF OwnerInv, Mutates
    <2> QED
      BY <2>1, <2>2 DEF ShareOwner, Goto, Types, ThreadStates
  <1> QED
    BY <1>2, <1>3, <1>4, <1>5 DEF LockInv

\* A thread that holds a flock through the ownership of its process, to
\* write, is the only one of its process past the path lock.
LEMMA OwnWriterAlone ==
    ASSUME Types, LockInv, NEW t \in Threads, NEW u \in Threads, u # t,
           th[u].own, "prof" \in th[u].held, ~Reads(th[u].req), Locked(t)
    PROVE  FD(t) # ProcOf[u] /\ FD(t) # u
  <1>1. Locked(u)
    BY DEF LockInv, GateInv
  <1>2. ProcOf[t] # ProcOf[u]
    BY <1>1 DEF LockInv, PathInv, Siblings
  <1> QED
    BY <1>2, ProcsAssumption DEF FD

\* The profile flock.
LEMMA TakeProfInv ==
    ASSUME Types, LockInv, NEW t \in Threads, th' \in [Threads -> ThreadStates],
           TakeProf(t)
    PROVE  LockInv'
  <1> USE DEF Inside, Closing
  <1>0. /\ owner' = owner /\ owned' = owned /\ th[t].pc = "prof"
        /\ th'[t].req = th[t].req /\ th'[t].held = th[t].held \cup {"prof"}
        /\ th'[t].own = th[t].own /\ th'[t].pc \in {"write", "read"}
        /\ \A u \in Threads : u # t => th'[u] = th[u]
    BY DEF TakeProf, Types, ThreadStates
  <1>1. \A u \in Threads : /\ th'[u].req = th[u].req /\ th'[u].own = th[u].own
                            /\ Locked(u)' <=> Locked(u)
    BY <1>0 DEF Locked
  <1>2. ThreadInv' /\ GateInv' /\ PathInv'
    BY <1>0, <1>1 DEF LockInv, ThreadInv, GateInv, PathInv, Reads, Siblings, Mutates
  <1>3. OwnerInv'
    BY <1>0 DEF LockInv, OwnerInv, Exclusive, Mutates
  <1>4. /\ FD(t) \in FDs /\ Compatible(prof, FD(t), Mode(t)) /\ Mode(t) \in {"sh", "ex"}
        /\ prof' = [prof EXCEPT ![FD(t)] = Mode(t)]
    BY ProcsAssumption DEF TakeProf, FD, FDs, Mode
  <1>5. \A f \in FDs : prof'[f] = IF f = FD(t) THEN Mode(t) ELSE prof[f]
    BY <1>4 DEF Types
  <1>6. Exclusive(prof)'
    BY <1>4, <1>5 DEF LockInv, FlockInv, Exclusive, Compatible
  <1>7. ASSUME NEW u \in Threads
        PROVE  /\ ~th'[u].own /\ "prof" \in th'[u].held => prof'[u] = Mode(u)'
               /\ th'[u].own /\ "prof" \in th'[u].held /\ ~Reads(th'[u].req)
                    => prof'[ProcOf[u]] = "ex"
    <2>0. Mode(u)' = Mode(u) /\ u \in FDs /\ ProcOf[u] \in FDs
      <3>1. th'[u].req = th[u].req
        BY <1>0
      <3>2. Mode(u)' = Mode(u)
        BY <3>1 DEF Mode, Reads
      <3> QED
        BY <3>2, ProcsAssumption DEF FDs
    <2>1. CASE u = t
      <3>1. prof'[FD(t)] = Mode(t) /\ th'[t].own = th[t].own /\ th'[t].req = th[t].req
        BY <1>0, <1>4, <1>5
      <3>2. CASE th[t].own
        BY <2>1, <3>1, <3>2 DEF FD, Mode
      <3>3. CASE ~th[t].own
        BY <2>0, <2>1, <3>1, <3>3 DEF FD
      <3> QED
        BY <3>2, <3>3
    <2>2. CASE u # t
      <3>1. FD(t) # u
        BY <2>2, ProcsAssumption DEF FD
      <3>2. Locked(t)
        BY <1>0 DEF Locked
      <3>3. th[u].own /\ "prof" \in th[u].held /\ ~Reads(th[u].req) => FD(t) # ProcOf[u]
        BY <2>2, <3>2, OwnWriterAlone
      <3>4. th'[u] = th[u]
        BY <1>0, <2>2
      <3> QED
        BY <1>5, <2>0, <3>1, <3>3, <3>4 DEF LockInv, FlockInv
    <2> QED
      BY <2>1, <2>2
  <1>8. FlockInv(prof, "prof")'
    BY <1>6, <1>7 DEF FlockInv, Reads
  <1> QED
    BY <1>2, <1>3, <1>8 DEF LockInv

\* The unlocks of a call: only its own flocks change, or those it shares with
\* readers of its process.
LEMMA UnlockInv ==
    ASSUME Types, LockInv, NEW t \in Threads, th' \in [Threads -> ThreadStates],
           Unlock(t)
    PROVE  LockInv'
  <1> USE DEF Inside, Closing
  <1> DEFINE import == th[t].req.op = "import"
  <1>0. /\ owned' = owned /\ th[t].pc \in {"done", "fail"}
        /\ \A u \in Threads : u # t => th'[u] = th[u]
        /\ owner' = IF import THEN owner ELSE [owner EXCEPT ![t] = "none"]
        /\ prof' = IF "prof" \in th[t].held THEN [prof EXCEPT ![FD(t)] = "none"] ELSE prof
    BY DEF Unlock, Types
  <1>1. /\ th'[t].own = FALSE /\ th'[t].held = {}
        /\ import => th'[t].pc \in Closing /\ th'[t].req = th[t].req
        /\ ~import => th'[t].pc = "idle" /\ th'[t].req = NoRequest
    <2> DEFINE ret == IF th[t].pc = "done" THEN "ok" ELSE "err"
    <2>1. CASE import
      <3>1. th' = [th EXCEPT ![t] = [th[t] EXCEPT !.held = {}, !.pc =
                                       IF ret = "ok" THEN "close" ELSE "closeFailed"]]
        BY <2>1 DEF Unlock, Types
      <3>2. th[t].own = FALSE
        BY <2>1 DEF LockInv, GateInv, Types, ThreadStates
      <3> QED
        BY <2>1, <3>1, <3>2 DEF Types, ThreadStates
    <2>2. CASE ~import
      <3>1. th' = [th EXCEPT ![t] = IdleThread(ret)]
        BY <2>2 DEF Unlock, Types
      <3> QED
        BY <2>2, <3>1 DEF Types, IdleThread
    <2> QED
      BY <2>1, <2>2
  <1>2. ~Locked(t)' /\ Locked(t)
    BY <1>0, <1>1 DEF Locked
  <1>3. ThreadInv' /\ GateInv' /\ PathInv'
    <2>1. ThreadInv'
      BY <1>0, <1>1 DEF LockInv, ThreadInv, NoRequest
    <2>2. GateInv'
      BY <1>0, <1>1, <1>2 DEF LockInv, GateInv, Locked
    <2>3. PathInv'
      BY <1>0, <1>2 DEF LockInv, PathInv, Siblings, Locked, Reads
    <2> QED
      BY <2>1, <2>2, <2>3
  <1>4. OwnerInv'
    <2>1. \A f \in FDs : owner'[f] = owner[f] \/ (f = t /\ owner'[f] = "none")
      BY <1>0 DEF Types
    <2>2. Exclusive(owner)'
      BY <2>1 DEF LockInv, OwnerInv, Exclusive
    <2>3. \A p \in Procs : p \in FDs /\ p # t
      BY ProcsAssumption DEF FDs
    <2>4. \A p \in Procs : p \in owned' => owner'[p] = "ex"
      BY <1>0, <2>1, <2>3 DEF LockInv, OwnerInv
    <2>5. ASSUME NEW u \in Threads
          PROVE  /\ th'[u].req.op = "import" => owner'[u] = "ex"
                 /\ Mutates(th'[u].req) /\ ~th'[u].own
                      /\ th'[u].pc \in {"tx", "prof", "done"} \cup Inside
                      => owner'[u] = "sh"
      <3>1. CASE u = t
        BY <1>0, <1>1, <3>1 DEF LockInv, OwnerInv, NoRequest
      <3>2. CASE u # t
        <4>1. th'[u] = th[u] /\ owner'[u] = owner[u]
          BY <1>0, <2>1, <3>2 DEF FDs
        <4> QED
          BY <4>1 DEF LockInv, OwnerInv
      <3> QED
        BY <3>1, <3>2
    <2> QED
      BY <2>2, <2>4, <2>5 DEF OwnerInv, Mutates
  <1>5. FlockInv(prof, "prof")'
    <2>0. FD(t) \in FDs
      BY ProcsAssumption DEF FD, FDs
    <2>1. \A f \in FDs : prof'[f] = prof[f] \/ (f = FD(t) /\ prof'[f] = "none")
      BY <1>0, <2>0 DEF Types
    <2>2. Exclusive(prof)'
      BY <2>1 DEF LockInv, FlockInv, Exclusive
    <2>3. ASSUME NEW u \in Threads
          PROVE  /\ ~th'[u].own /\ "prof" \in th'[u].held => prof'[u] = Mode(u)'
                 /\ th'[u].own /\ "prof" \in th'[u].held /\ ~Reads(th'[u].req)
                      => prof'[ProcOf[u]] = "ex"
      <3>1. CASE u = t
        BY <1>1, <3>1
      <3>2. CASE u # t
        <4>0. th'[u] = th[u] /\ Mode(u)' = Mode(u)
          BY <1>0, <3>2 DEF Mode, Reads
        <4>1. FD(t) # u /\ u \in FDs /\ ProcOf[u] \in FDs
          BY <3>2, ProcsAssumption DEF FD, FDs
        <4>2. th[u].own /\ "prof" \in th[u].held /\ ~Reads(th[u].req) => FD(t) # ProcOf[u]
          BY <1>2, <3>2, OwnWriterAlone
        <4> QED
          BY <2>1, <4>0, <4>1, <4>2 DEF LockInv, FlockInv
      <3> QED
        BY <3>1, <3>2
    <2> QED
      BY <2>2, <2>3 DEF FlockInv, Reads
  <1> QED
    BY <1>3, <1>4, <1>5 DEF LockInv

\* Import's ownership is closed after everything else.
LEMMA CloseImportInv ==
    ASSUME Types, LockInv, NEW t \in Threads, th' \in [Threads -> ThreadStates],
           CloseImport(t)
    PROVE  LockInv'
  <1> USE DEF Inside, Closing
  <1>0. /\ owned' = owned /\ prof' = prof /\ th[t].pc \in Closing
        /\ \A u \in Threads : u # t => th'[u] = th[u]
        /\ owner' = [owner EXCEPT ![t] = "none"]
    BY DEF CloseImport, Types
  <1>1. th'[t].pc = "idle" /\ th'[t].req = NoRequest /\ th'[t].own = FALSE /\ th'[t].held = {}
    BY DEF CloseImport, Types, IdleThread
  <1>2. ThreadInv'
    BY <1>0, <1>1 DEF LockInv, ThreadInv, NoRequest
  <1>3. GateInv' /\ PathInv'
    BY <1>0, <1>1 DEF LockInv, GateInv, PathInv, Siblings, Locked, Reads
  <1>4. OwnerInv'
    <2>1. \A f \in FDs : owner'[f] = IF f = t THEN "none" ELSE owner[f]
      BY <1>0 DEF Types
    <2>2. Exclusive(owner)'
      BY <2>1 DEF LockInv, OwnerInv, Exclusive
    <2>3. \A p \in Procs : p \in FDs /\ p # t
      BY ProcsAssumption DEF FDs
    <2>4. \A p \in Procs : p \in owned' => owner'[p] = "ex"
      BY <1>0, <2>1, <2>3 DEF LockInv, OwnerInv
    <2>5. ASSUME NEW u \in Threads
          PROVE  /\ th'[u].req.op = "import" => owner'[u] = "ex"
                 /\ Mutates(th'[u].req) /\ ~th'[u].own
                      /\ th'[u].pc \in {"tx", "prof", "done"} \cup Inside
                      => owner'[u] = "sh"
      <3>1. CASE u = t
        BY <1>1, <3>1 DEF NoRequest
      <3>2. CASE u # t
        <4>1. th'[u] = th[u] /\ owner'[u] = owner[u]
          BY <1>0, <2>1, <3>2 DEF FDs
        <4> QED
          BY <4>1 DEF LockInv, OwnerInv
      <3> QED
        BY <3>1, <3>2
    <2> QED
      BY <2>2, <2>4, <2>5 DEF OwnerInv, Mutates
  <1>5. FlockInv(prof, "prof")'
    BY <1>0, <1>1 DEF LockInv, FlockInv, Exclusive, Mode, Reads
  <1> QED
    BY <1>2, <1>3, <1>4, <1>5 DEF LockInv

\* The death of some processes leaves the locks of the others alone.
LEMMA DieInv ==
    ASSUME Types, LockInv, NEW P \in SUBSET Procs, Die(P)
    PROVE  LockInv'
  <1> USE DEF Inside, Closing
  <1> DEFINE gone == {fd \in FDs : fd \in P \/ (fd \in Threads /\ ProcOf[fd] \in P)}
  <1>0. /\ owner' = [fd \in FDs |-> IF fd \in gone THEN "none" ELSE owner[fd]]
        /\ prof' = [fd \in FDs |-> IF fd \in gone THEN "none" ELSE prof[fd]]
        /\ th' = [u \in Threads |-> IF u \in gone THEN IdleThread("none") ELSE th[u]]
        /\ owned' = owned \ P
    BY DEF Die
  <1>1. \A u \in Threads : u \in gone <=> ProcOf[u] \in P
    BY ProcsAssumption DEF FDs
  <1>2. \A p \in Procs : p \in gone <=> p \in P
    BY ProcsAssumption DEF FDs
  <1>3. \A u \in Threads : u \in gone =>
          /\ th'[u].pc = "idle" /\ th'[u].req = NoRequest
          /\ th'[u].own = FALSE /\ th'[u].held = {}
    BY <1>0 DEF IdleThread
  <1>4. \A u \in Threads : u \notin gone => th'[u] = th[u]
    BY <1>0
  <1> HIDE DEF gone
  <1>5. ThreadInv'
    BY <1>3, <1>4 DEF LockInv, ThreadInv, NoRequest, Mutates
  <1>6. GateInv'
    BY <1>0, <1>1, <1>3, <1>4 DEF LockInv, GateInv, Locked
  <1>7. PathInv'
    BY <1>3, <1>4 DEF LockInv, PathInv, Siblings, Locked, Reads
  <1>8. /\ \A f \in FDs \ gone : owner'[f] = owner[f] /\ prof'[f] = prof[f]
        /\ \A f \in FDs \cap gone : owner'[f] = "none" /\ prof'[f] = "none"
    BY <1>0
  <1>9. Exclusive(owner)' /\ Exclusive(prof)'
    BY <1>8 DEF LockInv, OwnerInv, FlockInv, Exclusive
  <1>10. OwnerInv'
    <2>1. \A p \in Procs : p \in owned' => owner'[p] = "ex"
      BY <1>0, <1>2, <1>8 DEF LockInv, OwnerInv, FDs
    <2>2. ASSUME NEW u \in Threads
          PROVE  /\ th'[u].req.op = "import" => owner'[u] = "ex"
                 /\ Mutates(th'[u].req) /\ ~th'[u].own
                      /\ th'[u].pc \in {"tx", "prof", "done"} \cup Inside
                      => owner'[u] = "sh"
      <3>1. CASE u \in gone
        BY <1>3, <3>1 DEF NoRequest
      <3>2. CASE u \notin gone
        <4>1. th'[u] = th[u] /\ owner'[u] = owner[u]
          BY <1>4, <1>8, <3>2 DEF FDs
        <4> QED
          BY <4>1 DEF LockInv, OwnerInv
      <3> QED
        BY <3>1, <3>2
    <2> QED
      BY <1>9, <2>1, <2>2 DEF OwnerInv, Mutates
  <1>11. FlockInv(prof, "prof")'
    <2>1. ASSUME NEW u \in Threads
          PROVE  /\ ~th'[u].own /\ "prof" \in th'[u].held => prof'[u] = Mode(u)'
                 /\ th'[u].own /\ "prof" \in th'[u].held /\ ~Reads(th'[u].req)
                      => prof'[ProcOf[u]] = "ex"
      <3>1. CASE u \in gone
        BY <1>3, <3>1
      <3>2. CASE u \notin gone
        <4>1. th'[u] = th[u] /\ prof'[u] = prof[u]
          BY <1>4, <1>8, <3>2 DEF FDs
        <4>2. prof'[ProcOf[u]] = prof[ProcOf[u]]
          BY <1>1, <1>2, <1>8, <3>2, ProcsAssumption DEF FDs
        <4>3. Mode(u)' = Mode(u)
          BY <4>1 DEF Mode, Reads
        <4> QED
          BY <4>1, <4>2, <4>3 DEF LockInv, FlockInv
      <3> QED
        BY <3>1, <3>2
    <2> QED
      BY <1>9, <2>1 DEF FlockInv, Reads
  <1> QED
    BY <1>5, <1>6, <1>7, <1>10, <1>11 DEF LockInv

\* A thread state whose fields are replaced by values of their types.
LEMMA FieldUpdate ==
    ASSUME NEW r \in ThreadStates
    PROVE  /\ \A pc \in PCs : [r EXCEPT !.pc = pc] \in ThreadStates
           /\ \A own \in BOOLEAN : [r EXCEPT !.own = own] \in ThreadStates
           /\ \A held \in SUBSET {"tx", "prof"} : [r EXCEPT !.held = held] \in ThreadStates
           /\ \A doc \in Docs : [r EXCEPT !.doc = doc] \in ThreadStates
           /\ \A st \in {"none", "open", "applied", "settled"} :
                 [r EXCEPT !.st = st] \in ThreadStates
           /\ \A ret \in {"none", "ok", "err"} : [r EXCEPT !.ret = ret] \in ThreadStates
BY DEF ThreadStates

\* One thread state is replaced.
LEMMA ThreadUpdate ==
    ASSUME th \in [Threads -> ThreadStates], NEW t \in Threads, NEW r \in ThreadStates
    PROVE  [th EXCEPT ![t] = r] \in [Threads -> ThreadStates]
OBVIOUS

\* Every action keeps the types.
LEMMA TypeStep == ASSUME IInv, Next PROVE TypeOK'
  <1>0. /\ file \in Docs /\ media \in Docs
        /\ owner \in [FDs -> Modes] /\ tx \in [FDs -> Modes] /\ prof \in [FDs -> Modes]
        /\ owned \subseteq Procs /\ degraded \subseteq Handles
        /\ th \in [Threads -> ThreadStates]
    BY DEF IInv, TypeOK, ThreadStates, PCs
  <1> DEFINE Goal == /\ file' \in Docs /\ media' \in Docs
                     /\ owner' \in [FDs -> Modes] /\ tx' \in [FDs -> Modes]
                     /\ prof' \in [FDs -> Modes]
                     /\ owned' \subseteq Procs /\ degraded' \subseteq Handles
                     /\ th' \in [Threads -> ThreadStates]
  <1>1. SUFFICES Goal
    BY DEF TypeOK, ThreadStates, PCs
  <1>2. EmptyDocument \in Docs
    BY DEF EmptyDocument, Docs
  <1>3. \A ret \in {"none", "ok", "err"} : IdleThread(ret) \in ThreadStates
    BY <1>2 DEF IdleThread, ThreadStates, PCs
  <1>4. \A t \in Threads : /\ ProcOf[t] \in Procs /\ HandleOf[t] \in Handles
                            /\ FD(t) \in FDs /\ ProcOf[t] \in FDs /\ t \in FDs
    BY ProcsAssumption DEF FD, FDs
  <1>5. \A t \in Threads : Mode(t) \in Modes
    BY DEF Mode, Modes
  <1>6. \A t \in Threads : th[t].pc # "idle" => th[t].req \in Requests
    BY <1>0 DEF IInv, ThreadInv, ThreadStates
  <1>7. "none" \in Modes /\ "ex" \in Modes /\ "sh" \in Modes
    BY DEF Modes
  <1>8. ASSUME NEW t \in Threads, AcquireOwnership(t) PROVE Goal
    BY <1>0, <1>4, <1>7, <1>8 DEF AcquireOwnership
  <1>9. ASSUME NEW t \in Threads, NEW r \in Requests, Enter(t, r) \/ EnterImport(t, r)
        PROVE  Goal
    <2>1. [IdleThread("none") EXCEPT !.pc = "lock", !.req = r, !.st = "open"] \in ThreadStates
      BY <1>2 DEF IdleThread, ThreadStates, PCs, Waiting
    <2>2. th' \in [Threads -> ThreadStates]
      BY <1>0, <1>9, <2>1 DEF Enter, EnterImport, Open
    <2> QED
      BY <1>0, <1>4, <1>7, <1>9, <2>2 DEF Enter, EnterImport
  <1>10. ASSUME NEW t \in Threads, Refuse(t) PROVE Goal
    <2>1. th' = [th EXCEPT ![t] = [th[t] EXCEPT !.ret = "err"]]
      BY <1>10 DEF Refuse
    <2>2. th' \in [Threads -> ThreadStates]
      BY <1>0, <2>1, FieldUpdate
    <2> QED
      BY <1>0, <1>10, <2>2 DEF Refuse
  <1>11. ASSUME NEW t \in Threads, TakeLock(t) PROVE Goal
    <2>1. PICK pc \in {"owner", "prof", "tx"}, own \in BOOLEAN :
             th' = [th EXCEPT ![t] = [[th[t] EXCEPT !.own = own] EXCEPT !.pc = pc]]
      BY <1>11 DEF TakeLock
    <2>2. pc \in PCs
      BY DEF PCs, Waiting
    <2>3. [[th[t] EXCEPT !.own = own] EXCEPT !.pc = pc] \in ThreadStates
      BY <1>0, <2>2, FieldUpdate
    <2>4. th' \in [Threads -> ThreadStates]
      BY <1>0, <2>1, <2>3
    <2> QED
      BY <1>0, <1>11, <2>4 DEF TakeLock
  <1>12. ASSUME NEW t \in Threads, ShareOwner(t) PROVE Goal
    <2>1. PICK pc \in {"tx", "fail"} : th' = [th EXCEPT ![t] = [th[t] EXCEPT !.pc = pc]]
      BY <1>12 DEF ShareOwner, Goto
    <2>2. th' \in [Threads -> ThreadStates]
      <3>1. pc \in PCs
        BY DEF PCs, Waiting, Ending
      <3> QED
        BY <1>0, <2>1, <3>1, FieldUpdate
    <2> QED
      BY <1>0, <1>4, <1>7, <1>12, <2>2 DEF ShareOwner
  <1>13. ASSUME NEW t \in Threads, TakeTx(t) PROVE Goal
    <2>1. th' \in [Threads -> ThreadStates]
      <3>1. th' = [th EXCEPT ![t] = [[th[t] EXCEPT !.pc = "prof"]
                                      EXCEPT !.held = th[t].held \cup {"tx"}]]
        BY <1>0, <1>13 DEF TakeTx
      <3>2. "prof" \in PCs /\ th[t].held \cup {"tx"} \in SUBSET {"tx", "prof"}
        BY <1>0 DEF PCs, Waiting, ThreadStates
      <3>3. [[th[t] EXCEPT !.pc = "prof"] EXCEPT !.held = th[t].held \cup {"tx"}]
              \in ThreadStates
        BY <1>0, <3>2, FieldUpdate
      <3> QED
        BY <1>0, <3>1, <3>3
    <2> QED
      BY <1>0, <1>4, <1>5, <1>13, <2>1 DEF TakeTx
  <1>14. ASSUME NEW t \in Threads, TakeProf(t) PROVE Goal
    <2>1. PICK pc \in {"write", "read"} :
             th' = [th EXCEPT ![t] = [[th[t] EXCEPT !.pc = pc]
                                       EXCEPT !.held = th[t].held \cup {"prof"}]]
      BY <1>0, <1>14 DEF TakeProf
    <2>2. th' \in [Threads -> ThreadStates]
      <3>1. pc \in PCs /\ th[t].held \cup {"prof"} \in SUBSET {"tx", "prof"}
        BY <1>0 DEF PCs, Inside, ThreadStates
      <3>2. [[th[t] EXCEPT !.pc = pc] EXCEPT !.held = th[t].held \cup {"prof"}]
              \in ThreadStates
        BY <1>0, <3>1, FieldUpdate
      <3> QED
        BY <1>0, <2>1, <3>2
    <2> QED
      BY <1>0, <1>4, <1>5, <1>14, <2>2 DEF TakeProf
  <1>15. ASSUME NEW t \in Threads, ReadLocked(t) PROVE Goal
    <2>1. PICK pc \in {"done", "write"}, st \in {"none", "open", "applied", "settled"} :
             th' = [th EXCEPT ![t].doc = file, ![t].pc = pc, ![t].st = st]
      BY <1>0, <1>15 DEF ReadLocked, ThreadStates
    <2> QED
      BY <1>0, <1>15, <2>1 DEF ReadLocked, ThreadStates, PCs, Inside, Ending
  <1>16. ASSUME NEW t \in Threads, Rename(t) PROVE Goal
    <2>1. file' \in Docs
      <3>1. th[t].req \in Requests /\ th[t].doc \in Docs
        BY <1>0, <1>6, <1>16 DEF Rename, ThreadStates
      <3> QED
        BY <1>16, <3>1, EffectType DEF Rename
    <2>2. th' \in [Threads -> ThreadStates]
      <3> DEFINE new == [[[th[t] EXCEPT !.pc = "renamed"] EXCEPT !.st = "applied"]
                            EXCEPT !.doc = EmptyDocument]
      <3>1. th' = [th EXCEPT ![t] = new]
        BY <1>16 DEF Rename
      <3>2. "renamed" \in PCs
        BY DEF PCs, Inside
      <3>3. new \in ThreadStates
        BY <1>0, <1>2, <3>2, FieldUpdate
      <3> QED
        BY <1>0, <3>1, <3>3
    <2> QED
      BY <1>0, <1>16, <2>1, <2>2 DEF Rename
  <1>17. ASSUME NEW t \in Threads, SyncDir(t) PROVE Goal
    <2>1. th' = [th EXCEPT ![t] = [[th[t] EXCEPT !.pc = "done"] EXCEPT !.st = "settled"]]
      BY <1>17 DEF SyncDir
    <2>2. "done" \in PCs
      BY DEF PCs, Ending
    <2>3. [[th[t] EXCEPT !.pc = "done"] EXCEPT !.st = "settled"] \in ThreadStates
      BY <1>0, <2>2, FieldUpdate
    <2>4. th' \in [Threads -> ThreadStates]
      BY <1>0, <2>1, <2>3
    <2> QED
      BY <1>0, <1>17, <2>4 DEF SyncDir
  <1>18. ASSUME NEW t \in Threads, Fail(t) PROVE Goal
    BY <1>0, <1>18 DEF Fail, Goto, ThreadStates, PCs, Ending
  <1>19. ASSUME NEW t \in Threads, Unlock(t) PROVE Goal
    <2> DEFINE ret == IF th[t].pc = "done" THEN "ok" ELSE "err"
               pc == IF ret = "ok" THEN "close" ELSE "closeFailed"
               next == IF th[t].req.op = "import"
                       THEN [[th[t] EXCEPT !.held = {}] EXCEPT !.pc = pc]
                       ELSE IdleThread(ret)
    <2>1. next \in ThreadStates
      <3>1. ret \in {"none", "ok", "err"} /\ pc \in PCs
        BY DEF PCs, Ending, Closing
      <3>2. [[th[t] EXCEPT !.held = {}] EXCEPT !.pc = pc] \in ThreadStates
        <4> HIDE DEF pc
        <4> QED
          BY <1>0, <3>1, FieldUpdate
      <3>3. IdleThread(ret) \in ThreadStates
        BY <1>3, <3>1
      <3> QED
        BY <3>2, <3>3
    <2>2. th' = [th EXCEPT ![t] = next]
      BY <1>0, <1>19 DEF Unlock
    <2>3. th' \in [Threads -> ThreadStates]
      BY <1>0, <2>1, <2>2
    <2>4. degraded' \in {degraded, degraded \cup {HandleOf[t]}}
      BY <1>19 DEF Unlock
    <2>5. /\ tx' \in {tx, [tx EXCEPT ![FD(t)] = "none"]}
          /\ prof' \in {prof, [prof EXCEPT ![FD(t)] = "none"]}
          /\ owner' \in {owner, [owner EXCEPT ![t] = "none"]}
          /\ UNCHANGED <<file, media, owned>>
      BY <1>19 DEF Unlock
    <2> QED
      BY <1>0, <1>4, <1>7, <2>3, <2>4, <2>5
  <1>20. ASSUME NEW t \in Threads, CloseImport(t) PROVE Goal
    BY <1>0, <1>3, <1>4, <1>7, <1>20 DEF CloseImport
  <1>21. ASSUME NEW p \in Procs, ReleaseOwnership(p) PROVE Goal
    BY <1>0, <1>7, <1>21 DEF ReleaseOwnership, FDs
  <1>22. ASSUME NEW P \in SUBSET Procs, Die(P), file' \in Docs, media' \in Docs PROVE Goal
    BY <1>0, <1>3, <1>7, <1>22 DEF Die
  <1>23. ASSUME NEW p \in Procs, Crash(p) PROVE Goal
    BY <1>0, <1>22, <1>23 DEF Crash
  <1>24. CASE PowerLoss
    BY <1>0, <1>22, <1>24 DEF PowerLoss
  <1> QED
    BY <1>8, <1>9, <1>10, <1>11, <1>12, <1>13, <1>14, <1>15, <1>16, <1>17, <1>18, <1>19,
       <1>20, <1>21, <1>23, <1>24 DEF Next, Advance

\* Every action keeps the lock invariants.
LEMMA LockStep == ASSUME IInv, Next PROVE LockInv'
  <1>0. Types /\ LockInv /\ th' \in [Threads -> ThreadStates]
    BY TypeStep, TypeUse DEF IInv, LockInv, TypeOK, ThreadStates, PCs
  <1>1. ASSUME NEW t \in Threads, AcquireOwnership(t) PROVE LockInv'
    BY <1>0, <1>1, AcquireInv
  <1>2. ASSUME NEW t \in Threads, NEW r \in Requests, Enter(t, r) \/ EnterImport(t, r)
        PROVE  LockInv'
    BY <1>0, <1>2, EnterInv
  <1>3. ASSUME NEW t \in Threads,
               Refuse(t) \/ TakeTx(t) \/ ReadLocked(t) \/ Rename(t) \/ SyncDir(t) \/ Fail(t)
        PROVE  LockInv'
    BY <1>0, <1>3, QuietMoves, MovesInv
  <1>4. ASSUME NEW t \in Threads, TakeLock(t) PROVE LockInv'
    BY <1>0, <1>4, TakeLockInv
  <1>5. ASSUME NEW t \in Threads, ShareOwner(t) PROVE LockInv'
    BY <1>0, <1>5, ShareOwnerInv
  <1>6. ASSUME NEW t \in Threads, TakeProf(t) PROVE LockInv'
    BY <1>0, <1>6, TakeProfInv
  <1>7. ASSUME NEW t \in Threads, Unlock(t) PROVE LockInv'
    BY <1>0, <1>7, UnlockInv
  <1>8. ASSUME NEW t \in Threads, CloseImport(t) PROVE LockInv'
    BY <1>0, <1>8, CloseImportInv
  <1>9. ASSUME NEW p \in Procs, ReleaseOwnership(p) PROVE LockInv'
    BY <1>0, <1>9, ReleaseInv
  <1>10. ASSUME NEW p \in Procs, Crash(p) PROVE LockInv'
    BY <1>0, <1>10, DieInv DEF Crash
  <1>11. CASE PowerLoss
    BY <1>0, <1>11, DieInv DEF PowerLoss
  <1> QED
    BY <1>1, <1>2, <1>3, <1>4, <1>5, <1>6, <1>7, <1>8, <1>9, <1>10, <1>11 DEF Next, Advance

\* The inductive invariant holds in every reachable state of the store.
THEOREM Invariance == Spec => []IInv
  <1>1. IInv /\ [Next]_vars => IInv'
    <2> SUFFICES ASSUME IInv, [Next]_vars PROVE IInv'
      OBVIOUS
    <2>1. CASE Next
      BY <2>1, TypeStep, LockStep DEF IInv, LockInv
    <2>2. CASE UNCHANGED vars
      BY <2>2 DEF vars, IInv, TypeOK, ThreadInv, GateInv, PathInv, OwnerInv, FlockInv,
                  Exclusive, Locked, Mode
    <2> QED
      BY <2>1, <2>2
  <1> QED
    BY <1>1, InitInv, PTL DEF Spec

\* Every variable of the store keeps its type.
THEOREM TypeCorrect == Spec => []TypeOK
  <1>1. IInv => TypeOK
    BY DEF IInv
  <1> QED
    BY <1>1, Invariance, PTL

\* Writers exclude each other and readers: the state predicate from the
\* invariant.
LEMMA Exclusion == IInv => WritersExclude
  <1> SUFFICES ASSUME IInv, NEW t \in Threads, NEW u \in Threads, t # u,
                      th[t].pc \in Inside, th[u].pc \in Inside, ~Reads(th[t].req)
               PROVE  FALSE
    BY DEF WritersExclude
  <1>0. Types /\ LockInv
    BY TypeUse DEF IInv, LockInv
  <1>1. /\ "prof" \in th[t].held /\ "prof" \in th[u].held /\ Locked(t) /\ Locked(u)
        /\ th[t].req \in Requests /\ th[u].req \in Requests
    BY <1>0 DEF LockInv, ThreadInv, Types, ThreadStates, Locked, Inside, Closing
  <1>2. ProcOf[t] # ProcOf[u]
    BY <1>0, <1>1 DEF LockInv, PathInv, Siblings
  <1>3. /\ ProcOf[t] \in Procs /\ ProcOf[u] \in Procs
        /\ {t, u, ProcOf[t], ProcOf[u]} \subseteq FDs
        /\ t # ProcOf[u] /\ u # ProcOf[t] /\ t # ProcOf[t]
    BY ProcsAssumption DEF FDs
  <1>4. /\ Mutates(th[t].req) \/ th[t].req.op = "import"
        /\ Reads(th[u].req) \/ Mutates(th[u].req) \/ th[u].req.op = "import"
    BY <1>1, RequestKinds DEF Mutates, Reads
  <1>5. ASSUME NEW v \in Threads, th[v].pc \in Inside, ~th[v].own,
               Mutates(th[v].req) \/ th[v].req.op = "import"
        PROVE  owner[v] \in {"sh", "ex"}
    BY <1>0, <1>5 DEF LockInv, OwnerInv
  <1>6. \A v \in Threads : th[v].own => owner[ProcOf[v]] = "ex"
    BY <1>0, ProcsAssumption DEF LockInv, GateInv, OwnerInv
  <1>7. Mode(t) = "ex" /\ Mode(u) \in {"sh", "ex"}
    BY DEF Mode
  <1>8. CASE th[t].own
    <2>1. \A f \in FDs : f # ProcOf[t] => owner[f] = "none"
      BY <1>0, <1>3, <1>6, <1>8 DEF LockInv, OwnerInv, Exclusive
    <2>2. ~th[u].own
      BY <1>2, <1>3, <1>6, <2>1
    <2>3. Reads(th[u].req)
      BY <1>3, <1>4, <1>5, <2>1, <2>2
    <2>4. prof[u] = "sh" /\ prof[ProcOf[t]] = "ex"
      BY <1>0, <1>1, <1>8, <2>2, <2>3 DEF LockInv, FlockInv, Mode
    <2> QED
      BY <1>0, <1>3, <2>4 DEF LockInv, FlockInv, Exclusive
  <1>9. CASE ~th[t].own
    <2>1. prof[t] = "ex" /\ owner[t] \in {"sh", "ex"}
      BY <1>0, <1>1, <1>4, <1>5, <1>7, <1>9 DEF LockInv, FlockInv
    <2>2. ~th[u].own
      BY <1>0, <1>3, <1>6, <2>1 DEF LockInv, OwnerInv, Exclusive
    <2>3. prof[u] \in {"sh", "ex"}
      BY <1>0, <1>1, <1>7, <2>2 DEF LockInv, FlockInv
    <2> QED
      BY <1>0, <1>3, <2>1, <2>3 DEF LockInv, FlockInv, Exclusive
  <1> QED
    BY <1>8, <1>9

\* No two calls overlap on the state file unless both only read it
\* (withPinnedStateLock, withMutationLock, withReadOnlyStateLock).
THEOREM WritersExcludeHolds == Spec => []WritersExclude
  <1> QED
    BY Invariance, Exclusion, PTL

\* While a process owns the profile, its own mutations are the only ones
\* (AcquireOwnership, Ownership.Close, Import).
THEOREM OwnerWritesAloneHolds == Spec => []OwnerWritesAlone
  <1>1. IInv => OwnerWritesAlone
    <2> SUFFICES ASSUME IInv, NEW p \in owned, NEW t \in Threads,
                        th[t].pc \in Inside, ~Reads(th[t].req)
                 PROVE  ProcOf[t] = p /\ th[t].own
      BY DEF OwnerWritesAlone
    <2>0. Types /\ LockInv
      BY TypeUse DEF IInv, LockInv
    <2>1. /\ p \in Procs /\ p \in FDs /\ t \in FDs /\ p # t
          /\ ProcOf[t] \in Procs /\ ProcOf[t] \in FDs
      BY <2>0, ProcsAssumption DEF Types, FDs
    <2>2. owner[p] = "ex"
      BY <2>0, <2>1 DEF LockInv, OwnerInv
    <2>3. \A f \in FDs : f # p => owner[f] = "none"
      BY <2>0, <2>1, <2>2 DEF LockInv, OwnerInv, Exclusive
    <2>4. Mutates(th[t].req) \/ th[t].req.op = "import"
      <3>1. th[t].req \in Requests
        BY <2>0 DEF LockInv, ThreadInv, Types, ThreadStates, Inside
      <3> QED
        BY <3>1, RequestKinds DEF Mutates, Reads
    <2>5. th[t].own
      BY <2>0, <2>1, <2>3, <2>4 DEF LockInv, OwnerInv
    <2>6. owner[ProcOf[t]] = "ex"
      BY <2>0, <2>1, <2>5 DEF LockInv, GateInv, OwnerInv
    <2> QED
      BY <2>1, <2>3, <2>5, <2>6
  <1> QED
    BY <1>1, Invariance, PTL

-----------------------------------------------------------------------------
\* The refinement.

LEMMA DataInit == Init => DataInv
  <1> SUFFICES ASSUME Init, NEW t \in Threads PROVE DataOK(th[t], file)
    BY DEF DataInv
  <1>1. th[t] = IdleThread("none")
    BY DEF Init
  <1> QED
    BY <1>1 DEF IdleThread, DataOK, Waiting

\* The document a writer read stays in place until it writes: the only step
\* of another thread that replaces the file is a write.
LEMMA DataStep == ASSUME IInv, DataInv, Next PROVE DataInv'
  <1>0. th \in [Threads -> ThreadStates] /\ th' \in [Threads -> ThreadStates]
    BY TypeStep DEF IInv, TypeOK, ThreadStates, PCs
  <1>1. \A ret, f : DataOK(IdleThread(ret), f)
    BY DEF IdleThread, DataOK, Waiting
  <1>2. ASSUME NEW t \in Threads, file' = file \/ Rename(t),
               \A u \in Threads : u # t => th'[u] = th[u],
               DataOK(th'[t], file')
        PROVE  DataInv'
    <2> SUFFICES ASSUME NEW u \in Threads, u # t PROVE DataOK(th'[u], file')
      BY <1>2 DEF DataInv
    <2>1. th'[u] = th[u] /\ DataOK(th[u], file)
      BY <1>2 DEF DataInv
    <2>2. CASE file' = file
      BY <2>1, <2>2
    <2>3. CASE Rename(t)
      <3>1. th[t].pc = "write" /\ ~Reads(th[t].req)
        BY <2>3 DEF Rename, DataInv, DataOK
      <3>2. th[u].pc # "write"
        BY <3>1, Exclusion DEF WritersExclude, Inside
      <3> QED
        BY <2>1, <3>2 DEF DataOK
    <2> QED
      BY <1>2, <2>2, <2>3
  <1>3. ASSUME th' = th, file' = file PROVE DataInv'
    BY <1>3 DEF DataInv
  <1>4. ASSUME NEW t \in Threads, AcquireOwnership(t) PROVE DataInv'
    BY <1>3, <1>4 DEF AcquireOwnership
  <1>5. ASSUME NEW p \in Procs, ReleaseOwnership(p) PROVE DataInv'
    BY <1>3, <1>5 DEF ReleaseOwnership
  <1>6. ASSUME NEW t \in Threads, NEW r \in Requests, Enter(t, r) \/ EnterImport(t, r)
        PROVE  DataInv'
    <2> DEFINE new == [IdleThread("none") EXCEPT !.pc = "lock", !.req = r, !.st = "open"]
    <2>1. th' = [th EXCEPT ![t] = new] /\ file' = file
      BY <1>6 DEF Enter, EnterImport, Open
    <2>2. new.pc = "lock" /\ new.st = "open" /\ new.ret = "none"
      BY DEF IdleThread
    <2> HIDE DEF new
    <2>3. DataOK(new, file)
      BY <2>2 DEF DataOK, Waiting
    <2> QED
      BY <1>0, <1>2, <2>1, <2>3
  <1>7. ASSUME NEW t \in Threads, Refuse(t) PROVE DataInv'
    <2>1. /\ file' = file /\ \A u \in Threads : u # t => th'[u] = th[u]
          /\ th[t].pc = "idle" /\ th'[t].pc = "idle" /\ th'[t].st = th[t].st
      BY <1>0, <1>7 DEF Refuse, ThreadStates
    <2>2. DataOK(th'[t], file)
      BY <2>1 DEF DataInv, DataOK, Waiting
    <2> QED
      BY <1>2, <2>1, <2>2
  <1>8. ASSUME NEW t \in Threads,
               TakeLock(t) \/ ShareOwner(t) \/ TakeTx(t) \/ Fail(t)
        PROVE  DataInv'
    <2>1. /\ file' = file /\ \A u \in Threads : u # t => th'[u] = th[u]
          /\ th[t].pc # "idle" /\ th'[t].st = th[t].st /\ th'[t].ret = th[t].ret
          /\ th'[t].pc = "fail" \/ (th[t].pc \in Waiting /\ th'[t].pc \in Waiting)
      <3>1. CASE TakeLock(t)
        BY <1>0, <3>1 DEF TakeLock, ThreadStates, Waiting
      <3>2. CASE ShareOwner(t)
        BY <1>0, <3>2 DEF ShareOwner, Goto, ThreadStates, Waiting
      <3>3. CASE TakeTx(t)
        BY <1>0, <3>3 DEF TakeTx, ThreadStates, Waiting
      <3>4. CASE Fail(t)
        BY <1>0, <3>4 DEF Fail, Goto, ThreadStates, Waiting
      <3> QED
        BY <1>8, <3>1, <3>2, <3>3, <3>4
    <2>2. DataOK(th'[t], file)
      BY <2>1 DEF DataInv, DataOK, Waiting
    <2> QED
      BY <1>2, <2>1, <2>2
  <1>9. ASSUME NEW t \in Threads, TakeProf(t) PROVE DataInv'
    <2>1. /\ file' = file /\ \A u \in Threads : u # t => th'[u] = th[u]
          /\ th[t].pc = "prof" /\ th'[t].st = th[t].st /\ th'[t].ret = th[t].ret
          /\ th'[t].req = th[t].req
          /\ th'[t].pc = IF th[t].req.op = "import" THEN "write" ELSE "read"
      BY <1>0, <1>9 DEF TakeProf, ThreadStates
    <2>2. DataOK(th'[t], file)
      BY <2>1 DEF DataInv, DataOK, Waiting, Reads, Mutates
    <2> QED
      BY <1>2, <2>1, <2>2
  <1>10. ASSUME NEW t \in Threads, ReadLocked(t) PROVE DataInv'
    <2> DEFINE idle == Reads(th[t].req)
                         \/ (th[t].req.op = "delete" /\ file[th[t].req.e] = Absent)
    <2>1. /\ file' = file /\ \A u \in Threads : u # t => th'[u] = th[u]
          /\ th[t].pc = "read" /\ th'[t].doc = file /\ th'[t].ret = th[t].ret
          /\ th'[t].req = th[t].req
          /\ th'[t].pc = IF idle THEN "done" ELSE "write"
          /\ th'[t].st = IF idle THEN "settled" ELSE th[t].st
      <3> DEFINE pc == IF idle THEN "done" ELSE "write"
                 st == IF idle THEN "settled" ELSE th[t].st
      <3>1. th' = [th EXCEPT ![t] = [[[th[t] EXCEPT !.doc = file] EXCEPT !.pc = pc]
                                      EXCEPT !.st = st]]
        BY <1>0, <1>10 DEF ReadLocked
      <3>2. file' = file /\ th[t].pc = "read"
        BY <1>10 DEF ReadLocked
      <3> HIDE DEF pc, st
      <3>3. /\ \A u \in Threads : u # t => th'[u] = th[u]
            /\ th'[t].doc = file /\ th'[t].ret = th[t].ret
            /\ th'[t].req = th[t].req /\ th'[t].pc = pc /\ th'[t].st = st
        BY <1>0, <3>1 DEF ThreadStates
      <3> QED
        BY <3>2, <3>3 DEF pc, st
    <2>2. DataOK(th'[t], file)
      <3>1. DataOK(th[t], file)
        BY DEF DataInv
      <3>2. CASE idle
        <4>1. th'[t].pc = "done" /\ th'[t].st = "settled" /\ th'[t].ret = "none"
          BY <2>1, <3>1, <3>2 DEF DataOK
        <4> QED
          BY <4>1 DEF DataOK, Waiting
      <3>3. CASE ~idle
        <4>1. /\ th'[t].pc = "write" /\ th'[t].st = "open" /\ th'[t].ret = "none"
              /\ ~Reads(th'[t].req) /\ th'[t].doc = file
              /\ th'[t].req.op = "delete" => file[th'[t].req.e] # Absent
          BY <2>1, <3>1, <3>3 DEF DataOK
        <4> QED
          BY <4>1 DEF DataOK, Waiting
      <3> QED
        BY <3>2, <3>3
    <2> QED
      BY <1>2, <2>1, <2>2
  <1>11. ASSUME NEW t \in Threads, Rename(t) PROVE DataInv'
    <2>1. /\ \A u \in Threads : u # t => th'[u] = th[u]
          /\ th[t].pc = "write" /\ th'[t].pc = "renamed" /\ th'[t].st = "applied"
          /\ th'[t].ret = th[t].ret
      BY <1>0, <1>11 DEF Rename, ThreadStates
    <2>2. DataOK(th'[t], file')
      BY <2>1 DEF DataInv, DataOK, Waiting
    <2> QED
      BY <1>2, <1>11, <2>1, <2>2
  <1>12. ASSUME NEW t \in Threads, SyncDir(t) PROVE DataInv'
    <2>1. /\ file' = file /\ \A u \in Threads : u # t => th'[u] = th[u]
          /\ th[t].pc = "renamed" /\ th'[t].pc = "done" /\ th'[t].st = "settled"
          /\ th'[t].ret = th[t].ret
      BY <1>0, <1>12 DEF SyncDir, ThreadStates
    <2>2. DataOK(th'[t], file)
      BY <2>1 DEF DataInv, DataOK, Waiting
    <2> QED
      BY <1>2, <2>1, <2>2
  <1>13. ASSUME NEW t \in Threads, Unlock(t) PROVE DataInv'
    <2>1. file' = file /\ \A u \in Threads : u # t => th'[u] = th[u]
      BY <1>0, <1>13 DEF Unlock
    <2>2. CASE th[t].req.op = "import"
      <3>1. /\ th'[t].st = th[t].st /\ th'[t].ret = th[t].ret
            /\ th'[t].pc = IF th[t].pc = "done" THEN "close" ELSE "closeFailed"
            /\ th[t].pc \in {"done", "fail"}
        BY <1>0, <1>13, <2>2 DEF Unlock, ThreadStates
      <3>2. DataOK(th'[t], file)
        BY <3>1 DEF DataInv, DataOK, Waiting
      <3> QED
        BY <1>2, <2>1, <3>2
    <2>3. CASE th[t].req.op # "import"
      <3>1. th'[t] = IdleThread(IF th[t].pc = "done" THEN "ok" ELSE "err")
        BY <1>0, <1>13, <2>3 DEF Unlock
      <3> QED
        BY <1>1, <1>2, <2>1, <3>1
    <2> QED
      BY <2>2, <2>3
  <1>14. ASSUME NEW t \in Threads, CloseImport(t) PROVE DataInv'
    <2>1. file' = file /\ \A u \in Threads : u # t => th'[u] = th[u]
      BY <1>0, <1>14 DEF CloseImport
    <2>2. th'[t] = IdleThread("ok") \/ th'[t] = IdleThread("err")
      BY <1>0, <1>14 DEF CloseImport
    <2> QED
      BY <1>1, <1>2, <2>1, <2>2
  <1>15. ASSUME NEW p \in Procs, Crash(p) PROVE DataInv'
    <2>1. file' = file /\ \A u \in Threads : th'[u] \in {th[u], IdleThread("none")}
      BY <1>15 DEF Crash, Die
    <2> QED
      BY <1>1, <2>1 DEF DataInv
  <1>16. CASE PowerLoss
    <2>1. \A u \in Threads : th'[u] = IdleThread("none")
      BY <1>16, ProcsAssumption DEF PowerLoss, Die, FDs
    <2> QED
      BY <1>1, <2>1 DEF DataInv
  <1> QED
    BY <1>4, <1>5, <1>6, <1>7, <1>8, <1>9, <1>10, <1>11, <1>12, <1>13, <1>14, <1>15, <1>16
       DEF Next, Advance

\* The mapped state: its calls and its outcomes.
Calls == [u \in Threads |-> OpenCall(th[u])]
Rets == [u \in Threads |-> th[u].ret]

\* A step of one thread changes one call.
LEMMA MapUpdate ==
    ASSUME NEW t \in Threads, \A u \in Threads : u # t => th'[u] = th[u]
    PROVE  /\ Calls' = [Calls EXCEPT ![t] = OpenCall(th'[t])]
           /\ Rets' = [Rets EXCEPT ![t] = th'[t].ret]
BY DEF Calls, Rets

\* A step that changes no open call, document or outcome is a stutter.
LEMMA MapStutter ==
    ASSUME UNCHANGED <<file, media>>,
           \A u \in Threads : OpenCall(th'[u]) = OpenCall(th[u]) /\ th'[u].ret = th[u].ret
    PROVE  UNCHANGED Promise!avars
  <1>1. Calls' = Calls /\ Rets' = Rets
    BY DEF Calls, Rets
  <1> QED
    BY <1>1 DEF Promise!avars, Calls, Rets

\* What a call looks like from outside.
LEMMA OpenCallFields ==
    ASSUME NEW r
    PROVE  /\ r.pc = "idle" => OpenCall(r) = Promise!NoCall
           /\ r.pc # "idle" =>
                 OpenCall(r) =
                   [req |-> r.req, st |-> r.st,
                    got |-> IF Reads(r.req) /\ r.st # "open" THEN r.doc ELSE EmptyDocument]
BY DEF OpenCall, Promise!NoCall

LEMMA NotNoCall ==
    ASSUME NEW req, NEW st, NEW got, st # "none"
    PROVE  [req |-> req, st |-> st, got |-> got] # Promise!NoCall
  <1>1. [req |-> req, st |-> st, got |-> got].st = st /\ Promise!NoCall.st = "none"
    BY DEF Promise!NoCall
  <1> QED
    BY <1>1

\* A thread's step that leaves its document, its request, its effect and its
\* outcome alone is a stutter.
LEMMA InnerStutter ==
    ASSUME NEW t \in Threads, UNCHANGED <<file, media>>,
           \A u \in Threads : u # t => th'[u] = th[u],
           th[t].pc # "idle", th'[t].pc # "idle",
           th'[t].req = th[t].req, th'[t].st = th[t].st, th'[t].ret = th[t].ret,
           Reads(th[t].req) /\ th[t].st # "open" => th'[t].doc = th[t].doc
    PROVE  UNCHANGED Promise!avars
  <1>1. OpenCall(th'[t]) = OpenCall(th[t])
    BY OpenCallFields
  <1>2. \A u \in Threads : OpenCall(th'[u]) = OpenCall(th[u]) /\ th'[u].ret = th[u].ret
    BY <1>1
  <1> QED
    BY <1>2, MapStutter

\* Every step of the store is a step of the durable map, or a stutter.
LEMMA RefineStep ==
    ASSUME IInv, DataInv, Next
    PROVE  Promise!Next \/ UNCHANGED Promise!avars
  <1> DEFINE Goal == Promise!Next \/ UNCHANGED Promise!avars
  <1>0. /\ th \in [Threads -> ThreadStates] /\ th' \in [Threads -> ThreadStates]
        /\ file \in Docs
    BY TypeStep DEF IInv, TypeOK, ThreadStates, PCs
  <1>1. \A t \in Threads : DataOK(th[t], file)
    BY DEF DataInv
  <1>2. \A t \in Threads : Calls[t] = OpenCall(th[t]) /\ Rets[t] = th[t].ret
    BY DEF Calls, Rets
  <1>3. EmptyDocument = Promise!Empty
    BY DEF EmptyDocument, Promise!Empty
  <1>4. ASSUME th' = th, UNCHANGED <<file, media>> PROVE Goal
    BY <1>4, MapStutter
  <1>5. ASSUME NEW t \in Threads, NEW r \in Requests, Enter(t, r) \/ EnterImport(t, r)
        PROVE  Goal
    <2> DEFINE new == [IdleThread("none") EXCEPT !.pc = "lock", !.req = r, !.st = "open"]
    <2>1. /\ th' = [th EXCEPT ![t] = new] /\ UNCHANGED <<file, media>>
          /\ th[t].pc = "idle"
      BY <1>5 DEF Enter, EnterImport, Open
    <2>2. new.pc = "lock" /\ new.st = "open" /\ new.ret = "none" /\ new.req = r
      BY DEF IdleThread
    <2> HIDE DEF new
    <2>3. OpenCall(new) = [req |-> r, st |-> "open", got |-> Promise!Empty]
      BY <1>3, <2>2, OpenCallFields
    <2>4. th'[t] = new /\ \A u \in Threads : u # t => th'[u] = th[u]
      BY <1>0, <2>1
    <2>5. /\ Calls' = [Calls EXCEPT ![t] = [req |-> r, st |-> "open", got |-> Promise!Empty]]
          /\ Rets' = [Rets EXCEPT ![t] = "none"]
      BY <2>2, <2>3, <2>4, MapUpdate
    <2>6. Calls[t] = Promise!NoCall
      BY <1>2, <2>1, OpenCallFields
    <2>7. Promise!Invoke(t)
      BY <2>1, <2>5, <2>6 DEF Promise!Invoke, Calls, Rets
    <2> QED
      BY <2>7 DEF Promise!Next
  <1>6. ASSUME NEW t \in Threads, Refuse(t) PROVE Goal
    <2>1. /\ UNCHANGED <<file, media>> /\ th[t].pc = "idle" /\ th'[t].pc = "idle"
          /\ th'[t].ret = "err" /\ \A u \in Threads : u # t => th'[u] = th[u]
      BY <1>0, <1>6 DEF Refuse, ThreadStates
    <2>2. OpenCall(th'[t]) = OpenCall(th[t]) /\ Calls[t] = Promise!NoCall
      BY <1>2, <2>1, OpenCallFields
    <2>3. Calls' = Calls /\ Rets' = [Rets EXCEPT ![t] = "err"]
      BY <2>1, <2>2, MapUpdate DEF Calls
    <2>4. Promise!Refuse(t)
      BY <2>1, <2>2, <2>3 DEF Promise!Refuse, Calls, Rets
    <2> QED
      BY <2>4 DEF Promise!Next
  <1>7. ASSUME NEW t \in Threads,
               TakeLock(t) \/ ShareOwner(t) \/ TakeTx(t) \/ TakeProf(t) \/ Fail(t)
        PROVE  Goal
    <2>1. /\ UNCHANGED <<file, media>> /\ \A u \in Threads : u # t => th'[u] = th[u]
          /\ th[t].pc # "idle" /\ th'[t].pc # "idle" /\ th'[t].req = th[t].req
          /\ th'[t].st = th[t].st /\ th'[t].ret = th[t].ret /\ th'[t].doc = th[t].doc
      <3>1. CASE TakeLock(t)
        BY <1>0, <3>1 DEF TakeLock, ThreadStates
      <3>2. CASE ShareOwner(t)
        BY <1>0, <3>2 DEF ShareOwner, Goto, ThreadStates
      <3>3. CASE TakeTx(t)
        BY <1>0, <3>3 DEF TakeTx, ThreadStates
      <3>4. CASE TakeProf(t)
        BY <1>0, <3>4 DEF TakeProf, ThreadStates
      <3>5. CASE Fail(t)
        BY <1>0, <3>5 DEF Fail, Goto, ThreadStates
      <3> QED
        BY <1>7, <3>1, <3>2, <3>3, <3>4, <3>5
    <2> QED
      BY <2>1, InnerStutter
  <1>8. ASSUME NEW t \in Threads, ReadLocked(t) PROVE Goal
    <2> DEFINE idle == Reads(th[t].req)
                         \/ (th[t].req.op = "delete" /\ file[th[t].req.e] = Absent)
               pc == IF idle THEN "done" ELSE "write"
               st == IF idle THEN "settled" ELSE th[t].st
    <2>1. th' = [th EXCEPT ![t] = [[[th[t] EXCEPT !.doc = file] EXCEPT !.pc = pc]
                                    EXCEPT !.st = st]]
      BY <1>0, <1>8 DEF ReadLocked
    <2>2. UNCHANGED <<file, media>> /\ th[t].pc = "read"
      BY <1>8 DEF ReadLocked
    <2>3. pc # "idle"
      OBVIOUS
    <2> HIDE DEF pc, st
    <2>4. /\ \A u \in Threads : u # t => th'[u] = th[u]
          /\ th'[t].doc = file /\ th'[t].ret = th[t].ret
          /\ th'[t].req = th[t].req /\ th'[t].pc = pc /\ th'[t].st = st
      BY <1>0, <2>1 DEF ThreadStates
    <2>5. th[t].st = "open" /\ th[t].ret = "none"
      BY <1>1, <2>2 DEF DataOK
    <2>6. CASE ~idle
      BY <2>2, <2>3, <2>4, <2>5, <2>6, InnerStutter DEF st
    <2>7. CASE idle
      <3> DEFINE got == IF Reads(th[t].req) THEN file ELSE EmptyDocument
      <3>1. st = "settled" /\ th[t].req \in Requests
        BY <1>0, <2>2, <2>7 DEF st, IInv, ThreadInv, ThreadStates
      <3>2. OpenCall(th'[t]) = [req |-> th[t].req, st |-> "settled", got |-> got]
        BY <2>3, <2>4, <3>1, OpenCallFields
      <3>3. Calls[t] = [req |-> th[t].req, st |-> "open", got |-> EmptyDocument]
        BY <1>2, <2>2, <2>5, OpenCallFields
      <3>4. Promise!Effect(th[t].req, file) = file
        <4>1. CASE Reads(th[t].req)
          BY <4>1 DEF Promise!Effect, Promise!Reads, Reads
        <4>2. CASE th[t].req.op = "delete" /\ file[th[t].req.e] = Absent
          <5>1. [file EXCEPT ![th[t].req.e] = Absent] = file
            BY <1>0, <4>2 DEF Docs
          <5> QED
            BY <4>2, <5>1 DEF Promise!Effect, Promise!Reads
        <4> QED
          BY <2>7, <4>1, <4>2
      <3>5. ~Promise!Writes(th[t].req, file)
        BY <2>7, <3>4 DEF Promise!Writes, Reads
      <3>6. Rets' = Rets
        BY <2>4, MapUpdate DEF Rets
      <3>7. Calls' = [Calls EXCEPT ![t] = [req |-> th[t].req, st |-> "settled", got |-> got]]
        BY <2>4, <3>2, MapUpdate
      <3>8. Calls' = [Calls EXCEPT
               ![t] = [[Calls[t] EXCEPT
                  !.st = IF Promise!Writes(Calls[t].req, file) THEN "applied" ELSE "settled"]
                  EXCEPT !.got = IF Promise!Reads(Calls[t].req) THEN file ELSE Promise!Empty]]
        <4>1. Calls[t].req = th[t].req
          BY <3>3
        <4>2. [[Calls[t] EXCEPT !.st = "settled"] EXCEPT !.got = got]
                = [req |-> th[t].req, st |-> "settled", got |-> got]
          <5> HIDE DEF got
          <5>1. [Calls[t] EXCEPT !.st = "settled"]
                  = [req |-> th[t].req, st |-> "settled", got |-> EmptyDocument]
            BY <3>3
          <5>2. [[req |-> th[t].req, st |-> "settled", got |-> EmptyDocument]
                   EXCEPT !.got = got]
                  = [req |-> th[t].req, st |-> "settled", got |-> got]
            OBVIOUS
          <5> QED
            BY <5>1, <5>2
        <4>3. got = IF Promise!Reads(Calls[t].req) THEN file ELSE Promise!Empty
          BY <1>3, <4>1 DEF Reads, Promise!Reads
        <4> QED
          BY <3>5, <3>7, <4>1, <4>2, <4>3
      <3>9. Promise!Apply(t)
        <4>1. Calls[t].st = "open" /\ Calls[t].req = th[t].req
          BY <3>3
        <4> QED
          BY <2>2, <3>4, <3>6, <3>8, <4>1 DEF Promise!Apply, Calls, Rets
      <3> QED
        BY <3>9 DEF Promise!Next
    <2> QED
      BY <2>6, <2>7
  <1>9. ASSUME NEW t \in Threads, Rename(t) PROVE Goal
    <2> DEFINE new == [[[th[t] EXCEPT !.pc = "renamed"] EXCEPT !.st = "applied"]
                          EXCEPT !.doc = EmptyDocument]
               req == th[t].req
    <2>1. /\ th' = [th EXCEPT ![t] = new] /\ th[t].pc = "write" /\ media' = media
          /\ file' = Effect(req, th[t].doc)
      BY <1>9 DEF Rename
    <2>2. /\ th'[t].pc = "renamed" /\ th'[t].st = "applied" /\ th'[t].req = req
          /\ th'[t].ret = th[t].ret /\ \A u \in Threads : u # t => th'[u] = th[u]
      BY <1>0, <2>1 DEF ThreadStates
    <2>3. /\ ~Reads(req) /\ th[t].st = "open" /\ req \in Requests
          /\ Mutates(req) => th[t].doc = file /\ (req.op = "delete" => file[req.e] # Absent)
      BY <1>0, <1>1, <2>1 DEF DataOK, IInv, ThreadInv, ThreadStates
    <2>4. req.op \in {"save", "delete", "import"}
      BY <2>3, RequestKinds DEF Reads
    <2>5. file' = Promise!Effect(req, file)
      <3>1. CASE Mutates(req)
        BY <2>1, <2>3, <3>1 DEF Effect
      <3>2. CASE req.op = "import"
        BY <2>1, <3>2 DEF Effect, Promise!Effect, Promise!Reads
      <3> QED
        BY <2>4, <3>1, <3>2 DEF Mutates
    <2>6. Promise!Writes(req, file)
      <3>1. CASE req.op \in {"save", "import"}
        BY <3>1 DEF Promise!Writes
      <3>2. CASE req.op = "delete"
        <4>1. req.e \in Entries /\ file[req.e] # Absent
          BY <2>3, <3>2 DEF Requests, Mutates
        <4>2. Promise!Effect(req, file) = [file EXCEPT ![req.e] = Absent]
          BY <3>2 DEF Promise!Effect, Promise!Reads
        <4> QED
          BY <1>0, <4>1, <4>2 DEF Promise!Writes, Docs
      <3> QED
        BY <2>4, <3>1, <3>2
    <2> HIDE DEF req
    <2>7. OpenCall(th'[t]) = [req |-> req, st |-> "applied", got |-> EmptyDocument]
      BY <2>2, <2>3, OpenCallFields
    <2>8. Calls[t] = [req |-> req, st |-> "open", got |-> EmptyDocument]
      BY <1>2, <2>1, <2>3, OpenCallFields DEF req
    <2>9. Rets' = Rets
      BY <2>2, MapUpdate DEF Rets
    <2>10. Calls' = [Calls EXCEPT ![t] = [req |-> req, st |-> "applied", got |-> EmptyDocument]]
      BY <2>2, <2>7, MapUpdate
    <2>11. Calls' = [Calls EXCEPT
             ![t] = [[Calls[t] EXCEPT
                !.st = IF Promise!Writes(Calls[t].req, file) THEN "applied" ELSE "settled"]
                EXCEPT !.got = IF Promise!Reads(Calls[t].req) THEN file ELSE Promise!Empty]]
      <3>1. Calls[t].req = req
        BY <2>8
      <3>2. [[Calls[t] EXCEPT !.st = "applied"] EXCEPT !.got = EmptyDocument]
              = [req |-> req, st |-> "applied", got |-> EmptyDocument]
        <4>1. [Calls[t] EXCEPT !.st = "applied"]
                = [req |-> req, st |-> "applied", got |-> EmptyDocument]
          BY <2>8
        <4>2. [[req |-> req, st |-> "applied", got |-> EmptyDocument]
                 EXCEPT !.got = EmptyDocument]
                = [req |-> req, st |-> "applied", got |-> EmptyDocument]
          OBVIOUS
        <4> QED
          BY <4>1, <4>2
      <3>3. ~Promise!Reads(Calls[t].req)
        BY <2>3, <3>1 DEF Reads, Promise!Reads
      <3> QED
        BY <1>3, <2>6, <2>10, <3>1, <3>2, <3>3
    <2>12. Calls[t].st = "open" /\ Calls[t].req = req
      BY <2>8
    <2>13. Promise!Apply(t)
      BY <2>1, <2>5, <2>9, <2>11, <2>12 DEF Promise!Apply, Calls, Rets
    <2> QED
      BY <2>13 DEF Promise!Next
  <1>10. ASSUME NEW t \in Threads, SyncDir(t) PROVE Goal
    <2>1. /\ th' = [th EXCEPT ![t] = [[th[t] EXCEPT !.pc = "done"] EXCEPT !.st = "settled"]]
          /\ th[t].pc = "renamed" /\ media' = file /\ file' = file
      BY <1>10 DEF SyncDir
    <2>2. /\ th'[t].pc = "done" /\ th'[t].st = "settled" /\ th'[t].req = th[t].req
          /\ th'[t].doc = th[t].doc
          /\ th'[t].ret = th[t].ret /\ \A u \in Threads : u # t => th'[u] = th[u]
      BY <1>0, <2>1 DEF ThreadStates
    <2>3. th[t].st = "applied"
      BY <1>1, <2>1 DEF DataOK
    <2> DEFINE got == IF Reads(th[t].req) THEN th[t].doc ELSE EmptyDocument
    <2>4. Calls[t] = [req |-> th[t].req, st |-> "applied", got |-> got]
      BY <1>2, <2>1, <2>3, OpenCallFields
    <2>5. OpenCall(th'[t]) = [req |-> th[t].req, st |-> "settled", got |-> got]
      BY <2>2, OpenCallFields
    <2>6. Calls' = [Calls EXCEPT ![t] = [req |-> th[t].req, st |-> "settled", got |-> got]]
      BY <2>2, <2>5, MapUpdate
    <2> HIDE DEF got
    <2>7. Calls' = [Calls EXCEPT ![t] = [Calls[t] EXCEPT !.st = "settled"]]
      <3>1. [Calls[t] EXCEPT !.st = "settled"]
              = [req |-> th[t].req, st |-> "settled", got |-> got]
        BY <2>4
      <3> QED
        BY <2>6, <3>1
    <2>8. Rets' = Rets /\ Calls[t].st = "applied"
      BY <2>2, <2>4, MapUpdate DEF Rets
    <2>9. Promise!Settle(t)
      BY <2>1, <2>7, <2>8 DEF Promise!Settle, Calls, Rets
    <2> QED
      BY <2>9 DEF Promise!Next
  <1>11. ASSUME NEW t \in Threads, NEW ret \in {"ok", "err"},
                th' = [th EXCEPT ![t] = IdleThread(ret)], UNCHANGED <<file, media>>,
                th[t].pc # "idle", ret = "ok" => th[t].st = "settled"
         PROVE  Goal
    <2>1. /\ th'[t].pc = "idle" /\ th'[t].ret = ret
          /\ \A u \in Threads : u # t => th'[u] = th[u]
      BY <1>0, <1>11 DEF IdleThread
    <2>2. OpenCall(th'[t]) = Promise!NoCall
      BY <2>1, OpenCallFields
    <2>3. Calls' = [Calls EXCEPT ![t] = Promise!NoCall] /\ Rets' = [Rets EXCEPT ![t] = ret]
      BY <2>1, <2>2, MapUpdate
    <2>4. th[t].st # "none"
      BY <1>1, <1>11 DEF DataOK
    <2>5. Calls[t] # Promise!NoCall /\ Calls[t].st = th[t].st
      BY <1>2, <1>11, <2>4, OpenCallFields, NotNoCall
    <2>6. Promise!Return(t)
      BY <1>11, <2>3, <2>5 DEF Promise!Return, Calls, Rets
    <2> QED
      BY <2>6 DEF Promise!Next
  <1>12. ASSUME NEW t \in Threads, Unlock(t) PROVE Goal
    <2>1. UNCHANGED <<file, media>> /\ th[t].pc \in {"done", "fail"}
      BY <1>12 DEF Unlock
    <2>2. CASE th[t].req.op = "import"
      <3>1. /\ th'[t].st = th[t].st /\ th'[t].ret = th[t].ret /\ th'[t].req = th[t].req
            /\ th'[t].doc = th[t].doc
            /\ th'[t].pc # "idle" /\ \A u \in Threads : u # t => th'[u] = th[u]
        BY <1>0, <1>12, <2>2 DEF Unlock, ThreadStates
      <3> QED
        BY <2>1, <3>1, InnerStutter
    <2>3. CASE th[t].req.op # "import"
      <3> DEFINE ret == IF th[t].pc = "done" THEN "ok" ELSE "err"
      <3>1. th' = [th EXCEPT ![t] = IdleThread(ret)]
        BY <1>12, <2>3 DEF Unlock
      <3>2. ret = "ok" => th[t].st = "settled"
        BY <1>1, <2>1 DEF DataOK
      <3> QED
        BY <1>11, <2>1, <3>1, <3>2
    <2> QED
      BY <2>2, <2>3
  <1>13. ASSUME NEW t \in Threads, CloseImport(t) PROVE Goal
    <2>1. UNCHANGED <<file, media>> /\ th[t].pc # "idle"
      BY <1>13 DEF CloseImport, Closing
    <2>2. th[t].pc = "close" => th[t].st = "settled"
      BY <1>1 DEF DataOK
    <2> QED
      BY <1>11, <1>13, <2>1, <2>2 DEF CloseImport
  <1>14. ASSUME NEW P \in SUBSET Procs, Die(P)
         PROVE  \E T \in SUBSET Threads :
                  /\ T = {u \in Threads : ProcOf[u] \in P}
                  /\ Calls' = [u \in Threads |-> IF u \in T THEN Promise!NoCall ELSE Calls[u]]
                  /\ Rets' = [u \in Threads |-> IF u \in T THEN "none" ELSE Rets[u]]
    <2> DEFINE T == {u \in Threads : ProcOf[u] \in P}
    <2>1. \A u \in Threads : th'[u] = IF u \in T THEN IdleThread("none") ELSE th[u]
      BY <1>14, ProcsAssumption DEF Die, FDs
    <2>2. IdleThread("none").pc = "idle" /\ IdleThread("none").ret = "none"
      BY DEF IdleThread
    <2>3. OpenCall(IdleThread("none")) = Promise!NoCall
      BY <2>2, OpenCallFields
    <2>4. Calls' = [u \in Threads |-> IF u \in T THEN Promise!NoCall ELSE Calls[u]]
      BY <2>1, <2>3 DEF Calls
    <2>5. Rets' = [u \in Threads |-> IF u \in T THEN "none" ELSE Rets[u]]
      BY <2>1, <2>2 DEF Rets
    <2> QED
      BY <2>4, <2>5
  <1>15. ASSUME NEW p \in Procs, Crash(p) PROVE Goal
    <2>1. UNCHANGED <<file, media>> /\ \E T \in SUBSET Threads : Promise!Vanish(T)
      BY <1>14, <1>15 DEF Crash, Promise!Vanish, Calls, Rets
    <2> QED
      BY <2>1 DEF Promise!Next, Promise!Crash
  <1>16. CASE PowerLoss
    <2>1. {u \in Threads : ProcOf[u] \in Procs} = Threads
      BY ProcsAssumption
    <2>2. Promise!Vanish(Threads)
      BY <1>14, <1>16, <2>1 DEF PowerLoss, Promise!Vanish, Calls, Rets
    <2> QED
      BY <1>16, <2>2 DEF PowerLoss, Promise!Next, Promise!PowerLoss
  <1>17. ASSUME NEW t \in Threads, AcquireOwnership(t) PROVE Goal
    BY <1>4, <1>17 DEF AcquireOwnership
  <1>18. ASSUME NEW p \in Procs, ReleaseOwnership(p) PROVE Goal
    BY <1>4, <1>18 DEF ReleaseOwnership
  <1> QED
    BY <1>5, <1>6, <1>7, <1>8, <1>9, <1>10, <1>12, <1>13, <1>15, <1>16, <1>17, <1>18
       DEF Next, Advance

\* The state file, with its locks, its failures, its crashes and power loss,
\* implements a durable map from entries to payloads: no update is lost and
\* no acknowledged update is undone (Save, Delete, Load, Export, Import).
THEOREM Refinement == Spec => ImplementsEntryStore
  <1>1. Init => Promise!Init
    <2> SUFFICES ASSUME Init PROVE Promise!Init
      OBVIOUS
    <2>1. \A u \in Threads : th[u].pc = "idle" /\ th[u].ret = "none"
      BY DEF Init, IdleThread
    <2>2. Calls = [u \in Threads |-> Promise!NoCall] /\ Rets = [u \in Threads |-> "none"]
      BY <2>1, OpenCallFields DEF Calls, Rets
    <2> QED
      BY <2>2 DEF Init, Promise!Init, EmptyDocument, Promise!Empty, Calls, Rets
  <1>2. IInv /\ DataInv /\ [Next]_vars => DataInv'
    <2>1. IInv /\ DataInv /\ Next => DataInv'
      BY DataStep
    <2>2. DataInv /\ UNCHANGED vars => DataInv'
      BY DEF DataInv, vars
    <2> QED
      BY <2>1, <2>2
  <1>3. IInv /\ DataInv /\ [Next]_vars => [Promise!Next]_(Promise!avars)
    <2>1. IInv /\ DataInv /\ Next => Promise!Next \/ UNCHANGED Promise!avars
      BY RefineStep
    <2>2. UNCHANGED vars => UNCHANGED Promise!avars
      BY MapStutter DEF vars
    <2> QED
      BY <2>1, <2>2
  <1> QED
    BY <1>1, <1>2, <1>3, DataInit, Invariance, PTL DEF Spec, ImplementsEntryStore, Promise!Spec

=============================================================================

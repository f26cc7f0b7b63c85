------------------------- MODULE CloudTasks_proofs --------------------------
(***************************************************************************)
(* Proofs about Cloud Tasks for any number of tasks, names, requests and   *)
(* goroutines per name, and any choice of the disruptions.                 *)
(*                                                                         *)
(* The inductive invariant is built in layers, each proved from those      *)
(* before it: Basic (types, what a thread at a step holds, persistMu,      *)
(* Shutdown), Lists (what lists and snapshots may hold), JobOf (api.jobs), *)
(* Kept (what was answered is saved).  The rest is about names that are    *)
(* not shared: OneJob (one goroutine for a name, ever), Workers (a record  *)
(* is as its goroutine left it), Behindhand (no snapshot is older than the *)
(* state file) and CountedFirst (an attempt is saved before its request).  *)
(***************************************************************************)
EXTENDS CloudTasks, SequenceTheorems, WellFoundedInduction, TLAPS

\* What a thread may be doing, by the kind of thread it is.
ClientShape(r) ==
    \/ r.pc = "idle" /\ r.op = "none"
    \/ r.op = "createQueue" /\ r.pc \in {"persist", "save", "saved", "failed"}
    \/ r.op = "createTask" /\ r.pc \in {"persist", "save", "saved", "failed"} /\ r.t \in Tasks
    \/ r.op = "deleteTask" /\ r.pc \in {"save", "saved", "failed"} /\ r.t \in Tasks
    \/ r.op = "deleteQueue" /\ r.pc \in {"save", "saved", "failed"}
WorkerShape(r) ==
    \/ r.pc = "idle" /\ r.op = "none" /\ r.t = None
    \/ r.op = "deliver" /\ r.pc \in {"loop", "start", "exit"}
    \/ r.op = "deliver" /\ r.pc \in {"prepare", "send", "inflight"} /\ r.t \in Tasks
    \/ r.op = "deliver" /\ r.pc = "record" /\ r.t \in Tasks /\ r.out # "none"
    \/ r.op = "start" /\ r.pc \in {"persist", "save", "saved", "failed"} /\ r.t \in Tasks
    \/ r.op = "outcome" /\ r.pc \in {"save", "saved", "failed"} /\ r.t \in Tasks /\ r.out # "none"
CloserShape(r) ==
    \/ r.pc = "idle" /\ r.op = "none"
    \/ r.op = "shutdown" /\ r.pc \in {"wait", "persist", "save", "saved", "failed"}

Shape ==
    /\ \A c \in Clients : ClientShape(th[c])
    /\ \A w \in Slots : WorkerShape(th[w])
    /\ CloserShape(th[Closer])
    /\ \A p \in Callers : th[p].pc = "save" => th[p].doc \in Documents

\* persistMu excludes, a failed Save is remembered, and a dead process runs nothing.
Holds(p) ==
    th[p].pc = "save" \/ (KeepsLock(th[p].op) /\ th[p].pc \in {"saved", "failed"})
Locked ==
    /\ \A p \in Callers : Holds(p) => persistMu = p
    /\ \A p \in Callers : th[p].pc = "failed" => sick
    /\ ~up => ~sick /\ \A p \in Callers : th[p].pc = "idle"

\* Shutdown closes the API before it waits, and waits before it saves.
Closing ==
    /\ th[Closer].pc # "idle" => closed
    /\ th[Closer].pc \in {"persist", "save", "saved", "failed"} =>
          \A w \in Slots : th[w].pc = "idle"

\* Lists hold a task once, and only tasks that were created and not removed.
Distinct(l) == \A i, j \in DOMAIN l : l[i] = l[j] => i = j
Sound(l) == Distinct(l) /\ Elements(l) \subseteq created \ removed
SoundLists ==
    /\ Sound(list) /\ Sound(disk.list)
    /\ \A p \in Callers : th[p].pc = "save" => Sound(th[p].doc.list)
Histories ==
    removed \subseteq asked /\ asked \subseteq created /\ acked \subseteq created
\* What a deletion takes is out of the list, then out of the state file.
Deleting(c) ==
    /\ Gone(c) \subseteq asked
    /\ th[c].pc \in {"save", "saved"} => Gone(c) \cap Elements(list) = {}
    /\ th[c].pc = "save" => Gone(c) \cap Elements(th[c].doc.list) = {}
    /\ th[c].pc = "saved" => Gone(c) \cap Elements(disk.list) = {}
    /\ th[c].pc \in {"save", "failed"} => Sound(th[c].list)
Requesting(c) ==
    /\ th[c].op = "createTask" => th[c].t \in created
    /\ Deletes(c) => Deleting(c)
Lists == SoundLists /\ Histories /\ \A c \in Clients : Requesting(c)

\* What was saved for a createTask stays.
Creating(c) == th[c].op = "createTask"
Saved(c) == Creating(c) /\ th[c].pc = "saved"
Keeping(c) ==
    Creating(c) /\ th[c].t \notin asked =>
        /\ ~sick => th[c].t \in Elements(list)
        /\ Saved(c) => th[c].t \in Elements(disk.list)
Snapshot(p) ==
    /\ acked \ asked \subseteq Elements(th[p].doc.list)
    /\ \A c \in Clients : Creating(c) /\ (Saved(c) \/ c = p) /\ th[c].t \notin asked =>
          th[c].t \in Elements(th[p].doc.list)
Kept ==
    /\ \A t \in acked \ asked : t \in Elements(disk.list) /\ (up /\ ~sick => t \in Elements(list))
    /\ \A c \in Clients : Keeping(c)
    /\ \A p \in Callers : th[p].pc = "save" /\ ~sick => Snapshot(p)

\* The goroutine of a name is the one that is not cancelled, and a goroutine
\* whose task is removed is cancelled.
JobOf ==
    /\ \A n \in Names : jobs[n] # None =>
          jobs[n][1] = n /\ th[jobs[n]].pc # "idle" /\ ~th[jobs[n]].dead
    /\ \A w \in Slots : th[w].pc # "idle" =>
          th[w].n = w[1] /\ (~th[w].dead => jobs[w[1]] = w)
    /\ \A w \in Slots : th[w].t # None => NameOf[th[w].t] = w[1]
    /\ \A w \in Slots : th[w].t \in removed => th[w].dead

\* With a name for each task: one goroutine for a name, ever.
DistinctNames == \A t, u \in Tasks : NameOf[t] = NameOf[u] => t = u
Alive(w) == th[w].pc # "idle"
OneJob ==
    /\ \A c \in Clients : Creating(c) => th[c].t \notin acked
    /\ \A c, d \in Clients : Creating(c) /\ Creating(d) /\ th[c].t = th[d].t => c = d
    /\ \A c \in Clients : th[c].dead => closed
    /\ \A w \in Slots : Alive(w) => \E t \in acked : NameOf[t] = w[1]
    /\ \A w, v \in Slots : Alive(w) /\ Alive(v) /\ w[1] = v[1] => w = v
    /\ \A w \in Slots, t \in Tasks : th[w].dead /\ Alive(w) /\ NameOf[t] = w[1] => t \in removed

\* The record of a task that a goroutine works on is as the goroutine left it.
Working(w) ==
    \/ th[w].op = "start" /\ th[w].out # "FAILED"
    \/ th[w].pc \in {"prepare", "send", "inflight", "record"}
Follows(w) ==
    /\ th[w].t \in Elements(list) =>
          /\ Working(w) => heap[th[w].t] = [status |-> "RETRYING", attempts |-> th[w].k]
          /\ th[w].op = "start" /\ th[w].out = "FAILED" => Terminal(heap[th[w].t])
          /\ th[w].op = "outcome" => heap[th[w].t].status = th[w].out
    /\ th[w].pc = "exit" /\ ~th[w].dead /\ ~closed =>
          \A t \in Elements(list) : NameOf[t] = w[1] => Terminal(heap[t])

\* The attempts a task was created with and its requests, s of them, together;
\* what a budget m allows of them.
Spent(s, t) == GivenAttempts[t] + s[t]
Afford(s, t, m) == s[t] > 0 => Spent(s, t) <= m

\* A task is created with the attempts of its body.
Given ==
    \A c \in Clients : Creating(c) => heap[th[c].t].attempts = GivenAttempts[th[c].t]

\* What is spent for the task of a goroutine, by the step it is at.
Sending(w, t) ==
    /\ Afford(sent, t, th[w].max)
    /\ th[w].pc \in {"loop", "start"} => Spent(sent, t) <= heap[t].attempts
    /\ (th[w].op = "start" /\ th[w].out # "FAILED") \/ th[w].pc \in {"prepare", "send"} =>
          Spent(sent, t) < th[w].k /\ th[w].k <= th[w].max /\ heap[t].attempts = th[w].k
    /\ th[w].pc \in {"inflight", "record"} \/ th[w].op = "outcome" =>
          Spent(sent, t) <= th[w].k /\ th[w].k <= th[w].max /\ heap[t].attempts = th[w].k
Spends(w) == \A t \in Tasks : Alive(w) /\ NameOf[t] = w[1] => Sending(w, t)
Workers ==
    /\ ~sick => \A w \in Slots : Follows(w)
    /\ \A w \in Slots : Spends(w)
    /\ \A t \in Tasks \ acked : sent[t] = 0

\* The state file is behind memory, and so is what is being saved.
Behind(a, b) == a.attempts <= b.attempts /\ (Terminal(a) => b = a)
BehindOn(S, f, g) == \A t \in S : Behind(f[t], g[t])
Between(d) ==
    /\ BehindOn(Elements(d.list) \cap Elements(list), d.task, heap)
    /\ BehindOn(Elements(disk.list) \cap Elements(d.list), disk.task, d.task)
    /\ Elements(disk.list) \cap Elements(list) \subseteq Elements(d.list)
Behindhand ==
    ~sick =>
        /\ up => BehindOn(Elements(disk.list) \cap Elements(list), disk.task, heap)
        /\ \A p \in Callers : th[p].pc = "save" => Between(th[p].doc)

\* An attempt is counted in the state file before its request leaves.
Counted(w) ==
    \/ th[w].op = "start" /\ th[w].pc = "saved" /\ th[w].out # "FAILED"
    \/ th[w].pc \in {"prepare", "send", "inflight", "record"}
Counts(w, d) == th[w].t \in Elements(d.list) /\ d.task[th[w].t].attempts >= th[w].k
CountedFirst ==
    ~sick => \A w \in Slots : th[w].t \in Elements(list) =>
        /\ Counted(w) => Counts(w, disk)
        /\ th[w].op = "start" /\ th[w].pc = "save" /\ th[w].out # "FAILED" => Counts(w, th[w].doc)
-----------------------------------------------------------------------------
\* Facts about the data.

LEMMA MinFacts ==
    ASSUME NEW S, S \subseteq Nat, S # {}
    PROVE  Min(S) \in S /\ \A y \in S : Min(S) <= y
<1> DEFINE R == OpToRel(<, Nat)
<1>1. IsWellFoundedOn(R, Nat)
  BY NatLessThanWellFounded
<1> HIDE DEF R
<1>2. PICK x \in S : \A y \in S : ~(<<y, x>> \in R)
  BY <1>1, WFMin, Zenon
<1>3. ASSUME NEW y \in S PROVE x <= y
  <2>1. y \in Nat /\ x \in Nat
    OBVIOUS
  <2>2. y < x => <<y, x>> \in R
    BY <2>1 DEF R, OpToRel
  <2> QED BY <1>2, <2>1, <2>2
<1> QED BY <1>3 DEF Min

\* The first task with a name, if there is one.
LEMMA FindFacts ==
    ASSUME NEW l \in Seq(Tasks), NEW n
    PROVE  /\ Named(l, n) \subseteq 1..Len(l)
           /\ Find(l, n) \in Elements(l) \cup {None}
           /\ Find(l, n) # None =>
                 /\ Find(l, n) \in Elements(l) /\ NameOf[Find(l, n)] = n
                 /\ Named(l, n) # {} /\ Min(Named(l, n)) \in 1..Len(l)
                 /\ Find(l, n) = l[Min(Named(l, n))]
           /\ Find(l, n) = None => Named(l, n) = {}
           /\ Find(l, n) = None => \A t \in Elements(l) : NameOf[t] # n
           /\ Elements(l) \subseteq Tasks
<1>1. DOMAIN l = 1..Len(l) /\ Len(l) \in Nat /\ \A i \in 1..Len(l) : l[i] \in Tasks
  OBVIOUS
<1>2. Named(l, n) \subseteq 1..Len(l) /\ Elements(l) \subseteq Tasks
  BY <1>1 DEF Named, Elements
<1>3. CASE Named(l, n) = {}
  <2>1. Find(l, n) = None
    BY <1>3 DEF Find
  <2>2. \A t \in Elements(l) : NameOf[t] # n
    BY <1>3 DEF Named, Elements
  <2> QED BY <1>2, <1>3, <2>1, <2>2
<1>4. CASE Named(l, n) # {}
  <2>1. Named(l, n) \subseteq Nat
    BY <1>1, <1>2
  <2>2. Min(Named(l, n)) \in Named(l, n)
    BY <1>4, <2>1, MinFacts
  <2>3. Find(l, n) = l[Min(Named(l, n))]
    BY <1>4 DEF Find
  <2>4. NameOf[Find(l, n)] = n /\ Find(l, n) \in Elements(l) /\ Find(l, n) \in Tasks
    BY <1>1, <1>2, <2>2, <2>3 DEF Named, Elements
  <2>5. Find(l, n) # None
    BY <2>4, TasksAssumption
  <2> QED BY <1>2, <1>4, <2>2, <2>3, <2>4, <2>5
<1> QED BY <1>3, <1>4

\* Taking that task out of a list that holds it once leaves the others.
LEMMA WithoutFacts ==
    ASSUME NEW l \in Seq(Tasks), NEW n
    PROVE  /\ Without(l, n) \in Seq(Tasks)
           /\ Elements(Without(l, n)) \subseteq Elements(l)
           /\ \A t \in Elements(l) : t # Find(l, n) => t \in Elements(Without(l, n))
           /\ Distinct(l) => Distinct(Without(l, n))
           /\ Distinct(l) => Find(l, n) \notin Elements(Without(l, n))
<1>1. CASE Named(l, n) = {}
  <2>1. Without(l, n) = l /\ Find(l, n) = None
    BY <1>1 DEF Without, Find
  <2>2. None \notin Elements(l)
    BY FindFacts, TasksAssumption
  <2> QED BY <2>1, <2>2
<1>2. CASE Named(l, n) # {}
  <2> DEFINE i == Min(Named(l, n))
             m == Without(l, n)
  <2>1. i \in 1..Len(l) /\ Find(l, n) = l[i]
    <3>1. Find(l, n) # None
      BY <1>2, FindFacts
    <3> QED BY <3>1, FindFacts
  <2>2. m = [j \in 1..(Len(l) - 1) |-> l[IF j < i THEN j ELSE j + 1]]
    BY <1>2 DEF Without
  <2> HIDE DEF i, m
  <2>3. Len(l) \in Nat /\ Len(l) - 1 \in Nat /\ DOMAIN l = 1..Len(l) /\ i \in Nat
    BY <2>1
  <2>4. DOMAIN m = 1..(Len(l) - 1) /\ \A j \in 1..(Len(l) - 1) :
             (j < i => j \in 1..Len(l) /\ m[j] = l[j]) /\ (~(j < i) => j + 1 \in 1..Len(l) /\ m[j] = l[j + 1])
    BY <2>2, <2>3
  <2>5. \A j \in 1..(Len(l) - 1) : m[j] \in Tasks
    BY <2>3, <2>4
  <2>6. m \in Seq(Tasks)
    BY <2>2, <2>3, <2>5, IsASeq
  <2>7. Elements(m) \subseteq Elements(l)
    BY <2>3, <2>4 DEF Elements
  <2>8. \A t \in Elements(l) : t # Find(l, n) => t \in Elements(m)
    <3> SUFFICES ASSUME NEW j \in 1..Len(l), l[j] # l[i] PROVE l[j] \in Elements(m)
      BY <2>1, <2>3 DEF Elements
    <3>1. CASE j < i
      BY <3>1, <2>1, <2>3, <2>4 DEF Elements
    <3>2. CASE j > i
      <4>1. j - 1 \in 1..(Len(l) - 1) /\ ~(j - 1 < i) /\ (j - 1) + 1 = j
        BY <3>2, <2>1, <2>3
      <4> QED BY <4>1, <2>4 DEF Elements
    <3> QED BY <3>1, <3>2, <2>1, <2>3
  <2>9. ASSUME Distinct(l) PROVE Distinct(m)
    <3> SUFFICES ASSUME NEW a \in 1..(Len(l) - 1), NEW b \in 1..(Len(l) - 1), m[a] = m[b]
                 PROVE a = b
      BY <2>4 DEF Distinct
    <3>1. \A x, y \in 1..Len(l) : l[x] = l[y] => x = y
      BY <2>3, <2>9 DEF Distinct
    <3>2. CASE a < i /\ b < i
      BY <3>1, <3>2, <2>4
    <3>3. CASE ~(a < i) /\ ~(b < i)
      BY <3>1, <3>3, <2>4
    <3>4. CASE a < i /\ ~(b < i)
      BY <3>1, <3>4, <2>3, <2>4
    <3>5. CASE ~(a < i) /\ b < i
      BY <3>1, <3>5, <2>3, <2>4
    <3> QED BY <3>2, <3>3, <3>4, <3>5
  <2>10. ASSUME Distinct(l) PROVE l[i] \notin Elements(m)
    <3> SUFFICES ASSUME NEW a \in 1..(Len(l) - 1), m[a] = l[i] PROVE FALSE
      BY <2>4 DEF Elements
    <3>1. \A x, y \in 1..Len(l) : l[x] = l[y] => x = y
      BY <2>3, <2>10 DEF Distinct
    <3> QED BY <3>1, <2>1, <2>3, <2>4
  <2> QED BY <2>1, <2>6, <2>7, <2>8, <2>9, <2>10 DEF m
<1> QED BY <1>1, <1>2

LEMMA AppendFacts ==
    ASSUME NEW l \in Seq(Tasks), NEW t \in Tasks
    PROVE  /\ Append(l, t) \in Seq(Tasks)
           /\ Elements(Append(l, t)) = Elements(l) \cup {t}
           /\ Distinct(l) /\ t \notin Elements(l) => Distinct(Append(l, t))
<1> DEFINE m == Append(l, t)
<1>1. m \in Seq(Tasks) /\ Len(m) = Len(l) + 1 /\ m[Len(l) + 1] = t
      /\ (\A i \in 1..Len(l) : m[i] = l[i]) /\ DOMAIN m = 1..(Len(l) + 1)
  BY AppendProperties
<1>2. DOMAIN l = 1..Len(l) /\ Len(l) \in Nat
  OBVIOUS
<1> HIDE DEF m
<1>3. Elements(m) = Elements(l) \cup {t}
  <2>1. ASSUME NEW i \in 1..(Len(l) + 1) PROVE m[i] \in Elements(l) \cup {t}
    BY <1>1, <1>2 DEF Elements
  <2>2. ASSUME NEW i \in 1..Len(l) PROVE l[i] \in Elements(m)
    BY <1>1, <1>2 DEF Elements
  <2>3. t \in Elements(m)
    BY <1>1, <1>2 DEF Elements
  <2> QED BY <1>1, <1>2, <2>1, <2>2, <2>3 DEF Elements
<1>4. ASSUME Distinct(l), t \notin Elements(l) PROVE Distinct(m)
  <2>1. \A i \in 1..Len(l) : l[i] # t
    BY <1>2, <1>4 DEF Elements
  <2> QED BY <1>1, <1>2, <1>4, <2>1 DEF Distinct
<1> QED BY <1>1, <1>3, <1>4 DEF m

LEMMA EmptyFacts ==
    <<>> \in Seq(Tasks) /\ Elements(<<>>) = {} /\ Distinct(<<>>)
BY DEF Elements, Distinct

LEMMA NewTaskType == NewTask \in Records
BY DEF NewTask, Records

\* A document holds the list, and the tasks of the list as they are.
LEMMA CloneFacts ==
    ASSUME NEW q \in BOOLEAN, NEW l \in Seq(Tasks), NEW h \in [Tasks -> Records]
    PROVE  /\ CloneMetadata(q, l, h) \in Documents
           /\ CloneMetadata(q, l, h).queue = q
           /\ CloneMetadata(q, l, h).list = l
           /\ \A t \in Elements(l) : CloneMetadata(q, l, h).task[t] = h[t]
<1> DEFINE f == [t \in Tasks |-> IF t \in Elements(l) THEN h[t] ELSE NewTask]
<1>1. f \in [Tasks -> Records]
  BY NewTaskType
<1>2. \A t \in Elements(l) : f[t] = h[t]
  BY FindFacts
<1>3. CloneMetadata(q, l, h) = [queue |-> q, list |-> l, task |-> f]
  BY DEF CloneMetadata
<1> HIDE DEF f
<1> QED BY <1>1, <1>2, <1>3 DEF Documents

LEMMA MarkFacts ==
    ASSUME NEW l, NEW h \in [Tasks -> Records]
    PROVE  /\ MarkInterrupted(l, h) \in [Tasks -> Records]
           /\ \A t \in Tasks : Behind(h[t], MarkInterrupted(l, h)[t])
           /\ \A t \in Tasks : t \in Elements(l) => Terminal(MarkInterrupted(l, h)[t])
           /\ \A t \in Tasks : MarkInterrupted(l, h)[t].attempts = h[t].attempts
<1>1. ASSUME NEW r \in Records
      PROVE  LET s == [r EXCEPT !.status = "FAILED"] IN
             s \in Records /\ s.attempts = r.attempts /\ Terminal(s) /\ r.attempts \in Int
  BY DEF Records, Terminal
<1>2. \A t \in Tasks : MarkInterrupted(l, h)[t] =
         IF t \in Elements(l) /\ ~Terminal(h[t]) THEN [h[t] EXCEPT !.status = "FAILED"] ELSE h[t]
  BY DEF MarkInterrupted
<1>3. ASSUME NEW t \in Tasks
      PROVE  /\ MarkInterrupted(l, h)[t] \in Records
             /\ Behind(h[t], MarkInterrupted(l, h)[t])
             /\ t \in Elements(l) => Terminal(MarkInterrupted(l, h)[t])
             /\ MarkInterrupted(l, h)[t].attempts = h[t].attempts
  <2>0. h[t] \in Records
    OBVIOUS
  <2>1. CASE t \in Elements(l) /\ ~Terminal(h[t])
    <3>1. PICK s : s = [h[t] EXCEPT !.status = "FAILED"]
      OBVIOUS
    <3>2. MarkInterrupted(l, h)[t] = s
      BY <1>2, <2>1, <3>1
    <3>3. s \in Records /\ s.attempts = h[t].attempts /\ Terminal(s) /\ h[t].attempts \in Int
      BY <1>1, <2>0, <3>1
    <3>4. Behind(h[t], s)
      BY <2>1, <3>3 DEF Behind
    <3> QED BY <3>2, <3>3, <3>4
  <2>2. CASE ~(t \in Elements(l) /\ ~Terminal(h[t]))
    <3>1. MarkInterrupted(l, h)[t] = h[t]
      BY <1>2, <2>2
    <3>2. h[t].attempts \in Int
      BY <1>1, <2>0
    <3>3. Behind(h[t], h[t])
      BY <3>2 DEF Behind
    <3> QED BY <2>0, <2>2, <3>1, <3>3
  <2> QED BY <2>1, <2>2
<1> QED BY <1>3 DEF MarkInterrupted

LEMMA BudgetType == ASSUME NEW q \in BOOLEAN PROVE MaxAttempts(q) \in 1..100
<1>1. ASSUME NEW n \in Int PROVE NormalizedAttempts(n) \in 1..100
  BY DEF NormalizedAttempts
<1>2. (IF q THEN QueueAttempts ELSE 0) \in Int
  BY RetryAssumption
<1> QED BY <1>1, <1>2 DEF MaxAttempts

LEMMA AttemptsType == ASSUME NEW r \in Records PROVE r.attempts \in Int
BY DEF Records

LEMMA BehindSelf == ASSUME NEW r \in Records PROVE Behind(r, r)
BY AttemptsType DEF Behind

LEMMA BehindTrans ==
    ASSUME NEW a \in Records, NEW b \in Records, NEW c \in Records, Behind(a, b), Behind(b, c)
    PROVE  Behind(a, c)
BY AttemptsType DEF Behind
-----------------------------------------------------------------------------
\* What the steps do to the threads.

Only(p) == \A q \in Callers : q # p => th'[q] = th[q]
\* The fields of p other than pc, was and doc.
Unmoved(p) ==
    /\ th'[p].op = th[p].op /\ th'[p].n = th[p].n /\ th'[p].t = th[p].t
    /\ th'[p].list = th[p].list /\ th'[p].queue = th[p].queue
    /\ th'[p].max = th[p].max /\ th'[p].k = th[p].k /\ th'[p].out = th[p].out
    /\ th'[p].dead = th[p].dead

\* A thread's fields, and what replaces one of them.  The sets have names so
\* that the provers need not look into them.
Points == {"idle", "persist", "save", "saved", "failed", "loop", "start", "prepare", "send",
           "inflight", "record", "exit", "wait"}
Ops == {"none", "createQueue", "createTask", "deleteTask", "deleteQueue", "deliver", "start",
        "outcome", "shutdown"}
MaybeName == Names \cup {None}
MaybeTask == Tasks \cup {None}
TaskLists == Seq(Tasks)
Flags == BOOLEAN
MaybeDocument == Documents \cup {None}
Tallies == 0..100
Numbers == Int
Outs == {"none", "COMPLETED", "FAILED", "RETRYING"}

LEMMA ThreadsSet ==
    Threads = [pc : Points, op : Ops, n : MaybeName, t : MaybeTask, list : TaskLists,
               queue : Flags, was : Records, doc : MaybeDocument, max : Tallies, k : Numbers,
               out : Outs, dead : Flags]
  BY Zenon DEF Threads, Points, Ops, MaybeName, MaybeTask, TaskLists, Flags, MaybeDocument, Tallies, Numbers, Outs

LEMMA WithPc ==
    ASSUME NEW r \in Threads, NEW x \in Points PROVE [r EXCEPT !.pc = x] \in Threads
  BY ThreadsSet

LEMMA WithOp ==
    ASSUME NEW r \in Threads, NEW x \in Ops PROVE [r EXCEPT !.op = x] \in Threads
  BY ThreadsSet

LEMMA WithN ==
    ASSUME NEW r \in Threads, NEW x \in MaybeName PROVE [r EXCEPT !.n = x] \in Threads
  BY ThreadsSet

LEMMA WithT ==
    ASSUME NEW r \in Threads, NEW x \in MaybeTask PROVE [r EXCEPT !.t = x] \in Threads
  BY ThreadsSet

LEMMA WithList ==
    ASSUME NEW r \in Threads, NEW x \in TaskLists PROVE [r EXCEPT !.list = x] \in Threads
  BY ThreadsSet

LEMMA WithQueue ==
    ASSUME NEW r \in Threads, NEW x \in Flags PROVE [r EXCEPT !.queue = x] \in Threads
  BY ThreadsSet

LEMMA WithWas ==
    ASSUME NEW r \in Threads, NEW x \in Records PROVE [r EXCEPT !.was = x] \in Threads
  BY ThreadsSet

LEMMA WithDoc ==
    ASSUME NEW r \in Threads, NEW x \in MaybeDocument PROVE [r EXCEPT !.doc = x] \in Threads
  BY ThreadsSet

LEMMA WithMax ==
    ASSUME NEW r \in Threads, NEW x \in Tallies PROVE [r EXCEPT !.max = x] \in Threads
  BY ThreadsSet

LEMMA WithK ==
    ASSUME NEW r \in Threads, NEW x \in Numbers PROVE [r EXCEPT !.k = x] \in Threads
  BY ThreadsSet

LEMMA WithOut ==
    ASSUME NEW r \in Threads, NEW x \in Outs PROVE [r EXCEPT !.out = x] \in Threads
  BY ThreadsSet

LEMMA WithDead ==
    ASSUME NEW r \in Threads, NEW x \in Flags PROVE [r EXCEPT !.dead = x] \in Threads
  BY ThreadsSet

LEMMA IdleType == Idle \in Threads
BY NewTaskType, EmptyFacts DEF Idle, Threads

LEMMA IdleFields ==
    Idle.pc = "idle" /\ Idle.op = "none" /\ Idle.t = None /\ ~Idle.dead /\ Idle.out = "none"
BY DEF Idle

LEMMA GotoEffect ==
    ASSUME TypeOK, NEW p \in Callers, NEW x \in {"exit", "start", "send", "inflight", "loop", "persist"},
           Goto(p, x)
    PROVE  /\ th' \in [Callers -> Threads] /\ Only(p) /\ Unmoved(p)
           /\ th'[p].pc = x /\ th'[p].doc = th[p].doc
<1>1. th \in [Callers -> Threads] /\ th[p] \in Threads
  BY DEF TypeOK
<1>2. PICK r : r = [th[p] EXCEPT !.pc = x]
  OBVIOUS
<1>3. r \in Threads
  BY <1>1, <1>2, WithPc DEF Points
<1>4. r.pc = x /\ r.doc = th[p].doc /\ r.op = th[p].op /\ r.n = th[p].n /\ r.t = th[p].t
      /\ r.list = th[p].list /\ r.queue = th[p].queue
      /\ r.max = th[p].max /\ r.k = th[p].k /\ r.out = th[p].out /\ r.dead = th[p].dead
  BY <1>1, <1>2 DEF Threads
<1>5. th' = [th EXCEPT ![p] = r]
  BY <1>1, <1>2 DEF Goto
<1>6. th' \in [Callers -> Threads] /\ Only(p) /\ th'[p] = r
  BY <1>1, <1>3, <1>5 DEF Only
<1> QED BY <1>4, <1>6 DEF Unmoved

LEMMA IdleEffect ==
    ASSUME TypeOK, NEW p \in Callers, th' = [th EXCEPT ![p] = Idle]
    PROVE  th' \in [Callers -> Threads] /\ Only(p) /\ th'[p] = Idle
BY IdleType DEF TypeOK, Only

LEMMA StatusType ==
    ASSUME NEW h \in [Tasks -> Records], NEW t \in Tasks, NEW o \in {"COMPLETED", "FAILED", "RETRYING"}
    PROVE  [h EXCEPT ![t].status = o] \in [Tasks -> Records]
<1>1. PICK r : r = [h[t] EXCEPT !.status = o]
  OBVIOUS
<1>2. r \in Records
  BY <1>1 DEF Records
<1>3. [h EXCEPT ![t].status = o] = [h EXCEPT ![t] = r]
  BY <1>1
<1> QED BY <1>2, <1>3

LEMMA PcType ==
    ASSUME NEW r \in Threads, NEW x \in {"exit", "prepare"}
    PROVE  [r EXCEPT !.pc = x] \in Threads
BY DEF Threads

LEMMA Replace ==
    ASSUME TypeOK, NEW p \in Callers, NEW r \in Threads, th' = [th EXCEPT ![p] = r]
    PROVE  th' \in [Callers -> Threads] /\ Only(p) /\ th'[p] = r
BY DEF TypeOK, Only

LEMMA PersistEffect ==
    ASSUME TypeOK, NEW p \in Callers, PersistMetadata(p)
    PROVE  /\ th' \in [Callers -> Threads] /\ Only(p)
           /\ th'[p].pc = "save" /\ th'[p].doc = CloneMetadata(queue, list, heap)
           /\ th'[p].op = th[p].op /\ th'[p].n = th[p].n /\ th'[p].t = th[p].t
           /\ th'[p].list = th[p].list /\ th'[p].queue = th[p].queue
           /\ th'[p].max = th[p].max /\ th'[p].k = th[p].k /\ th'[p].out = th[p].out
           /\ th'[p].dead = th[p].dead
<1>1. th \in [Callers -> Threads] /\ p \in Callers /\ th[p] \in Threads
  BY DEF TypeOK, Callers
<1>a. CloneMetadata(queue, list, heap) \in Documents
  BY CloneFacts DEF TypeOK
<1>2. PICK r : r = [th[p] EXCEPT !.pc = "save", !.doc = CloneMetadata(queue, list, heap)]
  OBVIOUS
<1>3. r \in Threads
  <2>1. PICK r0 : r0 = [th[p] EXCEPT !.pc = "save"]
    OBVIOUS
  <2>2. r0 \in Threads
    BY <1>1, <1>a, <2>1, WithPc DEF Points
  <2>3. PICK r1 : r1 = [r0 EXCEPT !.doc = CloneMetadata(queue, list, heap)]
    OBVIOUS
  <2>4. r1 \in Threads
    BY <2>2, <1>a, <2>3, WithDoc DEF MaybeDocument
  <2> QED BY <1>2, <2>1, <2>3, <2>4
<1>4. /\ r.pc = "save" /\ r.doc = CloneMetadata(queue, list, heap) /\ r.op = th[p].op
      /\ r.n = th[p].n /\ r.t = th[p].t /\ r.list = th[p].list /\ r.queue = th[p].queue
      /\ r.max = th[p].max /\ r.k = th[p].k /\ r.out = th[p].out /\ r.dead = th[p].dead
  BY <1>1, <1>2 DEF Threads
<1>5. th' = [th EXCEPT ![p] = r]
  BY <1>1, <1>2, <1>a DEF PersistMetadata
<1> QED BY <1>1, <1>3, <1>4, <1>5, Replace

LEMMA SaveOkEffect ==
    ASSUME TypeOK, NEW p \in Callers, SaveOk(p)
    PROVE  /\ th' \in [Callers -> Threads] /\ Only(p)
           /\ th'[p].pc = "saved" /\ th'[p].doc = None /\ th'[p].op = th[p].op
           /\ th'[p].n = th[p].n /\ th'[p].t = th[p].t /\ th'[p].list = th[p].list
           /\ th'[p].queue = th[p].queue /\ th'[p].max = th[p].max /\ th'[p].k = th[p].k
           /\ th'[p].out = th[p].out /\ th'[p].dead = th[p].dead
<1>1. th \in [Callers -> Threads] /\ p \in Callers /\ th[p] \in Threads
  BY DEF TypeOK, Callers
<1>2. PICK r : r = [th[p] EXCEPT !.pc = "saved", !.doc = None]
  OBVIOUS
<1>3. r \in Threads
  <2>1. PICK r0 : r0 = [th[p] EXCEPT !.pc = "saved"]
    OBVIOUS
  <2>2. r0 \in Threads
    BY <1>1, <2>1, WithPc DEF Points
  <2>3. PICK r1 : r1 = [r0 EXCEPT !.doc = None]
    OBVIOUS
  <2>4. r1 \in Threads
    BY <2>2, <2>3, WithDoc DEF MaybeDocument
  <2> QED BY <1>2, <2>1, <2>3, <2>4
<1>4. /\ r.pc = "saved" /\ r.doc = None /\ r.op = th[p].op /\ r.n = th[p].n /\ r.t = th[p].t
      /\ r.list = th[p].list /\ r.queue = th[p].queue /\ r.max = th[p].max /\ r.k = th[p].k
      /\ r.out = th[p].out /\ r.dead = th[p].dead
  BY <1>1, <1>2 DEF Threads
<1>5. th' = [th EXCEPT ![p] = r]
  BY <1>1, <1>2 DEF SaveOk
<1> QED BY <1>1, <1>3, <1>4, <1>5, Replace

LEMMA SaveFailsEffect ==
    ASSUME TypeOK, NEW p \in Callers, SaveFails(p)
    PROVE  /\ th' \in [Callers -> Threads] /\ Only(p)
           /\ th'[p].pc = "failed" /\ th'[p].doc = None /\ th'[p].op = th[p].op
           /\ th'[p].n = th[p].n /\ th'[p].t = th[p].t /\ th'[p].list = th[p].list
           /\ th'[p].queue = th[p].queue /\ th'[p].max = th[p].max /\ th'[p].k = th[p].k
           /\ th'[p].out = th[p].out /\ th'[p].dead = th[p].dead
<1>1. th \in [Callers -> Threads] /\ p \in Callers /\ th[p] \in Threads
  BY DEF TypeOK, Callers
<1>2. PICK r : r = [th[p] EXCEPT !.pc = "failed", !.doc = None]
  OBVIOUS
<1>3. r \in Threads
  <2>1. PICK r0 : r0 = [th[p] EXCEPT !.pc = "failed"]
    OBVIOUS
  <2>2. r0 \in Threads
    BY <1>1, <2>1, WithPc DEF Points
  <2>3. PICK r1 : r1 = [r0 EXCEPT !.doc = None]
    OBVIOUS
  <2>4. r1 \in Threads
    BY <2>2, <2>3, WithDoc DEF MaybeDocument
  <2> QED BY <1>2, <2>1, <2>3, <2>4
<1>4. /\ r.pc = "failed" /\ r.doc = None /\ r.op = th[p].op /\ r.n = th[p].n
      /\ r.t = th[p].t /\ r.list = th[p].list /\ r.queue = th[p].queue /\ r.max = th[p].max
      /\ r.k = th[p].k /\ r.out = th[p].out /\ r.dead = th[p].dead
  BY <1>1, <1>2 DEF Threads
<1>5. th' = [th EXCEPT ![p] = r]
  BY <1>1, <1>2 DEF SaveFails
<1> QED BY <1>1, <1>3, <1>4, <1>5, Replace

LEMMA CreateQueueEffect ==
    ASSUME TypeOK, NEW c \in Clients, CreateQueue(c)
    PROVE  /\ th' \in [Callers -> Threads] /\ Only(c)
           /\ th'[c].op = "createQueue" /\ th'[c].pc = "persist" /\ th'[c].t = None
           /\ th'[c].out = "none" /\ ~th'[c].dead
<1>1. th \in [Callers -> Threads] /\ c \in Callers /\ th[c] \in Threads
  BY DEF TypeOK, Callers
<1>2. PICK r : r = [Idle EXCEPT !.op = "createQueue", !.pc = "persist"]
  OBVIOUS
<1>3. r \in Threads
  <2>1. PICK r0 : r0 = [Idle EXCEPT !.op = "createQueue"]
    OBVIOUS
  <2>2. r0 \in Threads
    BY <1>1, IdleType, <2>1, WithOp DEF Ops
  <2>3. PICK r1 : r1 = [r0 EXCEPT !.pc = "persist"]
    OBVIOUS
  <2>4. r1 \in Threads
    BY <2>2, <2>3, WithPc DEF Points
  <2> QED BY <1>2, <2>1, <2>3, <2>4
<1>4. /\ r.op = "createQueue" /\ r.pc = "persist" /\ r.t = None /\ r.out = "none" /\ ~r.dead
  BY <1>1, <1>2, IdleType, IdleFields DEF Threads
<1>5. th' = [th EXCEPT ![c] = r]
  BY <1>1, <1>2 DEF CreateQueue, Open
<1> QED BY <1>1, <1>3, <1>4, <1>5, Replace

LEMMA CreateTaskEffect ==
    ASSUME TypeOK, NEW c \in Clients, NEW t \in Tasks, CreateTask(c, t)
    PROVE  /\ th' \in [Callers -> Threads] /\ Only(c)
           /\ th'[c].op = "createTask" /\ th'[c].pc = "persist" /\ th'[c].t = t
           /\ th'[c].max = MaxAttempts(queue) /\ (th'[c].dead <=> closed)
           /\ th'[c].out = "none"
<1>1. th \in [Callers -> Threads] /\ c \in Callers /\ th[c] \in Threads
  BY DEF TypeOK, Callers
<1>a. MaxAttempts(queue) \in 0..100 /\ closed \in BOOLEAN
  BY BudgetType DEF TypeOK
<1>2. PICK r : r = [Idle EXCEPT !.op = "createTask", !.pc = "persist", !.t = t, !.max = MaxAttempts(queue), !.dead = closed]
  OBVIOUS
<1>3. r \in Threads
  <2>1. PICK r0 : r0 = [Idle EXCEPT !.op = "createTask"]
    OBVIOUS
  <2>2. r0 \in Threads
    BY IdleType, <2>1, <1>a, WithOp DEF Ops
  <2>3. PICK r1 : r1 = [r0 EXCEPT !.pc = "persist"]
    OBVIOUS
  <2>4. r1 \in Threads
    BY <2>2, <2>3, <1>a, WithPc DEF Points
  <2>5. PICK r2 : r2 = [r1 EXCEPT !.t = t]
    OBVIOUS
  <2>6. r2 \in Threads
    BY <2>4, <2>5, <1>a, WithT DEF MaybeTask
  <2>7. PICK r3 : r3 = [r2 EXCEPT !.max = MaxAttempts(queue)]
    OBVIOUS
  <2>8. r3 \in Threads
    BY <2>6, <2>7, <1>a, WithMax DEF Tallies
  <2>9. PICK r4 : r4 = [r3 EXCEPT !.dead = closed]
    OBVIOUS
  <2>10. r4 \in Threads
    BY <2>8, <2>9, <1>a, WithDead DEF Flags
  <2> QED BY <1>2, <2>1, <2>3, <2>5, <2>7, <2>9, <2>10
<1>4. /\ r.op = "createTask" /\ r.pc = "persist" /\ r.t = t /\ r.max = MaxAttempts(queue)
      /\ (r.dead <=> closed) /\ r.out = "none"
  BY <1>1, <1>2, IdleType, IdleFields DEF Threads
<1>5. th' = [th EXCEPT ![c] = r]
  BY <1>1, <1>2, <1>a DEF CreateTask, Open
<1> QED BY <1>1, <1>3, <1>4, <1>5, Replace

LEMMA DeleteTaskEffect ==
    ASSUME TypeOK, NEW c \in Clients, NEW n \in Names, DeleteTask(c, n)
    PROVE  /\ th' \in [Callers -> Threads] /\ Only(c)
           /\ th'[c].op = "deleteTask" /\ th'[c].pc = "save" /\ th'[c].n = n
           /\ th'[c].t = Find(list, n) /\ th'[c].list = list
           /\ th'[c].doc = CloneMetadata(queue, Without(list, n), heap)
           /\ th'[c].out = "none" /\ ~th'[c].dead
<1>1. th \in [Callers -> Threads] /\ c \in Callers /\ th[c] \in Threads
  BY DEF TypeOK, Callers
<1>a. Find(list, n) \in Tasks /\ list \in Seq(Tasks)
  BY FindFacts DEF TypeOK, DeleteTask
<1>b. CloneMetadata(queue, Without(list, n), heap) \in Documents
  BY CloneFacts, WithoutFacts DEF TypeOK
<1>2. PICK r : r = [Idle EXCEPT !.op = "deleteTask", !.pc = "save", !.n = n, !.t = Find(list, n), !.list = list, !.doc = CloneMetadata(queue, Without(list, n), heap)]
  OBVIOUS
<1>3. r \in Threads
  <2>1. PICK r0 : r0 = [Idle EXCEPT !.op = "deleteTask"]
    OBVIOUS
  <2>2. r0 \in Threads
    BY <1>1, <1>a, <1>b, IdleType, <2>1, WithOp DEF Ops
  <2>3. PICK r1 : r1 = [r0 EXCEPT !.pc = "save"]
    OBVIOUS
  <2>4. r1 \in Threads
    BY <2>2, <1>a, <1>b, <2>3, WithPc DEF Points
  <2>5. PICK r2 : r2 = [r1 EXCEPT !.n = n]
    OBVIOUS
  <2>6. r2 \in Threads
    BY <2>4, <1>a, <1>b, <2>5, WithN DEF MaybeName
  <2>7. PICK r3 : r3 = [r2 EXCEPT !.t = Find(list, n)]
    OBVIOUS
  <2>8. r3 \in Threads
    BY <2>6, <1>a, <1>b, <2>7, WithT DEF MaybeTask
  <2>9. PICK r4 : r4 = [r3 EXCEPT !.list = list]
    OBVIOUS
  <2>10. r4 \in Threads
    BY <2>8, <1>a, <1>b, <2>9, WithList DEF TaskLists
  <2>11. PICK r5 : r5 = [r4 EXCEPT !.doc = CloneMetadata(queue, Without(list, n), heap)]
    OBVIOUS
  <2>12. r5 \in Threads
    BY <2>10, <1>a, <1>b, <2>11, WithDoc DEF MaybeDocument
  <2> QED BY <1>2, <2>1, <2>3, <2>5, <2>7, <2>9, <2>11, <2>12
<1>4. /\ r.op = "deleteTask" /\ r.pc = "save" /\ r.n = n /\ r.t = Find(list, n)
      /\ r.list = list /\ r.doc = CloneMetadata(queue, Without(list, n), heap)
      /\ r.out = "none" /\ ~r.dead
  BY <1>1, <1>2, IdleType, IdleFields DEF Threads
<1>5. th' = [th EXCEPT ![c] = r]
  BY <1>1, <1>2, <1>a, <1>b DEF DeleteTask, Open
<1> QED BY <1>1, <1>3, <1>4, <1>5, Replace

LEMMA DeleteQueueEffect ==
    ASSUME TypeOK, NEW c \in Clients, DeleteQueue(c)
    PROVE  /\ th' \in [Callers -> Threads] /\ Only(c)
           /\ th'[c].op = "deleteQueue" /\ th'[c].pc = "save" /\ th'[c].queue = queue
           /\ th'[c].list = list /\ th'[c].doc = CloneMetadata(FALSE, <<>>, heap)
           /\ th'[c].t = None /\ th'[c].out = "none" /\ ~th'[c].dead
<1>1. th \in [Callers -> Threads] /\ c \in Callers /\ th[c] \in Threads
  BY DEF TypeOK, Callers
<1>a. queue \in BOOLEAN /\ list \in Seq(Tasks)
  BY DEF TypeOK
<1>b. CloneMetadata(FALSE, <<>>, heap) \in Documents
  BY CloneFacts, EmptyFacts DEF TypeOK
<1>2. PICK r : r = [Idle EXCEPT !.op = "deleteQueue", !.pc = "save", !.queue = queue, !.list = list, !.doc = CloneMetadata(FALSE, <<>>, heap)]
  OBVIOUS
<1>3. r \in Threads
  <2>1. PICK r0 : r0 = [Idle EXCEPT !.op = "deleteQueue"]
    OBVIOUS
  <2>2. r0 \in Threads
    BY IdleType, <2>1, <1>a, <1>b, WithOp DEF Ops
  <2>3. PICK r1 : r1 = [r0 EXCEPT !.pc = "save"]
    OBVIOUS
  <2>4. r1 \in Threads
    BY <2>2, <2>3, <1>a, <1>b, WithPc DEF Points
  <2>5. PICK r2 : r2 = [r1 EXCEPT !.queue = queue]
    OBVIOUS
  <2>6. r2 \in Threads
    BY <2>4, <2>5, <1>a, <1>b, WithQueue DEF Flags
  <2>7. PICK r3 : r3 = [r2 EXCEPT !.list = list]
    OBVIOUS
  <2>8. r3 \in Threads
    BY <2>6, <2>7, <1>a, <1>b, WithList DEF TaskLists
  <2>9. PICK r4 : r4 = [r3 EXCEPT !.doc = CloneMetadata(FALSE, <<>>, heap)]
    OBVIOUS
  <2>10. r4 \in Threads
    BY <2>8, <2>9, <1>a, <1>b, WithDoc DEF MaybeDocument
  <2> QED BY <1>2, <2>1, <2>3, <2>5, <2>7, <2>9, <2>10
<1>4. /\ r.op = "deleteQueue" /\ r.pc = "save" /\ r.queue = queue /\ r.list = list
      /\ r.doc = CloneMetadata(FALSE, <<>>, heap) /\ r.t = None /\ r.out = "none" /\ ~r.dead
  BY <1>1, <1>2, IdleType, IdleFields DEF Threads
<1>5. th' = [th EXCEPT ![c] = r]
  BY <1>1, <1>2, <1>a, <1>b DEF DeleteQueue, Open
<1> QED BY <1>1, <1>3, <1>4, <1>5, Replace

LEMMA AttemptStartedEffect ==
    ASSUME TypeOK, NEW w \in Slots, AttemptStarted(w), NEW x \in {"exit", "prepare"},
           x = IF th[w].out = "FAILED" THEN "exit" ELSE "prepare"
    PROVE  /\ th' \in [Callers -> Threads] /\ Only(w)
           /\ th'[w].op = "deliver" /\ th'[w].pc = x /\ th'[w].doc = th[w].doc
           /\ th'[w].n = th[w].n /\ th'[w].t = th[w].t /\ th'[w].list = th[w].list
           /\ th'[w].queue = th[w].queue /\ th'[w].max = th[w].max /\ th'[w].k = th[w].k
           /\ th'[w].out = th[w].out /\ th'[w].dead = th[w].dead
<1>1. th \in [Callers -> Threads] /\ w \in Callers /\ th[w] \in Threads
  BY DEF TypeOK, Callers
<1>2. PICK r : r = [th[w] EXCEPT !.op = "deliver", !.was = NewTask, !.pc = x]
  OBVIOUS
<1>3. r \in Threads
  <2>1. PICK r0 : r0 = [th[w] EXCEPT !.op = "deliver"]
    OBVIOUS
  <2>2. r0 \in Threads
    BY <1>1, <2>1, WithOp DEF Ops
  <2>3. PICK r1 : r1 = [r0 EXCEPT !.was = NewTask]
    OBVIOUS
  <2>4. r1 \in Threads
    BY <2>2, <2>3, NewTaskType, WithWas
  <2>5. PICK r2 : r2 = [r1 EXCEPT !.pc = x]
    OBVIOUS
  <2>6. r2 \in Threads
    BY <2>4, <2>5, PcType
  <2> QED BY <1>2, <2>1, <2>3, <2>5, <2>6
<1>4. /\ r.op = "deliver" /\ r.pc = x /\ r.doc = th[w].doc /\ r.n = th[w].n /\ r.t = th[w].t
      /\ r.list = th[w].list /\ r.queue = th[w].queue /\ r.max = th[w].max /\ r.k = th[w].k
      /\ r.out = th[w].out /\ r.dead = th[w].dead
  BY <1>1, <1>2 DEF Threads
<1>5. th' = [th EXCEPT ![w] = r]
  BY <1>1, <1>2 DEF AttemptStarted
<1> QED BY <1>1, <1>3, <1>4, <1>5, Replace

LEMMA AttemptNotStartedEffect ==
    ASSUME TypeOK, NEW w \in Slots, AttemptNotStarted(w) \/ OutcomeNotRecorded(w)
    PROVE  /\ th' \in [Callers -> Threads] /\ Only(w)
           /\ th'[w].op = "deliver" /\ th'[w].pc = "exit" /\ th'[w].doc = th[w].doc
           /\ th'[w].n = th[w].n /\ th'[w].t = th[w].t /\ th'[w].list = th[w].list
           /\ th'[w].queue = th[w].queue /\ th'[w].max = th[w].max /\ th'[w].k = th[w].k
           /\ th'[w].out = th[w].out /\ th'[w].dead = th[w].dead
<1>1. th \in [Callers -> Threads] /\ w \in Callers /\ th[w] \in Threads
  BY DEF TypeOK, Callers
<1>2. PICK r : r = [th[w] EXCEPT !.op = "deliver", !.pc = "exit", !.was = NewTask]
  OBVIOUS
<1>3. r \in Threads
  <2>1. PICK r0 : r0 = [th[w] EXCEPT !.op = "deliver"]
    OBVIOUS
  <2>2. r0 \in Threads
    BY <1>1, NewTaskType, <2>1, WithOp DEF Ops
  <2>3. PICK r1 : r1 = [r0 EXCEPT !.pc = "exit"]
    OBVIOUS
  <2>4. r1 \in Threads
    BY <2>2, NewTaskType, <2>3, WithPc DEF Points
  <2>5. PICK r2 : r2 = [r1 EXCEPT !.was = NewTask]
    OBVIOUS
  <2>6. r2 \in Threads
    BY <2>4, NewTaskType, <2>5, WithWas
  <2> QED BY <1>2, <2>1, <2>3, <2>5, <2>6
<1>4. /\ r.op = "deliver" /\ r.pc = "exit" /\ r.doc = th[w].doc /\ r.n = th[w].n
      /\ r.t = th[w].t /\ r.list = th[w].list /\ r.queue = th[w].queue /\ r.max = th[w].max
      /\ r.k = th[w].k /\ r.out = th[w].out /\ r.dead = th[w].dead
  BY <1>1, <1>2 DEF Threads
<1>5. th' = [th EXCEPT ![w] = r]
  BY <1>1, <1>2 DEF AttemptNotStarted, OutcomeNotRecorded
<1> QED BY <1>1, <1>3, <1>4, <1>5, Replace

\* Prepare and Answer leave an outcome to record.
LEMMA RefusedEffect ==
    ASSUME TypeOK, NEW w \in Slots, NEW o \in {"COMPLETED", "FAILED", "RETRYING"},
           th' = [th EXCEPT ![w].pc = "record", ![w].out = o]
    PROVE  /\ th' \in [Callers -> Threads] /\ Only(w)
           /\ th'[w].pc = "record" /\ th'[w].out = o /\ th'[w].doc = th[w].doc
           /\ th'[w].op = th[w].op /\ th'[w].n = th[w].n /\ th'[w].t = th[w].t
           /\ th'[w].list = th[w].list /\ th'[w].queue = th[w].queue
           /\ th'[w].max = th[w].max /\ th'[w].k = th[w].k /\ th'[w].dead = th[w].dead
<1>1. th \in [Callers -> Threads] /\ w \in Callers /\ th[w] \in Threads
  BY DEF TypeOK, Callers
<1>2. PICK r : r = [th[w] EXCEPT !.pc = "record", !.out = o]
  OBVIOUS
<1>3. r \in Threads
  <2>1. PICK r0 : r0 = [th[w] EXCEPT !.pc = "record"]
    OBVIOUS
  <2>2. r0 \in Threads
    BY <1>1, <2>1, WithPc DEF Points
  <2>3. PICK r1 : r1 = [r0 EXCEPT !.out = o]
    OBVIOUS
  <2>4. r1 \in Threads
    BY <2>2, <2>3, WithOut DEF Outs
  <2> QED BY <1>2, <2>1, <2>3, <2>4
<1>4. /\ r.pc = "record" /\ r.out = o /\ r.doc = th[w].doc /\ r.op = th[w].op
      /\ r.n = th[w].n /\ r.t = th[w].t /\ r.list = th[w].list /\ r.queue = th[w].queue
      /\ r.max = th[w].max /\ r.k = th[w].k /\ r.dead = th[w].dead
  BY <1>1, <1>2 DEF Threads
<1>5. th' = [th EXCEPT ![w] = r]
  BY <1>1, <1>2 DEF TypeOK
<1> QED BY <1>1, <1>3, <1>4, <1>5, Replace

LEMMA OutcomeEffect ==
    ASSUME TypeOK, NEW w \in Slots, RecordAttemptOutcome(w), Find(list, th[w].n) # None,
           th[w].out # "none"
    PROVE  /\ th' \in [Callers -> Threads] /\ Only(w)
           /\ th'[w].op = "outcome" /\ th'[w].pc = "save"
           /\ th'[w].doc = CloneMetadata(queue, list, heap') /\ th'[w].n = th[w].n
           /\ th'[w].t = th[w].t /\ th'[w].list = th[w].list /\ th'[w].queue = th[w].queue
           /\ th'[w].max = th[w].max /\ th'[w].k = th[w].k /\ th'[w].out = th[w].out
           /\ th'[w].dead = th[w].dead
<1>1. th \in [Callers -> Threads] /\ w \in Callers /\ th[w] \in Threads
  BY DEF TypeOK, Callers
<1>a. Find(list, th[w].n) \in Tasks
  BY FindFacts DEF TypeOK
<1>b. heap' = [heap EXCEPT ![Find(list, th[w].n)].status = th[w].out]
  BY DEF RecordAttemptOutcome
<1>c. heap' \in [Tasks -> Records]
  BY <1>1, <1>a, <1>b, StatusType DEF TypeOK, Threads
<1>d. CloneMetadata(queue, list, heap') \in Documents /\ heap[Find(list, th[w].n)] \in Records
  BY <1>a, <1>c, CloneFacts DEF TypeOK
<1>2. PICK r : r = [th[w] EXCEPT !.op = "outcome", !.pc = "save", !.was = heap[Find(list, th[w].n)], !.doc = CloneMetadata(queue, list, heap')]
  OBVIOUS
<1>3. r \in Threads
  <2>1. PICK r0 : r0 = [th[w] EXCEPT !.op = "outcome"]
    OBVIOUS
  <2>2. r0 \in Threads
    BY <1>1, <2>1, <1>a, <1>b, <1>c, <1>d, WithOp DEF Ops
  <2>3. PICK r1 : r1 = [r0 EXCEPT !.pc = "save"]
    OBVIOUS
  <2>4. r1 \in Threads
    BY <2>2, <2>3, <1>a, <1>b, <1>c, <1>d, WithPc DEF Points
  <2>5. PICK r2 : r2 = [r1 EXCEPT !.was = heap[Find(list, th[w].n)]]
    OBVIOUS
  <2>6. r2 \in Threads
    BY <2>4, <2>5, <1>a, <1>b, <1>c, <1>d, WithWas
  <2>7. PICK r3 : r3 = [r2 EXCEPT !.doc = CloneMetadata(queue, list, heap')]
    OBVIOUS
  <2>8. r3 \in Threads
    BY <2>6, <2>7, <1>a, <1>b, <1>c, <1>d, WithDoc DEF MaybeDocument
  <2> QED BY <1>2, <2>1, <2>3, <2>5, <2>7, <2>8
<1>4. /\ r.op = "outcome" /\ r.pc = "save" /\ r.doc = CloneMetadata(queue, list, heap')
      /\ r.n = th[w].n /\ r.t = th[w].t /\ r.list = th[w].list /\ r.queue = th[w].queue
      /\ r.max = th[w].max /\ r.k = th[w].k /\ r.out = th[w].out /\ r.dead = th[w].dead
  BY <1>1, <1>2 DEF Threads
<1>5. th' = [th EXCEPT ![w] = r]
  BY <1>1, <1>2, <1>a, <1>b, <1>c, <1>d DEF RecordAttemptOutcome
<1> QED BY <1>1, <1>3, <1>4, <1>5, Replace

LEMMA OutcomeRecordedEffect ==
    ASSUME TypeOK, NEW w \in Slots, OutcomeRecorded(w)
    PROVE  /\ th' \in [Callers -> Threads] /\ Only(w)
           /\ th'[w].op = "deliver" /\ th'[w].t = None
           /\ th'[w].pc = AfterOutcome(th[w].out) /\ th'[w].doc = th[w].doc
           /\ th'[w].n = th[w].n /\ th'[w].list = th[w].list /\ th'[w].queue = th[w].queue
           /\ th'[w].max = th[w].max /\ th'[w].k = th[w].k /\ th'[w].out = th[w].out
           /\ th'[w].dead = th[w].dead
<1>1. th \in [Callers -> Threads] /\ w \in Callers /\ th[w] \in Threads
  BY DEF TypeOK, Callers
<1>a. AfterOutcome(th[w].out) \in {"loop", "exit"}
  BY DEF AfterOutcome
<1>2. PICK r : r = [th[w] EXCEPT !.op = "deliver", !.was = NewTask, !.t = None, !.pc = AfterOutcome(th[w].out)]
  OBVIOUS
<1>3. r \in Threads
  <2>1. PICK r0 : r0 = [th[w] EXCEPT !.op = "deliver"]
    OBVIOUS
  <2>2. r0 \in Threads
    BY <1>1, <1>a, NewTaskType, <2>1, WithOp DEF Ops
  <2>3. PICK r1 : r1 = [r0 EXCEPT !.was = NewTask]
    OBVIOUS
  <2>4. r1 \in Threads
    BY <2>2, <1>a, NewTaskType, <2>3, WithWas
  <2>5. PICK r2 : r2 = [r1 EXCEPT !.t = None]
    OBVIOUS
  <2>6. r2 \in Threads
    BY <2>4, <1>a, NewTaskType, <2>5, WithT DEF MaybeTask
  <2>7. PICK r3 : r3 = [r2 EXCEPT !.pc = AfterOutcome(th[w].out)]
    OBVIOUS
  <2>8. r3 \in Threads
    BY <2>6, <1>a, NewTaskType, <2>7, WithPc DEF Points
  <2> QED BY <1>2, <2>1, <2>3, <2>5, <2>7, <2>8
<1>4. /\ r.op = "deliver" /\ r.t = None /\ r.pc = AfterOutcome(th[w].out)
      /\ r.doc = th[w].doc /\ r.n = th[w].n /\ r.list = th[w].list /\ r.queue = th[w].queue
      /\ r.max = th[w].max /\ r.k = th[w].k /\ r.out = th[w].out /\ r.dead = th[w].dead
  BY <1>1, <1>2 DEF Threads
<1>5. th' = [th EXCEPT ![w] = r]
  BY <1>1, <1>2, <1>a DEF OutcomeRecorded
<1> QED BY <1>1, <1>3, <1>4, <1>5, Replace

LEMMA ShutdownEffect ==
    ASSUME TypeOK, Shutdown
    PROVE  /\ th' \in [Callers -> Threads] /\ Only(Closer)
           /\ th'[Closer].op = "shutdown" /\ th'[Closer].pc = "wait" /\ th'[Closer].t = None
           /\ th'[Closer].out = "none" /\ ~th'[Closer].dead
<1>1. th \in [Callers -> Threads] /\ Closer \in Callers /\ th[Closer] \in Threads
  BY DEF TypeOK, Callers
<1>2. PICK r : r = [Idle EXCEPT !.op = "shutdown", !.pc = "wait"]
  OBVIOUS
<1>3. r \in Threads
  <2>1. PICK r0 : r0 = [Idle EXCEPT !.op = "shutdown"]
    OBVIOUS
  <2>2. r0 \in Threads
    BY IdleType, <2>1, WithOp DEF Ops
  <2>3. PICK r1 : r1 = [r0 EXCEPT !.pc = "wait"]
    OBVIOUS
  <2>4. r1 \in Threads
    BY <2>2, <2>3, WithPc DEF Points
  <2> QED BY <1>2, <2>1, <2>3, <2>4
<1>4. /\ r.op = "shutdown" /\ r.pc = "wait" /\ r.t = None /\ r.out = "none" /\ ~r.dead
  BY <1>1, <1>2, IdleType, IdleFields DEF Threads
<1>5. th' = [th EXCEPT ![Closer] = r]
  BY <1>1, <1>2 DEF Shutdown
<1> QED BY <1>1, <1>3, <1>4, <1>5, Replace

LEMMA NotLess == ASSUME NEW a \in Int, NEW b \in Int, ~(a >= b) PROVE a < b
OBVIOUS

\* recordAttemptStart on a task that is not finished.
LEMMA AttemptEffect ==
    ASSUME TypeOK, NEW w \in Slots, RecordAttemptStart(w),
           NEW t, t = Find(list, th[w].n), t # None, ~Terminal(heap[t])
    PROVE  /\ th' \in [Callers -> Threads] /\ Only(w)
           /\ th'[w].pc = "persist" /\ th'[w].op = "start" /\ th'[w].t = t
           /\ th'[w].n = th[w].n /\ th'[w].max = th[w].max /\ th'[w].dead = th[w].dead
           /\ t \in Elements(list) /\ t \in Tasks /\ NameOf[t] = th[w].n
           /\ heap' \in [Tasks -> Records] /\ \A u \in Tasks : u # t => heap'[u] = heap[u]
           /\ th'[w].k = heap'[t].attempts /\ th'[w].out \in {"FAILED", "none"}
           /\ th'[w].out = "FAILED" =>
                 heap'[t].status = "FAILED" /\ heap'[t].attempts = heap[t].attempts
           /\ th'[w].out = "none" =>
                 /\ heap[t].attempts < th[w].max
                 /\ heap'[t] = [status |-> "RETRYING", attempts |-> heap[t].attempts + 1]
<1>1. th \in [Callers -> Threads] /\ w \in Callers /\ th[w] \in Threads
  BY DEF TypeOK, Callers
<1>2. t \in Elements(list) /\ t \in Tasks /\ NameOf[t] = th[w].n
  BY FindFacts DEF TypeOK
<1>3. heap \in [Tasks -> Records] /\ heap[t] \in Records
  BY <1>2 DEF TypeOK
<1>4. PICK expired \in {FALSE, TimeLimited} :
         LET exhausted == expired \/ heap[t].attempts >= th[w].max
             next == NextAttempt(heap[t], exhausted)
         IN /\ heap' = [heap EXCEPT ![t] = next]
            /\ th' = [th EXCEPT ![w] = [@ EXCEPT
                 !.op = "start", !.pc = "persist", !.t = t, !.was = heap[t],
                 !.k = next.attempts, !.out = IF exhausted THEN "FAILED" ELSE "none"]]
  BY DEF RecordAttemptStart
<1> DEFINE exhausted == expired \/ heap[t].attempts >= th[w].max
<1>5. PICK next : next = NextAttempt(heap[t], exhausted)
  OBVIOUS
<1>6. PICK o : o = IF exhausted THEN "FAILED" ELSE "none"
  OBVIOUS
<1>7. heap' = [heap EXCEPT ![t] = next]
  BY <1>4, <1>5
<1>8. PICK r : r = [th[w] EXCEPT !.op = "start", !.pc = "persist", !.t = t, !.was = heap[t],
                                 !.k = next.attempts, !.out = o]
  OBVIOUS
<1>9. th' = [th EXCEPT ![w] = r]
  BY <1>4, <1>5, <1>6, <1>8
<1>10. o \in {"FAILED", "none"} /\ (o = "FAILED" => exhausted) /\ (o = "none" => ~exhausted)
  BY <1>6
<1>11. heap[t].attempts \in Int /\ th[w].max \in Int
  <2>1. heap[t].attempts \in Int
    BY <1>3, AttemptsType
  <2>2. th[w].max \in 0..100
    BY <1>1 DEF Threads
  <2> QED BY <2>1, <2>2
<1>12. o = "FAILED" => next \in Records /\ next.status = "FAILED" /\ next.attempts = heap[t].attempts
  BY <1>3, <1>5, <1>10 DEF NextAttempt, Records
<1>13. o = "none" => heap[t].attempts < th[w].max
  <2>1. o = "none" => ~(heap[t].attempts >= th[w].max)
    BY <1>10, Zenon
  <2> QED BY <1>11, <2>1, NotLess, Zenon
<1>14. o = "none" => next = [status |-> "RETRYING", attempts |-> heap[t].attempts + 1]
  BY <1>5, <1>10 DEF NextAttempt
<1> HIDE DEF exhausted
<1>15. next \in Records
  <2>1. heap[t].attempts + 1 \in Int
    BY <1>11
  <2> QED BY <1>10, <1>12, <1>14, <2>1 DEF Records
<1>16. r \in Threads
  <2>1. next.attempts \in Int
    BY <1>15 DEF Records
  <2>2. PICK r0 : r0 = [th[w] EXCEPT !.op = "start"]
    OBVIOUS
  <2>3. r0 \in Threads
    BY <1>1, <2>2, WithOp DEF Ops
  <2>4. PICK r1 : r1 = [r0 EXCEPT !.pc = "persist"]
    OBVIOUS
  <2>5. r1 \in Threads
    BY <2>3, <2>4, WithPc DEF Points
  <2>6. PICK r2 : r2 = [r1 EXCEPT !.t = t]
    OBVIOUS
  <2>7. r2 \in Threads
    BY <1>2, <2>5, <2>6, WithT DEF MaybeTask
  <2>8. PICK r3 : r3 = [r2 EXCEPT !.was = heap[t]]
    OBVIOUS
  <2>9. r3 \in Threads
    BY <1>3, <2>7, <2>8, WithWas
  <2>10. PICK r4 : r4 = [r3 EXCEPT !.k = next.attempts]
    OBVIOUS
  <2>11. r4 \in Threads
    BY <2>1, <2>9, <2>10, WithK DEF Numbers
  <2>12. PICK r5 : r5 = [r4 EXCEPT !.out = o]
    OBVIOUS
  <2>13. r5 \in Threads
    BY <1>10, <2>11, <2>12, WithOut DEF Outs
  <2> QED BY <1>8, <2>2, <2>4, <2>6, <2>8, <2>10, <2>12, <2>13
<1>17. r.pc = "persist" /\ r.op = "start" /\ r.t = t /\ r.n = th[w].n /\ r.max = th[w].max
       /\ r.dead = th[w].dead /\ r.k = next.attempts /\ r.out = o
  BY <1>1, <1>8 DEF Threads
<1>18. th' \in [Callers -> Threads] /\ Only(w) /\ th'[w] = r
  BY <1>1, <1>9, <1>16, Replace
<1>19. heap' \in [Tasks -> Records] /\ heap'[t] = next /\ \A u \in Tasks : u # t => heap'[u] = heap[u]
  BY <1>2, <1>3, <1>7, <1>15
<1>20. /\ th'[w].k = heap'[t].attempts /\ th'[w].out = o
       /\ th'[w].pc = "persist" /\ th'[w].op = "start" /\ th'[w].t = t
       /\ th'[w].n = th[w].n /\ th'[w].max = th[w].max /\ th'[w].dead = th[w].dead
  BY <1>17, <1>18, <1>19
<1> HIDE <1>17
<1> QED BY <1>2, <1>10, <1>12, <1>13, <1>14, <1>18, <1>19, <1>20

\* scheduleDeliveryLocked at the end of createTask.
Fresh(w, c) ==
    /\ th[w].pc = "idle" /\ th'[w].pc = "loop" /\ th'[w].op = "deliver" /\ th'[w].n = w[1]
    /\ th'[w].t = None /\ th'[w].max = th[c].max /\ ~th'[w].dead
    /\ jobs[w[1]] = None /\ jobs'[w[1]] = w
    /\ th[c].t \in HttpTasks /\ NameOf[th[c].t] = w[1] /\ ~closed

LEMMA SlotFacts ==
    ASSUME NEW w \in Slots
    PROVE  w[1] \in Names /\ w \in Callers /\ w # Closer /\ w \notin Clients /\ w # None
BY CallersAssumption DEF Slots, Callers

LEMMA CallerFacts ==
    /\ Clients \subseteq Callers /\ Closer \in Callers /\ Slots \subseteq Callers
    /\ Closer \notin Clients /\ Closer \notin Slots /\ None \notin Callers
    /\ \A c \in Clients : c \notin Slots
BY CallersAssumption, TasksAssumption DEF Callers

FreshThread(n, m) == [Idle EXCEPT !.pc = "loop", !.op = "deliver", !.n = n, !.max = m]

LEMMA FreshType ==
    ASSUME NEW n \in Names, NEW m \in 0..100, NEW r, r = FreshThread(n, m)
    PROVE  /\ r \in Threads /\ r.pc = "loop" /\ r.op = "deliver" /\ r.n = n /\ r.max = m
           /\ r.t = None /\ ~r.dead
<1>1. PICK r0 : r0 = [Idle EXCEPT !.pc = "loop"]
  OBVIOUS
<1>2. r0 \in Threads
  BY <1>1, IdleType, WithPc DEF Points
<1>3. PICK r1 : r1 = [r0 EXCEPT !.op = "deliver"]
  OBVIOUS
<1>4. r1 \in Threads
  BY <1>2, <1>3, WithOp DEF Ops
<1>5. PICK r2 : r2 = [r1 EXCEPT !.n = n]
  OBVIOUS
<1>6. r2 \in Threads
  BY <1>4, <1>5, WithN DEF MaybeName
<1>7. PICK r3 : r3 = [r2 EXCEPT !.max = m]
  OBVIOUS
<1>8. r3 \in Threads
  BY <1>6, <1>7, WithMax DEF Tallies
<1>9. r3 = r
  BY <1>1, <1>3, <1>5, <1>7 DEF FreshThread
<1>10. r3.pc = "loop" /\ r3.op = "deliver" /\ r3.n = n /\ r3.max = m /\ r3.t = None /\ ~r3.dead
  BY <1>1, <1>3, <1>5, <1>7, IdleType, IdleFields DEF Threads
<1> QED BY <1>8, <1>9, <1>10

LEMMA CreateTaskEndsEffect ==
    ASSUME TypeOK, NEW c \in Clients, CreateTaskEnds(c), th[c].t \in Tasks
    PROVE  /\ th' \in [Callers -> Threads] /\ jobs' \in [Names -> Slots \cup {None}]
           /\ th'[c] = Idle
           /\ \A q \in Callers : q # c /\ q \notin Slots => th'[q] = th[q]
           /\ \A w \in Slots : th'[w] = th[w] \/ Fresh(w, c)
           /\ \A n \in Names : jobs'[n] = jobs[n]
                 \/ (jobs[n] = None /\ jobs'[n] \in Slots /\ jobs'[n][1] = n /\ Fresh(jobs'[n], c))
           /\ ~closed /\ ~th[c].dead /\ th[c].t \in HttpTasks => jobs'[NameOf[th[c].t]] # None
<1> DEFINE T == Deliverable(c)
<1>1. th \in [Callers -> Threads] /\ th[c] \in Threads /\ c \in Callers /\ c \notin Slots
      /\ th[c].max \in 0..100 /\ jobs \in [Names -> Slots \cup {None}]
  BY CallerFacts DEF TypeOK, Threads
<1>2. T \subseteq {th[c].t} /\ (T # {} => ~closed /\ th[c].t \in HttpTasks)
      /\ (~closed /\ ~th[c].dead /\ th[c].t \in HttpTasks => T = {th[c].t})
  BY DEF Deliverable
<1>3. NameOf[th[c].t] \in Names
  BY TasksAssumption
<1>4. /\ NewJobs(T) \subseteq {NameOf[th[c].t]} /\ (NewJobs(T) # {} => T # {})
      /\ \A n \in NewJobs(T) : jobs[n] = None
      /\ (T = {th[c].t} => NameOf[th[c].t] \in NewJobs(T) \/ jobs[NameOf[th[c].t]] # None)
  BY <1>2 DEF NewJobs
<1>5. /\ \A n \in NewJobs(T) : FreeSlots(n) # {}
      /\ jobs' = JobsWith(T) /\ th' = [Started(T, th[c].max, th) EXCEPT ![c] = Idle]
  BY DEF CreateTaskEnds
<1> HIDE DEF T
<1>6. \A n \in NewJobs(T) : SlotOf(n) \in Slots /\ SlotOf(n)[1] = n /\ th[SlotOf(n)].pc = "idle"
  BY <1>5 DEF SlotOf, FreeSlots
<1>7. DOMAIN Started(T, th[c].max, th) = Callers
  BY DEF Started
<1>8. th'[c] = Idle
  BY <1>1, <1>5, <1>7
<1>9. \A q \in Callers : q # c => th'[q] = Started(T, th[c].max, th)[q]
  BY <1>5, <1>7
<1>10. ASSUME NEW q \in Callers, q # c, \A n \in NewJobs(T) : q # SlotOf(n)
       PROVE  th'[q] = th[q]
  BY <1>9, <1>10 DEF Started
<1>11. ASSUME NEW n \in NewJobs(T) PROVE th'[SlotOf(n)] \in Threads /\ Fresh(SlotOf(n), c)
                                      /\ jobs'[n] = SlotOf(n)
  <2> DEFINE w == SlotOf(n)
  <2>1. w \in Callers /\ w # c /\ w \in Slots /\ w[1] = n /\ n \in Names
    BY <1>1, <1>3, <1>4, <1>6, CallerFacts
  <2>2. Started(T, th[c].max, th)[w] = FreshThread(w[1], th[c].max)
    BY <2>1 DEF Started, FreshThread
  <2>3. jobs'[n] = w
    BY <1>5, <2>1 DEF JobsWith
  <2>4. th[w].pc = "idle" /\ jobs[n] = None /\ NameOf[th[c].t] = n /\ ~closed /\ th[c].t \in HttpTasks
    BY <1>2, <1>4, <1>6
  <2> HIDE DEF w
  <2>5. PICK r : r = FreshThread(n, th[c].max)
    OBVIOUS
  <2>6. th'[w] = r
    BY <1>9, <2>1, <2>2, <2>5
  <2>7. r \in Threads /\ r.pc = "loop" /\ r.op = "deliver" /\ r.n = n /\ r.max = th[c].max
        /\ r.t = None /\ ~r.dead
    <3>1. PICK m \in 0..100 : m = th[c].max
      BY <1>1
    <3>2. n \in Names
      BY <2>1
    <3>3. r = FreshThread(n, m)
      BY <2>5, <3>1
    <3>4. r \in Threads /\ r.pc = "loop" /\ r.op = "deliver" /\ r.n = n /\ r.max = m
          /\ r.t = None /\ ~r.dead
      BY <3>2, <3>3, FreshType, SMTT(40)
    <3> QED BY <3>1, <3>4
  <2>8. Fresh(w, c)
    BY <2>1, <2>3, <2>4, <2>6, <2>7 DEF Fresh
  <2> QED BY <2>3, <2>6, <2>7, <2>8 DEF w
<1>12. ASSUME NEW q \in Callers PROVE th'[q] \in Threads
  <2>1. CASE q = c
    BY <1>8, <2>1, IdleType
  <2>2. CASE q # c /\ \A n \in NewJobs(T) : q # SlotOf(n)
    BY <1>1, <1>10, <2>2
  <2>3. CASE \E n \in NewJobs(T) : q = SlotOf(n)
    BY <1>11, <2>3
  <2> QED BY <2>1, <2>2, <2>3
<1>13. th' \in [Callers -> Threads]
  <2>1. DOMAIN th' = Callers
    BY <1>5, <1>7
  <2>2. th' = [q \in Callers |-> th'[q]]
    BY <1>5, <1>7 DEF Started
  <2> QED BY <1>12, <2>1, <2>2
<1>14. \A q \in Callers : q # c /\ q \notin Slots => th'[q] = th[q]
  BY <1>6, <1>10
<1>15. \A w \in Slots : th'[w] = th[w] \/ Fresh(w, c)
  BY <1>1, <1>10, <1>11, CallerFacts
<1>16. \A n \in Names : n \notin NewJobs(T) => jobs'[n] = jobs[n]
  BY <1>5 DEF JobsWith
<1>17. \A n \in Names : jobs'[n] = jobs[n]
          \/ (jobs[n] = None /\ jobs'[n] \in Slots /\ jobs'[n][1] = n /\ Fresh(jobs'[n], c))
  BY <1>4, <1>6, <1>11, <1>16
<1>18. jobs' \in [Names -> Slots \cup {None}]
  <2>1. jobs' = [n \in Names |-> jobs'[n]]
    BY <1>5 DEF JobsWith
  <2> QED BY <1>1, <1>17, <2>1
<1>19. ~closed /\ ~th[c].dead /\ th[c].t \in HttpTasks => jobs'[NameOf[th[c].t]] # None
  <2>1. \A n \in NewJobs(T) : SlotOf(n) # None
    BY <1>6, SlotFacts
  <2> SUFFICES ASSUME ~closed, ~th[c].dead, th[c].t \in HttpTasks
               PROVE  jobs'[NameOf[th[c].t]] # None
    OBVIOUS
  <2>2. T = {th[c].t}
    BY <1>2
  <2>3. CASE NameOf[th[c].t] \in NewJobs(T)
    BY <1>11, <2>1, <2>3
  <2>4. CASE NameOf[th[c].t] \notin NewJobs(T)
    <3>1. jobs[NameOf[th[c].t]] # None
      BY <1>4, <2>2, <2>4
    <3>2. jobs'[NameOf[th[c].t]] = jobs[NameOf[th[c].t]]
      BY <1>3, <1>16, <2>4
    <3> QED BY <3>1, <3>2
  <2> QED BY <2>3, <2>4
<1> QED BY <1>8, <1>13, <1>14, <1>15, <1>17, <1>18, <1>19

\* A deletion cancels the goroutines of the names of its tasks.
Killed(q, c) == \E t \in Gone(c) : jobs[NameOf[t]] = q
Alike(q) ==
    /\ th'[q].pc = th[q].pc /\ th'[q].op = th[q].op /\ th'[q].n = th[q].n
    /\ th'[q].t = th[q].t /\ th'[q].list = th[q].list /\ th'[q].doc = th[q].doc
    /\ th'[q].max = th[q].max /\ th'[q].k = th[q].k /\ th'[q].out = th[q].out

LEMMA DeleteEndsEffect ==
    ASSUME TypeOK, NEW c \in Clients, DeleteEnds(c)
    PROVE  /\ th' \in [Callers -> Threads] /\ jobs' \in [Names -> Slots \cup {None}]
           /\ th'[c] = Idle
           /\ \A q \in Callers : q # c => Alike(q)
           /\ \A q \in Callers : q # c => (th'[q].dead <=> th[q].dead \/ Killed(q, c))
           /\ \A q \in Callers : q # c /\ ~Killed(q, c) => th'[q] = th[q]
           /\ \A n \in Names : (\E t \in Gone(c) : NameOf[t] = n) => jobs'[n] = None
           /\ \A n \in Names : ~(\E t \in Gone(c) : NameOf[t] = n) => jobs'[n] = jobs[n]
<1> DEFINE names == {NameOf[t] : t \in Gone(c)}
<1>1. th \in [Callers -> Threads] /\ c \in Callers /\ jobs \in [Names -> Slots \cup {None}]
  BY CallerFacts DEF TypeOK
<1>2. /\ th' = [p \in Callers |->
                  IF p = c THEN Idle
                  ELSE IF \E n \in names : jobs[n] = p
                       THEN [th[p] EXCEPT !.dead = TRUE] ELSE th[p]]
      /\ jobs' = [n \in Names |-> IF n \in names THEN None ELSE jobs[n]]
  BY DEF DeleteEnds
<1>3. \A n : n \in names <=> \E t \in Gone(c) : NameOf[t] = n
  OBVIOUS
<1>4. \A q : (\E n \in names : jobs[n] = q) <=> Killed(q, c)
  BY DEF Killed
<1> HIDE DEF names
<1>5. th'[c] = Idle
  BY <1>1, <1>2
<1>6. ASSUME NEW q \in Callers, q # c, ~Killed(q, c) PROVE th'[q] = th[q]
  BY <1>2, <1>4, <1>6
<1>7. ASSUME NEW q \in Callers, q # c, Killed(q, c)
      PROVE  th'[q] \in Threads /\ Alike(q) /\ th'[q].dead
  <2>1. PICK r : r = [th[q] EXCEPT !.dead = TRUE]
    OBVIOUS
  <2>2. th'[q] = r
    BY <1>2, <1>4, <1>7, <2>1
  <2>3. th[q] \in Threads
    BY <1>1
  <2>4. r \in Threads
    BY <2>1, <2>3, WithDead DEF Flags
  <2>5. r.pc = th[q].pc /\ r.op = th[q].op /\ r.n = th[q].n /\ r.t = th[q].t
        /\ r.list = th[q].list /\ r.doc = th[q].doc /\ r.max = th[q].max
        /\ r.k = th[q].k /\ r.out = th[q].out
    BY <2>1, <2>3 DEF Threads
  <2>6. r.dead
    BY <2>1, <2>3 DEF Threads
  <2>7. Alike(q)
    BY <2>2, <2>5 DEF Alike
  <2> QED BY <2>2, <2>4, <2>6, <2>7
<1>8. \A q \in Callers : th'[q] \in Threads
  <2> SUFFICES ASSUME NEW q \in Callers PROVE th'[q] \in Threads
    OBVIOUS
  <2>1. CASE q = c
    BY <1>5, <2>1, IdleType
  <2>2. CASE q # c /\ Killed(q, c)
    BY <1>7, <2>2
  <2>3. CASE q # c /\ ~Killed(q, c)
    BY <1>1, <1>6, <2>3
  <2> QED BY <2>1, <2>2, <2>3
<1>9. th' \in [Callers -> Threads]
  <2>1. th' = [q \in Callers |-> th'[q]]
    BY <1>2
  <2> QED BY <1>8, <2>1
<1>10. \A q \in Callers : q # c => Alike(q)
  BY <1>6, <1>7 DEF Alike
<1>11. ASSUME NEW q \in Callers, q # c PROVE th'[q].dead <=> th[q].dead \/ Killed(q, c)
  <2>1. CASE Killed(q, c)
    BY <1>7, <1>11, <2>1, Zenon
  <2>2. CASE ~Killed(q, c)
    BY <1>6, <1>11, <2>2, Zenon
  <2> QED BY <2>1, <2>2
<1>12. jobs' \in [Names -> Slots \cup {None}]
  BY <1>1, <1>2
<1>13. \A n \in Names : (\E t \in Gone(c) : NameOf[t] = n) => jobs'[n] = None
  BY <1>2, <1>3
<1>14. \A n \in Names : ~(\E t \in Gone(c) : NameOf[t] = n) => jobs'[n] = jobs[n]
  BY <1>2, <1>3
<1> QED BY <1>5, <1>6, <1>9, <1>10, <1>11, <1>12, <1>13, <1>14

\* The next start: everything is finished, so nothing is scheduled.
LEMMA BootEffect ==
    ASSUME TypeOK, Boot
    PROVE  /\ th' = th /\ jobs' = jobs
           /\ disk' \in Documents /\ disk'.list = disk.list
           /\ \A t \in Tasks : Behind(disk.task[t], disk'.task[t])
           /\ \/ /\ up' /\ list' = disk.list /\ heap' = disk'.task
                 /\ queue' \in BOOLEAN /\ \A t \in Elements(list') : Terminal(heap'[t])
              \/ UNCHANGED <<up, queue, list, heap>>
<1>1. disk \in Documents /\ disk.list \in Seq(Tasks) /\ disk.task \in [Tasks -> Records]
      /\ disk.queue \in BOOLEAN
  BY DEF TypeOK, Documents
<1>2. PICK f : f = MarkInterrupted(disk.list, disk.task)
  OBVIOUS
<1>3. f \in [Tasks -> Records] /\ (\A t \in Tasks : Behind(disk.task[t], f[t]))
      /\ \A t \in Tasks : t \in Elements(disk.list) => Terminal(f[t])
  BY <1>1, <1>2, MarkFacts
<1>4. PICK marked : marked = [disk EXCEPT !.task = f]
  OBVIOUS
<1>5. marked \in Documents /\ marked.list = disk.list /\ marked.task = f /\ marked.queue = disk.queue
  BY <1>1, <1>3, <1>4 DEF Documents
<1>6. Elements(disk.list) \subseteq Tasks
  BY <1>1, FindFacts
<1>7. Resumable(marked) = {}
  BY <1>3, <1>5, <1>6 DEF Resumable
<1>8. NewJobs({}) = {}
  BY DEF NewJobs
<1>9. JobsWith({}) = jobs
  BY <1>8 DEF JobsWith, TypeOK
<1>10. ASSUME NEW m PROVE Started({}, m, th) = th
  BY <1>8 DEF Started, TypeOK
<1>11. \A t \in Tasks : Behind(disk.task[t], disk.task[t])
  <2>1. \A t \in Tasks : disk.task[t] \in Records
    BY <1>1
  <2> QED BY <2>1, BehindSelf
<1>12. CASE /\ up' = TRUE /\ disk' = marked
            /\ queue' = marked.queue /\ list' = marked.list /\ heap' = marked.task
            /\ jobs' = JobsWith(Resumable(marked))
            /\ th' = Started(Resumable(marked), MaxAttempts(queue'), th)
  <2>1. jobs' = jobs /\ th' = th
    BY <1>7, <1>9, <1>10, <1>12
  <2>2. \A t \in Elements(list') : Terminal(heap'[t])
    BY <1>3, <1>5, <1>6, <1>12
  <2>3. up' /\ list' = disk.list /\ heap' = disk'.task /\ queue' \in BOOLEAN
    BY <1>1, <1>5, <1>12
  <2>4. disk' \in Documents /\ disk'.list = disk.list /\ \A t \in Tasks : Behind(disk.task[t], disk'.task[t])
    BY <1>3, <1>5, <1>12
  <2> QED BY <2>1, <2>2, <2>3, <2>4
<1>13. CASE disk' \in {disk, marked} /\ UNCHANGED <<up, memory, th>>
  <2>1. UNCHANGED <<up, queue, list, heap>> /\ jobs' = jobs /\ th' = th
    BY <1>13 DEF memory
  <2>2. disk' \in Documents /\ disk'.list = disk.list /\ \A t \in Tasks : Behind(disk.task[t], disk'.task[t])
    BY <1>1, <1>3, <1>5, <1>11, <1>13
  <2> QED BY <2>1, <2>2
<1>14. marked = [disk EXCEPT !.task = MarkInterrupted(disk.list, disk.task)]
  BY <1>2, <1>4
<1> QED BY <1>12, <1>13, <1>14 DEF Boot

LEMMA CrashEffect ==
    ASSUME Crash
    PROVE  /\ th' \in [Callers -> Threads] /\ \A p \in Callers : th'[p] = Idle
           /\ list' = <<>> /\ heap' \in [Tasks -> Records] /\ jobs' \in [Names -> Slots \cup {None}]
           /\ \A n \in Names : jobs'[n] = None
<1>1. th' = [p \in Callers |-> Idle] /\ jobs' = [n \in Names |-> None] /\ list' = <<>>
      /\ heap' = [t \in Tasks |-> NewTask]
  BY DEF Crash
<1> QED BY <1>1, IdleType, NewTaskType
-----------------------------------------------------------------------------
\* Types, shapes and locks.

\* A step of one thread keeps the shapes and the locks if its own end does.
LEMMA ShapeOnly ==
    ASSUME Shape, NEW p \in Callers, Only(p),
           p \in Clients => ClientShape(th'[p]),
           p \in Slots => WorkerShape(th'[p]),
           p = Closer => CloserShape(th'[p]),
           th'[p].pc = "save" => th'[p].doc \in Documents
    PROVE  Shape'
<1>1. ASSUME NEW c \in Clients PROVE ClientShape(th'[c])
  BY CallerFacts DEF Only, Shape
<1>2. ASSUME NEW w \in Slots PROVE WorkerShape(th'[w])
  BY CallerFacts DEF Only, Shape
<1>3. CloserShape(th'[Closer])
  BY CallerFacts DEF Only, Shape
<1>4. ASSUME NEW q \in Callers, th'[q].pc = "save" PROVE th'[q].doc \in Documents
  BY <1>4 DEF Only, Shape
<1> QED BY <1>1, <1>2, <1>3, <1>4 DEF Shape

LEMMA LockedOnly ==
    ASSUME Locked, NEW p \in Callers, Only(p),
           Holds(p)' => persistMu' = p,
           persistMu' = persistMu \/ persistMu \in {None, p},
           th'[p].pc = "failed" => sick',
           sick => sick', up' <=> up, up \/ th[p].pc # "idle"
    PROVE  Locked'
<1>1. up
  BY DEF Locked
<1>2. ASSUME NEW q \in Callers, Holds(q)' PROVE persistMu' = q
  <2>1. CASE q = p
    BY <1>2, <2>1
  <2>2. CASE q # p
    <3>1. th'[q] = th[q]
      BY <2>2 DEF Only
    <3>2. Holds(q)
      BY <1>2, <3>1 DEF Holds
    <3>3. persistMu = q /\ q # None
      BY <3>2, CallerFacts DEF Locked
    <3> QED BY <2>2, <3>3
  <2> QED BY <2>1, <2>2
<1>3. ASSUME NEW q \in Callers, th'[q].pc = "failed" PROVE sick'
  BY <1>3 DEF Only, Locked
<1> QED BY <1>1, <1>2, <1>3 DEF Locked

LEMMA ClosingOnly ==
    ASSUME Closing, NEW p \in Callers, p # Closer, Only(p), closed' <=> closed,
           p \in Slots => th[p].pc # "idle" \/ th'[p].pc = "idle"
    PROVE  Closing'
<1>1. th'[Closer] = th[Closer]
  BY CallerFacts DEF Only
<1>2. ASSUME NEW w \in Slots, th[w].pc = "idle" PROVE th'[w].pc = "idle"
  BY <1>2, CallerFacts DEF Only
<1> QED BY <1>1, <1>2 DEF Closing

\* A step that starts no goroutine and moves one thread other than Shutdown's.
Basic == TypeOK /\ Shape /\ Locked /\ Closing
LEMMA BasicTypes == Basic => TypeOK
  BY DEF Basic

LEMMA TypeFacts ==
    ASSUME TypeOK
    PROVE  /\ th \in [Callers -> Threads] /\ list \in Seq(Tasks) /\ heap \in [Tasks -> Records]
           /\ disk \in Documents /\ disk.list \in Seq(Tasks) /\ disk.task \in [Tasks -> Records]
           /\ \A p \in Callers : th[p] \in Threads /\ th[p].list \in Seq(Tasks)
           /\ Elements(list) \subseteq Tasks /\ Elements(disk.list) \subseteq Tasks
<1>1. th \in [Callers -> Threads] /\ list \in Seq(Tasks) /\ heap \in [Tasks -> Records] /\ disk \in Documents
  BY DEF TypeOK
<1>2. disk.list \in Seq(Tasks) /\ disk.task \in [Tasks -> Records]
  BY <1>1 DEF Documents
<1>3. \A p \in Callers : th[p] \in Threads /\ th[p].list \in Seq(Tasks)
  BY <1>1 DEF Threads
<1> QED BY <1>1, <1>2, <1>3, FindFacts

LEMMA DocFacts ==
    ASSUME Shape, NEW p \in Callers, th[p].pc = "save"
    PROVE  /\ th[p].doc \in Documents /\ th[p].doc.list \in Seq(Tasks)
           /\ th[p].doc.task \in [Tasks -> Records] /\ Elements(th[p].doc.list) \subseteq Tasks
<1>1. th[p].doc \in Documents
  BY DEF Shape
<1>2. th[p].doc.list \in Seq(Tasks) /\ th[p].doc.task \in [Tasks -> Records]
  BY <1>1 DEF Documents
<1> QED BY <1>1, <1>2, FindFacts

\* ---------------------------------------------------------------- Save
LEMMA BasicPersist ==
    ASSUME Basic, NEW p \in Callers, PersistMetadata(p) PROVE Basic'
<1>1. /\ th' \in [Callers -> Threads] /\ Only(p) /\ th'[p].pc = "save"
      /\ th'[p].doc = CloneMetadata(queue, list, heap) /\ th'[p].op = th[p].op /\ th'[p].t = th[p].t
      /\ th'[p].out = th[p].out
  BY PersistEffect DEF Basic
<1>2. /\ th[p].pc = "persist" /\ persistMu = None /\ persistMu' = p
      /\ UNCHANGED <<up, closed, queue, list, heap, jobs, disk, sick, created, acked, asked, removed, sent>>
  BY DEF PersistMetadata, memory, history
<1>3. TypeOK'
  BY <1>1, <1>2 DEF Basic, TypeOK
<1>4. Shape'
  <2>1. th'[p].doc \in Documents
    BY <1>1, CloneFacts DEF Basic, TypeOK
  <2>2. p \in Clients => ClientShape(th'[p])
    BY <1>1, <1>2 DEF Basic, Shape, ClientShape
  <2>3. p \in Slots => WorkerShape(th'[p])
    BY <1>1, <1>2 DEF Basic, Shape, WorkerShape
  <2>4. p = Closer => CloserShape(th'[p])
    BY <1>1, <1>2 DEF Basic, Shape, CloserShape
  <2> QED BY <1>1, <2>1, <2>2, <2>3, <2>4, ShapeOnly DEF Basic
<1>5. Locked'
  <2>1. th'[p].pc # "failed" /\ th[p].pc # "idle"
    BY <1>1, <1>2
  <2> QED BY <1>1, <1>2, <2>1, LockedOnly DEF Basic
<1>6. Closing'
  <2>1. CASE p # Closer
    BY <1>1, <1>2, <2>1, ClosingOnly DEF Basic
  <2>2. CASE p = Closer
    <3>1. \A w \in Slots : th'[w] = th[w]
      BY <1>1, <2>2, CallerFacts DEF Only
    <3> QED BY <1>1, <1>2, <2>2, <3>1 DEF Basic, Closing
  <2> QED BY <2>1, <2>2
<1> QED BY <1>3, <1>4, <1>5, <1>6 DEF Basic

LEMMA BasicSave ==
    ASSUME Basic, NEW p \in Callers, SaveOk(p) \/ SaveFails(p) PROVE Basic'
<1>1. /\ th' \in [Callers -> Threads] /\ Only(p) /\ th'[p].pc \in {"saved", "failed"}
      /\ th'[p].op = th[p].op /\ th'[p].t = th[p].t /\ th'[p].out = th[p].out
      /\ (th'[p].pc = "failed" => SaveFails(p))
  <2>1. CASE SaveOk(p)
    BY <2>1, SaveOkEffect DEF Basic
  <2>2. CASE SaveFails(p)
    BY <2>2, SaveFailsEffect DEF Basic
  <2> QED BY <2>1, <2>2
<1>2. /\ th[p].pc = "save" /\ persistMu' = IF KeepsLock(th[p].op) THEN p ELSE None
      /\ UNCHANGED <<up, closed, queue, list, heap, jobs, created, acked, asked, removed, sent>>
      /\ disk' = disk \/ disk' = th[p].doc
  BY DEF SaveOk, SaveFails, memory, history
<1>3. (sick => sick') /\ sick' \in BOOLEAN /\ (SaveFails(p) => sick')
  BY DEF SaveOk, SaveFails, Basic, TypeOK
<1>4. TypeOK'
  <2>1. disk' \in Documents
    BY <1>2, DocFacts DEF Basic, TypeOK
  <2>2. persistMu' \in Callers \cup {None}
    BY <1>2
  <2> QED BY <1>1, <1>2, <1>3, <2>1, <2>2 DEF Basic, TypeOK
<1>5. Shape'
  <2>1. p \in Clients => ClientShape(th'[p])
    BY <1>1, <1>2 DEF Basic, Shape, ClientShape
  <2>2. p \in Slots => WorkerShape(th'[p])
    BY <1>1, <1>2 DEF Basic, Shape, WorkerShape
  <2>3. p = Closer => CloserShape(th'[p])
    BY <1>1, <1>2 DEF Basic, Shape, CloserShape
  <2> QED BY <1>1, <2>1, <2>2, <2>3, ShapeOnly DEF Basic
<1>6. Locked'
  <2>1. th[p].pc # "idle"
    BY <1>2
  <2>2. persistMu = p
    BY <1>2 DEF Basic, Locked, Holds
  <2>3. Holds(p)' => persistMu' = p
    BY <1>1, <1>2 DEF Holds
  <2> QED BY <1>1, <1>2, <1>3, <2>1, <2>2, <2>3, LockedOnly DEF Basic
<1>7. Closing'
  <2>1. CASE p # Closer
    BY <1>1, <1>2, <2>1, ClosingOnly DEF Basic
  <2>2. CASE p = Closer
    <3>1. \A w \in Slots : th'[w] = th[w]
      BY <1>1, <2>2, CallerFacts DEF Only
    <3> QED BY <1>1, <1>2, <2>2, <3>1 DEF Basic, Closing
  <2> QED BY <2>1, <2>2
<1> QED BY <1>4, <1>5, <1>6, <1>7 DEF Basic

\* ------------------------------------------------------ Request handlers
\* A step of a handler or of a goroutine, from its own facts.
LEMMA BasicOnly ==
    ASSUME Basic, NEW p \in Clients \cup Slots, Only(p), TypeOK',
           p \in Clients => ClientShape(th'[p]),
           p \in Slots => WorkerShape(th'[p]) /\ th[p].pc # "idle",
           th'[p].pc = "save" => th'[p].doc \in Documents,
           Holds(p)' => persistMu' = p,
           persistMu' = persistMu \/ persistMu \in {None, p},
           th'[p].pc # "failed", sick' <=> sick, up' <=> up, closed' <=> closed,
           up \/ th[p].pc # "idle"
    PROVE  Basic'
<1>1. p \in Callers /\ p # Closer /\ (p \in Clients => p \notin Slots)
  BY CallerFacts
<1>2. Shape'
  BY <1>1, ShapeOnly DEF Basic
<1>3. Locked'
  BY <1>1, LockedOnly DEF Basic
<1>4. Closing'
  BY <1>1, ClosingOnly DEF Basic
<1> QED BY <1>2, <1>3, <1>4 DEF Basic

LEMMA BasicCreateQueue == ASSUME Basic, NEW c \in Clients, CreateQueue(c) PROVE Basic'
<1>1. /\ th' \in [Callers -> Threads] /\ Only(c) /\ th'[c].pc = "persist"
      /\ th'[c].op = "createQueue"
  BY CreateQueueEffect DEF Basic
<1>2. /\ up /\ queue' \in BOOLEAN
      /\ UNCHANGED <<up, closed, list, heap, jobs, disk, sick, persistMu, created, acked, asked, removed, sent>>
  BY DEF CreateQueue, history
<1>3. TypeOK'
  BY <1>1, <1>2 DEF Basic, TypeOK
<1>4. ClientShape(th'[c]) /\ c \notin Slots
  BY <1>1, CallerFacts DEF ClientShape
<1>5. ~Holds(c)'
  BY <1>1 DEF Holds, KeepsLock
<1> QED BY <1>1, <1>2, <1>3, <1>4, <1>5, BasicOnly

LEMMA BasicCreateQueueEnds == ASSUME Basic, NEW c \in Clients, CreateQueueEnds(c) PROVE Basic'
<1>1. th' \in [Callers -> Threads] /\ Only(c) /\ th'[c] = Idle
  BY IdleEffect, CallerFacts DEF Basic, CreateQueueEnds
<1>2. /\ th[c].pc # "idle" /\ queue' \in BOOLEAN
      /\ UNCHANGED <<up, closed, list, heap, jobs, disk, sick, persistMu, created, acked, asked, removed, sent>>
  BY DEF CreateQueueEnds, history
<1>3. TypeOK'
  BY <1>1, <1>2 DEF Basic, TypeOK
<1>4. ClientShape(th'[c]) /\ c \notin Slots /\ th'[c].pc = "idle"
  BY <1>1, IdleFields, CallerFacts DEF ClientShape
<1>5. ~Holds(c)'
  BY <1>4 DEF Holds
<1> QED BY <1>1, <1>2, <1>3, <1>4, <1>5, BasicOnly

LEMMA BasicCreateTask ==
    ASSUME Basic, NEW c \in Clients, NEW t \in Tasks, CreateTask(c, t)
    PROVE  Basic'
<1>1. /\ th' \in [Callers -> Threads] /\ Only(c) /\ th'[c].pc = "persist"
      /\ th'[c].op = "createTask" /\ th'[c].t = t
  BY CreateTaskEffect DEF Basic
<1>2. /\ up /\ list' = Append(list, t) /\ heap' = [heap EXCEPT ![t] = [NewTask EXCEPT !.attempts = GivenAttempts[t]]]
      /\ created' = created \cup {t}
      /\ UNCHANGED <<up, closed, queue, jobs, disk, sick, persistMu, acked, asked, removed, sent>>
  BY DEF CreateTask
<1>3. TypeOK'
  <2>1. [NewTask EXCEPT !.attempts = GivenAttempts[t]] \in Records
    BY NewTaskType, RetryAssumption DEF Records
  <2>2. heap' \in [Tasks -> Records]
    BY <1>2, <2>1 DEF Basic, TypeOK
  <2>3. list' \in Seq(Tasks)
    BY <1>2, AppendFacts DEF Basic, TypeOK
  <2> QED BY <1>1, <1>2, <2>2, <2>3 DEF Basic, TypeOK
<1>4. ClientShape(th'[c]) /\ c \notin Slots
  BY <1>1, CallerFacts DEF ClientShape
<1>5. ~Holds(c)'
  BY <1>1 DEF Holds, KeepsLock
<1> QED BY <1>1, <1>2, <1>3, <1>4, <1>5, BasicOnly

LEMMA BasicCreateTaskFails == ASSUME Basic, NEW c \in Clients, CreateTaskFails(c) PROVE Basic'
<1>1. th' \in [Callers -> Threads] /\ Only(c) /\ th'[c] = Idle
  BY IdleEffect, CallerFacts DEF Basic, CreateTaskFails
<1>2. /\ th[c].pc # "idle" /\ list' = Without(list, NameOf[th[c].t])
      /\ UNCHANGED <<up, closed, queue, heap, jobs, disk, sick, persistMu, created, acked, asked, removed, sent>>
  BY DEF CreateTaskFails, history
<1>3. TypeOK'
  <2>1. list' \in Seq(Tasks)
    BY <1>2, WithoutFacts DEF Basic, TypeOK
  <2> QED BY <1>1, <1>2, <2>1 DEF Basic, TypeOK
<1>4. ClientShape(th'[c]) /\ c \notin Slots /\ th'[c].pc = "idle"
  BY <1>1, IdleFields, CallerFacts DEF ClientShape
<1>5. ~Holds(c)'
  BY <1>4 DEF Holds
<1> QED BY <1>1, <1>2, <1>3, <1>4, <1>5, BasicOnly

LEMMA BasicCreateTaskEnds == ASSUME Basic, NEW c \in Clients, CreateTaskEnds(c) PROVE Basic'
<1>1. th[c].op = "createTask" /\ th[c].pc = "saved" /\ th[c].t \in Tasks
  BY DEF Basic, Shape, ClientShape, CreateTaskEnds
<1>2. /\ th' \in [Callers -> Threads] /\ jobs' \in [Names -> Slots \cup {None}]
      /\ th'[c] = Idle
      /\ \A q \in Callers : q # c /\ q \notin Slots => th'[q] = th[q]
      /\ \A w \in Slots : th'[w] = th[w] \/ Fresh(w, c)
  BY <1>1, CreateTaskEndsEffect DEF Basic
<1>3. /\ acked' = acked \cup {th[c].t}
      /\ UNCHANGED <<up, closed, queue, list, heap, disk, sick, persistMu, created, asked, removed, sent>>
  BY DEF CreateTaskEnds
<1>4. TypeOK'
  BY <1>1, <1>2, <1>3 DEF Basic, TypeOK
<1>5. Shape'
  <2>1. ASSUME NEW d \in Clients PROVE ClientShape(th'[d])
    BY <1>2, IdleFields, CallerFacts DEF Basic, Shape, ClientShape
  <2>2. ASSUME NEW w \in Slots PROVE WorkerShape(th'[w])
    BY <1>2 DEF Basic, Shape, WorkerShape, Fresh
  <2>3. CloserShape(th'[Closer])
    <3>1. th'[Closer] = th[Closer]
      BY <1>2, CallerFacts
    <3> QED BY <3>1 DEF Basic, Shape
  <2>4. ASSUME NEW q \in Callers, th'[q].pc = "save" PROVE th'[q].doc \in Documents
    <3>1. th'[q] = th[q]
      BY <1>2, <2>4, IdleFields DEF Fresh
    <3> QED BY <2>4, <3>1 DEF Basic, Shape
  <2> QED BY <2>1, <2>2, <2>3, <2>4 DEF Shape
<1>6. Locked'
  <2>1. up
    BY <1>1, CallerFacts DEF Basic, Locked
  <2>2. ASSUME NEW q \in Callers, Holds(q)' PROVE persistMu' = q
    <3>1. th'[q] = th[q]
      BY <1>2, <2>2, IdleFields DEF Fresh, Holds
    <3>2. Holds(q)
      BY <2>2, <3>1 DEF Holds
    <3> QED BY <1>3, <3>2 DEF Basic, Locked
  <2>3. ASSUME NEW q \in Callers, th'[q].pc = "failed" PROVE sick'
    <3>1. th'[q] = th[q]
      BY <1>2, <2>3, IdleFields DEF Fresh
    <3> QED BY <1>3, <2>3, <3>1 DEF Basic, Locked
  <2> QED BY <1>3, <2>1, <2>2, <2>3 DEF Locked
<1>7. Closing'
  <2>1. th'[Closer] = th[Closer]
    BY <1>2, CallerFacts
  <2>2. th[Closer].pc # "idle" => \A w \in Slots : th'[w] = th[w]
    BY <1>2 DEF Basic, Closing, Fresh
  <2> QED BY <1>3, <2>1, <2>2 DEF Basic, Closing
<1> QED BY <1>4, <1>5, <1>6, <1>7 DEF Basic

LEMMA BasicDeleteTask ==
    ASSUME Basic, NEW c \in Clients, NEW n \in Names, DeleteTask(c, n) PROVE Basic'
<1>1. /\ th' \in [Callers -> Threads] /\ Only(c) /\ th'[c].pc = "save" /\ th'[c].op = "deleteTask"
      /\ th'[c].t = Find(list, n) /\ th'[c].doc = CloneMetadata(queue, Without(list, n), heap)
  BY DeleteTaskEffect DEF Basic
<1>2. /\ up /\ persistMu = None /\ persistMu' = c /\ list' = Without(list, n)
      /\ Find(list, n) # None /\ asked' = asked \cup {Find(list, n)}
      /\ UNCHANGED <<up, closed, queue, heap, jobs, disk, sick, created, acked, removed, sent>>
  BY DEF DeleteTask
<1>3. list' \in Seq(Tasks) /\ Find(list, n) \in Tasks
  BY <1>2, WithoutFacts, FindFacts DEF Basic, TypeOK
<1>4. TypeOK'
  BY <1>1, <1>2, <1>3, CallerFacts DEF Basic, TypeOK
<1>5. ClientShape(th'[c]) /\ c \notin Slots
  BY <1>1, <1>3, CallerFacts DEF ClientShape
<1>6. th'[c].doc \in Documents
  BY <1>1, <1>2, <1>3, CloneFacts DEF Basic, TypeOK
<1>7. th'[c].pc # "failed"
  BY <1>1
<1> QED BY <1>1, <1>2, <1>4, <1>5, <1>6, <1>7, BasicOnly

LEMMA BasicDeleteQueue == ASSUME Basic, NEW c \in Clients, DeleteQueue(c) PROVE Basic'
<1>1. /\ th' \in [Callers -> Threads] /\ Only(c) /\ th'[c].pc = "save" /\ th'[c].op = "deleteQueue"
      /\ th'[c].doc = CloneMetadata(FALSE, <<>>, heap)
  BY DeleteQueueEffect DEF Basic
<1>2. /\ up /\ persistMu = None /\ persistMu' = c /\ list' = <<>> /\ queue' \in BOOLEAN
      /\ asked' = asked \cup Elements(list)
      /\ UNCHANGED <<up, closed, heap, jobs, disk, sick, created, acked, removed, sent>>
  BY DEF DeleteQueue
<1>3. list' \in Seq(Tasks) /\ Elements(list) \subseteq Tasks
  BY <1>2, EmptyFacts, TypeFacts DEF Basic
<1>4. TypeOK'
  BY <1>1, <1>2, <1>3, CallerFacts DEF Basic, TypeOK
<1>5. ClientShape(th'[c]) /\ c \notin Slots
  BY <1>1, CallerFacts DEF ClientShape
<1>6. th'[c].doc \in Documents
  <2>1. heap \in [Tasks -> Records]
    BY DEF Basic, TypeOK
  <2>2. CloneMetadata(FALSE, <<>>, heap) \in Documents
    BY <2>1, EmptyFacts, CloneFacts
  <2> QED BY <1>1, <2>2
<1>7. th'[c].pc # "failed"
  BY <1>1
<1> QED BY <1>1, <1>2, <1>4, <1>5, <1>6, <1>7, BasicOnly

LEMMA BasicDeleteFails == ASSUME Basic, NEW c \in Clients, DeleteFails(c) PROVE Basic'
<1>1. th' \in [Callers -> Threads] /\ Only(c) /\ th'[c] = Idle
  BY IdleEffect, CallerFacts DEF Basic, DeleteFails
<1>2. /\ th[c].pc = "failed" /\ KeepsLock(th[c].op) /\ persistMu' = None
      /\ list' = th[c].list \/ list' = list
      /\ UNCHANGED <<up, closed, heap, jobs, disk, sick, created, acked, asked, removed, sent>>
  BY DEF DeleteFails, Deletes, KeepsLock, history
<1>3. queue' \in BOOLEAN
  BY DEF DeleteFails
<1>4. TypeOK'
  <2>1. list' \in Seq(Tasks)
    BY <1>2, TypeFacts, CallerFacts DEF Basic
  <2> QED BY <1>1, <1>2, <1>3, <2>1 DEF Basic, TypeOK
<1>5. ClientShape(th'[c]) /\ c \notin Slots /\ th'[c].pc = "idle"
  BY <1>1, IdleFields, CallerFacts DEF ClientShape
<1>6. ~Holds(c)' /\ persistMu = c /\ th[c].pc # "idle"
  BY <1>2, <1>5, CallerFacts DEF Basic, Locked, Holds
<1> QED BY <1>1, <1>2, <1>4, <1>5, <1>6, BasicOnly

LEMMA BasicDeleteEnds == ASSUME Basic, NEW c \in Clients, DeleteEnds(c) PROVE Basic'
<1>1. /\ th' \in [Callers -> Threads] /\ jobs' \in [Names -> Slots \cup {None}]
      /\ th'[c] = Idle /\ \A q \in Callers : q # c => Alike(q)
  BY DeleteEndsEffect DEF Basic
<1>2. /\ th[c].pc = "saved" /\ KeepsLock(th[c].op) /\ Deletes(c)
      /\ persistMu' = None /\ removed' = removed \cup Gone(c)
      /\ UNCHANGED <<up, closed, queue, list, heap, disk, sick, created, acked, asked, sent>>
  BY DEF DeleteEnds, Deletes, KeepsLock
<1>3. TypeOK'
  <2>1. Gone(c) \subseteq Tasks
    <3>1. th[c].op = "deleteTask" => th[c].t \in Tasks
      BY DEF Basic, Shape, ClientShape
    <3>2. Elements(th[c].list) \subseteq Tasks
      BY TypeFacts, FindFacts, CallerFacts DEF Basic
    <3> QED BY <3>1, <3>2 DEF Gone
  <2> QED BY <1>1, <1>2, <2>1 DEF Basic, TypeOK
<1>4. Shape'
  <2>1. ASSUME NEW d \in Clients PROVE ClientShape(th'[d])
    BY <1>1, IdleFields, CallerFacts DEF Basic, Shape, ClientShape, Alike
  <2>2. ASSUME NEW w \in Slots PROVE WorkerShape(th'[w])
    <3>1. Alike(w)
      BY <1>1, CallerFacts
    <3> QED BY <3>1 DEF Basic, Shape, WorkerShape, Alike
  <2>3. CloserShape(th'[Closer])
    <3>1. Alike(Closer)
      BY <1>1, CallerFacts
    <3> QED BY <3>1 DEF Basic, Shape, CloserShape, Alike
  <2>4. ASSUME NEW q \in Callers, th'[q].pc = "save" PROVE th'[q].doc \in Documents
    BY <1>1, <2>4, IdleFields DEF Basic, Shape, Alike
  <2> QED BY <2>1, <2>2, <2>3, <2>4 DEF Shape
<1>5. Locked'
  <2>1. up
    BY <1>2, CallerFacts DEF Basic, Locked
  <2>2. persistMu = c
    BY <1>2, CallerFacts DEF Basic, Locked, Holds
  <2>3. ASSUME NEW q \in Callers PROVE ~Holds(q)'
    <3>1. CASE q = c
      BY <1>1, <3>1, IdleFields DEF Holds
    <3>2. CASE q # c
      <4>1. ~Holds(q)
        BY <2>2, <3>2 DEF Basic, Locked
      <4> QED BY <1>1, <3>2, <4>1 DEF Holds, Alike
    <3> QED BY <3>1, <3>2
  <2>4. ASSUME NEW q \in Callers, th'[q].pc = "failed" PROVE sick'
    BY <1>1, <1>2, <2>4, IdleFields DEF Basic, Locked, Alike
  <2> QED BY <1>2, <2>1, <2>3, <2>4 DEF Locked
<1>6. Closing'
  <2>1. th'[Closer].pc = th[Closer].pc
    BY <1>1, CallerFacts DEF Alike
  <2>2. \A w \in Slots : th'[w].pc = th[w].pc
    BY <1>1, CallerFacts DEF Alike
  <2> QED BY <1>2, <2>1, <2>2 DEF Basic, Closing
<1> QED BY <1>3, <1>4, <1>5, <1>6 DEF Basic

\* ------------------------------------------------------------ Goroutines
\* A step that moves one goroutine within its delivery.
LEMMA BasicGoto ==
    ASSUME Basic, NEW w \in Slots, NEW x \in {"exit", "start", "send", "inflight", "loop"}, Goto(w, x),
           th[w].op = "deliver", x \in {"send", "inflight"} => th[w].t \in Tasks,
           sent' \in [Tasks -> Nat],
           UNCHANGED <<up, closed, queue, list, heap, jobs, disk, sick, persistMu,
                       created, acked, asked, removed>>
    PROVE  Basic'
<1>1. /\ th' \in [Callers -> Threads] /\ Only(w) /\ th'[w].pc = x
      /\ th'[w].op = "deliver" /\ th'[w].t = th[w].t
  BY GotoEffect, CallerFacts DEF Basic, Unmoved
<1>2. TypeOK'
  BY <1>1 DEF Basic, TypeOK
<1>3. WorkerShape(th'[w]) /\ w \notin Clients
  BY <1>1, CallerFacts DEF WorkerShape
<1>4. ~Holds(w)' /\ th'[w].pc # "failed" /\ th'[w].pc # "save"
  BY <1>1 DEF Holds, KeepsLock
<1>5. th[w].pc # "idle"
  BY DEF Basic, Shape, WorkerShape
<1> QED BY <1>1, <1>2, <1>3, <1>4, <1>5, BasicOnly

LEMMA WorkerAt ==
    ASSUME Shape, NEW w \in Slots
    PROVE  /\ th[w].pc \in {"loop", "start", "prepare", "send", "inflight", "record", "exit"} =>
                 th[w].op = "deliver"
           /\ th[w].pc \in {"prepare", "send", "inflight", "record"} => th[w].t \in Tasks
           /\ th[w].op \in {"start", "outcome"} => th[w].t \in Tasks
           /\ th[w].pc = "record" \/ th[w].op = "outcome" => th[w].out # "none"
BY DEF Shape, WorkerShape

LEMMA BasicCheckContext == ASSUME Basic, NEW w \in Slots, CheckContext(w) PROVE Basic'
<1>1. /\ th[w].op = "deliver" /\ sent' = sent
      /\ UNCHANGED <<up, closed, queue, list, heap, jobs, disk, sick, persistMu, created, acked, asked, removed>>
      /\ Goto(w, "exit") \/ Goto(w, "start")
  BY DEF CheckContext, memory, history
<1>2. sent' \in [Tasks -> Nat]
  BY <1>1 DEF Basic, TypeOK
<1> QED BY <1>1, <1>2, BasicGoto

LEMMA BasicRecordAttemptStart == ASSUME Basic, NEW w \in Slots, RecordAttemptStart(w) PROVE Basic'
<1>1. th[w].pc = "start" /\ th[w].op = "deliver"
  BY WorkerAt DEF Basic, RecordAttemptStart
<1>2. UNCHANGED <<up, closed, queue, list, jobs, disk, sick, persistMu, created, acked, asked, removed, sent>>
  BY DEF RecordAttemptStart, history
<1>3. PICK t : t = Find(list, th[w].n)
  OBVIOUS
<1>4. CASE t = None \/ (t # None /\ Terminal(heap[t]))
  <2>1. Goto(w, "exit") /\ UNCHANGED heap
    BY <1>3, <1>4 DEF RecordAttemptStart
  <2>2. sent' \in [Tasks -> Nat]
    BY <1>2 DEF Basic, TypeOK
  <2> QED BY <1>1, <1>2, <2>1, <2>2, BasicGoto
<1>5. CASE t # None /\ ~Terminal(heap[t])
  <2>1. /\ th' \in [Callers -> Threads] /\ Only(w)
        /\ th'[w].pc = "persist" /\ th'[w].op = "start" /\ th'[w].t = t
        /\ t \in Tasks /\ heap' \in [Tasks -> Records]
    BY <1>3, <1>5, BasicTypes, AttemptEffect
  <2>2. TypeOK'
    BY <1>2, <2>1 DEF Basic, TypeOK
  <2>3. WorkerShape(th'[w]) /\ w \notin Clients
    BY <2>1, CallerFacts DEF WorkerShape
  <2>4. ~Holds(w)' /\ th'[w].pc # "failed" /\ th'[w].pc # "save" /\ th[w].pc # "idle"
    BY <1>1, <2>1 DEF Holds, KeepsLock
  <2> QED BY <1>2, <2>1, <2>2, <2>3, <2>4, BasicOnly
<1> QED BY <1>4, <1>5

LEMMA BasicAttemptStarted == ASSUME Basic, NEW w \in Slots, AttemptStarted(w) PROVE Basic'
<1>1. /\ th[w].op = "start" /\ th[w].pc = "saved"
      /\ UNCHANGED <<up, closed, queue, list, heap, jobs, disk, sick, persistMu, created, acked, asked, removed, sent>>
  BY DEF AttemptStarted, memory, history
<1>2. PICK x \in {"exit", "prepare"} : x = IF th[w].out = "FAILED" THEN "exit" ELSE "prepare"
  OBVIOUS
<1>3. /\ th' \in [Callers -> Threads] /\ Only(w) /\ th'[w].pc = x
      /\ th'[w].op = "deliver" /\ th'[w].t = th[w].t
  BY <1>2, AttemptStartedEffect DEF Basic
<1>4. TypeOK'
  BY <1>1, <1>3 DEF Basic, TypeOK
<1>5. th[w].t \in Tasks
  BY <1>1, WorkerAt DEF Basic
<1>6. WorkerShape(th'[w]) /\ w \notin Clients
  <2>1. CASE x = "exit"
    BY <1>3, <2>1, CallerFacts DEF WorkerShape
  <2>2. CASE x = "prepare"
    BY <1>3, <1>5, <2>2, CallerFacts DEF WorkerShape
  <2> QED BY <2>1, <2>2
<1>7. ~Holds(w)' /\ th'[w].pc # "failed" /\ th'[w].pc # "save" /\ th[w].pc # "idle"
  BY <1>1, <1>3 DEF Holds, KeepsLock
<1> QED BY <1>1, <1>3, <1>4, <1>6, <1>7, BasicOnly

LEMMA RestoredType ==
    ASSUME TypeOK, NEW w \in Slots, AttemptNotStarted(w) \/ OutcomeNotRecorded(w)
    PROVE  heap' \in [Tasks -> Records]
<1>1. th[w].was \in Records /\ heap \in [Tasks -> Records] /\ list \in Seq(Tasks)
  BY CallerFacts DEF TypeOK, Threads
<1>2. CASE OutcomeNotRecorded(w)
  <2>1. PICK t : t = Find(list, th[w].n)
    OBVIOUS
  <2>2. heap' = IF t = None THEN heap ELSE [heap EXCEPT ![t] = th[w].was]
    BY <1>2, <2>1 DEF OutcomeNotRecorded
  <2>3. t # None => t \in Tasks
    BY <1>1, <2>1, FindFacts
  <2> QED BY <1>1, <2>2, <2>3
<1>3. CASE AttemptNotStarted(w)
  BY <1>1, <1>3 DEF AttemptNotStarted
<1> QED BY <1>2, <1>3

LEMMA BasicRollback ==
    ASSUME Basic, NEW w \in Slots, AttemptNotStarted(w) \/ OutcomeNotRecorded(w) PROVE Basic'
<1>1. /\ th[w].pc = "failed"
      /\ UNCHANGED <<up, closed, queue, list, jobs, disk, sick, created, acked, asked, removed, sent>>
  BY DEF AttemptNotStarted, OutcomeNotRecorded, memory, history
<1>2. /\ th' \in [Callers -> Threads] /\ Only(w) /\ th'[w].pc = "exit" /\ th'[w].op = "deliver"
  BY AttemptNotStartedEffect DEF Basic
<1>3. (persistMu' = persistMu) \/ (persistMu = w /\ persistMu' = None)
  <2>1. CASE AttemptNotStarted(w)
    BY <2>1 DEF AttemptNotStarted
  <2>2. CASE OutcomeNotRecorded(w)
    <3>1. Holds(w)
      BY <2>2 DEF OutcomeNotRecorded, Holds, KeepsLock
    <3> QED BY <2>2, <3>1, CallerFacts DEF OutcomeNotRecorded, Basic, Locked
  <2> QED BY <2>1, <2>2
<1>4. TypeOK'
  <2>1. heap' \in [Tasks -> Records]
    BY RestoredType DEF Basic
  <2> QED BY <1>1, <1>2, <1>3, <2>1 DEF Basic, TypeOK
<1>5. WorkerShape(th'[w]) /\ w \notin Clients
  BY <1>2, CallerFacts DEF WorkerShape
<1>6. ~Holds(w)' /\ th'[w].pc # "failed" /\ th'[w].pc # "save" /\ th[w].pc # "idle"
  BY <1>1, <1>2 DEF Holds, KeepsLock
<1> QED BY <1>1, <1>2, <1>3, <1>4, <1>5, <1>6, BasicOnly

\* An outcome is there to be recorded.
LEMMA BasicRefused ==
    ASSUME Basic, NEW w \in Slots, NEW o \in {"COMPLETED", "FAILED", "RETRYING"},
           th[w].pc \in {"prepare", "inflight"},
           th' = [th EXCEPT ![w].pc = "record", ![w].out = o],
           UNCHANGED <<up, closed, queue, list, heap, jobs, disk, sick, persistMu,
                       created, acked, asked, removed, sent>>
    PROVE  Basic'
<1>1. /\ th' \in [Callers -> Threads] /\ Only(w) /\ th'[w].pc = "record"
      /\ th'[w].op = th[w].op /\ th'[w].t = th[w].t /\ th'[w].out = o
  BY RefusedEffect DEF Basic
<1>2. TypeOK'
  BY <1>1 DEF Basic, TypeOK
<1>3. th[w].t \in Tasks /\ th[w].op = "deliver"
  BY WorkerAt DEF Basic
<1>4. WorkerShape(th'[w]) /\ w \notin Clients
  BY <1>1, <1>3, CallerFacts DEF WorkerShape
<1>5. ~Holds(w)' /\ th'[w].pc # "failed" /\ th'[w].pc # "save" /\ th[w].pc # "idle"
  BY <1>1, <1>3 DEF Holds, KeepsLock
<1> QED BY <1>1, <1>2, <1>4, <1>5, BasicOnly

LEMMA BasicPrepare == ASSUME Basic, NEW w \in Slots, Prepare(w) PROVE Basic'
<1>1. /\ th[w].pc = "prepare" /\ sent' = sent
      /\ UNCHANGED <<up, closed, queue, list, heap, jobs, disk, sick, persistMu, created, acked, asked, removed>>
      /\ Goto(w, "send") \/ th' = [th EXCEPT ![w].pc = "record", ![w].out = "FAILED"]
  BY DEF Prepare, memory, history
<1>2. sent' \in [Tasks -> Nat] /\ th[w].op = "deliver" /\ th[w].t \in Tasks
  BY <1>1, WorkerAt DEF Basic, TypeOK
<1> QED BY <1>1, <1>2, BasicGoto, BasicRefused

LEMMA BasicSend == ASSUME Basic, NEW w \in Slots, Send(w) PROVE Basic'
<1>1. /\ th[w].pc = "send"
      /\ UNCHANGED <<up, closed, queue, list, heap, jobs, disk, sick, persistMu, created, acked, asked, removed>>
      /\ \/ Goto(w, "exit") /\ sent' = sent
         \/ Goto(w, "inflight") /\ sent' = [sent EXCEPT ![th[w].t] = @ + 1]
  BY DEF Send, memory, history
<1>2. th[w].op = "deliver" /\ th[w].t \in Tasks /\ sent \in [Tasks -> Nat]
  BY <1>1, WorkerAt DEF Basic, TypeOK
<1>3. sent' \in [Tasks -> Nat]
  BY <1>1, <1>2
<1> QED BY <1>1, <1>2, <1>3, BasicGoto

LEMMA AnswerCases ==
    ASSUME NEW w \in Slots, Answer(w)
    PROVE  \/ Cancelled(w) /\ Goto(w, "exit")
           \/ \E o \in {"COMPLETED", "FAILED", "RETRYING"} :
                 ~Cancelled(w) /\ th' = [th EXCEPT ![w].pc = "record", ![w].out = o]
BY DEF Answer

LEMMA BasicAnswer == ASSUME Basic, NEW w \in Slots, Answer(w) PROVE Basic'
<1>1. /\ th[w].pc = "inflight" /\ sent' = sent
      /\ UNCHANGED <<up, closed, queue, list, heap, jobs, disk, sick, persistMu, created, acked, asked, removed>>
  BY DEF Answer, memory, history
<1>2. sent' \in [Tasks -> Nat] /\ th[w].op = "deliver" /\ th[w].t \in Tasks
  BY <1>1, WorkerAt DEF Basic, TypeOK
<1>3. CASE Goto(w, "exit")
  BY <1>1, <1>2, <1>3, BasicGoto
<1>4. CASE \E o \in {"COMPLETED", "FAILED", "RETRYING"} :
              th' = [th EXCEPT ![w].pc = "record", ![w].out = o]
  BY <1>1, <1>4, BasicRefused
<1> QED BY <1>3, <1>4, AnswerCases

LEMMA BasicRecordAttemptOutcome == ASSUME Basic, NEW w \in Slots, RecordAttemptOutcome(w) PROVE Basic'
<1>1. /\ th[w].pc = "record" /\ th[w].op = "deliver" /\ th[w].t \in Tasks /\ th[w].out # "none"
      /\ persistMu = None
      /\ UNCHANGED <<up, closed, queue, list, jobs, disk, sick, created, acked, asked, removed, sent>>
  BY WorkerAt DEF Basic, RecordAttemptOutcome, history
<1>2. CASE Find(list, th[w].n) = None
  <2>1. Goto(w, AfterOutcome(th[w].out)) /\ UNCHANGED <<heap, persistMu>>
    BY <1>2 DEF RecordAttemptOutcome
  <2>2. AfterOutcome(th[w].out) \in {"loop", "exit"} /\ sent' \in [Tasks -> Nat]
    BY <1>1 DEF AfterOutcome, Basic, TypeOK
  <2> QED BY <1>1, <2>1, <2>2, BasicGoto
<1>3. CASE Find(list, th[w].n) # None
  <2>1. /\ th' \in [Callers -> Threads] /\ Only(w) /\ th'[w].op = "outcome" /\ th'[w].pc = "save"
        /\ th'[w].doc = CloneMetadata(queue, list, heap') /\ th'[w].t = th[w].t
        /\ th'[w].out = th[w].out
    BY <1>1, <1>3, OutcomeEffect DEF Basic
  <2>2. heap' = [heap EXCEPT ![Find(list, th[w].n)].status = th[w].out] /\ persistMu' = w
    BY <1>3 DEF RecordAttemptOutcome
  <2>3. Find(list, th[w].n) \in Tasks /\ th[w].out \in {"COMPLETED", "FAILED", "RETRYING"}
    BY <1>1, <1>3, FindFacts, CallerFacts DEF Basic, TypeOK, Threads
  <2>4. heap' \in [Tasks -> Records]
    BY <2>2, <2>3, StatusType DEF Basic, TypeOK
  <2>5. TypeOK'
    BY <1>1, <2>1, <2>2, <2>4, CallerFacts DEF Basic, TypeOK
  <2>6. th'[w].doc \in Documents
    BY <2>1, <2>4, CloneFacts DEF Basic, TypeOK
  <2>7. WorkerShape(th'[w]) /\ w \notin Clients
    BY <1>1, <2>1, CallerFacts DEF WorkerShape
  <2>8. th'[w].pc # "failed" /\ th[w].pc # "idle"
    BY <1>1, <2>1
  <2> QED BY <1>1, <2>1, <2>2, <2>5, <2>6, <2>7, <2>8, BasicOnly
<1> QED BY <1>2, <1>3

LEMMA BasicOutcomeRecorded == ASSUME Basic, NEW w \in Slots, OutcomeRecorded(w) PROVE Basic'
<1>1. /\ th[w].op = "outcome" /\ th[w].pc = "saved" /\ persistMu' = None
      /\ UNCHANGED <<up, closed, queue, list, heap, jobs, disk, sick, created, acked, asked, removed, sent>>
  BY DEF OutcomeRecorded, memory, history
<1>2. /\ th' \in [Callers -> Threads] /\ Only(w) /\ th'[w].pc = AfterOutcome(th[w].out)
      /\ th'[w].op = "deliver"
  BY OutcomeRecordedEffect DEF Basic
<1>3. AfterOutcome(th[w].out) \in {"loop", "exit"}
  BY DEF AfterOutcome
<1>4. TypeOK'
  BY <1>1, <1>2 DEF Basic, TypeOK
<1>5. WorkerShape(th'[w]) /\ w \notin Clients
  BY <1>2, <1>3, CallerFacts DEF WorkerShape
<1>6. persistMu = w
  BY <1>1, CallerFacts DEF Basic, Locked, Holds, KeepsLock
<1>7. ~Holds(w)' /\ th'[w].pc # "failed" /\ th'[w].pc # "save" /\ th[w].pc # "idle"
  BY <1>1, <1>2, <1>3 DEF Holds, KeepsLock
<1> QED BY <1>1, <1>2, <1>4, <1>5, <1>6, <1>7, BasicOnly

LEMMA BasicExit == ASSUME Basic, NEW w \in Slots, Exit(w) PROVE Basic'
<1>1. th' \in [Callers -> Threads] /\ Only(w) /\ th'[w] = Idle
  BY IdleEffect, CallerFacts DEF Basic, Exit
<1>2. /\ th[w].pc = "exit" /\ jobs' = [n \in Names |-> IF jobs[n] = w THEN None ELSE jobs[n]]
      /\ UNCHANGED <<up, closed, queue, list, heap, disk, sick, persistMu, created, acked, asked, removed, sent>>
  BY DEF Exit, history
<1>3. TypeOK'
  <2>1. jobs' \in [Names -> Slots \cup {None}]
    BY <1>2 DEF Basic, TypeOK
  <2> QED BY <1>1, <1>2, <2>1 DEF Basic, TypeOK
<1>4. WorkerShape(th'[w]) /\ w \notin Clients /\ th'[w].pc = "idle"
  BY <1>1, IdleFields, CallerFacts DEF WorkerShape
<1>5. ~Holds(w)' /\ th[w].pc # "idle"
  BY <1>2, <1>4 DEF Holds
<1> QED BY <1>1, <1>2, <1>3, <1>4, <1>5, BasicOnly

\* ------------------------------------------- Shutdown, crash and restart
LEMMA CloserOnly ==
    ASSUME Basic, Only(Closer), TypeOK', CloserShape(th'[Closer]),
           th'[Closer].pc \in {"idle", "wait", "persist"},
           th'[Closer].pc # "idle" => closed',
           th'[Closer].pc = "persist" => \A w \in Slots : th[w].pc = "idle",
           closed => closed',
           sick' <=> sick, up' <=> up, persistMu' = persistMu, up \/ th[Closer].pc # "idle"
    PROVE  Basic'
<1>1. Closer \in Callers /\ Closer \notin Slots /\ Closer \notin Clients
  BY CallerFacts
<1>2. th'[Closer].pc # "save" /\ th'[Closer].pc # "failed"
  OBVIOUS
<1>3. Shape'
  BY <1>1, <1>2, ShapeOnly DEF Basic
<1>4. ~Holds(Closer)'
  BY DEF Holds
<1>5. Locked'
  BY <1>1, <1>2, <1>4, LockedOnly DEF Basic
<1>6. Closing'
  <2>1. \A w \in Slots : th'[w] = th[w]
    BY <1>1, CallerFacts DEF Only
  <2> QED BY <2>1 DEF Closing
<1> QED BY <1>3, <1>5, <1>6 DEF Basic

LEMMA BasicShutdown == ASSUME Basic, Shutdown PROVE Basic'
<1>1. /\ th' \in [Callers -> Threads] /\ Only(Closer) /\ th'[Closer].pc = "wait"
      /\ th'[Closer].op = "shutdown"
  BY ShutdownEffect DEF Basic
<1>2. /\ up /\ closed' /\ closed' \in BOOLEAN
      /\ UNCHANGED <<up, queue, list, heap, jobs, disk, sick, persistMu, created, acked, asked, removed, sent>>
  BY DEF Shutdown, memory, history
<1>3. TypeOK'
  BY <1>1, <1>2 DEF Basic, TypeOK
<1>4. CloserShape(th'[Closer])
  BY <1>1 DEF CloserShape
<1> QED BY <1>1, <1>2, <1>3, <1>4, CloserOnly

LEMMA BasicWorkersDone == ASSUME Basic, WorkersDone PROVE Basic'
<1>1. /\ th[Closer].pc = "wait" /\ \A w \in Slots : th[w].pc = "idle"
  BY DEF WorkersDone
<1>2. /\ heap' = MarkInterrupted(list, heap) /\ Goto(Closer, "persist")
      /\ UNCHANGED <<up, closed, queue, list, jobs, disk, sick, persistMu, created, acked, asked, removed, sent>>
  BY DEF WorkersDone, history
<1>3. /\ th' \in [Callers -> Threads] /\ Only(Closer) /\ th'[Closer].pc = "persist"
      /\ th'[Closer].op = th[Closer].op
  BY <1>2, GotoEffect, CallerFacts DEF Basic, Unmoved
<1>4. TypeOK'
  <2>1. heap' \in [Tasks -> Records]
    BY <1>2, MarkFacts DEF Basic, TypeOK
  <2> QED BY <1>2, <1>3, <2>1 DEF Basic, TypeOK
<1>5. CloserShape(th'[Closer])
  BY <1>1, <1>3 DEF CloserShape, Basic, Shape
<1>6. closed
  BY <1>1 DEF Basic, Closing
<1> QED BY <1>1, <1>2, <1>3, <1>4, <1>5, <1>6, CloserOnly

LEMMA BasicShutdownFails == ASSUME Basic, ShutdownFails PROVE Basic'
<1>1. th' \in [Callers -> Threads] /\ Only(Closer) /\ th'[Closer] = Idle
  BY IdleEffect, CallerFacts DEF Basic, ShutdownFails
<1>2. /\ th[Closer].pc # "idle"
      /\ UNCHANGED <<up, closed, queue, list, heap, jobs, disk, sick, persistMu, created, acked, asked, removed, sent>>
  BY DEF ShutdownFails, memory, history
<1>3. TypeOK'
  BY <1>1, <1>2 DEF Basic, TypeOK
<1>4. CloserShape(th'[Closer]) /\ th'[Closer].pc = "idle"
  BY <1>1, IdleFields DEF CloserShape
<1> QED BY <1>1, <1>2, <1>3, <1>4, CloserOnly

LEMMA BasicCrash == ASSUME Basic, Crash PROVE Basic'
<1>1. /\ th' \in [Callers -> Threads] /\ \A p \in Callers : th'[p] = Idle
      /\ list' = <<>> /\ heap' \in [Tasks -> Records] /\ jobs' \in [Names -> Slots \cup {None}]
  BY CrashEffect
<1>2. /\ ~up' /\ ~closed' /\ ~sick' /\ ~queue' /\ persistMu' = None
      /\ up' \in BOOLEAN /\ closed' \in BOOLEAN /\ sick' \in BOOLEAN /\ queue' \in BOOLEAN
      /\ UNCHANGED <<disk, created, acked, asked, removed, sent>>
  BY DEF Crash, history
<1>3. TypeOK'
  BY <1>1, <1>2, EmptyFacts DEF Basic, TypeOK
<1>4. \A p \in Callers : th'[p].pc = "idle" /\ th'[p].op = "none" /\ th'[p].t = None
  BY <1>1, IdleFields
<1>5. Shape'
  BY <1>4, CallerFacts DEF Shape, ClientShape, WorkerShape, CloserShape
<1>6. Locked'
  BY <1>2, <1>4 DEF Locked, Holds
<1>7. Closing'
  BY <1>4, CallerFacts DEF Closing
<1> QED BY <1>3, <1>5, <1>6, <1>7 DEF Basic

LEMMA BasicBoot == ASSUME Basic, Boot PROVE Basic'
<1>1. /\ th' = th /\ jobs' = jobs /\ disk' \in Documents
      /\ \/ up' /\ list' = disk.list /\ heap' = disk'.task /\ queue' \in BOOLEAN
         \/ UNCHANGED <<up, queue, list, heap>>
  BY BootEffect DEF Basic
<1>2. ~up /\ UNCHANGED <<closed, sick, persistMu, created, acked, asked, removed, sent>>
  BY DEF Boot, history
<1>3. up' \in BOOLEAN
  BY DEF Boot, Basic, TypeOK
<1>4. TypeOK'
  <2>1. disk'.task \in [Tasks -> Records]
    BY <1>1 DEF Documents
  <2>2. list' \in Seq(Tasks) /\ heap' \in [Tasks -> Records] /\ queue' \in BOOLEAN
    BY <1>1, <2>1, TypeFacts DEF Basic, TypeOK
  <2> QED BY <1>1, <1>2, <1>3, <2>2 DEF Basic, TypeOK
<1>5. Shape'
  BY <1>1 DEF Basic, Shape
<1>6. Locked'
  BY <1>1, <1>2 DEF Basic, Locked, Holds
<1>7. Closing'
  BY <1>1, <1>2 DEF Basic, Closing
<1> QED BY <1>4, <1>5, <1>6, <1>7 DEF Basic

LEMMA BasicInit == Init => Basic
<1> SUFFICES ASSUME Init PROVE Basic
  OBVIOUS
<1>1. /\ th = [p \in Callers |-> Idle] /\ list = <<>> /\ heap = [t \in Tasks |-> NewTask]
      /\ jobs = [n \in Names |-> None] /\ disk = CloneMetadata(FALSE, <<>>, heap)
      /\ created = {} /\ acked = {} /\ asked = {} /\ removed = {} /\ persistMu = None
      /\ sent = [t \in Tasks |-> 0]
  BY DEF Init
<1>2. up /\ ~closed /\ ~sick /\ up \in BOOLEAN /\ closed \in BOOLEAN /\ sick \in BOOLEAN /\ queue \in BOOLEAN
  BY DEF Init
<1>3. th \in [Callers -> Threads] /\ \A p \in Callers : th[p] = Idle
  BY <1>1, IdleType
<1>4. heap \in [Tasks -> Records] /\ jobs \in [Names -> Slots \cup {None}] /\ sent \in [Tasks -> Nat]
  BY <1>1, NewTaskType
<1>5. disk \in Documents
  BY <1>1, <1>4, CloneFacts, EmptyFacts
<1>6. TypeOK
  BY <1>1, <1>2, <1>3, <1>4, <1>5, EmptyFacts DEF TypeOK
<1>7. \A p \in Callers : th[p].pc = "idle" /\ th[p].op = "none" /\ th[p].t = None
  BY <1>3, IdleFields
<1>8. Shape
  BY <1>7, CallerFacts DEF Shape, ClientShape, WorkerShape, CloserShape
<1>9. Locked
  BY <1>2, <1>7 DEF Locked, Holds
<1>10. Closing
  BY <1>7, CallerFacts DEF Closing
<1> QED BY <1>6, <1>8, <1>9, <1>10 DEF Basic

LEMMA BasicStep == Basic /\ [Next]_vars => Basic'
<1> SUFFICES ASSUME Basic, [Next]_vars PROVE Basic'
  OBVIOUS
<1>1. CASE UNCHANGED vars
  BY <1>1 DEF vars, Basic, TypeOK, Shape, Locked, Closing, Holds
<1>2. ASSUME NEW c \in Clients, CreateQueue(c) \/ DeleteQueue(c) \/ Handle(c) PROVE Basic'
  BY <1>2, BasicCreateQueue, BasicDeleteQueue, BasicCreateQueueEnds, BasicCreateTaskEnds,
     BasicCreateTaskFails, BasicDeleteEnds, BasicDeleteFails DEF Handle
<1>3. ASSUME NEW c \in Clients, NEW t \in Tasks, CreateTask(c, t) PROVE Basic'
  BY <1>3, BasicCreateTask
<1>4. ASSUME NEW c \in Clients, NEW n \in Names, DeleteTask(c, n) PROVE Basic'
  BY <1>4, BasicDeleteTask
<1>5. ASSUME NEW p \in Callers, Save(p) PROVE Basic'
  BY <1>5, BasicPersist, BasicSave DEF Save
<1>6. ASSUME NEW w \in Slots, ExecuteTask(w) PROVE Basic'
  BY <1>6, BasicCheckContext, BasicRecordAttemptStart, BasicAttemptStarted, BasicRollback,
     BasicPrepare, BasicSend, BasicAnswer, BasicRecordAttemptOutcome, BasicOutcomeRecorded,
     BasicExit DEF ExecuteTask
<1>7. CASE Shutdown \/ WorkersDone \/ ShutdownFails \/ Crash \/ Boot
  BY <1>7, BasicShutdown, BasicWorkersDone, BasicShutdownFails, BasicCrash, BasicBoot
<1> QED BY <1>1, <1>2, <1>3, <1>4, <1>5, <1>6, <1>7 DEF Next

\* The state stays well-formed: the entries of api.tasks, the snapshots being
\* saved and the attempt counts, within the limits of normalizedRetryConfig.
THEOREM TypeCorrect == Spec => []TypeOK
<1>1. Basic => TypeOK
  BY DEF Basic
<1> QED BY <1>1, BasicInit, BasicStep, PTL DEF Spec

\* Once Shutdown has returned nil no delivery goroutine runs, and none starts,
\* whatever createTask calls were in progress (API.Shutdown, createTask).
THEOREM QuietAfterShutdownHolds == Spec => []QuietAfterShutdown
<1>1. Basic => QuietAfterShutdown
  BY DEF Basic, Closing, QuietAfterShutdown
<1> QED BY <1>1, BasicInit, BasicStep, PTL DEF Spec
-----------------------------------------------------------------------------
\* The lists.

\* What most steps of a delivery goroutine leave alone.
Moves(w) ==
    /\ Only(w) /\ th[w].pc # "idle"
    /\ th'[w].pc \notin {"idle", "save", "saved", "failed"}
    /\ th'[w].n = th[w].n /\ th'[w].max = th[w].max /\ (th'[w].dead <=> th[w].dead)
    /\ UNCHANGED <<list, jobs, disk, created, acked, asked, removed>>
    /\ (up' <=> up) /\ (closed' <=> closed) /\ (sick' <=> sick)
    /\ \/ th'[w].t \in {th[w].t, None}
       \/ th'[w].t \in Elements(list) /\ NameOf[th'[w].t] = th[w].n
RecordsFound(w) == RecordAttemptOutcome(w) /\ Find(list, th[w].n) # None

LEMMA GotoMoves ==
    ASSUME Basic, NEW w \in Slots, NEW x \in {"exit", "start", "send", "inflight", "loop"},
           Goto(w, x), th[w].pc # "idle",
           UNCHANGED <<up, closed, list, jobs, disk, sick, created, acked, asked, removed>>
    PROVE  Moves(w)
<1>1. /\ th' \in [Callers -> Threads] /\ Only(w) /\ th'[w].pc = x /\ Unmoved(w)
  BY GotoEffect, CallerFacts DEF Basic
<1>2. th'[w].pc \notin {"idle", "save", "saved", "failed"}
  BY <1>1
<1>3. th'[w].n = th[w].n /\ th'[w].max = th[w].max /\ (th'[w].dead <=> th[w].dead) /\ th'[w].t = th[w].t
  BY <1>1 DEF Unmoved
<1> QED BY <1>1, <1>2, <1>3 DEF Moves

LEMMA RefusedMoves ==
    ASSUME Basic, NEW w \in Slots, NEW o \in {"COMPLETED", "FAILED", "RETRYING"},
           th' = [th EXCEPT ![w].pc = "record", ![w].out = o], th[w].pc # "idle",
           UNCHANGED <<up, closed, list, jobs, disk, sick, created, acked, asked, removed>>
    PROVE  Moves(w)
<1>1. /\ Only(w) /\ th'[w].pc = "record" /\ th'[w].n = th[w].n /\ th'[w].t = th[w].t
      /\ th'[w].max = th[w].max /\ th'[w].dead = th[w].dead
  BY RefusedEffect DEF Basic
<1>2. th'[w].pc \notin {"idle", "save", "saved", "failed"}
  BY <1>1
<1>3. th'[w].dead <=> th[w].dead
  BY <1>1
<1> QED BY <1>1, <1>2, <1>3 DEF Moves

LEMMA WorkerSteps ==
    ASSUME Basic, NEW w \in Slots, ExecuteTask(w)
    PROVE  Moves(w) \/ RecordsFound(w) \/ Exit(w)
<1>1. CASE CheckContext(w)
  <2>1. /\ th[w].pc # "idle"
        /\ Goto(w, "exit") \/ Goto(w, "start")
        /\ UNCHANGED <<up, closed, list, jobs, disk, sick, created, acked, asked, removed>>
    BY <1>1 DEF CheckContext, memory, history
  <2> QED BY <2>1, GotoMoves
<1>2. CASE RecordAttemptStart(w)
  <2>1. /\ th[w].pc = "start"
        /\ UNCHANGED <<up, closed, list, jobs, disk, sick, created, acked, asked, removed>>
    BY <1>2 DEF RecordAttemptStart, history
  <2>2. PICK t : t = Find(list, th[w].n)
    OBVIOUS
  <2>3. CASE t = None \/ (t # None /\ Terminal(heap[t]))
    <3>1. Goto(w, "exit")
      BY <1>2, <2>2, <2>3 DEF RecordAttemptStart
    <3> QED BY <2>1, <3>1, GotoMoves
  <2>4. CASE t # None /\ ~Terminal(heap[t])
    <3>1. /\ Only(w) /\ th'[w].pc = "persist" /\ th'[w].t = t /\ th'[w].n = th[w].n
          /\ th'[w].max = th[w].max /\ th'[w].dead = th[w].dead
          /\ t \in Elements(list) /\ NameOf[t] = th[w].n
      <4>1. TypeOK
        BY DEF Basic
      <4> QED BY <1>2, <2>2, <2>4, <4>1, AttemptEffect, Zenon
    <3>2. th'[w].pc \notin {"idle", "save", "saved", "failed"} /\ th[w].pc # "idle"
      BY <2>1, <3>1
    <3>3. th'[w].dead <=> th[w].dead
      BY <3>1
    <3> QED BY <2>1, <3>1, <3>2, <3>3 DEF Moves
  <2> QED BY <2>3, <2>4
<1>3. CASE AttemptStarted(w)
  <2>1. /\ th[w].pc = "saved"
        /\ UNCHANGED <<up, closed, list, jobs, disk, sick, created, acked, asked, removed>>
    BY <1>3 DEF AttemptStarted, memory, history
  <2>2. PICK x \in {"exit", "prepare"} : x = IF th[w].out = "FAILED" THEN "exit" ELSE "prepare"
    OBVIOUS
  <2>3. /\ Only(w) /\ th'[w].pc = x /\ th'[w].t = th[w].t /\ th'[w].n = th[w].n
        /\ th'[w].max = th[w].max /\ th'[w].dead = th[w].dead
    BY <1>3, <2>2, AttemptStartedEffect DEF Basic
  <2>4. th'[w].pc \notin {"idle", "save", "saved", "failed"} /\ th[w].pc # "idle"
    BY <2>1, <2>3
  <2>5. th'[w].dead <=> th[w].dead
    BY <2>3
  <2> QED BY <2>1, <2>3, <2>4, <2>5 DEF Moves
<1>4. CASE AttemptNotStarted(w) \/ OutcomeNotRecorded(w)
  <2>1. /\ th[w].pc = "failed"
        /\ UNCHANGED <<up, closed, list, jobs, disk, sick, created, acked, asked, removed>>
    BY <1>4 DEF AttemptNotStarted, OutcomeNotRecorded, history
  <2>2. /\ Only(w) /\ th'[w].pc = "exit" /\ th'[w].t = th[w].t /\ th'[w].n = th[w].n
        /\ th'[w].max = th[w].max /\ th'[w].dead = th[w].dead
    BY <1>4, AttemptNotStartedEffect DEF Basic
  <2>3. th'[w].pc \notin {"idle", "save", "saved", "failed"} /\ th[w].pc # "idle"
    BY <2>1, <2>2
  <2>4. th'[w].dead <=> th[w].dead
    BY <2>2
  <2> QED BY <2>1, <2>2, <2>3, <2>4 DEF Moves
<1>5. CASE Prepare(w)
  <2>1. /\ th[w].pc = "prepare"
        /\ Goto(w, "send") \/ th' = [th EXCEPT ![w].pc = "record", ![w].out = "FAILED"]
        /\ UNCHANGED <<up, closed, list, jobs, disk, sick, created, acked, asked, removed>>
    BY <1>5 DEF Prepare, memory, history
  <2>2. th[w].pc # "idle"
    BY <2>1
  <2> QED BY <2>1, <2>2, GotoMoves, RefusedMoves
<1>6. CASE Send(w)
  <2>1. /\ th[w].pc = "send"
        /\ Goto(w, "exit") \/ Goto(w, "inflight")
        /\ UNCHANGED <<up, closed, list, jobs, disk, sick, created, acked, asked, removed>>
    BY <1>6 DEF Send, memory
  <2>2. th[w].pc # "idle"
    BY <2>1
  <2> QED BY <2>1, <2>2, GotoMoves
<1>7. CASE Answer(w)
  <2>1. /\ th[w].pc = "inflight"
        /\ UNCHANGED <<up, closed, list, jobs, disk, sick, created, acked, asked, removed>>
    BY <1>7 DEF Answer, memory, history
  <2>2. th[w].pc # "idle"
    BY <2>1
  <2> QED BY <1>7, <2>1, <2>2, AnswerCases, GotoMoves, RefusedMoves
<1>8. CASE RecordAttemptOutcome(w) /\ Find(list, th[w].n) = None
  <2>1. /\ th[w].pc = "record" /\ Goto(w, AfterOutcome(th[w].out))
        /\ UNCHANGED <<up, closed, list, jobs, disk, sick, created, acked, asked, removed>>
    BY <1>8 DEF RecordAttemptOutcome, history
  <2>2. AfterOutcome(th[w].out) \in {"loop", "exit"} /\ th[w].pc # "idle"
    BY <2>1 DEF AfterOutcome
  <2> QED BY <2>1, <2>2, GotoMoves
<1>9. CASE OutcomeRecorded(w)
  <2>1. /\ th[w].pc = "saved"
        /\ UNCHANGED <<up, closed, list, jobs, disk, sick, created, acked, asked, removed>>
    BY <1>9 DEF OutcomeRecorded, memory, history
  <2>2. /\ Only(w) /\ th'[w].pc = AfterOutcome(th[w].out) /\ th'[w].t = None /\ th'[w].n = th[w].n
        /\ th'[w].max = th[w].max /\ th'[w].dead = th[w].dead
    BY <1>9, OutcomeRecordedEffect DEF Basic
  <2>3. AfterOutcome(th[w].out) \in {"loop", "exit"}
    BY DEF AfterOutcome
  <2>4. th'[w].pc \notin {"idle", "save", "saved", "failed"} /\ th[w].pc # "idle"
    BY <2>1, <2>2, <2>3
  <2>5. th'[w].dead <=> th[w].dead
    BY <2>2
  <2> QED BY <2>1, <2>2, <2>4, <2>5 DEF Moves
<1> QED BY <1>1, <1>2, <1>3, <1>4, <1>5, <1>6, <1>7, <1>8, <1>9 DEF ExecuteTask, RecordsFound

\* Nobody else holds persistMu, or is between a change of memory and its end.
Alone(p) == \A q \in Callers : q # p => ~Holds(q)
Calm(p) ==
    /\ \A c \in Clients : c # p => th'[c] = th[c]
    /\ \A q \in Callers : q # p /\ th'[q].pc = "save" => th[q].pc = "save" /\ th'[q].doc = th[q].doc

LEMMA OnlyCalm == ASSUME NEW p \in Callers, Only(p) PROVE Calm(p)
BY CallerFacts DEF Only, Calm

LEMMA AloneFacts ==
    ASSUME Locked, NEW p \in Callers, Holds(p) \/ persistMu = None PROVE Alone(p)
BY CallerFacts DEF Locked, Alone

LEMMA DeletesFacts ==
    ASSUME Basic, NEW c \in Clients, Deletes(c)
    PROVE  Holds(c) /\ th[c].pc \in {"save", "saved", "failed"} /\ Gone(c) \subseteq Tasks /\ up
<1>1. th[c].pc \in {"save", "saved", "failed"} /\ (th[c].op = "deleteTask" => th[c].t \in Tasks)
  BY DEF Basic, Shape, ClientShape, Deletes
<1>2. KeepsLock(th[c].op)
  BY DEF Deletes, KeepsLock
<1>3. Elements(th[c].list) \subseteq Tasks
  BY CallerFacts, TypeFacts, FindFacts DEF Basic
<1>4. up
  BY <1>1, CallerFacts DEF Basic, Locked
<1> QED BY <1>1, <1>2, <1>3, <1>4 DEF Holds, Gone

LEMMA SoundGrows ==
    ASSUME NEW l, Sound(l), created \subseteq created', removed' = removed
    PROVE  Distinct(l) /\ Elements(l) \subseteq created' \ removed'
BY DEF Sound

\* A step keeps the lists sound if what it writes is.
LEMMA ListsFrame ==
    ASSUME Basic, Lists, NEW p \in Callers, Calm(p),
           created \subseteq created', asked \subseteq asked', removed' \subseteq asked',
           asked' \subseteq created', acked' \subseteq created',
           Sound(list)', Sound(disk.list)',
           th'[p].pc = "save" => Sound(th[p].doc.list)',
           p \in Clients => Requesting(p)',
           \/ Alone(p)
           \/ /\ removed' = removed /\ disk'.list = disk.list
              /\ Elements(list') \subseteq Elements(list) \cup (Tasks \ created)
    PROVE  Lists'
<1>1. Histories'
  BY DEF Histories
<1>2. ASSUME NEW q \in Callers, th'[q].pc = "save" PROVE Sound(th[q].doc.list)'
  <2>1. CASE q = p
    BY <1>2, <2>1
  <2>2. CASE q # p
    <3>1. th[q].pc = "save" /\ th'[q].doc = th[q].doc
      BY <1>2, <2>2 DEF Calm
    <3>2. ~Alone(p)
      BY <2>2, <3>1 DEF Alone, Holds
    <3>3. Sound(th[q].doc.list)
      BY <3>1 DEF Lists, SoundLists
    <3> QED BY <3>1, <3>2, <3>3 DEF Sound
  <2> QED BY <2>1, <2>2
<1>3. SoundLists'
  BY <1>2 DEF SoundLists
<1>4. ASSUME NEW c \in Clients PROVE Requesting(c)'
  <2>1. CASE c = p
    BY <2>1
  <2>2. CASE c # p
    <3>1. th'[c] = th[c] /\ c \in Callers
      BY <2>2, CallerFacts DEF Calm
    <3>2. Requesting(c)
      BY DEF Lists
    <3>3. th'[c].op = "createTask" => th'[c].t \in created'
      BY <3>1, <3>2 DEF Requesting
    <3>4. ASSUME Deletes(c)' PROVE Deleting(c)'
      <4>1. Deletes(c)
        BY <3>1, <3>4 DEF Deletes
      <4>2. Holds(c) /\ Deleting(c)
        BY <3>2, <4>1, DeletesFacts DEF Requesting
      <4>3. /\ removed' = removed /\ disk'.list = disk.list
            /\ Elements(list') \subseteq Elements(list) \cup (Tasks \ created)
        BY <2>2, <3>1, <4>2 DEF Alone
      <4>4. Gone(c)' = Gone(c) /\ Gone(c) \subseteq created
        BY <3>1, <4>2 DEF Gone, Deleting, Lists, Histories
      <4>5. th[c].pc \in {"save", "saved"} => Gone(c) \cap Elements(list') = {}
        BY <4>2, <4>3, <4>4 DEF Deleting
      <4>6. th[c].pc \in {"save", "failed"} => Sound(th[c].list)'
        BY <3>1, <4>2, <4>3 DEF Deleting, Sound
      <4> QED BY <3>1, <4>2, <4>3, <4>4, <4>5, <4>6 DEF Deleting
    <3> QED BY <3>3, <3>4 DEF Requesting
  <2> QED BY <2>1, <2>2
<1> QED BY <1>1, <1>3, <1>4 DEF Lists

LEMMA ListsQuiet ==
    ASSUME Basic, Lists, NEW p \in Callers, Calm(p), list' = list, disk'.list = disk.list,
           UNCHANGED <<created, asked, removed>>, acked' \subseteq created,
           th'[p].pc # "save", p \in Clients => Requesting(p)'
    PROVE  Lists'
<1>1. Sound(list)' /\ Sound(disk.list)'
  BY DEF Lists, SoundLists, Sound
<1>2. removed' \subseteq asked' /\ asked' \subseteq created' /\ acked' \subseteq created'
  BY DEF Lists, Histories
<1> QED BY <1>1, <1>2, ListsFrame

LEMMA RestsRequest == ASSUME NEW c, th'[c].op \in {"none", "createQueue"} PROVE Requesting(c)'
BY DEF Requesting, Deletes

LEMMA ListsPersist == ASSUME Basic, Lists, NEW p \in Callers, PersistMetadata(p) PROVE Lists'
<1>1. /\ Only(p) /\ th'[p].pc = "save" /\ th'[p].doc = CloneMetadata(queue, list, heap)
      /\ th'[p].op = th[p].op /\ th'[p].t = th[p].t
  BY PersistEffect DEF Basic
<1>2. /\ th[p].pc = "persist" /\ persistMu = None
      /\ UNCHANGED <<list, disk, created, acked, asked, removed>>
  BY DEF PersistMetadata, memory, history
<1>3. th'[p].doc.list = list
  BY <1>1, CloneFacts DEF Basic, TypeOK
<1>4. Sound(list)' /\ Sound(disk.list)' /\ Sound(th[p].doc.list)'
  BY <1>2, <1>3 DEF Lists, SoundLists, Sound
<1>5. p \in Clients => Requesting(p)'
  <2> SUFFICES ASSUME p \in Clients PROVE Requesting(p)'
    OBVIOUS
  <2>1. Requesting(p) /\ ~Deletes(p)
    BY <1>2, DeletesFacts DEF Lists
  <2> QED BY <1>1, <1>2, <2>1 DEF Requesting, Deletes
<1>6. Calm(p) /\ Alone(p)
  BY <1>1, <1>2, OnlyCalm, AloneFacts DEF Basic
<1>7. created \subseteq created' /\ asked \subseteq asked' /\ removed' \subseteq asked'
      /\ asked' \subseteq created' /\ acked' \subseteq created'
  BY <1>2 DEF Lists, Histories
<1> QED BY <1>4, <1>5, <1>6, <1>7, ListsFrame

LEMMA ListsSave == ASSUME Basic, Lists, NEW p \in Callers, SaveOk(p) \/ SaveFails(p) PROVE Lists'
<1>1. /\ Only(p) /\ th'[p].pc \in {"saved", "failed"} /\ th'[p].op = th[p].op
      /\ th'[p].t = th[p].t /\ th'[p].list = th[p].list
      /\ (th'[p].pc = "saved" => SaveOk(p))
  <2>1. CASE SaveOk(p)
    BY <2>1, SaveOkEffect DEF Basic
  <2>2. CASE SaveFails(p)
    BY <2>2, SaveFailsEffect DEF Basic
  <2> QED BY <2>1, <2>2
<1>2. /\ th[p].pc = "save"
      /\ UNCHANGED <<list, created, acked, asked, removed>>
      /\ disk' = disk \/ disk' = th[p].doc
      /\ SaveOk(p) => disk' = th[p].doc
  BY DEF SaveOk, SaveFails, memory, history
<1>3. Sound(list)' /\ Sound(disk.list)'
  <2>1. Sound(list) /\ Sound(disk.list) /\ Sound(th[p].doc.list)
    BY <1>2 DEF Lists, SoundLists
  <2> QED BY <1>2, <2>1 DEF Sound
<1>4. p \in Clients => Requesting(p)'
  <2> SUFFICES ASSUME p \in Clients PROVE Requesting(p)'
    OBVIOUS
  <2>1. Requesting(p)
    BY DEF Lists
  <2>2. th'[p].op = "createTask" => th'[p].t \in created'
    BY <1>1, <1>2, <2>1 DEF Requesting
  <2>3. ASSUME Deletes(p)' PROVE Deleting(p)'
    <3>1. Deleting(p) /\ Gone(p)' = Gone(p)
      BY <1>1, <2>1, <2>3 DEF Requesting, Deletes, Gone
    <3>2. Gone(p) \subseteq asked' /\ Gone(p) \cap Elements(list') = {}
          /\ Gone(p) \cap Elements(th[p].doc.list) = {}
      BY <1>2, <3>1 DEF Deleting
    <3>3. Sound(th[p].list)'
      BY <1>1, <1>2, <3>1 DEF Deleting, Sound
    <3>4. th'[p].pc # "save"
      BY <1>1
    <3> QED BY <1>1, <1>2, <3>1, <3>2, <3>3, <3>4 DEF Deleting
  <2> QED BY <2>2, <2>3 DEF Requesting
<1>5. Calm(p) /\ Alone(p)
  <2>1. Holds(p)
    BY <1>2 DEF Holds
  <2> QED BY <1>1, <2>1, OnlyCalm, AloneFacts DEF Basic
<1>6. created \subseteq created' /\ asked \subseteq asked' /\ removed' \subseteq asked'
      /\ asked' \subseteq created' /\ acked' \subseteq created'
  BY <1>2 DEF Lists, Histories
<1>7. th'[p].pc # "save"
  BY <1>1
<1> QED BY <1>3, <1>4, <1>5, <1>6, <1>7, ListsFrame

LEMMA ListsCreateQueue ==
    ASSUME Basic, Lists, NEW c \in Clients, CreateQueue(c) \/ CreateQueueEnds(c) PROVE Lists'
<1>1. Only(c) /\ th'[c].op \in {"none", "createQueue"} /\ th'[c].pc # "save"
  <2>1. CASE CreateQueue(c)
    <3>1. Only(c) /\ th'[c].op = "createQueue" /\ th'[c].pc = "persist"
      BY <2>1, CreateQueueEffect DEF Basic
    <3> QED BY <3>1
  <2>2. CASE CreateQueueEnds(c)
    <3>1. Only(c) /\ th'[c] = Idle
      BY <2>2, IdleEffect, CallerFacts DEF Basic, CreateQueueEnds
    <3> QED BY <3>1, IdleFields
  <2> QED BY <2>1, <2>2
<1>2. UNCHANGED <<list, disk, created, acked, asked, removed>>
  BY DEF CreateQueue, CreateQueueEnds, history
<1>3. c \in Callers /\ Calm(c) /\ Requesting(c)'
  BY <1>1, OnlyCalm, CallerFacts, RestsRequest
<1>4. acked' \subseteq created
  BY <1>2 DEF Lists, Histories
<1> QED BY <1>1, <1>2, <1>3, <1>4, ListsQuiet

LEMMA ListsCreateTask ==
    ASSUME Basic, Lists, NEW c \in Clients, NEW t \in Tasks, CreateTask(c, t)
    PROVE  Lists'
<1>1. Only(c) /\ th'[c].op = "createTask" /\ th'[c].pc = "persist" /\ th'[c].t = t
  BY CreateTaskEffect DEF Basic
<1>2. /\ t \notin created /\ list' = Append(list, t) /\ created' = created \cup {t}
      /\ UNCHANGED <<disk, acked, asked, removed>>
  BY DEF CreateTask
<1>3. Elements(list) \subseteq created /\ removed \subseteq created
      /\ asked \subseteq created /\ acked \subseteq created
  BY DEF Lists, SoundLists, Sound, Histories
<1>4. Elements(list') = Elements(list) \cup {t} /\ Distinct(list')
  <2>1. list \in Seq(Tasks) /\ Distinct(list) /\ t \notin Elements(list)
    BY <1>2, <1>3 DEF Lists, SoundLists, Sound, Basic, TypeOK
  <2> QED BY <1>2, <2>1, AppendFacts
<1>5. Sound(list)' /\ Sound(disk.list)'
  BY <1>2, <1>3, <1>4 DEF Lists, SoundLists, Sound
<1>6. Requesting(c)' /\ th'[c].pc # "save"
  BY <1>1, <1>2 DEF Requesting, Deletes
<1>7. c \in Callers /\ Calm(c)
  BY <1>1, OnlyCalm, CallerFacts
<1>8. Elements(list') \subseteq Elements(list) \cup (Tasks \ created)
  BY <1>2, <1>4
<1>9. removed' \subseteq asked' /\ asked' \subseteq created' /\ acked' \subseteq created'
      /\ created \subseteq created' /\ asked \subseteq asked'
  BY <1>2, <1>3 DEF Lists, Histories
<1> QED BY <1>2, <1>5, <1>6, <1>7, <1>8, <1>9, ListsFrame

LEMMA CreatingFacts ==
    ASSUME Basic, NEW c \in Clients, th[c].op = "createTask"
    PROVE  th[c].t \in Tasks /\ up /\ c \in Callers
           /\ th[c].pc \in {"persist", "save", "saved", "failed"}
<1>1. th[c].pc \in {"persist", "save", "saved", "failed"} /\ th[c].t \in Tasks
  BY DEF Basic, Shape, ClientShape
<1> QED BY <1>1, CallerFacts DEF Basic, Locked

LEMMA ListsCreateTaskEnds ==
    ASSUME Basic, Lists, NEW c \in Clients, CreateTaskEnds(c) PROVE Lists'
<1>1. /\ th[c].op = "createTask" /\ acked' = acked \cup {th[c].t}
      /\ UNCHANGED <<list, disk, created, asked, removed>>
  BY DEF CreateTaskEnds
<1>2. /\ th'[c] = Idle /\ \A q \in Callers : q # c /\ q \notin Slots => th'[q] = th[q]
      /\ \A w \in Slots : th'[w] = th[w] \/ Fresh(w, c)
  BY <1>1, CreatingFacts, CreateTaskEndsEffect DEF Basic
<1>3. th[c].t \in created /\ acked \subseteq created
  BY <1>1 DEF Lists, Requesting, Histories
<1>4. Calm(c)
  <2>1. \A d \in Clients : d # c => th'[d] = th[d]
    BY <1>2, CallerFacts
  <2>2. ASSUME NEW q \in Callers, q # c, th'[q].pc = "save"
        PROVE  th[q].pc = "save" /\ th'[q].doc = th[q].doc
    <3>1. q \in Slots => ~Fresh(q, c)
      BY <2>2 DEF Fresh
    <3> QED BY <1>2, <2>2, <3>1
  <2> QED BY <2>1, <2>2 DEF Calm
<1>5. c \in Callers /\ th'[c].pc # "save" /\ Requesting(c)'
  BY <1>2, CallerFacts, IdleFields, RestsRequest
<1> QED BY <1>1, <1>3, <1>4, <1>5, ListsQuiet

LEMMA ListsCreateTaskFails ==
    ASSUME Basic, Lists, NEW c \in Clients, CreateTaskFails(c) PROVE Lists'
<1>1. Only(c) /\ th'[c] = Idle /\ c \in Callers
  BY IdleEffect, CallerFacts DEF Basic, CreateTaskFails
<1>2. list' = Without(list, NameOf[th[c].t]) /\ UNCHANGED <<disk, created, acked, asked, removed>>
  BY DEF CreateTaskFails, history
<1>3. Elements(list') \subseteq Elements(list) /\ Distinct(list')
  <2>1. list \in Seq(Tasks) /\ Distinct(list)
    BY DEF Basic, TypeOK, Lists, SoundLists, Sound
  <2> QED BY <1>2, <2>1, WithoutFacts
<1>4. Sound(list)' /\ Sound(disk.list)'
  BY <1>2, <1>3 DEF Lists, SoundLists, Sound
<1>5. Calm(c) /\ th'[c].pc # "save" /\ Requesting(c)'
  BY <1>1, OnlyCalm, IdleFields, RestsRequest
<1>6. removed' \subseteq asked' /\ asked' \subseteq created' /\ acked' \subseteq created'
      /\ created \subseteq created' /\ asked \subseteq asked'
  BY <1>2 DEF Lists, Histories
<1>7. Elements(list') \subseteq Elements(list) \cup (Tasks \ created)
  BY <1>3
<1> QED BY <1>1, <1>2, <1>4, <1>5, <1>6, <1>7, ListsFrame

LEMMA ListsDeleteTask ==
    ASSUME Basic, Lists, NEW c \in Clients, NEW n \in Names, DeleteTask(c, n) PROVE Lists'
<1> DEFINE t == Find(list, n)
<1>1. /\ Only(c) /\ th'[c].op = "deleteTask" /\ th'[c].pc = "save" /\ th'[c].t = t
      /\ th'[c].list = list /\ th'[c].doc = CloneMetadata(queue, Without(list, n), heap)
  BY DeleteTaskEffect DEF Basic
<1>2. /\ persistMu = None /\ t # None /\ list' = Without(list, n) /\ asked' = asked \cup {t}
      /\ UNCHANGED <<disk, created, acked, removed>>
  BY DEF DeleteTask
<1>3. list \in Seq(Tasks) /\ Distinct(list) /\ Elements(list) \subseteq created \ removed
  BY DEF Basic, TypeOK, Lists, SoundLists, Sound
<1>4. /\ Elements(list') \subseteq Elements(list) /\ Distinct(list') /\ t \notin Elements(list')
      /\ t \in Elements(list) /\ list' \in Seq(Tasks)
  BY <1>2, <1>3, WithoutFacts, FindFacts
<1>5. th'[c].doc.list = list'
  BY <1>1, <1>2, <1>4, CloneFacts DEF Basic, TypeOK
<1> HIDE DEF t
<1>6. Sound(list)' /\ Sound(disk.list)' /\ Sound(th[c].doc.list)' /\ Sound(th[c].list)'
  BY <1>1, <1>2, <1>3, <1>4, <1>5 DEF Lists, SoundLists, Sound
<1>7. Gone(c)' = {t}
  BY <1>1 DEF Gone
<1>8. Requesting(c)'
  BY <1>1, <1>2, <1>4, <1>5, <1>6, <1>7 DEF Requesting, Deleting
<1>9. Calm(c) /\ Alone(c) /\ c \in Callers
  BY <1>1, <1>2, OnlyCalm, AloneFacts, CallerFacts DEF Basic
<1>10. removed' \subseteq asked' /\ asked' \subseteq created' /\ acked' \subseteq created'
       /\ created \subseteq created' /\ asked \subseteq asked'
  BY <1>2, <1>3, <1>4 DEF Lists, Histories
<1> QED BY <1>6, <1>8, <1>9, <1>10, ListsFrame

LEMMA ListsDeleteQueue ==
    ASSUME Basic, Lists, NEW c \in Clients, DeleteQueue(c) PROVE Lists'
<1>1. /\ Only(c) /\ th'[c].op = "deleteQueue" /\ th'[c].pc = "save"
      /\ th'[c].list = list /\ th'[c].doc = CloneMetadata(FALSE, <<>>, heap)
  BY DeleteQueueEffect DEF Basic
<1>2. /\ persistMu = None /\ list' = <<>> /\ asked' = asked \cup Elements(list)
      /\ UNCHANGED <<disk, created, acked, removed>>
  BY DEF DeleteQueue
<1>3. Distinct(list) /\ Elements(list) \subseteq created \ removed
  BY DEF Lists, SoundLists, Sound
<1>4. th'[c].doc.list = <<>>
  <2>1. CloneMetadata(FALSE, <<>>, heap).list = <<>>
    BY DEF CloneMetadata
  <2> QED BY <1>1, <2>1
<1>5. Sound(list)' /\ Sound(disk.list)' /\ Sound(th[c].doc.list)' /\ Sound(th[c].list)'
  BY <1>1, <1>2, <1>3, <1>4, EmptyFacts DEF Lists, SoundLists, Sound
<1>6. Gone(c)' = Elements(list)
  BY <1>1 DEF Gone
<1>7. Requesting(c)'
  BY <1>1, <1>2, <1>4, <1>5, <1>6, EmptyFacts DEF Requesting, Deleting
<1>8. Calm(c) /\ Alone(c) /\ c \in Callers
  BY <1>1, <1>2, OnlyCalm, AloneFacts, CallerFacts DEF Basic
<1>9. removed' \subseteq asked' /\ asked' \subseteq created' /\ acked' \subseteq created'
      /\ created \subseteq created' /\ asked \subseteq asked'
  BY <1>2, <1>3 DEF Lists, Histories
<1> QED BY <1>5, <1>7, <1>8, <1>9, ListsFrame

\* No handler and no saving thread is cancelled by a deletion.
LEMMA DeleteEndsCalm ==
    ASSUME Basic, NEW c \in Clients, DeleteEnds(c)
    PROVE  Calm(c) /\ th'[c] = Idle /\ c \in Callers /\ th'[Closer] = th[Closer]
<1>1. /\ th'[c] = Idle /\ \A q \in Callers : q # c => Alike(q)
      /\ \A q \in Callers : q # c /\ ~Killed(q, c) => th'[q] = th[q]
  BY DeleteEndsEffect DEF Basic
<1>2. Gone(c) \subseteq Tasks
  BY DeletesFacts DEF DeleteEnds
<1>3. ASSUME NEW q \in Callers, q \notin Slots PROVE ~Killed(q, c)
  <2>1. \A t \in Gone(c) : NameOf[t] \in Names /\ jobs[NameOf[t]] \in Slots \cup {None}
    BY <1>2, TasksAssumption DEF Basic, TypeOK
  <2> QED BY <1>3, <2>1, CallerFacts DEF Killed
<1>4. Calm(c)
  BY <1>1, <1>3, CallerFacts DEF Calm, Alike
<1> QED BY <1>1, <1>3, <1>4, CallerFacts

LEMMA ListsDeleteEnds ==
    ASSUME Basic, Lists, NEW c \in Clients, DeleteEnds(c) PROVE Lists'
<1>1. /\ Deletes(c) /\ th[c].pc = "saved" /\ removed' = removed \cup Gone(c)
      /\ UNCHANGED <<list, disk, created, acked, asked>>
  BY DEF DeleteEnds
<1>2. /\ Gone(c) \cap Elements(list) = {} /\ Gone(c) \cap Elements(disk.list) = {}
      /\ Gone(c) \subseteq asked
  BY <1>1 DEF Lists, Requesting, Deleting
<1>3. Sound(list)' /\ Sound(disk.list)'
  BY <1>1, <1>2 DEF Lists, SoundLists, Sound
<1>4. Calm(c) /\ th'[c] = Idle /\ c \in Callers /\ Alone(c)
  BY <1>1, DeleteEndsCalm, DeletesFacts, AloneFacts DEF Basic
<1>5. Requesting(c)' /\ th'[c].pc # "save"
  BY <1>4, IdleFields, RestsRequest
<1>6. removed' \subseteq asked' /\ asked' \subseteq created' /\ acked' \subseteq created'
      /\ created \subseteq created' /\ asked \subseteq asked'
  BY <1>1, <1>2 DEF Lists, Histories
<1> QED BY <1>3, <1>4, <1>5, <1>6, ListsFrame

LEMMA ListsDeleteFails ==
    ASSUME Basic, Lists, NEW c \in Clients, DeleteFails(c) PROVE Lists'
<1>1. Only(c) /\ th'[c] = Idle /\ c \in Callers
  BY IdleEffect, CallerFacts DEF Basic, DeleteFails
<1>2. /\ Deletes(c) /\ th[c].pc = "failed"
      /\ list' = th[c].list \/ list' = list
      /\ UNCHANGED <<disk, created, acked, asked, removed>>
  BY DEF DeleteFails, history
<1>3. Sound(list) /\ Sound(th[c].list) /\ Sound(disk.list)
  BY <1>2 DEF Lists, SoundLists, Requesting, Deleting
<1>4. Sound(list)' /\ Sound(disk.list)'
  BY <1>2, <1>3 DEF Sound
<1>5. Calm(c) /\ th'[c].pc # "save" /\ Requesting(c)' /\ Alone(c)
  BY <1>1, <1>2, OnlyCalm, IdleFields, RestsRequest, DeletesFacts, AloneFacts DEF Basic
<1>6. removed' \subseteq asked' /\ asked' \subseteq created' /\ acked' \subseteq created'
      /\ created \subseteq created' /\ asked \subseteq asked'
  BY <1>2 DEF Lists, Histories
<1> QED BY <1>1, <1>4, <1>5, <1>6, ListsFrame

LEMMA RecordsEffect ==
    ASSUME Basic, NEW w \in Slots, RecordsFound(w)
    PROVE  /\ Only(w) /\ th'[w].op = "outcome" /\ th'[w].pc = "save"
           /\ th'[w].doc = CloneMetadata(queue, list, heap') /\ heap' \in [Tasks -> Records]
           /\ th'[w].doc.list = list /\ th'[w].n = th[w].n /\ th'[w].t = th[w].t
           /\ th'[w].max = th[w].max /\ th'[w].k = th[w].k /\ th'[w].out = th[w].out
           /\ (th'[w].dead <=> th[w].dead)
           /\ th[w].pc = "record" /\ persistMu = None /\ th[w].out # "none"
           /\ heap' = [heap EXCEPT ![Find(list, th[w].n)].status = th[w].out]
           /\ UNCHANGED <<up, closed, queue, list, jobs, disk, sick, created, acked, asked, removed, sent>>
<1>1. /\ th[w].pc = "record" /\ persistMu = None
      /\ heap' = [heap EXCEPT ![Find(list, th[w].n)].status = th[w].out]
      /\ UNCHANGED <<up, closed, queue, list, jobs, disk, sick, created, acked, asked, removed, sent>>
  BY DEF RecordsFound, RecordAttemptOutcome, history
<1>2. th[w].out # "none"
  BY <1>1, WorkerAt DEF Basic
<1>3. /\ th' \in [Callers -> Threads] /\ Only(w) /\ th'[w].op = "outcome" /\ th'[w].pc = "save"
      /\ th'[w].doc = CloneMetadata(queue, list, heap')
      /\ th'[w].n = th[w].n /\ th'[w].t = th[w].t
      /\ th'[w].max = th[w].max /\ th'[w].k = th[w].k /\ th'[w].out = th[w].out
      /\ th'[w].dead = th[w].dead
  BY <1>2, OutcomeEffect DEF Basic, RecordsFound
<1>4. Find(list, th[w].n) \in Tasks /\ th[w].out \in {"COMPLETED", "FAILED", "RETRYING"}
  BY <1>2, FindFacts, CallerFacts DEF Basic, TypeOK, Threads, RecordsFound
<1>5. heap' \in [Tasks -> Records]
  BY <1>1, <1>4, StatusType DEF Basic, TypeOK
<1>6. th'[w].doc.list = list
  BY <1>3, <1>5, CloneFacts DEF Basic, TypeOK
<1>7. th'[w].dead <=> th[w].dead
  BY <1>3
<1> QED BY <1>1, <1>2, <1>3, <1>5, <1>6, <1>7

LEMMA ListsWorker ==
    ASSUME Basic, Lists, NEW w \in Slots, ExecuteTask(w) PROVE Lists'
<1>0. w \in Callers /\ w \notin Clients
  BY CallerFacts
<1>1. CASE Moves(w)
  <2>1. /\ Only(w) /\ th'[w].pc # "save" /\ UNCHANGED <<list, disk, created, acked, asked, removed>>
    BY <1>1 DEF Moves
  <2>2. Calm(w) /\ acked' \subseteq created
    BY <1>0, <2>1, OnlyCalm DEF Lists, Histories
  <2> QED BY <1>0, <2>1, <2>2, ListsQuiet
<1>2. CASE Exit(w)
  <2>1. Only(w) /\ th'[w] = Idle /\ UNCHANGED <<list, disk, created, acked, asked, removed>>
    BY <1>0, <1>2, IdleEffect DEF Basic, Exit, history
  <2>2. Calm(w) /\ acked' \subseteq created /\ th'[w].pc # "save"
    BY <1>0, <2>1, OnlyCalm, IdleFields DEF Lists, Histories
  <2> QED BY <1>0, <2>1, <2>2, ListsQuiet
<1>3. CASE RecordsFound(w)
  <2>1. /\ Only(w) /\ th'[w].doc.list = list /\ persistMu = None
        /\ UNCHANGED <<list, disk, created, acked, asked, removed>>
    BY <1>3, RecordsEffect
  <2>2. Sound(list)' /\ Sound(disk.list)' /\ Sound(th[w].doc.list)'
    BY <2>1 DEF Lists, SoundLists, Sound
  <2>3. Calm(w) /\ Alone(w)
    BY <1>0, <2>1, OnlyCalm, AloneFacts DEF Basic
  <2>4. removed' \subseteq asked' /\ asked' \subseteq created' /\ acked' \subseteq created'
        /\ created \subseteq created' /\ asked \subseteq asked'
    BY <2>1 DEF Lists, Histories
  <2> QED BY <1>0, <2>2, <2>3, <2>4, ListsFrame
<1> QED BY <1>1, <1>2, <1>3, WorkerSteps

LEMMA CloserSteps ==
    ASSUME Basic, Shutdown \/ WorkersDone \/ ShutdownFails
    PROVE  /\ Only(Closer) /\ th'[Closer].pc \in {"idle", "wait", "persist"}
           /\ UNCHANGED <<list, jobs, disk, created, acked, asked, removed, sent>>
           /\ (up' <=> up) /\ (sick' <=> sick) /\ (closed => closed')
           /\ th[Closer].pc # "idle" \/ up
<1>1. CASE Shutdown
  <2>1. Only(Closer) /\ th'[Closer].pc = "wait"
    BY <1>1, ShutdownEffect DEF Basic
  <2> QED BY <1>1, <2>1 DEF Shutdown, memory, history
<1>2. CASE WorkersDone
  <2>1. Goto(Closer, "persist")
    BY <1>2 DEF WorkersDone
  <2>2. Only(Closer) /\ th'[Closer].pc = "persist"
    BY <2>1, GotoEffect, CallerFacts DEF Basic
  <2> QED BY <1>2, <2>2 DEF WorkersDone, history
<1>3. CASE ShutdownFails
  <2>1. Only(Closer) /\ th'[Closer] = Idle
    BY <1>3, IdleEffect, CallerFacts DEF Basic, ShutdownFails
  <2>2. th'[Closer].pc = "idle" /\ th[Closer].pc # "idle"
    BY <1>3, <2>1, IdleFields DEF ShutdownFails
  <2> QED BY <1>3, <2>1, <2>2 DEF ShutdownFails, memory, history
<1> QED BY <1>1, <1>2, <1>3

LEMMA ListsCloser ==
    ASSUME Basic, Lists, Shutdown \/ WorkersDone \/ ShutdownFails PROVE Lists'
<1>1. /\ Only(Closer) /\ th'[Closer].pc # "save"
      /\ UNCHANGED <<list, disk, created, acked, asked, removed>>
  BY CloserSteps
<1>2. Closer \in Callers /\ Closer \notin Clients /\ Calm(Closer) /\ acked' \subseteq created
  BY <1>1, CallerFacts, OnlyCalm DEF Lists, Histories
<1> QED BY <1>1, <1>2, ListsQuiet

LEMMA ListsRestart == ASSUME Basic, Lists, Crash \/ Boot PROVE Lists'
<1>1. UNCHANGED <<created, acked, asked, removed>>
  BY DEF Crash, Boot, history
<1>2. \A p \in Callers : th'[p].pc = "idle"
  <2>1. CASE Crash
    BY <2>1, CrashEffect, IdleFields
  <2>2. CASE Boot
    <3>1. th' = th /\ ~up
      BY <2>2, BootEffect DEF Basic, Boot
    <3> QED BY <3>1 DEF Basic, Locked
  <2> QED BY <2>1, <2>2
<1>3. disk'.list = disk.list /\ (list' = <<>> \/ list' = list \/ list' = disk.list)
  <2>1. CASE Crash
    BY <2>1, CrashEffect DEF Crash
  <2>2. CASE Boot
    BY <2>2, BootEffect DEF Basic
  <2> QED BY <2>1, <2>2
<1>4. SoundLists'
  BY <1>1, <1>2, <1>3, EmptyFacts DEF Lists, SoundLists, Sound
<1>5. ASSUME NEW c \in Clients PROVE Requesting(c)'
  <2>1. th'[c].op = "none"
    BY <1>2, CallerFacts, BasicCrash, BasicBoot DEF Basic, Shape, ClientShape
  <2> QED BY <2>1, RestsRequest
<1> QED BY <1>1, <1>4, <1>5 DEF Lists, Histories

LEMMA ListsStep == Basic /\ Lists /\ [Next]_vars => Lists'
<1> SUFFICES ASSUME Basic, Lists, [Next]_vars PROVE Lists'
  OBVIOUS
<1>1. CASE UNCHANGED vars
  BY <1>1 DEF vars, Lists, SoundLists, Sound, Histories, Requesting, Deletes, Deleting, Gone
<1>2. ASSUME NEW c \in Clients, CreateQueue(c) \/ DeleteQueue(c) \/ Handle(c) PROVE Lists'
  BY <1>2, ListsCreateQueue, ListsDeleteQueue, ListsCreateTaskEnds,
     ListsCreateTaskFails, ListsDeleteEnds, ListsDeleteFails DEF Handle
<1>3. ASSUME NEW c \in Clients, NEW t \in Tasks, CreateTask(c, t) PROVE Lists'
  BY <1>3, ListsCreateTask
<1>4. ASSUME NEW c \in Clients, NEW n \in Names, DeleteTask(c, n) PROVE Lists'
  BY <1>4, ListsDeleteTask
<1>5. ASSUME NEW p \in Callers, Save(p) PROVE Lists'
  BY <1>5, ListsPersist, ListsSave DEF Save
<1>6. ASSUME NEW w \in Slots, ExecuteTask(w) PROVE Lists'
  BY <1>6, ListsWorker
<1>7. CASE Shutdown \/ WorkersDone \/ ShutdownFails \/ Crash \/ Boot
  BY <1>7, ListsCloser, ListsRestart
<1> QED BY <1>1, <1>2, <1>3, <1>4, <1>5, <1>6, <1>7 DEF Next

LEMMA ListsInit == Init => Lists
<1> SUFFICES ASSUME Init PROVE Lists
  OBVIOUS
<1>1. /\ th = [p \in Callers |-> Idle] /\ list = <<>>
      /\ disk = CloneMetadata(FALSE, <<>>, heap)
      /\ created = {} /\ acked = {} /\ asked = {} /\ removed = {}
  BY DEF Init
<1>2. disk.list = <<>>
  BY <1>1 DEF CloneMetadata
<1>3. \A p \in Callers : th[p].pc = "idle" /\ th[p].op = "none"
  BY <1>1, IdleFields
<1> QED BY <1>1, <1>2, <1>3, EmptyFacts, CallerFacts
        DEF Lists, SoundLists, Sound, Histories, Requesting, Deletes
-----------------------------------------------------------------------------
\* The goroutines and the jobs.

\* A step that moves one thread and no job.
LEMMA JobsFrame ==
    ASSUME Basic, JobOf, NEW p \in Callers, Only(p), jobs' = jobs, removed' = removed,
           p \in Slots =>
              /\ th[p].pc # "idle" /\ th'[p].pc # "idle" /\ th'[p].n = th[p].n
              /\ (th'[p].dead <=> th[p].dead)
              /\ \/ th'[p].t \in {th[p].t, None}
                 \/ NameOf[th'[p].t] = p[1] /\ th'[p].t \notin removed,
           None \notin removed
    PROVE  JobOf'
<1>1. ASSUME NEW w \in Slots
      PROVE  /\ th'[w].pc = "idle" <=> th[w].pc = "idle"
             /\ th'[w].dead <=> th[w].dead
             /\ th[w].pc # "idle" => th'[w].n = th[w].n
             /\ \/ th'[w].t \in {th[w].t, None}
                \/ NameOf[th'[w].t] = w[1] /\ th'[w].t \notin removed
  <2>1. w \in Callers
    BY CallerFacts
  <2>2. CASE w = p
    BY <2>2
  <2>3. CASE w # p
    <3>1. th'[w] = th[w]
      BY <2>1, <2>3 DEF Only
    <3> QED BY <3>1
  <2> QED BY <2>2, <2>3
<1>2. ASSUME NEW n \in Names, jobs'[n] # None
      PROVE  jobs'[n][1] = n /\ th'[jobs'[n]].pc # "idle" /\ ~th'[jobs'[n]].dead
  <2>1. jobs[n] # None /\ jobs'[n] = jobs[n]
    BY <1>2
  <2>2. jobs[n][1] = n /\ th[jobs[n]].pc # "idle" /\ ~th[jobs[n]].dead /\ jobs[n] \in Slots
    BY <2>1 DEF JobOf, Basic, TypeOK
  <2> QED BY <1>1, <2>1, <2>2
<1>3. ASSUME NEW w \in Slots, th'[w].pc # "idle"
      PROVE  th'[w].n = w[1] /\ (~th'[w].dead => jobs'[w[1]] = w)
  BY <1>1, <1>3 DEF JobOf
<1>4. ASSUME NEW w \in Slots, th'[w].t # None PROVE NameOf[th'[w].t] = w[1]
  BY <1>1, <1>4 DEF JobOf
<1>5. ASSUME NEW w \in Slots, th'[w].t \in removed' PROVE th'[w].dead
  BY <1>1, <1>5 DEF JobOf
<1> QED BY <1>2, <1>3, <1>4, <1>5 DEF JobOf

LEMMA NotNone == ASSUME TypeOK PROVE None \notin removed /\ None \notin Elements(list)
BY TypeFacts, TasksAssumption DEF TypeOK

LEMMA JobsSave ==
    ASSUME Basic, JobOf, NEW p \in Callers, Save(p) PROVE JobOf'
<1>1. /\ Only(p) /\ th'[p].pc # "idle" /\ th'[p].n = th[p].n /\ th'[p].t = th[p].t
      /\ th'[p].dead = th[p].dead
  <2>1. CASE PersistMetadata(p)
    <3>1. Only(p) /\ th'[p].pc = "save" /\ th'[p].n = th[p].n /\ th'[p].t = th[p].t /\ th'[p].dead = th[p].dead
      BY <2>1, PersistEffect DEF Basic
    <3> QED BY <3>1
  <2>2. CASE SaveOk(p)
    <3>1. Only(p) /\ th'[p].pc = "saved" /\ th'[p].n = th[p].n /\ th'[p].t = th[p].t /\ th'[p].dead = th[p].dead
      BY <2>2, SaveOkEffect DEF Basic
    <3> QED BY <3>1
  <2>3. CASE SaveFails(p)
    <3>1. Only(p) /\ th'[p].pc = "failed" /\ th'[p].n = th[p].n /\ th'[p].t = th[p].t /\ th'[p].dead = th[p].dead
      BY <2>3, SaveFailsEffect DEF Basic
    <3> QED BY <3>1
  <2> QED BY <2>1, <2>2, <2>3 DEF Save
<1>2. th[p].pc # "idle" /\ jobs' = jobs /\ removed' = removed
  BY DEF Save, PersistMetadata, SaveOk, SaveFails, memory, history
<1>3. th'[p].dead <=> th[p].dead
  BY <1>1
<1> QED BY <1>1, <1>2, <1>3, JobsFrame, NotNone DEF Basic

\* The steps of a handler that touch no job.
LEMMA JobsClient ==
    ASSUME Basic, JobOf, NEW c \in Clients, Only(c), jobs' = jobs, removed' = removed PROVE JobOf'
<1>1. c \in Callers /\ c \notin Slots /\ None \notin removed
  BY CallerFacts, NotNone DEF Basic
<1> QED BY <1>1, JobsFrame

LEMMA ClientSteps ==
    ASSUME Basic, NEW c \in Clients, CreateQueue(c) \/ DeleteQueue(c) \/ CreateQueueEnds(c)
                                       \/ CreateTaskFails(c) \/ DeleteFails(c)
    PROVE  Only(c) /\ jobs' = jobs /\ removed' = removed /\ sent' = sent
<1>0. c \in Callers
  BY CallerFacts
<1>1. CASE CreateQueue(c)
  BY <1>1, CreateQueueEffect DEF CreateQueue, Basic, history
<1>2. CASE DeleteQueue(c)
  BY <1>2, DeleteQueueEffect DEF DeleteQueue, Basic
<1>3. CASE CreateQueueEnds(c) \/ CreateTaskFails(c) \/ DeleteFails(c)
  <2>1. th' = [th EXCEPT ![c] = Idle] /\ jobs' = jobs /\ removed' = removed /\ sent' = sent
    BY <1>3 DEF CreateQueueEnds, CreateTaskFails, DeleteFails, history
  <2> QED BY <1>0, <2>1, IdleEffect DEF Basic
<1> QED BY <1>1, <1>2, <1>3

LEMMA JobsCreateTaskEnds ==
    ASSUME Basic, JobOf, NEW c \in Clients, CreateTaskEnds(c) PROVE JobOf'
<1>1. th[c].op = "createTask" /\ removed' = removed
  BY DEF CreateTaskEnds
<1>2. /\ th'[c] = Idle /\ \A w \in Slots : th'[w] = th[w] \/ Fresh(w, c)
      /\ \A n \in Names : jobs'[n] = jobs[n]
            \/ (jobs[n] = None /\ jobs'[n] \in Slots /\ jobs'[n][1] = n /\ Fresh(jobs'[n], c))
  BY <1>1, CreatingFacts, CreateTaskEndsEffect DEF Basic
<1>3. ASSUME NEW n \in Names, jobs'[n] # None
      PROVE  jobs'[n][1] = n /\ th'[jobs'[n]].pc # "idle" /\ ~th'[jobs'[n]].dead
  <2>1. CASE jobs'[n] = jobs[n]
    <3>1. jobs[n][1] = n /\ th[jobs[n]].pc # "idle" /\ ~th[jobs[n]].dead /\ jobs[n] \in Slots
      BY <1>3, <2>1 DEF JobOf, Basic, TypeOK
    <3>2. ~Fresh(jobs[n], c)
      BY <3>1 DEF Fresh
    <3> QED BY <1>2, <2>1, <3>1, <3>2
  <2>2. CASE jobs'[n][1] = n /\ Fresh(jobs'[n], c)
    <3>1. th'[jobs'[n]].pc = "loop" /\ ~th'[jobs'[n]].dead
      BY <2>2 DEF Fresh
    <3> QED BY <2>2, <3>1
  <2> QED BY <1>2, <2>1, <2>2
<1>4. ASSUME NEW w \in Slots, th'[w].pc # "idle"
      PROVE  th'[w].n = w[1] /\ (~th'[w].dead => jobs'[w[1]] = w)
  <2>1. CASE th'[w] = th[w]
    <3>1. th[w].n = w[1] /\ (~th[w].dead => jobs[w[1]] = w)
      BY <1>4, <2>1 DEF JobOf
    <3>2. w # None /\ w[1] \in Names
      BY SlotFacts
    <3>3. jobs[w[1]] = w => jobs'[w[1]] = w
      BY <1>2, <3>2
    <3> QED BY <2>1, <3>1, <3>3
  <2>2. CASE Fresh(w, c)
    BY <2>2 DEF Fresh
  <2> QED BY <1>2, <2>1, <2>2
<1>5. ASSUME NEW w \in Slots, th'[w].t # None
      PROVE  NameOf[th'[w].t] = w[1] /\ (th'[w].t \in removed' => th'[w].dead)
  <2>1. ~Fresh(w, c)
    BY <1>5 DEF Fresh
  <2>2. th'[w] = th[w]
    BY <1>2, <2>1
  <2> QED BY <1>1, <1>5, <2>2 DEF JobOf
<1>6. None \notin removed
  BY NotNone DEF Basic
<1> QED BY <1>1, <1>3, <1>4, <1>5, <1>6 DEF JobOf

LEMMA JobsDeleteEnds ==
    ASSUME Basic, JobOf, NEW c \in Clients, DeleteEnds(c) PROVE JobOf'
<1>1. /\ \A q \in Callers : q # c => Alike(q)
      /\ \A q \in Callers : q # c => (th'[q].dead <=> th[q].dead \/ Killed(q, c))
      /\ \A n \in Names : (\E t \in Gone(c) : NameOf[t] = n) => jobs'[n] = None
      /\ \A n \in Names : ~(\E t \in Gone(c) : NameOf[t] = n) => jobs'[n] = jobs[n]
  BY DeleteEndsEffect DEF Basic
<1>2. removed' = removed \cup Gone(c) /\ Gone(c) \subseteq Tasks
  BY DeletesFacts DEF DeleteEnds
<1>3. ASSUME NEW w \in Slots
      PROVE  /\ th'[w].pc = th[w].pc /\ th'[w].n = th[w].n /\ th'[w].t = th[w].t
             /\ th'[w].dead <=> th[w].dead \/ Killed(w, c)
  <2>1. w \in Callers /\ w # c
    BY CallerFacts
  <2> QED BY <1>1, <2>1 DEF Alike
<1>4. ASSUME NEW n \in Names, jobs'[n] # None
      PROVE  jobs'[n][1] = n /\ th'[jobs'[n]].pc # "idle" /\ ~th'[jobs'[n]].dead
  <2>1. ~(\E t \in Gone(c) : NameOf[t] = n) /\ jobs'[n] = jobs[n]
    BY <1>1, <1>4
  <2>2. jobs[n][1] = n /\ th[jobs[n]].pc # "idle" /\ ~th[jobs[n]].dead /\ jobs[n] \in Slots
    BY <1>4, <2>1 DEF JobOf, Basic, TypeOK
  <2>3. ~Killed(jobs[n], c)
    <3> SUFFICES ASSUME NEW t \in Gone(c), jobs[NameOf[t]] = jobs[n] PROVE FALSE
      BY DEF Killed
    <3>1. NameOf[t] \in Names
      BY <1>2, TasksAssumption
    <3>2. jobs[NameOf[t]] # None
      BY <2>2, SlotFacts
    <3>3. jobs[NameOf[t]][1] = NameOf[t]
      BY <3>1, <3>2 DEF JobOf
    <3>4. NameOf[t] = n
      BY <2>2, <3>3
    <3> QED BY <2>1, <3>4
  <2> QED BY <1>3, <2>1, <2>2, <2>3
<1>5. ASSUME NEW w \in Slots, th'[w].pc # "idle"
      PROVE  th'[w].n = w[1] /\ (~th'[w].dead => jobs'[w[1]] = w)
  <2>1. th[w].n = w[1] /\ (~th[w].dead => jobs[w[1]] = w)
    BY <1>3, <1>5 DEF JobOf
  <2>2. ASSUME ~th'[w].dead PROVE jobs'[w[1]] = w
    <3>1. ~th[w].dead /\ ~Killed(w, c) /\ jobs[w[1]] = w
      BY <1>3, <2>1, <2>2
    <3>2. ~(\E t \in Gone(c) : NameOf[t] = w[1])
      BY <3>1 DEF Killed
    <3> QED BY <1>1, <3>1, <3>2, SlotFacts
  <2> QED BY <1>3, <2>1, <2>2
<1>6. ASSUME NEW w \in Slots, th'[w].t # None PROVE NameOf[th'[w].t] = w[1]
  BY <1>3, <1>6 DEF JobOf
<1>7. ASSUME NEW w \in Slots, th'[w].t \in removed' PROVE th'[w].dead
  <2>1. CASE th[w].t \in removed
    BY <1>3, <2>1 DEF JobOf
  <2>2. CASE th[w].t \in Gone(c) /\ ~th[w].dead
    <3>1. th[w].t \in Tasks /\ th[w].t # None
      BY <1>2, <2>2, TasksAssumption
    <3>2. th[w].pc # "idle"
      BY <3>1 DEF Basic, Shape, WorkerShape
    <3>3. NameOf[th[w].t] = w[1] /\ jobs[w[1]] = w
      BY <2>2, <3>1, <3>2 DEF JobOf
    <3>4. Killed(w, c)
      BY <2>2, <3>3 DEF Killed
    <3> QED BY <1>3, <3>4
  <2>3. CASE th[w].dead
    BY <1>3, <2>3
  <2> QED BY <1>2, <1>3, <1>7, <2>1, <2>2, <2>3
<1> QED BY <1>4, <1>5, <1>6, <1>7 DEF JobOf

LEMMA JobsExit == ASSUME Basic, JobOf, NEW w \in Slots, Exit(w) PROVE JobOf'
<1>1. Only(w) /\ th'[w] = Idle
  BY IdleEffect, CallerFacts DEF Basic, Exit
<1>2. jobs' = [n \in Names |-> IF jobs[n] = w THEN None ELSE jobs[n]] /\ removed' = removed
  BY DEF Exit, history
<1>3. \A v \in Slots : v # w => th'[v] = th[v]
  BY <1>1, CallerFacts DEF Only
<1>4. ASSUME NEW n \in Names, jobs'[n] # None
      PROVE  jobs'[n][1] = n /\ th'[jobs'[n]].pc # "idle" /\ ~th'[jobs'[n]].dead
  <2>1. jobs[n] # w /\ jobs'[n] = jobs[n]
    BY <1>2, <1>4
  <2>2. jobs[n][1] = n /\ th[jobs[n]].pc # "idle" /\ ~th[jobs[n]].dead /\ jobs[n] \in Slots
    BY <1>4, <2>1 DEF JobOf, Basic, TypeOK
  <2> QED BY <1>3, <2>1, <2>2
<1>5. ASSUME NEW v \in Slots, th'[v].pc # "idle"
      PROVE  th'[v].n = v[1] /\ (~th'[v].dead => jobs'[v[1]] = v)
  <2>1. v # w
    BY <1>1, <1>5, IdleFields
  <2>2. th[v].pc # "idle" /\ th'[v] = th[v]
    BY <1>3, <1>5, <2>1
  <2>3. th[v].n = v[1] /\ (~th[v].dead => jobs[v[1]] = v)
    BY <2>2 DEF JobOf
  <2>4. v[1] \in Names /\ (jobs[v[1]] = v => jobs'[v[1]] = v)
    BY <1>2, <2>1, SlotFacts
  <2> QED BY <2>2, <2>3, <2>4
<1>6. ASSUME NEW v \in Slots, th'[v].t # None
      PROVE  NameOf[th'[v].t] = v[1] /\ (th'[v].t \in removed' => th'[v].dead)
  <2>1. v # w
    BY <1>1, <1>6, IdleFields
  <2>2. th'[v] = th[v]
    BY <1>3, <2>1
  <2> QED BY <1>2, <1>6, <2>2 DEF JobOf
<1>7. None \notin removed
  BY NotNone DEF Basic
<1> QED BY <1>2, <1>4, <1>5, <1>6, <1>7 DEF JobOf

LEMMA JobsWorker ==
    ASSUME Basic, Lists, JobOf, NEW w \in Slots, ExecuteTask(w) PROVE JobOf'
<1>0. w \in Callers /\ None \notin removed
  BY CallerFacts, NotNone DEF Basic
<1>1. CASE Moves(w)
  <2>1. /\ Only(w) /\ th[w].pc # "idle" /\ th'[w].pc # "idle" /\ th'[w].n = th[w].n
        /\ (th'[w].dead <=> th[w].dead) /\ jobs' = jobs /\ removed' = removed
    BY <1>1 DEF Moves
  <2>2. th[w].n = w[1]
    BY <2>1 DEF JobOf
  <2>3. \A t \in Elements(list) : t \notin removed
    BY DEF Lists, SoundLists, Sound
  <2>4. th'[w].t \in {th[w].t, None} \/ (NameOf[th'[w].t] = w[1] /\ th'[w].t \notin removed)
    BY <1>1, <2>2, <2>3 DEF Moves
  <2> QED BY <1>0, <2>1, <2>4, JobsFrame
<1>2. CASE RecordsFound(w)
  <2>1. /\ Only(w) /\ th'[w].pc = "save" /\ th[w].pc = "record" /\ th'[w].n = th[w].n /\ th'[w].t = th[w].t
        /\ (th'[w].dead <=> th[w].dead) /\ jobs' = jobs /\ removed' = removed
    BY <1>2, RecordsEffect
  <2>2. th'[w].pc # "idle" /\ th[w].pc # "idle"
    BY <2>1
  <2> QED BY <1>0, <2>1, <2>2, JobsFrame
<1>3. CASE Exit(w)
  BY <1>3, JobsExit
<1> QED BY <1>1, <1>2, <1>3, WorkerSteps

LEMMA JobsRestart == ASSUME Basic, JobOf, Crash \/ Boot PROVE JobOf'
<1>1. CASE Crash
  <2>1. \A p \in Callers : th'[p].pc = "idle" /\ th'[p].t = None
    BY <1>1, CrashEffect, IdleFields
  <2>2. \A n \in Names : jobs'[n] = None
    BY <1>1, CrashEffect
  <2>3. None \notin removed /\ removed' = removed
    BY <1>1, NotNone DEF Basic, Crash, history
  <2> QED BY <2>1, <2>2, <2>3, CallerFacts DEF JobOf
<1>2. CASE Boot
  <2>1. th' = th /\ jobs' = jobs /\ removed' = removed
    BY <1>2, BootEffect DEF Basic, Boot, history
  <2> QED BY <2>1 DEF JobOf
<1> QED BY <1>1, <1>2

LEMMA JobsStep == Basic /\ Lists /\ JobOf /\ [Next]_vars => JobOf'
<1> SUFFICES ASSUME Basic, Lists, JobOf, [Next]_vars PROVE JobOf'
  OBVIOUS
<1>1. CASE UNCHANGED vars
  BY <1>1 DEF vars, JobOf
<1>2. ASSUME NEW c \in Clients, CreateQueue(c) \/ DeleteQueue(c) \/ CreateQueueEnds(c)
                                   \/ CreateTaskFails(c) \/ DeleteFails(c) PROVE JobOf'
  BY <1>2, ClientSteps, JobsClient
<1>3. ASSUME NEW c \in Clients, NEW t \in Tasks, CreateTask(c, t) PROVE JobOf'
  <2>1. Only(c)
    BY <1>3, BasicTypes, CreateTaskEffect
  <2>2. jobs' = jobs /\ removed' = removed
    BY <1>3 DEF CreateTask
  <2> QED BY <2>1, <2>2, JobsClient
<1>4. ASSUME NEW c \in Clients, NEW n \in Names, DeleteTask(c, n) PROVE JobOf'
  <2>1. Only(c)
    BY <1>4, BasicTypes, DeleteTaskEffect
  <2>2. jobs' = jobs /\ removed' = removed
    BY <1>4 DEF DeleteTask
  <2> QED BY <2>1, <2>2, JobsClient
<1>5. ASSUME NEW c \in Clients, CreateTaskEnds(c) \/ DeleteEnds(c) PROVE JobOf'
  BY <1>5, JobsCreateTaskEnds, JobsDeleteEnds
<1>6. ASSUME NEW p \in Callers, Save(p) PROVE JobOf'
  BY <1>6, JobsSave
<1>7. ASSUME NEW w \in Slots, ExecuteTask(w) PROVE JobOf'
  BY <1>7, JobsWorker
<1>8. CASE Shutdown \/ WorkersDone \/ ShutdownFails
  <2>1. Only(Closer) /\ jobs' = jobs /\ removed' = removed
    BY <1>8, CloserSteps
  <2> QED BY <2>1, CallerFacts, NotNone, JobsFrame DEF Basic
<1>9. CASE Crash \/ Boot
  BY <1>9, JobsRestart
<1> QED BY <1>1, <1>2, <1>3, <1>4, <1>5, <1>6, <1>7, <1>8, <1>9 DEF Next, Handle

LEMMA JobsInit == Init => JobOf
<1> SUFFICES ASSUME Init PROVE JobOf
  OBVIOUS
<1>1. th = [p \in Callers |-> Idle] /\ jobs = [n \in Names |-> None] /\ removed = {}
  BY DEF Init
<1>2. \A w \in Slots : th[w].pc = "idle" /\ th[w].t = None
  BY <1>1, IdleFields, CallerFacts
<1> QED BY <1>1, <1>2 DEF JobOf

\* Only Send counts a request, and not for a goroutine that is cancelled.
LEMMA SentStep ==
    ASSUME Basic, JobOf, [Next]_vars, NEW t \in removed PROVE sent'[t] = sent[t]
<1>1. CASE UNCHANGED vars
  BY <1>1 DEF vars
<1>2. ASSUME NEW c \in Clients, CreateQueue(c) \/ DeleteQueue(c) \/ Handle(c) PROVE sent' = sent
  BY <1>2 DEF CreateQueue, DeleteQueue, Handle, CreateQueueEnds, CreateTaskEnds, CreateTaskFails,
              DeleteEnds, DeleteFails, history
<1>3. ASSUME NEW c \in Clients, NEW u \in Tasks, CreateTask(c, u) PROVE sent' = sent
  BY <1>3 DEF CreateTask
<1>4. ASSUME NEW c \in Clients, NEW n \in Names, DeleteTask(c, n) PROVE sent' = sent
  BY <1>4 DEF DeleteTask
<1>5. ASSUME NEW p \in Callers, Save(p) PROVE sent' = sent
  BY <1>5 DEF Save, PersistMetadata, SaveOk, SaveFails, history
<1>6. ASSUME NEW w \in Slots, ExecuteTask(w), ~Send(w) PROVE sent' = sent
  BY <1>6 DEF ExecuteTask, CheckContext, RecordAttemptStart, AttemptStarted, AttemptNotStarted,
              Prepare, Answer, RecordAttemptOutcome, OutcomeRecorded, OutcomeNotRecorded, Exit, history
<1>7. ASSUME NEW w \in Slots, Send(w) PROVE sent'[t] = sent[t]
  <2>1. CASE Cancelled(w)
    BY <1>7, <2>1 DEF Send
  <2>2. CASE ~Cancelled(w)
    <3>1. sent' = [sent EXCEPT ![th[w].t] = @ + 1]
      BY <1>7, <2>2 DEF Send
    <3>2. th[w].t # t
      BY <2>2 DEF Cancelled, JobOf
    <3> QED BY <3>1, <3>2 DEF Basic, TypeOK
  <2> QED BY <2>1, <2>2
<1>8. CASE Shutdown \/ WorkersDone \/ ShutdownFails \/ Crash \/ Boot
  BY <1>8 DEF Shutdown, WorkersDone, ShutdownFails, Crash, Boot, history
<1> QED BY <1>1, <1>2, <1>3, <1>4, <1>5, <1>6, <1>7, <1>8 DEF Next

\* Once deleteTask or deleteQueue has answered, no request leaves for a task
\* it took, although the names of deleted tasks may be in use again.
THEOREM DeletedNotSentHolds == Spec => DeletedNotSent
<1> DEFINE I == Basic /\ Lists /\ JobOf
<1>1. Init => I
  BY BasicInit, ListsInit, JobsInit
<1>2. I /\ [Next]_vars => I'
  BY BasicStep, ListsStep, JobsStep
<1>3. I /\ [Next]_vars => [\A t \in removed : sent'[t] = sent[t]]_vars
  BY SentStep
<1> QED BY <1>1, <1>2, <1>3, PTL DEF Spec, DeletedNotSent
-----------------------------------------------------------------------------
\* What createTask has answered.

\* A step that leaves the state file and takes nothing out of the list that is
\* not asked for keeps what was accepted, if what it snapshots is the list.
LEMMA KeptFrame ==
    ASSUME Kept, NEW p \in Callers, Calm(p), up, up', acked' = acked, asked \subseteq asked',
           sick => sick', disk'.list = disk.list,
           ~sick' => \A t \in Elements(list) : t \in Elements(list') \cup asked',
           p \in Clients => Keeping(p)' /\ (Saved(p)' => Saved(p) /\ th'[p].t = th[p].t),
           th'[p].pc = "save" /\ ~sick' => Elements(list') \subseteq Elements(th'[p].doc.list)
    PROVE  Kept'
<1>1. ASSUME NEW t \in acked' \ asked' PROVE t \in Elements(disk'.list) /\ (~sick' => t \in Elements(list'))
  <2>1. t \in acked \ asked
    BY <1>1
  <2>2. t \in Elements(disk.list) /\ (~sick => t \in Elements(list))
    BY <2>1 DEF Kept
  <2> QED BY <1>1, <2>2
<1>2. ASSUME NEW c \in Clients PROVE Keeping(c)'
  <2>1. CASE c = p
    BY <2>1
  <2>2. CASE c # p
    <3>1. th'[c] = th[c] /\ Keeping(c)
      BY <2>2 DEF Calm, Kept
    <3>2. ASSUME Creating(c)', th'[c].t \notin asked'
          PROVE  (~sick' => th'[c].t \in Elements(list')) /\ (Saved(c)' => th'[c].t \in Elements(disk'.list))
      <4>1. Creating(c) /\ th[c].t \notin asked /\ (Saved(c)' => Saved(c))
        BY <3>1, <3>2 DEF Creating, Saved
      <4>2. (~sick => th[c].t \in Elements(list)) /\ (Saved(c) => th[c].t \in Elements(disk.list))
        BY <3>1, <4>1 DEF Keeping
      <4> QED BY <3>1, <3>2, <4>1, <4>2
    <3> QED BY <3>2 DEF Keeping
  <2> QED BY <2>1, <2>2
<1>3. ASSUME NEW q \in Callers, th'[q].pc = "save", ~sick' PROVE Snapshot(q)'
  <2>1. CASE q = p
    <3>1. Elements(list') \subseteq Elements(th'[q].doc.list)
      BY <1>3, <2>1
    <3>2. acked' \ asked' \subseteq Elements(th'[q].doc.list)
      BY <1>1, <1>3, <3>1
    <3>3. ASSUME NEW c \in Clients, Creating(c)', th'[c].t \notin asked' PROVE th'[c].t \in Elements(th'[q].doc.list)
      BY <1>2, <1>3, <3>1, <3>3 DEF Keeping
    <3> QED BY <3>2, <3>3 DEF Snapshot
  <2>2. CASE q # p
    <3>1. th[q].pc = "save" /\ th'[q].doc = th[q].doc /\ ~sick
      BY <1>3, <2>2 DEF Calm
    <3>2. Snapshot(q)
      BY <3>1 DEF Kept
    <3>3. acked' \ asked' \subseteq Elements(th'[q].doc.list)
      BY <3>1, <3>2 DEF Snapshot
    <3>4. ASSUME NEW c \in Clients, Creating(c)', Saved(c)' \/ c = q, th'[c].t \notin asked'
          PROVE  th'[c].t \in Elements(th'[q].doc.list)
      <4>1. th'[c].t = th[c].t /\ Creating(c) /\ (Saved(c) \/ c = q)
        <5>1. CASE c = p
          BY <2>2, <3>4, <5>1 DEF Saved
        <5>2. CASE c # p
          BY <3>4, <5>2 DEF Calm, Creating, Saved
        <5> QED BY <5>1, <5>2
      <4> QED BY <3>1, <3>2, <3>4, <4>1 DEF Snapshot
    <3> QED BY <3>3, <3>4 DEF Snapshot
  <2> QED BY <2>1, <2>2
<1> QED BY <1>1, <1>2, <1>3 DEF Kept

LEMMA NotCreating == ASSUME NEW c, th'[c].op # "createTask" PROVE Keeping(c)' /\ ~Saved(c)'
BY DEF Keeping, Creating, Saved

\* Steps that change neither the list nor the state file and snapshot nothing.
LEMMA KeptQuiet ==
    ASSUME Kept, NEW p \in Callers, Calm(p), up, up', sick' <=> sick,
           UNCHANGED <<list, disk, acked, asked>>, th'[p].pc # "save",
           p \in Clients => th'[p].op # "createTask"
    PROVE  Kept'
<1>1. p \in Clients => Keeping(p)' /\ ~Saved(p)'
  BY NotCreating
<1> QED BY <1>1, KeptFrame

LEMMA Serving == ASSUME Basic, NEW p \in Callers, th[p].pc # "idle" PROVE up
BY DEF Basic, Locked

LEMMA KeptPersist == ASSUME Basic, Kept, NEW p \in Callers, PersistMetadata(p) PROVE Kept'
<1>1. /\ Only(p) /\ th'[p].pc = "save" /\ th'[p].doc = CloneMetadata(queue, list, heap)
      /\ th'[p].op = th[p].op /\ th'[p].t = th[p].t
  BY PersistEffect DEF Basic
<1>2. /\ th[p].pc = "persist" /\ UNCHANGED <<list, disk, acked, asked>>
      /\ (up' <=> up) /\ (sick' <=> sick)
  BY DEF PersistMetadata, memory, history
<1>3. th'[p].doc.list = list
  BY <1>1, CloneFacts DEF Basic, TypeOK
<1>4. Calm(p) /\ up /\ up'
  BY <1>1, <1>2, OnlyCalm, Serving
<1>5. p \in Clients => Keeping(p)' /\ ~Saved(p)'
  <2> SUFFICES ASSUME p \in Clients PROVE Keeping(p)' /\ ~Saved(p)'
    OBVIOUS
  <2>1. ~Saved(p)'
    BY <1>1 DEF Saved
  <2>2. Keeping(p)
    BY DEF Kept
  <2> QED BY <1>1, <1>2, <2>1, <2>2 DEF Keeping, Creating
<1> QED BY <1>2, <1>3, <1>4, <1>5, KeptFrame

LEMMA KeptSave == ASSUME Basic, Kept, NEW p \in Callers, SaveOk(p) \/ SaveFails(p) PROVE Kept'
<1>1. /\ Only(p) /\ th'[p].pc \in {"saved", "failed"} /\ th'[p].op = th[p].op /\ th'[p].t = th[p].t
      /\ (th'[p].pc = "saved" => SaveOk(p))
  <2>1. CASE SaveOk(p)
    BY <2>1, SaveOkEffect DEF Basic
  <2>2. CASE SaveFails(p)
    BY <2>2, SaveFailsEffect DEF Basic
  <2> QED BY <2>1, <2>2
<1>2. /\ th[p].pc = "save" /\ UNCHANGED <<list, acked, asked>>
      /\ (SaveOk(p) => ~sick /\ disk' = th[p].doc)
  BY DEF SaveOk, SaveFails, memory, history
<1>3. (up' <=> up) /\ (sick => sick')
  BY DEF SaveOk, SaveFails
<1>4. disk' = disk \/ (~sick /\ disk' = th[p].doc)
  BY DEF SaveOk, SaveFails
<1>5. ~sick => Snapshot(p)
  BY <1>2 DEF Kept
<1>6. Calm(p) /\ Alone(p)
  BY <1>1, <1>2, OnlyCalm, AloneFacts DEF Basic, Holds
<1>7. ASSUME NEW t \in acked' \ asked'
      PROVE t \in Elements(disk'.list) /\ (up' /\ ~sick' => t \in Elements(list'))
  <2>1. t \in Elements(disk.list) /\ (up /\ ~sick => t \in Elements(list))
    BY <1>2, <1>7 DEF Kept
  <2>2. disk' = th[p].doc /\ ~sick => t \in Elements(disk'.list)
    BY <1>2, <1>5, <1>7 DEF Snapshot
  <2> QED BY <1>2, <1>3, <1>4, <2>1, <2>2
<1>8. ASSUME NEW c \in Clients PROVE Keeping(c)'
  <2>1. th'[c].op = th[c].op /\ th'[c].t = th[c].t /\ (Saved(c)' => Saved(c) \/ (c = p /\ SaveOk(p)))
    <3>1. CASE c = p
      BY <1>1, <3>1 DEF Saved
    <3>2. CASE c # p
      BY <1>6, <3>2 DEF Calm, Saved, Creating
    <3> QED BY <3>1, <3>2
  <2>2. Keeping(c)
    BY DEF Kept
  <2>3. ASSUME Creating(c)', th'[c].t \notin asked', Saved(c)' PROVE th'[c].t \in Elements(disk'.list)
    <3>1. Creating(c) /\ th[c].t \notin asked
      BY <1>2, <2>1, <2>3 DEF Creating
    <3>2. CASE disk' = th[p].doc /\ ~sick
      BY <1>5, <2>1, <2>3, <3>1, <3>2 DEF Snapshot
    <3>3. CASE disk' = disk /\ Saved(c)
      BY <2>1, <2>2, <3>1, <3>3 DEF Keeping
    <3> QED BY <1>2, <1>4, <2>1, <2>3, <3>2, <3>3
  <2>4. ASSUME Creating(c)', th'[c].t \notin asked', ~sick' PROVE th'[c].t \in Elements(list')
    BY <1>2, <1>3, <2>1, <2>2, <2>4 DEF Keeping, Creating
  <2> QED BY <2>3, <2>4 DEF Keeping
<1>9. ASSUME NEW q \in Callers PROVE th'[q].pc # "save"
  <2>1. CASE q = p
    BY <1>1, <2>1
  <2>2. CASE q # p
    BY <1>6, <2>2 DEF Calm, Alone, Holds
  <2> QED BY <2>1, <2>2
<1> QED BY <1>7, <1>8, <1>9 DEF Kept

LEMMA KeptClient ==
    ASSUME Basic, Kept, NEW c \in Clients, CreateQueue(c) \/ CreateQueueEnds(c) PROVE Kept'
<1>1. Only(c) /\ th'[c].op # "createTask" /\ th'[c].pc # "save" /\ c \in Callers
  <2>1. CASE CreateQueue(c)
    <3>1. Only(c) /\ th'[c].op = "createQueue" /\ th'[c].pc = "persist"
      BY <2>1, CreateQueueEffect DEF Basic
    <3> QED BY <3>1, CallerFacts
  <2>2. CASE CreateQueueEnds(c)
    <3>1. Only(c) /\ th'[c] = Idle /\ c \in Callers
      BY <2>2, IdleEffect, CallerFacts DEF Basic, CreateQueueEnds
    <3> QED BY <3>1, IdleFields
  <2> QED BY <2>1, <2>2
<1>2. UNCHANGED <<list, disk, acked, asked>> /\ (up' <=> up) /\ (sick' <=> sick)
  BY DEF CreateQueue, CreateQueueEnds, history
<1>3. up
  BY <1>1, Serving DEF CreateQueue, CreateQueueEnds
<1> QED BY <1>1, <1>2, <1>3, OnlyCalm, KeptQuiet

LEMMA KeptCreateTask ==
    ASSUME Basic, Kept, NEW c \in Clients, NEW t \in Tasks, CreateTask(c, t) PROVE Kept'
<1>1. Only(c) /\ th'[c].op = "createTask" /\ th'[c].pc = "persist" /\ th'[c].t = t
  BY CreateTaskEffect DEF Basic
<1>2. /\ up /\ list' = Append(list, t) /\ UNCHANGED <<disk, acked, asked>>
      /\ (up' <=> up) /\ (sick' <=> sick)
  BY DEF CreateTask
<1>3. Elements(list') = Elements(list) \cup {t}
  BY <1>2, AppendFacts DEF Basic, TypeOK
<1>4. Keeping(c)' /\ ~Saved(c)' /\ th'[c].pc # "save"
  BY <1>1, <1>3 DEF Keeping, Saved
<1>5. c \in Callers /\ Calm(c)
  BY <1>1, OnlyCalm, CallerFacts
<1> QED BY <1>2, <1>3, <1>4, <1>5, KeptFrame

LEMMA KeptCreateTaskEnds ==
    ASSUME Basic, Kept, NEW c \in Clients, CreateTaskEnds(c) PROVE Kept'
<1>1. /\ th[c].op = "createTask" /\ th[c].pc = "saved" /\ acked' = acked \cup {th[c].t}
      /\ UNCHANGED <<list, disk, asked>> /\ (up' <=> up) /\ (sick' <=> sick)
  BY DEF CreateTaskEnds
<1>2. /\ th'[c] = Idle /\ \A q \in Callers : q # c /\ q \notin Slots => th'[q] = th[q]
      /\ \A w \in Slots : th'[w] = th[w] \/ Fresh(w, c)
  BY <1>1, CreatingFacts, CreateTaskEndsEffect DEF Basic
<1>3. Saved(c) /\ Creating(c) /\ Keeping(c)
  BY <1>1 DEF Saved, Creating, Kept
<1>4. ASSUME NEW t \in acked' \ asked'
      PROVE t \in Elements(disk'.list) /\ (up' /\ ~sick' => t \in Elements(list'))
  BY <1>1, <1>3, <1>4 DEF Kept, Keeping
<1>5. ASSUME NEW d \in Clients PROVE Keeping(d)' /\ (Creating(d)' => th'[d] = th[d])
  <2>1. CASE d = c
    BY <1>2, <2>1, IdleFields DEF Keeping, Creating
  <2>2. CASE d # c
    <3>1. th'[d] = th[d] /\ Keeping(d)
      BY <1>2, <2>2, CallerFacts DEF Kept
    <3> QED BY <1>1, <3>1 DEF Keeping, Creating, Saved
  <2> QED BY <2>1, <2>2
<1>6. ASSUME NEW q \in Callers, th'[q].pc = "save", ~sick' PROVE Snapshot(q)'
  <2>1. q # c /\ (q \in Slots => ~Fresh(q, c))
    BY <1>2, <1>6, IdleFields DEF Fresh
  <2>2. th'[q] = th[q]
    BY <1>2, <2>1
  <2>3. Snapshot(q)
    BY <1>1, <1>6, <2>2 DEF Kept
  <2>4. acked' \ asked' \subseteq Elements(th'[q].doc.list)
    BY <1>1, <1>3, <2>2, <2>3 DEF Snapshot
  <2>5. ASSUME NEW d \in Clients, Creating(d)', Saved(d)' \/ d = q, th'[d].t \notin asked'
        PROVE  th'[d].t \in Elements(th'[q].doc.list)
    BY <1>1, <1>5, <2>2, <2>3, <2>5 DEF Snapshot, Creating, Saved
  <2> QED BY <2>4, <2>5 DEF Snapshot
<1> QED BY <1>4, <1>5, <1>6 DEF Kept

\* A rollback comes after a failed Save, and the store refuses the next ones.
LEMMA KeptRollback ==
    ASSUME Basic, Kept, NEW c \in Clients, CreateTaskFails(c) \/ DeleteFails(c) PROVE Kept'
<1>1. Only(c) /\ th'[c] = Idle /\ c \in Callers
  BY IdleEffect, CallerFacts DEF Basic, CreateTaskFails, DeleteFails
<1>2. /\ th[c].pc = "failed" /\ UNCHANGED <<disk, acked, asked>>
      /\ (up' <=> up) /\ (sick' <=> sick)
  BY DEF CreateTaskFails, DeleteFails, history
<1>3. sick /\ up
  BY <1>1, <1>2, Serving DEF Basic, Locked
<1>4. Calm(c) /\ th'[c].pc # "save" /\ Keeping(c)' /\ ~Saved(c)'
  BY <1>1, OnlyCalm, IdleFields, NotCreating
<1> QED BY <1>1, <1>2, <1>3, <1>4, KeptFrame

LEMMA KeptDeleteTask ==
    ASSUME Basic, Kept, NEW c \in Clients, NEW n \in Names, DeleteTask(c, n) PROVE Kept'
<1>1. /\ Only(c) /\ th'[c].op = "deleteTask" /\ th'[c].pc = "save"
      /\ th'[c].doc = CloneMetadata(queue, Without(list, n), heap)
  BY DeleteTaskEffect DEF Basic
<1>2. /\ up /\ list' = Without(list, n) /\ asked' = asked \cup {Find(list, n)}
      /\ UNCHANGED <<disk, acked>> /\ (up' <=> up) /\ (sick' <=> sick)
  BY DEF DeleteTask
<1>3. list' \in Seq(Tasks) /\ \A t \in Elements(list) : t \in Elements(list') \cup asked'
  BY <1>2, WithoutFacts DEF Basic, TypeOK
<1>4. th'[c].doc.list = list'
  BY <1>1, <1>2, <1>3, CloneFacts DEF Basic, TypeOK
<1>5. c \in Callers /\ Calm(c) /\ Keeping(c)' /\ ~Saved(c)'
  BY <1>1, CallerFacts, OnlyCalm, NotCreating
<1> QED BY <1>2, <1>3, <1>4, <1>5, KeptFrame

LEMMA KeptDeleteQueue ==
    ASSUME Basic, Kept, NEW c \in Clients, DeleteQueue(c) PROVE Kept'
<1>1. /\ Only(c) /\ th'[c].op = "deleteQueue" /\ th'[c].pc = "save"
  BY DeleteQueueEffect DEF Basic
<1>2. /\ up /\ list' = <<>> /\ asked' = asked \cup Elements(list)
      /\ UNCHANGED <<disk, acked>> /\ (up' <=> up) /\ (sick' <=> sick)
  BY DEF DeleteQueue
<1>3. \A t \in Elements(list) : t \in Elements(list') \cup asked'
  BY <1>2
<1>4. Elements(list') = {}
  BY <1>2, EmptyFacts
<1>5. c \in Callers /\ Calm(c) /\ Keeping(c)' /\ ~Saved(c)'
  BY <1>1, CallerFacts, OnlyCalm, NotCreating
<1> QED BY <1>2, <1>3, <1>4, <1>5, KeptFrame

LEMMA KeptDeleteEnds == ASSUME Basic, Kept, NEW c \in Clients, DeleteEnds(c) PROVE Kept'
<1>1. /\ Deletes(c) /\ UNCHANGED <<list, disk, acked, asked>> /\ (up' <=> up) /\ (sick' <=> sick)
  BY DEF DeleteEnds
<1>2. Calm(c) /\ th'[c] = Idle /\ c \in Callers /\ up
  BY <1>1, DeleteEndsCalm, DeletesFacts
<1>3. th'[c].pc # "save" /\ th'[c].op # "createTask"
  BY <1>2, IdleFields
<1> QED BY <1>1, <1>2, <1>3, KeptQuiet

LEMMA KeptWorker == ASSUME Basic, Kept, NEW w \in Slots, ExecuteTask(w) PROVE Kept'
<1>0. w \in Callers /\ w \notin Clients
  BY CallerFacts
<1>1. CASE Moves(w)
  <2>1. /\ Only(w) /\ th'[w].pc # "save" /\ th[w].pc # "idle" /\ UNCHANGED <<list, disk, acked, asked>>
        /\ (up' <=> up) /\ (sick' <=> sick)
    BY <1>1 DEF Moves
  <2> QED BY <1>0, <2>1, OnlyCalm, Serving, KeptQuiet
<1>2. CASE Exit(w)
  <2>1. /\ Only(w) /\ th'[w] = Idle /\ UNCHANGED <<list, disk, acked, asked>>
    BY <1>0, <1>2, IdleEffect DEF Basic, Exit, history
  <2>2. (up' <=> up) /\ (sick' <=> sick) /\ th'[w].pc # "save" /\ up
    BY <1>0, <1>2, <2>1, IdleFields, Serving DEF Exit
  <2> QED BY <1>0, <2>1, <2>2, OnlyCalm, KeptQuiet
<1>3. CASE RecordsFound(w)
  <2>1. /\ Only(w) /\ th'[w].doc.list = list /\ th[w].pc = "record"
        /\ UNCHANGED <<up, list, disk, sick, acked, asked>>
    BY <1>3, RecordsEffect
  <2>2. up
    BY <1>0, <2>1, Serving
  <2> QED BY <1>0, <2>1, <2>2, OnlyCalm, KeptFrame
<1> QED BY <1>1, <1>2, <1>3, WorkerSteps

LEMMA KeptCloser == ASSUME Basic, Kept, Shutdown \/ WorkersDone \/ ShutdownFails PROVE Kept'
<1>1. /\ Only(Closer) /\ th'[Closer].pc # "save" /\ UNCHANGED <<list, disk, acked, asked>>
      /\ (up' <=> up) /\ (sick' <=> sick) /\ (th[Closer].pc # "idle" \/ up)
  BY CloserSteps
<1> QED BY <1>1, CallerFacts, OnlyCalm, Serving, KeptQuiet

LEMMA KeptRestart == ASSUME Basic, Kept, Crash \/ Boot PROVE Kept'
<1>1. UNCHANGED <<acked, asked>>
  BY DEF Crash, Boot, history
<1>2. Basic'
  BY BasicCrash, BasicBoot
<1>3. disk'.list = disk.list /\ (up' => list' = disk.list)
  <2>1. CASE Crash
    <3>1. ~up' /\ disk' = disk
      BY <2>1 DEF Crash
    <3> QED BY <3>1
  <2>2. CASE Boot
    <3>1. disk'.list = disk.list /\ ((up' /\ list' = disk.list) \/ UNCHANGED up)
      BY <2>2, BootEffect DEF Basic
    <3>2. ~up
      BY <2>2 DEF Boot
    <3> QED BY <3>1, <3>2
  <2> QED BY <2>1, <2>2
<1>4. \A p \in Callers : th'[p].pc = "idle"
  <2>1. CASE Crash
    BY <2>1, CrashEffect, IdleFields
  <2>2. CASE Boot
    <3>1. th' = th /\ ~up
      BY <2>2, BootEffect DEF Basic, Boot
    <3> QED BY <3>1 DEF Basic, Locked
  <2> QED BY <2>1, <2>2
<1>5. \A c \in Clients : th'[c].op # "createTask"
  BY <1>2, <1>4, CallerFacts DEF Basic, Shape, ClientShape
<1>6. \A c \in Clients : Keeping(c)'
  BY <1>5, NotCreating
<1>7. ASSUME NEW t \in acked' \ asked' PROVE t \in Elements(disk'.list) /\ (up' => t \in Elements(list'))
  BY <1>1, <1>3, <1>7 DEF Kept
<1> QED BY <1>4, <1>6, <1>7 DEF Kept

LEMMA KeptStep == Basic /\ Kept /\ [Next]_vars => Kept'
<1> SUFFICES ASSUME Basic, Kept, [Next]_vars PROVE Kept'
  OBVIOUS
<1>1. CASE UNCHANGED vars
  BY <1>1 DEF vars, Kept, Keeping, Snapshot, Creating, Saved
<1>2. ASSUME NEW c \in Clients, CreateQueue(c) \/ DeleteQueue(c) \/ Handle(c) PROVE Kept'
  BY <1>2, KeptClient, KeptDeleteQueue, KeptCreateTaskEnds, KeptRollback, KeptDeleteEnds DEF Handle
<1>3. ASSUME NEW c \in Clients, NEW t \in Tasks, CreateTask(c, t) PROVE Kept'
  BY <1>3, KeptCreateTask
<1>4. ASSUME NEW c \in Clients, NEW n \in Names, DeleteTask(c, n) PROVE Kept'
  BY <1>4, KeptDeleteTask
<1>5. ASSUME NEW p \in Callers, Save(p) PROVE Kept'
  BY <1>5, KeptPersist, KeptSave DEF Save
<1>6. ASSUME NEW w \in Slots, ExecuteTask(w) PROVE Kept'
  BY <1>6, KeptWorker
<1>7. CASE Shutdown \/ WorkersDone \/ ShutdownFails \/ Crash \/ Boot
  BY <1>7, KeptCloser, KeptRestart
<1> QED BY <1>1, <1>2, <1>3, <1>4, <1>5, <1>6, <1>7 DEF Next

LEMMA KeptInit == Init => Kept
<1> SUFFICES ASSUME Init PROVE Kept
  OBVIOUS
<1>1. th = [p \in Callers |-> Idle] /\ acked = {}
  BY DEF Init
<1>2. \A p \in Callers : th[p].pc = "idle" /\ th[p].op = "none"
  BY <1>1, IdleFields
<1> QED BY <1>1, <1>2, CallerFacts DEF Kept, Keeping, Creating

\* A task whose creation was answered is in the state file and in api.tasks
\* until a deletion takes it, through failing deletions that restore an older
\* list, rollbacks of other creations, restarts and shutdowns.
THEOREM AckedKeptHolds == Spec => []AckedKept
<1>1. Kept => AckedKept
  BY DEF Kept, AckedKept
<1>2. Init => Basic /\ Kept
  BY BasicInit, KeptInit
<1>3. Basic /\ Kept /\ [Next]_vars => (Basic /\ Kept)'
  BY BasicStep, KeptStep
<1> QED BY <1>1, <1>2, <1>3, PTL DEF Spec
-----------------------------------------------------------------------------
\* Names that are not shared: one goroutine for each task.

LEMMA OneJobFrame ==
    ASSUME OneJob, NEW p \in Callers, Only(p), closed => closed', acked' = acked,
           removed \subseteq removed',
           p \in Clients => /\ Creating(p)' => Creating(p) /\ th'[p].t = th[p].t
                            /\ th'[p].dead => th[p].dead,
           p \in Slots => /\ Alive(p)' => Alive(p)
                          /\ th'[p].dead => th[p].dead
    PROVE  OneJob'
<1>1. ASSUME NEW c \in Clients
      PROVE  (Creating(c)' => Creating(c) /\ th'[c].t = th[c].t) /\ (th'[c].dead => th[c].dead)
  <2>1. CASE c = p
    BY <2>1
  <2>2. CASE c # p
    <3>1. th'[c] = th[c]
      BY <2>2, CallerFacts DEF Only
    <3> QED BY <3>1 DEF Creating
  <2> QED BY <2>1, <2>2
<1>2. ASSUME NEW w \in Slots PROVE (Alive(w)' => Alive(w)) /\ (th'[w].dead => th[w].dead)
  <2>1. CASE w = p
    BY <2>1
  <2>2. CASE w # p
    <3>1. th'[w] = th[w]
      BY <2>2, CallerFacts DEF Only
    <3> QED BY <3>1 DEF Alive
  <2> QED BY <2>1, <2>2
<1>3. \A c \in Clients : Creating(c)' => th'[c].t \notin acked'
  BY <1>1 DEF OneJob
<1>4. \A c, d \in Clients : Creating(c)' /\ Creating(d)' /\ th'[c].t = th'[d].t => c = d
  BY <1>1 DEF OneJob
<1>5. \A c \in Clients : th'[c].dead => closed'
  BY <1>1 DEF OneJob
<1>6. \A w \in Slots : Alive(w)' => \E t \in acked' : NameOf[t] = w[1]
  BY <1>2 DEF OneJob
<1>7. \A w, v \in Slots : Alive(w)' /\ Alive(v)' /\ w[1] = v[1] => w = v
  BY <1>2 DEF OneJob
<1>8. \A w \in Slots, t \in Tasks : th'[w].dead /\ Alive(w)' /\ NameOf[t] = w[1] => t \in removed'
  BY <1>2 DEF OneJob
<1> QED BY <1>3, <1>4, <1>5, <1>6, <1>7, <1>8 DEF OneJob

LEMMA OneJobSave == ASSUME Basic, OneJob, NEW p \in Callers, Save(p) PROVE OneJob'
<1>1. /\ Only(p) /\ th'[p].op = th[p].op /\ th'[p].t = th[p].t /\ th'[p].dead = th[p].dead
  <2>1. CASE PersistMetadata(p)
    BY <2>1, PersistEffect DEF Basic
  <2>2. CASE SaveOk(p)
    BY <2>2, SaveOkEffect DEF Basic
  <2>3. CASE SaveFails(p)
    BY <2>3, SaveFailsEffect DEF Basic
  <2> QED BY <2>1, <2>2, <2>3 DEF Save
<1>2. th[p].pc # "idle" /\ acked' = acked /\ removed' = removed /\ (closed' <=> closed)
  BY DEF Save, PersistMetadata, SaveOk, SaveFails, memory, history
<1>3. (Creating(p)' => Creating(p)) /\ Alive(p) /\ (th'[p].dead => th[p].dead)
  BY <1>1, <1>2 DEF Creating, Alive
<1> QED BY <1>1, <1>2, <1>3, OneJobFrame

LEMMA Releases ==
    ASSUME Basic, NEW c \in Clients,
           CreateQueue(c) \/ DeleteQueue(c) \/ CreateQueueEnds(c) \/ CreateTaskFails(c)
             \/ DeleteFails(c) \/ \E n \in Names : DeleteTask(c, n)
    PROVE  Only(c) /\ th'[c].op # "createTask" /\ ~th'[c].dead /\ (closed' <=> closed)
           /\ acked' = acked /\ removed' = removed /\ sent' = sent /\ jobs' = jobs
<1>0. c \in Callers
  BY CallerFacts
<1>1. CASE CreateQueue(c)
  <2>1. Only(c) /\ th'[c].op = "createQueue" /\ ~th'[c].dead
    BY <1>1, CreateQueueEffect DEF Basic
  <2> QED BY <1>1, <2>1 DEF CreateQueue, history
<1>2. CASE DeleteQueue(c)
  <2>1. Only(c) /\ th'[c].op = "deleteQueue" /\ ~th'[c].dead
    BY <1>2, DeleteQueueEffect DEF Basic
  <2> QED BY <1>2, <2>1 DEF DeleteQueue
<1>3. ASSUME NEW n \in Names, DeleteTask(c, n)
      PROVE  Only(c) /\ th'[c].op # "createTask" /\ ~th'[c].dead /\ (closed' <=> closed)
             /\ acked' = acked /\ removed' = removed /\ sent' = sent /\ jobs' = jobs
  <2>1. Only(c) /\ th'[c].op = "deleteTask" /\ ~th'[c].dead
    BY <1>3, DeleteTaskEffect DEF Basic
  <2> QED BY <1>3, <2>1 DEF DeleteTask
<1>4. CASE CreateQueueEnds(c) \/ CreateTaskFails(c) \/ DeleteFails(c)
  <2>1. th' = [th EXCEPT ![c] = Idle] /\ acked' = acked /\ removed' = removed /\ sent' = sent /\ jobs' = jobs
    BY <1>4 DEF CreateQueueEnds, CreateTaskFails, DeleteFails, history
  <2>2. Only(c) /\ th'[c] = Idle
    BY <1>0, <2>1, IdleEffect DEF Basic
  <2>3. closed' <=> closed
    BY <1>4 DEF CreateQueueEnds, CreateTaskFails, DeleteFails
  <2> QED BY <2>1, <2>2, <2>3, IdleFields
<1> QED BY <1>1, <1>2, <1>3, <1>4

LEMMA OneJobReleases ==
    ASSUME Basic, OneJob, NEW c \in Clients,
           CreateQueue(c) \/ DeleteQueue(c) \/ CreateQueueEnds(c) \/ CreateTaskFails(c)
             \/ DeleteFails(c) \/ \E n \in Names : DeleteTask(c, n)
    PROVE  OneJob'
<1>1. /\ Only(c) /\ th'[c].op # "createTask" /\ ~th'[c].dead /\ (closed' <=> closed)
      /\ acked' = acked /\ removed' = removed
  BY Releases
<1>2. c \in Callers /\ c \notin Slots /\ ~Creating(c)'
  BY <1>1, CallerFacts DEF Creating
<1> QED BY <1>1, <1>2, OneJobFrame

LEMMA OneJobCreateTask ==
    ASSUME Basic, Lists, OneJob, NEW c \in Clients, NEW t \in Tasks, CreateTask(c, t)
    PROVE  OneJob'
<1>1. Only(c) /\ th'[c].op = "createTask" /\ th'[c].t = t /\ (th'[c].dead <=> closed)
  BY CreateTaskEffect DEF Basic
<1>2. t \notin created /\ acked' = acked /\ removed' = removed /\ (closed' <=> closed)
  BY DEF CreateTask
<1>3. ASSUME NEW d \in Clients, d # c
      PROVE  th'[d] = th[d] /\ (Creating(d) => th[d].t # t /\ th[d].t \notin acked)
  <2>1. th'[d] = th[d]
    BY <1>1, <1>3, CallerFacts DEF Only
  <2>2. Creating(d) => th[d].t \in created
    BY DEF Creating, Lists, Requesting
  <2> QED BY <1>2, <2>1, <2>2 DEF OneJob
<1>4. t \notin acked
  BY <1>2 DEF Lists, Histories
<1>5. ASSUME NEW w \in Slots PROVE th'[w] = th[w]
  BY <1>1, CallerFacts DEF Only
<1>6. \A d \in Clients : Creating(d)' => th'[d].t \notin acked'
  BY <1>1, <1>2, <1>3, <1>4 DEF Creating
<1>7. \A d, e \in Clients : Creating(d)' /\ Creating(e)' /\ th'[d].t = th'[e].t => d = e
  BY <1>1, <1>3 DEF Creating, OneJob
<1>8. \A d \in Clients : th'[d].dead => closed'
  BY <1>1, <1>2, <1>3 DEF OneJob
<1>9. \A w \in Slots : Alive(w)' <=> Alive(w)
  BY <1>5 DEF Alive
<1> QED BY <1>2, <1>5, <1>6, <1>7, <1>8, <1>9 DEF OneJob

LEMMA OneJobCreateTaskEnds ==
    ASSUME DistinctNames, Basic, Lists, OneJob, NEW c \in Clients, CreateTaskEnds(c) PROVE OneJob'
<1>1. /\ th[c].op = "createTask" /\ acked' = acked \cup {th[c].t} /\ removed' = removed
      /\ (closed' <=> closed)
  BY DEF CreateTaskEnds
<1>2. /\ th'[c] = Idle /\ \A q \in Callers : q # c /\ q \notin Slots => th'[q] = th[q]
      /\ \A w \in Slots : th'[w] = th[w] \/ Fresh(w, c)
  BY <1>1, CreatingFacts, CreateTaskEndsEffect DEF Basic
<1>3. Creating(c) /\ th[c].t \notin acked /\ th[c].t \in Tasks
  BY <1>1, CreatingFacts DEF Creating, OneJob
<1>4. ASSUME NEW d \in Clients
      PROVE  /\ Creating(d)' => Creating(d) /\ th'[d].t = th[d].t /\ d # c
             /\ th'[d].dead => th[d].dead
  <2>1. CASE d = c
    BY <1>2, <2>1, IdleFields DEF Creating
  <2>2. CASE d # c
    <3>1. th'[d] = th[d]
      BY <1>2, <2>2, CallerFacts
    <3> QED BY <2>2, <3>1 DEF Creating
  <2> QED BY <2>1, <2>2
<1>5. ASSUME NEW w \in Slots, Fresh(w, c)
      PROVE  /\ \A v \in Slots : v[1] = w[1] => ~Alive(v)
             /\ NameOf[th[c].t] = w[1] /\ jobs'[w[1]] = w /\ ~th'[w].dead
  <2>1. NameOf[th[c].t] = w[1] /\ jobs'[w[1]] = w /\ ~th'[w].dead
    BY <1>5 DEF Fresh
  <2>2. ASSUME NEW v \in Slots, v[1] = w[1], Alive(v) PROVE FALSE
    <3>1. PICK t \in acked : NameOf[t] = w[1]
      BY <2>2 DEF OneJob
    <3>2. t \in Tasks
      BY <3>1 DEF Basic, TypeOK
    <3>3. t = th[c].t
      BY <1>3, <2>1, <3>1, <3>2 DEF DistinctNames
    <3> QED BY <1>3, <3>1, <3>3
  <2> QED BY <2>1, <2>2
<1>6. \A d \in Clients : Creating(d)' => th'[d].t \notin acked'
  BY <1>1, <1>3, <1>4 DEF OneJob
<1>7. \A d, e \in Clients : Creating(d)' /\ Creating(e)' /\ th'[d].t = th'[e].t => d = e
  BY <1>4 DEF OneJob
<1>8. \A d \in Clients : th'[d].dead => closed'
  BY <1>1, <1>4 DEF OneJob
<1>9. ASSUME NEW w \in Slots, Alive(w)' PROVE \E t \in acked' : NameOf[t] = w[1]
  <2>1. CASE th'[w] = th[w]
    BY <1>1, <1>9, <2>1 DEF OneJob, Alive
  <2>2. CASE Fresh(w, c)
    BY <1>1, <1>5, <2>2
  <2> QED BY <1>2, <2>1, <2>2
<1>10. ASSUME NEW w \in Slots, NEW v \in Slots, Alive(w)', Alive(v)', w[1] = v[1] PROVE w = v
  <2>1. CASE Fresh(w, c) /\ Fresh(v, c)
    BY <1>5, <1>10, <2>1
  <2>2. CASE th'[w] = th[w] /\ th'[v] = th[v]
    BY <1>10, <2>2 DEF OneJob, Alive
  <2>3. CASE Fresh(w, c) /\ th'[v] = th[v]
    BY <1>5, <1>10, <2>3 DEF Alive
  <2>4. CASE Fresh(v, c) /\ th'[w] = th[w]
    BY <1>5, <1>10, <2>4 DEF Alive
  <2> QED BY <1>2, <2>1, <2>2, <2>3, <2>4
<1>11. ASSUME NEW w \in Slots, NEW t \in Tasks, th'[w].dead, Alive(w)', NameOf[t] = w[1] PROVE t \in removed'
  <2>1. th'[w] = th[w]
    BY <1>2, <1>5, <1>11
  <2> QED BY <1>1, <1>11, <2>1 DEF OneJob, Alive
<1> QED BY <1>6, <1>7, <1>8, <1>9, <1>10, <1>11 DEF OneJob

LEMMA OneJobDeleteEnds ==
    ASSUME DistinctNames, Basic, JobOf, OneJob, NEW c \in Clients, DeleteEnds(c) PROVE OneJob'
<1>1. /\ \A q \in Callers : q # c => Alike(q)
      /\ \A q \in Callers : q # c => (th'[q].dead <=> th[q].dead \/ Killed(q, c))
  BY DeleteEndsEffect DEF Basic
<1>2. /\ removed' = removed \cup Gone(c) /\ Gone(c) \subseteq Tasks /\ acked' = acked
      /\ (closed' <=> closed)
  BY DeletesFacts DEF DeleteEnds
<1>3. Calm(c) /\ th'[c] = Idle
  BY DeleteEndsCalm
<1>4. ASSUME NEW d \in Clients
      PROVE  (Creating(d)' => Creating(d) /\ th'[d].t = th[d].t) /\ (th'[d].dead => th[d].dead)
  BY <1>3, IdleFields DEF Creating, Calm
<1>5. ASSUME NEW w \in Slots
      PROVE  (Alive(w)' <=> Alive(w)) /\ (th'[w].dead <=> th[w].dead \/ Killed(w, c))
  <2>1. w \in Callers /\ w # c
    BY CallerFacts
  <2> QED BY <1>1, <2>1 DEF Alike, Alive
<1>6. ASSUME NEW w \in Slots, NEW t \in Tasks, th'[w].dead, Alive(w)', NameOf[t] = w[1] PROVE t \in removed'
  <2>1. CASE th[w].dead
    BY <1>2, <1>5, <1>6, <2>1 DEF OneJob
  <2>2. CASE Killed(w, c)
    <3>1. PICK u \in Gone(c) : jobs[NameOf[u]] = w
      BY <2>2 DEF Killed
    <3>2. u \in Tasks /\ NameOf[u] \in Names /\ w # None
      BY <1>2, <3>1, TasksAssumption, SlotFacts
    <3>3. NameOf[u] = w[1]
      BY <3>1, <3>2 DEF JobOf
    <3>4. u = t
      BY <1>6, <3>2, <3>3 DEF DistinctNames
    <3> QED BY <1>2, <3>1, <3>4
  <2> QED BY <1>5, <1>6, <2>1, <2>2
<1>7. \A d \in Clients : Creating(d)' => th'[d].t \notin acked'
  BY <1>2, <1>4 DEF OneJob
<1>8. \A d, e \in Clients : Creating(d)' /\ Creating(e)' /\ th'[d].t = th'[e].t => d = e
  BY <1>4 DEF OneJob
<1>9. \A d \in Clients : th'[d].dead => closed'
  BY <1>2, <1>4 DEF OneJob
<1>10. \A w \in Slots : Alive(w)' => \E t \in acked' : NameOf[t] = w[1]
  BY <1>2, <1>5 DEF OneJob
<1>11. \A w, v \in Slots : Alive(w)' /\ Alive(v)' /\ w[1] = v[1] => w = v
  BY <1>5 DEF OneJob
<1> QED BY <1>6, <1>7, <1>8, <1>9, <1>10, <1>11 DEF OneJob

LEMMA OneJobWorker == ASSUME Basic, OneJob, NEW w \in Slots, ExecuteTask(w) PROVE OneJob'
<1>0. w \in Callers /\ w \notin Clients
  BY CallerFacts
<1>1. CASE Moves(w)
  <2>1. /\ Only(w) /\ Alive(w) /\ (th'[w].dead <=> th[w].dead) /\ acked' = acked /\ removed' = removed
        /\ (closed' <=> closed)
    BY <1>1 DEF Moves, Alive
  <2> QED BY <1>0, <2>1, OneJobFrame
<1>2. CASE RecordsFound(w)
  <2>1. /\ Only(w) /\ th[w].pc = "record" /\ (th'[w].dead <=> th[w].dead)
        /\ UNCHANGED <<acked, removed, closed>>
    BY <1>2, RecordsEffect
  <2>2. Alive(w) /\ (closed => closed')
    BY <2>1 DEF Alive
  <2> QED BY <1>0, <2>1, <2>2, OneJobFrame
<1>3. CASE Exit(w)
  <2>1. Only(w) /\ th'[w] = Idle /\ UNCHANGED <<acked, removed>>
    BY <1>0, <1>3, IdleEffect DEF Basic, Exit, history
  <2>2. ~Alive(w)' /\ ~th'[w].dead /\ (closed => closed')
    BY <1>3, <2>1, IdleFields DEF Alive, Exit
  <2> QED BY <1>0, <2>1, <2>2, OneJobFrame
<1> QED BY <1>1, <1>2, <1>3, WorkerSteps

LEMMA OneJobRestart == ASSUME Basic, OneJob, Crash \/ Boot PROVE OneJob'
<1>1. CASE Crash
  <2>1. \A p \in Callers : th'[p].pc = "idle" /\ th'[p].op = "none" /\ ~th'[p].dead
    BY <1>1, CrashEffect, IdleFields
  <2>2. (\A c \in Clients : ~Creating(c)' /\ ~th'[c].dead) /\ \A w \in Slots : ~Alive(w)'
    BY <2>1, CallerFacts DEF Creating, Alive
  <2> QED BY <2>2 DEF OneJob
<1>2. CASE Boot
  <2>1. th' = th /\ UNCHANGED <<closed, acked, removed>>
    BY <1>2, BootEffect DEF Basic, Boot, history
  <2> QED BY <2>1 DEF OneJob, Creating, Alive
<1> QED BY <1>1, <1>2

LEMMA OneJobStep ==
    ASSUME DistinctNames PROVE Basic /\ Lists /\ JobOf /\ OneJob /\ [Next]_vars => OneJob'
<1> SUFFICES ASSUME Basic, Lists, JobOf, OneJob, [Next]_vars PROVE OneJob'
  OBVIOUS
<1>1. CASE UNCHANGED vars
  BY <1>1 DEF vars, OneJob, Creating, Alive
<1>2. ASSUME NEW c \in Clients, CreateQueue(c) \/ DeleteQueue(c) \/ Handle(c) PROVE OneJob'
  BY <1>2, OneJobReleases, OneJobCreateTaskEnds, OneJobDeleteEnds DEF Handle
<1>3. ASSUME NEW c \in Clients, NEW t \in Tasks, CreateTask(c, t) PROVE OneJob'
  BY <1>3, OneJobCreateTask
<1>4. ASSUME NEW c \in Clients, NEW n \in Names, DeleteTask(c, n) PROVE OneJob'
  BY <1>4, OneJobReleases
<1>5. ASSUME NEW p \in Callers, Save(p) PROVE OneJob'
  BY <1>5, OneJobSave
<1>6. ASSUME NEW w \in Slots, ExecuteTask(w) PROVE OneJob'
  BY <1>6, OneJobWorker
<1>7. CASE Shutdown \/ WorkersDone \/ ShutdownFails
  <2>1. Only(Closer) /\ acked' = acked /\ removed' = removed /\ (closed => closed')
    BY <1>7, CloserSteps
  <2> QED BY <2>1, CallerFacts, OneJobFrame
<1>8. CASE Crash \/ Boot
  BY <1>8, OneJobRestart
<1> QED BY <1>1, <1>2, <1>3, <1>4, <1>5, <1>6, <1>7, <1>8 DEF Next

LEMMA OneJobInit == Init => OneJob
<1> SUFFICES ASSUME Init PROVE OneJob
  OBVIOUS
<1>1. th = [p \in Callers |-> Idle]
  BY DEF Init
<1>2. \A p \in Callers : th[p].pc = "idle" /\ th[p].op = "none" /\ ~th[p].dead
  BY <1>1, IdleFields
<1>3. (\A c \in Clients : ~Creating(c) /\ ~th[c].dead) /\ \A w \in Slots : ~Alive(w)
  BY <1>2, CallerFacts DEF Creating, Alive
<1> QED BY <1>3 DEF OneJob
-----------------------------------------------------------------------------
\* What a goroutine finds is what it left.

Ground == Basic /\ Lists /\ JobOf /\ OneJob

LEMMA Own ==
    ASSUME DistinctNames, Ground, NEW w \in Slots, Alive(w)
    PROVE  /\ th[w].n = w[1]
           /\ \A t \in Tasks : NameOf[t] = w[1] => t \in acked
           /\ th[w].t # None => th[w].t \in Tasks /\ NameOf[th[w].t] = w[1]
           /\ \A t \in Tasks : NameOf[t] = w[1] /\ th[w].t # None => t = th[w].t
           /\ \A t \in Elements(list) : NameOf[t] = w[1] => t = Find(list, w[1])
           /\ Find(list, w[1]) # None =>
                 /\ Find(list, w[1]) \in Tasks /\ NameOf[Find(list, w[1])] = w[1]
                 /\ Find(list, w[1]) \in Elements(list)
<1>1. th[w].n = w[1] /\ (th[w].t # None => NameOf[th[w].t] = w[1])
  BY DEF Ground, JobOf, Alive
<1>2. th[w].t \in Tasks \cup {None}
  BY CallerFacts DEF Ground, Basic, TypeOK, Threads
<1>3. PICK u \in acked : NameOf[u] = w[1]
  BY DEF Ground, OneJob
<1>4. u \in Tasks
  BY <1>3 DEF Ground, Basic, TypeOK
<1>5. \A t \in Tasks : NameOf[t] = w[1] => t = u
  BY <1>3, <1>4 DEF DistinctNames
<1>6. list \in Seq(Tasks)
  BY DEF Ground, Basic, TypeOK
<1>7. Elements(list) \subseteq Tasks
  BY <1>6, FindFacts
<1>8. Find(list, w[1]) # None =>
         /\ Find(list, w[1]) \in Tasks /\ NameOf[Find(list, w[1])] = w[1]
         /\ Find(list, w[1]) \in Elements(list)
  BY <1>6, <1>7, FindFacts
<1>9. Find(list, w[1]) = None => \A t \in Elements(list) : NameOf[t] # w[1]
  BY <1>6, FindFacts
<1>10. \A t \in Elements(list) : NameOf[t] = w[1] => t = Find(list, w[1])
  BY <1>5, <1>7, <1>8, <1>9
<1>11. \A t \in Tasks : NameOf[t] = w[1] /\ th[w].t # None => t = th[w].t
  BY <1>1, <1>2, <1>5
<1> QED BY <1>1, <1>2, <1>3, <1>5, <1>8, <1>10, <1>11

\* The step leaves the goroutine w and its task alone.
Untouched(w) ==
    /\ th'[w].pc = th[w].pc /\ th'[w].op = th[w].op /\ th'[w].t = th[w].t
    /\ th'[w].max = th[w].max /\ th'[w].k = th[w].k /\ th'[w].out = th[w].out
    /\ th[w].dead => th'[w].dead
    /\ closed => closed'
    /\ \A t \in Tasks : NameOf[t] = w[1] =>
          /\ heap'[t] = heap[t] /\ sent'[t] = sent[t]
          /\ ~sick' => (t \in Elements(list') => t \in Elements(list))

\* What the invariant says of one goroutine after the step.
Goes(w) == (~sick' => Follows(w)') /\ Spends(w)'

LEMMA UntouchedGoes ==
    ASSUME Basic, JobOf, NEW w \in Slots, Untouched(w), Elements(list') \subseteq Tasks,
           ~sick' => Follows(w), Spends(w)
    PROVE  Goes(w)
<1>1. ASSUME ~sick' PROVE Follows(w)'
  <2>1. ASSUME th'[w].t \in Elements(list')
        PROVE  /\ th[w].t \in Elements(list) /\ heap'[th'[w].t] = heap[th[w].t]
    <3>1. th[w].t \in Tasks /\ th[w].t # None
      BY <2>1, TasksAssumption DEF Untouched
    <3>2. NameOf[th[w].t] = w[1]
      BY <3>1 DEF JobOf
    <3> QED BY <1>1, <2>1, <3>1, <3>2 DEF Untouched
  <2>2. th'[w].t \in Elements(list') =>
          /\ Working(w)' => heap'[th'[w].t] = [status |-> "RETRYING", attempts |-> th'[w].k]
          /\ th'[w].op = "start" /\ th'[w].out = "FAILED" => Terminal(heap'[th'[w].t])
          /\ th'[w].op = "outcome" => heap'[th'[w].t].status = th'[w].out
    BY <1>1, <2>1 DEF Untouched, Follows, Working
  <2>3. ASSUME th'[w].pc = "exit", ~th'[w].dead, ~closed', NEW t \in Elements(list'), NameOf[t] = w[1]
        PROVE  Terminal(heap'[t])
    <3>1. t \in Elements(list) /\ heap'[t] = heap[t]
      BY <1>1, <2>3 DEF Untouched
    <3> QED BY <1>1, <2>3, <3>1 DEF Untouched, Follows
  <2> QED BY <2>2, <2>3 DEF Follows
<1>2. Spends(w)'
  <2> SUFFICES ASSUME NEW t \in Tasks, Alive(w)', NameOf[t] = w[1] PROVE Sending(w, t)'
    BY DEF Spends
  <2>1. Sending(w, t)
    BY DEF Spends, Alive, Untouched
  <2>2. /\ heap'[t] = heap[t] /\ Spent(sent', t) = Spent(sent, t)
        /\ \A m : Afford(sent', t, m) <=> Afford(sent, t, m)
    BY DEF Untouched, Spent, Afford
  <2> QED BY <2>1, <2>2 DEF Sending, Untouched
<1> QED BY <1>1, <1>2 DEF Goes

LEMMA IdleGoes ==
    ASSUME NEW w \in Slots, th'[w].pc = "idle", th'[w].t = None, Elements(list') \subseteq Tasks
    PROVE  Goes(w)
<1>1. Follows(w)'
  BY TasksAssumption DEF Follows
<1>2. Spends(w)'
  BY DEF Spends, Alive
<1> QED BY <1>1, <1>2 DEF Goes

\* Between two attempts, or done.
LEMMA RestGoes ==
    ASSUME Basic, NEW w \in Slots, th'[w].op = "deliver", th'[w].pc \in {"loop", "start", "exit"},
           \A t \in Tasks : NameOf[t] = w[1] =>
              /\ Afford(sent', t, th'[w].max)
              /\ th'[w].pc \in {"loop", "start"} => Spent(sent', t) <= heap'[t].attempts,
           ~sick' /\ th'[w].pc = "exit" /\ ~th'[w].dead /\ ~closed' =>
              \A t \in Elements(list') : NameOf[t] = w[1] => Terminal(heap'[t])
    PROVE  Goes(w)
<1>1. ~sick' => Follows(w)'
  BY DEF Follows, Working
<1>2. Spends(w)'
  BY DEF Spends, Sending
<1> QED BY <1>1, <1>2 DEF Goes

\* In an attempt.
LEMMA BusyGoes ==
    ASSUME Basic, NEW w \in Slots, th'[w].op = "deliver",
           th'[w].pc \in {"prepare", "send", "inflight", "record"},
           \A t \in Tasks : NameOf[t] = w[1] =>
              /\ Afford(sent', t, th'[w].max) /\ th'[w].k <= th'[w].max /\ Spent(sent', t) <= th'[w].k
              /\ th'[w].pc \in {"prepare", "send"} => Spent(sent', t) < th'[w].k
              /\ heap'[t].attempts = th'[w].k,
           ~sick' /\ th'[w].t \in Elements(list') =>
              heap'[th'[w].t] = [status |-> "RETRYING", attempts |-> th'[w].k]
    PROVE  Goes(w)
<1>1. ~sick' => Follows(w)'
  BY DEF Follows, Working
<1>2. Spends(w)'
  BY DEF Spends, Sending
<1> QED BY <1>1, <1>2 DEF Goes

LEMMA NumberTypes ==
    ASSUME TypeOK, NEW w \in Slots
    PROVE  /\ th[w].max \in Int /\ th[w].k \in Int
           /\ \A t \in Tasks : /\ sent[t] \in Nat /\ Spent(sent, t) \in Int
                               /\ heap[t] \in Records /\ heap[t].attempts \in Int
<1>1. th[w].max \in 0..100 /\ th[w].k \in Int
  BY CallerFacts DEF TypeOK, Threads
<1>2. \A t \in Tasks : sent[t] \in Nat /\ heap[t] \in Records /\ heap[t].attempts \in Int
  BY AttemptsType DEF TypeOK
<1>3. \A t \in Tasks : Spent(sent, t) \in Int
  BY <1>2, RetryAssumption DEF Spent
<1> QED BY <1>1, <1>2, <1>3

LEMMA Affordable ==
    ASSUME NEW s, NEW t, Spent(s, t) \in Int, NEW k \in Int, NEW m \in Int, Spent(s, t) <= k, k <= m
    PROVE  Afford(s, t, m)
BY DEF Afford

LEMMA CheckContextGoes ==
    ASSUME Basic, NEW w \in Slots, CheckContext(w), Spends(w) PROVE Goes(w)
<1>1. /\ th[w].pc = "loop" /\ th[w].op = "deliver" /\ UNCHANGED <<list, heap, sent>>
      /\ (closed' <=> closed) /\ (sick' <=> sick)
  BY DEF CheckContext, memory, history
<1>2. PICK x \in {"exit", "start"} : Goto(w, x) /\ (x = "exit" => Cancelled(w))
  BY DEF CheckContext
<1>3. th'[w].pc = x /\ Unmoved(w)
  BY <1>2, GotoEffect, CallerFacts DEF Basic
<1>4. th'[w].op = "deliver" /\ th'[w].max = th[w].max /\ (th'[w].dead <=> th[w].dead)
  BY <1>1, <1>3 DEF Unmoved
<1>5. ASSUME NEW t \in Tasks, NameOf[t] = w[1]
      PROVE  Afford(sent', t, th'[w].max) /\ Spent(sent', t) <= heap'[t].attempts
  BY <1>1, <1>4, <1>5 DEF Spends, Alive, Sending
<1>6. th'[w].pc = "exit" => closed' \/ th'[w].dead
  BY <1>1, <1>2, <1>3, <1>4 DEF Cancelled
<1>7. th'[w].pc \in {"loop", "start", "exit"}
  BY <1>3
<1> QED BY <1>4, <1>5, <1>6, <1>7, RestGoes

LEMMA RecordAttemptStartGoes ==
    ASSUME DistinctNames, Ground, NEW w \in Slots, RecordAttemptStart(w), Spends(w) PROVE Goes(w)
<1>1. /\ th[w].pc = "start" /\ UNCHANGED <<list, sent>>
      /\ (closed' <=> closed) /\ (sick' <=> sick)
  BY DEF RecordAttemptStart, history
<1>2. th[w].op = "deliver" /\ Alive(w) /\ Basic
  BY <1>1, WorkerAt DEF Ground, Basic, Alive
<1>3. ASSUME NEW t \in Tasks, NameOf[t] = w[1]
      PROVE  Afford(sent, t, th[w].max) /\ Spent(sent, t) <= heap[t].attempts
  BY <1>1, <1>2, <1>3 DEF Spends, Sending
<1>4. PICK t : t = Find(list, th[w].n)
  OBVIOUS
<1>5. th[w].n = w[1] /\ t = Find(list, w[1])
  BY <1>2, <1>4, Own
<1>6. CASE t = None \/ (t # None /\ Terminal(heap[t]))
  <2>1. Goto(w, "exit") /\ heap' = heap
    BY <1>4, <1>6 DEF RecordAttemptStart
  <2>2. th'[w].pc = "exit" /\ Unmoved(w)
    BY <1>2, <2>1, GotoEffect, CallerFacts DEF Basic
  <2>3. th'[w].op = "deliver" /\ th'[w].max = th[w].max
    BY <1>2, <2>2 DEF Unmoved
  <2>4. ASSUME NEW u \in Elements(list'), NameOf[u] = w[1] PROVE Terminal(heap'[u])
    <3>1. u = t /\ u \in Tasks
      BY <1>1, <1>2, <1>5, <2>4, Own, TypeFacts DEF Basic
    <3>2. t # None
      BY <3>1, TasksAssumption
    <3> QED BY <1>6, <2>1, <3>1, <3>2
  <2>5. ASSUME NEW u \in Tasks, NameOf[u] = w[1] PROVE Afford(sent', u, th'[w].max)
    BY <1>1, <1>3, <2>3, <2>5
  <2> QED BY <1>2, <2>2, <2>3, <2>4, <2>5, RestGoes
<1>7. CASE t # None /\ ~Terminal(heap[t])
  <2>1. /\ th'[w].pc = "persist" /\ th'[w].op = "start" /\ th'[w].t = t /\ th'[w].max = th[w].max
        /\ t \in Tasks /\ NameOf[t] = th[w].n /\ heap' \in [Tasks -> Records]
        /\ th'[w].k = heap'[t].attempts /\ th'[w].out \in {"FAILED", "none"}
        /\ th'[w].out = "FAILED" => heap'[t].status = "FAILED" /\ heap'[t].attempts = heap[t].attempts
        /\ th'[w].out = "none" =>
              /\ heap[t].attempts < th[w].max
              /\ heap'[t] = [status |-> "RETRYING", attempts |-> heap[t].attempts + 1]
    BY <1>2, <1>4, <1>7, BasicTypes, AttemptEffect
  <2>2. Follows(w)'
    <3>1. th'[w].out = "FAILED" => Terminal(heap'[t])
      BY <2>1 DEF Terminal
    <3>2. th'[w].out = "none" => heap'[t] = [status |-> "RETRYING", attempts |-> th'[w].k]
      BY <2>1
    <3>3. th'[w].out # "FAILED" => th'[w].out = "none"
      BY <2>1
    <3> QED BY <2>1, <3>1, <3>2, <3>3 DEF Follows, Working
  <2>3. ASSUME NEW u \in Tasks, NameOf[u] = w[1] PROVE Sending(w, u)'
    <3>1. u = t
      BY <1>5, <2>1, <2>3 DEF DistinctNames
    <3>2. Afford(sent, t, th[w].max) /\ Spent(sent, t) <= heap[t].attempts
      BY <1>3, <1>5, <2>1
    <3>3. Spent(sent, t) \in Int /\ th[w].max \in Int /\ heap[t].attempts \in Int
      BY <1>2, <2>1, NumberTypes DEF Basic
    <3>4. sent' = sent
      BY <1>1
    <3>5. th'[w].out # "FAILED" => /\ Spent(sent, t) < th'[w].k /\ th'[w].k <= th[w].max
      <4> SUFFICES ASSUME th'[w].out # "FAILED" PROVE Spent(sent, t) < th'[w].k /\ th'[w].k <= th[w].max
        OBVIOUS
      <4>1. th'[w].out = "none"
        BY <2>1
      <4>2. /\ heap[t].attempts < th[w].max
            /\ heap'[t] = [status |-> "RETRYING", attempts |-> heap[t].attempts + 1]
        BY <2>1, <4>1
      <4>3. heap'[t].attempts = heap[t].attempts + 1
        BY <4>2
      <4>4. th'[w].k = heap[t].attempts + 1
        BY <2>1, <4>3
      <4>5. PICK a \in Int, m \in Int, s \in Int :
               a = heap[t].attempts /\ m = th[w].max /\ s = Spent(sent, t)
        BY <3>3
      <4>6. s < a + 1 /\ a + 1 <= m
        BY <3>2, <4>2, <4>5
      <4> QED BY <4>4, <4>5, <4>6
    <3> QED BY <2>1, <3>1, <3>2, <3>4, <3>5 DEF Sending
  <2> QED BY <2>2, <2>3 DEF Goes, Spends
<1> QED BY <1>6, <1>7

LEMMA AttemptStartedGoes ==
    ASSUME DistinctNames, Ground, NEW w \in Slots, AttemptStarted(w), ~sick => Follows(w), Spends(w)
    PROVE  Goes(w)
<1>1. /\ th[w].op = "start" /\ th[w].pc = "saved" /\ UNCHANGED <<list, heap, sent>>
      /\ (closed' <=> closed) /\ (sick' <=> sick)
  BY DEF AttemptStarted, memory, history
<1>2. Alive(w) /\ Basic /\ th[w].t \in Tasks /\ th[w].t # None
  BY <1>1, WorkerAt, TasksAssumption DEF Ground, Basic, Alive
<1>3. PICK x \in {"exit", "prepare"} : x = IF th[w].out = "FAILED" THEN "exit" ELSE "prepare"
  OBVIOUS
<1>4. /\ th'[w].op = "deliver" /\ th'[w].pc = x /\ th'[w].t = th[w].t /\ th'[w].max = th[w].max
      /\ th'[w].k = th[w].k
  BY <1>2, <1>3, AttemptStartedEffect DEF Basic
<1>5. \A t \in Tasks : NameOf[t] = w[1] => t = th[w].t /\ Sending(w, t)
  BY <1>2, Own DEF Spends
<1>6. CASE x = "exit"
  <2>1. th[w].out = "FAILED"
    BY <1>3, <1>6
  <2>2. ASSUME ~sick', NEW t \in Elements(list'), NameOf[t] = w[1] PROVE Terminal(heap'[t])
    <3>1. t \in Elements(list) /\ t \in Tasks
      BY <1>1, <1>2, <2>2, TypeFacts DEF Basic
    <3>2. t = th[w].t
      BY <1>5, <2>2, <3>1
    <3> QED BY <1>1, <2>1, <2>2, <3>1, <3>2 DEF Follows
  <2>3. ASSUME NEW t \in Tasks, NameOf[t] = w[1] PROVE Afford(sent', t, th'[w].max)
    BY <1>1, <1>4, <1>5, <2>3 DEF Sending
  <2> QED BY <1>2, <1>4, <1>6, <2>2, <2>3, RestGoes
<1>7. CASE x = "prepare"
  <2>1. th[w].out # "FAILED"
    BY <1>3, <1>7
  <2>2. ASSUME NEW t \in Tasks, NameOf[t] = w[1]
        PROVE  /\ Afford(sent', t, th'[w].max) /\ th'[w].k <= th'[w].max /\ Spent(sent', t) <= th'[w].k
               /\ Spent(sent', t) < th'[w].k /\ heap'[t].attempts = th'[w].k
    <3>1. Afford(sent, t, th[w].max) /\ Spent(sent, t) < th[w].k /\ th[w].k <= th[w].max /\ heap[t].attempts = th[w].k
      BY <1>1, <1>5, <2>1, <2>2 DEF Sending
    <3>2. Spent(sent, t) \in Int /\ th[w].k \in Int
      BY <1>2, NumberTypes DEF Basic
    <3> QED BY <1>1, <1>4, <3>1, <3>2
  <2>3. ~sick' /\ th'[w].t \in Elements(list') =>
           heap'[th'[w].t] = [status |-> "RETRYING", attempts |-> th'[w].k]
    BY <1>1, <1>4, <2>1 DEF Follows, Working
  <2>4. th'[w].pc \in {"prepare", "send", "inflight", "record"}
    BY <1>4, <1>7
  <2> QED BY <1>2, <1>4, <2>2, <2>3, <2>4, BusyGoes
<1> QED BY <1>6, <1>7

LEMMA RollbackGoes ==
    ASSUME Basic, NEW w \in Slots, AttemptNotStarted(w) \/ OutcomeNotRecorded(w), Spends(w) PROVE Goes(w)
<1>1. /\ th[w].pc = "failed" /\ sent' = sent /\ (sick' <=> sick)
  BY DEF AttemptNotStarted, OutcomeNotRecorded, history
<1>2. /\ th'[w].op = "deliver" /\ th'[w].pc = "exit" /\ th'[w].max = th[w].max
  BY AttemptNotStartedEffect DEF Basic
<1>3. sick'
  BY <1>1, CallerFacts DEF Basic, Locked
<1>4. ASSUME NEW t \in Tasks, NameOf[t] = w[1] PROVE Afford(sent', t, th'[w].max)
  BY <1>1, <1>2, <1>4 DEF Spends, Alive, Sending
<1>5. th'[w].pc \notin {"loop", "start"}
  BY <1>2
<1> QED BY <1>2, <1>3, <1>4, <1>5, RestGoes

\* The steps of an attempt that leave memory alone.
LEMMA AttemptGoes ==
    ASSUME Basic, NEW w \in Slots, Prepare(w) \/ Send(w) \/ Answer(w), ~sick => Follows(w), Spends(w)
    PROVE  Goes(w)
<1>1. /\ th[w].pc \in {"prepare", "send", "inflight"} /\ UNCHANGED <<list, heap>>
      /\ (closed' <=> closed) /\ (sick' <=> sick)
  BY DEF Prepare, Send, Answer, memory, history
<1>2. th[w].op = "deliver" /\ th[w].t \in Tasks
  BY <1>1, WorkerAt DEF Basic
<1>3. ASSUME NEW t \in Tasks, NameOf[t] = w[1]
      PROVE  /\ Afford(sent, t, th[w].max) /\ Spent(sent, t) <= th[w].k /\ th[w].k <= th[w].max
             /\ heap[t].attempts = th[w].k /\ Spent(sent, t) \in Int /\ th[w].k \in Int /\ th[w].max \in Int
             /\ th[w].pc \in {"prepare", "send"} => Spent(sent, t) < th[w].k
  <2>1. Sending(w, t)
    BY <1>1, <1>3 DEF Spends, Alive
  <2>2. Spent(sent, t) \in Int /\ th[w].k \in Int /\ th[w].max \in Int
    BY NumberTypes DEF Basic
  <2>3. Afford(sent, t, th[w].max) /\ th[w].k <= th[w].max /\ heap[t].attempts = th[w].k
    BY <1>1, <2>1 DEF Sending
  <2>4. th[w].pc \in {"prepare", "send"} => Spent(sent, t) < th[w].k
    BY <2>1 DEF Sending
  <2>5. th[w].pc = "inflight" => Spent(sent, t) <= th[w].k
    BY <2>1 DEF Sending
  <2>6. Spent(sent, t) <= th[w].k
    BY <1>1, <2>2, <2>4, <2>5
  <2> QED BY <2>2, <2>3, <2>4, <2>6
<1>4. ~sick /\ th[w].t \in Elements(list) => heap[th[w].t] = [status |-> "RETRYING", attempts |-> th[w].k]
  BY <1>1 DEF Follows, Working
<1>5. CASE Goto(w, "exit") /\ Cancelled(w) /\ sent' = sent
  <2>1. th'[w].pc = "exit" /\ Unmoved(w)
    BY <1>5, GotoEffect, CallerFacts DEF Basic
  <2>2. th'[w].op = "deliver" /\ th'[w].max = th[w].max /\ (th'[w].dead <=> th[w].dead)
    BY <1>2, <2>1 DEF Unmoved
  <2>3. closed' \/ th'[w].dead
    BY <1>1, <1>5, <2>2 DEF Cancelled
  <2>4. th'[w].pc \notin {"loop", "start"}
    BY <2>1
  <2>5. ASSUME NEW t \in Tasks, NameOf[t] = w[1] PROVE Afford(sent', t, th'[w].max)
    BY <1>3, <1>5, <2>2, <2>5
  <2> QED BY <2>1, <2>2, <2>3, <2>4, <2>5, RestGoes
<1>6. CASE Goto(w, "send") /\ th[w].pc = "prepare" /\ sent' = sent
  <2>1. th'[w].pc = "send" /\ Unmoved(w)
    BY <1>6, GotoEffect, CallerFacts DEF Basic
  <2>2. th'[w].op = "deliver" /\ th'[w].max = th[w].max /\ th'[w].k = th[w].k /\ th'[w].t = th[w].t
    BY <1>2, <2>1 DEF Unmoved
  <2>3. ~sick' /\ th'[w].t \in Elements(list') => heap'[th'[w].t] = [status |-> "RETRYING", attempts |-> th'[w].k]
    BY <1>1, <1>4, <2>2
  <2>4. ASSUME NEW t \in Tasks, NameOf[t] = w[1]
        PROVE  /\ Afford(sent', t, th'[w].max) /\ th'[w].k <= th'[w].max /\ Spent(sent', t) <= th'[w].k
               /\ Spent(sent', t) < th'[w].k /\ heap'[t].attempts = th'[w].k
    BY <1>1, <1>3, <1>6, <2>2, <2>4
  <2> QED BY <2>1, <2>2, <2>3, <2>4, BusyGoes
<1>7. CASE Goto(w, "inflight") /\ th[w].pc = "send" /\ sent' = [sent EXCEPT ![th[w].t] = @ + 1]
  <2>1. th'[w].pc = "inflight" /\ Unmoved(w)
    BY <1>7, GotoEffect, CallerFacts DEF Basic
  <2>2. th'[w].op = "deliver" /\ th'[w].max = th[w].max /\ th'[w].k = th[w].k /\ th'[w].t = th[w].t
    BY <1>2, <2>1 DEF Unmoved
  <2>3. ~sick' /\ th'[w].t \in Elements(list') => heap'[th'[w].t] = [status |-> "RETRYING", attempts |-> th'[w].k]
    BY <1>1, <1>4, <2>2
  <2>4. ASSUME NEW t \in Tasks, NameOf[t] = w[1]
        PROVE  /\ Afford(sent', t, th'[w].max) /\ th'[w].k <= th'[w].max /\ Spent(sent', t) <= th'[w].k
               /\ heap'[t].attempts = th'[w].k
    <3>1. sent \in [Tasks -> Nat]
      BY DEF Basic, TypeOK
    <3>2. Spent(sent', t) = Spent(sent, t) \/ Spent(sent', t) = Spent(sent, t) + 1
      <4>1. sent'[t] = sent[t] \/ sent'[t] = sent[t] + 1
        BY <1>7, <2>4, <3>1
      <4>2. sent[t] \in Int /\ GivenAttempts[t] \in Int
        BY <3>1, RetryAssumption
      <4> QED BY <4>1, <4>2 DEF Spent
    <3>3. /\ th[w].k <= th[w].max /\ heap[t].attempts = th[w].k /\ Spent(sent, t) \in Int /\ th[w].k \in Int
          /\ th[w].max \in Int /\ Spent(sent, t) < th[w].k
      BY <1>3, <1>7, <2>4
    <3>4. Spent(sent', t) \in Int /\ Spent(sent', t) <= th[w].k
      BY <3>2, <3>3
    <3>5. Afford(sent', t, th[w].max)
      BY <3>3, <3>4, Affordable
    <3> QED BY <1>1, <2>2, <3>3, <3>4, <3>5
  <2>5. th'[w].pc \notin {"prepare", "send"} /\ th'[w].pc \in {"prepare", "send", "inflight", "record"}
    BY <2>1
  <2> QED BY <2>2, <2>3, <2>4, <2>5, BusyGoes
<1>8. ASSUME NEW o \in {"COMPLETED", "FAILED", "RETRYING"}, sent' = sent,
             th' = [th EXCEPT ![w].pc = "record", ![w].out = o]
      PROVE  Goes(w)
  <2>1. /\ th'[w].pc = "record" /\ th'[w].op = "deliver" /\ th'[w].max = th[w].max /\ th'[w].k = th[w].k
        /\ th'[w].t = th[w].t
    BY <1>2, <1>8, RefusedEffect DEF Basic
  <2>2. ~sick' /\ th'[w].t \in Elements(list') => heap'[th'[w].t] = [status |-> "RETRYING", attempts |-> th'[w].k]
    BY <1>1, <1>4, <2>1
  <2>3. ASSUME NEW t \in Tasks, NameOf[t] = w[1]
        PROVE  /\ Afford(sent', t, th'[w].max) /\ th'[w].k <= th'[w].max /\ Spent(sent', t) <= th'[w].k
               /\ heap'[t].attempts = th'[w].k
    BY <1>1, <1>3, <1>8, <2>1, <2>3
  <2>4. th'[w].pc \notin {"prepare", "send"} /\ th'[w].pc \in {"prepare", "send", "inflight", "record"}
    BY <2>1
  <2> QED BY <2>1, <2>2, <2>3, <2>4, BusyGoes
<1>9. CASE Prepare(w)
  <2>1. th[w].pc = "prepare" /\ sent' = sent
        /\ (Goto(w, "send") \/ th' = [th EXCEPT ![w].pc = "record", ![w].out = "FAILED"])
    BY <1>9 DEF Prepare, history
  <2> QED BY <1>6, <1>8, <2>1
<1>10. CASE Send(w)
  <2>1. /\ th[w].pc = "send"
        /\ \/ Cancelled(w) /\ Goto(w, "exit") /\ sent' = sent
           \/ Goto(w, "inflight") /\ sent' = [sent EXCEPT ![th[w].t] = @ + 1]
    BY <1>10 DEF Send
  <2> QED BY <1>5, <1>7, <2>1
<1>11. CASE Answer(w)
  <2>1. sent' = sent
    BY <1>11 DEF Answer, history
  <2> QED BY <1>5, <1>8, <1>11, <2>1, AnswerCases
<1> QED BY <1>9, <1>10, <1>11

LEMMA RecordAttemptOutcomeGoes ==
    ASSUME DistinctNames, Ground, NEW w \in Slots, RecordAttemptOutcome(w), ~sick => Follows(w), Spends(w)
    PROVE  Goes(w)
<1>1. th[w].pc = "record" /\ Basic
  BY DEF RecordAttemptOutcome, Ground
<1>2. /\ th[w].op = "deliver" /\ Alive(w) /\ th[w].t \in Tasks /\ th[w].t # None
      /\ th[w].out \in {"COMPLETED", "FAILED", "RETRYING"} /\ th[w].n = w[1]
  <2>1. th[w].op = "deliver" /\ th[w].t \in Tasks /\ th[w].out # "none" /\ Alive(w)
    BY <1>1, WorkerAt DEF Basic, Alive
  <2>2. th[w].out \in {"none", "COMPLETED", "FAILED", "RETRYING"}
    BY <1>1, CallerFacts, TypeFacts DEF Basic, Threads
  <2> QED BY <2>1, <2>2, Own, TasksAssumption
<1>3. \A t \in Tasks : NameOf[t] = w[1] => t = th[w].t
  BY <1>2, Own
<1>4. ASSUME NEW t \in Tasks, NameOf[t] = w[1]
      PROVE  /\ Afford(sent, t, th[w].max) /\ Spent(sent, t) <= th[w].k /\ th[w].k <= th[w].max
             /\ heap[t].attempts = th[w].k
  BY <1>1, <1>2, <1>4 DEF Spends, Sending
<1>5. CASE Find(list, th[w].n) = None
  <2>1. Goto(w, AfterOutcome(th[w].out)) /\ heap' = heap
    BY <1>5 DEF RecordAttemptOutcome
  <2>2. list' = list /\ sent' = sent
    BY DEF RecordAttemptOutcome, history
  <2>3. PICK x \in {"loop", "exit"} : x = AfterOutcome(th[w].out)
    BY DEF AfterOutcome
  <2>4. th'[w].pc = x /\ Unmoved(w)
    BY <1>1, <2>1, <2>3, GotoEffect, CallerFacts DEF Basic
  <2>5. th'[w].op = "deliver" /\ th'[w].max = th[w].max
    BY <1>2, <2>4 DEF Unmoved
  <2>6. ASSUME NEW t \in Elements(list'), NameOf[t] = w[1] PROVE FALSE
    <3>1. list \in Seq(Tasks)
      BY <1>1 DEF Basic, TypeOK
    <3> QED BY <1>2, <1>5, <2>2, <2>6, <3>1, FindFacts
  <2>7. ASSUME NEW t \in Tasks, NameOf[t] = w[1]
        PROVE  Afford(sent', t, th'[w].max) /\ Spent(sent', t) <= heap'[t].attempts
    BY <1>4, <2>1, <2>2, <2>5, <2>7
  <2>8. th'[w].pc \in {"loop", "start", "exit"}
    BY <2>4
  <2> QED BY <1>1, <2>5, <2>6, <2>7, <2>8, RestGoes
<1>6. CASE Find(list, th[w].n) # None
  <2>1. RecordsFound(w)
    BY <1>6 DEF RecordsFound
  <2>2. /\ th'[w].op = "outcome" /\ th'[w].pc = "save" /\ th'[w].t = th[w].t
        /\ th'[w].max = th[w].max /\ th'[w].k = th[w].k /\ th'[w].out = th[w].out
        /\ heap' = [heap EXCEPT ![Find(list, th[w].n)].status = th[w].out]
        /\ list' = list /\ sent' = sent
    BY <1>1, <2>1, RecordsEffect
  <2>3. Find(list, th[w].n) = th[w].t
    BY <1>2, <1>3, <1>6, Own
  <2>4. heap \in [Tasks -> Records]
    BY <1>1, TypeFacts DEF Basic
  <2>5. heap[th[w].t] \in Records
    BY <1>2, <2>4
  <2>6. heap'[th[w].t] = [heap[th[w].t] EXCEPT !.status = th[w].out]
    BY <1>2, <2>2, <2>3, <2>4
  <2>7. heap'[th[w].t].status = th[w].out /\ heap'[th[w].t].attempts = heap[th[w].t].attempts
    BY <2>5, <2>6 DEF Records
  <2>8. Follows(w)'
    BY <2>2, <2>7 DEF Follows, Working
  <2>9. ASSUME NEW t \in Tasks, NameOf[t] = w[1] PROVE Sending(w, t)'
    <3>1. t = th[w].t
      BY <1>3, <2>9
    <3>2. heap'[t].attempts = th[w].k
      BY <1>4, <2>7, <2>9, <3>1
    <3>3. Afford(sent', t, th[w].max) /\ Spent(sent', t) <= th[w].k /\ th[w].k <= th[w].max
      BY <1>4, <2>2, <2>9
    <3> QED BY <2>2, <3>2, <3>3 DEF Sending
  <2> QED BY <2>8, <2>9 DEF Goes, Spends
<1> QED BY <1>5, <1>6

LEMMA OutcomeRecordedGoes ==
    ASSUME DistinctNames, Ground, NEW w \in Slots, OutcomeRecorded(w), ~sick => Follows(w), Spends(w)
    PROVE  Goes(w)
<1>1. /\ th[w].op = "outcome" /\ th[w].pc = "saved" /\ UNCHANGED <<list, heap, sent>>
      /\ (closed' <=> closed) /\ (sick' <=> sick)
  BY DEF OutcomeRecorded, memory, history
<1>2. Basic /\ Alive(w) /\ th[w].t \in Tasks /\ th[w].t # None /\ th[w].out # "none"
  BY <1>1, WorkerAt, TasksAssumption DEF Ground, Basic, Alive
<1>3. th[w].out \in {"COMPLETED", "FAILED", "RETRYING"}
  <2>1. th[w].out \in {"none", "COMPLETED", "FAILED", "RETRYING"}
    BY <1>2, CallerFacts, TypeFacts DEF Basic, Threads
  <2> QED BY <1>2, <2>1
<1>4. PICK x \in {"loop", "exit"} : x = AfterOutcome(th[w].out)
  BY DEF AfterOutcome
<1>5. x = "exit" => th[w].out \in {"COMPLETED", "FAILED"}
  BY <1>3, <1>4 DEF AfterOutcome
<1>6. th'[w].op = "deliver" /\ th'[w].pc = x /\ th'[w].max = th[w].max
  BY <1>2, <1>4, OutcomeRecordedEffect DEF Basic
<1>7. ASSUME NEW t \in Tasks, NameOf[t] = w[1]
      PROVE  t = th[w].t /\ Afford(sent, t, th[w].max) /\ Spent(sent, t) <= heap[t].attempts
  BY <1>1, <1>2, <1>7, Own DEF Spends, Sending
<1>8. ASSUME ~sick', th'[w].pc = "exit", NEW t \in Elements(list'), NameOf[t] = w[1]
      PROVE  Terminal(heap'[t])
  <2>1. t \in Elements(list) /\ t \in Tasks
    BY <1>1, <1>2, <1>8, TypeFacts DEF Basic
  <2>2. t = th[w].t
    BY <1>7, <1>8, <2>1
  <2>3. heap[t].status = th[w].out
    BY <1>1, <1>8, <2>1, <2>2 DEF Follows
  <2> QED BY <1>1, <1>5, <1>6, <1>8, <2>3 DEF Terminal
<1>9. ASSUME NEW t \in Tasks, NameOf[t] = w[1]
      PROVE  Afford(sent', t, th'[w].max) /\ Spent(sent', t) <= heap'[t].attempts
  BY <1>1, <1>6, <1>7, <1>9
<1>10. th'[w].pc \in {"loop", "start", "exit"}
  BY <1>6
<1> QED BY <1>2, <1>6, <1>8, <1>9, <1>10, RestGoes

LEMMA ExecuteTaskGoes ==
    ASSUME DistinctNames, Ground, NEW w \in Slots, ExecuteTask(w), ~sick => Follows(w), Spends(w)
    PROVE  Goes(w)
<1>0. Basic
  BY DEF Ground
<1>1. CASE CheckContext(w)
  BY <1>0, <1>1, CheckContextGoes
<1>2. CASE RecordAttemptStart(w)
  BY <1>2, RecordAttemptStartGoes
<1>3. CASE AttemptStarted(w)
  BY <1>3, AttemptStartedGoes
<1>4. CASE AttemptNotStarted(w) \/ OutcomeNotRecorded(w)
  BY <1>0, <1>4, RollbackGoes
<1>5. CASE Prepare(w) \/ Send(w) \/ Answer(w)
  BY <1>0, <1>5, AttemptGoes
<1>6. CASE RecordAttemptOutcome(w)
  BY <1>6, RecordAttemptOutcomeGoes
<1>7. CASE OutcomeRecorded(w)
  BY <1>7, OutcomeRecordedGoes
<1>8. CASE Exit(w)
  <2>1. th' = [th EXCEPT ![w] = Idle] /\ list' = list
    BY <1>8 DEF Exit
  <2>2. th'[w] = Idle
    BY <1>0, <2>1, IdleEffect, CallerFacts DEF Basic
  <2>3. Elements(list') \subseteq Tasks
    BY <1>0, <2>1, TypeFacts DEF Basic
  <2> QED BY <2>2, <2>3, IdleFields, IdleGoes
<1> QED BY <1>1, <1>2, <1>3, <1>4, <1>5, <1>6, <1>7, <1>8 DEF ExecuteTask

LEMMA SaveGoes ==
    ASSUME Basic, NEW w \in Slots, Save(w), ~sick => Follows(w), Spends(w) PROVE Goes(w)
<1>1. /\ th'[w].op = th[w].op /\ th'[w].t = th[w].t /\ th'[w].max = th[w].max /\ th'[w].k = th[w].k
      /\ th'[w].out = th[w].out
      /\ th'[w].pc \in {"save", "saved", "failed"} /\ th[w].pc \in {"persist", "save"}
  <2>1. CASE PersistMetadata(w)
    BY <2>1, PersistEffect, CallerFacts DEF Basic, PersistMetadata
  <2>2. CASE SaveOk(w)
    BY <2>2, SaveOkEffect, CallerFacts DEF Basic, SaveOk
  <2>3. CASE SaveFails(w)
    BY <2>3, SaveFailsEffect, CallerFacts DEF Basic, SaveFails
  <2> QED BY <2>1, <2>2, <2>3 DEF Save
<1>2. UNCHANGED <<list, heap, sent>>
  BY DEF Save, PersistMetadata, SaveOk, SaveFails, memory, history
<1>3. sick => sick'
  BY DEF Save, PersistMetadata, SaveOk, SaveFails
<1>4. ASSUME ~sick' PROVE Follows(w)'
  <2>1. Follows(w)
    BY <1>3, <1>4
  <2> QED BY <1>1, <1>2, <2>1 DEF Follows, Working
<1>5. Spends(w)'
  <2> SUFFICES ASSUME NEW t \in Tasks, Alive(w)', NameOf[t] = w[1] PROVE Sending(w, t)'
    BY DEF Spends
  <2>1. Sending(w, t)
    BY <1>1 DEF Spends, Alive
  <2> QED BY <1>1, <1>2, <2>1 DEF Sending
<1> QED BY <1>4, <1>5 DEF Goes

\* A goroutine touches the task of its own name only.
LEMMA WorkerLocal ==
    ASSUME Basic, JobOf, NEW w \in Slots, ExecuteTask(w), NEW t \in Tasks, NameOf[t] # w[1]
    PROVE  heap'[t] = heap[t] /\ sent'[t] = sent[t]
<1>1. Alive(w) /\ th[w].n = w[1] /\ (th[w].t # None => NameOf[th[w].t] = w[1])
  <2>1. Alive(w)
    BY DEF ExecuteTask, CheckContext, RecordAttemptStart, AttemptStarted, AttemptNotStarted, Prepare,
           Send, Answer, RecordAttemptOutcome, OutcomeRecorded, OutcomeNotRecorded, Exit, Alive
  <2> QED BY <2>1 DEF JobOf, Alive
<1>2. list \in Seq(Tasks) /\ heap \in [Tasks -> Records] /\ sent \in [Tasks -> Nat]
  BY DEF Basic, TypeOK
<1>3. CASE RecordAttemptStart(w)
  <2>1. sent' = sent
    BY <1>3 DEF RecordAttemptStart, history
  <2>2. PICK u : u = Find(list, th[w].n)
    OBVIOUS
  <2>3. CASE u = None \/ (u # None /\ Terminal(heap[u]))
    BY <1>3, <2>1, <2>2, <2>3 DEF RecordAttemptStart
  <2>4. CASE u # None /\ ~Terminal(heap[u])
    <3>0. TypeOK
      BY DEF Basic
    <3>1. NameOf[u] = th[w].n
      BY <1>3, <2>2, <2>4, <3>0, AttemptEffect, ZenonT(40)
    <3>2. NameOf[u] = th[w].n => u # t
      BY <1>1
    <3>3. \E r : heap' = [heap EXCEPT ![u] = r]
      BY <1>3, <2>2, <2>4 DEF RecordAttemptStart
    <3> QED BY <1>2, <2>1, <3>1, <3>2, <3>3
  <2> QED BY <2>3, <2>4
<1>4. CASE AttemptNotStarted(w)
  <2>1. sent' = sent
    BY <1>4 DEF AttemptNotStarted, history
  <2>2. PICK same : same = {i \in DOMAIN list : NameOf[list[i]] = th[w].n
                                                   /\ heap[list[i]].attempts = th[w].k}
    OBVIOUS
  <2>3. heap' = IF same = {} THEN heap ELSE [heap EXCEPT ![list[Min(same)]] = th[w].was]
    BY <1>4, <2>2 DEF AttemptNotStarted
  <2>4. CASE same = {}
    BY <2>1, <2>3, <2>4
  <2>5. CASE same # {}
    <3>1. same \subseteq Nat
      BY <1>2, <2>2
    <3>2. Min(same) \in same
      BY <2>5, <3>1, MinFacts
    <3>3. NameOf[list[Min(same)]] = w[1]
      BY <1>1, <2>2, <3>2
    <3>4. heap' = [heap EXCEPT ![list[Min(same)]] = th[w].was]
      BY <2>3, <2>5
    <3> QED BY <1>2, <2>1, <3>3, <3>4
  <2> QED BY <2>4, <2>5
<1>5. CASE Send(w)
  <2>1. th[w].pc = "send" /\ heap' = heap
    BY <1>5 DEF Send, memory
  <2>2. NameOf[th[w].t] = w[1]
    BY <1>1, <2>1, WorkerAt, TasksAssumption DEF Basic
  <2>3. sent' = sent \/ sent' = [sent EXCEPT ![th[w].t] = @ + 1]
    BY <1>5 DEF Send
  <2> QED BY <1>2, <2>1, <2>2, <2>3
<1>6. CASE RecordAttemptOutcome(w)
  <2>1. sent' = sent
    BY <1>6 DEF RecordAttemptOutcome, history
  <2>2. CASE Find(list, th[w].n) = None
    BY <1>6, <2>1, <2>2 DEF RecordAttemptOutcome
  <2>3. CASE Find(list, th[w].n) # None
    <3>1. heap' = [heap EXCEPT ![Find(list, th[w].n)].status = th[w].out]
      BY <1>6, <2>3 DEF RecordAttemptOutcome
    <3>2. NameOf[Find(list, th[w].n)] = w[1]
      BY <1>1, <1>2, <2>3, FindFacts
    <3> QED BY <1>2, <2>1, <3>1, <3>2
  <2> QED BY <2>2, <2>3
<1>7. CASE OutcomeNotRecorded(w)
  <2>1. sent' = sent
    BY <1>7 DEF OutcomeNotRecorded, history
  <2>2. CASE Find(list, th[w].n) = None
    BY <1>7, <2>1, <2>2 DEF OutcomeNotRecorded
  <2>3. CASE Find(list, th[w].n) # None
    <3>1. heap' = [heap EXCEPT ![Find(list, th[w].n)] = th[w].was]
      BY <1>7, <2>3 DEF OutcomeNotRecorded
    <3>2. NameOf[Find(list, th[w].n)] = w[1]
      BY <1>1, <1>2, <2>3, FindFacts
    <3> QED BY <1>2, <2>1, <3>1, <3>2
  <2> QED BY <2>2, <2>3
<1>8. CASE CheckContext(w) \/ AttemptStarted(w) \/ Prepare(w) \/ Answer(w) \/ OutcomeRecorded(w) \/ Exit(w)
  BY <1>8 DEF CheckContext, AttemptStarted, Prepare, Answer, OutcomeRecorded, Exit, memory, history
<1> QED BY <1>3, <1>4, <1>5, <1>6, <1>7, <1>8 DEF ExecuteTask

LEMMA WorkersFrame ==
    ASSUME Ground, Workers, Elements(list') \subseteq Tasks,
           \A w \in Slots : \/ ~Alive(w) /\ th'[w] = th[w]
                            \/ Untouched(w) /\ (sick => sick')
                            \/ Goes(w),
           \A t \in Tasks \ acked' : sent'[t] = 0
    PROVE  Workers'
<1>1. ASSUME NEW w \in Slots PROVE Goes(w)
  <2>1. CASE ~Alive(w) /\ th'[w] = th[w]
    <3>1. th[w].pc = "idle" /\ WorkerShape(th[w])
      BY <2>1 DEF Alive, Ground, Basic, Shape
    <3>2. th[w].t = None
      BY <3>1 DEF WorkerShape
    <3> QED BY <2>1, <3>1, <3>2, IdleGoes
  <2>2. CASE Untouched(w) /\ (sick => sick')
    BY <2>2, UntouchedGoes DEF Ground, Workers
  <2> QED BY <2>1, <2>2
<1> QED BY <1>1 DEF Workers, Goes

\* A step of another thread leaves the goroutines and accepted tasks alone.
LEMMA OthersUntouched ==
    ASSUME DistinctNames, Ground, NEW w \in Slots, Alive(w),
           Alike(w), th[w].dead => th'[w].dead, closed => closed', sent' = sent,
           \A t \in acked : heap'[t] = heap[t] /\ (~sick' => (t \in Elements(list') => t \in Elements(list)))
    PROVE  Untouched(w)
<1>1. \A t \in Tasks : NameOf[t] = w[1] => t \in acked
  BY Own
<1> QED BY <1>1 DEF Untouched, Alike

LEMMA SameAlike ==
    ASSUME NEW q, th'[q] = th[q] PROVE Alike(q) /\ (th[q].dead => th'[q].dead)
BY DEF Alike

LEMMA WorkersOnly ==
    ASSUME DistinctNames, Ground, Workers, NEW p \in Callers, p \notin Slots, Only(p),
           Elements(list') \subseteq Tasks, closed => closed', sick => sick', sent' = sent,
           acked' = acked,
           \A t \in acked : heap'[t] = heap[t] /\ (~sick' => (t \in Elements(list') => t \in Elements(list)))
    PROVE  Workers'
<1>1. ASSUME NEW w \in Slots PROVE (~Alive(w) /\ th'[w] = th[w]) \/ Untouched(w)
  <2>1. th'[w] = th[w]
    BY CallerFacts DEF Only
  <2>2. CASE Alive(w)
    BY <2>1, <2>2, SameAlike, OthersUntouched
  <2> QED BY <2>1, <2>2
<1>2. \A t \in Tasks \ acked' : sent'[t] = 0
  BY DEF Workers
<1> QED BY <1>1, <1>2, WorkersFrame

LEMMA WorkersExecute ==
    ASSUME DistinctNames, Ground, Workers, NEW w \in Slots, ExecuteTask(w) PROVE Workers'
<1>0. Basic /\ JobOf /\ OneJob
  BY DEF Ground
<1>1. /\ Only(w) /\ Alive(w) /\ list' = list /\ acked' = acked
      /\ (closed' <=> closed) /\ (sick' <=> sick)
  <2>1. CASE Moves(w)
    BY <2>1 DEF Moves, Alive
  <2>2. CASE RecordsFound(w)
    <3>1. Only(w) /\ th[w].pc = "record"
      BY <1>0, <2>2, RecordsEffect
    <3>2. list' = list /\ acked' = acked /\ (closed' <=> closed) /\ (sick' <=> sick)
      BY <2>2 DEF RecordsFound, RecordAttemptOutcome, history
    <3> QED BY <3>1, <3>2 DEF Alive
  <2>3. CASE Exit(w)
    <3>1. Only(w)
      BY <1>0, <2>3, IdleEffect, CallerFacts DEF Exit, Basic
    <3> QED BY <2>3, <3>1 DEF Exit, history, Alive
  <2> QED BY <1>0, <2>1, <2>2, <2>3, WorkerSteps
<1>2. ASSUME NEW v \in Slots, v # w PROVE (~Alive(v) /\ th'[v] = th[v]) \/ Untouched(v)
  <2>1. th'[v] = th[v]
    BY <1>1, <1>2, CallerFacts DEF Only
  <2>2. CASE Alive(v)
    <3>1. v[1] # w[1]
      BY <1>0, <1>1, <1>2, <2>2 DEF OneJob
    <3>2. ASSUME NEW t \in Tasks, NameOf[t] = v[1] PROVE heap'[t] = heap[t] /\ sent'[t] = sent[t]
      BY <1>0, <3>1, <3>2, WorkerLocal
    <3> QED BY <1>1, <2>1, <3>2 DEF Untouched
  <2> QED BY <2>1, <2>2
<1>3. Goes(w)
  BY ExecuteTaskGoes DEF Workers
<1>4. ASSUME NEW t \in Tasks \ acked' PROVE sent'[t] = 0
  <2>1. NameOf[t] # w[1]
    BY <1>1, <1>4, Own
  <2> QED BY <1>0, <1>1, <1>4, <2>1, WorkerLocal DEF Workers
<1>5. Elements(list') \subseteq Tasks
  BY <1>0, <1>1, TypeFacts DEF Basic
<1>6. sick => sick'
  BY <1>1
<1>7. \A v \in Slots : (~Alive(v) /\ th'[v] = th[v]) \/ (Untouched(v) /\ (sick => sick')) \/ Goes(v)
  BY <1>2, <1>3, <1>6
<1> QED BY <1>4, <1>5, <1>7, WorkersFrame

LEMMA WorkersSave ==
    ASSUME DistinctNames, Ground, Workers, NEW p \in Callers, Save(p) PROVE Workers'
<1>0. Basic
  BY DEF Ground
<1>1. UNCHANGED <<list, heap, sent, acked>>
  BY DEF Save, PersistMetadata, SaveOk, SaveFails, memory, history
<1>2. (closed => closed') /\ (sick => sick')
  BY DEF Save, PersistMetadata, SaveOk, SaveFails
<1>3. Only(p)
  BY <1>0, PersistEffect, SaveOkEffect, SaveFailsEffect DEF Basic, Save
<1>4. Elements(list') \subseteq Tasks
  BY <1>0, <1>1, TypeFacts DEF Basic
<1>5. ASSUME NEW w \in Slots, w # p PROVE (~Alive(w) /\ th'[w] = th[w]) \/ Untouched(w)
  <2>1. th'[w] = th[w]
    BY <1>3, <1>5, CallerFacts DEF Only
  <2>2. CASE Alive(w)
    BY <1>1, <1>2, <2>1, <2>2, SameAlike, OthersUntouched
  <2> QED BY <2>1, <2>2
<1>6. p \in Slots => Goes(p)
  BY <1>0, SaveGoes DEF Workers
<1>7. \A t \in Tasks \ acked' : sent'[t] = 0
  BY <1>1 DEF Workers
<1>8. \A v \in Slots : (~Alive(v) /\ th'[v] = th[v]) \/ (Untouched(v) /\ (sick => sick')) \/ Goes(v)
  BY <1>2, <1>5, <1>6
<1> QED BY <1>4, <1>7, <1>8, WorkersFrame

\* What the requests on the queue and the rollbacks leave alone: the list
\* only shrinks, unless the store has failed.
LEMMA ReleasesShrink ==
    ASSUME Basic, NEW c \in Clients,
           CreateQueue(c) \/ DeleteQueue(c) \/ CreateQueueEnds(c) \/ CreateTaskFails(c)
             \/ DeleteFails(c) \/ \E n \in Names : DeleteTask(c, n)
    PROVE  /\ heap' = heap /\ disk' = disk /\ (sick' <=> sick) /\ (up' <=> up)
           /\ Elements(list') \subseteq Tasks
           /\ ~sick' => Elements(list') \subseteq Elements(list)
<1>1. heap' = heap /\ disk' = disk /\ (sick' <=> sick) /\ (up' <=> up)
  <2>1. CASE CreateQueue(c) \/ CreateQueueEnds(c)
    BY <2>1 DEF CreateQueue, CreateQueueEnds
  <2>2. CASE DeleteQueue(c) \/ DeleteFails(c)
    BY <2>2 DEF DeleteQueue, DeleteFails
  <2>3. CASE CreateTaskFails(c)
    BY <2>3 DEF CreateTaskFails
  <2>4. ASSUME NEW n \in Names, DeleteTask(c, n)
        PROVE  heap' = heap /\ disk' = disk /\ (sick' <=> sick) /\ (up' <=> up)
    BY <2>4 DEF DeleteTask
  <2> QED BY <2>1, <2>2, <2>3, <2>4
<1>2. list \in Seq(Tasks) /\ Elements(list) \subseteq Tasks /\ th[c].list \in Seq(Tasks)
  BY TypeFacts, CallerFacts DEF Basic
<1>3. /\ Elements(list') \subseteq Tasks
      /\ ~sick' => Elements(list') \subseteq Elements(list)
  <2>1. CASE CreateQueue(c) \/ CreateQueueEnds(c)
    BY <1>2, <2>1 DEF CreateQueue, CreateQueueEnds
  <2>2. CASE DeleteQueue(c)
    BY <2>2, EmptyFacts DEF DeleteQueue
  <2>3. CASE CreateTaskFails(c)
    BY <1>2, <2>3, WithoutFacts DEF CreateTaskFails
  <2>4. CASE \E n \in Names : DeleteTask(c, n)
    BY <1>2, <2>4, WithoutFacts DEF DeleteTask
  <2>5. CASE DeleteFails(c)
    <3>1. th[c].pc = "failed" /\ (list' = th[c].list \/ list' = list)
      BY <2>5 DEF DeleteFails
    <3>2. sick'
      BY <1>1, <3>1, CallerFacts DEF Basic, Locked
    <3>3. Elements(th[c].list) \subseteq Tasks
      BY <1>2, FindFacts
    <3> QED BY <1>2, <3>1, <3>2, <3>3
  <2> QED BY <2>1, <2>2, <2>3, <2>4, <2>5
<1> QED BY <1>1, <1>3

LEMMA WorkersReleases ==
    ASSUME DistinctNames, Ground, Workers, NEW c \in Clients,
           CreateQueue(c) \/ DeleteQueue(c) \/ CreateQueueEnds(c) \/ CreateTaskFails(c)
             \/ DeleteFails(c) \/ \E n \in Names : DeleteTask(c, n)
    PROVE  Workers'
<1>0. Basic /\ c \in Callers /\ c \notin Slots
  BY CallerFacts DEF Ground
<1>1. Only(c) /\ (closed' <=> closed) /\ acked' = acked /\ sent' = sent
  BY <1>0, Releases
<1>2. /\ heap' = heap /\ (sick' <=> sick) /\ Elements(list') \subseteq Tasks
      /\ ~sick' => Elements(list') \subseteq Elements(list)
  BY <1>0, ReleasesShrink
<1> QED BY <1>0, <1>1, <1>2, WorkersOnly

LEMMA WorkersCreateTask ==
    ASSUME DistinctNames, Ground, Workers, NEW c \in Clients, NEW t \in Tasks, CreateTask(c, t)
    PROVE  Workers'
<1>0. Basic /\ c \in Callers /\ c \notin Slots
  BY CallerFacts DEF Ground
<1>1. Only(c)
  BY <1>0, CreateTaskEffect DEF Basic
<1>2. /\ acked' = acked /\ sent' = sent /\ (closed' <=> closed) /\ (sick' <=> sick) /\ t \notin created
      /\ list' = Append(list, t) /\ heap' = [heap EXCEPT ![t] = [NewTask EXCEPT !.attempts = GivenAttempts[t]]]
  BY DEF CreateTask
<1>3. acked \subseteq Tasks /\ t \notin acked
  BY <1>2 DEF Ground, Basic, TypeOK, Lists, Histories
<1>4. list \in Seq(Tasks) /\ Elements(list) \subseteq Tasks /\ heap \in [Tasks -> Records]
  BY <1>0, TypeFacts DEF Basic
<1>5. Elements(list') = Elements(list) \cup {t}
  BY <1>2, <1>4, AppendFacts
<1>6. \A u \in acked : heap'[u] = heap[u]
  BY <1>2, <1>3, <1>4
<1>7. \A u \in acked : u \in Elements(list') => u \in Elements(list)
  BY <1>3, <1>5
<1>8. Elements(list') \subseteq Tasks
  BY <1>4, <1>5
<1> QED BY <1>0, <1>1, <1>2, <1>6, <1>7, <1>8, WorkersOnly

LEMMA WorkersCreateTaskEnds ==
    ASSUME DistinctNames, Ground, Given, Workers, NEW c \in Clients, CreateTaskEnds(c) PROVE Workers'
<1>0. Basic /\ OneJob
  BY DEF Ground
<1>1. /\ th[c].op = "createTask" /\ acked' = acked \cup {th[c].t} /\ UNCHANGED <<list, heap, sent>>
      /\ (closed' <=> closed) /\ (sick' <=> sick)
  BY DEF CreateTaskEnds
<1>2. th[c].t \in Tasks /\ th[c].t \notin acked
  BY <1>0, <1>1, CreatingFacts DEF Creating, OneJob
<1>3. \A w \in Slots : th'[w] = th[w] \/ Fresh(w, c)
  BY <1>0, <1>2, CreateTaskEndsEffect DEF Basic
<1>4. ASSUME NEW w \in Slots, th'[w] = th[w] PROVE (~Alive(w) /\ th'[w] = th[w]) \/ Untouched(w)
  BY <1>1, <1>4, SameAlike, OthersUntouched
<1>5. ASSUME NEW w \in Slots, Fresh(w, c) PROVE Goes(w)
  <2>1. th'[w].pc = "loop" /\ th'[w].op = "deliver" /\ th'[w].max = th[c].max /\ NameOf[th[c].t] = w[1]
    BY <1>5 DEF Fresh
  <2>3. ASSUME NEW t \in Tasks, NameOf[t] = w[1]
        PROVE  Afford(sent', t, th'[w].max) /\ Spent(sent', t) <= heap'[t].attempts
    <3>1. t = th[c].t
      BY <1>2, <2>1, <2>3 DEF DistinctNames
    <3>2. sent[t] = 0
      BY <1>2, <3>1 DEF Workers
    <3>3. heap[t].attempts = GivenAttempts[t] /\ GivenAttempts[t] \in Int
      BY <1>1, <3>1, RetryAssumption DEF Given, Creating
    <3>4. Spent(sent, t) <= heap[t].attempts /\ \A m : Afford(sent, t, m)
      BY <3>2, <3>3 DEF Spent, Afford
    <3> QED BY <1>1, <3>4
  <2>4. th'[w].pc \in {"loop", "start", "exit"} /\ th'[w].pc # "exit"
    BY <2>1
  <2> QED BY <1>0, <2>1, <2>3, <2>4, RestGoes
<1>6. \A t \in Tasks \ acked' : sent'[t] = 0
  BY <1>1 DEF Workers
<1>7. Elements(list') \subseteq Tasks
  BY <1>0, <1>1, TypeFacts DEF Basic
<1>8. \A v \in Slots : (~Alive(v) /\ th'[v] = th[v]) \/ (Untouched(v) /\ (sick => sick')) \/ Goes(v)
  BY <1>1, <1>3, <1>4, <1>5
<1> QED BY <1>6, <1>7, <1>8, WorkersFrame

LEMMA WorkersDeleteEnds ==
    ASSUME DistinctNames, Ground, Workers, NEW c \in Clients, DeleteEnds(c) PROVE Workers'
<1>0. Basic
  BY DEF Ground
<1>1. UNCHANGED <<list, heap, sent, acked>> /\ (closed' <=> closed) /\ (sick' <=> sick)
  BY DEF DeleteEnds
<1>2. ASSUME NEW w \in Slots
      PROVE  /\ Alike(w) /\ (th[w].dead => th'[w].dead)
             /\ th'[w] = th[w] \/ Killed(w, c)
  <2>1. w \in Callers /\ w # c
    BY CallerFacts
  <2> QED BY <1>0, <2>1, DeleteEndsEffect DEF Basic
<1>3. ASSUME NEW w \in Slots, Killed(w, c) PROVE Alive(w)
  <2>1. PICK t \in Gone(c) : jobs[NameOf[t]] = w
    BY <1>3 DEF Killed
  <2>2. t \in Tasks
    BY <1>0, <2>1, DeletesFacts DEF DeleteEnds
  <2>3. NameOf[t] \in Names /\ w # None
    BY <2>2, TasksAssumption, SlotFacts
  <2> QED BY <2>1, <2>3 DEF Ground, JobOf, Alive
<1>4. ASSUME NEW w \in Slots PROVE (~Alive(w) /\ th'[w] = th[w]) \/ Untouched(w)
  <2>1. CASE Alive(w)
    BY <1>1, <1>2, <2>1, OthersUntouched
  <2>2. CASE ~Alive(w)
    BY <1>2, <1>3, <2>2
  <2> QED BY <2>1, <2>2
<1>5. \A t \in Tasks \ acked' : sent'[t] = 0
  BY <1>1 DEF Workers
<1>6. Elements(list') \subseteq Tasks
  BY <1>0, <1>1, TypeFacts DEF Basic
<1>7. \A v \in Slots : (~Alive(v) /\ th'[v] = th[v]) \/ (Untouched(v) /\ (sick => sick')) \/ Goes(v)
  BY <1>1, <1>4
<1> QED BY <1>5, <1>6, <1>7, WorkersFrame

LEMMA WorkersCloser ==
    ASSUME DistinctNames, Ground, Workers, Shutdown \/ WorkersDone \/ ShutdownFails PROVE Workers'
<1>0. Basic
  BY DEF Ground
<1>1. /\ Only(Closer) /\ UNCHANGED <<list, acked, sent>>
      /\ (sick' <=> sick) /\ (closed => closed')
  BY <1>0, CloserSteps
<1>2. Elements(list') \subseteq Tasks
  BY <1>0, <1>1, TypeFacts DEF Basic
<1>3. CASE Shutdown \/ ShutdownFails
  <2>1. heap' = heap
    BY <1>3 DEF Shutdown, ShutdownFails, memory
  <2> QED BY <1>1, <1>2, <2>1, CallerFacts, WorkersOnly
<1>4. CASE WorkersDone
  <2>1. \A w \in Slots : ~Alive(w) /\ th'[w] = th[w]
    BY <1>1, <1>4, CallerFacts DEF WorkersDone, Alive, Only
  <2>2. \A t \in Tasks \ acked' : sent'[t] = 0
    BY <1>1 DEF Workers
  <2> QED BY <1>2, <2>1, <2>2, WorkersFrame
<1> QED BY <1>3, <1>4

LEMMA WorkersRestart == ASSUME Ground, Workers, Crash \/ Boot PROVE Workers'
<1>0. Basic
  BY DEF Ground
<1>1. UNCHANGED <<sent, acked>>
  BY DEF Crash, Boot, history
<1>2. \A t \in Tasks \ acked' : sent'[t] = 0
  BY <1>1 DEF Workers
<1>3. CASE Crash
  <2>1. list' = <<>> /\ \A w \in Slots : th'[w] = Idle
    BY <1>3, CrashEffect, CallerFacts
  <2>2. Elements(list') \subseteq Tasks
    BY <2>1, EmptyFacts
  <2>3. \A w \in Slots : Goes(w)
    BY <2>1, <2>2, IdleFields, IdleGoes
  <2> QED BY <1>2, <2>2, <2>3, WorkersFrame
<1>4. CASE Boot
  <2>1. th' = th /\ (list' = disk.list \/ list' = list)
    BY <1>0, <1>4, BootEffect DEF Basic
  <2>2. Elements(list') \subseteq Tasks
    BY <1>0, <2>1, TypeFacts DEF Basic
  <2>3. \A w \in Slots : ~Alive(w)
    BY <1>0, <1>4, CallerFacts DEF Boot, Basic, Locked, Alive
  <2> QED BY <1>2, <2>1, <2>2, <2>3, WorkersFrame
<1> QED BY <1>3, <1>4

LEMMA GivenFrame ==
    ASSUME Given,
           \A c \in Clients : Creating(c)' =>
              Creating(c) /\ th'[c].t = th[c].t /\ heap'[th[c].t].attempts = heap[th[c].t].attempts
    PROVE  Given'
BY DEF Given

LEMMA GivenCreateTask ==
    ASSUME Ground, Given, NEW c \in Clients, NEW t \in Tasks, CreateTask(c, t) PROVE Given'
<1>0. Basic
  BY DEF Ground
<1>1. Only(c) /\ th'[c].t = t
  BY <1>0, CreateTaskEffect DEF Basic
<1>2. t \notin created /\ heap' = [heap EXCEPT ![t] = [NewTask EXCEPT !.attempts = GivenAttempts[t]]]
  BY DEF CreateTask
<1>3. heap \in [Tasks -> Records]
  BY <1>0, TypeFacts DEF Basic
<1>4. heap'[t].attempts = GivenAttempts[t]
  BY <1>2, <1>3 DEF NewTask
<1>5. ASSUME NEW d \in Clients, Creating(d)', d # c
      PROVE  heap'[th'[d].t].attempts = GivenAttempts[th'[d].t]
  <2>1. th'[d] = th[d]
    BY <1>1, <1>5, CallerFacts DEF Only
  <2>2. Creating(d) /\ th[d].t \in created /\ th[d].t \in Tasks
    BY <1>0, <1>5, <2>1, CreatingFacts DEF Creating, Ground, Lists, Requesting
  <2>3. heap'[th[d].t] = heap[th[d].t]
    BY <1>2, <1>3, <2>2
  <2> QED BY <2>1, <2>2, <2>3 DEF Given
<1> QED BY <1>1, <1>4, <1>5 DEF Given

\* Until its creation is answered no goroutine has the task.
LEMMA GivenWorker ==
    ASSUME DistinctNames, Ground, Given, NEW w \in Slots, ExecuteTask(w) PROVE Given'
<1>0. Basic /\ JobOf /\ OneJob
  BY DEF Ground
<1>1. Only(w) /\ Alive(w)
  <2>1. CASE Moves(w)
    BY <2>1 DEF Moves, Alive
  <2>2. CASE RecordsFound(w)
    <3>1. Only(w) /\ th[w].pc = "record"
      BY <1>0, <2>2, RecordsEffect
    <3> QED BY <3>1 DEF Alive
  <2>3. CASE Exit(w)
    BY <1>0, <2>3, IdleEffect, CallerFacts DEF Exit, Basic, Alive
  <2> QED BY <1>0, <2>1, <2>2, <2>3, WorkerSteps
<1>2. ASSUME NEW c \in Clients, Creating(c)'
      PROVE  Creating(c) /\ th'[c].t = th[c].t /\ heap'[th[c].t].attempts = heap[th[c].t].attempts
  <2>1. th'[c] = th[c]
    BY <1>1, CallerFacts DEF Only
  <2>2. Creating(c)
    BY <1>2, <2>1 DEF Creating
  <2>3. th[c].t \in Tasks /\ th[c].t \notin acked
    BY <1>0, <2>2, CreatingFacts DEF Creating, OneJob
  <2>4. NameOf[th[c].t] # w[1]
    BY <1>1, <2>3, Own
  <2> QED BY <1>0, <2>1, <2>2, <2>3, <2>4, WorkerLocal
<1> QED BY <1>2, GivenFrame

LEMMA GivenHandlers ==
    ASSUME DistinctNames, Ground, Given, NEW c \in Clients,
           CreateQueue(c) \/ DeleteQueue(c) \/ Handle(c) \/ \E n \in Names : DeleteTask(c, n)
    PROVE  Given'
<1>0. Basic /\ OneJob
  BY DEF Ground
<1>1. CASE CreateQueue(c) \/ DeleteQueue(c) \/ CreateQueueEnds(c) \/ CreateTaskFails(c)
             \/ DeleteFails(c) \/ \E n \in Names : DeleteTask(c, n)
  <2>1. Only(c) /\ ~Creating(c)' /\ heap' = heap
    BY <1>0, <1>1, Releases, ReleasesShrink DEF Creating
  <2>2. \A d \in Clients : Creating(d)' => Creating(d) /\ th'[d].t = th[d].t
    BY <2>1, CallerFacts DEF Only, Creating
  <2> QED BY <2>1, <2>2, GivenFrame
<1>2. CASE CreateTaskEnds(c)
  <2>1. th[c].op = "createTask" /\ heap' = heap
    BY <1>2 DEF CreateTaskEnds
  <2>2. /\ th'[c] = Idle /\ \A q \in Callers : q # c /\ q \notin Slots => th'[q] = th[q]
    BY <1>0, <1>2, <2>1, CreatingFacts, CreateTaskEndsEffect DEF Basic
  <2>3. ASSUME NEW d \in Clients, Creating(d)' PROVE Creating(d) /\ th'[d].t = th[d].t
    <3>1. d # c
      BY <2>2, <2>3, IdleFields DEF Creating
    <3>2. th'[d] = th[d]
      BY <2>2, <3>1, CallerFacts
    <3> QED BY <2>3, <3>2 DEF Creating
  <2> QED BY <2>1, <2>3, GivenFrame
<1>3. CASE DeleteEnds(c)
  <2>1. Calm(c) /\ th'[c] = Idle /\ heap' = heap
    BY <1>0, <1>3, DeleteEndsCalm DEF DeleteEnds
  <2>2. \A d \in Clients : Creating(d)' => Creating(d) /\ th'[d].t = th[d].t
    BY <2>1, IdleFields DEF Creating, Calm
  <2> QED BY <2>1, <2>2, GivenFrame
<1> QED BY <1>1, <1>2, <1>3 DEF Handle

LEMMA GivenRest ==
    ASSUME Ground, Given,
           \/ \E p \in Callers : Save(p)
           \/ Shutdown \/ WorkersDone \/ ShutdownFails \/ Crash \/ Boot
    PROVE  Given'
<1>0. Basic
  BY DEF Ground
<1>1. ASSUME NEW p \in Callers, Save(p) PROVE Given'
  <2>1. heap' = heap
    BY <1>1 DEF Save, PersistMetadata, SaveOk, SaveFails, memory, history
  <2>2. Only(p) /\ th'[p].op = th[p].op /\ th'[p].t = th[p].t
    <3>1. CASE PersistMetadata(p)
      BY <1>0, <3>1, PersistEffect DEF Basic
    <3>2. CASE SaveOk(p)
      BY <1>0, <3>2, SaveOkEffect DEF Basic
    <3>3. CASE SaveFails(p)
      BY <1>0, <3>3, SaveFailsEffect DEF Basic
    <3> QED BY <1>1, <3>1, <3>2, <3>3 DEF Save
  <2>3. ASSUME NEW d \in Clients, Creating(d)' PROVE Creating(d) /\ th'[d].t = th[d].t
    <3>1. CASE d = p
      BY <2>2, <2>3, <3>1 DEF Creating
    <3>2. CASE d # p
      <4>1. th'[d] = th[d]
        BY <2>2, <3>2, CallerFacts DEF Only
      <4> QED BY <2>3, <4>1 DEF Creating
    <3> QED BY <3>1, <3>2
  <2> QED BY <2>1, <2>3, GivenFrame
<1>2. CASE Shutdown \/ WorkersDone \/ ShutdownFails
  <2>1. Only(Closer)
    BY <1>0, <1>2, CloserSteps
  <2>2. ASSUME NEW d \in Clients, Creating(d)'
        PROVE  Creating(d) /\ th'[d].t = th[d].t /\ th[d].t \in Tasks
    <3>1. th'[d] = th[d]
      BY <2>1, CallerFacts DEF Only
    <3> QED BY <1>0, <2>2, <3>1, CreatingFacts DEF Creating
  <2>3. \A t \in Tasks : heap'[t].attempts = heap[t].attempts
    <3>1. heap \in [Tasks -> Records]
      BY <1>0, TypeFacts DEF Basic
    <3>2. heap' = heap \/ heap' = MarkInterrupted(list, heap)
      BY <1>2 DEF Shutdown, WorkersDone, ShutdownFails, memory
    <3> QED BY <3>1, <3>2, MarkFacts
  <2> QED BY <2>2, <2>3, GivenFrame
<1>3. CASE Crash
  <2>1. \A c \in Clients : ~Creating(c)'
    BY <1>3, CrashEffect, IdleFields, CallerFacts DEF Creating
  <2> QED BY <2>1, GivenFrame
<1>4. CASE Boot
  <2>1. th' = th
    BY <1>0, <1>4, BootEffect DEF Basic
  <2>2. ASSUME NEW c \in Clients PROVE ~Creating(c)'
    <3>1. th[c].pc = "idle" /\ ClientShape(th[c])
      BY <1>0, <1>4, CallerFacts DEF Boot, Basic, Locked, Shape
    <3> QED BY <2>1, <3>1 DEF ClientShape, Creating
  <2> QED BY <2>2, GivenFrame
<1> QED BY <1>1, <1>2, <1>3, <1>4

LEMMA GivenStep ==
    ASSUME DistinctNames PROVE Ground /\ Given /\ [Next]_vars => Given'
<1> SUFFICES ASSUME Ground, Given, [Next]_vars PROVE Given'
  OBVIOUS
<1>1. CASE UNCHANGED vars
  BY <1>1 DEF vars, Given, Creating
<1>2. ASSUME NEW c \in Clients,
             CreateQueue(c) \/ DeleteQueue(c) \/ Handle(c) \/ \E n \in Names : DeleteTask(c, n)
      PROVE  Given'
  BY <1>2, GivenHandlers
<1>3. ASSUME NEW c \in Clients, NEW t \in Tasks, CreateTask(c, t) PROVE Given'
  BY <1>3, GivenCreateTask
<1>4. ASSUME NEW w \in Slots, ExecuteTask(w) PROVE Given'
  BY <1>4, GivenWorker
<1>5. CASE \/ \E p \in Callers : Save(p)
           \/ Shutdown \/ WorkersDone \/ ShutdownFails \/ Crash \/ Boot
  BY <1>5, GivenRest
<1> QED BY <1>1, <1>2, <1>3, <1>4, <1>5 DEF Next

LEMMA GivenInit == Init => Given
<1> SUFFICES ASSUME Init PROVE Given
  OBVIOUS
<1>1. th = [p \in Callers |-> Idle]
  BY DEF Init
<1>2. \A c \in Clients : th[c].op = "none"
  BY <1>1, IdleFields, CallerFacts
<1> QED BY <1>2 DEF Given, Creating

LEMMA WorkersStep ==
    ASSUME DistinctNames PROVE Ground /\ Given /\ Workers /\ [Next]_vars => Workers'
<1> SUFFICES ASSUME Ground, Given, Workers, [Next]_vars PROVE Workers'
  OBVIOUS
<1>1. CASE UNCHANGED vars
  BY <1>1 DEF vars, Workers, Follows, Working, Spends, Sending, Alive
<1>2. ASSUME NEW c \in Clients, CreateQueue(c) \/ DeleteQueue(c) \/ Handle(c) PROVE Workers'
  BY <1>2, WorkersReleases, WorkersCreateTaskEnds, WorkersDeleteEnds DEF Handle
<1>3. ASSUME NEW c \in Clients, NEW t \in Tasks, CreateTask(c, t) PROVE Workers'
  BY <1>3, WorkersCreateTask
<1>4. ASSUME NEW c \in Clients, NEW n \in Names, DeleteTask(c, n) PROVE Workers'
  BY <1>4, WorkersReleases
<1>5. ASSUME NEW p \in Callers, Save(p) PROVE Workers'
  BY <1>5, WorkersSave
<1>6. ASSUME NEW w \in Slots, ExecuteTask(w) PROVE Workers'
  BY <1>6, WorkersExecute
<1>7. CASE Shutdown \/ WorkersDone \/ ShutdownFails
  BY <1>7, WorkersCloser
<1>8. CASE Crash \/ Boot
  BY <1>8, WorkersRestart
<1> QED BY <1>1, <1>2, <1>3, <1>4, <1>5, <1>6, <1>7, <1>8 DEF Next

LEMMA WorkersInit == Init => Workers
<1> SUFFICES ASSUME Init PROVE Workers
  OBVIOUS
<1>1. th = [p \in Callers |-> Idle] /\ list = <<>> /\ sent = [t \in Tasks |-> 0]
  BY DEF Init
<1>2. \A w \in Slots : th[w].pc = "idle"
  BY <1>1, IdleFields, CallerFacts
<1>3. Elements(list) = {}
  BY <1>1, EmptyFacts
<1>4. \A w \in Slots : Follows(w)
  BY <1>2, <1>3 DEF Follows
<1>5. \A w \in Slots : Spends(w)
  BY <1>2 DEF Spends, Alive
<1>6. \A t \in Tasks : sent[t] = 0
  BY <1>1
<1> QED BY <1>4, <1>5, <1>6 DEF Workers
-----------------------------------------------------------------------------
\* Who has a goroutine.

LEMMA AttendedFrame ==
    ASSUME Attended, up' => up, closed => closed', sick => sick',
           ~sick' => Elements(list') \subseteq Elements(list),
           heap' = heap, jobs' = jobs, acked' = acked
    PROVE  Attended'
BY DEF Attended

LEMMA AttendedSave == ASSUME Attended, NEW p \in Callers, Save(p) PROVE Attended'
<1>1. UNCHANGED <<list, heap, jobs, acked>>
  BY DEF Save, PersistMetadata, SaveOk, SaveFails, memory, history
<1>2. (up' => up) /\ (closed => closed') /\ (sick => sick')
  BY DEF Save, PersistMetadata, SaveOk, SaveFails
<1>3. Elements(list') \subseteq Elements(list)
  BY <1>1
<1> QED BY <1>1, <1>2, <1>3, AttendedFrame

LEMMA AttendedReleases ==
    ASSUME Ground, Attended, NEW c \in Clients,
           CreateQueue(c) \/ DeleteQueue(c) \/ CreateQueueEnds(c) \/ CreateTaskFails(c)
             \/ DeleteFails(c) \/ \E n \in Names : DeleteTask(c, n)
    PROVE  Attended'
<1>1. Basic
  BY DEF Ground
<1>2. (closed' <=> closed) /\ acked' = acked /\ jobs' = jobs
  BY <1>1, Releases
<1>3. /\ heap' = heap /\ (sick' <=> sick) /\ (up' <=> up)
      /\ ~sick' => Elements(list') \subseteq Elements(list)
  BY <1>1, ReleasesShrink
<1> QED BY <1>2, <1>3, AttendedFrame

LEMMA AttendedCreateTask ==
    ASSUME Ground, Attended, NEW c \in Clients, NEW t \in Tasks, CreateTask(c, t)
    PROVE  Attended'
<1>1. /\ acked' = acked /\ jobs' = jobs /\ (closed' <=> closed) /\ (sick' <=> sick) /\ (up' <=> up)
      /\ t \notin created /\ list' = Append(list, t)
      /\ heap' = [heap EXCEPT ![t] = [NewTask EXCEPT !.attempts = GivenAttempts[t]]]
  BY DEF CreateTask
<1>2. acked \subseteq Tasks /\ t \notin acked
  BY <1>1 DEF Ground, Basic, TypeOK, Lists, Histories
<1>3. list \in Seq(Tasks) /\ heap \in [Tasks -> Records]
  BY TypeFacts DEF Basic, Ground
<1>4. Elements(list') = Elements(list) \cup {t}
  BY <1>1, <1>3, AppendFacts
<1>5. \A u \in acked : heap'[u] = heap[u] /\ (u \in Elements(list') => u \in Elements(list))
  BY <1>1, <1>2, <1>3, <1>4
<1> QED BY <1>1, <1>5 DEF Attended

LEMMA AttendedCreateTaskEnds ==
    ASSUME Ground, Attended, NEW c \in Clients, CreateTaskEnds(c) PROVE Attended'
<1>0. Basic /\ OneJob
  BY DEF Ground
<1>1. /\ th[c].op = "createTask" /\ acked' = acked \cup {th[c].t} /\ UNCHANGED <<list, heap>>
      /\ (closed' <=> closed) /\ (sick' <=> sick) /\ (up' <=> up)
  BY DEF CreateTaskEnds
<1>2. th[c].t \in Tasks
  BY <1>0, <1>1, CreatingFacts
<1>3. /\ \A n \in Names : jobs'[n] = jobs[n] \/ jobs'[n] \in Slots
      /\ ~closed /\ ~th[c].dead /\ th[c].t \in HttpTasks => jobs'[NameOf[th[c].t]] # None
  BY <1>0, <1>2, CreateTaskEndsEffect DEF Basic
<1>4. th[c].dead => closed
  BY <1>0 DEF OneJob
<1>5. ASSUME up', ~closed', ~sick', NEW t \in acked' \cap HttpTasks, t \in Elements(list'), ~Terminal(heap'[t])
      PROVE  jobs'[NameOf[t]] # None
  <2>1. CASE t = th[c].t
    BY <1>1, <1>3, <1>4, <1>5, <2>1
  <2>2. CASE t \in acked
    <3>1. jobs[NameOf[t]] # None
      BY <1>1, <1>5, <2>2 DEF Attended
    <3>2. NameOf[t] \in Names
      BY <1>5, TasksAssumption
    <3>3. None \notin Slots
      BY SlotFacts
    <3> QED BY <1>3, <3>1, <3>2, <3>3
  <2> QED BY <1>1, <1>5, <2>1, <2>2
<1> QED BY <1>5 DEF Attended

LEMMA AttendedDeleteEnds ==
    ASSUME DistinctNames, Ground, Attended, NEW c \in Clients, DeleteEnds(c) PROVE Attended'
<1>0. Basic
  BY DEF Ground
<1>1. /\ Deletes(c) /\ th[c].pc = "saved" /\ UNCHANGED <<list, heap, acked>>
      /\ (closed' <=> closed) /\ (sick' <=> sick) /\ (up' <=> up)
  BY DEF DeleteEnds
<1>2. Gone(c) \cap Elements(list) = {} /\ Gone(c) \subseteq Tasks
  BY <1>0, <1>1, DeletesFacts DEF Ground, Lists, Requesting, Deleting
<1>3. \A n \in Names : ~(\E t \in Gone(c) : NameOf[t] = n) => jobs'[n] = jobs[n]
  BY <1>0, DeleteEndsEffect DEF Basic
<1>4. ASSUME up', ~closed', ~sick', NEW t \in acked' \cap HttpTasks, t \in Elements(list'), ~Terminal(heap'[t])
      PROVE  jobs'[NameOf[t]] # None
  <2>1. jobs[NameOf[t]] # None
    BY <1>1, <1>4 DEF Attended
  <2>2. t \in Tasks /\ NameOf[t] \in Names
    BY <1>4, TasksAssumption
  <2>3. ~(\E u \in Gone(c) : NameOf[u] = NameOf[t])
    BY <1>1, <1>2, <1>4, <2>2 DEF DistinctNames
  <2> QED BY <1>3, <2>1, <2>2, <2>3
<1> QED BY <1>4 DEF Attended

\* The goroutine of a listed task is its job.
LEMMA HasJob ==
    ASSUME Ground, NEW w \in Slots, Alive(w), NEW t \in Tasks, NameOf[t] = w[1], t \in Elements(list)
    PROVE  jobs[NameOf[t]] = w /\ ~th[w].dead
<1>1. t \notin removed
  BY DEF Ground, Lists, SoundLists, Sound
<1>2. ~th[w].dead
  BY <1>1 DEF Ground, OneJob
<1> QED BY <1>2 DEF Ground, JobOf, Alive

LEMMA AttendedWorker ==
    ASSUME DistinctNames, Ground, Workers, Attended, NEW w \in Slots, ExecuteTask(w) PROVE Attended'
<1>0. Basic /\ JobOf
  BY DEF Ground
<1>1. /\ Alive(w) /\ list' = list /\ acked' = acked
      /\ (closed' <=> closed) /\ (sick' <=> sick) /\ (up' <=> up)
      /\ jobs' = jobs \/ Exit(w)
  <2>1. CASE Moves(w)
    BY <2>1 DEF Moves, Alive
  <2>2. CASE RecordsFound(w)
    <3>1. th[w].pc = "record"
      BY <1>0, <2>2, RecordsEffect
    <3>2. list' = list /\ acked' = acked /\ jobs' = jobs /\ (closed' <=> closed) /\ (sick' <=> sick) /\ (up' <=> up)
      BY <2>2 DEF RecordsFound, RecordAttemptOutcome, history
    <3> QED BY <3>1, <3>2 DEF Alive
  <2>3. CASE Exit(w)
    BY <2>3 DEF Exit, history, Alive
  <2> QED BY <1>0, <2>1, <2>2, <2>3, WorkerSteps
<1>2. ASSUME up', ~closed', ~sick', NEW t \in acked' \cap HttpTasks, t \in Elements(list'), ~Terminal(heap'[t])
      PROVE  jobs'[NameOf[t]] # None
  <2>1. t \in Tasks /\ t \in Elements(list) /\ NameOf[t] \in Names
    BY <1>1, <1>2, TasksAssumption
  <2>2. CASE NameOf[t] # w[1]
    <3>1. heap'[t] = heap[t]
      BY <1>0, <2>1, <2>2, WorkerLocal
    <3>2. jobs[NameOf[t]] # None
      BY <1>1, <1>2, <3>1 DEF Attended
    <3>3. CASE Exit(w)
      <4>1. jobs' = [n \in Names |-> IF jobs[n] = w THEN None ELSE jobs[n]]
        BY <3>3 DEF Exit
      <4>2. jobs[NameOf[t]] # w
        BY <1>0, <2>1, <2>2, <3>2 DEF JobOf
      <4> QED BY <2>1, <3>2, <4>1, <4>2
    <3> QED BY <1>1, <3>2, <3>3
  <2>3. CASE NameOf[t] = w[1]
    <3>1. jobs[NameOf[t]] = w /\ ~th[w].dead /\ w # None
      BY <1>1, <2>1, <2>3, HasJob, SlotFacts
    <3>2. CASE Exit(w)
      <4>1. th[w].pc = "exit" /\ heap' = heap
        BY <3>2 DEF Exit
      <4>2. Follows(w)
        BY <1>1, <1>2 DEF Workers
      <4>3. Terminal(heap[t])
        BY <1>1, <1>2, <2>1, <2>3, <3>1, <4>1, <4>2 DEF Follows
      <4> QED BY <1>2, <4>1, <4>3
    <3> QED BY <1>1, <3>1, <3>2
  <2> QED BY <2>2, <2>3
<1> QED BY <1>2 DEF Attended

LEMMA AttendedStep ==
    ASSUME DistinctNames PROVE Ground /\ Workers /\ Attended /\ [Next]_vars => Attended'
<1> SUFFICES ASSUME Ground, Workers, Attended, [Next]_vars PROVE Attended'
  OBVIOUS
<1>0. Basic
  BY DEF Ground
<1>1. CASE UNCHANGED vars
  BY <1>1 DEF vars, Attended
<1>2. ASSUME NEW c \in Clients, CreateQueue(c) \/ DeleteQueue(c) \/ Handle(c) PROVE Attended'
  BY <1>2, AttendedReleases, AttendedCreateTaskEnds, AttendedDeleteEnds DEF Handle
<1>3. ASSUME NEW c \in Clients, NEW t \in Tasks, CreateTask(c, t) PROVE Attended'
  BY <1>3, AttendedCreateTask
<1>4. ASSUME NEW c \in Clients, NEW n \in Names, DeleteTask(c, n) PROVE Attended'
  BY <1>4, AttendedReleases
<1>5. ASSUME NEW p \in Callers, Save(p) PROVE Attended'
  BY <1>5, AttendedSave
<1>6. ASSUME NEW w \in Slots, ExecuteTask(w) PROVE Attended'
  BY <1>6, AttendedWorker
<1>7. CASE ShutdownFails
  <2>1. UNCHANGED <<list, heap, jobs, acked>> /\ (up' <=> up) /\ (closed' <=> closed) /\ (sick' <=> sick)
    BY <1>7 DEF ShutdownFails, memory, history
  <2> QED BY <2>1, AttendedFrame
<1>8. CASE Shutdown
  BY <1>8 DEF Shutdown, Attended
<1>9. CASE WorkersDone
  <2>1. th[Closer].pc = "wait" /\ (closed' <=> closed)
    BY <1>9 DEF WorkersDone
  <2>2. closed
    BY <1>0, <2>1 DEF Basic, Closing
  <2> QED BY <2>1, <2>2 DEF Attended
<1>10. CASE Crash
  BY <1>10 DEF Crash, Attended
<1>11. CASE Boot
  <2>1. (sick' <=> sick) /\ (closed' <=> closed) /\ acked' = acked /\ jobs' = jobs
    BY <1>0, <1>11, BootEffect DEF Boot, history, Basic
  <2>2. (\A t \in Elements(list') : Terminal(heap'[t])) \/ UNCHANGED <<up, queue, list, heap>>
    BY <1>0, <1>11, BootEffect DEF Basic
  <2>3. CASE \A t \in Elements(list') : Terminal(heap'[t])
    BY <2>3 DEF Attended
  <2>4. CASE UNCHANGED <<up, queue, list, heap>>
    <3>1. ~up'
      BY <1>11, <2>4 DEF Boot
    <3> QED BY <3>1 DEF Attended
  <2> QED BY <2>2, <2>3, <2>4
<1> QED BY <1>1, <1>2, <1>3, <1>4, <1>5, <1>6, <1>7, <1>8, <1>9, <1>10, <1>11 DEF Next

\* With a name for each task: what createTask has answered stays, in memory and
\* in the state file, until a deletion takes it; and unless the API is closing
\* or its store has failed, its goroutine is there until the task is finished.
THEOREM AcceptedKeptHolds == ASSUME DistinctNames PROVE Spec => []AcceptedKept
<1>1. Init => Ground /\ Kept /\ Given /\ Workers /\ Attended
  <2>1. Init => Attended
    BY DEF Init, Attended
  <2> QED BY <2>1, BasicInit, ListsInit, JobsInit, OneJobInit, KeptInit, GivenInit, WorkersInit DEF Ground
<1>2. Ground /\ Kept /\ Given /\ Workers /\ Attended /\ [Next]_vars =>
        Ground' /\ Kept' /\ Given' /\ Workers' /\ Attended'
  <2>1. Ground /\ [Next]_vars => Ground'
    BY BasicStep, ListsStep, JobsStep, OneJobStep DEF Ground
  <2>2. Ground /\ Kept /\ [Next]_vars => Kept'
    BY KeptStep DEF Ground
  <2>3. Ground /\ Given /\ Workers /\ [Next]_vars => Given' /\ Workers'
    BY GivenStep, WorkersStep
  <2>4. Ground /\ Workers /\ Attended /\ [Next]_vars => Attended'
    BY AttendedStep
  <2> QED BY <2>1, <2>2, <2>3, <2>4
<1>3. Ground /\ Kept /\ Attended => AcceptedKept
  BY DEF Kept, AcceptedKept, AckedKept
<1> QED BY <1>1, <1>2, <1>3, PTL DEF Spec
-----------------------------------------------------------------------------
\* What is saved is not older than what was saved.

LEMMA BehindFrame ==
    ASSUME Basic, Lists, Behindhand, NEW p \in Callers, Calm(p), sick => sick', up' => up, disk' = disk,
           heap' \in [Tasks -> Records],
           ~sick' => Elements(list') \subseteq Elements(list) \cup (Tasks \ created),
           ~sick' => \A t \in Elements(list) : t \in Elements(list') => Behind(heap[t], heap'[t]),
           th'[p].pc = "save" => up,
           th'[p].pc = "save" => /\ th'[p].doc.list = list'
                                 /\ \A t \in Elements(list') : th'[p].doc.task[t] = heap'[t]
    PROVE  Behindhand'
<1> SUFFICES ASSUME ~sick'
             PROVE  /\ up' => BehindOn(Elements(disk'.list) \cap Elements(list'), disk'.task, heap')
                    /\ \A q \in Callers : th'[q].pc = "save" => Between(th[q].doc)'
  BY DEF Behindhand
<1>1. /\ heap \in [Tasks -> Records] /\ disk.task \in [Tasks -> Records]
      /\ Elements(list) \subseteq Tasks /\ Elements(disk.list) \subseteq Tasks
  BY TypeFacts DEF Basic
<1>2. ~sick
  OBVIOUS
<1>3. \A t \in Elements(disk.list) : t \in Elements(list') => t \in Elements(list)
  BY DEF Lists, SoundLists, Sound
<1>4. up => \A t \in Elements(disk.list) : t \in Elements(list) => Behind(disk.task[t], heap[t])
  BY <1>2 DEF Behindhand, BehindOn
<1>5. ASSUME up, NEW t \in Elements(disk.list), t \in Elements(list')
      PROVE  Behind(disk.task[t], heap'[t])
  <2>1. t \in Elements(list) /\ t \in Tasks
    BY <1>1, <1>3, <1>5
  <2>2. Behind(disk.task[t], heap[t]) /\ Behind(heap[t], heap'[t])
    BY <1>4, <1>5, <2>1
  <2>3. disk.task[t] \in Records /\ heap[t] \in Records /\ heap'[t] \in Records
    BY <1>1, <2>1
  <2> QED BY <2>2, <2>3, BehindTrans
<1>6. up' => BehindOn(Elements(disk'.list) \cap Elements(list'), disk'.task, heap')
  BY <1>5 DEF BehindOn
<1>7. ASSUME NEW q \in Callers, q # p, th'[q].pc = "save" PROVE Between(th[q].doc)'
  <2>1. th[q].pc = "save" /\ th'[q].doc = th[q].doc
    BY <1>7 DEF Calm
  <2>2. PICK d : d = th[q].doc
    OBVIOUS
  <2>3. Between(d) /\ Sound(d.list)
    BY <1>2, <2>1, <2>2 DEF Behindhand, Lists, SoundLists
  <2>4. d.task \in [Tasks -> Records] /\ Elements(d.list) \subseteq Tasks
    BY <2>1, <2>2, DocFacts DEF Basic
  <2>5. ASSUME NEW t \in Elements(d.list) \cap Elements(list') PROVE Behind(d.task[t], heap'[t])
    <3>1. t \in Elements(list) /\ t \in Tasks
      BY <2>3, <2>4, <2>5 DEF Sound
    <3>2. Behind(d.task[t], heap[t]) /\ Behind(heap[t], heap'[t])
      BY <2>3, <2>5, <3>1 DEF Between, BehindOn
    <3>3. d.task[t] \in Records /\ heap[t] \in Records /\ heap'[t] \in Records
      BY <1>1, <2>4, <3>1
    <3> QED BY <3>2, <3>3, BehindTrans
  <2>6. Elements(disk.list) \cap Elements(list') \subseteq Elements(d.list)
    BY <1>3, <2>3 DEF Between
  <2>7. BehindOn(Elements(disk.list) \cap Elements(d.list), disk.task, d.task)
    BY <2>3 DEF Between
  <2>8. BehindOn(Elements(d.list) \cap Elements(list'), d.task, heap')
    BY <2>5 DEF BehindOn
  <2>9. th'[q].doc = d
    BY <2>1, <2>2
  <2> QED BY <2>6, <2>7, <2>8, <2>9 DEF Between
<1>8. ASSUME th'[p].pc = "save" PROVE Between(th[p].doc)'
  <2>1. PICK d : d = th'[p].doc
    OBVIOUS
  <2>2. up /\ d.list = list' /\ \A t \in Elements(list') : d.task[t] = heap'[t]
    BY <1>8, <2>1
  <2>3. \A t \in Elements(list') : t \in Tasks
    BY <1>1
  <2>4. \A t \in Elements(list') : Behind(d.task[t], heap'[t])
    BY <2>2, <2>3, BehindSelf
  <2>5. BehindOn(Elements(d.list) \cap Elements(list'), d.task, heap')
    BY <2>4 DEF BehindOn
  <2>6. BehindOn(Elements(disk.list) \cap Elements(d.list), disk.task, d.task)
    BY <1>5, <2>2 DEF BehindOn
  <2>7. Elements(disk.list) \cap Elements(list') \subseteq Elements(d.list)
    BY <2>2
  <2> QED BY <2>1, <2>5, <2>6, <2>7 DEF Between
<1> QED BY <1>6, <1>7, <1>8

\* A step that takes no snapshot and leaves the records alone.
LEMMA BehindQuiet ==
    ASSUME Basic, Lists, Behindhand, NEW p \in Callers, Calm(p), sick => sick', up' => up,
           disk' = disk, heap' = heap, th'[p].pc # "save",
           ~sick' => Elements(list') \subseteq Elements(list) \cup (Tasks \ created)
    PROVE  Behindhand'
<1>1. heap \in [Tasks -> Records] /\ Elements(list) \subseteq Tasks
  BY TypeFacts DEF Basic
<1>2. \A t \in Elements(list) : Behind(heap[t], heap'[t])
  BY <1>1, BehindSelf
<1> QED BY <1>1, <1>2, BehindFrame

LEMMA BehindPersist ==
    ASSUME Basic, Lists, Behindhand, NEW p \in Callers, PersistMetadata(p) PROVE Behindhand'
<1>1. /\ th[p].pc = "persist" /\ (sick' <=> sick) /\ (up' <=> up) /\ disk' = disk /\ heap' = heap /\ list' = list
  BY DEF PersistMetadata, memory
<1>2. Calm(p) /\ th'[p].doc = CloneMetadata(queue, list, heap)
  BY PersistEffect, OnlyCalm DEF Basic
<1>3. queue \in BOOLEAN /\ list \in Seq(Tasks) /\ heap \in [Tasks -> Records] /\ Elements(list) \subseteq Tasks
  BY TypeFacts DEF Basic, TypeOK
<1>4. th'[p].doc.list = list' /\ \A t \in Elements(list') : th'[p].doc.task[t] = heap'[t]
  BY <1>1, <1>2, <1>3, CloneFacts
<1>5. up
  BY <1>1, Serving
<1>6. \A t \in Elements(list) : Behind(heap[t], heap'[t])
  BY <1>1, <1>3, BehindSelf
<1> QED BY <1>1, <1>2, <1>3, <1>4, <1>5, <1>6, BehindFrame

LEMMA BehindSave ==
    ASSUME Basic, Lists, Behindhand, NEW p \in Callers, SaveOk(p) \/ SaveFails(p) PROVE Behindhand'
<1>1. CASE SaveFails(p)
  BY <1>1 DEF SaveFails, Behindhand
<1>2. CASE SaveOk(p)
  <2>1. /\ th[p].pc = "save" /\ ~sick /\ disk' = th[p].doc /\ heap' = heap /\ list' = list
    BY <1>2 DEF SaveOk, memory
  <2>2. Only(p) /\ th'[p].pc = "saved"
    BY <1>2, SaveOkEffect DEF Basic
  <2>3. Holds(p) /\ Alone(p)
    BY <2>1, AloneFacts DEF Holds, Basic
  <2>4. \A q \in Callers : th'[q].pc # "save"
    BY <2>2, <2>3 DEF Alone, Holds, Only
  <2>5. BehindOn(Elements(disk'.list) \cap Elements(list'), disk'.task, heap')
    BY <2>1 DEF Behindhand, Between
  <2> QED BY <2>4, <2>5 DEF Behindhand
<1> QED BY <1>1, <1>2

LEMMA BehindDelete ==
    ASSUME Basic, Lists, Behindhand, NEW c \in Clients,
           DeleteQueue(c) \/ \E n \in Names : DeleteTask(c, n)
    PROVE  Behindhand'
<1>0. c \in Callers
  BY CallerFacts
<1>1. queue \in BOOLEAN /\ list \in Seq(Tasks) /\ heap \in [Tasks -> Records] /\ Elements(list) \subseteq Tasks
  BY TypeFacts DEF Basic, TypeOK
<1>2. \A t \in Elements(list) : Behind(heap[t], heap[t])
  BY <1>1, BehindSelf
<1>3. CASE DeleteQueue(c)
  <2>1. up /\ (sick' <=> sick) /\ (up' <=> up) /\ disk' = disk /\ heap' = heap /\ list' = <<>>
    BY <1>3 DEF DeleteQueue
  <2>2. Calm(c) /\ th'[c].doc = CloneMetadata(FALSE, <<>>, heap)
    BY <1>0, <1>3, DeleteQueueEffect, OnlyCalm DEF Basic
  <2>3. CloneMetadata(FALSE, <<>>, heap).list = <<>>
    BY DEF CloneMetadata
  <2>4. Elements(list') = {}
    BY <2>1, EmptyFacts
  <2> QED BY <1>0, <1>1, <1>2, <2>1, <2>2, <2>3, <2>4, BehindFrame
<1>4. ASSUME NEW n \in Names, DeleteTask(c, n) PROVE Behindhand'
  <2>1. up /\ (sick' <=> sick) /\ (up' <=> up) /\ disk' = disk /\ heap' = heap /\ list' = Without(list, n)
    BY <1>4 DEF DeleteTask
  <2>2. Calm(c) /\ th'[c].doc = CloneMetadata(queue, Without(list, n), heap)
    BY <1>0, <1>4, DeleteTaskEffect, OnlyCalm DEF Basic
  <2>3. Without(list, n) \in Seq(Tasks) /\ Elements(Without(list, n)) \subseteq Elements(list)
    BY <1>1, WithoutFacts
  <2>4. /\ th'[c].doc.list = Without(list, n)
        /\ \A t \in Elements(Without(list, n)) : th'[c].doc.task[t] = heap[t]
    BY <1>1, <2>2, <2>3, CloneFacts
  <2> QED BY <1>0, <1>1, <1>2, <2>1, <2>2, <2>3, <2>4, BehindFrame
<1> QED BY <1>3, <1>4

LEMMA BehindClient ==
    ASSUME Basic, Lists, Behindhand, NEW c \in Clients, CreateQueue(c) \/ Handle(c) PROVE Behindhand'
<1>0. c \in Callers
  BY CallerFacts
<1>1. CASE CreateQueue(c) \/ CreateQueueEnds(c)
  <2>1. UNCHANGED <<list, heap, disk>> /\ (sick' <=> sick) /\ (up' <=> up)
    BY <1>1 DEF CreateQueue, CreateQueueEnds
  <2>2. Only(c) /\ th'[c].pc # "save"
    <3>1. CASE CreateQueue(c)
      BY <3>1, CreateQueueEffect DEF Basic
    <3>2. CASE CreateQueueEnds(c)
      BY <1>0, <3>2, IdleEffect, IdleFields DEF CreateQueueEnds, Basic
    <3> QED BY <1>1, <3>1, <3>2
  <2> QED BY <1>0, <2>1, <2>2, OnlyCalm, BehindQuiet
<1>2. CASE CreateTaskEnds(c)
  <2>1. UNCHANGED <<list, heap, disk>> /\ (sick' <=> sick) /\ (up' <=> up) /\ th[c].op = "createTask"
    BY <1>2 DEF CreateTaskEnds
  <2>2. /\ th'[c] = Idle /\ \A q \in Callers : q # c /\ q \notin Slots => th'[q] = th[q]
        /\ \A w \in Slots : th'[w] = th[w] \/ Fresh(w, c)
    BY <1>2, <2>1, CreatingFacts, CreateTaskEndsEffect DEF Basic
  <2>3. Calm(c)
    <3>1. \A d \in Clients : d # c => th'[d] = th[d]
      BY <2>2, CallerFacts
    <3>2. \A w \in Slots : th'[w].pc = "save" => th'[w] = th[w]
      BY <2>2 DEF Fresh
    <3>3. \A q \in Callers : q # c /\ th'[q].pc = "save" => th'[q] = th[q]
      BY <2>2, <3>2
    <3> QED BY <3>1, <3>3 DEF Calm
  <2> QED BY <1>0, <2>1, <2>2, <2>3, IdleFields, BehindQuiet
<1>3. CASE CreateTaskFails(c) \/ DeleteFails(c)
  <2>1. th[c].pc = "failed" /\ (sick' <=> sick)
    BY <1>3 DEF CreateTaskFails, DeleteFails
  <2>2. sick'
    BY <1>0, <2>1 DEF Basic, Locked
  <2> QED BY <2>2 DEF Behindhand
<1>4. CASE DeleteEnds(c)
  <2>1. UNCHANGED <<list, heap, disk>> /\ (sick' <=> sick) /\ (up' <=> up)
    BY <1>4 DEF DeleteEnds
  <2>2. Calm(c) /\ th'[c] = Idle
    BY <1>4, DeleteEndsCalm
  <2> QED BY <1>0, <2>1, <2>2, IdleFields, BehindQuiet
<1> QED BY <1>1, <1>2, <1>3, <1>4 DEF Handle

LEMMA BehindCreateTask ==
    ASSUME Basic, Lists, Behindhand, NEW c \in Clients, NEW t \in Tasks, CreateTask(c, t)
    PROVE  Behindhand'
<1>0. c \in Callers
  BY CallerFacts
<1>1. /\ disk' = disk /\ (sick' <=> sick) /\ (up' <=> up) /\ t \notin created
      /\ list' = Append(list, t) /\ heap' = [heap EXCEPT ![t] = [NewTask EXCEPT !.attempts = GivenAttempts[t]]]
  BY DEF CreateTask
<1>2. list \in Seq(Tasks) /\ Elements(list) \subseteq Tasks /\ heap \in [Tasks -> Records]
  BY TypeFacts DEF Basic
<1>3. Elements(list') = Elements(list) \cup {t}
  BY <1>1, <1>2, AppendFacts
<1>4. Calm(c) /\ th'[c].pc = "persist"
  BY <1>0, CreateTaskEffect, OnlyCalm DEF Basic
<1>5. heap' \in [Tasks -> Records]
  BY BasicCreateTask, TypeFacts DEF Basic, TypeOK
<1>6. ASSUME NEW u \in Elements(list) PROVE Behind(heap[u], heap'[u])
  <2>1. u # t /\ u \in Tasks
    BY <1>1, <1>2, <1>6 DEF Lists, SoundLists, Sound
  <2> QED BY <1>1, <1>2, <2>1, BehindSelf
<1> QED BY <1>0, <1>1, <1>3, <1>4, <1>5, <1>6, BehindFrame

LEMMA BehindWorker ==
    ASSUME DistinctNames, Ground, Workers, Behindhand, NEW w \in Slots, ExecuteTask(w) PROVE Behindhand'
<1>0. Basic /\ Lists /\ w \in Callers
  BY CallerFacts DEF Ground
<1>1. heap \in [Tasks -> Records] /\ Elements(list) \subseteq Tasks
  BY <1>0, TypeFacts DEF Basic
<1>2. CASE RecordAttemptStart(w)
  <2>1. /\ list' = list /\ disk' = disk /\ (sick' <=> sick) /\ (up' <=> up) /\ th[w].pc = "start"
    BY <1>2 DEF RecordAttemptStart
  <2>2. PICK t : t = Find(list, th[w].n)
    OBVIOUS
  <2>3. CASE t = None \/ (t # None /\ Terminal(heap[t]))
    <3>1. Goto(w, "exit") /\ heap' = heap
      BY <1>2, <2>2, <2>3 DEF RecordAttemptStart
    <3>2. Only(w) /\ th'[w].pc = "exit"
      BY <1>0, <3>1, GotoEffect DEF Basic
    <3> QED BY <1>0, <2>1, <3>1, <3>2, OnlyCalm, BehindQuiet
  <2>4. CASE t # None /\ ~Terminal(heap[t])
    <3>1. /\ Only(w) /\ th'[w].pc = "persist" /\ t \in Tasks /\ heap' \in [Tasks -> Records]
      BY <1>0, <1>2, <2>2, <2>4, BasicTypes, AttemptEffect
    <3>2. \E r : heap' = [heap EXCEPT ![t] = r]
      BY <1>2, <2>2, <2>4 DEF RecordAttemptStart
    <3>3. Behind(heap[t], heap'[t])
      <4>1. th'[w].out \in {"FAILED", "none"}
        BY <1>0, <1>2, <2>2, <2>4, BasicTypes, AttemptEffect
      <4>2. th'[w].out = "FAILED" => heap'[t].attempts = heap[t].attempts
        BY <1>0, <1>2, <2>2, <2>4, BasicTypes, AttemptEffect, ZenonT(40)
      <4>3. th'[w].out = "none" => heap'[t] = [status |-> "RETRYING", attempts |-> heap[t].attempts + 1]
        BY <1>0, <1>2, <2>2, <2>4, BasicTypes, AttemptEffect
      <4>4. heap'[t].attempts = heap[t].attempts \/ heap'[t].attempts = heap[t].attempts + 1
        BY <4>1, <4>2, <4>3
      <4>5. heap[t].attempts \in Int
        BY <1>1, <3>1, AttemptsType
      <4>6. heap[t].attempts <= heap'[t].attempts
        BY <4>4, <4>5
      <4> QED BY <2>4, <4>6 DEF Behind
    <3>4. ASSUME NEW u \in Elements(list) PROVE Behind(heap[u], heap'[u])
      <4>1. u \in Tasks
        BY <1>1, <3>4
      <4>2. u # t => heap'[u] = heap[u]
        BY <1>1, <3>2, <4>1
      <4>3. Behind(heap[u], heap[u])
        BY <1>1, <4>1, BehindSelf
      <4> QED BY <3>3, <4>2, <4>3
    <3>5. Calm(w)
      BY <1>0, <3>1, OnlyCalm
    <3>6. th'[w].pc # "save"
      BY <3>1
    <3> QED BY <1>0, <2>1, <3>1, <3>4, <3>5, <3>6, BehindFrame
  <2> QED BY <2>3, <2>4
<1>3. CASE RecordAttemptOutcome(w) /\ Find(list, th[w].n) # None
  <2>1. RecordsFound(w)
    BY <1>3 DEF RecordsFound
  <2>2. /\ Only(w) /\ th[w].pc = "record" /\ th'[w].doc = CloneMetadata(queue, list, heap')
        /\ heap' \in [Tasks -> Records]
        /\ heap' = [heap EXCEPT ![Find(list, th[w].n)].status = th[w].out]
    BY <1>0, <2>1, RecordsEffect
  <2>3. list' = list /\ disk' = disk /\ (sick' <=> sick) /\ (up' <=> up)
    BY <1>3 DEF RecordAttemptOutcome
  <2>4. Alive(w) /\ th[w].t \in Tasks /\ th[w].t # None
    BY <1>0, <2>2, WorkerAt, TasksAssumption DEF Basic, Alive
  <2>5. Find(list, th[w].n) = th[w].t /\ th[w].t \in Elements(list)
    BY <1>3, <2>4, Own
  <2>6. ASSUME ~sick' PROVE Behind(heap[th[w].t], heap'[th[w].t])
    <3>1. heap[th[w].t] = [status |-> "RETRYING", attempts |-> th[w].k]
      BY <2>2, <2>3, <2>5, <2>6 DEF Workers, Follows, Working
    <3>2. ~Terminal(heap[th[w].t])
      BY <3>1 DEF Terminal
    <3>3. heap[th[w].t] \in Records
      BY <1>1, <2>4
    <3>4. heap'[th[w].t] = [heap[th[w].t] EXCEPT !.status = th[w].out]
      BY <1>1, <2>2, <2>4, <2>5
    <3>5. heap'[th[w].t].attempts = heap[th[w].t].attempts
      BY <3>3, <3>4 DEF Records
    <3>6. heap[th[w].t].attempts \in Int
      BY <3>3, AttemptsType
    <3> QED BY <3>2, <3>5, <3>6 DEF Behind
  <2>7. ASSUME ~sick', NEW u \in Elements(list) PROVE Behind(heap[u], heap'[u])
    <3>1. u \in Tasks
      BY <1>1, <2>7
    <3>2. u # th[w].t => heap'[u] = heap[u]
      BY <1>1, <2>2, <2>5, <3>1
    <3>3. Behind(heap[u], heap[u])
      BY <1>1, <3>1, BehindSelf
    <3> QED BY <2>6, <2>7, <3>2, <3>3
  <2>8. up /\ Calm(w)
    BY <1>0, <2>2, Serving, OnlyCalm
  <2>9. queue \in BOOLEAN /\ list \in Seq(Tasks)
    BY <1>0, TypeFacts DEF Basic, TypeOK
  <2>10. th'[w].doc.list = list' /\ \A t \in Elements(list') : th'[w].doc.task[t] = heap'[t]
    <3>1. PICK h \in [Tasks -> Records] : h = heap'
      BY <2>2
    <3>2. th'[w].doc = CloneMetadata(queue, list, h)
      BY <2>2, <3>1
    <3>3. /\ CloneMetadata(queue, list, h).list = list
          /\ \A t \in Elements(list) : CloneMetadata(queue, list, h).task[t] = h[t]
      BY <2>9, CloneFacts
    <3> QED BY <2>3, <3>1, <3>2, <3>3
  <2> QED BY <1>0, <1>1, <2>2, <2>3, <2>7, <2>8, <2>10, BehindFrame
<1>4. CASE AttemptNotStarted(w) \/ OutcomeNotRecorded(w)
  <2>1. th[w].pc = "failed" /\ (sick' <=> sick)
    BY <1>4 DEF AttemptNotStarted, OutcomeNotRecorded
  <2>2. sick'
    BY <1>0, <2>1 DEF Basic, Locked
  <2> QED BY <2>2 DEF Behindhand
<1>5. CASE \/ CheckContext(w) \/ AttemptStarted(w) \/ Prepare(w) \/ Send(w) \/ Answer(w)
           \/ OutcomeRecorded(w) \/ Exit(w)
           \/ RecordAttemptOutcome(w) /\ Find(list, th[w].n) = None
  <2>1. heap' = heap /\ list' = list /\ disk' = disk
    BY <1>5 DEF CheckContext, AttemptStarted, Prepare, Send, Answer, OutcomeRecorded, Exit,
                RecordAttemptOutcome, memory
  <2>2. (sick' <=> sick) /\ (up' <=> up)
    BY <1>5 DEF CheckContext, AttemptStarted, Prepare, Send, Answer, OutcomeRecorded, Exit,
                RecordAttemptOutcome
  <2>3. Only(w) /\ th'[w].pc # "save"
    <3>1. CASE Moves(w)
      BY <3>1 DEF Moves
    <3>2. CASE Exit(w)
      BY <1>0, <3>2, IdleEffect, IdleFields DEF Exit, Basic
    <3>3. CASE RecordsFound(w)
      <4>1. RecordAttemptOutcome(w) /\ Find(list, th[w].n) # None /\ th[w].pc = "record"
        BY <3>3 DEF RecordsFound, RecordAttemptOutcome
      <4>2. FALSE
        BY <1>5, <4>1 DEF CheckContext, AttemptStarted, Prepare, Send, Answer, OutcomeRecorded, Exit
      <4> QED BY <4>2
    <3> QED BY <1>0, <3>1, <3>2, <3>3, WorkerSteps
  <2> QED BY <1>0, <2>1, <2>2, <2>3, OnlyCalm, BehindQuiet
<1> QED BY <1>2, <1>3, <1>4, <1>5 DEF ExecuteTask

LEMMA BehindCloser ==
    ASSUME Basic, Lists, Behindhand, Shutdown \/ WorkersDone \/ ShutdownFails PROVE Behindhand'
<1>1. /\ Only(Closer) /\ th'[Closer].pc \in {"idle", "wait", "persist"} /\ list' = list /\ disk' = disk
      /\ (up' <=> up) /\ (sick' <=> sick)
  BY CloserSteps
<1>2. Calm(Closer) /\ th'[Closer].pc # "save" /\ Closer \in Callers
  BY <1>1, OnlyCalm, CallerFacts
<1>3. CASE Shutdown \/ ShutdownFails
  <2>1. heap' = heap
    BY <1>3 DEF Shutdown, ShutdownFails, memory
  <2> QED BY <1>1, <1>2, <2>1, BehindQuiet
<1>4. CASE WorkersDone
  <2>1. heap' = MarkInterrupted(list, heap)
    BY <1>4 DEF WorkersDone
  <2>2. heap \in [Tasks -> Records] /\ Elements(list) \subseteq Tasks
    BY TypeFacts DEF Basic
  <2>3. heap' \in [Tasks -> Records] /\ \A t \in Elements(list) : Behind(heap[t], heap'[t])
    BY <2>1, <2>2, MarkFacts
  <2> QED BY <1>1, <1>2, <2>3, BehindFrame
<1> QED BY <1>3, <1>4

LEMMA BehindRestart == ASSUME Basic, Behindhand, Crash \/ Boot PROVE Behindhand'
<1>1. CASE Crash
  <2>1. ~up' /\ \A p \in Callers : th'[p] = Idle
    BY <1>1, CrashEffect DEF Crash
  <2> QED BY <2>1, IdleFields DEF Behindhand
<1>2. CASE Boot
  <2>1. ~up /\ \A p \in Callers : th'[p].pc # "save"
    BY <1>2, BootEffect DEF Boot, Basic, Locked
  <2>2. CASE up'
    <3>1. list' = disk.list /\ heap' = disk'.task /\ disk' \in Documents /\ disk'.list = disk.list
      BY <1>2, <2>1, <2>2, BootEffect DEF Basic
    <3>2. disk'.task \in [Tasks -> Records] /\ Elements(disk.list) \subseteq Tasks
      BY <3>1, TypeFacts DEF Basic, Documents
    <3>3. \A t \in Elements(disk.list) : Behind(disk'.task[t], heap'[t])
      BY <3>1, <3>2, BehindSelf
    <3>4. BehindOn(Elements(disk'.list) \cap Elements(list'), disk'.task, heap')
      BY <3>1, <3>3 DEF BehindOn
    <3> QED BY <2>1, <3>4 DEF Behindhand
  <2>3. CASE ~up'
    BY <2>1, <2>3 DEF Behindhand
  <2> QED BY <2>2, <2>3
<1> QED BY <1>1, <1>2

LEMMA BehindStep ==
    ASSUME DistinctNames PROVE Ground /\ Workers /\ Behindhand /\ [Next]_vars => Behindhand'
<1> SUFFICES ASSUME Ground, Workers, Behindhand, [Next]_vars PROVE Behindhand'
  OBVIOUS
<1>0. Basic /\ Lists
  BY DEF Ground
<1>1. CASE UNCHANGED vars
  BY <1>1 DEF vars, Behindhand, Between
<1>2. ASSUME NEW c \in Clients, CreateQueue(c) \/ DeleteQueue(c) \/ Handle(c) PROVE Behindhand'
  BY <1>0, <1>2, BehindClient, BehindDelete
<1>3. ASSUME NEW c \in Clients, NEW t \in Tasks, CreateTask(c, t) PROVE Behindhand'
  BY <1>0, <1>3, BehindCreateTask
<1>4. ASSUME NEW c \in Clients, NEW n \in Names, DeleteTask(c, n) PROVE Behindhand'
  BY <1>0, <1>4, BehindDelete
<1>5. ASSUME NEW p \in Callers, Save(p) PROVE Behindhand'
  BY <1>0, <1>5, BehindPersist, BehindSave DEF Save
<1>6. ASSUME NEW w \in Slots, ExecuteTask(w) PROVE Behindhand'
  BY <1>6, BehindWorker
<1>7. CASE Shutdown \/ WorkersDone \/ ShutdownFails
  BY <1>0, <1>7, BehindCloser
<1>8. CASE Crash \/ Boot
  BY <1>0, <1>8, BehindRestart
<1> QED BY <1>1, <1>2, <1>3, <1>4, <1>5, <1>6, <1>7, <1>8 DEF Next

LEMMA BehindInit == Init => Behindhand
<1> SUFFICES ASSUME Init PROVE Behindhand
  OBVIOUS
<1>1. list = <<>> /\ th = [p \in Callers |-> Idle]
  BY DEF Init
<1>2. Elements(list) = {} /\ \A p \in Callers : th[p].pc # "save"
  BY <1>1, EmptyFacts, IdleFields
<1> QED BY <1>2 DEF Behindhand, BehindOn

\* A record in the state file is rewritten only by a later one, and an outcome
\* by itself.
LEMMA DiskStep ==
    ASSUME Basic, Behindhand, [Next]_vars,
           NEW t \in Elements(disk.list), Terminal(disk.task[t]), t \in Elements(disk'.list)
    PROVE  disk'.task[t] = disk.task[t]
<1>1. ASSUME NEW p \in Callers, th[p].pc = "save", ~sick, disk' = th[p].doc
      PROVE  disk'.task[t] = disk.task[t]
  <2>1. BehindOn(Elements(disk.list) \cap Elements(disk'.list), disk.task, disk'.task)
    BY <1>1 DEF Behindhand, Between
  <2>2. Behind(disk.task[t], disk'.task[t])
    BY <2>1 DEF BehindOn
  <2> QED BY <2>2 DEF Behind
<1>2. ASSUME NEW p \in Callers, Save(p) PROVE disk'.task[t] = disk.task[t]
  <2>1. disk' = disk \/ (th[p].pc = "save" /\ ~sick /\ disk' = th[p].doc)
    BY <1>2 DEF Save, PersistMetadata, SaveOk, SaveFails
  <2> QED BY <1>1, <2>1
<1>3. CASE Boot
  <2>1. t \in Tasks
    BY TypeFacts DEF Basic
  <2>2. Behind(disk.task[t], disk'.task[t])
    BY <1>3, <2>1, BootEffect DEF Basic
  <2> QED BY <2>2 DEF Behind
<1>4. ASSUME NEW c \in Clients, CreateQueue(c) \/ DeleteQueue(c) \/ Handle(c) PROVE disk' = disk
  BY <1>4 DEF CreateQueue, DeleteQueue, Handle, CreateQueueEnds, CreateTaskEnds, CreateTaskFails,
              DeleteEnds, DeleteFails
<1>5. ASSUME NEW c \in Clients, NEW u \in Tasks, CreateTask(c, u) PROVE disk' = disk
  BY <1>5 DEF CreateTask
<1>6. ASSUME NEW c \in Clients, NEW n \in Names, DeleteTask(c, n) PROVE disk' = disk
  BY <1>6 DEF DeleteTask
<1>7. ASSUME NEW w \in Slots, ExecuteTask(w) PROVE disk' = disk
  BY <1>7, WorkerSteps, RecordsEffect DEF Moves, Exit
<1>8. CASE Shutdown \/ WorkersDone \/ ShutdownFails \/ Crash
  BY <1>8 DEF Shutdown, WorkersDone, ShutdownFails, Crash
<1>9. CASE UNCHANGED vars
  BY <1>9 DEF vars
<1> QED BY <1>2, <1>3, <1>4, <1>5, <1>6, <1>7, <1>8, <1>9 DEF Next

\* With a name for each task: an outcome in the state file is final.  No
\* snapshot that was taken before it overwrites it, and no restart.
THEOREM OutcomeStableHolds == ASSUME DistinctNames PROVE Spec => OutcomeStable
<1>1. Init => Ground /\ Given /\ Workers /\ Behindhand
  BY BasicInit, ListsInit, JobsInit, OneJobInit, GivenInit, WorkersInit, BehindInit DEF Ground
<1>2. Ground /\ Given /\ Workers /\ Behindhand /\ [Next]_vars =>
        Ground' /\ Given' /\ Workers' /\ Behindhand'
  <2>1. Ground /\ [Next]_vars => Ground'
    BY BasicStep, ListsStep, JobsStep, OneJobStep DEF Ground
  <2> QED BY <2>1, GivenStep, WorkersStep, BehindStep
<1>3. Ground /\ Behindhand /\ [Next]_vars =>
        [\A t \in Elements(disk.list) : Terminal(disk.task[t]) /\ t \in Elements(disk'.list) =>
             disk'.task[t] = disk.task[t]]_vars
  BY DiskStep DEF Ground
<1> QED BY <1>1, <1>2, <1>3, PTL DEF Spec, OutcomeStable
-----------------------------------------------------------------------------
\* What is in flight is counted.

\* What CountedFirst says of one goroutine.
Counting(w) == th[w].op = "start" /\ th[w].pc = "save" /\ th[w].out # "FAILED"
CountsFirst(w) ==
    th[w].t \in Elements(list) =>
        (Counted(w) => Counts(w, disk)) /\ (Counting(w) => Counts(w, th[w].doc))

LEMMA CountedFrame ==
    ASSUME \A w \in Slots : ~sick' => CountsFirst(w)' PROVE CountedFirst'
BY DEF CountedFirst, CountsFirst, Counting

LEMMA CountedNow ==
    ASSUME CountedFirst, ~sick, NEW w \in Slots PROVE CountsFirst(w)
BY DEF CountedFirst, CountsFirst, Counting

\* Nothing that the count of a goroutine depends on moved.
LEMMA CountedOther ==
    ASSUME DistinctNames, Ground, CountedFirst, NEW w \in Slots, Alike(w), disk' = disk, sick => sick',
           Elements(list') \subseteq Tasks,
           ~sick' => \A t \in acked : t \in Elements(list') => t \in Elements(list)
    PROVE  ~sick' => CountsFirst(w)'
<1> SUFFICES ASSUME ~sick', th'[w].t \in Elements(list')
             PROVE  (Counted(w)' => Counts(w, disk)') /\ (Counting(w)' => Counts(w, th[w].doc)')
  BY DEF CountsFirst
<1>1. th[w].t \in Tasks /\ th[w].t # None /\ th[w].t \in Elements(list')
  BY TasksAssumption DEF Alike
<1>2. Alive(w)
  <2>1. WorkerShape(th[w])
    BY DEF Ground, Basic, Shape
  <2> QED BY <1>1, <2>1 DEF WorkerShape, Alive
<1>3. th[w].t \in acked
  BY <1>1, <1>2, Own
<1>4. th[w].t \in Elements(list) /\ CountsFirst(w)
  BY <1>1, <1>3, CountedNow
<1>5. (Counted(w) => Counts(w, disk)) /\ (Counting(w) => Counts(w, th[w].doc))
  BY <1>4 DEF CountsFirst
<1>6. (Counted(w)' <=> Counted(w)) /\ (Counting(w)' <=> Counting(w))
  BY DEF Alike, Counted, Counting
<1>7. (Counts(w, disk)' <=> Counts(w, disk)) /\ (Counts(w, th[w].doc)' <=> Counts(w, th[w].doc))
  BY DEF Alike, Counts
<1> QED BY <1>5, <1>6, <1>7

\* A step of a thread that is no goroutine, or that keeps its count.
LEMMA CountedOnly ==
    ASSUME DistinctNames, Ground, CountedFirst, NEW p \in Callers, Only(p), disk' = disk, sick => sick',
           Elements(list') \subseteq Tasks,
           ~sick' => \A t \in acked : t \in Elements(list') => t \in Elements(list),
           p \in Slots => (~sick' => CountsFirst(p)')
    PROVE  CountedFirst'
<1>1. ASSUME NEW w \in Slots PROVE ~sick' => CountsFirst(w)'
  <2>1. CASE w = p
    BY <2>1
  <2>2. CASE w # p
    <3>1. th'[w] = th[w]
      BY <2>2, CallerFacts DEF Only
    <3>2. Alike(w)
      BY <3>1, SameAlike
    <3> QED BY <3>2, CountedOther
  <2> QED BY <2>1, <2>2
<1> QED BY <1>1, CountedFrame

LEMMA CountedPersist ==
    ASSUME DistinctNames, Ground, Workers, CountedFirst, NEW p \in Callers, PersistMetadata(p)
    PROVE  CountedFirst'
<1>0. Basic
  BY DEF Ground
<1>1. th[p].pc = "persist" /\ (sick' <=> sick) /\ disk' = disk /\ heap' = heap /\ list' = list
  BY DEF PersistMetadata, memory
<1>2. /\ Only(p) /\ th'[p].pc = "save" /\ th'[p].doc = CloneMetadata(queue, list, heap)
      /\ th'[p].op = th[p].op /\ th'[p].t = th[p].t /\ th'[p].k = th[p].k /\ th'[p].out = th[p].out
  BY <1>0, PersistEffect DEF Basic
<1>3. queue \in BOOLEAN /\ list \in Seq(Tasks) /\ heap \in [Tasks -> Records] /\ Elements(list) \subseteq Tasks
  BY <1>0, TypeFacts DEF Basic, TypeOK
<1>4. ASSUME p \in Slots, ~sick', th[p].t \in Elements(list), Counting(p)' PROVE Counts(p, th[p].doc)'
  <2>1. th[p].op = "start" /\ th[p].out # "FAILED" /\ Follows(p)
    BY <1>1, <1>2, <1>4 DEF Workers, Counting
  <2>2. heap[th[p].t] = [status |-> "RETRYING", attempts |-> th[p].k]
    BY <1>4, <2>1 DEF Follows, Working
  <2>3. heap[th[p].t].attempts = th[p].k /\ th[p].k \in Int
    BY <1>0, <1>4, <2>2, NumberTypes DEF Basic
  <2>4. /\ CloneMetadata(queue, list, heap).list = list
        /\ CloneMetadata(queue, list, heap).task[th[p].t] = heap[th[p].t]
    BY <1>3, <1>4, CloneFacts
  <2>5. th'[p].doc.list = list /\ th'[p].doc.task[th[p].t].attempts = th[p].k
    BY <1>2, <2>3, <2>4
  <2> QED BY <1>2, <1>4, <2>3, <2>5 DEF Counts
<1>5. p \in Slots => ~Counted(p)'
  BY <1>2 DEF Counted
<1>6. p \in Slots => (~sick' => CountsFirst(p)')
  BY <1>1, <1>2, <1>4, <1>5 DEF CountsFirst
<1> QED BY <1>1, <1>2, <1>3, <1>6, CountedOnly

LEMMA CountedSave ==
    ASSUME Ground, Behindhand, CountedFirst, NEW p \in Callers, SaveOk(p) \/ SaveFails(p)
    PROVE  CountedFirst'
<1>0. Basic
  BY DEF Ground
<1>1. CASE SaveFails(p)
  BY <1>1 DEF SaveFails, CountedFirst
<1>2. CASE SaveOk(p)
  <2>1. th[p].pc = "save" /\ ~sick /\ disk' = th[p].doc /\ list' = list
    BY <1>2 DEF SaveOk, memory
  <2>2. /\ Only(p) /\ th'[p].pc = "saved" /\ th'[p].op = th[p].op /\ th'[p].t = th[p].t
        /\ th'[p].k = th[p].k /\ th'[p].out = th[p].out
    BY <1>0, <1>2, SaveOkEffect DEF Basic
  <2>3. Holds(p) /\ Alone(p)
    BY <1>0, <2>1, AloneFacts DEF Holds, Basic
  <2>4. Between(th[p].doc)
    BY <2>1 DEF Behindhand
  <2>5. ASSUME NEW w \in Slots, w # p PROVE CountsFirst(w)'
    <3>1. th'[w] = th[w] /\ CountsFirst(w)
      BY <2>1, <2>2, <2>5, CallerFacts, CountedNow DEF Only
    <3>2. ~Counting(w)'
      BY <2>3, <2>5, <3>1, CallerFacts DEF Alone, Holds, Counting
    <3>3. ASSUME th[w].t \in Elements(list), Counted(w) PROVE Counts(w, disk)'
      <4>1. th[w].t \in Elements(disk.list) /\ disk.task[th[w].t].attempts >= th[w].k
        BY <3>1, <3>3 DEF CountsFirst, Counts
      <4>2. th[w].t \in Elements(disk'.list)
        BY <2>1, <2>4, <3>3, <4>1 DEF Between
      <4>3. Behind(disk.task[th[w].t], disk'.task[th[w].t])
        BY <2>1, <2>4, <4>1, <4>2 DEF Between, BehindOn
      <4>4. disk.task[th[w].t].attempts <= disk'.task[th[w].t].attempts
        BY <4>3 DEF Behind
      <4>5. /\ disk.task[th[w].t] \in Records /\ disk'.task[th[w].t] \in Records
            /\ th[w].k \in Int
        BY <1>0, <2>1, <4>1, TypeFacts, DocFacts, NumberTypes DEF Basic
      <4>6. disk.task[th[w].t].attempts \in Int /\ disk'.task[th[w].t].attempts \in Int
        BY <4>5, AttemptsType
      <4>7. disk'.task[th[w].t].attempts >= th[w].k
        BY <4>1, <4>4, <4>5, <4>6
      <4> QED BY <3>1, <4>2, <4>7 DEF Counts
    <3>4. (Counted(w)' <=> Counted(w)) /\ th'[w].t = th[w].t
      BY <3>1 DEF Counted
    <3> QED BY <2>1, <3>2, <3>3, <3>4 DEF CountsFirst
  <2>6. ASSUME p \in Slots PROVE CountsFirst(p)'
    <3>1. CountsFirst(p)
      BY <2>1, <2>6, CountedNow
    <3>2. ~Counting(p)'
      BY <2>2 DEF Counting
    <3>3. Counted(p)' => Counting(p)
      BY <2>1, <2>2 DEF Counted, Counting
    <3>4. Counts(p, th[p].doc) => Counts(p, disk)'
      BY <2>1, <2>2 DEF Counts
    <3> QED BY <2>1, <2>2, <3>1, <3>2, <3>3, <3>4 DEF CountsFirst
  <2> QED BY <2>5, <2>6, CountedFrame
<1> QED BY <1>1, <1>2

LEMMA CountedReleases ==
    ASSUME DistinctNames, Ground, CountedFirst, NEW c \in Clients,
           CreateQueue(c) \/ DeleteQueue(c) \/ CreateQueueEnds(c) \/ CreateTaskFails(c)
             \/ DeleteFails(c) \/ \E n \in Names : DeleteTask(c, n)
    PROVE  CountedFirst'
<1>1. Basic /\ c \in Callers /\ c \notin Slots
  BY CallerFacts DEF Ground
<1>2. Only(c)
  BY <1>1, Releases
<1>3. /\ disk' = disk /\ (sick' <=> sick) /\ Elements(list') \subseteq Tasks
      /\ ~sick' => Elements(list') \subseteq Elements(list)
  BY <1>1, ReleasesShrink
<1> QED BY <1>1, <1>2, <1>3, CountedOnly

LEMMA CountedCreateTask ==
    ASSUME DistinctNames, Ground, CountedFirst, NEW c \in Clients, NEW t \in Tasks, CreateTask(c, t)
    PROVE  CountedFirst'
<1>1. Basic /\ c \in Callers /\ c \notin Slots
  BY CallerFacts DEF Ground
<1>2. Only(c)
  BY <1>1, CreateTaskEffect DEF Basic
<1>3. disk' = disk /\ (sick' <=> sick) /\ t \notin created /\ list' = Append(list, t)
  BY DEF CreateTask
<1>4. t \notin acked
  BY <1>3 DEF Ground, Lists, Histories
<1>5. list \in Seq(Tasks) /\ Elements(list) \subseteq Tasks
  BY <1>1, TypeFacts DEF Basic
<1>6. Elements(list') = Elements(list) \cup {t}
  BY <1>3, <1>5, AppendFacts
<1>7. Elements(list') \subseteq Tasks /\ \A u \in acked : u \in Elements(list') => u \in Elements(list)
  BY <1>4, <1>5, <1>6
<1> QED BY <1>1, <1>2, <1>3, <1>7, CountedOnly

LEMMA CountedCreateTaskEnds ==
    ASSUME DistinctNames, Ground, CountedFirst, NEW c \in Clients, CreateTaskEnds(c) PROVE CountedFirst'
<1>0. Basic
  BY DEF Ground
<1>1. th[c].op = "createTask" /\ list' = list /\ disk' = disk /\ (sick' <=> sick)
  BY DEF CreateTaskEnds
<1>2. \A w \in Slots : th'[w] = th[w] \/ Fresh(w, c)
  BY <1>0, <1>1, CreatingFacts, CreateTaskEndsEffect DEF Basic
<1>3. Elements(list') \subseteq Tasks
  BY <1>0, <1>1, TypeFacts DEF Basic
<1>4. ASSUME NEW w \in Slots PROVE ~sick' => CountsFirst(w)'
  <2>1. CASE Fresh(w, c)
    BY <2>1 DEF Fresh, CountsFirst, Counted, Counting
  <2>2. CASE th'[w] = th[w]
    <3>1. Alike(w)
      BY <2>2, SameAlike
    <3> QED BY <1>1, <1>3, <3>1, CountedOther
  <2> QED BY <1>2, <2>1, <2>2
<1> QED BY <1>4, CountedFrame

LEMMA CountedDeleteEnds ==
    ASSUME DistinctNames, Ground, CountedFirst, NEW c \in Clients, DeleteEnds(c) PROVE CountedFirst'
<1>0. Basic
  BY DEF Ground
<1>1. list' = list /\ disk' = disk /\ (sick' <=> sick)
  BY DEF DeleteEnds
<1>2. Elements(list') \subseteq Tasks
  BY <1>0, <1>1, TypeFacts DEF Basic
<1>3. ASSUME NEW w \in Slots PROVE ~sick' => CountsFirst(w)'
  <2>1. w \in Callers /\ w # c
    BY CallerFacts
  <2>2. Alike(w)
    BY <1>0, <2>1, DeleteEndsEffect DEF Basic
  <2> QED BY <1>1, <1>2, <2>2, CountedOther
<1> QED BY <1>3, CountedFrame

\* A goroutine that goes on with its attempt goes on with its count.
LEMMA AttemptCounts ==
    ASSUME Basic, NEW w \in Slots, ExecuteTask(w)
    PROVE  /\ ~Counting(w)'
           /\ Counted(w)' => Counted(w) /\ th'[w].t = th[w].t /\ th'[w].k = th[w].k
<1>0. w \in Callers
  BY CallerFacts
<1>1. CASE CheckContext(w)
  <2>1. PICK x \in {"exit", "start"} : Goto(w, x)
    BY <1>1 DEF CheckContext
  <2>2. th'[w].pc = x /\ th'[w].op = "deliver"
    BY <1>0, <1>1, <2>1, GotoEffect DEF Basic, Unmoved, CheckContext
  <2> QED BY <2>2 DEF Counted, Counting
<1>2. CASE RecordAttemptStart(w)
  <2>1. PICK t : t = Find(list, th[w].n)
    OBVIOUS
  <2>2. CASE t = None \/ (t # None /\ Terminal(heap[t]))
    <3>1. Goto(w, "exit") /\ th[w].pc = "start"
      BY <1>2, <2>1, <2>2 DEF RecordAttemptStart
    <3>2. th'[w].pc = "exit"
      BY <1>0, <3>1, GotoEffect DEF Basic
    <3>3. th'[w].op = "deliver"
      BY <1>0, <3>1, GotoEffect, WorkerAt DEF Basic, Unmoved
    <3> QED BY <3>2, <3>3 DEF Counted, Counting
  <2>3. CASE t # None /\ ~Terminal(heap[t])
    <3>1. th'[w].pc = "persist"
      BY <1>2, <2>1, <2>3, BasicTypes, AttemptEffect
    <3> QED BY <3>1 DEF Counted, Counting
  <2> QED BY <2>2, <2>3
<1>3. CASE AttemptStarted(w)
  <2>1. th[w].op = "start" /\ th[w].pc = "saved"
    BY <1>3 DEF AttemptStarted
  <2>2. PICK x \in {"exit", "prepare"} : x = IF th[w].out = "FAILED" THEN "exit" ELSE "prepare"
    OBVIOUS
  <2>3. th'[w].op = "deliver" /\ th'[w].pc = x /\ th'[w].t = th[w].t /\ th'[w].k = th[w].k
    BY <1>3, <2>2, AttemptStartedEffect DEF Basic
  <2>4. x = "prepare" => th[w].out # "FAILED"
    BY <2>2
  <2> QED BY <2>1, <2>3, <2>4 DEF Counted, Counting
<1>4. CASE AttemptNotStarted(w) \/ OutcomeNotRecorded(w)
  <2>1. th'[w].op = "deliver" /\ th'[w].pc = "exit"
    BY <1>4, AttemptNotStartedEffect DEF Basic
  <2> QED BY <2>1 DEF Counted, Counting
<1>5. CASE Prepare(w) \/ Send(w) \/ Answer(w)
  <2>1. th[w].pc \in {"prepare", "send", "inflight"}
    BY <1>5 DEF Prepare, Send, Answer
  <2>2. th[w].op = "deliver" /\ Counted(w)
    BY <2>1, WorkerAt DEF Basic, Counted
  <2>3. ASSUME NEW x \in {"exit", "send", "inflight"}, Goto(w, x)
        PROVE  th'[w].op = th[w].op /\ th'[w].t = th[w].t /\ th'[w].k = th[w].k
    BY <1>0, <2>3, GotoEffect DEF Basic, Unmoved
  <2>4. ASSUME NEW o \in {"COMPLETED", "FAILED", "RETRYING"}, th' = [th EXCEPT ![w].pc = "record", ![w].out = o]
        PROVE  th'[w].op = th[w].op /\ th'[w].t = th[w].t /\ th'[w].k = th[w].k
    BY <2>4, RefusedEffect DEF Basic
  <2>5. \/ \E x \in {"exit", "send", "inflight"} : Goto(w, x)
        \/ \E o \in {"COMPLETED", "FAILED", "RETRYING"} : th' = [th EXCEPT ![w].pc = "record", ![w].out = o]
    <3>1. CASE Prepare(w)
      BY <3>1 DEF Prepare
    <3>2. CASE Send(w)
      BY <3>2 DEF Send
    <3>3. CASE Answer(w)
      BY <3>3, AnswerCases
    <3> QED BY <1>5, <3>1, <3>2, <3>3
  <2> QED BY <2>2, <2>3, <2>4, <2>5 DEF Counting
<1>6. CASE RecordAttemptOutcome(w)
  <2>1. CASE Find(list, th[w].n) = None
    <3>1. Goto(w, AfterOutcome(th[w].out)) /\ th[w].pc = "record"
      BY <1>6, <2>1 DEF RecordAttemptOutcome
    <3>2. PICK x \in {"loop", "exit"} : x = AfterOutcome(th[w].out)
      BY DEF AfterOutcome
    <3>3. th'[w].pc = x
      BY <1>0, <3>1, <3>2, GotoEffect DEF Basic
    <3>4. th'[w].op = "deliver"
      BY <1>0, <3>1, <3>2, GotoEffect, WorkerAt DEF Basic, Unmoved
    <3> QED BY <3>3, <3>4 DEF Counted, Counting
  <2>2. CASE Find(list, th[w].n) # None
    <3>1. th'[w].op = "outcome" /\ th'[w].pc = "save"
      BY <1>6, <2>2, RecordsEffect DEF RecordsFound
    <3> QED BY <3>1 DEF Counted, Counting
  <2> QED BY <2>1, <2>2
<1>7. CASE OutcomeRecorded(w)
  <2>1. PICK x \in {"loop", "exit"} : x = AfterOutcome(th[w].out)
    BY DEF AfterOutcome
  <2>2. th'[w].op = "deliver" /\ th'[w].pc = x
    BY <1>7, <2>1, OutcomeRecordedEffect DEF Basic
  <2> QED BY <2>2 DEF Counted, Counting
<1>8. CASE Exit(w)
  <2>1. th'[w] = Idle
    BY <1>0, <1>8, IdleEffect DEF Basic, Exit
  <2> QED BY <2>1, IdleFields DEF Counted, Counting
<1> QED BY <1>1, <1>2, <1>3, <1>4, <1>5, <1>6, <1>7, <1>8 DEF ExecuteTask

LEMMA CountedWorker ==
    ASSUME DistinctNames, Ground, CountedFirst, NEW w \in Slots, ExecuteTask(w) PROVE CountedFirst'
<1>0. Basic /\ w \in Callers
  BY CallerFacts DEF Ground
<1>1. Only(w) /\ list' = list /\ disk' = disk /\ (sick' <=> sick)
  <2>1. CASE Moves(w)
    BY <2>1 DEF Moves
  <2>2. CASE RecordsFound(w)
    <3>1. Only(w)
      BY <1>0, <2>2, RecordsEffect
    <3> QED BY <2>2, <3>1 DEF RecordsFound, RecordAttemptOutcome
  <2>3. CASE Exit(w)
    <3>1. Only(w)
      BY <1>0, <2>3, IdleEffect DEF Exit, Basic
    <3> QED BY <2>3, <3>1 DEF Exit
  <2> QED BY <1>0, <2>1, <2>2, <2>3, WorkerSteps
<1>2. Elements(list') \subseteq Tasks
  BY <1>0, <1>1, TypeFacts DEF Basic
<1>3. ASSUME ~sick' PROVE CountsFirst(w)'
  <2>1. CountsFirst(w)
    BY <1>1, <1>3, CountedNow
  <2>2. /\ ~Counting(w)'
        /\ Counted(w)' => Counted(w) /\ th'[w].t = th[w].t /\ th'[w].k = th[w].k
    BY <1>0, AttemptCounts
  <2> QED BY <1>1, <2>1, <2>2 DEF CountsFirst, Counts
<1> QED BY <1>0, <1>1, <1>2, <1>3, CountedOnly

LEMMA CountedRestart == ASSUME Basic, Crash \/ Boot PROVE CountedFirst'
<1>1. \A p \in Callers : th'[p].pc = "idle" /\ (p \in Slots => th'[p].op = "none")
  <2>1. CASE Crash
    BY <2>1, CrashEffect, IdleFields
  <2>2. CASE Boot
    <3>1. th' = th /\ \A p \in Callers : th[p].pc = "idle"
      BY <2>2, BootEffect DEF Boot, Basic, Locked
    <3>2. \A w \in Slots : WorkerShape(th[w])
      BY DEF Basic, Shape
    <3> QED BY <3>1, <3>2, CallerFacts DEF WorkerShape
  <2> QED BY <2>1, <2>2
<1>2. ASSUME NEW w \in Slots PROVE CountsFirst(w)'
  BY <1>1, CallerFacts DEF CountsFirst, Counted, Counting
<1> QED BY <1>2, CountedFrame

LEMMA CountedStep ==
    ASSUME DistinctNames PROVE Ground /\ Workers /\ Behindhand /\ CountedFirst /\ [Next]_vars => CountedFirst'
<1> SUFFICES ASSUME Ground, Workers, Behindhand, CountedFirst, [Next]_vars PROVE CountedFirst'
  OBVIOUS
<1>0. Basic
  BY DEF Ground
<1>1. CASE UNCHANGED vars
  BY <1>1 DEF vars, CountedFirst, Counted, Counts
<1>2. ASSUME NEW c \in Clients, CreateQueue(c) \/ DeleteQueue(c) \/ Handle(c) PROVE CountedFirst'
  BY <1>2, CountedReleases, CountedCreateTaskEnds, CountedDeleteEnds DEF Handle
<1>3. ASSUME NEW c \in Clients, NEW t \in Tasks, CreateTask(c, t) PROVE CountedFirst'
  BY <1>3, CountedCreateTask
<1>4. ASSUME NEW c \in Clients, NEW n \in Names, DeleteTask(c, n) PROVE CountedFirst'
  BY <1>4, CountedReleases
<1>5. ASSUME NEW p \in Callers, Save(p) PROVE CountedFirst'
  BY <1>5, CountedPersist, CountedSave DEF Save
<1>6. ASSUME NEW w \in Slots, ExecuteTask(w) PROVE CountedFirst'
  BY <1>6, CountedWorker
<1>7. CASE Shutdown \/ WorkersDone \/ ShutdownFails
  <2>1. Only(Closer) /\ list' = list /\ disk' = disk /\ (sick' <=> sick)
    BY <1>0, <1>7, CloserSteps
  <2>2. Elements(list') \subseteq Tasks
    BY <1>0, <2>1, TypeFacts DEF Basic
  <2> QED BY <2>1, <2>2, CallerFacts, CountedOnly
<1>8. CASE Crash \/ Boot
  BY <1>0, <1>8, CountedRestart
<1> QED BY <1>1, <1>2, <1>3, <1>4, <1>5, <1>6, <1>7, <1>8 DEF Next

LEMMA CountedInit == Init => CountedFirst
<1> SUFFICES ASSUME Init PROVE CountedFirst
  OBVIOUS
<1>1. Elements(list) = {}
  BY EmptyFacts DEF Init
<1> QED BY <1>1 DEF CountedFirst

\* With a name for each task, and whatever attempts, below zero too, its body
\* gives it: what it was created with and its requests stay within the retry
\* configuration, through rollbacks, restarts and deletions, and no request is
\* in flight that the state file does not count.
THEOREM BudgetKeptHolds == ASSUME DistinctNames PROVE Spec => []BudgetKept
<1>1. Init => Ground /\ Given /\ Workers /\ Behindhand /\ CountedFirst
  BY BasicInit, ListsInit, JobsInit, OneJobInit, GivenInit, WorkersInit, BehindInit, CountedInit DEF Ground
<1>2. Ground /\ Given /\ Workers /\ Behindhand /\ CountedFirst /\ [Next]_vars =>
        Ground' /\ Given' /\ Workers' /\ Behindhand' /\ CountedFirst'
  <2>1. Ground /\ [Next]_vars => Ground'
    BY BasicStep, ListsStep, JobsStep, OneJobStep DEF Ground
  <2> QED BY <2>1, GivenStep, WorkersStep, BehindStep, CountedStep
<1>3. Ground /\ Workers /\ CountedFirst => BudgetKept
  <2> SUFFICES ASSUME Ground, Workers, CountedFirst PROVE BudgetKept
    OBVIOUS
  <2>1. ASSUME NEW w \in Slots, th[w].pc = "inflight", ~sick, th[w].t \in Elements(list)
        PROVE  th[w].t \in Elements(disk.list) /\ disk.task[th[w].t].attempts >= th[w].k
    BY <2>1 DEF CountedFirst, Counted, Counts
  <2>2. ASSUME NEW w \in Slots, th[w].t # None PROVE Afford(sent, th[w].t, th[w].max)
    <3>1. WorkerShape(th[w])
      BY DEF Ground, Basic, Shape
    <3>2. Alive(w)
      BY <2>2, <3>1 DEF WorkerShape, Alive
    <3>3. th[w].t \in Tasks /\ NameOf[th[w].t] = w[1]
      BY <2>2, <3>2, Own
    <3> QED BY <3>2, <3>3 DEF Workers, Spends, Sending
  <2> QED BY <2>1, <2>2 DEF BudgetKept, RecordedBeforeSent, Afford, Spent
<1> QED BY <1>1, <1>2, <1>3, PTL DEF Spec
=============================================================================

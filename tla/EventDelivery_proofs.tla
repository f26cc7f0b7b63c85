------------------------ MODULE EventDelivery_proofs ------------------------
(***************************************************************************)
(* Proofs about events, from Eventarc to the executions of Workflows.      *)
(*                                                                         *)
(* SucceededHasRun relates a record of one shim to what another one has    *)
(* done, and each keeps copies of its records: in memory, in its entry, in *)
(* what a handler would put back, and in a snapshot on its way to the      *)
(* store.  The invariant says of all copies what the property says of two: *)
(* FlowsSound, that an execution asked for by an event and recorded as     *)
(* SUCCEEDED has run, whichever copy of it comes back after a failure or   *)
(* a restart; IntentsSound, that a delivery is SUCCEEDED only if its       *)
(* workflow has run for it; Agreed, that the copies of a delivery name one *)
(* workflow; and WorkerSound, that what the worker is doing, on both sides *)
(* of its call, is for that workflow, and that a positive answer is given  *)
(* only after a run.                                                       *)
(*                                                                         *)
(* IntentsKept needs what the handlers have left to do (HandsSound).       *)
(* RunsOnce needs that the maps and the entry of Workflows never lose      *)
(* sight of a run (Once): an execution that was entered is still there,    *)
(* and one that has run is not admitted again, until its workflow is       *)
(* deleted and its name, if used again, is made at a later revision.       *)
(***************************************************************************)
EXTENDS EventDelivery, SequenceTheorems, TLAPS

(* Sequences and the parts of a step of a program.                           *)
LEMMA Sequences ==
    ASSUME NEW a, NEW b, NEW c
    PROVE  /\ Head(<<a>>) = a /\ Tail(<<a>>) = <<>>
           /\ Head(<<a, b>>) = a /\ Tail(<<a, b>>) = <<b>>
           /\ Head(<<a, b, c>>) = a /\ Tail(<<a, b, c>>) = <<b, c>>
           /\ <<a>> # <<>> /\ <<a, b>> # <<>> /\ <<a, b, c>> # <<>>
<1>1. Head(<<a>>) = a /\ Tail(<<a>>) = <<>> /\ Len(<<a>>) = 1
  OBVIOUS
<1>2. Head(<<a, b>>) = a /\ Tail(<<a, b>>) = <<b>> /\ Len(<<a, b>>) = 2
  OBVIOUS
<1>3. Head(<<a, b, c>>) = a /\ Tail(<<a, b, c>>) = <<b, c>> /\ Len(<<a, b, c>>) = 3
  OBVIOUS
<1>4. Len(<<>>) = 0
  OBVIOUS
<1> QED
  BY <1>1, <1>2, <1>3, <1>4

LEMMA StepParts ==
    ASSUME NEW e, NEW s, NEW w, NEW d, NEW x
    PROVE  /\ Flows!Save(e)[1] = "save" /\ Flows!Save(e)[2] = e
           /\ Flows!Register(e)[1] = "register" /\ Flows!Register(e)[2] = e
           /\ Flows!Undo[1] = "undo"
           /\ Flows!Step(s, w, d, x)[1] = s /\ Flows!Step(s, w, d, x)[2] = <<>>
           /\ Flows!Step(s, w, d, x)[3] = w /\ Flows!Step(s, w, d, x)[4] = d /\ Flows!Step(s, w, d, x)[5] = x
  BY DEF Flows!Save, Flows!Register, Flows!Undo, Flows!Step, Flows!Keep

LEMMA Joined ==
    ASSUME NEW a, NEW b, NEW c
    PROVE  <<a>> \o <<b>> = <<a, b>> /\ <<a, b>> \o <<c>> = <<a, b, c>> /\ <<a>> \o <<>> = <<a>>
<1>1. ASSUME NEW s, NEW t, NEW u, s \in Seq({a, b, c}), t \in Seq({a, b, c}), u \in Seq({a, b, c}),
             Len(u) = Len(s) + Len(t),
             \A i \in 1..Len(u) : u[i] = IF i <= Len(s) THEN s[i] ELSE t[i - Len(s)]
      PROVE  s \o t = u
  <2>1. s \o t \in Seq({a, b, c}) /\ Len(s \o t) = Len(s) + Len(t)
    BY <1>1, ConcatProperties
  <2>2. \A i \in 1..Len(s) + Len(t) : (s \o t)[i] = IF i <= Len(s) THEN s[i] ELSE t[i - Len(s)]
    BY <1>1, ConcatProperties
  <2>3. \A i \in 1..Len(s \o t) : (s \o t)[i] = u[i]
    BY <1>1, <2>1, <2>2
  <2> QED
    BY <1>1, <2>1, <2>3, SeqEqual
<1>2. <<a>> \in Seq({a, b, c}) /\ Len(<<a>>) = 1 /\ <<a>>[1] = a
  OBVIOUS
<1>3. <<b>> \in Seq({a, b, c}) /\ Len(<<b>>) = 1 /\ <<b>>[1] = b
  OBVIOUS
<1>4. <<c>> \in Seq({a, b, c}) /\ Len(<<c>>) = 1 /\ <<c>>[1] = c
  OBVIOUS
<1>5. <<a, b>> \in Seq({a, b, c}) /\ Len(<<a, b>>) = 2 /\ <<a, b>>[1] = a /\ <<a, b>>[2] = b
  OBVIOUS
<1>6. /\ <<a, b, c>> \in Seq({a, b, c}) /\ Len(<<a, b, c>>) = 3
      /\ <<a, b, c>>[1] = a /\ <<a, b, c>>[2] = b /\ <<a, b, c>>[3] = c
  OBVIOUS
<1>7. <<a>> \o <<b>> = <<a, b>>
  <2>1. PICK s, t, u : s = <<a>> /\ t = <<b>> /\ u = <<a, b>>
    OBVIOUS
  <2>2. s \in Seq({a, b, c}) /\ t \in Seq({a, b, c}) /\ u \in Seq({a, b, c}) /\ Len(s) = 1 /\ Len(t) = 1 /\ Len(u) = 2
        /\ s[1] = a /\ t[1] = b /\ u[1] = a /\ u[2] = b
    BY <1>2, <1>3, <1>5, <2>1
  <2>3. Len(u) = Len(s) + Len(t) /\ \A i \in 1..Len(u) : u[i] = IF i <= Len(s) THEN s[i] ELSE t[i - Len(s)]
    BY <2>2
  <2>4. s \o t = u
    BY <1>1, <2>2, <2>3, Zenon
  <2> QED
    BY <2>1, <2>4
<1>8. <<a, b>> \o <<c>> = <<a, b, c>>
  <2>1. PICK s, t, u : s = <<a, b>> /\ t = <<c>> /\ u = <<a, b, c>>
    OBVIOUS
  <2>2. s \in Seq({a, b, c}) /\ t \in Seq({a, b, c}) /\ u \in Seq({a, b, c}) /\ Len(s) = 2 /\ Len(t) = 1 /\ Len(u) = 3
        /\ s[1] = a /\ s[2] = b /\ t[1] = c /\ u[1] = a /\ u[2] = b /\ u[3] = c
    BY <1>4, <1>5, <1>6, <2>1
  <2>3. Len(u) = Len(s) + Len(t) /\ \A i \in 1..Len(u) : u[i] = IF i <= Len(s) THEN s[i] ELSE t[i - Len(s)]
    BY <2>2
  <2>4. s \o t = u
    BY <1>1, <2>2, <2>3, Zenon
  <2> QED
    BY <2>1, <2>4
<1> QED
  BY <1>2, <1>7, <1>8, ConcatEmptySeq

(* A handler's record replaced in the handlers' calls, whole or in part.     *)
Entry(c) == c = [todo |-> c.todo, undo |-> c.undo, on |-> c.on]
Calls(f) == f = [h \in Handlers |-> f[h]] /\ \A h \in Handlers : Entry(f[h])
Goes(f, g, h, todo, undo) ==
    Calls(g) /\ g[h].todo = todo /\ g[h].undo = undo /\ \A x \in Handlers \ {h} : g[x] = f[x]

LEMMA CallSet ==
    ASSUME NEW f, NEW g, NEW h \in Handlers, NEW todo, NEW undo, NEW on, Calls(f),
           g = [f EXCEPT ![h] = [todo |-> todo, undo |-> undo, on |-> on]]
    PROVE  Goes(f, g, h, todo, undo)
  BY DEF Calls, Entry, Goes

LEMMA CallParts ==
    ASSUME NEW f, NEW g, NEW h \in Handlers, NEW todo, NEW undo, Calls(f),
           \/ g = [f EXCEPT ![h].undo = undo, ![h].todo = todo]
           \/ g = [f EXCEPT ![h].todo = todo, ![h].undo = undo]
    PROVE  Goes(f, g, h, todo, undo)
<1>1. f = [x \in Handlers |-> f[x]] /\ Entry(f[h])
  BY DEF Calls
<1>2. g = [x \in Handlers |-> g[x]] /\ \A x \in Handlers \ {h} : g[x] = f[x]
  BY <1>1
<1>0. g[h] = [todo |-> todo, undo |-> undo, on |-> f[h].on]
  <2>1. PICK c : c = f[h] /\ c = [todo |-> c.todo, undo |-> c.undo, on |-> c.on]
    BY <1>1 DEF Entry
  <2>2. \/ g[h] = [[c EXCEPT !.undo = undo] EXCEPT !.todo = todo]
        \/ g[h] = [[c EXCEPT !.todo = todo] EXCEPT !.undo = undo]
    BY <1>1, <2>1
  <2> QED
    BY <2>1, <2>2
<1>3. g[h].todo = todo /\ g[h].undo = undo
  BY <1>0
<1>4. Entry(g[h])
  BY <1>0 DEF Entry
<1> QED
  BY <1>2, <1>3, <1>4 DEF Calls, Goes

LEMMA CallTodo ==
    ASSUME NEW f, NEW g, NEW h \in Handlers, NEW todo, Calls(f), g = [f EXCEPT ![h].todo = todo]
    PROVE  Goes(f, g, h, todo, f[h].undo)
  BY DEF Calls, Entry, Goes

LEMMA CallFollows ==
    ASSUME NEW f, NEW g, NEW h \in Handlers, NEW todo, Calls(f),
           g = [f EXCEPT ![h] = IF todo = <<>> THEN Idle ELSE [@ EXCEPT !.todo = todo]]
    PROVE  \E undo \in {f[h].undo, Nothing} : Goes(f, g, h, todo, undo)
<1>1. CASE todo = <<>>
  BY <1>1, CallSet DEF Idle
<1>2. CASE todo # <<>>
  <2>1. Goes(f, g, h, todo, f[h].undo)
    BY <1>2 DEF Calls, Entry, Goes
  <2> QED
    BY <2>1
<1> QED
  BY <1>1, <1>2

LEMMA CallRecords ==
    ASSUME NEW f, NEW g, NEW h \in Handlers, NEW todo, NEW undo, Calls(f), todo # <<>>,
           g = [f EXCEPT ![h] = IF todo = <<>> THEN Idle ELSE [@ EXCEPT !.todo = todo, !.undo = undo]]
    PROVE  Goes(f, g, h, todo, undo)
<1>1. PICK r : r = [f[h] EXCEPT !.todo = todo, !.undo = undo]
  OBVIOUS
<1>2. Entry(f[h])
  BY DEF Calls
<1>3. r.todo = todo /\ r.undo = undo /\ Entry(r)
  BY <1>1, <1>2 DEF Entry
<1>4. g = [f EXCEPT ![h] = r]
  BY <1>1
<1> QED
  BY <1>3, <1>4 DEF Calls, Goes

-----------------------------------------------------------------------------
(* Workflows.  R is the set of the runs so far.                              *)
HasRun(w, d, R) == \E r \in R : r[2] = w /\ r[3] = d
ExecutionSound(n, v, R) ==
    n[1] = "execution" =>
        /\ v = [state |-> v.state, revision |-> v.revision]
        /\ v.state = "SUCCEEDED" /\ n[3] \in DeliveryIds => HasRun(n[2], n[3], R)
DocSound(doc, R) == \A n \in DOMAIN doc : ExecutionSound(n, doc[n], R)
UndoSound(old, R) == \A n \in DOMAIN old : old[n] # None => ExecutionSound(n, old[n], R)

(* What a request to Workflows, and what an execution for an event, can have *)
(* left to do.                                                               *)
PutBackStep(n, v) == Flows!Step("putback", n, None, v)
PlainProgram(P) ==
    P \in {<<>>, Flows!Revert, Flows!compensateState, <<Flows!Save(<<>>)>>, <<Flows!Save(Flows!compensateState)>>,
           <<Flows!Register(Flows!Revert), Flows!Save(Flows!compensateState)>>}
PatchProgram(P) ==
    \E n \in Flows!Workflows : \E v :
        P \in {<<PutBackStep(n, v)>>, <<Flows!Register(<<PutBackStep(n, v)>>), Flows!Save(Flows!compensateState)>>}
ExecutionProgram(P) ==
    \/ \E n, v : P = <<Flows!Step("enter", n, None, v)>>
    \/ \E n : \E x \in ExecutionIds :
          P \in {<<Flows!Save(Flows!compensateState), Flows!Step("outcome", n, x, FALSE)>>,
                 <<Flows!Step("outcome", n, x, FALSE)>>}
CancelProgram(P, R) ==
    \/ \E n, doc : DocSound(doc, R) /\ P = <<<<"copy", <<>>, doc>>, <<"cancelled", <<>>, n>>>>
    \/ \E n : P = <<<<"cancelled", <<>>, n>>>>
RequestProgram(P, R) == PlainProgram(P) \/ PatchProgram(P) \/ ExecutionProgram(P) \/ CancelProgram(P, R)

AnswerStep(w, d, ok) == Flows!Step("answer", w, d, ok)
OutcomeStep(w, d) == Flows!Step("outcome", w, d, TRUE)
Refused(w, d) == <<Flows!Save(<<AnswerStep(w, d, FALSE)>>), AnswerStep(w, d, FALSE)>>
TakenBack(w, d) == <<Flows!Undo, Flows!Save(<<AnswerStep(w, d, FALSE)>>), AnswerStep(w, d, FALSE)>>
BeforeRun(w, d, v) ==
    {<<Flows!Step("admit", w, d, None)>>, <<Flows!Step("enterEvent", w, d, v)>>, <<Flows!Step("begin", w, d, v)>>,
     <<Flows!Save(TakenBack(w, d)), Flows!Step("begin", w, d, v)>>,
     <<Flows!Save(Refused(w, d)), Flows!Step("run", w, d, v), OutcomeStep(w, d)>>,
     <<Flows!Step("run", w, d, v), OutcomeStep(w, d)>>}
Refusing(w, d) == {TakenBack(w, d), Refused(w, d), <<AnswerStep(w, d, FALSE)>>}
AfterRun(w, d) ==
    {<<OutcomeStep(w, d)>>, <<Flows!Save(<<AnswerStep(w, d, FALSE)>>), AnswerStep(w, d, TRUE)>>, <<AnswerStep(w, d, TRUE)>>}
EventProgram(P, w, d, R) ==
    \/ \E v : P \in BeforeRun(w, d, v)
    \/ P \in Refusing(w, d)
    \/ HasRun(w, d, R) /\ P \in AfterRun(w, d)

(* Eventarc: the copies of a delivery n.                                     *)
Copy(n, v) ==
    \/ n \in DOMAIN mem /\ v = mem[n]
    \/ n \in DOMAIN disk /\ v = disk[n]
    \/ \E h \in Handlers : n \in DOMAIN call[h].undo /\ v = call[h].undo[n] /\ v # None
Destined(d, w) == \A v : Copy(Delivery(d), v) => v.workflow = w
IntentSound(n, v, R) ==
    /\ v = [trigger |-> v.trigger, workflow |-> v.workflow, payload |-> v.payload, state |-> v.state]
    /\ n[3] \in DeliveryIds /\ n = Delivery(n[3])
    /\ v.state = "SUCCEEDED" => HasRun(v.workflow, n[3], R)

ExecuteStep(d, w) == <<"execute", <<>>, d, w>>
ExecutingStep(d) == <<"executing", <<>>, d>>

-----------------------------------------------------------------------------
(* The inductive invariant.                                                  *)
FlowsSound ==
    /\ Calls(flowsCall)
    /\ DocSound(flows, runs) /\ DocSound(flowsDisk, runs)
    /\ \A h \in Handlers : UndoSound(flowsCall[h].undo, runs)
    /\ \A h \in Handlers \ {Worker} : RequestProgram(flowsCall[h].todo, runs)
IntentsSound ==
    /\ Calls(call)
    /\ \A n, v : n[1] = "delivery" /\ Copy(n, v) => IntentSound(n, v, runs)
Agreed == \A n, v1, v2 : n[1] = "delivery" /\ Copy(n, v1) /\ Copy(n, v2) => v1.workflow = v2.workflow
Resting == call[Worker].todo \in {<<>>, <<Save(<<>>)>>} /\ flowsCall[Worker].todo = <<>>
Executing(d, w) ==
    /\ d \in DeliveryIds /\ Destined(d, w)
    /\ \/ call[Worker].todo = <<ExecuteStep(d, w)>> /\ flowsCall[Worker].todo = <<>>
       \/ call[Worker].todo = <<ExecutingStep(d)>> /\ EventProgram(flowsCall[Worker].todo, w, d, runs)
WorkerSound == Resting \/ \E d, w : Executing(d, w)
IInv == FlowsSound /\ IntentsSound /\ Agreed /\ WorkerSound

LEMMA MoreRuns ==
    ASSUME NEW R, NEW Q, R \subseteq Q
    PROVE  /\ \A w, d : HasRun(w, d, R) => HasRun(w, d, Q)
           /\ \A doc : DocSound(doc, R) => DocSound(doc, Q)
           /\ \A old : UndoSound(old, R) => UndoSound(old, Q)
           /\ \A P : RequestProgram(P, R) => RequestProgram(P, Q)
           /\ \A P, w, d : EventProgram(P, w, d, R) => EventProgram(P, w, d, Q)
           /\ \A n, v : IntentSound(n, v, R) => IntentSound(n, v, Q)
<1>1. \A w, d : HasRun(w, d, R) => HasRun(w, d, Q)
  BY DEF HasRun
<1>2. \A n, v : ExecutionSound(n, v, R) => ExecutionSound(n, v, Q)
  BY <1>1 DEF ExecutionSound
<1>3. \A doc : DocSound(doc, R) => DocSound(doc, Q)
  BY <1>2 DEF DocSound
<1>4. \A old : UndoSound(old, R) => UndoSound(old, Q)
  BY <1>2 DEF UndoSound
<1>5. \A P : RequestProgram(P, R) => RequestProgram(P, Q)
  BY <1>3 DEF RequestProgram, CancelProgram
<1>6. \A P, w, d : EventProgram(P, w, d, R) => EventProgram(P, w, d, Q)
  BY <1>1 DEF EventProgram
<1>7. \A n, v : IntentSound(n, v, R) => IntentSound(n, v, Q)
  BY <1>1 DEF IntentSound
<1> QED
  BY <1>1, <1>3, <1>4, <1>5, <1>6, <1>7

(* The maps of Workflows stay sound under the changes its handlers make.     *)
LEMMA DocChanges ==
    ASSUME NEW R, NEW doc, DocSound(doc, R)
    PROVE  /\ \A n, v : ExecutionSound(n, v, R) => DocSound(Flows!Put(doc, n, v), R)
           /\ \A S : DocSound(Flows!Drop(doc, S), R)
           /\ \A old : UndoSound(old, R) => DocSound(Flows!Restore(doc, old), R)
           /\ \A S : UndoSound([n \in S |-> Flows!Value(doc, n)], R)
           /\ \A S : UndoSound([n \in S |-> None], R)
<1>1. \A n, v : ExecutionSound(n, v, R) => DocSound(Flows!Put(doc, n, v), R)
  BY DEF DocSound, Flows!Put
<1>2. \A S : DocSound(Flows!Drop(doc, S), R)
  BY DEF DocSound, Flows!Drop
<1>3. \A old : UndoSound(old, R) => DocSound(Flows!Restore(doc, old), R)
  BY DEF DocSound, UndoSound, Flows!Restore
<1>4. \A S : UndoSound([n \in S |-> Flows!Value(doc, n)], R)
  BY DEF DocSound, UndoSound, Flows!Value
<1>5. \A S : UndoSound([n \in S |-> None], R)
  BY DEF UndoSound
<1> QED
  BY <1>1, <1>2, <1>3, <1>4, <1>5

LEMMA EmptyUndo == \A R : UndoSound(Nothing, R)
  BY DEF UndoSound, Nothing

(* Not an execution: no condition.                                           *)
LEMMA OtherKinds ==
    ASSUME NEW R, NEW n, NEW v
    PROVE  /\ n \in Flows!Workflows => ExecutionSound(n, v, R)
           /\ ExecutionSound(Flows!revCounter, v, R)
           /\ \A w, d : ExecutionSound(Flows!eventAdmission(w, d), v, R)
<1>1. n \in Flows!Workflows => n[1] = "workflow"
  BY DEF Flows!Workflows, Flows!Workflow
<1>2. Flows!revCounter[1] = "next" /\ \A w, d : Flows!eventAdmission(w, d)[1] = "admission"
  BY DEF Flows!revCounter, Flows!eventAdmission
<1> QED
  BY <1>1, <1>2 DEF ExecutionSound

LEMMA ExecutionNames ==
    ASSUME NEW w, NEW d
    PROVE  Flows!Execution(w, d)[1] = "execution" /\ Flows!Execution(w, d)[2] = w /\ Flows!Execution(w, d)[3] = d
  BY DEF Flows!Execution

-----------------------------------------------------------------------------
(* How the programs go on.                                                   *)
RequestFollows(P, R) ==
    /\ Head(P)[1] \in {"undo", "save", "register", "putback", "enter", "outcome", "copy", "cancelled"}
    /\ Head(P)[1] \in {"undo", "save", "register", "putback", "copy", "cancelled"} => RequestProgram(Tail(P), R)
    /\ Head(P)[1] \in {"save", "register", "copy"} => RequestProgram(Head(P)[2], R)
    /\ Head(P)[1] = "putback" => Head(P)[3] \in Flows!Workflows
    /\ Head(P)[1] = "outcome" => Head(P)[4] \in ExecutionIds /\ Head(P)[5] = FALSE
    /\ Head(P)[1] = "copy" => DocSound(Head(P)[3], R)

LEMMA RequestListed ==
    ASSUME NEW R
    PROVE  /\ RequestProgram(<<>>, R) /\ RequestProgram(Flows!Revert, R) /\ RequestProgram(Flows!compensateState, R)
           /\ RequestProgram(<<Flows!Save(<<>>)>>, R) /\ RequestProgram(<<Flows!Save(Flows!compensateState)>>, R)
           /\ RequestProgram(<<Flows!Register(Flows!Revert), Flows!Save(Flows!compensateState)>>, R)
           /\ \A n \in Flows!Workflows : \A v :
                 /\ RequestProgram(<<PutBackStep(n, v)>>, R)
                 /\ RequestProgram(<<Flows!Register(<<PutBackStep(n, v)>>), Flows!Save(Flows!compensateState)>>, R)
           /\ \A n, v : RequestProgram(<<Flows!Step("enter", n, None, v)>>, R)
           /\ \A n : \A x \in ExecutionIds :
                 /\ RequestProgram(<<Flows!Save(Flows!compensateState), Flows!Step("outcome", n, x, FALSE)>>, R)
                 /\ RequestProgram(<<Flows!Step("outcome", n, x, FALSE)>>, R)
           /\ \A n, doc : DocSound(doc, R) => RequestProgram(<<<<"copy", <<>>, doc>>, <<"cancelled", <<>>, n>>>>, R)
           /\ \A n : RequestProgram(<<<<"cancelled", <<>>, n>>>>, R)
<1>1. \A P : PlainProgram(P) \/ PatchProgram(P) \/ ExecutionProgram(P) \/ CancelProgram(P, R) => RequestProgram(P, R)
  BY DEF RequestProgram
<1>2. \A P \in {<<>>, Flows!Revert, Flows!compensateState, <<Flows!Save(<<>>)>>, <<Flows!Save(Flows!compensateState)>>,
                <<Flows!Register(Flows!Revert), Flows!Save(Flows!compensateState)>>} : RequestProgram(P, R)
  BY <1>1 DEF PlainProgram
<1>3. \A n \in Flows!Workflows : \A v :
        /\ RequestProgram(<<PutBackStep(n, v)>>, R)
        /\ RequestProgram(<<Flows!Register(<<PutBackStep(n, v)>>), Flows!Save(Flows!compensateState)>>, R)
  BY <1>1 DEF PatchProgram
<1>4. /\ \A n, v : RequestProgram(<<Flows!Step("enter", n, None, v)>>, R)
      /\ \A n : \A x \in ExecutionIds :
            /\ RequestProgram(<<Flows!Save(Flows!compensateState), Flows!Step("outcome", n, x, FALSE)>>, R)
            /\ RequestProgram(<<Flows!Step("outcome", n, x, FALSE)>>, R)
  BY <1>1 DEF ExecutionProgram
<1>5. /\ \A n, doc : DocSound(doc, R) => RequestProgram(<<<<"copy", <<>>, doc>>, <<"cancelled", <<>>, n>>>>, R)
      /\ \A n : RequestProgram(<<<<"cancelled", <<>>, n>>>>, R)
  BY <1>1 DEF CancelProgram
<1> QED
  BY <1>2, <1>3, <1>4, <1>5

LEMMA RequestSteps ==
    ASSUME NEW R, NEW P, RequestProgram(P, R), P # <<>>
    PROVE  RequestFollows(P, R)
<1>1. CASE P = Flows!Revert \/ P = Flows!compensateState
  <2>1. Head(P) = Flows!Undo /\ Tail(P) \in {<<>>, <<Flows!Save(<<>>)>>}
    <3>1. PICK u, s : u = Flows!Undo /\ s = Flows!Save(<<>>)
      OBVIOUS
    <3>2. Flows!Revert = <<u>> /\ Flows!compensateState = <<u, s>>
      BY <3>1 DEF Flows!Revert, Flows!compensateState, Flows!Keep
    <3>3. P = <<u>> \/ P = <<u, s>>
      BY <1>1, <3>2
    <3>4. ASSUME P = <<u>> PROVE Head(P) = u /\ Tail(P) = <<>>
      BY <3>4, Sequences
    <3>5. ASSUME P = <<u, s>> PROVE Head(P) = u /\ Tail(P) = <<s>>
      BY <3>5, Sequences
    <3> QED
      BY <3>1, <3>3, <3>4, <3>5
  <2>2. Head(P)[1] = "undo"
    BY <2>1, StepParts
  <2> QED
    BY <2>1, <2>2, RequestListed DEF RequestFollows
<1>2. ASSUME NEW e \in {<<>>, Flows!compensateState}, P = <<Flows!Save(e)>> PROVE RequestFollows(P, R)
  <2>1. Head(P) = Flows!Save(e) /\ Tail(P) = <<>>
    BY <1>2, Sequences
  <2>2. Head(P)[1] = "save" /\ Head(P)[2] = e
    BY <2>1, StepParts
  <2> QED
    BY <2>1, <2>2, RequestListed DEF RequestFollows
<1>3. ASSUME NEW e, RequestProgram(e, R), P = <<Flows!Register(e), Flows!Save(Flows!compensateState)>>
      PROVE  RequestFollows(P, R)
  <2>1. Head(P) = Flows!Register(e) /\ Tail(P) = <<Flows!Save(Flows!compensateState)>>
    BY <1>3, Sequences
  <2>2. Head(P)[1] = "register" /\ Head(P)[2] = e
    BY <2>1, StepParts
  <2> QED
    BY <1>3, <2>1, <2>2, RequestListed DEF RequestFollows
<1>4. ASSUME NEW n \in Flows!Workflows, NEW v, P = <<PutBackStep(n, v)>> PROVE RequestFollows(P, R)
  <2>1. Head(P) = PutBackStep(n, v) /\ Tail(P) = <<>>
    BY <1>4, Sequences
  <2>2. Head(P)[1] = "putback" /\ Head(P)[3] = n
    BY <2>1, StepParts DEF PutBackStep
  <2> QED
    BY <2>1, <2>2, RequestListed DEF RequestFollows
<1>5. ASSUME NEW n, NEW v, P = <<Flows!Step("enter", n, None, v)>> PROVE RequestFollows(P, R)
  <2>1. Head(P)[1] = "enter"
    BY <1>5, Sequences, StepParts
  <2> QED
    BY <2>1 DEF RequestFollows
<1>6. ASSUME NEW n, NEW x \in ExecutionIds, P = <<Flows!Save(Flows!compensateState), Flows!Step("outcome", n, x, FALSE)>>
      PROVE  RequestFollows(P, R)
  <2>1. Head(P) = Flows!Save(Flows!compensateState) /\ Tail(P) = <<Flows!Step("outcome", n, x, FALSE)>>
    <3>1. PICK s, o : s = Flows!Save(Flows!compensateState) /\ o = Flows!Step("outcome", n, x, FALSE)
      OBVIOUS
    <3>2. P = <<s, o>>
      BY <1>6, <3>1
    <3>3. Head(P) = s /\ Tail(P) = <<o>>
      BY <3>2, Sequences
    <3> QED
      BY <3>1, <3>3
  <2>2. Head(P)[1] = "save" /\ Head(P)[2] = Flows!compensateState
    BY <2>1, StepParts
  <2> QED
    BY <2>1, <2>2, RequestListed DEF RequestFollows
<1>7. ASSUME NEW n, NEW x \in ExecutionIds, P = <<Flows!Step("outcome", n, x, FALSE)>> PROVE RequestFollows(P, R)
  <2>1. PICK no : no = FALSE
    OBVIOUS
  <2>2. Head(P) = Flows!Step("outcome", n, x, no)
    BY <1>7, <2>1, Sequences
  <2>3. Head(P)[1] = "outcome" /\ Head(P)[4] = x /\ Head(P)[5] = no
    BY <2>2, StepParts
  <2> QED
    BY <2>1, <2>3 DEF RequestFollows
<1>8. ASSUME NEW n, NEW doc, DocSound(doc, R), P = <<<<"copy", <<>>, doc>>, <<"cancelled", <<>>, n>>>>
      PROVE  RequestFollows(P, R)
  <2>1. Head(P) = <<"copy", <<>>, doc>> /\ Tail(P) = <<<<"cancelled", <<>>, n>>>>
    BY <1>8, Sequences
  <2>2. Head(P)[1] = "copy" /\ Head(P)[2] = <<>> /\ Head(P)[3] = doc
    BY <2>1
  <2> QED
    BY <1>8, <2>1, <2>2, RequestListed DEF RequestFollows
<1>9. ASSUME NEW n, P = <<<<"cancelled", <<>>, n>>>> PROVE RequestFollows(P, R)
  <2>1. Head(P) = <<"cancelled", <<>>, n>> /\ Tail(P) = <<>>
    BY <1>9, Sequences
  <2>2. Head(P)[1] = "cancelled"
    BY <2>1
  <2> QED
    BY <2>1, <2>2, RequestListed DEF RequestFollows
<1>10. CASE PlainProgram(P)
  BY <1>1, <1>2, <1>3, <1>10, RequestListed DEF PlainProgram
<1>11. CASE PatchProgram(P)
  BY <1>3, <1>4, <1>11, RequestListed DEF PatchProgram
<1>12. CASE ExecutionProgram(P)
  BY <1>5, <1>6, <1>7, <1>12 DEF ExecutionProgram
<1>13. CASE CancelProgram(P, R)
  BY <1>8, <1>9, <1>13 DEF CancelProgram
<1> QED
  BY <1>10, <1>11, <1>12, <1>13 DEF RequestProgram

(* An execution for an event always answers, and positively only after a run. *)
EventFollows(P, w, d, R) ==
    /\ P # <<>>
    /\ Head(P)[1] \in {"admit", "enterEvent", "begin", "undo", "save", "run", "outcome", "answer"}
    /\ Head(P)[1] \in {"undo", "save"} => EventProgram(Tail(P), w, d, R)
    /\ Head(P)[1] = "save" => EventProgram(Head(P)[2], w, d, R)
    /\ Head(P)[1] \in {"admit", "enterEvent", "begin", "run", "outcome", "answer"} => Head(P)[3] = w /\ Head(P)[4] = d
    /\ Head(P)[1] = "run" => Tail(P) = <<OutcomeStep(w, d)>>
    /\ Head(P)[1] = "outcome" => Head(P)[5] = TRUE /\ HasRun(w, d, R)
    /\ Head(P)[1] = "answer" => Tail(P) = <<>> /\ Head(P)[5] \in BOOLEAN /\ (Head(P)[5] => HasRun(w, d, R))

LEMMA EventListed ==
    ASSUME NEW R, NEW w, NEW d
    PROVE  /\ \A v : \A P \in BeforeRun(w, d, v) : EventProgram(P, w, d, R)
           /\ \A P \in Refusing(w, d) : EventProgram(P, w, d, R)
           /\ HasRun(w, d, R) => \A P \in AfterRun(w, d) : EventProgram(P, w, d, R)
           /\ EventProgram(<<Flows!Step("admit", w, d, None)>>, w, d, R)
           /\ EventProgram(<<AnswerStep(w, d, FALSE)>>, w, d, R)
           /\ EventProgram(TakenBack(w, d), w, d, R) /\ EventProgram(Refused(w, d), w, d, R)
<1>1. /\ \A v : \A P \in BeforeRun(w, d, v) : EventProgram(P, w, d, R)
      /\ \A P \in Refusing(w, d) : EventProgram(P, w, d, R)
      /\ HasRun(w, d, R) => \A P \in AfterRun(w, d) : EventProgram(P, w, d, R)
  BY DEF EventProgram
<1>2. /\ <<Flows!Step("admit", w, d, None)>> \in BeforeRun(w, d, None)
      /\ {<<AnswerStep(w, d, FALSE)>>, TakenBack(w, d), Refused(w, d)} \subseteq Refusing(w, d)
  BY DEF BeforeRun, Refusing
<1> QED
  BY <1>1, <1>2

LEMMA EventSteps ==
    ASSUME NEW R, NEW P, NEW w, NEW d, EventProgram(P, w, d, R)
    PROVE  EventFollows(P, w, d, R)
<1>1. ASSUME NEW v, NEW s \in {"admit", "enterEvent", "begin"}, P = <<Flows!Step(s, w, d, v)>>
      PROVE  EventFollows(P, w, d, R)
  <2>1. Head(P) = Flows!Step(s, w, d, v) /\ P # <<>>
    BY <1>1, Sequences
  <2>2. Head(P)[1] = s /\ Head(P)[3] = w /\ Head(P)[4] = d
    BY <2>1, StepParts
  <2> QED
    BY <2>1, <2>2 DEF EventFollows
<1>2. ASSUME NEW e, NEW rest, P # <<>>, Head(P) = Flows!Save(e), Tail(P) = rest,
             EventProgram(e, w, d, R), EventProgram(rest, w, d, R)
      PROVE  EventFollows(P, w, d, R)
  <2>1. Head(P)[1] = "save" /\ Head(P)[2] = e
    BY <1>2, StepParts
  <2> QED
    BY <1>2, <2>1 DEF EventFollows
<1>3. ASSUME NEW v, P = <<Flows!Save(TakenBack(w, d)), Flows!Step("begin", w, d, v)>>
      PROVE  EventFollows(P, w, d, R)
  <2>1. P # <<>> /\ Head(P) = Flows!Save(TakenBack(w, d)) /\ Tail(P) = <<Flows!Step("begin", w, d, v)>>
    BY <1>3, Sequences
  <2>2. <<Flows!Step("begin", w, d, v)>> \in BeforeRun(w, d, v)
    BY DEF BeforeRun
  <2> QED
    BY <1>2, <2>1, <2>2, EventListed
<1>4. ASSUME NEW v, P = <<Flows!Save(Refused(w, d)), Flows!Step("run", w, d, v), OutcomeStep(w, d)>>
      PROVE  EventFollows(P, w, d, R)
  <2>1. P # <<>> /\ Head(P) = Flows!Save(Refused(w, d)) /\ Tail(P) = <<Flows!Step("run", w, d, v), OutcomeStep(w, d)>>
    BY <1>4, Sequences
  <2>2. <<Flows!Step("run", w, d, v), OutcomeStep(w, d)>> \in BeforeRun(w, d, v)
    BY DEF BeforeRun
  <2> QED
    BY <1>2, <2>1, <2>2, EventListed
<1>5. ASSUME NEW v, P = <<Flows!Step("run", w, d, v), OutcomeStep(w, d)>> PROVE EventFollows(P, w, d, R)
  <2>1. P # <<>> /\ Head(P) = Flows!Step("run", w, d, v) /\ Tail(P) = <<OutcomeStep(w, d)>>
    BY <1>5, Sequences
  <2>2. Head(P)[1] = "run" /\ Head(P)[3] = w /\ Head(P)[4] = d
    BY <2>1, StepParts
  <2> QED
    BY <2>1, <2>2 DEF EventFollows
<1>6. CASE P = TakenBack(w, d)
  <2>1. P # <<>> /\ Head(P) = Flows!Undo /\ Tail(P) = Refused(w, d)
    <3>1. PICK u, s, a : u = Flows!Undo /\ s = Flows!Save(<<AnswerStep(w, d, FALSE)>>) /\ a = AnswerStep(w, d, FALSE)
      OBVIOUS
    <3>2. TakenBack(w, d) = <<u, s, a>> /\ Refused(w, d) = <<s, a>>
      BY <3>1 DEF TakenBack, Refused
    <3>3. P = <<u, s, a>>
      BY <1>6, <3>2
    <3>4. P # <<>> /\ Head(P) = u /\ Tail(P) = <<s, a>>
      BY <3>3, Sequences
    <3> QED
      BY <3>1, <3>2, <3>4
  <2>2. Head(P)[1] = "undo"
    BY <2>1, StepParts
  <2> QED
    BY <2>1, <2>2, EventListed DEF EventFollows
<1>7. CASE P = Refused(w, d)
  <2>1. P # <<>> /\ Head(P) = Flows!Save(<<AnswerStep(w, d, FALSE)>>) /\ Tail(P) = <<AnswerStep(w, d, FALSE)>>
    <3>1. PICK s, a : s = Flows!Save(<<AnswerStep(w, d, FALSE)>>) /\ a = AnswerStep(w, d, FALSE) /\ P = <<s, a>>
      BY <1>7 DEF Refused
    <3>2. P # <<>> /\ Head(P) = s /\ Tail(P) = <<a>>
      BY <3>1, Sequences
    <3> QED
      BY <3>1, <3>2
  <2> QED
    BY <1>2, <2>1, EventListed
<1>8. ASSUME NEW ok \in BOOLEAN, ok => HasRun(w, d, R), P = <<AnswerStep(w, d, ok)>> PROVE EventFollows(P, w, d, R)
  <2>1. P # <<>> /\ Head(P) = Flows!Step("answer", w, d, ok) /\ Tail(P) = <<>>
    BY <1>8, Sequences DEF AnswerStep
  <2>2. Head(P)[1] = "answer" /\ Head(P)[3] = w /\ Head(P)[4] = d /\ Head(P)[5] = ok
    BY <2>1, StepParts
  <2> QED
    BY <1>8, <2>1, <2>2 DEF EventFollows
<1>9. ASSUME HasRun(w, d, R), P = <<OutcomeStep(w, d)>> PROVE EventFollows(P, w, d, R)
  <2>1. PICK yes : yes = TRUE
    OBVIOUS
  <2>2. P # <<>> /\ Head(P) = Flows!Step("outcome", w, d, yes)
    BY <1>9, <2>1, Sequences DEF OutcomeStep
  <2>3. Head(P)[1] = "outcome" /\ Head(P)[3] = w /\ Head(P)[4] = d /\ Head(P)[5] = yes
    BY <2>2, StepParts
  <2> QED
    BY <1>9, <2>1, <2>2, <2>3 DEF EventFollows
<1>10. ASSUME HasRun(w, d, R), P = <<Flows!Save(<<AnswerStep(w, d, FALSE)>>), AnswerStep(w, d, TRUE)>>
       PROVE  EventFollows(P, w, d, R)
  <2>1. P # <<>> /\ Head(P) = Flows!Save(<<AnswerStep(w, d, FALSE)>>) /\ Tail(P) = <<AnswerStep(w, d, TRUE)>>
    <3>1. PICK s, a : s = Flows!Save(<<AnswerStep(w, d, FALSE)>>) /\ a = AnswerStep(w, d, TRUE) /\ P = <<s, a>>
      BY <1>10
    <3>2. P # <<>> /\ Head(P) = s /\ Tail(P) = <<a>>
      BY <3>1, Sequences
    <3> QED
      BY <3>1, <3>2
  <2>2. <<AnswerStep(w, d, TRUE)>> \in AfterRun(w, d)
    BY DEF AfterRun
  <2> QED
    BY <1>2, <1>10, <2>1, <2>2, EventListed
<1>11. ASSUME NEW v, P \in BeforeRun(w, d, v) PROVE EventFollows(P, w, d, R)
  BY <1>1, <1>3, <1>4, <1>5, <1>11 DEF BeforeRun
<1>12. CASE P \in Refusing(w, d)
  BY <1>6, <1>7, <1>8, <1>12 DEF Refusing
<1>13. ASSUME HasRun(w, d, R), P \in AfterRun(w, d) PROVE EventFollows(P, w, d, R)
  BY <1>8, <1>9, <1>10, <1>13 DEF AfterRun
<1> QED
  BY <1>11, <1>12, <1>13 DEF EventProgram

-----------------------------------------------------------------------------
(* A step of a handler of Workflows keeps its maps, its entry and what it    *)
(* has left to do sound.                                                     *)
GoesOn(h, todo) ==
    /\ h # Worker => RequestProgram(todo, runs')
    /\ h = Worker => \A w, d : d \in DeliveryIds /\ EventProgram(flowsCall[Worker].todo, w, d, runs)
                                  => EventProgram(todo, w, d, runs')
FlowMoves(h) ==
    /\ runs \subseteq runs' /\ DocSound(flows', runs') /\ DocSound(flowsDisk', runs')
    /\ \E todo, undo : Goes(flowsCall, flowsCall', h, todo, undo) /\ UndoSound(undo, runs') /\ GoesOn(h, todo)

LEMMA Whose ==
    ASSUME FlowsSound, WorkerSound, NEW h \in Handlers, flowsCall[h].todo # <<>>
    PROVE  \/ h # Worker /\ RequestFollows(flowsCall[h].todo, runs)
           \/ /\ h = Worker
              /\ \E w, d : d \in DeliveryIds /\ EventFollows(flowsCall[h].todo, w, d, runs)
              /\ \A w, d : EventProgram(flowsCall[h].todo, w, d, runs) => EventFollows(flowsCall[h].todo, w, d, runs)
<1>1. CASE h # Worker
  BY <1>1, RequestSteps DEF FlowsSound
<1>2. CASE h = Worker
  <2>1. PICK d, w : d \in DeliveryIds /\ EventProgram(flowsCall[h].todo, w, d, runs)
    BY <1>2 DEF WorkerSound, Resting, Executing
  <2> QED
    BY <1>2, <2>1, EventSteps
<1> QED
  BY <1>1, <1>2

LEMMA FlowFollow ==
    ASSUME FlowsSound, NEW h \in Handlers, NEW todo, Flows!Follow(h, todo), runs \subseteq runs'
    PROVE  \E undo : Goes(flowsCall, flowsCall', h, todo, undo) /\ UndoSound(undo, runs')
<1>1. Calls(flowsCall) /\ UndoSound(flowsCall[h].undo, runs)
  BY DEF FlowsSound
<1>2. flowsCall' = [flowsCall EXCEPT ![h] = IF todo = <<>> THEN Idle ELSE [@ EXCEPT !.todo = todo]]
  BY DEF Flows!Follow, Flows!Idle, Idle, Flows!Nothing, Nothing
<1>3. PICK undo \in {flowsCall[h].undo, Nothing} : Goes(flowsCall, flowsCall', h, todo, undo)
  BY <1>1, <1>2, CallFollows
<1>4. UndoSound(undo, runs')
  BY <1>1, EmptyUndo, MoreRuns
<1> QED
  BY <1>3, <1>4

LEMMA FlowSaveMoves ==
    ASSUME FlowsSound, WorkerSound, NEW h \in Handlers, Flows!persistState(h)
    PROVE  FlowMoves(h)
<1>1. flowsCall[h].todo # <<>> /\ Head(flowsCall[h].todo)[1] = "save"
  BY DEF Flows!persistState, Flows!SaveOk, Flows!SaveFails, Flows!At
<1>2. flows' = flows /\ flowsDisk' \in {flows, flowsDisk} /\ runs' = runs
  BY DEF Flows!persistState, Flows!SaveOk, Flows!SaveFails
<1>3. PICK todo \in {Tail(flowsCall[h].todo), Head(flowsCall[h].todo)[2]} : Flows!Follow(h, todo)
  BY DEF Flows!persistState, Flows!SaveOk, Flows!SaveFails, Flows!Proceed, Flows!Fail
<1>4. GoesOn(h, todo)
  BY <1>1, <1>2, Whose DEF GoesOn, RequestFollows, EventFollows
<1>5. DocSound(flows', runs') /\ DocSound(flowsDisk', runs')
  BY <1>2 DEF FlowsSound
<1> QED
  BY <1>2, <1>3, <1>4, <1>5, FlowFollow DEF FlowMoves

LEMMA FlowRollbackMoves ==
    ASSUME FlowsSound, WorkerSound, NEW h \in Handlers, Flows!Rollback(h)
    PROVE  FlowMoves(h)
<1>1. flowsCall[h].todo # <<>> /\ Head(flowsCall[h].todo)[1] = "undo"
  BY DEF Flows!Rollback, Flows!At
<1>2. flows' = Flows!Restore(flows, flowsCall[h].undo) /\ flowsDisk' = flowsDisk /\ runs' = runs
  BY DEF Flows!Rollback
<1>3. Flows!Follow(h, Tail(flowsCall[h].todo))
  BY DEF Flows!Rollback, Flows!Proceed
<1>4. GoesOn(h, Tail(flowsCall[h].todo))
  BY <1>1, <1>2, Whose DEF GoesOn, RequestFollows, EventFollows
<1>5. DocSound(flows', runs') /\ DocSound(flowsDisk', runs')
  BY <1>2, DocChanges DEF FlowsSound
<1> QED
  BY <1>2, <1>3, <1>4, <1>5, FlowFollow DEF FlowMoves

LEMMA FlowOperationMoves ==
    ASSUME FlowsSound, WorkerSound, NEW h \in Handlers, Flows!OperationWrite(h)
    PROVE  FlowMoves(h)
<1>1. flowsCall[h].todo # <<>> /\ Head(flowsCall[h].todo)[1] \in {"register", "finalize"}
  BY DEF Flows!OperationWrite, Flows!At
<1>2. flows' = flows /\ flowsDisk' = flowsDisk /\ runs' = runs
  BY DEF Flows!OperationWrite
<1>3. PICK todo \in {Tail(flowsCall[h].todo), Head(flowsCall[h].todo)[2]} : Flows!Follow(h, todo)
  BY DEF Flows!OperationWrite, Flows!Proceed, Flows!Fail
<1>4. GoesOn(h, todo)
  BY <1>1, <1>2, Whose DEF GoesOn, RequestFollows, EventFollows
<1> QED
  BY <1>2, <1>3, <1>4, FlowFollow DEF FlowMoves, FlowsSound

(* The steps of requests only.                                               *)
LEMMA PutBackMoves ==
    ASSUME FlowsSound, WorkerSound, NEW h \in Handlers, Flows!putBack(h)
    PROVE  FlowMoves(h)
<1>1. flowsCall[h].todo # <<>> /\ Head(flowsCall[h].todo)[1] = "putback"
  BY DEF Flows!putBack, Flows!At
<1>2. h # Worker /\ RequestFollows(flowsCall[h].todo, runs)
  BY <1>1, Whose DEF EventFollows
<1>3. flows' = Flows!Put(flows, Flows!On(h), Flows!Wf(h)) /\ flowsDisk' = flowsDisk /\ runs' = runs
  BY DEF Flows!putBack
<1>4. Flows!On(h) \in Flows!Workflows
  BY <1>1, <1>2 DEF RequestFollows, Flows!On
<1>5. DocSound(flows', runs') /\ DocSound(flowsDisk', runs')
  BY <1>3, <1>4, DocChanges, OtherKinds DEF FlowsSound
<1>6. Flows!Follow(h, Tail(flowsCall[h].todo)) /\ GoesOn(h, Tail(flowsCall[h].todo))
  BY <1>1, <1>2, <1>3 DEF GoesOn, RequestFollows, Flows!putBack, Flows!Proceed
<1> QED
  BY <1>3, <1>5, <1>6, FlowFollow DEF FlowMoves

LEMMA SaveCopyMoves ==
    ASSUME FlowsSound, WorkerSound, NEW h \in Handlers, Flows!saveCopy(h)
    PROVE  FlowMoves(h)
<1>1. flowsCall[h].todo # <<>> /\ Head(flowsCall[h].todo)[1] = "copy"
  BY DEF Flows!saveCopy, Flows!At
<1>2. h # Worker /\ RequestFollows(flowsCall[h].todo, runs)
  BY <1>1, Whose DEF EventFollows
<1>3. flows' = flows /\ flowsDisk' \in {flowsDisk, Head(flowsCall[h].todo)[3]} /\ runs' = runs
  BY DEF Flows!saveCopy
<1>4. PICK todo \in {Tail(flowsCall[h].todo), Head(flowsCall[h].todo)[2]} : Flows!Follow(h, todo)
  BY DEF Flows!saveCopy, Flows!Proceed, Flows!Fail
<1>5. GoesOn(h, todo)
  BY <1>1, <1>2, <1>3 DEF GoesOn, RequestFollows
<1>6. DocSound(flows', runs') /\ DocSound(flowsDisk', runs')
  BY <1>1, <1>2, <1>3 DEF FlowsSound, RequestFollows
<1> QED
  BY <1>3, <1>4, <1>5, <1>6, FlowFollow DEF FlowMoves

(* An execution that is entered is ACTIVE, one that a request ends is not    *)
(* asked for by an event, or CANCELLED.                                      *)
LEMMA ExecutionValues ==
    ASSUME NEW R, NEW n, NEW v, ExecutionSound(n, v, R)
    PROVE  /\ \A wf : ExecutionSound(n, Flows!Begun(wf), R)
           /\ \A s : s # "SUCCEEDED" \/ n[3] \notin DeliveryIds \/ HasRun(n[2], n[3], R)
                        => ExecutionSound(n, [v EXCEPT !.state = s], R)
<1>1. \A wf : ExecutionSound(n, Flows!Begun(wf), R)
  BY DEF ExecutionSound, Flows!Begun
<1>2. ASSUME NEW s, s # "SUCCEEDED" \/ n[3] \notin DeliveryIds \/ HasRun(n[2], n[3], R), n[1] = "execution"
      PROVE  ExecutionSound(n, [v EXCEPT !.state = s], R)
  <2>1. v = [state |-> v.state, revision |-> v.revision]
    BY <1>2 DEF ExecutionSound
  <2>2. \A a, b : [[state |-> a, revision |-> b] EXCEPT !.state = s] = [state |-> s, revision |-> b]
    OBVIOUS
  <2>3. [v EXCEPT !.state = s] = [state |-> s, revision |-> v.revision]
    BY <2>1, <2>2
  <2>4. PICK u : u = [state |-> s, revision |-> v.revision]
    OBVIOUS
  <2>5. u = [state |-> u.state, revision |-> u.revision] /\ u.state = s
    BY <2>4
  <2> QED
    BY <1>2, <2>3, <2>4, <2>5 DEF ExecutionSound
<1> QED
  BY <1>1, <1>2 DEF ExecutionSound

LEMMA LiveSound ==
    ASSUME FlowsSound, NEW n, n \in DOMAIN flows
    PROVE  ExecutionSound(n, flows[n], runs)
  BY DEF FlowsSound, DocSound

LEMMA EnterMoves ==
    ASSUME FlowsSound, WorkerSound, NEW h \in Handlers, Flows!enterExecution(h)
    PROVE  FlowMoves(h)
<1>1. flowsCall[h].todo # <<>> /\ Head(flowsCall[h].todo)[1] = "enter"
  BY DEF Flows!enterExecution, Flows!At
<1>2. h # Worker /\ RequestFollows(flowsCall[h].todo, runs)
  BY <1>1, Whose DEF EventFollows
<1>3. PICK x \in ExecutionIds :
        LET n == Flows!Execution(Flows!On(h), x)
        IN  /\ flows' = Flows!Put(flows, n, Flows!Begun(Flows!Wf(h)))
            /\ flowsCall' = [flowsCall EXCEPT
                  ![h].undo = [m \in {n} |-> None],
                  ![h].todo = <<Flows!Save(Flows!compensateState), Flows!Step("outcome", Flows!On(h), x, FALSE)>>]
            /\ flowsDisk' = flowsDisk /\ runs' = runs
  BY DEF Flows!enterExecution
<1> DEFINE n == Flows!Execution(Flows!On(h), x)
           todo == <<Flows!Save(Flows!compensateState), Flows!Step("outcome", Flows!On(h), x, FALSE)>>
           undo == [m \in {n} |-> None]
<1>4. Goes(flowsCall, flowsCall', h, todo, undo)
  BY <1>3, CallParts DEF FlowsSound
<1>5. UndoSound(undo, runs') /\ RequestProgram(todo, runs')
  BY RequestListed DEF UndoSound
<1>6. ExecutionSound(n, Flows!Begun(Flows!Wf(h)), runs)
  BY DEF ExecutionSound, Flows!Begun
<1>7. DocSound(flows', runs') /\ DocSound(flowsDisk', runs')
  BY <1>3, <1>6, DocChanges DEF FlowsSound
<1> QED
  BY <1>2, <1>3, <1>4, <1>5, <1>7 DEF FlowMoves, GoesOn

LEMMA CancelledMoves ==
    ASSUME FlowsSound, WorkerSound, NEW h \in Handlers, Flows!publishCancelled(h)
    PROVE  FlowMoves(h)
<1>1. flowsCall[h].todo # <<>> /\ Head(flowsCall[h].todo)[1] = "cancelled"
  BY DEF Flows!publishCancelled, Flows!At
<1>2. h # Worker /\ RequestFollows(flowsCall[h].todo, runs)
  BY <1>1, Whose DEF EventFollows
<1>3. flowsDisk' = flowsDisk /\ runs' = runs
  BY DEF Flows!publishCancelled
<1>4. PICK todo \in {Tail(flowsCall[h].todo), <<Flows!Save(<<>>)>>} : Flows!Follow(h, todo)
  BY DEF Flows!publishCancelled, Flows!Proceed, Flows!Keep
<1>5. GoesOn(h, todo)
  BY <1>1, <1>2, <1>3, RequestListed DEF GoesOn, RequestFollows
<1>6. DocSound(flows', runs')
  <2> DEFINE n == Flows!On(h)
             next == Flows!Put(Flows!Drop(flows, {Flows!eventAdmission(n[2], n[3])}), n, [flows[n] EXCEPT !.state = "CANCELLED"])
  <2>1. flows' = flows \/ (n \in DOMAIN flows /\ flows' = next)
    BY DEF Flows!publishCancelled, Flows!Active, Flows!Live
  <2>2. ASSUME n \in DOMAIN flows PROVE DocSound(next, runs)
    <3>1. ExecutionSound(n, [flows[n] EXCEPT !.state = "CANCELLED"], runs)
      BY <2>2, LiveSound, ExecutionValues
    <3> QED
      BY <3>1, DocChanges DEF FlowsSound
  <2> QED
    BY <1>3, <2>1, <2>2 DEF FlowsSound
<1> QED
  BY <1>3, <1>4, <1>5, <1>6, FlowFollow DEF FlowMoves, FlowsSound

(* The steps of an execution for an event: the worker's.                     *)
LEMMA EventStepWhose ==
    ASSUME FlowsSound, WorkerSound, NEW h \in Handlers, flowsCall[h].todo # <<>>,
           Head(flowsCall[h].todo)[1] \in {"admit", "enterEvent", "begin", "run"}
    PROVE  /\ h = Worker
           /\ Flows!Id(h) \in DeliveryIds
           /\ \A w, d : EventProgram(flowsCall[h].todo, w, d, runs) =>
                 EventFollows(flowsCall[h].todo, w, d, runs) /\ w = Flows!On(h) /\ d = Flows!Id(h)
<1>1. h = Worker
  BY Whose DEF RequestFollows
<1>2. \A w, d : EventFollows(flowsCall[h].todo, w, d, runs) => w = Flows!On(h) /\ d = Flows!Id(h)
  BY DEF EventFollows, Flows!On, Flows!Id
<1> QED
  BY <1>1, <1>2, Whose

LEMMA FindMoves ==
    ASSUME FlowsSound, WorkerSound, NEW h \in Handlers, Flows!findExecution(h)
    PROVE  FlowMoves(h)
<1> DEFINE w == Flows!On(h)
           d == Flows!Id(h)
           n == Flows!Execution(w, d)
<1>1. flowsCall[h].todo # <<>> /\ Head(flowsCall[h].todo)[1] = "admit"
  BY DEF Flows!findExecution, Flows!At
<1>2. UNCHANGED <<flows, flowsDisk, runs>>
  BY DEF Flows!findExecution
<1>3. PICK todo : /\ Flows!Follow(h, todo)
                  /\ \/ todo = <<AnswerStep(w, d, FALSE)>>
                     \/ \E v : todo \in BeforeRun(w, d, v)
                     \/ n \in DOMAIN flows /\ todo = <<AnswerStep(w, d, flows[n].state = "SUCCEEDED")>>
  <2>1. \A v : <<Flows!Step("enterEvent", w, d, v)>> \in BeforeRun(w, d, v)
               /\ <<Flows!Step("begin", w, d, v)>> \in BeforeRun(w, d, v)
    BY DEF BeforeRun
  <2>2. \A ok : Flows!Answer(w, d, ok) = <<AnswerStep(w, d, ok)>>
    BY DEF Flows!Answer, AnswerStep
  <2>3. PICK todo : /\ Flows!Follow(h, todo)
                    /\ todo = IF w \notin DOMAIN flows THEN Flows!Answer(w, d, FALSE)
                              ELSE IF n \notin DOMAIN flows THEN <<Flows!Step("enterEvent", w, d, flows[w])>>
                              ELSE IF Flows!Active(n) /\ Flows!Admitted(w, d) /\ flows[n].revision = flows[w].revision
                                   THEN <<Flows!Step("begin", w, d, flows[w])>>
                              ELSE Flows!Answer(w, d, flows[n].state = "SUCCEEDED")
    BY DEF Flows!findExecution, Flows!Live
  <2> QED
    BY <2>1, <2>2, <2>3
<1>4. EventProgram(todo, w, d, runs)
  <2>1. CASE todo = <<AnswerStep(w, d, FALSE)>>
    BY <2>1, EventListed
  <2>2. ASSUME NEW v, todo \in BeforeRun(w, d, v) PROVE EventProgram(todo, w, d, runs)
    BY <2>2, EventListed
  <2>3. CASE n \in DOMAIN flows /\ todo = <<AnswerStep(w, d, flows[n].state = "SUCCEEDED")>>
    <3>1. CASE flows[n].state = "SUCCEEDED"
      <4>1. HasRun(w, d, runs)
        BY <1>1, <2>3, <3>1, LiveSound, ExecutionNames, EventStepWhose DEF ExecutionSound
      <4>2. todo = <<AnswerStep(w, d, TRUE)>>
        BY <2>3, <3>1
      <4> QED
        BY <4>1, <4>2, EventListed DEF AfterRun
    <3>2. CASE flows[n].state # "SUCCEEDED"
      <4>1. todo = <<AnswerStep(w, d, FALSE)>>
        BY <2>3, <3>2
      <4> QED
        BY <4>1, EventListed
    <3> QED
      BY <3>1, <3>2
  <2> QED
    BY <1>3, <2>1, <2>2, <2>3
<1>5. GoesOn(h, todo)
  BY <1>1, <1>2, <1>4, EventStepWhose DEF GoesOn
<1> QED
  BY <1>2, <1>3, <1>5, FlowFollow DEF FlowMoves, FlowsSound

LEMMA AdmitMoves ==
    ASSUME FlowsSound, WorkerSound, NEW h \in Handlers, Flows!admitExecution(h)
    PROVE  FlowMoves(h)
<1> DEFINE w == Flows!On(h)
           d == Flows!Id(h)
           S == {Flows!Execution(w, d), Flows!eventAdmission(w, d)}
           undo == [m \in S |-> None]
           todo == <<Flows!Save(TakenBack(w, d)), Flows!Step("begin", w, d, Flows!Wf(h))>>
           next == Flows!Put(Flows!Put(flows, Flows!Execution(w, d), Flows!Begun(Flows!Wf(h))),
                             Flows!eventAdmission(w, d), "ADMITTED")
<1>1. flowsCall[h].todo # <<>> /\ Head(flowsCall[h].todo)[1] = "enterEvent"
  BY DEF Flows!admitExecution, Flows!At
<1>2. flowsDisk' = flowsDisk /\ runs' = runs /\ flows' = next
  BY DEF Flows!admitExecution
<1>3. flowsCall' = [flowsCall EXCEPT ![h].undo = undo, ![h].todo = todo]
  <2>1. <<Flows!Undo, Flows!Save(Flows!Answer(w, d, FALSE))>> \o Flows!Answer(w, d, FALSE) = TakenBack(w, d)
    <3>1. PICK u, s, a : u = Flows!Undo /\ s = Flows!Save(<<AnswerStep(w, d, FALSE)>>) /\ a = AnswerStep(w, d, FALSE)
      OBVIOUS
    <3>2. Flows!Answer(w, d, FALSE) = <<a>> /\ Flows!Save(Flows!Answer(w, d, FALSE)) = s /\ TakenBack(w, d) = <<u, s, a>>
      BY <3>1 DEF Flows!Answer, AnswerStep, TakenBack
    <3> QED
      BY <3>1, <3>2, Joined
  <2> QED
    BY <2>1 DEF Flows!admitExecution
<1>4. Goes(flowsCall, flowsCall', h, todo, undo)
  BY <1>3, CallParts DEF FlowsSound
<1>5. todo \in BeforeRun(w, d, Flows!Wf(h))
  BY DEF BeforeRun
<1>6. GoesOn(h, todo)
  BY <1>1, <1>2, <1>5, EventStepWhose, EventListed DEF GoesOn
<1>7. DocSound(next, runs)
  <2>1. ExecutionSound(Flows!Execution(w, d), Flows!Begun(Flows!Wf(h)), runs)
    BY DEF ExecutionSound, Flows!Begun
  <2> QED
    BY <2>1, DocChanges, OtherKinds DEF FlowsSound
<1>8. UndoSound(undo, runs')
  BY DEF UndoSound
<1> QED
  BY <1>2, <1>4, <1>6, <1>7, <1>8 DEF FlowMoves, FlowsSound

LEMMA BeginMoves ==
    ASSUME FlowsSound, WorkerSound, NEW h \in Handlers, Flows!beginExecution(h)
    PROVE  FlowMoves(h)
<1> DEFINE w == Flows!On(h)
           d == Flows!Id(h)
           admission == Flows!eventAdmission(w, d)
           next == Flows!Put(flows, admission, "RUNNING")
           undo == [m \in {admission} |-> Flows!Value(next, m)]
           todo == <<Flows!Save(Refused(w, d)), Flows!Step("run", w, d, Flows!Wf(h)), OutcomeStep(w, d)>>
<1>1. flowsCall[h].todo # <<>> /\ Head(flowsCall[h].todo)[1] = "begin"
  BY DEF Flows!beginExecution, Flows!At
<1>2. flowsDisk' = flowsDisk /\ runs' = runs
  BY DEF Flows!beginExecution
<1>3. \/ Flows!Follow(h, <<AnswerStep(w, d, FALSE)>>) /\ flows' = flows
      \/ flows' = next /\ Goes(flowsCall, flowsCall', h, todo, undo)
  <2>1. <<Flows!Save(Flows!Answer(w, d, FALSE))>> \o Flows!Answer(w, d, FALSE) = Refused(w, d)
    <3>1. PICK s, a : s = Flows!Save(<<AnswerStep(w, d, FALSE)>>) /\ a = AnswerStep(w, d, FALSE)
      OBVIOUS
    <3>2. Flows!Answer(w, d, FALSE) = <<a>> /\ Flows!Save(Flows!Answer(w, d, FALSE)) = s /\ Refused(w, d) = <<s, a>>
      BY <3>1 DEF Flows!Answer, AnswerStep, Refused
    <3> QED
      BY <3>2, Joined
  <2>2. \/ Flows!Follow(h, Flows!Answer(w, d, FALSE)) /\ flows' = flows
        \/ Flows!Record(h, next, {admission},
              <<Flows!Save(<<Flows!Save(Flows!Answer(w, d, FALSE))>> \o Flows!Answer(w, d, FALSE)),
                Flows!Step("run", w, d, Flows!Wf(h)), Flows!Step("outcome", w, d, TRUE)>>)
    BY DEF Flows!beginExecution
  <2>3. Flows!Answer(w, d, FALSE) = <<AnswerStep(w, d, FALSE)>>
    BY DEF Flows!Answer, AnswerStep
  <2>4. CASE Flows!Record(h, next, {admission}, todo)
    <3>1. todo # <<>>
      BY Sequences
    <3>2. flows' = next /\ flowsCall' = [flowsCall EXCEPT ![h] = IF todo = <<>> THEN Idle
                                                         ELSE [@ EXCEPT !.todo = todo, !.undo = undo]]
      BY <2>4 DEF Flows!Record, Flows!Idle, Idle, Flows!Nothing, Nothing
    <3> QED
      BY <3>1, <3>2, CallRecords DEF FlowsSound
  <2> QED
    BY <2>1, <2>2, <2>3, <2>4 DEF OutcomeStep
<1>4. CASE Flows!Follow(h, <<AnswerStep(w, d, FALSE)>>) /\ flows' = flows
  <2>1. GoesOn(h, <<AnswerStep(w, d, FALSE)>>)
    BY <1>1, <1>2, EventStepWhose, EventListed DEF GoesOn
  <2> QED
    BY <1>2, <1>4, <2>1, FlowFollow DEF FlowMoves, FlowsSound
<1>5. CASE flows' = next /\ Goes(flowsCall, flowsCall', h, todo, undo)
  <2>1. todo \in BeforeRun(w, d, Flows!Wf(h))
    BY DEF BeforeRun
  <2>2. GoesOn(h, todo)
    BY <1>1, <1>2, <2>1, EventStepWhose, EventListed DEF GoesOn
  <2>3. DocSound(next, runs)
    BY DocChanges, OtherKinds DEF FlowsSound
  <2>4. UndoSound(undo, runs)
    BY <2>3, DocChanges
  <2> QED
    BY <1>2, <1>5, <2>2, <2>3, <2>4 DEF FlowMoves, FlowsSound
<1> QED
  BY <1>3, <1>4, <1>5

LEMMA RunMoves ==
    ASSUME FlowsSound, WorkerSound, NEW h \in Handlers, Flows!runWorkflow(h)
    PROVE  FlowMoves(h)
<1> DEFINE w == Flows!On(h)
           d == Flows!Id(h)
<1>1. flowsCall[h].todo # <<>> /\ Head(flowsCall[h].todo)[1] = "run"
  BY DEF Flows!runWorkflow, Flows!At
<1>2. flows' = flows /\ flowsDisk' = flowsDisk /\ runs' = runs \union {Flows!Ran(w, d, Flows!Wf(h))}
  BY DEF Flows!runWorkflow
<1>3. HasRun(w, d, runs') /\ runs \subseteq runs'
  <2>1. Flows!Ran(w, d, Flows!Wf(h))[2] = w /\ Flows!Ran(w, d, Flows!Wf(h))[3] = d
    BY DEF Flows!Ran
  <2> QED
    BY <1>2, <2>1 DEF HasRun
<1>4. EventProgram(<<OutcomeStep(w, d)>>, w, d, runs')
  BY <1>3, EventListed DEF AfterRun
<1>5. Flows!Follow(h, Tail(flowsCall[h].todo)) /\ GoesOn(h, Tail(flowsCall[h].todo))
  <2>1. Flows!Follow(h, Tail(flowsCall[h].todo))
    BY DEF Flows!runWorkflow, Flows!Proceed
  <2>2. h = Worker
    BY <1>1, EventStepWhose
  <2>3. ASSUME NEW x, NEW y, EventProgram(flowsCall[h].todo, x, y, runs)
        PROVE  EventProgram(Tail(flowsCall[h].todo), x, y, runs')
    <3>1. EventFollows(flowsCall[h].todo, x, y, runs) /\ x = w /\ y = d
      BY <1>1, <2>3, EventStepWhose
    <3>2. Tail(flowsCall[h].todo) = <<OutcomeStep(w, d)>>
      BY <1>1, <3>1 DEF EventFollows
    <3> QED
      BY <1>4, <3>1, <3>2
  <2> QED
    BY <2>1, <2>2, <2>3 DEF GoesOn
<1>6. DocSound(flows', runs') /\ DocSound(flowsDisk', runs')
  BY <1>2, <1>3, MoreRuns DEF FlowsSound
<1> QED
  BY <1>3, <1>5, <1>6, FlowFollow DEF FlowMoves

LEMMA OutcomeMoves ==
    ASSUME FlowsSound, WorkerSound, NEW h \in Handlers, Flows!executeWorkflow(h)
    PROVE  FlowMoves(h)
<1> DEFINE w == Flows!On(h)
           d == Flows!Id(h)
           n == Flows!Execution(w, d)
           S == {n, Flows!eventAdmission(w, d)}
           unadmitted == Flows!Drop(flows, {Flows!eventAdmission(w, d)})
           ended(result) == Flows!Put(unadmitted, n, [flows[n] EXCEPT !.state = result])
           answer(ok) == IF Head(flowsCall[h].todo)[5] THEN Flows!Answer(w, d, ok) ELSE <<>>
           rest(ok) == <<Flows!Save(answer(FALSE))>> \o answer(ok)
<1>1. flowsCall[h].todo # <<>> /\ Head(flowsCall[h].todo)[1] = "outcome"
  BY DEF Flows!executeWorkflow, Flows!At
<1>2. flowsDisk' = flowsDisk /\ runs' = runs
  BY DEF Flows!executeWorkflow
<1>3. PICK next, ok :
        /\ ok \in BOOLEAN /\ Flows!Record(h, next, S, rest(ok))
        /\ next = unadmitted \/ \E result \in {"SUCCEEDED", "FAILED"} : n \in DOMAIN flows /\ next = ended(result)
  <2>1. \/ \E result \in {"SUCCEEDED", "FAILED"} :
              n \in DOMAIN flows /\ Flows!Record(h, ended(result), S, rest(result = "SUCCEEDED"))
        \/ Flows!Record(h, unadmitted, S, rest(FALSE))
    BY DEF Flows!executeWorkflow, Flows!Active, Flows!Live
  <2>2. CASE Flows!Record(h, unadmitted, S, rest(FALSE))
    BY <2>2
  <2>3. ASSUME NEW result \in {"SUCCEEDED", "FAILED"}, n \in DOMAIN flows,
               Flows!Record(h, ended(result), S, rest(result = "SUCCEEDED"))
        PROVE  \E next, ok : /\ ok \in BOOLEAN /\ Flows!Record(h, next, S, rest(ok))
                             /\ \E r \in {"SUCCEEDED", "FAILED"} : n \in DOMAIN flows /\ next = ended(r)
    <3>1. PICK next, ok : next = ended(result) /\ ok = (result = "SUCCEEDED") /\ ok \in BOOLEAN
      OBVIOUS
    <3> HIDE DEF ended, rest, S, n
    <3>2. Flows!Record(h, next, S, rest(ok))
      BY <2>3, <3>1
    <3> QED
      BY <2>3, <3>1, <3>2
  <2> HIDE DEF ended, rest, S, n, unadmitted
  <2> QED
    BY <2>1, <2>2, <2>3
<1>4. n[1] = "execution" /\ n[2] = w /\ n[3] = d
  BY ExecutionNames
<1>5. /\ h # Worker => d \in ExecutionIds /\ Head(flowsCall[h].todo)[5] = FALSE
      /\ h = Worker => HasRun(w, d, runs) /\ Head(flowsCall[h].todo)[5] = TRUE
      /\ \A x, y : h = Worker /\ EventProgram(flowsCall[h].todo, x, y, runs) => x = w /\ y = d
  <2>1. w = Head(flowsCall[h].todo)[3] /\ d = Head(flowsCall[h].todo)[4]
    BY DEF Flows!On, Flows!Id
  <2>2. CASE h # Worker
    BY <1>1, <2>1, <2>2, Whose DEF RequestFollows
  <2>3. CASE h = Worker
    <3>1. ASSUME NEW x, NEW y, EventFollows(flowsCall[h].todo, x, y, runs)
          PROVE  x = w /\ y = d /\ HasRun(x, y, runs) /\ Head(flowsCall[h].todo)[5] = TRUE
      BY <1>1, <2>1, <3>1 DEF EventFollows
    <3>2. /\ \E x, y : EventFollows(flowsCall[h].todo, x, y, runs)
          /\ \A x, y : EventProgram(flowsCall[h].todo, x, y, runs) => EventFollows(flowsCall[h].todo, x, y, runs)
      BY <1>1, <2>3, Whose
    <3>3. PICK x, y : EventFollows(flowsCall[h].todo, x, y, runs)
      BY <3>2
    <3>4. ASSUME NEW a, NEW b, EventProgram(flowsCall[h].todo, a, b, runs) PROVE a = w /\ b = d
      <4>1. EventFollows(flowsCall[h].todo, a, b, runs)
        BY <3>2, <3>4
      <4> QED
        BY <1>1, <2>1, <4>1 DEF EventFollows
    <3> HIDE DEF w, d
    <3>5. HasRun(w, d, runs) /\ Head(flowsCall[h].todo)[5] = TRUE
      BY <3>1, <3>3
    <3> QED
      BY <2>3, <3>4, <3>5
  <2> HIDE DEF w, d
  <2> QED
    BY <2>2, <2>3
<1>6. DocSound(next, runs)
  <2>1. DocSound(unadmitted, runs)
    BY DocChanges DEF FlowsSound
  <2>2. ASSUME NEW result, n \in DOMAIN flows PROVE DocSound(ended(result), runs)
    <3>1. n[3] \notin DeliveryIds \/ HasRun(n[2], n[3], runs)
      BY <1>4, <1>5, IdsAssumption
    <3>2. ExecutionSound(n, [flows[n] EXCEPT !.state = result], runs)
      BY <2>2, <3>1, LiveSound, ExecutionValues
    <3> QED
      BY <2>1, <3>2, DocChanges
  <2> QED
    BY <1>3, <2>1, <2>2
<1>7. PICK todo : todo # <<>> /\ todo = rest(ok) /\ GoesOn(h, todo)
  <2>1. CASE h # Worker
    <3>1. answer(FALSE) = <<>> /\ answer(ok) = <<>>
      BY <1>5, <2>1
    <3>2. rest(ok) = <<Flows!Save(<<>>)>>
      BY <3>1, Joined
    <3>3. <<Flows!Save(<<>>)>> # <<>>
      BY Sequences
    <3> QED
      BY <1>2, <2>1, <3>2, <3>3, RequestListed DEF GoesOn
  <2>2. CASE h = Worker
    <3>1. answer(FALSE) = <<AnswerStep(w, d, FALSE)>> /\ answer(ok) = <<AnswerStep(w, d, ok)>>
      BY <1>5, <2>2 DEF Flows!Answer, AnswerStep
    <3>2. rest(ok) = <<Flows!Save(<<AnswerStep(w, d, FALSE)>>), AnswerStep(w, d, ok)>>
      BY <3>1, Joined
    <3>3. EventProgram(<<Flows!Save(<<AnswerStep(w, d, FALSE)>>), AnswerStep(w, d, ok)>>, w, d, runs)
      <4>1. HasRun(w, d, runs)
        BY <1>5, <2>2
      <4>2. /\ EventProgram(<<Flows!Save(<<AnswerStep(w, d, FALSE)>>), AnswerStep(w, d, TRUE)>>, w, d, runs)
            /\ EventProgram(<<Flows!Save(<<AnswerStep(w, d, FALSE)>>), AnswerStep(w, d, FALSE)>>, w, d, runs)
        BY <4>1, EventListed DEF AfterRun, Refused
      <4>3. CASE ok = TRUE
        BY <4>2, <4>3
      <4>4. CASE ok = FALSE
        BY <4>2, <4>4
      <4> QED
        BY <1>3, <4>3, <4>4
    <3>4. <<Flows!Save(<<AnswerStep(w, d, FALSE)>>), AnswerStep(w, d, ok)>> # <<>>
      BY Sequences
    <3> QED
      BY <1>2, <1>5, <2>2, <3>2, <3>3, <3>4 DEF GoesOn
  <2> QED
    BY <2>1, <2>2
<1>8. flows' = next /\ Goes(flowsCall, flowsCall', h, todo, [m \in S |-> Flows!Value(next, m)])
  <2>1. flows' = next
        /\ flowsCall' = [flowsCall EXCEPT ![h] = IF todo = <<>> THEN Idle
                                          ELSE [@ EXCEPT !.todo = todo, !.undo = [m \in S |-> Flows!Value(next, m)]]]
    BY <1>3, <1>7 DEF Flows!Record, Flows!Idle, Idle, Flows!Nothing, Nothing
  <2> QED
    BY <1>7, <2>1, CallRecords DEF FlowsSound
<1>9. UndoSound([m \in S |-> Flows!Value(next, m)], runs)
  BY <1>6, DocChanges
<1> QED
  BY <1>2, <1>6, <1>7, <1>8, <1>9 DEF FlowMoves, FlowsSound

(* The requests: a change of the maps and a program, or a program only.      *)
LEMMA ChangeMoves ==
    ASSUME FlowsSound, NEW h \in Handlers \ {Worker}, NEW doc, NEW S, NEW on, NEW todo,
           Flows!Change(h, doc, S, on, todo), DocSound(doc, runs), RequestProgram(todo, runs)
    PROVE  FlowMoves(h)
<1>1. flows' = doc /\ flowsDisk' = flowsDisk /\ runs' = runs
  BY DEF Flows!Change
<1>2. Goes(flowsCall, flowsCall', h, todo, [n \in S |-> Flows!Value(flows, n)])
  BY CallSet DEF Flows!Change, Flows!Before, FlowsSound
<1>3. UndoSound([n \in S |-> Flows!Value(flows, n)], runs)
  BY DocChanges DEF FlowsSound
<1> QED
  BY <1>1, <1>2, <1>3 DEF FlowMoves, GoesOn, FlowsSound

LEMMA LookMoves ==
    ASSUME FlowsSound, NEW h \in Handlers, NEW undo, NEW on, NEW todo,
           UNCHANGED <<flows, flowsDisk, runs>>, UndoSound(undo, runs), GoesOn(h, todo),
           flowsCall' = [flowsCall EXCEPT ![h] = [todo |-> todo, undo |-> undo, on |-> on]]
    PROVE  FlowMoves(h)
<1>1. Goes(flowsCall, flowsCall', h, todo, undo)
  BY CallSet DEF FlowsSound
<1> QED
  BY <1>1 DEF FlowMoves, FlowsSound

LEMMA RevisedSound ==
    ASSUME FlowsSound, NEW n \in Flows!Workflows, NEW made
    PROVE  DocSound(Flows!Revised(n, made), runs)
<1>1. \A v : ExecutionSound(n, v, runs) /\ ExecutionSound(Flows!revCounter, v, runs)
  BY OtherKinds
<1> QED
  BY <1>1, DocChanges DEF FlowsSound, Flows!Revised

LEMMA CancelMoves ==
    ASSUME FlowsSound, NEW h \in Handlers \ {Worker}, Flows!cancelExecution(h)
    PROVE  FlowMoves(h)
<1>1. PICK n : /\ n \in DOMAIN flows
               /\ LET admission == Flows!eventAdmission(n[2], n[3])
                      next == Flows!Put(Flows!Drop(flows, {admission}), n, [flows[n] EXCEPT !.state = "CANCELLED"])
                  IN  flowsCall' = [flowsCall EXCEPT ![h] = [todo |-> <<<<"copy", <<>>, next>>, <<"cancelled", <<>>, n>>>>,
                                       undo |-> [m \in {n, admission} \cap DOMAIN flows |-> Flows!Value(flows, m)],
                                       on |-> Flows!persistMu]]
  BY DEF Flows!cancelExecution, Flows!Active, Flows!Live, Flows!Before, Flows!Keep
<1> DEFINE admission == Flows!eventAdmission(n[2], n[3])
           next == Flows!Put(Flows!Drop(flows, {admission}), n, [flows[n] EXCEPT !.state = "CANCELLED"])
           todo == <<<<"copy", <<>>, next>>, <<"cancelled", <<>>, n>>>>
           undo == [m \in {n, admission} \cap DOMAIN flows |-> Flows!Value(flows, m)]
<1>2. UNCHANGED <<flows, flowsDisk, runs>>
  BY DEF Flows!cancelExecution
<1>3. ExecutionSound(n, [flows[n] EXCEPT !.state = "CANCELLED"], runs)
  BY <1>1, LiveSound, ExecutionValues
<1>4. DocSound(next, runs) /\ UndoSound(undo, runs)
  BY <1>3, DocChanges DEF FlowsSound
<1>5. RequestProgram(todo, runs)
  BY <1>4, RequestListed
<1>6. flowsCall' = [flowsCall EXCEPT ![h] = [todo |-> todo, undo |-> undo, on |-> Flows!persistMu]]
  BY <1>1
<1>7. GoesOn(h, todo)
  BY <1>2, <1>5 DEF GoesOn
<1> HIDE DEF todo, undo
<1> QED
  BY <1>2, <1>4, <1>6, <1>7, LookMoves

LEMMA FlowRequestMoves ==
    ASSUME FlowsSound, NEW h \in Handlers \ {Worker}, Flows!FlowRequest(h)
    PROVE  FlowMoves(h)
<1> DEFINE finish == <<Flows!Register(Flows!Revert), Flows!Save(Flows!compensateState)>>
<1>1. CASE Flows!createWorkflow(h)
  <2>1. PICK n \in Flows!Workflows :
           Flows!Change(h, Flows!Revised(n, Flows!nextRevisionID), {n}, None, finish)
    BY <1>1 DEF Flows!createWorkflow, Flows!Handle
  <2> QED
    BY <2>1, RevisedSound, RequestListed, ChangeMoves
<1>2. CASE Flows!patchWorkflow(h)
  <2>1. PICK n \in Flows!Workflows :
           Flows!Change(h, Flows!Revised(n, flows[n].made), {n, Flows!revCounter}, None,
                        <<Flows!Register(<<PutBackStep(n, flows[n])>>), Flows!Save(Flows!compensateState)>>)
    BY <1>2 DEF Flows!patchWorkflow, Flows!Handle, PutBackStep
  <2>2. RequestProgram(<<Flows!Register(<<PutBackStep(n, flows[n])>>), Flows!Save(Flows!compensateState)>>, runs)
    BY RequestListed
  <2> QED
    BY <2>1, <2>2, RevisedSound, ChangeMoves
<1>3. CASE Flows!deleteWorkflow(h)
  <2>1. PICK S : Flows!Change(h, Flows!Drop(flows, S), S, Flows!eventExecutionMu, finish)
    BY <1>3 DEF Flows!deleteWorkflow
  <2>2. DocSound(Flows!Drop(flows, S), runs)
    BY DocChanges DEF FlowsSound
  <2> QED
    BY <2>1, <2>2, RequestListed, ChangeMoves
<1>4. CASE Flows!createExecution(h)
  <2>1. PICK n : /\ flowsCall' = [flowsCall EXCEPT ![h] = [todo |-> <<Flows!Step("enter", n, None, flows[n])>>,
                                                             undo |-> Nothing, on |-> None]]
                 /\ UNCHANGED <<flows, flowsDisk, runs>>
    BY <1>4 DEF Flows!createExecution, Flows!Look, Flows!Nothing, Nothing
  <2>2. GoesOn(h, <<Flows!Step("enter", n, None, flows[n])>>)
    BY <2>1, RequestListed DEF GoesOn
  <2> QED
    BY <2>1, <2>2, EmptyUndo, LookMoves
<1>5. CASE Flows!cancelExecution(h)
  BY <1>5, CancelMoves
<1> QED
  BY <1>1, <1>2, <1>3, <1>4, <1>5 DEF Flows!FlowRequest

LEMMA FlowStepMoves ==
    ASSUME FlowsSound, WorkerSound, NEW h \in Handlers, Flows!FlowStep(h)
    PROVE  FlowMoves(h)
  BY PutBackMoves, EnterMoves, CancelledMoves, SaveCopyMoves, FindMoves, AdmitMoves, BeginMoves, RunMoves, OutcomeMoves,
     FlowSaveMoves, FlowRollbackMoves, FlowOperationMoves DEF Flows!FlowStep

(* A step of Workflows alone keeps the whole invariant.                      *)
LEMMA FlowMovesKeep ==
    ASSUME IInv, NEW h \in Handlers, FlowMoves(h), h = Worker => flowsCall[h].todo # <<>>, UNCHANGED shimVars
    PROVE  IInv'
<1>1. PICK todo, undo : Goes(flowsCall, flowsCall', h, todo, undo) /\ UndoSound(undo, runs') /\ GoesOn(h, todo)
  BY DEF FlowMoves
<1>2. runs \subseteq runs'
  BY DEF FlowMoves
<1>3. FlowsSound'
  <2>1. ASSUME NEW x \in Handlers PROVE UndoSound(flowsCall'[x].undo, runs')
    BY <1>1, <1>2, MoreRuns DEF IInv, FlowsSound, Goes
  <2>2. ASSUME NEW x \in Handlers \ {Worker} PROVE RequestProgram(flowsCall'[x].todo, runs')
    BY <1>1, <1>2, MoreRuns DEF IInv, FlowsSound, Goes, GoesOn
  <2>3. Calls(flowsCall')
    BY <1>1 DEF Goes
  <2> QED
    BY <2>1, <2>2, <2>3 DEF FlowsSound, FlowMoves
<1>4. UNCHANGED <<mem, disk, call>>
  BY DEF shimVars
<1>5. \A n, v : Copy(n, v)' <=> Copy(n, v)
  BY <1>4 DEF Copy
<1>6. IntentsSound' /\ Agreed'
  BY <1>2, <1>4, <1>5, MoreRuns DEF IInv, IntentsSound, Agreed
<1>7. WorkerSound'
  <2>1. CASE Resting
    <3>1. h # Worker
      BY <2>1 DEF Resting
    <3> QED
      BY <1>1, <1>4, <2>1, <3>1, QueueAssumption DEF Goes, WorkerSound, Resting
  <2>2. ASSUME NEW d, NEW w, Executing(d, w) PROVE Executing(d, w)'
    <3>1. d \in DeliveryIds /\ Destined(d, w)'
      BY <1>5, <2>2 DEF Executing, Destined
    <3>2. CASE h = Worker
      <4>1. call[Worker].todo = <<ExecutingStep(d)>> /\ EventProgram(flowsCall[Worker].todo, w, d, runs)
        BY <2>2, <3>2 DEF Executing
      <4>2. EventProgram(flowsCall'[Worker].todo, w, d, runs')
        BY <1>1, <2>2, <3>2, <4>1 DEF Goes, GoesOn, Executing
      <4> QED
        BY <1>4, <3>1, <4>1, <4>2 DEF Executing
    <3>3. CASE h # Worker
      BY <1>1, <1>2, <1>4, <2>2, <3>1, <3>3, MoreRuns, QueueAssumption DEF Goes, Executing
    <3> QED
      BY <3>2, <3>3
  <2> QED
    BY <2>1, <2>2 DEF IInv, WorkerSound
<1> QED
  BY <1>3, <1>6, <1>7 DEF IInv

LEMMA FlowStepsFollow ==
    ASSUME NEW h \in Handlers, Flows!FlowStep(h)
    PROVE  flowsCall[h].todo # <<>>
  BY DEF Flows!FlowStep, Flows!putBack, Flows!enterExecution, Flows!publishCancelled, Flows!saveCopy, Flows!findExecution,
         Flows!admitExecution, Flows!beginExecution, Flows!runWorkflow, Flows!executeWorkflow, Flows!persistState,
         Flows!SaveOk, Flows!SaveFails, Flows!Rollback, Flows!OperationWrite, Flows!At

LEMMA WorkflowsKeep ==
    ASSUME IInv, NEW h \in Handlers, UNCHANGED shimVars, Flows!FlowStep(h) \/ (h # Worker /\ Flows!FlowRequest(h))
    PROVE  IInv'
<1>1. FlowMoves(h) /\ (h = Worker => flowsCall[h].todo # <<>>)
  BY FlowStepMoves, FlowRequestMoves, FlowStepsFollow DEF IInv
<1> QED
  BY <1>1, FlowMovesKeep

-----------------------------------------------------------------------------
(* Eventarc.  A step of a handler leaves only copies of deliveries that there *)
(* were before, or that nobody knew.                                         *)
Fresh(n) == n[3] \in DeliveryIds /\ n = Delivery(n[3]) /\ ~Held(n[3]) /\ ~Known(n)
Recorded(n, v) ==
    /\ Fresh(n) /\ v = mem'[n] /\ v.state = "ATTEMPTING"
    /\ v = [trigger |-> v.trigger, workflow |-> v.workflow, payload |-> v.payload, state |-> v.state]
CopiesKept == \A n, v : n[1] = "delivery" /\ Copy(n, v)' => Copy(n, v) \/ Recorded(n, v)
EventMoves(h) ==
    /\ CopiesKept
    /\ \E todo, undo : Goes(call, call', h, todo, undo)
                       /\ (h = Worker => call[Worker].todo \in {<<>>, <<Save(<<>>)>>} /\ todo = <<>>)

LEMMA WorkerIsHeld ==
    ASSUME NEW d, NEW w, Executing(d, w)
    PROVE  /\ Held(d) /\ call[Worker].todo \notin {<<>>, <<Save(<<>>)>>}
           /\ Head(call[Worker].todo)[1] \in {"execute", "executing"}
<1>1. CASE call[Worker].todo = <<ExecuteStep(d, w)>>
  <2>1. call[Worker].todo # <<>> /\ Head(call[Worker].todo) = ExecuteStep(d, w)
    BY <1>1, Sequences
  <2>2. Head(call[Worker].todo)[1] = "execute" /\ Head(call[Worker].todo)[3] = d
    BY <2>1 DEF ExecuteStep
  <2>3. Head(<<Save(<<>>)>>)[1] = "save"
    BY Sequences DEF Save
  <2> QED
    BY <2>1, <2>2, <2>3 DEF Held, At, Arg
<1>2. CASE call[Worker].todo = <<ExecutingStep(d)>>
  <2>1. call[Worker].todo # <<>> /\ Head(call[Worker].todo) = ExecutingStep(d)
    BY <1>2, Sequences
  <2>2. Head(call[Worker].todo)[1] = "executing" /\ Head(call[Worker].todo)[3] = d
    BY <2>1 DEF ExecutingStep
  <2>3. Head(<<Save(<<>>)>>)[1] = "save"
    BY Sequences DEF Save
  <2> QED
    BY <2>1, <2>2, <2>3 DEF Held, At, Arg
<1> QED
  BY <1>1, <1>2 DEF Executing

LEMMA WorkerAt ==
    ASSUME WorkerSound, call[Worker].todo # <<>>, Head(call[Worker].todo)[1] \notin {"execute", "executing"}
    PROVE  /\ call[Worker].todo = <<Save(<<>>)>> /\ Head(call[Worker].todo)[1] = "save"
           /\ Head(call[Worker].todo)[2] = <<>> /\ Tail(call[Worker].todo) = <<>>
<1>1. call[Worker].todo = <<Save(<<>>)>>
  BY WorkerIsHeld DEF WorkerSound, Resting
<1>2. Head(call[Worker].todo) = Save(<<>>) /\ Tail(call[Worker].todo) = <<>>
  BY <1>1, Sequences
<1> QED
  BY <1>1, <1>2 DEF Save

LEMMA EventMovesKeep ==
    ASSUME IInv, NEW h \in Handlers, EventMoves(h), UNCHANGED flowVars
    PROVE  IInv'
<1>1. PICK todo, undo : /\ Goes(call, call', h, todo, undo)
                        /\ h = Worker => call[Worker].todo \in {<<>>, <<Save(<<>>)>>} /\ todo = <<>>
  BY DEF EventMoves
<1>2. UNCHANGED <<flows, flowsDisk, flowsCall, runs>> /\ CopiesKept
  BY DEF flowVars, EventMoves
<1>3. FlowsSound'
  BY <1>2 DEF IInv, FlowsSound
<1>4. IntentsSound'
  <2>1. ASSUME NEW n, NEW v, n[1] = "delivery", Copy(n, v)' PROVE IntentSound(n, v, runs)
    <3>1. CASE Copy(n, v)
      BY <2>1, <3>1 DEF IInv, IntentsSound
    <3>2. CASE Recorded(n, v)
      BY <3>2 DEF Recorded, Fresh, IntentSound
    <3> QED
      BY <1>2, <2>1, <3>1, <3>2 DEF CopiesKept
  <2> QED
    BY <1>1, <1>2, <2>1 DEF IntentsSound, Goes
<1>5. \A n, v : Fresh(n) => ~Copy(n, v)
  BY DEF Fresh, Known, Copy, Touches
<1>6. Agreed'
  BY <1>2, <1>5 DEF IInv, Agreed, CopiesKept, Recorded
<1>7. WorkerSound'
  <2>1. CASE Resting
    BY <1>1, <1>2, <2>1, QueueAssumption DEF Goes, WorkerSound, Resting
  <2>2. ASSUME NEW d, NEW w, Executing(d, w) PROVE Executing(d, w)'
    <3>1. h # Worker
      BY <1>1, <2>2, WorkerIsHeld
    <3>2. Delivery(d)[1] = "delivery" /\ Delivery(d)[3] = d
      BY DEF Delivery
    <3>3. Destined(d, w)'
      BY <1>2, <2>2, <3>2, WorkerIsHeld DEF Executing, Destined, CopiesKept, Recorded, Fresh
    <3> QED
      BY <1>1, <1>2, <2>2, <3>1, <3>3, QueueAssumption DEF Goes, Executing
  <2> QED
    BY <2>1, <2>2 DEF IInv, WorkerSound
<1> QED
  BY <1>3, <1>4, <1>6, <1>7 DEF IInv

(* Steps that leave the maps and the entry with values they had.             *)
LEMMA SameCopies ==
    ASSUME NEW h \in Handlers, NEW todo, NEW undo, Goes(call, call', h, todo, undo),
           \A n : n[1] = "delivery" /\ n \in DOMAIN undo /\ undo[n] # None => Copy(n, undo[n]),
           \A n : n[1] = "delivery" /\ n \in DOMAIN mem' => Copy(n, mem'[n]),
           \A n : n[1] = "delivery" /\ n \in DOMAIN disk' => Copy(n, disk'[n])
    PROVE  CopiesKept
<1>1. ASSUME NEW n, NEW v, n[1] = "delivery", Copy(n, v)' PROVE Copy(n, v)
  <2>1. CASE n \in DOMAIN mem' /\ v = mem'[n]
    BY <1>1, <2>1
  <2>2. CASE n \in DOMAIN disk' /\ v = disk'[n]
    BY <1>1, <2>2
  <2>3. ASSUME NEW x \in Handlers, n \in DOMAIN call'[x].undo, v = call'[x].undo[n], v # None PROVE Copy(n, v)
    <3>1. CASE x = h
      BY <1>1, <2>3, <3>1 DEF Goes
    <3>2. CASE x # h
      BY <2>3, <3>2 DEF Goes, Copy
    <3> QED
      BY <3>1, <3>2
  <2> QED
    BY <1>1, <2>1, <2>2, <2>3 DEF Copy
<1> QED
  BY <1>1 DEF CopiesKept

LEMMA EventFollow ==
    ASSUME IntentsSound, NEW h \in Handlers, NEW todo, Follow(h, todo)
    PROVE  \E undo : /\ Goes(call, call', h, todo, undo)
                     /\ \A n : n \in DOMAIN undo /\ undo[n] # None => Copy(n, undo[n])
<1>1. call' = [call EXCEPT ![h] = IF todo = <<>> THEN Idle ELSE [@ EXCEPT !.todo = todo]] /\ Calls(call)
  BY DEF Follow, IntentsSound
<1>2. PICK undo \in {call[h].undo, Nothing} : Goes(call, call', h, todo, undo)
  BY <1>1, CallFollows
<1> QED
  BY <1>2 DEF Copy, Nothing

LEMMA EventSaveMoves ==
    ASSUME IInv, NEW h \in Handlers, persistState(h)
    PROVE  EventMoves(h)
<1>1. mem' = mem /\ disk' \in {mem, disk}
  BY DEF persistState, SaveOk, SaveFails
<1>2. PICK todo \in {Tail(call[h].todo), Head(call[h].todo)[2]} : Follow(h, todo)
  BY DEF persistState, SaveOk, SaveFails, Proceed, Fail
<1>3. PICK undo : /\ Goes(call, call', h, todo, undo)
                  /\ \A n : n \in DOMAIN undo /\ undo[n] # None => Copy(n, undo[n])
  BY <1>2, EventFollow DEF IInv
<1>4. CopiesKept
  BY <1>1, <1>3, SameCopies DEF Copy
<1>5. h = Worker => call[Worker].todo = <<Save(<<>>)>> /\ todo = <<>>
  BY <1>2, WorkerAt DEF IInv, persistState, SaveOk, SaveFails, At
<1> QED
  BY <1>3, <1>4, <1>5 DEF EventMoves

LEMMA EventRollbackMoves ==
    ASSUME IInv, NEW h \in Handlers, Rollback(h)
    PROVE  EventMoves(h)
<1>1. h # Worker
  BY WorkerAt, WorkerIsHeld DEF IInv, Rollback, At
<1>2. PICK undo : /\ Goes(call, call', h, Tail(call[h].todo), undo)
                  /\ \A n : n \in DOMAIN undo /\ undo[n] # None => Copy(n, undo[n])
  BY EventFollow DEF IInv, Rollback, Proceed
<1>3. mem' = Restore(mem, call[h].undo) /\ disk' = disk
  BY DEF Rollback
<1>4. ASSUME NEW n, n \in DOMAIN mem' PROVE Copy(n, mem'[n])
  BY <1>3, <1>4 DEF Restore, Copy
<1>5. CopiesKept
  BY <1>2, <1>3, <1>4, SameCopies DEF Copy
<1> QED
  BY <1>1, <1>2, <1>5 DEF EventMoves

LEMMA EventOperationMoves ==
    ASSUME IInv, NEW h \in Handlers, OperationWrite(h)
    PROVE  EventMoves(h)
<1>1. h # Worker
  BY WorkerAt, WorkerIsHeld DEF IInv, OperationWrite, At
<1>2. mem' = mem /\ disk' = disk
  BY DEF OperationWrite
<1>3. PICK todo : Follow(h, todo)
  BY DEF OperationWrite, Proceed, Fail
<1>4. PICK undo : /\ Goes(call, call', h, todo, undo)
                  /\ \A n : n \in DOMAIN undo /\ undo[n] # None => Copy(n, undo[n])
  BY <1>3, EventFollow DEF IInv
<1>5. CopiesKept
  BY <1>2, <1>4, SameCopies DEF Copy
<1> QED
  BY <1>1, <1>4, <1>5 DEF EventMoves

LEMMA EnqueueMoves ==
    ASSUME IInv, NEW h \in Handlers, enqueueDelivery(h)
    PROVE  EventMoves(h)
<1>1. h # Worker
  BY WorkerAt, WorkerIsHeld DEF IInv, enqueueDelivery, At
<1>2. mem' = mem /\ disk' = disk
  BY DEF enqueueDelivery
<1>3. PICK todo, undo : /\ Goes(call, call', h, todo, undo)
                        /\ \A n : n \in DOMAIN undo /\ undo[n] # None => Copy(n, undo[n])
  <2>1. \/ Proceed(h)
        \/ \E d \in Arg(h) : call' = [call EXCEPT ![h].todo = <<<<"enqueue", Keep, Arg(h) \ {d}>>>>, ![h].undo = Nothing]
    BY DEF enqueueDelivery
  <2>2. CASE Proceed(h)
    BY <2>2, EventFollow DEF IInv, Proceed
  <2>3. ASSUME NEW todo, call' = [call EXCEPT ![h].todo = todo, ![h].undo = Nothing]
        PROVE  Goes(call, call', h, todo, Nothing)
    BY <2>3, CallParts DEF IInv, IntentsSound
  <2>4. CASE \E d \in Arg(h) : call' = [call EXCEPT ![h].todo = <<<<"enqueue", Keep, Arg(h) \ {d}>>>>, ![h].undo = Nothing]
    <3>1. PICK todo : call' = [call EXCEPT ![h].todo = todo, ![h].undo = Nothing]
      BY <2>4
    <3>2. \A n : n \notin DOMAIN Nothing
      BY DEF Nothing
    <3> QED
      BY <2>3, <3>1, <3>2
  <2> QED
    BY <2>1, <2>2, <2>4
<1>4. CopiesKept
  BY <1>2, <1>3, SameCopies DEF Copy
<1> QED
  BY <1>1, <1>3, <1>4 DEF EventMoves

(* The intents of an event are made with ids nobody knows.                   *)
LEMMA RecordMoves ==
    ASSUME IInv, NEW h \in Handlers, recordIntents(h)
    PROVE  EventMoves(h)
<1>1. h # Worker
  BY WorkerAt, WorkerIsHeld DEF IInv, recordIntents, At
<1>2. disk' = disk
  BY DEF recordIntents
<1>3. CASE mem' = mem /\ Proceed(h)
  <2>1. PICK undo : /\ Goes(call, call', h, Tail(call[h].todo), undo)
                    /\ \A n : n \in DOMAIN undo /\ undo[n] # None => Copy(n, undo[n])
    BY <1>3, EventFollow DEF IInv, Proceed
  <2>2. CopiesKept
    BY <1>2, <1>3, <2>1, SameCopies DEF Copy
  <2> QED
    BY <1>1, <2>1, <2>2 DEF EventMoves
<1>4. CASE ~(mem' = mem /\ Proceed(h))
  <2> DEFINE e == Arg(h)[1]
             current == {n \in Arg(h)[2] : matchesTrigger(n, e)}
             id == CHOOSE f \in nextIDs(current) : TRUE
             p == id[None]
             S == {Delivery(id[n]) : n \in current} \union {Payload(p)}
             intent(n) == [trigger |-> n, workflow |-> mem[n].workflow, payload |-> p, state |-> "ATTEMPTING"]
             todo == <<Save(Revert), <<"enqueue", Keep, {id[n] : n \in current}>>>>
             undo == [m \in S |-> None]
  <2>1. /\ nextIDs(current) # {}
        /\ mem' = [m \in Live \union S |->
                     IF m \in Live THEN mem[m] ELSE IF m = Payload(p) THEN e
                     ELSE intent(CHOOSE n \in current : Delivery(id[n]) = m)]
        /\ call' = [call EXCEPT ![h].undo = undo, ![h].todo = todo]
    BY <1>4 DEF recordIntents
  <2>0. id \in nextIDs(current)
    BY <2>1
  <2>2. Goes(call, call', h, todo, undo)
    BY <2>1, CallParts DEF IInv, IntentsSound
  <2>3. ASSUME NEW n, n[1] = "delivery", n \in DOMAIN mem' PROVE Copy(n, mem'[n]) \/ Recorded(n, mem'[n])
    <3>1. CASE n \in Live
      BY <2>1, <3>1 DEF Live, Copy
    <3>2. CASE n \notin Live
      <4>1. n \in S /\ n # Payload(p)
        <5>1. DOMAIN mem' = Live \union S
          <6> HIDE DEF intent, S
          <6> QED
            BY <2>1
        <5>2. Payload(p)[1] = "payload"
          BY DEF Payload
        <5> QED
          BY <2>3, <3>2, <5>1, <5>2
      <4>2. PICK c \in current : Delivery(id[c]) = n /\ mem'[n] = intent(c)
        <5>1. mem'[n] = intent(CHOOSE c \in current : Delivery(id[c]) = n)
          BY <2>1, <3>2, <4>1
        <5>2. \E c \in current : Delivery(id[c]) = n
          BY <4>1
        <5> QED
          BY <5>1, <5>2
      <4>3. id[c] \in FreshIds
        BY <2>0 DEF nextIDs
      <4>4. Fresh(n)
        BY <4>2, <4>3 DEF FreshIds, Fresh, Delivery
      <4> QED
        BY <4>2, <4>4 DEF Recorded
    <3> QED
      BY <3>1, <3>2
  <2>4. CopiesKept
    <3>1. ASSUME NEW n, NEW v, n[1] = "delivery", Copy(n, v)' PROVE Copy(n, v) \/ Recorded(n, v)
      <4>1. CASE n \in DOMAIN mem' /\ v = mem'[n]
        BY <2>3, <3>1, <4>1
      <4>2. CASE n \in DOMAIN disk' /\ v = disk'[n]
        BY <1>2, <4>2 DEF Copy
      <4>3. ASSUME NEW x \in Handlers, n \in DOMAIN call'[x].undo, v = call'[x].undo[n], v # None PROVE Copy(n, v)
        <5>1. x # h
          BY <2>2, <4>3 DEF Goes
        <5> QED
          BY <2>2, <4>3, <5>1 DEF Goes, Copy
      <4> QED
        BY <3>1, <4>1, <4>2, <4>3 DEF Copy
    <3> QED
      BY <3>1 DEF CopiesKept
  <2> HIDE DEF todo, undo
  <2> QED
    BY <1>1, <2>2, <2>4 DEF EventMoves
<1> QED
  BY <1>3, <1>4

(* Requests change triggers and remove what depends on them.                 *)
LEMMA HandleMoves ==
    ASSUME IInv, NEW h \in Handlers \ {Worker}, NEW doc, NEW S, NEW todo, Handle(h, doc, S, todo),
           \A n : n[1] = "delivery" /\ n \in DOMAIN doc => n \in DOMAIN mem /\ doc[n] = mem[n]
    PROVE  EventMoves(h)
<1>1. mem' = doc /\ disk' = disk
  BY DEF Handle, Change
<1>2. Goes(call, call', h, todo, [n \in S |-> Value(mem, n)])
  BY CallSet DEF Handle, Change, Before, IInv, IntentsSound
<1>3. CopiesKept
  BY <1>1, <1>2, SameCopies DEF Copy, Value
<1> QED
  BY <1>2, <1>3 DEF EventMoves

LEMMA EventRequestMoves ==
    ASSUME IInv, NEW h \in Handlers \ {Worker}, EventRequest(h)
    PROVE  EventMoves(h)
<1>1. \A n \in Triggers : n[1] = "trigger"
  BY DEF Triggers
<1>2. ASSUME NEW n \in Triggers, NEW v, Handle(h, Put(mem, n, v), {n}, FinishTrigger) PROVE EventMoves(h)
  <2>1. \A m : m[1] = "delivery" /\ m \in DOMAIN Put(mem, n, v) => m \in DOMAIN mem /\ Put(mem, n, v)[m] = mem[m]
    BY <1>1 DEF Put
  <2> QED
    BY <1>2, <2>1, HandleMoves
<1>3. ASSUME NEW S, Handle(h, Drop(mem, S), S, FinishTrigger) PROVE EventMoves(h)
  <2>1. \A m : m \in DOMAIN Drop(mem, S) => m \in DOMAIN mem /\ Drop(mem, S)[m] = mem[m]
    BY DEF Drop
  <2> QED
    BY <1>3, <2>1, HandleMoves
<1>4. CASE HandleEventWithAck(h)
  <2>1. PICK todo : /\ call' = [call EXCEPT ![h] = [todo |-> todo, undo |-> Nothing, on |-> None]]
                    /\ mem' = mem /\ disk' = disk
    BY <1>4 DEF HandleEventWithAck, Look
  <2>2. Goes(call, call', h, todo, Nothing)
    BY <2>1, CallSet DEF IInv, IntentsSound
  <2>3. CopiesKept
    BY <2>1, <2>2, SameCopies DEF Copy, Nothing
  <2> QED
    BY <2>2, <2>3 DEF EventMoves
<1>5. CASE createTrigger(h) \/ patchTrigger(h)
  BY <1>2, <1>5 DEF createTrigger, patchTrigger
<1>6. CASE deleteTrigger(h)
  BY <1>3, <1>6 DEF deleteTrigger
<1> QED
  BY <1>4, <1>5, <1>6 DEF EventRequest

LEMMA EventarcKeeps ==
    ASSUME IInv, NEW h \in Handlers, UNCHANGED flowVars, EventStep(h) \/ (h # Worker /\ EventRequest(h))
    PROVE  IInv'
<1>1. EventMoves(h)
  BY EventRequestMoves, RecordMoves, EnqueueMoves, EventSaveMoves, EventRollbackMoves, EventOperationMoves DEF EventStep
<1> QED
  BY <1>1, EventMovesKeep

-----------------------------------------------------------------------------
(* The worker: an intent is taken, its workflow is asked for, and the answer *)
(* recorded.                                                                 *)
LEMMA AttemptKeeps ==
    ASSUME IInv, attemptDelivery, UNCHANGED flowVars
    PROVE  IInv'
<1>0. PICK d, n, w : d = Head(queue) /\ n = Delivery(d) /\ w = mem[n].workflow
  OBVIOUS
<1>1. UNCHANGED <<mem, disk>> /\ UNCHANGED <<flows, flowsDisk, flowsCall, runs>>
  BY DEF attemptDelivery, flowVars
<1>2. call[Worker].todo = <<>>
  BY DEF attemptDelivery, Idle
<1>3. Resting
  BY <1>2, WorkerIsHeld DEF IInv, WorkerSound
<1>4. FlowsSound'
  BY <1>1 DEF IInv, FlowsSound
<1>5. CASE call' = call
  <2>1. \A m, v : Copy(m, v)' <=> Copy(m, v)
    BY <1>1, <1>5 DEF Copy
  <2>2. IntentsSound' /\ Agreed'
    BY <1>1, <1>5, <2>1 DEF IInv, IntentsSound, Agreed
  <2>3. Resting'
    BY <1>1, <1>3, <1>5 DEF Resting
  <2> QED
    BY <1>4, <2>2, <2>3 DEF IInv, WorkerSound
<1>6. CASE n \in DOMAIN mem /\ call' = [call EXCEPT ![Worker] = [Idle EXCEPT !.todo = <<<<"execute", Keep, d, w>>>>]]
  <2>1. [Idle EXCEPT !.todo = <<<<"execute", Keep, d, w>>>>] = [todo |-> <<ExecuteStep(d, w)>>, undo |-> Nothing, on |-> None]
    BY DEF Idle, ExecuteStep, Keep
  <2>2. Goes(call, call', Worker, <<ExecuteStep(d, w)>>, Nothing)
    BY <1>6, <2>1, CallSet, QueueAssumption DEF IInv, IntentsSound
  <2>3. \A m, v : Copy(m, v)' => Copy(m, v)
    BY <1>1, <2>2 DEF Copy, Goes, Nothing
  <2>4. IntentsSound' /\ Agreed'
    BY <1>1, <2>2, <2>3 DEF IInv, IntentsSound, Agreed, Goes
  <2>5. n[1] = "delivery" /\ n[3] = d /\ Copy(n, mem[n])
    BY <1>0, <1>6 DEF Delivery, Copy
  <2>6. d \in DeliveryIds
    BY <2>5 DEF IInv, IntentsSound, IntentSound
  <2>7. Destined(d, w)'
    BY <1>0, <2>3, <2>5 DEF IInv, Agreed, Destined
  <2>8. Executing(d, w)'
    BY <1>1, <1>3, <2>2, <2>6, <2>7 DEF Executing, Goes, Resting
  <2> QED
    BY <1>4, <2>4, <2>8 DEF IInv, WorkerSound
<1> QED
  BY <1>0, <1>5, <1>6 DEF attemptDelivery, Live

LEMMA CallExecutorKeeps ==
    ASSUME IInv, CallExecutor
    PROVE  IInv'
<1>1. call[Worker].todo # <<>> /\ Head(call[Worker].todo)[1] = "execute"
  BY DEF CallExecutor, At
<1>2. PICK d, w : Executing(d, w) /\ call[Worker].todo = <<ExecuteStep(d, w)>>
  <2>1. ~Resting
    <3>1. Head(<<Save(<<>>)>>)[1] = "save"
      BY Sequences DEF Save
    <3> QED
      BY <1>1, <3>1 DEF Resting
  <2>2. \A d : Head(<<ExecutingStep(d)>>)[1] = "executing"
    BY Sequences DEF ExecutingStep
  <2> QED
    BY <1>1, <2>1, <2>2 DEF IInv, WorkerSound, Executing
<1>3. Head(call[Worker].todo)[4] = w /\ Arg(Worker) = d
  <2>1. Head(call[Worker].todo) = ExecuteStep(d, w)
    BY <1>2, Sequences
  <2> QED
    BY <2>1 DEF Arg, ExecuteStep
<1>4. /\ UNCHANGED <<mem, disk>> /\ UNCHANGED <<flows, flowsDisk, runs>>
      /\ call' = [call EXCEPT ![Worker].todo = <<ExecutingStep(d)>>]
      /\ flowsCall' = [flowsCall EXCEPT ![Worker] = [todo |-> <<Flows!Step("admit", w, d, None)>>,
                                                       undo |-> Nothing, on |-> Flows!eventExecutionMu]]
  BY <1>3 DEF CallExecutor, Flows!CreateExecutionFromEvent, Flows!Look, Flows!Nothing, Nothing, ExecutingStep, Keep
<1>5. Goes(call, call', Worker, <<ExecutingStep(d)>>, call[Worker].undo)
  BY <1>4, CallTodo, QueueAssumption DEF IInv, IntentsSound
<1>6. Goes(flowsCall, flowsCall', Worker, <<Flows!Step("admit", w, d, None)>>, Nothing)
  BY <1>4, CallSet, QueueAssumption DEF IInv, FlowsSound
<1>7. FlowsSound'
  BY <1>4, <1>6, EmptyUndo DEF IInv, FlowsSound, Goes
<1>8. \A m, v : Copy(m, v)' => Copy(m, v)
  BY <1>4, <1>5 DEF Copy, Goes
<1>9. IntentsSound' /\ Agreed'
  BY <1>4, <1>5, <1>8 DEF IInv, IntentsSound, Agreed, Goes
<1>10. Executing(d, w)'
  BY <1>2, <1>4, <1>5, <1>6, <1>8, EventListed DEF Executing, Goes, Destined
<1> QED
  BY <1>7, <1>9, <1>10 DEF IInv, WorkerSound

LEMMA OutcomeValues ==
    ASSUME NEW n, NEW v, NEW ok, IntentSound(n, v, runs), ok => HasRun(v.workflow, n[3], runs)
    PROVE  LET new == [v EXCEPT !.state = IF ok THEN "SUCCEEDED" ELSE "FAILED"]
           IN  IntentSound(n, new, runs) /\ new.workflow = v.workflow
<1>1. PICK s : s = IF ok THEN "SUCCEEDED" ELSE "FAILED"
  OBVIOUS
<1>2. v = [trigger |-> v.trigger, workflow |-> v.workflow, payload |-> v.payload, state |-> v.state]
  BY DEF IntentSound
<1>3. [v EXCEPT !.state = s] = [trigger |-> v.trigger, workflow |-> v.workflow, payload |-> v.payload, state |-> s]
  BY <1>2
<1>4. PICK u : u = [trigger |-> v.trigger, workflow |-> v.workflow, payload |-> v.payload, state |-> s]
  OBVIOUS
<1>5. /\ u.workflow = v.workflow /\ u.state = s
      /\ u = [trigger |-> u.trigger, workflow |-> u.workflow, payload |-> u.payload, state |-> u.state]
  BY <1>4
<1>6. IntentSound(n, u, runs)
  BY <1>1, <1>5 DEF IntentSound
<1> QED
  BY <1>1, <1>3, <1>4, <1>5, <1>6

LEMMA TakeAnswerKeeps ==
    ASSUME IInv, TakeAnswer
    PROVE  IInv'
<1>1. flowsCall[Worker].todo # <<>> /\ Head(flowsCall[Worker].todo)[1] = "answer"
  BY DEF TakeAnswer, Flows!At
<1>2. PICK d, w : Executing(d, w) /\ call[Worker].todo = <<ExecutingStep(d)>>
                  /\ EventProgram(flowsCall[Worker].todo, w, d, runs)
  BY <1>1 DEF IInv, WorkerSound, Resting, Executing
<1>3. EventFollows(flowsCall[Worker].todo, w, d, runs)
  BY <1>1, <1>2, EventSteps
<1>4. Arg(Worker) = d
  <2>1. Head(call[Worker].todo) = ExecutingStep(d)
    BY <1>2, Sequences
  <2> QED
    BY <2>1 DEF Arg, ExecutingStep
<1> DEFINE ok == Head(flowsCall[Worker].todo)[5]
           n == Delivery(d)
           new == [mem[n] EXCEPT !.state = IF ok THEN "SUCCEEDED" ELSE "FAILED"]
           todo == <<Save(<<>>)>>
           recorded == [m \in {n} |-> Value(Put(mem, n, new), m)]
<1>5. ok => HasRun(w, d, runs)
  BY <1>1, <1>3 DEF EventFollows
<1>6. UNCHANGED <<flows, flowsDisk, runs>> /\ disk' = disk
  BY DEF TakeAnswer, Flows!answerEvent, recordOutcome
<1>7. FlowsSound' /\ flowsCall'[Worker].todo = <<>>
  <2>1. Flows!Follow(Worker, Tail(flowsCall[Worker].todo)) /\ Tail(flowsCall[Worker].todo) = <<>>
    BY <1>1, <1>3 DEF TakeAnswer, Flows!answerEvent, Flows!Proceed, EventFollows
  <2>2. PICK undo : Goes(flowsCall, flowsCall', Worker, <<>>, undo) /\ UndoSound(undo, runs')
    BY <1>6, <2>1, FlowFollow, QueueAssumption DEF IInv
  <2> QED
    BY <1>6, <2>2 DEF IInv, FlowsSound, Goes
<1>8. n[1] = "delivery" /\ n[3] = d
  BY DEF Delivery
<1>9. \/ n \notin DOMAIN mem /\ mem' = mem /\ Follow(Worker, todo)
      \/ n \in DOMAIN mem /\ Record(Worker, Put(mem, n, new), {n}, todo)
  <2> HIDE DEF new
  <2>1. new = [mem[n] EXCEPT !.state = IF ok THEN "SUCCEEDED" ELSE "FAILED"]
    BY DEF new
  <2> QED
    BY <1>4, <2>1 DEF TakeAnswer, recordOutcome, Live, Keep
<1>10. \E undo : /\ Goes(call, call', Worker, todo, undo)
                 /\ \A m, v : m[1] = "delivery" /\ Copy(m, v)' =>
                       IntentSound(m, v, runs) /\ \E u : Copy(m, u) /\ u.workflow = v.workflow
  <2>1. CASE n \notin DOMAIN mem /\ mem' = mem /\ Follow(Worker, todo)
    <3>1. PICK undo : /\ Goes(call, call', Worker, todo, undo)
                      /\ \A m : m \in DOMAIN undo /\ undo[m] # None => Copy(m, undo[m])
      BY <2>1, EventFollow, QueueAssumption DEF IInv
    <3>2. \A m : m \in DOMAIN mem' => Copy(m, mem'[m])
      BY <2>1 DEF Copy
    <3>3. \A m : m \in DOMAIN disk' => Copy(m, disk'[m])
      BY <1>6 DEF Copy
    <3>4. \A m, v : Copy(m, v)' => Copy(m, v)
      BY <3>1, <3>2, <3>3 DEF Copy, Goes
    <3> QED
      BY <3>1, <3>4 DEF IInv, IntentsSound
  <2>2. CASE n \in DOMAIN mem /\ Record(Worker, Put(mem, n, new), {n}, todo)
    <3>1. mem' = Put(mem, n, new)
      BY <2>2 DEF Record
    <3>2. Goes(call, call', Worker, todo, recorded)
      <4>1. todo # <<>>
        BY Sequences
      <4>2. call' = [call EXCEPT ![Worker] = IF todo = <<>> THEN Idle ELSE [@ EXCEPT !.todo = todo, !.undo = recorded]]
        BY <2>2 DEF Record
      <4> QED
        BY <4>1, <4>2, CallRecords, QueueAssumption DEF IInv, IntentsSound
    <3>3. Copy(n, mem[n]) /\ mem[n].workflow = w
      BY <1>2, <2>2 DEF Copy, Executing, Destined
    <3>4. IntentSound(n, new, runs) /\ new.workflow = w
      BY <1>5, <1>8, <3>3, OutcomeValues DEF IInv, IntentsSound
    <3> HIDE DEF new
    <3>5. Value(Put(mem, n, new), n) = new /\ \A m : m \in DOMAIN mem' => mem'[m] = IF m = n THEN new ELSE mem[m]
      BY <3>1 DEF Value, Put
    <3>6. ASSUME NEW m, NEW v, m[1] = "delivery", Copy(m, v)' PROVE Copy(m, v) \/ (m = n /\ v = new)
      <4>1. CASE m \in DOMAIN mem' /\ v = mem'[m]
        BY <3>1, <3>5, <4>1 DEF Put, Copy
      <4>2. CASE m \in DOMAIN disk' /\ v = disk'[m]
        BY <1>6, <4>2 DEF Copy
      <4>3. ASSUME NEW x \in Handlers, m \in DOMAIN call'[x].undo, v = call'[x].undo[m], v # None
            PROVE  Copy(m, v) \/ (m = n /\ v = new)
        <5>1. CASE x = Worker
          BY <3>2, <3>5, <4>3, <5>1 DEF Goes
        <5>2. CASE x # Worker
          BY <3>2, <4>3, <5>2 DEF Goes, Copy
        <5> QED
          BY <5>1, <5>2
      <4> QED
        BY <3>6, <4>1, <4>2, <4>3 DEF Copy
    <3>7. ASSUME NEW m, NEW v, m[1] = "delivery", Copy(m, v)'
          PROVE  IntentSound(m, v, runs) /\ \E u : Copy(m, u) /\ u.workflow = v.workflow
      BY <3>3, <3>4, <3>6, <3>7 DEF IInv, IntentsSound
    <3> HIDE DEF recorded, todo
    <3> QED
      BY <3>2, <3>7
  <2> QED
    BY <1>9, <2>1, <2>2
<1> HIDE DEF todo
<1>11. IntentsSound' /\ Agreed'
  BY <1>6, <1>10 DEF IInv, IntentsSound, Agreed, Goes
<1>12. Resting'
  BY <1>7, <1>10 DEF Resting, Goes, todo
<1> QED
  BY <1>7, <1>11, <1>12 DEF IInv, WorkerSound

-----------------------------------------------------------------------------
(* Both shims go down and start again from their entries.                    *)
LEMMA CrashKeeps ==
    ASSUME IInv, Crash
    PROVE  IInv'
<1>1. runs' = runs /\ disk' = disk /\ mem' \in {disk, Nothing}
  BY DEF Crash, loadState, Flows!loadState
<1>2. PICK todo : call' = [h \in Handlers |-> [todo |-> IF h = Boot THEN todo ELSE <<>>, undo |-> Nothing, on |-> None]]
  <2>1. call' = [h \in Handlers |-> IF h = Boot /\ replayEligible(mem') # {}
                                    THEN [Idle EXCEPT !.todo = <<<<"enqueue", Keep, replayEligible(mem')>>>>] ELSE Idle]
    BY DEF Crash, loadState
  <2>2. PICK some, todo : /\ some = <<<<"enqueue", Keep, replayEligible(mem')>>>>
                          /\ todo = IF replayEligible(mem') # {} THEN some ELSE <<>>
    OBVIOUS
  <2>3. \A h \in Handlers : (IF h = Boot /\ replayEligible(mem') # {} THEN [Idle EXCEPT !.todo = some] ELSE Idle)
                            = [todo |-> IF h = Boot THEN todo ELSE <<>>, undo |-> Nothing, on |-> None]
    <3>1. [Idle EXCEPT !.todo = some] = [todo |-> some, undo |-> Nothing, on |-> None]
          /\ Idle = [todo |-> <<>>, undo |-> Nothing, on |-> None]
      BY DEF Idle
    <3> QED
      BY <2>2, <3>1
  <2>4. call' = [h \in Handlers |-> IF h = Boot /\ replayEligible(mem') # {} THEN [Idle EXCEPT !.todo = some] ELSE Idle]
    BY <2>1, <2>2
  <2>5. call' = [h \in Handlers |-> [todo |-> IF h = Boot THEN todo ELSE <<>>, undo |-> Nothing, on |-> None]]
    BY <2>3, <2>4
  <2> QED
    BY <2>5
<1>3. flowsCall' = [h \in Handlers |-> [todo |-> <<>>, undo |-> Nothing, on |-> None]]
  BY DEF Crash, Flows!loadState, Flows!Idle, Flows!Nothing, Nothing
<1>4. Calls(call') /\ Calls(flowsCall')
  BY <1>2, <1>3 DEF Calls, Entry
<1>5. \A h \in Handlers : call'[h].undo = Nothing /\ flowsCall'[h].undo = Nothing /\ flowsCall'[h].todo = <<>>
  BY <1>2, <1>3
<1>6. DocSound(flows', runs) /\ DocSound(flowsDisk', runs)
  <2> DEFINE S == Flows!Interrupted(flowsDisk)
             kept == Flows!Drop(flowsDisk, {Flows!eventAdmission(n[2], n[3]) : n \in S})
             next == [n \in DOMAIN kept |-> IF n \in S THEN [kept[n] EXCEPT !.state = "FAILED"] ELSE kept[n]]
  <2>1. flows' \in {next, Nothing} /\ flowsDisk' \in {next, flowsDisk}
    BY DEF Crash, Flows!loadState, Flows!Nothing, Nothing
  <2>2. DocSound(kept, runs)
    BY DocChanges DEF IInv, FlowsSound
  <2>3. ASSUME NEW n, n \in DOMAIN kept PROVE ExecutionSound(n, next[n], runs)
    <3>1. ExecutionSound(n, kept[n], runs)
      BY <2>2, <2>3 DEF DocSound
    <3>2. ExecutionSound(n, [kept[n] EXCEPT !.state = "FAILED"], runs)
      BY <3>1, ExecutionValues
    <3> QED
      BY <2>3, <3>1, <3>2
  <2>4. DocSound(next, runs) /\ DocSound(Nothing, runs)
    <3>1. DOMAIN next = DOMAIN kept
      OBVIOUS
    <3> HIDE DEF next
    <3> QED
      BY <2>3, <3>1 DEF DocSound, Nothing
  <2> QED
    BY <2>1, <2>4 DEF IInv, FlowsSound
<1>7. FlowsSound'
  BY <1>1, <1>4, <1>5, <1>6, EmptyUndo, RequestListed DEF FlowsSound
<1>8. \A n, v : Copy(n, v)' => Copy(n, v)
  BY <1>1, <1>5 DEF Copy, Nothing
<1>9. IntentsSound' /\ Agreed'
  BY <1>1, <1>4, <1>8 DEF IInv, IntentsSound, Agreed
<1>10. WorkerSound'
  BY <1>2, <1>5, QueueAssumption DEF WorkerSound, Resting
<1> QED
  BY <1>7, <1>9, <1>10 DEF IInv

LEMMA InitSound == Init => IInv
<1> SUFFICES ASSUME Init PROVE IInv
  OBVIOUS
<1>1. /\ mem = Nothing /\ disk = Nothing /\ flows = Nothing /\ flowsDisk = Nothing
      /\ call = [h \in Handlers |-> [todo |-> <<>>, undo |-> Nothing, on |-> None]]
      /\ flowsCall = [h \in Handlers |-> [todo |-> <<>>, undo |-> Nothing, on |-> None]]
  BY DEF Init, ShimInit, Flows!ShimInit, Idle, Nothing, Flows!Idle, Flows!Nothing
<1>2. Calls(call) /\ Calls(flowsCall)
  BY <1>1 DEF Calls, Entry
<1>3. \A h \in Handlers : call[h].undo = Nothing /\ call[h].todo = <<>>
                          /\ flowsCall[h].undo = Nothing /\ flowsCall[h].todo = <<>>
  BY <1>1
<1>4. DocSound(Nothing, runs) /\ UndoSound(Nothing, runs)
  BY DEF DocSound, UndoSound, Nothing
<1>5. FlowsSound
  BY <1>1, <1>2, <1>3, <1>4, RequestListed DEF FlowsSound
<1>6. \A n, v : ~Copy(n, v)
  BY <1>1, <1>3 DEF Copy, Nothing
<1>7. IntentsSound /\ Agreed
  BY <1>2, <1>6 DEF IntentsSound, Agreed
<1>8. WorkerSound
  BY <1>3, QueueAssumption DEF WorkerSound, Resting
<1> QED
  BY <1>5, <1>7, <1>8 DEF IInv

LEMMA StepSound == IInv /\ [Next]_allVars => IInv'
<1> SUFFICES ASSUME IInv, [Next]_allVars PROVE IInv'
  OBVIOUS
<1>1. ASSUME NEW h \in Requests, EventRequest(h), UNCHANGED flowVars PROVE IInv'
  BY <1>1, EventarcKeeps DEF Requests
<1>2. ASSUME NEW h \in Requests, Flows!FlowRequest(h), UNCHANGED shimVars PROVE IInv'
  BY <1>2, WorkflowsKeep DEF Requests
<1>3. ASSUME NEW h \in Handlers, EventarcStep(h) PROVE IInv'
  BY <1>3, EventarcKeeps DEF EventarcStep
<1>4. ASSUME NEW h \in Handlers, WorkflowsStep(h) PROVE IInv'
  BY <1>4, WorkflowsKeep DEF WorkflowsStep
<1>5. CASE WorkerStep
  BY <1>5, AttemptKeeps, CallExecutorKeeps, TakeAnswerKeeps DEF WorkerStep
<1>6. CASE Crash
  BY <1>6, CrashKeeps
<1>7. CASE UNCHANGED allVars
  <2>1. UNCHANGED <<mem, disk, call, flows, flowsDisk, flowsCall, runs>>
    BY <1>7 DEF allVars, shimVars, flowVars
  <2>2. \A n, v : Copy(n, v)' <=> Copy(n, v)
    BY <2>1 DEF Copy
  <2>3. FlowsSound' /\ IntentsSound' /\ Agreed'
    BY <2>1, <2>2 DEF IInv, FlowsSound, IntentsSound, Agreed
  <2>4. WorkerSound'
    BY <2>1, <2>2 DEF IInv, WorkerSound, Resting, Executing, Destined
  <2> QED
    BY <2>3, <2>4 DEF IInv
<1> QED
  BY <1>1, <1>2, <1>3, <1>4, <1>5, <1>6, <1>7 DEF Next

LEMMA SoundAtAllTimes == Spec => []IInv
  BY InitSound, StepSound, PTL DEF Spec

-----------------------------------------------------------------------------
(* IntentsKept: an intent that has been made durable is in somebody's hands. *)
(* What a handler of Eventarc other than the worker can have left to do.     *)
EnqueueStep(D) == <<"enqueue", <<>>, D>>
OtherProgram(P) ==
    P \in {<<>>, FinishTrigger, <<Save(compensateState)>>, compensateState, Revert, <<Save(<<>>)>>}
IntendProgram(P) == \E x : P = <<<<"intend", <<>>, x>>>>
EnqueueProgram(P, D) == D \subseteq DeliveryIds /\ P = <<EnqueueStep(D)>>
(* Only the handler that made the intents would take them back.              *)
SaveFirstProgram(P, D, U) ==
    D \subseteq DeliveryIds /\ P = <<Save(Revert), EnqueueStep(D)>> /\ \A d \in D : Delivery(d) \in U
EventarcProgram(P, U) ==
    OtherProgram(P) \/ IntendProgram(P) \/ \E D : EnqueueProgram(P, D) \/ SaveFirstProgram(P, D, U)
HandsSound ==
    /\ queue \in Seq(DeliveryIds)
    /\ \A h \in Handlers \ {Worker} : EventarcProgram(call[h].todo, DOMAIN call[h].undo)

Queued(P, d) == \E i \in DOMAIN P : P[i][1] = "enqueue" /\ d \in P[i][3]
InQueue(d) == \E i \in DOMAIN queue : queue[i] = d
AtWorker(d) == (At(Worker, "execute") \/ At(Worker, "executing")) /\ Arg(Worker) = d

LEMMA Queuing ==
    ASSUME NEW d
    PROVE  /\ \A P : OtherProgram(P) \/ IntendProgram(P) => ~Queued(P, d)
           /\ \A D : Queued(<<EnqueueStep(D)>>, d) <=> d \in D
           /\ \A D : Queued(<<Save(Revert), EnqueueStep(D)>>, d) <=> d \in D
<1>1. \A a : DOMAIN <<a>> = {1} /\ <<a>>[1] = a
  OBVIOUS
<1>2. \A a, b : DOMAIN <<a, b>> = {1, 2} /\ <<a, b>>[1] = a /\ <<a, b>>[2] = b
  OBVIOUS
<1>3. /\ \A e : Save(e)[1] = "save" /\ Register(e)[1] = "register"
      /\ Undo[1] = "undo" /\ \A x : <<"intend", <<>>, x>>[1] = "intend"
      /\ \A D : EnqueueStep(D)[1] = "enqueue" /\ EnqueueStep(D)[3] = D
  BY DEF Save, Register, Undo, EnqueueStep
<1>4. ASSUME NEW P, OtherProgram(P) PROVE ~Queued(P, d)
  <2>1. \/ P = <<>>
        \/ \E a, b : P \in {<<a>>, <<a, b>>} /\ a[1] # "enqueue" /\ b[1] # "enqueue"
    <3>1. PICK u, s, k, r, c : /\ u = Undo /\ s = Save(Keep) /\ k = Save(<<>>) /\ r = Register(Revert)
                               /\ c = Save(compensateState)
      OBVIOUS
    <3>2. u[1] # "enqueue" /\ s[1] # "enqueue" /\ k[1] # "enqueue" /\ r[1] # "enqueue" /\ c[1] # "enqueue"
      BY <1>3, <3>1
    <3>3. P \in {<<>>, <<r, c>>, <<c>>, <<u, s>>, <<u>>, <<k>>}
      BY <1>4, <3>1 DEF OtherProgram, FinishTrigger, compensateState, Revert
    <3> QED
      BY <3>2, <3>3
  <2>2. DOMAIN <<>> = {}
    OBVIOUS
  <2> QED
    BY <1>1, <1>2, <2>1, <2>2 DEF Queued
<1>5. ASSUME NEW P, IntendProgram(P) PROVE ~Queued(P, d)
  <2>1. PICK x : P = <<<<"intend", <<>>, x>>>>
    BY <1>5 DEF IntendProgram
  <2>2. PICK a : a = <<"intend", <<>>, x>> /\ a[1] = "intend"
    BY <1>3
  <2>3. P = <<a>>
    BY <2>1, <2>2
  <2> QED
    BY <1>1, <2>2, <2>3 DEF Queued
<1>6. ASSUME NEW D PROVE Queued(<<EnqueueStep(D)>>, d) <=> d \in D
  <2>1. PICK a : a = EnqueueStep(D)
    OBVIOUS
  <2>2. Queued(<<a>>, d) <=> d \in D
    BY <1>1, <1>3, <2>1 DEF Queued
  <2> QED
    BY <2>1, <2>2
<1>7. ASSUME NEW D PROVE Queued(<<Save(Revert), EnqueueStep(D)>>, d) <=> d \in D
  <2>1. PICK s, a : s = Save(Revert) /\ a = EnqueueStep(D)
    OBVIOUS
  <2>2. Queued(<<s, a>>, d) <=> d \in D
    BY <1>2, <1>3, <2>1 DEF Queued
  <2> QED
    BY <2>1, <2>2
<1> QED
  BY <1>4, <1>5, <1>6, <1>7

(* The steps of the programs without a list of intents, and of the others.   *)
OtherFollows(P) ==
    /\ P # <<>> /\ Head(P)[1] \in {"undo", "save", "register", "intend"}
    /\ OtherProgram(Tail(P))
    /\ Head(P)[1] # "intend" => OtherProgram(Head(P)[2])

LEMMA OtherSteps ==
    ASSUME NEW P, OtherProgram(P) \/ IntendProgram(P), P # <<>>
    PROVE  OtherFollows(P)
<1>1. /\ \A e : Save(e)[1] = "save" /\ Save(e)[2] = e /\ Register(e)[1] = "register" /\ Register(e)[2] = e
      /\ Undo[1] = "undo" /\ Undo[2] = <<>> /\ \A x : <<"intend", <<>>, x>>[1] = "intend"
  BY DEF Save, Register, Undo
<1>2. CASE OtherProgram(P)
  <2>1. PICK u, s, r, c : /\ u = Undo /\ s = Save(<<>>) /\ r = Register(Revert) /\ c = Save(compensateState)
    OBVIOUS
  <2>2. /\ u[1] = "undo" /\ u[2] = <<>> /\ s[1] = "save" /\ s[2] = <<>>
        /\ r[1] = "register" /\ r[2] = <<u>> /\ c[1] = "save" /\ c[2] = <<u, s>>
    BY <1>1, <2>1 DEF Revert, compensateState, Keep
  <2>3. \A Q : OtherProgram(Q) <=> Q \in {<<>>, <<r, c>>, <<c>>, <<u, s>>, <<u>>, <<s>>}
    BY <2>1 DEF OtherProgram, FinishTrigger, compensateState, Revert, Keep
  <2>0. /\ \A a : <<a>> # <<>> /\ Head(<<a>>) = a /\ Tail(<<a>>) = <<>>
        /\ \A a, b : <<a, b>> # <<>> /\ Head(<<a, b>>) = a /\ Tail(<<a, b>>) = <<b>>
    BY Sequences
  <2>6. OtherProgram(<<>>) /\ OtherProgram(<<c>>) /\ OtherProgram(<<s>>) /\ OtherProgram(<<u>>) /\ OtherProgram(<<u, s>>)
    BY <2>3
  <2>4. CASE P \in {<<r, c>>, <<u, s>>}
    <3>1. CASE P = <<r, c>>
      BY <2>0, <2>2, <2>6, <3>1 DEF OtherFollows
    <3>2. CASE P = <<u, s>>
      BY <2>0, <2>2, <2>6, <3>2 DEF OtherFollows
    <3> QED
      BY <2>4, <3>1, <3>2
  <2>5. CASE P \in {<<c>>, <<u>>, <<s>>}
    <3>1. PICK a \in {c, u, s} : P = <<a>>
      BY <2>5
    <3>2. a[1] \in {"undo", "save"} /\ OtherProgram(a[2])
      BY <2>2, <2>6
    <3> QED
      BY <2>0, <2>6, <3>1, <3>2 DEF OtherFollows
  <2> QED
    BY <1>2, <2>3, <2>4, <2>5
<1>3. CASE IntendProgram(P)
  <2>1. PICK a : P = <<a>> /\ a[1] = "intend"
    BY <1>1, <1>3 DEF IntendProgram
  <2>2. Head(P) = a /\ Tail(P) = <<>> /\ P # <<>>
    BY <2>1, Sequences
  <2> QED
    BY <2>1, <2>2 DEF OtherFollows, OtherProgram
<1> QED
  BY <1>2, <1>3

LEMMA ListSteps ==
    ASSUME NEW D
    PROVE  LET P == <<EnqueueStep(D)>>
               Q == <<Save(Revert), EnqueueStep(D)>>
           IN  /\ P # <<>> /\ Head(P)[1] = "enqueue" /\ Head(P)[3] = D /\ Tail(P) = <<>>
               /\ Q # <<>> /\ Head(Q)[1] = "save" /\ Head(Q)[2] = Revert /\ Tail(Q) = P
<1>1. PICK s, a : s = Save(Revert) /\ a = EnqueueStep(D)
  OBVIOUS
<1>2. s[1] = "save" /\ s[2] = Revert /\ a[1] = "enqueue" /\ a[3] = D
  BY <1>1 DEF Save, EnqueueStep
<1>3. /\ <<a>> # <<>> /\ Head(<<a>>)[1] = "enqueue" /\ Head(<<a>>)[3] = D /\ Tail(<<a>>) = <<>>
      /\ <<s, a>> # <<>> /\ Head(<<s, a>>)[1] = "save" /\ Head(<<s, a>>)[2] = Revert /\ Tail(<<s, a>>) = <<a>>
  BY <1>2, Sequences
<1> QED
  BY <1>1, <1>3

HandMoves(h) ==
    /\ \E todo, undo : /\ Goes(call, call', h, todo, undo) /\ EventarcProgram(todo, DOMAIN undo)
                       /\ \A d : Queued(call[h].todo, d) => Queued(todo, d) \/ InQueue(d)' \/ Delivery(d) \in DOMAIN undo
    /\ queue' \in Seq(DeliveryIds) /\ \A d : InQueue(d) => InQueue(d)'
Kept == \A d : Waiting(d) /\ Held(d) /\ Waiting(d)' => Held(d)' \/ ~Settled(Delivery(d))'

LEMMA HeldParts ==
    ASSUME NEW d
    PROVE  Held(d) <=> InQueue(d) \/ AtWorker(d) \/ \E h \in Handlers : Queued(call[h].todo, d)
  BY DEF Held, InQueue, AtWorker, Queued

LEMMA HandMovesKeep ==
    ASSUME HandsSound, NEW h \in Handlers \ {Worker}, HandMoves(h)
    PROVE  HandsSound' /\ Kept
<1>1. PICK todo, undo : /\ Goes(call, call', h, todo, undo) /\ EventarcProgram(todo, DOMAIN undo)
                        /\ \A d : Queued(call[h].todo, d) => Queued(todo, d) \/ InQueue(d)' \/ Delivery(d) \in DOMAIN undo
  BY DEF HandMoves
<1>2. queue' \in Seq(DeliveryIds) /\ \A d : InQueue(d) => InQueue(d)'
  BY DEF HandMoves
<1>3. HandsSound'
  BY <1>1, <1>2 DEF HandsSound, Goes
<1>4. ASSUME NEW d, Held(d) PROVE Held(d)' \/ ~Settled(Delivery(d))'
  <2>1. call'[h].todo = todo /\ call'[h].undo = undo /\ \A x \in Handlers \ {h} : call'[x] = call[x]
    BY <1>1 DEF Goes
  <2>2. CASE InQueue(d)
    BY <1>2, <2>2 DEF Held, InQueue
  <2>3. CASE AtWorker(d)
    BY <2>1, <2>3, QueueAssumption DEF Held, AtWorker, At, Arg
  <2>4. ASSUME NEW x \in Handlers, Queued(call[x].todo, d) PROVE Held(d)' \/ ~Settled(Delivery(d))'
    <3>1. CASE x # h
      BY <2>1, <2>4, <3>1 DEF Held, Queued
    <3>2. CASE x = h /\ Queued(todo, d)
      BY <2>1, <3>2 DEF Held, Queued
    <3>3. CASE InQueue(d)'
      BY <3>3 DEF Held, InQueue
    <3>4. CASE Delivery(d) \in DOMAIN undo
      BY <2>1, <3>4 DEF Settled, Touches
    <3> QED
      BY <1>1, <2>4, <3>1, <3>2, <3>3, <3>4
  <2> QED
    BY <1>4, <2>2, <2>3, <2>4, HeldParts
<1> QED
  BY <1>3, <1>4 DEF Kept

LEMMA HandFollow ==
    ASSUME IntentsSound, NEW h \in Handlers, NEW todo, todo # <<>>, Follow(h, todo)
    PROVE  Goes(call, call', h, todo, call[h].undo)
<1>1. call' = [call EXCEPT ![h].todo = todo] /\ Calls(call)
  BY DEF Follow, IntentsSound
<1> QED
  BY <1>1, CallTodo

(* A step of a program without a list goes on with one.                      *)
LEMMA OtherMoves ==
    ASSUME IInv, HandsSound, NEW h \in Handlers \ {Worker}, NEW todo, Follow(h, todo), OtherProgram(todo), queue' = queue,
           OtherProgram(call[h].todo) \/ IntendProgram(call[h].todo)
    PROVE  HandMoves(h)
<1>1. PICK undo : Goes(call, call', h, todo, undo)
  BY EventFollow DEF IInv
<1>2. \A d : ~Queued(call[h].todo, d)
  BY Queuing
<1> QED
  BY <1>1, <1>2 DEF HandMoves, EventarcProgram, HandsSound, InQueue

LEMMA HandSaveMoves ==
    ASSUME IInv, HandsSound, NEW h \in Handlers \ {Worker}, persistState(h), queue' = queue
    PROVE  HandMoves(h)
<1>1. call[h].todo # <<>> /\ Head(call[h].todo)[1] = "save"
  BY DEF persistState, SaveOk, SaveFails, At
<1>2. PICK todo \in {Tail(call[h].todo), Head(call[h].todo)[2]} : Follow(h, todo)
  BY DEF persistState, SaveOk, SaveFails, Proceed, Fail
<1>3. CASE OtherProgram(call[h].todo) \/ IntendProgram(call[h].todo)
  <2>1. OtherProgram(todo)
    BY <1>1, <1>2, <1>3, OtherSteps DEF OtherFollows
  <2> QED
    BY <1>2, <1>3, <2>1, OtherMoves
<1>4. ASSUME NEW D, EnqueueProgram(call[h].todo, D) PROVE HandMoves(h)
  BY <1>1, <1>4, ListSteps DEF EnqueueProgram
<1>5. ASSUME NEW D, SaveFirstProgram(call[h].todo, D, DOMAIN call[h].undo) PROVE HandMoves(h)
  <2>1. todo \in {<<EnqueueStep(D)>>, Revert}
    BY <1>2, <1>5, ListSteps DEF SaveFirstProgram
  <2>2. Revert # <<>> /\ <<EnqueueStep(D)>> # <<>>
    BY Sequences DEF Revert
  <2>3. Goes(call, call', h, todo, call[h].undo)
    BY <1>2, <2>1, <2>2, HandFollow DEF IInv
  <2>4. EventarcProgram(todo, DOMAIN call[h].undo)
    <3>1. OtherProgram(Revert)
      BY DEF OtherProgram
    <3>2. EnqueueProgram(<<EnqueueStep(D)>>, D)
      BY <1>5 DEF EnqueueProgram, SaveFirstProgram
    <3> QED
      BY <2>1, <3>1, <3>2 DEF EventarcProgram
  <2>5. \A d : Queued(call[h].todo, d) => d \in D
    BY <1>5, Queuing DEF SaveFirstProgram
  <2>6. \A d \in D : Delivery(d) \in DOMAIN call[h].undo
    BY <1>5 DEF SaveFirstProgram
  <2> QED
    BY <2>3, <2>4, <2>5, <2>6 DEF HandMoves, HandsSound, InQueue
<1> QED
  BY <1>3, <1>4, <1>5 DEF HandsSound, EventarcProgram

(* The other steps belong to programs of one kind.                           *)
LEMMA HandKinds ==
    ASSUME HandsSound, NEW h \in Handlers \ {Worker}, call[h].todo # <<>>
    PROVE  /\ Head(call[h].todo)[1] \in {"undo", "register", "intend"} =>
                 OtherProgram(call[h].todo) \/ IntendProgram(call[h].todo)
           /\ Head(call[h].todo)[1] = "enqueue" => \E D : EnqueueProgram(call[h].todo, D)
<1>1. CASE OtherProgram(call[h].todo) \/ IntendProgram(call[h].todo)
  BY <1>1, OtherSteps DEF OtherFollows
<1>2. ASSUME NEW D, EnqueueProgram(call[h].todo, D) PROVE Head(call[h].todo)[1] = "enqueue"
  BY <1>2, ListSteps DEF EnqueueProgram
<1>3. ASSUME NEW D, SaveFirstProgram(call[h].todo, D, DOMAIN call[h].undo) PROVE Head(call[h].todo)[1] = "save"
  BY <1>3, ListSteps DEF SaveFirstProgram
<1> QED
  BY <1>1, <1>2, <1>3 DEF HandsSound, EventarcProgram

LEMMA HandOtherMoves ==
    ASSUME IInv, HandsSound, NEW h \in Handlers \ {Worker}, Rollback(h) \/ OperationWrite(h), queue' = queue
    PROVE  HandMoves(h)
<1>1. call[h].todo # <<>> /\ Head(call[h].todo)[1] \in {"undo", "register", "finalize"}
  BY DEF Rollback, OperationWrite, At
<1>2. OtherProgram(call[h].todo) \/ IntendProgram(call[h].todo)
  <2>1. \A D : ~EnqueueProgram(call[h].todo, D) /\ ~SaveFirstProgram(call[h].todo, D, DOMAIN call[h].undo)
    BY <1>1, ListSteps DEF EnqueueProgram, SaveFirstProgram
  <2> QED
    BY <2>1 DEF HandsSound, EventarcProgram
<1>3. PICK todo \in {Tail(call[h].todo), Head(call[h].todo)[2]} : Follow(h, todo)
  BY DEF Rollback, OperationWrite, Proceed, Fail
<1>4. OtherProgram(todo)
  BY <1>1, <1>2, <1>3, OtherSteps DEF OtherFollows
<1> QED
  BY <1>2, <1>3, <1>4, OtherMoves

LEMMA HandRecordMoves ==
    ASSUME IInv, HandsSound, NEW h \in Handlers \ {Worker}, recordIntents(h)
    PROVE  HandMoves(h)
<1>1. /\ call[h].todo # <<>> /\ Head(call[h].todo)[1] = "intend" /\ queue' = queue
      /\ OtherProgram(call[h].todo) \/ IntendProgram(call[h].todo)
  BY HandKinds DEF recordIntents, At
<1>2. CASE Proceed(h)
  BY <1>1, <1>2, OtherSteps, OtherMoves DEF Proceed, OtherFollows
<1>3. CASE ~Proceed(h)
  <2> DEFINE e == Arg(h)[1]
             current == {n \in Arg(h)[2] : matchesTrigger(n, e)}
             id == CHOOSE f \in nextIDs(current) : TRUE
             S == {Delivery(id[n]) : n \in current} \union {Payload(id[None])}
             D == {id[n] : n \in current}
             todo == <<Save(Revert), EnqueueStep(D)>>
             undo == [m \in S |-> None]
  <2>1. /\ nextIDs(current) # {}
        /\ call' = [call EXCEPT ![h].undo = undo, ![h].todo = todo]
    BY <1>3 DEF recordIntents, EnqueueStep, Keep
  <2>2. Goes(call, call', h, todo, undo)
    BY <2>1, CallParts DEF IInv, IntentsSound
  <2>3. D \subseteq DeliveryIds
    <3>1. PICK f : f = id
      OBVIOUS
    <3>2. f \in nextIDs(current)
      BY <2>1, <3>1
    <3>3. f \in [current \union {None} -> FreshIds]
      BY <3>2 DEF nextIDs
    <3>4. \A n \in current : f[n] \in FreshIds
      <4> HIDE DEF current
      <4> QED
        BY <3>3
    <3> QED
      BY <3>1, <3>4 DEF FreshIds
  <2>4. \A d \in D : Delivery(d) \in DOMAIN undo
    OBVIOUS
  <2>5. SaveFirstProgram(todo, D, DOMAIN undo)
    <3> HIDE DEF D, undo
    <3> QED
      BY <2>3, <2>4 DEF SaveFirstProgram
  <2>6. \A d : ~Queued(call[h].todo, d)
    BY <1>1, Queuing
  <2> HIDE DEF todo, undo, D
  <2> QED
    BY <1>1, <2>2, <2>5, <2>6 DEF HandMoves, EventarcProgram, HandsSound, InQueue
<1> QED
  BY <1>2, <1>3

LEMMA QueueGrows ==
    ASSUME queue \in Seq(DeliveryIds), NEW d \in DeliveryIds, queue' = Append(queue, d)
    PROVE  queue' \in Seq(DeliveryIds) /\ InQueue(d)' /\ \A x : InQueue(x) => InQueue(x)'
<1>1. /\ queue' \in Seq(DeliveryIds) /\ Len(queue') = Len(queue) + 1 /\ queue'[Len(queue) + 1] = d
      /\ \A i \in 1..Len(queue) : queue'[i] = queue[i]
  BY AppendProperties
<1>2. Len(queue) \in Nat /\ DOMAIN queue = 1..Len(queue) /\ DOMAIN queue' = 1..Len(queue')
  BY <1>1
<1> QED
  BY <1>1, <1>2 DEF InQueue

LEMMA HandEnqueueMoves ==
    ASSUME IInv, HandsSound, NEW h \in Handlers \ {Worker}, enqueueDelivery(h)
    PROVE  HandMoves(h)
<1>1. call[h].todo # <<>> /\ Head(call[h].todo)[1] = "enqueue"
  BY DEF enqueueDelivery, At
<1>2. PICK D : D \subseteq DeliveryIds /\ call[h].todo = <<EnqueueStep(D)>>
  BY <1>1, HandKinds DEF EnqueueProgram
<1>3. Arg(h) = D /\ Tail(call[h].todo) = <<>>
  BY <1>2, ListSteps DEF Arg
<1>4. PICK d \in D : /\ queue' = Append(queue, d)
                     /\ IF D = {d} THEN Follow(h, <<>>)
                        ELSE call' = [call EXCEPT ![h].todo = <<EnqueueStep(D \ {d})>>, ![h].undo = Nothing]
  BY <1>3 DEF enqueueDelivery, Proceed, EnqueueStep, Keep
<1>5. queue' \in Seq(DeliveryIds) /\ InQueue(d)' /\ \A x : InQueue(x) => InQueue(x)'
  BY <1>2, <1>4, QueueGrows DEF HandsSound
<1>6. \A x : Queued(call[h].todo, x) => x \in D
  BY <1>2, Queuing
<1>7. CASE D = {d}
  <2>1. PICK undo : Goes(call, call', h, <<>>, undo)
    BY <1>4, <1>7, EventFollow DEF IInv
  <2>2. OtherProgram(<<>>)
    BY DEF OtherProgram
  <2> QED
    BY <1>5, <1>6, <1>7, <2>1, <2>2 DEF HandMoves, EventarcProgram
<1>8. CASE D # {d}
  <2>1. Goes(call, call', h, <<EnqueueStep(D \ {d})>>, Nothing)
    BY <1>4, <1>8, CallParts DEF IInv, IntentsSound
  <2>2. EventarcProgram(<<EnqueueStep(D \ {d})>>, DOMAIN Nothing)
    BY <1>2 DEF EventarcProgram, EnqueueProgram
  <2>3. \A x \in D : x = d \/ Queued(<<EnqueueStep(D \ {d})>>, x)
    BY Queuing
  <2> QED
    BY <1>5, <1>6, <2>1, <2>2, <2>3 DEF HandMoves
<1> QED
  BY <1>7, <1>8

(* Requests begin with a handler that has nothing to do.                     *)
LEMMA HandRequestMoves ==
    ASSUME IInv, HandsSound, NEW h \in Handlers \ {Worker}, EventRequest(h)
    PROVE  HandMoves(h)
<1>1. ASSUME NEW doc, NEW S, Handle(h, doc, S, FinishTrigger), queue' = queue PROVE HandMoves(h)
  <2>1. call[h].todo = <<>>
    BY <1>1 DEF Handle, MayStart, Idle
  <2>2. Goes(call, call', h, FinishTrigger, [n \in S |-> Value(mem, n)])
    BY <1>1, CallSet DEF Handle, Change, Before, IInv, IntentsSound
  <2>3. OtherProgram(FinishTrigger) /\ OtherProgram(<<>>)
    BY DEF OtherProgram
  <2>4. \A d : ~Queued(call[h].todo, d)
    BY <2>1, <2>3, Queuing
  <2> QED
    BY <1>1, <2>2, <2>3, <2>4 DEF HandMoves, EventarcProgram, HandsSound, InQueue
<1>2. CASE HandleEventWithAck(h)
  <2>1. PICK x : /\ call' = [call EXCEPT ![h] = [todo |-> <<<<"intend", <<>>, x>>>>, undo |-> Nothing, on |-> None]]
                 /\ call[h].todo = <<>> /\ queue' = queue
    <3>1. PICK e : Look(h, None, <<<<"intend", <<>>, <<e, {n \in Triggers : matchesTrigger(n, e)}>>>>>>) /\ queue' = queue
      BY <1>2 DEF HandleEventWithAck, Keep
    <3>2. PICK x : Look(h, None, <<<<"intend", <<>>, x>>>>) /\ queue' = queue
      BY <3>1
    <3>3. call[h].todo = <<>>
      BY <3>2 DEF Look, MayStart, Idle
    <3> QED
      BY <3>2, <3>3 DEF Look
  <2>2. Goes(call, call', h, <<<<"intend", <<>>, x>>>>, Nothing)
    BY <2>1, CallSet DEF IInv, IntentsSound
  <2>3. IntendProgram(<<<<"intend", <<>>, x>>>>) /\ OtherProgram(<<>>)
    BY DEF IntendProgram, OtherProgram
  <2>4. \A d : ~Queued(call[h].todo, d)
    BY <2>1, <2>3, Queuing
  <2> QED
    BY <2>1, <2>2, <2>3, <2>4 DEF HandMoves, EventarcProgram, HandsSound, InQueue
<1> QED
  BY <1>1, <1>2 DEF EventRequest, createTrigger, patchTrigger, deleteTrigger

(* The worker after an attempt: it holds nothing.                            *)
LEMMA WorkerSaveKeeps ==
    ASSUME IInv, HandsSound, EventStep(Worker)
    PROVE  HandsSound' /\ Kept
<1>1. call[Worker].todo # <<>> /\ Head(call[Worker].todo)[1] \in {"intend", "enqueue", "save", "undo", "register", "finalize"}
  BY DEF EventStep, recordIntents, enqueueDelivery, persistState, SaveOk, SaveFails, Rollback, OperationWrite, At
<1>2. /\ call[Worker].todo = <<Save(<<>>)>> /\ Head(call[Worker].todo)[1] = "save"
      /\ Head(call[Worker].todo)[2] = <<>> /\ Tail(call[Worker].todo) = <<>>
  BY <1>1, WorkerAt DEF IInv
<1>3. Follow(Worker, <<>>) /\ queue' = queue
  BY <1>2 DEF EventStep, recordIntents, enqueueDelivery, persistState, SaveOk, SaveFails, Rollback, OperationWrite, At,
              Proceed, Fail
<1>4. PICK undo : Goes(call, call', Worker, <<>>, undo)
  BY <1>3, EventFollow, QueueAssumption DEF IInv
<1>5. \A d : ~Queued(call[Worker].todo, d) /\ ~AtWorker(d)
  BY <1>2, Queuing DEF OtherProgram, AtWorker, At
<1>6. ASSUME NEW d, Held(d) PROVE Held(d)'
  <2>1. CASE InQueue(d)
    BY <1>3, <2>1 DEF InQueue, Held
  <2>2. ASSUME NEW h \in Handlers, Queued(call[h].todo, d) PROVE Held(d)'
    BY <1>4, <1>5, <2>2 DEF Goes, Held, Queued
  <2> QED
    BY <1>5, <1>6, <2>1, <2>2, HeldParts
<1>7. HandsSound'
  BY <1>3, <1>4 DEF HandsSound, Goes
<1> QED
  BY <1>6, <1>7 DEF Kept

(* An intent goes from the queue to the worker, and to the executor; with    *)
(* the answer it is no longer waiting.                                       *)
LEMMA QueueShrinks ==
    ASSUME queue \in Seq(DeliveryIds), queue # <<>>, queue' = Tail(queue)
    PROVE  queue' \in Seq(DeliveryIds) /\ \A x : InQueue(x) => InQueue(x)' \/ x = Head(queue)
<1>1. /\ queue' \in Seq(DeliveryIds) /\ Len(queue') = Len(queue) - 1 /\ Len(queue) \in Nat \ {0}
      /\ \A i \in 1..Len(queue') : queue'[i] = queue[i + 1]
  BY HeadTailProperties, EmptySeq
<1>2. Head(queue) = queue[1] /\ DOMAIN queue = 1..Len(queue) /\ DOMAIN queue' = 1..Len(queue')
  BY <1>1
<1>3. ASSUME NEW i \in 2..Len(queue) PROVE queue'[i - 1] = queue[i] /\ i - 1 \in 1..Len(queue')
  BY <1>1, <1>3
<1>4. ASSUME NEW x, InQueue(x) PROVE InQueue(x)' \/ x = Head(queue)
  <2>1. PICK i \in 1..Len(queue) : queue[i] = x
    BY <1>2, <1>4 DEF InQueue
  <2>2. i = 1 \/ i \in 2..Len(queue)
    BY <1>1, <2>1
  <2> QED
    BY <1>2, <1>3, <2>1, <2>2 DEF InQueue
<1> QED
  BY <1>1, <1>4

LEMMA AttemptKeepsHands ==
    ASSUME IInv, HandsSound, attemptDelivery
    PROVE  HandsSound' /\ Kept
<1>0. PICK d, w : d = Head(queue) /\ w = mem[Delivery(d)].workflow
  OBVIOUS
<1>1. /\ call[Worker].todo = <<>> /\ queue # <<>> /\ queue' = Tail(queue) /\ mem' = mem
      /\ call' = IF Delivery(d) \in Live
                 THEN [call EXCEPT ![Worker] = [Idle EXCEPT !.todo = <<<<"execute", Keep, d, w>>>>]] ELSE call
  BY <1>0 DEF attemptDelivery, Idle
<1>2. queue' \in Seq(DeliveryIds) /\ \A x : InQueue(x) => InQueue(x)' \/ x = d
  BY <1>0, <1>1, QueueShrinks DEF HandsSound
<1>3. \A x : ~AtWorker(x) /\ ~Queued(call[Worker].todo, x)
  BY <1>1, Queuing DEF OtherProgram, AtWorker, At
<1>4. CASE Delivery(d) \in Live
  <2>1. [Idle EXCEPT !.todo = <<<<"execute", Keep, d, w>>>>] = [todo |-> <<ExecuteStep(d, w)>>, undo |-> Nothing, on |-> None]
    BY DEF Idle, ExecuteStep, Keep
  <2>2. Goes(call, call', Worker, <<ExecuteStep(d, w)>>, Nothing)
    BY <1>1, <1>4, <2>1, CallSet, QueueAssumption DEF IInv, IntentsSound
  <2>3. AtWorker(d)'
    <3>1. call'[Worker].todo = <<ExecuteStep(d, w)>>
      BY <2>2 DEF Goes
    <3>2. call'[Worker].todo # <<>> /\ Head(call'[Worker].todo) = ExecuteStep(d, w)
      BY <3>1, Sequences
    <3> QED
      BY <3>2 DEF AtWorker, At, Arg, ExecuteStep
  <2>4. \A x : Held(x) => Held(x)'
    <3>1. ASSUME NEW x, NEW h \in Handlers, Queued(call[h].todo, x) PROVE Held(x)'
      BY <1>3, <2>2, <3>1 DEF Goes, Held, Queued
    <3>2. ASSUME NEW x, InQueue(x) PROVE Held(x)'
      BY <1>2, <2>3, <3>2 DEF Held, InQueue, AtWorker
    <3> QED
      BY <1>3, <3>1, <3>2, HeldParts
  <2>5. HandsSound'
    BY <1>2, <2>2 DEF HandsSound, Goes
  <2> QED
    BY <2>4, <2>5 DEF Kept
<1>5. CASE Delivery(d) \notin Live
  <2>1. call' = call
    BY <1>1, <1>5
  <2>2. HandsSound'
    BY <1>2, <2>1 DEF HandsSound
  <2>3. ASSUME NEW x, Waiting(x), Held(x) PROVE Held(x)'
    <3>1. x # d
      BY <1>5, <2>3 DEF Waiting
    <3> QED
      BY <1>2, <1>3, <2>1, <2>3, <3>1, HeldParts DEF Held, InQueue, Queued
  <2> QED
    BY <2>2, <2>3 DEF Kept
<1> QED
  BY <1>4, <1>5

LEMMA WorkerLists ==
    ASSUME WorkerSound, NEW d
    PROVE  ~Queued(call[Worker].todo, d)
<1>1. CASE Resting
  BY <1>1, Queuing DEF Resting, OtherProgram
<1>2. ASSUME NEW a, call[Worker].todo = <<a>>, a[1] # "enqueue" PROVE ~Queued(call[Worker].todo, d)
  <2>1. DOMAIN <<a>> = {1} /\ <<a>>[1] = a
    OBVIOUS
  <2> QED
    BY <1>2, <2>1 DEF Queued
<1>3. ASSUME NEW x, NEW w, Executing(x, w) PROVE ~Queued(call[Worker].todo, d)
  <2>1. ExecuteStep(x, w)[1] = "execute" /\ ExecutingStep(x)[1] = "executing"
    BY DEF ExecuteStep, ExecutingStep
  <2> QED
    BY <1>2, <1>3, <2>1 DEF Executing
<1> QED
  BY <1>1, <1>3 DEF WorkerSound

LEMMA CallExecutorKeepsHands ==
    ASSUME IInv, HandsSound, CallExecutor
    PROVE  HandsSound' /\ Kept
<1>1. PICK d : d = Arg(Worker)
  OBVIOUS
<1>2. call' = [call EXCEPT ![Worker].todo = <<ExecutingStep(d)>>] /\ queue' = queue
  BY <1>1 DEF CallExecutor, ExecutingStep, Keep
<1>3. Goes(call, call', Worker, <<ExecutingStep(d)>>, call[Worker].undo)
  BY <1>2, CallTodo, QueueAssumption DEF IInv, IntentsSound
<1>4. AtWorker(d)'
  <2>1. call'[Worker].todo # <<>> /\ Head(call'[Worker].todo) = ExecutingStep(d)
    BY <1>3, Sequences DEF Goes
  <2> QED
    BY <2>1 DEF AtWorker, At, Arg, ExecutingStep
<1>5. ASSUME NEW x, Held(x) PROVE Held(x)'
  <2>1. CASE InQueue(x)
    BY <1>2, <2>1 DEF InQueue, Held
  <2>2. CASE AtWorker(x)
    BY <1>1, <1>4, <2>2 DEF AtWorker, Held
  <2>3. ASSUME NEW h \in Handlers, Queued(call[h].todo, x) PROVE Held(x)'
    BY <1>3, <2>3, WorkerLists DEF IInv, Goes, Held, Queued
  <2> QED
    BY <1>5, <2>1, <2>2, <2>3, HeldParts
<1>6. HandsSound'
  BY <1>2, <1>3 DEF HandsSound, Goes
<1> QED
  BY <1>5, <1>6 DEF Kept

LEMMA TakeAnswerKeepsHands ==
    ASSUME IInv, HandsSound, TakeAnswer
    PROVE  HandsSound' /\ Kept
<1> DEFINE n == Delivery(Arg(Worker))
<1>1. queue' = queue
  BY DEF TakeAnswer, recordOutcome
<1>2. \A h \in Handlers \ {Worker} : call'[h] = call[h]
  <2>1. Calls(call)
    BY DEF IInv, IntentsSound
  <2>2. \/ Follow(Worker, <<Save(Keep)>>)
        \/ \E v : Record(Worker, Put(mem, n, v), {n}, <<Save(Keep)>>)
    BY DEF TakeAnswer, recordOutcome
  <2>3. \E r : call' = [call EXCEPT ![Worker] = r]
    BY <2>2 DEF Follow, Record
  <2> QED
    BY <2>1, <2>3 DEF Calls
<1>3. HandsSound'
  BY <1>1, <1>2 DEF HandsSound
<1>4. ASSUME NEW d, Waiting(d), Held(d), Waiting(d)' PROVE Held(d)'
  <2>1. CASE InQueue(d)
    BY <1>1, <2>1 DEF InQueue, Held
  <2>2. ASSUME NEW h \in Handlers, Queued(call[h].todo, d) PROVE Held(d)'
    BY <1>2, <2>2, WorkerLists DEF IInv, Held, Queued
  <2>3. CASE AtWorker(d)
    <3>1. n = Delivery(d) /\ n \in DOMAIN mem
      BY <1>4, <2>3 DEF AtWorker, Waiting, Live
    <3>2. PICK s : s # "ATTEMPTING" /\ mem' = Put(mem, n, [mem[n] EXCEPT !.state = s])
      <4>1. PICK s : /\ s = IF Head(flowsCall[Worker].todo)[5] THEN "SUCCEEDED" ELSE "FAILED"
                     /\ s # "ATTEMPTING"
        OBVIOUS
      <4>2. mem' = Put(mem, n, [mem[n] EXCEPT !.state = s])
        BY <3>1, <4>1 DEF TakeAnswer, recordOutcome, Record, Live
      <4> QED
        BY <4>1, <4>2
    <3>3. mem[n] = [trigger |-> mem[n].trigger, workflow |-> mem[n].workflow, payload |-> mem[n].payload, state |-> mem[n].state]
      BY <3>1 DEF IInv, IntentsSound, IntentSound, Copy, Delivery
    <3>4. mem'[n].state = s
      <4>1. [mem[n] EXCEPT !.state = s].state = s
        BY <3>3
      <4> QED
        BY <3>2, <4>1 DEF Put
    <3> QED
      BY <1>4, <3>1, <3>2, <3>4 DEF Waiting
  <2> QED
    BY <1>4, <2>1, <2>2, <2>3, HeldParts
<1> QED
  BY <1>3, <1>4 DEF Kept

(* A start queues again whatever has not succeeded.                          *)
LEMMA CrashKeepsHands ==
    ASSUME IInv, Crash
    PROVE  HandsSound' /\ Kept
<1>1. queue' = <<>> /\ mem' \in {disk, Nothing}
  BY DEF Crash, loadState
<1>2. PICK D : D = replayEligible(mem')
  OBVIOUS
<1>3. D \subseteq DeliveryIds
  BY <1>1, <1>2 DEF replayEligible, Deliveries, Of, IInv, IntentsSound, IntentSound, Copy, Nothing
<1>4. /\ \A h \in Handlers \ {Boot} : call'[h].todo = <<>>
      /\ call'[Boot].todo = IF D # {} THEN <<EnqueueStep(D)>> ELSE <<>>
  <2>1. call' = [h \in Handlers |-> IF h = Boot /\ D # {} THEN [Idle EXCEPT !.todo = <<EnqueueStep(D)>>] ELSE Idle]
    BY <1>2 DEF Crash, loadState, EnqueueStep, Keep
  <2>2. [Idle EXCEPT !.todo = <<EnqueueStep(D)>>].todo = <<EnqueueStep(D)>> /\ Idle.todo = <<>>
    BY DEF Idle
  <2> QED
    BY <2>1, <2>2, QueueAssumption
<1>5. HandsSound'
  <2>1. OtherProgram(<<>>) /\ EnqueueProgram(<<EnqueueStep(D)>>, D)
    BY <1>3 DEF OtherProgram, EnqueueProgram
  <2> QED
    BY <1>1, <1>4, <2>1 DEF HandsSound, EventarcProgram
<1>6. ASSUME NEW d, Waiting(d)' PROVE Held(d)'
  <2>1. d \in D
    <3>1. Delivery(d) \in DOMAIN mem' /\ mem'[Delivery(d)].state = "ATTEMPTING"
      BY <1>6 DEF Waiting, Live
    <3>2. Delivery(d)[1] = "delivery" /\ Delivery(d)[3] = d
      BY DEF Delivery
    <3> QED
      BY <1>2, <3>1, <3>2 DEF replayEligible, Deliveries, Of
  <2>2. Queued(call'[Boot].todo, d)
    BY <1>4, <2>1, Queuing
  <2> QED
    BY <2>2, QueueAssumption DEF Held, Queued
<1> QED
  BY <1>5, <1>6 DEF Kept

LEMMA HandsInit == Init => HandsSound
<1> SUFFICES ASSUME Init PROVE HandsSound
  OBVIOUS
<1>1. queue = <<>> /\ \A h \in Handlers : call[h].todo = <<>>
  BY DEF Init, ShimInit, Idle
<1>2. OtherProgram(<<>>)
  BY DEF OtherProgram
<1> QED
  BY <1>1, <1>2 DEF HandsSound, EventarcProgram

LEMMA HandsStep == IInv /\ HandsSound /\ [Next]_allVars => HandsSound' /\ Kept
<1> SUFFICES ASSUME IInv, HandsSound, [Next]_allVars PROVE HandsSound' /\ Kept
  OBVIOUS
<1>1. ASSUME NEW h \in Requests, EventRequest(h) PROVE HandsSound' /\ Kept
  BY <1>1, HandRequestMoves, HandMovesKeep DEF Requests
<1>2. ASSUME NEW h \in Handlers, EventarcStep(h) PROVE HandsSound' /\ Kept
  <2>1. CASE h = Worker
    BY <1>2, <2>1, WorkerSaveKeeps DEF EventarcStep
  <2>2. CASE h # Worker
    BY <1>2, <2>2, HandRecordMoves, HandEnqueueMoves, HandSaveMoves, HandOtherMoves, HandMovesKeep DEF EventarcStep, EventStep
  <2> QED
    BY <2>1, <2>2
<1>3. CASE WorkerStep
  BY <1>3, AttemptKeepsHands, CallExecutorKeepsHands, TakeAnswerKeepsHands DEF WorkerStep
<1>4. CASE Crash
  BY <1>4, CrashKeepsHands
<1>5. CASE UNCHANGED <<shimVars, queue>>
  <2>1. UNCHANGED <<call, queue>>
    BY <1>5 DEF shimVars
  <2>2. \A d : Held(d) => Held(d)'
    BY <2>1 DEF Held, At, Arg
  <2> QED
    BY <2>1, <2>2 DEF HandsSound, Kept
<1> QED
  BY <1>1, <1>2, <1>3, <1>4, <1>5 DEF Next, WorkflowsStep, allVars

(* EventarcAPI.recordOutcome marks a delivery SUCCEEDED only on the answer   *)
(* that CreateExecutionFromEvent gives after the steps of the workflow have  *)
(* run for that delivery: whatever requests, refused saves, cancellations,   *)
(* patches of workflows and restarts come between the run and the record.    *)
THEOREM SucceededHasRunHolds == Spec => []SucceededHasRun
<1>1. IInv => SucceededHasRun
  <2> SUFFICES ASSUME IInv, NEW m \in Deliveries(mem) \union Deliveries(disk),
                      NEW v, v = IF m \in DOMAIN mem THEN mem[m] ELSE disk[m], v.state = "SUCCEEDED"
               PROVE  \E r \in runs : r[2] = v.workflow /\ r[3] = m[3]
    BY DEF SucceededHasRun
  <2>1. m[1] = "delivery" /\ Copy(m, v)
    BY DEF Deliveries, Of, Copy
  <2>2. IntentSound(m, v, runs)
    BY <2>1 DEF IInv, IntentsSound
  <2> QED
    BY <2>2 DEF IntentSound, HasRun
<1> QED
  BY <1>1, SoundAtAllTimes, PTL

(* An intent that was made durable and has not been attempted stays queued,  *)
(* on its way into the bounded queue or with the worker: HandleEventWithAck, *)
(* enqueueDelivery, attemptDelivery and replayDeliveries hand it on without  *)
(* a gap, for any number of events, triggers and starts.                     *)
THEOREM IntentsKeptHolds == Spec => IntentsKept
<1>1. IInv /\ HandsSound /\ [Next]_allVars => [\A d \in DeliveryIds : Waiting(d) /\ Held(d) /\ Waiting(d)'
                                                => Held(d)' \/ ~Settled(Delivery(d))']_allVars
  BY HandsStep DEF Kept
<1>2. Spec => []HandsSound
  BY HandsInit, HandsStep, SoundAtAllTimes, PTL DEF Spec
<1> QED
  BY <1>1, <1>2, SoundAtAllTimes, PTL DEF Spec, IntentsKept

-----------------------------------------------------------------------------
(* RunsOnce, for a client that sends one request at a time.  made is what    *)
(* tells a workflow from the one that had its name before it; the steps that *)
(* have run are known from the executions and admissions that stay.          *)
Counter(doc) == IF Flows!revCounter \in DOMAIN doc THEN doc[Flows!revCounter] ELSE 0
RanAs(w, d, k) == <<"ran", w, d, k>>
Entered(doc, w, d) == Flows!Execution(w, d) \in DOMAIN doc
AdmittedIn(doc, w, d) == Flows!Value(doc, Flows!eventAdmission(w, d)) = "ADMITTED"
EnteredIn(doc, w, d, k) == w \in DOMAIN doc /\ doc[w].made = k => Entered(doc, w, d)
MarkedIn(doc, w, d, k) ==
    /\ k \in Nat /\ k <= Counter(doc) /\ EnteredIn(doc, w, d, k)
    /\ w \in DOMAIN doc /\ doc[w].made = k => ~AdmittedIn(doc, w, d)
DocOnce(doc, R) ==
    /\ Counter(doc) \in Nat
    /\ \A w \in Flows!Workflows : w \in DOMAIN doc => doc[w].made \in Nat /\ doc[w].made <= Counter(doc)
    /\ \A w \in Flows!Workflows, d \in DeliveryIds : \A k : RanAs(w, d, k) \in R => MarkedIn(doc, w, d, k)

(* A change that keeps what is known: a workflow of the new maps is an old   *)
(* one, with its executions and no other admissions, or has a new revision.  *)
SameFlow(doc, new, w) ==
    /\ w \in DOMAIN doc /\ new[w].made = doc[w].made
    /\ \A d \in DeliveryIds : /\ Entered(doc, w, d) => Entered(new, w, d)
                              /\ AdmittedIn(new, w, d) => AdmittedIn(doc, w, d)
NewFlow(doc, new, w) == new[w].made \in Nat /\ Counter(doc) < new[w].made /\ new[w].made <= Counter(new)
Tame(doc, new) ==
    /\ Counter(new) \in Nat /\ Counter(doc) <= Counter(new)
    /\ \A w \in Flows!Workflows : w \in DOMAIN new => SameFlow(doc, new, w) \/ NewFlow(doc, new, w)

(* None stands for what is not there, and is no name and no value.           *)
NoneIsSpecial ==
    None \notin Flows!Workflows /\ None # "ADMITTED" /\ \A s, r : None # [state |-> s, revision |-> r]

LEMMA TameKeeps ==
    ASSUME NEW doc, NEW new, Tame(doc, new), Counter(doc) \in Nat
    PROVE  /\ \A R : DocOnce(doc, R) => DocOnce(new, R)
           /\ \A w \in Flows!Workflows, d \in DeliveryIds : \A k \in Nat :
                 k <= Counter(doc) /\ EnteredIn(doc, w, d, k) => EnteredIn(new, w, d, k)
           /\ \A w \in Flows!Workflows, d \in DeliveryIds : \A k :
                 MarkedIn(doc, w, d, k) => MarkedIn(new, w, d, k)
           /\ \A R : DocOnce(doc, R) => \A w \in Flows!Workflows, d \in DeliveryIds :
                 (w \in DOMAIN doc => RanAs(w, d, doc[w].made) \notin R)
                     => (w \in DOMAIN new => RanAs(w, d, new[w].made) \notin R)
<1>1. ASSUME NEW w \in Flows!Workflows, NEW d \in DeliveryIds, NEW k \in Nat, k <= Counter(doc), EnteredIn(doc, w, d, k)
      PROVE  EnteredIn(new, w, d, k)
  BY <1>1 DEF Tame, SameFlow, NewFlow, EnteredIn
<1>2. ASSUME NEW w \in Flows!Workflows, NEW d \in DeliveryIds, NEW k, MarkedIn(doc, w, d, k)
      PROVE  MarkedIn(new, w, d, k)
  <2>1. k \in Nat /\ k <= Counter(doc) /\ k <= Counter(new) /\ EnteredIn(new, w, d, k)
    BY <1>1, <1>2 DEF MarkedIn, Tame
  <2>2. ASSUME w \in DOMAIN new, new[w].made = k PROVE ~AdmittedIn(new, w, d)
    BY <1>2, <2>1, <2>2 DEF Tame, SameFlow, NewFlow, MarkedIn
  <2> QED
    BY <2>1, <2>2 DEF MarkedIn
<1>3. ASSUME NEW R, DocOnce(doc, R) PROVE DocOnce(new, R)
  <2>1. \A w \in Flows!Workflows : w \in DOMAIN new => new[w].made \in Nat /\ new[w].made <= Counter(new)
    BY <1>3 DEF Tame, SameFlow, NewFlow, DocOnce
  <2> QED
    BY <1>2, <1>3, <2>1 DEF Tame, DocOnce
<1>4. ASSUME NEW R, DocOnce(doc, R), NEW w \in Flows!Workflows, NEW d \in DeliveryIds,
             w \in DOMAIN doc => RanAs(w, d, doc[w].made) \notin R, w \in DOMAIN new
      PROVE  RanAs(w, d, new[w].made) \notin R
  <2>1. ASSUME NEW k, RanAs(w, d, k) \in R PROVE k \in Nat /\ k <= Counter(doc)
    BY <1>4, <2>1 DEF DocOnce, MarkedIn
  <2> QED
    BY <1>4, <2>1 DEF Tame, SameFlow, NewFlow
<1> QED
  BY <1>1, <1>2, <1>3, <1>4

LEMMA TameChain ==
    ASSUME NEW a, NEW b, NEW c, Tame(a, b), Tame(b, c), Counter(a) \in Nat
    PROVE  Tame(a, c)
<1>1. Counter(a) <= Counter(c) /\ Counter(b) \in Nat /\ Counter(c) \in Nat
  BY DEF Tame
<1>2. ASSUME NEW w \in Flows!Workflows, w \in DOMAIN c PROVE SameFlow(a, c, w) \/ NewFlow(a, c, w)
  <2>1. CASE NewFlow(b, c, w)
    BY <1>1, <2>1 DEF Tame, NewFlow
  <2>2. CASE SameFlow(b, c, w)
    <3>1. w \in DOMAIN b
      BY <2>2 DEF SameFlow
    <3>2. CASE SameFlow(a, b, w)
      BY <2>2, <3>2 DEF SameFlow
    <3>3. CASE NewFlow(a, b, w)
      BY <1>1, <2>2, <3>3 DEF Tame, SameFlow, NewFlow
    <3> QED
      BY <3>1, <3>2, <3>3 DEF Tame
  <2> QED
    BY <1>2, <2>1, <2>2 DEF Tame
<1> QED
  BY <1>1, <1>2 DEF Tame

LEMMA KindsOfNames ==
    /\ \A w \in Flows!Workflows : w[1] = "workflow" /\ w[2] = None
    /\ Flows!revCounter[1] = "next" /\ Flows!revCounter[2] = None
    /\ \A w, d : /\ Flows!Execution(w, d)[1] = "execution" /\ Flows!Execution(w, d)[2] = w
                 /\ Flows!eventAdmission(w, d)[1] = "admission" /\ Flows!eventAdmission(w, d)[2] = w
  BY DEF Flows!Workflows, Flows!Workflow, Flows!revCounter, Flows!Execution, Flows!eventAdmission

(* Maps that agree on the workflows and the counter, and otherwise only have *)
(* lost admissions and gained executions.                                    *)
LEMMA TameBy ==
    ASSUME NEW doc, NEW new, Counter(doc) \in Nat, Counter(new) = Counter(doc),
           \A w \in Flows!Workflows : w \in DOMAIN new => w \in DOMAIN doc /\ new[w].made = doc[w].made,
           \A w \in Flows!Workflows, d \in DeliveryIds : w \in DOMAIN new =>
              /\ Entered(doc, w, d) => Entered(new, w, d)
              /\ AdmittedIn(new, w, d) => AdmittedIn(doc, w, d)
    PROVE  Tame(doc, new)
  BY DEF Tame, SameFlow

LEMMA TameChanges ==
    ASSUME NEW doc, Counter(doc) \in Nat, NoneIsSpecial
    PROVE  /\ \A n, v : n[1] = "execution" => Tame(doc, Flows!Put(doc, n, v))
           /\ \A w, d : Tame(doc, Flows!Put(doc, Flows!eventAdmission(w, d), "RUNNING"))
           /\ \A S : (\A m \in S : m[1] = "admission") => Tame(doc, Flows!Drop(doc, S))
           /\ \A n \in Flows!Workflows : \A v :
                 n \in DOMAIN doc /\ v.made = doc[n].made => Tame(doc, Flows!Put(doc, n, v))
           /\ \A n \in Flows!Workflows : Tame(doc, Flows!Drop(doc, {n} \union Flows!Under(n, doc)))
           /\ \A n \in Flows!Workflows : Tame(doc, Flows!Restore(doc, [m \in {n} |-> None]))
<1>1. ASSUME NEW n, NEW v, n[1] = "execution" PROVE Tame(doc, Flows!Put(doc, n, v))
  <2> DEFINE new == Flows!Put(doc, n, v)
  <2>1. \A m : m # n => (m \in DOMAIN new <=> m \in DOMAIN doc) /\ (m \in DOMAIN doc => new[m] = doc[m])
    BY DEF Flows!Put
  <2>2. DOMAIN doc \subseteq DOMAIN new
    BY DEF Flows!Put
  <2> HIDE DEF new
  <2>3. Counter(new) = Counter(doc)
    BY <1>1, <2>1, KindsOfNames DEF Counter
  <2>4. \A w \in Flows!Workflows : w \in DOMAIN new => w \in DOMAIN doc /\ new[w].made = doc[w].made
    BY <1>1, <2>1, KindsOfNames
  <2>5. \A w \in Flows!Workflows, d \in DeliveryIds :
          /\ Entered(doc, w, d) => Entered(new, w, d)
          /\ AdmittedIn(new, w, d) => AdmittedIn(doc, w, d)
    BY <1>1, <2>1, <2>2, KindsOfNames DEF Entered, AdmittedIn, Flows!Value
  <2>6. Tame(doc, new)
    BY <2>3, <2>4, <2>5, TameBy
  <2> QED
    BY <2>6 DEF new
<1>2. ASSUME NEW w, NEW d PROVE Tame(doc, Flows!Put(doc, Flows!eventAdmission(w, d), "RUNNING"))
  <2> DEFINE n == Flows!eventAdmission(w, d)
             new == Flows!Put(doc, n, "RUNNING")
  <2>0. n[1] = "admission"
    BY KindsOfNames
  <2>1. /\ \A m : m # n => (m \in DOMAIN new <=> m \in DOMAIN doc) /\ (m \in DOMAIN doc => new[m] = doc[m])
        /\ n \in DOMAIN new /\ new[n] = "RUNNING"
    BY DEF Flows!Put
  <2> HIDE DEF new, n
  <2>3. Counter(new) = Counter(doc)
    BY <2>0, <2>1, KindsOfNames DEF Counter
  <2>4. \A x \in Flows!Workflows : x \in DOMAIN new => x \in DOMAIN doc /\ new[x].made = doc[x].made
    BY <2>0, <2>1, KindsOfNames
  <2>5. \A x \in Flows!Workflows, y \in DeliveryIds :
          /\ Entered(doc, x, y) => Entered(new, x, y)
          /\ AdmittedIn(new, x, y) => AdmittedIn(doc, x, y)
    BY <2>0, <2>1, KindsOfNames DEF Entered, AdmittedIn, Flows!Value
  <2>6. Tame(doc, new)
    BY <2>3, <2>4, <2>5, TameBy
  <2> QED
    BY <2>6 DEF new, n
<1>3. ASSUME NEW S, \A m \in S : m[1] = "admission" PROVE Tame(doc, Flows!Drop(doc, S))
  <2> DEFINE new == Flows!Drop(doc, S)
  <2>1. /\ \A m : m \in DOMAIN new <=> m \in DOMAIN doc /\ m \notin S
        /\ \A m \in DOMAIN new : new[m] = doc[m]
    BY DEF Flows!Drop
  <2> HIDE DEF new
  <2>3. Counter(new) = Counter(doc)
    BY <1>3, <2>1, KindsOfNames DEF Counter
  <2>4. \A x \in Flows!Workflows : x \in DOMAIN new => x \in DOMAIN doc /\ new[x].made = doc[x].made
    BY <2>1
  <2>5. \A x \in Flows!Workflows, y \in DeliveryIds :
          /\ Entered(doc, x, y) => Entered(new, x, y)
          /\ AdmittedIn(new, x, y) => AdmittedIn(doc, x, y)
    BY <1>3, <2>1, KindsOfNames DEF Entered, AdmittedIn, Flows!Value, NoneIsSpecial
  <2>6. Tame(doc, new)
    BY <2>3, <2>4, <2>5, TameBy
  <2> QED
    BY <2>6 DEF new
<1>4. ASSUME NEW n \in Flows!Workflows, NEW v, n \in DOMAIN doc, v.made = doc[n].made PROVE Tame(doc, Flows!Put(doc, n, v))
  <2> DEFINE new == Flows!Put(doc, n, v)
  <2>1. /\ DOMAIN new = DOMAIN doc /\ new[n] = v
        /\ \A m \in DOMAIN doc : m # n => new[m] = doc[m]
    BY <1>4 DEF Flows!Put
  <2> HIDE DEF new
  <2>3. Counter(new) = Counter(doc)
    BY <1>4, <2>1, KindsOfNames DEF Counter
  <2>4. \A x \in Flows!Workflows : x \in DOMAIN new => x \in DOMAIN doc /\ new[x].made = doc[x].made
    BY <1>4, <2>1
  <2>5. \A x \in Flows!Workflows, y \in DeliveryIds :
          /\ Entered(doc, x, y) => Entered(new, x, y)
          /\ AdmittedIn(new, x, y) => AdmittedIn(doc, x, y)
    BY <1>4, <2>1, KindsOfNames DEF Entered, AdmittedIn, Flows!Value
  <2>6. Tame(doc, new)
    BY <2>3, <2>4, <2>5, TameBy
  <2> QED
    BY <2>6 DEF new
<1>5. ASSUME NEW n \in Flows!Workflows PROVE Tame(doc, Flows!Drop(doc, {n} \union Flows!Under(n, doc)))
  <2> DEFINE new == Flows!Drop(doc, {n} \union Flows!Under(n, doc))
  <2>1. /\ \A m : m \in DOMAIN new <=> m \in DOMAIN doc /\ m # n /\ m[2] # n
        /\ \A m \in DOMAIN new : new[m] = doc[m]
    BY DEF Flows!Drop, Flows!Under
  <2>2. n # None /\ n[1] = "workflow"
    BY KindsOfNames DEF NoneIsSpecial
  <2> HIDE DEF new
  <2>3. Counter(new) = Counter(doc)
    BY <2>1, <2>2, KindsOfNames DEF Counter
  <2>4. \A x \in Flows!Workflows : x \in DOMAIN new => x \in DOMAIN doc /\ new[x].made = doc[x].made /\ x # n
    BY <2>1
  <2>5. \A x \in Flows!Workflows, y \in DeliveryIds : x \in DOMAIN new =>
          /\ Entered(doc, x, y) => Entered(new, x, y)
          /\ AdmittedIn(new, x, y) => AdmittedIn(doc, x, y)
    BY <2>1, <2>2, <2>4, KindsOfNames DEF Entered, AdmittedIn, Flows!Value, NoneIsSpecial
  <2>6. Tame(doc, new)
    BY <2>3, <2>4, <2>5, TameBy
  <2> QED
    BY <2>6 DEF new
<1>6. ASSUME NEW n \in Flows!Workflows PROVE Tame(doc, Flows!Restore(doc, [m \in {n} |-> None]))
  <2> DEFINE new == Flows!Restore(doc, [m \in {n} |-> None])
  <2>1. /\ \A m : m \in DOMAIN new <=> m \in DOMAIN doc /\ m # n
        /\ \A m \in DOMAIN new : new[m] = doc[m]
    BY DEF Flows!Restore
  <2>2. n[1] = "workflow"
    BY KindsOfNames
  <2> HIDE DEF new
  <2>3. Counter(new) = Counter(doc)
    BY <2>1, <2>2, KindsOfNames DEF Counter
  <2>4. \A x \in Flows!Workflows : x \in DOMAIN new => x \in DOMAIN doc /\ new[x].made = doc[x].made
    BY <2>1
  <2>5. \A x \in Flows!Workflows, y \in DeliveryIds :
          /\ Entered(doc, x, y) => Entered(new, x, y)
          /\ AdmittedIn(new, x, y) => AdmittedIn(doc, x, y)
    BY <2>1, <2>2, KindsOfNames DEF Entered, AdmittedIn, Flows!Value, NoneIsSpecial
  <2>6. Tame(doc, new)
    BY <2>3, <2>4, <2>5, TameBy
  <2> QED
    BY <2>6 DEF new
<1> QED
  BY <1>1, <1>2, <1>3, <1>4, <1>5, <1>6

LEMMA RevisedTame ==
    ASSUME Counter(flows) \in Nat, NEW n \in Flows!Workflows, NEW made,
           made = Flows!nextRevisionID \/ (n \in DOMAIN flows /\ made = flows[n].made)
    PROVE  Tame(flows, Flows!Revised(n, made))
<1> DEFINE k == Counter(flows) + 1
           v == [made |-> made, revision |-> k]
           new == Flows!Revised(n, made)
<1>1. Flows!nextRevisionID = k
  BY DEF Flows!nextRevisionID, Counter, Flows!Live
<1>2. n # Flows!revCounter /\ v.made = made
  BY KindsOfNames
<1>3. new = Flows!Put(Flows!Put(flows, n, v), Flows!revCounter, k)
  BY <1>1 DEF Flows!Revised
<1>4. /\ \A m : m \in DOMAIN new <=> m \in DOMAIN flows \/ m = n \/ m = Flows!revCounter
      /\ new[n] = v /\ new[Flows!revCounter] = k
      /\ \A m \in DOMAIN flows : m # n /\ m # Flows!revCounter => new[m] = flows[m]
  BY <1>2, <1>3 DEF Flows!Put
<1> HIDE DEF new, v
<1>5. Counter(new) = k /\ k \in Nat /\ Counter(flows) < k
  BY <1>4 DEF Counter
<1>6. \A w \in Flows!Workflows : w # n /\ w \in DOMAIN new => w \in DOMAIN flows /\ new[w] = flows[w]
  BY <1>4, KindsOfNames
<1>7. \A w \in Flows!Workflows, d \in DeliveryIds :
        /\ Entered(flows, w, d) => Entered(new, w, d)
        /\ AdmittedIn(new, w, d) => AdmittedIn(flows, w, d)
  BY <1>4, KindsOfNames DEF Entered, AdmittedIn, Flows!Value
<1>8. \A w \in Flows!Workflows : w # n /\ w \in DOMAIN new => SameFlow(flows, new, w)
  BY <1>6, <1>7 DEF SameFlow
<1>9. SameFlow(flows, new, n) \/ NewFlow(flows, new, n)
  <2>1. CASE made = k
    BY <1>2, <1>4, <1>5, <2>1 DEF NewFlow
  <2>2. CASE n \in DOMAIN flows /\ made = flows[n].made
    BY <1>2, <1>4, <1>7, <2>2 DEF SameFlow
  <2> QED
    BY <1>1, <2>1, <2>2
<1>10. Tame(flows, new)
  BY <1>5, <1>8, <1>9 DEF Tame
<1> QED
  BY <1>10 DEF new

(* A refused deletion leaves the maps as they were.                          *)
LEMMA DeletionUndone ==
    ASSUME NEW doc, NEW R, NEW S, NoneIsSpecial, DocSound(doc, R), Counter(doc) \in Nat, Flows!revCounter \notin S
    PROVE  Tame(doc, Flows!Restore(Flows!Drop(doc, S), [m \in S |-> Flows!Value(doc, m)]))
<1> DEFINE new == Flows!Restore(Flows!Drop(doc, S), [m \in S |-> Flows!Value(doc, m)])
<1>1. /\ \A m : m \in DOMAIN new <=> m \in DOMAIN doc /\ (m \in S => doc[m] # None)
      /\ \A m \in DOMAIN new : new[m] = doc[m]
  BY DEF Flows!Restore, Flows!Drop, Flows!Value
<1>2. \A w, d : Entered(doc, w, d) => doc[Flows!Execution(w, d)] # None
  BY KindsOfNames DEF DocSound, ExecutionSound, Entered, NoneIsSpecial
<1> HIDE DEF new
<1>3. Counter(new) = Counter(doc)
  BY <1>1 DEF Counter
<1>4. \A w \in Flows!Workflows : w \in DOMAIN new => w \in DOMAIN doc /\ new[w].made = doc[w].made
  BY <1>1
<1>5. \A w \in Flows!Workflows, d \in DeliveryIds :
        /\ Entered(doc, w, d) => Entered(new, w, d)
        /\ AdmittedIn(new, w, d) => AdmittedIn(doc, w, d)
  BY <1>1, <1>2 DEF Entered, AdmittedIn, Flows!Value, NoneIsSpecial
<1>6. Tame(doc, new)
  BY <1>3, <1>4, <1>5, TameBy
<1> QED
  BY <1>6 DEF new

LEMMA StartTame ==
    ASSUME NEW doc, Counter(doc) \in Nat, NoneIsSpecial
    PROVE  LET S == Flows!Interrupted(doc)
               kept == Flows!Drop(doc, {Flows!eventAdmission(n[2], n[3]) : n \in S})
           IN  Tame(doc, [n \in DOMAIN kept |-> IF n \in S THEN [kept[n] EXCEPT !.state = "FAILED"] ELSE kept[n]])
<1> DEFINE S == Flows!Interrupted(doc)
           gone == {Flows!eventAdmission(n[2], n[3]) : n \in S}
           kept == Flows!Drop(doc, gone)
           new == [n \in DOMAIN kept |-> IF n \in S THEN [kept[n] EXCEPT !.state = "FAILED"] ELSE kept[n]]
<1>1. \A n \in S : n[1] = "execution"
  BY DEF Flows!Interrupted
<1>2. \A m \in gone : m[1] = "admission"
  BY KindsOfNames
<1>3. Tame(doc, kept)
  BY <1>2, TameChanges
<1>4. DOMAIN new = DOMAIN kept /\ \A m \in DOMAIN kept : m \notin S => new[m] = kept[m]
  OBVIOUS
<1>5. Counter(kept) \in Nat
  BY <1>3 DEF Tame
<1> HIDE DEF S, gone, kept, new
<1>6. Counter(new) = Counter(kept)
  BY <1>1, <1>4, KindsOfNames DEF Counter
<1>7. \A w \in Flows!Workflows : w \in DOMAIN new => w \in DOMAIN kept /\ new[w].made = kept[w].made
  BY <1>1, <1>4, KindsOfNames
<1>8. \A w \in Flows!Workflows, d \in DeliveryIds :
        /\ Entered(kept, w, d) => Entered(new, w, d)
        /\ AdmittedIn(new, w, d) => AdmittedIn(kept, w, d)
  BY <1>1, <1>4, KindsOfNames DEF Entered, AdmittedIn, Flows!Value
<1>9. Tame(kept, new)
  BY <1>5, <1>6, <1>7, <1>8, TameBy
<1>10. Tame(doc, new)
  BY <1>3, <1>9, TameChain
<1> QED
  BY <1>10 DEF S, gone, kept, new

-----------------------------------------------------------------------------
(* What the worker and the client are about to do.  Due are the runs so far  *)
(* and the one that the worker is about to make, which is marked in the      *)
(* entry; from there on the maps and the entry must not forget it.           *)
RunsWell == flowsDegraded = "no"
Due == IF Flows!At(Worker, "run") THEN runs \union {Flows!Ran(Flows!On(Worker), Flows!Id(Worker), Flows!Wf(Worker))}
       ELSE runs
Ready(w, d, v) == v.made \in Nat /\ v.made <= Counter(flows) /\ RanAs(w, d, v.made) \notin runs

AtEnter(P, w, d, v) ==
    /\ P = <<Flows!Step("enterEvent", w, d, v)>>
    /\ RunsWell => Ready(w, d, v) /\ (w \in DOMAIN flows => RanAs(w, d, flows[w].made) \notin runs)
AtBegin(P, w, d, v) ==
    /\ P \in {<<Flows!Step("begin", w, d, v)>>, <<Flows!Save(TakenBack(w, d)), Flows!Step("begin", w, d, v)>>}
    /\ RunsWell => Ready(w, d, v) /\ EnteredIn(flows, w, d, v.made)
AtMark(P, w, d, v) ==
    /\ P = <<Flows!Save(Refused(w, d)), Flows!Step("run", w, d, v), OutcomeStep(w, d)>>
    /\ RunsWell => Ready(w, d, v) /\ MarkedIn(flows, w, d, v.made)
AtRun(P, w, d, v) ==
    P = <<Flows!Step("run", w, d, v), OutcomeStep(w, d)>> /\ RanAs(w, d, v.made) \notin runs
AtEnd(P, w, d) ==
    \/ P = TakenBack(w, d) /\ ~RunsWell
    \/ P = Refused(w, d) \/ P = <<AnswerStep(w, d, FALSE)>> \/ P \in AfterRun(w, d)
WorkerStage(P, w, d) ==
    \/ P = <<Flows!Step("admit", w, d, None)>> \/ AtEnd(P, w, d)
    \/ \E v : AtEnter(P, w, d, v) \/ AtBegin(P, w, d, v) \/ AtMark(P, w, d, v) \/ AtRun(P, w, d, v)
WorkerOnce ==
    \/ flowsCall[Worker].todo = <<>>
    \/ /\ flowsCall[Worker].on = Flows!eventExecutionMu
       /\ \E w \in Flows!Workflows, d \in DeliveryIds : WorkerStage(flowsCall[Worker].todo, w, d)

FinishFlow == <<Flows!Register(Flows!Revert), Flows!Save(Flows!compensateState)>>
(* A deletion keeps the worker out until it has been answered.               *)
Deleting(h) ==
    /\ flowsCall[h].on = Flows!eventExecutionMu /\ flowsCall[Worker].todo = <<>>
    /\ DocOnce(Flows!Restore(flows, flowsCall[h].undo), Due)
RevertOnce(h, P) ==
    /\ P \in {FinishFlow, Flows!Revert}
    /\ RunsWell => Deleting(h) \/ \E n \in Flows!Workflows : flowsCall[h].undo = [m \in {n} |-> None]
PutBackOnce(P) ==
    \E n \in Flows!Workflows : \E v :
       /\ P \in {<<PutBackStep(n, v)>>, <<Flows!Register(<<PutBackStep(n, v)>>), Flows!Save(Flows!compensateState)>>}
       /\ RunsWell => n \in DOMAIN flows /\ v.made = flows[n].made
CopyOnce(h, P) ==
    \E n, doc : /\ P = <<<<"copy", <<>>, doc>>, <<"cancelled", <<>>, n>>>> /\ n[1] = "execution"
                /\ flowsCall[h].on = Flows!persistMu
                /\ RunsWell => DocOnce(doc, Due)
CancelledOnce(P) == \E n : n[1] = "execution" /\ P = <<<<"cancelled", <<>>, n>>>>
ClientStage(h, P) ==
    \/ P = <<>> \/ P = <<Flows!Save(<<>>)>> \/ P = <<Flows!Save(Flows!compensateState)>>
    \/ P = Flows!compensateState /\ ~RunsWell
    \/ RevertOnce(h, P) \/ PutBackOnce(P) \/ ExecutionProgram(P) \/ CopyOnce(h, P) \/ CancelledOnce(P)
Once ==
    /\ DocOnce(flowsDisk, Due) /\ (RunsWell => DocOnce(flows, Due))
    /\ WorkerOnce /\ flowsCall[Boot].todo = <<>>
    /\ \A h \in Requests : ClientStage(h, flowsCall[h].todo)
(* Requests to Workflows one after the other.                                *)
OneAtATime == \A g, h \in Requests : flowsCall[g].todo # <<>> /\ flowsCall[h].todo # <<>> => g = h

-----------------------------------------------------------------------------
(* How the programs begin and go on.                                         *)
WorkerHead(P, w, d) ==
    /\ P # <<>> /\ Head(P)[1] \in {"admit", "enterEvent", "begin", "undo", "save", "run", "outcome", "answer"}
    /\ Head(P)[1] \in {"admit", "enterEvent", "begin", "run", "outcome"} => Head(P)[3] = w /\ Head(P)[4] = d
    /\ Head(P)[1] = "enterEvent" => AtEnter(P, w, d, Head(P)[5])
    /\ Head(P)[1] = "begin" => AtBegin(P, w, d, Head(P)[5])
    /\ Head(P)[1] = "undo" => ~RunsWell /\ Tail(P) = Refused(w, d)
    /\ Head(P)[1] = "save" =>
         \/ \E v : Head(P)[2] = TakenBack(w, d) /\ Tail(P) = <<Flows!Step("begin", w, d, v)>> /\ AtBegin(P, w, d, v)
         \/ \E v : /\ Head(P)[2] = Refused(w, d) /\ Tail(P) = <<Flows!Step("run", w, d, v), OutcomeStep(w, d)>>
                   /\ AtMark(P, w, d, v)
         \/ AtEnd(Head(P)[2], w, d) /\ AtEnd(Tail(P), w, d) /\ Head(P)[2] # <<>> /\ Tail(P) # <<>>
    /\ Head(P)[1] = "run" => AtRun(P, w, d, Head(P)[5]) /\ Tail(P) = <<OutcomeStep(w, d)>>
    /\ Head(P)[1] = "outcome" => Head(P)[5] = TRUE
    /\ Head(P)[1] = "answer" => Tail(P) = <<>>

LEMMA WorkerHeads ==
    ASSUME NEW P, NEW w, NEW d, WorkerStage(P, w, d)
    PROVE  WorkerHead(P, w, d)
<1>1. CASE P = <<Flows!Step("admit", w, d, None)>>
  <2>1. Head(P) = Flows!Step("admit", w, d, None) /\ P # <<>>
    BY <1>1, Sequences
  <2> QED
    BY <2>1, StepParts DEF WorkerHead
<1>2. ASSUME NEW v, AtEnter(P, w, d, v) PROVE WorkerHead(P, w, d)
  <2>1. Head(P) = Flows!Step("enterEvent", w, d, v) /\ P # <<>>
    BY <1>2, Sequences DEF AtEnter
  <2> QED
    BY <1>2, <2>1, StepParts DEF WorkerHead
<1>3. ASSUME NEW v, AtBegin(P, w, d, v) PROVE WorkerHead(P, w, d)
  <2>1. CASE P = <<Flows!Step("begin", w, d, v)>>
    <3>1. Head(P) = Flows!Step("begin", w, d, v) /\ P # <<>>
      BY <2>1, Sequences
    <3> QED
      BY <1>3, <3>1, StepParts DEF WorkerHead
  <2>2. CASE P = <<Flows!Save(TakenBack(w, d)), Flows!Step("begin", w, d, v)>>
    <3>1. Head(P) = Flows!Save(TakenBack(w, d)) /\ Tail(P) = <<Flows!Step("begin", w, d, v)>> /\ P # <<>>
      BY <2>2, Sequences
    <3>2. Head(P)[1] = "save" /\ Head(P)[2] = TakenBack(w, d)
      BY <3>1, StepParts
    <3> QED
      BY <1>3, <3>1, <3>2 DEF WorkerHead
  <2> QED
    BY <1>3, <2>1, <2>2 DEF AtBegin
<1>4. ASSUME NEW v, AtMark(P, w, d, v) PROVE WorkerHead(P, w, d)
  <2>1. /\ Head(P) = Flows!Save(Refused(w, d)) /\ P # <<>>
        /\ Tail(P) = <<Flows!Step("run", w, d, v), OutcomeStep(w, d)>>
    BY <1>4, Sequences DEF AtMark
  <2>2. Head(P)[1] = "save" /\ Head(P)[2] = Refused(w, d)
    BY <2>1, StepParts
  <2> QED
    BY <1>4, <2>1, <2>2 DEF WorkerHead
<1>5. ASSUME NEW v, AtRun(P, w, d, v) PROVE WorkerHead(P, w, d)
  <2>1. Head(P) = Flows!Step("run", w, d, v) /\ P # <<>> /\ Tail(P) = <<OutcomeStep(w, d)>>
    BY <1>5, Sequences DEF AtRun
  <2> QED
    BY <1>5, <2>1, StepParts DEF WorkerHead
<1>6. CASE AtEnd(P, w, d)
  <2> DEFINE no == AnswerStep(w, d, FALSE)
             yes == AnswerStep(w, d, TRUE)
             save == Flows!Save(<<no>>)
  <2>1. save[1] = "save" /\ save[2] = <<no>> /\ no[1] = "answer" /\ yes[1] = "answer" /\ Flows!Undo[1] = "undo"
    <3>1. \A x : AnswerStep(w, d, x)[1] = "answer"
      BY StepParts DEF AnswerStep
    <3>2. \A x : Flows!Save(x)[1] = "save" /\ Flows!Save(x)[2] = x
      BY StepParts
    <3>3. Flows!Undo[1] = "undo"
      BY StepParts
    <3> QED
      BY <3>1, <3>2, <3>3
  <2>2. AtEnd(<<no>>, w, d) /\ AtEnd(<<yes>>, w, d)
    BY DEF AtEnd, AfterRun
  <2>3. TakenBack(w, d) = <<Flows!Undo, save, no>> /\ Refused(w, d) = <<save, no>>
    BY DEF TakenBack, Refused
  <2>4. AfterRun(w, d) = {<<OutcomeStep(w, d)>>, <<save, yes>>, <<yes>>}
    BY DEF AfterRun
  <2> HIDE DEF no, yes, save
  <2>5. ASSUME NEW a, a \in {no, yes}, P = <<save, a>> PROVE WorkerHead(P, w, d)
    <3>1. Head(P) = save /\ Tail(P) = <<a>> /\ P # <<>>
      BY <2>5, Sequences
    <3>2. <<no>> # <<>> /\ <<a>> # <<>>
      BY Sequences
    <3>3. AtEnd(<<a>>, w, d)
      BY <2>2, <2>5
    <3> QED
      BY <2>1, <2>2, <3>1, <3>2, <3>3 DEF WorkerHead
  <2>6. CASE P = TakenBack(w, d) /\ ~RunsWell
    <3>1. Head(P) = Flows!Undo /\ Tail(P) = Refused(w, d) /\ P # <<>>
      BY <2>3, <2>6, Sequences
    <3> QED
      BY <2>1, <2>6, <3>1 DEF WorkerHead
  <2>7. CASE P = <<no>> \/ P = <<yes>>
    <3>1. Head(P)[1] = "answer" /\ Tail(P) = <<>> /\ P # <<>>
      BY <2>1, <2>7, Sequences
    <3> QED
      BY <3>1 DEF WorkerHead
  <2>8. CASE P = <<OutcomeStep(w, d)>>
    <3>1. PICK true : true = TRUE
      OBVIOUS
    <3>2. P # <<>> /\ Head(P) = Flows!Step("outcome", w, d, true)
      BY <2>8, <3>1, Sequences DEF OutcomeStep
    <3>3. Head(P)[1] = "outcome" /\ Head(P)[3] = w /\ Head(P)[4] = d /\ Head(P)[5] = true
      BY <3>2, StepParts
    <3> QED
      BY <3>1, <3>2, <3>3 DEF WorkerHead
  <2> QED
    BY <1>6, <2>3, <2>4, <2>5, <2>6, <2>7, <2>8 DEF AtEnd, no
<1> QED
  BY <1>1, <1>2, <1>3, <1>4, <1>5, <1>6 DEF WorkerStage

ClientHead(h, P) ==
    /\ Head(P)[1] \in {"save", "undo", "register", "putback", "enter", "outcome", "copy", "cancelled"}
    /\ Head(P)[1] = "save" => /\ Head(P)[2] \in {<<>>, Flows!compensateState}
                              /\ Tail(P) = <<>> \/ ExecutionProgram(Tail(P))
    /\ Head(P)[1] = "undo" =>
         /\ RunsWell => Deleting(h) \/ \E n \in Flows!Workflows : flowsCall[h].undo = [m \in {n} |-> None]
         /\ Tail(P) \in {<<>>, <<Flows!Save(<<>>)>>}
    /\ Head(P)[1] = "register" => /\ RevertOnce(h, Head(P)[2]) \/ PutBackOnce(Head(P)[2])
                                  /\ Tail(P) = <<Flows!Save(Flows!compensateState)>>
    /\ Head(P)[1] = "putback" =>
         /\ Head(P)[3] \in Flows!Workflows /\ Tail(P) = <<>>
         /\ RunsWell => Head(P)[3] \in DOMAIN flows /\ Head(P)[5].made = flows[Head(P)[3]].made
    /\ Head(P)[1] = "outcome" => Head(P)[4] \in ExecutionIds /\ Head(P)[5] = FALSE
    /\ Head(P)[1] = "copy" => CopyOnce(h, P)
    /\ Head(P)[1] = "copy" => /\ Head(P)[2] = <<>> /\ CancelledOnce(Tail(P)) /\ flowsCall[h].on = Flows!persistMu
                              /\ RunsWell => DocOnce(Head(P)[3], Due)
    /\ Head(P)[1] = "cancelled" => Head(P)[3][1] = "execution" /\ Tail(P) = <<>>

LEMMA ClientHeads ==
    ASSUME NEW h, NEW P, ClientStage(h, P), P # <<>>
    PROVE  ClientHead(h, P)
<1>1. ASSUME NEW e \in {<<>>, Flows!compensateState}, P = <<Flows!Save(e)>> PROVE ClientHead(h, P)
  <2>1. Head(P) = Flows!Save(e) /\ Tail(P) = <<>>
    BY <1>1, Sequences
  <2>2. Head(P)[1] = "save" /\ Head(P)[2] = e
    BY <2>1, StepParts
  <2> QED
    BY <2>1, <2>2 DEF ClientHead
<1>2. ASSUME P = Flows!Revert \/ P = Flows!compensateState,
             RunsWell => Deleting(h) \/ \E n \in Flows!Workflows : flowsCall[h].undo = [m \in {n} |-> None]
      PROVE  ClientHead(h, P)
  <2>1. PICK u, s : u = Flows!Undo /\ s = Flows!Save(<<>>)
    OBVIOUS
  <2>2. P = <<u>> \/ P = <<u, s>>
    BY <1>2, <2>1 DEF Flows!Revert, Flows!compensateState, Flows!Keep
  <2>3. Head(P) = u /\ Tail(P) \in {<<>>, <<s>>}
    <3>1. ASSUME P = <<u>> PROVE Head(P) = u /\ Tail(P) = <<>>
      BY <3>1, Sequences
    <3>2. ASSUME P = <<u, s>> PROVE Head(P) = u /\ Tail(P) = <<s>>
      BY <3>2, Sequences
    <3> QED
      BY <2>2, <3>1, <3>2
  <2>4. Head(P)[1] = "undo"
    BY <2>1, <2>3, StepParts
  <2> QED
    BY <1>2, <2>1, <2>3, <2>4 DEF ClientHead
<1>3. ASSUME NEW e, RevertOnce(h, e) \/ PutBackOnce(e), P = <<Flows!Register(e), Flows!Save(Flows!compensateState)>>
      PROVE  ClientHead(h, P)
  <2>1. Head(P) = Flows!Register(e) /\ Tail(P) = <<Flows!Save(Flows!compensateState)>>
    BY <1>3, Sequences
  <2>2. Head(P)[1] = "register" /\ Head(P)[2] = e
    BY <2>1, StepParts
  <2> QED
    BY <1>3, <2>1, <2>2 DEF ClientHead
<1>4. CASE RevertOnce(h, P)
  <2>1. P = FinishFlow => RevertOnce(h, Flows!Revert)
    BY <1>4 DEF RevertOnce
  <2> QED
    BY <1>2, <1>3, <1>4, <2>1 DEF RevertOnce, FinishFlow
<1>5. CASE PutBackOnce(P)
  <2>0. PICK n \in Flows!Workflows : \E v :
          /\ P \in {<<PutBackStep(n, v)>>, <<Flows!Register(<<PutBackStep(n, v)>>), Flows!Save(Flows!compensateState)>>}
          /\ RunsWell => n \in DOMAIN flows /\ v.made = flows[n].made
    BY <1>5 DEF PutBackOnce
  <2>1. PICK v :
          /\ P \in {<<PutBackStep(n, v)>>, <<Flows!Register(<<PutBackStep(n, v)>>), Flows!Save(Flows!compensateState)>>}
          /\ RunsWell => n \in DOMAIN flows /\ v.made = flows[n].made
    BY <2>0
  <2>2. PutBackOnce(<<PutBackStep(n, v)>>)
    BY <2>1 DEF PutBackOnce
  <2>3. CASE P = <<PutBackStep(n, v)>>
    <3>1. Head(P) = PutBackStep(n, v) /\ Tail(P) = <<>>
      BY <2>3, Sequences
    <3>2. Head(P)[1] = "putback" /\ Head(P)[3] = n /\ Head(P)[5] = v
      BY <3>1, StepParts DEF PutBackStep
    <3> QED
      BY <2>1, <3>1, <3>2 DEF ClientHead
  <2> QED
    BY <1>3, <2>1, <2>2, <2>3
<1>6. CASE ExecutionProgram(P)
  <2>1. ASSUME NEW n, NEW v, P = <<Flows!Step("enter", n, None, v)>> PROVE ClientHead(h, P)
    <3>1. Head(P)[1] = "enter"
      BY <2>1, Sequences, StepParts
    <3> QED
      BY <3>1 DEF ClientHead
  <2>2. ASSUME NEW n, NEW x \in ExecutionIds, P = <<Flows!Step("outcome", n, x, FALSE)>> PROVE ClientHead(h, P)
    <3>1. PICK no : no = FALSE
      OBVIOUS
    <3>2. Head(P) = Flows!Step("outcome", n, x, no)
      BY <2>2, <3>1, Sequences
    <3>3. Head(P)[1] = "outcome" /\ Head(P)[4] = x /\ Head(P)[5] = no
      BY <3>2, StepParts
    <3> QED
      BY <3>1, <3>3 DEF ClientHead
  <2>3. ASSUME NEW n, NEW x \in ExecutionIds,
               P = <<Flows!Save(Flows!compensateState), Flows!Step("outcome", n, x, FALSE)>>
        PROVE  ClientHead(h, P)
    <3>1. Head(P) = Flows!Save(Flows!compensateState) /\ Tail(P) = <<Flows!Step("outcome", n, x, FALSE)>>
      <4>1. PICK s, o : s = Flows!Save(Flows!compensateState) /\ o = Flows!Step("outcome", n, x, FALSE)
        OBVIOUS
      <4>2. P = <<s, o>>
        BY <2>3, <4>1
      <4> QED
        BY <4>1, <4>2, Sequences
    <3>2. Head(P)[1] = "save" /\ Head(P)[2] = Flows!compensateState
      BY <3>1, StepParts
    <3>3. ExecutionProgram(Tail(P))
      BY <3>1 DEF ExecutionProgram
    <3> QED
      BY <3>2, <3>3 DEF ClientHead
  <2> QED
    BY <1>6, <2>1, <2>2, <2>3 DEF ExecutionProgram
<1>7. CASE CopyOnce(h, P)
  <2>1. PICK n, doc : /\ P = <<<<"copy", <<>>, doc>>, <<"cancelled", <<>>, n>>>> /\ n[1] = "execution"
                      /\ flowsCall[h].on = Flows!persistMu
                      /\ RunsWell => DocOnce(doc, Due)
    BY <1>7 DEF CopyOnce
  <2>2. Head(P) = <<"copy", <<>>, doc>> /\ Tail(P) = <<<<"cancelled", <<>>, n>>>>
    BY <2>1, Sequences
  <2>3. CancelledOnce(Tail(P)) /\ Head(P)[1] = "copy" /\ Head(P)[2] = <<>> /\ Head(P)[3] = doc
    BY <2>1, <2>2 DEF CancelledOnce
  <2> QED
    BY <1>7, <2>1, <2>3 DEF ClientHead
<1>8. CASE CancelledOnce(P)
  <2>1. PICK n : n[1] = "execution" /\ P = <<<<"cancelled", <<>>, n>>>>
    BY <1>8 DEF CancelledOnce
  <2>2. Head(P) = <<"cancelled", <<>>, n>> /\ Tail(P) = <<>>
    BY <2>1, Sequences
  <2> QED
    BY <2>1, <2>2 DEF ClientHead
<1> QED
  BY <1>1, <1>2, <1>4, <1>5, <1>6, <1>7, <1>8 DEF ClientStage

-----------------------------------------------------------------------------
(* What a step of one keeps of the other's part.                             *)
Others(h) == \A x \in Handlers \ {h} : flowsCall'[x] = flowsCall[x]
ClientMoves(h) ==
    /\ runs' = runs /\ Others(h) /\ DocOnce(flowsDisk', Due)
    /\ RunsWell' => RunsWell /\ (Tame(flows, flows') \/ (DocOnce(flows', Due) /\ flowsCall[Worker].todo = <<>>))
    /\ ClientStage(h, flowsCall[h].todo)'
WorkerMoves ==
    /\ Others(Worker) /\ (flowsCall[Worker].todo # <<>> \/ Flows!EventExecutionMuFree)
    /\ WorkerOnce' /\ DocOnce(flowsDisk', Due')
    /\ RunsWell' =>
         /\ RunsWell /\ DocOnce(flows', Due')
         /\ \A n \in Flows!Workflows : n \in DOMAIN flows => n \in DOMAIN flows' /\ flows'[n].made = flows[n].made
    /\ Due' = Due \/ \A h \in Requests : ~Flows!At(h, "copy")

LEMMA DueRuns ==
    /\ runs \subseteq Due
    /\ \A doc, R, Q : R \subseteq Q /\ DocOnce(doc, Q) => DocOnce(doc, R)
  BY DEF Due, DocOnce

LEMMA ClientMovesKeep ==
    ASSUME Once, OneAtATime, OneAtATime', NEW h \in Requests, ClientMoves(h),
           flowsCall[h].todo # <<>> \/ flowsCall'[h].todo # <<>>
    PROVE  Once'
<1>1. h \in Handlers /\ h # Worker /\ h # Boot /\ Worker \in Handlers /\ Boot \in Handlers /\ Worker # Boot
  BY QueueAssumption DEF Requests
<1>2. flowsCall'[Worker] = flowsCall[Worker] /\ flowsCall'[Boot] = flowsCall[Boot] /\ runs' = runs
  BY <1>1 DEF ClientMoves, Others
<1>3. Due' = Due
  BY <1>2 DEF Due, Flows!At, Flows!On, Flows!Id, Flows!Wf
<1>4. RunsWell => Counter(flows) \in Nat /\ DocOnce(flows, Due) /\ DocOnce(flows, runs)
  BY DueRuns DEF Once, DocOnce
<1>5. RunsWell' => DocOnce(flows', Due')
  BY <1>3, <1>4, TameKeeps DEF ClientMoves
<1>6. ASSUME flowsCall[Worker].todo # <<>>, RunsWell'
      PROVE  RunsWell /\ Tame(flows, flows') /\ Counter(flows) \in Nat /\ Counter(flows') \in Nat
             /\ Counter(flows) <= Counter(flows') /\ DocOnce(flows, runs)
  BY <1>4, <1>6 DEF ClientMoves, Tame
<1>7. WorkerOnce'
  <2>1. CASE flowsCall[Worker].todo = <<>>
    BY <1>2, <2>1 DEF WorkerOnce
  <2>2. CASE flowsCall[Worker].todo # <<>>
    <3> DEFINE P == flowsCall[Worker].todo
    <3>1. PICK w \in Flows!Workflows, d \in DeliveryIds : WorkerStage(P, w, d)
      BY <2>2 DEF Once, WorkerOnce
    <3>2. flowsCall[Worker].on = Flows!eventExecutionMu
      BY <2>2 DEF Once, WorkerOnce
    <3>3. ASSUME NEW v, RunsWell', RunsWell => Ready(w, d, v) PROVE Ready(w, d, v)'
      BY <1>2, <1>6, <2>2, <3>3 DEF Ready
    <3>4. ASSUME NEW v, AtEnter(P, w, d, v)
          PROVE  AtEnter(flowsCall[Worker].todo, w, d, v)'
      <4>1. ASSUME RunsWell' PROVE w \in DOMAIN flows' => RanAs(w, d, flows'[w].made) \notin runs'
        BY <1>2, <1>6, <2>2, <3>4, <4>1, TameKeeps DEF AtEnter
      <4> QED
        BY <1>2, <1>6, <2>2, <3>3, <3>4, <4>1 DEF AtEnter
    <3>5. ASSUME NEW v, AtBegin(P, w, d, v)
          PROVE  AtBegin(flowsCall[Worker].todo, w, d, v)'
      <4>1. ASSUME RunsWell' PROVE EnteredIn(flows', w, d, v.made)
        BY <1>6, <2>2, <3>5, <4>1, TameKeeps DEF AtBegin, Ready
      <4> QED
        BY <1>2, <1>6, <2>2, <3>3, <3>5, <4>1 DEF AtBegin
    <3>6. ASSUME NEW v, AtMark(P, w, d, v)
          PROVE  AtMark(flowsCall[Worker].todo, w, d, v)'
      <4>1. ASSUME RunsWell' PROVE MarkedIn(flows', w, d, v.made)
        BY <1>6, <2>2, <3>6, <4>1, TameKeeps DEF AtMark
      <4> QED
        BY <1>2, <1>6, <2>2, <3>3, <3>6, <4>1 DEF AtMark
    <3>7. ASSUME NEW v, AtRun(P, w, d, v) PROVE AtRun(flowsCall[Worker].todo, w, d, v)'
      BY <1>2, <3>7 DEF AtRun
    <3>8. AtEnd(P, w, d) => AtEnd(flowsCall[Worker].todo, w, d)'
      BY <1>2, <1>6, <2>2 DEF AtEnd
    <3>9. WorkerStage(flowsCall[Worker].todo, w, d)'
      BY <1>2, <3>1, <3>4, <3>5, <3>6, <3>7, <3>8 DEF WorkerStage
    <3> QED
      BY <1>2, <3>2, <3>9 DEF WorkerOnce
  <2> QED
    BY <2>1, <2>2
<1>8. ASSUME NEW x \in Requests PROVE ClientStage(x, flowsCall[x].todo)'
  <2>1. CASE x = h
    BY <2>1 DEF ClientMoves
  <2>2. CASE x # h
    <3>1. x \in Handlers \ {h}
      BY <2>2 DEF Requests
    <3>2. flowsCall'[x] = flowsCall[x]
      BY <3>1 DEF ClientMoves, Others
    <3>3. flowsCall'[x].todo = <<>>
      BY <2>2, <3>2 DEF OneAtATime
    <3> QED
      BY <3>3 DEF ClientStage
  <2> QED
    BY <2>1, <2>2
<1> QED
  BY <1>2, <1>3, <1>5, <1>7, <1>8 DEF Once, ClientMoves

LEMMA WorkerMovesKeep ==
    ASSUME Once, WorkerMoves
    PROVE  Once'
<1>1. /\ \A h \in Requests : h \in Handlers /\ h # Worker
      /\ Worker \in Handlers /\ Boot \in Handlers /\ Worker # Boot
  BY QueueAssumption DEF Requests
<1>2. flowsCall'[Boot] = flowsCall[Boot] /\ \A h \in Requests : flowsCall'[h] = flowsCall[h]
  BY <1>1 DEF WorkerMoves, Others
<1>3. ASSUME NEW h \in Requests PROVE ClientStage(h, flowsCall[h].todo)'
  <2> DEFINE P == flowsCall[h].todo
  <2>1. ClientStage(h, P) /\ flowsCall'[h] = flowsCall[h]
    BY <1>2 DEF Once
  <2>2. RunsWell' => RunsWell /\ ~Deleting(h)
    BY <1>1 DEF WorkerMoves, Deleting, Flows!EventExecutionMuFree
  <2>3. RevertOnce(h, P) => RevertOnce(h, flowsCall[h].todo)'
    BY <2>1, <2>2 DEF RevertOnce
  <2>4. ASSUME PutBackOnce(P) PROVE PutBackOnce(flowsCall[h].todo)'
    <3> DEFINE programs(n, v) ==
                 {<<PutBackStep(n, v)>>, <<Flows!Register(<<PutBackStep(n, v)>>), Flows!Save(Flows!compensateState)>>}
    <3>0. PICK n \in Flows!Workflows : \E v : P \in programs(n, v) /\ (RunsWell => n \in DOMAIN flows /\ v.made = flows[n].made)
      BY <2>4 DEF PutBackOnce
    <3>1. PICK v : P \in programs(n, v) /\ (RunsWell => n \in DOMAIN flows /\ v.made = flows[n].made)
      BY <3>0
    <3>2. RunsWell' => n \in DOMAIN flows' /\ v.made = flows'[n].made
      BY <2>2, <3>1 DEF WorkerMoves
    <3>3. flowsCall'[h].todo \in programs(n, v)
      BY <2>1, <3>1
    <3> QED
      BY <3>2, <3>3 DEF PutBackOnce
  <2>5. ASSUME CopyOnce(h, P) PROVE CopyOnce(h, flowsCall[h].todo)'
    <3>1. PICK n, doc : /\ P = <<<<"copy", <<>>, doc>>, <<"cancelled", <<>>, n>>>> /\ n[1] = "execution"
                        /\ flowsCall[h].on = Flows!persistMu
                        /\ RunsWell => DocOnce(doc, Due)
      BY <2>5 DEF CopyOnce
    <3>2. Flows!At(h, "copy")
      <4>1. Head(P) = <<"copy", <<>>, doc>> /\ P # <<>>
        BY <3>1, Sequences
      <4> QED
        BY <4>1 DEF Flows!At
    <3>3. Due' = Due
      BY <3>2 DEF WorkerMoves
    <3> QED
      BY <2>1, <2>2, <3>1, <3>3 DEF CopyOnce
  <2>6. ClientStage(h, P) => \/ P = <<>> \/ P = <<Flows!Save(<<>>)>> \/ P = <<Flows!Save(Flows!compensateState)>>
                             \/ P = Flows!compensateState /\ ~RunsWell
                             \/ RevertOnce(h, P) \/ PutBackOnce(P) \/ ExecutionProgram(P) \/ CopyOnce(h, P) \/ CancelledOnce(P)
    BY DEF ClientStage
  <2> QED
    BY <2>1, <2>2, <2>3, <2>4, <2>5, <2>6 DEF ClientStage, CancelledOnce, ExecutionProgram
<1> QED
  BY <1>2, <1>3 DEF Once, WorkerMoves

-----------------------------------------------------------------------------
(* The client's steps.                                                       *)
LEMMA ClientAfter ==
    ASSUME NEW h \in Requests, NEW todo, flowsCall'[h].todo = todo,
           \/ todo = <<>> \/ todo = <<Flows!Save(<<>>)>> \/ todo = <<Flows!Save(Flows!compensateState)>>
           \/ todo = Flows!compensateState /\ ~RunsWell'
           \/ ExecutionProgram(todo) \/ CancelledOnce(todo)
    PROVE  ClientStage(h, flowsCall[h].todo)'
  BY DEF ClientStage

LEMMA ClientFollow ==
    ASSUME FlowsSound, NEW h \in Requests, NEW todo, Flows!Follow(h, todo), runs' = runs
    PROVE  Others(h) /\ flowsCall'[h].todo = todo
  BY FlowFollow DEF Requests, Goes, Others

LEMMA TameSelf ==
    ASSUME NEW doc, Counter(doc) \in Nat
    PROVE  Tame(doc, doc)
  BY TameBy

LEMMA ClientAt ==
    ASSUME Once, NEW h \in Requests, flowsCall[h].todo # <<>>
    PROVE  ClientHead(h, flowsCall[h].todo)
  BY ClientHeads DEF Once

LEMMA WellDone ==
    ASSUME Once
    PROVE  /\ RunsWell => DocOnce(flows, Due) /\ Counter(flows) \in Nat
           /\ DocOnce(flowsDisk, Due)
  BY DEF Once, DocOnce

LEMMA ClientSaveMoves ==
    ASSUME FlowsSound, Once, Guarded, NEW h \in Requests, Flows!persistState(h)
    PROVE  ClientMoves(h)
<1>1. flowsCall[h].todo # <<>> /\ Head(flowsCall[h].todo)[1] = "save" /\ flows' = flows /\ runs' = runs
  BY DEF Flows!persistState, Flows!SaveOk, Flows!SaveFails, Flows!At
<1>2. /\ Head(flowsCall[h].todo)[2] \in {<<>>, Flows!compensateState}
      /\ Tail(flowsCall[h].todo) = <<>> \/ ExecutionProgram(Tail(flowsCall[h].todo))
  BY <1>1, ClientAt DEF ClientHead
<1>3. CASE Flows!SaveOk(h)
  <2>1. RunsWell /\ flowsDisk' = flows /\ Flows!Follow(h, Tail(flowsCall[h].todo))
    BY <1>3 DEF Flows!SaveOk, Flows!Proceed, Flows!Writable, RunsWell
  <2> QED
    BY <1>1, <1>2, <2>1, ClientFollow, ClientAfter, TameSelf, WellDone DEF ClientMoves
<1>4. CASE Flows!SaveFails(h)
  <2>1. Flows!Follow(h, Head(flowsCall[h].todo)[2])
    BY <1>4 DEF Flows!SaveFails, Flows!Fail
  <2>2. ~RunsWell' /\ (flowsDisk' = flowsDisk \/ (RunsWell /\ flowsDisk' = flows))
    BY <1>4 DEF Flows!SaveFails, Flows!Writable, Flows!Failure, RunsWell
  <2> QED
    BY <1>1, <1>2, <2>1, <2>2, ClientFollow, ClientAfter, WellDone DEF ClientMoves
<1> QED
  BY <1>3, <1>4 DEF Flows!persistState

LEMMA ClientRollbackMoves ==
    ASSUME FlowsSound, Once, NoneIsSpecial, NEW h \in Requests, Flows!Rollback(h)
    PROVE  ClientMoves(h)
<1>1. flowsCall[h].todo # <<>> /\ Head(flowsCall[h].todo)[1] = "undo"
  BY DEF Flows!Rollback, Flows!At
<1>2. /\ flows' = Flows!Restore(flows, flowsCall[h].undo) /\ runs' = runs /\ flowsDisk' = flowsDisk
      /\ RunsWell' = RunsWell /\ Flows!Follow(h, Tail(flowsCall[h].todo))
  BY DEF Flows!Rollback, Flows!Proceed, RunsWell
<1>3. ClientHead(h, flowsCall[h].todo)
  BY <1>1, ClientAt
<1>4. RunsWell => Tame(flows, flows') \/ (DocOnce(flows', Due) /\ flowsCall[Worker].todo = <<>>)
  BY <1>1, <1>2, <1>3, WellDone, TameChanges DEF ClientHead, Deleting
<1> QED
  BY <1>1, <1>2, <1>3, <1>4, ClientFollow, ClientAfter, WellDone DEF ClientMoves, ClientHead

LEMMA OnKept ==
    ASSUME NEW f, NEW g, NEW h \in Handlers, NEW todo, NEW undo, Calls(f),
           \/ todo # <<>> /\ g = [f EXCEPT ![h] = IF todo = <<>> THEN Idle ELSE [@ EXCEPT !.todo = todo]]
           \/ todo # <<>> /\ g = [f EXCEPT ![h] = IF todo = <<>> THEN Idle ELSE [@ EXCEPT !.todo = todo, !.undo = undo]]
           \/ g = [f EXCEPT ![h].undo = undo, ![h].todo = todo]
    PROVE  g[h].on = f[h].on
<1>1. PICK c : c = f[h] /\ c = [todo |-> c.todo, undo |-> c.undo, on |-> c.on]
  BY DEF Calls, Entry
<1>2. \/ g[h] = [c EXCEPT !.todo = todo] \/ g[h] = [c EXCEPT !.todo = todo, !.undo = undo]
      \/ g[h] = [c EXCEPT !.undo = undo, !.todo = todo]
  BY <1>1 DEF Calls
<1>3. ([c EXCEPT !.todo = todo]).on = c.on /\ ([c EXCEPT !.todo = todo, !.undo = undo]).on = c.on
      /\ ([c EXCEPT !.undo = undo, !.todo = todo]).on = c.on
  BY <1>1
<1> QED
  BY <1>1, <1>2, <1>3

LEMMA FollowKeeps ==
    ASSUME FlowsSound, NEW h \in Handlers, NEW todo, todo # <<>>, Flows!Follow(h, todo)
    PROVE  flowsCall'[h].on = flowsCall[h].on /\ flowsCall'[h].undo = flowsCall[h].undo
<1>0. Calls(flowsCall)
  BY DEF FlowsSound
<1>1. flowsCall' = [flowsCall EXCEPT ![h] = IF todo = <<>> THEN Idle ELSE [@ EXCEPT !.todo = todo]]
  BY DEF Flows!Follow, Flows!Idle, Idle, Flows!Nothing, Nothing
<1>2. PICK c : c = flowsCall[h] /\ c = [todo |-> c.todo, undo |-> c.undo, on |-> c.on]
  BY <1>0 DEF Calls, Entry
<1>3. flowsCall'[h] = [c EXCEPT !.todo = todo]
  BY <1>0, <1>1, <1>2 DEF Calls
<1>4. ([c EXCEPT !.todo = todo]).undo = c.undo /\ ([c EXCEPT !.todo = todo]).on = c.on
  BY <1>2
<1> QED
  BY <1>2, <1>3, <1>4

LEMMA ClientOperationMoves ==
    ASSUME FlowsSound, Once, NEW h \in Requests, Flows!OperationWrite(h)
    PROVE  ClientMoves(h)
<1>1. flowsCall[h].todo # <<>> /\ Head(flowsCall[h].todo)[1] \in {"register", "finalize"}
  BY DEF Flows!OperationWrite, Flows!At
<1>2. /\ flows' = flows /\ runs' = runs /\ flowsDisk' = flowsDisk /\ RunsWell' = RunsWell
      /\ \/ Flows!Follow(h, Tail(flowsCall[h].todo))
         \/ Flows!Follow(h, Head(flowsCall[h].todo)[2])
  BY DEF Flows!OperationWrite, Flows!Proceed, Flows!Fail, RunsWell
<1>3. Head(flowsCall[h].todo)[1] = "register" /\ ClientHead(h, flowsCall[h].todo)
  BY <1>1, ClientAt DEF ClientHead
<1>4. h \in Handlers /\ Worker \in Handlers /\ h # Worker
  BY QueueAssumption DEF Requests
<1>5. CASE Flows!Follow(h, Tail(flowsCall[h].todo))
  BY <1>2, <1>3, <1>5, ClientFollow, ClientAfter, TameSelf, WellDone DEF ClientMoves, ClientHead
<1>6. CASE Flows!Follow(h, Head(flowsCall[h].todo)[2])
  <2> DEFINE P == Head(flowsCall[h].todo)[2]
  <2>1. RevertOnce(h, P) \/ PutBackOnce(P)
    BY <1>3 DEF ClientHead
  <2>2. P # <<>>
    <3>1. FinishFlow # <<>> /\ Flows!Revert # <<>>
      BY Sequences DEF FinishFlow, Flows!Revert
    <3>2. ASSUME NEW a, NEW b PROVE <<a>> # <<>> /\ <<a, b>> # <<>>
      BY Sequences
    <3> QED
      BY <2>1, <3>1, <3>2 DEF RevertOnce, PutBackOnce
  <2>3. flowsCall'[h].on = flowsCall[h].on /\ flowsCall'[h].undo = flowsCall[h].undo /\ flowsCall'[h].todo = P
        /\ flowsCall'[Worker] = flowsCall[Worker] /\ Others(h)
    BY <1>2, <1>4, <1>6, <2>2, FollowKeeps, ClientFollow DEF Others
  <2>4. Due' = Due
    BY <1>2, <2>3 DEF Due, Flows!At, Flows!On, Flows!Id, Flows!Wf
  <2>5. RevertOnce(h, P) => RevertOnce(h, flowsCall[h].todo)'
    BY <1>2, <2>3, <2>4 DEF RevertOnce, Deleting
  <2>6. PutBackOnce(P) => PutBackOnce(flowsCall[h].todo)'
    BY <1>2, <2>3 DEF PutBackOnce
  <2>7. ClientStage(h, flowsCall[h].todo)'
    BY <2>1, <2>5, <2>6 DEF ClientStage
  <2> QED
    BY <1>2, <2>3, <2>7, TameSelf, WellDone DEF ClientMoves
<1> QED
  BY <1>2, <1>5, <1>6

LEMMA ClientPutBackMoves ==
    ASSUME FlowsSound, Once, NoneIsSpecial, NEW h \in Requests, Flows!putBack(h)
    PROVE  ClientMoves(h)
<1>1. flowsCall[h].todo # <<>> /\ Head(flowsCall[h].todo)[1] = "putback"
  BY DEF Flows!putBack, Flows!At
<1>2. /\ flows' = Flows!Put(flows, Head(flowsCall[h].todo)[3], Head(flowsCall[h].todo)[5])
      /\ runs' = runs /\ flowsDisk' = flowsDisk
      /\ RunsWell' = RunsWell /\ Flows!Follow(h, Tail(flowsCall[h].todo))
  BY DEF Flows!putBack, Flows!Proceed, RunsWell, Flows!On, Flows!Wf
<1>3. ClientHead(h, flowsCall[h].todo)
  BY <1>1, ClientAt
<1>4. RunsWell => Tame(flows, flows')
  BY <1>1, <1>2, <1>3, WellDone, TameChanges DEF ClientHead
<1> QED
  BY <1>1, <1>2, <1>3, <1>4, ClientFollow, ClientAfter, WellDone DEF ClientMoves, ClientHead

LEMMA ClientEnterMoves ==
    ASSUME FlowsSound, Once, NoneIsSpecial, NEW h \in Requests, Flows!enterExecution(h)
    PROVE  ClientMoves(h)
<1>1. PICK x \in ExecutionIds :
        LET n == Flows!Execution(Flows!On(h), x)
        IN  /\ flows' = Flows!Put(flows, n, Flows!Begun(Flows!Wf(h)))
            /\ flowsCall' = [flowsCall EXCEPT
                  ![h].undo = [m \in {n} |-> None],
                  ![h].todo = <<Flows!Save(Flows!compensateState), Flows!Step("outcome", Flows!On(h), x, FALSE)>>]
            /\ flowsDisk' = flowsDisk /\ runs' = runs /\ RunsWell' = RunsWell
  BY DEF Flows!enterExecution, RunsWell
<1> DEFINE n == Flows!Execution(Flows!On(h), x)
           todo == <<Flows!Save(Flows!compensateState), Flows!Step("outcome", Flows!On(h), x, FALSE)>>
<1>2. Goes(flowsCall, flowsCall', h, todo, [m \in {n} |-> None])
  BY <1>1, CallParts DEF FlowsSound, Requests
<1>3. ExecutionProgram(todo)
  BY DEF ExecutionProgram
<1>4. Others(h) /\ ClientStage(h, flowsCall[h].todo)'
  BY <1>2, <1>3, ClientAfter DEF Goes, Others
<1>5. RunsWell => Tame(flows, flows')
  BY <1>1, WellDone, TameChanges, KindsOfNames
<1> QED
  BY <1>1, <1>4, <1>5, WellDone DEF ClientMoves

LEMMA ClientCancelledMoves ==
    ASSUME FlowsSound, Once, NoneIsSpecial, NEW h \in Requests, Flows!publishCancelled(h)
    PROVE  ClientMoves(h)
<1> DEFINE n == Head(flowsCall[h].todo)[3]
           gone == {Flows!eventAdmission(n[2], n[3])}
<1>1. flowsCall[h].todo # <<>> /\ Head(flowsCall[h].todo)[1] = "cancelled"
  BY DEF Flows!publishCancelled, Flows!At
<1>2. /\ \/ flows' = flows
         \/ flows' = Flows!Put(Flows!Drop(flows, gone), n, [flows[n] EXCEPT !.state = "CANCELLED"])
      /\ runs' = runs /\ flowsDisk' = flowsDisk /\ RunsWell' = RunsWell
  BY DEF Flows!publishCancelled, RunsWell, Flows!On
<1>3. Flows!Follow(h, Tail(flowsCall[h].todo)) \/ Flows!Follow(h, <<Flows!Save(<<>>)>>)
  BY DEF Flows!publishCancelled, Flows!Proceed, Flows!Keep
<1>4. n[1] = "execution" /\ Tail(flowsCall[h].todo) = <<>>
  BY <1>1, ClientAt DEF ClientHead
<1>5. RunsWell => Tame(flows, flows')
  <2>1. ASSUME RunsWell PROVE Tame(flows, Flows!Drop(flows, gone))
    BY <2>1, WellDone, TameChanges, KindsOfNames
  <2>2. ASSUME RunsWell, NEW v PROVE Tame(flows, Flows!Put(Flows!Drop(flows, gone), n, v))
    <3>1. Counter(Flows!Drop(flows, gone)) \in Nat
      BY <2>1, <2>2 DEF Tame
    <3>2. Tame(Flows!Drop(flows, gone), Flows!Put(Flows!Drop(flows, gone), n, v))
      BY <1>4, <3>1, TameChanges
    <3> QED
      BY <2>1, <2>2, <3>2, WellDone, TameChain
  <2> QED
    BY <1>2, <2>2, WellDone, TameSelf
<1>6. Others(h) /\ ClientStage(h, flowsCall[h].todo)'
  <2>1. PICK todo : Flows!Follow(h, todo) /\ (todo = <<>> \/ todo = <<Flows!Save(<<>>)>>)
    BY <1>3, <1>4
  <2> QED
    BY <1>2, <2>1, ClientFollow, ClientAfter
<1> QED
  BY <1>2, <1>5, <1>6, WellDone DEF ClientMoves

LEMMA ClientCopyMoves ==
    ASSUME FlowsSound, Once, Guarded, NEW h \in Requests, Flows!saveCopy(h)
    PROVE  ClientMoves(h)
<1>1. flowsCall[h].todo # <<>> /\ Head(flowsCall[h].todo)[1] = "copy"
  BY DEF Flows!saveCopy, Flows!At
<1>2. ClientHead(h, flowsCall[h].todo)
  BY <1>1, ClientAt
<1>3. flows' = flows /\ runs' = runs
  BY DEF Flows!saveCopy
<1>4. /\ RunsWell' => RunsWell
      /\ flowsDisk' = flowsDisk \/ (RunsWell /\ flowsDisk' = Head(flowsCall[h].todo)[3])
      /\ Flows!Follow(h, Tail(flowsCall[h].todo)) \/ Flows!Follow(h, Head(flowsCall[h].todo)[2])
  BY DEF Flows!saveCopy, Flows!Proceed, Flows!Fail, Flows!Writable, Flows!Failure, RunsWell
<1> QED
  BY <1>1, <1>2, <1>3, <1>4, ClientFollow, ClientAfter, TameSelf, WellDone DEF ClientMoves, ClientHead

LEMMA EndedTame ==
    ASSUME NEW doc, Counter(doc) \in Nat, NoneIsSpecial, NEW w, NEW d, NEW n, n[1] = "execution"
    PROVE  LET unadmitted == Flows!Drop(doc, {Flows!eventAdmission(w, d)})
           IN  Tame(doc, unadmitted) /\ \A v : Tame(doc, Flows!Put(unadmitted, n, v))
<1> DEFINE unadmitted == Flows!Drop(doc, {Flows!eventAdmission(w, d)})
<1>1. Tame(doc, unadmitted)
  BY TameChanges, KindsOfNames
<1>2. Counter(unadmitted) \in Nat
  BY <1>1 DEF Tame
<1>3. ASSUME NEW v PROVE Tame(doc, Flows!Put(unadmitted, n, v))
  <2>1. Tame(unadmitted, Flows!Put(unadmitted, n, v))
    BY <1>2, TameChanges
  <2> QED
    BY <1>1, <2>1, TameChain
<1> QED
  BY <1>1, <1>3

LEMMA ClientOutcomeMoves ==
    ASSUME FlowsSound, Once, NoneIsSpecial, NEW h \in Requests, Flows!executeWorkflow(h)
    PROVE  ClientMoves(h)
<1> DEFINE w == Flows!On(h)
           d == Flows!Id(h)
           n == Flows!Execution(w, d)
           S == {n, Flows!eventAdmission(w, d)}
           unadmitted == Flows!Drop(flows, {Flows!eventAdmission(w, d)})
           answer(ok) == IF Head(flowsCall[h].todo)[5] THEN Flows!Answer(w, d, ok) ELSE <<>>
           rest(ok) == <<Flows!Save(answer(FALSE))>> \o answer(ok)
<1>1. flowsCall[h].todo # <<>> /\ Head(flowsCall[h].todo)[1] = "outcome"
  BY DEF Flows!executeWorkflow, Flows!At
<1>2. flowsDisk' = flowsDisk /\ runs' = runs /\ RunsWell' = RunsWell
  BY DEF Flows!executeWorkflow, RunsWell
<1>3. Head(flowsCall[h].todo)[5] = FALSE
  BY <1>1, ClientAt DEF ClientHead
<1>4. \A ok : rest(ok) = <<Flows!Save(<<>>)>>
  BY <1>3, Joined
<1>5. \/ \E v : Flows!Record(h, Flows!Put(unadmitted, n, v), S, <<Flows!Save(<<>>)>>)
      \/ Flows!Record(h, unadmitted, S, <<Flows!Save(<<>>)>>)
  <2>1. \/ \E result \in {"SUCCEEDED", "FAILED"} :
              Flows!Record(h, Flows!Put(unadmitted, n, [flows[n] EXCEPT !.state = result]), S, rest(result = "SUCCEEDED"))
        \/ Flows!Record(h, unadmitted, S, rest(FALSE))
    BY DEF Flows!executeWorkflow
  <2> HIDE DEF n, S, unadmitted, rest
  <2> QED
    BY <1>4, <2>1
<1>6. PICK next : /\ Flows!Record(h, next, S, <<Flows!Save(<<>>)>>)
                  /\ next = unadmitted \/ \E v : next = Flows!Put(unadmitted, n, v)
  BY <1>5
<1>7. flows' = next /\ Others(h) /\ flowsCall'[h].todo = <<Flows!Save(<<>>)>>
  <2>1. PICK todo : todo = <<Flows!Save(<<>>)>> /\ todo # <<>>
    BY Sequences
  <2>2. flows' = next
        /\ flowsCall' = [flowsCall EXCEPT ![h] = IF todo = <<>> THEN Idle
                                          ELSE [@ EXCEPT !.todo = todo, !.undo = [m \in S |-> Flows!Value(next, m)]]]
    BY <1>6, <2>1 DEF Flows!Record, Flows!Idle, Idle, Flows!Nothing, Nothing
  <2>3. h \in Handlers /\ Calls(flowsCall)
    BY DEF Requests, FlowsSound
  <2>4. Goes(flowsCall, flowsCall', h, todo, [m \in S |-> Flows!Value(next, m)])
    BY <2>1, <2>2, <2>3, CallRecords
  <2> QED
    BY <2>1, <2>2, <2>4 DEF Goes, Others
<1>8. RunsWell => Tame(flows, next)
  BY <1>6, WellDone, EndedTame, KindsOfNames
<1> QED
  BY <1>2, <1>7, <1>8, ClientAfter, WellDone DEF ClientMoves

LEMMA ClientNotWorker ==
    ASSUME Once, NEW h \in Requests
    PROVE  ~Flows!findExecution(h) /\ ~Flows!admitExecution(h) /\ ~Flows!beginExecution(h) /\ ~Flows!runWorkflow(h)
<1>1. ASSUME NEW s \in {"admit", "enterEvent", "begin", "run"}, Flows!At(h, s) PROVE FALSE
  <2>1. flowsCall[h].todo # <<>> /\ Head(flowsCall[h].todo)[1] = s
    BY <1>1 DEF Flows!At
  <2> QED
    BY <2>1, ClientAt DEF ClientHead
<1> QED
  BY <1>1 DEF Flows!findExecution, Flows!admitExecution, Flows!beginExecution, Flows!runWorkflow

LEMMA ClientStepMoves ==
    ASSUME FlowsSound, Once, Guarded, NoneIsSpecial, NEW h \in Requests, Flows!FlowStep(h)
    PROVE  ClientMoves(h)
  BY ClientPutBackMoves, ClientEnterMoves, ClientCancelledMoves, ClientCopyMoves, ClientOutcomeMoves, ClientNotWorker,
     ClientSaveMoves, ClientRollbackMoves, ClientOperationMoves DEF Flows!FlowStep

(* The client's requests.                                                    *)
LEMMA ClientSet ==
    ASSUME FlowsSound, NEW h \in Requests, NEW todo, NEW undo, NEW on,
           flowsCall' = [flowsCall EXCEPT ![h] = [todo |-> todo, undo |-> undo, on |-> on]]
    PROVE  Others(h) /\ flowsCall'[h].todo = todo /\ flowsCall'[h].undo = undo /\ flowsCall'[h].on = on
           /\ flowsCall'[Worker] = flowsCall[Worker]
<1>1. Calls(flowsCall) /\ h \in Handlers /\ h # Worker /\ Worker \in Handlers
  BY QueueAssumption DEF FlowsSound, Requests
<1> QED
  BY <1>1 DEF Calls, Others

LEMMA CreateWorkflowMoves ==
    ASSUME FlowsSound, Once, NoneIsSpecial, NEW h \in Requests, Flows!createWorkflow(h)
    PROVE  ClientMoves(h)
<1>1. PICK n \in Flows!Workflows :
         /\ n \notin DOMAIN flows
         /\ Flows!Change(h, Flows!Revised(n, Flows!nextRevisionID), {n}, None, FinishFlow)
  BY DEF Flows!createWorkflow, Flows!Handle, Flows!Live, FinishFlow
<1>2. /\ flows' = Flows!Revised(n, Flows!nextRevisionID)
      /\ flowsDisk' = flowsDisk /\ runs' = runs /\ RunsWell' = RunsWell
      /\ flowsCall' = [flowsCall EXCEPT ![h] = [todo |-> FinishFlow, undo |-> [m \in {n} |-> Flows!Value(flows, m)], on |-> None]]
  BY <1>1 DEF Flows!Change, Flows!Before, RunsWell
<1>3. RunsWell => Tame(flows, flows')
  BY <1>2, WellDone, RevisedTame
<1>4. [m \in {n} |-> Flows!Value(flows, m)] = [m \in {n} |-> None]
  BY <1>1 DEF Flows!Value
<1>5. Others(h) /\ flowsCall'[h].todo = FinishFlow /\ flowsCall'[h].undo = [m \in {n} |-> None]
  <2>1. PICK undo, todo, on : undo = [m \in {n} |-> Flows!Value(flows, m)] /\ todo = FinishFlow /\ on = None
    OBVIOUS
  <2>2. flowsCall' = [flowsCall EXCEPT ![h] = [todo |-> todo, undo |-> undo, on |-> on]]
    BY <1>2, <2>1
  <2>3. Others(h) /\ flowsCall'[h].todo = todo /\ flowsCall'[h].undo = undo /\ flowsCall'[h].on = on
        /\ flowsCall'[Worker] = flowsCall[Worker]
    BY <2>2, ClientSet
  <2> QED
    BY <1>4, <2>1, <2>3
<1>6. ClientStage(h, flowsCall[h].todo)'
  BY <1>5 DEF ClientStage, RevertOnce
<1> QED
  BY <1>2, <1>3, <1>5, <1>6, WellDone DEF ClientMoves

LEMMA PatchWorkflowMoves ==
    ASSUME FlowsSound, Once, NoneIsSpecial, NEW h \in Requests, Flows!patchWorkflow(h)
    PROVE  ClientMoves(h)
<1>1. PICK n \in Flows!Workflows :
         /\ n \in DOMAIN flows
         /\ Flows!Change(h, Flows!Revised(n, flows[n].made), {n, Flows!revCounter}, None,
                <<Flows!Register(<<PutBackStep(n, flows[n])>>), Flows!Save(Flows!compensateState)>>)
  BY DEF Flows!patchWorkflow, Flows!Handle, Flows!Live, PutBackStep
<1> DEFINE v == flows[n]
           todo == <<Flows!Register(<<PutBackStep(n, v)>>), Flows!Save(Flows!compensateState)>>
<1>2. /\ flows' = Flows!Revised(n, v.made)
      /\ flowsDisk' = flowsDisk /\ runs' = runs /\ RunsWell' = RunsWell
      /\ flowsCall' = [flowsCall EXCEPT ![h] =
            [todo |-> todo, undo |-> [m \in {n, Flows!revCounter} |-> Flows!Value(flows, m)], on |-> None]]
  BY <1>1 DEF Flows!Change, Flows!Before, RunsWell
<1>3. RunsWell => Tame(flows, flows')
  BY <1>1, <1>2, WellDone, RevisedTame
<1>4. n \in DOMAIN flows' /\ flows'[n].made = v.made
  <2>1. n # Flows!revCounter
    BY KindsOfNames
  <2> QED
    BY <1>2, <2>1 DEF Flows!Revised, Flows!Put
<1>5. Others(h) /\ flowsCall'[h].todo = todo
  BY <1>2, ClientSet
<1>6. PutBackOnce(flowsCall[h].todo)'
  BY <1>4, <1>5 DEF PutBackOnce
<1>7. ClientStage(h, flowsCall[h].todo)'
  BY <1>6 DEF ClientStage
<1> QED
  BY <1>2, <1>3, <1>5, <1>7, WellDone DEF ClientMoves

LEMMA DeleteWorkflowMoves ==
    ASSUME FlowsSound, Once, NoneIsSpecial, NEW h \in Requests, Flows!deleteWorkflow(h)
    PROVE  ClientMoves(h)
<1>1. PICK n \in Flows!Workflows :
        LET S == {n} \union Flows!Under(n, flows)
        IN  /\ n \in DOMAIN flows /\ Flows!EventExecutionMuFree
            /\ Flows!Change(h, Flows!Drop(flows, S), S, Flows!eventExecutionMu, FinishFlow)
  BY DEF Flows!deleteWorkflow, Flows!Live, FinishFlow
<1> DEFINE S == {n} \union Flows!Under(n, flows)
<1>2. /\ flows' = Flows!Drop(flows, S)
      /\ flowsDisk' = flowsDisk /\ runs' = runs /\ RunsWell' = RunsWell
      /\ flowsCall' = [flowsCall EXCEPT ![h] =
            [todo |-> FinishFlow, undo |-> [m \in S |-> Flows!Value(flows, m)], on |-> Flows!eventExecutionMu]]
  BY <1>1 DEF Flows!Change, Flows!Before, RunsWell
<1>3. RunsWell => Tame(flows, flows')
  BY <1>2, WellDone, TameChanges
<1>4. flowsCall[Worker].todo = <<>>
  BY <1>1, QueueAssumption DEF Once, WorkerOnce, Flows!EventExecutionMuFree
<1>5. /\ Others(h) /\ flowsCall'[h].todo = FinishFlow /\ flowsCall'[h].undo = [m \in S |-> Flows!Value(flows, m)]
      /\ flowsCall'[h].on = Flows!eventExecutionMu /\ flowsCall'[Worker] = flowsCall[Worker]
  <2>1. PICK undo, todo : undo = [m \in S |-> Flows!Value(flows, m)] /\ todo = FinishFlow
    OBVIOUS
  <2>2. flowsCall' = [flowsCall EXCEPT ![h] = [todo |-> todo, undo |-> undo, on |-> Flows!eventExecutionMu]]
    BY <1>2, <2>1
  <2>3. Others(h) /\ flowsCall'[h].todo = todo /\ flowsCall'[h].undo = undo /\ flowsCall'[h].on = Flows!eventExecutionMu
        /\ flowsCall'[Worker] = flowsCall[Worker]
    BY <2>2, ClientSet
  <2> QED
    BY <2>1, <2>3
<1>6. Due' = Due
  BY <1>2, <1>5 DEF Due, Flows!At, Flows!On, Flows!Id, Flows!Wf
<1>7. RunsWell => DocOnce(Flows!Restore(Flows!Drop(flows, S), [m \in S |-> Flows!Value(flows, m)]), Due)
  <2>1. Flows!revCounter \notin S
    BY KindsOfNames DEF Flows!Under, NoneIsSpecial
  <2>2. DocSound(flows, runs)
    BY DEF FlowsSound
  <2> QED
    BY <2>1, <2>2, WellDone, DeletionUndone, TameKeeps
<1>8. RunsWell' => Deleting(h)'
  BY <1>2, <1>4, <1>5, <1>6, <1>7 DEF Deleting
<1>9. ClientStage(h, flowsCall[h].todo)'
  BY <1>5, <1>8 DEF ClientStage, RevertOnce
<1> QED
  BY <1>2, <1>3, <1>5, <1>9, WellDone DEF ClientMoves

LEMMA CreateExecutionMoves ==
    ASSUME FlowsSound, Once, NEW h \in Requests, Flows!createExecution(h)
    PROVE  ClientMoves(h)
<1>1. PICK n : /\ flowsCall' = [flowsCall EXCEPT ![h] = [todo |-> <<Flows!Step("enter", n, None, flows[n])>>,
                                                           undo |-> Nothing, on |-> None]]
               /\ flows' = flows /\ flowsDisk' = flowsDisk /\ runs' = runs /\ RunsWell' = RunsWell
  BY DEF Flows!createExecution, Flows!Look, Flows!Nothing, Nothing, RunsWell
<1> DEFINE todo == <<Flows!Step("enter", n, None, flows[n])>>
<1>2. ExecutionProgram(todo)
  BY DEF ExecutionProgram
<1>3. Others(h) /\ flowsCall'[h].todo = todo
  <2>1. flowsCall' = [flowsCall EXCEPT ![h] = [todo |-> todo, undo |-> Nothing, on |-> None]]
    BY <1>1
  <2> HIDE DEF todo
  <2> QED
    BY <2>1, ClientSet
<1>4. ClientStage(h, flowsCall[h].todo)'
  BY <1>2, <1>3, ClientAfter
<1> QED
  BY <1>1, <1>3, <1>4, TameSelf, WellDone DEF ClientMoves

LEMMA CancelExecutionMoves ==
    ASSUME FlowsSound, Once, NoneIsSpecial, NEW h \in Requests, Flows!cancelExecution(h)
    PROVE  ClientMoves(h)
<1>1. PICK n : /\ n[1] = "execution"
               /\ LET admission == Flows!eventAdmission(n[2], n[3])
                      next == Flows!Put(Flows!Drop(flows, {admission}), n, [flows[n] EXCEPT !.state = "CANCELLED"])
                  IN  flowsCall' = [flowsCall EXCEPT ![h] = [todo |-> <<<<"copy", <<>>, next>>, <<"cancelled", <<>>, n>>>>,
                                       undo |-> Flows!Before({n, admission} \cap Flows!Live), on |-> Flows!persistMu]]
  BY DEF Flows!cancelExecution, Flows!Executions, Flows!Keep
<1> DEFINE admission == Flows!eventAdmission(n[2], n[3])
           next == Flows!Put(Flows!Drop(flows, {admission}), n, [flows[n] EXCEPT !.state = "CANCELLED"])
           todo == <<<<"copy", <<>>, next>>, <<"cancelled", <<>>, n>>>>
<1>2. flows' = flows /\ flowsDisk' = flowsDisk /\ runs' = runs /\ RunsWell' = RunsWell
  BY DEF Flows!cancelExecution, RunsWell
<1>3. Others(h) /\ flowsCall'[h].todo = todo /\ flowsCall'[h].on = Flows!persistMu
      /\ flowsCall'[Worker] = flowsCall[Worker]
  <2>1. PICK undo, t, on : undo = Flows!Before({n, admission} \cap Flows!Live) /\ t = todo /\ on = Flows!persistMu
    OBVIOUS
  <2>2. flowsCall' = [flowsCall EXCEPT ![h] = [todo |-> t, undo |-> undo, on |-> on]]
    BY <1>1, <2>1
  <2>3. Others(h) /\ flowsCall'[h].todo = t /\ flowsCall'[h].undo = undo /\ flowsCall'[h].on = on
        /\ flowsCall'[Worker] = flowsCall[Worker]
    BY <2>2, ClientSet
  <2> HIDE DEF todo
  <2> QED
    BY <2>1, <2>3
<1>4. Due' = Due
  BY <1>2, <1>3 DEF Due, Flows!At, Flows!On, Flows!Id, Flows!Wf
<1>5. RunsWell => DocOnce(next, Due)
  <2>1. RunsWell => Tame(flows, next)
    BY <1>1, WellDone, EndedTame
  <2> HIDE DEF next
  <2> QED
    BY <2>1, WellDone, TameKeeps
<1>6. CopyOnce(h, flowsCall[h].todo)'
  <2> HIDE DEF next
  <2> QED
    BY <1>1, <1>2, <1>3, <1>4, <1>5 DEF CopyOnce
<1>7. ClientStage(h, flowsCall[h].todo)'
  BY <1>6 DEF ClientStage
<1> QED
  BY <1>2, <1>3, <1>7, TameSelf, WellDone DEF ClientMoves

LEMMA ClientRequestMoves ==
    ASSUME FlowsSound, Once, NoneIsSpecial, NEW h \in Requests, Flows!FlowRequest(h)
    PROVE  ClientMoves(h)
  BY CreateWorkflowMoves, PatchWorkflowMoves, DeleteWorkflowMoves, CreateExecutionMoves, CancelExecutionMoves
     DEF Flows!FlowRequest

LEMMA ClientBegins ==
    ASSUME FlowsSound, NEW h \in Requests, Flows!FlowRequest(h)
    PROVE  flowsCall'[h].todo # <<>>
<1>1. ASSUME NEW todo, NEW undo, NEW on, todo # <<>>,
             flowsCall' = [flowsCall EXCEPT ![h] = [todo |-> todo, undo |-> undo, on |-> on]]
      PROVE  flowsCall'[h].todo # <<>>
  BY <1>1, ClientSet
<1>2. \A a, b : <<a>> # <<>> /\ <<a, b>> # <<>>
  BY Sequences
<1>3. CASE Flows!createWorkflow(h) \/ Flows!patchWorkflow(h) \/ Flows!deleteWorkflow(h)
  <2>1. PICK a, b, doc, S, on : Flows!Change(h, doc, S, on, <<a, b>>)
    BY <1>3 DEF Flows!createWorkflow, Flows!patchWorkflow, Flows!deleteWorkflow, Flows!Handle
  <2> QED
    BY <1>1, <1>2, <2>1 DEF Flows!Change
<1>4. CASE Flows!createExecution(h)
  <2>1. PICK a : Flows!Look(h, None, <<a>>)
    BY <1>4 DEF Flows!createExecution
  <2> QED
    BY <1>1, <1>2, <2>1 DEF Flows!Look
<1>5. CASE Flows!cancelExecution(h)
  <2>1. PICK a, b, undo, on : flowsCall' = [flowsCall EXCEPT ![h] = [todo |-> <<a, b>>, undo |-> undo, on |-> on]]
    BY <1>5 DEF Flows!cancelExecution
  <2> QED
    BY <1>1, <1>2, <2>1
<1> QED
  BY <1>3, <1>4, <1>5 DEF Flows!FlowRequest

-----------------------------------------------------------------------------
(* The worker's steps.                                                       *)
LEMMA WorkerLooks ==
    ASSUME NEW P, NEW w, NEW d
    PROVE  /\ \A v : /\ AtEnter(P, w, d, v) => P # <<>> /\ Head(P)[1] = "enterEvent"
                     /\ AtBegin(P, w, d, v) => P # <<>> /\ Head(P)[1] \in {"save", "begin"}
                     /\ AtMark(P, w, d, v) => P # <<>> /\ Head(P)[1] = "save"
                     /\ AtRun(P, w, d, v) => P # <<>> /\ Head(P) = Flows!Step("run", w, d, v)
           /\ AtEnd(P, w, d) => P # <<>> /\ Head(P)[1] \in {"undo", "save", "answer", "outcome"}
<1>1. ASSUME NEW v PROVE AtEnter(P, w, d, v) => P # <<>> /\ Head(P)[1] = "enterEvent"
  BY Sequences, StepParts DEF AtEnter
<1>2. ASSUME NEW v PROVE AtMark(P, w, d, v) => P # <<>> /\ Head(P)[1] = "save"
  BY Sequences, StepParts DEF AtMark
<1>3. ASSUME NEW v PROVE AtRun(P, w, d, v) => P # <<>> /\ Head(P) = Flows!Step("run", w, d, v)
  BY Sequences DEF AtRun
<1>4. ASSUME NEW v, AtBegin(P, w, d, v) PROVE P # <<>> /\ Head(P)[1] \in {"save", "begin"}
  <2>1. PICK s, b : /\ s = Flows!Save(TakenBack(w, d)) /\ b = Flows!Step("begin", w, d, v)
                    /\ P = <<b>> \/ P = <<s, b>>
    BY <1>4 DEF AtBegin
  <2>2. s[1] = "save" /\ b[1] = "begin"
    BY <2>1, StepParts
  <2>3. P # <<>> /\ Head(P) \in {s, b}
    <3>1. CASE P = <<b>>
      BY <3>1, Sequences
    <3>2. CASE P = <<s, b>>
      BY <3>2, Sequences
    <3> QED
      BY <2>1, <3>1, <3>2
  <2> QED
    BY <2>2, <2>3
<1>5. ASSUME AtEnd(P, w, d) PROVE P # <<>> /\ Head(P)[1] \in {"undo", "save", "answer", "outcome"}
  <2>1. PICK u, s, a, y, o : /\ u = Flows!Undo /\ s = Flows!Save(<<AnswerStep(w, d, FALSE)>>) /\ a = AnswerStep(w, d, FALSE)
                             /\ y = AnswerStep(w, d, TRUE) /\ o = OutcomeStep(w, d)
    OBVIOUS
  <2>2. P \in {<<u, s, a>>, <<s, a>>, <<a>>, <<o>>, <<s, y>>, <<y>>}
    BY <1>5, <2>1 DEF AtEnd, TakenBack, Refused, AfterRun
  <2>3. P # <<>> /\ Head(P) \in {u, s, a, y, o}
    BY <2>2, Sequences
  <2>4. u[1] = "undo" /\ s[1] = "save"
    BY <2>1, StepParts
  <2>5. a[1] = "answer" /\ y[1] = "answer"
    <3>1. \A x : AnswerStep(w, d, x)[1] = "answer"
      BY StepParts DEF AnswerStep
    <3> QED
      BY <2>1, <3>1
  <2>6. o[1] = "outcome"
    <3>1. \A x : Flows!Step("outcome", w, d, x)[1] = "outcome"
      BY StepParts
    <3> QED
      BY <2>1, <3>1 DEF OutcomeStep
  <2> QED
    BY <2>3, <2>4, <2>5, <2>6
<1> QED
  BY <1>1, <1>2, <1>3, <1>4, <1>5

LEMMA WorkerAtHead ==
    ASSUME Once, flowsCall[Worker].todo # <<>>
    PROVE  /\ flowsCall[Worker].on = Flows!eventExecutionMu
           /\ \E w \in Flows!Workflows, d \in DeliveryIds :
                 WorkerStage(flowsCall[Worker].todo, w, d) /\ WorkerHead(flowsCall[Worker].todo, w, d)
  BY WorkerHeads DEF Once, WorkerOnce

LEMMA WorkerFollow ==
    ASSUME FlowsSound, NEW todo, todo # <<>>, Flows!Follow(Worker, todo)
    PROVE  Others(Worker) /\ flowsCall'[Worker].todo = todo /\ flowsCall'[Worker].on = flowsCall[Worker].on
<1>1. Worker \in Handlers /\ Calls(flowsCall)
  BY QueueAssumption DEF FlowsSound
<1>2. flowsCall'[Worker].on = flowsCall[Worker].on
  BY <1>1, FollowKeeps
<1>3. flowsCall' = [flowsCall EXCEPT ![Worker] = IF todo = <<>> THEN Idle ELSE [@ EXCEPT !.todo = todo]]
  BY DEF Flows!Follow, Flows!Idle, Idle, Flows!Nothing, Nothing
<1>4. PICK undo : Goes(flowsCall, flowsCall', Worker, todo, undo)
  BY <1>1, <1>3, CallFollows
<1> QED
  BY <1>2, <1>4 DEF Goes, Others

LEMMA WorkerGoesOn ==
    ASSUME Once, NEW w \in Flows!Workflows, NEW d \in DeliveryIds, NEW todo,
           flowsCall[Worker].todo # <<>>, Head(flowsCall[Worker].todo)[1] # "run", runs' = runs,
           Others(Worker), flowsCall'[Worker].todo = todo, flowsCall'[Worker].on = flowsCall[Worker].on,
           AtEnd(todo, w, d)' \/ \E v : AtEnter(todo, w, d, v)' \/ AtBegin(todo, w, d, v)' \/ AtMark(todo, w, d, v)',
           flowsDisk' = flowsDisk \/ (RunsWell /\ flowsDisk' = flows),
           RunsWell' => /\ RunsWell /\ DocOnce(flows', runs)
                        /\ \A n \in Flows!Workflows : n \in DOMAIN flows => n \in DOMAIN flows' /\ flows'[n].made = flows[n].made
    PROVE  WorkerMoves
<1>1. flowsCall[Worker].on = Flows!eventExecutionMu
  BY WorkerAtHead
<1>2. WorkerStage(todo, w, d)'
  BY DEF WorkerStage
<1>3. WorkerOnce'
  BY <1>1, <1>2 DEF WorkerOnce
<1>4. todo # <<>> /\ Head(todo)[1] # "run"
  <2>1. ASSUME NEW v PROVE AtEnter(todo, w, d, v)' \/ AtBegin(todo, w, d, v)' \/ AtMark(todo, w, d, v)'
                             => todo # <<>> /\ Head(todo)[1] # "run"
    <3>1. /\ AtEnter(todo, w, d, v)' => todo = <<Flows!Step("enterEvent", w, d, v)>>
          /\ AtBegin(todo, w, d, v)' => todo \in {<<Flows!Step("begin", w, d, v)>>,
                                                  <<Flows!Save(TakenBack(w, d)), Flows!Step("begin", w, d, v)>>}
          /\ AtMark(todo, w, d, v)' =>
                todo = <<Flows!Save(Refused(w, d)), Flows!Step("run", w, d, v), OutcomeStep(w, d)>>
      BY DEF AtEnter, AtBegin, AtMark
    <3>2. PICK e, b, s, t, r, o :
            /\ e = Flows!Step("enterEvent", w, d, v) /\ b = Flows!Step("begin", w, d, v)
            /\ s = Flows!Save(TakenBack(w, d)) /\ t = Flows!Save(Refused(w, d)) /\ r = Flows!Step("run", w, d, v)
            /\ o = OutcomeStep(w, d)
      OBVIOUS
    <3>3. e[1] = "enterEvent" /\ b[1] = "begin" /\ s[1] = "save" /\ t[1] = "save"
      BY <3>2, StepParts
    <3>4. ASSUME todo \in {<<e>>, <<b>>, <<s, b>>, <<t, r, o>>} PROVE todo # <<>> /\ Head(todo) \in {e, b, s, t}
      BY <3>4, Sequences
    <3> QED
      BY <3>1, <3>2, <3>3, <3>4
  <2>2. AtEnd(todo, w, d)' => todo # <<>> /\ Head(todo)[1] # "run"
    <3>1. AtEnd(todo, w, d)' => AtEnd(todo, w, d) \/ todo = TakenBack(w, d)
      BY DEF AtEnd
    <3>2. TakenBack(w, d) # <<>> /\ Head(TakenBack(w, d))[1] = "undo"
      BY Sequences, StepParts DEF TakenBack
    <3> QED
      BY <3>1, <3>2, WorkerLooks
  <2> QED
    BY <2>1, <2>2
<1>5. Due = runs /\ Due' = runs
  <2>1. ~Flows!At(Worker, "run") /\ ~Flows!At(Worker, "run")'
    BY <1>4 DEF Flows!At
  <2> QED
    BY <2>1 DEF Due
<1> QED
  BY <1>3, <1>5 DEF WorkerMoves, Once

LEMMA WorkerNames ==
    ASSUME Once, flowsCall[Worker].todo # <<>>
    PROVE  \E w \in Flows!Workflows, d \in DeliveryIds :
             /\ WorkerHead(flowsCall[Worker].todo, w, d)
             /\ Head(flowsCall[Worker].todo)[1] \in {"admit", "enterEvent", "begin", "run", "outcome"}
                   => w = Flows!On(Worker) /\ d = Flows!Id(Worker)
  BY WorkerAtHead DEF WorkerHead, Flows!On, Flows!Id

LEMMA WorkerFindMoves ==
    ASSUME FlowsSound, Once, Flows!findExecution(Worker)
    PROVE  WorkerMoves
<1>1. flowsCall[Worker].todo # <<>> /\ Head(flowsCall[Worker].todo)[1] = "admit"
  BY DEF Flows!findExecution, Flows!At
<1>2. PICK w \in Flows!Workflows, d \in DeliveryIds : w = Flows!On(Worker) /\ d = Flows!Id(Worker)
  BY <1>1, WorkerNames
<1> DEFINE n == Flows!Execution(w, d)
<1>3. flows' = flows /\ flowsDisk' = flowsDisk /\ runs' = runs /\ RunsWell' = RunsWell
  BY DEF Flows!findExecution, RunsWell
<1>4. PICK todo : /\ Flows!Follow(Worker, todo)
                  /\ \/ todo = <<AnswerStep(w, d, FALSE)>> \/ todo = <<AnswerStep(w, d, TRUE)>>
                     \/ todo = <<Flows!Step("enterEvent", w, d, flows[w])>> /\ w \in DOMAIN flows /\ n \notin DOMAIN flows
                     \/ todo = <<Flows!Step("begin", w, d, flows[w])>> /\ w \in DOMAIN flows /\ n \in DOMAIN flows
                        /\ AdmittedIn(flows, w, d)
  <2>1. \A ok : Flows!Answer(w, d, ok) = <<AnswerStep(w, d, ok)>>
    BY DEF Flows!Answer, AnswerStep
  <2>2. PICK todo : /\ Flows!Follow(Worker, todo)
                    /\ todo = IF w \notin DOMAIN flows THEN Flows!Answer(w, d, FALSE)
                              ELSE IF n \notin DOMAIN flows THEN <<Flows!Step("enterEvent", w, d, flows[w])>>
                              ELSE IF Flows!Active(n) /\ AdmittedIn(flows, w, d) /\ flows[n].revision = flows[w].revision
                                   THEN <<Flows!Step("begin", w, d, flows[w])>>
                              ELSE Flows!Answer(w, d, flows[n].state = "SUCCEEDED")
    BY <1>2 DEF Flows!findExecution, Flows!Live, Flows!Admitted, AdmittedIn
  <2>3. (flows[n].state = "SUCCEEDED") \in BOOLEAN
    OBVIOUS
  <2>4. Flows!Answer(w, d, flows[n].state = "SUCCEEDED") \in {<<AnswerStep(w, d, FALSE)>>, <<AnswerStep(w, d, TRUE)>>}
    <3>1. CASE (flows[n].state = "SUCCEEDED") = TRUE
      BY <2>1, <3>1
    <3>2. CASE (flows[n].state = "SUCCEEDED") = FALSE
      BY <2>1, <3>2
    <3> QED
      BY <2>3, <3>1, <3>2
  <2> HIDE DEF n
  <2> QED
    BY <2>1, <2>2, <2>4
<1>5. todo # <<>>
  BY <1>4, Sequences
<1>6. Others(Worker) /\ flowsCall'[Worker].todo = todo /\ flowsCall'[Worker].on = flowsCall[Worker].on
  BY <1>4, <1>5, WorkerFollow
<1>7. ASSUME RunsWell, w \in DOMAIN flows
      PROVE  /\ flows[w].made \in Nat /\ flows[w].made <= Counter(flows)
             /\ RanAs(w, d, flows[w].made) \in runs => n \in DOMAIN flows /\ ~AdmittedIn(flows, w, d)
  <2>1. DocOnce(flows, runs)
    BY <1>7, WellDone, DueRuns
  <2> QED
    BY <1>2, <1>7, <2>1 DEF DocOnce, MarkedIn, EnteredIn, Entered
<1>8. AtEnd(todo, w, d)' \/ \E v : AtEnter(todo, w, d, v)' \/ AtBegin(todo, w, d, v)' \/ AtMark(todo, w, d, v)'
  <2>1. CASE todo = <<AnswerStep(w, d, FALSE)>> \/ todo = <<AnswerStep(w, d, TRUE)>>
    BY <2>1 DEF AtEnd, AfterRun
  <2>2. CASE todo = <<Flows!Step("enterEvent", w, d, flows[w])>> /\ w \in DOMAIN flows /\ n \notin DOMAIN flows
    <3>1. PICK v : v = flows[w]
      OBVIOUS
    <3>2. AtEnter(todo, w, d, v)'
      BY <1>3, <1>7, <2>2, <3>1 DEF AtEnter, Ready
    <3> QED
      BY <3>2
  <2>3. CASE /\ todo = <<Flows!Step("begin", w, d, flows[w])>> /\ w \in DOMAIN flows /\ n \in DOMAIN flows
             /\ AdmittedIn(flows, w, d)
    <3>1. PICK v : v = flows[w]
      OBVIOUS
    <3>2. AtBegin(todo, w, d, v)'
      BY <1>3, <1>7, <2>3, <3>1 DEF AtBegin, Ready, EnteredIn, Entered
    <3> QED
      BY <3>2
  <2> QED
    BY <1>4, <2>1, <2>2, <2>3
<1>9. RunsWell' => /\ RunsWell /\ DocOnce(flows', runs)
                   /\ \A m \in Flows!Workflows : m \in DOMAIN flows => m \in DOMAIN flows' /\ flows'[m].made = flows[m].made
  BY <1>3, WellDone, DueRuns
<1> QED
  BY <1>1, <1>3, <1>6, <1>8, <1>9, WorkerGoesOn

LEMMA WorkerAdmitMoves ==
    ASSUME FlowsSound, Once, Flows!admitExecution(Worker)
    PROVE  WorkerMoves
<1>1. flowsCall[Worker].todo # <<>> /\ Head(flowsCall[Worker].todo)[1] = "enterEvent"
  BY DEF Flows!admitExecution, Flows!At
<1>0. PICK w \in Flows!Workflows, d \in DeliveryIds : \E v :
        /\ w = Flows!On(Worker) /\ d = Flows!Id(Worker) /\ v = Flows!Wf(Worker)
        /\ AtEnter(flowsCall[Worker].todo, w, d, v)
  BY <1>1, WorkerNames DEF WorkerHead, Flows!Wf
<1>2. PICK v : /\ w = Flows!On(Worker) /\ d = Flows!Id(Worker) /\ v = Flows!Wf(Worker)
               /\ AtEnter(flowsCall[Worker].todo, w, d, v)
  BY <1>0
<1> DEFINE n == Flows!Execution(w, d)
           admission == Flows!eventAdmission(w, d)
           todo == <<Flows!Save(TakenBack(w, d)), Flows!Step("begin", w, d, v)>>
           next == Flows!Put(Flows!Put(flows, n, Flows!Begun(v)), admission, "ADMITTED")
<1>3. flows' = next /\ flowsDisk' = flowsDisk /\ runs' = runs /\ RunsWell' = RunsWell
  BY <1>2 DEF Flows!admitExecution, RunsWell
<1>4. \E undo : flowsCall' = [flowsCall EXCEPT ![Worker].undo = undo, ![Worker].todo = todo]
  <2>1. <<Flows!Undo, Flows!Save(Flows!Answer(w, d, FALSE))>> \o Flows!Answer(w, d, FALSE) = TakenBack(w, d)
    <3>1. PICK u, s, a : u = Flows!Undo /\ s = Flows!Save(<<AnswerStep(w, d, FALSE)>>) /\ a = AnswerStep(w, d, FALSE)
      OBVIOUS
    <3>2. Flows!Answer(w, d, FALSE) = <<a>> /\ Flows!Save(Flows!Answer(w, d, FALSE)) = s /\ TakenBack(w, d) = <<u, s, a>>
      BY <3>1 DEF Flows!Answer, AnswerStep, TakenBack
    <3> QED
      BY <3>1, <3>2, Joined
  <2> QED
    BY <1>2, <2>1 DEF Flows!admitExecution
<1>5. Others(Worker) /\ flowsCall'[Worker].todo = todo /\ flowsCall'[Worker].on = flowsCall[Worker].on
  <2>1. PICK undo, t : t = todo /\ flowsCall' = [flowsCall EXCEPT ![Worker].undo = undo, ![Worker].todo = t]
    BY <1>4
  <2>2. Calls(flowsCall) /\ Worker \in Handlers
    BY QueueAssumption DEF FlowsSound
  <2>3. Goes(flowsCall, flowsCall', Worker, t, undo)
    BY <2>1, <2>2, CallParts
  <2>4. flowsCall'[Worker].on = flowsCall[Worker].on
    BY <2>1, <2>2, OnKept
  <2> QED
    BY <2>1, <2>3, <2>4 DEF Goes, Others
<1>6. n[1] = "execution" /\ admission[1] = "admission" /\ n # admission
  BY KindsOfNames
<1>7. /\ \A m : m # n /\ m # admission => (m \in DOMAIN next <=> m \in DOMAIN flows) /\ (m \in DOMAIN flows => next[m] = flows[m])
      /\ n \in DOMAIN next
  <2> HIDE DEF n, admission
  <2> QED
    BY DEF Flows!Put
<1>8. /\ Counter(next) = Counter(flows)
      /\ \A m \in Flows!Workflows : (m \in DOMAIN next <=> m \in DOMAIN flows) /\ (m \in DOMAIN flows => next[m] = flows[m])
  <2> HIDE DEF n, admission, next
  <2> QED
    BY <1>6, <1>7, KindsOfNames DEF Counter
<1>9. \A x \in Flows!Workflows, y \in DeliveryIds :
         /\ Entered(flows, x, y) => Entered(next, x, y)
         /\ AdmittedIn(next, x, y) => AdmittedIn(flows, x, y) \/ (x = w /\ y = d)
  <2>1. \A x, y : Flows!eventAdmission(x, y) = admission => x = w /\ y = d
    BY DEF Flows!eventAdmission
  <2>2. \A x, y : Flows!eventAdmission(x, y) # n /\ Flows!Execution(x, y) # admission
    BY KindsOfNames
  <2> HIDE DEF n, admission, next
  <2> QED
    BY <1>6, <1>7, <2>1, <2>2 DEF Entered, AdmittedIn, Flows!Value
<1>10. ASSUME RunsWell PROVE DocOnce(next, runs)
  <2>1. DocOnce(flows, runs)
    BY <1>10, WellDone, DueRuns
  <2>2. w \in DOMAIN flows => RanAs(w, d, flows[w].made) \notin runs
    BY <1>2, <1>10 DEF AtEnter
  <2> HIDE DEF n, admission, next
  <2>3. ASSUME NEW x \in Flows!Workflows, NEW y \in DeliveryIds, NEW k, RanAs(x, y, k) \in runs
        PROVE  MarkedIn(next, x, y, k)
    <3>1. MarkedIn(flows, x, y, k)
      BY <2>1, <2>3 DEF DocOnce
    <3>2. ASSUME x \in DOMAIN next, next[x].made = k PROVE Entered(next, x, y) /\ ~AdmittedIn(next, x, y)
      <4>1. x \in DOMAIN flows /\ flows[x].made = k
        BY <1>8, <3>2
      <4>2. ~(x = w /\ y = d)
        BY <2>2, <2>3, <4>1
      <4> QED
        BY <1>9, <3>1, <4>1, <4>2 DEF MarkedIn, EnteredIn
    <3> QED
      BY <1>8, <3>1, <3>2 DEF MarkedIn, EnteredIn
  <2> QED
    BY <1>8, <2>1, <2>3 DEF DocOnce
<1>11. AtBegin(todo, w, d, v)'
  <2>1. Entered(next, w, d)
    BY <1>7 DEF Entered
  <2>2. RunsWell => v.made \in Nat /\ v.made <= Counter(flows) /\ RanAs(w, d, v.made) \notin runs
    BY <1>2 DEF AtEnter, Ready
  <2> HIDE DEF next
  <2>3. RunsWell' => v.made \in Nat /\ v.made <= Counter(flows') /\ RanAs(w, d, v.made) \notin runs'
                     /\ EnteredIn(flows', w, d, v.made)
    BY <1>3, <1>8, <2>1, <2>2 DEF EnteredIn
  <2> QED
    BY <2>3 DEF AtBegin, Ready
<1> QED
  BY <1>1, <1>2, <1>3, <1>5, <1>8, <1>10, <1>11, WorkerGoesOn

LEMMA WorkerBeginMoves ==
    ASSUME FlowsSound, Once, NoneIsSpecial, Flows!beginExecution(Worker)
    PROVE  WorkerMoves
<1>1. flowsCall[Worker].todo # <<>> /\ Head(flowsCall[Worker].todo)[1] = "begin"
  BY DEF Flows!beginExecution, Flows!At
<1>0. PICK w \in Flows!Workflows, d \in DeliveryIds : \E v :
        /\ w = Flows!On(Worker) /\ d = Flows!Id(Worker) /\ v = Flows!Wf(Worker)
        /\ AtBegin(flowsCall[Worker].todo, w, d, v)
  BY <1>1, WorkerNames DEF WorkerHead, Flows!Wf
<1>2. PICK v : /\ w = Flows!On(Worker) /\ d = Flows!Id(Worker) /\ v = Flows!Wf(Worker)
               /\ AtBegin(flowsCall[Worker].todo, w, d, v)
  BY <1>0
<1> DEFINE admission == Flows!eventAdmission(w, d)
           next == Flows!Put(flows, admission, "RUNNING")
           undo == [m \in {admission} |-> Flows!Value(next, m)]
           todo == <<Flows!Save(Refused(w, d)), Flows!Step("run", w, d, v), OutcomeStep(w, d)>>
<1>3. flowsDisk' = flowsDisk /\ runs' = runs /\ RunsWell' = RunsWell
  BY DEF Flows!beginExecution, RunsWell
<1>4. \/ Flows!Follow(Worker, <<AnswerStep(w, d, FALSE)>>) /\ flows' = flows
      \/ flows' = next /\ flowsCall' = [flowsCall EXCEPT ![Worker] = IF todo = <<>> THEN Idle
                                                         ELSE [@ EXCEPT !.todo = todo, !.undo = undo]]
  <2>1. <<Flows!Save(Flows!Answer(w, d, FALSE))>> \o Flows!Answer(w, d, FALSE) = Refused(w, d)
    <3>1. PICK s, a : s = Flows!Save(<<AnswerStep(w, d, FALSE)>>) /\ a = AnswerStep(w, d, FALSE)
      OBVIOUS
    <3>2. Flows!Answer(w, d, FALSE) = <<a>> /\ Flows!Save(Flows!Answer(w, d, FALSE)) = s /\ Refused(w, d) = <<s, a>>
      BY <3>1 DEF Flows!Answer, AnswerStep, Refused
    <3> QED
      BY <3>2, Joined
  <2>2. \/ Flows!Follow(Worker, Flows!Answer(w, d, FALSE)) /\ flows' = flows
        \/ Flows!Record(Worker, next, {admission},
              <<Flows!Save(<<Flows!Save(Flows!Answer(w, d, FALSE))>> \o Flows!Answer(w, d, FALSE)),
                Flows!Step("run", w, d, v), Flows!Step("outcome", w, d, TRUE)>>)
    BY <1>2 DEF Flows!beginExecution
  <2>3. Flows!Answer(w, d, FALSE) = <<AnswerStep(w, d, FALSE)>>
    BY DEF Flows!Answer, AnswerStep
  <2>4. CASE Flows!Record(Worker, next, {admission}, todo)
    BY <2>4 DEF Flows!Record, Flows!Idle, Idle, Flows!Nothing, Nothing
  <2> QED
    BY <2>1, <2>2, <2>3, <2>4 DEF OutcomeStep
<1>5. CASE Flows!Follow(Worker, <<AnswerStep(w, d, FALSE)>>) /\ flows' = flows
  <2>1. PICK t : t = <<AnswerStep(w, d, FALSE)>> /\ t # <<>>
    BY Sequences
  <2>2. Others(Worker) /\ flowsCall'[Worker].todo = t /\ flowsCall'[Worker].on = flowsCall[Worker].on
    BY <1>5, <2>1, WorkerFollow
  <2>3. AtEnd(t, w, d)'
    BY <2>1 DEF AtEnd
  <2>4. RunsWell' => /\ RunsWell /\ DocOnce(flows', runs)
                     /\ \A m \in Flows!Workflows : m \in DOMAIN flows => m \in DOMAIN flows' /\ flows'[m].made = flows[m].made
    BY <1>3, <1>5, WellDone, DueRuns
  <2> QED
    BY <1>1, <1>3, <2>2, <2>3, <2>4, WorkerGoesOn
<1>6. CASE flows' = next /\ flowsCall' = [flowsCall EXCEPT ![Worker] = IF todo = <<>> THEN Idle
                                                         ELSE [@ EXCEPT !.todo = todo, !.undo = undo]]
  <2>0. todo # <<>>
    BY Sequences
  <2>1. PICK t, u : t = todo /\ t # <<>> /\ u = undo
    <3> HIDE DEF todo, undo
    <3> QED
      BY <2>0
  <2>2. flowsCall' = [flowsCall EXCEPT ![Worker] = IF t = <<>> THEN Idle ELSE [@ EXCEPT !.todo = t, !.undo = u]]
    BY <1>6, <2>1
  <2>3. Calls(flowsCall) /\ Worker \in Handlers
    BY QueueAssumption DEF FlowsSound
  <2>4. Others(Worker) /\ flowsCall'[Worker].todo = t /\ flowsCall'[Worker].on = flowsCall[Worker].on
    <3>1. Goes(flowsCall, flowsCall', Worker, t, u)
      BY <2>1, <2>2, <2>3, CallRecords
    <3>2. PICK c : c = flowsCall[Worker] /\ c = [todo |-> c.todo, undo |-> c.undo, on |-> c.on]
      BY <2>3 DEF Calls, Entry
    <3>3. flowsCall'[Worker] = [c EXCEPT !.todo = t, !.undo = u]
      BY <2>1, <2>2, <2>3, <3>2 DEF Calls
    <3>4. ([c EXCEPT !.todo = t, !.undo = u]).on = c.on
      BY <3>2
    <3> QED
      BY <3>1, <3>2, <3>3, <3>4 DEF Goes, Others
  <2>5. RunsWell => Tame(flows, next)
    BY WellDone, TameChanges
  <2>6. /\ Counter(next) = Counter(flows)
        /\ \A m \in Flows!Workflows : (m \in DOMAIN next <=> m \in DOMAIN flows) /\ (m \in DOMAIN flows => next[m] = flows[m])
        /\ Entered(flows, w, d) => Entered(next, w, d)
        /\ ~AdmittedIn(next, w, d)
    <3>1. admission[1] = "admission"
      BY KindsOfNames
    <3>2. /\ \A m : m # admission => (m \in DOMAIN next <=> m \in DOMAIN flows) /\ (m \in DOMAIN flows => next[m] = flows[m])
          /\ admission \in DOMAIN next /\ next[admission] = "RUNNING"
      BY DEF Flows!Put
    <3>3. ~AdmittedIn(next, w, d)
      BY <3>2 DEF AdmittedIn, Flows!Value
    <3> HIDE DEF next, admission
    <3> QED
      BY <3>1, <3>2, <3>3, KindsOfNames DEF Counter, Entered
  <2>7. AtMark(t, w, d, v)'
    <3>1. RunsWell => v.made \in Nat /\ v.made <= Counter(flows) /\ RanAs(w, d, v.made) \notin runs
                      /\ EnteredIn(flows, w, d, v.made)
      BY <1>2 DEF AtBegin, Ready
    <3> HIDE DEF next
    <3>2. RunsWell' => v.made \in Nat /\ v.made <= Counter(flows') /\ RanAs(w, d, v.made) \notin runs'
                       /\ MarkedIn(flows', w, d, v.made)
      BY <1>3, <1>6, <2>6, <3>1 DEF EnteredIn, MarkedIn
    <3> QED
      BY <2>1, <3>2 DEF AtMark, Ready
  <2>8. RunsWell' => /\ RunsWell /\ DocOnce(flows', runs)
                     /\ \A m \in Flows!Workflows : m \in DOMAIN flows => m \in DOMAIN flows' /\ flows'[m].made = flows[m].made
    BY <1>3, <1>6, <2>5, <2>6, WellDone, DueRuns, TameKeeps
  <2> QED
    BY <1>1, <1>3, <2>4, <2>7, <2>8, WorkerGoesOn
<1> QED
  BY <1>4, <1>5, <1>6

LEMMA WorkerRunMoves ==
    ASSUME FlowsSound, Once, Flows!runWorkflow(Worker)
    PROVE  WorkerMoves
<1>1. flowsCall[Worker].todo # <<>> /\ Head(flowsCall[Worker].todo)[1] = "run"
  BY DEF Flows!runWorkflow, Flows!At
<1>2. PICK w \in Flows!Workflows, d \in DeliveryIds : Tail(flowsCall[Worker].todo) = <<OutcomeStep(w, d)>>
  BY <1>1, WorkerNames DEF WorkerHead
<1>3. /\ flows' = flows /\ flowsDisk' = flowsDisk /\ RunsWell' = RunsWell
      /\ runs' = runs \union {Flows!Ran(Flows!On(Worker), Flows!Id(Worker), Flows!Wf(Worker))}
      /\ Flows!Follow(Worker, Tail(flowsCall[Worker].todo))
  BY DEF Flows!runWorkflow, RunsWell, Flows!Proceed
<1>4. PICK t : t = <<OutcomeStep(w, d)>> /\ t # <<>> /\ Head(t) = OutcomeStep(w, d)
  BY Sequences
<1>5. Others(Worker) /\ flowsCall'[Worker].todo = t /\ flowsCall'[Worker].on = flowsCall[Worker].on
  BY <1>2, <1>3, <1>4, WorkerFollow
<1>6. Due' = Due
  <2>1. Due = runs'
    BY <1>1, <1>3 DEF Due, Flows!At
  <2>2. \A x : Flows!Step("outcome", w, d, x)[1] = "outcome"
    BY StepParts
  <2>3. ~Flows!At(Worker, "run")'
    BY <1>4, <1>5, <2>2 DEF Flows!At, OutcomeStep
  <2> QED
    BY <2>1, <2>3 DEF Due
<1>7. WorkerOnce'
  <2>1. AtEnd(t, w, d)'
    BY <1>4 DEF AtEnd, AfterRun
  <2>2. flowsCall[Worker].on = Flows!eventExecutionMu
    BY <1>1, WorkerAtHead
  <2> QED
    BY <1>5, <2>1, <2>2 DEF WorkerOnce, WorkerStage
<1> QED
  BY <1>1, <1>3, <1>5, <1>6, <1>7, WellDone DEF WorkerMoves

LEMMA WorkerOutcomeMoves ==
    ASSUME FlowsSound, Once, NoneIsSpecial, Flows!executeWorkflow(Worker)
    PROVE  WorkerMoves
<1>1. flowsCall[Worker].todo # <<>> /\ Head(flowsCall[Worker].todo)[1] = "outcome"
  BY DEF Flows!executeWorkflow, Flows!At
<1>2. PICK w \in Flows!Workflows, d \in DeliveryIds :
        w = Flows!On(Worker) /\ d = Flows!Id(Worker) /\ Head(flowsCall[Worker].todo)[5] = TRUE
  BY <1>1, WorkerNames DEF WorkerHead
<1> DEFINE n == Flows!Execution(w, d)
           admission == Flows!eventAdmission(w, d)
           S == {n, admission}
           unadmitted == Flows!Drop(flows, {admission})
           answer(ok) == IF Head(flowsCall[Worker].todo)[5] THEN Flows!Answer(w, d, ok) ELSE <<>>
           rest(ok) == <<Flows!Save(answer(FALSE))>> \o answer(ok)
<1>3. flowsDisk' = flowsDisk /\ runs' = runs /\ RunsWell' = RunsWell
  BY DEF Flows!executeWorkflow, RunsWell
<1>4. \A ok : rest(ok) = <<Flows!Save(<<AnswerStep(w, d, FALSE)>>), AnswerStep(w, d, ok)>>
  <2>1. \A ok : answer(ok) = <<AnswerStep(w, d, ok)>>
    BY <1>2 DEF Flows!Answer, AnswerStep
  <2> QED
    BY <2>1, Joined
<1>5. PICK next, ok : /\ ok \in BOOLEAN /\ Flows!Record(Worker, next, S, rest(ok))
                      /\ next = unadmitted \/ \E v : next = Flows!Put(unadmitted, n, v)
  <2>1. \/ \E result \in {"SUCCEEDED", "FAILED"} :
              Flows!Record(Worker, Flows!Put(unadmitted, n, [flows[n] EXCEPT !.state = result]), S, rest(result = "SUCCEEDED"))
        \/ Flows!Record(Worker, unadmitted, S, rest(FALSE))
    BY <1>2 DEF Flows!executeWorkflow
  <2>2. \A result : (result = "SUCCEEDED") \in BOOLEAN
    OBVIOUS
  <2> HIDE DEF n, S, unadmitted, rest
  <2> QED
    BY <2>1, <2>2
<1>6. PICK t : t = rest(ok) /\ t # <<>> /\ (t \in AfterRun(w, d) \/ t = Refused(w, d))
  <2>1. <<Flows!Save(<<AnswerStep(w, d, FALSE)>>), AnswerStep(w, d, ok)>> # <<>>
    BY Sequences
  <2>2. CASE ok = TRUE
    <3>1. <<Flows!Save(<<AnswerStep(w, d, FALSE)>>), AnswerStep(w, d, ok)>> \in AfterRun(w, d)
      BY <2>2 DEF AfterRun
    <3> QED
      BY <1>4, <2>1, <3>1
  <2>3. CASE ok = FALSE
    <3>1. <<Flows!Save(<<AnswerStep(w, d, FALSE)>>), AnswerStep(w, d, FALSE)>> = Refused(w, d)
      BY DEF Refused
    <3>2. rest(ok) = Refused(w, d)
      BY <1>4, <2>3, <3>1
    <3> QED
      BY <1>4, <2>1, <3>2
  <2> QED
    BY <1>5, <2>2, <2>3
<1>7. flows' = next /\ Others(Worker) /\ flowsCall'[Worker].todo = t /\ flowsCall'[Worker].on = flowsCall[Worker].on
  <2>1. PICK u : u = [m \in S |-> Flows!Value(next, m)]
    OBVIOUS
  <2>2. flows' = next
        /\ flowsCall' = [flowsCall EXCEPT ![Worker] = IF t = <<>> THEN Idle ELSE [@ EXCEPT !.todo = t, !.undo = u]]
    BY <1>5, <1>6, <2>1 DEF Flows!Record, Flows!Idle, Idle, Flows!Nothing, Nothing
  <2>3. Calls(flowsCall) /\ Worker \in Handlers
    BY QueueAssumption DEF FlowsSound
  <2>4. Goes(flowsCall, flowsCall', Worker, t, u)
    BY <1>6, <2>2, <2>3, CallRecords
  <2>5. PICK c : c = flowsCall[Worker] /\ c = [todo |-> c.todo, undo |-> c.undo, on |-> c.on]
    BY <2>3 DEF Calls, Entry
  <2>6. flowsCall'[Worker] = [c EXCEPT !.todo = t, !.undo = u]
    BY <1>6, <2>2, <2>3, <2>5 DEF Calls
  <2>7. ([c EXCEPT !.todo = t, !.undo = u]).on = c.on
    BY <2>5
  <2> QED
    BY <2>2, <2>4, <2>5, <2>6, <2>7 DEF Goes, Others
<1>8. AtEnd(t, w, d)'
  BY <1>6 DEF AtEnd
<1>9. RunsWell => Tame(flows, next)
  BY <1>5, WellDone, EndedTame, KindsOfNames
<1>10. \A m \in Flows!Workflows : m \in DOMAIN flows => m \in DOMAIN next /\ next[m].made = flows[m].made
  <2>1. n[1] = "execution" /\ admission[1] = "admission"
    BY KindsOfNames
  <2>2. \A m : m # admission /\ m \in DOMAIN flows => m \in DOMAIN unadmitted /\ unadmitted[m] = flows[m]
    BY DEF Flows!Drop
  <2> HIDE DEF n, admission, unadmitted
  <2>3. \A v, m : m # n /\ m \in DOMAIN unadmitted =>
                    m \in DOMAIN Flows!Put(unadmitted, n, v) /\ Flows!Put(unadmitted, n, v)[m] = unadmitted[m]
    BY DEF Flows!Put
  <2> QED
    BY <1>5, <2>1, <2>2, <2>3, KindsOfNames
<1>11. RunsWell' => /\ RunsWell /\ DocOnce(flows', runs)
                    /\ \A m \in Flows!Workflows : m \in DOMAIN flows => m \in DOMAIN flows' /\ flows'[m].made = flows[m].made
  BY <1>3, <1>7, <1>9, <1>10, WellDone, DueRuns, TameKeeps
<1> QED
  BY <1>1, <1>3, <1>7, <1>8, <1>11, WorkerGoesOn

LEMMA WorkerRollbackMoves ==
    ASSUME FlowsSound, Once, Flows!Rollback(Worker)
    PROVE  WorkerMoves
<1>1. flowsCall[Worker].todo # <<>> /\ Head(flowsCall[Worker].todo)[1] = "undo"
  BY DEF Flows!Rollback, Flows!At
<1>2. PICK w \in Flows!Workflows, d \in DeliveryIds : ~RunsWell /\ Tail(flowsCall[Worker].todo) = Refused(w, d)
  BY <1>1, WorkerNames DEF WorkerHead
<1>3. /\ runs' = runs /\ flowsDisk' = flowsDisk /\ RunsWell' = RunsWell
      /\ Flows!Follow(Worker, Tail(flowsCall[Worker].todo))
  BY DEF Flows!Rollback, Flows!Proceed, RunsWell
<1>4. Refused(w, d) # <<>>
  BY Sequences DEF Refused
<1>5. /\ Others(Worker) /\ flowsCall'[Worker].todo = Refused(w, d)
      /\ flowsCall'[Worker].on = flowsCall[Worker].on
  BY <1>2, <1>3, <1>4, WorkerFollow
<1>6. AtEnd(Refused(w, d), w, d)'
  BY DEF AtEnd
<1> QED
  BY <1>1, <1>2, <1>3, <1>5, <1>6, WorkerGoesOn

LEMMA WorkerEndMoves ==
    ASSUME Once, NEW w \in Flows!Workflows, NEW d \in DeliveryIds, NEW todo,
           flowsCall[Worker].todo # <<>>, Head(flowsCall[Worker].todo)[1] = "save",
           flows' = flows, runs' = runs, RunsWell' => RunsWell, Others(Worker),
           flowsCall'[Worker].todo = todo, flowsCall'[Worker].on = flowsCall[Worker].on,
           flowsDisk' = flowsDisk \/ (RunsWell /\ flowsDisk' = flows),
           AtEnd(todo, w, d)' \/ \E v : AtBegin(todo, w, d, v)'
    PROVE  WorkerMoves
<1>1. RunsWell' => /\ RunsWell /\ DocOnce(flows', runs)
                   /\ \A m \in Flows!Workflows : m \in DOMAIN flows => m \in DOMAIN flows' /\ flows'[m].made = flows[m].made
  BY WellDone, DueRuns
<1> QED
  BY <1>1, WorkerGoesOn

LEMMA WorkerSaveFails ==
    ASSUME FlowsSound, Once, Guarded, Flows!SaveFails(Worker)
    PROVE  WorkerMoves
<1>1. flowsCall[Worker].todo # <<>> /\ Head(flowsCall[Worker].todo)[1] = "save"
  BY DEF Flows!SaveFails, Flows!At
<1>2. /\ flows' = flows /\ runs' = runs /\ ~RunsWell'
      /\ flowsDisk' = flowsDisk \/ (RunsWell /\ flowsDisk' = flows)
      /\ Flows!Follow(Worker, Head(flowsCall[Worker].todo)[2])
  BY DEF Flows!SaveFails, Flows!Fail, Flows!Writable, Flows!Failure, RunsWell
<1>3. PICK w \in Flows!Workflows, d \in DeliveryIds : WorkerHead(flowsCall[Worker].todo, w, d)
  BY <1>1, WorkerNames
<1>4. PICK e : e = Head(flowsCall[Worker].todo)[2]
  OBVIOUS
<1>5. e = TakenBack(w, d) \/ e = Refused(w, d) \/ (AtEnd(e, w, d) /\ e # <<>>)
  BY <1>1, <1>3, <1>4 DEF WorkerHead
<1>6. e # <<>>
  <2>1. TakenBack(w, d) # <<>> /\ Refused(w, d) # <<>>
    BY Sequences DEF TakenBack, Refused
  <2> QED
    BY <1>5, <2>1
<1>7. AtEnd(e, w, d)'
  BY <1>2, <1>5 DEF AtEnd
<1>8. Others(Worker) /\ flowsCall'[Worker].todo = e /\ flowsCall'[Worker].on = flowsCall[Worker].on
  BY <1>2, <1>4, <1>6, WorkerFollow
<1> QED
  BY <1>1, <1>2, <1>7, <1>8, WorkerEndMoves

(* A mark that has been saved: from here on the run is due.  No copy of the  *)
(* maps from before the mark is about to be saved.                           *)
LEMMA WorkerMarked ==
    ASSUME FlowsSound, Once, Guarded, Flows!SaveOk(Worker), NEW w \in Flows!Workflows, NEW d \in DeliveryIds, NEW v,
           AtMark(flowsCall[Worker].todo, w, d, v),
           Tail(flowsCall[Worker].todo) = <<Flows!Step("run", w, d, v), OutcomeStep(w, d)>>
    PROVE  WorkerMoves
<1>1. flowsCall[Worker].todo # <<>> /\ Head(flowsCall[Worker].todo)[1] = "save"
  BY DEF Flows!SaveOk, Flows!At
<1>2. /\ flows' = flows /\ runs' = runs /\ RunsWell /\ RunsWell' /\ flowsDisk' = flows
      /\ Flows!Follow(Worker, Tail(flowsCall[Worker].todo)) /\ ~Flows!Waits(Worker)
  BY DEF Flows!SaveOk, Flows!Proceed, Flows!Writable, RunsWell
<1>3. PICK t : t = <<Flows!Step("run", w, d, v), OutcomeStep(w, d)>> /\ t # <<>> /\ Head(t) = Flows!Step("run", w, d, v)
  <2>1. PICK a, b : a = Flows!Step("run", w, d, v) /\ b = OutcomeStep(w, d)
    OBVIOUS
  <2>2. <<a, b>> # <<>> /\ Head(<<a, b>>) = a
    BY Sequences
  <2> QED
    BY <2>1, <2>2
<1>4. Others(Worker) /\ flowsCall'[Worker].todo = t /\ flowsCall'[Worker].on = flowsCall[Worker].on
  BY <1>2, <1>3, WorkerFollow
<1>5. RanAs(w, d, v.made) \notin runs /\ MarkedIn(flows, w, d, v.made)
  BY <1>2 DEF AtMark, Ready
<1>6. Due = runs
  BY <1>1 DEF Due, Flows!At
<1>7. Due' = runs \union {RanAs(w, d, v.made)}
  <2>1. /\ Flows!Step("run", w, d, v)[1] = "run" /\ Flows!Step("run", w, d, v)[3] = w
        /\ Flows!Step("run", w, d, v)[4] = d /\ Flows!Step("run", w, d, v)[5] = v
    BY StepParts
  <2>2. Flows!At(Worker, "run")' /\ Flows!On(Worker)' = w /\ Flows!Id(Worker)' = d /\ Flows!Wf(Worker)' = v
    BY <1>3, <1>4, <2>1 DEF Flows!At, Flows!On, Flows!Id, Flows!Wf
  <2>3. Flows!Ran(w, d, v) = RanAs(w, d, v.made)
    BY DEF Flows!Ran, RanAs
  <2> QED
    BY <1>2, <2>2, <2>3 DEF Due, Flows!Ran, RanAs
<1>8. DocOnce(flows, Due')
  <2>1. DocOnce(flows, runs)
    BY <1>2, <1>6, WellDone
  <2>2. ASSUME NEW x \in Flows!Workflows, NEW y \in DeliveryIds, NEW k, RanAs(x, y, k) \in Due'
        PROVE  MarkedIn(flows, x, y, k)
    <3>1. CASE RanAs(x, y, k) \in runs
      BY <2>1, <3>1 DEF DocOnce
    <3>2. CASE RanAs(x, y, k) = RanAs(w, d, v.made)
      <4>1. x = w /\ y = d /\ k = v.made
        BY <3>2 DEF RanAs
      <4> QED
        BY <1>5, <4>1
    <3> QED
      BY <1>7, <2>2, <3>1, <3>2
  <2> QED
    BY <2>1, <2>2 DEF DocOnce
<1>9. \A h \in Requests : ~Flows!At(h, "copy")
  <2>1. ASSUME NEW h \in Requests, Flows!At(h, "copy") PROVE FALSE
    <3>1. flowsCall[h].todo # <<>> /\ Head(flowsCall[h].todo)[1] = "copy"
      BY <2>1 DEF Flows!At
    <3>2. CopyOnce(h, flowsCall[h].todo)
      BY <3>1, ClientAt DEF ClientHead
    <3>3. PICK n, doc : /\ flowsCall[h].todo = <<<<"copy", <<>>, doc>>, <<"cancelled", <<>>, n>>>>
                        /\ flowsCall[h].on = Flows!persistMu
      BY <3>2 DEF CopyOnce
    <3>4. Flows!Holds(h)
      <4>1. 1 \in DOMAIN flowsCall[h].todo /\ flowsCall[h].todo[1][1] = "copy"
        BY <3>3
      <4> QED
        BY <3>3, <4>1 DEF Flows!Holds
    <3>5. ~Flows!Holds(Worker)
      <4>1. flowsCall[Worker].on = Flows!eventExecutionMu
        BY <1>1, WorkerAtHead
      <4>2. Flows!eventExecutionMu # Flows!persistMu
        BY DEF Flows!eventExecutionMu, Flows!persistMu
      <4> QED
        BY <4>1, <4>2 DEF Flows!Holds
    <3> QED
      BY <1>2, <3>4, <3>5 DEF Flows!Waits, Flows!PersistMuFree, Requests
  <2> QED
    BY <2>1
<1>10. WorkerOnce'
  <2>1. AtRun(t, w, d, v)'
    BY <1>2, <1>3, <1>5 DEF AtRun
  <2>2. flowsCall[Worker].on = Flows!eventExecutionMu
    BY <1>1, WorkerAtHead
  <2> QED
    BY <1>4, <2>1, <2>2 DEF WorkerOnce, WorkerStage
<1> QED
  BY <1>1, <1>2, <1>4, <1>8, <1>9, <1>10 DEF WorkerMoves

LEMMA WorkerSaveOk ==
    ASSUME FlowsSound, Once, Guarded, Flows!SaveOk(Worker)
    PROVE  WorkerMoves
<1>1. flowsCall[Worker].todo # <<>> /\ Head(flowsCall[Worker].todo)[1] = "save"
  BY DEF Flows!SaveOk, Flows!At
<1>2. /\ flows' = flows /\ runs' = runs /\ RunsWell /\ RunsWell' /\ flowsDisk' = flows
      /\ Flows!Follow(Worker, Tail(flowsCall[Worker].todo))
  BY DEF Flows!SaveOk, Flows!Proceed, Flows!Writable, RunsWell
<1>3. PICK w \in Flows!Workflows, d \in DeliveryIds : WorkerHead(flowsCall[Worker].todo, w, d)
  BY <1>1, WorkerNames
<1>4. PICK t : t = Tail(flowsCall[Worker].todo)
  OBVIOUS
<1>5. ASSUME t # <<>>, AtEnd(t, w, d)' \/ \E v : AtBegin(t, w, d, v)' PROVE WorkerMoves
  <2>1. Others(Worker) /\ flowsCall'[Worker].todo = t /\ flowsCall'[Worker].on = flowsCall[Worker].on
    BY <1>2, <1>4, <1>5, WorkerFollow
  <2> QED
    BY <1>1, <1>2, <1>5, <2>1, WorkerEndMoves
<1>6. ASSUME NEW v, t = <<Flows!Step("begin", w, d, v)>>, AtBegin(flowsCall[Worker].todo, w, d, v) PROVE WorkerMoves
  <2>1. AtBegin(t, w, d, v)'
    BY <1>2, <1>6 DEF AtBegin, Ready
  <2>2. t # <<>>
    BY <1>6, Sequences
  <2> QED
    BY <1>5, <2>1, <2>2
<1>7. ASSUME AtEnd(t, w, d), t # <<>> PROVE WorkerMoves
  <2>1. AtEnd(t, w, d)'
    BY <1>2, <1>7 DEF AtEnd
  <2> QED
    BY <1>5, <1>7, <2>1
<1> QED
  BY <1>1, <1>3, <1>4, <1>6, <1>7, WorkerMarked DEF WorkerHead

LEMMA WorkerNotClient ==
    ASSUME Once
    PROVE  /\ ~Flows!putBack(Worker) /\ ~Flows!enterExecution(Worker) /\ ~Flows!publishCancelled(Worker)
           /\ ~Flows!saveCopy(Worker) /\ ~Flows!OperationWrite(Worker)
<1>1. ASSUME NEW s \in {"putback", "enter", "cancelled", "copy", "register", "finalize"}, Flows!At(Worker, s) PROVE FALSE
  <2>1. flowsCall[Worker].todo # <<>> /\ Head(flowsCall[Worker].todo)[1] = s
    BY <1>1 DEF Flows!At
  <2> QED
    BY <2>1, WorkerNames DEF WorkerHead
<1> QED
  BY <1>1 DEF Flows!putBack, Flows!enterExecution, Flows!publishCancelled, Flows!saveCopy, Flows!OperationWrite

LEMMA WorkerStepMoves ==
    ASSUME FlowsSound, Once, Guarded, NoneIsSpecial, Flows!FlowStep(Worker)
    PROVE  WorkerMoves
  BY WorkerFindMoves, WorkerAdmitMoves, WorkerBeginMoves, WorkerRunMoves, WorkerOutcomeMoves, WorkerRollbackMoves,
     WorkerSaveOk, WorkerSaveFails, WorkerNotClient DEF Flows!FlowStep, Flows!persistState

-----------------------------------------------------------------------------
(* Eventarc asks for workflows only by names that a trigger can have.        *)
Named(n, v) ==
    /\ n[1] = "trigger" => "workflow" \in DOMAIN v /\ v.workflow \in Flows!Workflows
    /\ n[1] = "delivery" => v.workflow \in Flows!Workflows
CopiesNamed == \A n, v : Copy(n, v) => Named(n, v)
NamedSound ==
    /\ CopiesNamed
    /\ At(Worker, "execute") => Head(call[Worker].todo)[4] \in Flows!Workflows
    /\ \A h \in Handlers \ {Worker} : At(h, "intend") => Arg(h)[2] \subseteq Triggers

LEMMA NamedBy ==
    ASSUME CopiesNamed, NEW h \in Handlers, NEW todo, NEW undo, Goes(call, call', h, todo, undo),
           \A n : n \in DOMAIN undo /\ undo[n] # None => Copy(n, undo[n]) \/ Named(n, undo[n]),
           \A n : n \in DOMAIN mem' => Copy(n, mem'[n]) \/ Named(n, mem'[n]),
           \A n : n \in DOMAIN disk' => Copy(n, disk'[n])
    PROVE  CopiesNamed'
<1>1. ASSUME NEW n, NEW v, Copy(n, v)' PROVE Copy(n, v) \/ Named(n, v)
  <2>1. CASE n \in DOMAIN mem' /\ v = mem'[n]
    BY <2>1
  <2>2. CASE n \in DOMAIN disk' /\ v = disk'[n]
    BY <2>2
  <2>3. ASSUME NEW x \in Handlers, n \in DOMAIN call'[x].undo, v = call'[x].undo[n], v # None PROVE Copy(n, v) \/ Named(n, v)
    <3>1. CASE x = h
      BY <2>3, <3>1 DEF Goes
    <3>2. CASE x # h
      BY <2>3, <3>2 DEF Goes, Copy
    <3> QED
      BY <3>1, <3>2
  <2> QED
    BY <1>1, <2>1, <2>2, <2>3 DEF Copy
<1>2. ASSUME NEW n, NEW v, Copy(n, v)' PROVE Named(n, v)
  BY <1>1, <1>2 DEF CopiesNamed
<1> QED
  BY <1>2 DEF CopiesNamed, Named

(* No step but that of an event leaves its triggers to be looked at.         *)
LEMMA NotIntending ==
    /\ \A P : OtherProgram(P) /\ P # <<>> => Head(P)[1] # "intend"
    /\ \A D : Head(<<EnqueueStep(D)>>)[1] # "intend" /\ Head(<<Save(Revert), EnqueueStep(D)>>)[1] # "intend"
<1>1. ASSUME NEW P, OtherProgram(P), P # <<>> PROVE Head(P)[1] # "intend"
  <2>1. PICK u, s, r, c : /\ u = Undo /\ s = Save(<<>>) /\ r = Register(Revert) /\ c = Save(compensateState)
    OBVIOUS
  <2>2. u[1] = "undo" /\ s[1] = "save" /\ r[1] = "register" /\ c[1] = "save"
    BY <2>1 DEF Undo, Save, Register
  <2>3. P \in {<<>>, <<r, c>>, <<c>>, <<u, s>>, <<u>>, <<s>>}
    BY <1>1, <2>1 DEF OtherProgram, FinishTrigger, compensateState, Revert, Keep
  <2>4. Head(P) \in {u, s, r, c}
    <3>1. /\ \A a : Head(<<a>>) = a
          /\ \A a, b : Head(<<a, b>>) = a
      BY Sequences
    <3> QED
      BY <1>1, <2>3, <3>1
  <2> QED
    BY <2>2, <2>4
<1> QED
  BY <1>1, ListSteps

LEMMA StepsNotIntending ==
    ASSUME IInv, HandsSound, NEW h \in Handlers \ {Worker}, EventStep(h)
    PROVE  call'[h].todo # <<>> => Head(call'[h].todo)[1] # "intend"
<1>1. ASSUME NEW todo, Follow(h, todo), todo # <<>> => Head(todo)[1] # "intend"
      PROVE  call'[h].todo # <<>> => Head(call'[h].todo)[1] # "intend"
  <2>1. PICK undo : Goes(call, call', h, todo, undo)
    BY <1>1, EventFollow DEF IInv
  <2> QED
    BY <1>1, <2>1 DEF Goes
<1>2. ASSUME NEW todo, NEW undo, call' = [call EXCEPT ![h].todo = todo, ![h].undo = undo]
      PROVE  call'[h].todo = todo
  <2>1. Goes(call, call', h, todo, undo)
    BY <1>2, CallParts DEF IInv, IntentsSound
  <2> QED
    BY <2>1 DEF Goes
<1>3. ASSUME NEW todo, NEW undo, call' = [call EXCEPT ![h].undo = undo, ![h].todo = todo]
      PROVE  call'[h].todo = todo
  <2>1. Goes(call, call', h, todo, undo)
    BY <1>3, CallParts DEF IInv, IntentsSound
  <2> QED
    BY <2>1 DEF Goes
<1>4. CASE recordIntents(h)
  <2>1. call[h].todo # <<>> /\ Head(call[h].todo)[1] = "intend"
    BY <1>4 DEF recordIntents, At
  <2>2. OtherProgram(Tail(call[h].todo))
    BY <2>1, HandKinds, OtherSteps DEF OtherFollows
  <2>3. CASE Proceed(h)
    BY <1>1, <2>2, <2>3, NotIntending DEF Proceed
  <2>4. CASE ~Proceed(h)
    <3>1. PICK undo, D : call' = [call EXCEPT ![h].undo = undo, ![h].todo = <<Save(Revert), EnqueueStep(D)>>]
      BY <1>4, <2>4 DEF recordIntents, EnqueueStep, Keep
    <3> QED
      BY <1>3, <3>1, NotIntending
  <2> QED
    BY <2>3, <2>4
<1>5. CASE enqueueDelivery(h)
  <2>1. PICK D : D \subseteq DeliveryIds /\ call[h].todo = <<EnqueueStep(D)>>
    BY <1>5, HandKinds DEF EnqueueProgram, enqueueDelivery, At
  <2>2. Tail(call[h].todo) = <<>>
    BY <2>1, ListSteps
  <2>3. CASE Proceed(h)
    BY <1>1, <2>2, <2>3 DEF Proceed
  <2>4. CASE ~Proceed(h)
    <3>1. PICK E : call' = [call EXCEPT ![h].todo = <<EnqueueStep(E)>>, ![h].undo = Nothing]
      BY <1>5, <2>4 DEF enqueueDelivery, EnqueueStep, Keep
    <3> QED
      BY <1>2, <3>1, NotIntending
  <2> QED
    BY <2>3, <2>4
<1>6. CASE persistState(h) \/ Rollback(h) \/ OperationWrite(h)
  <2>1. call[h].todo # <<>> /\ Head(call[h].todo)[1] # "intend"
    BY <1>6 DEF persistState, SaveOk, SaveFails, Rollback, OperationWrite, At
  <2>2. PICK todo \in {Tail(call[h].todo), Head(call[h].todo)[2]} : Follow(h, todo)
    BY <1>6 DEF persistState, SaveOk, SaveFails, Rollback, OperationWrite, Proceed, Fail
  <2>3. CASE OtherProgram(call[h].todo) \/ IntendProgram(call[h].todo)
    <3>1. OtherProgram(todo)
      BY <2>1, <2>2, <2>3, OtherSteps DEF OtherFollows
    <3> QED
      BY <1>1, <2>2, <3>1, NotIntending
  <2>4. ASSUME NEW D, EnqueueProgram(call[h].todo, D) PROVE FALSE
    <3>1. Head(call[h].todo)[1] = "enqueue"
      BY <2>4, ListSteps DEF EnqueueProgram
    <3> QED
      BY <1>6, <3>1 DEF persistState, SaveOk, SaveFails, Rollback, OperationWrite, At
  <2>5. ASSUME NEW D, SaveFirstProgram(call[h].todo, D, DOMAIN call[h].undo)
        PROVE  call'[h].todo # <<>> => Head(call'[h].todo)[1] # "intend"
    <3>1. todo \in {<<EnqueueStep(D)>>, Revert}
      BY <2>2, <2>5, ListSteps DEF SaveFirstProgram
    <3>2. todo # <<>> => Head(todo)[1] # "intend"
      BY <3>1, NotIntending DEF OtherProgram
    <3> QED
      BY <1>1, <2>2, <3>2
  <2> QED
    BY <2>3, <2>4, <2>5 DEF HandsSound, EventarcProgram
<1> QED
  BY <1>4, <1>5, <1>6 DEF EventStep

(* The copies that a step of Eventarc leaves.                                *)
LEMMA RestsNamed ==
    ASSUME CopiesNamed, IInv, NEW h \in Handlers, NEW todo, Follow(h, todo), disk' \in {mem, disk},
           \A n : n \in DOMAIN mem' => Copy(n, mem'[n])
    PROVE  CopiesNamed'
<1>1. PICK undo : /\ Goes(call, call', h, todo, undo)
                  /\ \A n : n \in DOMAIN undo /\ undo[n] # None => Copy(n, undo[n])
  BY EventFollow DEF IInv
<1>2. \A n : n \in DOMAIN disk' => Copy(n, disk'[n])
  BY DEF Copy
<1> QED
  BY <1>1, <1>2, NamedBy

LEMMA RecordNamed ==
    ASSUME IInv, CopiesNamed, NEW h \in Handlers, recordIntents(h), Arg(h)[2] \subseteq Triggers
    PROVE  CopiesNamed'
<1>1. disk' = disk
  BY DEF recordIntents
<1>2. CASE mem' = mem /\ Proceed(h)
  BY <1>1, <1>2, RestsNamed DEF Proceed, Copy
<1>3. CASE ~(mem' = mem /\ Proceed(h))
  <2> DEFINE e == Arg(h)[1]
             current == {n \in Arg(h)[2] : matchesTrigger(n, e)}
             id == CHOOSE f \in nextIDs(current) : TRUE
             p == id[None]
             S == {Delivery(id[n]) : n \in current} \union {Payload(p)}
             intent(n) == [trigger |-> n, workflow |-> mem[n].workflow, payload |-> p, state |-> "ATTEMPTING"]
             todo == <<Save(Revert), <<"enqueue", Keep, {id[n] : n \in current}>>>>
             undo == [m \in S |-> None]
  <2>1. /\ mem' = [m \in Live \union S |->
                     IF m \in Live THEN mem[m] ELSE IF m = Payload(p) THEN e
                     ELSE intent(CHOOSE n \in current : Delivery(id[n]) = m)]
        /\ call' = [call EXCEPT ![h].undo = undo, ![h].todo = todo]
    BY <1>3 DEF recordIntents
  <2>2. Goes(call, call', h, todo, undo)
    BY <2>1, CallParts DEF IInv, IntentsSound
  <2>3. ASSUME NEW c \in current PROVE intent(c).workflow \in Flows!Workflows
    <3>1. c[1] = "trigger" /\ Copy(c, mem[c])
      BY DEF Triggers, matchesTrigger, Live, Copy
    <3> QED
      BY <3>1 DEF CopiesNamed, Named
  <2>4. ASSUME NEW n, n \in DOMAIN mem' PROVE Copy(n, mem'[n]) \/ Named(n, mem'[n])
    <3>1. CASE n \in Live
      BY <2>1, <3>1 DEF Live, Copy
    <3>2. CASE n \notin Live
      <4>1. n \in S
        <5>1. DOMAIN mem' = Live \union S
          <6> HIDE DEF intent, S
          <6> QED
            BY <2>1
        <5> QED
          BY <2>4, <3>2, <5>1
      <4>2. CASE n = Payload(p)
        BY <4>2 DEF Payload, Named
      <4>3. CASE n # Payload(p)
        <5>1. mem'[n] = intent(CHOOSE c \in current : Delivery(id[c]) = n)
          BY <2>1, <3>2, <4>1, <4>3
        <5>2. \E c \in current : Delivery(id[c]) = n
          BY <4>1, <4>3
        <5>3. PICK c \in current : Delivery(id[c]) = n /\ mem'[n] = intent(c)
          BY <5>1, <5>2
        <5>4. n[1] = "delivery"
          BY <5>3 DEF Delivery
        <5> QED
          BY <2>3, <5>3, <5>4 DEF Named
      <4> QED
        BY <4>2, <4>3
    <3> QED
      BY <3>1, <3>2
  <2>5. \A n : n \in DOMAIN undo => undo[n] = None
    OBVIOUS
  <2>6. \A n : n \in DOMAIN disk' => Copy(n, disk'[n])
    BY <1>1 DEF Copy
  <2> HIDE DEF todo, undo
  <2> QED
    BY <2>2, <2>4, <2>5, <2>6, NamedBy
<1> QED
  BY <1>2, <1>3

LEMMA EventStepNamed ==
    ASSUME IInv, NamedSound, NEW h \in Handlers, EventStep(h)
    PROVE  CopiesNamed'
<1>1. CASE recordIntents(h)
  <2>1. h # Worker
    BY <1>1, WorkerAt, WorkerIsHeld DEF IInv, recordIntents, At
  <2> QED
    BY <1>1, <2>1, RecordNamed DEF NamedSound, recordIntents
<1>2. CASE enqueueDelivery(h)
  <2>1. mem' = mem /\ disk' = disk
    BY <1>2 DEF enqueueDelivery
  <2>2. CASE Proceed(h)
    BY <2>1, <2>2, RestsNamed DEF Proceed, NamedSound, Copy
  <2>3. CASE ~Proceed(h)
    <3>1. PICK todo : call' = [call EXCEPT ![h].todo = todo, ![h].undo = Nothing]
      BY <1>2, <2>3 DEF enqueueDelivery
    <3>2. Goes(call, call', h, todo, Nothing)
      BY <3>1, CallParts DEF IInv, IntentsSound
    <3>3. \A n : n \notin DOMAIN Nothing
      BY DEF Nothing
    <3>4. (\A n : n \in DOMAIN mem' => Copy(n, mem'[n])) /\ (\A n : n \in DOMAIN disk' => Copy(n, disk'[n]))
      BY <2>1 DEF Copy
    <3> QED
      BY <3>2, <3>3, <3>4, NamedBy DEF NamedSound
  <2> QED
    BY <2>2, <2>3
<1>3. CASE persistState(h) \/ OperationWrite(h)
  <2>1. mem' = mem /\ disk' \in {mem, disk}
    BY <1>3 DEF persistState, SaveOk, SaveFails, OperationWrite
  <2>2. PICK todo : Follow(h, todo)
    BY <1>3 DEF persistState, SaveOk, SaveFails, OperationWrite, Proceed, Fail
  <2> QED
    BY <2>1, <2>2, RestsNamed DEF NamedSound, Copy
<1>4. CASE Rollback(h)
  <2>1. mem' = Restore(mem, call[h].undo) /\ disk' = disk /\ Follow(h, Tail(call[h].todo))
    BY <1>4 DEF Rollback, Proceed
  <2>2. \A n : n \in DOMAIN mem' => Copy(n, mem'[n])
    BY <2>1 DEF Restore, Copy
  <2> QED
    BY <2>1, <2>2, RestsNamed DEF NamedSound
<1> QED
  BY <1>1, <1>2, <1>3, <1>4 DEF EventStep

LEMMA EventRequestNamed ==
    ASSUME IInv, CopiesNamed, NEW h \in Handlers, EventRequest(h)
    PROVE  /\ CopiesNamed'
           /\ call'[h].todo # <<>> /\ Head(call'[h].todo)[1] = "intend" => Head(call'[h].todo)[3][2] \subseteq Triggers
<1>1. ASSUME NEW doc, NEW S, Handle(h, doc, S, FinishTrigger),
             \A n : n \in DOMAIN doc => Copy(n, doc[n]) \/ Named(n, doc[n])
      PROVE  CopiesNamed' /\ (call'[h].todo # <<>> => Head(call'[h].todo)[1] # "intend")
  <2>1. mem' = doc /\ disk' = disk
    BY <1>1 DEF Handle, Change
  <2>2. Goes(call, call', h, FinishTrigger, [n \in S |-> Value(mem, n)])
    BY <1>1, CallSet DEF Handle, Change, Before, IInv, IntentsSound
  <2>3. \A n : n \in S /\ Value(mem, n) # None => Copy(n, Value(mem, n))
    BY DEF Value, Copy
  <2>4. \A n : n \in DOMAIN disk' => Copy(n, disk'[n])
    BY <2>1 DEF Copy
  <2>5. CopiesNamed'
    BY <1>1, <2>1, <2>2, <2>3, <2>4, NamedBy
  <2> QED
    BY <2>2, <2>5, NotIntending DEF Goes, OtherProgram
<1>2. ASSUME NEW n \in Triggers, NEW v, Handle(h, Put(mem, n, v), {n}, FinishTrigger), Named(n, v)
      PROVE  CopiesNamed' /\ (call'[h].todo # <<>> => Head(call'[h].todo)[1] # "intend")
  <2>1. \A m : m \in DOMAIN Put(mem, n, v) => Copy(m, Put(mem, n, v)[m]) \/ Named(m, Put(mem, n, v)[m])
    BY <1>2 DEF Put, Copy
  <2> QED
    BY <1>1, <1>2, <2>1
<1>3. Destination = Flows!Workflows /\ \A n \in Triggers : n[1] = "trigger"
  BY DEF Destination, Flows!Workflows, Flows!Workflow, Triggers
<1>4. CASE createTrigger(h)
  <2>0. PICK n \in Triggers, w \in Destination : \E e : Handle(h, Put(mem, n, [workflow |-> w, filter |-> e]), {n}, FinishTrigger)
    BY <1>4 DEF createTrigger
  <2>1. PICK e : Handle(h, Put(mem, n, [workflow |-> w, filter |-> e]), {n}, FinishTrigger)
    BY <2>0
  <2>2. Named(n, [workflow |-> w, filter |-> e])
    BY <1>3 DEF Named
  <2> QED
    BY <1>2, <2>1, <2>2
<1>5. CASE patchTrigger(h)
  <2>1. PICK n \in Triggers \cap Live, w \in Destination :
               Handle(h, Put(mem, n, [mem[n] EXCEPT !.workflow = w]), {n}, FinishTrigger)
    BY <1>5 DEF patchTrigger
  <2>2. Named(n, mem[n])
    BY DEF CopiesNamed, Copy, Live
  <2>3. Named(n, [mem[n] EXCEPT !.workflow = w])
    BY <1>3, <2>2 DEF Named
  <2> QED
    BY <1>2, <2>1, <2>3
<1>6. CASE deleteTrigger(h)
  <2>1. PICK S : Handle(h, Drop(mem, S), S, FinishTrigger)
    BY <1>6 DEF deleteTrigger
  <2>2. \A m : m \in DOMAIN Drop(mem, S) => Copy(m, Drop(mem, S)[m])
    BY DEF Drop, Copy
  <2> QED
    BY <1>1, <2>1, <2>2
<1>7. CASE HandleEventWithAck(h)
  <2>1. PICK e : Look(h, None, <<<<"intend", <<>>, <<e, {n \in Triggers : matchesTrigger(n, e)}>>>>>>)
    BY <1>7 DEF HandleEventWithAck, Keep
  <2>2. PICK S : S \subseteq Triggers /\ Look(h, None, <<<<"intend", <<>>, <<e, S>>>>>>)
    <3>1. PICK S : S = {n \in Triggers : matchesTrigger(n, e)}
      OBVIOUS
    <3> QED
      BY <2>1, <3>1
  <2>3. /\ call' = [call EXCEPT ![h] = [todo |-> <<<<"intend", <<>>, <<e, S>>>>>>, undo |-> Nothing, on |-> None]]
        /\ mem' = mem /\ disk' = disk
    BY <2>2 DEF Look
  <2>4. Goes(call, call', h, <<<<"intend", <<>>, <<e, S>>>>>>, Nothing)
    BY <2>3, CallSet DEF IInv, IntentsSound
  <2>5. CopiesNamed'
    <3>1. \A n : n \notin DOMAIN Nothing
      BY DEF Nothing
    <3>2. (\A n : n \in DOMAIN mem' => Copy(n, mem'[n])) /\ (\A n : n \in DOMAIN disk' => Copy(n, disk'[n]))
      BY <2>3 DEF Copy
    <3> QED
      BY <2>4, <3>1, <3>2, NamedBy
  <2>6. Head(call'[h].todo) = <<"intend", <<>>, <<e, S>>>>
    BY <2>4, Sequences DEF Goes
  <2> QED
    BY <2>2, <2>5, <2>6
<1> QED
  BY <1>4, <1>5, <1>6, <1>7 DEF EventRequest

LEMMA AttemptNamed ==
    ASSUME IInv, NamedSound, attemptDelivery
    PROVE  NamedSound'
<1>0. PICK d, n, w : d = Head(queue) /\ n = Delivery(d) /\ w = mem[n].workflow
  OBVIOUS
<1>1. UNCHANGED <<mem, disk>> /\ call[Worker].todo = <<>>
  BY DEF attemptDelivery, Idle
<1>2. CASE call' = call
  <2>1. \A m, v : Copy(m, v)' => Copy(m, v)
    BY <1>1, <1>2 DEF Copy
  <2> QED
    BY <1>2, <2>1 DEF NamedSound, CopiesNamed, At, Arg
<1>3. CASE n \in DOMAIN mem /\ call' = [call EXCEPT ![Worker] = [Idle EXCEPT !.todo = <<<<"execute", Keep, d, w>>>>]]
  <2>1. [Idle EXCEPT !.todo = <<<<"execute", Keep, d, w>>>>] = [todo |-> <<ExecuteStep(d, w)>>, undo |-> Nothing, on |-> None]
    BY DEF Idle, ExecuteStep, Keep
  <2>2. Goes(call, call', Worker, <<ExecuteStep(d, w)>>, Nothing)
    BY <1>3, <2>1, CallSet, QueueAssumption DEF IInv, IntentsSound
  <2>3. \A m, v : Copy(m, v)' => Copy(m, v)
    BY <1>1, <2>2 DEF Copy, Goes, Nothing
  <2>4. w \in Flows!Workflows
    <3>1. n[1] = "delivery" /\ Copy(n, mem[n])
      BY <1>0, <1>3 DEF Delivery, Copy
    <3> QED
      BY <1>0, <3>1 DEF NamedSound, CopiesNamed, Named
  <2>5. Head(call'[Worker].todo)[4] = w
    <3>1. Head(call'[Worker].todo) = ExecuteStep(d, w)
      BY <2>2, Sequences DEF Goes
    <3> QED
      BY <3>1 DEF ExecuteStep
  <2>6. \A h \in Handlers \ {Worker} : call'[h] = call[h]
    BY <2>2 DEF Goes
  <2> QED
    BY <2>3, <2>4, <2>5, <2>6 DEF NamedSound, CopiesNamed, At, Arg
<1> QED
  BY <1>0, <1>2, <1>3 DEF attemptDelivery, Live

LEMMA CallExecutorNamed ==
    ASSUME IInv, NamedSound, CallExecutor
    PROVE  NamedSound'
<1>1. PICK d : d = Arg(Worker)
  OBVIOUS
<1>2. call' = [call EXCEPT ![Worker].todo = <<ExecutingStep(d)>>] /\ UNCHANGED <<mem, disk>>
  BY <1>1 DEF CallExecutor, ExecutingStep, Keep
<1>3. Goes(call, call', Worker, <<ExecutingStep(d)>>, call[Worker].undo)
  BY <1>2, CallTodo, QueueAssumption DEF IInv, IntentsSound
<1>4. Head(call'[Worker].todo)[1] = "executing"
  <2>1. Head(call'[Worker].todo) = ExecutingStep(d)
    BY <1>3, Sequences DEF Goes
  <2> QED
    BY <2>1 DEF ExecutingStep
<1>5. \A m, v : Copy(m, v)' => Copy(m, v)
  BY <1>2, <1>3 DEF Copy, Goes
<1>6. \A h \in Handlers \ {Worker} : call'[h] = call[h]
  BY <1>3 DEF Goes
<1> QED
  BY <1>4, <1>5, <1>6 DEF NamedSound, CopiesNamed, At, Arg

LEMMA TakeAnswerNamed ==
    ASSUME IInv, NamedSound, TakeAnswer
    PROVE  NamedSound'
<1> DEFINE n == Delivery(Arg(Worker))
           todo == <<Save(<<>>)>>
<1>1. PICK s : \/ mem' = mem /\ Follow(Worker, todo)
               \/ n \in DOMAIN mem /\ Record(Worker, Put(mem, n, [mem[n] EXCEPT !.state = s]), {n}, todo)
  <2>1. PICK s : s = IF Head(flowsCall[Worker].todo)[5] THEN "SUCCEEDED" ELSE "FAILED"
    OBVIOUS
  <2> QED
    BY <2>1 DEF TakeAnswer, recordOutcome, Live, Keep
<1>2. disk' = disk /\ todo # <<>> /\ Head(todo)[1] = "save"
  BY Sequences DEF TakeAnswer, recordOutcome, Save
<1>3. CASE mem' = mem /\ Follow(Worker, todo)
  <2>1. PICK undo : Goes(call, call', Worker, todo, undo)
    BY <1>3, EventFollow, QueueAssumption DEF IInv
  <2>2. CopiesNamed'
    BY <1>2, <1>3, RestsNamed, QueueAssumption DEF NamedSound, Copy
  <2> HIDE DEF todo
  <2> QED
    BY <1>2, <2>1, <2>2 DEF NamedSound, Goes, At, Arg
<1>4. CASE n \in DOMAIN mem /\ Record(Worker, Put(mem, n, [mem[n] EXCEPT !.state = s]), {n}, todo)
  <2>1. PICK new : new = [mem[n] EXCEPT !.state = s]
    OBVIOUS
  <2>2. n[1] = "delivery" /\ Copy(n, mem[n])
    BY <1>4 DEF Delivery, Copy
  <2>3. mem[n] = [trigger |-> mem[n].trigger, workflow |-> mem[n].workflow, payload |-> mem[n].payload, state |-> mem[n].state]
    BY <2>2 DEF IInv, IntentsSound, IntentSound
  <2>4. new.workflow = mem[n].workflow
    BY <2>1, <2>3
  <2>5. Named(n, new)
    BY <2>2, <2>4 DEF Named, NamedSound, CopiesNamed
  <2>6. PICK undo : undo = [m \in {n} |-> Value(Put(mem, n, new), m)]
    OBVIOUS
  <2>7. mem' = Put(mem, n, new) /\ Goes(call, call', Worker, todo, undo)
    <3>1. call' = [call EXCEPT ![Worker] = IF todo = <<>> THEN Idle ELSE [@ EXCEPT !.todo = todo, !.undo = undo]]
      BY <1>4, <2>1, <2>6 DEF Record
    <3> QED
      BY <1>2, <1>4, <2>1, <3>1, CallRecords, QueueAssumption DEF IInv, IntentsSound, Record
  <2>8. \A m : m \in DOMAIN mem' => Copy(m, mem'[m]) \/ Named(m, mem'[m])
    BY <2>5, <2>7 DEF Put, Copy
  <2>9. \A m : m \in DOMAIN undo => Copy(m, undo[m]) \/ Named(m, undo[m])
    BY <2>5, <2>6 DEF Put, Value
  <2>10. \A m : m \in DOMAIN disk' => Copy(m, disk'[m])
    BY <1>2 DEF Copy
  <2> HIDE DEF todo
  <2>11. CopiesNamed'
    BY <2>7, <2>8, <2>9, <2>10, NamedBy, QueueAssumption DEF NamedSound
  <2> QED
    BY <1>2, <2>7, <2>11 DEF NamedSound, Goes, At, Arg
<1> QED
  BY <1>1, <1>3, <1>4

LEMMA CrashNamed ==
    ASSUME IInv, NamedSound, Crash
    PROVE  NamedSound'
<1>1. disk' = disk /\ mem' \in {disk, Nothing}
  BY DEF Crash, loadState
<1>2. PICK D : D = replayEligible(mem')
  OBVIOUS
<1>3. \A h \in Handlers : call'[h].undo = Nothing /\ call'[h].todo \in {<<>>, <<EnqueueStep(D)>>}
                          /\ (h # Boot => call'[h].todo = <<>>)
  <2>1. call' = [h \in Handlers |-> IF h = Boot /\ D # {} THEN [Idle EXCEPT !.todo = <<EnqueueStep(D)>>] ELSE Idle]
    BY <1>2 DEF Crash, loadState, EnqueueStep, Keep
  <2>2. /\ [Idle EXCEPT !.todo = <<EnqueueStep(D)>>].todo = <<EnqueueStep(D)>> /\ Idle.todo = <<>>
        /\ [Idle EXCEPT !.todo = <<EnqueueStep(D)>>].undo = Nothing /\ Idle.undo = Nothing
    BY DEF Idle
  <2> QED
    BY <2>1, <2>2
<1>4. \A n, v : Copy(n, v)' => Copy(n, v)
  BY <1>1, <1>3 DEF Copy, Nothing
<1> QED
  BY <1>3, <1>4, NotIntending, QueueAssumption DEF NamedSound, CopiesNamed, At

LEMMA NamedInit == Init => NamedSound
<1> SUFFICES ASSUME Init PROVE NamedSound
  OBVIOUS
<1>1. /\ mem = Nothing /\ disk = Nothing
      /\ call = [h \in Handlers |-> [todo |-> <<>>, undo |-> Nothing, on |-> None]]
  BY DEF Init, ShimInit, Idle, Nothing
<1>2. \A h \in Handlers : call[h].undo = Nothing /\ call[h].todo = <<>>
  BY <1>1
<1>3. \A n, v : ~Copy(n, v)
  BY <1>1, <1>2 DEF Copy, Nothing
<1> QED
  BY <1>2, <1>3, QueueAssumption DEF NamedSound, CopiesNamed, At

LEMMA NamedStep == IInv /\ HandsSound /\ NamedSound /\ [Next]_allVars => NamedSound'
<1> SUFFICES ASSUME IInv, HandsSound, NamedSound, [Next]_allVars PROVE NamedSound'
  OBVIOUS
<1>1. ASSUME NEW h \in Handlers \ {Worker}, CopiesNamed', EventMoves(h),
             call'[h].todo # <<>> /\ Head(call'[h].todo)[1] = "intend" => Head(call'[h].todo)[3][2] \subseteq Triggers
      PROVE  NamedSound'
  <2>1. \A x \in Handlers \ {h} : call'[x] = call[x]
    BY <1>1 DEF EventMoves, Goes
  <2> QED
    BY <1>1, <2>1, QueueAssumption DEF NamedSound, At, Arg
<1>2. ASSUME NEW h \in Requests, EventRequest(h) PROVE NamedSound'
  BY <1>1, <1>2, EventRequestMoves, EventRequestNamed DEF Requests, NamedSound
<1>3. ASSUME NEW h \in Handlers, EventarcStep(h) PROVE NamedSound'
  <2>1. CopiesNamed'
    BY <1>3, EventStepNamed DEF EventarcStep
  <2>2. EventMoves(h)
    BY <1>3, RecordMoves, EnqueueMoves, EventSaveMoves, EventRollbackMoves, EventOperationMoves DEF EventStep, EventarcStep
  <2>3. CASE h = Worker
    <3>1. call'[Worker].todo = <<>> /\ \A x \in Handlers \ {Worker} : call'[x] = call[x]
      BY <2>2, <2>3 DEF EventMoves, Goes
    <3> QED
      BY <2>1, <3>1 DEF NamedSound, At, Arg
  <2>4. CASE h # Worker
    BY <1>1, <1>3, <2>1, <2>2, <2>4, StepsNotIntending DEF EventarcStep
  <2> QED
    BY <2>3, <2>4
<1>4. CASE WorkerStep
  BY <1>4, AttemptNamed, CallExecutorNamed, TakeAnswerNamed DEF WorkerStep
<1>5. CASE Crash
  BY <1>5, CrashNamed
<1>6. CASE UNCHANGED <<shimVars, queue>>
  <2>1. UNCHANGED <<mem, disk, call>>
    BY <1>6 DEF shimVars
  <2>2. \A n, v : Copy(n, v)' <=> Copy(n, v)
    BY <2>1 DEF Copy
  <2> QED
    BY <2>1, <2>2 DEF NamedSound, CopiesNamed, At, Arg
<1> QED
  BY <1>2, <1>3, <1>4, <1>5, <1>6 DEF Next, WorkflowsStep, allVars

-----------------------------------------------------------------------------
(* Both shims together.                                                      *)
LEMMA CallExecutorMoves ==
    ASSUME IInv, NamedSound, Once, CallExecutor
    PROVE  WorkerMoves
<1>1. call[Worker].todo # <<>> /\ Head(call[Worker].todo)[1] = "execute"
  BY DEF CallExecutor, At
<1>2. PICK d, w : Executing(d, w) /\ call[Worker].todo = <<ExecuteStep(d, w)>>
  <2>1. ~Resting
    <3>1. Head(<<Save(<<>>)>>)[1] = "save"
      BY Sequences DEF Save
    <3> QED
      BY <1>1, <3>1 DEF Resting
  <2>2. \A d : Head(<<ExecutingStep(d)>>)[1] = "executing"
    BY Sequences DEF ExecutingStep
  <2> QED
    BY <1>1, <2>1, <2>2 DEF IInv, WorkerSound, Executing
<1>3. Head(call[Worker].todo)[4] = w /\ Arg(Worker) = d
  <2>1. Head(call[Worker].todo) = ExecuteStep(d, w)
    BY <1>2, Sequences
  <2> QED
    BY <2>1 DEF Arg, ExecuteStep
<1>4. w \in Flows!Workflows /\ d \in DeliveryIds
  BY <1>2, <1>3 DEF NamedSound, CallExecutor, Executing
<1>5. PICK todo : todo = <<Flows!Step("admit", w, d, None)>>
  OBVIOUS
<1>6. /\ UNCHANGED <<flows, flowsDisk, flowsDegraded, runs>> /\ Flows!EventExecutionMuFree
      /\ flowsCall[Worker].todo = <<>>
      /\ flowsCall' = [flowsCall EXCEPT ![Worker] = [todo |-> todo, undo |-> Nothing, on |-> Flows!eventExecutionMu]]
  <2>1. Flows!CreateExecutionFromEvent(Worker, w, d)
    BY <1>3 DEF CallExecutor
  <2>2. Flows!Look(Worker, Flows!eventExecutionMu, todo) /\ Flows!EventExecutionMuFree
    BY <1>5, <2>1 DEF Flows!CreateExecutionFromEvent
  <2>3. flowsCall[Worker].todo = <<>>
    BY <2>2 DEF Flows!Look, Flows!MayStart, Flows!Idle
  <2> QED
    BY <2>2, <2>3 DEF Flows!Look, Flows!Nothing, Nothing
<1>7. Others(Worker) /\ flowsCall'[Worker].todo = todo /\ flowsCall'[Worker].on = Flows!eventExecutionMu
  BY <1>6, QueueAssumption DEF IInv, FlowsSound, Calls, Others
<1>8. Head(todo)[1] = "admit"
  BY <1>5, Sequences, StepParts
<1>9. Due = runs /\ Due' = runs
  BY <1>6, <1>7, <1>8 DEF Due, Flows!At
<1>10. WorkerStage(todo, w, d)'
  BY <1>5 DEF WorkerStage
<1>11. WorkerOnce'
  BY <1>4, <1>7, <1>10 DEF WorkerOnce
<1>12. RunsWell' => RunsWell /\ DocOnce(flows', Due')
  BY <1>6, <1>9 DEF Once, RunsWell
<1>13. DocOnce(flowsDisk', Due')
  BY <1>6, <1>9 DEF Once
<1> QED
  BY <1>6, <1>7, <1>9, <1>11, <1>12, <1>13 DEF WorkerMoves

LEMMA TakeAnswerMoves ==
    ASSUME IInv, Once, TakeAnswer
    PROVE  WorkerMoves
<1>1. flowsCall[Worker].todo # <<>> /\ Head(flowsCall[Worker].todo)[1] = "answer"
  BY DEF TakeAnswer, Flows!At
<1>2. Tail(flowsCall[Worker].todo) = <<>>
  BY <1>1, WorkerAtHead DEF WorkerHead
<1>3. UNCHANGED <<flows, flowsDisk, flowsDegraded, runs>> /\ Flows!Follow(Worker, <<>>)
  BY <1>2 DEF TakeAnswer, Flows!answerEvent, Flows!Proceed
<1>4. Others(Worker) /\ flowsCall'[Worker].todo = <<>>
  BY <1>3, FlowFollow, QueueAssumption DEF IInv, Goes, Others
<1>5. Due = runs /\ Due' = runs
  BY <1>1, <1>3, <1>4 DEF Due, Flows!At
<1>6. WorkerOnce'
  BY <1>4 DEF WorkerOnce
<1>7. RunsWell' => RunsWell /\ DocOnce(flows', Due')
  BY <1>3, <1>5 DEF Once, RunsWell
<1>8. DocOnce(flowsDisk', Due')
  BY <1>3, <1>5 DEF Once
<1> QED
  BY <1>1, <1>3, <1>4, <1>5, <1>6, <1>7, <1>8 DEF WorkerMoves

(* A start: the entry knows of every run, and so do the maps made of it.     *)
LEMMA CrashOnce ==
    ASSUME Once, NoneIsSpecial, Crash
    PROVE  Once'
<1> DEFINE S == Flows!Interrupted(flowsDisk)
           kept == Flows!Drop(flowsDisk, {Flows!eventAdmission(n[2], n[3]) : n \in S})
           next == [n \in DOMAIN kept |-> IF n \in S THEN [kept[n] EXCEPT !.state = "FAILED"] ELSE kept[n]]
<1>1. /\ flowsDisk' \in {next, flowsDisk} /\ runs' = runs /\ (RunsWell' => flows' = next)
      /\ flowsCall' = [h \in Handlers |-> [todo |-> <<>>, undo |-> Nothing, on |-> None]]
  BY DEF Crash, Flows!loadState, RunsWell, Flows!Idle, Flows!Nothing, Nothing
<1>2. \A h \in Handlers : flowsCall'[h].todo = <<>>
  BY <1>1
<1>3. Due' = runs
  BY <1>1, <1>2, QueueAssumption DEF Due, Flows!At
<1>4. DocOnce(flowsDisk, runs) /\ Counter(flowsDisk) \in Nat
  BY DueRuns DEF Once, DocOnce
<1>5. Tame(flowsDisk, next)
  BY <1>4, StartTame
<1> HIDE DEF next
<1>6. DocOnce(next, runs)
  BY <1>4, <1>5, TameKeeps
<1>7. WorkerOnce' /\ flowsCall'[Boot].todo = <<>>
  BY <1>2, QueueAssumption DEF WorkerOnce
<1>8. \A h \in Requests : ClientStage(h, flowsCall[h].todo)'
  BY <1>2 DEF ClientStage, Requests
<1>9. DocOnce(flowsDisk', Due') /\ (RunsWell' => DocOnce(flows', Due'))
  BY <1>1, <1>3, <1>4, <1>6
<1> QED
  BY <1>7, <1>8, <1>9 DEF Once

LEMMA OnceInit == Init => Once
<1> SUFFICES ASSUME Init PROVE Once
  OBVIOUS
<1>1. /\ flows = Nothing /\ flowsDisk = Nothing /\ runs = {}
      /\ flowsCall = [h \in Handlers |-> [todo |-> <<>>, undo |-> Nothing, on |-> None]]
  BY DEF Init, Flows!ShimInit, Flows!Idle, Flows!Nothing, Nothing
<1>2. \A h \in Handlers : flowsCall[h].todo = <<>>
  BY <1>1
<1>3. Due = {}
  BY <1>1, <1>2, QueueAssumption DEF Due, Flows!At
<1>4. DocOnce(Nothing, {})
  BY DEF DocOnce, Counter, Nothing
<1>5. WorkerOnce /\ flowsCall[Boot].todo = <<>>
  BY <1>2, QueueAssumption DEF WorkerOnce
<1>6. \A h \in Requests : ClientStage(h, flowsCall[h].todo)
  BY <1>2 DEF ClientStage, Requests
<1> QED
  BY <1>1, <1>3, <1>4, <1>5, <1>6 DEF Once

LEMMA OnceStep ==
    ASSUME Guarded, NoneIsSpecial, IInv, NamedSound, Once, OneAtATime, OneAtATime', [Next]_allVars
    PROVE  Once'
<1>1. ASSUME UNCHANGED flowVars PROVE Once'
  <2>1. UNCHANGED <<flows, flowsDisk, flowsDegraded, flowsCall, runs>>
    BY <1>1 DEF flowVars
  <2>2. Due' = Due /\ RunsWell' = RunsWell
    BY <2>1 DEF Due, Flows!At, Flows!On, Flows!Id, Flows!Wf, RunsWell
  <2>3. WorkerOnce' = WorkerOnce
    BY <2>1, <2>2 DEF WorkerOnce, WorkerStage, AtEnter, AtBegin, AtMark, AtRun, AtEnd, Ready
  <2>4. \A h \in Requests : ClientStage(h, flowsCall[h].todo)' = ClientStage(h, flowsCall[h].todo)
    BY <2>1, <2>2 DEF ClientStage, RevertOnce, PutBackOnce, CopyOnce, CancelledOnce, ExecutionProgram, Deleting
  <2> QED
    BY <2>1, <2>2, <2>3, <2>4 DEF Once
<1>2. ASSUME NEW h \in Requests, Flows!FlowRequest(h) PROVE Once'
  BY <1>2, ClientRequestMoves, ClientBegins, ClientMovesKeep DEF IInv
<1>3. ASSUME NEW h \in Handlers, WorkflowsStep(h) PROVE Once'
  <2>1. Flows!FlowStep(h)
    BY <1>3 DEF WorkflowsStep
  <2>2. CASE h = Worker
    BY <2>1, <2>2, WorkerStepMoves, WorkerMovesKeep DEF IInv
  <2>3. CASE h = Boot
    BY <2>1, <2>3, FlowStepsFollow DEF Once
  <2>4. CASE h \in Requests
    BY <2>1, <2>4, ClientStepMoves, FlowStepsFollow, ClientMovesKeep DEF IInv
  <2> QED
    BY <2>2, <2>3, <2>4 DEF Requests
<1>4. CASE WorkerStep
  BY <1>1, <1>4, CallExecutorMoves, TakeAnswerMoves, WorkerMovesKeep DEF WorkerStep
<1>5. CASE Crash
  BY <1>5, CrashOnce
<1>6. CASE UNCHANGED allVars
  BY <1>1, <1>6 DEF allVars
<1> QED
  BY <1>1, <1>2, <1>3, <1>4, <1>5, <1>6 DEF Next, EventarcStep

LEMMA OnceRuns == Once => Flows!RunsOnce
<1> SUFFICES ASSUME Once, NEW h \in Handlers, Flows!At(h, "run")
             PROVE  Flows!Ran(Flows!On(h), Flows!Id(h), Flows!Wf(h)) \notin runs
  BY DEF Flows!RunsOnce
<1>1. flowsCall[h].todo # <<>> /\ Head(flowsCall[h].todo)[1] = "run"
  BY DEF Flows!At
<1>2. h = Worker
  <2>1. h \notin Requests
    BY <1>1, ClientAt DEF ClientHead
  <2>2. h # Boot
    BY <1>1 DEF Once
  <2> QED
    BY <2>1, <2>2 DEF Requests
<1>3. PICK P : P = flowsCall[Worker].todo
  OBVIOUS
<1>4. PICK w, d : AtRun(P, w, d, Head(P)[5]) /\ Head(P)[3] = w /\ Head(P)[4] = d
  BY <1>1, <1>2, <1>3, WorkerAtHead DEF WorkerHead
<1> QED
  BY <1>2, <1>3, <1>4 DEF AtRun, RanAs, Flows!Ran, Flows!On, Flows!Id, Flows!Wf

(* The steps of a workflow run at most once for a delivery, however often    *)
(* CreateExecutionFromEvent is asked again, whatever saves are refused, and  *)
(* whatever dies meanwhile: the execution and its admission, and the mark    *)
(* that beginExecution saves before the run, never lose sight of a run that  *)
(* was made.  It takes the guard, which refuses the saves after a failed     *)
(* one, and a client of Workflows that waits for one answer before it asks   *)
(* again; and None is no name of a resource and none of its values.          *)
THEOREM RunsOnceHolds == Guarded /\ NoneIsSpecial => (Spec /\ []OneAtATime => RunsOnce)
<1> SUFFICES ASSUME Guarded, NoneIsSpecial PROVE Spec /\ []OneAtATime => RunsOnce
  OBVIOUS
<1>1. IInv /\ NamedSound /\ Once /\ OneAtATime /\ OneAtATime' /\ [Next]_allVars => Once'
  BY OnceStep
<1>2. Spec => []HandsSound
  BY HandsInit, HandsStep, SoundAtAllTimes, PTL DEF Spec
<1>3. Spec => []NamedSound
  BY <1>2, NamedInit, NamedStep, SoundAtAllTimes, PTL DEF Spec
<1>4. Spec /\ []OneAtATime => []Once
  BY <1>1, <1>3, OnceInit, SoundAtAllTimes, PTL DEF Spec
<1> QED
  BY <1>4, OnceRuns, PTL DEF Spec, RunsOnce
=============================================================================

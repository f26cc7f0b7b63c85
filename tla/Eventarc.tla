------------------------------ MODULE Eventarc ------------------------------
(* pkg/shims/eventarc: triggers, and for every event an intent to deliver it *)
(* to the workflow of each trigger that matches, made durable before the     *)
(* event is acknowledged.  One goroutine (Worker) takes the intents from a   *)
(* bounded queue and makes them executions; a start (Boot) queues again what *)
(* has not succeeded.  A trigger's filter and an event are members of        *)
(* Bodies, a destination is one of the workflows named in Ids.  The end of   *)
(* the operation, which nobody waits for, is left out.                       *)
EXTENDS ShimState

CONSTANTS
    Worker, Boot,            \* the queue's goroutine, and OnPostBoot
    maxPersistedDeliveries,
    deliveryQueueSize,
    DeliveryIds              \* bound: the random ids of intents and payloads

ASSUME QueueAssumption ==
    /\ maxPersistedDeliveries \in Nat \ {0} /\ deliveryQueueSize \in Nat \ {0}
    /\ Worker \in Handlers /\ Boot \in Handlers /\ Worker # Boot

VARIABLE queue

Triggers == {<<"trigger", None, i>> : i \in SubIds}
Destination == {<<"workflow", None, i>> : i \in Ids}
Delivery(d) == <<"delivery", None, d>>
Deliveries(doc) == Of("delivery", doc)
Payload(d) == <<"payload", None, d>>
Requests == Handlers \ {Worker, Boot}
Booted == call[Boot] = Idle
Arg(h) == Head(call[h].todo)[3]

-----------------------------------------------------------------------------
(* A failed save is followed by a second one, of the maps as they were; the  *)
(* readback after that one meets the guard's sticky error.                   *)
compensateState == <<Undo, Save(Keep)>>

FinishTrigger == <<Register(Revert), Save(compensateState)>>
createTrigger(h) ==
    \E n \in Triggers \ Live, w \in Destination, e \in Bodies :
        Handle(h, Put(mem, n, [workflow |-> w, filter |-> e]), {n}, FinishTrigger) /\ UNCHANGED queue
(* The intents made for the old destination are left as they are.            *)
patchTrigger(h) ==
    \E n \in Triggers \cap Live, w \in Destination :
        Handle(h, Put(mem, n, [mem[n] EXCEPT !.workflow = w]), {n}, FinishTrigger) /\ UNCHANGED queue
(* The trigger's intents go with it, and the payloads no other intent uses.  *)
removeTriggerDeliveries(n) ==
    LET gone == {m \in Deliveries(mem) : mem[m].trigger = n}
        used == {mem[m].payload : m \in Deliveries(mem) \ gone}
    IN  gone \union {Payload(p) : p \in {mem[m].payload : m \in gone} \ used}
(* In the fault the intents stay.                                            *)
deleteTriggerOnly(h) ==
    \E n \in Triggers \cap Live : Handle(h, Drop(mem, {n}), {n}, FinishTrigger) /\ UNCHANGED queue
deleteTrigger(h) ==
    \E n \in Triggers \cap Live :
        LET S == {n} \union removeTriggerDeliveries(n)
        IN  Handle(h, Drop(mem, S), S, FinishTrigger) /\ UNCHANGED queue

-----------------------------------------------------------------------------
(* An event: the triggers are matched on a copy, and again under mu.         *)
matchesTrigger(n, e) == n \in Live /\ mem[n].filter = e
HandleEventWithAck(h) ==
    \E e \in Bodies :
        LET matches == {n \in Triggers : matchesTrigger(n, e)}
        IN  matches # {} /\ Look(h, None, <<<<"intend", Keep, <<e, matches>>>>>>) /\ UNCHANGED queue
(* An intent that somebody has yet to queue or to deliver.                   *)
Held(d) ==
    \/ \E i \in DOMAIN queue : queue[i] = d
    \/ \E h \in Handlers : \E i \in DOMAIN call[h].todo : call[h].todo[i][1] = "enqueue" /\ d \in call[h].todo[i][3]
    \/ (At(Worker, "execute") \/ At(Worker, "executing")) /\ Arg(Worker) = d
(* The ids are random: one that is known anywhere is not drawn again, and    *)
(* they are all alike, so that which of them are taken does not matter.      *)
(* None stands for the payload.                                              *)
Known(n) == n \in DOMAIN mem \union DOMAIN disk \union UNION {Touches(h) : h \in Handlers}
FreshIds == {d \in DeliveryIds : ~Held(d) /\ ~Known(Delivery(d)) /\ ~Known(Payload(d))}
nextIDs(S) == {f \in [S \union {None} -> FreshIds] : \A m, n \in S \union {None} : f[m] = f[n] => m = n}
recordIntents(h) ==
    LET e == Arg(h)[1]
        current == {n \in Arg(h)[2] : matchesTrigger(n, e)}
    IN  /\ At(h, "intend")
        /\ \/ /\ current # {}
              /\ Cardinality(Deliveries(mem)) + Cardinality(current) <= maxPersistedDeliveries
              /\ nextIDs(current) # {}
              /\ LET id == CHOOSE f \in nextIDs(current) : TRUE
                     p == id[None]
                     S == {Delivery(id[n]) : n \in current} \union {Payload(p)}
                     intent(n) == [trigger |-> n, workflow |-> mem[n].workflow, payload |-> p, state |-> "ATTEMPTING"]
                 IN  /\ mem' = [m \in Live \union S |->
                                  IF m \in Live THEN mem[m] ELSE IF m = Payload(p) THEN e
                                  ELSE intent(CHOOSE n \in current : Delivery(id[n]) = m)]
                     /\ call' = [call EXCEPT ![h].undo = [m \in S |-> None],
                                             ![h].todo = <<Save(Revert), <<"enqueue", Keep, {id[n] : n \in current}>>>>]
           \/ UNCHANGED mem /\ Proceed(h)          \* no match left, no room, or no id
        /\ UNCHANGED <<disk, degraded, unsaved, backend, queue>>
(* Blocks while the queue is full.                                           *)
enqueueDelivery(h) ==
    /\ At(h, "enqueue") /\ Len(queue) < deliveryQueueSize
    /\ \E d \in Arg(h) :
          /\ queue' = Append(queue, d)
          /\ IF Arg(h) = {d} THEN Proceed(h)
             ELSE call' = [call EXCEPT ![h].todo = <<<<"enqueue", Keep, Arg(h) \ {d}>>>>, ![h].undo = Nothing]
    /\ UNCHANGED <<mem, disk, degraded, unsaved, backend>>

(* The worker: an intent whose trigger was deleted is dropped; any other is  *)
(* handed to the executor, and its outcome saved.                            *)
(* In the fault an intent that is gone stays at the head of the queue.       *)
attemptDeliveryStuck ==
    /\ call[Worker] = Idle /\ queue # <<>>
    /\ LET d == Head(queue)
       IN  /\ Delivery(d) \in Live
           /\ queue' = Tail(queue)
           /\ call' = [call EXCEPT ![Worker] = [Idle EXCEPT !.todo = <<<<"execute", Keep, d, mem[Delivery(d)].workflow>>>>]]
    /\ UNCHANGED <<mem, disk, degraded, unsaved, backend>>
attemptDelivery ==
    /\ call[Worker] = Idle /\ queue # <<>>
    /\ queue' = Tail(queue)
    /\ LET d == Head(queue)
       IN  call' = IF Delivery(d) \in Live
                   THEN [call EXCEPT ![Worker] = [Idle EXCEPT !.todo = <<<<"execute", Keep, d, mem[Delivery(d)].workflow>>>>]]
                   ELSE call
    /\ UNCHANGED <<mem, disk, degraded, unsaved, backend>>
(* In the fault the executor's error is ignored.                             *)
recordSuccess(ok) ==
    LET n == Delivery(Arg(Worker))
    IN  /\ At(Worker, "executing") /\ n \in Live
        /\ Record(Worker, Put(mem, n, [mem[n] EXCEPT !.state = "SUCCEEDED"]), {n}, <<Save(Keep)>>)
        /\ UNCHANGED <<disk, degraded, unsaved, backend, queue>>
recordOutcome(ok) ==
    LET n == Delivery(Arg(Worker))
    IN  /\ At(Worker, "executing")
        /\ IF n \in Live
           THEN Record(Worker, Put(mem, n, [mem[n] EXCEPT !.state = IF ok THEN "SUCCEEDED" ELSE "FAILED"]), {n}, <<Save(Keep)>>)
           ELSE UNCHANGED mem /\ Follow(Worker, <<Save(Keep)>>)
        /\ UNCHANGED <<disk, degraded, unsaved, backend, queue>>

-----------------------------------------------------------------------------
(* What an entry must satisfy for the start to take it.                      *)
validateEventarcMetadata(doc) ==
    \A m \in Deliveries(doc) :
        /\ doc[m].trigger \in DOMAIN doc /\ doc[m].workflow = doc[doc[m].trigger].workflow
        /\ Payload(doc[m].payload) \in DOMAIN doc
(* In the fault only the deliveries that have failed are tried again.        *)
replayFailed(doc) == {m[3] : m \in {n \in Deliveries(doc) : doc[n].state = "FAILED"}}
replayEligible(doc) == {m[3] : m \in {n \in Deliveries(doc) : doc[n].state # "SUCCEEDED"}}
(* An entry that the start does not take leaves the shim empty, and the      *)
(* store as it was: later saves replace the entry.                           *)
loadState ==
    /\ unsaved' = {} /\ queue' = <<>>
    /\ \/ validateEventarcMetadata(disk) /\ mem' = disk /\ degraded' = "no"
       \/ ~validateEventarcMetadata(disk) /\ mem' = Nothing /\ degraded' = "no"
       \/ mem' = Nothing /\ degraded' = "unread"
    /\ call' = [h \in Handlers |->
                   IF h = Boot /\ replayEligible(mem') # {} THEN [Idle EXCEPT !.todo = <<<<"enqueue", Keep, replayEligible(mem')>>>>]
                   ELSE Idle]
    /\ UNCHANGED <<disk, backend>>

persistState(h) == SaveOk(h) \/ SaveFails(h)

EventRequest(h) == createTrigger(h) \/ patchTrigger(h) \/ deleteTrigger(h) \/ HandleEventWithAck(h)
EventStep(h) ==
    \/ recordIntents(h) \/ enqueueDelivery(h)
    \/ (persistState(h) \/ Rollback(h) \/ OperationWrite(h)) /\ UNCHANGED queue

(* A trigger that a request was told exists is there after every start that  *)
(* can read the entry.                                                       *)
TriggersSurviveRestart ==
    degraded = "no" => \A n \in Triggers \cap DOMAIN disk : Settled(n) /\ n \notin unsaved => n \in Live
=============================================================================

--------------------------- MODULE EventDelivery ----------------------------
(* Events through Eventarc (mem, disk, ...) to executions in Workflows       *)
(* (flows, flowsDisk, ...): two shims with an entry and a guarded store      *)
(* each, one process.  Eventarc's worker calls CreateExecutionFromEvent and  *)
(* waits for its answer.                                                     *)
EXTENDS Eventarc

CONSTANTS MaxRevision, ExecutionIds, MaxCrashes, MaxRequests

ASSUME IdsAssumption == DeliveryIds \cap ExecutionIds = {}   \* "event-" and a time

VARIABLES flows, flowsDisk, flowsDegraded, flowsUnsaved, flowsCall, runs,
          crashes, requests   \* bounds: the starts and the requests so far

flowVars == <<flows, flowsDisk, flowsDegraded, flowsUnsaved, flowsCall, runs>>
allVars == <<shimVars, queue, flowVars, crashes, requests>>

Flows == INSTANCE Workflows WITH
    SubIds <- ExecutionIds, mem <- flows, disk <- flowsDisk, degraded <- flowsDegraded,
    unsaved <- flowsUnsaved, call <- flowsCall, backend <- runs

Init == ShimInit /\ queue = <<>> /\ Flows!ShimInit /\ crashes = 0 /\ requests = 0

(* The worker waits until the executor answers.                              *)
CallExecutor ==
    /\ At(Worker, "execute")
    /\ Flows!CreateExecutionFromEvent(Worker, Head(call[Worker].todo)[4], Arg(Worker))
    /\ call' = [call EXCEPT ![Worker].todo = <<<<"executing", Keep, Arg(Worker)>>>>]
    /\ UNCHANGED <<mem, disk, degraded, unsaved, backend, queue, crashes, requests>>
TakeAnswer ==
    /\ Flows!At(Worker, "answer")
    /\ recordOutcome(Head(flowsCall[Worker].todo)[5])
    /\ Flows!answerEvent(Worker)
    /\ UNCHANGED <<crashes, requests>>

(* Both shims go down together.                                              *)
Crash ==
    /\ crashes < MaxCrashes /\ crashes' = crashes + 1 /\ UNCHANGED requests
    /\ loadState /\ Flows!loadState

EventarcStep(h) ==
    /\ EventStep(h)
    /\ UNCHANGED <<flowVars, crashes, requests>>
WorkerStep == (attemptDelivery /\ UNCHANGED <<flowVars, crashes, requests>>) \/ CallExecutor \/ TakeAnswer
WorkflowsStep(h) == Flows!FlowStep(h) /\ UNCHANGED <<shimVars, queue, crashes, requests>>

Next ==
    \/ /\ Booted /\ requests < MaxRequests
       /\ requests' = requests + 1 /\ UNCHANGED crashes
       /\ \E h \in Requests :
             \/ flowsCall[h] = Idle /\ EventRequest(h) /\ UNCHANGED flowVars
             \/ call[h] = Idle /\ Flows!FlowRequest(h) /\ UNCHANGED <<shimVars, queue>>
    \/ \E h \in Handlers : EventarcStep(h) \/ WorkflowsStep(h)
    \/ WorkerStep \/ Crash

Spec == Init /\ [][Next]_allVars
(* The goroutines of the queue and of the requests run on; a client need not *)
(* send anything.                                                            *)
FairSpec ==
    /\ Spec
    /\ WF_allVars(WorkerStep)
    /\ \A h \in Handlers : WF_allVars(EventarcStep(h)) /\ WF_allVars(WorkflowsStep(h))

(* A delivery recorded as SUCCEEDED has run its workflow (delivery.go:262).  *)
SucceededHasRun ==
    \A m \in Deliveries(mem) \union Deliveries(disk) :
        LET v == IF m \in DOMAIN mem THEN mem[m] ELSE disk[m]
        IN  v.state = "SUCCEEDED" => \E r \in runs : r[2] = v.workflow /\ r[3] = m[3]
(* An acknowledged event is not forgotten while its trigger stands: no step, *)
(* a crash and the start after it included, takes an intent that nobody has  *)
(* attempted out of the hands it is in.                                      *)
Waiting(d) == Delivery(d) \in Live /\ mem[Delivery(d)].state = "ATTEMPTING"
IntentsKept ==
    [][\A d \in DeliveryIds : Waiting(d) /\ Held(d) /\ Waiting(d)' => Held(d)' \/ ~Settled(Delivery(d))']_allVars
(* Whatever is queued is attempted in the end, however small the queue is.   *)
QueueDrains == \A d \in DeliveryIds : Held(d) ~> ~Held(d)
(* The steps of a workflow run at most once for a delivery, however often it *)
(* is repeated and whatever dies meanwhile (Workflows!RunsOnce).             *)
RunsOnce == [][Flows!RunsOnce]_allVars
=============================================================================

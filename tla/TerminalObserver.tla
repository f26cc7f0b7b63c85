-------------------------- MODULE TerminalObserver --------------------------
(***************************************************************************)
(* The terminal observers of pkg/orchestrator/operations.go: every         *)
(* subscription owns a worker goroutine, one coalesced pending operation   *)
(* and a wakeup channel of capacity one.  Finalizers, which notify after   *)
(* they released persistMu and so in any order, subscribers and workers    *)
(* interleave; observerMu makes each of its critical sections one step,    *)
(* and the channel operations outside it are steps of their own.           *)
(***************************************************************************)
EXTENDS Integers, FiniteSets

CONSTANTS Observers,    \* subscriptions
          Operations,   \* operations that reach a terminal state
          Nil           \* no operation

ASSUME NilAssumption == Nil \notin Operations

VARIABLES
    published,   \* operations whose terminal state is durable and visible
    notified,    \* operations whose finalizer has called notifyTerminal
    active,      \* observer.active, FALSE before the subscription too
    pending,     \* observer.pending
    wakeup,      \* a token is in observer.wakeup
    worker,      \* where runTerminalObserver is
    current,     \* the operation the worker passes to the callback
    sub,         \* the subscription: none, live, closing, closed
    waiting,     \* Shutdown waits for observer.done
    latest,      \* history: the last operation notified while active
    delivered    \* history: operations passed to the callback, Nil included

vars == <<published, notified, active, pending, wakeup, worker, current, sub,
          waiting, latest, delivered>>

MaybeOperation == Operations \cup {Nil}

TypeOK ==
    /\ published \subseteq Operations /\ notified \subseteq Operations
    /\ active \in [Observers -> BOOLEAN]
    /\ pending \in [Observers -> MaybeOperation]
    /\ wakeup \in [Observers -> BOOLEAN]
    /\ worker \in [Observers -> {"none", "receive", "lock", "call", "callback", "exit"}]
    /\ current \in [Observers -> MaybeOperation]
    /\ sub \in [Observers -> {"none", "live", "closing", "closed"}]
    /\ waiting \in [Observers -> {"no", "waiting", "returned"}]
    /\ latest \in [Observers -> MaybeOperation]
    /\ delivered \in [Observers -> SUBSET MaybeOperation]

Init ==
    /\ published = {} /\ notified = {}
    /\ active = [o \in Observers |-> FALSE]
    /\ pending = [o \in Observers |-> Nil]
    /\ wakeup = [o \in Observers |-> FALSE]
    /\ worker = [o \in Observers |-> "none"]
    /\ current = [o \in Observers |-> Nil]
    /\ sub = [o \in Observers |-> "none"]
    /\ waiting = [o \in Observers |-> "no"]
    /\ latest = [o \in Observers |-> Nil]
    /\ delivered = [o \in Observers |-> {}]

-----------------------------------------------------------------------------
\* Finalizers.

\* publishTerminalCandidate, under persistMu.
Publish(op) ==
    /\ op \notin published
    /\ published' = published \cup {op}
    /\ UNCHANGED <<notified, active, pending, wakeup, worker, current, sub,
                   waiting, latest, delivered>>

\* notifyTerminal, under observerMu: overwrite what is pending, then try to
\* put a token into the channel.
NotifyTerminal(op) ==
    /\ op \in published \ notified
    /\ notified' = notified \cup {op}
    /\ pending' = [o \in Observers |-> IF active[o] THEN op ELSE pending[o]]
    /\ wakeup' = [o \in Observers |-> active[o] \/ wakeup[o]]
    /\ latest' = [o \in Observers |-> IF active[o] THEN op ELSE latest[o]]
    /\ UNCHANGED <<published, active, worker, current, sub, waiting, delivered>>

-----------------------------------------------------------------------------
\* Subscribers.

ObserveTerminal(o) ==
    /\ sub[o] = "none"
    /\ sub' = [sub EXCEPT ![o] = "live"]
    /\ active' = [active EXCEPT ![o] = TRUE]
    /\ worker' = [worker EXCEPT ![o] = "receive"]
    /\ UNCHANGED <<published, notified, pending, wakeup, current, waiting,
                   latest, delivered>>

\* Unsubscribe, inside once.Do: the part under observerMu ...
Deactivate(o) ==
    /\ sub[o] = "live"
    /\ sub' = [sub EXCEPT ![o] = "closing"]
    /\ active' = [active EXCEPT ![o] = FALSE]
    /\ pending' = [pending EXCEPT ![o] = Nil]
    /\ UNCHANGED <<published, notified, wakeup, worker, current, waiting,
                   latest, delivered>>

\* Fault: Unsubscribe does not wake its worker.
WakeNobody(o) ==
    /\ sub[o] = "closing"
    /\ sub' = [sub EXCEPT ![o] = "closed"]
    /\ UNCHANGED <<published, notified, active, pending, wakeup, worker, current,
                   waiting, latest, delivered>>

\* ... and the token that makes the worker look.
Wake(o) ==
    /\ sub[o] = "closing"
    /\ sub' = [sub EXCEPT ![o] = "closed"]
    /\ wakeup' = [wakeup EXCEPT ![o] = TRUE]
    /\ UNCHANGED <<published, notified, active, pending, worker, current,
                   waiting, latest, delivered>>

\* Shutdown after its Unsubscribe returned: wait for done ...
Shutdown(o) ==
    /\ sub[o] = "closed" /\ waiting[o] = "no"
    /\ waiting' = [waiting EXCEPT ![o] = "waiting"]
    /\ UNCHANGED <<published, notified, active, pending, wakeup, worker,
                   current, sub, latest, delivered>>

\* Fault: Shutdown does not wait for done.
ShutdownAtOnce(o) ==
    /\ waiting[o] = "waiting"
    /\ waiting' = [waiting EXCEPT ![o] = "returned"]
    /\ UNCHANGED <<published, notified, active, pending, wakeup, worker,
                   current, sub, latest, delivered>>

\* ... which the worker closes when it exits, or give up with the context and
\* let the caller try again.
ShutdownReturns(o) ==
    /\ waiting[o] = "waiting" /\ worker[o] = "exit"
    /\ waiting' = [waiting EXCEPT ![o] = "returned"]
    /\ UNCHANGED <<published, notified, active, pending, wakeup, worker,
                   current, sub, latest, delivered>>

ShutdownTimesOut(o) ==
    /\ waiting[o] = "waiting" /\ worker[o] # "exit"
    /\ waiting' = [waiting EXCEPT ![o] = "no"]
    /\ UNCHANGED <<published, notified, active, pending, wakeup, worker,
                   current, sub, latest, delivered>>

-----------------------------------------------------------------------------
\* runTerminalObserver.

Receive(o) ==
    /\ worker[o] = "receive" /\ wakeup[o]
    /\ wakeup' = [wakeup EXCEPT ![o] = FALSE]
    /\ worker' = [worker EXCEPT ![o] = "lock"]
    /\ UNCHANGED <<published, notified, active, pending, current, sub, waiting,
                   latest, delivered>>

\* Under observerMu: leave when inactive, else take what is pending.
Take(o) ==
    /\ worker[o] = "lock"
    /\ pending' = [pending EXCEPT ![o] = Nil]
    /\ IF active[o]
       THEN /\ current' = [current EXCEPT ![o] = pending[o]]
            /\ worker' = [worker EXCEPT ![o] = "call"]
       ELSE /\ worker' = [worker EXCEPT ![o] = "exit"]
            /\ UNCHANGED current
    /\ UNCHANGED <<published, notified, active, wakeup, sub, waiting, latest,
                   delivered>>

\* invokeTerminalObserver, after observerMu was released.
Invoke(o) ==
    /\ worker[o] = "call"
    /\ worker' = [worker EXCEPT ![o] = "callback"]
    /\ delivered' = [delivered EXCEPT ![o] = @ \cup {current[o]}]
    /\ UNCHANGED <<published, notified, active, pending, wakeup, current, sub,
                   waiting, latest>>

\* Fault: what was pending is cleared after the callback, not before it.
ReturnClearsPending(o) ==
    /\ worker[o] = "callback"
    /\ worker' = [worker EXCEPT ![o] = "receive"]
    /\ current' = [current EXCEPT ![o] = Nil]
    /\ pending' = [pending EXCEPT ![o] = Nil]
    /\ UNCHANGED <<published, notified, active, wakeup, sub, waiting,
                   latest, delivered>>

\* The callback returns, or its panic is recovered.
Return(o) ==
    /\ worker[o] = "callback"
    /\ worker' = [worker EXCEPT ![o] = "receive"]
    /\ current' = [current EXCEPT ![o] = Nil]
    /\ UNCHANGED <<published, notified, active, pending, wakeup, sub, waiting,
                   latest, delivered>>

WorkerStep(o) == Receive(o) \/ Take(o) \/ Invoke(o) \/ Return(o)

Next ==
    \/ \E op \in Operations : Publish(op) \/ NotifyTerminal(op)
    \/ \E o \in Observers :
          \/ ObserveTerminal(o) \/ Deactivate(o) \/ Wake(o)
          \/ Shutdown(o) \/ ShutdownReturns(o) \/ ShutdownTimesOut(o)
          \/ Receive(o) \/ Take(o) \/ Invoke(o) \/ Return(o)

Spec == Init /\ [][Next]_vars

\* Callbacks return, and goroutines that can run do; finalizers, subscribers
\* and the contexts of Shutdown owe nothing but the second half of once.Do.
Fairness ==
    \A o \in Observers : /\ WF_vars(WorkerStep(o))
                         /\ WF_vars(Wake(o))
                         /\ WF_vars(ShutdownReturns(o))

FairSpec == Spec /\ Fairness

-----------------------------------------------------------------------------
\* Properties.

\* No lost wakeup: while an operation is pending there is a token in the
\* channel or the worker has taken one and not looked yet.  Likewise a
\* subscription that is closed cannot leave its worker asleep.
NoLostWakeup ==
    \A o \in Observers :
        /\ pending[o] # Nil => wakeup[o] \/ worker[o] = "lock"
        /\ sub[o] = "closed" /\ worker[o] = "receive" => wakeup[o]

\* Once Shutdown has returned nil no callback of the subscription runs, then
\* or later.
QuietAfterShutdown ==
    [][\A o \in Observers :
          waiting[o] = "returned" =>
            worker'[o] = "exit" /\ delivered'[o] = delivered[o]]_vars

\* The newest notification is not lost to coalescing: it reaches the
\* callback unless a newer one replaces it or the subscription ends.
LatestDelivered ==
    \A o \in Observers, op \in Operations :
        latest[o] = op /\ active[o] ~>
            op \in delivered[o] \/ latest[o] # op \/ ~active[o]

\* A blocked callback aside, every closed subscription's worker exits, so a
\* Shutdown that is retried after its deadline returns.
WorkerExits == \A o \in Observers : sub[o] = "closing" ~> worker[o] = "exit"

\* What the comment on ObserveTerminal says callbacks are for: terminal
\* states, never the absence of one.
CallbackHasOperation == \A o \in Observers : Nil \notin delivered[o]

\* The inductive invariant of the proofs: how a subscription, its worker and
\* its channel go together.
ObserverInv ==
    \A o \in Observers :
        /\ active[o] <=> sub[o] = "live"
        /\ worker[o] = "none" <=> sub[o] = "none"
        /\ pending[o] # Nil => active[o] /\ (wakeup[o] \/ worker[o] = "lock")
        /\ sub[o] = "closed" /\ worker[o] \in {"receive", "call", "callback"} => wakeup[o]
        /\ waiting[o] # "no" => sub[o] = "closed"
        /\ waiting[o] = "returned" => worker[o] = "exit"

IInv == TypeOK /\ ObserverInv
=============================================================================

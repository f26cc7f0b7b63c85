----------------------- MODULE TerminalObserver_proofs -----------------------
(***************************************************************************)
(* Proofs about TerminalObserver for any number of subscriptions and       *)
(* operations.                                                             *)
(***************************************************************************)
EXTENDS TerminalObserver, TLAPS

\* The first state satisfies the invariant.
LEMMA InitInv == Init => IInv
  BY DEF Init, IInv, TypeOK, ObserverInv, MaybeOperation

\* Every step keeps the types.
LEMMA StepTyped == TypeOK /\ [Next]_vars => TypeOK'
<1> SUFFICES ASSUME TypeOK, [Next]_vars PROVE TypeOK'
  OBVIOUS
<1> USE DEF TypeOK, MaybeOperation
<1>1. ASSUME NEW op \in Operations, Publish(op) \/ NotifyTerminal(op) PROVE TypeOK'
  BY <1>1 DEF Publish, NotifyTerminal
<1>2. ASSUME NEW o \in Observers, ObserveTerminal(o) \/ Deactivate(o) \/ Wake(o) PROVE TypeOK'
  BY <1>2 DEF ObserveTerminal, Deactivate, Wake
<1>3. ASSUME NEW o \in Observers, Shutdown(o) \/ ShutdownReturns(o) \/ ShutdownTimesOut(o)
      PROVE  TypeOK'
  BY <1>3 DEF Shutdown, ShutdownReturns, ShutdownTimesOut
<1>4. ASSUME NEW o \in Observers, Receive(o) \/ Take(o) PROVE TypeOK'
  BY <1>4 DEF Receive, Take
<1>5. ASSUME NEW o \in Observers, Invoke(o) \/ Return(o) PROVE TypeOK'
  BY <1>5 DEF Invoke, Return
<1>6. CASE UNCHANGED vars
  BY <1>6 DEF vars
<1> QED BY <1>1, <1>2, <1>3, <1>4, <1>5, <1>6 DEF Next

\* Every step keeps subscription, worker and channel together.
LEMMA StepInv == IInv /\ [Next]_vars => IInv'
<1> SUFFICES ASSUME IInv, [Next]_vars PROVE ObserverInv'
  BY StepTyped DEF IInv
<1> USE DEF IInv, TypeOK, ObserverInv
<1>1. ASSUME NEW op \in Operations, Publish(op) PROVE ObserverInv'
  BY <1>1 DEF Publish
<1>2. ASSUME NEW op \in Operations, NotifyTerminal(op) PROVE ObserverInv'
  BY <1>2 DEF NotifyTerminal
<1>3. ASSUME NEW o \in Observers, ObserveTerminal(o) PROVE ObserverInv'
  BY <1>3 DEF ObserveTerminal
<1>4. ASSUME NEW o \in Observers, Deactivate(o) PROVE ObserverInv'
  BY <1>4 DEF Deactivate
<1>5. ASSUME NEW o \in Observers, Wake(o) PROVE ObserverInv'
  BY <1>5 DEF Wake
<1>6. ASSUME NEW o \in Observers, Shutdown(o) \/ ShutdownReturns(o) \/ ShutdownTimesOut(o)
      PROVE  ObserverInv'
  BY <1>6 DEF Shutdown, ShutdownReturns, ShutdownTimesOut
<1>7. ASSUME NEW o \in Observers, Receive(o) PROVE ObserverInv'
  BY <1>7 DEF Receive
<1>8. ASSUME NEW o \in Observers, Take(o) PROVE ObserverInv'
  BY <1>8 DEF Take
<1>9. ASSUME NEW o \in Observers, Invoke(o) \/ Return(o) PROVE ObserverInv'
  BY <1>9 DEF Invoke, Return
<1>10. CASE UNCHANGED vars
  BY <1>10 DEF vars
<1> QED BY <1>1, <1>2, <1>3, <1>4, <1>5, <1>6, <1>7, <1>8, <1>9, <1>10 DEF Next

\* The inductive invariant holds in every reachable state.
THEOREM Invariance == Spec => []IInv
  BY InitInv, StepInv, PTL DEF Spec

\* No notification and no unsubscription leaves a worker asleep.
THEOREM NoLostWakeupHolds == Spec => []NoLostWakeup
<1>1. IInv => NoLostWakeup
  BY DEF IInv, ObserverInv, NoLostWakeup
<1> QED BY <1>1, Invariance, PTL

\* A subscription whose Shutdown returned is quiet for good.
THEOREM QuietAfterShutdownHolds == Spec => QuietAfterShutdown
<1>1. IInv /\ [Next]_vars =>
        [\A o \in Observers : waiting[o] = "returned" =>
            worker'[o] = "exit" /\ delivered'[o] = delivered[o]]_vars
  <2> SUFFICES ASSUME IInv, Next, NEW o \in Observers, waiting[o] = "returned"
               PROVE  worker'[o] = "exit" /\ delivered'[o] = delivered[o]
    OBVIOUS
  <2> USE DEF IInv, TypeOK, ObserverInv
  <2>1. worker[o] = "exit"
    OBVIOUS
  <2>2. ASSUME NEW p \in Observers, ObserveTerminal(p) \/ Deactivate(p) \/ Wake(p)
                 \/ Shutdown(p) \/ ShutdownReturns(p) \/ ShutdownTimesOut(p)
        PROVE  worker'[o] = "exit" /\ delivered'[o] = delivered[o]
    BY <2>1, <2>2 DEF ObserveTerminal, Deactivate, Wake, Shutdown, ShutdownReturns,
                      ShutdownTimesOut
  <2>3. ASSUME NEW p \in Observers, Receive(p) \/ Take(p) \/ Invoke(p) \/ Return(p)
        PROVE  worker'[o] = "exit" /\ delivered'[o] = delivered[o]
    BY <2>1, <2>3 DEF Receive, Take, Invoke, Return
  <2>4. ASSUME NEW op \in Operations, Publish(op) \/ NotifyTerminal(op)
        PROVE  worker'[o] = "exit" /\ delivered'[o] = delivered[o]
    BY <2>1, <2>4 DEF Publish, NotifyTerminal
  <2> QED BY <2>2, <2>3, <2>4 DEF Next
<1> QED BY <1>1, Invariance, PTL DEF Spec, QuietAfterShutdown
=============================================================================

----------------------------- MODULE Emulators ------------------------------
(***************************************************************************)
(* The emulator containers of pkg/orchestrator/manager.go.  A cold start is *)
(* inspect, create, start and a readiness probe, each a call to Docker that *)
(* may fail.  For the durable emulators (Storage, Pub/Sub) the whole of it  *)
(* runs under emulatorMu; for the others nothing orders two cold starts.    *)
(***************************************************************************)
CONSTANTS
    Durable,    \* the domains isDurableEmulator accepts
    Plain       \* the other domains with an emulator
VARIABLES
    container,  \* domain -> "not_found", "exited" or "running", in Docker
    emulatorMu  \* ServiceManager.emulatorMu is held
emulatorVars == <<container, emulatorMu>>
Domains == Durable \union Plain

EmulatorInit == container = [d \in Domains |-> "not_found"] /\ emulatorMu = FALSE

(* One step of EnsureServiceRunning for domain d.  The other parameters are  *)
(* what the caller does next: start, create or wait for the container, or    *)
(* end with an error (failed).                                               *)
inspectEmulator(d, create, start, ready, failed) ==
    /\ d \in Durable => ~emulatorMu
    /\ UNCHANGED container
    /\ \/ /\ emulatorMu' = (d \in Durable \/ emulatorMu)
          /\ \/ container[d] = "running" /\ ready
             \/ container[d] = "exited" /\ start
             \/ container[d] = "not_found" /\ create
       \/ UNCHANGED emulatorMu /\ failed

(* In the fault an error leaves emulatorMu held.                             *)
UnlockNever(d) == UNCHANGED emulatorMu
Unlock(d) == emulatorMu' = (emulatorMu /\ d \in Plain)

(* A name conflict is an error, except that a durable emulator accepts the   *)
(* container that won when it is the one it would have created.              *)
createEmulator(d, start, failed) ==
    \/ /\ container[d] = "not_found" \/ d \in Durable
       /\ container' = [container EXCEPT ![d] = IF @ = "not_found" THEN "exited" ELSE @]
       /\ UNCHANGED emulatorMu
       /\ start
    \/ UNCHANGED container /\ Unlock(d) /\ failed

startEmulator(d, ready, failed) ==
    \/ /\ container[d] # "not_found"
       /\ container' = [container EXCEPT ![d] = "running"]
       /\ UNCHANGED emulatorMu
       /\ ready
    \/ UNCHANGED container /\ Unlock(d) /\ failed

emulatorReady(d, done, failed) ==
    /\ UNCHANGED container
    /\ Unlock(d)
    /\ \/ container[d] = "running" /\ done
       \/ failed

(* The dashboard's stop button; no lock is taken.                            *)
StopServiceContainer(d) ==
    /\ container[d] = "running"
    /\ container' = [container EXCEPT ![d] = "exited"]
    /\ UNCHANGED emulatorMu

(* Teardown removes the owned containers it can.                             *)
Teardown ==
    \E S \in SUBSET Domains :
        container' = [d \in Domains |-> IF d \in S THEN "not_found" ELSE container[d]]
=============================================================================

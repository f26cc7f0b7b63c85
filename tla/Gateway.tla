------------------------------ MODULE Gateway -------------------------------
(***************************************************************************)
(* The path of a request through the gateway: the audit wrapper             *)
(* (pkg/security/audit.go), the checks of ProxyRouter.ServeHTTP             *)
(* (pkg/router/proxy.go), the quota limiter, the cold start of a lazily     *)
(* started emulator and the dispatch to the route's handler.                *)
(***************************************************************************)
EXTENDS AuditLog, QuotaLimiter, Emulators
CONSTANTS
    strict,       \* --audit-strict, BOOLEAN
    Handlers,     \* the goroutines that serve requests
    Shims,        \* the domains with an internal handler
    Targets,      \* [domain, route, project, mutation]: what requests ask for
    MaxRequests,  \* bound on the requests that arrive
    MaxStops,     \* bound on the containers stopped from the dashboard
    MaxRestarts   \* bound on crashes and shutdowns
ASSUME GatewayAssumption ==
    strict \in BOOLEAN /\ \A target \in Targets : target.mutation \in BOOLEAN
VARIABLES
    routes,       \* ProxyRouter.routes: the domains with a handler
    request,      \* handler -> the request it serves, or Free
    arrived,      \* how many requests have arrived
    dispatched,   \* history: the mutations that reached their handler
    stops, restarts
gatewayVars == <<routes, request, arrived, dispatched, stops, restarts>>
allVars == <<auditVars, quotaVars, emulatorVars, gatewayVars>>

Free == [step |-> "free", id |-> 0, target |-> None, time |-> 0]
Goto(h, s) == request' = [request EXCEPT ![h].step = s]
At(h, s) == request[h].step = s
Id(h) == request[h].id
Domain(h) == request[h].target.domain
Keys(h) == matched(Domain(h), request[h].target.route, request[h].target.project)

GatewayInit ==
    /\ AuditInit /\ QuotaInit /\ EmulatorInit
    /\ routes = Shims \union Durable
    /\ request = [h \in Handlers |-> Free]
    /\ arrived = 0 /\ dispatched = {}
    /\ stops = 0 /\ restarts = 0

(* A strict daemon whose audit log does not verify does not start.           *)
Running == opened \/ ~strict
Audited(h) == request[h].target.mutation /\ opened

(* AuditLog.Wrap: a mutation is recorded before it is dispatched when the    *)
(* audit is strict, and once it is answered in any case.                     *)
Arrive(h) ==
    /\ At(h, "free") /\ Running /\ arrived < MaxRequests
    /\ \E target \in Targets :
          request' = [request EXCEPT ![h] =
              [step |-> IF target.mutation /\ opened /\ strict THEN "attempt" ELSE "check",
               id |-> arrived + 1, target |-> target, time |-> 0]]
    /\ arrived' = arrived + 1
    /\ UNCHANGED <<auditVars, quotaVars, emulatorVars, routes, dispatched, stops, restarts>>

AuditMuFree == \A g \in Handlers : request[g].step \notin {"attempted", "completed"}

Record(h, phase, ok, failed) ==
    /\ AuditMuFree
    /\ append(<<Id(h), phase>>, ok, failed)
    /\ UNCHANGED <<checkpoint, opened, quotaVars, emulatorVars, routes, arrived, dispatched, stops, restarts>>
Checkpoint(h, ok, failed) ==
    /\ writeCheckpoint(ok, failed)
    /\ UNCHANGED <<records, synced, sequence, lastHash, opened, quotaVars, emulatorVars, routes, arrived, dispatched, stops, restarts>>
Gone(h) == request' = [request EXCEPT ![h] = Free]

(* In the fault an attempt that cannot be recorded is let through.           *)
AttemptAnyway(h) == At(h, "attempt") /\ Record(h, "attempt", Goto(h, "attempted"), Goto(h, "check"))
Attempt(h) == At(h, "attempt") /\ Record(h, "attempt", Goto(h, "attempted"), Gone(h))
Attempted(h) == At(h, "attempted") /\ Checkpoint(h, Goto(h, "check"), Gone(h))
Complete(h) == At(h, "complete") /\ Record(h, "complete", Goto(h, "completed"), Gone(h))
Completed(h) == At(h, "completed") /\ Checkpoint(h, Gone(h), Gone(h))

(* The answer is written; what is left is the audit's "complete" record.     *)
Answer(h) == IF Audited(h) THEN Goto(h, "complete") ELSE Gone(h)

(* The checks before the quota: experimental gates, body limit, schema,      *)
(* authorization, project and service perimeter.  Each may refuse.           *)
authorizeRequest(h) ==
    /\ At(h, "check")
    /\ Goto(h, "clock") \/ Answer(h)
    /\ UNCHANGED <<auditVars, quotaVars, emulatorVars, routes, arrived, dispatched, stops, restarts>>

(* Allow reads the clock, then takes the limiter's mutex.                    *)
readClock(h) ==
    /\ At(h, "clock")
    /\ request' = [request EXCEPT ![h].step = "quota", ![h].time = now]
    /\ UNCHANGED <<auditVars, quotaVars, emulatorVars, routes, arrived, dispatched, stops, restarts>>

(* A completed BigQuery upload is answered from its durable replay here.     *)
checkQuota(h) ==
    /\ At(h, "quota")
    /\ Allow(Keys(h), request[h].time,
             /\ \/ Goto(h, IF Domain(h) \in Plain THEN "inspect" ELSE "dispatch")
                \/ Domain(h) \in Shims /\ Answer(h)
             /\ Pass(Keys(h), request[h].time),
             Answer(h) /\ UNCHANGED passed)
    /\ UNCHANGED <<now, auditVars, emulatorVars, routes, arrived, dispatched, stops, restarts>>

(* ServiceManager.EnsureServiceRunning, called by the router for a lazy      *)
(* domain and by the Storage and Pub/Sub handlers for theirs.  A failed cold *)
(* start of a lazy domain also removes the domain's route.                   *)
coldStartFailed(h) ==
    /\ Answer(h)
    /\ routes' = routes \ ({Domain(h)} \cap Plain)
EnsureServiceRunning(h) ==
    LET next(s) == Goto(h, s) /\ UNCHANGED routes
        done == next(IF Domain(h) \in Plain THEN "wire" ELSE "serve")
    IN  /\ \/ /\ At(h, "inspect")
              /\ inspectEmulator(Domain(h), next("create"), next("start"), next("ready"), coldStartFailed(h))
           \/ At(h, "create") /\ createEmulator(Domain(h), next("start"), coldStartFailed(h))
           \/ At(h, "start") /\ startEmulator(Domain(h), next("ready"), coldStartFailed(h))
           \/ At(h, "ready") /\ emulatorReady(Domain(h), done, coldStartFailed(h))
        /\ UNCHANGED <<auditVars, quotaVars, arrived, dispatched, stops, restarts>>

wireRoute(h) ==
    /\ At(h, "wire")
    /\ routes' = routes \union {Domain(h)}
    /\ Goto(h, "dispatch")
    /\ UNCHANGED <<auditVars, quotaVars, emulatorVars, arrived, dispatched, stops, restarts>>

(* The route is looked up again: it may have been removed since.             *)
dispatch(h) ==
    /\ At(h, "dispatch")
    /\ IF Domain(h) \in routes
       THEN /\ Goto(h, IF Domain(h) \in Durable THEN "inspect" ELSE "serve")
            /\ dispatched' = IF Audited(h) THEN dispatched \union {Id(h)} ELSE dispatched
       ELSE /\ Answer(h)
            /\ UNCHANGED dispatched
    /\ UNCHANGED <<auditVars, quotaVars, emulatorVars, routes, arrived, stops, restarts>>
serve(h) ==
    /\ At(h, "serve")
    /\ Answer(h)
    /\ UNCHANGED <<auditVars, quotaVars, emulatorVars, routes, arrived, dispatched, stops, restarts>>

Step(h) ==
    \/ Attempt(h) \/ Attempted(h) \/ Complete(h) \/ Completed(h)
    \/ authorizeRequest(h) \/ readClock(h) \/ checkQuota(h)
    \/ EnsureServiceRunning(h) \/ wireRoute(h) \/ dispatch(h) \/ serve(h)

Clock == Tick /\ UNCHANGED <<auditVars, emulatorVars, gatewayVars>>

stopService ==
    /\ stops < MaxStops
    /\ stops' = stops + 1
    /\ \E d \in Domains : StopServiceContainer(d)
    /\ UNCHANGED <<auditVars, quotaVars, routes, request, arrived, dispatched, restarts>>

(* The process ends, by a crash or by a shutdown that tears the containers   *)
(* down, and starts again: everything but files and containers is new.       *)
Restart ==
    /\ restarts < MaxRestarts
    /\ restarts' = restarts + 1
    /\ Teardown \/ UNCHANGED container
    /\ emulatorMu' = FALSE
    /\ OpenAuditLog
    /\ buckets' = <<>> /\ passed' = <<>>
    /\ routes' = Shims \union Durable
    /\ request' = [h \in Handlers |-> Free]
    /\ UNCHANGED <<now, arrived, dispatched, stops>>

Next == (\E h \in Handlers : Arrive(h) \/ Step(h)) \/ Clock \/ stopService \/ Restart
Spec == GatewayInit /\ [][Next]_allVars
FairSpec == Spec /\ \A h \in Handlers : WF_allVars(Step(h))

(* audit.go:148: with the strict audit every mutation that reached its       *)
(* handler has its "attempt" record in the log file, also after a crash, a   *)
(* failed write of another request's record or a failed checkpoint.          *)
AttemptsPrecede ==
    strict => \A n \in dispatched :
                 \E i \in DOMAIN records : records[i].id = <<n, "attempt">>

(* audit.go:227: as long as the daemon reports no audit error, verifying the *)
(* log while no record is being written succeeds.                            *)
HealthyChainVerifies ==
    opened /\ ~persistenceErr /\ AuditMuFree => verifyAuditPath(records, checkpoint)

(* Every request that arrived is answered: no cold start, quota or audit     *)
(* mutex holds one back for ever.                                            *)
EveryRequestAnswered == \A h \in Handlers : ~At(h, "free") ~> At(h, "free")
=============================================================================

------------------------- MODULE ServiceNetworking --------------------------
(* Shims that keep names, gateways, meshes and zones. Each section is one    *)
(* shim with a next-state relation of its own; the sections share no state.  *)
EXTENDS ShimState

CONSTANTS
    MaxZones,
    MaxChanges   \* bounds on the numbers given out

-----------------------------------------------------------------------------
(* pkg/shims/servicedirectory: namespaces, their services, their endpoints.  *)

Namespaces == {<<"namespace", None, i>> : i \in Ids}
Services == {<<"service", n, i>> : n \in Namespaces, i \in SubIds}
Endpoints == {<<"endpoint", s, i>> : s \in Services, i \in SubIds}

createNamespace(h) == \E n \in Namespaces, b \in Bodies : Create(h, n, b)
patchNamespace(h) == \E n \in Namespaces, b \in Bodies : Update(h, n, b)
deleteNamespace(h) == \E n \in Namespaces : Under(n, mem) = {} /\ Delete(h, n)

(* In the fault the namespace of a new service is not looked up.             *)
createServiceAnywhere(h) == \E s \in Services, b \in Bodies : Create(h, s, b)
createService(h) == \E s \in Services, b \in Bodies : s[2] \in Live /\ Create(h, s, b)
patchService(h) == \E s \in Services, b \in Bodies : Update(h, s, b)
deleteService(h) == \E s \in Services : Under(s, mem) = {} /\ Delete(h, s)

createEndpoint(h) == \E e \in Endpoints, b \in Bodies : e[2] \in Live /\ Create(h, e, b)
patchEndpoint(h) == \E e \in Endpoints, b \in Bodies : Update(h, e, b)
deleteEndpoint(h) == \E e \in Endpoints : Delete(h, e)

servicedirectory_loadState == StartWith(disk, "unread")

servicedirectory_persistState(h) == SaveOk(h) \/ SaveFails(h)

ServiceDirectoryNext ==
    \/ \E h \in Handlers :
          \/ createNamespace(h) \/ patchNamespace(h) \/ deleteNamespace(h)
          \/ createService(h) \/ patchService(h) \/ deleteService(h)
          \/ createEndpoint(h) \/ patchEndpoint(h) \/ deleteEndpoint(h)
    \/ \E h \in Handlers : servicedirectory_persistState(h) \/ Rollback(h)
    \/ servicedirectory_loadState

validateServiceDirectoryMetadata(doc) ==
    \A n \in Of("service", doc) \union Of("endpoint", doc) : n[2] \in DOMAIN doc

-----------------------------------------------------------------------------
(* pkg/shims/servicemesh: meshes and HTTP routes.  A route may name meshes    *)
(* that do not exist, so that the two kinds are independent here.            *)

Meshes == {<<"mesh", None, i>> : i \in Ids}
HttpRoutes == {<<"route", None, i>> : i \in Ids}

Creation == <<Register(Revert), Save(Revert)>>

createMesh(h) ==
    \E n \in Meshes \ Live, b \in Bodies : Handle(h, Put(mem, n, b), {n}, Creation)
(* A save that fails leaves the patched mesh in memory.                       *)
patchMesh(h) ==
    \E n \in Meshes \cap Live, b \in Bodies :
        Handle(h, Put(mem, n, b), {n}, <<Save(Keep), Register(Keep)>>)
deleteMesh(h) ==
    \E n \in Meshes \cap Live : Handle(h, Drop(mem, {n}), {n}, <<Save(Revert), Register(Keep)>>)

createHttpRoute(h) ==
    \E n \in HttpRoutes \ Live, b \in Bodies : Handle(h, Put(mem, n, b), {n}, Creation)
patchHttpRoute(h) ==
    \E n \in HttpRoutes \cap Live, b \in Bodies :
        Handle(h, Put(mem, n, b), {n}, <<Save(Revert), Register(Compensate)>>)
deleteHttpRoute(h) ==
    \E n \in HttpRoutes \cap Live :
        Handle(h, Drop(mem, {n}), {n}, <<Save(Revert), Register(Keep)>>)

servicemesh_loadState == StartWith(disk, "unread")

ServiceMeshNext ==
    \/ \E h \in Handlers :
          \/ createMesh(h) \/ patchMesh(h) \/ deleteMesh(h)
          \/ createHttpRoute(h) \/ patchHttpRoute(h) \/ deleteHttpRoute(h)
    \/ ShimStep \/ OperationStep \/ servicemesh_loadState

-----------------------------------------------------------------------------
(* pkg/shims/apigateway: APIs, their configs, and gateways that serve one    *)
(* config.  A gateway's value is the config it names.                        *)

Apis == {<<"api", None, i>> : i \in Ids}
ApiGatewayConfigs == {<<"config", a, i>> : a \in Apis, i \in SubIds}
Gateways == {<<"gateway", None, i>> : i \in SubIds}

(* finishMutation.  The operations of creations finish later, outside the    *)
(* request, whatever happens to them.                                        *)
finishMutation(h, doc, S, async) ==
    Handle(h, doc, S, IF async THEN <<Register(Revert), Save(Compensate)>> ELSE FinishMutation)

createApi(h) ==
    \E n \in Apis \ Live, b \in Bodies : finishMutation(h, Put(mem, n, b), {n}, TRUE)
patchApi(h) ==
    \E n \in Apis \cap Live, b \in Bodies : finishMutation(h, Put(mem, n, b), {n}, FALSE)
deleteApi(h) ==
    \E n \in Apis \cap Live : Under(n, mem) = {} /\ finishMutation(h, Drop(mem, {n}), {n}, FALSE)

createGateway(h) ==
    \E n \in Gateways \ Live, c \in ApiGatewayConfigs \cap Live : finishMutation(h, Put(mem, n, c), {n}, TRUE)
patchGateway(h) ==
    \E n \in Gateways \cap Live, c \in ApiGatewayConfigs : finishMutation(h, Put(mem, n, c), {n}, FALSE)
deleteGateway(h) ==
    \E n \in Gateways \cap Live : finishMutation(h, Drop(mem, {n}), {n}, FALSE)

createConfig(h) ==
    \E n \in ApiGatewayConfigs \ Live, b \in Bodies : n[2] \in Live /\ CommitLocked(h, Put(mem, n, b), {n})
deleteConfig(h) ==
    \E n \in ApiGatewayConfigs \cap Live :
        (\A g \in Of("gateway", mem) : mem[g] # n) /\ CommitLocked(h, Drop(mem, {n}), {n})

apigateway_loadState == StartWith(disk, "unread")

apigateway_persistState(h) == SaveOk(h) \/ SaveFails(h)

ApiGatewayNext ==
    \/ \E h \in Handlers :
          \/ createApi(h) \/ patchApi(h) \/ deleteApi(h)
          \/ createGateway(h) \/ patchGateway(h) \/ deleteGateway(h)
          \/ createConfig(h) \/ deleteConfig(h)
    \/ \E h \in Handlers : apigateway_persistState(h) \/ Rollback(h)
    \/ OperationStep \/ apigateway_loadState

-----------------------------------------------------------------------------
(* pkg/shims/cloudendpoints: the configs and rollouts of a service, and the  *)
(* operations its clients check and report.  The value of a rollout is the   *)
(* config it promotes; of an operation, its consumer and whether it was      *)
(* reported.                                                                 *)

CloudEndpointsConfigs == {<<"config", s, i>> : s \in Ids, i \in SubIds}
Rollouts == {<<"rollout", s, i>> : s \in Ids, i \in SubIds}
Operations == {<<"operation", s, i>> : s \in Ids, i \in SubIds}

routeConfigs(h) ==
    \E n \in CloudEndpointsConfigs \ Live, b \in Bodies : CommitLocked(h, Put(mem, n, b), {n})
routeRollouts(h) ==
    \E n \in Rollouts \ Live, c \in CloudEndpointsConfigs \cap Live :
        c[2] = n[2] /\ CommitLocked(h, Put(mem, n, c), {n})

(* Rollouts are never removed, so that the answer outlives the lock.         *)
activeRollout(service) == \E r \in Of("rollout", mem) : r[2] = service

check(h) ==
    \E n \in Operations, consumer \in Bodies :
        /\ activeRollout(n[2])
        /\ n \in Live => mem[n].consumer = consumer
        /\ CommitLocked(h, Put(mem, n, [consumer |-> consumer, reported |-> FALSE]), {n})

report(h) ==
    \E S \in SUBSET (Operations \cap Live) :
        /\ S # {} /\ \A n \in S : activeRollout(n[2])
        /\ CommitLocked(h, [n \in Live |-> IF n \in S THEN [mem[n] EXCEPT !.reported = TRUE]
                                           ELSE mem[n]], S)

cloudendpoints_loadState == StartWith(disk, "unread")

saveSnapshot(h) == SaveOk(h) \/ SaveFails(h)

CloudEndpointsNext ==
    \/ \E h \in Handlers : routeConfigs(h) \/ routeRollouts(h) \/ check(h) \/ report(h)
    \/ \E h \in Handlers : saveSnapshot(h) \/ Rollback(h)
    \/ cloudendpoints_loadState

validateCloudEndpointsMetadata(doc) ==
    \A r \in Of("rollout", doc) : doc[r] \in DOMAIN doc /\ doc[r][2] = r[2]

-----------------------------------------------------------------------------
(* pkg/shims/dns: managed zones, their record sets and their changes.        *)
(* mutationMu is held for a whole request; a failed save puts all the maps   *)
(* and counters back.  The store is not guarded.                             *)

Zones == {<<"zone", None, i>> : i \in Ids}
System(z) == {<<"rrset", z, "SOA">>, <<"rrset", z, "NS">>}
rrKey(z, k) == <<"rrset", z, k>>
zoneSeq == <<"next", None, "zone">>
changeSeq(z) == <<"next", z, "change">>
Numbered(z, k) == <<"change", z, k>>
Issued(c) == IF c \in Live THEN mem[c] ELSE 0

(* The zone, its SOA and NS records and the number it was given.             *)
Made(z) == {z, zoneSeq} \union System(z)
withZone(z, b) ==
    [n \in Live \union Made(z) |->
        CASE n = zoneSeq -> Issued(zoneSeq) + 1
          [] n = z -> b
          [] n \in System(z) -> "system"
          [] OTHER -> mem[n]]
createZone(h) ==
    \E z \in Zones \ Live, b \in Bodies :
        Issued(zoneSeq) < MaxZones /\ Commit(h, withZone(z, b), Made(z))
patchZone(h) == \E z \in Zones, b \in Bodies : Update(h, z, b)
(* A zone is deleted only when nothing but SOA and NS records is left; its   *)
(* changes and their counter go with it.                                     *)
deleteZone(h) ==
    \E z \in Zones : Of("rrset", mem) \cap Under(z, mem) \subseteq System(z) /\ DeleteAll(h, z, Under(z, mem))

createRRSet(h) ==
    \E z \in Zones \cap Live, k \in SubIds, b \in Bodies : Create(h, rrKey(z, k), b)
putRRSet(h) ==
    \E z \in Zones \cap Live, k \in SubIds, b \in Bodies : Commit(h, Put(mem, rrKey(z, k), b), {rrKey(z, k)})
(* Also the SOA and the NS records.                                          *)
deleteRRSet(h) == \E n \in Of("rrset", mem) : Delete(h, n)

(* A change applies all of its deletions, which must all be there, and then  *)
(* its additions, and is recorded under the next number of the zone.         *)
Additions(z, A) == {rrKey(z, a) : a \in A}
Recorded(z) == {changeSeq(z), Numbered(z, Issued(changeSeq(z)) + 1)}
withChange(z, A, D, b) ==
    [n \in (Live \ D) \union Additions(z, A) \union Recorded(z) |->
        CASE n = changeSeq(z) -> Issued(changeSeq(z)) + 1
          [] n = Numbered(z, Issued(changeSeq(z)) + 1) -> <<A, D>>
          [] n \in Additions(z, A) -> b
          [] OTHER -> mem[n]]
createChange(h) ==
    \E z \in Zones \cap Live, A \in SUBSET SubIds, b \in Bodies :
    \E D \in SUBSET (Of("rrset", mem) \cap Under(z, mem)) :
        /\ Issued(changeSeq(z)) < MaxChanges
        /\ Commit(h, withChange(z, A, D, b), Additions(z, A) \union Recorded(z) \union D)

NewAPI == StartWith(disk, "closed")

persistMetadata(h) == SaveOk(h) \/ SaveFails(h)
persistOrRollback(h) == persistMetadata(h) \/ Rollback(h)

DNSNext ==
    \/ \E h \in Handlers :
          \/ createZone(h) \/ patchZone(h) \/ deleteZone(h)
          \/ createRRSet(h) \/ putRRSet(h) \/ deleteRRSet(h) \/ createChange(h)
    \/ \E h \in Handlers : persistOrRollback(h)
    \/ NewAPI

(* The changes of a zone are numbered without a gap and the counter shows    *)
(* the last one, in memory and in the entry: a refused change leaves no hole *)
(* and no restart gives a number out twice.                                  *)
ChangesComplete ==
    \A doc \in {mem, disk} : \A z \in Of("zone", doc) :
        {n[3] : n \in Of("change", doc) \cap Under(z, doc)} =
            1..(IF changeSeq(z) \in DOMAIN doc THEN doc[changeSeq(z)] ELSE 0)
=============================================================================

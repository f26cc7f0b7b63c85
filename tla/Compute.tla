------------------------------ MODULE Compute -------------------------------
(* pkg/shims/compute: networks and instances, firewall rules and load        *)
(* balancing.                                                                *)
EXTENDS ComputeState

CONSTANTS
    MaxId,   \* bound on the random ids of instances
    MaxSubnetworks,   \* bound on the subnetworks ever created
    MaxRules   \* bound on the entries of fwRules

-----------------------------------------------------------------------------
(* pkg/shims/compute: custom networks, the one subnetwork of each, which is a*)
(* Docker bridge, and instances, each a container on the default network or  *)
(* on a bridge.  backend holds the bridges, under the names of the networks, *)
(* and the containers, under the names of the instances.                     *)

Networks == {<<"network", None, i>> : i \in Ids}
Subnetworks == {<<"subnetwork", None, i>> : i \in Ids}
Instances == {<<"instance", None, i>> : i \in SubIds}
nextSubnetworkID == <<"next", None, "subnetwork">>
Next_(doc) == IF nextSubnetworkID \in DOMAIN doc THEN doc[nextSubnetworkID] ELSE 1
Instance(s, net, id, gke) == [status |-> s, subnetwork |-> net, id |-> id, gke |-> gke]
WithStatus(n, s) == [mem[n] EXCEPT !.status = s]
Holding(id) == <<"id", id>>            \* the instance value a handler works with
UsedIds == {mem[n].id : n \in Instances \cap Live} \union {disk[n].id : n \in Instances \cap DOMAIN disk}
           \union {id \in 1..MaxId : \E h \in Handlers : call[h].on = Holding(id)}
FreshId == {i \in 1..MaxId : i \notin UsedIds /\ \A j \in 1..(i - 1) : j \in UsedIds}
Bridge(n, r) == <<"bridge", n, r>>

insertNetwork(h) ==
    \E n \in Networks \ Live :
        LookLocked(h, <<Register(Keep), Apply([m \in {n} |-> "custom"]), Save(Revert)>>)
(* The bridge that an earlier version gave the network goes first, if it can.*)
deleteNetwork(h) ==
    \E n \in Networks \cap Live :
        /\ \A s \in Of("subnetwork", mem) : mem[s].network # n
        /\ \A i \in Of("instance", mem) : mem[i].subnetwork # None => mem[mem[i].subnetwork].network # n
        /\ LookLocked(h, <<Register(Keep), <<"ensure", Keep, n>>, Apply([m \in {n} |-> None]), Save(Revert)>>)
DeleteLegacyVPCNetwork(h) ==
    /\ At(h, "ensure") /\ Len(Head(call[h].todo)) = 3
    /\ Proceed(h) \/ Fail(h)
    /\ UNCHANGED <<mem, disk, degraded, unsaved, backend>>

(* One subnetwork to a network, and no two with overlapping ranges.          *)
insertSubnetwork(h) ==
    \E s \in Subnetworks \ Live, n \in Networks \cap Live, r \in Bodies :
        /\ Next_(mem) <= MaxSubnetworks
        /\ \A t \in Of("subnetwork", mem) : mem[t].network # n /\ mem[t].range # r
        /\ LookLocked(h, <<Register(Keep), <<"ensure", Keep, s, n, r>>>>)
EnsureVPCNetworkIPAM(h) ==
    LET step == Head(call[h].todo)
        s == step[3]
        bridge == Bridge(step[4], step[5])
        id == Next_(mem)
        new == [network |-> step[4], range |-> step[5], id |-> id]
        commit(else) == /\ mem' = Put(Put(mem, s, new), nextSubnetworkID, id + 1)
                        /\ call' = [call EXCEPT ![h].todo = <<Save(else), Finalize(Keep)>>,
                                                ![h].undo = Before({s, nextSubnetworkID})]
    IN  /\ At(h, "ensure") /\ Len(step) = 5
        /\ \/ bridge \in backend /\ UNCHANGED backend /\ commit(<<Undo, Close>>)
           \/ /\ \A b \in backend : b[1] = "bridge" => b[2] # step[4] /\ b[3] # step[5]
              /\ backend' = backend \union {bridge} /\ commit(<<Undo, <<"unbridge", <<Close>>, bridge>>>>)
           \/ backend' \in {backend, backend \union {bridge}} /\ UNCHANGED mem /\ Fail(h)
        /\ UNCHANGED <<disk, degraded, unsaved>>
deleteSubnetwork(h) ==
    \E s \in Subnetworks \cap Live :
        LET bridge == Bridge(mem[s].network, mem[s].range)
        IN  /\ \A i \in Of("instance", mem) : mem[i].subnetwork # s
            /\ LookLocked(h, <<Register(Keep), <<"unbridge", Keep, bridge>>, Apply([m \in {s} |-> None]),
                               Save(<<Undo, <<"rebridge", <<Close>>, bridge>>>>), Finalize(Keep)>>)
DeleteVPCNetworkIPAM(h) ==
    /\ At(h, "unbridge")
    /\ \/ backend' = backend \ {Head(call[h].todo)[3]} /\ Proceed(h)
       \/ UNCHANGED backend /\ Fail(h)
    /\ UNCHANGED <<mem, disk, degraded, unsaved>>
recreateBridge(h) ==
    /\ At(h, "rebridge")
    /\ \/ backend' = backend \union {Head(call[h].todo)[3]} /\ Proceed(h)
       \/ UNCHANGED backend /\ Fail(h)
    /\ UNCHANGED <<mem, disk, degraded, unsaved>>

(* An instance is saved before its operation is registered; the container    *)
(* comes in the background.                                                  *)
resolveInstanceNetworkInterfaces == {None} \union (Subnetworks \cap Live)
insertInstance(h) ==
    \E n \in Instances \ Live, net \in resolveInstanceNetworkInterfaces, id \in FreshId, gke \in BOOLEAN :
        /\ gke => net = None
        /\ MayStart(h) /\ PersistMuFree
        /\ Change(h, Put(mem, n, Instance("PROVISIONING", net, id, gke)), {n}, persistMu,
                  <<Save(Revert), Register(Keep), <<"async", Keep, n, id, gke>>>>)
provisionInstance(h) ==
    LET step == Head(call[h].todo)
        n == step[3]
        status(s) == <<<<"status", Keep, n, s>>, Save(Keep)>>
    IN  /\ At(h, "async")
        /\ call' = [call EXCEPT ![h] =
              [todo |-> status("STAGING") \o (IF step[5] THEN status("RUNNING")
                                             ELSE status("PROVISIONING") \o <<<<"provision", Keep, n, step[4]>>>>),
               undo |-> Before({n}), on |-> Holding(step[4])]]
        /\ UNCHANGED <<mem, disk, degraded, unsaved, backend>>
setStatus(h) ==
    LET n == Head(call[h].todo)[3]
    IN  /\ At(h, "status")
        /\ mem' = IF n \in Live THEN Put(mem, n, WithStatus(n, Head(call[h].todo)[4])) ELSE mem
        /\ Proceed(h)
        /\ UNCHANGED <<disk, degraded, unsaved, backend>>
(* On its bridge, or on the default network; also when the instance has been *)
(* deleted meanwhile.  A container that did not come up is removed, if       *)
(* Docker does it.                                                           *)
ProvisionComputeInstance(h) ==
    LET n == Head(call[h].todo)[3]
        id == Head(call[h].todo)[4]
        net == IF n \in Live THEN mem[n].subnetwork ELSE None
        attached == net # None => net \in Live /\ Bridge(mem[net].network, mem[net].range) \in backend
        running == IF n \in Live THEN Put(mem, n, WithStatus(n, "RUNNING")) ELSE mem
    IN  /\ At(h, "provision")
        /\ \/ /\ attached /\ backend' = backend \union {n} /\ mem' = running
              /\ Follow(h, <<Save(<<<<"confirm", Keep, n, id, Value(running, n), net>>>>)>>)
           \/ /\ backend' \in {backend, backend \union {n}} /\ UNCHANGED mem
              /\ Follow(h, <<<<"rollback", Keep, n, id>>>>)
        /\ UNCHANGED <<disk, degraded, unsaved>>
Same(n, id) == n \in Live /\ mem[n].id = id
rollbackFailedInstanceProvision(h) ==
    LET n == Head(call[h].todo)[3]
        gone == IF Same(n, Head(call[h].todo)[4]) THEN Drop(mem, {n}) ELSE mem
    IN  /\ At(h, "rollback") /\ PersistMuFree
        /\ \/ mem' = gone /\ disk' = gone /\ degraded' = Sticky("no") /\ unsaved' = {}
           \/ UNCHANGED mem /\ disk' \in {disk, gone} /\ degraded' = "closed" /\ UNCHANGED unsaved
        /\ Proceed(h)
        /\ UNCHANGED backend
(* The save of a running instance failed: on disk after all, or the container*)
(* and then the instance are taken back, or, when the container cannot be    *)
(* removed, the save is tried again.                                         *)
reconcileRunningInstanceSaveFailure(h) ==
    LET step == Head(call[h].todo)
        n == step[3]
        gone == IF Same(n, step[4]) THEN Drop(mem, {n}) ELSE mem
        saved(doc) == disk' = doc /\ degraded' = Sticky("no") /\ unsaved' = {}
        closed(doc) == disk' \in {disk, doc} /\ degraded' = "closed" /\ UNCHANGED unsaved
    IN  /\ At(h, "confirm") /\ PersistMuFree
        /\ \/ Value(disk, n) = step[5] /\ UNCHANGED <<mem, disk, degraded, unsaved, backend>>
           \/ backend' = backend \ {n} /\ mem' = gone /\ (saved(gone) \/ closed(gone))
           \/ step[6] # None /\ n \in backend /\ UNCHANGED <<mem, backend>> /\ (saved(mem) \/ closed(mem))
           \/ UNCHANGED <<mem, backend>> /\ closed(disk)
        /\ Proceed(h)

(* start and stop change the status and nothing else.                        *)
instanceAction(h) ==
    \E n \in Instances \cap Live, s \in {"RUNNING", "TERMINATED"} :
        Handle(h, Put(mem, n, WithStatus(n, s)), {n}, <<Save(Keep), Register(Keep)>>)

deleteInstance(h) ==
    \E n \in Instances \cap Live :
        /\ MayStart(h)
        /\ Change(h, Put(mem, n, WithStatus(n, "DELETING")), {n}, Holding(mem[n].id),
                  <<Save(Keep), Register(Keep), <<"remove", Keep, n, mem[n].id>>>>)
DeleteComputeInstance(h) ==
    LET n == Head(call[h].todo)[3]
        id == Head(call[h].todo)[4]
    IN  /\ At(h, "remove")
        /\ \/ /\ backend' = backend \ {n} /\ mem' = Drop(mem, {n})
              /\ Follow(h, <<Save(<<<<"absent", Keep, n>>>>)>>)
           \/ /\ UNCHANGED backend                   \* restoreInstanceAfterDeleteFailure
              /\ mem' = IF Same(n, id) THEN Put(mem, n, WithStatus(n, "RUNNING")) ELSE mem
              /\ Follow(h, <<Save(<<Close>>)>>)
        /\ UNCHANGED <<disk, degraded, unsaved>>
reconcileDeletedInstanceSaveFailure(h) ==
    LET n == Head(call[h].todo)[3]
    IN  /\ At(h, "absent") /\ PersistMuFree
        /\ \/ n \notin DOMAIN disk /\ UNCHANGED <<disk, degraded, unsaved>>
           \/ disk' = mem /\ degraded' \in {Sticky("no"), Sticky("torn")} /\ unsaved' = {}
           \/ disk' \in {disk, mem} /\ degraded' = "closed" /\ UNCHANGED unsaved
        /\ Proceed(h)
        /\ UNCHANGED <<mem, backend>>

validatePersistedSubnetworkGraph(doc) ==
    /\ \A s \in Of("subnetwork", doc) :
          /\ doc[s].network \in DOMAIN doc /\ doc[s].id < Next_(doc)
          /\ \A t \in Of("subnetwork", doc) \ {s} :
                doc[t].network # doc[s].network /\ doc[t].range # doc[s].range /\ doc[t].id # doc[s].id

(* A start makes every bridge exist and asks Docker for every container on a *)
(* bridge.  An unfinished deletion is done when there is no container; any   *)
(* other trouble closes the shim.  Other instances are only metadata.        *)
Custom(n) == disk[n].subnetwork # None
Bridges(doc) == {Bridge(doc[s].network, doc[s].range) : s \in Of("subnetwork", doc)}
ReconcileComputeInstances ==
    LET all == Of("instance", disk)
        deleting == {n \in all : disk[n].status = "DELETING"}
        found == {n \in all : Custom(n) /\ n \in backend}
        restored == [n \in DOMAIN disk \ deleting |->
                        IF n \notin all THEN disk[n]
                        ELSE [disk[n] EXCEPT !.status = IF n \in found THEN "RUNNING" ELSE "METADATA_ONLY"]]
    IN  /\ validatePersistedSubnetworkGraph(disk)
        /\ \A n \in deleting : Custom(n) /\ n \notin backend
        /\ \A n \in all : Custom(n) => disk[n].subnetwork \in DOMAIN disk
        /\ mem' = restored /\ degraded' = "no" /\ backend' = backend \union Bridges(disk)
        /\ IF deleting = {} /\ found = {}
           THEN disk' = disk /\ unsaved' = {n \in all : restored[n] # disk[n]}
           ELSE disk' = restored /\ unsaved' = {}
NewAPI ==
    /\ call' = [h \in Handlers |-> Idle]
    /\ \/ ReconcileComputeInstances
       \/ /\ mem' = Nothing /\ degraded' = "closed" /\ unsaved' = {} /\ UNCHANGED disk
          /\ \E B \in SUBSET Bridges(disk) : backend' = backend \union B

ComputeEngineNext ==
    \/ \E h \in Handlers :
          \/ insertNetwork(h) \/ deleteNetwork(h) \/ DeleteLegacyVPCNetwork(h)
          \/ insertSubnetwork(h) \/ EnsureVPCNetworkIPAM(h)
          \/ deleteSubnetwork(h) \/ DeleteVPCNetworkIPAM(h) \/ recreateBridge(h)
          \/ insertInstance(h) \/ provisionInstance(h) \/ setStatus(h) \/ ProvisionComputeInstance(h)
          \/ rollbackFailedInstanceProvision(h) \/ reconcileRunningInstanceSaveFailure(h)
          \/ instanceAction(h) \/ deleteInstance(h) \/ DeleteComputeInstance(h)
          \/ reconcileDeletedInstanceSaveFailure(h) \/ ApplyChange(h)
    \/ ComputeStep \/ NewAPI

(* A subnetwork has its network and an instance its subnetwork, in memory    *)
(* and on disk, whichever of the three are created and deleted at the same   *)
(* time.                                                                     *)
ComputeEngineNoOrphans ==
    \A doc \in {mem, disk} :
        /\ \A s \in Of("subnetwork", doc) : doc[s].network \in DOMAIN doc
        /\ \A i \in Of("instance", doc) : doc[i].subnetwork \in DOMAIN doc \union {None}
(* A subnetwork that is shown has its bridge, unless the shim has closed or  *)
(* somebody is at work on it.                                                *)
SubnetworksHaveBridges ==
    degraded # "closed" /\ PersistMuFree => Bridges(mem) \subseteq backend

-----------------------------------------------------------------------------
(* pkg/shims/compute, firewall rules: saved and published under persistMu,   *)
(* entered in the service manager's fwRules, and applied to the containers   *)
(* of the network in the background, with a rollback when that fails.        *)
(* backend holds one sequence, fwRules of the network.                       *)

Firewalls == {<<"firewall", None, i>> : i \in Ids}
fwRules == IF backend = {} THEN <<>> ELSE CHOOSE rules \in backend : TRUE
RegisterFirewallRule(rules, n, b) == Append(rules, <<n, b>>)
(* Only the first entry of the name goes.                                    *)
RemoveFirewallRule(rules, n) ==
    LET mine == {i \in DOMAIN rules : rules[i][1] = n}
        first == CHOOSE i \in mine : \A j \in mine : i <= j
    IN  IF mine = {} THEN rules
        ELSE [i \in 1..(Len(rules) - 1) |-> IF i < first THEN rules[i] ELSE rules[i + 1]]

(* What the handlers share: old and new are the values, None for no rule.    *)
firewallOperation(h, n, old, new, remove) ==
    Transaction(h, n, <<Transact(n, new), Publish(n, new), <<"rules", Keep, n, new, remove>>,
                        <<"reapply", Keep, n, old>>, Finalize(<<Close>>)>>)
(* A rule of the same name is replaced, and its entry in fwRules stays.      *)
createFirewall(h) ==
    \E n \in Firewalls, b \in Bodies :
        Len(fwRules) < MaxRules /\ firewallOperation(h, n, Value(mem, n), b, FALSE)
patchFirewall(h) ==
    \E n \in Firewalls \cap Live, b \in Bodies :
        Len(fwRules) <= MaxRules /\ firewallOperation(h, n, mem[n], b, TRUE)
deleteFirewall(h) == \E n \in Firewalls \cap Live : firewallOperation(h, n, mem[n], None, TRUE)
enterRule(h) ==
    LET step == Head(call[h].todo)
        left == IF step[5] THEN RemoveFirewallRule(fwRules, step[3]) ELSE fwRules
    IN  /\ At(h, "rules")
        /\ backend' = {IF step[4] = None THEN left ELSE RegisterFirewallRule(left, step[3], step[4])}
        /\ Proceed(h)
        /\ UNCHANGED <<mem, disk, degraded, unsaved>>

reapplyFirewallToVPC(h) ==
    /\ At(h, "reapply")
    /\ \/ Proceed(h)
       \/ Follow(h, <<[Head(call[h].todo) EXCEPT ![1] = "rollback"]>> \o Tail(call[h].todo))
    /\ UNCHANGED <<mem, disk, degraded, unsaved, backend>>
(* The rule the handler found before its change comes back, whatever has     *)
(* happened to it since; any error closes the shim.                          *)
rollbackFirewallMutation(h) ==
    LET n == Head(call[h].todo)[3]
        old == Head(call[h].todo)[4]
        next == Planned(n, old)
        removed == RemoveFirewallRule(fwRules, n)
    IN  /\ At(h, "rollback") /\ PersistMuFree
        /\ \/ /\ mem' = next /\ disk' = next /\ degraded' \in {Sticky("no"), Sticky("torn"), "closed"}
              /\ unsaved' = {}
              /\ backend' = {IF old = None THEN removed ELSE RegisterFirewallRule(removed, n, old)}
           \/ disk' \in {disk, next} /\ degraded' = "closed" /\ UNCHANGED <<mem, unsaved, backend>>
        /\ Proceed(h)

computefirewall_newAPIWithMetadataStore ==
    /\ call' = [h \in Handlers |-> Idle]
    /\ \/ mem' = disk /\ degraded' = "no"
       \/ mem' = Nothing /\ degraded' = "closed"
    /\ unsaved' = {} /\ backend' = {} /\ UNCHANGED disk

ComputeFirewallNext ==
    \/ \E h \in Handlers :
          \/ createFirewall(h) \/ patchFirewall(h) \/ deleteFirewall(h) \/ enterRule(h)
          \/ reapplyFirewallToVPC(h) \/ rollbackFirewallMutation(h)
    \/ ComputeStep \/ computefirewall_newAPIWithMetadataStore

(* What a request is shown of the firewall rules is what is on disk, or on   *)
(* its way to memory in the handler that holds persistMu, also while         *)
(* rollbacks of earlier changes run in the background.                       *)
RulesAreDurable ==
    degraded # "closed" =>
        \A n \in Firewalls : Value(mem, n) # Value(disk, n) => \E h \in Handlers : Holds(h) /\ n \in Touches(h)

-----------------------------------------------------------------------------
(* pkg/shims/compute: security policies, the resources of load balancers     *)
(* (backend services and URL maps stand for the seven collections), instance *)
(* groups, and the cache of responses, which backend holds.                  *)

Policies == {<<"policy", None, i>> : i \in Ids}
BackendServices == {<<"service", None, i>> : i \in Ids}
UrlMaps == {<<"urlMap", None, i>> : i \in Ids}
Groups == {<<"group", None, i>> : i \in SubIds}

(* Saved, the operation made terminal, and only then published.  When the    *)
(* operation cannot be, the old metadata is saved again, and the shim closes.*)
Committed(h, n, v, after) ==
    Transaction(h, n, <<Transact(n, v), Finalize(<<<<"compensate", Keep>>>>), Publish(n, v)>> \o after)
compensateControlPlaneCommit(h) ==
    /\ At(h, "compensate")
    /\ disk' \in {disk, mem} /\ degraded' = "closed" /\ Proceed(h)
    /\ UNCHANGED <<mem, unsaved, backend>>

(* Cached responses: of which service and policy, with the policy's rules,   *)
(* under which URL map; late is set when the fetch began before an           *)
(* invalidation that covers it.                                              *)
Response(s, p, rules, u) == [service |-> s, policy |-> p, rules |-> rules, urlMap |-> u, late |-> FALSE]
SameKey(e, f) == e.service = f.service /\ e.policy = f.policy /\ e.rules = f.rules
Cached == backend \union {Head(call[g].todo)[3] : g \in {f \in Handlers : At(f, "store")}}
invalidate(h, covered) ==
    /\ backend' = backend \ covered
    /\ call' = [g \in Handlers |->
          IF g = h THEN IF Len(call[h].todo) = 1 THEN Idle ELSE [call[h] EXCEPT !.todo = Tail(@)]
          ELSE IF At(g, "store") /\ Head(call[g].todo)[3] \in covered
               THEN [call[g] EXCEPT !.todo = <<[Head(@) EXCEPT ![3].late = TRUE]>>]
               ELSE call[g]]
    /\ UNCHANGED <<mem, disk, degraded, unsaved>>
invalidateLoadBalancerCacheForPolicy(h) ==
    /\ At(h, "invalidate") /\ Head(call[h].todo)[3] = "policy"
    /\ invalidate(h, {e \in Cached : e.policy = Head(call[h].todo)[4]})
invalidateAllLoadBalancerCache(h) ==
    At(h, "invalidate") /\ Head(call[h].todo)[3] = "all" /\ invalidate(h, Cached)
ForPolicy(p) == <<<<"invalidate", Keep, "policy", p>>>>
All == <<<<"invalidate", Keep, "all">>>>
invalidateLoadBalancerCache(h) ==
    \E u \in UrlMaps \cap Live : Look(h, None, <<Register(Keep), <<"purge", Keep, u>>, Finalize(<<Close>>)>>)
purge(h) ==
    At(h, "purge") /\ invalidate(h, {e \in Cached : e.urlMap = Head(call[h].todo)[3]})

createSecurityPolicy(h) == \E p \in Policies \ Live, b \in Bodies : Committed(h, p, b, <<>>)
updateSecurityPolicy(h) == \E p \in Policies \cap Live, b \in Bodies : Committed(h, p, b, ForPolicy(p))
deleteSecurityPolicy(h) ==
    \E p \in Policies \cap Live :
        (\A s \in Of("service", mem) : mem[s].policy # p) /\ Committed(h, p, None, <<>>)

validateURLMap == BackendServices \cap Live
createLoadBalancerResource(h) ==
    \/ \E s \in BackendServices \ Live, p \in (Policies \cap Live) \union {None} : Committed(h, s, [policy |-> p], All)
    \/ \E u \in UrlMaps \ Live, s \in validateURLMap : Committed(h, u, s, All)
deleteLoadBalancerResource(h) ==
    \E n \in (BackendServices \union UrlMaps) \cap Live : Committed(h, n, None, All)

(* Instance groups change in memory first, and nothing is taken back.        *)
groupChange(h, n, v) ==
    Handle(h, IF v = None THEN Drop(mem, {n}) ELSE Put(mem, n, v), {n}, <<Save(Keep), Register(Keep)>>)
createInstanceGroup(h) == \E n \in Groups \ Live, b \in Bodies : groupChange(h, n, b)
instanceGroupAction(h) == \E n \in Groups \cap Live, b \in Bodies : groupChange(h, n, b)
deleteInstanceGroup(h) == \E n \in Groups \cap Live : groupChange(h, n, None)

(* A request through a forwarding rule: the route and the policy are read,   *)
(* then the cache, then the backend is asked.  A service mesh can send it to *)
(* another service than the URL map's.                                       *)
resolveLoadBalancerBackends(h) ==
    \E u \in UrlMaps \cap Live, s \in BackendServices \cap Live :
        LET p == mem[s].policy
        IN  /\ p # None => p \in Live
            /\ Look(h, None, <<<<"serve", Keep, Response(s, p, IF p = None THEN None ELSE mem[p], u)>>>>)
serveLoadBalancerCache(h) ==
    LET hit == {e \in backend : SameKey(e, Head(call[h].todo)[3])}
        fetch == Follow(h, <<[Head(call[h].todo) EXCEPT ![1] = "store"]>>)
    IN  /\ At(h, "serve")
        /\ \/ hit # {} /\ UNCHANGED backend /\ Proceed(h)
           \/ backend' = backend \ hit /\ fetch           \* nothing, or expired
        /\ UNCHANGED <<mem, disk, degraded, unsaved>>
storeLoadBalancerCache(h) ==
    LET e == Head(call[h].todo)[3]
    IN  /\ At(h, "store")
        /\ \/ ~e.late /\ backend' = {f \in backend : ~SameKey(f, e)} \union {e}
           \/ UNCHANGED backend
        /\ Proceed(h)
        /\ UNCHANGED <<mem, disk, degraded, unsaved>>

validatePersistedSecurityPolicyGraph(doc) ==
    \A s \in Of("service", doc) : doc[s].policy \in DOMAIN doc \union {None}
computeloadbalancer_newAPIWithMetadataStore ==
    /\ call' = [h \in Handlers |-> Idle]
    /\ \/ validatePersistedSecurityPolicyGraph(disk) /\ mem' = disk /\ degraded' = "no"
       \/ mem' = Nothing /\ degraded' = "closed"
    /\ unsaved' = {} /\ backend' = {} /\ UNCHANGED disk

ComputeLoadBalancerNext ==
    \/ \E h \in Handlers :
          \/ createSecurityPolicy(h) \/ updateSecurityPolicy(h) \/ deleteSecurityPolicy(h)
          \/ createLoadBalancerResource(h) \/ deleteLoadBalancerResource(h) \/ compensateControlPlaneCommit(h)
          \/ createInstanceGroup(h) \/ instanceGroupAction(h) \/ deleteInstanceGroup(h)
          \/ invalidateLoadBalancerCache(h) \/ purge(h)
          \/ invalidateLoadBalancerCacheForPolicy(h) \/ invalidateAllLoadBalancerCache(h)
          \/ resolveLoadBalancerBackends(h) \/ serveLoadBalancerCache(h) \/ storeLoadBalancerCache(h)
    \/ ComputeStep \/ computeloadbalancer_newAPIWithMetadataStore

(* A backend service whose policy has gone would let every request through,  *)
(* or none: memory and disk never show one, whichever of the two are created *)
(* and deleted at the same time, and whatever a compensation puts back.      *)
ComputeLoadBalancerNoOrphans ==
    \A doc \in {mem, disk} : \A s \in Of("service", doc) : doc[s].policy \in DOMAIN doc \union {None}
(* A response whose fetch began before an invalidation that covers it is not *)
(* in the cache after it, however late the backend answered.                 *)
NothingLateCached == \A e \in backend : ~e.late
=============================================================================

--------------------------- MODULE AccessPolicies ---------------------------
(* Shims that keep policies and certificates. Each section is one shim with  *)
(* a next-state relation of its own; the sections share no state.            *)
EXTENDS PlannedState

CONSTANTS
    MaxPolicies,   \* bound on the policy counter
    Images   \* images a workload can ask to run

-----------------------------------------------------------------------------
(* pkg/shims/accesscontextmanager: access policies, numbered by a counter,   *)
(* with the service perimeters and access levels inside them.                *)

AccessContextManagerPolicies == {<<"policy", None, i>> : i \in 1..MaxPolicies}
Inside == {<<kind, p, i>> : kind \in {"perimeter", "level"}, p \in AccessContextManagerPolicies, i \in SubIds}
seqNum == <<"next", None, "policy">>
PolicyNumber(doc) == IF seqNum \in DOMAIN doc THEN doc[seqNum] ELSE 0

createAccessPolicy(h) ==
    \E b \in Bodies :
        LET n == <<"policy", None, PolicyNumber(mem) + 1>>
        IN  /\ PolicyNumber(mem) < MaxPolicies
            /\ CommitOperation(h, Put(Put(mem, seqNum, PolicyNumber(mem) + 1), n, b), {n})

patchAccessPolicy(h) ==
    \E n \in AccessContextManagerPolicies \cap Live, b \in Bodies : CommitOperation(h, Put(mem, n, b), {n})

deleteAccessPolicy(h) ==
    \E n \in AccessContextManagerPolicies \cap Live :
        LET S == Under(n, mem) \union {n} IN CommitOperation(h, Drop(mem, S), S)

(* createServicePerimeter and createAccessLevel look for the policy under    *)
(* one lock and insert under the next.                                       *)
createServicePerimeter(h) == \E n \in Inside : n[1] = "perimeter" /\ n[2] \in Live /\ Look(h, n, <<<<"insert", Keep>>>>)
createAccessLevel(h) == \E n \in Inside : n[1] = "level" /\ n[2] \in Live /\ Look(h, n, <<<<"insert", Keep>>>>)

Insert(h) ==
    /\ At(h, "insert")
    /\ LET n == call[h].on
       IN  IF n \in Live
           THEN Follow(h, <<>>) /\ UNCHANGED <<mem, disk, degraded, unsaved, backend>>
           ELSE \E b \in Bodies :
                   Change(h, Put(mem, n, b), {n}, None, FinishMutation)

patchServicePerimeter(h) ==
    \E n \in Inside \cap Live, b \in Bodies : n[1] = "perimeter" /\ CommitOperation(h, Put(mem, n, b), {n})
patchAccessLevel(h) ==
    \E n \in Inside \cap Live, b \in Bodies : n[1] = "level" /\ CommitOperation(h, Put(mem, n, b), {n})
deleteServicePerimeter(h) ==
    \E n \in Inside \cap Live : n[1] = "perimeter" /\ CommitOperation(h, Drop(mem, {n}), {n})
deleteAccessLevel(h) ==
    \E n \in Inside \cap Live : n[1] = "level" /\ CommitOperation(h, Drop(mem, {n}), {n})

accesscontextmanager_loadState == StartWith(disk, "closed")

accesscontextmanager_persistState(h) == SaveOk(h) \/ SaveFails(h)

AccessContextManagerNext ==
    \/ \E h \in Handlers :
          \/ createAccessPolicy(h) \/ patchAccessPolicy(h) \/ deleteAccessPolicy(h)
          \/ createServicePerimeter(h) \/ createAccessLevel(h) \/ Insert(h)
          \/ patchServicePerimeter(h) \/ deleteServicePerimeter(h)
          \/ patchAccessLevel(h) \/ deleteAccessLevel(h)
    \/ \E h \in Handlers : accesscontextmanager_persistState(h) \/ Rollback(h)
    \/ OperationStep \/ accesscontextmanager_loadState

-----------------------------------------------------------------------------
(* pkg/shims/orgpolicy: the policies of projects.                            *)

OrgPolicyPolicies == {<<"policy", None, i>> : i \in Ids}

orgpolicy_createPolicy(h) == \E n \in OrgPolicyPolicies, b \in Bodies : Create(h, n, b)
(* A save that fails leaves the patched policy in memory.                    *)
orgpolicy_patchPolicy(h) ==
    \E n \in OrgPolicyPolicies \cap Live, b \in Bodies : Handle(h, Put(mem, n, b), {n}, <<Save(Keep)>>)
orgpolicy_deletePolicy(h) == \E n \in OrgPolicyPolicies : Delete(h, n)

orgpolicy_loadState == StartWith(disk, "unread")

orgpolicy_persistState(h) == SaveOk(h) \/ SaveFails(h)

OrgPolicyNext ==
    \/ \E h \in Handlers : orgpolicy_createPolicy(h) \/ orgpolicy_patchPolicy(h) \/ orgpolicy_deletePolicy(h)
    \/ \E h \in Handlers : orgpolicy_persistState(h) \/ Rollback(h)
    \/ orgpolicy_loadState

-----------------------------------------------------------------------------
(* pkg/shims/networksecurity: authorization policies.                        *)

NetworkSecurityPolicies == {<<"policy", None, i>> : i \in Ids}

(* The operation of a creation is finished by a goroutine of its own.        *)
networksecurity_finishMutation(h, doc, S, async) ==
    Handle(h, doc, S, IF async THEN <<Register(Revert), Save(Compensate)>> ELSE FinishMutation)

networksecurity_createPolicy(h) ==
    \E n \in NetworkSecurityPolicies \ Live, b \in Bodies : networksecurity_finishMutation(h, Put(mem, n, b), {n}, TRUE)
networksecurity_patchPolicy(h) ==
    \E n \in NetworkSecurityPolicies \cap Live, b \in Bodies : networksecurity_finishMutation(h, Put(mem, n, b), {n}, FALSE)
networksecurity_deletePolicy(h) ==
    \E n \in NetworkSecurityPolicies \cap Live : networksecurity_finishMutation(h, Drop(mem, {n}), {n}, FALSE)

networksecurity_loadState == StartWith(disk, "unread")

networksecurity_persistState(h) == SaveOk(h) \/ SaveFails(h)

NetworkSecurityNext ==
    \/ \E h \in Handlers : networksecurity_createPolicy(h) \/ networksecurity_patchPolicy(h) \/ networksecurity_deletePolicy(h)
    \/ \E h \in Handlers : networksecurity_persistState(h) \/ Rollback(h)
    \/ OperationStep \/ networksecurity_loadState

-----------------------------------------------------------------------------
(* pkg/shims/binaryauthorization: one admission policy per project.          *)

Projects == {<<"policy", None, i>> : i \in Ids}
Rules == [evaluation : {"ALWAYS_ALLOW", "ALWAYS_DENY", "REQUIRE_ATTESTATION"}, dryRun : BOOLEAN]
BinaryAuthorizationPolicies == [whitelist : SUBSET Images, global : BOOLEAN, default : Rules]

SetPolicy(h) ==
    \E n \in Projects, p \in BinaryAuthorizationPolicies :
        LET next == Put(mem, n, p)
        IN  Plan(h, next, {n}, <<<<"copy", Keep, next>>>>)

(* evaluate: the outcome for an image; a cluster has no rule of its own here.*)
evaluate(n, image) ==
    IF degraded = "closed" THEN "UNAVAILABLE"
    ELSE IF n \notin Live THEN "DENY"
    ELSE IF image \in mem[n].whitelist THEN "ALLOW"
    ELSE IF mem[n].global THEN "UNSUPPORTED"
    ELSE IF mem[n].default.evaluation = "ALWAYS_ALLOW" THEN "ALLOW"
    ELSE IF mem[n].default.dryRun THEN "AUDIT"
    ELSE IF mem[n].default.evaluation = "ALWAYS_DENY" THEN "DENY" ELSE "UNSUPPORTED"
EvaluateImage(n, image) == evaluate(n, image) \in {"ALLOW", "AUDIT"}

BinaryAuthorizationNewAPIWithStore == StartWith(disk, "closed")

BinaryAuthorizationNext ==
    \/ \E h \in Handlers : SetPolicy(h)
    \/ CopyStep \/ BinaryAuthorizationNewAPIWithStore

(* An image that runs was admitted by a policy somebody saved: one that is   *)
(* on disk, or was until the write of its successor failed halfway.          *)
AdmittedBySavedPolicy ==
    \A n \in Projects, image \in Images :
        EvaluateImage(n, image) => n \in DOMAIN disk /\ (degraded = "no" => mem[n] = disk[n] \/ ~Settled(n))

-----------------------------------------------------------------------------
(* pkg/shims/privateca: certificates, "valid" or "revoked".                  *)

Certificates == {<<"certificate", None, i>> : i \in Ids}

Issue(h) == \E n \in Certificates : Create(h, n, "valid")
Revoke(h) == \E n \in Certificates : Update(h, n, "revoked")

PrivateCANewAPIWithStore == StartWith(disk, "closed")

persist(h) == SaveOk(h) \/ SaveFails(h)

PrivateCANext ==
    \/ \E h \in Handlers : Issue(h) \/ Revoke(h)
    \/ \E h \in Handlers : persist(h) \/ Rollback(h)
    \/ PrivateCANewAPIWithStore

(* A revocation that was saved is never undone by another request's          *)
(* rollback: no later start finds the certificate valid again.               *)
RevokedForever ==
    \A n \in DOMAIN disk : disk[n] = "revoked" => Value(disk', n) = "revoked"
=============================================================================

------------------------------ MODULE Identity ------------------------------
(* Shims that keep accounts, projects and tenants. Each section is one shim  *)
(* with a next-state relation of its own; the sections share no state.       *)
EXTENDS PlannedState

CONSTANTS
    MaxTenants   \* bound on tenantSeq

-----------------------------------------------------------------------------
(* pkg/shims/iam: service accounts with keys, policies, and the pools and    *)
(* providers of workload identity.  The first three leave a change in memory *)
(* whose save has failed; the last two save a copy before they publish it.   *)
(* All share one entry.                                                      *)

Accounts == {<<"account", None, i>> : i \in Ids}
Keys == {<<"key", a, i>> : a \in Accounts, i \in SubIds}
Policies == {<<"policy", None, i>> : i \in Ids}
Pools == {<<"pool", None, i>> : i \in Ids}
Providers == {<<"provider", p, i>> : p \in Pools, i \in SubIds}

persistOrError == <<Save(Keep)>>
(* An account that exists is replaced, and keeps its keys.                   *)
createServiceAccount(h) ==
    \E n \in Accounts, b \in Bodies : Handle(h, Put(mem, n, b), {n}, persistOrError)
deleteServiceAccount(h) ==
    \E n \in Accounts \cap Live :
        LET S == {n} \union Under(n, mem) IN Handle(h, Drop(mem, S), S, persistOrError)

(* createKey looks for the account, and adds the key afterwards.             *)
createKey(h) == \E a \in Accounts \cap Live : Look(h, a, <<<<"append", Keep>>>>)
appendKey(h) ==
    /\ At(h, "append")
    /\ \E n \in Keys \ Live :
          n[2] = call[h].on /\ Change(h, Put(mem, n, "enabled"), {n}, None, persistOrError)
disableKey(h) ==
    \E n \in Keys \cap Live : Handle(h, Put(mem, n, "disabled"), {n}, persistOrError)
deleteKey(h) == \E n \in Keys \cap Live : Handle(h, Drop(mem, {n}), {n}, persistOrError)

setIamPolicy(h) ==
    \E n \in Policies, b \in Bodies : Handle(h, Put(mem, n, b), {n}, persistOrError)

commitWorkloadIdentityMutation(h, next, S) ==
    Plan(h, next, S, <<Register(Keep), <<"copy", Keep, next>>>>)
createWorkloadIdentityPool(h) ==
    \E n \in Pools \ Live, b \in Bodies : commitWorkloadIdentityMutation(h, Put(mem, n, b), {n})
patchWorkloadIdentityPool(h) ==
    \E n \in Pools \cap Live, b \in Bodies : commitWorkloadIdentityMutation(h, Put(mem, n, b), {n})
(* In the fault the providers of a pool stay.                                *)
deletePoolOnly(h) ==
    \E n \in Pools \cap Live : commitWorkloadIdentityMutation(h, Drop(mem, {n}), {n})
deleteWorkloadIdentityPool(h) ==
    \E n \in Pools \cap Live :
        LET S == {n} \union Under(n, mem) IN commitWorkloadIdentityMutation(h, Drop(mem, S), S)
createWorkloadIdentityProvider(h) ==
    \E n \in Providers \ Live, b \in Bodies :
        n[2] \in Live /\ commitWorkloadIdentityMutation(h, Put(mem, n, b), {n})
patchWorkloadIdentityProvider(h) ==
    \E n \in Providers \cap Live, b \in Bodies : commitWorkloadIdentityMutation(h, Put(mem, n, b), {n})
deleteWorkloadIdentityProvider(h) ==
    \E n \in Providers \cap Live : commitWorkloadIdentityMutation(h, Drop(mem, {n}), {n})

loadMetadata == StartWith(disk, "closed")

IAMNext ==
    \/ \E h \in Handlers :
          \/ createServiceAccount(h) \/ deleteServiceAccount(h)
          \/ createKey(h) \/ appendKey(h) \/ disableKey(h) \/ deleteKey(h)
          \/ setIamPolicy(h)
          \/ createWorkloadIdentityPool(h) \/ patchWorkloadIdentityPool(h) \/ deleteWorkloadIdentityPool(h)
          \/ createWorkloadIdentityProvider(h) \/ patchWorkloadIdentityProvider(h)
          \/ deleteWorkloadIdentityProvider(h)
          \/ SaveOk(h) \/ SaveFails(h)
    \/ CopyStep \/ OperationStep \/ loadMetadata

(* A provider always belongs to a pool that exists, on disk too: nobody is   *)
(* authenticated by a pool that was deleted.                                 *)
ProvidersHavePools ==
    /\ \A n \in Of("provider", mem) : n[2] \in Live
    /\ \A n \in Of("provider", disk) : n[2] \in DOMAIN disk

-----------------------------------------------------------------------------
(* pkg/shims/resourcemanager: organizations, folders and projects, each      *)
(* mapped to its parent (None for the ones at the top).                      *)

Organization == <<"organization", None, "local">>
Folders == {<<"folder", None, i>> : i \in Ids}
Projects == {<<"project", None, i>> : i \in SubIds}
DefaultProject == <<"project", None, "local-dev-project">>

parentExists(p) == p = None \/ (p \in Live /\ p[1] # "project")
Parents == {None, Organization} \union Folders

(* PutFolder takes any existing parent, for a folder that exists too, and    *)
(* leaves the folder in memory when the save fails.                          *)
createFolder(h) ==
    \E n \in Folders, p \in Parents \ {None} :
        parentExists(p) /\ Handle(h, Put(mem, n, p), {n}, <<Save(Keep)>>)
createProject(h) == \E n \in Projects, p \in Parents : parentExists(p) /\ Create(h, n, p)
deleteProject(h) == \E n \in Projects : Delete(h, n)

(* NewAPI: the local organization and project are added and saved when they  *)
(* are missing; when that or the load fails the shim works without a store.  *)
Seed(doc) == Put(Put(doc, DefaultProject, Value(doc, DefaultProject)), Organization, None)
NewAPI ==
    /\ call' = [h \in Handlers |-> Idle]
    /\ unsaved' = {}
    /\ \/ mem' = Seed(disk) /\ disk' = mem' /\ degraded' = "no"
       \/ mem' = Seed(Nothing) /\ disk' \in {disk, Seed(disk)} /\ degraded' = "unstored"
    /\ UNCHANGED backend
persist(h) ==
    /\ At(h, "save") /\ degraded = "unstored"
    /\ Proceed(h)
    /\ UNCHANGED <<mem, disk, degraded, unsaved, backend>>

ResourceManagerNext ==
    \/ \E h \in Handlers : createFolder(h) \/ createProject(h) \/ deleteProject(h) \/ persist(h)
    \/ \E h \in Handlers : degraded # "unstored" /\ (SaveOk(h) \/ SaveFails(h) \/ Rollback(h))
    \/ NewAPI

-----------------------------------------------------------------------------
(* pkg/shims/identityplatform: the project's configuration, tenants with     *)
(* their configuration, and the OAuth providers of a tenant.  A              *)
(* configuration is applied to the Auth emulator before it is recorded; the  *)
(* emulator's own copy is not part of the state here.                        *)

ProjectConfig == <<"projectConfig", None, "config">>
TenantConfig(t) == <<"tenantConfig", None, t>>
OAuthConfigs(t) == {<<"oauthIdpConfig", t, i>> : i \in SubIds}
tenantSeq == <<"next", None, "tenant">>
Issued(doc) == IF tenantSeq \in DOMAIN doc THEN doc[tenantSeq] ELSE 0

(* by: the request whose value it is; an undo only removes its own value.    *)
Given(h, b) == [body |-> b, by |-> h]
UndoOwn == <<"undoOwn", Keep>>
undoOwn(h) ==
    LET own == {n \in Touches(h) : n \in Live /\ mem[n].by = h}
    IN  /\ At(h, "undoOwn")
        /\ mem' = Restore(mem, [n \in own |-> call[h].undo[n]])
        /\ Proceed(h)
        /\ UNCHANGED <<disk, degraded, unsaved, backend>>

createTenant(h) ==
    LET n == <<"tenant", None, Issued(mem) + 1>>
    IN  /\ Issued(mem) < MaxTenants
        /\ \E b \in Bodies : Handle(h, Put(Put(mem, n, Given(h, b)), tenantSeq, n[3]), {n}, <<Save(<<UndoOwn>>)>>)
updateTenant(h) ==
    \E n \in Of("tenant", mem), b \in Bodies :
        Handle(h, Put(mem, n, Given(h, b)), {n}, <<Save(<<UndoOwn>>)>>)
(* The tenant's providers go with it; its configuration stays.               *)
deleteTenant(h) == \E n \in Of("tenant", mem) : DeleteAll(h, n, Under(n, mem))

(* The tenant is looked up first, the provider added afterwards.             *)
createOAuthIdpConfig(h) == \E t \in Of("tenant", mem) : Look(h, t, <<<<"insert", Keep>>>>)
insertOAuthIdpConfig(h) ==
    /\ At(h, "insert")
    /\ \/ \E n \in OAuthConfigs(call[h].on) \ Live, b \in Bodies :
             Change(h, Put(mem, n, Given(h, b)), {n}, None, <<Save(<<UndoOwn>>)>>)
       \/ /\ OAuthConfigs(call[h].on) \cap Live # {}            \* ALREADY_EXISTS
          /\ Follow(h, <<>>)
          /\ UNCHANGED <<mem, disk, degraded, unsaved, backend>>
updateOAuthIdpConfig(h) ==
    \E n \in Of("oauthIdpConfig", mem), b \in Bodies :
        Handle(h, Put(mem, n, Given(h, b)), {n}, <<Save(<<UndoOwn>>)>>)
deleteOAuthIdpConfig(h) == \E n \in Of("oauthIdpConfig", mem) : Delete(h, n)

(* projectConfigMu and tenantConfigMu: one request per kind of configuration.*)
Unlocked(n) == \A g \in Handlers : call[g].on # None => call[g].on[1] # n[1]
reconcileStep == <<"reconcile", Keep>>
initializeProjectConfig(h) ==
    LET n == ProjectConfig
    IN  /\ MayStart(h) /\ Unlocked(n)
        /\ \E b \in Bodies :
              Change(h, Put(mem, n, IF n \in Live THEN mem[n] ELSE Given(h, b)), {n}, n,
                     <<Save(<<reconcileStep>>)>>)
patchConfig(h, n) ==
    /\ MayStart(h) /\ Unlocked(n)
    /\ call' = [call EXCEPT ![h] = [todo |-> <<<<"apply", Keep>>, Save(<<reconcileStep>>)>>,
                                    undo |-> Before({n}), on |-> n]]
    /\ UNCHANGED <<mem, disk, degraded, unsaved, backend>>
patchProjectConfig(h) == patchConfig(h, ProjectConfig)
patchTenantConfig(h) == \E t \in Of("tenant", mem) : patchConfig(h, TenantConfig(t))

(* The emulator refuses the configuration, or it is recorded.                *)
applyConfig(h) ==
    /\ At(h, "apply")
    /\ \/ Fail(h) /\ UNCHANGED mem
       \/ Proceed(h) /\ \E b \in Bodies : mem' = Put(mem, call[h].on, Given(h, b))
    /\ UNCHANGED <<disk, degraded, unsaved, backend>>
(* The failed save is read back: memory takes what is durable, or, when that *)
(* cannot be read, what it was, and the shim answers nothing any more.       *)
reconcileConfig(h) ==
    LET n == call[h].on
    IN  /\ At(h, "reconcile")
        /\ \/ mem' = Restore(mem, [m \in {n} |-> Value(disk, n)]) /\ UNCHANGED degraded
           \/ mem' = Restore(mem, call[h].undo) /\ degraded' = "closed"
        /\ Proceed(h)
        /\ UNCHANGED <<disk, unsaved, backend>>

loadState == StartWith(disk, "closed")

persistState(h) == SaveOk(h) \/ SaveFails(h)

IdentityPlatformNext ==
    \/ \E h \in Handlers :
          \/ createTenant(h) \/ updateTenant(h) \/ deleteTenant(h)
          \/ createOAuthIdpConfig(h) \/ insertOAuthIdpConfig(h)
          \/ updateOAuthIdpConfig(h) \/ deleteOAuthIdpConfig(h)
          \/ initializeProjectConfig(h) \/ patchProjectConfig(h) \/ patchTenantConfig(h)
          \/ applyConfig(h) \/ reconcileConfig(h) \/ undoOwn(h)
    \/ \E h \in Handlers : persistState(h) \/ Rollback(h)
    \/ loadState

validateIdentityPlatformMetadata(doc) ==
    /\ \A t \in Of("tenant", doc) : t[3] <= Issued(doc)
    /\ \A n \in Of("oauthIdpConfig", doc) : n[2] \in DOMAIN doc

(* After every answer to a configuration request memory shows what the next  *)
(* start will find, whatever became of the save.                             *)
ConfigIsDurable ==
    degraded # "closed" =>
        \A n \in Of("projectConfig", mem) \union Of("tenantConfig", mem) :
            Settled(n) => n \in DOMAIN disk /\ mem[n].body = disk[n].body
=============================================================================

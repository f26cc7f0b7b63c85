-------------------------------- MODULE Shims --------------------------------
(*****************************************************************************)
(* The shims behind the gateway.  Each keeps its own entry of the profile's  *)
(* state store and its own containers and shares no state with the others,   *)
(* so that a behaviour of all of them is one behaviour of each: service      *)
(* names the shim whose behaviour it is.                                     *)
(*                                                                           *)
(* The substitutions are what differs between the shims (whether one         *)
(* request is served at a time, whether the store is guarded) and the        *)
(* bounds of each.  A shim without a mutationMu is explored with concurrent  *)
(* requests (Serial <- FALSE) where the state space allows it.  An instance  *)
(* serves every shim of its module that has these bounds.                    *)
(*****************************************************************************)
EXTENDS ShimState, TLC

CONSTANT ServiceNames   \* the shims to explore

VARIABLE service

SD == INSTANCE ServiceNetworking WITH
    Serial <- FALSE, MaxZones <- 2, MaxChanges <- 1
ACM == INSTANCE AccessPolicies WITH
    MaxPolicies <- 1, SubIds <- {"x", "y"}, Images <- Bodies
DF == INSTANCE DataTransfers WITH
    MaxResults <- 2, Ids <- {"a", "b"}, MaxNumber <- 1
CD == INSTANCE Builds WITH
    Ids <- {"a", "b"}, maxPersistedOperationOutcomes <- 1, MaxOperations <- 3
AL == INSTANCE Databases WITH Ids <- {"a", "b"}, MaxOperations <- 2
NS == INSTANCE AccessPolicies WITH
    Serial <- FALSE, Ids <- {"a", "b"}, MaxPolicies <- 1, Images <- Bodies
CE == INSTANCE ServiceNetworking WITH
    Serial <- FALSE, Ids <- {"a", "b"}, MaxZones <- 2, MaxChanges <- 1
CT == INSTANCE Telemetry WITH
    Serial <- FALSE, Ids <- {"a", "b"}, MaxRetained <- 1, MaxEvents <- 2,
    MaxSeries <- 2, MaxCollected <- 3, MaxEntries <- 1, MaxDeliveries <- 2
DLP == INSTANCE AIServices WITH
    Serial <- FALSE, MaxTemplates <- 2, TemplateIds <- {0, 2}, MaxProcessors <- 2,
    MaxOperations <- 1, MaxSeq <- 4, MaxAgents <- 2, maxIndexes <- 1, maxModels <- 1,
    maxStoredOperations <- 3
ST == INSTANCE DataTransfers WITH Serial <- FALSE, MaxNumber <- 1, MaxResults <- 2
BA == INSTANCE DataProcessing WITH MaxJobs <- 1, MaxUuid <- 2
KMS == INSTANCE KeysAndSecrets WITH
    Serial <- FALSE, Guarded <- FALSE, MaxVersions <- 2, Ids <- {"a", "b"}
SEC == INSTANCE KeysAndSecrets WITH
    Serial <- FALSE, Guarded <- FALSE, MaxVersions <- 2, Ids <- {"a", "b"},
    Bodies <- {"p", "q"}
FS == INSTANCE Instances WITH MaxTime <- 5, Ids <- {"a", "b"}
BIN == INSTANCE AccessPolicies WITH
    Serial <- FALSE, Images <- Bodies, MaxPolicies <- 1
RM == INSTANCE Identity WITH Serial <- FALSE, Guarded <- FALSE, MaxTenants <- 1
MON == INSTANCE Telemetry WITH
    Serial <- FALSE, Guarded <- FALSE, MaxSeries <- 2, MaxCollected <- 3,
    Ids <- {"a", "b"}, MaxRetained <- 1, MaxEvents <- 2, MaxEntries <- 1,
    MaxDeliveries <- 2
DOC == INSTANCE AIServices WITH
    MaxProcessors <- 2, MaxOperations <- 1, MaxSeq <- 4, MaxAgents <- 2,
    maxIndexes <- 1, maxModels <- 1, maxStoredOperations <- 3, MaxTemplates <- 2,
    TemplateIds <- {0, 2}
DIA == INSTANCE AIServices WITH
    Serial <- FALSE, MaxAgents <- 2, MaxSeq <- 3, Bodies <- {"p", "q"},
    MaxProcessors <- 2, MaxOperations <- 1, maxIndexes <- 1, maxModels <- 1,
    maxStoredOperations <- 3, MaxTemplates <- 2, TemplateIds <- {0, 2}
IDP == INSTANCE Identity WITH MaxTenants <- 1
LOG == INSTANCE Telemetry WITH
    Serial <- FALSE, Guarded <- FALSE, MaxEntries <- 1, MaxDeliveries <- 2,
    MaxRetained <- 1, MaxEvents <- 2, MaxSeries <- 2, MaxCollected <- 3
AIP == INSTANCE AIServices WITH
    maxIndexes <- 1, maxModels <- 1, maxStoredOperations <- 3, MaxSeq <- 5,
    MaxProcessors <- 2, MaxOperations <- 1, MaxAgents <- 2, MaxTemplates <- 2,
    TemplateIds <- {0, 2}
AE == INSTANCE Serverless WITH Guarded <- FALSE, Ids <- {"a", "b"}
AR == INSTANCE Builds WITH
    Guarded <- FALSE, maxPersistedOperationOutcomes <- 1, MaxOperations <- 3,
    Ids <- {"a", "b"}
BT == INSTANCE Databases WITH
    Guarded <- FALSE, MaxOperations <- 2, Ids <- {"a", "b"}
DFL == INSTANCE DataProcessing WITH
    Serial <- FALSE, Ids <- {"a", "b"}, MaxJobs <- 1, MaxUuid <- 2
CMP == INSTANCE Instances WITH
    Bodies <- {"p", "q"}, Ids <- {"a", "b"}, MaxTime <- 5
DP == INSTANCE DataProcessing WITH
    Guarded <- FALSE, MaxJobs <- 1, MaxUuid <- 2, Ids <- {"a", "b"}
DNS == INSTANCE ServiceNetworking WITH
    Guarded <- FALSE, MaxZones <- 2, MaxChanges <- 1
RED == INSTANCE Databases WITH
    Guarded <- FALSE, Bodies <- {"p", "q"}, Ids <- {"a", "b"}, MaxOperations <- 2
MEM == INSTANCE Databases WITH
    Serial <- FALSE, MaxOperations <- 2, Ids <- {"a", "b"}
COMP == INSTANCE Compute WITH
    Guarded <- FALSE, MaxId <- 1, MaxSubnetworks <- 1, MaxRules <- 1
CFW == INSTANCE Compute WITH
    Serial <- FALSE, Guarded <- FALSE, MaxRules <- 1, Ids <- {"a", "b"}, MaxId <- 1,
    MaxSubnetworks <- 1
CLB == INSTANCE Compute WITH
    Serial <- FALSE, Guarded <- FALSE, MaxId <- 1, MaxSubnetworks <- 1, MaxRules <- 1
BQ == INSTANCE BigQuery WITH
    Guarded <- FALSE, MaxRows <- 2, Ids <- {"a", "b"}, MaxUploadSessions <- 2,
    MaxCompletedSessions <- 2
BQU == INSTANCE BigQuery WITH
    Serial <- FALSE, Guarded <- FALSE, MaxUploadSessions <- 2,
    MaxCompletedSessions <- 2, Bodies <- {"p", "q"}, SubIds <- {"x", "y"},
    MaxRows <- 2
SQL == INSTANCE CloudSQL WITH Guarded <- FALSE
SRV == INSTANCE Serverless WITH Guarded <- FALSE
GKE == INSTANCE GKE WITH Guarded <- FALSE, MaxNonce <- 3
WFL == INSTANCE Workflows WITH MaxRevision <- 2
AE2 == INSTANCE Serverless WITH Serial <- FALSE, Guarded <- FALSE
BA2 == INSTANCE DataProcessing WITH Serial <- FALSE, MaxJobs <- 1, MaxUuid <- 2
CMP2 == INSTANCE Instances WITH Serial <- FALSE, MaxTime <- 5
DP2 == INSTANCE DataProcessing WITH
    Serial <- FALSE, Guarded <- FALSE, MaxJobs <- 1, MaxUuid <- 2
RED2 == INSTANCE Databases WITH
    Serial <- FALSE, Guarded <- FALSE, MaxOperations <- 2

(* The requests in progress are interchangeable.                             *)
Swap == Permutations(Handlers)

Init == ShimInit /\ service \in ServiceNames
ShimNext ==
    \/ service = "servicedirectory" /\ SD!ServiceDirectoryNext
    \/ service = "accesscontextmanager" /\ ACM!AccessContextManagerNext
    \/ service = "apigateway" /\ SD!ApiGatewayNext
    \/ service = "dataform" /\ DF!DataformNext
    \/ service = "servicemesh" /\ SD!ServiceMeshNext
    \/ service = "clouddeploy" /\ CD!CloudDeployNext
    \/ service = "alloydb" /\ AL!AlloyDBNext
    \/ service = "networksecurity" /\ NS!NetworkSecurityNext
    \/ service = "orgpolicy" /\ NS!OrgPolicyNext
    \/ service = "cloudendpoints" /\ CE!CloudEndpointsNext
    \/ service = "cloudtrace" /\ CT!CloudTraceNext
    \/ service = "dlp" /\ DLP!DLPNext
    \/ service = "errorreporting" /\ CT!ErrorReportingNext
    \/ service = "storagetransfer" /\ ST!StorageTransferNext
    \/ service = "batch" /\ BA!BatchNext
    \/ service = "cloudkms" /\ KMS!CloudKMSNext
    \/ service = "secretmanager" /\ SEC!SecretManagerNext
    \/ service = "filestore" /\ FS!FilestoreNext
    \/ service = "binaryauthorization" /\ BIN!BinaryAuthorizationNext
    \/ service = "resourcemanager" /\ RM!ResourceManagerNext
    \/ service = "privateca" /\ NS!PrivateCANext
    \/ service = "monitoring" /\ MON!MonitoringNext
    \/ service = "documentai" /\ DOC!DocumentAINext
    \/ service = "dialogflowcx" /\ DIA!DialogflowCXNext
    \/ service = "iam" /\ RM!IAMNext
    \/ service = "identityplatform" /\ IDP!IdentityPlatformNext
    \/ service = "logging" /\ LOG!LoggingNext
    \/ service = "aiplatform" /\ AIP!AIPlatformNext
    \/ service = "appengine" /\ AE!AppEngineNext
    \/ service = "artifactregistry" /\ AR!ArtifactRegistryNext
    \/ service = "bigtable" /\ BT!BigtableNext
    \/ service = "cloudbuild" /\ CD!CloudBuildNext
    \/ service = "dataflow" /\ DFL!DataflowNext
    \/ service = "composer" /\ CMP!ComposerNext
    \/ service = "dataproc" /\ DP!DataprocNext
    \/ service = "dns" /\ DNS!DNSNext
    \/ service = "managedkafka" /\ FS!ManagedKafkaNext
    \/ service = "redis" /\ RED!RedisNext
    \/ service = "memcache" /\ MEM!MemcacheNext
    \/ service = "compute" /\ COMP!ComputeEngineNext
    \/ service = "firewall" /\ CFW!ComputeFirewallNext
    \/ service = "loadbalancer" /\ CLB!ComputeLoadBalancerNext
    \/ service = "bigquery" /\ BQ!BigQueryNext
    \/ service = "uploads" /\ BQU!BigQueryUploadsNext
    \/ service = "cloudsql" /\ SQL!Next
    \/ service = "serverless" /\ SRV!ServerlessNext
    \/ service = "gke" /\ GKE!Next
    \/ service = "workflows" /\ WFL!Next
    \/ service = "appengine_races" /\ AE2!AppEngineNext
    \/ service = "batch_races" /\ BA2!BatchNext
    \/ service = "composer_races" /\ CMP2!ComposerNext
    \/ service = "dataproc_races" /\ DP2!DataprocNext
    \/ service = "managedkafka_races" /\ CMP2!ManagedKafkaNext
    \/ service = "redis_races" /\ RED2!RedisNext
Next == ShimNext /\ UNCHANGED service
Spec == Init /\ [][Next]_<<shimVars, service>>

-----------------------------------------------------------------------------
(* Properties.  The modules of the shims state them, with the code each is   *)
(* about; here each is asked of every shim that has it.                      *)

(* Shims that take a refused change back, asked one request at a time.       *)
TakeBack == {"accesscontextmanager", "dataform", "clouddeploy", "alloydb", "batch",
    "filestore", "documentai", "aiplatform", "bigtable", "cloudbuild",
    "dns", "redis", "bigquery", "cloudsql"}
(* Shims whose entry also changes for a name no request is changing: their   *)
(* background work saves too, and resourcemanager saves a rollback with the  *)
(* next request.                                                             *)
Elsewhere == {"alloydb", "batch", "filestore", "appengine", "cloudbuild",
    "memcache", "dataproc", "redis", "compute", "bigquery", "uploads",
    "cloudsql", "serverless", "gke", "workflows", "appengine_races",
    "batch_races", "dataproc_races", "redis_races", "resourcemanager"}

(* The entry a shim leaves on disk passes the validator registered for it:   *)
(* no sequence of accepted, refused and interrupted requests leaves one that *)
(* a state import (Store.Import) refuses, so that what an export writes can  *)
(* be imported again.  compute, loadbalancer and dataproc check the same at  *)
(* a start; the loadState of the others takes the entry as it is.  (What     *)
(* holds of dlp's is in PartsAgree.)                                         *)
Importable ==
    /\ service = "servicedirectory" => SD!validateServiceDirectoryMetadata(disk)
    /\ service = "dataform" => DF!validateDataformMetadata(disk)
    /\ service = "clouddeploy" => CD!validateCloudDeployMetadata(disk)
    /\ service = "cloudendpoints" => CE!validateCloudEndpointsMetadata(disk)
    /\ service = "errorreporting" => CT!validateErrorReportingMetadata(disk)
    /\ service = "storagetransfer" => ST!validateStorageTransferMetadata(disk)
    /\ service = "documentai" => DOC!validateDocumentAIMetadata(disk)
    /\ service = "dialogflowcx" => DIA!dialogflowcx_validateMetadata(disk)
    /\ service = "identityplatform" => IDP!validateIdentityPlatformMetadata(disk)
    /\ service = "aiplatform" => AIP!aiplatform_validateMetadata(disk)
    /\ service = "dataproc" => DP!validateDataprocRuntimeIntents(disk)
    /\ service = "managedkafka" => FS!validateManagedKafkaMetadata(disk)
    /\ service = "compute" => COMP!validatePersistedSubnetworkGraph(disk)
    /\ service = "loadbalancer" => CLB!validatePersistedSecurityPolicyGraph(disk)
    /\ service = "workflows" => WFL!validateWorkflowsMetadata(disk)
    /\ service = "dataproc_races" => DP2!validateDataprocRuntimeIntents(disk)
    /\ service = "managedkafka_races" => CMP2!validateManagedKafkaMetadata(disk)

(* What a client is served has been saved and is current: the maps of the    *)
(* shims that save first, the admission policy, project configuration and    *)
(* firewall rules in force, the key a ciphertext is opened with, and the     *)
(* responses in the load balancer's cache.                                   *)
ServedIsSaved ==
    /\ service = "cloudkms" => KMS!PublishedIsDurable /\ KMS!CiphertextsReadable
    /\ service = "secretmanager" => SEC!PublishedIsDurable
    /\ service = "appengine" => AE!PublishedIsDurable
    /\ service = "artifactregistry" => AR!PublishedIsDurable
    /\ service = "dataproc" => DP!PublishedIsDurable
    /\ service = "appengine_races" => AE2!PublishedIsDurable
    /\ service = "dataproc_races" => DP2!PublishedIsDurable
    /\ service = "binaryauthorization" => BIN!AdmittedBySavedPolicy
    /\ service = "identityplatform" => IDP!ConfigIsDurable
    /\ service = "firewall" => CFW!RulesAreDurable
    /\ service = "loadbalancer" => CLB!NothingLateCached

(* Every container is named by the entry, wherever the daemon stops, so that *)
(* the next start or a deletion can still find it; functions, services and   *)
(* clusters are in the entry before their container is started.              *)
ContainersNamed ==
    /\ [](/\ service = "alloydb" => AL!AlloyDBBackendsRecorded
          /\ service = "appengine" => AE!BackendsRecorded
          /\ service = "cloudbuild" => CD!BackendsRecorded
          /\ service = "composer" => CMP!ComposerBackendsRecorded
          /\ service = "dataproc" => DP!BackendsRecorded
          /\ service = "managedkafka" => FS!ManagedKafkaBackendsRecorded
          /\ service = "redis" => RED!RedisBackendsRecorded
          /\ service = "memcache" => MEM!MemcacheBackendsRecorded
          /\ service = "cloudsql" => SQL!BackendsRecorded)
    /\ [][/\ service = "serverless" => SRV!StartedIsRecorded
          /\ service = "gke" => GKE!StartedIsRecorded]_shimVars

(* What is shown as serving, running or ready has its container, its data    *)
(* directory, its DuckDB table or its bridge.                                *)
ReadyIsBacked ==
    /\ service = "filestore" => FS!ReadyHasData
    /\ service = "appengine" => AE!ServingHasBackend
    /\ service = "composer" => CMP!ComposerRunningHasBackend
    /\ service = "dataproc" => DP!RunningHasBackend
    /\ service = "managedkafka" => FS!ManagedKafkaRunningHasBackend
    /\ service = "redis" => RED!RedisRunningHasBackend
    /\ service = "memcache" => MEM!MemcacheRunningHasBackend
    /\ service = "compute" => COMP!SubnetworksHaveBridges
    /\ service = "bigquery" => BQ!TablesInDuckDB
    /\ service = "cloudsql" => SQL!RunningHasBackend
    /\ service = "gke" => GKE!RunningHasBackend
    /\ service = "composer_races" => CMP2!ComposerRunningHasBackend
    /\ service = "managedkafka_races" => CMP2!ManagedKafkaRunningHasBackend

(* Records that belong together agree, in memory and on disk: no resource    *)
(* outlives the one it belongs to, a DNS change is there as a whole or not at *)
(* all, a finished operation of Artifact Registry has its outcome, an upload *)
(* that was answered as complete has its job and one answer, and no name the *)
(* DLP counter gave is ahead of the counter.                                 *)
PartsAgree ==
    /\ service = "iam" => RM!ProvidersHavePools
    /\ service = "bigtable" => BT!NoOrphans
    /\ service = "compute" => COMP!ComputeEngineNoOrphans
    /\ service = "loadbalancer" => CLB!ComputeLoadBalancerNoOrphans
    /\ service = "dns" => DNS!ChangesComplete
    /\ service = "artifactregistry" => AR!OutcomesOutliveOperations
    /\ service = "uploads" => BQU!CompletedHasJob /\ BQU!OneResponse
    /\ service = "dlp" => DLP!OnlyChosenCollide(disk)


(* The entry of a resource changes only while a request changes it.          *)
DiskChangesAreRequested == [][(service \notin Elsewhere) => OnlyHandlersChangeDisk]_shimVars

(* What was promised stands: destroyed key versions, revoked certificates,   *)
(* finished builds, jobs, queries and executions do not come back; a name or *)
(* number that was given out never stands for something else; an accepted    *)
(* log entry's delivery stays pending until it has reached its destination,  *)
(* and none arrives after its sink was deleted.                              *)
PromisesStand ==
    [][/\ service = "cloudkms" => KMS!DestroyedForever
       /\ service = "privateca" => NS!RevokedForever
       /\ service = "cloudbuild" => CD!EndedStays
       /\ service = "dataflow" => DFL!StoppedStays
       /\ service = "bigquery" => BQ!DoneStays
       /\ service = "uploads" => BQU!DoneStays
       /\ service = "workflows" => WFL!EndedStays
       /\ service = "secretmanager" => SEC!VersionsOnlyAppended
       /\ service = "dialogflowcx" => DIA!NoAgentReplaced
       /\ service = "aiplatform" => AIP!NamesNotReused
       /\ service = "logging" => LOG!NoDeliveryLost /\ LOG!NoDeliveryAfterDelete]_shimVars
=============================================================================

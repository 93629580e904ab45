-------------------------------- MODULE Data --------------------------------
(* internal/service/efs, elasticache, dsql, opensearch, dynamodb, kinesis.  *)
EXTENDS Steps

---------------------------------------------------------------------------
(* efs/file_system_rsrc.go.  Every call has a creation token of its own, so *)
(* that a Create tried again makes another file system.                     *)

FileSystemReplaceFields ==
  {"availability-zone-name", "encrypted", "kms-key-id", "performance-mode"}

FileSystemThroughput == {"throughput-mode", "provisioned-throughput-in-mibps"}

WaitFileSystemAvailable == Await
WaitFileSystemDeleted   == Gone
FileSystemRead          == Look

PutLifecyclePolicies  == Put("PutLifecycleConfiguration", {"lifecycle-policies"})
PutBackupPolicy       == Put("PutBackupPolicy", {"backup-policy"}) \o Await
PutFileSystemPolicy   == Retried(Send("PutFileSystemPolicy", {"file-system-policy"}))
DeleteFileSystemPolicy ==
  AbsentOk(Clear("DeleteFileSystemPolicy", {"file-system-policy"}))
FileSystemProtection  == Put("UpdateFileSystemProtection", {"file-system-protection"})

CreateReplication ==
  Send("CreateReplicationConfiguration", {"replication-configuration"}) \o Await

(* In the destination's region first, when that is another one.             *)
DeleteReplicationInRegion ==
  AbsentOk(Clear("DeleteReplicationConfiguration", {"replication-configuration"}))
  \o AbsentOk(Await)

DeleteReplication ==
  AbsentOk(Look)
  \o WhenLive(Has({"replication-configuration"}), DeleteReplicationInRegion)

FileSystemCreate ==
  Create("CreateFileSystem", FileSystemReplaceFields \cup FileSystemThroughput \cup Tags)
  \o WaitFileSystemAvailable
  \o When(Given({"lifecycle-policies"}), PutLifecyclePolicies)
  \o When(Given({"backup-policy"}), PutBackupPolicy)
  \o When(Given({"file-system-policy"}), PutFileSystemPolicy)
  \o When(Given({"file-system-protection"}), FileSystemProtection)
  \o When(Given({"replication-configuration"}), CreateReplication)
  \o FileSystemRead

(* The mode goes back to bursting; a value is never taken back by itself.   *)
UpdateThroughput ==
  When(Drifted(FileSystemThroughput),
       Put("UpdateFileSystem", {"throughput-mode"})
       ++ Send("UpdateFileSystem", {"provisioned-throughput-in-mibps"}))
  \o When(Drifted(FileSystemThroughput), WaitFileSystemAvailable)

FileSystemPolicyUpdate ==
  When(Astray({"file-system-policy"}) \cup Absent({"file-system-policy"}), DeleteFileSystemPolicy)
  \o When(Astray({"file-system-policy"}) \cup Given({"file-system-policy"}), PutFileSystemPolicy)

ReplicationUpdate ==
  DeleteReplication
  \o When(Given({"replication-configuration"}), WaitFileSystemAvailable \o CreateReplication)

SyncFileSystemTags == Anytime(Put("TagResource", Tags))

FileSystemUpdate ==
  UpdateThroughput
  \o When(Astray({"lifecycle-policies"}), PutLifecyclePolicies)
  \o When(Drifted({"backup-policy"}), PutBackupPolicy)
  \o FileSystemPolicyUpdate
  \o When(Drifted({"file-system-protection"}), FileSystemProtection)
  \o When(Astray({"replication-configuration"}), ReplicationUpdate)
  \o When(Astray(Tags), SyncFileSystemTags)
  \o FileSystemRead

FileSystemDelete ==
  DeleteReplication \o AbsentEnds(Delete("DeleteFileSystem")) \o WaitFileSystemDeleted

FileSystem ==
  [Resource(FileSystemReplaceFields \cup FileSystemThroughput \cup Tags
            \cup {"lifecycle-policies", "backup-policy", "file-system-policy",
                  "file-system-protection", "replication-configuration"},
            FileSystemReplaceFields, FileSystemCreate, FileSystemUpdate, FileSystemDelete)
   EXCEPT !.named = FALSE, !.lags = TRUE, !.holds = {"replication-configuration"},
          !.slow = {"CreateFileSystem", "UpdateFileSystem", "PutBackupPolicy",
                    "CreateReplicationConfiguration", "DeleteReplicationConfiguration",
                    "DeleteFileSystem"},
          !.together = {{"replication-configuration", "tags"}}]

---------------------------------------------------------------------------
(* efs/access_point_rsrc.go                                                 *)

AccessPointReplaceFields == {"file-system-id", "client-token", "posix-user", "root-directory"}

WaitAccessPointAvailable == Await
SyncAccessPointTags      == SyncTags

AccessPointCreate ==
  Create("CreateAccessPoint", AccessPointReplaceFields \cup Tags) \o WaitAccessPointAvailable
AccessPointUpdate == SyncAccessPointTags \o Look
AccessPointDelete == AbsentEnds(Delete("DeleteAccessPoint")) \o Gone

AccessPoint ==
  [Resource(AccessPointReplaceFields \cup Tags, AccessPointReplaceFields, AccessPointCreate,
            AccessPointUpdate, AccessPointDelete)
   EXCEPT !.required = {"file-system-id"}, !.lags = TRUE, !.named = FALSE,
          !.slow = {"CreateAccessPoint", "DeleteAccessPoint"}]

---------------------------------------------------------------------------
(* efs/mount_target_rsrc.go: one target for each zone of a file system.  A  *)
(* creation whose wait fails leaves a target that nobody recorded.          *)

MountTargetReplaceFields ==
  {"file-system-id", "subnet-id", "ip-address", "ip-address-type", "ipv6-address"}

WaitMountTargetCreated == Await
WaitMountTargetDeleted == Gone
MountTargetRead        == Look

MountTargetCreate ==
  Create("CreateMountTarget", MountTargetReplaceFields \cup {"security-groups"})
  \o WaitMountTargetCreated \o MountTargetRead

MountTargetUpdate ==
  When(ChangedTo({"security-groups"}),
       Send("ModifyMountTargetSecurityGroups", {"security-groups"}))
  \o MountTargetRead

MountTargetDelete == AbsentEnds(Delete("DeleteMountTarget")) \o WaitMountTargetDeleted

MountTarget ==
  [Resource(MountTargetReplaceFields \cup {"security-groups"}, MountTargetReplaceFields,
            MountTargetCreate, MountTargetUpdate, MountTargetDelete)
   EXCEPT !.required = {"file-system-id", "subnet-id"}, !.lags = TRUE,
          !.slow = {"CreateMountTarget", "DeleteMountTarget"}]

---------------------------------------------------------------------------
(* elasticache/subnet_group_rsrc.go                                         *)

SubnetGroupRead   == Look
SubnetGroupConfig == {"description", "subnet-ids"}

SubnetGroupCreate ==
  Create("CreateCacheSubnetGroup", SubnetGroupConfig \cup {"name", "tags"}) \o SubnetGroupRead
SubnetGroupUpdate ==
  When(Changed(SubnetGroupConfig), Put("ModifyCacheSubnetGroup", SubnetGroupConfig))
  \o Retried(SyncTags) \o SubnetGroupRead
SubnetGroupDelete == Retried(AbsentOk(Delete("DeleteCacheSubnetGroup")))

SubnetGroup ==
  [Resource(SubnetGroupConfig \cup {"name", "tags"}, {"name"}, SubnetGroupCreate,
            SubnetGroupUpdate, SubnetGroupDelete)
   EXCEPT !.required = SubnetGroupConfig \cup {"name"}]

---------------------------------------------------------------------------
(* elasticache/replication_group_rsrc.go, replication_group_lifecycle.go,   *)
(* replication_group_update.go, replication_group_delete.go.  Every change  *)
(* of the group waits for it before and after.  A flag that is off is {},   *)
(* and of engine, engine-version and cluster-mode 2 comes after 1.  A member *)
(* of a global group has none of what it takes from that group to change.   *)
(* Left out: the DELETE strategy for tokens, cluster mode skipping          *)
(* compatible, and the versions that can change transit encryption.         *)

ReplicationGroupReplaceFields ==
  {"at-rest-encryption-enabled", "data-tiering-enabled", "global-replication-group-id",
   "kms-key-id", "network-type", "node-group-configuration", "port",
   "preferred-cache-cluster-azs", "replication-group-id", "snapshot-arns", "snapshot-name",
   "subnet-group-name"}

(* What a member of a global group takes from it.                           *)
OfGlobalGroup ==
  {"automatic-failover-enabled", "node-type", "parameter-group-name", "engine",
   "engine-version", "transit-encryption-enabled", "transit-encryption-mode"}

Version  == {"engine-version"}
Engine   == {"engine"} \cup Version
Log      == {"log-delivery-configuration"}
Primary  == {"primary-cluster-id"}
Failover == {"automatic-failover-enabled", "multi-az-enabled"}

ModifiedGroup ==
  {"description", "auto-minor-version-upgrade", "multi-az-enabled", "cluster-mode",
   "durability", "engine", "engine-version", "ip-discovery", "node-type",
   "parameter-group-name", "security-group-names", "security-group-ids",
   "maintenance-window", "snapshot-window", "snapshotting-cluster-id",
   "transit-encryption-mode"}

ReplacedGroup ==
  {"automatic-failover-enabled", "notification-topic-arn", "snapshot-retention-limit",
   "transit-encryption-enabled"}

Counts == {"num-node-groups", "replicas-per-node-group", "num-cache-clusters"}

GroupInputs ==
  ReplicationGroupReplaceFields \cup ModifiedGroup \cup ReplacedGroup \cup Counts
  \cup Log \cup Primary \cup {"auth-token", "user-group-ids", "tags"}

WaitReplicationGroupAvailable        == Await
WaitReplicationGroupMembersAvailable == Await
ReplicationGroupOperation(call) ==
  WaitReplicationGroupAvailable \o call \o WaitReplicationGroupAvailable
ReplicationGroupReplicaOperation(call) ==
  ReplicationGroupOperation(call) \o WaitReplicationGroupMembersAvailable

ReplicationGroupRead == WaitReplicationGroupAvailable

SnapshottingCluster ==
  When(Given({"snapshotting-cluster-id"}),
       Send("ModifyReplicationGroup", {"snapshotting-cluster-id"}) \o WaitReplicationGroupAvailable)

GroupCreateInput(F) ==
  Create("CreateReplicationGroup", GroupInputs \ ({"snapshotting-cluster-id"} \cup F))

ReplicationGroupCreate ==
  When(Given({"global-replication-group-id"}),
       GroupCreateInput(OfGlobalGroup \cup {"at-rest-encryption-enabled", "auth-token"}))
  \o When(Absent({"global-replication-group-id"}), GroupCreateInput({}))
  \o WaitReplicationGroupAvailable \o SnapshottingCluster \o ReplicationGroupRead

(* The version is compared with what the plan's Read observed.  A token is  *)
(* only given up together with the DELETE strategy.                         *)
ValidateUpdateTransitions ==
  When(Lowered({"engine"}), Reject)
  \o When(Changed({"engine"}) \cup Unedited(Version), Reject)
  \o When(ChangedTo(Version) \cup Under(Version), Reject)
  \o When(Given({"cluster-mode"}) \cup Lowered({"cluster-mode"}), Reject)
  \o When(ChangedTo({"transit-encryption-enabled"}) \cup Absent({"transit-encryption-mode"}), Reject)
  \o When(Removed({"auth-token"}), Reject)

(* So are the counts.                                                       *)
UpdateShardCount ==
  When(Given({"num-node-groups"}) \cup Differs({"num-node-groups"}),
       ReplicationGroupOperation(
         Send("ModifyReplicationGroupShardConfiguration", {"num-node-groups"})))

IncreaseReplicas(f) ==
  When(Given({f}) \cup Over({f}),
       ReplicationGroupReplicaOperation(Strict(Raise("IncreaseReplicaCount", {f}))))

DecreaseReplicas(f) ==
  When(Given({f}) \cup Under({f}),
       ReplicationGroupReplicaOperation(Strict(Lower("DecreaseReplicaCount", {f}))))

UpdateReplicasPerShard ==
  IncreaseReplicas("replicas-per-node-group") \o DecreaseReplicas("replicas-per-node-group")

(* To a version that can deliver the logs that are new.                     *)
PreupgradeEngineForLogs ==
  When(ChangedTo(Version) \cup Introduced(Log),
       ReplicationGroupOperation(Modify("ModifyReplicationGroup", {"engine"})
                                 ++ Send("ModifyReplicationGroup", Version)))

(* The one call for what changed but for what other calls of this update    *)
(* send.                                                                    *)
StandardModifyInput(others) ==
  Modify("ModifyReplicationGroup", ModifiedGroup \ others)
  ++ Replace("ModifyReplicationGroup", ReplacedGroup \ others)
  ++ Patch("ModifyReplicationGroup", Log)
  ++ Diff("ModifyReplicationGroup", {"user-group-ids"})

StandardModify(guards, others) ==
  When(guards \cup Edited(ModifiedGroup \ others,
                          (ReplacedGroup \ others) \cup Log \cup {"user-group-ids"}),
       ReplicationGroupOperation(StandardModifyInput(others)))

\* The engine has been upgraded, and is upgraded by this call.
StandardModifyAfter(guards, others) ==
  StandardModify(guards \cup ChangedTo(Version) \cup Introduced(Log), others \cup Engine)
  \o StandardModify(guards \cup ChangedTo(Version) \cup Unintroduced(Log), others)
  \o StandardModify(guards \cup Unedited(Version), others)

ApplyStandardModify ==
  StandardModifyAfter(Unedited(Primary), {}) \o StandardModifyAfter(ChangedTo(Primary), Failover)

(* Failover stands in the way of a promotion and is given back after it,    *)
(* and so is a Multi-AZ, here one that no input asks for without a call.    *)
SuspendFailover(F) ==
  WhenLive(Has({"automatic-failover-enabled"}),
           Clear("ModifyReplicationGroup", F) \o WaitReplicationGroupAvailable)

PromotePrimaryCluster ==
  WaitReplicationGroupAvailable
  \o When(Given({"multi-az-enabled"}), SuspendFailover(Failover))
  \o When(Absent({"multi-az-enabled"}), SuspendFailover({"automatic-failover-enabled"}))
  \o ReplicationGroupOperation(Send("ModifyReplicationGroup", Primary))
  \o When(Given(Failover), ReplicationGroupOperation(Send("ModifyReplicationGroup", Failover)))

ApplyAuthUpdate ==
  When(ChangedTo({"auth-token"}),
       ReplicationGroupOperation(Send("ModifyReplicationGroup", {"auth-token"})))

(* Clusters are added first and taken away last.                            *)
ReplicationGroupUpdate ==
  ValidateUpdateTransitions \o Retried(SyncTags)
  \o UpdateShardCount \o UpdateReplicasPerShard
  \o IncreaseReplicas("num-cache-clusters")
  \o PreupgradeEngineForLogs \o ApplyStandardModify
  \o When(ChangedTo(Primary), PromotePrimaryCluster)
  \o ApplyAuthUpdate
  \o DecreaseReplicas("num-cache-clusters") \o ReplicationGroupRead

DisassociateGlobalReplicationGroup ==
  When(Given({"global-replication-group-id"}),
       Retried(AbsentOk(Poke("DisassociateGlobalReplicationGroup"))) \o AbsentOk(Await))

DeleteGeneratedParameterGroup == Retried(AbsentOk(Poke("DeleteCacheParameterGroup")))

ReplicationGroupDelete ==
  DisassociateGlobalReplicationGroup
  \o Retried(AbsentOk(Delete("DeleteReplicationGroup"))) \o Gone
  \o DeleteGeneratedParameterGroup

ReplicationGroup ==
  [Resource(GroupInputs, ReplicationGroupReplaceFields, ReplicationGroupCreate,
            ReplicationGroupUpdate, ReplicationGroupDelete)
   EXCEPT !.required = {"replication-group-id", "description", "engine"}, !.lags = TRUE,
          !.slow = {"CreateReplicationGroup", "ModifyReplicationGroup", "DeleteReplicationGroup",
                    "ModifyReplicationGroupShardConfiguration", "IncreaseReplicaCount",
                    "DecreaseReplicaCount", "DisassociateGlobalReplicationGroup"},
          !.together = {{"automatic-failover-enabled", "primary-cluster-id"}, Engine,
                        {"engine-version", "log-delivery-configuration"},
                        {"transit-encryption-enabled", "transit-encryption-mode"}}]

---------------------------------------------------------------------------
(* dsql/cluster_rsrc.go.  Protection goes at once, other changes take time. *)
(* A Create tried again makes another cluster.                              *)

WaitClusterCreated           == Await
ClusterRead                  == Look

ClusterSettings ==
  {"deletion-protection-enabled", "kms-encryption-key", "multi-region-properties"}

ClusterCreate ==
  Create("CreateCluster", ClusterSettings \cup Tags) \o WaitClusterCreated \o ClusterRead

(* The witness region cannot change.                                        *)
ConditionalClusterReplacement == When(Changed({"witness-region"}), Reject)

ClusterUpdateInput ==
  Put("UpdateCluster", {"deletion-protection-enabled"})
  ++ Modify("UpdateCluster", {"kms-encryption-key", "multi-region-properties"})

ClusterUpdate ==
  ConditionalClusterReplacement
  \o When(Changed(ClusterSettings), ClusterUpdateInput \o Await)
  \o When(ChangedTo({"kms-encryption-key"}), Await)
  \o SyncTags \o ClusterRead

ClusterDelete ==
  When(Given({"force-destroy"}),
       AbsentEnds(Clear("UpdateCluster (protection)", {"deletion-protection-enabled"})))
  \o AbsentEnds(Delete("DeleteCluster")) \o Gone

DsqlCluster ==
  [Resource(ClusterSettings \cup Tags \cup {"force-destroy", "witness-region"}, {},
            ClusterCreate, ClusterUpdate, ClusterDelete)
   EXCEPT !.gaps = {"force-destroy", "witness-region"},
          !.protect = {"deletion-protection-enabled"}, !.named = FALSE, !.lags = TRUE,
          !.slow = {"CreateCluster", "UpdateCluster", "DeleteCluster"},
          !.together = {{"deletion-protection-enabled", "force-destroy"}}]

(* dsql/cluster_peering_rsrc.go.  Create takes a cluster that is pending    *)
(* setup, and none that a Create before it had left; Delete leaves it all.  *)

PeeringInputs            == {"identifier", "clusters", "witness-region"}
WaitClusterPeeringActive == Await

PeeringCreate == Create("UpdateCluster", PeeringInputs) \o WaitClusterPeeringActive
PeeringUpdate == When(Changed(PeeringInputs), Reject) \o Look
PeeringDelete == << >>

ClusterPeering ==
  [Resource(PeeringInputs, {}, PeeringCreate, PeeringUpdate, PeeringDelete)
   EXCEPT !.required = PeeringInputs, !.keeps = PeeringInputs, !.slow = {"UpdateCluster"}]

---------------------------------------------------------------------------
(* opensearch/domain_lifecycle.go, domain_requests.go,                      *)
(* domain_update_requests.go, domain_replacement.go, domain_wait.go         *)

DomainReplaceFields == {"domain-name", "vpc-options"}

DomainModified ==
  {"access-policies", "advanced-security-options", "aiml-options", "auto-tune-options",
   "cluster-config", "deployment-strategy-options", "domain-endpoint-options",
   "ebs-options", "encrypt-at-rest", "ip-address-type", "node-to-node-encryption",
   "off-peak-window-options", "snapshot-options", "software-update-options"}

DomainCleared ==
  {"advanced-options", "automated-snapshot-pause-options", "cognito-options",
   "identity-center-options"}

DomainInputs ==
  DomainReplaceFields \cup DomainModified \cup DomainCleared
  \cup {"engine-version", "log-publishing-options", "tags"}

WaitDomainCreated       == Await
WaitDomainUpdated       == Await
DomainRead              == Look

CreateFollowUpInputs == {"auto-tune-options", "identity-center-options"}
ApplyDomainFollowUp  ==
  When(Given(CreateFollowUpInputs),
       Retried(Send("UpdateDomainConfig", CreateFollowUpInputs)) \o WaitDomainUpdated)

DomainCreate ==
  Retried(Create("CreateDomain", DomainInputs \ {"identity-center-options"}))
  \o WaitDomainCreated \o ApplyDomainFollowUp \o DomainRead

(* What the service lists as compatible are versions other than the         *)
(* domain's: an upgrade that was made, and not recorded, is refused.        *)
PreflightUpdate ==
  When(ChangedTo({"engine-version"}), WhenLive(Already({"engine-version"}), Reject))

DomainUpdateInput ==
  Modify("UpdateDomainConfig", DomainModified)
  ++ Replace("UpdateDomainConfig", DomainCleared)
  ++ Patch("UpdateDomainConfig", {"log-publishing-options"})

DomainUpdate ==
  PreflightUpdate \o SyncTags
  \o When(Edited(DomainModified, DomainCleared \cup {"log-publishing-options"}),
          Retried(DomainUpdateInput) \o WaitDomainUpdated)
  \o When(ChangedTo({"engine-version"}),
          Retried(Send("UpgradeDomain", {"engine-version"})) \o Await)
  \o DomainRead

DomainDelete ==
  Retried(AbsentEnds(Delete("DeleteDomain"))) \o Gone

Domain ==
  [Resource(DomainInputs, DomainReplaceFields, DomainCreate, DomainUpdate, DomainDelete)
   EXCEPT !.required = {"domain-name"}, !.lags = TRUE, !.cleanup = DomainDelete,
          !.slow = {"CreateDomain", "UpdateDomainConfig", "UpgradeDomain", "DeleteDomain"},
          !.together = {{"engine-version", "advanced-options"}}]

---------------------------------------------------------------------------
(* dynamodb/table_rsrc.go, table_update.go, table_reconcile.go,             *)
(* table_wait.go, table_gsi_update.go.  billing-mode goes with the          *)
(* capacities it requires.  An index whose key changes is taken for another *)
(* one; what else can change of an index that stays are inputs of their     *)
(* own.  A call left with nothing to say, for a value that is no longer     *)
(* given, is taken to be accepted.                                          *)

TableReplaceFields == {"name", "hash-key", "range-key", "local-secondary-index"}

TableModified ==
  {"billing-mode", "deletion-protection-enabled", "on-demand-throughput", "stream-enabled"}

IndexCapacity  == {"index-capacity"}
IndexOnDemand  == {"index-on-demand-throughput"}
IndexWarm      == {"index-warm-throughput"}

TableCreated ==
  TableReplaceFields \cup TableModified \cup IndexCapacity \cup IndexOnDemand \cup IndexWarm
  \cup {"attribute", "global-secondary-index", "stream-view-type", "server-side-encryption",
        "table-class", "warm-throughput", "tags"}

WaitTableActive == Await
WaitTableWarmThroughputActive == Await
WaitGSIActive   == Await
WaitGSIDeleted  == Await
WaitTTLUpdated  == Await
WaitPITRUpdated == Await
WaitSSEUpdated  == Await

UpdateTimeToLive == Put("UpdateTimeToLive", {"ttl"}) \o WaitTTLUpdated
UpdatePITR ==
  Retried(Put("UpdateContinuousBackups", {"point-in-time-recovery"})) \o WaitPITRUpdated
UpdateSSE  == Put("UpdateTable", {"server-side-encryption"}) \o WaitSSEUpdated
(* Warm throughput can be raised in place, and DynamoDB refuses less.       *)
UpdateWarmThroughput ==
  Strict(Raise("UpdateTable", {"warm-throughput"})) \o WaitTableActive \o WaitTableWarmThroughputActive

CreateTable == Retried(Create("CreateTable", TableCreated))

TableCreate ==
  CreateTable \o WaitTableActive
  \o When(Given({"warm-throughput"}), WaitTableWarmThroughputActive)
  \o When(Given({"global-secondary-index"}), WaitGSIActive)
  \o When(Given({"ttl"}), UpdateTimeToLive)
  \o When(Given({"point-in-time-recovery"}), UpdatePITR)

(* An index that is to have less of it is deleted, and created again.       *)
GsiNeedsRecreate == Lowered(IndexWarm) \cup ChangedTo(IndexWarm)

DeleteIndexes ==
  Strict(DropEach("UpdateTable", "global-secondary-index"))
  \o When(Dropped({"global-secondary-index"}), WaitGSIDeleted)
  \o When(GsiNeedsRecreate, Strict(Clear("UpdateTable", IndexWarm)) \o WaitGSIDeleted)
CreateIndexes ==
  Strict(AddEach("UpdateTable", "global-secondary-index"))
  \o When(Added({"global-secondary-index"}), WaitGSIActive)
  \o When(GsiNeedsRecreate, Put("UpdateTable", IndexWarm) \o WaitGSIActive)

ReconcileTableClass ==
  When(ChangedTo({"table-class"}), Send("UpdateTable", {"table-class"}) \o WaitTableActive)

(* The view of a stream that stays on: the stream goes off and on again.    *)
ReconcileStreamViewType ==
  When(Changed({"stream-view-type"}) \cup Kept({"stream-enabled"}) \cup Given({"stream-enabled"}),
       Clear("UpdateTable", {"stream-view-type"}) \o WaitTableActive
       \o Put("UpdateTable", {"stream-view-type"}) \o WaitTableActive)

(* One call; the view goes with the stream.                                 *)
MainUpdateCall(stream, input) ==
  When(stream \cup Edited(TableModified \cup IndexCapacity, IndexOnDemand),
       input \o WaitTableActive
       \o When(Edited(IndexCapacity, IndexOnDemand), WaitGSIActive))

MainUpdateInput ==
  Modify("UpdateTable", TableModified \cup IndexCapacity \cup IndexOnDemand)

MainUpdate ==
  MainUpdateCall(Kept({"stream-enabled"}), MainUpdateInput)
  \o MainUpdateCall(Changed({"stream-enabled"}),
                    MainUpdateInput ++ Put("UpdateTable", {"stream-view-type"}))

UpdateWarmIndexes ==
  When(Raised(IndexWarm),
       Strict(Raise("UpdateTable", IndexWarm)) \o WaitTableActive \o WaitGSIActive)
  \o When(Removed(IndexWarm),
          Strict(Send("UpdateTable", IndexWarm)) \o WaitTableActive \o WaitGSIActive)

ReconcileWarmThroughput == When(ChangedTo({"warm-throughput"}), UpdateWarmThroughput)

Reconcile ==
  DeleteIndexes \o ReconcileTableClass \o ReconcileStreamViewType \o MainUpdate
  \o UpdateWarmIndexes \o CreateIndexes \o When(Changed({"server-side-encryption"}), UpdateSSE)
  \o When(Changed({"ttl"}), UpdateTimeToLive)
  \o When(Changed({"point-in-time-recovery"}), UpdatePITR)
  \o ReconcileWarmThroughput

TableUpdate == Reconcile \o SyncTags \o Look
TableDelete == Retried(AbsentEnds(Delete("DeleteTable"))) \o Gone

Table ==
  [Resource(TableCreated \cup {"ttl", "point-in-time-recovery"}, TableReplaceFields, TableCreate,
            TableUpdate, TableDelete)
   EXCEPT !.required = {"name", "hash-key", "billing-mode", "stream-enabled"},
          !.gaps = {"attribute"},
          !.protect = {"deletion-protection-enabled"}, !.lags = TRUE,
          !.slow = {"CreateTable", "UpdateTable", "UpdateTimeToLive", "UpdateContinuousBackups",
                    "DeleteTable"},
          !.together = {{"stream-enabled", "stream-view-type"},
                        {"global-secondary-index", "ttl"}}]

---------------------------------------------------------------------------
(* kinesis/stream_rsrc.go, stream_lifecycle.go, stream_requests.go,         *)
(* stream_wait.go.  kms-key-id goes with encryption-type, and a shard-count *)
(* is given in PROVISIONED mode and in no other.  A retention-period that   *)
(* is not given is the least, 24 hours.                                     *)

StreamCreateInput ==
  {"name", "tags", "max-record-size-in-kib", "warm-throughput-mibps", "stream-mode-details",
   "shard-count"}

WaitStreamCreated       == Await
WaitStreamCreateUpdated == Await
WaitStreamUpdated       == Await
WaitStreamDeleted       == Gone
StreamRead              == Look

IncreaseRetention == Strict(Raise("IncreaseStreamRetentionPeriod", {"retention-period"}))
DecreaseRetention == Strict(Lower("DecreaseStreamRetentionPeriod", {"retention-period"}))
EnableMetrics   == Add("EnableEnhancedMonitoring", {"shard-level-metrics"})
DisableMetrics  == Drop("DisableEnhancedMonitoring", {"shard-level-metrics"})

StreamCreate ==
  Create("CreateStream", StreamCreateInput) \o WaitStreamCreated
  \o IncreaseRetention \o WaitStreamCreateUpdated
  \o When(Given({"shard-level-metrics"}), EnableMetrics \o WaitStreamCreateUpdated)
  \o When(Given({"encryption-type"}),
          Send("StartStreamEncryption", {"encryption-type"}) \o WaitStreamCreateUpdated)
  \o StreamRead

(* By what is recorded, not by what the stream has.                         *)
UpdateRetention ==
  When(Raised({"retention-period"}), IncreaseRetention \o WaitStreamUpdated)
  \o When(Lowered({"retention-period"}), DecreaseRetention \o WaitStreamUpdated)

UpdateEncryption ==
  When(Given({"encryption-type"}), Send("StartStreamEncryption", {"encryption-type"}))
  \o When(Absent({"encryption-type"}), Look \o
          WhenLive(Has({"encryption-type"}), Clear("StopStreamEncryption", {"encryption-type"})))

StreamUpdate ==
  SyncTags
  \o When(Changed({"stream-mode-details"}),
          Put("UpdateStreamMode", {"stream-mode-details"}) \o WaitStreamUpdated)
  \o When(ChangedTo({"shard-count"}),
          Send("UpdateShardCount", {"shard-count"}) \o WaitStreamUpdated)
  \o UpdateRetention
  \o When(Dropped({"shard-level-metrics"}), DisableMetrics \o WaitStreamUpdated)
  \o When(Added({"shard-level-metrics"}), EnableMetrics \o WaitStreamUpdated)
  \o When(Changed({"encryption-type"}), UpdateEncryption \o WaitStreamUpdated)
  \o When(ChangedTo({"max-record-size-in-kib"}),
          Send("UpdateMaxRecordSize", {"max-record-size-in-kib"}) \o WaitStreamUpdated)
  \o When(Changed({"warm-throughput-mibps"}),
          Put("UpdateStreamWarmThroughput", {"warm-throughput-mibps"}) \o WaitStreamUpdated)
  \o StreamRead

StreamDelete     == AbsentEnds(Delete("DeleteStream")) \o WaitStreamDeleted
CompensateCreate == StreamDelete

Stream ==
  [Resource(StreamCreateInput \cup {"retention-period", "shard-level-metrics", "encryption-type"},
            {"name"}, StreamCreate, StreamUpdate, StreamDelete)
   EXCEPT !.required = {"name"}, !.cleanup = CompensateCreate,
          !.slow = {"CreateStream", "UpdateStreamMode", "UpdateShardCount",
                    "IncreaseStreamRetentionPeriod", "DecreaseStreamRetentionPeriod",
                    "EnableEnhancedMonitoring",
                    "DisableEnhancedMonitoring", "StartStreamEncryption",
                    "StopStreamEncryption", "UpdateMaxRecordSize",
                    "UpdateStreamWarmThroughput", "DeleteStream"},
          !.together = {{"shard-level-metrics", "encryption-type"}}]

---------------------------------------------------------------------------
Resources ==
  [efs_file_system |-> FileSystem, efs_access_point |-> AccessPoint,
   efs_mount_target |-> MountTarget, elasticache_subnet_group |-> SubnetGroup,
   elasticache_replication_group |-> ReplicationGroup, dsql_cluster |-> DsqlCluster,
   dsql_cluster_peering |-> ClusterPeering, opensearch_domain |-> Domain,
   dynamodb_table |-> Table, kinesis_stream |-> Stream]
=============================================================================

-------------------------------- MODULE Rds --------------------------------
(* internal/service/rds: instances, clusters and what goes with them.      *)
EXTENDS Steps

---------------------------------------------------------------------------
(* instance_rsrc.go.  A plain create and the four other ways of creating    *)
(* an instance, each a resource of its own.                                 *)

InstanceReplaceFields ==
  {"availability-zone", "backup-target", "character-set-name", "db-name", "engine",
   "kms-key-id", "nchar-character-set-name", "storage-encrypted", "timezone",
   "username", "custom-iam-instance-profile", "snapshot-identifier",
   "restore-to-point-in-time", "s3-import"}

InstanceDomain ==
  {"domain", "domain-iam-role-name", "domain-fqdn", "domain-ou",
   "domain-auth-secret-arn", "domain-dns-ips"}

InstanceInsights ==
  {"enable-performance-insights", "performance-insights-kms-key-id",
   "performance-insights-retention-period"}

InstanceMonitoring == {"monitoring-interval", "monitoring-role-arn", "database-insights-mode"}

InstancePassword ==
  {"password", "manage-master-user-password", "master-user-secret-kms-key-id"}

InstanceStorage == {"allocated-storage", "iops", "storage-type", "storage-throughput"}

InstanceBackup == {"backup-retention-period", "backup-window", "maintenance-window"}

InstanceNetwork ==
  {"instance-class", "db-subnet-group-name", "option-group-name", "port",
   "publicly-accessible", "network-type", "vpc-security-group-ids",
   "copy-tags-to-snapshot", "auto-minor-version-upgrade", "dedicated-log-volume",
   "iam-database-authentication-enabled", "multi-az", "customer-owned-ip-enabled"}

InstanceInputs ==
  InstanceReplaceFields \cup InstanceDomain \cup InstanceInsights \cup InstanceMonitoring
  \cup InstancePassword \cup InstanceStorage \cup InstanceBackup \cup InstanceNetwork
  \cup {"identifier", "parameter-group-name", "license-model", "deletion-protection",
        "ca-cert-identifier", "engine-version", "replica-mode", "max-allocated-storage",
        "enabled-cloudwatch-logs-exports", "engine-lifecycle-support",
        "replicate-source-db", "tags"}

InstanceModes ==
  {"snapshot-identifier", "restore-to-point-in-time", "s3-import", "replicate-source-db"}

InstanceWaitAvailable == ByGoal(Await)
InstanceRead          == Look

InstanceModifyAndWait(call) == Retried(call) \o InstanceWaitAvailable

(* The follow-on modify, made only when it has something to send.          *)
InstanceFollowOn(F) ==
  When(Given(F), InstanceModifyAndWait(ByGoal(Send("ModifyDBInstance", F))))

InstanceCreatePlain ==
  Create("CreateDBInstance",
         InstanceInputs \ (InstanceModes \cup {"ca-cert-identifier", "replica-mode"}))
  \o InstanceWaitAvailable \o InstanceFollowOn({"ca-cert-identifier"})

InstanceRebootAndWait == ByGoal(Poke("RebootDBInstance")) \o InstanceWaitAvailable

InstanceReplicaCall ==
  InstanceNetwork \cup InstanceDomain \cup InstanceInsights \cup InstanceMonitoring
  \cup (InstanceStorage \ {"allocated-storage"})
  \cup {"identifier", "replicate-source-db", "kms-key-id", "availability-zone", "backup-target",
        "custom-iam-instance-profile", "enabled-cloudwatch-logs-exports", "replica-mode", "tags"}

InstanceReplicaFollowOn ==
  InstanceBackup \cup InstancePassword
  \cup {"max-allocated-storage", "parameter-group-name", "ca-cert-identifier", "replica-mode"}

InstanceCreateReplica ==
  Create("CreateDBInstanceReadReplica", InstanceReplicaCall) \o InstanceWaitAvailable
  \o InstanceFollowOn(InstanceReplicaFollowOn)
  \o When(Given({"parameter-group-name"}), InstanceRebootAndWait)

InstanceFromS3Call ==
  (InstanceNetwork \ {"customer-owned-ip-enabled"})
  \cup InstanceInsights \cup InstanceMonitoring \cup InstancePassword \cup InstanceStorage
  \cup InstanceBackup
  \cup {"identifier", "engine", "engine-version", "username", "max-allocated-storage",
        "storage-encrypted", "kms-key-id", "db-name", "parameter-group-name",
        "availability-zone", "license-model", "deletion-protection",
        "enabled-cloudwatch-logs-exports", "engine-lifecycle-support", "s3-import", "tags"}

InstanceFromS3 ==
  Create("RestoreDBInstanceFromS3", InstanceFromS3Call) \o InstanceWaitAvailable
  \o InstanceFollowOn({"ca-cert-identifier"})

InstanceRestoreCall ==
  InstanceNetwork \cup InstanceDomain
  \cup {"identifier", "engine", "parameter-group-name", "availability-zone", "license-model",
        "backup-target", "deletion-protection", "custom-iam-instance-profile",
        "engine-lifecycle-support", "db-name", "tags"}

InstanceSnapshotFollowOn ==
  InstanceStorage \cup InstanceBackup \cup InstanceMonitoring \cup InstanceInsights
  \cup InstancePassword \cup {"max-allocated-storage", "engine-version"}

InstanceFromSnapshot ==
  Create("RestoreDBInstanceFromDBSnapshot", InstanceRestoreCall \cup {"snapshot-identifier"})
  \o InstanceWaitAvailable \o InstanceFollowOn(InstanceSnapshotFollowOn)

InstanceToPointInTime ==
  Create("RestoreDBInstanceToPointInTime",
         InstanceRestoreCall \cup InstanceStorage
         \cup {"max-allocated-storage", "restore-to-point-in-time"})
  \o InstanceWaitAvailable \o InstanceFollowOn(InstanceMonitoring \cup InstancePassword)

InstancePromote == ByGoal(Poke("PromoteReadReplica")) \o InstanceWaitAvailable

(* Without a domain the whole membership is disabled; its other inputs are  *)
(* only ever sent.                                                          *)
InstanceDomainChange(call) ==
  Replace(call, {"domain", "domain-fqdn"}) ++ Modify(call, InstanceDomain \ {"domain", "domain-fqdn"})

InstanceModifyFields ==
  InstanceInputs \ (InstanceReplaceFields \cup InstanceDomain \cup
    {"identifier", "max-allocated-storage", "enabled-cloudwatch-logs-exports",
     "engine-lifecycle-support", "replicate-source-db", "tags"})

InstanceUpdateModify ==
  LET call == "ModifyDBInstance"
  IN  When(Changed(InstanceInputs \ (InstanceReplaceFields \cup
             {"engine-lifecycle-support", "replicate-source-db", "tags"})),
           InstanceModifyAndWait(ByPrior(
             Modify(call, InstanceModifyFields) ++ InstanceDomainChange(call)
             ++ Diff(call, {"enabled-cloudwatch-logs-exports"})
             ++ Replace(call, {"identifier", "max-allocated-storage"}))))

InstanceUpdate ==
  When(ChangedTo({"replicate-source-db"}), Reject)
  \o When(Removed({"replicate-source-db"}), InstancePromote)
  \o InstanceUpdateModify \o SyncTags \o InstanceRead

InstanceClearProtection ==
  Retried(ByGoal(Clear("ModifyDBInstance", {"deletion-protection"}))) \o InstanceWaitAvailable

InstanceDelete ==
  When(Absent({"deletion-protection"}),
       WhenLive(Has({"deletion-protection"}), InstanceClearProtection))
  \o GoingOk(AbsentOk(ByGoal(Delete("DeleteDBInstance")))) \o ByGoal(Gone)

InstanceOf(mode, create, gaps) ==
  [Resource(InstanceInputs \ (InstanceModes \ mode), InstanceReplaceFields,
            create \o InstanceRead, InstanceUpdate, InstanceDelete)
   EXCEPT !.required = {"identifier"} \cup mode, !.gaps = gaps \cup {"engine-lifecycle-support"},
          !.name = "identifier", !.protect = {"deletion-protection"},
          !.slow = {"CreateDBInstance", "CreateDBInstanceReadReplica", "RestoreDBInstanceFromS3",
                    "RestoreDBInstanceFromDBSnapshot", "RestoreDBInstanceToPointInTime",
                    "ModifyDBInstance", "RebootDBInstance", "PromoteReadReplica",
                    "DeleteDBInstance"}]

(* What a copy takes over from its source: accepted and never sent.         *)
InstanceInherited ==
  {"character-set-name", "nchar-character-set-name", "storage-encrypted", "timezone", "username"}

Instance == InstanceOf({}, InstanceCreatePlain, {"replica-mode"})

InstanceReplica ==
  [InstanceOf({"replicate-source-db"}, InstanceCreateReplica,
              InstanceInherited \cup {"db-name", "engine", "engine-version", "allocated-storage",
                                      "license-model", "deletion-protection"})
   EXCEPT !.together = {{"replicate-source-db", "identifier"}}]

InstanceS3 ==
  InstanceOf({"s3-import"}, InstanceFromS3,
             InstanceDomain \cup {"character-set-name", "nchar-character-set-name", "timezone",
                                  "backup-target", "custom-iam-instance-profile",
                                  "customer-owned-ip-enabled", "replica-mode"})

InstanceSnapshot ==
  InstanceOf({"snapshot-identifier"}, InstanceFromSnapshot,
             InstanceInherited \cup {"kms-key-id", "ca-cert-identifier", "replica-mode",
                                     "enabled-cloudwatch-logs-exports"})

InstancePointInTime ==
  InstanceOf({"restore-to-point-in-time"}, InstanceToPointInTime,
             InstanceInherited \cup InstanceInsights \cup InstanceBackup
             \cup {"kms-key-id", "ca-cert-identifier", "replica-mode", "engine-version",
                   "enabled-cloudwatch-logs-exports"})

---------------------------------------------------------------------------
(* cluster_rsrc.go, in its provisioned engine mode.                         *)

ClusterReplaceFields ==
  {"availability-zones", "cluster-identifier", "cluster-scalability-type", "database-name",
   "db-subnet-group-name", "db-system-id", "engine", "engine-mode", "kms-key-id",
   "master-username", "restore-to-point-in-time", "s3-import", "snapshot-identifier",
   "source-region", "storage-encrypted"}

ClusterInsights ==
  {"database-insights-mode", "performance-insights-enabled", "performance-insights-kms-key-id",
   "performance-insights-retention-period"}

ClusterPassword ==
  {"master-password", "manage-master-user-password", "master-user-secret-kms-key-id"}

ClusterBackup ==
  {"backup-retention-period", "preferred-backup-window", "preferred-maintenance-window"}

(* What every create call takes.                                            *)
ClusterAnyCreate ==
  {"cluster-identifier", "backtrack-window", "copy-tags-to-snapshot",
   "db-cluster-parameter-group-name", "db-subnet-group-name", "deletion-protection", "domain",
   "domain-iam-role-name", "enabled-cloudwatch-logs-exports",
   "enable-iam-database-authentication", "engine-lifecycle-support", "kms-key-id",
   "network-type", "port", "storage-type", "vpc-security-group-ids", "tags"}

(* What a restore takes besides.                                            *)
ClusterAnyRestore ==
  {"db-cluster-instance-class", "iops", "monitoring-interval", "monitoring-role-arn"}

ClusterForwarding == {"enable-global-write-forwarding", "enable-local-write-forwarding"}

ClusterInputs ==
  ClusterReplaceFields \cup ClusterInsights \cup ClusterPassword \cup ClusterBackup
  \cup ClusterAnyCreate \cup ClusterAnyRestore \cup ClusterForwarding
  \cup {"engine-version", "allocated-storage", "db-instance-parameter-group-name",
        "ca-certificate-identifier", "enable-http-endpoint", "global-cluster-identifier",
        "iam-roles", "replication-source-identifier", "scaling", "serverlessv2-scaling"}

ClusterModes == {"restore-to-point-in-time", "s3-import", "snapshot-identifier"}

ClusterWaitUpdated   == Await
ClusterWaitAvailable == Await
ClusterWaitDeleted   == Gone
ClusterRead          == Look

ClusterAddRole    == Strict(AddEach("AddRoleToDBCluster", "iam-roles"))
ClusterRemoveRole == Strict(DropEach("RemoveRoleFromDBCluster", "iam-roles"))

(* A member of a global cluster gets its insights by a modify afterwards.   *)
ClusterCreatePlain ==
  LET sent == ClusterInputs \ (ClusterModes \cup {"iam-roles", "db-instance-parameter-group-name"})
  IN  When(Absent({"global-cluster-identifier"}), Create("CreateDBCluster", sent))
      \o When(Given({"global-cluster-identifier"}),
              Create("CreateDBCluster",
                     sent \ (ClusterInsights \cup {"replication-source-identifier"})))

ClusterFromSnapshot ==
  Create("RestoreDBClusterFromSnapshot",
         ClusterAnyCreate \cup ClusterAnyRestore
         \cup {"engine", "engine-mode", "engine-version", "availability-zones",
               "database-name", "scaling", "snapshot-identifier"})

ClusterFromS3 ==
  Create("RestoreDBClusterFromS3",
         ClusterAnyCreate \cup ClusterPassword \cup ClusterBackup
         \cup {"engine", "engine-version", "master-username", "availability-zones",
               "database-name", "serverlessv2-scaling", "storage-encrypted", "s3-import"})

ClusterToPointInTime ==
  Create("RestoreDBClusterToPointInTime",
         ClusterAnyCreate \cup ClusterAnyRestore \cup {"restore-to-point-in-time"})

ClusterDeferredModify(F) ==
  Retried(Send("ModifyDBCluster", F)) \o ClusterWaitUpdated

ClusterDeferred == ClusterPassword \cup ClusterBackup \cup {"serverlessv2-scaling"}

ClusterCreate(create, deferred) ==
  create \o Await \o ClusterAddRole \o deferred \o ClusterRead

ClusterModifyFields ==
  ClusterInputs \ (ClusterReplaceFields \cup
    {"enabled-cloudwatch-logs-exports", "enable-http-endpoint", "engine-lifecycle-support",
     "global-cluster-identifier", "iam-roles", "replication-source-identifier", "tags"})

ClusterModifyInput ==
  Modify("ModifyDBCluster", ClusterModifyFields)
  ++ Diff("ModifyDBCluster", {"enabled-cloudwatch-logs-exports"})

ClusterModifyWithRetry(call) == Retried(call)

ClusterModifyHttpEndpoint ==
  When(Changed({"enable-http-endpoint"}),
       Anytime(Put("EnableHttpEndpoint", {"enable-http-endpoint"})))

ClusterPromoteReadReplica ==
  When(Removed({"replication-source-identifier"}),
       Put("PromoteReadReplicaDBCluster", {"replication-source-identifier"})
       \o ClusterWaitAvailable)

ClusterRemoveFromGlobal == Clear("RemoveFromGlobalCluster", {"global-cluster-identifier"})

ClusterUpdateGlobalMembership ==
  When(ChangedTo({"global-cluster-identifier"}), Reject)
  \o When(Removed({"global-cluster-identifier"}),
          WhenLive(Has({"global-cluster-identifier"}),
                   ClusterRemoveFromGlobal \o ClusterWaitAvailable))

ClusterReconcileRoles == When(Given({"iam-roles"}), ClusterAddRole \o ClusterRemoveRole)

ClusterUpdate ==
  ClusterModifyHttpEndpoint
  \o ClusterPromoteReadReplica
  \o When(Changed(ClusterModifyFields \cup {"enabled-cloudwatch-logs-exports"}),
          ClusterModifyWithRetry(ClusterModifyInput) \o ClusterWaitUpdated)
  \o ClusterUpdateGlobalMembership
  \o ClusterReconcileRoles
  \o SyncTags \o ClusterRead

ClusterClearProtection ==
  ClusterModifyWithRetry(Clear("ModifyDBCluster", {"deletion-protection"})) \o ClusterWaitUpdated

ClusterDeleteWithRetry ==
  When(Absent({"deletion-protection"}),
       WhenLive(Has({"deletion-protection"}), ClusterClearProtection))
  \o Retried(AbsentOk(Delete("DeleteDBCluster")))

ClusterDelete ==
  WhenLive(Has({"global-cluster-identifier"}),
           AbsentOk(ClusterRemoveFromGlobal) \o AbsentEnds(ClusterWaitAvailable))
  \o ClusterDeleteWithRetry \o ClusterWaitDeleted

ClusterOf(mode, create, gaps) ==
  [Resource(ClusterInputs \ (ClusterModes \ mode), ClusterReplaceFields, create,
            ClusterUpdate, ClusterDelete)
   EXCEPT !.required = {"cluster-identifier", "engine"} \cup mode, !.protect = {"deletion-protection"},
          !.gaps = gaps \cup {"engine-lifecycle-support", "replication-source-identifier"},
          !.slow = {"CreateDBCluster", "RestoreDBClusterFromSnapshot", "RestoreDBClusterFromS3",
                    "RestoreDBClusterToPointInTime", "ModifyDBCluster", "DeleteDBCluster",
                    "PromoteReadReplicaDBCluster", "RemoveFromGlobalCluster"}]

Cluster ==
  [ClusterOf({}, ClusterCreate(ClusterCreatePlain,
                               When(Given({"global-cluster-identifier"}),
                                    When(Given(ClusterInsights),
                                         ClusterDeferredModify(ClusterInsights)))),
             {"db-instance-parameter-group-name"})
   EXCEPT !.together = {{"global-cluster-identifier", "database-insights-mode"}}]

ClusterSnapshot ==
  ClusterOf({"snapshot-identifier"},
            ClusterCreate(ClusterFromSnapshot, ClusterDeferredModify(ClusterDeferred)),
            ClusterInsights \cup ClusterForwarding
            \cup {"db-instance-parameter-group-name", "allocated-storage", "storage-encrypted",
                  "ca-certificate-identifier", "enable-http-endpoint", "cluster-scalability-type",
                  "db-system-id", "global-cluster-identifier", "master-username", "source-region"})

ClusterS3 ==
  ClusterOf({"s3-import"}, ClusterCreate(ClusterFromS3, << >>),
            ClusterInsights \cup ClusterForwarding \cup ClusterAnyRestore
            \cup {"db-instance-parameter-group-name", "allocated-storage", "engine-mode",
                  "ca-certificate-identifier", "enable-http-endpoint", "cluster-scalability-type",
                  "db-system-id", "global-cluster-identifier", "scaling", "source-region"})

ClusterPointInTime ==
  ClusterOf({"restore-to-point-in-time"},
            ClusterCreate(ClusterToPointInTime,
                          ClusterDeferredModify(ClusterDeferred \cup {"scaling"})),
            ClusterInsights \cup ClusterForwarding
            \cup {"db-instance-parameter-group-name", "allocated-storage", "storage-encrypted",
                  "ca-certificate-identifier", "enable-http-endpoint", "cluster-scalability-type",
                  "db-system-id", "global-cluster-identifier", "master-username", "source-region",
                  "engine", "engine-mode", "engine-version", "availability-zones", "database-name"})

---------------------------------------------------------------------------
(* cluster_instance_rsrc.go                                                 *)

ClusterInstanceReplaceFields ==
  {"availability-zone", "cluster-identifier", "custom-iam-instance-profile",
   "db-subnet-group-name", "engine", "identifier"}

ClusterInstanceInsights ==
  {"performance-insights-enabled", "performance-insights-kms-key-id",
   "performance-insights-retention-period"}

ClusterInstanceModifyFields ==
  {"instance-class", "db-parameter-group-name", "engine-version", "auto-minor-version-upgrade",
   "copy-tags-to-snapshot", "promotion-tier", "publicly-accessible", "monitoring-interval",
   "monitoring-role-arn", "preferred-backup-window", "preferred-maintenance-window"}

ClusterInstanceWaitAvailable == Await
ClusterInstanceWaitSettled   == Await
ClusterInstanceWaitDeleted   == Gone
ClusterInstanceRead          == Look

ClusterInstanceCreateInput ==
  ClusterInstanceReplaceFields \cup ClusterInstanceModifyFields \cup ClusterInstanceInsights
  \cup {"tags"}

ClusterInstanceCACertificate ==
  When(Given({"ca-cert-identifier"}),
       WhenLive(Differs({"ca-cert-identifier"}),
                Send("ModifyDBInstance", {"ca-cert-identifier"}) \o ClusterInstanceWaitSettled
                \o Poke("RebootDBInstance") \o ClusterInstanceWaitSettled))

ClusterInstanceCreate ==
  Create("CreateDBInstance", ClusterInstanceCreateInput) \o ClusterInstanceWaitAvailable
  \o ClusterInstanceCACertificate \o ClusterInstanceRead

ClusterInstanceModifyInput ==
  Modify("ModifyDBInstance", ClusterInstanceModifyFields \cup {"ca-cert-identifier"}
                             \cup (ClusterInstanceInsights \ {"performance-insights-enabled"}))
  ++ Replace("ModifyDBInstance", {"performance-insights-enabled"})

ClusterInstanceUpdate ==
  SyncTags
  \o When(Changed(ClusterInstanceModifyFields \cup ClusterInstanceInsights
                  \cup {"ca-cert-identifier"}),
          ClusterInstanceModifyInput \o ClusterInstanceWaitAvailable)
  \o ClusterInstanceRead

(* force-destroy: a replica cluster is promoted before its last instance    *)
(* is deleted; the promotion is a change of the cluster, not of this.       *)
ClusterInstanceDeleteInstance == GoingOk(AbsentOk(Delete("DeleteDBInstance")))

ClusterInstanceDelete == ClusterInstanceDeleteInstance \o ClusterInstanceWaitDeleted

ClusterInstance ==
  [Resource(ClusterInstanceCreateInput \cup {"ca-cert-identifier"}, ClusterInstanceReplaceFields,
            ClusterInstanceCreate, ClusterInstanceUpdate, ClusterInstanceDelete)
   EXCEPT !.required = {"cluster-identifier", "instance-class", "engine", "identifier"},
          !.slow = {"CreateDBInstance", "ModifyDBInstance", "RebootDBInstance", "DeleteDBInstance"}]

---------------------------------------------------------------------------
(* cluster_parameter_group_rsrc.go and parameter_group_rsrc.go              *)

ClusterParameterGroupReconcile ==
  AddEach("ModifyDBClusterParameterGroup", "parameters")
  \o Retried(DropEach("ResetDBClusterParameterGroup", "parameters"))

ClusterParameterGroupCreate ==
  Create("CreateDBClusterParameterGroup", {"name", "family", "description", "tags"})
  \o ClusterParameterGroupReconcile

ClusterParameterGroupUpdate == ClusterParameterGroupReconcile \o SyncTags \o Look

ClusterParameterGroupDelete == Retried(AbsentOk(Delete("DeleteDBClusterParameterGroup")))

ClusterParameterGroup ==
  [Resource({"name", "family", "description", "parameters", "tags"},
            {"name", "family", "description"}, ClusterParameterGroupCreate,
            ClusterParameterGroupUpdate, ClusterParameterGroupDelete)
   EXCEPT !.required = {"name", "family", "description"}]

ParameterGroupRead == Look

ParameterGroupReconcile ==
  AddEach("ModifyDBParameterGroup", "parameters") \o DropEach("ResetDBParameterGroup", "parameters")

ParameterGroupCreate ==
  Create("CreateDBParameterGroup", {"name", "family", "description", "tags"})
  \o ParameterGroupReconcile \o ParameterGroupRead

ParameterGroupUpdate == ParameterGroupReconcile \o SyncTags \o ParameterGroupRead

ParameterGroupDelete == Retried(AbsentOk(Delete("DeleteDBParameterGroup")))

ParameterGroup ==
  [Resource({"name", "family", "description", "parameters", "tags"},
            {"name", "family", "description"}, ParameterGroupCreate,
            ParameterGroupUpdate, ParameterGroupDelete)
   EXCEPT !.required = {"name", "family", "description"}]

---------------------------------------------------------------------------
(* subnet_group_rsrc.go                                                     *)

SubnetGroupRead == Look

SubnetGroupCreate ==
  Create("CreateDBSubnetGroup", {"name", "description", "subnet-ids", "tags"}) \o SubnetGroupRead

SubnetGroupUpdate ==
  When(Changed({"description", "subnet-ids"}),
       Put("ModifyDBSubnetGroup", {"description", "subnet-ids"}))
  \o SyncTags \o SubnetGroupRead

SubnetGroupWaitGone == Gone

SubnetGroupDelete == AbsentEnds(Delete("DeleteDBSubnetGroup")) \o SubnetGroupWaitGone

SubnetGroup ==
  [Resource({"name", "description", "subnet-ids", "tags"}, {"name"}, SubnetGroupCreate,
            SubnetGroupUpdate, SubnetGroupDelete)
   EXCEPT !.required = {"name", "description", "subnet-ids"}, !.slow = {"DeleteDBSubnetGroup"}]

---------------------------------------------------------------------------
Resources ==
  [rds_instance |-> Instance, rds_instance_replica |-> InstanceReplica,
   rds_instance_s3 |-> InstanceS3, rds_instance_snapshot |-> InstanceSnapshot,
   rds_instance_point_in_time |-> InstancePointInTime,
   rds_cluster |-> Cluster, rds_cluster_snapshot |-> ClusterSnapshot,
   rds_cluster_s3 |-> ClusterS3, rds_cluster_point_in_time |-> ClusterPointInTime,
   rds_cluster_instance |-> ClusterInstance,
   rds_cluster_parameter_group |-> ClusterParameterGroup,
   rds_parameter_group |-> ParameterGroup, rds_subnet_group |-> SubnetGroup]
=============================================================================

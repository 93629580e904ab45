-------------------------------- MODULE Eks --------------------------------
(* internal/service/eks: clusters, add-ons and managed node groups.  The    *)
(* Fargate profile, whose lock is the point of it, is in FargateProfile.    *)
EXTENDS Steps

---------------------------------------------------------------------------
(* cluster_*.go.  The egress mode is {} when it is AWS_MANAGED, written out *)
(* or not.                                                                  *)

StaticClusterReplacement ==
  {"name", "role-arn", "bootstrap-self-managed-addons", "outpost-config"}

Egress   == {"vpc-config.control-plane-egress-mode"}
AutoMode == {"compute-config.enabled", "compute-config.node-role-arn", "elastic-load-balancing",
             "block-storage"}
Endpoint == {"vpc-config.endpoint-private-access", "vpc-config.endpoint-public-access"}
NetworkBase == {"access-config.bootstrap-cluster-creator-admin-permissions",
                "kubernetes-network-config.ip-family",
                "kubernetes-network-config.service-ipv4-cidr"}

ClusterInputs ==
  StaticClusterReplacement \cup NetworkBase \cup AutoMode \cup Endpoint \cup Egress \cup Tags
  \cup {"access-config.authentication-mode", "control-plane-scaling-config", "deletion-protection",
        "enabled-cluster-log-types", "encryption-config", "remote-network-config",
        "upgrade-policy", "version", "vpc-config.public-access-cidrs", "vpc-config.subnet-ids",
        "vpc-config.security-group-ids", "zonal-shift-config"}

WaitClusterDeleted == Gone
ReadWithClient     == Look

RetryClusterCreate(create) == Retried(create)

CreateWithClient ==
  RetryClusterCreate(Create("CreateCluster", ClusterInputs)) \o Await \o ReadWithClient

(* What the plan cannot tell from ReplaceFields is an error of Update.      *)
RequiresEgressReplacement == When(Removed(Egress), Reject)

ChangesExistingComputeRole ==
  When(Recorded({"compute-config.node-role-arn"}) \cup ChangedTo({"compute-config.node-role-arn"}),
       Reject)

ConditionalClusterReplacement ==
  When(Changed(NetworkBase), Reject)
  \o When(Recorded({"encryption-config"}) \cup Changed({"encryption-config"}), Reject)
  \o RequiresEgressReplacement \o ChangesExistingComputeRole

SyncClusterTags == Anytime(Put("SyncTags", Tags))

(* Every update is a call of its own, and waits for its own update id.      *)
RunClusterUpdate(call)       == call \o Await
RunClusterConfigUpdate(call) == RunClusterUpdate(call)

AutoModeChanged == Changed(AutoMode)

Config(f) == When(ChangedTo({f}), RunClusterConfigUpdate(Send("UpdateClusterConfig", {f})))
Whole(f)  == When(Changed({f}), RunClusterConfigUpdate(Put("UpdateClusterConfig", {f})))

UpdateCluster ==
  ConditionalClusterReplacement
  \o When(Changed(Tags), SyncClusterTags)
  \o When(ChangedTo({"version"}), RunClusterUpdate(Send("UpdateClusterVersion", {"version"})))
  \o Config("access-config.authentication-mode")
  \o When(AutoModeChanged, RunClusterConfigUpdate(Put("UpdateClusterConfig", AutoMode)))
  \o Config("control-plane-scaling-config") \o Config("deletion-protection")
  \o When(ChangedTo({"encryption-config"}),
          RunClusterUpdate(Send("AssociateEncryptionConfig", {"encryption-config"})))
  \o Whole("enabled-cluster-log-types") \o Whole("remote-network-config")
  \o Config("upgrade-policy")
  \o When(ChangedTo(Egress), RunClusterConfigUpdate(Send("UpdateClusterConfig", Egress)))
  \o When(Edited({"vpc-config.public-access-cidrs"}, Endpoint),
          RunClusterConfigUpdate(Put("UpdateClusterConfig", Endpoint)
                                 ++ Send("UpdateClusterConfig", {"vpc-config.public-access-cidrs"})))
  \o Whole("vpc-config.subnet-ids") \o Whole("vpc-config.security-group-ids")
  \o Config("zonal-shift-config")
  \o ReadWithClient

DeleteCluster     == Retried(AbsentEnds(Delete("DeleteCluster")))
DeleteWithClient  == DeleteCluster \o WaitClusterDeleted

Cluster ==
  [Resource(ClusterInputs, StaticClusterReplacement, CreateWithClient, UpdateCluster,
            DeleteWithClient)
   EXCEPT !.required = {"name", "role-arn", "bootstrap-self-managed-addons",
                        "vpc-config.subnet-ids"} \cup Endpoint,
          !.protect = {"deletion-protection"}, !.gaps = Egress,
          !.slow = {"CreateCluster", "UpdateClusterVersion", "UpdateClusterConfig",
                    "AssociateEncryptionConfig", "DeleteCluster"},
          !.together = {{"encryption-config", "deletion-protection"}}]

---------------------------------------------------------------------------
(* addon_*.go.  An add-on that was created and does not become active is    *)
(* deleted again, also when the operation has been called off.              *)

AddonReplaceFields == {"cluster-name", "addon-name", "namespace-config"}

WaitAddonCreated == Await
WaitAddonUpdate  == Await
WaitAddonDeleted == Gone
ReadAddonByName  == Look

DeleteAddonByName   == AbsentEnds(Delete("DeleteAddon")) \o WaitAddonDeleted
RollbackAddonCreate == DeleteAddonByName

RetryAddonCreate(create) == Retried(create)

AddonCreateInput ==
  Create("CreateAddon", AddonReplaceFields \cup {"addon-version", "configuration-values",
                          "pod-identity-association", "service-account-role-arn", "tags"})

CreateAddon == RetryAddonCreate(AddonCreateInput) \o WaitAddonCreated \o ReadAddonByName

AddonUpdateInput ==
  Modify("UpdateAddon", {"addon-version", "configuration-values"})
  ++ Replace("UpdateAddon", {"pod-identity-association", "service-account-role-arn"})

UpdateAddon ==
  When(Changed(Tags), Anytime(Put("SyncTags", Tags)))
  \o When(Edited({"addon-version", "configuration-values"},
                 {"pod-identity-association", "service-account-role-arn"}),
          AddonUpdateInput \o WaitAddonUpdate)
  \o ReadAddonByName

DeleteAddon == DeleteAddonByName

Addon ==
  [Resource(AddonReplaceFields \cup {"addon-version", "configuration-values",
              "pod-identity-association", "service-account-role-arn", "tags"},
            AddonReplaceFields, CreateAddon, UpdateAddon, DeleteAddon)
   EXCEPT !.required = {"cluster-name", "addon-name"}, !.cleanup = RollbackAddonCreate,
          !.slow = {"CreateAddon", "UpdateAddon", "DeleteAddon"}]

---------------------------------------------------------------------------
(* node_group_*.go.  {} is a warm pool that is not enabled.                 *)

NodeGroupReplaceFields ==
  {"cluster-name", "node-group-name", "node-role-arn", "subnet-ids", "ami-type", "capacity-type",
   "disk-size", "instance-types", "remote-access", "launch-template-id", "launch-template-name"}

WaitNodeGroupCreated == Await
WaitNodeGroupUpdate  == Await
ReadNodeGroupByName  == Look

NodeGroupVersions == {"launch-template-version", "release-version", "version"}
NodeGroupConfig   == {"labels", "node-repair-config", "scaling-config", "taints", "update-config",
                      "warm-pool-config"}

NodeGroupCreateInput ==
  Create("CreateNodegroup", NodeGroupReplaceFields \cup NodeGroupVersions \cup NodeGroupConfig
                            \cup Tags)

CreateNodeGroup == NodeGroupCreateInput \o WaitNodeGroupCreated \o ReadNodeGroupByName

(* A version that is no longer given starts an update that names none.      *)
NodeGroupVersionInput == Modify("UpdateNodegroupVersion", NodeGroupVersions)

NodeGroupLabelChanges == Diff("UpdateNodegroupConfig", {"labels"})
NodeGroupTaintChanges == Diff("UpdateNodegroupConfig", {"taints"})

NodeGroupConfigInput ==
  NodeGroupLabelChanges ++ NodeGroupTaintChanges
  ++ Replace("UpdateNodegroupConfig", {"scaling-config", "warm-pool-config"})
  ++ Modify("UpdateNodegroupConfig", {"node-repair-config", "update-config"})

RunNodeGroupUpdate(call) == call \o WaitNodeGroupUpdate

UpdateNodeGroup ==
  When(Changed(Tags), Anytime(Put("SyncTags", Tags)))
  \o When(Changed(NodeGroupVersions), RunNodeGroupUpdate(NodeGroupVersionInput))
  \o When(Edited({"node-repair-config", "update-config"},
                 {"labels", "scaling-config", "taints", "warm-pool-config"}),
          RunNodeGroupUpdate(NodeGroupConfigInput))
  \o ReadNodeGroupByName

DeleteNodeGroup == AbsentEnds(Delete("DeleteNodegroup")) \o Gone

NodeGroup ==
  [Resource(NodeGroupReplaceFields \cup NodeGroupVersions \cup NodeGroupConfig \cup Tags,
            NodeGroupReplaceFields, CreateNodeGroup, UpdateNodeGroup, DeleteNodeGroup)
   EXCEPT !.required = {"cluster-name", "node-group-name", "node-role-arn", "subnet-ids",
                        "scaling-config"},
          !.slow = {"CreateNodegroup", "UpdateNodegroupVersion", "UpdateNodegroupConfig",
                    "DeleteNodegroup"}]

---------------------------------------------------------------------------
Resources == [eks_cluster |-> Cluster, eks_addon |-> Addon, eks_node_group |-> NodeGroup]
=============================================================================

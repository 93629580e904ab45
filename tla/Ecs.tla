-------------------------------- MODULE Ecs --------------------------------
(* internal/service/ecs: clusters, capacity providers, services and tasks. *)
EXTENDS Steps

---------------------------------------------------------------------------
(* cluster_rsrc.go                                                          *)

ClusterCapacity == {"capacity-providers", "default-capacity-provider-strategy"}

WaitClusterAvailable == Await
WaitClusterDeleted   == Gone

(* Replaces both, and an absent list empties it.                            *)
ClusterPutCapacityProviders ==
  Retried(Put("PutClusterCapacityProviders", ClusterCapacity)) \o WaitClusterAvailable

ClusterCreate ==
  Create("CreateCluster", {"name", "configuration", "service-connect-defaults", "settings", "tags"})
  \o WaitClusterAvailable \o When(Given(ClusterCapacity), ClusterPutCapacityProviders)

ClusterUpdateInput ==
  Replace("UpdateCluster", {"configuration", "service-connect-defaults"})
  ++ Modify("UpdateCluster", {"settings"})

ClusterUpdate ==
  When(Edited({"settings"}, {"configuration", "service-connect-defaults"}),
       ClusterUpdateInput \o WaitClusterAvailable)
  \o When(Changed(ClusterCapacity), ClusterPutCapacityProviders)
  \o SyncTags

ClusterDelete == Retried(AbsentEnds(Delete("DeleteCluster"))) \o WaitClusterDeleted

Cluster ==
  [Resource({"name", "configuration", "service-connect-defaults", "settings", "tags"}
            \cup ClusterCapacity, {"name"}, ClusterCreate, ClusterUpdate, ClusterDelete)
   EXCEPT !.required = {"name"}, !.lags = TRUE,
          !.slow = {"CreateCluster", "UpdateCluster", "PutClusterCapacityProviders",
                    "DeleteCluster"}]

---------------------------------------------------------------------------
(* capacity_provider_rsrc.go                                                *)

CapacityProviderConfigurations == {"auto-scaling-group-provider", "managed-instances-provider"}

CapacityProviderWaitUpdated == Await
CapacityProviderWaitDeleted == Gone
CapacityProviderRead        == Look

CapacityProviderCreate ==
  Create("CreateCapacityProvider", CapacityProviderConfigurations \cup {"name", "cluster", "tags"})
  \o CapacityProviderRead

ConfiguredASG              == {"auto-scaling-group-provider"}
ConfiguredManagedInstances == {"managed-instances-provider"}

CapacityProviderUpdate ==
  When(Drifted(ConfiguredASG \cup ConfiguredManagedInstances),
       Retried(Put("UpdateCapacityProvider", CapacityProviderConfigurations))
       \o CapacityProviderWaitUpdated)
  \o When(Drifted(Tags), Anytime(Put("SyncTags", Tags)))
  \o CapacityProviderRead

CapacityProviderDelete ==
  AbsentEnds(Delete("DeleteCapacityProvider")) \o CapacityProviderWaitDeleted

CapacityProvider ==
  [Resource(CapacityProviderConfigurations \cup {"name", "cluster", "tags"}, {"name", "cluster"},
            CapacityProviderCreate, CapacityProviderUpdate, CapacityProviderDelete)
   EXCEPT !.required = {"name"}, !.slow = {"UpdateCapacityProvider", "DeleteCapacityProvider"}]

---------------------------------------------------------------------------
(* service_rsrc.go                                                          *)

ServiceReplaceFields == {"cluster", "name", "scheduling-strategy", "launch-type"}

(* Sent when changed, and cleared when no longer given.                     *)
ServiceClearable ==
  {"task-definition", "deployment-configuration", "capacity-provider-strategy", "load-balancers",
   "placement-constraints", "placement-strategy"}

(* Sent when changed and still given.                                       *)
ServiceKept ==
  {"desired-count", "network-configuration", "platform-version", "propagate-tags",
   "availability-zone-rebalancing", "enable-ecs-managed-tags", "enable-execute-command",
   "health-check-grace-period-seconds"}

WaitServiceActive   == Await
WaitServiceInactive == Gone

ServiceCreateInput == ServiceReplaceFields \cup ServiceClearable \cup ServiceKept \cup Tags

ServiceCreate == Create("CreateService", ServiceCreateInput) \o WaitServiceActive

ServiceUpdateInput ==
  Replace("UpdateService", ServiceClearable) ++ Modify("UpdateService", ServiceKept)

ServiceUpdate ==
  When(Edited(ServiceKept, ServiceClearable), Retried(ServiceUpdateInput) \o WaitServiceActive)
  \o SyncTags

(* Its tasks are drained first, unless force-delete is given.               *)
ServiceDelete ==
  AbsentEnds(Look)
  \o When(Absent({"force-delete"}), AbsentOk(Clear("UpdateService", {"desired-count"})))
  \o Retried(AbsentEnds(Delete("DeleteService"))) \o WaitServiceInactive

Service ==
  [Resource(ServiceCreateInput \cup {"force-delete"}, ServiceReplaceFields,
            ServiceCreate, ServiceUpdate, ServiceDelete)
   EXCEPT !.required = {"name", "task-definition"}, !.gaps = {"force-delete"}, !.lags = TRUE,
          !.slow = {"CreateService", "UpdateService", "DeleteService"},
          !.together = {{"desired-count", "force-delete"}}]

---------------------------------------------------------------------------
(* task_definition_rsrc.go: every registration makes another revision.      *)

TaskDefinitionReplaceFields ==
  {"family", "container-definitions", "cpu", "enable-fault-injection", "ephemeral-storage",
   "execution-role-arn", "ipc-mode", "memory", "network-mode", "pid-mode",
   "placement-constraints", "proxy-configuration", "requires-compatibilities",
   "runtime-platform", "task-role-arn", "volumes"}

TaskDefinitionRegisterInput == TaskDefinitionReplaceFields \cup Tags

TaskDefinitionCreate == Create("RegisterTaskDefinition", TaskDefinitionRegisterInput)

TaskDefinitionUpdate == SyncTags

TaskDefinitionDelete == AbsentOk(Delete("DeregisterTaskDefinition"))

TaskDefinition ==
  [Resource(TaskDefinitionRegisterInput, TaskDefinitionReplaceFields, TaskDefinitionCreate,
            TaskDefinitionUpdate, TaskDefinitionDelete)
   EXCEPT !.required = {"family", "container-definitions"}, !.named = FALSE]

---------------------------------------------------------------------------
Resources ==
  [ecs_cluster |-> Cluster, ecs_capacity_provider |-> CapacityProvider,
   ecs_service |-> Service, ecs_task_definition |-> TaskDefinition]
=============================================================================

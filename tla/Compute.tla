------------------------------ MODULE Compute ------------------------------
(* internal/service/autoscaling, lambda and lambdamicrovms.  Permissions of *)
(* a Lambda function are in LambdaPermission.                               *)
EXTENDS Steps

---------------------------------------------------------------------------
(* autoscaling/group_rsrc.go.  A group takes calls while it scales; only    *)
(* its deletion is put off, and with force-delete nothing is drained first. *)

GroupModified ==
  {"min-size", "max-size", "desired-capacity", "desired-capacity-type", "launch-template",
   "availability-zones", "vpc-zone-identifier", "default-cooldown", "default-instance-warmup",
   "max-instance-lifetime", "placement-group", "service-linked-role-arn",
   "health-check-grace-period"}

GroupWaitCapacity      == Await
GroupWaitTargetGroups  == Await
GroupRead              == Look

GroupCreateInput ==
  Create("CreateAutoScalingGroup",
         GroupModified \cup {"name", "health-check-type", "capacity-rebalance",
                             "protect-from-scale-in", "termination-policies",
                             "instance-maintenance-policy", "tags", "target-group-arns"})

SuspendProcesses == AddEach("SuspendProcesses", "suspended-processes")
ResumeProcesses  == DropEach("ResumeProcesses", "suspended-processes")
EnableMetrics    == AddEach("EnableMetricsCollection", "enabled-metrics")
DisableMetrics   == DropEach("DisableMetricsCollection", "enabled-metrics")

GroupCreate ==
  GroupCreateInput \o GroupWaitCapacity \o Anytime(SuspendProcesses \o EnableMetrics) \o GroupRead

(* Another type sends the grace period too, the one AWS shows if need be.   *)
SetHealthCheck ==
  Modify("UpdateAutoScalingGroup", {"health-check-type"})

GroupUpdateInput ==
  Modify("UpdateAutoScalingGroup", GroupModified) ++ Put("UpdateAutoScalingGroup", {"protect-from-scale-in"})
  ++ SetHealthCheck ++ Replace("UpdateAutoScalingGroup", {"capacity-rebalance"})
  ++ Replace("UpdateAutoScalingGroup", {"termination-policies"})
  ++ Replace("UpdateAutoScalingGroup", {"instance-maintenance-policy"})

GroupChanged ==
  Changed(GroupModified \cup {"health-check-type", "capacity-rebalance", "protect-from-scale-in",
                              "termination-policies", "instance-maintenance-policy"})

(* A tag with another value is removed and written again.                   *)
GroupSyncTags == DropEach("DeleteTags", "tags") \o AddEach("CreateOrUpdateTags", "tags")

GroupSyncTargetGroups ==
  DropEach("DetachLoadBalancerTargetGroups", "target-group-arns")
  \o When(Dropped({"target-group-arns"}), GroupWaitTargetGroups)
  \o AddEach("AttachLoadBalancerTargetGroups", "target-group-arns")
  \o When(Added({"target-group-arns"}), GroupWaitTargetGroups)

GroupSyncMetrics            == DisableMetrics \o EnableMetrics

GroupUpdate ==
  When(GroupChanged, Anytime(GroupUpdateInput))
  \o Anytime(GroupSyncTags \o GroupSyncTargetGroups \o ResumeProcesses \o SuspendProcesses
             \o GroupSyncMetrics)
  \o When(Changed({"min-size", "desired-capacity", "desired-capacity-type"}), GroupWaitCapacity)
  \o GroupRead

(* The sizes become zero, and no instance is protected any more.            *)
GroupClearScaleInProtection == Poke("SetInstanceProtection")
GroupDrain ==
  Anytime(Clear("UpdateAutoScalingGroup", {"min-size", "max-size", "desired-capacity"})
          \o GroupClearScaleInProtection)
  \o AbsentOk(Await)

GroupDeleteGroup == Retried(AbsentOk(GoingOk(Delete("DeleteAutoScalingGroup"))))

GroupDelete ==
  AbsentEnds(Look) \o When(Absent({"force-delete"}), GroupDrain) \o GroupDeleteGroup \o Gone

Group ==
  [Resource(GroupModified
            \cup {"name", "health-check-type", "capacity-rebalance", "protect-from-scale-in",
                  "termination-policies", "instance-maintenance-policy", "tags",
                  "target-group-arns", "suspended-processes", "enabled-metrics", "force-delete"},
            {"name"}, GroupCreate, GroupUpdate, GroupDelete)
   EXCEPT !.required = {"name", "min-size", "max-size", "launch-template"},
          !.gaps = {"force-delete"},
          !.slow = {"CreateAutoScalingGroup", "UpdateAutoScalingGroup", "DeleteAutoScalingGroup",
                    "AttachLoadBalancerTargetGroups", "DetachLoadBalancerTargetGroups"},
          !.together = {{"min-size", "force-delete"}, {"suspended-processes", "min-size"}}]

---------------------------------------------------------------------------
(* autoscaling/lifecycle_hook_rsrc.go: one call puts it, new or not.        *)

LifecycleHookInputs ==
  {"lifecycle-transition", "default-result", "heartbeat-timeout", "notification-metadata",
   "notification-target-arn", "role-arn"}

LifecycleHookRead    == Look
LifecycleHookCreate  ==
  Create("PutLifecycleHook", LifecycleHookInputs \cup {"autoscaling-group-name", "name"})
  \o LifecycleHookRead
LifecycleHookPut     == Retried(Put("PutLifecycleHook", LifecycleHookInputs))
LifecycleHookUpdate  == When(Changed(LifecycleHookInputs), LifecycleHookPut) \o LifecycleHookRead
LifecycleHookDelete  == AbsentOk(Delete("DeleteLifecycleHook"))

LifecycleHook ==
  [Resource(LifecycleHookInputs \cup {"autoscaling-group-name", "name"},
            {"autoscaling-group-name", "name"}, LifecycleHookCreate, LifecycleHookUpdate,
            LifecycleHookDelete)
   EXCEPT !.required = {"autoscaling-group-name", "name", "lifecycle-transition"},
          !.named = FALSE]

---------------------------------------------------------------------------
(* autoscaling/policy_rsrc.go                                               *)

PolicyInputs ==
  {"policy-type", "enabled", "adjustment-type", "cooldown", "estimated-instance-warmup",
   "metric-aggregation-type", "min-adjustment-magnitude", "scaling-adjustment",
   "step-adjustments", "target-tracking-configuration"}

PolicyRead    == Await     \* of a new one until it shows
PolicyCreate  ==
  Create("PutScalingPolicy", PolicyInputs \cup {"autoscaling-group-name", "name"}) \o PolicyRead
PolicyPut     == Put("PutScalingPolicy", PolicyInputs)
PolicyChanged == Changed(PolicyInputs)
PolicyUpdate  == When(PolicyChanged, PolicyPut) \o Look
PolicyDelete  == AbsentOk(Delete("DeletePolicy"))

Policy ==
  [Resource(PolicyInputs \cup {"autoscaling-group-name", "name"},
            {"autoscaling-group-name", "name"}, PolicyCreate, PolicyUpdate, PolicyDelete)
   EXCEPT !.required = {"autoscaling-group-name", "name"}, !.named = FALSE, !.lags = TRUE]

---------------------------------------------------------------------------
(* lambda/function_rsrc.go, function_blocks.go                              *)

FunctionReplaceFields == {"function-name", "package-type"}

(* Sent when given; what is no longer given stays.                          *)
FunctionSent ==
  {"role", "handler", "runtime", "description", "memory-size", "timeout", "kms-key-arn",
   "tracing-config", "ephemeral-storage"}

(* Sent when given, and empty when it was given before: ...ForUpdate.       *)
FunctionForUpdate ==
  {"layers", "environment", "vpc-config", "dead-letter-config", "image-config",
   "logging-config", "snap-start", "file-system-configs"}

FunctionWaitDescribable == Await
FunctionWaitActive      == Await
FunctionWaitUpdated     == Await
FunctionWaitGone        == Gone
FunctionRead            == Look

FunctionCreateInput ==
  Create("CreateFunction", FunctionReplaceFields \cup FunctionSent \cup FunctionForUpdate
                           \cup {"code", "architectures", "code-signing-config-arn", "tags"})

PutConcurrency ==
  When(Given({"reserved-concurrent-executions"}),
       Send("PutFunctionConcurrency", {"reserved-concurrent-executions"}))

FunctionCreate ==
  Retried(FunctionCreateInput) \o FunctionWaitDescribable \o FunctionWaitActive
  \o PutConcurrency \o FunctionRead

ReconcileCodeSigning ==
  When(Absent({"code-signing-config-arn"}),
       Clear("DeleteFunctionCodeSigningConfig", {"code-signing-config-arn"}))
  \o When(Given({"code-signing-config-arn"}),
          Send("PutFunctionCodeSigningConfig", {"code-signing-config-arn"}))

ReconcileConcurrency ==
  When(Absent({"reserved-concurrent-executions"}),
       Clear("DeleteFunctionConcurrency", {"reserved-concurrent-executions"}))
  \o PutConcurrency

UpdateConfiguration ==
  Retried(Send("UpdateFunctionConfiguration", FunctionSent)
          ++ Restore("UpdateFunctionConfiguration", FunctionForUpdate))
  \o FunctionWaitUpdated

UpdateCode == Send("UpdateFunctionCode", {"code", "architectures"}) \o FunctionWaitUpdated

ConfigChanged == Changed(FunctionSent \cup FunctionForUpdate)

PublishesVersion ==
  Given({"publish"})
  \cup Edited({"architectures"}, FunctionSent \cup FunctionForUpdate \cup {"code", "publish"})
PublishVersion == Retried(Poke("PublishVersion")) \o FunctionWaitUpdated

FunctionUpdate ==
  When(Changed({"code-signing-config-arn"}), ReconcileCodeSigning)
  \o When(ConfigChanged, UpdateConfiguration)
  \o When(Edited({"architectures"}, {"code"}), UpdateCode)
  \o When(Changed({"reserved-concurrent-executions"}), ReconcileConcurrency)
  \o SyncTags
  \o When(PublishesVersion, PublishVersion)
  \o FunctionRead

FunctionDelete ==
  When(Absent({"skip-destroy"}), AbsentOk(Delete("DeleteFunction")) \o FunctionWaitGone)

Function ==
  [Resource(FunctionReplaceFields \cup FunctionSent \cup FunctionForUpdate
            \cup {"code", "architectures", "code-signing-config-arn", "tags",
                  "reserved-concurrent-executions", "publish", "skip-destroy"},
            FunctionReplaceFields, FunctionCreate, FunctionUpdate, FunctionDelete)
   EXCEPT !.required = {"function-name", "role", "code"}, !.lags = TRUE,
          !.gaps = {"publish", "skip-destroy"}, !.keeps = {"skip-destroy"},
          !.slow = {"CreateFunction", "UpdateFunctionConfiguration", "UpdateFunctionCode",
                    "PublishVersion", "DeleteFunction"},
          !.together = {{"code", "role"}, {"code", "publish"},
                        {"reserved-concurrent-executions", "role"}}]

---------------------------------------------------------------------------
(* lambda/alias_rsrc.go                                                     *)

AliasMutable == {"function-version", "description", "routing-config"}

AliasRead           == Look
AliasCreate         == Create("CreateAlias", AliasMutable \cup {"function-name", "name"}) \o AliasRead
AliasUpdate         == When(Changed(AliasMutable), Put("UpdateAlias", AliasMutable) \o AliasRead)
AliasDelete         == AbsentOk(Delete("DeleteAlias"))

Alias ==
  [Resource(AliasMutable \cup {"function-name", "name"}, {"function-name", "name"},
            AliasCreate, AliasUpdate, AliasDelete)
   EXCEPT !.required = {"function-name", "name", "function-version"}]

---------------------------------------------------------------------------
(* lambda/event_source_mapping_rsrc.go.  Its tags are only sent by Create.  *)

MappingReplaceFields ==
  {"event-source-arn", "self-managed-event-source", "amazon-managed-kafka-event-source-config",
   "self-managed-kafka-event-source-config", "starting-position", "starting-position-timestamp",
   "queues", "topics"}

MappingModified ==
  {"function-name", "enabled", "batch-size", "bisect-batch-on-function-error",
   "maximum-batching-window-in-seconds", "maximum-record-age-in-seconds",
   "maximum-retry-attempts", "parallelization-factor", "tumbling-window-in-seconds",
   "kms-key-arn", "function-response-types", "destination-config",
   "document-db-event-source-config", "logging-config", "source-access-configurations"}

MappingReplaced ==
  {"filter-criteria", "metrics-config", "provisioned-poller-config", "scaling-config"}

MappingWaitUpdated == Await
MappingWaitDeleted == Gone
MappingRead        == Look

MappingCreateInput ==
  Create("CreateEventSourceMapping",
         MappingReplaceFields \cup MappingModified \cup MappingReplaced \cup {"tags"})

MappingCreateRetried == Retried(MappingCreateInput)
MappingCreate        == MappingCreateRetried \o Await \o MappingRead

MappingUpdateInput ==
  Modify("UpdateEventSourceMapping", MappingModified)
  ++ Replace("UpdateEventSourceMapping", MappingReplaced)

MappingUpdateChanged == Changed(MappingModified \cup MappingReplaced)

MappingUpdate ==
  When(MappingUpdateChanged, Retried(MappingUpdateInput) \o MappingWaitUpdated) \o MappingRead

MappingDelete ==
  Retried(GoingOk(AbsentOk(Delete("DeleteEventSourceMapping")))) \o MappingWaitDeleted

EventSourceMapping ==
  [Resource(MappingReplaceFields \cup MappingModified \cup MappingReplaced \cup {"tags"},
            MappingReplaceFields, MappingCreate, MappingUpdate, MappingDelete)
   EXCEPT !.required = {"function-name"}, !.gaps = {"tags"}, !.named = FALSE,
          !.slow = {"CreateEventSourceMapping", "UpdateEventSourceMapping",
                    "DeleteEventSourceMapping"}]

---------------------------------------------------------------------------
(* lambda/function_url_rsrc.go                                              *)

FunctionUrlCreate ==
  Create("CreateFunctionUrlConfig", {"function-name", "qualifier", "auth-type", "invoke-mode", "cors"})

FunctionUrlUpdate ==
  When(Edited({"invoke-mode"}, {"auth-type", "cors"}),
       Replace("UpdateFunctionUrlConfig", {"auth-type", "cors"})
       ++ Modify("UpdateFunctionUrlConfig", {"invoke-mode"}))

FunctionUrlDelete == AbsentOk(Delete("DeleteFunctionUrlConfig"))

FunctionUrl ==
  [Resource({"function-name", "qualifier", "auth-type", "invoke-mode", "cors"},
            {"function-name", "qualifier"}, FunctionUrlCreate, FunctionUrlUpdate,
            FunctionUrlDelete)
   EXCEPT !.required = {"function-name", "auth-type"}]

---------------------------------------------------------------------------
(* lambdamicrovms/microvm_image_rsrc.go                                     *)

ImageInputs ==
  {"base-image-arn", "build-role-arn", "code-artifact", "base-image-version",
   "additional-os-capabilities", "cpu-configurations", "description",
   "egress-network-connectors", "environment-variables", "hooks", "logging", "resources"}

ImageWaitReady   == Await
ImageWaitUpdated == Await
ImageRead        == Look

ImageCreateInput == Create("CreateMicrovmImage", ImageInputs \cup {"name", "tags"})
ImageUpdateInput == Send("UpdateMicrovmImage", ImageInputs)

ImageCreate == ImageCreateInput \o ImageWaitReady \o ImageRead

ImageSyncTags            == Anytime(Put("SyncTags", Tags))

ImageUpdate ==
  When(Changed(ImageInputs), ImageUpdateInput \o ImageWaitUpdated)
  \o When(ChangedTo(Tags), ImageSyncTags) \o ImageRead

(* The microVMs that run the image.                                         *)
TerminateMicrovms == Anytime(AbsentOk(Poke("TerminateMicrovm")))

ImageDelete ==
  When(Given({"terminate-on-destroy"}), TerminateMicrovms)
  \o AbsentEnds(Delete("DeleteMicrovmImage")) \o Gone

MicrovmImage ==
  [Resource(ImageInputs \cup {"name", "tags", "terminate-on-destroy"}, {"name"}, ImageCreate,
            ImageUpdate, ImageDelete)
   EXCEPT !.required = {"name", "base-image-arn", "build-role-arn", "code-artifact"},
          !.gaps = {"terminate-on-destroy"}, !.lags = TRUE,
          !.slow = {"CreateMicrovmImage", "UpdateMicrovmImage", "DeleteMicrovmImage"}]

---------------------------------------------------------------------------
Resources ==
  [autoscaling_group |-> Group, autoscaling_lifecycle_hook |-> LifecycleHook,
   autoscaling_policy |-> Policy,
   lambda_alias |-> Alias, lambda_event_source_mapping |-> EventSourceMapping,
   lambda_function |-> Function, lambda_function_url |-> FunctionUrl,
   lambdamicrovms_microvm_image |-> MicrovmImage]
=============================================================================

--------------------------- MODULE Observability ---------------------------
(* internal/service/cloudwatch, cloudwatchlogs, cloudtrail.                 *)
EXTENDS Steps

---------------------------------------------------------------------------
(* cloudwatch/dashboard_rsrc.go.  PutDashboard creates or overwrites, and   *)
(* takes no tags.                                                           *)

PutDashboard   == Send("PutDashboard", {"body"})
ReadDashboard  == Look
DashboardCreate ==
  Create("PutDashboard", {"name", "body"})
  \o ReadDashboard
  \o When(Given(Tags), Send("TagResource", Tags))
DashboardUpdate ==
  When(Changed({"body"}), PutDashboard) \o SyncTags \o ReadDashboard
DashboardDelete == Delete("DeleteDashboards")

Dashboard ==
  [Resource({"name", "body", "tags"}, {"name"}, DashboardCreate, DashboardUpdate,
            DashboardDelete)
   EXCEPT !.required = {"name", "body"}, !.named = FALSE, !.brittle = TRUE]

(* cloudwatch/metric_alarm_rsrc.go                                          *)

AlarmSettings ==
  {"comparison-operator", "evaluation-periods", "actions-enabled", "alarm-description",
   "alarm-actions", "ok-actions", "insufficient-data-actions", "datapoints-to-alarm", "dimensions",
   "evaluate-low-sample-count-percentiles", "extended-statistic", "metric-name", "metric-query",
   "namespace", "period", "statistic", "threshold", "threshold-metric-id", "treat-missing-data",
   "unit"}

PutMetricAlarm == Put("PutMetricAlarm", AlarmSettings)
ReadAlarm      == Look

AlarmCreate ==
  Create("PutMetricAlarm", {"alarm-name"} \cup AlarmSettings \cup Tags) \o ReadAlarm
AlarmUpdate == When(Changed(AlarmSettings), PutMetricAlarm) \o SyncTags \o ReadAlarm
AlarmDelete == AbsentOk(Delete("DeleteAlarms"))

MetricAlarm ==
  [Resource({"alarm-name"} \cup AlarmSettings \cup Tags, {"alarm-name"}, AlarmCreate,
            AlarmUpdate, AlarmDelete)
   EXCEPT !.required = {"alarm-name", "comparison-operator", "evaluation-periods"}, !.named = FALSE]

---------------------------------------------------------------------------
(* cloudwatchlogs/log_group_rsrc.go                                         *)

LogGroupReplaceFields == {"name", "log-group-class"}
LogGroupCreated ==
  LogGroupReplaceFields \cup {"kms-key-id", "deletion-protection-enabled", "tags"}

PutRetention ==
  Retried(Put("PutRetentionPolicy / DeleteRetentionPolicy", {"retention-in-days"}))
PutDeletionProtection ==
  Put("PutLogGroupDeletionProtection", {"deletion-protection-enabled"})
ReadLogGroup == Look

LogGroupCreate ==
  Create("CreateLogGroup", LogGroupCreated)
  \o When(Given({"retention-in-days"}), PutRetention)
  \o ReadLogGroup

LogGroupUpdate ==
  When(Changed({"retention-in-days"}), PutRetention)
  \o When(Changed({"deletion-protection-enabled"}), PutDeletionProtection)
  \o When(Changed({"kms-key-id"}), Put("AssociateKmsKey / DisassociateKmsKey", {"kms-key-id"}))
  \o SyncTags
  \o ReadLogGroup

LogGroupDelete == Retried(AbsentOk(Delete("DeleteLogGroup")))

LogGroup ==
  [Resource(LogGroupCreated \cup {"retention-in-days"}, LogGroupReplaceFields, LogGroupCreate,
            LogGroupUpdate, LogGroupDelete)
   EXCEPT !.required = {"name"}, !.protect = {"deletion-protection-enabled"},
          !.together = {{"retention-in-days", "kms-key-id"}}]

(* cloudwatchlogs/metric_filter_rsrc.go, subscription_filter_rsrc.go.  A    *)
(* put creates or overwrites, and is made when the inputs changed or the    *)
(* plan saw something else.                                                 *)

MetricFilterReplaceFields == {"filter-name", "log-group-name"}
MetricFilterSettings ==
  {"filter-pattern", "metric-transformation", "apply-on-transformed-logs"}

PutMetricFilter  == Put("PutMetricFilter", MetricFilterSettings)
ReadMetricFilter == Look

MetricFilterCreate ==
  Create("PutMetricFilter", MetricFilterReplaceFields \cup MetricFilterSettings)
  \o ReadMetricFilter
MetricFilterUpdate ==
  When(Drifted(MetricFilterSettings), PutMetricFilter) \o ReadMetricFilter
MetricFilterDelete == AbsentOk(Delete("DeleteMetricFilter"))

MetricFilter ==
  [Resource(MetricFilterReplaceFields \cup MetricFilterSettings, MetricFilterReplaceFields,
            MetricFilterCreate, MetricFilterUpdate, MetricFilterDelete)
   EXCEPT !.required = MetricFilterReplaceFields \cup {"filter-pattern", "metric-transformation"},
          !.named = FALSE]

SubscriptionFilterReplaceFields == {"destination-arn", "log-group-name", "name"}
SubscriptionFilterSettings ==
  {"filter-pattern", "role-arn", "distribution", "apply-on-transformed-logs",
   "emit-system-fields", "field-selection-criteria"}

SubscriptionFilterObserved == {"role-arn", "apply-on-transformed-logs"}

PutSubscriptionFilter  == Retried(Put("PutSubscriptionFilter", SubscriptionFilterSettings))
ReadSubscriptionFilter == Look

SubscriptionFilterCreate ==
  Retried(Create("PutSubscriptionFilter",
                 SubscriptionFilterReplaceFields \cup SubscriptionFilterSettings))
  \o ReadSubscriptionFilter
SubscriptionFilterUpdate ==
  When(DriftedOr(SubscriptionFilterObserved,
                 SubscriptionFilterSettings \ SubscriptionFilterObserved), PutSubscriptionFilter)
  \o ReadSubscriptionFilter
SubscriptionFilterDelete == AbsentOk(Delete("DeleteSubscriptionFilter"))

SubscriptionFilter ==
  [Resource(SubscriptionFilterReplaceFields \cup SubscriptionFilterSettings,
            SubscriptionFilterReplaceFields, SubscriptionFilterCreate, SubscriptionFilterUpdate,
            SubscriptionFilterDelete)
   EXCEPT !.required = SubscriptionFilterReplaceFields \cup {"filter-pattern"}, !.named = FALSE,
          !.together = {{"role-arn", "distribution"}}]

(* cloudwatchlogs/resource_policy_rsrc.go.  A policy is an account's, under *)
(* policy-name, or that of a resource.  The second kind has a revision: an  *)
(* update sends the one the plan has just read, a delete the one in the     *)
(* recorded outputs.                                                        *)

PolicyReplaceFields == {"policy-name", "resource-arn"}
PutResourcePolicy   == Send("PutResourcePolicy", {"policy-document"})
ReadResourcePolicy  == Look

ResourcePolicyUpdate ==
  When(Astray({"policy-document"}), PutResourcePolicy) \o ReadResourcePolicy

AccountPolicyCreate ==
  Create("PutResourcePolicy", {"policy-name", "policy-document"}) \o ReadResourcePolicy
AccountPolicyDelete == AbsentOk(Delete("DeleteResourcePolicy"))

AccountPolicy ==
  [Resource({"policy-name", "policy-document"}, PolicyReplaceFields, AccountPolicyCreate,
            ResourcePolicyUpdate, AccountPolicyDelete)
   EXCEPT !.required = {"policy-name", "policy-document"}, !.named = FALSE]

ResourcePolicyCreate ==
  Create("PutResourcePolicy", {"resource-arn", "policy-document"}) \o ReadResourcePolicy
ResourcePolicyRevisedUpdate ==
  When(Astray({"policy-document"}), Revised(PutResourcePolicy)) \o ReadResourcePolicy
ResourcePolicyDelete == AbsentOk(Matched(Delete("DeleteResourcePolicy")))

ResourcePolicy ==
  [Resource({"resource-arn", "policy-document"}, PolicyReplaceFields, ResourcePolicyCreate,
            ResourcePolicyRevisedUpdate, ResourcePolicyDelete)
   EXCEPT !.required = {"resource-arn", "policy-document"}]

---------------------------------------------------------------------------
(* cloudtrail/trail_rsrc.go.  enable-logging not given stands for its       *)
(* opposite; cloud-watch-logs-role-arn goes with the log group's.  A new    *)
(* trail is waited for only after the calls on it: it shows at once here.   *)

TrailReplaceFields == {"name"}
TrailDirect ==
  {"s3-bucket-name", "s3-key-prefix", "sns-topic-name", "cloud-watch-logs-log-group-arn",
   "kms-key-id", "enable-log-file-validation", "include-global-service-events",
   "is-multi-region-trail", "is-organization-trail"}
TrailSelectors == {"event-selectors", "advanced-event-selectors"}

CreateTrail               == Retried(Create("CreateTrail", {"name"} \cup TrailDirect \cup Tags))
UpdateTrail               == Retried(Replace("UpdateTrail", TrailDirect))
SetLogging                == Put("StartLogging / StopLogging", {"enable-logging"})
PutEventSelectors         == Put("PutEventSelectors", TrailSelectors)
PutInsightSelectors       == Put("PutInsightSelectors", {"insight-selectors"})
ClearInsightSelectors     == Clear("PutInsightSelectors", {"insight-selectors"})
PutAggregationConfigurations == Put("PutEventConfiguration", {"aggregation-configurations"})
ReadTrail                 == Look

TrailCreate ==
  CreateTrail
  \o When(Given({"enable-logging"}), SetLogging)
  \o When(Given(TrailSelectors), PutEventSelectors)
  \o When(Given({"insight-selectors"}), PutInsightSelectors)
  \o When(Given({"aggregation-configurations"}), PutAggregationConfigurations)
  \o ReadTrail

(* An insight needs the events that a selector lets through.  Where neither *)
(* the new selectors carry the old insights nor the old ones the new, the   *)
(* insights are taken off in between; that is the order here.               *)
UpdateSelectorsAndInsights ==
  When(Changed(TrailSelectors) \cup Changed({"insight-selectors"}), ClearInsightSelectors)
  \o When(Changed(TrailSelectors), PutEventSelectors)
  \o When(Changed({"insight-selectors"}), PutInsightSelectors)

TrailUpdate ==
  SyncTags
  \o When(Changed(TrailDirect), UpdateTrail)
  \o When(Changed({"enable-logging"}), SetLogging)
  \o UpdateSelectorsAndInsights
  \o When(Changed({"aggregation-configurations"}), PutAggregationConfigurations)
  \o ReadTrail

TrailDelete == AbsentOk(Delete("DeleteTrail"))

Trail ==
  [Resource({"name", "enable-logging", "insight-selectors", "aggregation-configurations"}
            \cup TrailDirect \cup TrailSelectors \cup Tags,
            TrailReplaceFields, TrailCreate, TrailUpdate, TrailDelete)
   EXCEPT !.required = {"name", "s3-bucket-name", "include-global-service-events"},
          !.together = {{"event-selectors", "insight-selectors"}}]

---------------------------------------------------------------------------
Resources ==
  [cloudwatch_dashboard |-> Dashboard, cloudwatch_metric_alarm |-> MetricAlarm,
   logs_log_group |-> LogGroup, logs_metric_filter |-> MetricFilter,
   logs_subscription_filter |-> SubscriptionFilter, logs_account_policy |-> AccountPolicy,
   logs_resource_policy |-> ResourcePolicy, cloudtrail_trail |-> Trail]
=============================================================================

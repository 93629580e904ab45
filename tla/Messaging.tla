----------------------------- MODULE Messaging -----------------------------
(* internal/service/sns, sqs, eventbridge, scheduler, sfn.                  *)
EXTENDS Steps

---------------------------------------------------------------------------
(* sns/topic_rsrc.go.  CreateTopic gives the topic of that name, new or     *)
(* not; every attribute follows in a call of its own.                       *)

TopicReplaceFields == {"name", "fifo-topic"}

FollowOnAttributes ==
  {"display-name", "policy", "delivery-policy", "archive-policy",
   "content-based-deduplication", "kms-master-key-id", "signature-version",
   "tracing-config", "http-success-feedback-role-arn"}

ChangedAttributes == FollowOnAttributes \cup {"fifo-throughput-scope"}

CreateAttributes  == TopicReplaceFields \cup {"fifo-throughput-scope", "tags"}

PutTopicAttributes(F) == Retried(Send("SetTopicAttributes", F))
TopicRead == Look

TopicCreate ==
  Create("CreateTopic", CreateAttributes) \o PutTopicAttributes(FollowOnAttributes) \o TopicRead
TopicUpdate ==
  When(ChangedTo(ChangedAttributes), Retried(Modify("SetTopicAttributes", ChangedAttributes)))
  \o SyncTags \o TopicRead
TopicDelete == AbsentOk(Delete("DeleteTopic"))

Topic ==
  [Resource(CreateAttributes \cup FollowOnAttributes, TopicReplaceFields, TopicCreate, TopicUpdate,
            TopicDelete)
   EXCEPT !.required = {"name"}, !.named = FALSE]

(* sns/topic_policy_rsrc.go: the policy of a topic.  Delete puts back the   *)
(* one every topic has.  Read waits until AWS has made out the principals.  *)

PutTopicPolicy  == Retried(Put("SetTopicAttributes", {"policy"}))
TopicPolicyRead == Await

TopicPolicyCreate == Retried(Create("SetTopicAttributes", {"arn", "policy"})) \o TopicPolicyRead
TopicPolicyUpdate == PutTopicPolicy \o TopicPolicyRead
TopicPolicyDelete == Retried(AbsentOk(Delete("SetTopicAttributes (default)")))

TopicPolicy ==
  [Resource({"arn", "policy"}, {"arn"}, TopicPolicyCreate, TopicPolicyUpdate, TopicPolicyDelete)
   EXCEPT !.required = {"arn", "policy"}, !.named = FALSE, !.slow = {"SetTopicAttributes"}]

(* sns/topic_subscription_rsrc.go, of a protocol that confirms itself: one  *)
(* that is still pending cannot be unsubscribed, and Delete leaves it.      *)

SubscriptionReplaceFields == {"protocol", "endpoint", "topic-arn"}

SubscriptionAttributes ==
  {"raw-message-delivery", "filter-policy", "filter-policy-scope", "redrive-policy",
   "delivery-policy", "replay-policy", "subscription-role-arn"}

WaitConfirmed           == Await
SubscriptionRead        == Look

SubscriptionCreate ==
  Create("Subscribe", SubscriptionReplaceFields \cup SubscriptionAttributes)
  \o WaitConfirmed \o SubscriptionRead

(* One call for each attribute; the scope of a filter comes with the filter *)
(* when none is given.                                                      *)
PutSubscriptionAttribute(f) == When(Changed({f}), Put("SetSubscriptionAttributes", {f}))

ReconcileAttributes ==
  Chain(PutSubscriptionAttribute,
        <<"raw-message-delivery", "filter-policy", "redrive-policy", "delivery-policy",
          "replay-policy", "subscription-role-arn", "filter-policy-scope">>)

SubscriptionUpdate == ReconcileAttributes \o SubscriptionRead
SubscriptionDelete == AbsentEnds(Delete("Unsubscribe")) \o Gone

TopicSubscription ==
  [Resource(SubscriptionReplaceFields \cup SubscriptionAttributes, SubscriptionReplaceFields,
            SubscriptionCreate, SubscriptionUpdate, SubscriptionDelete)
   EXCEPT !.required = {"protocol", "topic-arn"}, !.lags = TRUE,
          !.slow = {"Subscribe", "Unsubscribe"},
          !.together = {{"filter-policy", "filter-policy-scope"}}]

---------------------------------------------------------------------------
(* sqs/queue_rsrc.go.  A queue deleted a minute ago still holds its name,   *)
(* and what is written shows some time later.                               *)

QueueReplaceFields == {"name", "fifo-queue"}

QueueModified ==
  {"content-based-deduplication", "deduplication-scope", "fifo-throughput-limit",
   "delay-seconds", "maximum-message-size", "message-retention-period",
   "receive-message-wait-time-seconds", "visibility-timeout", "kms-master-key-id",
   "sqs-managed-sse-enabled"}

QueuePolicies   == {"policy", "redrive-policy", "redrive-allow-policy"}
QueueAttributes == QueueReplaceFields \cup QueueModified \cup QueuePolicies

WaitAttributesPropagated == Await
QueueRead                == Look
CreateQueue              == Retried(Create("CreateQueue", QueueAttributes \cup Tags))

QueueCreate == CreateQueue \o WaitAttributesPropagated \o QueueRead

QueueChangedAttributes ==
  Modify("SetQueueAttributes", QueueModified) ++ Replace("SetQueueAttributes", QueuePolicies)

QueueUpdate ==
  When(Edited(QueueModified, QueuePolicies), QueueChangedAttributes \o WaitAttributesPropagated)
  \o SyncTags \o QueueRead

QueueDelete == AbsentEnds(Delete("DeleteQueue")) \o Gone

Queue ==
  [Resource(QueueAttributes \cup Tags, QueueReplaceFields, QueueCreate, QueueUpdate, QueueDelete)
   EXCEPT !.required = {"name"}, !.lags = TRUE,
          !.slow = {"CreateQueue", "SetQueueAttributes", "DeleteQueue"}]

(* sqs/queue_policy_rsrc.go                                                 *)

PutQueuePolicy    == Retried(Put("SetQueueAttributes", {"policy"}))

QueuePolicyCreate == Retried(Create("SetQueueAttributes", {"queue-url", "policy"})) \o Await
QueuePolicyUpdate == When(Changed({"policy"}), PutQueuePolicy)
QueuePolicyDelete == AbsentOk(Delete("SetQueueAttributes (none)")) \o Gone

QueuePolicy ==
  [Resource({"queue-url", "policy"}, {"queue-url"}, QueuePolicyCreate, QueuePolicyUpdate,
            QueuePolicyDelete)
   EXCEPT !.required = {"queue-url", "policy"}, !.named = FALSE, !.lags = TRUE,
          !.slow = {"SetQueueAttributes (none)"}]

---------------------------------------------------------------------------
(* eventbridge/event_bus_rsrc.go                                            *)

BusReplaceFields == {"name", "event-source-name"}
BusConfig        == {"description", "dead-letter-config", "kms-key-identifier", "log-config"}

BusUpdateInput   ==
  Put("UpdateEventBus", {"description"}) ++ Send("UpdateEventBus", BusConfig \ {"description"})
BusRead          == Look

EventBusCreate == Create("CreateEventBus", BusReplaceFields \cup BusConfig \cup Tags) \o BusRead
EventBusUpdate == SyncTags \o When(Changed(BusConfig), BusUpdateInput) \o BusRead
EventBusDelete == AbsentOk(Delete("DeleteEventBus"))

EventBus ==
  [Resource(BusReplaceFields \cup BusConfig \cup Tags, BusReplaceFields, EventBusCreate,
            EventBusUpdate, EventBusDelete)
   EXCEPT !.required = {"name"}]

(* eventbridge/rule_rsrc.go: PutRule writes over the rule of that name.     *)

RuleReplaceFields == {"name", "event-bus-name"}
RuleConfig  == {"description", "event-pattern", "schedule-expression", "role-arn", "state"}

RuleCreate ==
  Retried(Create("PutRule", RuleReplaceFields \cup RuleConfig \cup Tags)) \o Await \o Look
PutRule        == Retried(Put("PutRule", RuleConfig))
RuleUpdate     == When(Changed(RuleConfig), PutRule) \o SyncTags
RuleDelete     == Retried(AbsentOk(Delete("DeleteRule")))

Rule ==
  [Resource(RuleReplaceFields \cup RuleConfig \cup Tags, RuleReplaceFields, RuleCreate, RuleUpdate,
            RuleDelete)
   EXCEPT !.required = {"name"}, !.named = FALSE, !.lags = TRUE]

(* eventbridge/target_rsrc.go.  A target without an id gets one at random.  *)

TargetReplaceFields == {"event-bus-name", "rule", "target-id"}

TargetConfig ==
  {"arn", "role-arn", "input", "input-path", "input-transformer", "retry-policy",
   "dead-letter-config", "ecs-parameters"}

TargetRead    == Look
PutTargets    == Retried(Put("PutTargets", TargetConfig))
TargetChanged == Changed(TargetConfig)

TargetCreate ==
  Retried(Create("PutTargets", TargetReplaceFields \cup TargetConfig)) \o TargetRead
TargetUpdate == When(TargetChanged, PutTargets) \o TargetRead
TargetDelete == Retried(AbsentOk(Delete("RemoveTargets")))

Target ==
  [Resource(TargetReplaceFields \cup TargetConfig, TargetReplaceFields, TargetCreate, TargetUpdate,
            TargetDelete)
   EXCEPT !.required = {"rule", "arn"}, !.named = FALSE]

---------------------------------------------------------------------------
(* scheduler/schedule_rsrc.go: an update sends the whole schedule.          *)

ScheduleReplaceFields == {"name", "group-name"}

ScheduleConfig ==
  {"action-after-completion", "description", "end-date", "flexible-time-window",
   "kms-key-arn", "schedule-expression", "schedule-expression-timezone", "start-date",
   "state", "target"}

ScheduleRead         == Look
MutableInputsChanged == Changed(ScheduleConfig)

ScheduleCreate ==
  Retried(Create("CreateSchedule", ScheduleReplaceFields \cup ScheduleConfig)) \o ScheduleRead
ScheduleUpdate ==
  When(MutableInputsChanged, Retried(Put("UpdateSchedule", ScheduleConfig))) \o ScheduleRead
ScheduleDelete == AbsentOk(Delete("DeleteSchedule"))

Schedule ==
  [Resource(ScheduleReplaceFields \cup ScheduleConfig, ScheduleReplaceFields, ScheduleCreate,
            ScheduleUpdate, ScheduleDelete)
   EXCEPT !.required = {"name", "schedule-expression", "target", "flexible-time-window"}]

---------------------------------------------------------------------------
(* sfn/state_machine_rsrc.go, state_machine_lifecycle.go.  After an update  *)
(* the machine is described until it shows what was written.                *)

StateMachineReplaceFields == {"name", "type"}

StateMachineConfiguration ==
  {"definition", "role-arn", "encryption-configuration", "logging-configuration",
   "tracing-configuration"}

ReadStateMachine == Look

CreateStateMachine ==
  Retried(Create("CreateStateMachine",
                 StateMachineReplaceFields \cup StateMachineConfiguration \cup Tags))
  \o ReadStateMachine

UpdateStateMachine ==
  SyncTags
  \o When(Changed(StateMachineConfiguration),
          Put("UpdateStateMachine", {"definition", "role-arn"})
          ++ Modify("UpdateStateMachine",
                    StateMachineConfiguration \ {"definition", "role-arn"}))
  \o When(Changed(StateMachineConfiguration), Await)
  \o ReadStateMachine

DeleteStateMachine == AbsentOk(Delete("DeleteStateMachine")) \o Gone

StateMachine ==
  [Resource(StateMachineReplaceFields \cup StateMachineConfiguration \cup Tags,
            StateMachineReplaceFields, CreateStateMachine, UpdateStateMachine, DeleteStateMachine)
   EXCEPT !.required = {"name", "type", "definition", "role-arn"},
          !.slow = {"UpdateStateMachine", "DeleteStateMachine"}]

---------------------------------------------------------------------------
Resources ==
  [sns_topic |-> Topic, sns_topic_policy |-> TopicPolicy,
   sns_topic_subscription |-> TopicSubscription, sqs_queue |-> Queue,
   sqs_queue_policy |-> QueuePolicy, eventbridge_event_bus |-> EventBus,
   eventbridge_rule |-> Rule, eventbridge_target |-> Target, scheduler_schedule |-> Schedule,
   sfn_state_machine |-> StateMachine]
=============================================================================

-------------------------------- MODULE Elb --------------------------------
(* internal/service/elbv2: load balancers, listeners and their rules and    *)
(* certificates, target groups and what is registered in them.  Partitions  *)
(* that take no tags on a create call, and attributes that a type of load   *)
(* balancer does not have, are left out.                                    *)
EXTENDS Steps

---------------------------------------------------------------------------
(* load_balancer_rsrc.go                                                    *)

LoadBalancerReplaceFields ==
  {"name", "internal", "load-balancer-type", "customer-owned-ipv4-pool"}

LoadBalancerAttributes ==
  {"idle-timeout", "enable-deletion-protection", "enable-http2", "enable-cross-zone-load-balancing",
   "desync-mitigation-mode", "drop-invalid-header-fields", "preserve-host-header",
   "enable-xff-client-port", "xff-header-processing-mode", "client-keep-alive",
   "enable-tls-version-and-cipher-suite-headers", "dns-record-client-routing-policy",
   "access-logs", "connection-logs"}

LoadBalancerWaitActive == Await
LoadBalancerRead       == Look

LoadBalancerCreateInput ==
  Create("CreateLoadBalancer",
         LoadBalancerReplaceFields \cup {"ip-address-type", "security-groups", "subnets",
                                         "subnet-mappings", "tags"})

LoadBalancerModifyAttributes ==
  When(Given(LoadBalancerAttributes), Send("ModifyLoadBalancerAttributes", LoadBalancerAttributes))

LoadBalancerCreate ==
  LoadBalancerCreateInput \o LoadBalancerWaitActive
  \o LoadBalancerModifyAttributes \o When(Given(LoadBalancerAttributes), LoadBalancerWaitActive)
  \o LoadBalancerRead

LoadBalancerAttributesChanged == Changed(LoadBalancerAttributes)

LoadBalancerSetSecurityGroups == Send("SetSecurityGroups", {"security-groups"})
LoadBalancerSetSubnets        == Send("SetSubnets", {"subnets", "subnet-mappings", "ip-address-type"})
LoadBalancerSetIpAddressType  ==
  When(Given({"ip-address-type"}), Send("SetIpAddressType", {"ip-address-type"}))

LoadBalancerUpdate ==
  When(LoadBalancerAttributesChanged, LoadBalancerModifyAttributes)
  \o When(ChangedTo({"security-groups"}), LoadBalancerSetSecurityGroups)
  \o When(ChangedTo({"subnets", "subnet-mappings"}), LoadBalancerSetSubnets)
  \o When(Changed({"ip-address-type"}), LoadBalancerSetIpAddressType)
  \o SyncTags \o LoadBalancerWaitActive \o LoadBalancerRead

LoadBalancerDelete == AbsentEnds(Delete("DeleteLoadBalancer"))

LoadBalancer ==
  [Resource(LoadBalancerReplaceFields \cup LoadBalancerAttributes
            \cup {"ip-address-type", "security-groups", "subnets", "subnet-mappings", "tags"},
            LoadBalancerReplaceFields, LoadBalancerCreate, LoadBalancerUpdate, LoadBalancerDelete)
   EXCEPT !.required = {"name"}, !.protect = {"enable-deletion-protection"}, !.lags = TRUE,
          !.slow = {"CreateLoadBalancer"}, !.together = {{"subnets", "ip-address-type"}}]

---------------------------------------------------------------------------
(* listener_rsrc.go                                                         *)

ListenerModified ==
  {"port", "protocol", "ssl-policy", "certificate-arn", "alpn-policy", "default-action"}

ListenerWaitVisible == Await
ListenerFind        == Look

ListenerCreateInput ==
  Create("CreateListener", ListenerModified \cup {"load-balancer-arn", "tags"})

ListenerCreateListener == Retried(ListenerCreateInput)

ListenerModifyInput    == Send("ModifyListener", ListenerModified)
ListenerModifyListener == Retried(ListenerModifyInput)

ListenerCreate == ListenerCreateListener \o ListenerWaitVisible \o ListenerFind

ListenerUpdate ==
  When(Changed(ListenerModified), ListenerModifyListener) \o SyncTags \o ListenerFind

ListenerDelete == AbsentEnds(Delete("DeleteListener"))

Listener ==
  [Resource(ListenerModified \cup {"load-balancer-arn", "tags"}, {"load-balancer-arn"},
            ListenerCreate, ListenerUpdate, ListenerDelete)
   EXCEPT !.required = {"load-balancer-arn", "default-action"}, !.lags = TRUE]

---------------------------------------------------------------------------
(* listener_rule_rsrc.go.  A rule without a priority takes the one after    *)
(* the highest there is, and another when someone else has taken that.      *)

RuleNextPriority == << >>     \* a listing, no state of its own

RuleCreateCall ==
  RuleNextPriority
  \o Create("CreateRule", {"listener-arn", "priority", "actions", "conditions", "tags"})

RuleCreate == RuleCreateCall \o Await \o Look

RuleUpdate ==
  When(ChangedTo({"priority"}), Send("SetRulePriorities", {"priority"}))
  \o When(Changed({"actions", "conditions"}), Replace("ModifyRule", {"actions", "conditions"}))
  \o SyncTags

RuleDelete == AbsentEnds(Delete("DeleteRule"))

ListenerRule ==
  [Resource({"listener-arn", "priority", "actions", "conditions", "tags"}, {"listener-arn"},
            RuleCreate, RuleUpdate, RuleDelete)
   EXCEPT !.required = {"listener-arn", "actions", "conditions"}, !.lags = TRUE,
          !.together = {{"priority", "actions"}}]

---------------------------------------------------------------------------
(* listener_certificate_rsrc.go                                             *)

CertificateReplaceFields == {"listener-arn", "certificate-arn"}

CertificateCreate ==
  Retried(Create("AddListenerCertificates", CertificateReplaceFields)) \o Await

CertificateDelete == AbsentEnds(Delete("RemoveListenerCertificates"))

ListenerCertificate ==
  [Resource(CertificateReplaceFields, CertificateReplaceFields, CertificateCreate, << >>,
            CertificateDelete)
   EXCEPT !.required = CertificateReplaceFields, !.named = FALSE, !.lags = TRUE]

---------------------------------------------------------------------------
(* target_group_rsrc.go                                                     *)

TargetGroupReplaceFields ==
  {"name", "port", "protocol", "protocol-version", "vpc-id", "target-type", "ip-address-type",
   "target-control-port"}

HealthCheck ==
  {"health-check-enabled", "health-check-protocol", "health-check-port", "health-check-path",
   "health-check-interval-seconds", "health-check-timeout-seconds", "healthy-threshold-count",
   "unhealthy-threshold-count", "matcher"}

TargetGroupAttributes ==
  {"deregistration-delay", "slow-start", "load-balancing-algorithm-type",
   "load-balancing-cross-zone-enabled", "preserve-client-ip", "proxy-protocol-v2",
   "connection-termination", "lambda-multi-value-headers-enabled"}

TargetGroupWaitVisible == Await
TargetGroupRead        == Look

TargetGroupCreateInput ==
  Create("CreateTargetGroup", TargetGroupReplaceFields \cup HealthCheck \cup Tags)

Attributes        == Send("ModifyTargetGroupAttributes", TargetGroupAttributes \cup {"stickiness"})

TargetGroupCreate ==
  TargetGroupCreateInput \o TargetGroupWaitVisible
  \o When(Given(TargetGroupAttributes \cup {"stickiness"}), Attributes)
  \o TargetGroupRead

ModifyHealthCheck  == Send("ModifyTargetGroup", HealthCheck)

(* Stickiness that is no longer given is switched off.                      *)
ChangedStickiness == Replace("ModifyTargetGroupAttributes", {"stickiness"})
ChangedAttributes ==
  Modify("ModifyTargetGroupAttributes", TargetGroupAttributes) ++ ChangedStickiness

TargetGroupUpdate ==
  When(Given(HealthCheck) \cup Changed(HealthCheck), ModifyHealthCheck)
  \o When(Edited(TargetGroupAttributes, {"stickiness"}), ChangedAttributes)
  \o SyncTags \o TargetGroupRead

TargetGroupDelete == Retried(AbsentEnds(Delete("DeleteTargetGroup")))

TargetGroup ==
  [Resource(TargetGroupReplaceFields \cup HealthCheck \cup TargetGroupAttributes
            \cup {"stickiness", "tags"}, TargetGroupReplaceFields, TargetGroupCreate,
            TargetGroupUpdate, TargetGroupDelete)
   EXCEPT !.required = {"name"}, !.lags = TRUE,
          !.together = {{"stickiness", "slow-start"}}]

---------------------------------------------------------------------------
(* target_group_attachment_rsrc.go.  Registering again is no error, but     *)
(* Delete does not know the errors by which Read tells that a target, or    *)
(* its group, is gone.                                                      *)

AttachmentReplaceFields ==
  {"target-group-arn", "target-id", "availability-zone", "port", "quic-server-id"}

AttachmentRegister == Create("RegisterTargets", AttachmentReplaceFields)
AttachmentCreate   == Retried(AttachmentRegister)
AttachmentDelete   == Delete("DeregisterTargets")

TargetGroupAttachment ==
  [Resource(AttachmentReplaceFields, AttachmentReplaceFields, AttachmentCreate, << >>,
            AttachmentDelete)
   EXCEPT !.required = {"target-group-arn", "target-id"}, !.named = FALSE, !.brittle = TRUE]

---------------------------------------------------------------------------
Resources ==
  [elb_load_balancer |-> LoadBalancer, elb_listener |-> Listener,
   elb_listener_rule |-> ListenerRule, elb_listener_certificate |-> ListenerCertificate,
   elb_target_group |-> TargetGroup, elb_target_group_attachment |-> TargetGroupAttachment]
=============================================================================

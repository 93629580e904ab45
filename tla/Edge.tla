------------------------------- MODULE Edge -------------------------------
(* internal/service/cloudfront and route53.                                 *)
EXTENDS Steps

---------------------------------------------------------------------------
(* cloudfront/distribution_rsrc.go, distribution_lifecycle.go.  An update  *)
(* starts from the configuration AWS shows, and lays the changed inputs     *)
(* over it.  Every IfMatch here is read right before the call that sends it.*)

DistributionConfig ==
  {"enabled", "aliases", "comment", "default-root-object", "price-class", "http-version",
   "is-ipv6-enabled", "web-acl-id", "origins", "default-cache-behavior", "cache-behaviors",
   "custom-error-responses", "viewer-certificate", "restrictions", "logging"}

WaitDistributionDeployed == Await
DistributionRead         == Look

DistributionCreate ==
  Create("CreateDistributionWithTags", DistributionConfig \cup {"tags"})
  \o WaitDistributionDeployed \o DistributionRead

DistributionConfigChanged == Changed(DistributionConfig)
OverlayChangedConfig      == Replace("UpdateDistribution", DistributionConfig)
UpdatedConfig             == Look
UpdateConfig              == OverlayChangedConfig

DistributionUpdate ==
  When(DistributionConfigChanged, UpdatedConfig \o UpdateConfig \o WaitDistributionDeployed)
  \o SyncTags \o DistributionRead

ApplyDisable        == AbsentEnds(Clear("UpdateDistribution", {"enabled"}))
DisableDistribution ==
  AbsentEnds(Look)
  \o WhenLive(Has({"enabled"}), WaitDistributionDeployed \o ApplyDisable \o WaitDistributionDeployed)

DeleteDistribution == Retried(AbsentOk(Delete("DeleteDistribution"))) \o Gone
DistributionDelete == DisableDistribution \o DeleteDistribution

Distribution ==
  [Resource(DistributionConfig \cup {"tags"}, {}, DistributionCreate, DistributionUpdate,
            DistributionDelete)
   EXCEPT !.required = {"origins", "default-cache-behavior"}, !.holds = {"enabled"},
          !.named = FALSE,
          !.slow = {"CreateDistributionWithTags", "UpdateDistribution", "DeleteDistribution"},
          !.together = {{"enabled", "comment"}}]

---------------------------------------------------------------------------
(* cloudfront/function_rsrc.go.  Publishing makes the code of the           *)
(* DEVELOPMENT stage that of LIVE; it is wanted unless it is said not to be.*)

FunctionConfig == {"comment", "runtime", "key-value-store-associations"}
FunctionCode   == {"code-content", "code-path"}

(* Two describes, of one stage each.                                        *)
EdgeFunctionRead == Look

PublishFunction == When(Absent({"no-publish"}), Matched(Poke("PublishFunction")))

EdgeFunctionCreate ==
  Create("CreateFunction", FunctionConfig \cup FunctionCode \cup {"name"})
  \o PublishFunction \o EdgeFunctionRead

EdgeFunctionChanged == Changed(FunctionConfig \cup FunctionCode)

EdgeFunctionUpdate ==
  When(EdgeFunctionChanged, Matched(Put("UpdateFunction", FunctionConfig \cup FunctionCode)))
  \o PublishFunction \o EdgeFunctionRead

EdgeFunctionDelete == Matched(AbsentOk(Delete("DeleteFunction")))

EdgeFunction ==
  [Resource(FunctionConfig \cup FunctionCode \cup {"name", "no-publish"}, {"name"},
            EdgeFunctionCreate, EdgeFunctionUpdate, EdgeFunctionDelete)
   EXCEPT !.required = {"name", "runtime"}, !.gaps = {"no-publish"},
          !.together = {{"code-content", "no-publish"}}]

---------------------------------------------------------------------------
(* cloudfront/origin_access_control_rsrc.go: Update sends all of it, with   *)
(* or without a change.                                                     *)

AccessControlConfig ==
  {"name", "description", "origin-access-control-origin-type", "signing-behavior",
   "signing-protocol"}

AccessControlRead   == Look
AccessControlCreate == Create("CreateOriginAccessControl", AccessControlConfig)
AccessControlUpdate ==
  Matched(Put("UpdateOriginAccessControl", AccessControlConfig)) \o AccessControlRead
AccessControlDelete == Matched(AbsentOk(Delete("DeleteOriginAccessControl")))

OriginAccessControl ==
  [Resource(AccessControlConfig, {}, AccessControlCreate, AccessControlUpdate,
            AccessControlDelete)
   EXCEPT !.required = AccessControlConfig \ {"description"}]

---------------------------------------------------------------------------
(* cloudfront/response_headers_policy_rsrc.go                               *)

HeadersPolicyConfig ==
  {"name", "comment", "cors-config", "custom-headers-config", "remove-headers-config",
   "security-headers-config", "server-timing-headers-config"}

HeadersPolicyRead   == Look
HeadersPolicyCreate == Create("CreateResponseHeadersPolicy", HeadersPolicyConfig)
HeadersPolicyUpdate ==
  Matched(Put("UpdateResponseHeadersPolicy", HeadersPolicyConfig)) \o HeadersPolicyRead
HeadersPolicyDelete == Matched(AbsentOk(Delete("DeleteResponseHeadersPolicy")))

ResponseHeadersPolicy ==
  [Resource(HeadersPolicyConfig, {}, HeadersPolicyCreate, HeadersPolicyUpdate,
            HeadersPolicyDelete)
   EXCEPT !.required = {"name"}]

---------------------------------------------------------------------------
(* route53/hosted_zone_rsrc.go.  A caller reference made up for each call   *)
(* lets any number of zones have one name.                                  *)

WaitChangeInsync == Await
ZoneRead         == Look

AssociateVPC     == Add("AssociateVPCWithHostedZone", {"vpcs"}) \o WaitChangeInsync
DisassociateVPC  == Drop("DisassociateVPCFromHostedZone", {"vpcs"}) \o WaitChangeInsync

(* The zone is made with the first VPC; the others follow.                  *)
AssociateOthers  == When(Given({"vpcs"}), Send("AssociateVPCWithHostedZone", {"vpcs"}) \o WaitChangeInsync)

ZoneCreate ==
  Create("CreateHostedZone", {"name", "comment", "delegation-set-id", "vpcs"})
  \o WaitChangeInsync \o AssociateOthers
  \o When(Given({"tags"}), Send("ChangeTagsForResource", {"tags"})) \o ZoneRead

(* New VPCs come before old ones go: a private zone has always one.         *)
ReconcileVPCs ==
  When(Added({"vpcs"}), Strict(AssociateVPC)) \o When(Dropped({"vpcs"}), Strict(DisassociateVPC))

ZoneUpdate ==
  When(Changed({"comment"}), Put("UpdateHostedZoneComment", {"comment"})) \o ReconcileVPCs
  \o SyncTags \o ZoneRead

DeleteRecordBatch == AbsentOk(Poke("ChangeResourceRecordSets")) \o AbsentOk(WaitChangeInsync)
PurgeRecords      == When(Given({"force-destroy"}), DeleteRecordBatch)

ZoneDelete ==
  AbsentEnds(Look) \o PurgeRecords \o AbsentEnds(Delete("DeleteHostedZone"))
  \o Gone

HostedZone ==
  [Resource({"name", "comment", "delegation-set-id", "vpcs", "tags", "force-destroy"},
            {"name", "delegation-set-id"}, ZoneCreate, ZoneUpdate, ZoneDelete)
   EXCEPT !.required = {"name"}, !.gaps = {"force-destroy"}, !.named = FALSE,
          !.slow = {"CreateHostedZone", "AssociateVPCWithHostedZone",
                    "DisassociateVPCFromHostedZone"}]

---------------------------------------------------------------------------
(* route53/record_set_rsrc.go.  Create is an UPSERT: it takes over a record *)
(* set that is there.  Delete resubmits the record set it has just read.    *)

RecordSetKey == {"zone-id", "name", "type", "set-identifier"}

RecordSetBody ==
  {"records", "ttl", "health-check-id", "alias", "weighted-routing-policy",
   "latency-routing-policy", "failover-routing-policy", "geolocation-routing-policy",
   "multivalue-answer-routing-policy"}

RecordSetRead == Look

RecordSetCreate ==
  Create("ChangeResourceRecordSets", RecordSetKey \cup RecordSetBody) \o WaitChangeInsync
  \o RecordSetRead
RecordSetUpdate ==
  When(Changed(RecordSetBody), Put("ChangeResourceRecordSets", RecordSetBody) \o WaitChangeInsync)
  \o RecordSetRead

(* A batch refused as invalid counts as deleted too.                        *)
RecordSetDelete ==
  AbsentEnds(Look) \o AbsentEnds(Delete("ChangeResourceRecordSets")) \o Gone

RecordSet ==
  [Resource(RecordSetKey \cup RecordSetBody, RecordSetKey, RecordSetCreate, RecordSetUpdate,
            RecordSetDelete)
   EXCEPT !.required = {"zone-id", "name", "type"}, !.named = FALSE]

---------------------------------------------------------------------------
Resources ==
  [cloudfront_distribution |-> Distribution, cloudfront_function |-> EdgeFunction,
   cloudfront_origin_access_control |-> OriginAccessControl,
   cloudfront_response_headers_policy |-> ResponseHeadersPolicy,
   route53_hosted_zone |-> HostedZone, route53_record_set |-> RecordSet]
=============================================================================

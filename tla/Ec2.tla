-------------------------------- MODULE Ec2 --------------------------------
(* internal/service/ec2: networks, instances and volumes.  EC2 names what   *)
(* it makes, so that a Create whose answer is lost leaves an object behind  *)
(* and makes another; a new one may not show at once.                       *)
EXTENDS Steps

LOCAL Unnamed(r) == [r EXCEPT !.named = FALSE, !.lags = TRUE]

---------------------------------------------------------------------------
(* vpc_rsrc.go                                                              *)

VpcInputs ==
  {"cidr-block", "instance-tenancy", "amazon-provided-ipv6-cidr-block", "ipv4-ipam-pool-id",
   "ipv4-netmask-length", "ipv6-cidr-block", "ipv6-cidr-block-network-border-group",
   "ipv6-ipam-pool-id", "ipv6-netmask-length"}

VpcCreate == Create("CreateVpc", VpcInputs) \o Await

VpcDelete == Retried(AbsentOk(Delete("DeleteVpc")))

Vpc == [Unnamed(Resource(VpcInputs, VpcInputs, VpcCreate, << >>, VpcDelete))
        EXCEPT !.slow = {"CreateVpc"}]

---------------------------------------------------------------------------
(* subnet_rsrc.go                                                           *)

SubnetReplaceFields ==
  {"vpc-id", "cidr-block", "availability-zone", "availability-zone-id", "outpost-arn",
   "ipv4-ipam-pool-id", "ipv4-netmask-length", "ipv6-ipam-pool-id", "ipv6-native",
   "ipv6-netmask-length", "ipv6-cidr-block"}

(* Each is set by a call of its own, but for the last two.                  *)
SubnetAttributes ==
  << {"enable-dns64"}, {"assign-ipv6-address-on-creation"}, {"enable-lni-at-device-index"},
     {"enable-resource-name-dns-aaaa-record-on-launch"},
     {"enable-resource-name-dns-a-record-on-launch"}, {"map-public-ip-on-launch"},
     {"private-dns-hostname-type-on-launch"},
     {"customer-owned-ipv4-pool", "map-customer-owned-ip-on-launch"} >>

SubnetWaitAvailable == Await
SubnetWaitAttribute == Await
SubnetWaitIpv6Block == When(Given({"ipv6-cidr-block"}), Await)
SubnetRead          == Look

SubnetSetOnCreate(F) ==
  When(Given(F), WhenLive(Differs(F), Send("ModifySubnetAttribute", F) \o SubnetWaitAttribute))

SubnetSetOnUpdate(F) ==
  When(ChangedTo(F), Send("ModifySubnetAttribute", F) \o SubnetWaitAttribute)

SubnetReconcileOnCreate == Chain(SubnetSetOnCreate, SubnetAttributes)
SubnetReconcileOnUpdate == Chain(SubnetSetOnUpdate, SubnetAttributes)

SubnetCreate ==
  Create("CreateSubnet", SubnetReplaceFields \cup Tags) \o SubnetWaitAvailable
  \o SubnetReconcileOnCreate \o SubnetWaitIpv6Block \o SubnetRead

SubnetUpdate == SubnetReconcileOnUpdate \o SyncTags \o SubnetRead

SubnetDelete == Retried(AbsentOk(Delete("DeleteSubnet")))

Subnet ==
  [Unnamed(Resource(UNION {SubnetAttributes[i] : i \in DOMAIN SubnetAttributes}
                    \cup SubnetReplaceFields \cup Tags, SubnetReplaceFields,
                    SubnetCreate, SubnetUpdate, SubnetDelete))
   EXCEPT !.required = {"vpc-id"}, !.slow = {"CreateSubnet"}]

---------------------------------------------------------------------------
(* nat_gateway_rsrc.go, in each of its two connectivity types.              *)

NatGatewayInputs ==
  {"subnet-id", "connectivity-type", "allocation-id", "private-ip", "secondary-allocation-ids",
   "secondary-private-ip-addresses", "secondary-private-ip-address-count", "tags"}

NatGatewayReplaceFields ==
  {"allocation-id", "connectivity-type", "private-ip", "subnet-id",
   "secondary-private-ip-address-count"}

NatGatewayWaitCreated           == Await
NatGatewayWaitAddress           == Await
NatGatewayWaitDeleted           == Gone
NatGatewayRead                  == Look

NatGatewayCreate == Create("CreateNatGateway", NatGatewayInputs) \o NatGatewayWaitCreated \o NatGatewayRead

NatGatewayChange(F, add, drop) ==
  When(Given(F), When(Added(F), Add(add, F) \o NatGatewayWaitAddress)
                 \o When(Dropped(F), Drop(drop, F) \o NatGatewayWaitAddress))

NatGatewayReconcileSecondaryAllocations ==
  NatGatewayChange({"secondary-allocation-ids"},
                   "AssociateNatGatewayAddress", "DisassociateNatGatewayAddress")

NatGatewayReconcilePrivateAddresses ==
  NatGatewayChange({"secondary-private-ip-addresses"},
                   "AssignPrivateNatGatewayAddress", "UnassignPrivateNatGatewayAddress")

NatGatewayWaitAppliancesDetached == AbsentOk(Await)

NatGatewayDelete ==
  NatGatewayWaitAppliancesDetached \o AbsentEnds(Delete("DeleteNatGateway")) \o NatGatewayWaitDeleted

NatGatewayOf(update) ==
  [Unnamed(Resource(NatGatewayInputs, NatGatewayReplaceFields, NatGatewayCreate,
                    update \o SyncTags \o NatGatewayRead, NatGatewayDelete))
   EXCEPT !.required = {"subnet-id", "connectivity-type"},
          !.slow = {"CreateNatGateway", "AssociateNatGatewayAddress", "DisassociateNatGatewayAddress",
                    "AssignPrivateNatGatewayAddress", "UnassignPrivateNatGatewayAddress",
                    "DeleteNatGateway"}]

(* A public gateway's private addresses change only with its allocations.   *)
NatGatewayPublic ==
  [NatGatewayOf(NatGatewayReconcileSecondaryAllocations)
   EXCEPT !.gaps = {"secondary-private-ip-addresses"}]

NatGatewayPrivate ==
  [NatGatewayOf(NatGatewayReconcilePrivateAddresses)
   EXCEPT !.inputs = @ \ {"allocation-id", "secondary-allocation-ids"}]

---------------------------------------------------------------------------
(* eip_rsrc.go                                                              *)

EipReplaceFields ==
  {"address", "domain", "ipam-pool-id", "network-border-group", "public-ipv4-pool",
   "customer-owned-ipv4-pool"}

EipWaitExists       == Await
EipWaitIpamReleased == When(Given({"ipam-pool-id"}), Gone)
EipRead             == Look

EipCreate == Create("AllocateAddress", EipReplaceFields \cup Tags) \o EipWaitExists \o EipRead

EipUpdate == SyncTags \o EipRead

EipDelete ==
  AbsentEnds(Look) \o AbsentOk(Poke("DisassociateAddress"))
  \o AbsentOk(Delete("ReleaseAddress")) \o EipWaitIpamReleased

Eip == Unnamed(Resource(EipReplaceFields \cup Tags, EipReplaceFields, EipCreate, EipUpdate, EipDelete))

---------------------------------------------------------------------------
(* internet_gateway_rsrc.go: a gateway is attached to at most one VPC, and  *)
(* cannot be deleted while it is.                                           *)

InternetGatewayWaitAttached == Await
InternetGatewayWaitDetached == Await
InternetGatewayReadCreated  == Await

(* Called again while the new gateway is not found.                         *)
InternetGatewayAttach ==
  Await \o Retried(Put("AttachInternetGateway", {"vpc-id"})) \o InternetGatewayWaitAttached

InternetGatewayDetach ==
  Retried(AbsentOk(Clear("DetachInternetGateway", {"vpc-id"}))) \o InternetGatewayWaitDetached

InternetGatewayReconcileAttachment ==
  WhenLive(Differs({"vpc-id"}) \cup Has({"vpc-id"}), InternetGatewayDetach)
  \o When(Given({"vpc-id"}), WhenLive(Differs({"vpc-id"}), InternetGatewayAttach))

InternetGatewayCreate ==
  Create("CreateInternetGateway", Tags) \o InternetGatewayReconcileAttachment
  \o InternetGatewayReadCreated

InternetGatewayUpdate ==
  Look \o InternetGatewayReconcileAttachment \o SyncTags \o Look

InternetGatewayDelete ==
  AbsentEnds(Look) \o WhenLive(Has({"vpc-id"}), InternetGatewayDetach)
  \o Retried(AbsentOk(Delete("DeleteInternetGateway")))

InternetGateway ==
  [Unnamed(Resource({"vpc-id", "tags"}, {}, InternetGatewayCreate, InternetGatewayUpdate,
                    InternetGatewayDelete))
   EXCEPT !.holds = {"vpc-id"}, !.slow = {"AttachInternetGateway", "DetachInternetGateway"}]

---------------------------------------------------------------------------
(* key_pair_rsrc.go                                                         *)

KeyPairRead == Look

KeyPairCreate == Create("ImportKeyPair", {"key-name", "public-key", "tags"}) \o KeyPairRead

KeyPairUpdate == When(Changed(Tags), SyncTags \o KeyPairRead)

KeyPairDelete == AbsentOk(Delete("DeleteKeyPair"))

KeyPair ==
  [Resource({"key-name", "public-key", "tags"}, {"key-name", "public-key"},
            KeyPairCreate, KeyPairUpdate, KeyPairDelete)
   EXCEPT !.required = {"key-name", "public-key"}]

---------------------------------------------------------------------------
(* route_rsrc.go: a route is known by its table and destination.            *)

RouteDestination ==
  {"route-table-id", "destination-cidr-block", "destination-ipv6-cidr-block",
   "destination-prefix-list-id"}

RouteTarget ==
  {"carrier-gateway-id", "core-network-arn", "egress-only-gateway-id", "gateway-id",
   "local-gateway-id", "nat-gateway-id", "network-interface-id", "transit-gateway-id",
   "vpc-endpoint-id", "vpc-peering-connection-id"}

RouteWaitReady   == Await
RouteWaitDeleted == Gone

RouteCreateCall == Create("CreateRoute", RouteDestination \cup RouteTarget)

RouteCreate == RouteCreateCall \o RouteWaitReady

RouteUpdate == When(Changed(RouteTarget), Put("ReplaceRoute", RouteTarget)) \o RouteWaitReady

RouteDelete == Retried(AbsentOk(Delete("DeleteRoute"))) \o RouteWaitDeleted

Route ==
  [Resource(RouteDestination \cup RouteTarget, RouteDestination, RouteCreate, RouteUpdate, RouteDelete)
   EXCEPT !.required = {"route-table-id"}, !.lags = TRUE, !.slow = {"DeleteRoute"}]

---------------------------------------------------------------------------
(* route_table_rsrc.go                                                      *)

RouteTableRead             == Look

RouteTableCreate ==
  Create("CreateRouteTable", {"vpc-id", "tags"}) \o Await \o RouteTableRead

RouteTableUpdate == SyncTags \o RouteTableRead

RouteTableDelete ==
  AbsentEnds(Look) \o AbsentOk(Poke("DisassociateRouteTable") \o Await)
  \o AbsentOk(Delete("DeleteRouteTable")) \o Gone

RouteTable ==
  [Unnamed(Resource({"vpc-id", "tags"}, {"vpc-id"}, RouteTableCreate, RouteTableUpdate,
                    RouteTableDelete))
   EXCEPT !.required = {"vpc-id"}, !.slow = {"DeleteRouteTable"}]

---------------------------------------------------------------------------
(* route_table_association_rsrc.go: pointing an association at another      *)
(* table gives it another id, so that it is its table that names it.        *)

RouteTableAssociationInputs == {"route-table-id", "subnet-id", "gateway-id"}

RouteTableAssociationWaitAssociated    == ByGoal(Await)
RouteTableAssociationWaitDisassociated == ByGoal(Gone)
RouteTableAssociationRead              == ByGoal(Await)

RouteTableAssociationCreate ==
  Create("AssociateRouteTable", RouteTableAssociationInputs)
  \o RouteTableAssociationWaitAssociated \o RouteTableAssociationRead

RouteTableAssociationUpdate ==
  When(Changed({"route-table-id"}),
       ByPrior(Put("ReplaceRouteTableAssociation", {"route-table-id"}))
       \o RouteTableAssociationWaitAssociated)
  \o RouteTableAssociationRead

RouteTableAssociationDelete ==
  AbsentEnds(ByGoal(Delete("DisassociateRouteTable"))) \o RouteTableAssociationWaitDisassociated

RouteTableAssociation ==
  [Resource(RouteTableAssociationInputs, {"subnet-id", "gateway-id"}, RouteTableAssociationCreate,
            RouteTableAssociationUpdate, RouteTableAssociationDelete)
   EXCEPT !.required = {"route-table-id"}, !.name = "route-table-id", !.reads = "prior",
          !.lags = TRUE,
          !.slow = {"AssociateRouteTable", "ReplaceRouteTableAssociation", "DisassociateRouteTable"}]

---------------------------------------------------------------------------
(* security_group_rsrc.go                                                   *)

SecurityGroupReplaceFields == {"name", "name-prefix", "description", "vpc-id"}

SecurityGroupRead == Look

SecurityGroupCreate ==
  Create("CreateSecurityGroup", SecurityGroupReplaceFields \cup Tags) \o Await
  \o Poke("RevokeSecurityGroupEgress") \o SecurityGroupRead

SecurityGroupUpdate == SyncTags

SecurityGroupDelete == Retried(AbsentEnds(Delete("DeleteSecurityGroup"))) \o Gone

SecurityGroup ==
  [Resource(SecurityGroupReplaceFields \cup Tags, SecurityGroupReplaceFields,
            SecurityGroupCreate, SecurityGroupUpdate, SecurityGroupDelete)
   EXCEPT !.required = {"description"}, !.lags = TRUE, !.slow = {"DeleteSecurityGroup"}]

---------------------------------------------------------------------------
(* security_group_rule.go, for ingress and for egress rules                 *)

RulePeer ==
  {"cidr-ipv4", "cidr-ipv6", "prefix-list-id", "referenced-security-group-id"}

RuleSpec == RulePeer \cup {"ip-protocol", "from-port", "to-port", "description"}

RuleCreate(call) == Create(call, RuleSpec \cup {"security-group-id", "tags"})

RuleUpdate ==
  When(Changed(RuleSpec), Put("ModifySecurityGroupRules", RuleSpec))
  \o Anytime(Put("SyncTags", Tags))

RuleDelete(call) == AbsentEnds(Look) \o AbsentOk(Delete(call))

RuleOf(authorize, revoke) ==
  [Resource(RuleSpec \cup {"security-group-id", "tags"}, RulePeer \cup {"security-group-id"},
            RuleCreate(authorize), RuleUpdate, RuleDelete(revoke))
   EXCEPT !.required = {"security-group-id", "ip-protocol"}]

IngressRule == RuleOf("AuthorizeSecurityGroupIngress", "RevokeSecurityGroupIngress")
EgressRule  == RuleOf("AuthorizeSecurityGroupEgress", "RevokeSecurityGroupEgress")

---------------------------------------------------------------------------
(* launch_template_rsrc.go                                                  *)

LaunchTemplateWaitFound == Await
LaunchTemplateRead      == Look

LaunchTemplateCreate ==
  Create("CreateLaunchTemplate", {"name", "version-description", "data", "tags"})
  \o LaunchTemplateWaitFound \o LaunchTemplateRead

LaunchTemplateCreateVersion ==
  When(Changed({"data", "version-description"}),
       Put("CreateLaunchTemplateVersion", {"data", "version-description"}))

LaunchTemplateModifyDefaultVersion ==
  When(ChangedTo({"default-version"}), Send("ModifyLaunchTemplate", {"default-version"}))

LaunchTemplateUpdate ==
  LaunchTemplateCreateVersion \o LaunchTemplateModifyDefaultVersion \o SyncTags
  \o LaunchTemplateWaitFound \o LaunchTemplateRead

LaunchTemplateDelete == AbsentOk(Delete("DeleteLaunchTemplate"))

LaunchTemplate ==
  [Resource({"name", "version-description", "default-version", "data", "tags"}, {"name"},
            LaunchTemplateCreate, LaunchTemplateUpdate, LaunchTemplateDelete)
   EXCEPT !.required = {"name", "data"}, !.gaps = {"default-version"}, !.lags = TRUE]

---------------------------------------------------------------------------
(* volume_rsrc.go                                                           *)

VolumeReplaceFields ==
  {"availability-zone", "encrypted", "kms-key-id", "multi-attach-enabled", "outpost-arn",
   "snapshot-id"}

VolumeModifyFields == {"size", "iops", "throughput", "type"}

VolumeWaitAvailable == Await
VolumeWaitModified  == Await
VolumeWaitDeleted   == Gone
VolumeRead          == Look

VolumeCreate ==
  Create("CreateVolume",
         VolumeReplaceFields \cup VolumeModifyFields \cup {"volume-initialization-rate", "tags"})
  \o VolumeWaitAvailable \o VolumeRead

VolumeModify == Send("ModifyVolume", VolumeModifyFields) \o VolumeWaitModified

VolumeUpdate == When(Changed(VolumeModifyFields), VolumeModify) \o SyncTags \o VolumeRead

(* A final snapshot, when asked for, is another object and comes first.     *)
VolumeDelete == Retried(AbsentEnds(Delete("DeleteVolume"))) \o VolumeWaitDeleted

Volume ==
  [Unnamed(Resource(VolumeReplaceFields \cup VolumeModifyFields
                    \cup {"volume-initialization-rate", "tags"}, VolumeReplaceFields,
                    VolumeCreate, VolumeUpdate, VolumeDelete))
   EXCEPT !.required = {"availability-zone"}, !.gaps = {"volume-initialization-rate"},
          !.slow = {"CreateVolume", "DeleteVolume"}]

---------------------------------------------------------------------------
(* vpc_endpoint_rsrc.go                                                     *)

VpcEndpointReplaceFields == {"vpc-id", "service-name", "vpc-endpoint-type"}

VpcEndpointLists == {"route-table-ids", "security-group-ids", "subnet-ids"}

VpcEndpointOptions == {"ip-address-type", "dns-options", "private-dns-enabled"}

VpcEndpointWaitAvailable == Await
VpcEndpointRead          == Look

VpcEndpointInputs ==
  VpcEndpointReplaceFields \cup VpcEndpointLists \cup VpcEndpointOptions \cup {"policy", "tags"}

VpcEndpointCreate ==
  Create("CreateVpcEndpoint", VpcEndpointInputs) \o VpcEndpointWaitAvailable \o VpcEndpointRead

VpcEndpointBuildModify ==
  LET call == "ModifyVpcEndpoint"
  IN  Adjust(call, VpcEndpointLists) ++ Modify(call, VpcEndpointOptions) ++ Replace(call, {"policy"})

VpcEndpointUpdate ==
  When(Edited(VpcEndpointLists \cup VpcEndpointOptions, {"policy"}),
       VpcEndpointBuildModify \o VpcEndpointWaitAvailable)
  \o SyncTags \o VpcEndpointRead

VpcEndpointDelete == AbsentEnds(Delete("DeleteVpcEndpoints")) \o Gone

VpcEndpoint ==
  [Unnamed(Resource(VpcEndpointInputs, VpcEndpointReplaceFields, VpcEndpointCreate,
                    VpcEndpointUpdate, VpcEndpointDelete))
   EXCEPT !.required = {"vpc-id", "service-name"},
          !.slow = {"CreateVpcEndpoint", "ModifyVpcEndpoint", "DeleteVpcEndpoints"}]

---------------------------------------------------------------------------
(* instance_rsrc.go.  A root-block-device, once given, stays: taken away as *)
(* a whole it changes nothing, and an instance without one has {} for what  *)
(* is in it.  A running instance, but for StoppedInstance.                  *)

RootSettings            == {"root-block-device"}   \* size, type, IOPS, throughput
RootEncryption          == {"root-block-device.encrypted"}
RootDeleteOnTermination == {"root-block-device.delete-on-termination"}
RootTags                == {"root-block-device.tags"}
RootBlockDevice == RootSettings \cup RootEncryption \cup RootDeleteOnTermination \cup RootTags

InstanceReplaceFields ==
  {"ami", "associate-public-ip-address", "availability-zone", "ebs-block-device",
   "ephemeral-block-device", "ebs-optimized", "key-name", "launch-template", "private-ip",
   "subnet-id", "tenancy"}

InstanceProtections == {"disable-api-stop", "disable-api-termination"}

InstanceRunInput ==
  InstanceReplaceFields \cup InstanceProtections
  \cup {"instance-type", "vpc-security-group-ids", "iam-instance-profile", "user-data",
        "user-data-base64", "monitoring", "instance-initiated-shutdown-behavior",
        "metadata-options", "volume-tags", "tags"}
  \cup (RootBlockDevice \ RootTags)

InstanceWaitRunning                 == Await
InstanceWaitStopped                 == Await
InstanceWaitTerminated              == Gone
InstanceWaitIamProfileAssociated    == Await
InstanceWaitMetadataOptionsApplied  == Await
InstanceWaitRootVolumeModified      == Await
InstanceWaitRootDeleteOnTermination == Await
InstanceRead                        == Look

InstanceSetSourceDestCheck == Put("ModifyInstanceAttribute", {"source-dest-check"})

InstanceSyncRootTags == Anytime(Put("SyncTags", RootTags))

InstanceApplyCreateFollowOns ==
  When(Given({"source-dest-check"}), InstanceSetSourceDestCheck)
  \o When(Given(RootTags), Look \o InstanceSyncRootTags)

InstanceCreate ==
  Create("RunInstances", InstanceRunInput) \o InstanceWaitRunning
  \o InstanceApplyCreateFollowOns \o InstanceRead

InstanceReconcileVolumeTags ==
  When(Changed({"volume-tags"}), Look \o Anytime(Put("SyncTags", {"volume-tags"})))

Profile == {"iam-instance-profile"}

InstanceDisassociateIamProfile == Clear("DisassociateIamInstanceProfile", Profile)
InstanceAssociateIamProfile ==
  Put("AssociateIamInstanceProfile", Profile) \o InstanceWaitIamProfileAssociated
InstanceReplaceIamProfile ==
  Put("ReplaceIamInstanceProfileAssociation", Profile) \o InstanceWaitIamProfileAssociated

(* By the association there is, which is replaced when the instance runs,   *)
(* and is taken away first when it does not.                                *)
InstanceReconcileIamProfile(release) ==
  When(Removed(Profile), WhenLive(Has(Profile), InstanceDisassociateIamProfile))
  \o When(ChangedTo(Profile), WhenLive(Has(Profile), Look \o release)
                             \o WhenLive(Differs(Profile), InstanceAssociateIamProfile))

InstanceSetSecurityGroups ==
  When(ChangedTo({"vpc-security-group-ids"}),
       Put("ModifyInstanceAttribute", {"vpc-security-group-ids"}))

(* EC2 does not stop an instance protected from it.                         *)
InstanceStop ==
  WhenLive(Has({"disable-api-stop"}), Reject) \o Poke("StopInstances") \o InstanceWaitStopped

InstanceStart == Retried(Poke("StartInstances")) \o InstanceWaitRunning

InstanceSetType     == When(Changed({"instance-type"}), Put("ModifyInstanceAttribute", {"instance-type"}))
InstanceSetUserData ==
  LET F == {"user-data", "user-data-base64"}
  IN  When(Changed(F), Put("ModifyInstanceAttribute", F))

InstanceReconcileStoppedAttributes ==
  When(Changed({"instance-type", "user-data", "user-data-base64"}),
       InstanceStop \o InstanceSetType \o InstanceSetUserData \o InstanceStart)

InstanceSetProtection(F) == Put("ModifyInstanceAttribute", F)

InstanceReconcileProtections ==
  LET Set(F) == When(Changed(F), InstanceSetProtection(F))
  IN  Set({"disable-api-stop"}) \o Set({"disable-api-termination"})

InstanceSetShutdownBehavior ==
  LET F == {"instance-initiated-shutdown-behavior"}
  IN  When(Changed(F), Put("ModifyInstanceAttribute", F))

InstanceSetMonitoring == When(Changed({"monitoring"}), Put("MonitorInstances", {"monitoring"}))

InstanceReconcileMetadataOptions ==
  When(ChangedTo({"metadata-options"}),
       Put("ModifyInstanceMetadataOptions", {"metadata-options"})
       \o InstanceWaitMetadataOptionsApplied)

InstanceModifyRootVolume ==
  Send("ModifyVolume", RootSettings) \o InstanceWaitRootVolumeModified

InstanceSetRootDeleteOnTermination ==
  Put("ModifyInstanceAttribute", RootDeleteOnTermination) \o InstanceWaitRootDeleteOnTermination

InstanceReconcileRootBlockDevice ==
  When(Changed(RootEncryption), Reject)
  \o When(Changed(RootBlockDevice), Look)
  \o When(Changed(RootSettings), InstanceModifyRootVolume)
  \o When(Changed(RootDeleteOnTermination), InstanceSetRootDeleteOnTermination)
  \o When(Changed(RootTags), InstanceSyncRootTags)

InstanceUpdateInPlace(release) ==
  InstanceReconcileVolumeTags \o InstanceReconcileIamProfile(release)
  \o When(Changed({"source-dest-check"}), InstanceSetSourceDestCheck)
  \o InstanceSetSecurityGroups \o InstanceReconcileStoppedAttributes
  \o InstanceReconcileProtections \o InstanceSetShutdownBehavior \o InstanceSetMonitoring
  \o InstanceReconcileMetadataOptions \o InstanceReconcileRootBlockDevice

InstanceUpdate(release) == InstanceUpdateInPlace(release) \o InstanceRead

(* The two protections are cleared first, and errors of that passed over.   *)
InstanceDelete ==
  When(Given({"force-destroy"}), AbsentOk(Clear("ModifyInstanceAttribute", InstanceProtections)))
  \o AbsentEnds(Anytime(Delete("TerminateInstances"))) \o InstanceWaitTerminated

(* The tags of an instance are sent when it is created and never after.     *)
Instance ==
  [Unnamed(Resource(InstanceRunInput \cup RootTags \cup {"source-dest-check", "force-destroy"},
                    InstanceReplaceFields, InstanceCreate,
                    InstanceUpdate(InstanceReplaceIamProfile), InstanceDelete))
   EXCEPT !.gaps = {"force-destroy", "tags"}, !.protect = InstanceProtections,
          !.slow = {"RunInstances", "StopInstances", "StartInstances", "TerminateInstances"},
          !.together = {{"instance-type", "disable-api-stop"},
                        {"force-destroy", "disable-api-termination"}}]

(* The same, when an Update finds it stopped; a stop in the middle of an    *)
(* update that fails before the start leaves one.                           *)
StoppedInstance ==
  About([Instance EXCEPT !.update = InstanceUpdate(InstanceDisassociateIamProfile)], Profile)

---------------------------------------------------------------------------
Resources ==
  [ec2_vpc |-> Vpc, ec2_subnet |-> Subnet, ec2_eip |-> Eip,
   ec2_internet_gateway |-> InternetGateway, ec2_key_pair |-> KeyPair, ec2_route |-> Route,
   ec2_route_table |-> RouteTable, ec2_route_table_association |-> RouteTableAssociation,
   ec2_security_group |-> SecurityGroup, ec2_ingress_rule |-> IngressRule,
   ec2_egress_rule |-> EgressRule, ec2_launch_template |-> LaunchTemplate,
   ec2_volume |-> Volume, ec2_vpc_endpoint |-> VpcEndpoint, ec2_instance |-> Instance,
   ec2_stopped_instance |-> StoppedInstance,
   ec2_nat_gateway_public |-> NatGatewayPublic, ec2_nat_gateway_private |-> NatGatewayPrivate]
=============================================================================

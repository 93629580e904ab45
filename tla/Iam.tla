-------------------------------- MODULE Iam --------------------------------
(* internal/service/iam: roles, users, groups, policies, and what joins     *)
(* them.  A call that puts or attaches writes over what is there, which is  *)
(* what named FALSE comes to for an object that holds what was put.         *)
EXTENDS Steps

---------------------------------------------------------------------------
(* role_rsrc.go                                                             *)

RoleReplaceFields == {"role-name", "path"}

RoleReadCreated == Await      \* until it shows, with its ARN, five times

RoleInputs ==
  {"role-name", "assume-role-policy-document", "path", "description", "max-session-duration",
   "permissions-boundary", "tags"}

RoleSyncTags == SyncTags

RoleCreate == Create("CreateRole", RoleInputs) \o RoleReadCreated

RoleUpdate ==
  When(Changed({"assume-role-policy-document"}),
       Retried(Send("UpdateAssumeRolePolicy", {"assume-role-policy-document"})))
  \o When(ChangedTo({"description"}), Send("UpdateRole", {"description"}))
  \o When(ChangedTo({"max-session-duration"}), Send("UpdateRole", {"max-session-duration"}))
  \o When(ChangedTo({"permissions-boundary"}),
          Send("PutRolePermissionsBoundary", {"permissions-boundary"}))
  \o When(Removed({"permissions-boundary"}),
          Clear("DeleteRolePermissionsBoundary", {"permissions-boundary"}))
  \o RoleSyncTags

RoleDetachInstanceProfiles == AbsentOk(Poke("RemoveRoleFromInstanceProfile"))

RoleDelete == RoleDetachInstanceProfiles \o Retried(AbsentEnds(Delete("DeleteRole")))

Role ==
  [Resource(RoleInputs, RoleReplaceFields, RoleCreate, RoleUpdate, RoleDelete)
   EXCEPT !.required = {"role-name", "assume-role-policy-document"}, !.lags = TRUE]

---------------------------------------------------------------------------
(* user_rsrc.go                                                             *)

UserReadCreated == Await
UserRead        == ByGoal(Look)

UserCreate ==
  Create("CreateUser", {"name", "path", "permissions-boundary", "tags"}) \o UserReadCreated

(* All three compare with what the plan's Read saw, when it ran.            *)
UserPermissionsBoundaryNeedsUpdate == Differs({"permissions-boundary"})
UserTagsNeedSync                  == Differs(Tags)

UserSyncTags == Anytime(ByGoal(Put("TagUser", Tags)))

(* The boundary is put, or deleted when it is no longer given.              *)
UserUpdate ==
  When(Differs({"name", "path"}), ByPrior(Put("UpdateUser", {"name", "path"})))
  \o When(UserPermissionsBoundaryNeedsUpdate,
          ByGoal(Put("PutUserPermissionsBoundary", {"permissions-boundary"})))
  \o When(UserTagsNeedSync, UserSyncTags)
  \o When(Differs({"name", "path", "permissions-boundary", "tags"}), UserRead)

DeleteUserGroupMemberships           == Poke("RemoveUserFromGroup")
DeleteUserPolicies                   == Poke("DeleteUserPolicy")
DetachUserPolicy                     == Retried(Poke("DetachUserPolicy"))
DeleteUserAccessKeys                 == Poke("DeleteAccessKey")
DeleteUserSSHKeys                    == Poke("DeleteSSHPublicKey")
DeactivateMFADevice                  == Poke("DeactivateMFADevice")
DeleteUserVirtualMFADevices          == DeactivateMFADevice \o Poke("DeleteVirtualMFADevice")
DeleteUserLoginProfile               == Retried(Poke("DeleteLoginProfile"))
DeleteUserSigningCertificates        == Poke("DeleteSigningCertificate")
DeleteUserServiceSpecificCredentials == Poke("DeleteServiceSpecificCredential")

(* Whatever is not found, or not offered in this partition, is passed over. *)
UserForceDestroyCleanups ==
  DeleteUserPolicies \o DetachUserPolicy \o DeleteUserAccessKeys \o DeleteUserSSHKeys
  \o DeleteUserVirtualMFADevices \o DeactivateMFADevice \o DeleteUserLoginProfile
  \o DeleteUserSigningCertificates \o DeleteUserServiceSpecificCredentials

UserDelete ==
  ByPrior(AbsentOk(DeleteUserGroupMemberships)
          \o When(Given({"force-destroy"}), AbsentOk(UserForceDestroyCleanups))
          \o AbsentEnds(Delete("DeleteUser")))

User ==
  [Resource({"name", "path", "permissions-boundary", "force-destroy", "tags"}, {},
            UserCreate, UserUpdate, UserDelete)
   EXCEPT !.required = {"name", "path"}, !.gaps = {"force-destroy"}, !.name = "name",
          !.reads = "prior", !.lags = TRUE, !.together = {{"name", "permissions-boundary"}}]

---------------------------------------------------------------------------
(* access_key_rsrc.go: a user has two keys at most, and each Create makes   *)
(* one.  The status is {} when active.                                      *)

AccessKeyUpdateStatus == Put("UpdateAccessKey", {"status"})
AccessKeyFind         == Look

AccessKeyCreate ==
  Create("CreateAccessKey", {"user-name"}) \o When(Given({"status"}), AccessKeyUpdateStatus)

AccessKeyUpdate == When(Differs({"status"}), AccessKeyUpdateStatus \o AccessKeyFind)

AccessKeyDelete == AbsentEnds(Delete("DeleteAccessKey"))

AccessKey ==
  [Resource({"user-name", "status"}, {"user-name"}, AccessKeyCreate, AccessKeyUpdate,
            AccessKeyDelete)
   EXCEPT !.required = {"user-name"}, !.named = FALSE]

---------------------------------------------------------------------------
(* group_rsrc.go                                                            *)

GroupCreate == Create("CreateGroup", {"name", "path"}) \o Await

GroupUpdate ==
  When(Drifted({"name", "path"}), ByPrior(Put("UpdateGroup", {"name", "path"})) \o ByGoal(Look))

GroupDelete == ByPrior(AbsentEnds(Delete("DeleteGroup")))

Group ==
  [Resource({"name", "path"}, {}, GroupCreate, GroupUpdate, GroupDelete)
   EXCEPT !.required = {"name", "path"}, !.name = "name", !.reads = "prior", !.lags = TRUE]

---------------------------------------------------------------------------
(* policy_rsrc.go.  How many versions a policy keeps is in PolicyVersions.  *)

PolicyReplaceFields == {"policy-name", "path", "description"}

PolicyReadCreated == Await

PolicyCreate ==
  Create("CreatePolicy", PolicyReplaceFields \cup {"policy-document", "tags"}) \o PolicyReadCreated

PolicyPruneVersions == Poke("DeletePolicyVersion")

PolicyApplyNewVersion == PolicyPruneVersions \o Put("CreatePolicyVersion", {"policy-document"})

PolicySyncTags == Anytime(Put("SyncTags", Tags))

PolicyUpdate ==
  When(Changed({"policy-document"}), PolicyApplyNewVersion) \o PolicySyncTags \o Look

(* A policy that is gone is an error of the listing, before it is deleted.  *)
PolicyDelete == PolicyPruneVersions \o AbsentEnds(Delete("DeletePolicy"))

Policy ==
  [Resource(PolicyReplaceFields \cup {"policy-document", "tags"}, PolicyReplaceFields,
            PolicyCreate, PolicyUpdate, PolicyDelete)
   EXCEPT !.required = {"policy-name", "policy-document"}, !.lags = TRUE, !.brittle = TRUE]

---------------------------------------------------------------------------
(* instance_profile_rsrc.go                                                 *)

InstanceProfileReplaceFields == {"instance-profile-name", "path"}

InstanceProfileReadCreated == Await

(* It has one role at most.                                                 *)
InstanceProfileAddRole    == Retried(Strict(AddEach("AddRoleToInstanceProfile", "role")))
InstanceProfileRemoveRole == AbsentOk(DropEach("RemoveRoleFromInstanceProfile", "role"))

InstanceProfileSyncTags == SyncTags

InstanceProfileCreate ==
  Create("CreateInstanceProfile", InstanceProfileReplaceFields \cup Tags)
  \o When(Given({"role"}), Retried(Send("AddRoleToInstanceProfile", {"role"})))
  \o InstanceProfileReadCreated

InstanceProfileUpdate ==
  InstanceProfileRemoveRole \o InstanceProfileAddRole \o InstanceProfileSyncTags

InstanceProfileDeleteAtOnce == AbsentEnds(Delete("DeleteInstanceProfile"))

(* The role removed is the recorded one.                                    *)
InstanceProfileDelete ==
  When(Given({"role"}), AbsentOk(Take("RemoveRoleFromInstanceProfile", {"role"})))
  \o AbsentEnds(Delete("DeleteInstanceProfile"))

InstanceProfile ==
  [Resource(InstanceProfileReplaceFields \cup {"role", "tags"}, InstanceProfileReplaceFields,
            InstanceProfileCreate, InstanceProfileUpdate, InstanceProfileDelete)
   EXCEPT !.required = {"instance-profile-name"}, !.holds = {"role"}, !.lags = TRUE]

---------------------------------------------------------------------------
(* openid_connect_provider_rsrc.go                                          *)

OidcProviderInputs == {"url", "client-id-list", "thumbprint-list", "tags"}

OidcProviderSyncTags == SyncTags
OidcProviderRead     == Look

(* All new ones are added before any old one is removed, and adding what is *)
(* there is no error.                                                       *)
OidcProviderSyncClientIDs ==
  AddEach("AddClientIDToOpenIDConnectProvider", "client-id-list")
  \o DropEach("RemoveClientIDFromOpenIDConnectProvider", "client-id-list")

OidcProviderCreate ==
  Create("CreateOpenIDConnectProvider", OidcProviderInputs) \o OidcProviderRead

OidcProviderUpdate ==
  When(ChangedTo({"thumbprint-list"}),
       Send("UpdateOpenIDConnectProviderThumbprint", {"thumbprint-list"}))
  \o OidcProviderSyncClientIDs \o OidcProviderSyncTags \o OidcProviderRead

OidcProviderDelete == AbsentEnds(Delete("DeleteOpenIDConnectProvider"))

OpenIDConnectProvider ==
  [Resource(OidcProviderInputs, {"url"}, OidcProviderCreate, OidcProviderUpdate,
            OidcProviderDelete)
   EXCEPT !.required = {"url", "client-id-list"}]

---------------------------------------------------------------------------
(* *_policy_rsrc.go: a document under a name, in a role, user or group.     *)

RolePolicyRead == Look

RolePolicyCreate ==
  Create("PutRolePolicy", {"role-name", "policy-name", "policy-document"}) \o Await

RolePolicyUpdate ==
  When(Changed({"policy-document"}), Put("PutRolePolicy", {"policy-document"})) \o RolePolicyRead

RolePolicyDelete == AbsentEnds(Delete("DeleteRolePolicy"))

RolePolicy ==
  [Resource({"role-name", "policy-name", "policy-document"}, {"role-name", "policy-name"},
            RolePolicyCreate, RolePolicyUpdate, RolePolicyDelete)
   EXCEPT !.required = {"role-name", "policy-name", "policy-document"},
          !.named = FALSE, !.lags = TRUE]

UserPolicyRead        == Look
UserPolicyPutDocument == Put("PutUserPolicy", {"policy-document"})

UserPolicyCreate ==
  Create("PutUserPolicy", {"user-name", "policy-name", "policy-document"}) \o Await

UserPolicyUpdate == When(Drifted({"policy-document"}), UserPolicyPutDocument) \o UserPolicyRead

UserPolicyDelete == AbsentEnds(Delete("DeleteUserPolicy"))

UserPolicy ==
  [Resource({"user-name", "policy-name", "policy-document"}, {"user-name", "policy-name"},
            UserPolicyCreate, UserPolicyUpdate, UserPolicyDelete)
   EXCEPT !.required = {"user-name", "policy-name", "policy-document"},
          !.named = FALSE, !.lags = TRUE]

GroupPolicyPutDocument == Put("PutGroupPolicy", {"policy-document"})

GroupPolicyCreate ==
  Create("PutGroupPolicy", {"group-name", "policy-name", "policy-document"}) \o Await

GroupPolicyUpdate == When(Drifted({"policy-document"}), GroupPolicyPutDocument) \o Look

GroupPolicyDelete == AbsentEnds(Delete("DeleteGroupPolicy"))

GroupPolicy ==
  [Resource({"group-name", "policy-name", "policy-document"}, {"group-name", "policy-name"},
            GroupPolicyCreate, GroupPolicyUpdate, GroupPolicyDelete)
   EXCEPT !.required = {"group-name", "policy-name", "policy-document"},
          !.named = FALSE, !.lags = TRUE]

---------------------------------------------------------------------------
(* *_policy_attachment_rsrc.go: nothing of an attachment can be updated.    *)

LOCAL Attached(inputs, create, delete) ==
  [Resource(inputs, inputs, create, << >>, delete)
   EXCEPT !.required = inputs, !.named = FALSE]

(* This one does not wait for the list to show it.                          *)
RolePolicyAttachmentCreate == Create("AttachRolePolicy", {"role-name", "policy-arn"})
RolePolicyAttachmentDelete == Retried(AbsentEnds(Delete("DetachRolePolicy")))

RolePolicyAttachment ==
  Attached({"role-name", "policy-arn"}, RolePolicyAttachmentCreate, RolePolicyAttachmentDelete)

UserPolicyAttachmentRead   == Await
UserPolicyAttachmentCreate ==
  Create("AttachUserPolicy", {"user", "policy-arn"}) \o UserPolicyAttachmentRead
UserPolicyAttachmentDelete == Retried(AbsentEnds(Delete("DetachUserPolicy")))

UserPolicyAttachment ==
  [Attached({"user", "policy-arn"}, UserPolicyAttachmentCreate, UserPolicyAttachmentDelete)
   EXCEPT !.lags = TRUE]

GroupPolicyAttachmentRead   == Await
GroupPolicyAttachmentCreate ==
  Create("AttachGroupPolicy", {"group-name", "policy-arn"}) \o GroupPolicyAttachmentRead
GroupPolicyAttachmentDelete == Retried(AbsentEnds(Delete("DetachGroupPolicy")))

GroupPolicyAttachment ==
  [Attached({"group-name", "policy-arn"}, GroupPolicyAttachmentCreate, GroupPolicyAttachmentDelete)
   EXCEPT !.lags = TRUE]

---------------------------------------------------------------------------
Resources ==
  [iam_role |-> Role, iam_user |-> User, iam_access_key |-> AccessKey, iam_group |-> Group,
   iam_policy |-> Policy, iam_instance_profile |-> InstanceProfile,
   iam_openid_connect_provider |-> OpenIDConnectProvider, iam_role_policy |-> RolePolicy,
   iam_user_policy |-> UserPolicy, iam_group_policy |-> GroupPolicy,
   iam_role_policy_attachment |-> RolePolicyAttachment,
   iam_user_policy_attachment |-> UserPolicyAttachment,
   iam_group_policy_attachment |-> GroupPolicyAttachment]
=============================================================================

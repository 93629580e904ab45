------------------------------ MODULE Security ------------------------------
(* internal/service/kms, secretsmanager (secret), acm, ssm, ecr, wafv2      *)
(* (association).                                                           *)
EXTENDS Steps

---------------------------------------------------------------------------
(* kms/key_rsrc.go.  disable-key is enable-key = false; the period of the   *)
(* rotation goes with enable-key-rotation.  A new key is waited for only    *)
(* after the calls on it: it shows at once here.                            *)

KeyReplaceFields == {"key-spec", "key-usage", "custom-key-store-id", "xks-key-id", "multi-region"}
KeyCreated       == KeyReplaceFields \cup {"description", "policy", "tags"}

ReadKey        == Look
EnableKey      == Retried(Clear("EnableKey", {"disable-key"}))
DisableKey     == Retried(Send("DisableKey", {"disable-key"}))
PutKeyPolicy   == Retried(Modify("PutKeyPolicy", {"policy"}))

(* A disabled key takes no change of its rotation: the call is repeated     *)
(* until the time for it is over.                                           *)
EnableRotation ==
  WhenLive(Has({"disable-key"}), Reject)
  \o Retried(Send("EnableKeyRotation / DisableKeyRotation", {"enable-key-rotation"}))

KeyCreate ==
  Retried(Create("CreateKey", KeyCreated))
  \o When(Given({"enable-key-rotation"}), EnableRotation)
  \o When(Given({"disable-key"}), DisableKey)
  \o Await

(* Rotation is changed while the key is enabled: before it is disabled and  *)
(* after it is enabled again.                                               *)
KeyUpdate ==
  When(Removed({"disable-key"}), EnableKey)
  \o When(ChangedTo({"description"}), Send("UpdateKeyDescription", {"description"}))
  \o When(ChangedTo({"policy"}), PutKeyPolicy)
  \o SyncTags
  \o When(ChangedTo({"enable-key-rotation"}), EnableRotation)
  \o When(ChangedTo({"disable-key"}), DisableKey)
  \o ReadKey

KeyDelete == AbsentOk(Delete("ScheduleKeyDeletion"))

Key ==
  [Resource(KeyCreated \cup {"disable-key", "enable-key-rotation"}, KeyReplaceFields,
            KeyCreate, KeyUpdate, KeyDelete)
   EXCEPT !.named = FALSE, !.together = {{"disable-key", "enable-key-rotation"}}]

(* kms/alias_rsrc.go                                                        *)

AliasReplaceFields == {"alias-name"}
ReadAlias          == Look

AliasCreate ==
  Retried(Create("CreateAlias", {"alias-name", "target-key-id"})) \o Await
AliasUpdate ==
  When(Changed({"target-key-id"}), Send("UpdateAlias", {"target-key-id"})) \o ReadAlias
AliasDelete == AbsentOk(Delete("DeleteAlias"))

Alias ==
  [Resource({"alias-name", "target-key-id"}, AliasReplaceFields, AliasCreate, AliasUpdate,
            AliasDelete)
   EXCEPT !.required = {"alias-name", "target-key-id"}, !.lags = TRUE]

---------------------------------------------------------------------------
(* secretsmanager/secret_rsrc.go; secret-string or secret-binary is its     *)
(* value.  A deleted secret holds its name until AWS has done with it.      *)

SecretReplaceFields == {"name"}
SecretCreated       == {"name", "description", "kms-key-id", "replica", "tags"}

WaitDescribable   == Await
WaitValueGettable == Await
WaitSecretDeleted == Gone
ReadSecret        == Look

PutValue == Send("PutSecretValue", {"secret-string"}) \o WaitValueGettable

SecretCreate ==
  Retried(Create("CreateSecret", SecretCreated))
  \o WaitDescribable
  \o When(Given({"secret-string"}), PutValue)
  \o ReadSecret

(* secret_replica.go: regions are dropped, then added; AWS refuses to add   *)
(* one that is there.                                                       *)
ReconcileReplicas ==
  AbsentOk(Strict(DropEach("RemoveRegionsFromReplication", "replica")))
  \o Strict(AddEach("ReplicateSecretToRegions", "replica"))

SecretUpdate ==
  When(ChangedTo({"replica"}), ReconcileReplicas)
  \o When(Edited({"kms-key-id"}, {"description"}),
          Put("UpdateSecret", {"description"}) ++ Send("UpdateSecret", {"kms-key-id"}))
  \o When(ChangedTo({"secret-string"}), PutValue)
  \o SyncTags
  \o ReadSecret

(* The regions taken away are those of the recorded outputs.                *)
SecretDelete ==
  AbsentOk(Recall("RemoveRegionsFromReplication", {"replica"}))
  \o AbsentEnds(Delete("DeleteSecret"))
  \o WaitSecretDeleted

Secret ==
  [Resource(SecretCreated \cup {"secret-string"}, SecretReplaceFields, SecretCreate,
            SecretUpdate, SecretDelete)
   EXCEPT !.required = {"name"}, !.lags = TRUE, !.holds = {"replica"},
          !.together = {{"replica", "secret-string"}}]

---------------------------------------------------------------------------
(* acm/certificate_rsrc.go: a certificate is requested for a domain-name,   *)
(* or imported from its material (certificate-body stands for the body, the *)
(* key and the chain); the transparency option goes with the request.       *)

CertificateReplaceFields ==
  {"certificate-authority-arn", "domain-name", "key-algorithm", "subject-alternative-names",
   "validation-method", "validation-option"}

WaitValidationsAvailable == Await
ReadCertificate          == Look

RequestCertificate ==
  When(Given({"domain-name"}),
       Create("RequestCertificate", CertificateReplaceFields \cup {"options", "tags"}))
ImportCertificate == Send("ImportCertificate", {"certificate-body"})

CertificateCreate ==
  RequestCertificate
  \o When(Absent({"domain-name"}), Create("ImportCertificate", {"certificate-body", "tags"}))
  \o WaitValidationsAvailable
  \o ReadCertificate

CertificateUpdate ==
  When(ChangedTo({"certificate-body"}), ImportCertificate \o WaitValidationsAvailable)
  \o When(ChangedTo({"options"}), Send("UpdateCertificateOptions", {"options"}))
  \o SyncTags
  \o ReadCertificate

CertificateDelete == Retried(AbsentOk(Delete("DeleteCertificate")))

RequestedCertificate ==
  [Resource(CertificateReplaceFields \cup {"options", "tags"}, CertificateReplaceFields,
            CertificateCreate, CertificateUpdate, CertificateDelete)
   EXCEPT !.required = {"domain-name"}, !.named = FALSE, !.lags = TRUE]

ImportedCertificate ==
  [Resource({"certificate-body", "tags"}, {}, CertificateCreate, CertificateUpdate,
            CertificateDelete)
   EXCEPT !.required = {"certificate-body"}, !.named = FALSE, !.lags = TRUE]

(* acm/certificate_validation_rsrc.go: no object, only the wait for one,    *)
(* whose record names are checked; Delete leaves the certificate as it is.  *)

ValidationReplaceFields == {"certificate-arn"}
WaitIssued              == Await

CertificateValidationCreate == Create("DescribeCertificate", ValidationReplaceFields) \o WaitIssued
CertificateValidationUpdate == << >>
CertificateValidationDelete == << >>

CertificateValidation ==
  [Resource(ValidationReplaceFields, ValidationReplaceFields, CertificateValidationCreate,
            CertificateValidationUpdate, CertificateValidationDelete)
   EXCEPT !.required = {"certificate-arn"}, !.named = FALSE, !.slow = {"DescribeCertificate"},
          !.keeps = ValidationReplaceFields]

---------------------------------------------------------------------------
(* ssm/parameter_rsrc.go.  The value is value or insecure-value; key-id goes *)
(* with it.  A PutParameter that overwrites takes no tags.                  *)

ParameterReplaceFields == {"name", "data-type"}
ParameterChanged       == {"allowed-pattern", "description", "tier", "type", "value"}

ParameterRead == Look

ParameterCreate ==
  Create("PutParameter", ParameterReplaceFields \cup ParameterChanged \cup Tags) \o ParameterRead

PutParameter ==
  Put("PutParameter", {"allowed-pattern"})
  ++ Send("PutParameter", ParameterChanged \ {"allowed-pattern"})

ParameterUpdate ==
  When(Changed(ParameterChanged), PutParameter)
  \o SyncTags
  \o ParameterRead

ParameterDelete == AbsentOk(Delete("DeleteParameter"))

Parameter ==
  [Resource(ParameterReplaceFields \cup ParameterChanged \cup Tags, ParameterReplaceFields,
            ParameterCreate, ParameterUpdate, ParameterDelete)
   EXCEPT !.required = {"name", "type", "value"}]

---------------------------------------------------------------------------
(* ecr/repository_rsrc.go                                                   *)

RepositoryReplaceFields == {"name", "encryption-configuration"}
TagMutability           == {"image-tag-mutability", "image-tag-mutability-exclusion-filter"}
RepositoryCreated       == RepositoryReplaceFields \cup TagMutability \cup {"scan-on-push", "tags"}

RepositoryRead    == Look
RepositoryVisible == Await

PutImageTagMutability         == Put("PutImageTagMutability", TagMutability)
PutImageScanningConfiguration == Put("PutImageScanningConfiguration", {"scan-on-push"})
PutLifecyclePolicy            == Put("PutLifecyclePolicy", {"lifecycle-policy"})
DeleteLifecyclePolicy         == AbsentOk(Clear("DeleteLifecyclePolicy", {"lifecycle-policy"}))
SetRepositoryPolicy           == Retried(Put("SetRepositoryPolicy", {"repository-policy"}))
DeleteRepositoryPolicy        == AbsentOk(Clear("DeleteRepositoryPolicy", {"repository-policy"}))

RepositoryCreate ==
  Create("CreateRepository", RepositoryCreated)
  \o RepositoryVisible
  \o When(Given({"lifecycle-policy"}), PutLifecyclePolicy)
  \o When(Given({"repository-policy"}), SetRepositoryPolicy)

RepositoryUpdate ==
  When(Changed(TagMutability), PutImageTagMutability)
  \o When(Changed({"scan-on-push"}), PutImageScanningConfiguration)
  \o When(ChangedTo({"lifecycle-policy"}), PutLifecyclePolicy)
  \o When(Removed({"lifecycle-policy"}), DeleteLifecyclePolicy)
  \o When(ChangedTo({"repository-policy"}), SetRepositoryPolicy)
  \o When(Removed({"repository-policy"}), DeleteRepositoryPolicy)
  \o SyncTags

RepositoryDelete == AbsentEnds(Delete("DeleteRepository")) \o Gone

Repository ==
  [Resource(RepositoryCreated \cup {"lifecycle-policy", "repository-policy"},
            RepositoryReplaceFields, RepositoryCreate, RepositoryUpdate, RepositoryDelete)
   EXCEPT !.required = {"name"}, !.lags = TRUE, !.slow = {"DeleteRepository"},
          !.together = {TagMutability}]

---------------------------------------------------------------------------
(* wafv2/web_acl_association_rsrc.go: associating again is no error.        *)

AssociationReplaceFields == {"resource-arn", "web-acl-arn"}

AssociationRead   == Look
AssociationCreate ==
  Retried(Create("AssociateWebACL", AssociationReplaceFields)) \o AssociationRead
AssociationUpdate == << >>
AssociationDelete == AbsentOk(Delete("DisassociateWebACL"))

WebACLAssociation ==
  [Resource(AssociationReplaceFields, AssociationReplaceFields,
            AssociationCreate, AssociationUpdate, AssociationDelete)
   EXCEPT !.required = AssociationReplaceFields, !.named = FALSE]

---------------------------------------------------------------------------
Resources ==
  [kms_key |-> Key, kms_alias |-> Alias, secretsmanager_secret |-> Secret,
   acm_certificate |-> RequestedCertificate, acm_imported |-> ImportedCertificate,
   acm_certificate_validation |-> CertificateValidation, ssm_parameter |-> Parameter,
   ecr_repository |-> Repository, wafv2_web_acl_association |-> WebACLAssociation]
=============================================================================

------------------------------ MODULE Cognito ------------------------------
(* internal/service/cognitoidp: user pools, their clients, domains, users.  *)
EXTENDS Steps

---------------------------------------------------------------------------
(* user_pool_*.go                                                           *)

UserPoolReplaceFields == {"alias-attributes", "username-attributes", "username-configuration"}

MfaInputs == {"mfa-configuration", "enabled-mfas", "email-mfa-configuration",
              "web-authn-configuration"}
SmsInputs == {"sms-authentication-message", "sms-configuration"}

StandardInputs ==
  SmsInputs \cup
  {"name", "account-recovery-setting", "admin-create-user-config", "auto-verified-attributes",
   "deletion-protection", "device-configuration", "email-configuration",
   "email-verification-message", "email-verification-subject", "lambda-config",
   "password-policy", "sign-in-policy", "sms-verification-message",
   "user-attribute-update-settings", "user-pool-add-ons", "user-pool-tier",
   "verification-message-template"}

RetryUserPool(call) == Retried(call)

UserPoolRead == Look

UserPoolCreateInput ==
  Create("CreateUserPool", StandardInputs \cup UserPoolReplaceFields \cup {"schema", "tags"})

(* The MFA configuration is set as a whole.                                 *)
MfaInput         == Put("SetUserPoolMfaConfig", MfaInputs)

UserPoolCreate ==
  RetryUserPool(UserPoolCreateInput) \o When(Given(MfaInputs), RetryUserPool(MfaInput))
  \o UserPoolRead

CleanupFailedUserPoolCreate == AbsentEnds(Delete("DeleteUserPool"))

(* An attribute of the schema can be added and never changed or removed.    *)
SchemaAdditions == When(Dropped({"schema"}), Reject)

StandardInputsChanged == Changed(StandardInputs)

(* What is not in the call goes back to its default.                        *)
UserPoolUpdateInput == Put("UpdateUserPool", StandardInputs)

UserPoolSyncTags == When(Changed(Tags), Anytime(Put("SyncTags", Tags)))

UserPoolUpdate ==
  When(Removed({"sms-configuration"}), Reject) \o SchemaAdditions \o UserPoolSyncTags
  \o When(Changed(MfaInputs \cup SmsInputs), RetryUserPool(MfaInput))
  \o When(StandardInputsChanged, RetryUserPool(UserPoolUpdateInput))
  \o Strict(AddEach("AddCustomAttributes", "schema"))
  \o UserPoolRead

UserPoolDelete == AbsentEnds(Delete("DeleteUserPool"))

UserPool ==
  [Resource(StandardInputs \cup MfaInputs \cup UserPoolReplaceFields \cup {"schema", "tags"},
            UserPoolReplaceFields, UserPoolCreate, UserPoolUpdate, UserPoolDelete)
   EXCEPT !.required = {"name"}, !.named = FALSE, !.protect = {"deletion-protection"},
          !.cleanup = CleanupFailedUserPoolCreate,
          !.together = {{"schema", "name"}}]

---------------------------------------------------------------------------
(* user_pool_client_*.go.  A client without a name gets a generated one,    *)
(* which later updates send again.                                          *)

ClientReplaceFields == {"user-pool-id", "generate-secret"}

MutableInputs ==
  {"access-token-validity", "id-token-validity", "refresh-token-validity", "auth-session-validity",
   "token-validity-units", "allowed-oauth-flows", "allowed-oauth-scopes", "callback-urls",
   "logout-urls", "explicit-auth-flows", "read-attributes", "write-attributes",
   "supported-identity-providers", "allowed-oauth-flows-user-pool-client",
   "enable-propagate-additional-user-context-data", "enable-token-revocation",
   "default-redirect-uri", "prevent-user-existence-errors", "analytics-configuration",
   "refresh-token-rotation"}

ClientCreateInput ==
  Create("CreateUserPoolClient", MutableInputs \cup ClientReplaceFields \cup {"name"})

ClientCreate == ClientCreateInput

NameDrifted          == Given({"name"}) \cup Differs({"name"})

ClientUpdateInput ==
  Put("UpdateUserPoolClient", MutableInputs) ++ Send("UpdateUserPoolClient", {"name"})

ClientUpdate ==
  When(Changed(MutableInputs), Retried(ClientUpdateInput))
  \o When(Kept(MutableInputs) \cup NameDrifted, Retried(ClientUpdateInput))

ClientDelete == Retried(AbsentEnds(Delete("DeleteUserPoolClient")))

Client ==
  [Resource(MutableInputs \cup ClientReplaceFields \cup {"name"}, ClientReplaceFields,
            ClientCreate, ClientUpdate, ClientDelete)
   EXCEPT !.required = {"user-pool-id"}, !.named = FALSE,
          !.together = {{"name", "callback-urls"}}]

---------------------------------------------------------------------------
(* user_pool_domain_*.go.  A domain that does not become active is deleted. *)

WaitUserPoolDomainUpdateActive == Await
WaitUserPoolDomainAbsent       == Gone
DomainRead                     == Look

CreateDomainInput ==
  Create("CreateUserPoolDomain",
         {"domain", "user-pool-id", "custom-domain-config", "managed-login-version", "routing"})

DomainCreate == CreateDomainInput \o Await \o DomainRead

DomainDelete == AbsentEnds(Delete("DeleteUserPoolDomain")) \o WaitUserPoolDomainAbsent

CleanupCreatedDomain == DomainDelete

ValidateDomainUpdate ==
  When(Introduced({"custom-domain-config"}), Reject)
  \o When(Removed({"custom-domain-config"}), Reject)

(* An update is also due when the plan's Read saw other values; what is     *)
(* sent are the inputs that changed, though.                                *)
UpdateDomainInput ==
  Modify("UpdateUserPoolDomain", {"custom-domain-config", "managed-login-version", "routing"})

DomainUpdateNeeded ==
  Astray({"custom-domain-config", "routing"})

DomainUpdate ==
  ValidateDomainUpdate
  \o When(DomainUpdateNeeded,
          UpdateDomainInput \o WaitUserPoolDomainUpdateActive \o DomainRead)
  \o When(Kept({"custom-domain-config", "routing"}) \cup Given({"managed-login-version"})
          \cup Astray({"managed-login-version"}),
          UpdateDomainInput \o WaitUserPoolDomainUpdateActive \o DomainRead)

Domain ==
  [Resource({"domain", "user-pool-id", "custom-domain-config", "managed-login-version", "routing"},
            {"domain", "user-pool-id"}, DomainCreate, DomainUpdate, DomainDelete)
   EXCEPT !.required = {"domain", "user-pool-id"}, !.cleanup = CleanupCreatedDomain,
          !.slow = {"CreateUserPoolDomain", "UpdateUserPoolDomain", "DeleteUserPoolDomain"},
          !.lags = TRUE]

---------------------------------------------------------------------------
(* user_rsrc.go.  enabled is {} unless it is false.                         *)

UserRead == Look

UserDisable == Put("AdminDisableUser", {"enabled"})

SetPermanentPassword == Send("AdminSetUserPassword", {"password"})

UserCreateInput ==
  Create("AdminCreateUser", {"user-pool-id", "username", "attributes", "temporary-password"})

UserCreate ==
  UserCreateInput
  \o When(Given({"enabled"}), UserDisable)
  \o When(Given({"password"}), SetPermanentPassword)
  \o UserRead

CleanupFailedUserCreate == AbsentEnds(Delete("AdminDeleteUser"))

UserAttributeChanges ==
  AddEach("AdminUpdateUserAttributes", "attributes")
  \o DropEach("AdminDeleteUserAttributes", "attributes")

UserUpdate ==
  UserAttributeChanges
  \o When(Removed({"enabled"}), Put("AdminEnableUser", {"enabled"}))
  \o When(ChangedTo({"enabled"}), UserDisable)
  \o When(ChangedTo({"temporary-password"}), Send("AdminSetUserPassword", {"temporary-password"}))
  \o When(ChangedTo({"password"}), SetPermanentPassword)
  \o UserRead

UserDelete == AbsentEnds(Delete("AdminDeleteUser"))

User ==
  [Resource({"user-pool-id", "username", "attributes", "enabled", "temporary-password",
             "password"}, {"user-pool-id", "username"}, UserCreate, UserUpdate, UserDelete)
   EXCEPT !.required = {"user-pool-id", "username"}, !.cleanup = CleanupFailedUserCreate]

---------------------------------------------------------------------------
Resources ==
  [cognito_idp_user_pool |-> UserPool, cognito_idp_user_pool_client |-> Client,
   cognito_idp_user_pool_domain |-> Domain, cognito_idp_user |-> User]
=============================================================================

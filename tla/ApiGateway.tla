----------------------------- MODULE ApiGateway -----------------------------
(* internal/service/apigatewayv2.  Every write is repeated while the API    *)
(* says that another change is under way (withConflictRetry).               *)
EXTENDS Steps

---------------------------------------------------------------------------
(* api_rsrc.go, api_cors.go                                                 *)

ApiReplaceFields == {"protocol-type", "credentials-arn", "route-key", "target"}

ApiUpdated ==
  {"api-key-selection-expression", "description", "disable-execute-api-endpoint",
   "disable-schema-validation", "ip-address-type", "route-selection-expression", "version"}

(* A body overwrites the configuration, so what the stack says of it is     *)
(* sent again.                                                              *)
ApiDeleteCors == AbsentOk(Put("DeleteCorsConfiguration", {"cors-configuration"}))

ApiReimport ==
  Put("ReimportApi", {"body"})
  \o Send("UpdateApi", {"name", "description", "version", "cors-configuration"})
  \o When(Absent({"cors-configuration"}), WhenLive(Has({"cors-configuration"}), ApiDeleteCors))
  \o Put("SyncTags", Tags)

ApiCreate ==
  Create("CreateApi", ApiReplaceFields \cup ApiUpdated \cup {"name", "cors-configuration", "tags"})
  \o When(Given({"body"}), Retried(ApiReimport))

ApiUpdate ==
  When(Removed({"cors-configuration"}), ApiDeleteCors)
  \o When(Edited(ApiUpdated \cup {"cors-configuration"}, {"name"}),
          Retried(Modify("UpdateApi", ApiUpdated \cup {"cors-configuration"})
                  ++ Replace("UpdateApi", {"name"})))
  \o When(ChangedTo({"body"}), Retried(ApiReimport))
  \o SyncTags

ApiDelete == Retried(AbsentEnds(Delete("DeleteApi")))
ApiUndo   == Delete("DeleteApi")    \* when the import of a new one failed

Api ==
  [Resource(ApiReplaceFields \cup ApiUpdated \cup {"name", "cors-configuration", "body", "tags"},
            ApiReplaceFields, ApiCreate, ApiUpdate, ApiDelete)
   EXCEPT !.cleanup = ApiUndo, !.required = {"name", "protocol-type"}, !.named = FALSE,
          !.together = {{"cors-configuration", "body"}, {"description", "body"}}]

---------------------------------------------------------------------------
(* api_mapping_rsrc.go                                                      *)

ApiMappingReplaceFields == {"api-id", "domain-name"}
ApiMappingRead          == Look

ApiMappingCreate ==
  Retried(Create("CreateApiMapping", ApiMappingReplaceFields \cup {"stage", "api-mapping-key"}))
  \o ApiMappingRead

ApiMappingUpdate ==
  When(Changed({"stage", "api-mapping-key"}),
       Retried(Replace("UpdateApiMapping", {"stage", "api-mapping-key"})))
  \o ApiMappingRead

ApiMappingDelete == Retried(AbsentEnds(Delete("DeleteApiMapping")))

ApiMapping ==
  [Resource(ApiMappingReplaceFields \cup {"stage", "api-mapping-key"}, ApiMappingReplaceFields,
            ApiMappingCreate, ApiMappingUpdate, ApiMappingDelete)
   EXCEPT !.required = {"api-id", "domain-name", "stage"}, !.named = FALSE]

---------------------------------------------------------------------------
(* authorizer_rsrc.go                                                       *)

AuthorizerInputs ==
  {"authorizer-type", "identity-sources", "name", "authorizer-credentials-arn",
   "authorizer-payload-format-version", "authorizer-uri", "enable-simple-responses",
   "jwt-configuration", "authorizer-result-ttl-in-seconds"}

AuthorizerGet == Look

AuthorizerCreate ==
  Retried(Create("CreateAuthorizer", AuthorizerInputs \cup {"api-id"})) \o AuthorizerGet

AuthorizerUpdateInput ==
  Replace("UpdateAuthorizer", AuthorizerInputs \ {"authorizer-result-ttl-in-seconds"})
  ++ Restore("UpdateAuthorizer", {"authorizer-result-ttl-in-seconds"})

(* A time to live that someone else changed is put back.                    *)
AuthorizerUpdate ==
  When(Drifted(AuthorizerInputs), Retried(AuthorizerUpdateInput)) \o AuthorizerGet

AuthorizerDelete == Retried(AbsentEnds(Delete("DeleteAuthorizer")))

Authorizer ==
  [Resource(AuthorizerInputs \cup {"api-id"}, {"api-id"}, AuthorizerCreate, AuthorizerUpdate,
            AuthorizerDelete)
   EXCEPT !.required = {"api-id", "name", "authorizer-type", "identity-sources"},
          !.named = FALSE]

---------------------------------------------------------------------------
(* domain_name_rsrc.go.  A domain name that does not become available is    *)
(* deleted again.                                                           *)

DomainNameInputs ==
  {"certificate-arn", "endpoint-type", "security-policy", "ip-address-type",
   "ownership-verification-certificate-arn"}

DomainNameWaitAvailable == Await
DomainNameGet           == Look

DomainNameCreate ==
  Retried(Create("CreateDomainName", DomainNameInputs
                 \cup {"domain-name", "mutual-tls-authentication", "routing-mode", "tags"}))
  \o DomainNameWaitAvailable \o DomainNameGet

DeleteAfterCreateFailure == Retried(AbsentEnds(Delete("DeleteDomainName")))

UpdateDomainNameInput ==
  Put("UpdateDomainName", DomainNameInputs) ++ Restore("UpdateDomainName", {"routing-mode"})
  ++ Replace("UpdateDomainName", {"mutual-tls-authentication"})

DomainNameUpdate ==
  When(Astray(Tags), Anytime(Put("SyncTags", Tags)))
  \o When(Drifted(DomainNameInputs \cup {"routing-mode", "mutual-tls-authentication"}),
          Retried(UpdateDomainNameInput) \o DomainNameWaitAvailable)
  \o DomainNameGet

DomainNameDelete == Retried(AbsentEnds(Delete("DeleteDomainName")))

DomainName ==
  [Resource(DomainNameInputs
            \cup {"domain-name", "mutual-tls-authentication", "routing-mode", "tags"},
            {"domain-name"}, DomainNameCreate, DomainNameUpdate, DomainNameDelete)
   EXCEPT !.cleanup = DeleteAfterCreateFailure, !.required = {"domain-name", "certificate-arn"},
          !.slow = {"CreateDomainName", "UpdateDomainName"}, !.lags = TRUE]

---------------------------------------------------------------------------
(* integration_rsrc.go, integration_response_parameters.go                  *)

IntegrationReplaceFields == {"api-id", "integration-type", "integration-subtype"}

IntegrationReplaced ==
  {"connection-id", "credentials-arn", "description", "integration-method", "integration-uri",
   "template-selection-expression", "request-templates", "tls-config"}

IntegrationModified ==
  {"connection-type", "content-handling-strategy", "passthrough-behavior",
   "payload-format-version", "timeout-in-millis"}

IntegrationParameters == {"request-parameters", "response-parameters"}

IntegrationCreate ==
  Retried(Create("CreateIntegration",
                 IntegrationReplaceFields \cup IntegrationReplaced \cup IntegrationModified
                 \cup IntegrationParameters))

(* A parameter that is gone is sent empty, which removes it.                *)
IntegrationRequestParameterUpdates  == Patch("UpdateIntegration", {"request-parameters"})
IntegrationResponseParameterUpdates == Patch("UpdateIntegration", {"response-parameters"})

UpdateIntegrationInput ==
  Replace("UpdateIntegration", IntegrationReplaced)
  ++ Modify("UpdateIntegration", IntegrationModified)
  ++ IntegrationRequestParameterUpdates ++ IntegrationResponseParameterUpdates

IntegrationUpdate ==
  When(Edited(IntegrationModified, IntegrationReplaced \cup IntegrationParameters),
       Retried(UpdateIntegrationInput))

IntegrationDelete == Retried(AbsentEnds(Delete("DeleteIntegration")))

Integration ==
  [Resource(IntegrationReplaceFields \cup IntegrationReplaced \cup IntegrationModified
            \cup IntegrationParameters,
            IntegrationReplaceFields, IntegrationCreate, IntegrationUpdate, IntegrationDelete)
   EXCEPT !.required = {"api-id", "integration-type"}, !.named = FALSE]

---------------------------------------------------------------------------
(* route_rsrc.go.  A call that updates request parameters adds to them, so  *)
(* those that are gone are deleted first.                                   *)

RouteReplaced ==
  {"api-key-required", "authorization-scopes", "model-selection-expression", "operation-name",
   "request-models", "route-response-selection-expression", "target"}

RouteAuthorization == {"authorization-type", "authorizer-id"}

RouteCreate ==
  Retried(Create("CreateRoute", RouteReplaced \cup RouteAuthorization
                 \cup {"api-id", "route-key", "request-parameters"}))

RemoveDepartedParameters ==
  DropEach("DeleteRouteRequestParameter", "request-parameters")

RouteUpdate ==
  Retried(AbsentOk(RemoveDepartedParameters))
  \o When(Edited({"request-parameters"}, RouteReplaced \cup RouteAuthorization \cup {"route-key"}),
          Retried(Replace("UpdateRoute", RouteReplaced \cup RouteAuthorization \cup {"route-key"})
                  ++ Patch("UpdateRoute", {"request-parameters"})))

RouteDelete == Retried(AbsentEnds(Delete("DeleteRoute")))

Route ==
  [Resource(RouteReplaced \cup RouteAuthorization
            \cup {"api-id", "route-key", "request-parameters"},
            {"api-id"}, RouteCreate, RouteUpdate, RouteDelete)
   EXCEPT !.required = {"api-id", "route-key"}]

---------------------------------------------------------------------------
(* stage_rsrc.go, stage_route_settings.go                                   *)

StageReplaceFields == {"api-id", "name"}

StageReplaced ==
  {"auto-deploy", "client-certificate-id", "default-route-settings", "description"}

StageSettings ==
  StageReplaced \cup {"access-log-settings", "deployment-id", "route-settings", "stage-variables"}

StageRead == Look

StageCreate == Retried(Create("CreateStage", StageReplaceFields \cup StageSettings \cup Tags))

StageDeleteAccessLogSettings ==
  AbsentOk(Clear("DeleteAccessLogSettings", {"access-log-settings"}))

StageDeleteRouteSettings == AbsentOk(DropEach("DeleteRouteSettings", "route-settings"))

StageVariablesPatch == Patch("UpdateStage", {"stage-variables"})

UpdateStage ==
  When(Removed({"access-log-settings"}), Retried(StageDeleteAccessLogSettings))
  \o Retried(StageDeleteRouteSettings)
  \o When(Edited({"access-log-settings", "deployment-id", "route-settings"},
                 StageReplaced \cup {"stage-variables"}),
          Retried(Replace("UpdateStage", StageReplaced) ++ StageVariablesPatch
                  ++ Modify("UpdateStage", {"access-log-settings", "deployment-id"})
                  ++ Patch("UpdateStage", {"route-settings"})))

StageUpdate == UpdateStage \o Retried(SyncTags) \o StageRead

StageDelete == Retried(AbsentEnds(Delete("DeleteStage")))

Stage ==
  [Resource(StageReplaceFields \cup StageSettings \cup Tags, StageReplaceFields, StageCreate,
            StageUpdate, StageDelete)
   EXCEPT !.required = StageReplaceFields,
          !.together = {{"access-log-settings", "route-settings"}}]

---------------------------------------------------------------------------
Resources ==
  [apigatewayv2_api |-> Api, apigatewayv2_api_mapping |-> ApiMapping,
   apigatewayv2_authorizer |-> Authorizer, apigatewayv2_domain_name |-> DomainName,
   apigatewayv2_integration |-> Integration, apigatewayv2_route |-> Route,
   apigatewayv2_stage |-> Stage]
=============================================================================

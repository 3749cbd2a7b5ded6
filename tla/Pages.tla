------------------------------- MODULE Pages -------------------------------
(***************************************************************************)
(* What the pages of the panel ask the API for, what they write through    *)
(* it, and whom they offer it to (frontend/src/features, lib/api), as      *)
(* tables that Panel turns into a state machine. A page is put together    *)
(* from parts, one definition each for                                     *)
(*    its queries:   where they are mounted ("page" or a dialog), the      *)
(*                   query key and the API call behind it;                 *)
(*    its mutations: the API call and the steps of onSuccess, in order;    *)
(*    its controls:  what is rendered for whom, and once which data is     *)
(*                   there.                                                *)
(* A call of the API is known by whom it allows (backend/app/api/v1) and   *)
(* by the facts it shows or changes. One object of every kind, one choice  *)
(* of filters per list. Left out: the fields of the forms and their        *)
(* checks, tables, badges, downloads, the playground.                      *)
(***************************************************************************)
EXTENDS Sequences, TLC

Roles == {"owner", "admin", "operator", "viewer"}

Managers  == {"owner", "admin"}
Operators == {"owner", "admin", "operator"}

Read(who, shows) == [who |-> who, shows |-> shows, touches |-> {}]
Write(who, touches) == [who |-> who, shows |-> {}, touches |-> touches]

-----------------------------------------------------------------------------
(* The API, object by object as in lib/api/endpoints.ts.                   *)
-----------------------------------------------------------------------------
systemApi ==
    [health          |-> Read(Roles, {}),
     providerCatalog |-> Read(Roles, {})]

\* The dashboard counts rows; what else it shows comes from the ledger.
dashboardApi ==
    [summary |-> Read(Roles, {"provider", "model count", "key", "user"})]

usersApi ==
    [list   |-> Read(Roles, {"user"}),
     create |-> Write(Managers, {"user", "audit"})]

auditApi ==
    [list |-> Read(Managers, {"audit"})]

settingsApi ==
    [bundle |-> Read(Roles, {"setting"}),
     update |-> Write(Managers, {"setting", "audit"})]

\* Deleting a provider takes its credentials, models and endpoints along.
providersApi ==
    [list         |-> Read(Roles, {"provider", "credential count", "model count", "health"}),
     get          |-> Read(Roles, {"provider", "credential count", "model count", "health"}),
     deleteImpact |-> Read(Roles, {"credential count", "model count", "endpoint"}),
     create       |-> Write(Managers, {"provider", "audit"}),
     update       |-> Write(Managers, {"provider", "audit"}),
     remove       |-> Write(Managers, {"provider", "credential", "credential count", "model",
                                       "model count", "endpoint", "health", "audit"}),
     test         |-> Write(Operators, {"health", "credential", "audit"})]

\* An endpoint loses its credential with the credential.
credentialsApi ==
    [list   |-> Read(Roles, {"credential"}),
     create |-> Write(Managers, {"credential", "credential count", "audit"}),
     update |-> Write(Managers, {"credential", "audit"}),
     rotate |-> Write(Managers, {"credential", "audit"}),
     verify |-> Write(Operators, {"credential", "health", "audit"}),
     remove |-> Write(Managers, {"credential", "credential count", "endpoint", "audit"})]

modelsApi ==
    [list     |-> Read(Roles, {"model"}),
     get      |-> Read(Roles, {"model"}),
     create   |-> Write(Managers, {"model", "model count", "audit"}),
     update   |-> Write(Managers, {"model", "audit"}),
     remove   |-> Write(Managers, {"model", "model count", "endpoint", "audit"}),
     discover |-> Write(Managers, {"model", "model count", "audit"})]

endpointsApi ==
    [list   |-> Read(Roles, {"endpoint"}),
     create |-> Write(Managers, {"endpoint", "audit"}),
     update |-> Write(Managers, {"endpoint", "audit"}),
     remove |-> Write(Managers, {"endpoint", "audit"})]

apiKeysApi ==
    [list   |-> Read(Roles, {"key"}),
     usage  |-> Read(Roles, {}),
     create |-> Write(Managers, {"key", "audit"}),
     update |-> Write(Managers, {"key", "audit"}),
     revoke |-> Write(Managers, {"key", "audit"}),
     remove |-> Write(Managers, {"key", "audit"})]

routingApi ==
    [strategies |-> Read(Roles, {}),
     list       |-> Read(Roles, {"rule"}),
     create     |-> Write(Managers, {"rule", "audit"}),
     update     |-> Write(Managers, {"rule", "audit"}),
     remove     |-> Write(Managers, {"rule", "audit"}),
     simulate   |-> Write(Roles, {"audit"})]

\* A run of the checks sets the health of the providers and their credentials.
healthApi ==
    [providers    |-> Read(Roles, {"provider", "health", "credential count", "model count"}),
     observations |-> Read(Roles, {"health"}),
     run          |-> Write(Operators, {"health", "credential", "audit"})]

\* Nothing that is shown is computed from the rollups.
usageApi ==
    [summary        |-> Read(Roles, {}),
     breakdown      |-> Read(Roles, {}),
     requests       |-> Read(Roles, {}),
     request        |-> Read(Roles, {}),
     rebuildRollups |-> Write(Managers, {"rollup"})]

-----------------------------------------------------------------------------
Query(on, key, call) == [on |-> on, key |-> key, call |-> call, who |-> Roles]
QueryFor(who, on, key, call) == [Query(on, key, call) EXCEPT !.who = who]

\* A step of onSuccess: close the dialog, refresh what a key is a prefix of
\* (waiting for it or not), go to a page.
Close == [do |-> "close"]
Refresh(key) == [do |-> "refresh", key |-> key, wait |-> TRUE]
RefreshNoWait(key) == [do |-> "refresh", key |-> key, wait |-> FALSE]
GoTo(path) == [do |-> "go", to |-> path]

Mutation(call, then) == [call |-> call, then |-> then]

Always == <<>>

\* Who is offered what, once the data of the query "needs" is on the page.
\* An item of a menu, or a button that nothing disables, can be chosen again
\* while its write is under way; a button that is disabled meanwhile, or a
\* dialog, can not: Confirm is part of the page, Form a component of its own,
\* which is gone once its dialog closes.
Control(on, needs, who, opens, submits, busy) ==
    [on |-> on, needs |-> needs, who |-> who, opens |-> opens, submits |-> submits, busy |-> busy]

Opens(box, needs, who)       == Control("page", needs, who, box, "none", "never")
Item(submits, needs, who)    == Control("page", needs, who, "none", submits, "never")
Button(submits, needs, who)  == Control("page", needs, who, "none", submits, "page")
Confirm(box, submits)        == Control(box, Always, Roles, "none", submits, "page")
Form(box, submits)           == Control(box, Always, Roles, "none", submits, "dialog")

-----------------------------------------------------------------------------
(* Providers.                                                              *)
-----------------------------------------------------------------------------
ProviderList == <<"providers", "list">>

ProvidersPageQueries ==
    {Query("page", ProviderList, providersApi.list),
     Query("delete", <<"provider-delete-impact">>, providersApi.deleteImpact)}

ProvidersPageMutations ==
    [delete |-> Mutation(providersApi.remove, <<Close, Refresh(<<"providers">>)>>),
     toggle |-> Mutation(providersApi.update, <<Refresh(<<"providers">>)>>),
     test   |-> Mutation(providersApi.test, <<Refresh(<<"providers">>)>>)]

ProvidersPageControls ==
    {Opens("create", Always, Managers),
     Opens("edit", ProviderList, Managers),
     Opens("delete", ProviderList, Managers),
     Confirm("delete", "delete"),
     Item("toggle", ProviderList, Managers),
     Item("test", ProviderList, Operators)}

\* The options of a select keep the names of a list.
useProviderOptions(key) == {Query("page", key, Read(Roles, {"provider"}))}

ProviderFormQueries ==
    {Query("create", <<"provider-catalog">>, systemApi.providerCatalog),
     Query("edit", <<"provider-catalog">>, systemApi.providerCatalog)}

ProviderFormMutations ==
    [create |-> Mutation(providersApi.create, <<Close, Refresh(<<"providers">>)>>),
     edit   |-> Mutation(providersApi.update,
                         <<Close, Refresh(<<"providers">>), Refresh(<<"provider">>)>>)]

ProviderFormControls == {Form("create", "create"), Form("edit", "edit")}

ProviderDetailPageQueries ==
    {Query("page", <<"provider">>, providersApi.get),
     Query("delete", <<"provider-delete-impact">>, providersApi.deleteImpact)}

ProviderDetailPageMutations ==
    [toggle |-> Mutation(providersApi.update,
                         <<Refresh(<<"provider">>), Refresh(<<"providers">>)>>),
     test   |-> Mutation(providersApi.test, <<Refresh(<<"provider">>)>>),
     delete |-> Mutation(providersApi.remove,
                         <<Refresh(<<"providers">>), GoTo("/providers")>>)]

ProviderDetailPageControls ==
    {Button("test", <<"provider">>, Operators),
     Opens("edit", <<"provider">>, Managers),
     Opens("delete", <<"provider">>, Managers),
     Confirm("delete", "delete"),
     Button("toggle", <<"provider">>, Managers)}

CredentialsPanelQueries ==
    {Query("page", <<"provider-credentials">>, credentialsApi.list)}

CredentialsPanelMutations ==
    LET invalidate == <<Refresh(<<"provider-credentials">>), Refresh(<<"providers">>),
                        Refresh(<<"provider">>)>>
    IN  [createCredential |-> Mutation(credentialsApi.create, <<Close>> \o invalidate),
         rotate           |-> Mutation(credentialsApi.rotate, <<Close>> \o invalidate),
         verify           |-> Mutation(credentialsApi.verify, invalidate),
         revoke           |-> Mutation(credentialsApi.update, <<Close>> \o invalidate),
         deleteCredential |-> Mutation(credentialsApi.remove, <<Close>> \o invalidate)]

CredentialsPanelControls(provider) ==
    LET credentials == <<"provider-credentials">>
    IN  {Opens("createCredential", provider, Managers),
         Confirm("createCredential", "createCredential"),
         Button("verify", credentials, Operators),
         Opens("rotate", credentials, Managers), Confirm("rotate", "rotate"),
         Opens("revoke", credentials, Managers), Confirm("revoke", "revoke"),
         Opens("deleteCredential", credentials, Managers),
         Confirm("deleteCredential", "deleteCredential")}

CredentialPicker == <<"providers", "credentials-picker">>

CredentialsPageQueries == useProviderOptions(CredentialPicker)

-----------------------------------------------------------------------------
(* Models.                                                                 *)
-----------------------------------------------------------------------------
ModelList == <<"models", "list">>
ProviderLookup == <<"providers", "lookup">>

ModelsPageQueries ==
    {Query("page", ModelList, modelsApi.list)} \cup useProviderOptions(ProviderLookup)

ModelsPageMutations ==
    [delete    |-> Mutation(modelsApi.remove, <<Close, Refresh(<<"models">>)>>),
     toggle    |-> Mutation(modelsApi.update, <<Refresh(<<"models">>)>>),
     deprecate |-> Mutation(modelsApi.update, <<Refresh(<<"models">>)>>)]

ModelsPageControls ==
    {Opens("discover", Always, Managers),
     Opens("create", Always, Managers),
     Opens("edit", ModelList, Managers),
     Item("toggle", ModelList, Managers),
     Item("deprecate", ModelList, Managers),
     Opens("delete", ModelList, Managers),
     Confirm("delete", "delete")}

ModelFormMutations ==
    [create |-> Mutation(modelsApi.create, <<Close, Refresh(<<"models">>)>>),
     edit   |-> Mutation(modelsApi.update,
                         <<Close, Refresh(<<"models">>), Refresh(<<"model">>)>>)]

ModelFormControls == {Form("create", "create"), Form("edit", "edit")}

DiscoveryDialogMutations ==
    [discover |-> Mutation(modelsApi.discover,
                           <<Refresh(<<"models">>), Refresh(<<"providers">>)>>)]

DiscoveryDialogControls == {Form("discover", "discover")}

ModelDetailPageQueries ==
    {Query("page", <<"model">>, modelsApi.get)} \cup useProviderOptions(ProviderLookup)

ModelDetailPageMutations ==
    [toggle    |-> Mutation(modelsApi.update, <<Refresh(<<"model">>), Refresh(<<"models">>)>>),
     deprecate |-> Mutation(modelsApi.update, <<Refresh(<<"model">>)>>),
     delete    |-> Mutation(modelsApi.remove, <<Refresh(<<"models">>), GoTo("/models")>>)]

ModelDetailPageControls ==
    {Opens("edit", <<"model">>, Managers),
     Opens("delete", <<"model">>, Managers),
     Confirm("delete", "delete"),
     Button("toggle", <<"model">>, Managers),
     Button("deprecate", <<"model">>, Managers)}

EndpointsPanelQueries ==
    {Query("page", <<"model-endpoints">>, endpointsApi.list),
     Query("page", <<"provider-credentials">>, credentialsApi.list)}

EndpointsPanelMutations ==
    [createEndpoint |-> Mutation(endpointsApi.create, <<Close, Refresh(<<"model-endpoints">>)>>),
     editEndpoint   |-> Mutation(endpointsApi.update, <<Close, Refresh(<<"model-endpoints">>)>>),
     deleteEndpoint |-> Mutation(endpointsApi.remove, <<Close, Refresh(<<"model-endpoints">>)>>)]

EndpointsPanelControls ==
    {Opens("createEndpoint", <<"model">>, Managers),
     Confirm("createEndpoint", "createEndpoint"),
     Opens("editEndpoint", <<"model-endpoints">>, Managers),
     Confirm("editEndpoint", "editEndpoint"),
     Opens("deleteEndpoint", <<"model-endpoints">>, Managers),
     Confirm("deleteEndpoint", "deleteEndpoint")}

-----------------------------------------------------------------------------
(* API keys and routing.                                                   *)
-----------------------------------------------------------------------------
KeyList == <<"api-keys", "list">>

ApiKeysPageQueries == {Query("page", KeyList, apiKeysApi.list)}

ApiKeysPageMutations ==
    [toggle |-> Mutation(apiKeysApi.update, <<Refresh(<<"api-keys">>)>>),
     revoke |-> Mutation(apiKeysApi.revoke, <<Close, Refresh(<<"api-keys">>)>>),
     delete |-> Mutation(apiKeysApi.remove, <<Close, Refresh(<<"api-keys">>)>>)]

ApiKeysPageControls ==
    {Opens("create", Always, Managers),
     Opens("usage", KeyList, Roles),
     Opens("edit", KeyList, Managers),
     Item("toggle", KeyList, Managers),
     Opens("revoke", KeyList, Managers), Confirm("revoke", "revoke"),
     Opens("delete", KeyList, Managers), Confirm("delete", "delete")}

\* The form closes last, a created key is revealed in a dialog of its own.
ApiKeyFormMutations ==
    [create |-> Mutation(apiKeysApi.create, <<Refresh(<<"api-keys">>), Close>>),
     edit   |-> Mutation(apiKeysApi.update, <<Refresh(<<"api-keys">>), Close>>)]

ApiKeyFormControls == {Form("create", "create"), Form("edit", "edit")}

ApiKeyUsageDialogQueries == {Query("usage", <<"api-key-usage">>, apiKeysApi.usage)}

RuleList == <<"routing", "rules">>

RoutingPageQueries ==
    {Query("page", <<"routing", "strategies">>, routingApi.strategies),
     Query("page", RuleList, routingApi.list)}

RoutingPageMutations ==
    [toggle |-> Mutation(routingApi.update, <<Refresh(<<"routing", "rules">>)>>),
     delete |-> Mutation(routingApi.remove, <<Close, Refresh(<<"routing", "rules">>)>>)]

RoutingPageControls ==
    {Opens("create", Always, Managers),
     Opens("edit", RuleList, Managers),
     Item("toggle", RuleList, Managers),
     Opens("delete", RuleList, Managers),
     Confirm("delete", "delete")}

RoutingRuleDialogMutations ==
    [create |-> Mutation(routingApi.create, <<Refresh(<<"routing", "rules">>), Close>>),
     edit   |-> Mutation(routingApi.update, <<Refresh(<<"routing", "rules">>), Close>>)]

RoutingRuleDialogControls == {Form("create", "create"), Form("edit", "edit")}

RoutingSimulatorMutations == [simulate |-> Mutation(routingApi.simulate, <<>>)]

RoutingSimulatorControls == {Button("simulate", Always, Roles)}

-----------------------------------------------------------------------------
(* Health, dashboard, usage, logs, users, settings, audit.                 *)
-----------------------------------------------------------------------------
ProviderHealthPanelQueries ==
    {Query("page", <<"health", "providers">>, healthApi.providers),
     Query("page", <<"health", "observations">>, healthApi.observations)}

ProviderHealthPanelMutations ==
    [run |-> Mutation(healthApi.run, <<Refresh(<<"health">>), Refresh(<<"providers">>),
                                       Refresh(<<"dashboard">>)>>)]

ProviderHealthPanelControls == {Button("run", Always, Operators)}

HealthPageQueries == {Query("page", <<"system", "health">>, systemApi.health)}

DashboardPageQueries ==
    {Query("page", <<"dashboard", "summary">>, dashboardApi.summary)}

UsagePageQueries ==
    {Query("page", <<"usage-summary">>, usageApi.summary),
     Query("page", <<"usage-breakdown">>, usageApi.breakdown),
     Query("page", <<"models", "usage-filter">>, modelsApi.list),
     Query("page", <<"api-keys", "usage-filter">>, apiKeysApi.list)}
        \cup useProviderOptions(<<"providers", "usage-filter">>)

UsagePageMutations ==
    [rebuild |-> Mutation(usageApi.rebuildRollups, <<RefreshNoWait(<<"usage-summary">>)>>)]

UsagePageControls == {Button("rebuild", Always, Managers)}

RequestLogsPageQueries ==
    {Query("page", <<"request-logs">>, usageApi.requests),
     Query("page", <<"models", "logs-filter">>, modelsApi.list),
     Query("detail", <<"request-log-detail">>, usageApi.request)}
        \cup useProviderOptions(<<"providers", "logs-filter">>)

RequestLogsPageControls == {Opens("detail", <<"request-logs">>, Roles)}

UsersPageQueries == {Query("page", <<"admin-users">>, usersApi.list)}

UsersPageMutations ==
    [create |-> Mutation(usersApi.create, <<Close, Refresh(<<"admin-users">>)>>)]

UsersPageControls == {Opens("create", Always, Managers), Confirm("create", "create")}

SettingsPageQueries == {Query("page", <<"settings">>, settingsApi.bundle)}

SettingsPageMutations ==
    [update |-> Mutation(settingsApi.update,
                         <<Refresh(<<"settings">>), Refresh(<<"audit-logs">>)>>)]

\* The controls ask whether the setting may be edited, not who edits it.
SettingsPageControls == {Button("update", <<"settings">>, Roles)}

AuditLogsPageQueries == {QueryFor(Managers, "page", <<"audit-logs">>, auditApi.list)}

-----------------------------------------------------------------------------
(* The routes and what they are made of.                                   *)
-----------------------------------------------------------------------------
NoMutations == [none |-> Mutation(Read(Roles, {}), <<>>)]

Page(queries, mutations, controls) ==
    [queries |-> queries, mutations |-> mutations, controls |-> controls]

Routes ==
    "/" :> Page(DashboardPageQueries, NoMutations, {}) @@
    "/providers" :> Page(ProvidersPageQueries \cup ProviderFormQueries,
                         ProvidersPageMutations @@ ProviderFormMutations,
                         ProvidersPageControls \cup ProviderFormControls) @@
    "/providers/:providerId" :> Page(
        ProviderDetailPageQueries \cup ProviderFormQueries \cup CredentialsPanelQueries,
        ProviderDetailPageMutations @@ ProviderFormMutations @@ CredentialsPanelMutations,
        ProviderDetailPageControls \cup {Form("edit", "edit")}
            \cup CredentialsPanelControls(<<"provider">>)) @@
    "/credentials" :> Page(CredentialsPageQueries \cup CredentialsPanelQueries,
                           CredentialsPanelMutations,
                           CredentialsPanelControls(CredentialPicker)) @@
    "/models" :> Page(ModelsPageQueries,
                      ModelsPageMutations @@ ModelFormMutations @@ DiscoveryDialogMutations,
                      ModelsPageControls \cup ModelFormControls
                          \cup DiscoveryDialogControls) @@
    "/models/:modelId" :> Page(ModelDetailPageQueries \cup EndpointsPanelQueries,
        ModelDetailPageMutations @@ ModelFormMutations @@ EndpointsPanelMutations,
        ModelDetailPageControls \cup {Form("edit", "edit")} \cup EndpointsPanelControls) @@
    "/api-keys" :> Page(ApiKeysPageQueries \cup ApiKeyUsageDialogQueries,
                        ApiKeysPageMutations @@ ApiKeyFormMutations,
                        ApiKeysPageControls \cup ApiKeyFormControls) @@
    "/routing" :> Page(RoutingPageQueries,
        RoutingPageMutations @@ RoutingRuleDialogMutations @@ RoutingSimulatorMutations,
        RoutingPageControls \cup RoutingRuleDialogControls \cup RoutingSimulatorControls) @@
    "/health" :> Page(HealthPageQueries \cup ProviderHealthPanelQueries,
                      ProviderHealthPanelMutations, ProviderHealthPanelControls) @@
    "/usage" :> Page(UsagePageQueries, UsagePageMutations, UsagePageControls) @@
    "/logs" :> Page(RequestLogsPageQueries, NoMutations, RequestLogsPageControls) @@
    "/audit-logs" :> Page(AuditLogsPageQueries, NoMutations, {}) @@
    "/users" :> Page(UsersPageQueries, UsersPageMutations, UsersPageControls) @@
    "/settings" :> Page(SettingsPageQueries, SettingsPageMutations, SettingsPageControls)
=============================================================================

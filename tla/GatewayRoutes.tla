---- MODULE GatewayRoutes ----
(***************************************************************************)
(* The routes of the API gateway: for each handler of each controller the  *)
(* guards in the order NestJS runs them (controller guards first), the     *)
(* roles its @Roles decorator names, where the organization id comes from, *)
(* the marketplace feature it requires, and the service methods it calls,  *)
(* in order.  Input pipes, swagger decorators and the shape of responses   *)
(* are left out; a handler that may reject its input does so in Gateway.   *)
(* The controllers of agent/ and revocation/ are no routes: no module of   *)
(* the application registers the one, the other has every handler commented*)
(* out.                                                                    *)
(***************************************************************************)
EXTENDS RouteTerms, NatsCommands, Sequences

(***************************************************************************)
(* Routes by the guards they carry.  AuthGuard('jwt') is two lookups: the  *)
(* session of the token, then the user behind it.                          *)
(***************************************************************************)
Each(methods) == {<<m>> : m \in methods}
Route(guards, roles, where, feature, calls) ==
    [guards : {guards}, roles : {roles}, where : {where}, feature : {feature}, calls : calls]
Jwt == <<"session", "user">>
Open(calls) == Route(<<>>, {}, Free, "none", calls)
ByCookie(calls) == Route(<<"cookie">>, {}, Free, "none", calls)
SignedIn(calls) == Route(Jwt, {}, Free, "none", calls)
HolderOnly(calls) == Route(Jwt \o <<"holder">>, {}, Free, "none", calls)
UserOnly(calls) == Route(Jwt \o <<"person">>, {}, Free, "none", calls)
ClientOnly(calls) == Route(Jwt \o <<"client">>, {}, Free, "none", calls)
TrustService(calls) == Route(Jwt \o <<"trust">>, {}, Free, "none", calls)
Subscribed(calls) == Route(Jwt \o <<"person", "subscription">>, {}, Free, "none", calls)
Org(roles, where, calls) == Route(Jwt \o <<"org">>, roles, where, "none", calls)
OrgUser(roles, where, calls) == Route(Jwt \o <<"org", "person">>, roles, where, "none", calls)
OrgFeature(roles, where, calls) == Route(Jwt \o <<"org", "feature">>, roles, where, "none", calls)
Entitled(roles, where, feature, calls) ==
    Route(Jwt \o <<"org", "entitlement">>, roles, where, feature, calls)
Eco(roles, where, calls) == Route(<<"feature">> \o Jwt \o <<"ecosystem">>, roles, where, "none", calls)
EcoSignedIn(calls) == Route(<<"feature">> \o Jwt, {}, Free, "none", calls)
EcoAlways(roles, where, calls) == Route(Jwt \o <<"ecosystem">>, roles, where, "none", calls)

(***************************************************************************)
(* The controllers, in blocks of consecutive handlers.                     *)
(***************************************************************************)
AgentServiceRoutes1 == UNION {
    Org(Members \cup {HOLDER, SUPER_ADMIN}, Path, Each({"getAgentHealth",
        "signData"})),
    Open(Each({"verifysignature"})),
    SignedIn(Each({"getLedgerConfig"}))}

AgentServiceRoutes2 == UNION {
    Org(Admins, Path, Each({"agentSpinup", "createTenant", "createWallet"})),
    Org(Issuers, Path, Each({"createDid"}))}

AgentServiceRoutes3 == UNION {
    Org(Admins, Path, Each({"generateWebDid", "agentConfigure"})),
    Org(Staff \cup {PLATFORM_ADMIN}, Path, Each({"createSecp256k1KeyPair",
        "createEthKeyPair"})),
    Org({PLATFORM_ADMIN}, Free, Each({"setDedicatedAgentToken"}))}

AgentServiceRoutes4 ==
    Org({OWNER}, Path, Each({"deleteWallet"}))

AuthzRoutes1 ==
    Open(Each({"getClientAlias", "verifyEmail", "addUserDetails"}) \cup
        {<<"verifyInvitationPending", "sendVerificationMail">>})

AuthzRoutes2 == UNION {
    Open(Each({"login", "resetPassword", "forgotPassword", "resetNewPassword"})),
    ByCookie(Each({"getSession"}))}

AuthzRoutes3 == UNION {
    Open(Each({"refreshToken", "addUserDetailsUsernameBased"})),
    SignedIn(Each({"logout", "userSessions", "deleteSession"}))}

AuthzRoutes4 ==
    Open(Each({"usernameLogin"}))

CloudWalletRoutes1 == UNION {
    SignedIn(Each({"configureBaseWallet"})),
    HolderOnly(Each({"createCloudWallet", "checkCloudWalletStatus"}) \cup
        {<<"deleteCloudWallet", "deleteUser">>}),
    Org({PLATFORM_ADMIN}, Free, Each({"getBaseWalletDetails"}))}

CloudWalletRoutes2 == UNION {
    Org({PLATFORM_ADMIN}, Free, Each({"updateBaseWalletDetails"})),
    HolderOnly(Each({"acceptProofRequest", "declineProofRequest",
        "submitProofWithCred"}))}

CloudWalletRoutes3 ==
    HolderOnly(Each({"getProofById", "getCredentialsForRequest",
        "getProofPresentation", "getCredentialFormatDataByCredentialRecordId"}))

CloudWalletRoutes4 ==
    HolderOnly(Each({"receiveInvitationByUrl", "acceptOffer", "createDid",
        "exportWallet"}))

CloudWalletRoutes5 ==
    HolderOnly(Each({"getExportWalletStatus", "importWallet",
        "getImportWalletStatus", "getDidList"}))

CloudWalletRoutes6 ==
    HolderOnly(Each({"createConnection", "getconnectionById",
        "getAllconnectionById", "createSelfAttestedW3cCredential",
        "getCredentialList"}))

CloudWalletRoutes7 ==
    HolderOnly(Each({"getAllW3cCredentials", "getCredentialByCredentialRecordId",
        "getW3cCredentialByCredentialRecordId",
        "getProofFormatDataByProofRecordId"}))

CloudWalletRoutes8 ==
    HolderOnly(Each({"deleteCredentialByCredentialRecordId",
        "deleteW3cCredentialByCredentialRecordId", "getBasicMessageByConnectionId",
        "sendBasicMessage"}))

ConnectionRoutes1 == UNION {
    Org(Members, Path, Each({"getConnectionsById", "getConnections",
        "getConnectionListFromAgent"})),
    Org(Members \cup {HOLDER, SUPER_ADMIN, PLATFORM_ADMIN}, Path,
        Each({"getQuestionAnswersRecord"}))}

ConnectionRoutes2 == UNION {
    Org(Members, Path, Each({"createConnectionInvitation"})),
    Org(Members \cup {HOLDER, SUPER_ADMIN, PLATFORM_ADMIN}, Path,
        Each({"sendQuestion"})),
    Org(Admins, Path, Each({"receiveInvitationUrl", "receiveInvitation"}))}

ConnectionRoutes3 == UNION {
    Open({<<"getConnectionWebhook", "_getWebhookUrl", "_postWebhookResponse">>,
        <<"_getWebhookUrl", "_postWebhookResponse">>}),
    Org({OWNER}, Path, Each({"deleteConnectionRecords"}))}

ConnectionRoutes4 ==
    Org(Members \cup {HOLDER, SUPER_ADMIN, PLATFORM_ADMIN}, Path,
        Each({"sendBasicMessage"}))

CredDefRoutes == UNION {
    Org(Members, Path, Each({"getCredentialDefinitionById", "getAllCredDefs"})),
    SignedIn(Each({"getCredentialDefinitionBySchemaId"})),
    Entitled(Admins, Path, "credentialDefinitionCreate",
        Each({"createCredentialDefinition"}))}

EcosystemRoutes1 == UNION {
    Eco({ECOSYSTEM_LEAD}, Free, Each({"inviteMemberToEcosystem"})),
    EcoSignedIn(Each({"updateEcosystemInvitationStatus"})),
    Eco({OWNER}, Free, Each({"createEcosystem"}))}

EcosystemRoutes2 == UNION {
    Eco({ECOSYSTEM_LEAD, ECOSYSTEM_MEMBER, PLATFORM_ADMIN}, Free,
        Each({"getEcosystemOrgs"})),
    Eco(Admins \cup {PLATFORM_ADMIN}, Path, Each({"getEcosystemDashboard"})),
    Eco({ECOSYSTEM_LEAD}, Free, Each({"deleteEcosystemOrgs"}))}

EcosystemRoutes3 == UNION {
    Eco({ECOSYSTEM_LEAD}, Free, Each({"updateEcosystemOrgStatus",
        "getAllEcosystemOrgsByEcosystemId"})),
    Eco({OWNER}, Free, Each({"getEcosystemMemberInvitations"}))}

EcosystemRoutes4 ==
    EcoSignedIn(Each({"getCreateEcosystemInvitationStatus"}))

IntentRoutes1 ==
    Eco({ECOSYSTEM_LEAD}, Free, Each({"createIntent", "getIntents"}))

IntentRoutes2 ==
    Eco({ECOSYSTEM_LEAD}, Free, Each({"updateIntent", "deleteIntent"}))

IntentRoutes3 == UNION {
    Eco({ECOSYSTEM_LEAD, OWNER}, Free, Each({"getVerificationTemplates"})),
    Eco({ECOSYSTEM_LEAD}, Free, Each({"createIntentTemplate",
        "getAllIntentTemplatesByQuery"})),
    Eco({ECOSYSTEM_LEAD}, Path, Each({"getIntentTemplateByIntentAndOrg"}))}

IntentRoutes4 == UNION {
    Eco({ECOSYSTEM_LEAD}, Free, Each({"getIntentTemplatesByIntentId",
        "getIntentTemplateById", "updateIntentTemplate"})),
    Eco({ECOSYSTEM_LEAD, OWNER}, Path, Each({"getIntentTemplatesByOrgId"}))}

IntentRoutes5 == UNION {
    Eco({ECOSYSTEM_LEAD}, Free, Each({"deleteIntentTemplate",
        "createIntentNotice"})),
    Eco({ECOSYSTEM_LEAD, ECOSYSTEM_MEMBER}, Free, Each({"getIntentNotices",
        "getIntentNoticesByEcosystemId"}))}

IntentRoutes6 ==
    Eco({ECOSYSTEM_LEAD}, Free, Each({"updateIntentNotice", "deleteIntentNotice"}))

FidoRoutes1 ==
    Open(Each({"fetchFidoUserDetails", "generateRegistrationOption",
        "verifyRegistration", "generateAuthenticationOption",
        "verifyAuthentication"}))

FidoRoutes2 ==
    Open(Each({"updateFidoUser", "updateFidoUserDeviceName",
        "deleteFidoUserDevice"}))

GeoRoutes ==
    Open(Each({"getAllCountries", "getStatesByCountryId",
        "getCitiesByStateAndCountry"}))

IssuanceRoutes1 == UNION {
    Org(Members \cup {HOLDER}, Path, Each({"getIssueCredentials",
        "getIssueCredentialsbyCredentialRecordId"})),
    Org(Staff, Path, Each({"getAllCredentialTemplates"}))}

IssuanceRoutes2 == UNION {
    Org(Staff, Path, Each({"downloadBulkIssuanceCSVTemplate"})),
    Entitled(Staff, Path, "bulkIssuance", Each({"uploadCSVTemplate"}))}

IssuanceRoutes3 == UNION {
    Org(Staff, Path, Each({"previewCSVDetails"})),
    Entitled(Staff, Path, "bulkIssuance", Each({"issueBulkCredential"}))}

IssuanceRoutes4 ==
    Org(Staff, Path, Each({"issuedFileDetails", "getFileDetailsByFileId",
        "getFileDetailsAndFileDataByFileId"}))

IssuanceRoutes5 == UNION {
    Entitled(Staff, Path, "bulkIssuance", Each({"retryBulkCredential"})),
    Entitled(Issuers, Path, "issuance", Each({"sendCredentialCreateOffer"}))}

IssuanceRoutes6 ==
    Entitled(Issuers, Path, "issuance", Each({"outOfBandCredentialOffer",
        "sendCredentialOutOfBand"}))

IssuanceRoutes7 == UNION {
    Open({<<"getIssueCredentialWebhook", "recordUsageEvent", "_getWebhookUrl",
        "_postWebhookResponse">>}),
    Org({OWNER}, Path, Each({"deleteIssuanceRecords"}))}

MarketplaceRoutes == UNION {
    Open(Each({"resolveSubscription", "processWebhook"})),
    SignedIn(Each({"getOnboardingSession", "linkAccount", "linkOrganization",
        "activateSubscription", "getSubscription", "refreshSubscription",
        "getEntitlements", "getUsageSummary", "getMeteringEvents"}))}

NotificationRoutes == UNION {
    Open(Each({"registerOrgWebhookEndpoint", "sendNotification"})),
    ClientOnly(Each({"registerHolderNotification"}))}

Oid4vcIssuanceRoutes1 ==
    Org({OWNER}, Path, Each({"oidcIssuerCreate", "oidcIssuerUpdate",
        "oidcGetIssuerById", "oidcGetIssuers"}))

Oid4vcIssuanceRoutes2 ==
    Org({OWNER}, Path, Each({"oidcDeleteIssuer", "createTemplate",
        "findAllTemplate", "findByIdTemplate"}))

Oid4vcIssuanceRoutes3 ==
    Org({OWNER}, Path, Each({"updateTemplate", "deleteTemplate",
        "createOidcCredentialOffer"}))

Oid4vcIssuanceRoutes4 ==
    Org({OWNER}, Path, Each({"updateOidcCredentialOffer",
        "getCredentialOfferDetailsById", "getAllCredentialOffers",
        "deleteCredentialOffers", "createOidcCredentialOfferD2A"}))

Oid4vcIssuanceRoutes5 == UNION {
    Open({<<"oidcIssueCredentialWebhook", "_getWebhookUrl",
        "_postWebhookResponse">>}),
    Org({OWNER}, Path, Each({"revokeCredential"}))}

Oid4vpRoutes1 ==
    Org({OWNER}, Path, Each({"oid4vpCreateVerifier", "oid4vpUpdateVerifier",
        "oid4vpGetVerifier"}))

Oid4vpRoutes2 ==
    Org({OWNER}, Path, Each({"oid4vpDeleteVerifier",
        "oid4vpCreateVerificationSession"}))

Oid4vpRoutes3 ==
    Org({OWNER}, Path, Each({"createIntentBasedVerificationPresentation",
        "oid4vpGetVerifierSession"}))

Oid4vpRoutes4 == UNION {
    Org({OWNER}, Path, Each({"getVerificationSessionResponse"})),
    Open({<<"oid4vpPresentationWebhook", "_getWebhookUrl",
        "_postWebhookResponse">>})}

Oid4vpRoutes5 ==
    Org({OWNER}, Path, Each({"createVerificationTemplate",
        "getVerificationTemplates"}))

Oid4vpRoutes6 ==
    Org({OWNER}, Path, Each({"updateVerificationTemplate",
        "deleteVerificationTemplate", "verifyAuthorizationResponse"}))

OrganizationRoutes1 == UNION {
    Open(Each({"getOrgPofile", "getPublicOrganizations", "getPublicProfile"})),
    Org(Admins, Path, Each({"getOrgRoles"})),
    Org(Members \cup {SUPER_ADMIN}, Path, Each({"getOrganizationDashboard"}))}

OrganizationRoutes2 == UNION {
    Org({OWNER}, Path, Each({"getOrganizationActivityCount"})),
    Open(Each({"verifyInvitationPending"})),
    Org(Members \cup {SUPER_ADMIN}, Path, Each({"getInvitationsByOrgId"})),
    UserOnly(Each({"getOrganizations"})),
    TrustService(Each({"getEcosystemIdsByTenantId"}))}

OrganizationRoutes3 == UNION {
    Org(Members, Path, Each({"getOrganization", "fetchOrgCredentials"})),
    Org((Members \ {VERIFIER}) \cup {HOLDER, SUPER_ADMIN}, Path,
        Each({"getOrgUsers"})),
    Org(Members \ {VERIFIER}, Path, Each({"getDidList"})),
    Subscribed(Each({"createOrganization"}))}

OrganizationRoutes4 == UNION {
    Org(Members, Path, Each({"setPrimaryDid"})),
    OrgUser({OWNER}, Path, Each({"createOrgCredentials"})),
    Open(Each({"clientLoginCredentials"})),
    Org({PLATFORM_ADMIN}, Free, Each({"registerOrgsMapUsers"})),
    Org(Admins \cup {SUPER_ADMIN}, Path, Each({"createInvitation"}))}

OrganizationRoutes5 == UNION {
    Org(Admins, Path, Each({"updateUserRoles"})),
    OrgUser(Admins, Path, Each({"updateOrganization"})),
    Org({OWNER}, Path, Each({"deleteOrganization"})),
    SignedIn(Each({"deleteOrgClientCredentials"}))}

OrganizationRoutes6 == UNION {
    Org(Admins, Path, Each({"deleteOrganizationInvitation"})),
    Open(Each({"generateClientApiToken"})),
    EcoAlways({ECOSYSTEM_LEAD, PLATFORM_ADMIN}, Path, Each({"getAllOrganizations"}))}

PlatformRoutes1 == UNION {
    SignedIn(Each({"getAllSchema", "getAllPlatformCredDefs", "getAllLedgers",
        "getNetworkUrl"})),
    Open(Each({"getShorteningUrlById"}))}

PlatformRoutes2 == UNION {
    Open({<<>>}),
    OrgFeature({PLATFORM_ADMIN}, Free, Each({"inviteUserToCreateEcosystem"})),
    Org({PLATFORM_ADMIN}, Free, Each({"getInvitationsByUserId",
        "updateEcosystemConfig"})),
    EcoAlways({}, Free, Each({"getEcosystemEnableStatus"}))}

PlatformRoutes3 ==
    EcoAlways({PLATFORM_ADMIN}, Free, Each({"getDashboardCountEcosystem"}))

SchemaRoutes1 ==
    Org(Members, Path, Each({"getSchemaById", "getcredDefListBySchemaId",
        "getSchemas"}))

SchemaRoutes2 == UNION {
    Entitled(Admins, Path, "schemaCreate", {<<"createSchema", "recordUsageEvent">>}),
    SignedIn(Each({"updateSchema"})),
    Org(Admins, Path, Each({"migrateSchema"}))}

UserRoutes1 == UNION {
    Open(Each({"get", "getPublicProfile"})),
    UserOnly(Each({"getProfile", "getUserActivities"})),
    OrgUser({PLATFORM_ADMIN}, Free, Each({"getPlatformSettings"}))}

UserRoutes2 == UNION {
    UserOnly(Each({"invitations", "acceptRejectInvitaion", "updateUserProfile"})),
    Open(Each({"checkUserExist"}))}

UserRoutes3 == UNION {
    UserOnly(Each({"addPasskey"})),
    OrgUser({PLATFORM_ADMIN}, Free, Each({"updatePlatformSettings"}))}

UtilitiesRoutes == UNION {
    Open(Each({"createShorteningUrl"})),
    SignedIn(Each({"storeObject"}))}

VerificationRoutes1 == UNION {
    Org(Members \cup {HOLDER}, Path, Each({"getVerifiedProofDetails",
        "getProofPresentationById"})),
    Org(Verifiers, Path, Each({"getProofPresentationByThreadId"})),
    SignedIn(Each({"getPresentationDetailsByIssuerId"}))}

VerificationRoutes2 == UNION {
    Org(Members \cup {HOLDER}, Path, Each({"getProofPresentations"})),
    Entitled(Verifiers, Path, "verification", Each({"sendProofRequest"}))}

VerificationRoutes3 == UNION {
    Org(Verifiers, Path, Each({"sendProofRequest"})),
    Entitled(Verifiers, Path, "verification", Each({"verifyPresentation",
        "sendOutOfBandPresentationRequest"}))}

VerificationRoutes4 == UNION {
    Open({<<"webhookProofPresentation", "recordUsageEvent", "_getWebhookUrl",
        "_postWebhookResponse">>}),
    Org(Admins, Path, Each({"setRedirectUris"}))}

VerificationRoutes5 == UNION {
    Org(Admins, Path, Each({"setRedirectUris"})),
    Org(Verifiers, Path, Each({"getRedirectUris"})),
    Open(Each({"getProofCallbackResult"})),
    Org({OWNER}, Path, Each({"deleteVerificationRecords"}))}

WebhookRoutes == UNION {
    Org(Admins, Path, Each({"registerWebhook", "updateWebhook"})),
    Org(Staff, Free, Each({"getWebhookUrl"}))}

X509Routes1 ==
    Org(Admins, Path, Each({"createX509", "activateX509", "deActivateX509",
        "getX509CertificatesByOrgId"}))

X509Routes2 ==
    Org(Admins, Path, Each({"getX509Certificate", "importX509"}))

(***************************************************************************)
(* All routes, each call replaced by the command its service sends.  No    *)
(* two services one controller uses have a method of the same name.        *)
(***************************************************************************)
Command(services, method) == (CHOOSE t \in services : method \in DOMAIN t)[method]
In(services, routes) ==
    {[r EXCEPT !.calls = [i \in DOMAIN @ |-> Command(services, @[i])]] : r \in routes}

Routes ==
    In({AgentServiceCommands}, AgentServiceRoutes1 \cup AgentServiceRoutes2 \cup
        AgentServiceRoutes3 \cup AgentServiceRoutes4) \cup
    In({AuthzCommands, OrganizationCommands1, OrganizationCommands2}, AuthzRoutes1
        \cup AuthzRoutes2 \cup AuthzRoutes3 \cup AuthzRoutes4) \cup
    In({CloudWalletCommands1, CloudWalletCommands2}, CloudWalletRoutes1 \cup
        CloudWalletRoutes2 \cup CloudWalletRoutes3 \cup CloudWalletRoutes4 \cup
        CloudWalletRoutes5 \cup CloudWalletRoutes6 \cup CloudWalletRoutes7 \cup
        CloudWalletRoutes8) \cup
    In({ConnectionCommands}, ConnectionRoutes1 \cup ConnectionRoutes2 \cup
        ConnectionRoutes3 \cup ConnectionRoutes4) \cup
    In({CredDefCommands}, CredDefRoutes) \cup
    In({EcosystemCommands1, EcosystemCommands2}, EcosystemRoutes1 \cup EcosystemRoutes2
        \cup EcosystemRoutes3 \cup EcosystemRoutes4) \cup
    In({EcosystemCommands1, EcosystemCommands2}, IntentRoutes1 \cup IntentRoutes2 \cup
        IntentRoutes3 \cup IntentRoutes4 \cup IntentRoutes5 \cup IntentRoutes6) \cup
    In({FidoCommands}, FidoRoutes1 \cup FidoRoutes2) \cup
    In({GeoCommands}, GeoRoutes) \cup
    In({IssuanceCommands1, IssuanceCommands2, MarketplaceCommands}, IssuanceRoutes1
        \cup IssuanceRoutes2 \cup IssuanceRoutes3 \cup IssuanceRoutes4 \cup
        IssuanceRoutes5 \cup IssuanceRoutes6 \cup IssuanceRoutes7) \cup
    In({MarketplaceCommands}, MarketplaceRoutes) \cup
    In({NotificationCommands}, NotificationRoutes) \cup
    In({Oid4vcIssuanceCommands}, Oid4vcIssuanceRoutes1 \cup Oid4vcIssuanceRoutes2 \cup
        Oid4vcIssuanceRoutes3 \cup Oid4vcIssuanceRoutes4 \cup Oid4vcIssuanceRoutes5) \cup
    In({Oid4vpCommands1, Oid4vpCommands2}, Oid4vpRoutes1 \cup Oid4vpRoutes2 \cup
        Oid4vpRoutes3 \cup Oid4vpRoutes4 \cup Oid4vpRoutes5 \cup Oid4vpRoutes6) \cup
    In({OrganizationCommands1, OrganizationCommands2}, OrganizationRoutes1 \cup
        OrganizationRoutes2 \cup OrganizationRoutes3 \cup OrganizationRoutes4 \cup
        OrganizationRoutes5 \cup OrganizationRoutes6) \cup
    In({PlatformCommands}, PlatformRoutes1 \cup PlatformRoutes2 \cup PlatformRoutes3) \cup
    In({SchemaCommands, MarketplaceCommands}, SchemaRoutes1 \cup SchemaRoutes2) \cup
    In({UserCommands}, UserRoutes1 \cup UserRoutes2 \cup UserRoutes3) \cup
    In({UtilitiesCommands}, UtilitiesRoutes) \cup
    In({VerificationCommands, MarketplaceCommands}, VerificationRoutes1 \cup
        VerificationRoutes2 \cup VerificationRoutes3 \cup VerificationRoutes4 \cup
        VerificationRoutes5) \cup
    In({WebhookCommands}, WebhookRoutes) \cup
    In({X509Commands}, X509Routes1 \cup X509Routes2)
====

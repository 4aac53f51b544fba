---- MODULE NatsCommands ----
(***************************************************************************)
(* The commands the services exchange over NATS.  A gateway service turns  *)
(* each of its methods into one command ({ cmd } pattern); a microservice  *)
(* controller listens for the commands its @MessagePattern decorators name.*)
(* The two sides agree by the spelling of the command only: nothing in the *)
(* build checks that a command that is sent has a listener.                *)
(***************************************************************************)
(***************************************************************************)
(* Gateway services: method |-> command.                                   *)
(***************************************************************************)
AgentServiceCommands ==
    [agentSpinup |-> "agent-spinup", createTenant |-> "create-tenant",
        createDid |-> "create-did", generateWebDid |-> "generate-web-did",
        createWallet |-> "create-wallet", getAgentHealth |-> "agent-health",
        signData |-> "sign-data-from-agent",
        verifysignature |-> "verify-signature-from-agent",
        getLedgerConfig |-> "get-ledger-config",
        createSecp256k1KeyPair |-> "polygon-create-keys",
        createEthKeyPair |-> "ethereum-create-keys",
        agentConfigure |-> "agent-configure",
        setDedicatedAgentToken |-> "set-dedicated-agent-token",
        deleteWallet |-> "delete-wallet"]

AuthzCommands ==
    [getClientAlias |-> "get-client-alias-and-url",
        getUserByKeycloakUserId |-> "get-user-by-keycloakUserId",
        sendVerificationMail |-> "send-verification-mail",
        verifyEmail |-> "user-email-verification", login |-> "user-holder-login",
        getSession |-> "fetch-session-details",
        checkSession |-> "check-session-details",
        resetPassword |-> "user-reset-password",
        forgotPassword |-> "user-forgot-password",
        resetNewPassword |-> "user-set-token-password",
        refreshToken |-> "refresh-token-details",
        userSessions |-> "session-details-by-userId",
        deleteSession |-> "delete-session-by-sessionId",
        addUserDetails |-> "add-user", logout |-> "user-logout",
        addUserDetailsUsernameBased |-> "add-user-username-based",
        usernameLogin |-> "username-holder-login"]

CloudWalletCommands1 ==
    [configureBaseWallet |-> "configure-cloud-base-wallet",
        checkCloudWalletStatus |-> "check-cloud-wallet-status",
        createConnection |-> "create-connection-by-holder",
        acceptProofRequest |-> "accept-proof-request-by-holder",
        declineProofRequest |-> "decline-proof-request-by-holder",
        getProofById |-> "get-proof-by-proof-id-holder",
        submitProofWithCred |-> "submit-proof-with-cred",
        getCredentialsForRequest |-> "get-credentials-for-request",
        getProofPresentation |-> "get-proof-presentation-holder",
        createCloudWallet |-> "create-cloud-wallet",
        deleteCloudWallet |-> "delete-cloud-wallet", deleteUser |-> "delete-user",
        getBaseWalletDetails |-> "get-base-wallet-details",
        updateBaseWalletDetails |-> "update-base-wallet-details",
        receiveInvitationByUrl |-> "receive-invitation-by-url",
        acceptOffer |-> "accept-credential-offer",
        createDid |-> "create-cloud-wallet-did",
        exportWallet |-> "export-cloud-wallet",
        getExportWalletStatus |-> "get-export-wallet-status",
        importWallet |-> "import-cloud-wallet",
        getImportWalletStatus |-> "get-import-wallet-status",
        getDidList |-> "cloud-wallet-did-list"]

CloudWalletCommands2 ==
    [getconnectionById |-> "get-cloud-wallet-connection-by-id",
        getAllconnectionById |-> "get-all-cloud-wallet-connections-list-by-id",
        getCredentialList |-> "wallet-credential-by-id",
        getAllW3cCredentials |-> "get-all-w3c-credenentials",
        getW3cCredentialByCredentialRecordId |-> "get-w3c-credential-by-record-id",
        getCredentialByCredentialRecordId |-> "wallet-credential-by-record-id",
        getCredentialFormatDataByCredentialRecordId |-> "wallet-credentialFormatData-by-record-id",
        getProofFormatDataByProofRecordId |-> "wallet-Proof-presentation-FormatData-by-record-id",
        deleteCredentialByCredentialRecordId |-> "delete-credential-by-record-id",
        deleteW3cCredentialByCredentialRecordId |-> "delete-w3c-credential-by-record-id",
        getBasicMessageByConnectionId |-> "basic-message-list-by-connection-id",
        sendBasicMessage |-> "send-basic-message",
        createSelfAttestedW3cCredential |-> "create-self-attested-w3c-credential"]

ConnectionCommands ==
    [sendQuestion |-> "send-question",
        sendBasicMessage |-> "send-basic-message-on-connection",
        getConnectionWebhook |-> "webhook-get-connection",
        getUrl |-> "get-connection-url", getConnections |-> "get-all-connections",
        getConnectionListFromAgent |-> "get-all-agent-connection-list",
        getConnectionsById |-> "get-connection-details-by-connectionId",
        getQuestionAnswersRecord |-> "get-question-answer-record",
        receiveInvitationUrl |-> "receive-invitation-url",
        receiveInvitation |-> "receive-invitation",
        _getWebhookUrl |-> "get-webhookurl",
        _postWebhookResponse |-> "post-webhook-response-to-webhook-url",
        createConnectionInvitation |-> "create-connection-invitation",
        deleteConnectionRecords |-> "delete-connection-records"]

CredDefCommands ==
    [createCredentialDefinition |-> "create-credential-definition",
        getCredentialDefinitionById |-> "get-credential-definition-by-id",
        getAllCredDefs |-> "get-all-credential-definitions",
        getCredentialDefinitionBySchemaId |-> "get-all-credential-definitions-by-schema-id"]

EcosystemCommands1 ==
    [createEcosystem |-> "create-ecosystem", getEcosystems |-> "get-ecosystems",
        getEcosystemDashboard |-> "get-ecosystem-dashboard",
        inviteMemberToEcosystem |-> "invite-member-to-ecosystem",
        updateEcosystemInvitationStatus |-> "update-ecosystem-invitation-status",
        deleteEcosystemOrgs |-> "delete-ecosystem-orgs",
        updateEcosystemOrgStatus |-> "update-ecosystem-org-status",
        getAllEcosystemOrgsByEcosystemId |-> "get-ecosystem-orgs",
        getEcosystemMemberInvitations |-> "get-ecosystem-member-invitations",
        getUserByKeycloakId |-> "get-user-by-keycloak-id",
        getEcosystemDetailsByUserId |-> "get-ecosystem-details-by-userid",
        getEcosystemOrgDetailsByUserId |-> "get-ecosystem-org-details-by-userid",
        createIntentTemplate |-> "create-intent-template",
        getIntentTemplateById |-> "get-intent-template-by-id",
        getIntentTemplatesByIntentId |-> "get-intent-templates-by-intent-id",
        updateIntentTemplate |-> "update-intent-template",
        deleteIntentTemplate |-> "delete-intent-template",
        getIntentTemplatesByOrgId |-> "get-intent-templates-by-org-id",
        createIntent |-> "create-intent"]

EcosystemCommands2 ==
    [getIntents |-> "get-intents",
        getVerificationTemplates |-> "get-verification-templates-by-org-id",
        getIntentTemplateByIntentAndOrg |-> "get-intent-template-by-intent-and-org",
        getAllIntentTemplatesByQuery |-> "get-all-intent-templates-by-query",
        updateIntent |-> "update-intent", deleteIntent |-> "delete-intent",
        getDashboardCountEcosystem |-> "get-platform-admin-dashboard-count",
        getEcosystemOrgs |-> "get-ecosystem-orgs-by-orgId",
        getCreateEcosystemInvitationStatus |-> "get-ecosystem-created-status",
        createIntentNotice |-> "create-intent-notice",
        getIntentNotices |-> "get-intent-notices",
        getIntentNoticesByEcosystemId |-> "get-intent-notices-by-ecosystem",
        updateIntentNotice |-> "update-intent-notice",
        deleteIntentNotice |-> "delete-intent-notice"]

FidoCommands ==
    [generateRegistrationOption |-> "generate-registration-options",
        verifyRegistration |-> "verify-registration",
        generateAuthenticationOption |-> "generate-authentication-options",
        verifyAuthentication |-> "verify-authentication",
        updateFidoUser |-> "update-user",
        fetchFidoUserDetails |-> "fetch-fido-user-details",
        deleteFidoUserDevice |-> "delete-fido-user-device",
        updateFidoUserDeviceName |-> "update-fido-user-device-name"]

GeoCommands ==
    [getAllCountries |-> "get-all-countries",
        getStatesByCountryId |-> "get-all-states",
        getCitiesByStateAndCountry |-> "get-all-cities"]

IssuanceCommands1 ==
    [sendCredentialCreateOffer |-> "send-credential-create-offer",
        sendCredentialOutOfBand |-> "send-credential-create-offer-oob",
        getIssueCredentials |-> "get-all-issued-credentials",
        getIssueCredentialsbyCredentialRecordId |-> "get-issued-credentials-by-credentialDefinitionId",
        getIssueCredentialWebhook |-> "webhook-get-issue-credential",
        outOfBandCredentialOffer |-> "out-of-band-credential-offer",
        getAllCredentialTemplates |-> "get-all-credential-template-for-bulk-operation",
        downloadBulkIssuanceCSVTemplate |-> "download-csv-template-for-bulk-operation",
        uploadCSVTemplate |-> "upload-csv-template",
        previewCSVDetails |-> "preview-csv-details"]

IssuanceCommands2 ==
    [issuedFileDetails |-> "issued-file-details",
        getFileDetailsByFileId |-> "issued-file-data",
        issueBulkCredential |-> "issue-bulk-credentials",
        retryBulkCredential |-> "retry-bulk-credentials",
        _getWebhookUrl |-> "get-webhookurl",
        _postWebhookResponse |-> "post-webhook-response-to-webhook-url",
        deleteIssuanceRecords |-> "delete-issuance-records",
        getFileDetailsAndFileDataByFileId |-> "issued-file-data-and-file-details"]

MarketplaceCommands ==
    [resolveSubscription |-> "marketplace-resolve-subscription",
        getOnboardingSession |-> "marketplace-get-onboarding-session",
        linkAccount |-> "marketplace-link-account",
        linkOrganization |-> "marketplace-link-organization",
        activateSubscription |-> "marketplace-activate-subscription",
        getSubscription |-> "marketplace-get-subscription",
        refreshSubscription |-> "marketplace-refresh-subscription",
        processWebhook |-> "marketplace-process-webhook",
        getEntitlements |-> "marketplace-get-entitlements",
        getUsageSummary |-> "marketplace-get-usage-summary",
        getMeteringEvents |-> "marketplace-get-metering-events",
        recordUsageEvent |-> "marketplace-record-usage-event"]

NotificationCommands ==
    [registerOrgWebhookEndpoint |-> "register-org-webhook-endpoint-for-notification",
        sendNotification |-> "send-notification",
        registerHolderNotification |-> "register-holder-notification"]

Oid4vcIssuanceCommands ==
    [oidcIssuerCreate |-> "oid4vc-issuer-create",
        oidcIssuerUpdate |-> "oid4vc-issuer-update",
        oidcGetIssuerById |-> "oid4vc-issuer-get-by-id",
        oidcGetIssuers |-> "oid4vc-get-issuers-issuance",
        oidcDeleteIssuer |-> "oid4vc-delete-issuer",
        deleteTemplate |-> "oid4vc-template-delete",
        updateTemplate |-> "oid4vc-template-update",
        findByIdTemplate |-> "oid4vc-template-find-id",
        findAllTemplate |-> "oid4vc-template-find-all",
        createTemplate |-> "oid4vc-template-create",
        createOidcCredentialOffer |-> "oid4vc-create-credential-offer",
        createOidcCredentialOfferD2A |-> "oid4vc-create-credential-offer-D2A",
        updateOidcCredentialOffer |-> "oid4vc-update-credential-offer",
        getCredentialOfferDetailsById |-> "oid4vc-credential-offer-get-by-id",
        getAllCredentialOffers |-> "oid4vc-credential-offer-get-all",
        deleteCredentialOffers |-> "oid4vc-credential-offer-delete",
        revokeCredential |-> "oid4vc-revoke-credential",
        oidcIssueCredentialWebhook |-> "webhook-oid4vc-issue-credential",
        _getWebhookUrl |-> "get-webhookurl",
        _postWebhookResponse |-> "post-webhook-response-to-webhook-url"]

Oid4vpCommands1 ==
    [createIntentBasedVerificationPresentation |-> "oid4vp-intent-based-verification-presentation",
        oid4vpCreateVerifier |-> "oid4vp-verifier-create",
        oid4vpUpdateVerifier |-> "oid4vp-verifier-update",
        oid4vpGetVerifier |-> "oid4vp-verifier-get",
        oid4vpDeleteVerifier |-> "oid4vp-verifier-delete",
        oid4vpGetVerifierSession |-> "oid4vp-verifier-session-get",
        getVerificationSessionResponse |-> "oid4vp-verifier-session-response-get",
        oid4vpCreateVerificationSession |-> "oid4vp-verification-session-create",
        oid4vpPresentationWebhook |-> "webhook-oid4vp-presentation",
        _getWebhookUrl |-> "get-webhookurl",
        _postWebhookResponse |-> "post-webhook-response-to-webhook-url",
        createVerificationTemplate |-> "verification-template-create",
        getVerificationTemplates |-> "verification-template-get"]

Oid4vpCommands2 ==
    [updateVerificationTemplate |-> "verification-template-update",
        deleteVerificationTemplate |-> "verification-template-delete",
        verifyAuthorizationResponse |-> "verify-authorization-response"]

OrganizationCommands1 ==
    [createOrganization |-> "create-organization",
        setPrimaryDid |-> "set-primary-did",
        createOrgCredentials |-> "create-org-credentials",
        updateOrganization |-> "update-organization",
        findOrganizationOwner |-> "get-organization-owner",
        getOrganizations |-> "get-organizations",
        getPublicOrganizations |-> "get-public-organizations",
        getPublicProfile |-> "get-organization-public-profile",
        getOrganization |-> "get-organization-by-id",
        fetchOrgCredentials |-> "fetch-org-client-credentials",
        getInvitationsByOrgId |-> "get-invitations-by-orgId",
        getOrganizationDashboard |-> "get-organization-dashboard",
        getOrganizationActivityCount |-> "get-organization-activity-count",
        getOrgRoles |-> "get-org-roles", createInvitation |-> "send-invitation",
        verifyInvitationPending |-> "verify-invitation-pending",
        registerOrgsMapUsers |-> "register-orgs-users-map"]

OrganizationCommands2 ==
    [updateUserRoles |-> "update-user-roles",
        getOrgUsers |-> "fetch-organization-user",
        getDidList |-> "fetch-organization-dids",
        getOrgPofile |-> "fetch-organization-profile",
        deleteOrganization |-> "delete-organization",
        deleteOrgClientCredentials |-> "delete-org-client-credentials",
        deleteOrganizationInvitation |-> "delete-organization-invitation",
        clientLoginCredentials |-> "authenticate-client-credentials",
        generateClientApiToken |-> "generate-client-api-token",
        getEcosystemIdsByTenantId |-> "get-ecosystem-ids-by-tenant-id",
        getAllOrganizations |-> "get-all-organizations"]

PlatformCommands ==
    [getAllSchema |-> "get-all-schemas",
        getAllPlatformCredDefs |-> "get-all-platform-cred-defs",
        getAllLedgers |-> "get-all-ledgers", getNetworkUrl |-> "get-network-url",
        getShorteningUrlById |-> "get-shortening-url",
        inviteUserToCreateEcosystem |-> "invite-user-for-ecosystem-creation",
        getInvitationsByUserId |-> "get-ecosystem-invitations-by-user",
        updateEcosystemConfig |-> "update-ecosystem-config",
        getEcosystemEnableStatus |-> "get-ecosystem-enable-status",
        getDashboardCountEcosystem |-> "get-platform-admin-dashboard-count"]

SchemaCommands ==
    [createSchema |-> "create-schema", migrateSchema |-> "migrate-w3c-schema",
        getSchemaById |-> "get-schema-by-id", getSchemas |-> "get-schemas",
        getcredDefListBySchemaId |-> "get-cred-def-list-by-schemas-id",
        updateSchema |-> "update-schema"]

UserCommands ==
    [getProfile |-> "get-user-profile",
        getPublicProfile |-> "get-user-public-profile",
        updateUserProfile |-> "update-user-profile",
        findUserinSupabase |-> "get-user-by-supabase",
        findUserinKeycloak |-> "get-user-by-keycloak",
        invitations |-> "get-org-invitations",
        acceptRejectInvitaion |-> "accept-reject-invitations",
        get |-> "fetch-users", checkUserExist |-> "check-user-exist",
        getUserActivities |-> "get-user-activity", addPasskey |-> "add-passkey",
        updatePlatformSettings |-> "update-platform-settings",
        getPlatformSettings |-> "fetch-platform-settings",
        getUserByUserIdInKeycloak |-> "get-user-info-by-user-email-keycloak",
        getUserByUsernameInKeycloak |-> "get-user-info-by-username-keycloak"]

UtilitiesCommands ==
    [createShorteningUrl |-> "create-shortening-url",
        storeObject |-> "store-object-return-url",
        getAllIntentTemplatesByQuery |-> "get-all-intent-templates-by-query",
        getIntentTemplateByIntentAndOrg |-> "get-intent-template-by-intent-and-org"]

VerificationCommands ==
    [getProofPresentations |-> "get-all-proof-presentations",
        getProofPresentationById |-> "get-proof-presentations-by-proofId",
        getPresentationDetailsByIssuerId |-> "get-proof-presentation-details-by-issuerId",
        sendProofRequest |-> "send-proof-request",
        verifyPresentation |-> "verify-presentation",
        webhookProofPresentation |-> "webhook-proof-presentation",
        sendOutOfBandPresentationRequest |-> "send-out-of-band-proof-request",
        getVerifiedProofDetails |-> "get-verified-proof-details",
        _getWebhookUrl |-> "get-webhookurl",
        _postWebhookResponse |-> "post-webhook-response-to-webhook-url",
        getProofPresentationByThreadId |-> "get-proof-presentation-by-thread",
        getProofCallbackResult |-> "get-proof-callback-result",
        setRedirectUris |-> "set-verification-redirect-uris",
        getRedirectUris |-> "get-verification-redirect-uris",
        deleteVerificationRecords |-> "delete-verification-records"]

WebhookCommands ==
    [getWebhookUrl |-> "get-webhookurl", registerWebhook |-> "register-webhook",
        updateWebhook |-> "update-webhook"]

X509Commands ==
    [createX509 |-> "create-x509-certificate",
        activateX509 |-> "activate-x509-certificate",
        deActivateX509 |-> "deActivate-x509-certificate",
        getX509CertificatesByOrgId |-> "get-all-certificates",
        getX509Certificate |-> "get-certificate",
        importX509 |-> "import-x509-certificate"]

(***************************************************************************)
(* Microservice controllers: the commands each of them handles.            *)
(***************************************************************************)
AgentProvisioningHandles ==
    {"wallet-provisioning"}

AgentServiceHandles1 ==
    {"agent-spinup", "create-tenant", "create-did", "generate-web-did",
        "create-wallet", "agent-create-schema", "agent-create-w3c-schema",
        "agent-migrate-w3c-schema", "agent-get-schema",
        "agent-create-credential-definition", "agent-get-credential-definition",
        "agent-create-connection-legacy-invitation",
        "agent-send-credential-create-offer", "agent-get-all-issued-credentials",
        "agent-get-issued-credentials-by-credentialDefinitionId",
        "agent-get-proof-presentations", "agent-get-proof-presentation-by-id",
        "agent-send-proof-request", "agent-verify-presentation",
        "agent-get-all-connections", "agent-get-connection-details-by-connectionId",
        "agent-health"}

AgentServiceHandles2 ==
    {"sign-data-from-agent", "verify-signature-from-agent", "get-ledger-config",
        "agent-send-out-of-band-proof-request", "get-agent-verified-proof-details",
        "agent-schema-endorsement-request", "agent-credDef-endorsement-request",
        "agent-sign-transaction", "agent-submit-transaction",
        "agent-out-of-band-credential-offer", "delete-wallet",
        "agent-receive-invitation-url", "agent-receive-invitation",
        "agent-send-question", "agent-send-basic-message",
        "agent-get-question-answer-record", "polygon-create-keys",
        "ethereum-create-keys", "agent-create-connection-invitation",
        "agent-configure"}

AgentServiceHandles3 ==
    {"set-dedicated-agent-token", "get-agent-details-by-org-id",
        "agent-create-oid4vc-issuer", "delete-oid4vc-issuer",
        "agent-create-oid4vc-template", "oid4vc-get-issuer-by-id",
        "oid4vc-get-issuers-agent-service",
        "agent-service-oid4vc-create-credential-offer",
        "agent-service-oid4vc-update-credential-offer",
        "agent-service-oid4vc-get-credential-offer-by-id",
        "agent-service-oid4vc-get-all-credential-offers",
        "agent-service-oid4vc-delete-credential-offer",
        "agent-service-oid4vc-revoke-credential", "agent-create-x509-certificate",
        "agent-decode-x509-certificate", "agent-import-x509-certificate",
        "agent-create-oid4vp-verifier", "agent-delete-oid4vp-verifier",
        "agent-update-oid4vp-verifier", "agent-get-oid4vp-verifier-session"}

AgentServiceHandles4 ==
    {"agent-create-oid4vp-verification-session",
        "agent-verify-oid4vp-session-auth-response"}

CloudWalletHandles1 ==
    {"configure-cloud-base-wallet", "create-connection-by-holder",
        "accept-proof-request-by-holder", "get-proof-by-proof-id-holder",
        "get-proof-presentation-holder", "decline-proof-request-by-holder",
        "submit-proof-with-cred", "get-credentials-for-request",
        "create-cloud-wallet", "receive-invitation-by-url",
        "accept-credential-offer", "create-cloud-wallet-did",
        "cloud-wallet-did-list", "get-cloud-wallet-connection-by-id",
        "get-all-cloud-wallet-connections-list-by-id", "wallet-credential-by-id",
        "wallet-credential-by-record-id", "basic-message-list-by-connection-id",
        "send-basic-message", "export-cloud-wallet", "get-export-wallet-status",
        "check-cloud-wallet-status", "delete-cloud-wallet",
        "get-base-wallet-details", "update-base-wallet-details",
        "get-all-w3c-credenentials", "get-w3c-credential-by-record-id",
        "wallet-credentialFormatData-by-record-id"}

CloudWalletHandles2 ==
    {"delete-credential-by-record-id", "delete-w3c-credential-by-record-id",
        "wallet-Proof-presentation-FormatData-by-record-id", "import-cloud-wallet",
        "get-import-wallet-status", "create-self-attested-w3c-credential"}

ConnectionHandles ==
    {"webhook-get-connection", "get-connection-url", "get-all-connections",
        "get-all-agent-connection-list", "get-connection-details-by-connectionId",
        "get-connection-records", "receive-invitation-url", "receive-invitation",
        "send-question", "get-question-answer-record",
        "create-connection-invitation", "delete-connection-records",
        "send-basic-message-on-connection"}

EcosystemHandles1 ==
    {"invite-user-for-ecosystem-creation", "get-ecosystem-invitations-by-user",
        "create-ecosystem", "get-ecosystems", "get-ecosystem-dashboard",
        "invite-member-to-ecosystem", "update-ecosystem-invitation-status",
        "delete-ecosystem-orgs", "update-ecosystem-org-status",
        "get-ecosystem-orgs", "get-ecosystem-member-invitations"}

EcosystemHandles2 ==
    {"get-user-by-keycloak-id", "get-ecosystem-details-by-userid",
        "get-ecosystem-org-details-by-userid", "create-intent-template",
        "get-intent-template-by-id", "get-intent-templates-by-intent-id",
        "get-intent-templates-by-org-id", "get-all-intent-templates-by-query",
        "get-intent-template-by-intent-and-org", "update-intent-template",
        "delete-intent-template", "create-intent", "get-intents",
        "get-verification-templates-by-org-id", "update-intent", "delete-intent"}

EcosystemHandles3 ==
    {"update-ecosystem-config", "get-platform-admin-dashboard-count",
        "get-ecosystem-enable-status", "get-ecosystem-orgs-by-orgId",
        "get-ecosystem-created-status", "create-intent-notice",
        "get-intent-notices", "get-intent-notices-by-ecosystem",
        "get-intent-notice-by-intent-id", "update-intent-notice",
        "delete-intent-notice"}

GeoLocationHandles ==
    {"get-all-countries", "get-all-states", "get-all-cities"}

IssuanceHandles ==
    {"get-issuance-records", "send-credential-create-offer",
        "send-credential-create-offer-oob", "get-all-issued-credentials",
        "get-issued-credentials-by-credentialDefinitionId",
        "webhook-get-issue-credential", "out-of-band-credential-offer",
        "download-csv-template-for-bulk-operation", "upload-csv-template",
        "preview-csv-details", "issued-file-details", "issued-file-data",
        "issue-bulk-credentials", "retry-bulk-credentials",
        "delete-issuance-records", "issued-file-data-and-file-details"}

CredDefHandles ==
    {"create-credential-definition", "get-credential-definition-by-id",
        "get-all-platform-cred-defs", "get-all-credential-definitions",
        "get-all-credential-definitions-by-schema-id",
        "get-all-credential-template-for-bulk-operation", "store-cred-def-record"}

LedgerHandles ==
    {"get-all-ledgers", "get-network-url", "get-network-details-by-id",
        "get-schema-details-for-ecosystem"}

SchemaHandles ==
    {"create-schema", "migrate-w3c-schema", "get-schemas-details",
        "get-schemas-details-by-name", "get-schema-by-id", "get-schemas",
        "get-cred-def-list-by-schemas-id", "get-all-schemas", "schema-exist",
        "archive-schemas", "store-schema-record", "get-schema-record-by-schema-id",
        "update-schema"}

MarketplaceHandles ==
    {"marketplace-resolve-subscription", "marketplace-get-onboarding-session",
        "marketplace-link-account", "marketplace-link-organization",
        "marketplace-activate-subscription", "marketplace-get-subscription",
        "marketplace-refresh-subscription", "marketplace-process-webhook",
        "marketplace-get-entitlements", "marketplace-get-usage-summary",
        "marketplace-get-metering-events", "marketplace-record-usage-event",
        "marketplace-submit-metering"}

NotificationHandles ==
    {"register-org-webhook-endpoint-for-notification", "send-notification",
        "register-holder-notification"}

Oid4vcIssuanceHandles1 ==
    {"oid4vc-issuer-create", "oid4vc-issuer-update", "oid4vc-issuer-get-by-id",
        "oid4vc-get-issuers-issuance", "oid4vc-delete-issuer",
        "oid4vc-template-create", "oid4vc-template-update",
        "oid4vc-template-delete", "oid4vc-template-find-id",
        "oid4vc-template-find-all", "oid4vc-create-credential-offer",
        "oid4vc-create-credential-offer-D2A", "oid4vc-update-credential-offer",
        "oid4vc-credential-offer-get-by-id", "oid4vc-credential-offer-get-all"}

Oid4vcIssuanceHandles2 ==
    {"oid4vc-credential-offer-delete", "oid4vc-revoke-credential",
        "webhook-oid4vc-issue-credential"}

Oid4vcVerificationHandles1 ==
    {"oid4vp-verifier-create", "oid4vp-verifier-update", "oid4vp-verifier-get",
        "oid4vp-verifier-delete", "oid4vp-verifier-session-get",
        "oid4vp-verifier-session-response-get",
        "oid4vp-verification-session-create",
        "oid4vp-intent-based-verification-presentation",
        "webhook-oid4vp-presentation", "verification-template-create",
        "verification-template-get"}

Oid4vcVerificationHandles2 ==
    {"verification-template-update", "verification-template-delete",
        "verify-authorization-response"}

OrganizationHandles1 ==
    {"create-organization", "set-primary-did", "create-org-credentials",
        "update-organization", "fetch-organization-dids", "get-organizations",
        "get-organizations-count", "get-public-organizations",
        "get-organization-by-id", "get-organization-public-profile",
        "get-invitations-by-orgId", "get-org-roles", "register-orgs-users-map",
        "send-invitation"}

OrganizationHandles2 ==
    {"fetch-user-invitations", "verify-invitation-pending",
        "update-invitation-status", "update-user-roles",
        "get-organization-dashboard", "get-organization-activity-count",
        "fetch-organization-profile", "get-organization-owner",
        "fetch-org-client-credentials", "get-organization-details",
        "delete-organization", "delete-org-client-credentials",
        "delete-organization-invitation", "authenticate-client-credentials",
        "get-platform-config-details", "get-agent-type-by-org-agent-type-id",
        "get-org-roles-details", "get-all-org-roles-details", "get-org-roles-by-id",
        "get-organization-by-org-id", "get-org-agents-and-user-roles",
        "generate-client-api-token", "get-all-organizations",
        "get-ecosystem-ids-by-tenant-id"}

FidoHandles ==
    {"generate-registration-options", "verify-registration",
        "generate-authentication-options", "verify-authentication", "update-user",
        "fetch-fido-user-details", "delete-fido-user-device",
        "update-fido-user-device-name"}

UserHandles1 ==
    {"get-client-alias-and-url", "send-verification-mail",
        "user-email-verification", "user-holder-login", "fetch-session-details",
        "check-session-details", "refresh-token-details",
        "session-details-by-userId", "delete-session-by-sessionId",
        "user-reset-password", "user-set-token-password", "user-forgot-password",
        "get-user-profile", "get-user-public-profile", "update-user-profile",
        "get-user-by-supabase", "get-user-by-keycloak", "get-user-by-mail",
        "get-user-by-user-id", "get-org-invitations", "accept-reject-invitations",
        "fetch-organization-user"}

UserHandles2 ==
    {"fetch-users", "check-user-exist", "add-user", "add-user-username-based",
        "username-holder-login", "delete-user", "get-user-activity", "add-passkey",
        "update-platform-settings", "fetch-platform-settings",
        "org-deleted-activity", "get-user-details-by-userId",
        "get-user-keycloak-id", "get-user-info-by-user-email-keycloak",
        "get-user-info-by-username-keycloak", "get-user-organizations",
        "user-logout"}

UtilityHandles ==
    {"create-shortening-url", "get-shortening-url", "store-object-return-url",
        "alert-db-ledgerId-null"}

VerificationHandles ==
    {"get-all-proof-presentations", "get-verification-records",
        "get-proof-presentations-by-proofId",
        "get-proof-presentation-details-by-issuerId", "send-proof-request",
        "verify-presentation", "webhook-proof-presentation",
        "send-out-of-band-proof-request", "get-verified-proof-details",
        "get-proof-presentation-by-thread", "get-proof-callback-result",
        "set-verification-redirect-uris", "get-verification-redirect-uris",
        "delete-verification-records"}

WebhookHandles ==
    {"register-webhook", "get-webhookurl", "update-webhook",
        "post-webhook-response-to-webhook-url"}

X509Handles ==
    {"create-x509-certificate", "activate-x509-certificate",
        "deActivate-x509-certificate", "get-all-certificates", "get-certificate",
        "import-x509-certificate"}

(* Mutant: the ecosystem service renames get-intents, the gateway does not. *)
HandledRenamed == UNION {
    AgentProvisioningHandles, AgentServiceHandles1, AgentServiceHandles2,
    AgentServiceHandles3, AgentServiceHandles4, CloudWalletHandles1,
    CloudWalletHandles2, ConnectionHandles, (EcosystemHandles1 \ {"get-intents"}),
    (EcosystemHandles2 \ {"get-intents"}), (EcosystemHandles3 \ {"get-intents"}),
    GeoLocationHandles, IssuanceHandles, CredDefHandles, LedgerHandles,
    SchemaHandles, MarketplaceHandles, NotificationHandles, Oid4vcIssuanceHandles1,
    Oid4vcIssuanceHandles2, Oid4vcVerificationHandles1, Oid4vcVerificationHandles2,
    OrganizationHandles1, OrganizationHandles2, FidoHandles, UserHandles1,
    UserHandles2, UtilityHandles, VerificationHandles, WebhookHandles, X509Handles}

\* Every command some microservice answers.
Handled == UNION {
    AgentProvisioningHandles, AgentServiceHandles1, AgentServiceHandles2,
    AgentServiceHandles3, AgentServiceHandles4, CloudWalletHandles1,
    CloudWalletHandles2, ConnectionHandles, EcosystemHandles1, EcosystemHandles2,
    EcosystemHandles3, GeoLocationHandles, IssuanceHandles, CredDefHandles,
    LedgerHandles, SchemaHandles, MarketplaceHandles, NotificationHandles,
    Oid4vcIssuanceHandles1, Oid4vcIssuanceHandles2, Oid4vcVerificationHandles1,
    Oid4vcVerificationHandles2, OrganizationHandles1, OrganizationHandles2,
    FidoHandles, UserHandles1, UserHandles2, UtilityHandles, VerificationHandles,
    WebhookHandles, X509Handles}
====

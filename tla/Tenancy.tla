------------------------------- MODULE Tenancy -------------------------------
(* Who belongs where, and who pays: organizations, their wallets, user     *)
(* accounts and sessions, ecosystems, marketplace subscriptions and        *)
(* metering.  Each part is checked on its own: the first state chooses a   *)
(* part and an instance of it, and only that part moves.  Parts that name  *)
(* a value alike (pend, started, faults) share the variable.               *)
EXTENDS Naturals, FiniteSets, TLC

CONSTANTS
    User,                                  \* of every part
    MemberOrg, Role, OrgInvitation,        \* of members: organizations and what users are in them
    MaxOrgLimit, MaxUsers,                 \* limits of a user and of a plan
    Did, Endpoint,                         \* of wallets: DIDs and dedicated agents
    Mail, Username, Password,              \* of accounts
    SessionsLimit,                         \* of sessions: live ones of a user
    EcosystemOrg, OrgCreator,              \* of ecosystems: organizations and who created each
    Ecosystem, IntentOrg, Template,        \* of intents: ecosystems, organizations and templates
    IntentName,                            \* and what an intent is called
    Sales,                                 \* of subscriptions: a function, the constants of each instance
    Source, Quantity, Included,            \* of metering: what is counted, and the quota of the plan
    Window, Batch, Jobs,                   \* what Microsoft takes, and the runs
    Hours,                                 \* bound: hours
    Requests,                              \* bound: a record, the requests of each part
    Faults                                 \* bound: calls that fail

VARIABLES part,
          org, client, roles, kc, token, inv, refs, writes, granted,
          agent, dids, tenants, used,
          user, keycloak, tokens, mailed, deleted,
          users, accounts, session, renewed, gone, clients,
          ecosystems, invitations, orgs, access,
          intents, templates, notices, member, organisations,
          ms, ops, row, onboarding, ack, fee,
          now, admitted, events, usage, billed, job, subscribed,
          pend, started, faults

memberVars  == <<org, client, roles, kc, token, inv, refs, writes, granted>>
walletVars  == <<agent, dids, tenants, used>>
accountVars == <<user, keycloak, tokens, mailed, deleted>>
sessionVars == <<users, accounts, session, renewed, gone, clients>>
ecoVars     == <<ecosystems, invitations, orgs, access>>
intentVars  == <<intents, templates, notices, member, organisations>>
marketVars  == <<ms, ops, row, onboarding, ack, fee>>
meterVars   == <<now, admitted, events, usage, billed, job, subscribed>>
vars == <<part, memberVars, walletVars, accountVars, sessionVars, ecoVars, intentVars, marketVars, meterVars,
          pend, started, faults>>

-----------------------------------------------------------------------------
Members == INSTANCE OrgMembership WITH
  Org <- MemberOrg, Invitation <- OrgInvitation, MaxRequests <- Requests.members, MaxFaults <- Faults

(* With a tenant from before tokens were stored, or without.               *)
Wallet(legacy) == INSTANCE OrgWallet WITH
  Legacy <- legacy, MaxRequests <- Requests.wallet, MaxFaults <- Faults

(* With handlers that interleave, or one request at a time.                *)
Accounts(overlap, bound) == INSTANCE UserAccounts WITH
  Overlap <- overlap, MaxRequests <- bound, MaxFaults <- Faults
Sessions == INSTANCE UserSessions WITH
  Overlap <- TRUE, MaxRequests <- Requests.sessions, MaxFaults <- Faults
Ecosystems(overlap, bound) == INSTANCE EcosystemMembership WITH
  Org <- EcosystemOrg, Overlap <- overlap, MaxRequests <- bound, MaxFaults <- Faults
Intents(overlap, bound) == INSTANCE EcosystemIntents WITH
  Name <- IntentName, Org <- IntentOrg, Overlap <- overlap, MaxRequests <- bound

(* Subscriptions, organizations and users of an instance, and how it       *)
(* starts.                                                                 *)
Market(c) == INSTANCE MarketplaceSubscription WITH
  session <- onboarding, Sub <- c.subs, Session <- c.sessions, Org <- c.orgs, User <- c.users, Plan <- c.plans,
  Operation <- c.operations, Owner <- c.owner, Buyers <- c.buyers, Actions <- c.actions, Overlap <- TRUE,
  Start <- c.start, ReconciliationEnabled <- c.reconciles, MaxRequests <- c.requests, MaxFaults <- c.faults
Metering == INSTANCE MarketplaceMetering WITH MaxHour <- Hours, MaxFaults <- Faults

OtherParts == {"members", "wallet", "legacy", "accounts", "accountsInTurn", "sessions", "ecosystems",
               "ecosystemsInTurn", "intents", "intentsInTurn", "metering"}
ASSUME TenancyAssumption ==
       /\ Members!MembershipAssumption /\ Sessions!SessionsAssumption
       /\ Wallet(FALSE)!WalletAssumption /\ Wallet(TRUE)!WalletAssumption
       /\ Accounts(TRUE, Requests.accounts)!AccountAssumption
       /\ Accounts(FALSE, Requests.accountsInTurn)!AccountAssumption
       /\ Ecosystems(TRUE, Requests.ecosystems)!EcosystemAssumption
       /\ Ecosystems(FALSE, Requests.ecosystemsInTurn)!EcosystemAssumption
       /\ Intents(TRUE, Requests.intents)!IntentsAssumption
       /\ Intents(FALSE, Requests.intentsInTurn)!IntentsAssumption
       /\ \A p \in DOMAIN Sales : Market(Sales[p])!MarketplaceAssumption
       /\ DOMAIN Sales \cap OtherParts = {}
       /\ Metering!MeteringAssumption

-----------------------------------------------------------------------------
(* The variables of a part that is not the chosen one.                     *)
NoMembers  == /\ org = {} /\ client = {} /\ roles = {} /\ kc = {} /\ token = {} /\ inv = {} /\ refs = {}
              /\ writes = {} /\ granted = {}
NoWallet   == agent = {} /\ dids = {} /\ tenants = {} /\ used = {}
NoAccounts == user = {} /\ keycloak = {} /\ tokens = {} /\ mailed = {} /\ deleted = {}
NoSessions == users = {} /\ accounts = {} /\ session = {} /\ renewed = {} /\ gone = {} /\ clients = {}
NoEcos     == ecosystems = {} /\ invitations = {} /\ orgs = {} /\ access = {}
NoIntents  == intents = {} /\ templates = {} /\ notices = {} /\ member = {} /\ organisations = {}
NoMarket   == ms = {} /\ ops = {} /\ row = {} /\ onboarding = {} /\ ack = {} /\ fee = {}
NoMetering == /\ now = {} /\ admitted = {} /\ events = {} /\ usage = {} /\ billed = {} /\ job = {}
              /\ subscribed = {}

Init ==
  \/ /\ part = "members" /\ Members!Init
     /\ NoWallet /\ NoAccounts /\ NoSessions /\ NoEcos /\ NoIntents /\ NoMarket /\ NoMetering
  \/ /\ \/ part = "wallet" /\ Wallet(FALSE)!Init
        \/ part = "legacy" /\ Wallet(TRUE)!Init
     /\ NoMembers /\ NoAccounts /\ NoSessions /\ NoEcos /\ NoIntents /\ NoMarket /\ NoMetering
  \/ /\ \/ part = "accounts" /\ Accounts(TRUE, Requests.accounts)!Init
        \/ part = "accountsInTurn" /\ Accounts(FALSE, Requests.accountsInTurn)!Init
     /\ NoMembers /\ NoWallet /\ NoSessions /\ NoEcos /\ NoIntents /\ NoMarket /\ NoMetering
  \/ /\ part = "sessions" /\ Sessions!Init
     /\ NoMembers /\ NoWallet /\ NoAccounts /\ NoEcos /\ NoIntents /\ NoMarket /\ NoMetering
  \/ /\ \/ part = "ecosystems" /\ Ecosystems(TRUE, Requests.ecosystems)!Init
        \/ part = "ecosystemsInTurn" /\ Ecosystems(FALSE, Requests.ecosystemsInTurn)!Init
     /\ NoMembers /\ NoWallet /\ NoAccounts /\ NoSessions /\ NoIntents /\ NoMarket /\ NoMetering
  \/ /\ \/ part = "intents" /\ Intents(TRUE, Requests.intents)!Init
        \/ part = "intentsInTurn" /\ Intents(FALSE, Requests.intentsInTurn)!Init
     /\ faults = 0
     /\ NoMembers /\ NoWallet /\ NoAccounts /\ NoSessions /\ NoEcos /\ NoMarket /\ NoMetering
  \/ /\ \E p \in DOMAIN Sales : part = p /\ Market(Sales[p])!Init
     /\ NoMembers /\ NoWallet /\ NoAccounts /\ NoSessions /\ NoEcos /\ NoIntents /\ NoMetering
  \/ /\ part = "metering" /\ Metering!Init /\ pend = {} /\ started = 0
     /\ NoMembers /\ NoWallet /\ NoAccounts /\ NoSessions /\ NoEcos /\ NoIntents /\ NoMarket

Next ==
  \/ /\ part = "members" /\ Members!Next
     /\ UNCHANGED <<part, walletVars, accountVars, sessionVars, ecoVars, intentVars, marketVars, meterVars>>
  \/ /\ \/ part = "wallet" /\ Wallet(FALSE)!Next
        \/ part = "legacy" /\ Wallet(TRUE)!Next
     /\ UNCHANGED <<part, memberVars, accountVars, sessionVars, ecoVars, intentVars, marketVars, meterVars>>
  \/ /\ \/ part = "accounts" /\ Accounts(TRUE, Requests.accounts)!Next
        \/ part = "accountsInTurn" /\ Accounts(FALSE, Requests.accountsInTurn)!Next
     /\ UNCHANGED <<part, memberVars, walletVars, sessionVars, ecoVars, intentVars, marketVars, meterVars>>
  \/ /\ part = "sessions" /\ Sessions!Next
     /\ UNCHANGED <<part, memberVars, walletVars, accountVars, ecoVars, intentVars, marketVars, meterVars>>
  \/ /\ \/ part = "ecosystems" /\ Ecosystems(TRUE, Requests.ecosystems)!Next
        \/ part = "ecosystemsInTurn" /\ Ecosystems(FALSE, Requests.ecosystemsInTurn)!Next
     /\ UNCHANGED <<part, memberVars, walletVars, accountVars, sessionVars, intentVars, marketVars, meterVars>>
  \/ /\ \/ part = "intents" /\ Intents(TRUE, Requests.intents)!Next
        \/ part = "intentsInTurn" /\ Intents(FALSE, Requests.intentsInTurn)!Next
     /\ UNCHANGED <<part, faults, memberVars, walletVars, accountVars, sessionVars, ecoVars, marketVars, meterVars>>
  \/ /\ \E p \in DOMAIN Sales : part = p /\ Market(Sales[p])!Next
     /\ UNCHANGED <<part, memberVars, walletVars, accountVars, sessionVars, ecoVars, intentVars, meterVars>>
  \/ /\ part = "metering" /\ Metering!Next
     /\ UNCHANGED <<part, memberVars, walletVars, accountVars, sessionVars, ecoVars, intentVars, marketVars,
                    pend, started>>

Spec == Init /\ [][Next]_vars

-----------------------------------------------------------------------------
(* organization: nobody holds a role, in a row, in Keycloak, in a token or *)
(* in an insert under way, that an authorized caller did not grant; a      *)
(* deleted organization has no members and no invitations, and none come   *)
(* back (updateOrgInvitation, updateUserOrgRole, deleteOrg).               *)
MembershipInv ==
  part = "members" => Members!TypeOK /\ Members!RolesWereGranted /\ Members!NothingOutlivesOrg

(* agent-service: the primary DID row and org_agents name the same DID, a  *)
(* DID is listed under the wallet that holds its keys, a wallet row has    *)
(* its tenant at the shared agent, a stored token was verified against its *)
(* agent, and a wallet with a DID is marked so (createDid, setPrimaryDid,  *)
(* setDedicatedAgentToken, deleteWallet).  For a tenant from before tokens *)
(* were stored, the first and the third.                                   *)
WalletInv ==
  /\ part = "wallet" =>
       /\ Wallet(FALSE)!TypeOK /\ Wallet(FALSE)!PrimaryMatchesAgent /\ Wallet(FALSE)!DidsInTheirWallet
       /\ Wallet(FALSE)!RowHasTenant /\ Wallet(FALSE)!TokenFitsAgent /\ Wallet(FALSE)!StatusFollowsDids
  /\ part = "legacy" => Wallet(TRUE)!TypeOK /\ Wallet(TRUE)!PrimaryMatchesAgent /\ Wallet(TRUE)!RowHasTenant

(* user, api-gateway: a row linked to Keycloak has a password there, and   *)
(* overlapping sign-ups without faults leave no Keycloak account without   *)
(* its row (createUserForToken, updateUserDetails); a deleted session does *)
(* not come back, and a request made after logout is refused               *)
(* (updateSessionToken, JwtStrategy.validate).                             *)
AccountInv ==
  /\ part = "accounts" =>
       /\ Accounts(TRUE, Requests.accounts)!TypeOK
       /\ Accounts(TRUE, Requests.accounts)!LinkedHasPassword
       /\ Accounts(TRUE, Requests.accounts)!NoOrphanIdentity
  /\ part = "accountsInTurn" =>
       /\ Accounts(FALSE, Requests.accountsInTurn)!TypeOK
       /\ Accounts(FALSE, Requests.accountsInTurn)!LinkedHasPassword
  /\ part = "sessions" => Sessions!TypeOK /\ Sessions!DeletedStaysDeleted /\ Sessions!RevokedIsRefused

(* ecosystem: whatever overlaps, an ecosystem has exactly one lead and a   *)
(* template or notice has its intent and organization.  One request at a   *)
(* time, members have accepted an invitation, the access of their users    *)
(* names what they are, every ecosystem used up an invitation of its own,  *)
(* intent names are unique and at most one template answers a lookup       *)
(* (createEcosystem, updateEcosystemInvitationStatus, createIntent,        *)
(* getIntentTemplateByIntentAndOrg).                                       *)
EcosystemInv ==
  /\ part = "ecosystems" =>
       /\ Ecosystems(TRUE, Requests.ecosystems)!TypeOK
       /\ Ecosystems(TRUE, Requests.ecosystems)!EveryEcosystemIsLed
  /\ part = "ecosystemsInTurn" =>
       /\ Ecosystems(FALSE, Requests.ecosystemsInTurn)!TypeOK
       /\ Ecosystems(FALSE, Requests.ecosystemsInTurn)!EveryEcosystemIsLed
       /\ Ecosystems(FALSE, Requests.ecosystemsInTurn)!MemberIsInvited
       /\ Ecosystems(FALSE, Requests.ecosystemsInTurn)!RolesAreInAccess
       /\ Ecosystems(FALSE, Requests.ecosystemsInTurn)!EcosystemIsInvited
  /\ part = "intents" => Intents(TRUE, Requests.intents)!TypeOK
  /\ part = "intentsInTurn" =>
       /\ Intents(FALSE, Requests.intentsInTurn)!TypeOK
       /\ Intents(FALSE, Requests.intentsInTurn)!IntentNameUnique
       /\ Intents(FALSE, Requests.intentsInTurn)!LookupUnambiguous

(* marketplace: the organization of a subscription, and the one billed for *)
(* its setup, belongs to a buyer; nobody is billed for or entitled by a    *)
(* subscription that Microsoft never started; one live subscription has an *)
(* organization; an acknowledged operation is over at Microsoft.           *)
(* Microsoft bills no more than the usage beyond the quota, however runs   *)
(* overlap and answers get lost, and what is marked accepted was billed    *)
(* (linkOrganization, activateSubscription, patchOperationIfNeeded,        *)
(* aggregateSubscriptionUsage, updateUsageEventStatus).                    *)
BillingInv ==
  /\ \A p \in DOMAIN Sales : part = p =>
       /\ Market(Sales[p])!TypeOK /\ Market(Sales[p])!OrgOfBuyer /\ Market(Sales[p])!FeeAfterStart
       /\ Market(Sales[p])!OneLiveSubscription /\ Market(Sales[p])!AckedIsOver
  /\ part = "metering" => Metering!TypeOK /\ Metering!NeverOverbilled /\ Metering!AcceptedWasBilled

(* An organization with a wallet or records is not deleted (deleteOrg);    *)
(* the cleanup a login does not wait for spares live sessions              *)
(* (deleteInactiveSessions); when a reset ends, the password stored for    *)
(* the passkey login is that of Keycloak (resetPassword).                  *)
StepsKeep ==
  [][/\ part = "members" => Members!ReferredOrgStays
     /\ part = "sessions" => Sessions!CleanupSparesLive
     /\ part = "accountsInTurn" => Accounts(FALSE, Requests.accountsInTurn)!PasskeyFollowsReset]_vars
=============================================================================

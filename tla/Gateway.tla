---- MODULE Gateway ----
(***************************************************************************)
(* A request at the API gateway.  It passes the guards of its route one by *)
(* one, in order; the lookups among them (session, user, platform          *)
(* configuration, entitlements) are calls to other services, so sessions,  *)
(* roles, the ecosystem switch and plans may change between two of them.   *)
(* A request that passed every guard has the handler send its commands.    *)
(*                                                                         *)
(* Tokens are Keycloak's: they keep the roles and ecosystem claims of the  *)
(* moment they were issued, and the guards prefer those claims to the      *)
(* database where a token has them.                                        *)
(***************************************************************************)
EXTENDS RouteTerms, Naturals, FiniteSets, Sequences

CONSTANTS
    Users,                \* accounts
    Holders,              \* those with a HOLDER row in user_role_mapping
    PlatformAdmin,        \* the account whose e-mail is PLATFORM_ADMIN_EMAIL
    Orgs,                 \* organizations; an organization is also an API client
    InitialRoles,         \* [Users -> [Orgs -> SUBSET roles]]
    InitialEco,           \* [Users -> SUBSET ecosystem roles]
    RoleChanges,          \* the role sets a member may be given
    Offered,              \* the routes this instance's clients use
    Handled,              \* the commands some service listens for
    ClaimForms,           \* whether Keycloak puts org roles in a token: subset of BOOLEAN
    MarketplaceEnabled,   \* MARKETPLACE_ENABLED
    MarketplaceRequired,  \* MARKETPLACE_REQUIRED
    Included,             \* units of each dimension a plan includes
    MaxTokens, MaxRequests, MaxAtOnce, MaxChanges, MaxFaults

NoOrg == "no org"
NoToken == [kind |-> "none"]
Features == {"schemaCreate", "credentialDefinitionCreate", "issuance", "bulkIssuance", "verification"}
Dimensions == {"schema_create", "issuance_txn", "verification_txn"}

GatewayAssumption ==
    /\ Holders \subseteq Users
    /\ PlatformAdmin \in Users
    /\ NoOrg \notin Users \cup Orgs
    /\ InitialRoles \in [Users -> [Orgs -> SUBSET (Members \cup {PLATFORM_ADMIN})]]
    /\ InitialEco \in [Users -> SUBSET {ECOSYSTEM_LEAD, ECOSYSTEM_MEMBER}]
    /\ RoleChanges \subseteq SUBSET (Members \cup {PLATFORM_ADMIN})
    /\ ClaimForms \subseteq BOOLEAN
    /\ {MarketplaceEnabled, MarketplaceRequired} \subseteq BOOLEAN
    /\ {Included, MaxTokens, MaxRequests, MaxAtOnce, MaxChanges, MaxFaults} \subseteq Nat

VARIABLES
    orgRoles,    \* user_org_roles: roles of each user in each organization
    eco,         \* ecosystem roles of each user, in any ecosystem (Keycloak's ecosystem_access)
    sessions,    \* live sessions
    tokens,      \* tokens issued
    enabled,     \* platform_config.isEcosystemEnabled
    plan,        \* features of each organization's subscription
    marketUp,    \* the marketplace service answers
    used,        \* usage recorded for each organization and dimension
    reqs,        \* requests in progress
    unanswered,  \* commands sent that no service listens for
    count        \* numbers of tokens, requests, changes and faults so far

vars == <<orgRoles, eco, sessions, tokens, enabled, plan, marketUp, used, reqs,
          unanswered, count>>
env == <<orgRoles, eco, sessions, tokens, enabled, plan, marketUp, used>>

Init ==
    /\ orgRoles = InitialRoles
    /\ eco = InitialEco
    /\ sessions = {} /\ tokens = {}
    /\ enabled = TRUE
    /\ plan = [o \in Orgs |-> Features]
    /\ marketUp = TRUE
    /\ used = [o \in Orgs |-> [d \in Dimensions |-> 0]]
    /\ reqs = {} /\ unanswered = {}
    /\ count = [tokens |-> 0, requests |-> 0, changes |-> 0, faults |-> 0]

NoRoles == [o \in Orgs |-> {}]

(***************************************************************************)
(* Tokens.  A user's token carries a session id; the sign-in of a client   *)
(* by its credentials, and of another service, has none.                   *)
(***************************************************************************)
Issue(t) ==
    /\ count.tokens < MaxTokens
    /\ tokens' = tokens \cup {t}
    /\ count' = [count EXCEPT !.tokens = @ + 1]
    /\ UNCHANGED <<orgRoles, eco, enabled, plan, marketUp, used, reqs, unanswered>>

\* The token may carry a userRole claim of its own (marker): nobody controls which.
Login(u) ==
    \E claims \in ClaimForms, marker \in BOOLEAN :
        /\ Issue([kind |-> "user", sub |-> u, sid |-> count.tokens, held |-> orgRoles[u],
                  claims |-> IF claims THEN orgRoles[u] ELSE NoRoles,
                  eco |-> eco[u], marker |-> marker])
        /\ sessions' = sessions \cup {count.tokens}

ClientLogin(o) ==
    /\ Issue([kind |-> "client", sub |-> o, held |-> NoRoles, claims |-> NoRoles,
              eco |-> {}, marker |-> FALSE])
    /\ UNCHANGED sessions

ServiceLogin ==
    /\ Issue([kind |-> "service", held |-> NoRoles, claims |-> NoRoles, eco |-> {},
              marker |-> FALSE])
    /\ UNCHANGED sessions

(***************************************************************************)
(* What changes under a request.  Every pending request remembers what was *)
(* true at some moment since it arrived: the roles its subject had in its  *)
(* organization, the ecosystem switch, the plan.                           *)
(***************************************************************************)
Subject(t) == IF t.kind = "user" THEN t.sub ELSE NoOrg
Has(rs, q) == IF Subject(q.tok) \in Users /\ q.org \in Orgs THEN rs[Subject(q.tok)][q.org] ELSE {}

Change ==
    /\ count.changes < MaxChanges
    /\ count' = [count EXCEPT !.changes = @ + 1]
    /\ UNCHANGED <<tokens, used, unanswered>>

Seen(rs, on, pl) ==
    reqs' = {[q EXCEPT !.ever = @ \cup Has(rs, q), !.on = @ \/ on,
                       !.allowed = @ \cup (IF q.org \in Orgs THEN pl[q.org] ELSE {})] : q \in reqs}

ChangeRoles(u, o) ==
    /\ Change
    /\ \E R \in RoleChanges \ {orgRoles[u][o]} : orgRoles' = [orgRoles EXCEPT ![u][o] = R]
    /\ Seen(orgRoles', enabled, plan)
    /\ UNCHANGED <<eco, sessions, enabled, plan, marketUp>>

ChangeEcosystemRole(u) ==
    /\ Change
    /\ \E R \in {{}, {ECOSYSTEM_LEAD}, {ECOSYSTEM_MEMBER}} \ {eco[u]} : eco' = [eco EXCEPT ![u] = R]
    /\ UNCHANGED <<orgRoles, sessions, enabled, plan, marketUp, reqs>>

EndSession(s) ==
    /\ Change
    /\ sessions' = sessions \ {s}
    /\ UNCHANGED <<orgRoles, eco, enabled, plan, marketUp, reqs>>

SwitchEcosystem ==
    /\ Change
    /\ enabled' = ~enabled
    /\ Seen(orgRoles, enabled', plan)
    /\ UNCHANGED <<orgRoles, eco, sessions, plan, marketUp>>

ChangePlan(o) ==
    /\ Change
    /\ plan' = [plan EXCEPT ![o] = IF @ = {} THEN Features ELSE {}]
    /\ Seen(orgRoles, enabled, plan')
    /\ UNCHANGED <<orgRoles, eco, sessions, enabled, marketUp>>

MarketSwitch ==
    /\ Change
    /\ marketUp' = ~marketUp
    /\ UNCHANGED <<orgRoles, eco, sessions, enabled, plan, reqs>>

(***************************************************************************)
(* Requests.                                                               *)
(***************************************************************************)
Nobody == [known |-> FALSE, holder |-> FALSE, roles |-> NoRoles]

Arrive(t, r, o) ==
    /\ count.requests < MaxRequests
    /\ Cardinality(reqs) < MaxAtOnce
    /\ LET q == [id |-> count.requests, tok |-> t, route |-> r, org |-> o, todo |-> r.guards,
                 calls |-> r.calls, who |-> Nobody, ever |-> {}, on |-> enabled,
                 allowed |-> IF o \in Orgs THEN plan[o] ELSE {},
                 live |-> t.kind # "user" \/ t.sid \in sessions]
       IN reqs' = reqs \cup {[q EXCEPT !.ever = Has(orgRoles, q)]}
    /\ count' = [count EXCEPT !.requests = @ + 1]
    /\ UNCHANGED <<env, unanswered>>

Receive ==
    \E t \in tokens \cup {NoToken}, r \in Offered, o \in Orgs \cup {NoOrg} :
        /\ r.where = Path => o \in Orgs
        /\ r.guards = <<>> => t = NoToken
        /\ Arrive(t, r, o)

Drop(q) == reqs' = reqs \ {q}
Next1(q, n) == reqs' = (reqs \ {q}) \cup {n}

(***************************************************************************)
(* The guards.                                                             *)
(***************************************************************************)
CheckSession(q) == q.tok.kind # "none" /\ (q.tok.kind = "user" => q.tok.sid \in sessions)

\* Mutant: the userRole claim of the token wins over the database.
ValidateClaimFirst(q) ==
    IF q.tok.kind = "user"
    THEN [known |-> TRUE, holder |-> q.tok.marker, roles |-> orgRoles[q.tok.sub]]
    ELSE [known |-> TRUE, holder |-> FALSE,
          roles |-> [o \in Orgs |-> IF q.tok.kind = "client" /\ o = q.tok.sub THEN {OWNER} ELSE {}]]

\* validate: the user's rows, or, for a client, the owner's row in its organization.
Validate(q) ==
    IF q.tok.kind = "user"
    THEN [known |-> TRUE, holder |-> q.tok.sub \in Holders, roles |-> orgRoles[q.tok.sub]]
    ELSE [known |-> TRUE, holder |-> FALSE,
          roles |-> [o \in Orgs |-> IF q.tok.kind = "client" /\ o = q.tok.sub THEN {OWNER} ELSE {}]]

HasOwner(o) == \E u \in Users : OWNER \in orgRoles[u][o]
IsPlatformAdmin(q) == \E o \in Orgs : PLATFORM_ADMIN \in q.who.roles[o]

\* Mutant: the roles of the user in every organization count.
RolesInOrgAny(q) ==
    IF q.tok.claims[q.org] # {} THEN q.tok.claims[q.org] ELSE UNION {q.who.roles[o] : o \in Orgs}

\* resource_access of the token if it names the organization, else the database rows.
RolesInOrg(q) == IF q.tok.claims[q.org] # {} THEN q.tok.claims[q.org] ELSE q.who.roles[q.org]

OrgRolesGuard(q) ==
    /\ ~q.who.holder
    /\ IF q.org \in Orgs THEN q.route.roles \cap RolesInOrg(q) # {}
       ELSE PLATFORM_ADMIN \in q.route.roles /\ q.tok.kind # "service" /\ IsPlatformAdmin(q)

EcosystemRolesGuard(q) ==
    \/ q.route.roles = {}
    \/ q.route.roles \cap q.tok.eco # {}
    \/ /\ PLATFORM_ADMIN \in q.route.roles
       /\ Subject(q.tok) = PlatformAdmin /\ IsPlatformAdmin(q)
    \/ q.org \in Orgs /\ q.route.roles \cap RolesInOrg(q) # {}

UserAccessGuard(q) == q.tok.kind = "user" /\ ~q.who.holder

UserRoleGuard(q) == q.who.holder

ClientAccessGuard(q) == q.tok.kind \in {"client", "service"}

TrustServiceRoleGuard(q) == q.tok.kind = "service"

\* Mutant: the guard answers before it reads the configuration.
EcosystemFeatureGuardOpen == TRUE

EcosystemFeatureGuard == enabled

MarketplaceSubscriptionRequiredGuard(q) ==
    ~MarketplaceEnabled \/ ~MarketplaceRequired \/ IsPlatformAdmin(q)

Dimension(feature) ==
    CASE feature = "schemaCreate" -> {"schema_create"}
      [] feature \in {"issuance", "bulkIssuance"} -> {"issuance_txn"}
      [] feature = "verification" -> {"verification_txn"}
      [] OTHER -> {}

\* The plan has the feature, and the usage of its dimension is below the plan's limit.
Entitlements(q) ==
    /\ q.route.feature \in plan[q.org]
    /\ \A d \in Dimension(q.route.feature) : used[q.org][d] < Included

\* Mutant: an outage blocks, mandatory or not.
MarketplaceEntitlementGuardClosed(q) ==
    \/ ~MarketplaceEnabled \/ IsPlatformAdmin(q) \/ q.org \notin Orgs
    \/ marketUp /\ Entitlements(q)

\* Mutant: an outage is never looked at, mandatory or not.
MarketplaceEntitlementGuardOpen(q) ==
    ~marketUp \/ ~MarketplaceEnabled \/ IsPlatformAdmin(q) \/ q.org \notin Orgs \/ Entitlements(q)

\* Fails open when the marketplace does not answer, unless it is mandatory.
MarketplaceEntitlementGuard(q) ==
    \/ ~MarketplaceEnabled \/ IsPlatformAdmin(q) \/ q.org \notin Orgs
    \/ IF marketUp THEN Entitlements(q) ELSE ~MarketplaceRequired

\* Mutant: the session is not looked up again, the signed token is enough.
PassesUnchecked(g, q) ==
    CASE g = "session" -> q.tok.kind # "none"
      [] g = "user" -> q.tok.kind = "client" => HasOwner(q.tok.sub)
      [] g = "org" -> OrgRolesGuard(q)
      [] g = "ecosystem" -> EcosystemRolesGuard(q)
      [] OTHER -> TRUE

Passes(g, q) ==
    CASE g = "session" -> CheckSession(q)
      [] g = "user" -> q.tok.kind = "client" => HasOwner(q.tok.sub)
      [] g = "org" -> OrgRolesGuard(q)
      [] g = "ecosystem" -> EcosystemRolesGuard(q)
      [] g = "person" -> UserAccessGuard(q)
      [] g = "holder" -> UserRoleGuard(q)
      [] g = "client" -> ClientAccessGuard(q)
      [] g = "trust" -> TrustServiceRoleGuard(q)
      [] g = "feature" -> EcosystemFeatureGuard
      [] g = "subscription" -> MarketplaceSubscriptionRequiredGuard(q)
      [] g = "entitlement" -> MarketplaceEntitlementGuard(q)
      [] g = "cookie" -> TRUE

Check(q) ==
    /\ q.todo # <<>>
    /\ LET g == Head(q.todo)
           n == [q EXCEPT !.todo = Tail(@), !.who = IF g = "user" THEN Validate(q) ELSE @]
       IN IF Passes(g, q) THEN Next1(q, n) ELSE Drop(q)
    /\ UNCHANGED <<env, unanswered, count>>

\* A lookup fails (the session and user lookups, the configuration): the request is refused.
LookupFails(q) ==
    /\ q.todo # <<>> /\ Head(q.todo) \in {"session", "user", "feature"}
    /\ count.faults < MaxFaults
    /\ Drop(q)
    /\ count' = [count EXCEPT !.faults = @ + 1]
    /\ UNCHANGED <<env, unanswered>>

(***************************************************************************)
(* The handler: it may reject its input before the first command, then     *)
(* sends its commands in order.  The calls it makes after its own answer   *)
(* (usage, webhook) it does not wait for: the request stays until they end.*)
(***************************************************************************)
BestEffort == {"webhook-get-connection", "webhook-get-issue-credential",
               "webhook-proof-presentation", "verify-invitation-pending",
               "marketplace-record-usage-event"}

\* Calls that depend on the payload, on an earlier answer or on a setting; usage of a schema
\* creation is always reported.
Conditional(q) ==
    \/ Head(q.calls) \in {"verify-invitation-pending", "post-webhook-response-to-webhook-url"}
    \/ Head(q.calls) = "marketplace-record-usage-event" /\ q.route.feature # "schemaCreate"

\* The handler is done, or rejects its input before it sends anything.
Answer(q) ==
    /\ q.todo = <<>> /\ q.calls \in {<<>>, q.route.calls}
    /\ Drop(q)
    /\ UNCHANGED <<env, unanswered, count>>

Skip(q) ==
    /\ q.todo = <<>> /\ q.calls # <<>> /\ Conditional(q)
    /\ Next1(q, [q EXCEPT !.calls = Tail(@)])
    /\ UNCHANGED <<env, unanswered, count>>

\* The event reported: a schema of the route's organization, or a transaction of the one the
\* exchange's record names.
UsageEvents(q) ==
    CASE q.route.feature = "schemaCreate" -> {q.org} \X {"schema_create"}
      [] q.route.calls[1] = "webhook-get-issue-credential" -> Orgs \X {"issuance_txn"}
      [] q.route.calls[1] = "webhook-proof-presentation" -> Orgs \X {"verification_txn"}

\* What the answered command changes of what this module keeps.
Effects(c, q) ==
    /\ IF c = "marketplace-record-usage-event"
       THEN \E e \in UsageEvents(q) : used' = [used EXCEPT ![e[1]][e[2]] = @ + 1]
       ELSE UNCHANGED used
    /\ UNCHANGED <<orgRoles, eco, sessions, tokens, enabled, plan, marketUp>>

Send(q) ==
    /\ q.todo = <<>> /\ q.calls # <<>>
    /\ LET c == Head(q.calls)
       IN /\ unanswered' = IF c \in Handled THEN unanswered ELSE unanswered \cup {c}
          /\ IF c \in Handled \/ c \in BestEffort
             THEN Next1(q, [q EXCEPT !.calls = Tail(@)])
             ELSE Drop(q)
          /\ IF c \in Handled THEN Effects(c, q) ELSE UNCHANGED env
    /\ UNCHANGED count

CallFails(q) ==
    /\ q.todo = <<>> /\ q.calls # <<>>
    /\ count.faults < MaxFaults
    /\ IF Head(q.calls) \in BestEffort THEN Next1(q, [q EXCEPT !.calls = Tail(@)]) ELSE Drop(q)
    /\ count' = [count EXCEPT !.faults = @ + 1]
    /\ UNCHANGED <<env, unanswered>>

Environment ==
    \/ \E u \in Users : Login(u) \/ ChangeEcosystemRole(u) \/ \E o \in Orgs : ChangeRoles(u, o)
    \/ \E o \in Orgs : ClientLogin(o) \/ ChangePlan(o)
    \/ ServiceLogin
    \/ \E s \in sessions : EndSession(s)
    \/ SwitchEcosystem
    \/ MarketSwitch

Step(q) == Check(q) \/ LookupFails(q) \/ Answer(q) \/ Skip(q) \/ Send(q) \/ CallFails(q)

Next == Environment \/ Receive \/ \E q \in reqs : Step(q)

Spec == Init /\ [][Next]_vars

----------------------------------------------------------------------------
(***************************************************************************)
(* Properties.                                                             *)
(***************************************************************************)
Admitted(q) == q.todo = <<>>
Guarded(q, g) == \E i \in DOMAIN q.route.guards : q.route.guards[i] = g

TypeOK ==
    /\ orgRoles \in [Users -> [Orgs -> SUBSET (Members \cup {PLATFORM_ADMIN})]]
    /\ eco \in [Users -> SUBSET {ECOSYSTEM_LEAD, ECOSYSTEM_MEMBER}] /\ sessions \subseteq 0..MaxTokens
    /\ enabled \in BOOLEAN /\ marketUp \in BOOLEAN
    /\ plan \in [Orgs -> {Features, {}}]
    /\ used \in [Orgs -> [Dimensions -> Nat]]
    /\ \A q \in reqs : q.route \in Offered /\ q.org \in Orgs \cup {NoOrg} /\ q.ever \subseteq Members \cup {PLATFORM_ADMIN}
    /\ \A q, p \in reqs : q.id = p.id => q = p

\* A request that arrives after its session ended (sign-out, session deletion) reaches no
\* handler behind AuthGuard('jwt'), however long the token itself stays valid.
SignedOutRefused == \A q \in reqs : Admitted(q) /\ Guarded(q, "session") => q.live

\* A holder account reaches no organization or user route, and only a holder account reaches
\* the wallet routes, whatever userRole claim the token carries: the marker comes from the
\* database in both directions (jwt.strategy.ts, userRole).
HoldersKeptApart ==
    \A q \in reqs : Admitted(q) =>
        /\ Guarded(q, "org") \/ Guarded(q, "person") => Subject(q.tok) \notin Holders
        /\ Guarded(q, "holder") => Subject(q.tok) \in Holders

\* A user served by an organization route had a role the route requires in that very
\* organization, when the token was issued or at some moment since the request arrived.  A
\* role revoked before both lets nobody in; neither does a role in another organization.
RevokedRoleRefused ==
    \A q \in reqs :
        Admitted(q) /\ Guarded(q, "org") /\ q.org \in Orgs /\ q.tok.kind = "user" =>
            q.route.roles \cap (q.ever \cup q.tok.held[q.org]) # {}

\* A request to an ecosystem route that arrives while the feature is off, and finds it off
\* all along, reaches no handler.
FeatureOffRefused == \A q \in reqs : Admitted(q) /\ Guarded(q, "feature") => q.on

\* With a mandatory marketplace, a request behind the entitlement guard reaches its handler
\* only if the plan allowed the feature at some moment since it arrived, an outage included.
EntitledWhenRequired ==
    MarketplaceEnabled /\ MarketplaceRequired =>
        \A q \in reqs : Admitted(q) /\ Guarded(q, "entitlement") /\ ~IsPlatformAdmin(q) =>
            q.route.feature \in q.allowed

\* While the marketplace does not answer and is not mandatory, the entitlement guard turns
\* nobody away: "a marketplace/NATS outage does not block issuance/verification".
OutageServes ==
    \A q \in reqs :
        q.todo # <<>> /\ Head(q.todo) = "entitlement" /\ ~marketUp /\ ~MarketplaceRequired
          => \E p \in reqs' : p.id = q.id

\* Every command a handler sends has a service that listens for it.
CommandsAnswered == unanswered = {}
====

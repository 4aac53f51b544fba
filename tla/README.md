# A TLA+ model of the NGOTAG platform

The platform issues and verifies digital credentials. It is a set of NestJS
services that talk over NATS, keep their data in PostgreSQL (through Prisma),
and share Redis (Bull queues, Lua scripts, expiring keys). Credentials are made
by an external agent that the services call; the agent reports back through
webhooks.

This directory holds TLA+ modules for the services of the platform, with the
interleavings, expiry, lost replies and failures their correctness depends on,
the TLC configurations that check them on small instances, and TLAPS proofs of
every safety property of these runs, for every instance.
`PROJECT.json` maps each definition to the source lines it models and lists the
hazards, runs, mutants and theorems.

    cd tla
    tlc -workers 2 -config MCBulkIssuance.cfg MCBulkIssuance
    tlapm BulkIssuance_proofs.tla

## Inventory

### Modelled

| Part | State | Operations | What is hard | Module |
| --- | --- | --- | --- | --- |
| Admission queue (`issuance-admission.queue.ts`) | `active`, the `Set` of waiters, their timers | `run`, `acquire`, `release` | hand-over of a slot, timers that race with a release, a call that resumes late | `IssuanceAdmissionQueue`, abstract: `AdmissionSlots` |
| Work coordinator, offers (`issuance-work.coordinator.ts`) | a Redis hash of permits with the recorded capacity; a request's deadline | `interactive`, `offer`, `withPermit`, `acquireAndRun`, `releasePermit`, scripts ACQUIRE, ACTIVATE, RELEASE | several replicas, reservations that expire, resent scripts, dead workers, replicas with other settings | `IssuanceWorkCoordinator`, abstract: `OfferBudget` |
| Bulk issuance (`issuance.service.ts`, `.repository.ts`, `.processor.ts`; `guardedRow`, `completedRow` of the coordinator) | `file_upload.status`, rows of `file_data`, row guards, the set of completed rows of a batch, Bull jobs | upload, storing, enqueueing, job, retry, completion, interruption | jobs of an upload and its retries for the same row, failure after dispatch, the finally block of the upload next to the jobs | `BulkIssuance` |
| response_code (`proof-response-code.service.ts`, `verification.service.ts`) | two expiring Redis keys for a proof request | create, mark by webhook, poll, consume | repeated webhooks, concurrent pages, reads that are stale when the script runs, a failing store | `ProofResponseCode` |
| Organizations (`apps/organization`, `libs/org-roles`, `libs/user-org-roles`) | `organisation`, `user_org_roles`, `org_invitations`, the client of the organization and its roles in Keycloak, the tokens that copy them | create, register, invite, answer, change roles, remove, delete | two stores without a transaction, writes that are not awaited, limits checked before they are used | `OrgMembership` |
| Wallets of organizations (`apps/agent-service`) | `org_agents`, `org_dids`, the tenant or dedicated agent, its token | create wallet, configure, create DID, set primary, set token, delete | seconds of agent calls between a read and its write, a wallet replaced meanwhile | `OrgWallet` |
| Accounts and sessions (`apps/user`, `libs/client-registration`, gateway `authz`) | `user`, Keycloak accounts, `session`, `account` | sign-up, verification, reset, passkey, deletion; login, refresh, logout, check of a request | half-done sign-ups, a cleanup nobody waits for, a refresh racing a logout | `UserAccounts`, `UserSessions` |
| Ecosystems (`apps/ecosystem`) | `ecosystem`, `ecosystem_orgs`, invitations, `ecosystem_access` in Keycloak, intents, assigned templates, notices | invite, create, answer, delete; intents, templates, notices | an attribute read and written back as a whole; uniqueness checked before a write | `EcosystemMembership`, `EcosystemIntents` |
| Marketplace (`apps/marketplace`) | subscriptions at Microsoft and their rows, onboarding sessions, webhook events, billing events, usage rows | resolve, link, activate, webhooks, refresh, reconcile; admit, record, aggregate, submit | stale reads written late, repeated webhooks, lost answers, overlapping cron runs | `MarketplaceSubscription`, `MarketplaceMetering` |
| Records of exchanges (`apps/connection`, `apps/issuance`, `apps/verification`) | `connections`, `credentials`, `presentations`, files | webhook posts of the agent, offers, proof requests, deletion | posts that are late, lost or out of order; records of a deleted wallet | `ExchangeRecords` |
| Proof requests (`apps/verification`) | redirect allowlist, request data, e-mails | allowlist, out-of-band request with redirect or by e-mail | match by path segments, shared `emailData` | `ProofRequests` |
| Cloud wallets (`apps/cloud-wallet`) | base wallets with a count, sub wallets, tenants | register, create, use, delete | a slot claimed before and returned after a call that may fail | `CloudWallet` |
| OpenID4VCI (`apps/oid4vc-issuance`) | issuers, templates, the agent's configuration; status lists as bitmaps, allocations, offers | issuers, templates, offers, revocation | undo by hand, lost updates of a bitmap, lost replies | `Oid4vcIssuers`, `StatusLists` |
| OpenID4VP (`apps/oid4vc-verification`) | verifiers, presentations, the agent's records | verifiers, sessions, webhook | a shared agent posting for all tenants, posts out of order | `Oid4vpVerifiers` |
| Certificates (`apps/x509`) | certificates with period and status, keys at the agent | create, import, activate, deactivate, sign | touching and enclosing periods, a check before an agent call | `Certificates` |
| Schemas (`apps/ledger`) | `schema`, `credential_definition`, what is registered | create, define, migrate, archive | registration before the row and never taken back | `LedgerSchemas` |
| API gateway (`apps/api-gateway`, NATS controllers of all services) | sessions, tokens, roles, switches, plans, requests | guards of every route, commands of every handler | changes between two guards, claims older than the database, command names that only agree by spelling | `Gateway`, `GatewayRoutes`, `NatsCommands`, `RouteTerms` |

How they interact: a bulk job (`BulkIssuance`) runs inside a slot of the local
row queue and its dispatch passes through `offer()` (`IssuanceWorkCoordinator`),
which itself waits in the local offer queue (`IssuanceAdmissionQueue`).
`IssuanceWorkCoordinator` uses the queue through the promise that
`AdmissionSlots` states and `IssuanceAdmissionQueue` is proved to implement: a
call is admitted only while a slot is free (`Admit`). `BulkIssuance` uses
`offer()` through its result: the offer was sent, or it was not (`Dispatch`).
The response_code sessions are independent of issuance.

Every other service sits behind the gateway: a route passes its guards, and its
handler sends commands over NATS. `Gateway` models the way up to the command;
the module of the service models the handler. Services read each other's tables
(one database), so a module contains the rows of other services it depends on as
state that changes by actions of its own: a wallet that is deleted under the records
(`ExchangeRecords`), an organization that loses its membership (`EcosystemIntents`),
a DID that disappears under the schemas (`LedgerSchemas`), a plan that changes
under a request (`Gateway`). Keycloak, the agents, the ledger and Microsoft are
external; they are modelled by what the code asks of them.

### Not modelled

`PROJECT.json` lists every application and library with the reason.
`agent-provisioning` starts containers by shell scripts; `geo-location` and the
listings and dashboards of all services only read; `notification` and `webhook`
forward to other services; `utility` shortens URLs and stores objects by single
writes; the storage libraries are adapters; the Prisma client is generated (its
keys, unique indexes and references are in the modules of the tables). Inside
the modelled files payload construction, schema validation, CSV handling,
contents of e-mails, DTO validation, swagger, sockets and logging are left out;
so are verification templates (rows without steps of their own), aliases of
schemas, the `store-*-record` handlers and `storeOidcCredentialWebhook()`, which
write what no other operation reads (the latter upserts `oid4vc_credentials`), and
`updateOidcCredentialOffer()`, which forwards a change to the agent.

## Plan

Built, in this order: `IssuanceAdmissionQueue` with `AdmissionSlots`;
`IssuanceWorkCoordinator` with `OfferBudget`; `BulkIssuance`;
`ProofResponseCode`; the proofs of each; then tenancy (`OrgMembership`,
`OrgWallet`, `UserAccounts`, `UserSessions`, `EcosystemMembership`,
`EcosystemIntents`, `MarketplaceSubscription`, `MarketplaceMetering`), exchanges
(`ExchangeRecords`, `ProofRequests`, `CloudWallet`, `Oid4vcIssuers`,
`StatusLists`, `Certificates`, `Oid4vpVerifiers`, `LedgerSchemas`) and the gateway
(`NatsCommands`, `RouteTerms`, `GatewayRoutes`, `Gateway`, `Gateways`).

Proved: every invariant and every action property the passing runs check (see
Proofs). What is left to the model checker is liveness.

What could follow: an abstract specification of the status list (a set of free
indices) and of metering (one bill per hour).

## The modules

### IssuanceAdmissionQueue

`pc` is where a call of `run()` is; `pending` the insertion-ordered set; `now`
is `performance.now()`. `Acquire` is `acquire()` up to its first await with its
four outcomes. `Release` is the loop of `release()`: expired waiters on the way
are rejected, the first live one takes the slot over, otherwise `active` drops.
It is not an action of its own; it is the finally block of `Resume` (the
deadline passed between grant and resumption) and of `Settle` (the operation
ended). `TimerFires` is the waiter's timer, which may be late: waiters that have
expired but are still listed are a normal state. Deadlines are arbitrary
instants up to `MaxNow`.

`AdmissionSlots` says what the queue promises without clocks: a call waits only
when every slot is taken, a slot given up while somebody waits goes to a waiter
unless all waiters give up at that moment. Mapping: `inside` is the set of calls
that hold a slot, `asking` that of the waiters.

### IssuanceWorkCoordinator

`permit` and `capacity` are the fields of the Redis hash. A call sends a script
in one step; in a later one it takes effect atomically and is answered
(`AcquireReply`, `ActivateReply`, `ReleaseReply`). `Resend` is the client sending
an unanswered script again after it took effect, `EvalError` a rejection whose
effect is unknown, `ReleaseError` one of the attempts of `releasePermit()`.
`Crash` kills a process: its permits stay, and a dispatched offer stays
outstanding (`"lost"`), since the agent may be working on it. One clock stands
for `performance.now()`, `Date.now()` and Redis TIME: the code compares
instants of the same clock only, so their offsets do not matter; their rates
are taken to be equal. `Admit` may also reject a call while slots are taken,
which covers a full waiting list.

`OfferBudget`: an offer begins only while fewer than the budget are
outstanding, and only next to offers dispatched under the same budget.

### BulkIssuance

One file. A batch is one call of `processInBatches()`: the upload, or a retry.
A job is a pair of batch and row; `pc[b][r]` names the await it is at. Any
database or Redis call may fail, before or after it took effect (`Fail`), and a
worker may die at any point (`Die`); both are counted by `failures`, bounded by
`MaxFailures`. A job is never replayed: `attempts: 1`, `maxStalledCount: 0` and
`job.discard()`. `StoreRow` writes one row; a retry may read the file while it
is being stored, and a write that was started before another one failed may
still arrive (`Promise.all`). `Finally` is the finally block of
`issueBulkCredential()`, which runs next to the jobs that
were enqueued. `Dispatch` fails with nothing sent or sends the offer; `Deliver`
is everything between the agent's answer and the sent email. `SetGuard` throws
if the local queue is full or too slow, if the guard is held, and if the reply
is lost. `Reconcile` is not code: it is the operators' procedure the lifecycle
document asks for, reduced to what it needs to be safe (the job has stopped; an
existing offer is completed by hand; otherwise the guard is cleared).
`offers`, `counted` are history variables.

### ProofResponseCode

One proof request. `session`/`until` and `index`/`indexUntil` are the two keys
with their expiry; `Token` and `Indexed` are what GET sees. A webhook is the
steps `Webhook` (storing the presentation), `ReadIndex`, `ReadToken`,
`MarkTerminal`; a page `Poll`, `Consume`. A failing command may have taken
effect. `verdict`, `delivered`, `lost` and `createdAt` are history variables.
The clock counts seconds; the result of `ResolveTtl` is computed from the
settings as the code does.

### How the service modules are built

A handler is a request in `pend` with a program counter. Its checks are one step, each
database transaction and each call of another system is another; what the handler read
is kept in the request and may be stale when it is used. A call may fail
before or after its effect (`faults`, at most `MaxFaults`), which ends the handler
where the code ends it, with the compensation the code has; a compensation may
fail too. Where that leaves two stores apart and the code never repairs it, a
history variable names the rows concerned (`broken`, `torn`, `orphans`), and the
property is about the others. `MaxRequests` bounds
the requests started. The constant `Overlap` says whether handlers run
side by side; where it is FALSE (instances named `...InTurn`) a request starts only
when no other one is under way. Many guarantees of these services hold only
so: the code checks and then writes with nothing to prevent another request in
between. Those are checked in turn, with faults, and the gaps are listed
below; what the code does guarantee under overlap is checked under overlap.

* `OrgMembership`: roles as rows, as Keycloak roles and as token claims; `writes`
  holds the inserts `createUserOrgRole()` does not await; `granted` is the history
  of what an authorized caller granted.
* `OrgWallet`: one organization; `agent` is its row of `org_agents`, `tenants` what
  the shared agent holds, `dids` the rows of `org_dids`. `Legacy` starts
  with a tenant from before tokens were stored.
* `UserAccounts`: `user` and `keycloak` for the same name; a row deleted and made again
  has another `gen`. `UserSessions`: `gone` are sessions that were deleted,
  while the access tokens made for them stay valid in Keycloak; `clients` are the
  sessions of clients, whose rows have ids of their own that no token names, so that
  `Validate` looks up the organization's owner for them and no session.
* `EcosystemMembership`: `access` is the attribute, read and written as a whole.
  `EcosystemIntents`: intents, templates and notices with the keys and references
  of the database; `under` is the ecosystem under whose URL an intent got its name
  (history).
* `MarketplaceSubscription`: `ms` and `ops` are Microsoft's subscriptions and
  operations, `row` the table, `ack` what the platform acknowledged, `fee` the
  organization billed for setup. `Start` chooses whether subscriptions are unknown,
  linked or in use. `MarketplaceMetering`: the clock counts hours; `billed` is what
  Microsoft accepted for an hour.
* `ExchangeRecords`: `posts` under way from the agent, ordered or not. `dedicated` says
  whether the organization has an agent of its own, whose posts name the tenant
  `default` and are taken for the organization of the address without a look at
  `org_agents`; `unlabelled` are the connections without the optional `theirLabel`,
  whose posts make the handler throw.
  `ProofRequests`: paths are sequences of characters, since the match is about segments.
* `CloudWallet`: `base` with its count, `sub` rows, `tenants` at the agents,
  `orphans` tenants a failed creation left behind.
* `Oid4vcIssuers`: rows and, in `cfg`, the configuration the agent has; `broken` are the
  templates whose undo failed or whose configuration was applied, not heard of and
  undone in the row, until the agent is configured with them again.
  `StatusLists`: `lists` are the bitmaps with their counts; a transaction is a read step
  and a write step that overwrites what came between. Of an offer, `details` are the list
  and index of each credential, `allocs` those the catch block would give back, `kept`
  how many were saved. A saved row is refused when its offer has one with the same index,
  in whatever list (`CredentialIdTaken`); an answer without a session id ends the offer
  as `"unnamed"`, with nothing saved.
* `Certificates`: periods over a small clock, `signed` which certificate signed for which
  session, with the instant at which the session read it.
  `Oid4vpVerifiers`: `Shared` organizations have a tenant at the shared agent; `torn` are
  the verifiers the agent created, changed or deleted while the row stayed as it was.
  `LedgerSchemas`: names are sequences of characters, since they are trimmed and
  compared without case.
* `NatsCommands`: the command of each method of the gateway's services, and the commands each
  controller listens for. `RouteTerms`: the roles and where an organization's id comes
  from. `GatewayRoutes`: one record per route with guards in
  order, roles and calls. `Gateway`: a request takes one guard per step while
  logout, role changes, the ecosystem switch, plans and outages happen; the commands
  somebody listens for are its constant `Handled`. `Gateways` puts the three together.

### Tenancy with MCTenancy, Exchanges with MCExchanges, MCSettling, Gateways with MCGateway

Each checks several modules. The variable `part` is chosen by the first state,
only the chosen module and instance moves, and variables of the others are
constant. So a run is the union of its instances, and an invariant
is a conjunction of `part = ... => property of that module`. The comment on
each names the code. `Tenancy` has constants for the sets and bounds of its modules
and is what the proofs are about; `MCTenancy` gives the functions among them their
values, `MCTenancy.cfg` the rest: 4 requests for members and wallets, 3 for
accounts, sessions and intents, 4 for ecosystems, 4 or 5 where they take turns, 1 fault.
Its constant `Sales` is a function: every name in its domain is an instance of the
marketplace's subscriptions, with the record of its constants. `Exchanges` has one
constant, the record `Setting` with the sets and bounds of each part, and
`MCExchanges` gives it its value; its two specifications start in the OpenID and
certificate parts (`Oid4vcSpec`, run `oid4vc`) and in the others (`RecordsSpec`, run
`exchanges`), with the next-state relation of `Exchanges`. `Gateways` has one constant, the function `Gates`
from names of instances to records of constants, and `MCGateway` gives it five:
access, ecosystem, required and optional marketplace, and all routes (wiring). Which properties are in which:

| Invariant | Properties |
| --- | --- |
| `MembershipInv` | `RolesWereGranted`, `NothingOutlivesOrg` |
| `WalletInv` | `PrimaryMatchesAgent`, `DidsInTheirWallet`, `RowHasTenant`, `TokenFitsAgent`, `StatusFollowsDids` |
| `AccountInv` | `LinkedHasPassword`, `NoOrphanIdentity`, `DeletedStaysDeleted`, `RevokedIsRefused` |
| `EcosystemInv` | `EveryEcosystemIsLed`, `MemberIsInvited`, `RolesAreInAccess`, `EcosystemIsInvited`, `IntentNameUnique`, `LookupUnambiguous` |
| `BillingInv` | `OrgOfBuyer`, `FeeAfterStart`, `OneLiveSubscription`, `AckedIsOver`, `NeverOverbilled`, `AcceptedWasBilled` |
| `StepsKeep` (action) | `ReferredOrgStays`, `CleanupSparesLive`, `PasskeyFollowsReset` |
| `ExchangeInv` | `LabelMasked`, `ConnectionsGoLast`, `NoRecordsWithoutWallet`, `RecordsFollowAgent`, `RedirectsRegistered`, `MailsReachAddresseeAlone`, `SavedWereSent`, `RowsRegistered`, `NamesDistinct`, `LostDidArchived` |
| `SchemaIdKept` (action) | the property of that name |
| `CloudWalletInv` | `WithinCapacity`, `SlotsReturned`, `DeletionLeavesNoTenant`, `WalletsStayReachable` |
| `Oid4vcInv` | `AgentHasIssuer`, `TemplatesConfigured`, `CountMatchesBitmap`, `SuccessIsRevocable`, `IndexUnique`, `RowsInWallet`, `SignerUnambiguous`, `SignedInPeriod`, `PresentationOfSession`, `VerifiersMatchAgent`, `PublicIdUnique`, `PresentationSettled` |
| `Settles` (liveness) | rows converge, webhooks are answered, usage settles, offers end |
| `GatewayInv` | `SignedOutRefused`, `HoldersKeptApart`, `RevokedRoleRefused`, `FeatureOffRefused`, `EntitledWhenRequired`, `CommandsAnswered` |
| `OutageServes` (action) | the property of that name |

Each also has the type invariants of its modules, and each of the properties
has a mutant of its own.

## Runs

| Run | Instance | Shows |
| --- | --- | --- |
| `admission_queue` | 4 calls, 1 slot, 2 waiting places, deadlines 0..3 | exact slot count, no lost wakeup, every waiter answered (liveness), refinement of `AdmissionSlots` |
| `offer_budget_equal` | 2 calls in 2 replicas, a request's and a bulk row's, budget 1 | budget, refinement of `OfferBudget`; every admitted call dispatches or gives up, and the capacity it took comes back, unless its offer is unanswered, its worker died with an activated permit or three releases failed (liveness) |
| `offer_budget_mixed` | 2 calls of one request in a replica with budget 2, a bulk row in one with budget 1 | budget, refinement of `OfferBudget`, deadline of a request; replicas with different settings never add up |
| `bulk_issuance` | 2 rows, the upload and a retry, 2 failures or deaths | no double offer, uncertain rows guarded, completion true and announced after persistence |
| `upload_settles` | 2 rows, the upload and a retry, chunks of 1, no failures | if the agent answers, an upload is announced or leaves the status `started` (liveness) |
| `final_status_overwritten` | 1 row | violated: see below |
| `response_code` | 3 webhooks, 2 pages, 1 failure, 6 seconds; pending setting invalid (falls back to 3), result 2 | single use, first verdict, bounded lifetime, pending is findable, expired is true |
| `tenancy` | 2 users, 1 or 2 organizations, 2 DIDs, 2 agents, 2 marketplace subscriptions, 3 hours; up to 6 requests, at most 1 fault | who has which role, wallet, session and plan is the same in database, Keycloak, agents and at Microsoft; nothing is billed twice |
| `exchanges` | 1 or 2 of everything, 3 DIDs of 2 organizations; tenants and dedicated agents, connections with and without a label; 1 to 4 requests, at most 1 fault | what is recorded is what agents and ledger hold; slots and names are neither lost nor given twice |
| `oid4vc` | 2 issuers, templates, offers, keys and verifiers, 2 lists of 2 indices, offers of up to 2 credentials; 3 to 5 requests, at most 2 faults | rows and agents agree, answered offers can be revoked under indices of their own, sessions are signed in the period of their certificate |
| `settling` | 1 subscription with 1 operation of any kind, 3 hours of usage, 2 offers | rows converge, webhooks are answered, usage settles, offers end (liveness) |
| `gateway` | every route once, and one of each kind of guard list while 2 changes and 1 outage happen | nobody passes without session, role, switch or plan; every command has a listener |

Bounds. The queue instance has one more call than slot and waiting places
together, so "full" happens, and a waiter can expire behind and before a live
one. In the budget instances a reservation (1 tick) expires within a wait (2
ticks), which happens before a deadline and after. Two failures let a bulk row
both lose a reply and meet a crash. In the response_code instance the clock
outlasts both times to live, and three webhooks can be between their reads and
their script at once. In the service modules two users or organizations are the
least in which one can take what belongs to the other, two requests in flight
the least that overlap, and the third and later ones let an operation follow on
the result of the race (delete, then answer, then answer again); more requests
are allowed where they run in turn. A list of two indices is
full after two credentials, so rotation happens between offers and within an offer
of two, with equal indices and with different ones; a base wallet of capacity one is full after one;
a window of one hour expires within three. `CHECK_DEADLOCK FALSE` is used everywhere because calls,
uploads and webhooks are finite and the system may come to rest.
Symmetry is used only in runs without temporal properties.

Fairness. Timers and continuations are run by the event loop, Bull hands out
queued jobs, Redis answers, and time passes; these have weak fairness. Nothing
is assumed of clients, of crashes, of the agent's answers (`Settle` of the
queue and of the coordinator and `OfferAtAgent` of the status lists are unfair) or
of the operators.
In `settling` the handlers that have begun are run by the event loop; Microsoft
delivers a webhook again until it is answered; the reconciliation is a cron that
recurs (with the switch that enables it on); hours pass and the metering cron
runs in each. Nothing is assumed of users, or of Microsoft's changes: rows
converge when these stop, because requests and operations are finite. The calls to
Microsoft go over axios without a timeout; that they are answered or fail is an
assumption.
The call to the agent over NATS has no timeout, so `Deliver` of `BulkIssuance`
is unfair too. `UploadIsSettled`, and `Settles` where it says that offers end, state
what they assume as a premise, `AgentAnswers`: no call waits for the agent for ever.

Finding. `final_status_overwritten`: the lifecycle document says "Final file
status is persisted before the completion notification"
(`docs/issuance-work-lifecycle.md:30-31`). `issueBulkCredential()` starts the
enqueueing in the background and then, in its finally block, writes the status
it started with. If the job of the last row has written the final status by
then, it is overwritten: the file says `started` when the completion event goes
out, and stays so. It takes a job that finishes before one database update.

## What the code does not guarantee

Met while modelling. The models show each of these behaviours; the properties
they would break are not stated, or are stated of instances where requests take
turns (`...InTurn`) or have the scope named here.

When requests overlap:

* organization: `updateOrgInvitation()` checks the transition on a row it read and
  writes by id, so two answers both pass and the second changes a final status
  (organization.service.ts:1393). The plan's number of users is counted before
  roles are written (:1327).
* agent-service: `createDid()` looks for the DID before its transaction and
  `org_dids` has no unique index, so overlapping calls store two rows
  (agent-service.service.ts:942).
* user: `login()` counts sessions before it creates one (user.service.ts:604). The
  update branch of `createUser()` does not verify an invited account whose row another
  request created meanwhile (user.repository.ts:101).
* ecosystem: two `createEcosystem()` use the same invitation
  (ecosystem.repository.ts:943); of two updates of `ecosystem_access` one is lost
  (client-registration.service.ts:908).
* marketplace: a second activation works from the row it read at its start
  and may write `failed` over a confirmed one (marketplace.service.ts:249).
* gateway: usage is recorded after the guard compared it with the plan, so
  overlapping creations pass the limit of schemas
  (marketplace-entitlement.guard.ts:102).
* cloud-wallet: two creations of one user make two tenants; the row of the second is
  refused and its slot returned, but its tenant stays (cloud-wallet.service.ts:554).
* verification: overlapping requests share `emailData`, so an e-mail may carry the
  request of the other (verification.service.ts:763; issuance copies the data).
* oid4vc-issuance: the bitmap is read and written back without a lock, so overlapping
  offers may get one index (`IndexUnique`), as may an offer whose reply was lost; the
  agent may be left with an older configuration (`TemplatesConfigured`).
* ecosystem: `MemberIsInvited` too is stated in turn only: an invitation that is answered
  while it is reopened or deleted may end with a member whose invitation is gone.
* oid4vc-verification, x509, ledger: `VerifiersMatchAgent`, `PublicIdUnique`,
  `SignerUnambiguous`, `NamesDistinct`, `LostDidArchived`. Posts out of order leave a
  presentation in the state of the last one to arrive.
* utility (not modelled): `handleLedgerAlert()` tests `isSendingAlert` before an await
  and sets it after it, so two alerts that arrive together both start a retry
  flow (utilities.service.ts:92).

One request at a time, too:

* user, gateway: the row of a client's session has an id no token names
  (organization.service.ts:715), and the session is looked up only if the token has a
  `sid` (jwt.strategy.ts:61). Deleting such a session does not refuse its token;
  `RevokedIsRefused` is about tokens that name a session.
* connection, issuance, verification: a dedicated agent's post is taken for the
  organization of its address (connection.repository.ts:122, issuance.repository.ts:244,
  verification.repository.ts:213), so one that arrives after the wallet's deletion
  recreates a record; `NoRecordsWithoutWallet` is about tenants. The webhook of a
  connection without `theirLabel`, which is optional, throws
  (connection.repository.ts:136), so that connection and what is exchanged over it leave
  no record; `RecordsFollowAgent` is about the others.
* agent-service: a repeated `createDid()` writes the flag of the old request over a
  DID made primary since (agent-service.repository.ts:274). A service that stops
  between the row of `org_agents` and its details leaves a wallet no operation completes.
* ecosystem: `updateIntent()` looks for the name in the ecosystem of the URL and
  updates by id, so an intent of another ecosystem may get a name that is taken there
  (ecosystem.service.ts:923); `IntentNameUnique` and `LookupUnambiguous` are about
  names given under the intent's own ecosystem.
  Deleting an organization makes its private templates templates for all
  (ON DELETE SET NULL).
* marketplace: entitlements come from the row created last, cancelled or not
  (marketplace.repository.ts:57). The reconciliation completes an activation without the
  setup fee (reconciliation.service.ts:31). A late event changes the quantity of a usage row that
  was accepted already (marketplace.repository.ts:282).
* oid4vc-issuance: deleting the primary issuer makes no other one primary
  (oid4vc-issuance.service.ts:296); a template moved to another issuer may meet its name there
  (:395). A template deleted under the URL of another issuer stays configured at its own
  (:497). When the undo of a refused change fails (:365, :463), or a configuration was
  applied and its answer lost, row and agent differ until the issuer is configured again.
* oid4vc-issuance: `credentialId` is the session and the index (:705), so an offer that
  crosses a rotation and gets one index in both lists fails at its second save; the catch
  block frees both indices while the agent holds the offer. `IndexUnique` is about offers
  without such a pair. An answer without a session id is a success with nothing saved
  (:699), and cannot be revoked; `SuccessIsRevocable` is about the others.
* issuance: when the answer of `saveFileUploadDetails()` is lost the file's row stays
  `started` without rows or jobs. No code sets the status `retry`: a row that throws
  during the retry of a file that is `partially_completed` leaves the file as it was
  (issuance.repository.ts:441).
* cloud-wallet: rows from before the count was kept may have tenants and a count of 0
  (cloud-wallet.repository.ts:114); the model starts without wallets, with a count of 0.
* ledger: `archive-schemas` archives the schemas of the organization's primary DID
  only, and `LostDidArchived` is about that one; a migrated W3C schema has
  another type and drops out of the W3C listings; a schema that was registered and then
  refused at `saveSchema()` stays registered.
* oid4vc-verification: the agent is asked first and nothing takes its change back, so a
  lost answer or a failing write leaves a record without a row (creating it again is
  answered 409), a row with older metadata, or a row that cannot be deleted any more,
  since the agent answers 404. `VerifiersMatchAgent` is about the others.
* gateway: the second version of the proof-request route has no entitlement guard;
  two commands sent by helpers nobody calls (`get-org-agent-api-key`,
  `get-ecosystem-records`) have no listener, nor has `get-user-by-keycloakUserId`, sent by
  a middleware (authz.middleware.ts:66) that is applied to two controllers only: that of
  `agent/`, which no module registers, and that of `revocation/`, which is commented out.

## Proofs

All theorems hold for every value of the constants that satisfies the named
assumptions (finite sets of calls and rows, positive capacities and times,
distinct names; `TenancyAssumption`, `ExchangesAssumption` and `GatewaysAssumption`
join those of the modules they compose). The bounds of the model checking are constants too; nothing in
the proofs depends on their values.

* `IssuanceAdmissionQueue_proofs`. `IInv` joins the type invariant with the four
  safety invariants, which are only inductive together: the count is exact
  because a waiter holds no slot (`WaitersListed`), and capacity is respected
  because somebody waits only at full capacity (`NoIdleSlot`). A theorem for each
  of the four follows (`SlotsStayAccounted`, `CapacityRespected`,
  `WaitersStayListed`, `NoLostWakeup`). `QueueImplementsSlots`
  maps each action to a step of `AdmissionSlots` or a stutter.
* `IssuanceWorkCoordinator_proofs`. The invariant ties places to permits: a call
  that was activated, has dispatched or was lost after it has an `active`
  field; the fields never outnumber the recorded capacity; the recorded capacity is the
  budget of every owner in the hash. So outstanding offers are active
  fields, of one budget, no more than it. `ExpiredNeverDispatches` is an action
  property from the same invariant.
* `BulkIssuance_proofs`. `IInv` describes each job, row and batch: while a job is
  between taking and giving back the guard, the guard names its batch; a row the
  job has sent nothing for is untouched or issued; an uncertain row is guarded;
  what a batch counted as complete is persistent. `VerdictInv` adds that one job
  only of a batch counts the errors, which makes the verdict final; it is needed
  for `CompletionIsTrue` only. There is one lemma per action.
* `Edge_proofs`, of the response_code sessions and of the gateway.
  * response_code: nothing terminal exists
    before a verdict, a terminal session carries the verdict, a session
    that was handed out stays gone (a webhook compares with a pending value and a
    session is pending only before its verdict), and the session's expiry is
    bounded by its age.
  * gateway (`GatewayStaysSafe`, `OutagesServe`): the theorems are about the route and
    command tables as they stand, and any users, organizations and bounds. First, from
    the tables: every route has one of 15 guard orders and calls methods whose commands
    have a listener (`RoutesFit`, by controllers). Of the guard orders only three
    facts are used (`Ordered`): the lookup of the user stands before the guards that rest
    on it, nothing that looks at roles or plans stands before that lookup, and
    entitlements are looked at after the role. Then `GateIInv` says two things of each request under way. *Passed*: for each guard behind it,
    what that guard made sure of, in terms of what the request recorded. *Current*:
    whatever is true now of its organization, its user's roles, the switch and the
    plan is recorded in the request, and an ended session does not come back.
    The first does not depend on the environment, so changes of roles, switch and
    plans disturb the second only, and those add to the record.

* `Tenancy_proofs` (members, accounts, sessions, billing) and `TenancyEcosystems_proofs`
  (ecosystems, intents, wallets). In a state of `Tenancy` one part moves, so each theorem is a
  case split on `part` over theorems of the modules, with handlers as members
  of `pend` and one lemma per handler step. What the invariants say of handlers that
  are under way is what makes the safety properties inductive:
  * members (`MembershipSafe`): a request carries roles that were granted already, an
    insert that is not awaited is for an organization that exists or whose rows it
    cannot reach any more.
  * accounts and sessions (`AccountsStaySafe`, `StepsStaySafe`): a login's session id is
    its own and not yet deleted, a refresh writes only into a row that is still there, a
    half-done sign-up is known by its `gen`; a verdict given at a check is not older
    than the deletion. Sessions of clients never become those of users: an id is given
    once, so a request that was sent to the check of its session names a user's.
  * subscriptions (`BillingStaysSafe`): `MarketIInv` says that what a row, a
    session, an operation or a handler heard of a subscription is never ahead of
    Microsoft (a subscription that began has begun for good), that the organization a
    handler carries belongs to a buyer of its session's subscription, and that one row of an
    organization is live. The last one is the partial unique index: a write
    that would break it fails with P2002, and the handler with it
    (`SetSubscriptionStatus`, webhooks included). The row used for entitlements is the
    newest, which exists because `<` is well-founded on the naturals.
  * metering (`BillingStaysSafe`): `MeterIInv` says that any amount of an hour (in a
    row, in a run's list, at Microsoft) is at most the hour's excess over the quota; late
    events let the excess grow and never shrink. No sum is computed: each unit
    billed for an hour is mapped, one to one, to a counted unit beyond the quota, so the
    comparison is one of cardinalities.
  * ecosystems and intents (`EcosystemsStaySafe`): the ecosystem a creation is about to
    commit has no rows yet, an invitation that was used names its ecosystem, a role
    that was inserted is in the attribute or on its way there; in turn,
    a name that was checked is still free when it is written.
  * wallets (`WalletsStaySafe`): ids of rows of `org_agents` are never given twice, so a
    handler whose row is gone finds no other under its id; the handler that is to give a
    row its wallet is the only one; the one that is to delete a tenant comes after
    the tenant's row is gone; the id of a DID's row determines the DID, and the
    primary that is to be replaced is not the new one.
* `Exchanges_proofs` is a case split on `part` like those. `ExchangeIInv` has, for each part
  (`ExchangesStaySafe`):
  * records: every request carries what its step needs of its type and a row names the
    connection only while that has a row; the label is masked when it is stored. In
    turn: there is one request, connections are dropped when no record is left that
    names them, and a tenant's post that found its organization is saved while there is a
    wallet. With ordered posts and a label: the last state of an exchange is on its way, being
    saved or recorded, and the posts of a connection come before those over it.
    `SchemaIdStaysKept` is an action property from the first part.
  * redirects: a URI that was let through lies below a registered one, by whole segments. A
    path is cut at its slashes; the lemmas give every cut its rank and show that a prefix
    of parts is a prefix of the path up to a slash or its end.
  * e-mails: while an e-mail is sent, `emailData` is the address the request stands
    at, and every address it counts as reached has its e-mail.
  * cloud wallets (`CloudWalletsStaySafe`): `CloudIInv` gives every slot in use an
    owner: a sub wallet's row, or a handler that has claimed it and not given it back.
    The counts of an endpoint's base wallets are compared with their owners
    as the cardinality of the pairs of base wallet and number up to its
    count, so that one more or one less is one pair more or less. The owners are
    always covered, and at an endpoint with one row match exactly while no call failed and
    no user was deleted. Request
    numbers are never given twice, so a tenant belongs to a row, to the creation that
    is about to write it, or to one that failed.
  * schemas: what is about to be written is registered, and a definition's schema
    keeps its row although rows are migrated and archived. In turn: a DID in use was not
    deleted and is used by its own organization only, a name that was looked up is still free,
    and before a wallet goes no live schema has its DID. Trimming a trimmed name
    changes nothing, and a name contains what differs from it in case alone, so the
    two lookups together exclude equal names.
* `Oid4vc_proofs` does the same for `Oid4vcInv` (`Oid4vcStaysSafe`):
  * issuers: an issuer about to get its row, or to leave, is at the agent; in turn, a
    template the agent is not configured with is the one of the running handler, which
    knows how to undo it, or is in `broken`; what a successful configuration takes out of
    `broken` is configured.
  * status lists: the first `kept` of an offer's `details` are saved, and all of them when
    it ends with a session; in turn the snapshot an allocation works on is current, the
    indices of an offer that is live or not yet sent are set in their lists, and an offer
    without equal indices is never refused a save, so its catch block runs before the agent
    has it.
  * certificates: rows are never removed and keep their period, no two rows of a key
    type and status share an instant, and a pending request was checked for that; a
    session's request carries the instant at which its certificate was in its period.
  * verifiers: ids are never given twice, posts and rows follow their session; in turn
    rows and the agent's records that are not `torn` differ by what the handler is about to
    write, and the
    newest post is on its way or was stored last (a newest one exists because `<` is
    well-founded on the naturals).

Model-checked only: the liveness properties (`WaitersSettle`, `CallsEnd`,
`CapacityReturns`, `UploadIsSettled`, `Settles`), which need fairness and are out of the prover's
reach.

Each property has a mutant: a plausible wrong version of a modelled definition
(kept next to it) under which TLC finds the property violated.

------------------------ MODULE MarketplaceSubscription ------------------------
(***************************************************************************)
(* Microsoft Marketplace subscriptions of the platform: onboarding (resolve,*)
(* link an account, link an organization, activate), webhooks, refresh and *)
(* the hourly reconciliation.  Microsoft has the subscriptions and the     *)
(* operations on them; the database has a row for each, and the            *)
(* entitlements and the setup fee of an organization come from the rows.   *)
(* A handler reads Microsoft in one step and writes what it read in        *)
(* another, so every write may be of a state that is over.                 *)
(***************************************************************************)
EXTENDS Naturals, FiniteSets

CONSTANTS Sub, Session, Org, User, Plan, Operation,
          Owner,         \* the owner of an organization
          Buyers,        \* purchaser and beneficiary of a subscription
          Actions,       \* what Microsoft may ask for
          Overlap,       \* requests of users may interleave
          Start,         \* every subscription is unknown, linked to an account, or in use
          ReconciliationEnabled,
          MaxRequests,   \* bound: requests of users
          MaxFaults      \* bound: calls of Microsoft that fail, and restarts

None == "none"

MarketplaceAssumption ==
  /\ \A S \in {Sub, Session, Org, User, Plan, Operation} : IsFiniteSet(S)
  /\ Owner \in [Org -> User] /\ Buyers \in [Sub -> SUBSET User] /\ None \notin User \cup Org
  /\ Actions \subseteq {"ChangePlan", "ChangeQuantity", "Reinstate", "Renew", "Suspend", "Unsubscribe"}
  /\ Overlap \in BOOLEAN /\ Start \in {"unknown", "linked", "used"} /\ ReconciliationEnabled \in BOOLEAN
  /\ MaxRequests \in Nat /\ MaxFaults \in Nat

VARIABLES ms, ops,           \* at Microsoft: subscriptions and operations
          row, session, ack, \* marketplace_subscription, _onboarding_session, _operation
          fee,               \* the billing_usage_event of the setup fee
          pend, started, faults

vars == <<ms, ops, row, session, ack, fee, pend, started, faults>>
db == <<row, session, ack, fee>>

Status == {"PendingFulfillmentStart", "Subscribed", "Suspended", "Unsubscribed"}
NoRow == [born |-> 0]
Row == [born : 1..Cardinality(Sub), status : Status, plan : Plan, user : User \cup {None}, org : Org \cup {None},
        activation : {"not_started", "in_progress", "activated", "failed"}]
Rows == {s \in Sub : row[s] # NoRow}
NoSession == [status |-> None]
NoOperation == [state |-> None, answered |-> FALSE]
SessionStatus == {"resolved", "account_linked", "org_linked", "activated", "failed"}

(* The shape of the state; a session belongs to a row.                     *)
TypeOK ==
  /\ ms \in [Sub -> [status : Status, plan : Plan]]
  /\ row \in [Sub -> Row \cup {NoRow}]
  /\ \A x \in Session : session[x] = NoSession \/ (session[x].sub \in Rows /\ session[x].status \in SessionStatus)
  /\ ack \in [Operation -> {None, "pending", "success", "not_required"}]
  /\ fee \in [Sub -> Org \cup {None}]
  /\ started \in 0..MaxRequests /\ faults \in 0..MaxFaults

StartStatus == IF Start = "used" THEN "Subscribed" ELSE "PendingFulfillmentStart"
Init ==
  /\ ms \in [Sub -> [status : {StartStatus}, plan : Plan]]
  /\ ops = [o \in Operation |-> NoOperation] /\ ack = [o \in Operation |-> None]
  /\ IF Start = "unknown"
     THEN row = [s \in Sub |-> NoRow] /\ session = [x \in Session |-> NoSession]
     ELSE /\ row \in [Sub -> [born : 1..Cardinality(Sub), status : {StartStatus}, plan : Plan, user : User,
                              org : IF Start = "used" THEN Org ELSE {None},
                              activation : {IF Start = "used" THEN "activated" ELSE "not_started"}]]
          /\ \A s \in Sub : /\ row[s].user \in Buyers[s] /\ row[s].plan = ms[s].plan
                            /\ row[s].org # None => Owner[row[s].org] = row[s].user
          /\ \A s, k \in Sub : row[s].born = row[k].born \/ (row[s].org = row[k].org /\ row[s].org # None) => s = k
          /\ session \in [Session -> [sub : Sub, status : {"account_linked"}, valid : {TRUE}]]
          /\ \A s \in Sub : \E x \in Session : session[x].sub = s
  /\ fee = [s \in Sub |-> IF Start = "used" THEN row[s].org ELSE None] /\ pend = {} /\ started = 0 /\ faults = 0

Request(req) == (Overlap \/ pend = {}) /\ started < MaxRequests /\ started' = started + 1 /\ pend' = pend \cup {req}
Go(req, next) == req \in pend /\ pend' = (pend \ {req}) \cup {next} /\ UNCHANGED started
End(req) == req \in pend /\ pend' = pend \ {req} /\ UNCHANGED started
Fault == faults < MaxFaults /\ faults' = faults + 1

-----------------------------------------------------------------------------
(* Microsoft (external).  Suspend, Unsubscribe and Renew have happened when*)
(* the webhook is sent; the other operations happen when the platform      *)
(* acknowledges them, or end by themselves.                                *)
NeedsAck(a) == a \in {"ChangePlan", "ChangeQuantity", "Reinstate"}
Allowed(s, a) == CASE a = "Unsubscribe" -> ms[s].status # "Unsubscribed"
                   [] a = "Reinstate" -> ms[s].status = "Suspended"
                   [] OTHER -> ms[s].status = "Subscribed"
Effect(o) == CASE ops[o].action = "ChangePlan" -> [ms EXCEPT ![ops[o].sub].plan = ops[o].plan]
               [] ops[o].action = "Reinstate" /\ ms[ops[o].sub].status = "Suspended"
                                              -> [ms EXCEPT ![ops[o].sub].status = "Subscribed"]
               [] OTHER -> ms
MicrosoftOperation(o, s, a, p) ==
  /\ ops[o] = NoOperation /\ a \in Actions /\ Allowed(s, a)
  /\ ops' = [ops EXCEPT ![o] = [sub |-> s, action |-> a, plan |-> IF a = "ChangePlan" THEN p ELSE ms[s].plan,
                                state |-> IF NeedsAck(a) THEN "InProgress" ELSE "Done", answered |-> FALSE]]
  /\ ms' = CASE a = "Suspend" -> [ms EXCEPT ![s].status = "Suspended"]
             [] a = "Unsubscribe" -> [ms EXCEPT ![s].status = "Unsubscribed"]
             [] OTHER -> ms
  /\ UNCHANGED <<db, pend, started, faults>>
MicrosoftGivesUp(o) ==
  /\ ops[o].state = "InProgress" /\ Fault
  /\ ops' = [ops EXCEPT ![o].state = "Done"] /\ ms' \in {ms, Effect(o)}
  /\ UNCHANGED <<db, pend, started>>

-----------------------------------------------------------------------------
(* The partial unique index: one row that is not Unsubscribed per          *)
(* organization.  A write that would break it fails (P2002).               *)
Occupies(r) == r # NoRow /\ r.org # None /\ r.status # "Unsubscribed"
(* Mutant: only linkOrganization()'s own check keeps organizations apart.  *)
NoIndex(s, r) == FALSE
IndexRefuses(s, r) == Occupies(r) /\ \E k \in Sub \ {s} : Occupies(row[k]) /\ row[k].org = r.org

(* updateSubscriptionFromMicrosoft(), upsertResolvedSubscription(): what   *)
(* Microsoft said replaces status and plan and nothing else.               *)
Synced(s, latest) == IF row[s] = NoRow
                     THEN [born |-> Cardinality(Rows) + 1, status |-> latest.status, plan |-> latest.plan,
                           user |-> None, org |-> None, activation |-> "not_started"]
                     ELSE [row[s] EXCEPT !.status = latest.status, !.plan = latest.plan]

(* EntitlementService.getEntitlements(): the newest row of the organization*)
(* that is not deleted, and only if it is subscribed and activated.        *)
RowsOf(g) == {s \in Rows : row[s].org = g}
GetSubscriptionByOrgId(g) == CHOOSE s \in RowsOf(g) : \A k \in RowsOf(g) : row[k].born <= row[s].born
Active(r) == r.status = "Subscribed" /\ r.activation = "activated"
Entitled(g) == RowsOf(g) # {} /\ Active(row[GetSubscriptionByOrgId(g)])

-----------------------------------------------------------------------------
(* resolveSubscription().                                                  *)
ResolveSubscription(s) ==
  /\ Request([op |-> "resolved", sub |-> s, latest |-> ms[s]])
  /\ UNCHANGED <<ms, ops, db, faults>>
UpsertResolvedSubscription(req) ==
  /\ req.op = "resolved"
  /\ IF IndexRefuses(req.sub, Synced(req.sub, req.latest))
     THEN End(req) /\ UNCHANGED row
     ELSE /\ row' = [row EXCEPT ![req.sub] = Synced(req.sub, req.latest)]
          /\ Go(req, [op |-> "findSession", sub |-> req.sub])
  /\ UNCHANGED <<ms, ops, session, ack, fee, faults>>
(* createOnboardingSession(): an open session is returned, else one is     *)
(* created in a second query.                                              *)
FindSession(req) ==
  /\ req.op = "findSession"
  /\ IF \E x \in Session : session[x] # NoSession /\ session[x].sub = req.sub /\ session[x].valid
                           /\ session[x].status \notin {"activated", "failed"}
     THEN End(req)
     ELSE Go(req, [op |-> "createSession", sub |-> req.sub])
  /\ UNCHANGED <<ms, ops, db, faults>>
CreateOnboardingSession(req, x) ==
  /\ req.op = "createSession" /\ session[x] = NoSession /\ End(req)
  /\ session' = [session EXCEPT ![x] = [sub |-> req.sub, status |-> "resolved", valid |-> TRUE]]
  /\ UNCHANGED <<ms, ops, row, ack, fee, faults>>
SessionExpires(x) ==
  /\ session[x] # NoSession /\ session[x].valid
  /\ session' = [session EXCEPT ![x].valid = FALSE]
  /\ UNCHANGED <<ms, ops, row, ack, fee, pend, started, faults>>

(* getValidSession(): expiry is all it checks.                             *)
ValidSession(x) == session[x] # NoSession /\ session[x].valid
UpdateOnboardingSession(req) ==
  /\ req.op = "session"
  /\ session' = [session EXCEPT ![req.session].status = req.status]
  /\ IF req.status = "activated"
     THEN Go(req, [op |-> "fee", sub |-> session[req.session].sub, org |-> req.org, refresh |-> req.refresh])
     ELSE End(req)
  /\ UNCHANGED <<ms, ops, row, ack, fee, faults>>

(* linkAccount(): purchaser or beneficiary only.                           *)
LinkAccount(x, u) ==
  /\ ValidSession(x) /\ u \in Buyers[session[x].sub]
  /\ Request([op |-> "linkUser", session |-> x, user |-> u])
  /\ UNCHANGED <<ms, ops, db, faults>>
LinkUser(req) ==
  /\ req.op = "linkUser"
  /\ row' = [row EXCEPT ![session[req.session].sub].user = req.user]
  /\ Go(req, [op |-> "session", session |-> req.session, status |-> "account_linked"])
  /\ UNCHANGED <<ms, ops, session, ack, fee, faults>>

(* Mutant: the link of an existing organization asks for no owner.         *)
LinkAnyOrganization(x, u, g) ==
  LET s == session[x].sub IN
  /\ ValidSession(x) /\ row[s].user = u
  /\ ~\E k \in Sub \ {s} : Occupies(row[k]) /\ row[k].org = g
  /\ Request([op |-> "linkOrg", session |-> x, org |-> g])
  /\ UNCHANGED <<ms, ops, db, faults>>
(* linkOrganization(): an organization the caller owns (or creates now)    *)
(* that no other row occupies; the write is a step of its own.             *)
LinkOrganization(x, u, g) ==
  LET s == session[x].sub IN
  /\ ValidSession(x) /\ row[s].user = u /\ Owner[g] = u
  /\ ~\E k \in Sub \ {s} : Occupies(row[k]) /\ row[k].org = g
  /\ Request([op |-> "linkOrg", session |-> x, org |-> g])
  /\ UNCHANGED <<ms, ops, db, faults>>
LinkSubscriptionToOrg(req) ==
  LET s == session[req.session].sub IN
  /\ req.op = "linkOrg"
  /\ IF IndexRefuses(s, [row[s] EXCEPT !.org = req.org])
     THEN End(req) /\ UNCHANGED row                                   \* ConflictException
     ELSE /\ row' = [row EXCEPT ![s].org = req.org]
          /\ Go(req, [op |-> "session", session |-> req.session, status |-> "org_linked"])
  /\ UNCHANGED <<ms, ops, session, ack, fee, faults>>

-----------------------------------------------------------------------------
(* activateSubscription(): the row read with the session decides.          *)
ActivateSubscription(x, u, g) ==
  LET s == session[x].sub IN
  /\ ValidSession(x) /\ row[s].user = u /\ row[s].org = g
  /\ Request([op |-> IF row[s].status = "Subscribed" THEN "activated" ELSE "inProgress",
              session |-> x, org |-> g, refresh |-> row[s].status # "Subscribed"])
  /\ UNCHANGED <<ms, ops, db, faults>>
SetInProgress(req) ==
  /\ req.op = "inProgress"
  /\ row' = [row EXCEPT ![session[req.session].sub].activation = "in_progress"]
  /\ Go(req, [req EXCEPT !.op = "activateAtMicrosoft"])
  /\ UNCHANGED <<ms, ops, session, ack, fee, faults>>
(* Mutant: a failed activation is billed too.                              *)
ActivateAndBill(req) ==
  LET s == session[req.session].sub IN
  /\ req.op = "activateAtMicrosoft"
  /\ \/ /\ ms[s].status = "PendingFulfillmentStart"
        /\ ms' = [ms EXCEPT ![s].status = "Subscribed"]
        /\ Go(req, [req EXCEPT !.op = "activated"]) /\ UNCHANGED <<faults, fee>>
     \/ /\ ms[s].status = "PendingFulfillmentStart" => Fault
        /\ ms[s].status # "PendingFulfillmentStart" => UNCHANGED faults
        /\ ms' \in {ms, [ms EXCEPT ![s].status = IF @ = "PendingFulfillmentStart" THEN "Subscribed" ELSE @]}
        /\ fee' = [fee EXCEPT ![s] = IF @ = None THEN req.org ELSE @]
        /\ Go(req, [op |-> "failed", session |-> req.session])
  /\ UNCHANGED <<ops, row, session, ack>>
(* Microsoft activates a subscription that is pending and refuses another; *)
(* a call that fails may have taken effect.                                *)
ActivateAtMicrosoft(req) ==
  LET s == session[req.session].sub IN
  /\ req.op = "activateAtMicrosoft"
  /\ \/ /\ ms[s].status = "PendingFulfillmentStart"
        /\ ms' = [ms EXCEPT ![s].status = "Subscribed"]
        /\ Go(req, [req EXCEPT !.op = "activated"]) /\ UNCHANGED faults
     \/ /\ ms[s].status = "PendingFulfillmentStart" => Fault
        /\ ms[s].status # "PendingFulfillmentStart" => UNCHANGED faults
        /\ ms' \in {ms, [ms EXCEPT ![s].status = IF @ = "PendingFulfillmentStart" THEN "Subscribed" ELSE @]}
        /\ Go(req, [op |-> "failed", session |-> req.session])
  /\ UNCHANGED <<ops, db>>
SetActivated(req) ==
  /\ req.op = "activated"
  /\ row' = [row EXCEPT ![session[req.session].sub].activation = "activated"]
  /\ Go(req, [op |-> "session", session |-> req.session, status |-> "activated", org |-> req.org,
              refresh |-> req.refresh])
  /\ UNCHANGED <<ms, ops, session, ack, fee, faults>>
SetFailed(req) ==
  /\ req.op = "failed"
  /\ row' = [row EXCEPT ![session[req.session].sub].activation = "failed"]
  /\ Go(req, [op |-> "session", session |-> req.session, status |-> "failed"])
  /\ UNCHANGED <<ms, ops, session, ack, fee, faults>>
(* recordSetupFeeUsage(): an upsert that never updates.                    *)
RecordSetupFeeUsage(req) ==
  /\ req.op = "fee"
  /\ fee' = [fee EXCEPT ![req.sub] = IF @ = None THEN req.org ELSE @]
  /\ IF req.refresh THEN Go(req, [op |-> "refresh", sub |-> req.sub]) ELSE End(req)
  /\ UNCHANGED <<ms, ops, row, session, ack, faults>>

(* refreshSubscription(), and the last step of an activation.              *)
RefreshSubscription(s) ==
  /\ s \in Rows /\ Request([op |-> "refresh", sub |-> s])
  /\ UNCHANGED <<ms, ops, db, faults>>
ReadSubscription(req) ==
  /\ req.op = "refresh"
  /\ Go(req, [op |-> "update", sub |-> req.sub, latest |-> ms[req.sub]])
  /\ UNCHANGED <<ms, ops, db, faults>>
UpdateSubscriptionFromMicrosoft(req) ==
  /\ req.op = "update" /\ End(req)
  /\ row' = IF IndexRefuses(req.sub, Synced(req.sub, req.latest)) THEN row
            ELSE [row EXCEPT ![req.sub] = Synced(req.sub, req.latest)]
  /\ UNCHANGED <<ms, ops, session, ack, fee, faults>>

-----------------------------------------------------------------------------
(* processWebhook(): sent again until it was answered; without a row it is *)
(* logged and refused.                                                     *)
Webhook(o, step) == [op |-> "webhook", o |-> o, step |-> step]
Handling(o) == \E req \in pend : req.op = "webhook" /\ req.o = o
ProcessWebhook(o) ==
  /\ ops[o] # NoOperation /\ ~ops[o].answered /\ ~Handling(o) /\ ops[o].sub \in Rows
  /\ pend' = pend \cup {Webhook(o, "operation")}
  /\ UNCHANGED <<ms, ops, db, started, faults>>
(* applyWebhookAction(): upsertOperation(), then by action.                *)
UpsertOperation(req) ==
  /\ req.op = "webhook" /\ req.step = "operation"
  /\ ack' = [ack EXCEPT ![req.o] = IF NeedsAck(ops[req.o].action) THEN "pending" ELSE "not_required"]
  /\ Go(req, Webhook(req.o, IF NeedsAck(ops[req.o].action) \/ ops[req.o].action = "Renew" THEN "read" ELSE "status"))
  /\ UNCHANGED <<ms, ops, row, session, fee, faults>>
WebhookReads(req) ==
  /\ req.op = "webhook" /\ req.step = "read"
  /\ \/ /\ Go(req, [op |-> "webhook", o |-> req.o, step |-> "update", latest |-> ms[ops[req.o].sub]])
        /\ UNCHANGED faults
     \/ Fault /\ End(req)
  /\ UNCHANGED <<ms, ops, db>>
WebhookUpdates(req) ==
  LET s == ops[req.o].sub IN
  /\ req.op = "webhook" /\ req.step = "update"
  /\ IF IndexRefuses(s, Synced(s, req.latest))
     THEN End(req) /\ UNCHANGED row
     ELSE /\ row' = [row EXCEPT ![s] = Synced(s, req.latest)]
          /\ Go(req, Webhook(req.o, CASE ops[req.o].action = "ChangePlan" -> "plan"
                                      [] ops[req.o].action = "Renew" -> "answer"
                                      [] OTHER -> "patch"))
  /\ UNCHANGED <<ms, ops, session, ack, fee, faults>>
SetSubscriptionPlanId(req) ==
  /\ req.op = "webhook" /\ req.step = "plan"
  /\ row' = [row EXCEPT ![ops[req.o].sub].plan = ops[req.o].plan]
  /\ Go(req, Webhook(req.o, "patch"))
  /\ UNCHANGED <<ms, ops, session, ack, fee, faults>>
(* Mutant: every error of the acknowledgement is swallowed.                *)
PatchSwallowsErrors(req) ==
  /\ req.op = "webhook" /\ req.step = "patch" /\ Go(req, Webhook(req.o, "ack"))
  /\ \/ /\ ops[req.o].state = "InProgress" /\ UNCHANGED faults
        /\ ms' = Effect(req.o) /\ ops' = [ops EXCEPT ![req.o].state = "Done"]
     \/ /\ ops[req.o].state = "Done" /\ UNCHANGED <<ms, ops, faults>>
     \/ Fault /\ UNCHANGED <<ms, ops>>
  /\ UNCHANGED db
(* Mutant: a 400 fails the webhook like any other error.                   *)
PatchRethrows(req) ==
  /\ req.op = "webhook" /\ req.step = "patch"
  /\ \/ /\ ops[req.o].state = "InProgress" /\ ms' = Effect(req.o)
        /\ ops' = [ops EXCEPT ![req.o].state = "Done"]
        /\ \/ Go(req, Webhook(req.o, "ack")) /\ UNCHANGED faults
           \/ Fault /\ End(req)
     \/ ops[req.o].state = "Done" /\ End(req) /\ UNCHANGED <<ms, ops, faults>>
  /\ UNCHANGED db
(* patchOperationIfNeeded(): a 400, which Microsoft gives for an operation *)
(* that is over, counts as success; any other error fails the webhook.     *)
PatchOperationIfNeeded(req) ==
  /\ req.op = "webhook" /\ req.step = "patch"
  /\ \/ /\ ops[req.o].state = "InProgress" /\ ms' = Effect(req.o)
        /\ ops' = [ops EXCEPT ![req.o].state = "Done"]
        /\ \/ Go(req, Webhook(req.o, "ack")) /\ UNCHANGED faults
           \/ Fault /\ End(req)                                       \* the reply is lost
     \/ /\ ops[req.o].state = "Done" /\ Go(req, Webhook(req.o, "ack")) /\ UNCHANGED <<ms, ops, faults>>
     \/ Fault /\ End(req) /\ UNCHANGED <<ms, ops>>
  /\ UNCHANGED db
UpdateOperationAckStatus(req) ==
  /\ req.op = "webhook" /\ req.step = "ack"
  /\ ack' = [ack EXCEPT ![req.o] = "success"] /\ Go(req, Webhook(req.o, "answer"))
  /\ UNCHANGED <<ms, ops, row, session, fee, faults>>
SetSubscriptionStatus(req) ==
  LET s == ops[req.o].sub
      r == [row[s] EXCEPT !.status = IF ops[req.o].action = "Suspend" THEN "Suspended" ELSE "Unsubscribed"]
  IN
  /\ req.op = "webhook" /\ req.step = "status"
  /\ IF IndexRefuses(s, r) THEN End(req) /\ UNCHANGED row
     ELSE row' = [row EXCEPT ![s] = r] /\ Go(req, Webhook(req.o, "answer"))
  /\ UNCHANGED <<ms, ops, session, ack, fee, faults>>
WebhookAnswered(req) ==
  /\ req.op = "webhook" /\ req.step = "answer" /\ End(req)
  /\ ops' = [ops EXCEPT ![req.o].answered = TRUE]
  /\ UNCHANGED <<ms, db, faults>>

-----------------------------------------------------------------------------
(* reconcileSubscriptions(), every hour: the list is read once; for each   *)
(* subscription the row is read, then updated, then perhaps activated.     *)
Reconciling == \E req \in pend : req.op = "reconcile"
ReconcileSubscriptions ==
  /\ ReconciliationEnabled /\ ~Reconciling
  /\ pend' = pend \cup {[op |-> "reconcile", step |-> "next", todo |-> Sub, latest |-> ms]}
  /\ UNCHANGED <<ms, ops, db, started, faults>>
ReconcileReads(req, s) ==
  /\ req.op = "reconcile" /\ req.step = "next" /\ s \in req.todo
  /\ Go(req, [op |-> "reconcile", step |-> "update", todo |-> req.todo \ {s}, latest |-> req.latest, sub |-> s,
              inProgress |-> row[s] # NoRow /\ row[s].activation = "in_progress"])
  /\ UNCHANGED <<ms, ops, db, faults>>
(* Mutant: a subscription that is known is left as it is.                  *)
ReconcileNewOnly(req) ==
  /\ req.op = "reconcile" /\ req.step = "update"
  /\ row' = IF row[req.sub] = NoRow THEN [row EXCEPT ![req.sub] = Synced(req.sub, req.latest[req.sub])] ELSE row
  /\ Go(req, [op |-> "reconcile", step |-> "next", todo |-> req.todo, latest |-> req.latest])
  /\ UNCHANGED <<ms, ops, session, ack, fee, faults>>
ReconcileUpdates(req) ==
  LET r == Synced(req.sub, req.latest[req.sub]) IN
  /\ req.op = "reconcile" /\ req.step = "update"
  /\ IF IndexRefuses(req.sub, r)
     THEN End(req) /\ UNCHANGED row
     ELSE /\ row' = [row EXCEPT ![req.sub] = r]
          /\ Go(req, IF r.status = "Subscribed" /\ req.inProgress
                     THEN [req EXCEPT !.step = "activate"]
                     ELSE [op |-> "reconcile", step |-> "next", todo |-> req.todo, latest |-> req.latest])
  /\ UNCHANGED <<ms, ops, session, ack, fee, faults>>
ReconcileActivates(req) ==
  /\ req.op = "reconcile" /\ req.step = "activate"
  /\ row' = [row EXCEPT ![req.sub].activation = "activated"]
  /\ Go(req, [op |-> "reconcile", step |-> "next", todo |-> req.todo, latest |-> req.latest])
  /\ UNCHANGED <<ms, ops, session, ack, fee, faults>>
ReconcileEnds(req) ==
  /\ req.op = "reconcile" /\ req.step = "next" /\ req.todo = {} /\ End(req)
  /\ UNCHANGED <<ms, ops, db, faults>>

(* The service restarts: what its handlers had left to do is not done.     *)
Restart == /\ Fault /\ pend # {} /\ pend' = {}
           /\ UNCHANGED <<ms, ops, db, started>>

-----------------------------------------------------------------------------
Handler(req) ==
  \/ UpsertResolvedSubscription(req) \/ FindSession(req)
  \/ \E x \in Session : CreateOnboardingSession(req, x)
  \/ UpdateOnboardingSession(req) \/ LinkUser(req) \/ LinkSubscriptionToOrg(req)
  \/ SetInProgress(req) \/ ActivateAtMicrosoft(req) \/ SetActivated(req) \/ SetFailed(req)
  \/ RecordSetupFeeUsage(req) \/ ReadSubscription(req) \/ UpdateSubscriptionFromMicrosoft(req)
  \/ UpsertOperation(req) \/ WebhookReads(req) \/ WebhookUpdates(req) \/ SetSubscriptionPlanId(req)
  \/ PatchOperationIfNeeded(req) \/ UpdateOperationAckStatus(req) \/ SetSubscriptionStatus(req)
  \/ WebhookAnswered(req)
  \/ \E s \in Sub : ReconcileReads(req, s)
  \/ ReconcileUpdates(req) \/ ReconcileActivates(req) \/ ReconcileEnds(req)
UserRequest(u, x) == LinkAccount(x, u) \/ \E g \in Org : LinkOrganization(x, u, g) \/ ActivateSubscription(x, u, g)

Next ==
  \/ \E s \in Sub : ResolveSubscription(s) \/ RefreshSubscription(s)
  \/ \E x \in Session : SessionExpires(x) \/ \E u \in User : UserRequest(u, x)
  \/ \E o \in Operation : ProcessWebhook(o) \/ MicrosoftGivesUp(o)
  \/ \E o \in Operation, s \in Sub, a \in Actions, p \in Plan : MicrosoftOperation(o, s, a, p)
  \/ \E req \in pend : Handler(req)
  \/ ReconcileSubscriptions \/ Restart

Spec == Init /\ [][Next]_vars
HandlesWebhook(o) == \E req \in {r \in pend : r.op = "webhook" /\ r.o = o} : Handler(req)
(* The event loop runs every handler on, Microsoft delivers a webhook until*)
(* it is answered, and the cron starts the reconciliation again and again. *)
Fairness == /\ WF_vars(\E req \in pend : Handler(req)) /\ WF_vars(ReconcileSubscriptions)
            /\ \A o \in Operation : WF_vars(ProcessWebhook(o)) /\ WF_vars(HandlesWebhook(o))
FairSpec == Spec /\ Fairness

-----------------------------------------------------------------------------
(* At most one live row has an organization, whatever handlers overlap     *)
(* (linkOrganization checks and then writes; every sync rewrites status).  *)
OneLiveSubscription ==
  \A s, k \in Rows : Occupies(row[s]) /\ Occupies(row[k]) /\ row[s].org = row[k].org => s = k

(* The organization of a row, and the one billed for its setup, belongs to *)
(* a buyer of that subscription (linkAccount, linkOrganization, activate). *)
OrgOfBuyer ==
  \A s \in Rows : /\ row[s].org # None => Owner[row[s].org] \in Buyers[s]
                  /\ fee[s] # None => Owner[fee[s]] \in Buyers[s]

(* Nobody is billed for a subscription that Microsoft never started, and   *)
(* nobody is entitled by one (activateSubscription: the fee comes after    *)
(* Microsoft's answer; getEntitlements).                                   *)
FeeAfterStart ==
  /\ \A s \in Sub : fee[s] # None => ms[s].status # "PendingFulfillmentStart"
  /\ \A g \in Org : Entitled(g) => ms[GetSubscriptionByOrgId(g)].status # "PendingFulfillmentStart"

(* An operation the platform calls acknowledged is over at Microsoft       *)
(* (patchOperationIfNeeded, updateOperationAckStatus).                     *)
AckedIsOver == \A o \in Operation : ack[o] = "success" => ops[o].state = "Done"

(* The rows are what Microsoft has: what reconcileSubscriptions() makes    *)
(* them in the end, whatever stale reads were written.                     *)
RowsAgree == \A s \in Sub : s \in Rows /\ row[s].status = ms[s].status /\ row[s].plan = ms[s].plan

(* Microsoft asks for an operation; its webhook is answered and it is over *)
(* (applyWebhookAction, the swallowed 400).                                *)
Asked(o) == ops[o] # NoOperation
Answered(o) == ops[o].answered /\ ops[o].state = "Done"

================================================================================

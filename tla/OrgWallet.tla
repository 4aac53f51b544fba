------------------------------- MODULE OrgWallet -------------------------------
(***************************************************************************)
(* The wallet of one organization: its row of org_agents, the tenant or    *)
(* dedicated agent behind it, its rows of org_dids and the token stored    *)
(* for it.  A handler of the agent service reads the row, talks to an      *)
(* agent for seconds and then writes, while other handlers replace the     *)
(* wallet.  Each database transaction and each call of an agent is a step; *)
(* what a handler read before is in its request.                           *)
(***************************************************************************)
EXTENDS Naturals, FiniteSets

CONSTANTS Did,
          Endpoint,      \* dedicated agents
          Legacy,        \* the organization has a tenant from before tokens were stored
          MaxRequests,   \* bound: handlers that start
          MaxFaults      \* bound: failed calls

WalletAssumption ==
  /\ \A S \in {Did, Endpoint} : IsFiniteSet(S)
  /\ MaxRequests \in Nat /\ MaxFaults \in Nat /\ Legacy \in BOOLEAN
  /\ "shared" \notin Endpoint /\ "none" \notin Endpoint \cup Did

VARIABLES agent,     \* the row of org_agents, NoRow if there is none
          dids,      \* rows of org_dids
          tenants,   \* tenants the shared agent holds
          used,      \* rows of connections, credentials or presentations exist
          pend,      \* handlers under way
          started, faults

vars == <<agent, dids, tenants, used, pend, started, faults>>

(* A wallet is a tenant of the shared agent or a dedicated agent (tenant 0). *)
(* A token opens one wallet.                                                *)
Id == 0..MaxRequests + 1
Wallet == {<<e, 0>> : e \in Endpoint} \cup {<<"shared", t>> : t \in Id}
NoWallet == <<"none", 0>>
NoRow == [id |-> 0, type |-> "none", wallet |-> NoWallet, key |-> NoWallet, status |-> "none",
          orgDid |-> "none"]
Row == [id : Id, type : {"none", "shared", "dedicated"}, wallet : Wallet \cup {NoWallet},
        key : Wallet \cup {NoWallet}, status : {"none", "WALLET_CREATED", "DID_CREATED"},
        orgDid : Did \cup {"none"}]
DidRow == [rid : Id, did : Did, agentId : Id, primary : BOOLEAN, home : Wallet]

Primary == {r \in dids : r.primary}

(* The shape of the state: every row of org_dids has its org_agents row    *)
(* (the foreign key) and at most one is primary (the partial unique index  *)
(* on orgId); the did itself is not unique.                                *)
TypeOK ==
  /\ agent \in Row
  /\ dids \subseteq DidRow
  /\ Cardinality(Primary) <= 1
  /\ \A r \in dids : r.agentId = agent.id /\ agent.id # 0
  /\ tenants \subseteq Id
  /\ used \in BOOLEAN
  /\ started \in 0..MaxRequests /\ faults \in 0..MaxFaults

LegacyRow == [NoRow EXCEPT !.id = MaxRequests + 1, !.type = "shared", !.wallet = <<"shared", MaxRequests + 1>>,
                           !.status = "DID_CREATED"]
Init ==
  /\ agent = IF Legacy THEN LegacyRow ELSE NoRow
  /\ tenants = IF Legacy THEN {MaxRequests + 1} ELSE {}
  /\ dids = {}
  /\ used = FALSE /\ pend = {} /\ started = 0 /\ faults = 0

Fault == faults < MaxFaults /\ faults' = faults + 1
FaultIf(b) == IF b THEN Fault ELSE UNCHANGED faults
Begin(req) == started < MaxRequests /\ started' = started + 1 /\ pend' = pend \cup {req}
Go(req, next) == req \in pend /\ pend' = (pend \ {req}) \cup {next} /\ UNCHANGED started
End(req) == req \in pend /\ pend' = pend \ {req} /\ UNCHANGED started

-----------------------------------------------------------------------------
(* Transactions of the repository.                                         *)
(* createOrgAgent(): orgId is unique.                                      *)
CreateOrgAgent(id) == agent.id = 0 /\ agent' = [NoRow EXCEPT !.id = id, !.status = "WALLET_CREATED"]
(* storeOrgAgentDetails() updates by id.                                   *)
StoreOrgAgentDetails(id, type, wallet, status, did) ==
  /\ agent.id = id
  /\ agent' = [agent EXCEPT !.type = type, !.wallet = wallet, !.key = wallet, !.status = status,
                            !.orgDid = IF did = "none" THEN @ ELSE did]
(* removeOrgAgent(), deleteOrgAgentById(): the foreign key of org_dids     *)
(* keeps a row with DIDs; errors are logged only.                          *)
RemoveOrgAgent(id) == agent' = IF agent.id = id /\ dids = {} THEN NoRow ELSE agent

(* deleteOrgAgentByOrg(), in a transaction of its own.                     *)
DeleteOrgAgentByOrg ==
  /\ agent.id # 0 /\ ~used
  /\ agent' = NoRow /\ dids' = {}

(* persistDidWithUpdates(): the other DIDs are demoted, the row is updated *)
(* by id if one was found and created otherwise, then org_agents.  The     *)
(* foreign key and the partial unique index abort the transaction.         *)
Persisted(req) ==
  LET Demoted == {IF req.primary /\ r.did # req.did THEN [r EXCEPT !.primary = FALSE] ELSE r : r \in dids} IN
  IF req.found = 0
  THEN Demoted \cup {[rid |-> req.rid, did |-> req.did, agentId |-> req.id, primary |-> req.primary,
                      home |-> req.home]}
  ELSE {IF r.rid = req.found THEN [r EXCEPT !.primary = req.primary] ELSE r : r \in Demoted}
(* Mutants: the row is attached to whatever wallet the organization has    *)
(* now; the status is left alone.                                          *)
PersistDidInCurrentWallet(req) ==
  /\ req.found = 0 /\ agent.id # 0
  /\ dids' = dids \cup {[rid |-> req.rid, did |-> req.did, agentId |-> agent.id, primary |-> FALSE,
                         home |-> req.home]}
  /\ agent' = [agent EXCEPT !.status = "DID_CREATED"]
PersistDidWithoutStatus(req) ==
  /\ req.found = 0 => agent.id = req.id
  /\ req.found # 0 => \E r \in dids : r.rid = req.found
  /\ Cardinality({r \in Persisted(req) : r.primary}) <= 1
  /\ dids' = Persisted(req)
  /\ agent' = [agent EXCEPT !.orgDid = IF req.primary THEN req.did ELSE @]
PersistDidWithUpdates(req) ==
  /\ req.found # 0 => \E r \in dids : r.rid = req.found
  /\ req.found = 0 => agent.id = req.id
  /\ Cardinality({r \in Persisted(req) : r.primary}) <= 1
  /\ dids' = Persisted(req)
  /\ agent' = [agent EXCEPT !.orgDid = IF req.primary THEN req.did ELSE @,
                            !.status = IF req.status = "WALLET_CREATED" THEN "DID_CREATED" ELSE @]

(* setOrgsPrimaryDid(): demote, promote, and the same did in org_agents.   *)
SetOrgsPrimaryDid(req) ==
  LET Promoted == {[r EXCEPT !.primary = CASE r.rid = req.rid -> TRUE
                                           [] r.rid = req.previous -> FALSE
                                           [] OTHER -> @] : r \in dids} IN
  /\ {req.rid, req.previous} \ {0} \subseteq {r.rid : r \in dids}
  /\ Cardinality({r \in Promoted : r.primary}) <= 1
  /\ dids' = Promoted
  /\ agent' = [agent EXCEPT !.orgDid = req.did]

(* Mutant: stored for the organization, whatever its row is by now.        *)
UpdateTokenByOrg(req) == agent.id # 0 /\ agent' = [agent EXCEPT !.key = req.wallet]

(* updateVerifiedTenantToken(): only the row the token was verified for.   *)
UpdateVerifiedTenantToken(req) ==
  /\ agent.id # 0 /\ agent.wallet = req.wallet /\ agent.type = "dedicated"
  /\ agent' = [agent EXCEPT !.key = req.wallet]

-----------------------------------------------------------------------------
(* createTenant(): the row comes first, then the tenant, then its details, *)
(* then the connection invitation; a failure removes the row and leaves    *)
(* the tenant.  Whatever the check of the status read before, the unique   *)
(* orgId refuses a second row.                                             *)
CreateTenant ==
  /\ agent.status # "WALLET_CREATED"
  /\ CreateOrgAgent(started + 1)
  /\ Begin([op |-> "tenant", id |-> started + 1])
  /\ UNCHANGED <<dids, tenants, used, faults>>
CreateTenantWallet(req) ==
  /\ req.op = "tenant"
  /\ \/ /\ tenants' = tenants \cup {req.id} /\ UNCHANGED <<agent, faults>>
        /\ Go(req, [op |-> "tenantStore", id |-> req.id])
     \/ \E made \in BOOLEAN :                              \* the reply may be lost
          /\ tenants' = tenants \cup (IF made THEN {req.id} ELSE {})
          /\ Fault /\ End(req) /\ RemoveOrgAgent(req.id)
  /\ UNCHANGED <<dids, used>>
CreateTenantStore(req) ==
  /\ req.op = "tenantStore"
  /\ \/ /\ StoreOrgAgentDetails(req.id, "shared", <<"shared", req.id>>, "WALLET_CREATED", "none")
        /\ Go(req, [op |-> "tenantInvite", id |-> req.id])
        /\ UNCHANGED faults
     \/ Fault /\ End(req) /\ RemoveOrgAgent(req.id)
  /\ UNCHANGED <<dids, tenants, used>>
CreateTenantInvitation(req) ==
  /\ req.op = "tenantInvite" /\ End(req)
  /\ \/ UNCHANGED <<agent, faults>>
     \/ Fault /\ RemoveOrgAgent(req.id)
  /\ UNCHANGED <<dids, tenants, used>>

(* walletProvision(): the row is created and _agentSpinup() goes on in the *)
(* background: a dedicated agent, its base token, then the details; the    *)
(* did of the request is not stored.                                       *)
ProvisionWallet ==
  /\ agent.status \notin {"WALLET_CREATED", "DID_CREATED"}
  /\ CreateOrgAgent(started + 1)
  /\ Begin([op |-> "spinup", id |-> started + 1])
  /\ UNCHANGED <<dids, tenants, used, faults>>
AgentSpinup(req) ==
  /\ req.op = "spinup" /\ End(req)
  /\ \/ \E e \in Endpoint : /\ StoreOrgAgentDetails(req.id, "dedicated", <<e, 0>>, "DID_CREATED", "none")
                           /\ UNCHANGED faults
     \/ Fault /\ RemoveOrgAgent(req.id)
  /\ UNCHANGED <<dids, tenants, used>>

(* agentConfigure(): an agent that was set up elsewhere and answered with  *)
(* its key; the unique orgId again stands behind the check.                *)
AgentConfigure(e, d) ==
  /\ agent.id = 0 /\ started < MaxRequests
  /\ started' = started + 1
  /\ agent' = [id |-> started + 1, type |-> "dedicated", wallet |-> <<e, 0>>, key |-> <<e, 0>>,
               status |-> "DID_CREATED", orgDid |-> d]
  /\ UNCHANGED <<dids, tenants, used, pend, faults>>

(* getOrgAgentApiKey() of a shared wallet without a token asks the agent   *)
(* for one and stores it for the organization.                             *)
GetTenantToken ==
  /\ agent.type = "shared" /\ agent.key = NoWallet
  /\ Begin([op |-> "tenantToken", wallet |-> agent.wallet])
  /\ UNCHANGED <<agent, dids, tenants, used, faults>>
UpdateTenantToken(req) ==
  /\ req.op = "tenantToken" /\ End(req)
  /\ \/ agent.id # 0 /\ req.wallet[2] \in tenants /\ agent' = [agent EXCEPT !.key = req.wallet]
     \/ (agent.id = 0 \/ req.wallet[2] \notin tenants) /\ UNCHANGED agent
  /\ UNCHANGED <<dids, tenants, used, faults>>

(* createDid(): the row is read, the agent creates the DID in the wallet   *)
(* of the token read next (or finds it there), the rows of org_dids are    *)
(* read, then the transaction.                                             *)
CreateDidRead(p) ==
  /\ agent.wallet # NoWallet
  /\ Begin([op |-> "did", rid |-> started + 1, id |-> agent.id, status |-> agent.status,
            wallet |-> agent.wallet, primary |-> p])
  /\ UNCHANGED <<agent, dids, tenants, used, faults>>
CreateDidAtAgent(req, d) ==
  /\ req.op = "did"
  /\ \/ /\ agent.key[1] = req.wallet[1]
        /\ agent.key[1] = "shared" => agent.key[2] \in tenants
        /\ Go(req, [op |-> "didFind", rid |-> req.rid, id |-> req.id, status |-> req.status,
                    primary |-> req.primary, did |-> d, home |-> agent.key])
        /\ UNCHANGED faults
     \/ Fault /\ End(req)
     \/ agent.key[1] # req.wallet[1] /\ End(req) /\ UNCHANGED faults
  /\ UNCHANGED <<agent, dids, tenants, used>>
CreateDidFind(req) ==
  /\ req.op = "didFind"
  /\ LET Found == {r.rid : r \in {x \in dids : x.did = req.did}} IN
     \E f \in IF Found = {} THEN {0} ELSE Found :
       Go(req, [op |-> "didStore", rid |-> req.rid, id |-> req.id, status |-> req.status,
                primary |-> req.primary, did |-> req.did, home |-> req.home, found |-> f])
  /\ UNCHANGED <<agent, dids, tenants, used, faults>>
CreateDid(req) ==
  /\ req.op = "didStore" /\ End(req)
  /\ PersistDidWithUpdates(req) \/ UNCHANGED <<agent, dids>>       \* committed or rolled back
  /\ UNCHANGED <<tenants, used, faults>>

(* Mutant: the id that came with the request is trusted.                   *)
SetPrimaryDidAnyId(d, rid) ==
  /\ agent.id # 0 /\ agent.orgDid # d
  /\ \E r \in dids : r.did = d
  /\ \E r \in dids : r.rid = rid
  /\ \E previous \in LET P == {r.rid : r \in Primary} \ {rid} IN IF P = {} THEN {0} ELSE P :
       Begin([op |-> "primary", did |-> d, rid |-> rid, previous |-> previous])
  /\ UNCHANGED <<agent, dids, tenants, used, faults>>

(* setPrimaryDid(): the checks, the row of the did, the id that came with  *)
(* the request, and the row that is primary now, before the transaction.   *)
SetPrimaryDidCheck(d, rid) ==
  /\ agent.id # 0 /\ agent.orgDid # d
  /\ \E r \in dids : r.did = d /\ r.rid = rid
  /\ \E previous \in LET P == {r.rid : r \in Primary} \ {rid} IN IF P = {} THEN {0} ELSE P :
       Begin([op |-> "primary", did |-> d, rid |-> rid, previous |-> previous])
  /\ UNCHANGED <<agent, dids, tenants, used, faults>>
SetPrimaryDid(req) ==
  /\ req.op = "primary" /\ End(req)
  /\ SetOrgsPrimaryDid(req) \/ UNCHANGED <<agent, dids>>
  /\ UNCHANGED <<tenants, used, faults>>

(* setDedicatedAgentToken(): the row is read and compared with the         *)
(* request, the token tried at the agent, then stored.                     *)
SetDedicatedAgentTokenCheck(e) ==
  /\ agent.type = "dedicated" /\ agent.wallet = <<e, 0>>
  /\ Begin([op |-> "token", wallet |-> agent.wallet])
  /\ UNCHANGED <<agent, dids, tenants, used, faults>>
SetDedicatedAgentToken(req) ==
  /\ req.op = "token" /\ End(req)
  /\ UpdateVerifiedTenantToken(req) \/ UNCHANGED agent
  /\ UNCHANGED <<dids, tenants, used, faults>>

(* deleteWallet(): without a tenant only the rows go.  With one, they are  *)
(* deleted by a transaction of their own before the agent is asked, so     *)
(* they stay deleted when the agent fails.                                 *)
DeleteWalletRead ==
  /\ agent.id # 0 /\ (agent.key # NoWallet \/ agent.type = "shared")
  /\ Begin([op |-> "delete", wallet |-> agent.wallet])
  /\ UNCHANGED <<agent, dids, tenants, used, faults>>
(* Mutant: the agent is asked first; the rows may then be refused.         *)
DeleteWalletAgentFirst(req) ==
  /\ req.op = "delete" /\ End(req)
  /\ tenants' = tenants \ {req.wallet[2]}
  /\ DeleteOrgAgentByOrg \/ UNCHANGED <<agent, dids>>
  /\ UNCHANGED <<used, faults>>
DeleteWalletRows(req) ==
  /\ req.op = "delete"
  /\ \/ /\ DeleteOrgAgentByOrg
        /\ IF req.wallet[1] = "shared" THEN Go(req, [op |-> "deleteAgent", wallet |-> req.wallet])
                                       ELSE End(req)
     \/ End(req) /\ UNCHANGED <<agent, dids>>
  /\ UNCHANGED <<tenants, used, faults>>
DeleteWalletAtAgent(req) ==
  /\ req.op = "deleteAgent" /\ End(req)
  /\ \/ tenants' = tenants \ {req.wallet[2]} /\ UNCHANGED faults
     \/ Fault /\ UNCHANGED tenants
  /\ UNCHANGED <<agent, dids, used>>

(* Connections, credentials and presentations come and go in other         *)
(* services.                                                               *)
Use == used' = ~used /\ UNCHANGED <<agent, dids, tenants, pend, started, faults>>

Steps(req) ==
  \/ CreateTenantWallet(req) \/ CreateTenantStore(req) \/ CreateTenantInvitation(req)
  \/ AgentSpinup(req) \/ UpdateTenantToken(req)
  \/ \E d \in Did : CreateDidAtAgent(req, d)
  \/ CreateDidFind(req) \/ CreateDid(req)
  \/ SetPrimaryDid(req) \/ SetDedicatedAgentToken(req)
  \/ DeleteWalletRows(req) \/ DeleteWalletAtAgent(req)

Next ==
  \/ CreateTenant \/ ProvisionWallet \/ GetTenantToken \/ DeleteWalletRead \/ Use
  \/ \E e \in Endpoint : SetDedicatedAgentTokenCheck(e) \/ \E d \in Did \cup {"none"} : AgentConfigure(e, d)
  \/ \E p \in BOOLEAN : CreateDidRead(p)
  \/ \E d \in Did, rid \in Id : SetPrimaryDidCheck(d, rid)
  \/ \E req \in pend : Steps(req)

Spec == Init /\ [][Next]_vars

-----------------------------------------------------------------------------
(* The primary row and org_agents name the same DID: credentials are       *)
(* issued with orgDid while the DID list shows the flag, and four handlers *)
(* write them.                                                             *)
PrimaryMatchesAgent == \A r \in Primary : r.did = agent.orgDid

(* A DID is listed under the wallet that holds its keys, although createDid *)
(* reads the row, the token and the list of DIDs at different times.       *)
DidsInTheirWallet == \A r \in dids : r.home = agent.wallet

(* A row that is in use has its tenant at the shared agent: no order of    *)
(* deletion, repeated deletion and re-creation destroys the wallet of a    *)
(* row that stays.                                                         *)
RowHasTenant == agent.type = "shared" => agent.wallet[2] \in tenants

(* The token of a dedicated wallet was verified against its agent.         *)
TokenFitsAgent == agent.type = "dedicated" => agent.key = agent.wallet

(* A wallet with a DID is not marked as having none (createTenant and the  *)
(* provisioning go by that mark).                                          *)
StatusFollowsDids == dids # {} => agent.status = "DID_CREATED"

=============================================================================

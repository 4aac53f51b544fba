------------------------------ MODULE CloudWallet ------------------------------
(***************************************************************************)
(* Cloud wallets of holders: base wallets registered by an administrator,  *)
(* each with a capacity; a sub wallet of a user, which is a row and a      *)
(* tenant on the agent of a base wallet; the calls a holder makes with it; *)
(* its deletion, alone or with the user.                                   *)
(***************************************************************************)
EXTENDS Naturals, Sequences, FiniteSets, FiniteSetsExt, TLC

CONSTANTS User, Endpoint,
          Cap,             \* values of maxSubWallets
          Overlap,         \* handlers may interleave
          Managed,         \* an administrator registers and changes base wallets
          Called,          \* holders call their wallets
          MaxRequests,     \* bound: requests
          MaxFaults        \* bound: calls that fail, with or without their effect

CloudWalletAssumption ==
  /\ IsFiniteSet(User) /\ IsFiniteSet(Endpoint) /\ Cap \subseteq Nat /\ Cap # {}
  /\ {Overlap, Managed, Called} \subseteq BOOLEAN /\ MaxRequests \in Nat /\ MaxFaults \in Nat

VARIABLES users,    \* rows of user
          base,     \* rows of type BASE_WALLET, oldest first
          sub,      \* the row of type SUB_WALLET of a user
          tenants,  \* tenants on the agents: [id, ep]
          records,  \* tenants that hold records of their holder
          orphans,  \* tenants whose row was never written or went with its user
          pend, started, faults

vars == <<users, base, sub, tenants, records, orphans, pend, started, faults>>
rows == <<users, base, sub>>
agent == <<tenants, records, orphans>>

Id == 1..MaxRequests
None == [id |-> 0]
Has(u) == sub[u] # None
At(e) == {b \in DOMAIN base : base[b].ep = e}
RowsAt(e) == {u \in User : Has(u) /\ sub[u].ep = e}
Claimed == {"tenant", "store", "release"}
ClaimsAt(e) == {r \in pend : r.op \in Claimed /\ r.ep = e}
(* The slots taken at an endpoint, by row and number.                      *)
Slots(e) == UNION {{b} \X (1..base[b].use) : b \in At(e)}
Uses(e) == Cardinality(Slots(e))

(* A user has one sub wallet, and no two rows share a tenant.  useCount    *)
(* does not go below zero.                                                 *)
TypeOK ==
  /\ users \subseteq User
  /\ \A b \in DOMAIN base : base[b] \in [ep : Endpoint, active : BOOLEAN, use : Nat, max : Cap, top : Cap]
  /\ sub \in [User -> [id : Id, ep : Endpoint] \cup {None}]
  /\ \A u, v \in User : Has(u) /\ sub[u] = sub[v] => u = v
  /\ \A u \in User : Has(u) => u \in users
  /\ tenants \subseteq [id : Id, ep : Endpoint] /\ started \in 0..MaxRequests /\ faults \in 0..MaxFaults

(* top: the highest maxSubWallets the row ever had.                        *)
BaseRow(e, max) == [ep |-> e, active |-> TRUE, use |-> 0, max |-> max, top |-> max]
Init == /\ users = User /\ sub = [u \in User |-> None] /\ tenants = {} /\ records = {} /\ orphans = {}
        /\ \E e \in Endpoint, max \in Cap : base = <<BaseRow(e, max)>>
        /\ pend = {} /\ started = 0 /\ faults = 0

Request(req) == /\ (Overlap \/ pend = {}) /\ started < MaxRequests /\ started' = started + 1
                /\ pend' = pend \cup {req}
Turn(req, new) == req \in pend /\ pend' = (pend \ {req}) \cup {new} /\ UNCHANGED started
Go(req, next) == Turn(req, [req EXCEPT !.op = next])
End(req) == req \in pend /\ pend' = pend \ {req} /\ UNCHANGED started
Fault == faults < MaxFaults /\ faults' = faults + 1
Fails(req) == Fault /\ End(req) /\ UNCHANGED <<rows, agent>>

-----------------------------------------------------------------------------
(* Base wallets: getBaseWalletByAgentEndpoint() takes the newest row of an *)
(* endpoint, active or not; 0 if there is none.                            *)
(* Mutant: only active rows.                                               *)
ActiveBaseWalletByAgentEndpoint(e) == Max({0} \cup {b \in At(e) : base[b].active})
GetBaseWalletByAgentEndpoint(e) == Max({0} \cup At(e))
ConfigureBaseWallet(e, max) ==
  /\ Managed /\ Request([op |-> "register", n |-> started + 1, ep |-> e, max |-> max])
  /\ UNCHANGED <<rows, agent, faults>>
CheckEndpoint(req) ==
  /\ req.op = "register"
  /\ IF GetBaseWalletByAgentEndpoint(req.ep) # 0 THEN End(req) ELSE Go(req, "storeBase")
  /\ UNCHANGED <<rows, agent, faults>>
StoreCloudWalletInfo(req) ==
  /\ req.op = "storeBase" /\ End(req) /\ base' = Append(base, BaseRow(req.ep, req.max))
  /\ UNCHANGED <<users, sub, agent, faults>>
UpdateBaseWallet(b, active, max) ==
  /\ Managed /\ started < MaxRequests /\ started' = started + 1
  /\ base' = [base EXCEPT ![b].active = active, ![b].max = max, ![b].top = IF max > @ THEN max ELSE @]
  /\ UNCHANGED <<users, sub, agent, pend, faults>>

-----------------------------------------------------------------------------
(* createCloudWallet().                                                    *)
CreateCloudWallet(u) ==
  /\ Request([op |-> "exist", n |-> started + 1, user |-> u])
  /\ UNCHANGED <<rows, agent, faults>>
CheckUserExist(req) ==
  /\ req.op = "exist" /\ IF Has(req.user) THEN End(req) ELSE Go(req, "avail")
  /\ UNCHANGED <<rows, agent, faults>>
GetAvailableBaseWallet(req) ==
  /\ req.op = "avail"
  /\ LET free == {b \in DOMAIN base : base[b].active /\ base[b].use < base[b].max}
     IN  IF free = {} THEN End(req)
         ELSE Turn(req, [op |-> "claim", user |-> req.user, n |-> req.n, b |-> Min(free), ep |-> base[Min(free)].ep,
                         max |-> base[Min(free)].max])
  /\ UNCHANGED <<rows, agent, faults>>
(* Mutant: the counter is raised whatever it is by now.                    *)
IncrementBaseWalletUseCount(req) ==
  /\ req.op = "claim" /\ Go(req, "tenant")
  /\ base' = [base EXCEPT ![req.b].use = @ + 1]
  /\ UNCHANGED <<users, sub, agent, faults>>
(* One UPDATE, with the maxSubWallets of the earlier read in its WHERE.    *)
ClaimBaseWalletCapacity(req) ==
  /\ req.op = "claim"
  /\ IF base[req.b].use < req.max
     THEN base' = [base EXCEPT ![req.b].use = @ + 1] /\ Go(req, "tenant")
     ELSE End(req) /\ UNCHANGED base
  /\ UNCHANGED <<users, sub, agent, faults>>
(* checkAgentHealth() and the call of the agent.  A failed call may have   *)
(* made the tenant.                                                        *)
CreateTenant(req) ==
  /\ req.op = "tenant"
  /\ \/ Go(req, "store") /\ tenants' = tenants \cup {[id |-> req.n, ep |-> req.ep]} /\ UNCHANGED <<orphans, faults>>
     \/ /\ Fault /\ Go(req, "release")
        /\ \/ UNCHANGED <<tenants, orphans>>
           \/ tenants' = tenants \cup {[id |-> req.n, ep |-> req.ep]} /\ orphans' = orphans \cup {req.n}
  /\ UNCHANGED <<rows, records>>
(* The partial unique index and the reference to the user may refuse the   *)
(* row; the tenant stays on the agent.                                     *)
StoreCloudWalletDetails(req) ==
  /\ req.op = "store"
  /\ \/ /\ req.user \in users /\ ~Has(req.user)
        /\ sub' = [sub EXCEPT ![req.user] = [id |-> req.n, ep |-> req.ep]]
        /\ End(req) /\ UNCHANGED <<orphans, faults>>
     \/ /\ Go(req, "release") /\ orphans' = orphans \cup {req.n} /\ UNCHANGED sub
        /\ IF req.user \in users /\ ~Has(req.user) THEN Fault ELSE UNCHANGED faults
  /\ UNCHANGED <<users, base, tenants, records>>
(* Mutant: the slot is kept.                                               *)
KeepClaim(req) ==
  /\ req.op = "release" /\ End(req)
  /\ UNCHANGED <<rows, agent, faults>>
(* The catch of createCloudWallet(): decrementBaseWalletUseCount(), whose  *)
(* failure is logged.                                                      *)
Release(req) ==
  /\ req.op = "release" /\ End(req)
  /\ \/ base' = [base EXCEPT ![req.b].use = IF @ > 0 THEN @ - 1 ELSE 0] /\ UNCHANGED faults
     \/ Fault /\ UNCHANGED base
  /\ UNCHANGED <<users, sub, agent>>

-----------------------------------------------------------------------------
(* deleteCloudWallet(); with deleteHolder the gateway deletes the user     *)
(* next, whether there was a wallet or not.                                *)
DeleteCloudWallet(u, holder) ==
  /\ u \in users /\ Request([op |-> "find", n |-> started + 1, user |-> u, holder |-> holder])
  /\ UNCHANGED <<rows, agent, faults>>
After(req) == IF req.holder THEN Turn(req, [op |-> "deleteUser", user |-> req.user, n |-> req.n]) ELSE End(req)
FindWallet(req) ==
  /\ req.op = "find"
  /\ IF ~Has(req.user) THEN After(req)
     ELSE LET w == sub[req.user]  b == GetBaseWalletByAgentEndpoint(w.ep)
          IN  IF b = 0 THEN End(req)
              ELSE Turn(req, [op |-> "dropTenant", user |-> req.user, n |-> req.n, holder |-> req.holder,
                              id |-> w.id, ep |-> w.ep, b |-> b])
  /\ UNCHANGED <<rows, agent, faults>>
(* Mutant: the row goes first, and then the tenant.                        *)
DeleteRowFirst(req) ==
  /\ req.op = "dropTenant"
  /\ \/ Go(req, "dropRow") /\ sub' = [u \in User |-> IF sub[u].id = req.id THEN None ELSE sub[u]] /\ UNCHANGED <<tenants, records, faults>>
     \/ Fault /\ End(req) /\ sub' = [u \in User |-> IF sub[u].id = req.id THEN None ELSE sub[u]] /\ UNCHANGED <<tenants, records>>
  /\ UNCHANGED <<users, base, orphans>>
(* A tenant the agent does not know counts as deleted.                     *)
DeleteTenant(req) ==
  /\ req.op = "dropTenant"
  /\ \/ Go(req, "dropRow") /\ tenants' = {t \in tenants : t.id # req.id} /\ records' = records \ {req.id} /\ UNCHANGED faults
     \/ /\ Fault /\ End(req)
        /\ \/ UNCHANGED <<tenants, records>>
           \/ tenants' = {t \in tenants : t.id # req.id} /\ records' = records \ {req.id}
  /\ UNCHANGED <<rows, orphans>>
(* Mutant: a row that is gone is no error.                                 *)
DeleteManyDetails(req) ==
  /\ req.op = "dropRow" /\ Go(req, "decrement")
  /\ sub' = [u \in User |-> IF sub[u].id = req.id THEN None ELSE sub[u]]
  /\ UNCHANGED <<users, base, agent, faults>>
DeleteCloudWalletDetails(req) ==
  /\ req.op = "dropRow"
  /\ IF \E u \in User : sub[u].id = req.id
     THEN Go(req, "decrement") /\ sub' = [u \in User |-> IF sub[u].id = req.id THEN None ELSE sub[u]]
     ELSE End(req) /\ UNCHANGED sub
  /\ UNCHANGED <<users, base, agent, faults>>
DecrementBaseWalletUseCount(req) ==
  /\ req.op = "decrement" /\ After(req)
  /\ \/ base' = [base EXCEPT ![req.b].use = IF @ > 0 THEN @ - 1 ELSE 0] /\ UNCHANGED faults
     \/ Fault /\ UNCHANGED base
  /\ UNCHANGED <<users, sub, agent>>
(* deleteUserAndRelatedData(): the row of the user's wallet, if one was    *)
(* made meanwhile, goes without its tenant and its slot.                   *)
DeleteUser(req) ==
  /\ req.op = "deleteUser" /\ End(req)
  /\ users' = users \ {req.user} /\ sub' = [sub EXCEPT ![req.user] = None]
  /\ orphans' = orphans \cup ({sub[req.user].id} \ {0})
  /\ UNCHANGED <<base, tenants, records, faults>>

-----------------------------------------------------------------------------
(* The calls of a holder, by what they do to the wallet.                   *)
ProofCalls == [createConnection |-> "add", acceptProofRequest |-> "add", getProofById |-> "read",
               getProofPresentation |-> "read", declineProofRequest |-> "add"]
CredentialCalls == [submitProofWithCred |-> "add", getCredentialsByProofId |-> "read",
                    deleteCredentialByRecord |-> "remove", deleteW3cCredentialByRecord |-> "remove"]
(* These check that the wallet exists and that the agent is healthy.       *)
CheckedCalls == [receiveInvitationByUrl |-> "add", acceptOffer |-> "add", createDid |-> "add"]
ReadCalls == [getDidList |-> "read", getconnectionById |-> "read", getAllconnectionById |-> "read",
              getCredentialListById |-> "read", getCredentialByRecord |-> "read",
              getBasicMessageByConnectionId |-> "read", sendBasicMessage |-> "add"]
(* These read the tenant again and present the key of the base wallet.     *)
ExportCalls == [exportCloudWallet |-> "read", getExportWalletStatus |-> "read"]
ImportCalls == [importCloudWallet |-> "add", getImportWalletStatus |-> "read"]
StatusCalls == [checkCloudWalletStatus |-> "read"]
W3cCalls == [getAllW3cCredentials |-> "read", getW3cCredentialByCredentialRecordId |-> "read",
             getCredentialFormatDataByCredentialRecordId |-> "read",
             getProofFormatDataByProofRecordId |-> "read", createSelfAttestedW3cCredential |-> "add"]
Calls == ProofCalls @@ CredentialCalls @@ CheckedCalls @@ ReadCalls @@ ExportCalls @@ ImportCalls @@ StatusCalls @@ W3cCalls
Effects == {Calls[c] : c \in DOMAIN Calls}
(* _commonCloudWalletInfo(): the tenant of the user, the base wallet of    *)
(* its endpoint, and the agent says that it runs.                          *)
CommonCloudWalletInfo(u, effect) ==
  /\ Called /\ Has(u) /\ GetBaseWalletByAgentEndpoint(sub[u].ep) # 0
  /\ Request([op |-> "call", n |-> started + 1, user |-> u, id |-> sub[u].id, effect |-> effect])
  /\ UNCHANGED <<rows, agent, faults>>
(* The call itself, which the agent refuses when the tenant is gone.       *)
CallAgent(req) ==
  /\ req.op = "call" /\ End(req)
  /\ records' = IF \E t \in tenants : t.id = req.id
                THEN CASE req.effect = "add" -> records \cup {req.id}
                       [] req.effect = "remove" -> records \ {req.id}
                       [] OTHER -> records
                ELSE records
  /\ UNCHANGED <<rows, tenants, orphans, faults>>

-----------------------------------------------------------------------------
Administer ==
  \/ \E e \in Endpoint, max \in Cap : ConfigureBaseWallet(e, max)
  \/ \E b \in DOMAIN base, active \in BOOLEAN, max \in Cap : UpdateBaseWallet(b, active, max)
  \/ \E req \in pend : CheckEndpoint(req) \/ StoreCloudWalletInfo(req)
Provision ==
  \/ \E u \in users : CreateCloudWallet(u)
  \/ \E req \in pend : \/ CheckUserExist(req) \/ GetAvailableBaseWallet(req) \/ ClaimBaseWalletCapacity(req)
                       \/ CreateTenant(req) \/ StoreCloudWalletDetails(req) \/ Release(req)
Delete ==
  \/ \E u \in users, holder \in BOOLEAN : DeleteCloudWallet(u, holder)
  \/ \E req \in pend : \/ FindWallet(req) \/ DeleteTenant(req) \/ DeleteCloudWalletDetails(req)
                       \/ DecrementBaseWalletUseCount(req) \/ DeleteUser(req)
Call ==
  \/ \E u \in User, effect \in Effects : CommonCloudWalletInfo(u, effect)
  \/ \E req \in pend : CallAgent(req)
Fail == \E req \in pend : req.op \in {"storeBase", "find", "dropRow", "deleteUser"} /\ Fails(req)
Next == Administer \/ Provision \/ Delete \/ Call \/ Fail
Spec == Init /\ [][Next]_vars

-----------------------------------------------------------------------------
(* The counters of an endpoint cover its sub wallets and the wallets being *)
(* made, so that no endpoint carries more wallets than it was configured   *)
(* for, however creations, deletions and their failures overlap, and even  *)
(* when the endpoint was registered twice.                                 *)
WithinCapacity ==
  \A e \in Endpoint :
    /\ Cardinality(RowsAt(e)) + Cardinality(ClaimsAt(e)) <= Uses(e)
    /\ \A b \in At(e) : base[b].use <= base[b].top

(* When every handler ended, none of its calls failed and no user took a   *)
(* wallet along, the counter of an endpoint registered once is the number  *)
(* of its wallets: no slot is lost.                                        *)
SlotsReturned ==
  pend = {} /\ faults = 0 /\ users = User =>
    \A e \in Endpoint : Cardinality(At(e)) = 1 => Uses(e) = Cardinality(RowsAt(e))

(* A tenant on an agent is the tenant of a row, or of a creation under     *)
(* way, or its creation did not end well: deleteCloudWallet() leaves none  *)
(* behind, so that a failed deletion can be tried again.                   *)
DeletionLeavesNoTenant ==
  \A t \in tenants : \/ \E u \in User : sub[u].id = t.id
                     \/ \E r \in pend : r.op \in Claimed /\ r.n = t.id
                     \/ t.id \in orphans

(* Every sub wallet finds its base wallet, so that a deactivated one still *)
(* serves the wallets it has.                                              *)
WalletsStayReachable == \A u \in User : Has(u) => GetBaseWalletByAgentEndpoint(sub[u].ep) # 0

================================================================================

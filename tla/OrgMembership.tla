------------------------------ MODULE OrgMembership ------------------------------
(***************************************************************************)
(* Who belongs to an organization, and with which roles.  Membership is    *)
(* kept twice: as rows of user_org_roles in the database and as roles of   *)
(* the organization's client in Keycloak, which every access token copies  *)
(* when it is made.  The organization service changes both, with no        *)
(* transaction around the two, and checks limits and invitations in        *)
(* queries that precede its writes.                                        *)
(*                                                                         *)
(* A handler is two steps here, its checks and its writes, with the        *)
(* request in pend in between.  A write that fails ends the handler where  *)
(* it stands; the number of failures is bounded by MaxFaults.              *)
(***************************************************************************)
EXTENDS Naturals, FiniteSets

CONSTANTS User, Org, Role, Invitation,
          MaxOrgLimit,      \* the lower of MAX_ORG_LIMIT and the plan's maxOrganizations
          MaxUsers,         \* the plan's maxUsers
          MaxRequests,      \* bound: handlers that start
          MaxFaults         \* bound: failures

MembershipAssumption ==
  /\ "owner" \in Role
  /\ \A n \in {MaxOrgLimit, MaxUsers, MaxRequests, MaxFaults} : n \in Nat
  /\ \A S \in {User, Org, Role, Invitation} : IsFiniteSet(S)

VARIABLES org,      \* the organisation row: none, row (no idpId), registered, gone
          client,   \* Keycloak has a client for the organization
          roles,    \* rows of user_org_roles
          kc,       \* client roles of a user in Keycloak
          token,    \* resource_access of a user's access token
          inv,      \* rows of org_invitations
          refs,     \* what refers to the organisation row
          writes,   \* rows of user_org_roles being created with nobody waiting
          pend,     \* handlers between their checks and their writes
          granted,  \* history: roles a user was given or offered by an authorized caller
          started,  \* handlers that have started
          faults

vars == <<org, client, roles, kc, token, inv, refs, writes, pend, granted, started, faults>>

Exists(o) == org[o] \in {"row", "registered"}
NoInvitation == [status |-> "none"]
InvitationRow == [status : {"pending", "accepted", "rejected"}, org : Org, email : User,
                  roles : SUBSET Role \ {{}}]
Request == [op : {"create"}, user : User, org : Org]
           \cup [op : {"invite"}, user : User, org : Org, email : User, roles : SUBSET Role \ {{}}]
           \cup [op : {"accepted", "rejected"}, user : User, inv : Invitation, row : InvitationRow,
                 idp : BOOLEAN]
           \cup [op : {"withdraw"}, inv : Invitation]
           \cup [op : {"assign"}, user : User, org : Org, roles : SUBSET Role \ {{}}]
           \cup [op : {"delete"}, org : Org]

(* Tables that deleteOrg() looks at (listed), the foreign keys to          *)
(* organisation it does not look at (unlisted), and the schemas and        *)
(* credential definitions, which it detaches.                              *)
Reference == {"listed", "unlisted", "schema"}

(* The shape of the state: an invitation row always has its organization,  *)
(* email and roles (an update of a deleted row creates nothing).           *)
TypeOK ==
  /\ org \in [Org -> {"none", "row", "registered", "gone"}]
  /\ client \in [Org -> BOOLEAN]
  /\ \A m \in {roles, kc, token, granted} : m \in [User -> [Org -> SUBSET Role]]
  /\ inv \in [Invitation -> InvitationRow \cup {NoInvitation}]
  /\ refs \in [Org -> SUBSET Reference]
  /\ writes \subseteq (User \X Org \X Role)
  /\ pend \subseteq Request
  /\ started \in 0..MaxRequests /\ faults \in 0..MaxFaults

Nobody == [u \in User |-> [o \in Org |-> {}]]
Init ==
  /\ org = [o \in Org |-> "none"] /\ client = [o \in Org |-> FALSE]
  /\ roles = Nobody /\ kc = Nobody /\ token = Nobody /\ granted = Nobody
  /\ inv = [i \in Invitation |-> NoInvitation]
  /\ refs = [o \in Org |-> {}]
  /\ writes = {} /\ pend = {} /\ started = 0 /\ faults = 0

-----------------------------------------------------------------------------
(* Queries.                                                                *)
UserOrganizationCount(u) == Cardinality({o \in Org : roles[u][o] # {}})
OrganizationUsers(o) == {u \in User : roles[u][o] # {}}
Rows(o) == {i \in Invitation : inv[i].status # "none" /\ inv[i].org = o}
PendingInvitations(o) == {i \in Rows(o) : inv[i].status = "pending"}
CheckInvitationExist(v, o) ==
  \E i \in Rows(o) : inv[i].email = v /\ inv[i].status \in {"pending", "accepted"}
Transition == [pending |-> {"accepted", "rejected"}, accepted |-> {}, rejected |-> {}]

AssertOrganizationLimit(u) == UserOrganizationCount(u) < MaxOrgLimit
AssertUserLimitAllowsInvitations(v, o) ==
  \/ CheckInvitationExist(v, o)
  \/ Cardinality(OrganizationUsers(o)) + Cardinality(PendingInvitations(o)) + 1 <= MaxUsers
AssertUserLimitAllowsAcceptance(v, o) ==
  \/ roles[v][o] # {}
  \/ Cardinality(OrganizationUsers(o)) + 1 <= MaxUsers

(* OrgRolesGuard: the roles in the token decide if it has any for the      *)
(* organization, the rows of the database otherwise.                       *)
Authorized(u, o, required) ==
  IF token[u][o] # {} THEN token[u][o] \cap required # {} ELSE roles[u][o] \cap required # {}

-----------------------------------------------------------------------------
(* Writes.                                                                 *)
CreateUserClientRole(m, u, o, R) == [m EXCEPT ![u][o] = @ \cup R]
DeleteUserClientRoles(m, S, o) ==
  [u \in User |-> IF u \in S THEN [m[u] EXCEPT ![o] = {}] ELSE m[u]]
(* updateUserOrgRole() starts the inserts and does not wait for them.      *)
UpdateUserOrgRole(u, o, R) == writes \cup {<<u, o, r>> : r \in R}
Grant(u, o, R) == granted' = [granted EXCEPT ![u][o] = @ \cup R]

NoFault == UNCHANGED faults
Fault == faults < MaxFaults /\ faults' = faults + 1
FaultIf(b) == IF b THEN Fault ELSE NoFault

Start == started < MaxRequests /\ started' = started + 1
Begin(req) == Start /\ pend' = pend \cup {req}
End(req) == req \in pend /\ pend' = pend \ {req} /\ UNCHANGED started

-----------------------------------------------------------------------------
(* createOrganization(): the limits and the name are checked, then the row *)
(* is created, the client registered, the owner's role given in both       *)
(* stores and idpId saved.  stage is how far it came.                      *)
CreateOrganizationCheck(u, o) ==
  /\ org[o] = "none"
  /\ AssertOrganizationLimit(u)
  /\ Begin([op |-> "create", user |-> u, org |-> o])
  /\ UNCHANGED <<org, client, roles, kc, token, inv, refs, writes, granted, faults>>

(* registerToKeycloak() for a new organization: both role writes are       *)
(* started together and either may fail.                                   *)
CreateOrganization(req) ==
  LET u == req.user  o == req.org IN
  /\ req.op = "create" /\ End(req)
  /\ \/ /\ org[o] # "none"                                   \* orgSlug is unique
        /\ UNCHANGED <<org, client, roles, kc, granted, faults>>
     \/ \E stage \in {"row", "client", "registered"}, inKc, inDb \in BOOLEAN :
          /\ org[o] = "none"
          /\ stage = "row" => ~inKc /\ ~inDb
          /\ stage = "registered" => inKc /\ inDb
          /\ org' = [org EXCEPT ![o] = IF stage = "registered" THEN stage ELSE "row"]
          /\ client' = [client EXCEPT ![o] = stage # "row"]
          /\ kc' = IF inKc THEN CreateUserClientRole(kc, u, o, {"owner"}) ELSE kc
          /\ roles' = IF inDb THEN [roles EXCEPT ![u][o] = {"owner"}] ELSE roles
          /\ Grant(u, o, {"owner"})
          /\ FaultIf(stage # "registered")
  /\ UNCHANGED <<token, inv, refs, writes>>

(* registerToKeycloak() for an existing organization.  The rows of the     *)
(* user are deleted and the owner's row is inserted at the same time: the  *)
(* insert may come first and be deleted with them.  createClient() fails   *)
(* when the client is there already.                                       *)
CreateOrgCredentials(u, o) ==
  /\ Start
  /\ Authorized(u, o, {"owner"})
  /\ org[o] = "row" /\ ~client[o]
  /\ client' = [client EXCEPT ![o] = TRUE]
  /\ \E stage \in {"client", "roles", "registered"} :
       /\ org' = [org EXCEPT ![o] = IF stage = "registered" THEN stage ELSE @]
       /\ kc' = IF stage = "client" THEN kc ELSE CreateUserClientRole(kc, u, o, {"owner"})
       /\ roles' = IF stage = "client" THEN roles ELSE [roles EXCEPT ![u][o] = {}]
       /\ writes' \in IF stage = "client" THEN {writes}
                      ELSE {writes, UpdateUserOrgRole(u, o, {"owner"})}
       /\ FaultIf(stage # "registered")
  /\ Grant(u, o, {"owner"})
  /\ UNCHANGED <<token, inv, refs, pend>>

(* registerOrgsMapUsers() for one organization without a client: every     *)
(* member's rows are deleted and inserted again next to the Keycloak role. *)
(* When it fails, some members are done and one may have lost its rows.    *)
RegisterOrgsMapUsers(o) ==
  LET members == OrganizationUsers(o) IN
  /\ Start
  /\ org[o] = "row" /\ ~client[o]
  /\ \E u \in members : "owner" \in roles[u][o]
  /\ \E done \in SUBSET members : \E cut \in {{}} \cup {{u} : u \in members \ done} :
       /\ roles' = DeleteUserClientRoles(roles, done \cup cut, o)
       /\ kc' = [u \in User |-> IF u \in done THEN [kc[u] EXCEPT ![o] = roles[u][o]] ELSE kc[u]]
       /\ writes' = writes \cup {w \in done \X {o} \X Role : w[3] \in roles[w[1]][o]}
       /\ FaultIf(done # members)
  /\ org' = [org EXCEPT ![o] = "registered"]
  /\ client' = [client EXCEPT ![o] = TRUE]
  /\ UNCHANGED <<token, inv, refs, pend, granted>>

(* deleteClientCredentials(): the client goes first, idpId after it.       *)
DeleteClientCredentials(o) ==
  /\ Start
  /\ org[o] = "registered" /\ client[o]
  /\ client' = [client EXCEPT ![o] = FALSE]
  /\ kc' = DeleteUserClientRoles(kc, User, o)
  /\ \/ org' = [org EXCEPT ![o] = "row"] /\ NoFault
     \/ org' = org /\ Fault
  /\ UNCHANGED <<roles, token, inv, refs, writes, pend, granted>>

-----------------------------------------------------------------------------
(* createInvitation(): the plan's user limit is checked, the invitation is *)
(* written unless there is one already.                                    *)
CreateInvitationCheck(u, o, v, R) ==
  /\ Authorized(u, o, {"owner", "super_admin", "admin"})
  /\ Exists(o) /\ (org[o] = "registered" => client[o])
  /\ u # v /\ AssertUserLimitAllowsInvitations(v, o)
  /\ Begin([op |-> "invite", user |-> u, org |-> o, email |-> v, roles |-> R])
  /\ Grant(v, o, R)
  /\ UNCHANGED <<org, client, roles, kc, token, inv, refs, writes, faults>>

CreateInvitation(req) ==
  LET o == req.org  v == req.email IN
  /\ req.op = "invite" /\ End(req)
  /\ inv' \in IF CheckInvitationExist(v, o) \/ ~Exists(o) THEN {inv}
              ELSE {[inv EXCEPT ![i] = [status |-> "pending", org |-> o, email |-> v,
                                        roles |-> req.roles]] :
                      i \in {j \in Invitation : inv[j] = NoInvitation}}
  /\ UNCHANGED <<org, client, roles, kc, token, refs, writes, granted, faults>>

UpdateOrgInvitationAnyone(v, i, status) ==
  /\ inv[i].status # "none" /\ status \in Transition[inv[i].status]
  /\ Exists(inv[i].org)
  /\ Begin([op |-> status, user |-> v, inv |-> i, row |-> inv[i],
            idp |-> org[inv[i].org] = "registered"])
  /\ UNCHANGED <<org, client, roles, kc, token, inv, refs, writes, granted, faults>>

(* updateOrgInvitation(): the invited user accepts or rejects.             *)
UpdateOrgInvitationCheck(v, i, status) ==
  /\ inv[i].status # "none" /\ inv[i].email = v
  /\ status \in Transition[inv[i].status]
  /\ Exists(inv[i].org)
  /\ status = "accepted" => /\ AssertOrganizationLimit(v)
                            /\ AssertUserLimitAllowsAcceptance(v, inv[i].org)
  /\ Begin([op |-> status, user |-> v, inv |-> i, row |-> inv[i],
            idp |-> org[inv[i].org] = "registered"])
  /\ UNCHANGED <<org, client, roles, kc, token, inv, refs, writes, granted, faults>>

SetStatus(i, status) ==
  inv' = IF inv[i].status = "none" THEN inv ELSE [inv EXCEPT ![i].status = status]

RejectInvitation(req) ==
  /\ req.op = "rejected" /\ End(req)
  /\ SetStatus(req.inv, "rejected")
  /\ UNCHANGED <<org, client, roles, kc, token, refs, writes, granted, faults>>

(* updateClientInvitation(): the status, the Keycloak roles and the rows   *)
(* are written at the same time.                                           *)
UpdateClientInvitation(req) ==
  LET o == req.row.org IN
  /\ req.op = "accepted" /\ req.idp /\ End(req)
  /\ SetStatus(req.inv, "accepted")
  /\ \/ client[o] /\ kc' = CreateUserClientRole(kc, req.user, o, req.row.roles) /\ NoFault
     \/ ~client[o] /\ UNCHANGED kc /\ NoFault
     \/ UNCHANGED kc /\ Fault
  /\ writes' = UpdateUserOrgRole(req.user, o, req.row.roles)
  /\ UNCHANGED <<org, client, roles, token, refs, granted>>

(* Without a client: the status first, then one row after the other.       *)
AcceptWithoutClient(req) ==
  LET o == req.row.org IN
  /\ req.op = "accepted" /\ ~req.idp /\ End(req)
  /\ SetStatus(req.inv, "accepted")
  /\ \E R \in SUBSET req.row.roles :
       /\ inv[req.inv].status = "none" \/ ~Exists(o) => R = {}
       /\ roles' = [roles EXCEPT ![req.user][o] = @ \cup R]
       /\ FaultIf(R # req.row.roles /\ inv[req.inv].status # "none" /\ Exists(o))
  /\ UNCHANGED <<org, client, kc, token, refs, writes, granted>>

(* deleteOrganizationInvitation().                                         *)
DeleteInvitationCheck(u, i) ==
  /\ inv[i].status = "pending" /\ Authorized(u, inv[i].org, {"owner", "admin"})
  /\ Begin([op |-> "withdraw", inv |-> i])
  /\ UNCHANGED <<org, client, roles, kc, token, inv, refs, writes, granted, faults>>

DeleteInvitation(req) ==
  /\ req.op = "withdraw" /\ End(req)
  /\ inv' = [inv EXCEPT ![req.inv] = NoInvitation]
  /\ UNCHANGED <<org, client, roles, kc, token, refs, writes, granted, faults>>

-----------------------------------------------------------------------------
(* updateUserRoles(): the old roles are deleted in both stores, then the   *)
(* new ones created.  deleteUserClientRoles() swallows its errors.         *)
UpdateUserRoles(u, v, o, R) ==
  /\ Authorized(u, o, {"owner", "admin"})
  /\ Exists(o) /\ roles[v][o] # {}
  /\ roles' = [roles EXCEPT ![v][o] = {}]
  /\ Grant(v, o, R)
  /\ IF org[o] = "row"
     THEN /\ writes' = UpdateUserOrgRole(v, o, R)
          /\ Start
          /\ UNCHANGED <<kc, pend, faults>>
     ELSE /\ \/ kc' = DeleteUserClientRoles(kc, {v}, o) /\ NoFault
             \/ kc' = kc /\ Fault
          /\ Begin([op |-> "assign", user |-> v, org |-> o, roles |-> R])
          /\ UNCHANGED writes
  /\ UNCHANGED <<org, client, token, inv, refs>>

UpdateUserClientRoles(req) ==
  /\ req.op = "assign" /\ End(req)
  /\ \/ client[req.org] /\ kc' = CreateUserClientRole(kc, req.user, req.org, req.roles) /\ NoFault
     \/ ~client[req.org] /\ UNCHANGED kc /\ NoFault
     \/ UNCHANGED kc /\ Fault
  /\ writes' = UpdateUserOrgRole(req.user, req.org, req.roles)
  /\ UNCHANGED <<org, client, roles, token, inv, refs, granted>>

CreateUserOrgRoleUnconnected(w) ==
  /\ w \in writes /\ writes' = writes \ {w}
  /\ roles' = [roles EXCEPT ![w[1]][w[2]] = @ \cup {w[3]}]
  /\ UNCHANGED <<org, client, kc, token, inv, refs, pend, granted, started, faults>>

(* An insert of updateUserOrgRole() arrives; the row needs its             *)
(* organisation (connect), without which the insert fails.                 *)
CreateUserOrgRole(w) ==
  /\ w \in writes /\ writes' = writes \ {w}
  /\ roles' = IF Exists(w[2]) THEN [roles EXCEPT ![w[1]][w[2]] = @ \cup {w[3]}] ELSE roles
  /\ UNCHANGED <<org, client, kc, token, inv, refs, pend, granted, started, faults>>

-----------------------------------------------------------------------------
(* deleteOrganization(): the Keycloak roles of the caller and of everybody *)
(* who was invited are removed first.                                      *)
DeleteOrganization(u, o) ==
  LET told == {u} \cup {inv[i].email : i \in Rows(o)} IN
  /\ Authorized(u, o, {"owner"}) /\ Exists(o)
  /\ \E S \in SUBSET told : kc' = DeleteUserClientRoles(kc, S, o) /\ FaultIf(S # told)
  /\ Begin([op |-> "delete", org |-> o])
  /\ UNCHANGED <<org, client, roles, token, inv, refs, writes, granted>>

DeleteOrgUnchecked(req) ==
  LET o == req.org IN
  /\ req.op = "delete" /\ End(req)
  /\ org' = [org EXCEPT ![o] = IF Exists(o) THEN "gone" ELSE @]
  /\ roles' = DeleteUserClientRoles(roles, User, o)
  /\ inv' = [i \in Invitation |-> IF i \in Rows(o) THEN NoInvitation ELSE inv[i]]
  /\ UNCHANGED <<client, kc, token, refs, writes, granted, faults>>

(* deleteOrg(): one transaction, except that the schemas are detached      *)
(* through another connection.  A reference it did not look for makes the  *)
(* delete of the row fail.                                                 *)
DeleteOrg(req) ==
  LET o == req.org IN
  /\ req.op = "delete" /\ End(req)
  /\ IF ~Exists(o) \/ "listed" \in refs[o]
     THEN UNCHANGED <<org, roles, inv, refs>>
     ELSE /\ refs' = [refs EXCEPT ![o] = @ \ {"schema"}]
          /\ IF "unlisted" \in refs[o]
             THEN UNCHANGED <<org, roles, inv>>
             ELSE /\ org' = [org EXCEPT ![o] = "gone"]
                  /\ roles' = DeleteUserClientRoles(roles, User, o)
                  /\ inv' = [i \in Invitation |-> IF i \in Rows(o) THEN NoInvitation ELSE inv[i]]
  /\ UNCHANGED <<client, kc, token, writes, granted, faults>>

-----------------------------------------------------------------------------
(* The environment: a user gets a new token, other services refer to the   *)
(* organization, a handler dies between its steps.                         *)
NewToken(u) ==
  /\ token[u] # kc[u] /\ token' = [token EXCEPT ![u] = kc[u]]
  /\ UNCHANGED <<org, client, roles, kc, inv, refs, writes, pend, granted, started, faults>>

Refer(o, r) ==
  /\ Exists(o) /\ r \notin refs[o] /\ refs' = [refs EXCEPT ![o] = @ \cup {r}]
  /\ UNCHANGED <<org, client, roles, kc, token, inv, writes, pend, granted, started, faults>>

Die(req) ==
  /\ End(req) /\ Fault
  /\ UNCHANGED <<org, client, roles, kc, token, inv, refs, writes, granted>>

Handler(req) ==
  \/ CreateOrganization(req) \/ CreateInvitation(req) \/ RejectInvitation(req)
  \/ UpdateClientInvitation(req) \/ AcceptWithoutClient(req) \/ DeleteInvitation(req)
  \/ UpdateUserClientRoles(req) \/ DeleteOrg(req) \/ Die(req)

Next ==
  \/ \E u \in User, o \in Org :
       \/ CreateOrganizationCheck(u, o) \/ CreateOrgCredentials(u, o) \/ DeleteOrganization(u, o)
       \/ \E v \in User, R \in SUBSET Role \ {{}} :
            CreateInvitationCheck(u, o, v, R) \/ UpdateUserRoles(u, v, o, R)
  \/ \E o \in Org : RegisterOrgsMapUsers(o) \/ DeleteClientCredentials(o)
                    \/ \E r \in Reference : Refer(o, r)
  \/ \E u \in User, i \in Invitation :
       \/ DeleteInvitationCheck(u, i)
       \/ \E s \in {"accepted", "rejected"} : UpdateOrgInvitationCheck(u, i, s)
  \/ \E req \in pend : Handler(req)
  \/ \E w \in writes : CreateUserOrgRole(w)
  \/ \E u \in User : NewToken(u)

Spec == Init /\ [][Next]_vars

-----------------------------------------------------------------------------
(* Nobody holds a role, in a row, in Keycloak, in a token or in an insert  *)
(* that is still under way, unless they created the organization or an     *)
(* authorized caller offered or assigned them that very role: whatever     *)
(* invitations, answers and reassignments interleave.                      *)
RolesWereGranted ==
  \A u \in User, o \in Org :
    roles[u][o] \cup kc[u][o] \cup token[u][o] \cup {w[3] : w \in {x \in writes : x[1] = u /\ x[2] = o}}
      \subseteq granted[u][o]

(* deleteOrg() leaves no member and no invitation behind, and no handler   *)
(* or insert that was under way brings one back.                           *)
NothingOutlivesOrg ==
  \A o \in Org : org[o] = "gone" => OrganizationUsers(o) = {} /\ Rows(o) = {}

(* An organization that the listed tables refer to, one with a provisioned *)
(* wallet for instance, is not deleted by a request that is checked and    *)
(* carried out while the reference is there.                               *)
ReferredOrgStays ==
  \A o \in Org : org'[o] = "gone" /\ org[o] # "gone" => refs[o] \cap {"listed", "unlisted"} = {}

=============================================================================

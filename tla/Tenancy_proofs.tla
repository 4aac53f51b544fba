--------------------------- MODULE Tenancy_proofs ---------------------------
(***************************************************************************)
(* For every set of users, organizations, roles, invitations and names and *)
(* every number of requests and faults: the invariants of the parts of     *)
(* Tenancy that keep accounts, sessions and memberships, and of those that *)
(* bill.  Of the marketplace, what a row, a session, an operation or a     *)
(* handler under way knows of Microsoft is never ahead of Microsoft, and   *)
(* an organization gets into them only from a buyer who owns it; of its    *)
(* metering, no amount is above the excess of its hour, and late events    *)
(* only let that grow.                                                     *)
(***************************************************************************)
EXTENDS Tenancy, FiniteSetTheorems, TLAPS

(* A part that sells subscriptions is none of the others.                  *)
LEMMA SalesApart == \A p \in DOMAIN Sales : p \notin OtherParts
BY TenancyAssumption DEF TenancyAssumption

-----------------------------------------------------------------------------
(* organization: members, roles and invitations.                           *)

(* What a request under way will write was offered or assigned by an       *)
(* authorized caller: createInvitation() and updateUserRoles() keep the    *)
(* roles in the request, updateOrgInvitation() the row it read.            *)
RequestBacked(req) ==
  /\ req.op = "invite" => req.roles \subseteq granted[req.email][req.org]
  /\ req.op = "assign" => req.roles \subseteq granted[req.user][req.org]
  /\ req.op \in {"accepted", "rejected"} => req.row.roles \subseteq granted[req.user][req.row.org]

(* Nothing holds a role that was not granted: rows, Keycloak, tokens,      *)
(* inserts and requests under way, and invitations that may be accepted.   *)
RolesBacked ==
  /\ \A u \in User, o \in MemberOrg :
       roles[u][o] \subseteq granted[u][o] /\ kc[u][o] \subseteq granted[u][o] /\ token[u][o] \subseteq granted[u][o]
  /\ \A w \in writes : w[3] \in granted[w[1]][w[2]]
  /\ \A i \in OrgInvitation : inv[i].status # "none" => inv[i].roles \subseteq granted[inv[i].email][inv[i].org]
  /\ \A req \in pend : RequestBacked(req)

(* A deleted organization is empty. *)
GoneIsEmpty ==
  /\ \A u \in User, o \in MemberOrg : org[o] = "gone" => roles[u][o] = {}
  /\ \A i \in OrgInvitation : inv[i].status # "none" => org[inv[i].org] # "gone"

MembersIInv == Members!TypeOK /\ RolesBacked /\ GoneIsEmpty

Holding == [User -> [MemberOrg -> SUBSET Role]]

LEMMA MembersConstants ==
  "owner" \in Role /\ Requests.members \in Nat /\ Faults \in Nat
BY TenancyAssumption DEF TenancyAssumption, Members!MembershipAssumption

(* The kinds of requests. *)
LEMMA MembersRequest ==
  ASSUME NEW req \in Members!Request
  PROVE  /\ req.op = "create" => req.user \in User /\ req.org \in MemberOrg
         /\ req.op = "invite" => /\ req.user \in User /\ req.org \in MemberOrg /\ req.email \in User
                                 /\ req.roles \in SUBSET Role \ {{}}
         /\ req.op \in {"accepted", "rejected"} =>
              /\ req.user \in User /\ req.inv \in OrgInvitation /\ req.row \in Members!InvitationRow
              /\ req.idp \in BOOLEAN
         /\ req.op = "withdraw" => req.inv \in OrgInvitation
         /\ req.op = "assign" => /\ req.user \in User /\ req.org \in MemberOrg
                                 /\ req.roles \in SUBSET Role \ {{}}
         /\ req.op = "delete" => req.org \in MemberOrg
BY DEF Members!Request

(* Adding roles, and deleting those of some users in an organization. *)
LEMMA RolesAdded ==
  ASSUME NEW m \in Holding, NEW u \in User, NEW o \in MemberOrg, NEW R \in SUBSET Role
  PROVE  LET n == [m EXCEPT ![u][o] = @ \cup R]
         IN  /\ n \in Holding
             /\ n[u][o] = m[u][o] \cup R
             /\ \A v \in User, p \in MemberOrg : v # u \/ p # o => n[v][p] = m[v][p]
BY DEF Holding

LEMMA RolesSet ==
  ASSUME NEW m \in Holding, NEW u \in User, NEW o \in MemberOrg, NEW R \in SUBSET Role
  PROVE  LET n == [m EXCEPT ![u][o] = R]
         IN  /\ n \in Holding
             /\ n[u][o] = R
             /\ \A v \in User, p \in MemberOrg : v # u \/ p # o => n[v][p] = m[v][p]
BY DEF Holding

LEMMA RolesDeleted ==
  ASSUME NEW m \in Holding, NEW S, NEW o \in MemberOrg
  PROVE  LET n == Members!DeleteUserClientRoles(m, S, o)
         IN  /\ n \in Holding
             /\ \A v \in User : v \in S => n[v][o] = {}
             /\ \A v \in User, p \in MemberOrg : v \notin S \/ p # o => n[v][p] = m[v][p]
BY DEF Holding, Members!DeleteUserClientRoles

(* What Grant does: granted only grows. *)
LEMMA GrantGrows ==
  ASSUME granted \in Holding, NEW u \in User, NEW o \in MemberOrg, NEW R \in SUBSET Role, Members!Grant(u, o, R)
  PROVE  /\ granted' \in Holding
         /\ R \subseteq granted'[u][o]
         /\ \A v \in User, p \in MemberOrg : granted[v][p] \subseteq granted'[v][p]
<1>1. /\ granted' \in Holding
      /\ granted'[u][o] = granted[u][o] \cup R
      /\ \A v \in User, p \in MemberOrg : v # u \/ p # o => granted'[v][p] = granted[v][p]
  BY DEF Members!Grant, Holding
<1> QED BY <1>1

(* A step keeps everything backed when granted only grows and whatever is  *)
(* new was granted.                                                        *)
LEMMA StaysBacked ==
  ASSUME MembersIInv,
         granted' \in Holding,
         \A v \in User, p \in MemberOrg : granted[v][p] \subseteq granted'[v][p],
         \A v \in User, p \in MemberOrg :
           /\ roles'[v][p] \subseteq roles[v][p] \cup granted'[v][p]
           /\ kc'[v][p] \subseteq kc[v][p] \cup granted'[v][p]
           /\ token'[v][p] \subseteq token[v][p] \cup kc[v][p],
         \A w \in writes' : w \in writes \/ w[3] \in granted'[w[1]][w[2]],
         \A i \in OrgInvitation : inv'[i].status # "none" =>
           \/ /\ inv[i].status # "none"
              /\ inv'[i].roles = inv[i].roles /\ inv'[i].email = inv[i].email /\ inv'[i].org = inv[i].org
           \/ inv'[i].roles \subseteq granted'[inv'[i].email][inv'[i].org],
         \A req \in pend' : req \in pend \/ RequestBacked(req)'
  PROVE  RolesBacked'
<1> USE DEF MembersIInv, RolesBacked
<1>1. \A v \in User, p \in MemberOrg :
        /\ roles'[v][p] \subseteq granted'[v][p]
        /\ kc'[v][p] \subseteq granted'[v][p]
        /\ token'[v][p] \subseteq granted'[v][p]
  OBVIOUS
<1>2. \A w \in writes' : w[3] \in granted'[w[1]][w[2]]
  BY DEF Members!TypeOK
<1>3. \A i \in OrgInvitation : inv'[i].status # "none" => inv'[i].roles \subseteq granted'[inv'[i].email][inv'[i].org]
  <2> SUFFICES ASSUME NEW i \in OrgInvitation, inv'[i].status # "none", inv[i].status # "none",
                      inv'[i].roles = inv[i].roles, inv'[i].email = inv[i].email, inv'[i].org = inv[i].org
               PROVE  inv'[i].roles \subseteq granted'[inv'[i].email][inv'[i].org]
    OBVIOUS
  <2>1. inv[i] \in Members!InvitationRow
    BY DEF Members!TypeOK, Members!NoInvitation
  <2>2. inv[i].email \in User /\ inv[i].org \in MemberOrg
    BY <2>1 DEF Members!InvitationRow
  <2> QED BY <2>2
<1>4. \A req \in pend' : RequestBacked(req)'
  <2> SUFFICES ASSUME NEW req \in pend
               PROVE  RequestBacked(req)'
    OBVIOUS
  <2>1. req \in Members!Request /\ RequestBacked(req)
    BY DEF Members!TypeOK
  <2>2. /\ req.op = "invite" => req.email \in User /\ req.org \in MemberOrg
        /\ req.op = "assign" => req.user \in User /\ req.org \in MemberOrg
        /\ req.op \in {"accepted", "rejected"} => req.user \in User /\ req.row.org \in MemberOrg
    BY <2>1, MembersRequest DEF Members!InvitationRow
  <2> QED BY <2>1, <2>2 DEF RequestBacked
<1> QED BY <1>1, <1>2, <1>3, <1>4

(* The counters of requests and faults. *)
LEMMA MembersCounters ==
  ASSUME Members!TypeOK
  PROVE  /\ Members!Start => started' \in 0..Requests.members
         /\ Members!Fault => faults' \in 0..Faults
         /\ UNCHANGED started => started' \in 0..Requests.members
         /\ UNCHANGED faults => faults' \in 0..Faults
BY MembersConstants DEF Members!TypeOK, Members!Start, Members!Fault

(* An invitation row that is not empty. *)
LEMMA InvitationTyped ==
  ASSUME Members!TypeOK, NEW i \in OrgInvitation, inv[i].status # "none"
  PROVE  /\ inv[i] \in Members!InvitationRow
         /\ inv[i].email \in User /\ inv[i].org \in MemberOrg /\ inv[i].roles \in SUBSET Role \ {{}}
<1>1. inv[i] \in Members!InvitationRow
  BY DEF Members!TypeOK, Members!NoInvitation
<1> QED BY <1>1 DEF Members!InvitationRow

-----------------------------------------------------------------------------
(* One lemma per group of handlers. *)

(* createOrganization(), its checks and its writes. *)
LEMMA CreateOrganizationKeeps ==
  ASSUME MembersIInv
  PROVE  /\ \A u \in User, o \in MemberOrg : Members!CreateOrganizationCheck(u, o) => MembersIInv'
         /\ \A req \in pend : Members!CreateOrganization(req) => MembersIInv'
<1> USE DEF MembersIInv
<1>0. roles \in Holding /\ kc \in Holding /\ token \in Holding /\ granted \in Holding
  BY DEF Members!TypeOK, Holding
<1>1. ASSUME NEW u \in User, NEW o \in MemberOrg, Members!CreateOrganizationCheck(u, o)
      PROVE  MembersIInv'
  <2> DEFINE req == [op |-> "create", user |-> u, org |-> o]
  <2>1. /\ pend' = pend \cup {req}
        /\ UNCHANGED <<org, client, roles, kc, token, inv, refs, writes, granted, faults>>
        /\ Members!Start
    BY <1>1 DEF Members!CreateOrganizationCheck, Members!Begin
  <2>2. req \in Members!Request /\ RequestBacked(req)'
    BY DEF Members!Request, RequestBacked
  <2> HIDE DEF req
  <2>3. Members!TypeOK'
    BY <2>1, <2>2, MembersCounters DEF Members!TypeOK
  <2>4. RolesBacked'
    BY <1>0, <2>1, <2>2, StaysBacked
  <2>5. GoneIsEmpty'
    BY <2>1 DEF GoneIsEmpty
  <2> QED BY <2>3, <2>4, <2>5
<1>2. ASSUME NEW req \in pend, Members!CreateOrganization(req)
      PROVE  MembersIInv'
  <2> DEFINE u == req.user
             o == req.org
  <2>1. u \in User /\ o \in MemberOrg
    BY <1>2, MembersRequest DEF Members!CreateOrganization, Members!TypeOK
  <2>2. pend' \subseteq pend /\ UNCHANGED <<started, token, inv, refs, writes>>
    BY <1>2 DEF Members!CreateOrganization, Members!End
  <2>3. CASE UNCHANGED <<org, client, roles, kc, granted, faults>>
    <3>1. Members!TypeOK'
      BY <2>2, <2>3 DEF Members!TypeOK
    <3>2. RolesBacked'
      BY <1>0, <2>2, <2>3, StaysBacked
    <3> QED BY <2>2, <2>3, <3>1, <3>2 DEF GoneIsEmpty
  <2>4. ASSUME NEW stage \in {"row", "client", "registered"}, NEW inKc \in BOOLEAN, NEW inDb \in BOOLEAN,
               org[o] = "none",
               org' = [org EXCEPT ![o] = IF stage = "registered" THEN stage ELSE "row"],
               client' = [client EXCEPT ![o] = stage # "row"],
               kc' = IF inKc THEN Members!CreateUserClientRole(kc, u, o, {"owner"}) ELSE kc,
               roles' = IF inDb THEN [roles EXCEPT ![u][o] = {"owner"}] ELSE roles,
               Members!Grant(u, o, {"owner"}),
               Members!FaultIf(stage # "registered")
        PROVE  MembersIInv'
    <3>1. {"owner"} \in SUBSET Role
      BY MembersConstants
    <3>2. /\ granted' \in Holding /\ "owner" \in granted'[u][o]
          /\ \A v \in User, p \in MemberOrg : granted[v][p] \subseteq granted'[v][p]
      BY <1>0, <2>1, <2>4, <3>1, GrantGrows
    <3>3. /\ kc' \in Holding
          /\ \A v \in User, p \in MemberOrg : kc'[v][p] \subseteq kc[v][p] \cup granted'[v][p]
      BY <1>0, <2>1, <2>4, <3>1, <3>2 DEF Holding, Members!CreateUserClientRole
    <3>4. /\ roles' \in Holding
          /\ \A v \in User, p \in MemberOrg : roles'[v][p] \subseteq roles[v][p] \cup granted'[v][p]
          /\ \A v \in User, p \in MemberOrg : p # o => roles'[v][p] = roles[v][p]
      BY <1>0, <2>1, <2>4, <3>1, <3>2 DEF Holding
    <3>5. faults' \in 0..Faults
      BY <2>4, MembersCounters DEF Members!FaultIf, Members!NoFault
    <3>6. /\ org' \in [MemberOrg -> {"none", "row", "registered", "gone"}]
          /\ org'[o] # "gone" /\ \A p \in MemberOrg : p # o => org'[p] = org[p]
          /\ client' \in [MemberOrg -> BOOLEAN]
      BY <2>1, <2>4 DEF Members!TypeOK
    <3>7. Members!TypeOK'
      BY <2>2, <3>2, <3>3, <3>4, <3>5, <3>6 DEF Members!TypeOK, Holding
    <3>8. RolesBacked'
      BY <2>2, <3>2, <3>3, <3>4, StaysBacked
    <3>9. GoneIsEmpty'
      <4>1. \A i \in OrgInvitation : inv[i].status # "none" => inv[i].org \in MemberOrg
        BY InvitationTyped
      <4> QED BY <2>2, <3>4, <3>6, <4>1 DEF GoneIsEmpty
    <3> QED BY <3>7, <3>8, <3>9
  <2> QED BY <1>2, <2>3, <2>4 DEF Members!CreateOrganization
<1> QED BY <1>1, <1>2

(* createOrgCredentials(), registerOrgsMapUsers() and                      *)
(* deleteClientCredentials().                                              *)
LEMMA CredentialsKeep ==
  ASSUME MembersIInv, NEW o \in MemberOrg
  PROVE  /\ \A u \in User : Members!CreateOrgCredentials(u, o) => MembersIInv'
         /\ Members!RegisterOrgsMapUsers(o) => MembersIInv'
         /\ Members!DeleteClientCredentials(o) => MembersIInv'
<1> USE DEF MembersIInv
<1>0. roles \in Holding /\ kc \in Holding /\ token \in Holding /\ granted \in Holding
  BY DEF Members!TypeOK, Holding
<1>i. \A i \in OrgInvitation : inv[i].status # "none" => inv[i].org \in MemberOrg
  BY InvitationTyped
<1>1. ASSUME NEW u \in User, Members!CreateOrgCredentials(u, o)
      PROVE  MembersIInv'
  <2>1. PICK stage \in {"client", "roles", "registered"} :
          /\ org' = [org EXCEPT ![o] = IF stage = "registered" THEN stage ELSE @]
          /\ kc' = IF stage = "client" THEN kc ELSE Members!CreateUserClientRole(kc, u, o, {"owner"})
          /\ roles' = IF stage = "client" THEN roles ELSE [roles EXCEPT ![u][o] = {}]
          /\ writes' \in IF stage = "client" THEN {writes}
                         ELSE {writes, Members!UpdateUserOrgRole(u, o, {"owner"})}
          /\ Members!FaultIf(stage # "registered")
    BY <1>1 DEF Members!CreateOrgCredentials
  <2>2. /\ Members!Start /\ org[o] = "row"
        /\ client' = [client EXCEPT ![o] = TRUE]
        /\ Members!Grant(u, o, {"owner"})
        /\ UNCHANGED <<token, inv, refs, pend>>
    BY <1>1 DEF Members!CreateOrgCredentials
  <2>3. {"owner"} \in SUBSET Role
    BY MembersConstants
  <2>4. /\ granted' \in Holding /\ "owner" \in granted'[u][o]
        /\ \A v \in User, p \in MemberOrg : granted[v][p] \subseteq granted'[v][p]
    BY <1>0, <2>2, <2>3, GrantGrows
  <2>5. /\ kc' \in Holding
        /\ \A v \in User, p \in MemberOrg : kc'[v][p] \subseteq kc[v][p] \cup granted'[v][p]
    BY <1>0, <2>1, <2>3, <2>4 DEF Holding, Members!CreateUserClientRole
  <2>6. /\ roles' \in Holding
        /\ \A v \in User, p \in MemberOrg : roles'[v][p] \subseteq roles[v][p]
    BY <1>0, <2>1 DEF Holding
  <2>7. /\ writes' \subseteq writes \cup {<<u, o, "owner">>}
        /\ writes' \subseteq (User \X MemberOrg \X Role)
    BY <2>1, <2>3 DEF Members!UpdateUserOrgRole, Members!TypeOK
  <2>8. \A w \in writes' : w \in writes \/ w[3] \in granted'[w[1]][w[2]]
    BY <2>4, <2>7
  <2>9. started' \in 0..Requests.members /\ faults' \in 0..Faults
    BY <2>1, <2>2, MembersCounters DEF Members!FaultIf, Members!NoFault
  <2>10. /\ org' \in [MemberOrg -> {"none", "row", "registered", "gone"}]
         /\ org'[o] # "gone" /\ \A p \in MemberOrg : p # o => org'[p] = org[p]
         /\ client' \in [MemberOrg -> BOOLEAN]
    BY <2>1, <2>2 DEF Members!TypeOK
  <2>11. Members!TypeOK'
    BY <2>2, <2>4, <2>5, <2>6, <2>7, <2>9, <2>10 DEF Members!TypeOK, Holding
  <2>12. RolesBacked'
    BY <2>2, <2>4, <2>5, <2>6, <2>8, StaysBacked
  <2>13. GoneIsEmpty'
    BY <1>i, <2>2, <2>6, <2>10 DEF GoneIsEmpty
  <2> QED BY <2>11, <2>12, <2>13
<1>2. ASSUME Members!RegisterOrgsMapUsers(o)
      PROVE  MembersIInv'
  <2> DEFINE members == Members!OrganizationUsers(o)
  <2>1. PICK done \in SUBSET members : \E cut \in {{}} \cup {{u} : u \in members \ done} :
          /\ roles' = Members!DeleteUserClientRoles(roles, done \cup cut, o)
          /\ kc' = [u \in User |-> IF u \in done THEN [kc[u] EXCEPT ![o] = roles[u][o]] ELSE kc[u]]
          /\ writes' = writes \cup {w \in done \X {o} \X Role : w[3] \in roles[w[1]][o]}
          /\ Members!FaultIf(done # members)
    BY <1>2 DEF Members!RegisterOrgsMapUsers
  <2>2. /\ Members!Start /\ org[o] = "row"
        /\ org' = [org EXCEPT ![o] = "registered"]
        /\ client' = [client EXCEPT ![o] = TRUE]
        /\ UNCHANGED <<token, inv, refs, pend, granted>>
    BY <1>2 DEF Members!RegisterOrgsMapUsers
  <2>3. members \subseteq User
    BY DEF Members!OrganizationUsers
  <2> HIDE DEF members
  <2>5. /\ kc' \in Holding
        /\ \A v \in User, p \in MemberOrg : kc'[v][p] \subseteq kc[v][p] \cup roles[v][p]
    BY <1>0, <2>1 DEF Holding
  <2>6. /\ roles' \in Holding
        /\ \A v \in User, p \in MemberOrg : roles'[v][p] \subseteq roles[v][p]
    <3>1. PICK S : roles' = Members!DeleteUserClientRoles(roles, S, o)
      BY <2>1
    <3>2. /\ roles' \in Holding
          /\ \A v \in User : v \in S => roles'[v][o] = {}
          /\ \A v \in User, p \in MemberOrg : v \notin S \/ p # o => roles'[v][p] = roles[v][p]
      BY <1>0, <3>1, RolesDeleted
    <3> QED BY <3>2
  <2>7. \A w \in writes' : w \in writes \/ (w \in User \X MemberOrg \X Role /\ w[3] \in roles[w[1]][w[2]])
    BY <2>1, <2>3
  <2>8. \A w \in writes' : w \in writes \/ (w \in User \X MemberOrg \X Role /\ w[3] \in granted[w[1]][w[2]])
    BY <2>7 DEF RolesBacked
  <2>9. started' \in 0..Requests.members /\ faults' \in 0..Faults
    BY <2>1, <2>2, MembersCounters DEF Members!FaultIf, Members!NoFault
  <2>10. /\ org' \in [MemberOrg -> {"none", "row", "registered", "gone"}]
         /\ org'[o] # "gone" /\ \A p \in MemberOrg : p # o => org'[p] = org[p]
         /\ client' \in [MemberOrg -> BOOLEAN]
    BY <2>2 DEF Members!TypeOK
  <2>11. Members!TypeOK'
    BY <1>0, <2>2, <2>5, <2>6, <2>8, <2>9, <2>10 DEF Members!TypeOK, Holding
  <2>12. RolesBacked'
    <3>1. \A v \in User, p \in MemberOrg : kc'[v][p] \subseteq kc[v][p] \cup granted'[v][p]
      BY <2>2, <2>5 DEF RolesBacked
    <3> QED BY <1>0, <2>2, <2>6, <2>8, <3>1, StaysBacked
  <2>13. GoneIsEmpty'
    BY <1>i, <2>2, <2>6, <2>10 DEF GoneIsEmpty
  <2> QED BY <2>11, <2>12, <2>13
<1>3. ASSUME Members!DeleteClientCredentials(o)
      PROVE  MembersIInv'
  <2>1. /\ Members!Start /\ org[o] = "registered"
        /\ client' = [client EXCEPT ![o] = FALSE]
        /\ kc' = Members!DeleteUserClientRoles(kc, User, o)
        /\ \/ org' = [org EXCEPT ![o] = "row"] /\ Members!NoFault
           \/ org' = org /\ Members!Fault
        /\ UNCHANGED <<roles, token, inv, refs, writes, pend, granted>>
    BY <1>3 DEF Members!DeleteClientCredentials
  <2>2. /\ kc' \in Holding
        /\ \A v \in User, p \in MemberOrg : kc'[v][p] \subseteq kc[v][p]
    <3>1. /\ kc' \in Holding
          /\ \A v \in User : kc'[v][o] = {}
          /\ \A v \in User, p \in MemberOrg : p # o => kc'[v][p] = kc[v][p]
      BY <1>0, <2>1, RolesDeleted
    <3> QED BY <3>1
  <2>3. started' \in 0..Requests.members /\ faults' \in 0..Faults
    BY <2>1, MembersCounters DEF Members!NoFault
  <2>4. /\ org' \in [MemberOrg -> {"none", "row", "registered", "gone"}]
        /\ \A p \in MemberOrg : org'[p] = "gone" <=> org[p] = "gone"
        /\ client' \in [MemberOrg -> BOOLEAN]
    BY <2>1 DEF Members!TypeOK
  <2>5. Members!TypeOK'
    BY <1>0, <2>1, <2>2, <2>3, <2>4 DEF Members!TypeOK, Holding
  <2>6. RolesBacked'
    BY <1>0, <2>1, <2>2, StaysBacked
  <2>7. GoneIsEmpty'
    BY <1>i, <2>1, <2>4 DEF GoneIsEmpty
  <2> QED BY <2>5, <2>6, <2>7
<1> QED BY <1>1, <1>2, <1>3

(* A handler that ends its checks: only the request is new. *)
LEMMA RequestKeeps ==
  ASSUME MembersIInv, NEW req \in Members!Request, Members!Begin(req), RequestBacked(req)',
         granted' \in Holding,
         \A v \in User, p \in MemberOrg : granted[v][p] \subseteq granted'[v][p],
         UNCHANGED <<org, client, roles, kc, token, inv, refs, writes, faults>>
  PROVE  MembersIInv'
<1> USE DEF MembersIInv
<1>1. Members!TypeOK'
  BY MembersCounters DEF Members!TypeOK, Members!Begin, Holding
<1>2. RolesBacked'
  BY StaysBacked DEF Members!Begin
<1> QED BY <1>1, <1>2 DEF GoneIsEmpty

(* createInvitation() and updateOrgInvitation(), their checks. *)
LEMMA InvitationChecksKeep ==
  ASSUME MembersIInv, NEW u \in User
  PROVE  /\ \A o \in MemberOrg, v \in User, R \in SUBSET Role \ {{}} :
              Members!CreateInvitationCheck(u, o, v, R) => MembersIInv'
         /\ \A i \in OrgInvitation :
              /\ Members!DeleteInvitationCheck(u, i) => MembersIInv'
              /\ \A s \in {"accepted", "rejected"} : Members!UpdateOrgInvitationCheck(u, i, s) => MembersIInv'
<1>0. granted \in Holding
  BY DEF MembersIInv, Members!TypeOK, Holding
<1>1. ASSUME NEW o \in MemberOrg, NEW v \in User, NEW R \in SUBSET Role \ {{}},
             Members!CreateInvitationCheck(u, o, v, R)
      PROVE  MembersIInv'
  <2> DEFINE req == [op |-> "invite", user |-> u, org |-> o, email |-> v, roles |-> R]
  <2>1. /\ Members!Begin(req)
        /\ Members!Grant(v, o, R)
        /\ UNCHANGED <<org, client, roles, kc, token, inv, refs, writes, faults>>
    BY <1>1 DEF Members!CreateInvitationCheck
  <2>2. /\ granted' \in Holding /\ R \subseteq granted'[v][o]
        /\ \A w \in User, p \in MemberOrg : granted[w][p] \subseteq granted'[w][p]
    BY <1>0, <2>1, GrantGrows
  <2>3. req \in Members!Request /\ RequestBacked(req)'
    BY <2>2 DEF Members!Request, RequestBacked
  <2> HIDE DEF req
  <2> QED BY <2>1, <2>2, <2>3, RequestKeeps
<1>2. ASSUME NEW i \in OrgInvitation, Members!DeleteInvitationCheck(u, i)
      PROVE  MembersIInv'
  <2> DEFINE req == [op |-> "withdraw", inv |-> i]
  <2>1. /\ Members!Begin(req)
        /\ UNCHANGED <<org, client, roles, kc, token, inv, refs, writes, granted, faults>>
    BY <1>2 DEF Members!DeleteInvitationCheck
  <2>2. req \in Members!Request /\ RequestBacked(req)'
    BY DEF Members!Request, RequestBacked
  <2> HIDE DEF req
  <2> QED BY <1>0, <2>1, <2>2, RequestKeeps
<1>3. ASSUME NEW i \in OrgInvitation, NEW s \in {"accepted", "rejected"},
             Members!UpdateOrgInvitationCheck(u, i, s)
      PROVE  MembersIInv'
  <2> DEFINE req == [op |-> s, user |-> u, inv |-> i, row |-> inv[i],
                     idp |-> org[inv[i].org] = "registered"]
  <2>1. /\ Members!Begin(req)
        /\ inv[i].status # "none" /\ inv[i].email = u
        /\ UNCHANGED <<org, client, roles, kc, token, inv, refs, writes, granted, faults>>
    BY <1>3 DEF Members!UpdateOrgInvitationCheck
  <2>2. /\ inv[i] \in Members!InvitationRow
        /\ inv[i].roles \subseteq granted[u][inv[i].org]
    BY <2>1, InvitationTyped DEF MembersIInv, RolesBacked
  <2>3. req \in Members!Request
    BY <2>2 DEF Members!Request
  <2>4. PICK r \in Members!Request : r = req
    BY <2>3
  <2>5. RequestBacked(r)'
    BY <2>1, <2>2, <2>4 DEF RequestBacked
  <2> HIDE DEF req
  <2> QED BY <1>0, <2>1, <2>4, <2>5, RequestKeeps
<1> QED BY <1>1, <1>2, <1>3

(* A change of the status leaves the rest of an invitation alone. *)
LEMMA StatusSet ==
  ASSUME MembersIInv, NEW i \in OrgInvitation, NEW status \in {"accepted", "rejected"}, Members!SetStatus(i, status)
  PROVE  /\ inv' \in [OrgInvitation -> Members!InvitationRow \cup {Members!NoInvitation}]
         /\ \A j \in OrgInvitation : inv'[j].status # "none" =>
              /\ inv[j].status # "none"
              /\ inv'[j].roles = inv[j].roles /\ inv'[j].email = inv[j].email /\ inv'[j].org = inv[j].org
<1>1. CASE inv[i].status = "none"
  BY <1>1 DEF Members!SetStatus, MembersIInv, Members!TypeOK
<1>2. CASE inv[i].status # "none"
  <2>1. inv[i] \in Members!InvitationRow
    BY <1>2, InvitationTyped DEF MembersIInv
  <2>2. inv' = [inv EXCEPT ![i] = [inv[i] EXCEPT !.status = status]]
    BY <1>2 DEF Members!SetStatus
  <2>3. /\ [inv[i] EXCEPT !.status = status] \in Members!InvitationRow
        /\ inv'[i] = [inv[i] EXCEPT !.status = status]
        /\ \A j \in OrgInvitation : j # i => inv'[j] = inv[j]
    BY <2>1, <2>2 DEF Members!InvitationRow, MembersIInv, Members!TypeOK
  <2>4. inv'[i].roles = inv[i].roles /\ inv'[i].email = inv[i].email /\ inv'[i].org = inv[i].org
    BY <2>1, <2>3 DEF Members!InvitationRow
  <2> QED BY <1>2, <2>2, <2>3, <2>4 DEF MembersIInv, Members!TypeOK
<1> QED BY <1>1, <1>2

(* A handler that writes invitations only. *)
LEMMA InvitationWriteKeeps ==
  ASSUME MembersIInv, NEW req \in pend, Members!End(req),
         inv' \in [OrgInvitation -> Members!InvitationRow \cup {Members!NoInvitation}],
         \A j \in OrgInvitation : inv'[j].status # "none" =>
           \/ /\ inv[j].status # "none"
              /\ inv'[j].roles = inv[j].roles /\ inv'[j].email = inv[j].email /\ inv'[j].org = inv[j].org
           \/ /\ inv'[j].roles \subseteq granted[inv'[j].email][inv'[j].org]
              /\ org[inv'[j].org] # "gone",
         UNCHANGED <<org, client, roles, kc, token, refs, writes, granted, faults>>
  PROVE  MembersIInv'
<1> USE DEF MembersIInv
<1>0. granted' \in Holding
  BY DEF Members!TypeOK, Holding
<1>1. Members!TypeOK'
  BY DEF Members!TypeOK, Members!End
<1>2. RolesBacked'
  BY <1>0, StaysBacked DEF Members!End
<1> QED BY <1>1, <1>2 DEF GoneIsEmpty

(* createInvitation(), deleteOrganizationInvitation() and a rejection. *)
LEMMA InvitationWritesKeep ==
  ASSUME MembersIInv, NEW req \in pend
  PROVE  /\ Members!CreateInvitation(req) => MembersIInv'
         /\ Members!DeleteInvitation(req) => MembersIInv'
         /\ Members!RejectInvitation(req) => MembersIInv'
<1>0. req \in Members!Request /\ RequestBacked(req) /\ Members!TypeOK
  BY DEF MembersIInv, Members!TypeOK, RolesBacked
<1>1. ASSUME Members!CreateInvitation(req)
      PROVE  MembersIInv'
  <2> DEFINE new == [status |-> "pending", org |-> req.org, email |-> req.email, roles |-> req.roles]
  <2>1. /\ req.op = "invite" /\ Members!End(req)
        /\ UNCHANGED <<org, client, roles, kc, token, refs, writes, granted, faults>>
        /\ \/ inv' = inv
           \/ Members!Exists(req.org) /\ \E i \in OrgInvitation : inv' = [inv EXCEPT ![i] = new]
    BY <1>1 DEF Members!CreateInvitation
  <2>2. /\ new \in Members!InvitationRow
        /\ req.roles \subseteq granted[req.email][req.org]
    BY <1>0, <2>1, MembersRequest DEF Members!InvitationRow, RequestBacked
  <2>3. CASE inv' = inv
    BY <1>0, <2>1, <2>3, InvitationWriteKeeps DEF Members!TypeOK
  <2>4. ASSUME NEW i \in OrgInvitation, inv' = [inv EXCEPT ![i] = new], Members!Exists(req.org)
        PROVE  MembersIInv'
    <3>1. /\ inv' \in [OrgInvitation -> Members!InvitationRow \cup {Members!NoInvitation}]
          /\ inv'[i] = new /\ \A j \in OrgInvitation : j # i => inv'[j] = inv[j]
      BY <1>0, <2>2, <2>4 DEF Members!TypeOK
    <3>2. inv'[i].org = req.org /\ inv'[i].email = req.email /\ inv'[i].roles = req.roles
      BY <3>1
    <3>3. org[req.org] # "gone"
      BY <2>4 DEF Members!Exists
    <3> QED BY <2>1, <2>2, <3>1, <3>2, <3>3, InvitationWriteKeeps
  <2> QED BY <2>1, <2>3, <2>4
<1>2. ASSUME Members!DeleteInvitation(req)
      PROVE  MembersIInv'
  <2>1. /\ req.op = "withdraw" /\ Members!End(req)
        /\ inv' = [inv EXCEPT ![req.inv] = Members!NoInvitation]
        /\ UNCHANGED <<org, client, roles, kc, token, refs, writes, granted, faults>>
    BY <1>2 DEF Members!DeleteInvitation
  <2>2. req.inv \in OrgInvitation
    BY <1>0, <2>1, MembersRequest
  <2>3. /\ inv' \in [OrgInvitation -> Members!InvitationRow \cup {Members!NoInvitation}]
        /\ \A j \in OrgInvitation : j # req.inv => inv'[j] = inv[j]
        /\ inv'[req.inv].status = "none"
    BY <1>0, <2>1, <2>2 DEF Members!TypeOK, Members!NoInvitation
  <2> QED BY <2>1, <2>3, InvitationWriteKeeps
<1>3. ASSUME Members!RejectInvitation(req)
      PROVE  MembersIInv'
  <2>1. /\ req.op = "rejected" /\ Members!End(req)
        /\ Members!SetStatus(req.inv, "rejected")
        /\ UNCHANGED <<org, client, roles, kc, token, refs, writes, granted, faults>>
    BY <1>3 DEF Members!RejectInvitation
  <2>2. req.inv \in OrgInvitation
    BY <1>0, <2>1, MembersRequest
  <2> QED BY <2>1, <2>2, StatusSet, InvitationWriteKeeps
<1> QED BY <1>1, <1>2, <1>3

(* createUserClientRole() in Keycloak, or nothing. *)
LEMMA ClientRoleCreated ==
  ASSUME kc \in Holding, NEW u \in User, NEW o \in MemberOrg, NEW R \in SUBSET Role, R \subseteq granted[u][o],
         kc' = kc \/ kc' = Members!CreateUserClientRole(kc, u, o, R)
  PROVE  /\ kc' \in Holding
         /\ \A v \in User, p \in MemberOrg : kc'[v][p] \subseteq kc[v][p] \cup granted[v][p]
<1>1. CASE kc' = kc
  BY <1>1
<1>2. CASE kc' = [kc EXCEPT ![u][o] = @ \cup R]
  <2>1. /\ kc' \in Holding
        /\ kc'[u][o] = kc[u][o] \cup R
        /\ \A v \in User, p \in MemberOrg : v # u \/ p # o => kc'[v][p] = kc[v][p]
    BY <1>2 DEF Holding
  <2> QED BY <2>1
<1> QED BY <1>1, <1>2 DEF Members!CreateUserClientRole

(* updateUserOrgRole(): what it starts was granted. *)
LEMMA WritesStarted ==
  ASSUME NEW u \in User, NEW o \in MemberOrg, NEW R \in SUBSET Role, R \subseteq granted[u][o],
         writes' = Members!UpdateUserOrgRole(u, o, R)
  PROVE  \A w \in writes' : w \in writes \/ (w \in User \X MemberOrg \X Role /\ w[3] \in granted[w[1]][w[2]])
BY DEF Members!UpdateUserOrgRole

(* updateOrgInvitation() with an acceptance. *)
LEMMA AcceptanceKeeps ==
  ASSUME MembersIInv, NEW req \in pend
  PROVE  /\ Members!UpdateClientInvitation(req) => MembersIInv'
         /\ Members!AcceptWithoutClient(req) => MembersIInv'
<1> USE DEF MembersIInv
<1>0. /\ roles \in Holding /\ kc \in Holding /\ token \in Holding /\ granted \in Holding
      /\ req \in Members!Request /\ RequestBacked(req)
  BY DEF Members!TypeOK, Holding, RolesBacked
<1>i. \A i \in OrgInvitation : inv[i].status # "none" => inv[i].org \in MemberOrg
  BY InvitationTyped
<1>1. ASSUME req.op = "accepted", Members!End(req), Members!SetStatus(req.inv, "accepted")
      PROVE  /\ req.user \in User /\ req.row.org \in MemberOrg /\ req.row.roles \in SUBSET Role
             /\ req.row.roles \subseteq granted[req.user][req.row.org]
             /\ inv' \in [OrgInvitation -> Members!InvitationRow \cup {Members!NoInvitation}]
             /\ \A j \in OrgInvitation : inv'[j].status # "none" =>
                  /\ inv[j].status # "none"
                  /\ inv'[j].roles = inv[j].roles /\ inv'[j].email = inv[j].email /\ inv'[j].org = inv[j].org
  <2>1. req.inv \in OrgInvitation /\ req.user \in User /\ req.row \in Members!InvitationRow
    BY <1>0, <1>1, MembersRequest
  <2>2. req.row.org \in MemberOrg /\ req.row.roles \in SUBSET Role
    BY <2>1 DEF Members!InvitationRow
  <2> QED BY <1>0, <1>1, <2>1, <2>2, StatusSet DEF RequestBacked
<1>2. ASSUME Members!UpdateClientInvitation(req)
      PROVE  MembersIInv'
  <2> DEFINE o == req.row.org
             R == req.row.roles
             u == req.user
  <2>1. /\ req.op = "accepted" /\ Members!End(req) /\ Members!SetStatus(req.inv, "accepted")
        /\ kc' = kc \/ kc' = Members!CreateUserClientRole(kc, u, o, R)
        /\ faults' \in 0..Faults
        /\ writes' = Members!UpdateUserOrgRole(u, o, R)
        /\ UNCHANGED <<org, client, roles, token, refs, granted>>
    BY <1>2, MembersCounters DEF Members!UpdateClientInvitation, Members!NoFault
  <2>2. u \in User /\ o \in MemberOrg /\ R \in SUBSET Role /\ R \subseteq granted[u][o]
    BY <1>1, <2>1
  <2>3. /\ kc' \in Holding
        /\ \A v \in User, p \in MemberOrg : kc'[v][p] \subseteq kc[v][p] \cup granted[v][p]
    BY <1>0, <2>1, <2>2, ClientRoleCreated
  <2>4. \A w \in writes' : w \in writes \/ (w \in User \X MemberOrg \X Role /\ w[3] \in granted[w[1]][w[2]])
    BY <2>1, <2>2, WritesStarted
  <2>5. Members!TypeOK'
    BY <1>0, <1>1, <2>1, <2>3, <2>4 DEF Members!TypeOK, Members!End, Holding
  <2>6. RolesBacked'
    BY <1>0, <1>1, <2>1, <2>3, <2>4, StaysBacked DEF Members!End
  <2>7. GoneIsEmpty'
    BY <1>1, <2>1 DEF GoneIsEmpty
  <2> QED BY <2>5, <2>6, <2>7
<1>3. ASSUME Members!AcceptWithoutClient(req)
      PROVE  MembersIInv'
  <2> DEFINE o == req.row.org
             u == req.user
  <2>1. /\ req.op = "accepted" /\ Members!End(req) /\ Members!SetStatus(req.inv, "accepted")
        /\ UNCHANGED <<org, client, kc, token, refs, writes, granted>>
    BY <1>3 DEF Members!AcceptWithoutClient
  <2>2. PICK R \in SUBSET req.row.roles :
          /\ ~Members!Exists(o) => R = {}
          /\ roles' = [roles EXCEPT ![u][o] = @ \cup R]
          /\ faults' \in 0..Faults
    BY <1>3, MembersCounters DEF Members!AcceptWithoutClient, Members!FaultIf, Members!NoFault
  <2>3. u \in User /\ o \in MemberOrg /\ R \in SUBSET Role /\ R \subseteq granted[u][o]
    BY <1>1, <2>1
  <2>4. /\ roles' \in Holding
        /\ roles'[u][o] = roles[u][o] \cup R
        /\ \A v \in User, p \in MemberOrg : v # u \/ p # o => roles'[v][p] = roles[v][p]
    BY <1>0, <2>2, <2>3 DEF Holding
  <2>5. \A v \in User, p \in MemberOrg : roles'[v][p] \subseteq roles[v][p] \cup granted[v][p]
    BY <2>3, <2>4
  <2>6. Members!TypeOK'
    BY <1>0, <1>1, <2>1, <2>2, <2>4 DEF Members!TypeOK, Members!End, Holding
  <2>7. RolesBacked'
    BY <1>0, <1>1, <2>1, <2>5, StaysBacked DEF Members!End
  <2>8. org[o] = "gone" => R = {}
    BY <2>2 DEF Members!Exists
  <2>9. GoneIsEmpty'
    BY <1>1, <2>1, <2>3, <2>4, <2>8 DEF GoneIsEmpty
  <2> QED BY <2>6, <2>7, <2>9
<1> QED BY <1>2, <1>3

(* updateUserRoles(), and an insert of updateUserOrgRole() that arrives. *)
LEMMA AssignmentKeeps ==
  ASSUME MembersIInv
  PROVE  /\ \A u \in User, v \in User, o \in MemberOrg, R \in SUBSET Role \ {{}} :
              Members!UpdateUserRoles(u, v, o, R) => MembersIInv'
         /\ \A req \in pend : Members!UpdateUserClientRoles(req) => MembersIInv'
         /\ \A w \in writes : Members!CreateUserOrgRole(w) => MembersIInv'
<1> USE DEF MembersIInv
<1>0. roles \in Holding /\ kc \in Holding /\ token \in Holding /\ granted \in Holding
  BY DEF Members!TypeOK, Holding
<1>1. ASSUME NEW u \in User, NEW v \in User, NEW o \in MemberOrg, NEW R \in SUBSET Role \ {{}},
             Members!UpdateUserRoles(u, v, o, R)
      PROVE  MembersIInv'
  <2> DEFINE req == [op |-> "assign", user |-> v, org |-> o, roles |-> R]
  <2>1. /\ roles' = [roles EXCEPT ![v][o] = {}]
        /\ Members!Grant(v, o, R)
        /\ UNCHANGED <<org, client, token, inv, refs>>
    BY <1>1 DEF Members!UpdateUserRoles
  <2>2. /\ granted' \in Holding /\ R \subseteq granted'[v][o]
        /\ \A w \in User, p \in MemberOrg : granted[w][p] \subseteq granted'[w][p]
    BY <1>0, <2>1, GrantGrows
  <2>3. /\ roles' \in Holding
        /\ \A w \in User, p \in MemberOrg : roles'[w][p] \subseteq roles[w][p]
    BY <1>0, <2>1 DEF Holding
  <2>4. GoneIsEmpty'
    BY <2>1, <2>3 DEF GoneIsEmpty
  <2>5. CASE /\ writes' = Members!UpdateUserOrgRole(v, o, R)
             /\ Members!Start
             /\ UNCHANGED <<kc, pend, faults>>
    <3>1. \A w \in writes' : w \in writes \/ (w \in User \X MemberOrg \X Role /\ w[3] \in granted'[w[1]][w[2]])
      BY <2>2, <2>5 DEF Members!UpdateUserOrgRole
    <3>2. Members!TypeOK'
      BY <1>0, <2>1, <2>2, <2>3, <2>5, <3>1, MembersCounters DEF Members!TypeOK, Holding
    <3>3. RolesBacked'
      BY <2>1, <2>2, <2>3, <2>5, <3>1, StaysBacked
    <3> QED BY <2>4, <3>2, <3>3
  <2>6. CASE /\ kc' = Members!DeleteUserClientRoles(kc, {v}, o) \/ kc' = kc
             /\ faults' \in 0..Faults
             /\ Members!Begin(req)
             /\ UNCHANGED writes
    <3>1. /\ kc' \in Holding
          /\ \A w \in User, p \in MemberOrg : kc'[w][p] \subseteq kc[w][p]
      <4>1. CASE kc' = kc
        BY <1>0, <4>1
      <4>2. CASE kc' = Members!DeleteUserClientRoles(kc, {v}, o)
        <5>1. /\ kc' \in Holding /\ kc'[v][o] = {}
              /\ \A w \in User, p \in MemberOrg : w \notin {v} \/ p # o => kc'[w][p] = kc[w][p]
          BY <1>0, <4>2, RolesDeleted
        <5> QED BY <5>1
      <4> QED BY <2>6, <4>1, <4>2
    <3>2. req \in Members!Request /\ RequestBacked(req)'
      BY <2>2 DEF Members!Request, RequestBacked
    <3> HIDE DEF req
    <3>3. Members!TypeOK'
      BY <1>0, <2>1, <2>2, <2>3, <2>6, <3>1, <3>2, MembersCounters DEF Members!TypeOK, Members!Begin, Holding
    <3>4. RolesBacked'
      BY <2>1, <2>2, <2>3, <2>6, <3>1, <3>2, StaysBacked DEF Members!Begin
    <3> QED BY <2>4, <3>3, <3>4
  <2> QED BY <1>1, <2>5, <2>6, MembersCounters DEF Members!UpdateUserRoles, Members!NoFault
<1>2. ASSUME NEW req \in pend, Members!UpdateUserClientRoles(req)
      PROVE  MembersIInv'
  <2> DEFINE o == req.org
             R == req.roles
             u == req.user
  <2>1. /\ req.op = "assign" /\ Members!End(req)
        /\ kc' = kc \/ kc' = Members!CreateUserClientRole(kc, u, o, R)
        /\ faults' \in 0..Faults
        /\ writes' = Members!UpdateUserOrgRole(u, o, R)
        /\ UNCHANGED <<org, client, roles, token, inv, refs, granted>>
    BY <1>2, MembersCounters DEF Members!UpdateUserClientRoles, Members!NoFault
  <2>2. u \in User /\ o \in MemberOrg /\ R \in SUBSET Role /\ R \subseteq granted[u][o]
    BY <2>1, MembersRequest DEF Members!TypeOK, RolesBacked, RequestBacked
  <2>3. /\ kc' \in Holding
        /\ \A v \in User, p \in MemberOrg : kc'[v][p] \subseteq kc[v][p] \cup granted[v][p]
    BY <1>0, <2>1, <2>2, ClientRoleCreated
  <2>4. \A w \in writes' : w \in writes \/ (w \in User \X MemberOrg \X Role /\ w[3] \in granted[w[1]][w[2]])
    BY <2>1, <2>2, WritesStarted
  <2>5. Members!TypeOK'
    BY <1>0, <2>1, <2>3, <2>4 DEF Members!TypeOK, Members!End, Holding
  <2>6. RolesBacked'
    BY <1>0, <2>1, <2>3, <2>4, StaysBacked DEF Members!End
  <2>7. GoneIsEmpty'
    BY <2>1 DEF GoneIsEmpty
  <2> QED BY <2>5, <2>6, <2>7
<1>3. ASSUME NEW w \in writes, Members!CreateUserOrgRole(w)
      PROVE  MembersIInv'
  <2>1. PICK u \in User, o \in MemberOrg, r \in Role : w = <<u, o, r>>
    BY DEF Members!TypeOK
  <2>2. /\ writes' = writes \ {w}
        /\ roles' = IF Members!Exists(o) THEN [roles EXCEPT ![u][o] = @ \cup {r}] ELSE roles
        /\ UNCHANGED <<org, client, kc, token, inv, refs, pend, granted, started, faults>>
    BY <1>3, <2>1 DEF Members!CreateUserOrgRole
  <2>3. r \in granted[u][o]
    BY <2>1 DEF RolesBacked
  <2>4. /\ roles' \in Holding
        /\ \A v \in User, p \in MemberOrg : roles'[v][p] \subseteq roles[v][p] \cup granted[v][p]
        /\ \A v \in User, p \in MemberOrg : org[p] = "gone" => roles'[v][p] = roles[v][p]
    <3>1. CASE Members!Exists(o)
      <4>1. /\ roles' \in Holding
            /\ roles'[u][o] = roles[u][o] \cup {r}
            /\ \A v \in User, p \in MemberOrg : v # u \/ p # o => roles'[v][p] = roles[v][p]
        BY <1>0, <2>2, <3>1 DEF Holding
      <4>2. org[o] # "gone"
        BY <3>1 DEF Members!Exists
      <4> QED BY <2>3, <4>1, <4>2
    <3>2. CASE ~Members!Exists(o)
      BY <1>0, <2>2, <3>2
    <3> QED BY <3>1, <3>2
  <2>5. Members!TypeOK'
    BY <1>0, <2>2, <2>4 DEF Members!TypeOK, Holding
  <2>6. RolesBacked'
    BY <1>0, <2>2, <2>4, StaysBacked
  <2>7. GoneIsEmpty'
    BY <2>2, <2>4 DEF GoneIsEmpty
  <2> QED BY <2>5, <2>6, <2>7
<1> QED BY <1>1, <1>2, <1>3

(* deleteOrganization(): the Keycloak roles first, then deleteOrg(). *)
LEMMA DeletionKeeps ==
  ASSUME MembersIInv
  PROVE  /\ \A u \in User, o \in MemberOrg : Members!DeleteOrganization(u, o) => MembersIInv'
         /\ \A req \in pend : Members!DeleteOrg(req) => MembersIInv'
<1> USE DEF MembersIInv
<1>0. roles \in Holding /\ kc \in Holding /\ token \in Holding /\ granted \in Holding
  BY DEF Members!TypeOK, Holding
<1>1. ASSUME NEW u \in User, NEW o \in MemberOrg, Members!DeleteOrganization(u, o)
      PROVE  MembersIInv'
  <2> DEFINE req == [op |-> "delete", org |-> o]
  <2>1. /\ Members!Begin(req)
        /\ UNCHANGED <<org, client, roles, token, inv, refs, writes, granted>>
    BY <1>1 DEF Members!DeleteOrganization
  <2>2. PICK S : kc' = Members!DeleteUserClientRoles(kc, S, o)
    BY <1>1 DEF Members!DeleteOrganization
  <2>3. faults' \in 0..Faults
    BY <1>1, MembersCounters DEF Members!DeleteOrganization, Members!FaultIf, Members!NoFault
  <2>4. /\ kc' \in Holding
        /\ \A v \in User, p \in MemberOrg : kc'[v][p] \subseteq kc[v][p]
    <3>1. /\ kc' \in Holding
          /\ \A v \in User : v \in S => kc'[v][o] = {}
          /\ \A v \in User, p \in MemberOrg : v \notin S \/ p # o => kc'[v][p] = kc[v][p]
      BY <1>0, <2>2, RolesDeleted
    <3> QED BY <3>1
  <2>5. req \in Members!Request /\ RequestBacked(req)'
    BY DEF Members!Request, RequestBacked
  <2> HIDE DEF req
  <2>6. Members!TypeOK'
    BY <1>0, <2>1, <2>3, <2>4, <2>5, MembersCounters DEF Members!TypeOK, Members!Begin, Holding
  <2>7. RolesBacked'
    BY <1>0, <2>1, <2>4, <2>5, StaysBacked DEF Members!Begin
  <2>8. GoneIsEmpty'
    BY <2>1 DEF GoneIsEmpty
  <2> QED BY <2>6, <2>7, <2>8
<1>2. ASSUME NEW req \in pend, Members!DeleteOrg(req)
      PROVE  MembersIInv'
  <2> DEFINE o == req.org
  <2>1. o \in MemberOrg
    BY <1>2, MembersRequest DEF Members!DeleteOrg, Members!TypeOK
  <2>2. Members!End(req) /\ UNCHANGED <<client, kc, token, writes, granted, faults>>
    BY <1>2 DEF Members!DeleteOrg
  <2>3. refs' \in [MemberOrg -> SUBSET Members!Reference]
    <3>1. refs' = refs \/ refs' = [refs EXCEPT ![o] = @ \ {"schema"}]
      BY <1>2 DEF Members!DeleteOrg
    <3> QED BY <2>1, <3>1 DEF Members!TypeOK
  <2>4. CASE UNCHANGED <<org, roles, inv>>
    <3>1. Members!TypeOK'
      BY <2>2, <2>3, <2>4 DEF Members!TypeOK, Members!End
    <3>2. RolesBacked'
      BY <1>0, <2>2, <2>4, StaysBacked DEF Members!End
    <3> QED BY <2>4, <3>1, <3>2 DEF GoneIsEmpty
  <2>5. CASE /\ org' = [org EXCEPT ![o] = "gone"]
             /\ roles' = Members!DeleteUserClientRoles(roles, User, o)
             /\ inv' = [i \in OrgInvitation |-> IF i \in Members!Rows(o) THEN Members!NoInvitation ELSE inv[i]]
    <3>1. /\ roles' \in Holding
          /\ \A v \in User : roles'[v][o] = {}
          /\ \A v \in User, p \in MemberOrg : p # o => roles'[v][p] = roles[v][p]
      BY <1>0, <2>1, <2>5, RolesDeleted
    <3>2. \A i \in OrgInvitation : inv'[i].status # "none" => inv'[i] = inv[i] /\ inv[i].org # o
      BY <2>5 DEF Members!Rows, Members!NoInvitation
    <3>3. /\ inv' \in [OrgInvitation -> Members!InvitationRow \cup {Members!NoInvitation}]
          /\ org' \in [MemberOrg -> {"none", "row", "registered", "gone"}]
      BY <2>1, <2>5 DEF Members!TypeOK
    <3>4. \A p \in MemberOrg : p # o => org'[p] = org[p]
      BY <2>5 DEF Members!TypeOK
    <3>5. Members!TypeOK'
      BY <1>0, <2>2, <2>3, <3>1, <3>3 DEF Members!TypeOK, Members!End, Holding
    <3>6. RolesBacked'
      <4>1. \A v \in User, p \in MemberOrg : roles'[v][p] \subseteq roles[v][p]
        BY <3>1
      <4> QED BY <1>0, <2>2, <3>2, <4>1, StaysBacked DEF Members!End
    <3>7. GoneIsEmpty'
      <4>1. \A i \in OrgInvitation : inv'[i].status # "none" => inv[i].org \in MemberOrg
        BY <3>2, InvitationTyped
      <4> QED BY <3>1, <3>2, <3>4, <4>1 DEF GoneIsEmpty
    <3> QED BY <3>5, <3>6, <3>7
  <2> QED BY <1>2, <2>4, <2>5 DEF Members!DeleteOrg
<1> QED BY <1>1, <1>2

(* Every step of the organization service preserves the invariant. *)
LEMMA MembersInductive == MembersIInv /\ [Members!Next]_Members!vars => MembersIInv'
<1> SUFFICES ASSUME MembersIInv, [Members!Next]_Members!vars
             PROVE  MembersIInv'
  OBVIOUS
<1>0. roles \in Holding /\ kc \in Holding /\ token \in Holding /\ granted \in Holding
  BY DEF MembersIInv, Members!TypeOK, Holding
<1>1. ASSUME NEW u \in User, Members!NewToken(u)
      PROVE  MembersIInv'
  <2>1. /\ token' \in Holding
        /\ \A v \in User, p \in MemberOrg : token'[v][p] \subseteq token[v][p] \cup kc[v][p]
    BY <1>0, <1>1 DEF Members!NewToken, Holding
  <2>2. Members!TypeOK'
    BY <1>0, <1>1, <2>1 DEF Members!NewToken, MembersIInv, Members!TypeOK, Holding
  <2>3. RolesBacked'
    BY <1>0, <1>1, <2>1, StaysBacked DEF Members!NewToken
  <2> QED BY <1>1, <2>2, <2>3 DEF Members!NewToken, MembersIInv, GoneIsEmpty
<1>2. ASSUME NEW o \in MemberOrg, NEW r \in Members!Reference, Members!Refer(o, r)
      PROVE  MembersIInv'
  <2>1. Members!TypeOK'
    BY <1>0, <1>2 DEF Members!Refer, MembersIInv, Members!TypeOK
  <2>2. RolesBacked'
    BY <1>0, <1>2, StaysBacked DEF Members!Refer
  <2> QED BY <1>2, <2>1, <2>2 DEF Members!Refer, MembersIInv, GoneIsEmpty
<1>3. ASSUME NEW req \in pend, Members!Die(req)
      PROVE  MembersIInv'
  <2>1. Members!TypeOK'
    BY <1>0, <1>3, MembersCounters DEF Members!Die, Members!End, MembersIInv, Members!TypeOK
  <2>2. RolesBacked'
    BY <1>0, <1>3, StaysBacked DEF Members!Die, Members!End
  <2> QED BY <1>3, <2>1, <2>2 DEF Members!Die, MembersIInv, GoneIsEmpty
<1>4. ASSUME NEW req \in pend, Members!Handler(req)
      PROVE  MembersIInv'
  BY <1>3, <1>4, CreateOrganizationKeeps, InvitationWritesKeep, AcceptanceKeeps, AssignmentKeeps, DeletionKeeps
     DEF Members!Handler
<1>5. CASE UNCHANGED Members!vars
  <2>1. Members!TypeOK'
    BY <1>5 DEF Members!vars, MembersIInv, Members!TypeOK
  <2>2. RolesBacked'
    BY <1>0, <1>5, StaysBacked DEF Members!vars
  <2> QED BY <1>5, <2>1, <2>2 DEF Members!vars, MembersIInv, GoneIsEmpty
<1> QED BY <1>1, <1>2, <1>4, <1>5, CreateOrganizationKeeps, CredentialsKeep, InvitationChecksKeep,
           AssignmentKeeps, DeletionKeeps
        DEF Members!Next

LEMMA MembersInitial == Members!Init => MembersIInv
<1> SUFFICES ASSUME Members!Init
             PROVE  MembersIInv
  OBVIOUS
<1> USE DEF Members!Init, Members!Nobody
<1>1. Members!TypeOK
  BY MembersConstants DEF Members!TypeOK
<1>2. RolesBacked
  BY DEF RolesBacked, Members!NoInvitation
<1>3. GoneIsEmpty
  BY DEF GoneIsEmpty, Members!NoInvitation
<1> QED BY <1>1, <1>2, <1>3 DEF MembersIInv

(* The invariant is what MembershipInv states. *)
LEMMA MembersSafe ==
  MembersIInv => Members!TypeOK /\ Members!RolesWereGranted /\ Members!NothingOutlivesOrg
<1> SUFFICES ASSUME MembersIInv
             PROVE  Members!RolesWereGranted /\ Members!NothingOutlivesOrg
  BY DEF MembersIInv
<1>1. Members!RolesWereGranted
  BY DEF MembersIInv, RolesBacked, Members!RolesWereGranted
<1>2. Members!NothingOutlivesOrg
  BY DEF MembersIInv, GoneIsEmpty, Members!NothingOutlivesOrg, Members!OrganizationUsers, Members!Rows
<1> QED BY <1>1, <1>2

-----------------------------------------------------------------------------
(* organization: whatever invitations, assignments, tokens and deletions   *)
(* overlap, nobody holds a role that was not granted and nothing outlives  *)
(* its organization (updateOrgInvitation, updateUserOrgRole, deleteOrg).   *)
THEOREM MembershipSafe == Spec => []MembershipInv
<1> DEFINE I == part = "members" => MembersIInv
<1>1. Init => I
  BY MembersInitial, SalesApart DEF Init, OtherParts
<1>2. I /\ [Next]_vars => I'
  <2> SUFFICES ASSUME I, [Next]_vars, part' = "members"
               PROVE  MembersIInv'
    OBVIOUS
  <2>1. part = "members" /\ [Members!Next]_Members!vars
    BY SalesApart DEF Next, vars, OtherParts, memberVars, Members!vars
  <2> QED BY <2>1, MembersInductive
<1>3. I => MembershipInv
  BY MembersSafe DEF MembershipInv
<1> QED BY <1>1, <1>2, <1>3, PTL DEF Spec


-----------------------------------------------------------------------------
(* api-gateway and user: sessions.                                         *)

LoginOp == {"fetch", "token", "addAccount", "session"}

(* The requests under way: a login, the cleanup it does not wait for, a    *)
(* refresh of tokens, the check of a request of the gateway.               *)
SessionRequest ==
  [op : LoginOp, sid : Sessions!Sid, user : User, client : BOOLEAN]
    \cup [op : {"cleanup"}, sid : Sessions!Sid, user : User]
    \cup [op : {"exchange", "getSession", "update"}, sid : Sessions!Sid, user : User]
    \cup [op : {"checkSession", "findUser", "findOwner"}, sid : Sessions!Sid, revoked : BOOLEAN]

(* A sid comes from Keycloak with the login it belongs to: until that      *)
(* login writes its row, no row and no deleted row has it.                 *)
LoginsFresh ==
  /\ \A s \in Sessions!Sid : session[s] # Sessions!None \/ s \in gone => s <= started
  /\ \A r \in pend : r.op \in LoginOp => r.sid <= started /\ r.sid \notin gone /\ session[r.sid] = Sessions!None
  /\ \A r, q \in pend : r.op \in LoginOp /\ q.op \in LoginOp /\ r.sid = q.sid => r = q

(* A check under way that was revoked when it started has a deleted sid,   *)
(* and none of those gets past the check.                                  *)
ChecksHonest ==
  \A r \in pend : /\ r.op = "checkSession" /\ r.revoked => r.sid \in gone
                  /\ r.op = "findUser" => ~r.revoked

SessionsIInv ==
  /\ Sessions!TypeOK /\ pend \subseteq SessionRequest
  /\ LoginsFresh /\ ChecksHonest /\ Sessions!DeletedStaysDeleted

LEMMA SessionsConstants == SessionsLimit \in Nat /\ Requests.sessions \in Nat /\ Faults \in Nat
BY TenancyAssumption DEF TenancyAssumption, Sessions!SessionsAssumption

(* The fields of the kinds of requests. *)
LEMMA SessionRequestFields ==
  ASSUME NEW r \in SessionRequest
  PROVE  /\ r.sid \in Sessions!Sid
         /\ r.op \in LoginOp => r \in [op : LoginOp, sid : Sessions!Sid, user : User, client : BOOLEAN]
         /\ r.op = "cleanup" => r.user \in User
         /\ r.op \in {"exchange", "getSession", "update"} =>
              r \in [op : {"exchange", "getSession", "update"}, sid : Sessions!Sid, user : User]
         /\ r.op \in {"checkSession", "findUser", "findOwner"} =>
              r \in [op : {"checkSession", "findUser", "findOwner"}, sid : Sessions!Sid, revoked : BOOLEAN]
BY DEF SessionRequest, LoginOp

(* A handler that only ends its request, or takes it to its next step. *)
LEMMA SessionsEnd ==
  ASSUME SessionsIInv, NEW req \in pend, Sessions!End(req), UNCHANGED <<session, gone>>
  PROVE  /\ pend' \subseteq SessionRequest /\ LoginsFresh' /\ ChecksHonest' /\ Sessions!DeletedStaysDeleted'
BY DEF SessionsIInv, Sessions!End, LoginsFresh, ChecksHonest, Sessions!DeletedStaysDeleted

LEMMA SessionsGo ==
  ASSUME SessionsIInv, NEW req \in pend, NEW next, Sessions!Go(req, next), UNCHANGED <<session, gone>>,
         \/ req.op \in LoginOp /\ next \in LoginOp
         \/ req.op \in {"exchange", "getSession"} /\ next \in {"getSession", "update"}
         \/ req.op = "checkSession" /\ next = "findUser" /\ ~req.revoked
  PROVE  /\ pend' \subseteq SessionRequest /\ LoginsFresh' /\ ChecksHonest' /\ Sessions!DeletedStaysDeleted'
<1>1. req \in SessionRequest
  BY DEF SessionsIInv
<1> DEFINE r == [req EXCEPT !.op = next]
<1>2. /\ r \in SessionRequest /\ r.op = next /\ r.sid = req.sid
      /\ next \in {"checkSession", "findUser"} => r.revoked = req.revoked
  <2>1. CASE req.op \in LoginOp /\ next \in LoginOp
    BY <1>1, <2>1, SessionRequestFields DEF SessionRequest, LoginOp
  <2>2. CASE req.op \in {"exchange", "getSession"} /\ next \in {"getSession", "update"}
    BY <1>1, <2>2, SessionRequestFields DEF SessionRequest
  <2>3. CASE req.op = "checkSession" /\ next = "findUser"
    BY <1>1, <2>3, SessionRequestFields DEF SessionRequest
  <2> QED BY <2>1, <2>2, <2>3
<1>3. pend' = (pend \ {req}) \cup {r} /\ UNCHANGED started
  BY DEF Sessions!Go
<1> HIDE DEF r
<1>4. pend' \subseteq SessionRequest
  BY <1>2, <1>3 DEF SessionsIInv
<1>5. r.op \in LoginOp => req.op \in LoginOp
  BY <1>2 DEF LoginOp
<1>6. LoginsFresh'
  <2>1. \A q \in pend' : q.op \in LoginOp =>
          q.sid <= started /\ q.sid \notin gone /\ session[q.sid] = Sessions!None
    BY <1>2, <1>3, <1>5 DEF SessionsIInv, LoginsFresh
  <2>2. \A p, q \in pend' : p.op \in LoginOp /\ q.op \in LoginOp /\ p.sid = q.sid => p = q
    BY <1>2, <1>3, <1>5 DEF SessionsIInv, LoginsFresh
  <2> QED BY <1>3, <2>1, <2>2 DEF SessionsIInv, LoginsFresh
<1>7. ChecksHonest'
  <2>1. /\ r.op = "checkSession" /\ r.revoked => r.sid \in gone
        /\ r.op = "findUser" => ~r.revoked
    BY <1>2 DEF LoginOp
  <2> QED BY <1>3, <2>1 DEF SessionsIInv, ChecksHonest
<1> QED BY <1>4, <1>6, <1>7 DEF SessionsIInv, Sessions!DeletedStaysDeleted

(* Deleting rows of session. *)
LEMMA SessionsRemove ==
  ASSUME SessionsIInv, NEW S \in SUBSET Sessions!Sid, Sessions!Remove(S),
         accounts' \subseteq accounts, \A s \in Sessions!Sid \ S : session[s] # Sessions!None => session[s].user \in accounts',
         pend' \subseteq pend, started <= started', started' \in 0..Requests.sessions,
         users' \subseteq users, accounts' \subseteq users', UNCHANGED <<renewed, clients, faults>>
  PROVE  SessionsIInv'
<1> USE DEF SessionsIInv
<1>1. /\ session' \in [Sessions!Sid -> [user : User, expired : BOOLEAN, refreshable : BOOLEAN] \cup {Sessions!None}]
      /\ \A s \in Sessions!Sid : session'[s] = IF s \in S THEN Sessions!None ELSE session[s]
  BY DEF Sessions!Remove, Sessions!TypeOK
<1>2. Sessions!TypeOK'
  BY <1>1 DEF Sessions!Remove, Sessions!TypeOK
<1>3. gone' = gone \cup {s \in S : session[s] # Sessions!None}
  BY DEF Sessions!Remove
<1>4. started \in Nat /\ started' \in Nat /\ \A s \in Sessions!Sid : s \in Nat
  BY SessionsConstants DEF Sessions!TypeOK, Sessions!Sid
<1>5. LoginsFresh'
  <2>1. \A s \in Sessions!Sid : session'[s] # Sessions!None \/ s \in gone' => s <= started'
    BY <1>1, <1>3, <1>4 DEF LoginsFresh
  <2>2. \A r \in pend' : r.op \in LoginOp =>
           r.sid <= started' /\ r.sid \notin gone' /\ session'[r.sid] = Sessions!None
    <3> SUFFICES ASSUME NEW r \in pend, r.op \in LoginOp
                 PROVE  r.sid <= started' /\ r.sid \notin gone' /\ session'[r.sid] = Sessions!None
      OBVIOUS
    <3>1. r.sid \in Sessions!Sid
      BY SessionRequestFields
    <3> QED BY <1>1, <1>3, <1>4, <3>1 DEF LoginsFresh
  <2>3. \A r, q \in pend' : r.op \in LoginOp /\ q.op \in LoginOp /\ r.sid = q.sid => r = q
    BY DEF LoginsFresh
  <2> QED BY <2>1, <2>2, <2>3 DEF LoginsFresh
<1>6. ChecksHonest'
  BY <1>3 DEF ChecksHonest
<1>7. Sessions!DeletedStaysDeleted'
  BY <1>1, <1>3 DEF Sessions!DeletedStaysDeleted, Sessions!TypeOK
<1> QED BY <1>2, <1>5, <1>6, <1>7

(* Every handler of a request under way preserves the invariant. *)
LEMMA SessionsHandlerKeeps ==
  ASSUME SessionsIInv, NEW req \in pend, Sessions!Handler(req)
  PROVE  SessionsIInv'
<1>0. req \in SessionRequest /\ req.sid \in Sessions!Sid
  BY SessionRequestFields DEF SessionsIInv
<1>t. Sessions!TypeOK
  BY DEF SessionsIInv
<1>1. CASE Sessions!DeleteInactiveSessions(req)
  <2>1. PICK S \in SUBSET Sessions!Sid : Sessions!Remove(S)
    BY <1>1 DEF Sessions!DeleteInactiveSessions, Sessions!Of
  <2> QED BY <1>1, <1>t, <2>1, SessionsRemove, SessionsConstants
          DEF Sessions!DeleteInactiveSessions, Sessions!End, Sessions!TypeOK
<1>2. ASSUME UNCHANGED <<users, session, renewed, gone, clients>>, accounts' \in {accounts, accounts \cup {req.user}},
             accounts' \subseteq users, started' = started, faults' \in 0..Faults
      PROVE  Sessions!TypeOK'
  BY <1>2, <1>t DEF Sessions!TypeOK
<1>3. CASE Sessions!FetchUserSessions(req)
  <2>1. Sessions!TypeOK'
    BY <1>2, <1>3, <1>t DEF Sessions!FetchUserSessions, Sessions!End, Sessions!Go, Sessions!TypeOK
  <2>2. CASE Sessions!End(req)
    BY <1>3, <2>1, <2>2, SessionsEnd DEF Sessions!FetchUserSessions, SessionsIInv
  <2>3. CASE Sessions!Go(req, "token")
    <3>1. req.op \in LoginOp /\ "token" \in LoginOp
      BY <1>3 DEF Sessions!FetchUserSessions, LoginOp
    <3> QED BY <1>3, <2>1, <2>3, <3>1, SessionsGo DEF Sessions!FetchUserSessions, SessionsIInv
  <2> QED BY <1>3, <2>2, <2>3 DEF Sessions!FetchUserSessions
<1>4. CASE Sessions!GenerateToken(req)
  <2>1. Sessions!TypeOK'
    BY <1>2, <1>4, <1>t DEF Sessions!GenerateToken, Sessions!Go, Sessions!TypeOK
  <2>2. PICK next \in {"session", "addAccount"} : Sessions!Go(req, next)
    BY <1>4 DEF Sessions!GenerateToken
  <2>3. req.op \in LoginOp /\ next \in LoginOp
    BY <1>4, <2>2 DEF Sessions!GenerateToken, LoginOp
  <2> QED BY <1>4, <2>1, <2>2, <2>3, SessionsGo DEF Sessions!GenerateToken, SessionsIInv
<1>5. CASE Sessions!AddAccountDetails(req)
  <2>1. Sessions!TypeOK'
    BY <1>2, <1>5, <1>t DEF Sessions!AddAccountDetails, Sessions!End, Sessions!Go, Sessions!TypeOK
  <2>2. CASE Sessions!End(req)
    BY <1>5, <2>1, <2>2, SessionsEnd DEF Sessions!AddAccountDetails, SessionsIInv
  <2>3. CASE Sessions!Go(req, "session")
    <3>1. req.op \in LoginOp /\ "session" \in LoginOp
      BY <1>5 DEF Sessions!AddAccountDetails, LoginOp
    <3> QED BY <1>5, <2>1, <2>3, <3>1, SessionsGo DEF Sessions!AddAccountDetails, SessionsIInv
  <2> QED BY <1>5, <2>2, <2>3 DEF Sessions!AddAccountDetails
<1>6. CASE Sessions!CreateSession(req)
  <2> DEFINE made == [user |-> req.user, expired |-> FALSE, refreshable |-> ~req.client]
  <2>1. /\ req.op \in LoginOp /\ made \in [user : User, expired : BOOLEAN, refreshable : BOOLEAN]
        /\ made.user = req.user
    BY <1>0, <1>6, SessionRequestFields DEF Sessions!CreateSession, LoginOp
  <2>2. Sessions!End(req) /\ UNCHANGED <<users, accounts, renewed, gone, faults>>
    BY <1>6 DEF Sessions!CreateSession
  <2>3. CASE UNCHANGED <<session, clients>>
    <3>1. Sessions!TypeOK'
      BY <1>t, <2>2, <2>3 DEF Sessions!End, Sessions!TypeOK
    <3> QED BY <2>2, <2>3, <3>1, SessionsEnd DEF SessionsIInv
  <2>4. CASE /\ req.user \in accounts /\ session' = [session EXCEPT ![req.sid] = made]
             /\ clients' = IF req.client THEN clients \cup {req.sid} ELSE clients
    <3> HIDE DEF made
    <3>1. /\ session' \in [Sessions!Sid -> [user : User, expired : BOOLEAN, refreshable : BOOLEAN] \cup {Sessions!None}]
          /\ session'[req.sid] = made
          /\ \A s \in Sessions!Sid : s # req.sid => session'[s] = session[s]
      BY <1>0, <1>t, <2>1, <2>4 DEF Sessions!TypeOK
    <3>2. Sessions!TypeOK'
      BY <1>0, <1>t, <2>1, <2>2, <2>4, <3>1 DEF Sessions!End, Sessions!TypeOK
    <3>3. req.sid <= started /\ req.sid \notin gone
      BY <2>1 DEF SessionsIInv, LoginsFresh
    <3>4. \A r \in pend' : r \in pend /\ r.sid \in Sessions!Sid /\ (r.op \in LoginOp => r.sid # req.sid)
      BY <2>1, <2>2, SessionRequestFields DEF Sessions!End, SessionsIInv, LoginsFresh
    <3>5. LoginsFresh'
      BY <2>2, <3>1, <3>3, <3>4 DEF SessionsIInv, LoginsFresh, Sessions!End
    <3>6. Sessions!DeletedStaysDeleted'
      BY <1>t, <2>2, <3>1, <3>3 DEF SessionsIInv, Sessions!DeletedStaysDeleted, Sessions!TypeOK
    <3> QED BY <2>2, <3>2, <3>4, <3>5, <3>6 DEF SessionsIInv, ChecksHonest
  <2> QED BY <1>6, <2>3, <2>4 DEF Sessions!CreateSession
<1>7. CASE Sessions!GetAccessToken(req)
  <2>1. Sessions!TypeOK'
    BY <1>2, <1>7, <1>t DEF Sessions!GetAccessToken, Sessions!End, Sessions!Go, Sessions!TypeOK
  <2>2. CASE Sessions!End(req)
    BY <1>7, <2>1, <2>2, SessionsEnd DEF Sessions!GetAccessToken, SessionsIInv
  <2>3. CASE Sessions!Go(req, "getSession")
    BY <1>7, <2>1, <2>3, SessionsGo DEF Sessions!GetAccessToken, SessionsIInv
  <2> QED BY <1>7, <2>2, <2>3 DEF Sessions!GetAccessToken
<1>8. CASE Sessions!GetSession(req)
  <2>1. Sessions!TypeOK'
    BY <1>2, <1>8, <1>t DEF Sessions!GetSession, Sessions!End, Sessions!Go, Sessions!TypeOK
  <2>2. CASE Sessions!End(req)
    BY <1>8, <2>1, <2>2, SessionsEnd DEF Sessions!GetSession, SessionsIInv
  <2>3. CASE Sessions!Go(req, "update")
    BY <1>8, <2>1, <2>3, SessionsGo DEF Sessions!GetSession, SessionsIInv
  <2> QED BY <1>8, <2>2, <2>3 DEF Sessions!GetSession
<1>9. CASE Sessions!UpdateSessionToken(req)
  <2>1. Sessions!End(req) /\ UNCHANGED <<users, accounts, gone, clients, faults>>
    BY <1>9 DEF Sessions!UpdateSessionToken
  <2>2. CASE UNCHANGED <<session, renewed>>
    <3>1. Sessions!TypeOK'
      BY <1>t, <2>1, <2>2 DEF Sessions!End, Sessions!TypeOK
    <3> QED BY <2>1, <2>2, <3>1, SessionsEnd DEF SessionsIInv
  <2>3. CASE /\ session[req.sid] # Sessions!None
             /\ session' = [session EXCEPT ![req.sid].expired = FALSE] /\ renewed' = renewed \cup {req.sid}
    <3>1. session[req.sid] \in [user : User, expired : BOOLEAN, refreshable : BOOLEAN]
      BY <1>0, <1>t, <2>3 DEF Sessions!TypeOK
    <3>2. /\ session' \in [Sessions!Sid -> [user : User, expired : BOOLEAN, refreshable : BOOLEAN] \cup {Sessions!None}]
          /\ session'[req.sid].user = session[req.sid].user
          /\ \A s \in Sessions!Sid : s # req.sid => session'[s] = session[s]
      BY <1>0, <1>t, <2>3, <3>1 DEF Sessions!TypeOK
    <3>3. Sessions!TypeOK'
      BY <1>0, <1>t, <2>1, <2>3, <3>2 DEF Sessions!End, Sessions!TypeOK
    <3>4. req.sid <= started /\ req.sid \notin gone
      BY <1>0, <2>3 DEF SessionsIInv, LoginsFresh, Sessions!DeletedStaysDeleted
    <3>5. \A r \in pend' : r \in pend /\ r.sid \in Sessions!Sid /\ (r.op \in LoginOp => r.sid # req.sid)
      BY <2>1, <2>3, SessionRequestFields DEF Sessions!End, SessionsIInv, LoginsFresh
    <3>6. LoginsFresh'
      BY <2>1, <3>2, <3>4, <3>5 DEF SessionsIInv, LoginsFresh, Sessions!End
    <3>7. Sessions!DeletedStaysDeleted'
      BY <1>t, <2>1, <3>2, <3>4 DEF SessionsIInv, Sessions!DeletedStaysDeleted, Sessions!TypeOK
    <3> QED BY <2>1, <3>3, <3>5, <3>6, <3>7 DEF SessionsIInv, ChecksHonest
  <2> QED BY <1>9, <2>2, <2>3 DEF Sessions!UpdateSessionToken
<1>10. CASE Sessions!CheckSession(req)
  <2>1. Sessions!TypeOK'
    BY <1>2, <1>10, <1>t DEF Sessions!CheckSession, Sessions!End, Sessions!Go, Sessions!TypeOK
  <2>2. CASE Sessions!End(req)
    BY <1>10, <2>1, <2>2, SessionsEnd DEF Sessions!CheckSession, SessionsIInv
  <2>3. CASE session[req.sid] # Sessions!None /\ Sessions!Go(req, "findUser")
    <3>1. req.op = "checkSession" /\ ~req.revoked
      BY <1>10, <2>3 DEF Sessions!CheckSession, SessionsIInv, ChecksHonest, Sessions!DeletedStaysDeleted
    <3> QED BY <1>10, <2>1, <2>3, <3>1, SessionsGo DEF Sessions!CheckSession, SessionsIInv
  <2> QED BY <1>10, <2>2, <2>3 DEF Sessions!CheckSession
<1>11. CASE Sessions!FindUserInKeycloak(req)
  <2>1. Sessions!TypeOK'
    BY <1>2, <1>11, <1>t DEF Sessions!FindUserInKeycloak, Sessions!End, Sessions!TypeOK
  <2> QED BY <1>11, <2>1, SessionsEnd DEF Sessions!FindUserInKeycloak, SessionsIInv
<1>12. CASE Sessions!Fails(req)
  <2>1. faults' \in 0..Faults
    BY <1>12, <1>t, SessionsConstants DEF Sessions!Fails, Sessions!TypeOK
  <2>2. Sessions!TypeOK'
    BY <1>2, <1>12, <1>t, <2>1 DEF Sessions!Fails, Sessions!End, Sessions!TypeOK
  <2> QED BY <1>12, <2>2, SessionsEnd DEF Sessions!Fails, SessionsIInv
<1>13. CASE Sessions!FindOrganizationOwner(req)
  <2>1. Sessions!TypeOK'
    BY <1>2, <1>13, <1>t DEF Sessions!FindOrganizationOwner, Sessions!End, Sessions!TypeOK
  <2> QED BY <1>13, <2>1, SessionsEnd DEF Sessions!FindOrganizationOwner, SessionsIInv
<1> QED BY <1>1, <1>3, <1>4, <1>5, <1>6, <1>7, <1>8, <1>9, <1>10, <1>11, <1>12, <1>13 DEF Sessions!Handler

(* A new request preserves the invariant. *)
LEMMA SessionsRequestKeeps ==
  ASSUME SessionsIInv, NEW reqs, Sessions!Request(reqs), reqs \subseteq SessionRequest,
         UNCHANGED <<users, accounts, session, renewed, gone, clients, faults>>,
         \A r \in reqs : r.op \in LoginOp => r.sid = started + 1,
         \A r, q \in reqs : r.op \in LoginOp /\ q.op \in LoginOp => r = q,
         \A r \in reqs : (r.op = "checkSession" /\ r.revoked => r.sid \in gone) /\ r.op # "findUser"
  PROVE  SessionsIInv'
<1> USE DEF SessionsIInv
<1>1. /\ started' = started + 1 /\ pend' = pend \cup reqs
      /\ started \in Nat /\ started' \in 0..Requests.sessions
  BY SessionsConstants DEF Sessions!Request, Sessions!TypeOK
<1>2. Sessions!TypeOK'
  BY <1>1 DEF Sessions!TypeOK
<1>3. \A r \in pend' : r \in SessionRequest /\ r.sid \in Sessions!Sid /\ r.sid \in Nat
  BY <1>1, SessionRequestFields, SessionsConstants DEF Sessions!Sid
<1>4. session[started + 1] = Sessions!None /\ started + 1 \notin gone
  <2>1. started + 1 \in Sessions!Sid
    BY <1>1, SessionsConstants DEF Sessions!Sid
  <2> QED BY <1>1, <2>1 DEF LoginsFresh
<1>5. LoginsFresh'
  <2>1. \A s \in Sessions!Sid : session'[s] # Sessions!None \/ s \in gone' => s <= started'
    BY <1>1, SessionsConstants DEF LoginsFresh, Sessions!Sid
  <2>2. \A r \in pend' : r.op \in LoginOp =>
           r.sid <= started' /\ r.sid \notin gone' /\ session'[r.sid] = Sessions!None
    BY <1>1, <1>3, <1>4 DEF LoginsFresh
  <2>3. \A r, q \in pend' : r.op \in LoginOp /\ q.op \in LoginOp /\ r.sid = q.sid => r = q
    BY <1>1, <1>3 DEF LoginsFresh
  <2> QED BY <2>1, <2>2, <2>3 DEF LoginsFresh
<1>6. ChecksHonest'
  BY <1>1 DEF ChecksHonest
<1> QED BY <1>2, <1>3, <1>5, <1>6 DEF Sessions!DeletedStaysDeleted

(* Every step of the sessions preserves the invariant. *)
LEMMA SessionsInductive == SessionsIInv /\ [Sessions!Next]_Sessions!vars => SessionsIInv'
<1> SUFFICES ASSUME SessionsIInv, [Sessions!Next]_Sessions!vars
             PROVE  SessionsIInv'
  OBVIOUS
<1>t. Sessions!TypeOK
  BY DEF SessionsIInv
<1>0. ASSUME Sessions!Request({})
      PROVE  pend' \subseteq pend /\ started <= started' /\ started' \in 0..Requests.sessions
  BY <1>0, <1>t, SessionsConstants DEF Sessions!Request, Sessions!TypeOK
<1>1. ASSUME NEW u \in User, NEW byClient \in BOOLEAN, Sessions!Login(u, byClient)
      PROVE  SessionsIInv'
  <2> DEFINE r == [op |-> "fetch", sid |-> started + 1, user |-> u, client |-> byClient]
             q == [op |-> "cleanup", sid |-> started + 1, user |-> u]
  <2>1. Sessions!Request({r, q}) /\ UNCHANGED <<users, accounts, session, renewed, gone, clients, faults>>
    BY <1>1 DEF Sessions!Login
  <2>2. started + 1 \in Sessions!Sid
    BY <1>t, <2>1, SessionsConstants DEF Sessions!Request, Sessions!Sid, Sessions!TypeOK
  <2>3. r \in SessionRequest /\ r.op = "fetch" /\ r.sid = started + 1
    BY <2>2 DEF SessionRequest, LoginOp
  <2>4. q \in SessionRequest /\ q.op = "cleanup"
    BY <2>2 DEF SessionRequest
  <2> HIDE DEF r, q
  <2> QED BY <2>1, <2>3, <2>4, SessionsRequestKeeps DEF LoginOp
<1>2. ASSUME NEW s \in Sessions!Sid, Sessions!RefreshTokenDetails(s)
      PROVE  SessionsIInv'
  <2>1. PICK u \in User : Sessions!Request({[op |-> "exchange", sid |-> s, user |-> u]})
    BY <1>2, <1>t DEF Sessions!RefreshTokenDetails, Sessions!TypeOK
  <2> DEFINE r == [op |-> "exchange", sid |-> s, user |-> u]
  <2>2. r \in SessionRequest /\ r.op = "exchange"
    BY DEF SessionRequest
  <2>3. Sessions!Request({r}) /\ UNCHANGED <<users, accounts, session, renewed, gone, clients, faults>>
    BY <1>2, <2>1 DEF Sessions!RefreshTokenDetails
  <2> HIDE DEF r
  <2> QED BY <2>2, <2>3, SessionsRequestKeeps DEF LoginOp
<1>3. ASSUME NEW s \in Sessions!Sid, Sessions!Validate(s)
      PROVE  SessionsIInv'
  <2>1. PICK b \in BOOLEAN : b = (s \in gone)
    <3>1. (s \in gone) \in BOOLEAN
      OBVIOUS
    <3> WITNESS (s \in gone) \in BOOLEAN
    <3> QED OBVIOUS
  <2>k. PICK o \in {"findOwner", "checkSession"} : o = IF s \in clients THEN "findOwner" ELSE "checkSession"
    OBVIOUS
  <2> DEFINE r == [op |-> o, sid |-> s, revoked |-> b]
  <2>2. r \in SessionRequest /\ r.op = o /\ r.sid = s /\ r.revoked = b
    BY DEF SessionRequest
  <2>3. Sessions!Request({r}) /\ UNCHANGED <<users, accounts, session, renewed, gone, clients, faults>>
    BY <1>3, <2>1, <2>k DEF Sessions!Validate
  <2> HIDE DEF r
  <2> QED BY <2>1, <2>2, <2>3, SessionsRequestKeeps DEF LoginOp
<1>4. ASSUME NEW s \in Sessions!Sid, Sessions!RefreshWithExpired(s)
      PROVE  SessionsIInv'
  BY <1>0, <1>4, <1>t, SessionsRemove DEF Sessions!RefreshWithExpired, Sessions!TypeOK
<1>5. ASSUME NEW S \in SUBSET Sessions!Sid, Sessions!Logout(S)
      PROVE  SessionsIInv'
  BY <1>0, <1>5, <1>t, SessionsRemove DEF Sessions!Logout, Sessions!TypeOK
<1>6. ASSUME NEW u \in User, Sessions!DeleteUser(u)
      PROVE  SessionsIInv'
  <2>1. PICK S \in SUBSET Sessions!Sid : S = Sessions!Of(u)
    BY DEF Sessions!Of
  <2>2. \A s \in Sessions!Sid \ S : session[s] # Sessions!None => session[s].user \in accounts \ {u}
    BY <1>t, <2>1 DEF Sessions!Of, Sessions!TypeOK
  <2>3. accounts' \subseteq accounts /\ users' \subseteq users /\ accounts' \subseteq users'
    BY <1>6, <1>t DEF Sessions!DeleteUser, Sessions!TypeOK
  <2> QED BY <1>0, <1>6, <2>1, <2>2, <2>3, SessionsRemove DEF Sessions!DeleteUser
<1>7. ASSUME NEW s \in Sessions!Sid, Sessions!Expire(s)
      PROVE  SessionsIInv'
  <2>1. session[s] \in [user : User, expired : BOOLEAN, refreshable : BOOLEAN] /\ session[s] # Sessions!None
    BY <1>7, <1>t DEF Sessions!Expire, Sessions!Live, Sessions!TypeOK
  <2>2. /\ session' \in [Sessions!Sid -> [user : User, expired : BOOLEAN, refreshable : BOOLEAN] \cup {Sessions!None}]
        /\ session'[s].user = session[s].user
        /\ \A t \in Sessions!Sid : t # s => session'[t] = session[t]
    BY <1>7, <1>t, <2>1 DEF Sessions!Expire, Sessions!TypeOK
  <2>3. Sessions!TypeOK'
    BY <1>7, <1>t, <2>1, <2>2 DEF Sessions!Expire, Sessions!TypeOK
  <2>4. \A r \in pend : r.sid \in Sessions!Sid /\ (r.op \in LoginOp => r.sid # s)
    BY <2>1, SessionRequestFields DEF SessionsIInv, LoginsFresh
  <2>5. s <= started /\ s \notin gone
    BY <2>1 DEF SessionsIInv, LoginsFresh, Sessions!DeletedStaysDeleted
  <2>6. LoginsFresh'
    BY <1>7, <2>2, <2>4, <2>5 DEF Sessions!Expire, SessionsIInv, LoginsFresh
  <2>7. Sessions!DeletedStaysDeleted'
    BY <1>7, <1>t, <2>2, <2>5 DEF Sessions!Expire, SessionsIInv, Sessions!DeletedStaysDeleted, Sessions!TypeOK
  <2> QED BY <1>7, <2>3, <2>6, <2>7 DEF Sessions!Expire, SessionsIInv, ChecksHonest
<1>8. CASE UNCHANGED Sessions!vars
  BY <1>8 DEF Sessions!vars, SessionsIInv, Sessions!TypeOK, LoginsFresh, ChecksHonest, Sessions!DeletedStaysDeleted
<1> QED BY <1>1, <1>2, <1>3, <1>4, <1>5, <1>6, <1>7, <1>8, SessionsHandlerKeeps DEF Sessions!Next

LEMMA SessionsInitial == Sessions!Init => SessionsIInv
BY SessionsConstants
   DEF Sessions!Init, SessionsIInv, Sessions!TypeOK, LoginsFresh, ChecksHonest, Sessions!DeletedStaysDeleted

(* The cleanup of a login only ends rows that expired. *)
LEMMA SessionsCleanup ==
  SessionsIInv /\ [Sessions!Next]_Sessions!vars => Sessions!CleanupSparesLive
<1> SUFFICES ASSUME SessionsIInv, [Sessions!Next]_Sessions!vars,
                    NEW req \in pend \ pend', req.op = "cleanup", NEW s \in Sessions!Sid, Sessions!Live(s)
             PROVE  session'[s] # Sessions!None
  BY DEF Sessions!CleanupSparesLive
<1>1. session[s] # Sessions!None /\ ~session[s].expired
  BY DEF Sessions!Live
<1>2. CASE \E r \in pend : Sessions!Handler(r)
  <2>1. PICK r \in pend : Sessions!Handler(r)
    BY <1>2
  <2>2. r = req
    BY <2>1 DEF Sessions!Handler, Sessions!DeleteInactiveSessions, Sessions!FetchUserSessions, Sessions!GenerateToken,
                Sessions!AddAccountDetails, Sessions!CreateSession, Sessions!GetAccessToken, Sessions!GetSession,
                Sessions!UpdateSessionToken, Sessions!CheckSession, Sessions!FindUserInKeycloak,
                Sessions!FindOrganizationOwner, Sessions!Fails, Sessions!End, Sessions!Go
  <2>3. Sessions!DeleteInactiveSessions(req) \/ Sessions!Fails(req)
    BY <2>1, <2>2
       DEF Sessions!Handler, Sessions!FetchUserSessions, Sessions!GenerateToken,
           Sessions!AddAccountDetails, Sessions!CreateSession, Sessions!GetAccessToken, Sessions!GetSession,
           Sessions!UpdateSessionToken, Sessions!CheckSession, Sessions!FindUserInKeycloak,
           Sessions!FindOrganizationOwner
  <2>4. session'[s] = session[s]
    BY <1>1, <2>3 DEF Sessions!DeleteInactiveSessions, Sessions!Remove, Sessions!Fails
  <2> QED BY <1>1, <2>4
<1>3. CASE ~ \E r \in pend : Sessions!Handler(r)
  <2>1. pend \subseteq pend'
    BY <1>3 DEF Sessions!Next, Sessions!vars, Sessions!Request, Sessions!DeleteUser, Sessions!Login, Sessions!Expire,
                Sessions!RefreshTokenDetails, Sessions!RefreshWithExpired, Sessions!Validate, Sessions!Logout
  <2> QED BY <2>1
<1> QED BY <1>2, <1>3

-----------------------------------------------------------------------------
(* user: accounts, with handlers that interleave (o) or not, and at most n *)
(* requests.                                                               *)

AccountName == Mail \cup Username
NoRow == [gen |-> 0]

(* The requests under way: verification mail, verification, sign-up with a *)
(* mail address and with a username, reset of a password, passkey.         *)
AccountRequest(n) ==
  [op : {"mail", "createUser"}, name : Mail, code : 1..n, invited : BOOLEAN]
    \cup [op : {"verifyUser"}, name : AccountName]
    \cup [op : {"info", "keycloakUser", "keycloakPassword", "link", "holder", "account"}, name : Mail, gen : 1..n,
          password : Password, passkey : BOOLEAN, kind : {"signup"}]
    \cup [op : {"keycloakUser", "keycloakPassword", "createRow", "holder", "account"}, name : Username, gen : 1..n,
          password : Password, passkey : BOOLEAN, kind : {"username"}]
    \cup [op : {"keycloakUser", "keycloakPassword", "link", "store", "spend"}, name : AccountName, gen : 1..n,
          password : Password, passkey : {FALSE}, kind : {"reset"}, linked : BOOLEAN, fido : BOOLEAN, token : BOOLEAN]
    \cup [op : {"addUserPassword"}, name : AccountName, password : Password]

(* A sign-up with a username that owns the name in Keycloak. *)
Claims(r) == r.op = "createRow" \/ (r.op = "keycloakPassword" /\ r.kind = "username")

(* Who links a row has set a password in Keycloak; who claimed a username  *)
(* finds no row of it; a sign-up or reset meets the row it read, unless    *)
(* the user was deleted meanwhile.                                         *)
RequestGood(r) ==
  /\ r.op \in {"link", "createRow"} => keycloak[r.name] \in Password
  /\ Claims(r) => keycloak[r.name] # "none" /\ user[r.name] = NoRow
  /\ r.op \in {"info", "keycloakUser", "keycloakPassword", "link"} /\ r.kind # "username" /\ r.name \notin deleted =>
       user[r.name] # NoRow /\ user[r.name].gen = r.gen
  /\ r.op \in {"keycloakUser", "keycloakPassword"} /\ r.kind = "reset" /\ r.linked /\ r.name \notin deleted =>
       user[r.name].linked

(* The Keycloak account of a name has its row, or a request that will link *)
(* or create it.                                                           *)
Bound(m) ==
  \/ user[m] # NoRow /\ user[m].linked
  \/ \E r \in pend : r.name = m /\ r.op \in {"keycloakPassword", "link", "createRow"}

AccountsIInv(o, n) ==
  /\ Accounts(o, n)!TypeOK
  /\ pend \subseteq AccountRequest(n)
  /\ \A r \in pend : RequestGood(r)
  /\ \A r, q \in pend : Claims(r) /\ Claims(q) /\ r.name = q.name => r = q
  /\ \A m \in AccountName : user[m] # NoRow /\ user[m].linked => keycloak[m] \in Password
  /\ \A m \in Username : user[m] # NoRow => keycloak[m] # "none"
  /\ faults = 0 => \A m \in AccountName \ deleted : keycloak[m] # "none" => Bound(m)

LEMMA AccountsConstants ==
  /\ Password \cap {"none", "nopassword"} = {} /\ Mail \cap Username = {} /\ Faults \in Nat
  /\ Requests.accounts \in Nat /\ Requests.accountsInTurn \in Nat
BY TenancyAssumption DEF TenancyAssumption, Accounts!AccountAssumption, Accounts!None, Accounts!NoPassword

(* The fields of the kinds of requests. *)
LEMMA AccountRequestFields ==
  ASSUME NEW n \in Nat, NEW r \in AccountRequest(n)
  PROVE  /\ r.name \in AccountName
         /\ r.op \in {"mail", "createUser"} =>
              r \in [op : {"mail", "createUser"}, name : Mail, code : 1..n, invited : BOOLEAN]
         /\ r.op \in {"info", "keycloakUser", "keycloakPassword", "link", "createRow", "holder", "account", "store",
                      "spend"} =>
              /\ r.gen \in 1..n /\ r.password \in Password /\ r.passkey \in BOOLEAN
              /\ r.kind \in {"signup", "username", "reset"}
         /\ r.op = "info" => r.kind = "signup"
         /\ r.op = "link" => r.kind \in {"signup", "reset"}
         /\ r.op = "createRow" => r.kind = "username"
         /\ r.op \in {"holder", "account"} => r.kind \in {"signup", "username"}
         /\ r.op \in {"store", "spend"} => r.kind = "reset"
         /\ r.op = "addUserPassword" => r.password \in Password
BY DEF AccountRequest, AccountName

LEMMA AccountRequestKinds ==
  ASSUME NEW n \in Nat, NEW r \in AccountRequest(n),
         r.op \in {"info", "keycloakUser", "keycloakPassword", "link", "createRow", "holder", "account", "store", "spend"}
  PROVE  /\ r.kind = "signup" =>
              r \in [op : {"info", "keycloakUser", "keycloakPassword", "link", "holder", "account"}, name : Mail,
                     gen : 1..n, password : Password, passkey : BOOLEAN, kind : {"signup"}]
         /\ r.kind = "username" =>
              r \in [op : {"keycloakUser", "keycloakPassword", "createRow", "holder", "account"}, name : Username,
                     gen : 1..n, password : Password, passkey : BOOLEAN, kind : {"username"}]
         /\ r.kind = "reset" =>
              r \in [op : {"keycloakUser", "keycloakPassword", "link", "store", "spend"}, name : AccountName,
                     gen : 1..n, password : Password, passkey : {FALSE}, kind : {"reset"}, linked : BOOLEAN,
                     fido : BOOLEAN, token : BOOLEAN]
BY DEF AccountRequest

(* A request taken to its next step keeps its other fields. *)
LEMMA AccountRequestGoes ==
  ASSUME NEW n \in Nat, NEW r \in AccountRequest(n), NEW next,
         \/ r.op = "mail" /\ next = "createUser"
         \/ /\ r.op \in {"info", "keycloakUser", "keycloakPassword", "link", "createRow", "holder", "store"}
            /\ \/ r.kind = "signup" /\ next \in {"keycloakUser", "keycloakPassword", "link", "holder", "account"}
               \/ r.kind = "username" /\ next \in {"keycloakPassword", "createRow", "holder", "account"}
               \/ r.kind = "reset" /\ next \in {"keycloakPassword", "link", "store", "spend"}
  PROVE  LET q == [r EXCEPT !.op = next]
         IN  /\ q \in AccountRequest(n) /\ q.op = next /\ q.name = r.name
             /\ r.op # "mail" => q.gen = r.gen /\ q.kind = r.kind
             /\ r.op # "mail" /\ r.kind = "reset" => q.linked = r.linked /\ q.fido = r.fido /\ q.password = r.password
<1>1. CASE r.op = "mail" /\ next = "createUser"
  BY <1>1, AccountRequestFields DEF AccountRequest
<1>2. CASE r.op # "mail" /\ r.kind = "signup"
  BY <1>2, AccountRequestKinds DEF AccountRequest
<1>3. CASE r.op # "mail" /\ r.kind = "username"
  BY <1>3, AccountRequestKinds DEF AccountRequest
<1>4. CASE r.op # "mail" /\ r.kind = "reset"
  BY <1>4, AccountRequestKinds DEF AccountRequest
<1> QED BY <1>1, <1>2, <1>3, <1>4

(* What a step must do to preserve the invariant. *)
LEMMA AccountsStep ==
  ASSUME NEW o \in BOOLEAN, NEW n \in Nat, AccountsIInv(o, n), Accounts(o, n)!TypeOK',
         \A m \in AccountName : /\ keycloak[m] \in Password => keycloak'[m] \in Password
                                /\ keycloak[m] # "none" => keycloak'[m] # "none",
         deleted \subseteq deleted', faults' = 0 => faults = 0,
         \A m \in AccountName :
           \/ user'[m] = user[m]
           \/ /\ user[m] # NoRow /\ user'[m] # NoRow /\ user'[m].gen = user[m].gen
              /\ user[m].linked => user'[m].linked
              /\ user'[m].linked => user[m].linked \/ keycloak'[m] \in Password
           \/ user'[m] = NoRow /\ m \in deleted'
           \/ /\ user[m] = NoRow /\ \A r \in pend' : Claims(r) => r.name # m
              /\ user'[m].linked => keycloak'[m] \in Password
              /\ m \in Username => keycloak'[m] # "none",
         \A r \in pend' : r \in pend \/ (r \in AccountRequest(n) /\ RequestGood(r)'),
         \A r, q \in pend' : Claims(r) /\ Claims(q) /\ r.name = q.name /\ r # q => r \in pend /\ q \in pend,
         \A r \in pend \ pend' : faults' = 0 /\ r.op \in {"keycloakPassword", "link", "createRow"}
                                   /\ r.name \notin deleted' => Bound(r.name)',
         \A m \in AccountName \ deleted' : faults' = 0 /\ keycloak'[m] # "none" => keycloak[m] # "none" \/ Bound(m)'
  PROVE  AccountsIInv(o, n)'
<1> USE DEF AccountsIInv
<1>1. pend' \subseteq AccountRequest(n)
  OBVIOUS
<1>2. \A r \in pend' : RequestGood(r)'
  <2> SUFFICES ASSUME NEW r \in pend', r \in pend
               PROVE  RequestGood(r)'
    OBVIOUS
  <2>1. r.name \in AccountName /\ RequestGood(r)
    BY AccountRequestFields
  <2>2. r.op \in {"link", "createRow"} => keycloak'[r.name] \in Password
    BY <2>1 DEF RequestGood
  <2>3. Claims(r) => keycloak'[r.name] # "none" /\ user'[r.name] = NoRow
    BY <2>1 DEF RequestGood
  <2>4. r.op \in {"info", "keycloakUser", "keycloakPassword", "link"} /\ r.kind # "username" /\ r.name \notin deleted' =>
          user'[r.name] # NoRow /\ user'[r.name].gen = r.gen
    BY <2>1 DEF RequestGood
  <2>5. r.op \in {"keycloakUser", "keycloakPassword"} /\ r.kind = "reset" /\ r.linked /\ r.name \notin deleted' =>
          user'[r.name].linked
    BY <2>1 DEF RequestGood
  <2> QED BY <2>2, <2>3, <2>4, <2>5 DEF RequestGood, Claims
<1>3. \A r, q \in pend' : Claims(r) /\ Claims(q) /\ r.name = q.name => r = q
  OBVIOUS
<1>4. \A m \in AccountName : user'[m] # NoRow /\ user'[m].linked => keycloak'[m] \in Password
  OBVIOUS
<1>5. \A m \in Username : user'[m] # NoRow => keycloak'[m] # "none"
  BY DEF AccountName
<1>6. faults' = 0 => \A m \in AccountName \ deleted' : keycloak'[m] # "none" => Bound(m)'
  <2> SUFFICES ASSUME faults' = 0, NEW m \in AccountName \ deleted', keycloak'[m] # "none", Bound(m)
               PROVE  Bound(m)'
    OBVIOUS
  <2>1. CASE user[m] # NoRow /\ user[m].linked
    BY <2>1 DEF Bound
  <2>2. ASSUME NEW r \in pend, r.name = m, r.op \in {"keycloakPassword", "link", "createRow"}
        PROVE  Bound(m)'
    BY <2>2 DEF Bound
  <2> QED BY <2>1, <2>2 DEF Bound
<1> QED BY <1>1, <1>2, <1>3, <1>4, <1>5, <1>6 DEF Claims

(* A row that is written: it keeps its id, if it had one. *)
LEMMA RowChanged ==
  ASSUME NEW o \in BOOLEAN, NEW n \in Nat, Accounts(o, n)!TypeOK, NEW m \in AccountName, NEW x \in Accounts(o, n)!Row,
         Accounts(o, n)!Change(m, x), user[m] # NoRow => x.gen = user[m].gen,
         tokens' \subseteq tokens
  PROVE  /\ user' \in [AccountName -> Accounts(o, n)!Row \cup {NoRow}]
         /\ user'[m] = x /\ x # NoRow /\ \A k \in AccountName : k # m => user'[k] = user[k]
         /\ \A t \in tokens' : t[1] \in Accounts(o, n)!Rows' /\ user'[t[1]].gen = t[2]
<1>1. x.gen # 0
  BY DEF Accounts!Row
<1>2. x # NoRow
  BY <1>1 DEF NoRow
<1>3. /\ user' \in [AccountName -> Accounts(o, n)!Row \cup {NoRow}]
      /\ user'[m] = x /\ \A k \in AccountName : k # m => user'[k] = user[k]
  BY DEF Accounts!TypeOK, Accounts!Change, Accounts!Name, Accounts!NoUser, AccountName, NoRow
<1>4. \A t \in tokens' : t[1] \in AccountName /\ user[t[1]] # NoRow /\ user[t[1]].gen = t[2]
  BY DEF Accounts!TypeOK, Accounts!Rows, Accounts!Name, Accounts!NoUser, AccountName, NoRow
<1>5. \A t \in tokens' : t[1] \in AccountName /\ user'[t[1]] # NoRow /\ user'[t[1]].gen = t[2]
  BY <1>2, <1>3, <1>4
<1> QED BY <1>2, <1>3, <1>5 DEF Accounts!Rows, Accounts!Name, Accounts!NoUser, AccountName, NoRow

(* The rest of the state, when rows are typed. *)
LEMMA AccountsTyped ==
  ASSUME NEW o \in BOOLEAN, NEW n \in Nat, Accounts(o, n)!TypeOK,
         \/ UNCHANGED <<user, tokens>>
         \/ /\ user' \in [AccountName -> Accounts(o, n)!Row \cup {NoRow}]
            /\ \A t \in tokens' : t[1] \in Accounts(o, n)!Rows' /\ user'[t[1]].gen = t[2],
         keycloak' \in [AccountName -> Password \cup {"none", "nopassword"}],
         mailed' \subseteq (Mail \X (1..n)), deleted' \subseteq AccountName,
         started' \in 0..n, faults' \in 0..Faults
  PROVE  Accounts(o, n)!TypeOK'
<1>1. CASE UNCHANGED <<user, tokens>>
  BY <1>1 DEF Accounts!TypeOK, Accounts!Rows, Accounts!Name, Accounts!NoUser, Accounts!None, Accounts!NoPassword,
              AccountName, NoRow
<1>2. CASE /\ user' \in [AccountName -> Accounts(o, n)!Row \cup {NoRow}]
           /\ \A t \in tokens' : t[1] \in Accounts(o, n)!Rows' /\ user'[t[1]].gen = t[2]
  BY <1>2 DEF Accounts!TypeOK, Accounts!Name, Accounts!NoUser, Accounts!None, Accounts!NoPassword,
              AccountName, NoRow
<1> QED BY <1>1, <1>2

LEMMA AccountsUnfolded ==
  ASSUME NEW o \in BOOLEAN, NEW n \in Nat, Accounts(o, n)!TypeOK
  PROVE  /\ user \in [AccountName -> Accounts(o, n)!Row \cup {NoRow}]
         /\ keycloak \in [AccountName -> Password \cup {"none", "nopassword"}]
         /\ mailed \subseteq (Mail \X (1..n)) /\ deleted \subseteq AccountName
         /\ started \in 0..n /\ faults \in 0..Faults /\ started \in Nat /\ faults \in Nat
         /\ Accounts(o, n)!Rows = {m \in AccountName : user[m] # NoRow}
BY AccountsConstants
   DEF Accounts!TypeOK, Accounts!Rows, Accounts!Name, Accounts!NoUser, Accounts!None, Accounts!NoPassword, AccountName, NoRow

(* A handler that writes no more than one row that exists, and ends its    *)
(* request or takes it to a step that promises nothing.                    *)
LEMMA AccountsRowStep ==
  ASSUME NEW o \in BOOLEAN, NEW n \in Nat, AccountsIInv(o, n), NEW req \in pend, NEW m \in AccountName,
         \/ UNCHANGED user
         \/ \E x \in Accounts(o, n)!Row :
              /\ Accounts(o, n)!Change(m, x)
              /\ user[m] # NoRow /\ x.gen = user[m].gen
              /\ x.linked = user[m].linked \/ (x.linked /\ keycloak[m] \in Password),
         tokens' \subseteq tokens, UNCHANGED <<keycloak, mailed, deleted, started>>, faults' \in 0..Faults,
         faults' = 0 => faults = 0,
         \/ pend' = pend \ {req}
         \/ \E q \in AccountRequest(n) : /\ pend' = (pend \ {req}) \cup {q}
                                         /\ RequestGood(q)' /\ ~Claims(q),
         req.op \in {"keycloakPassword", "link", "createRow"} /\ faults' = 0 /\ req.name \notin deleted =>
           user'[req.name] # NoRow /\ user'[req.name].linked
  PROVE  AccountsIInv(o, n)'
<1>t. Accounts(o, n)!TypeOK
  BY DEF AccountsIInv
<1> DEFINE Kept == \A k \in AccountName :
               \/ user'[k] = user[k]
               \/ /\ user[k] # NoRow /\ user'[k] # NoRow /\ user'[k].gen = user[k].gen
                  /\ user[k].linked => user'[k].linked
                  /\ user'[k].linked => user[k].linked \/ keycloak'[k] \in Password
<1>1. Accounts(o, n)!TypeOK' /\ Kept
  <2>1. CASE UNCHANGED user
    <3>1. \A t \in tokens' : t[1] \in Accounts(o, n)!Rows' /\ user'[t[1]].gen = t[2]
      BY <1>t, <2>1 DEF Accounts!TypeOK, Accounts!Rows
    <3> QED BY <1>t, <2>1, <3>1, AccountsTyped, AccountsUnfolded
  <2>2. ASSUME NEW x \in Accounts(o, n)!Row, Accounts(o, n)!Change(m, x), user[m] # NoRow, x.gen = user[m].gen,
               x.linked = user[m].linked \/ (x.linked /\ keycloak[m] \in Password)
        PROVE  Accounts(o, n)!TypeOK' /\ Kept
    <3>1. /\ user' \in [AccountName -> Accounts(o, n)!Row \cup {NoRow}]
          /\ user'[m] = x /\ x # NoRow /\ \A k \in AccountName : k # m => user'[k] = user[k]
          /\ \A t \in tokens' : t[1] \in Accounts(o, n)!Rows' /\ user'[t[1]].gen = t[2]
      BY <1>t, <2>2, RowChanged
    <3> QED BY <1>t, <2>2, <3>1, AccountsTyped, AccountsUnfolded
  <2> QED BY <2>1, <2>2
<1>2. \A r \in pend' : r \in pend \/ (r \in AccountRequest(n) /\ RequestGood(r)')
  OBVIOUS
<1>3. \A r, q \in pend' : Claims(r) /\ Claims(q) /\ r.name = q.name /\ r # q => r \in pend /\ q \in pend
  OBVIOUS
<1>4. \A r \in pend \ pend' : faults' = 0 /\ r.op \in {"keycloakPassword", "link", "createRow"}
                                /\ r.name \notin deleted' => Bound(r.name)'
  BY DEF Bound
<1> QED BY <1>1, <1>2, <1>3, <1>4, AccountsStep

(* Handlers that write a row that exists, or nothing. *)
LEMMA AccountsRowHandlers ==
  ASSUME NEW o \in BOOLEAN, NEW n \in Nat, AccountsIInv(o, n), NEW req \in pend,
         \/ Accounts(o, n)!VerifyUser(req) \/ Accounts(o, n)!UpdateUserInfo(req)
         \/ Accounts(o, n)!UpdateUserDetails(req) \/ Accounts(o, n)!StoreUserRole(req)
         \/ Accounts(o, n)!AddAccountDetails(req) \/ Accounts(o, n)!UpdateFidoVerifiedUser(req)
         \/ Accounts(o, n)!DeleteResetPasswordToken(req) \/ Accounts(o, n)!AddUserPassword(req)
         \/ Accounts(o, n)!Fails(req)
  PROVE  AccountsIInv(o, n)'
<1>t. Accounts(o, n)!TypeOK
  BY DEF AccountsIInv
<1>r. req \in AccountRequest(n) /\ RequestGood(req) /\ req.name \in AccountName
  BY AccountRequestFields DEF AccountsIInv
<1>u. /\ user \in [AccountName -> Accounts(o, n)!Row \cup {NoRow}]
      /\ Accounts(o, n)!Rows = {m \in AccountName : user[m] # NoRow}
      /\ faults \in 0..Faults
  BY <1>t, AccountsUnfolded
<1>s. ASSUME Accounts(o, n)!Same(req)
      PROVE  user[req.name] # NoRow /\ user[req.name].gen = req.gen
  BY <1>s DEF Accounts!Same, Accounts!NoUser, NoRow
<1>x. ASSUME user[req.name] # NoRow
      PROVE  user[req.name] \in Accounts(o, n)!Row
  BY <1>r, <1>u, <1>x
<1>1. CASE Accounts(o, n)!VerifyUser(req)
  <2>1. /\ req.op = "verifyUser" /\ pend' = pend \ {req}
        /\ UNCHANGED <<keycloak, tokens, mailed, deleted, faults, started>>
    BY <1>1 DEF Accounts!VerifyUser, Accounts!End
  <2>2. CASE UNCHANGED user
    BY <1>r, <1>u, <2>1, <2>2, AccountsRowStep
  <2>3. CASE req.name \in Accounts(o, n)!Rows
    <3> DEFINE x == [user[req.name] EXCEPT !.verified = TRUE]
    <3>1. /\ user[req.name] # NoRow
          /\ x \in Accounts(o, n)!Row /\ x.gen = user[req.name].gen /\ x.linked = user[req.name].linked
      BY <1>u, <1>x, <2>3 DEF Accounts!Row
    <3>2. Accounts(o, n)!Change(req.name, x)
      BY <1>1, <2>3 DEF Accounts!VerifyUser
    <3> HIDE DEF x
    <3> QED BY <1>r, <1>u, <2>1, <3>1, <3>2, AccountsRowStep
  <2> QED BY <1>1, <2>2, <2>3 DEF Accounts!VerifyUser
<1>2. CASE Accounts(o, n)!UpdateUserInfo(req)
  <2>1. /\ req.op = "info" /\ UNCHANGED <<keycloak, tokens, mailed, deleted, faults, started>>
    BY <1>2 DEF Accounts!UpdateUserInfo, Accounts!End, Accounts!Go
  <2>2. CASE pend' = pend \ {req} /\ UNCHANGED user
    BY <1>r, <1>u, <2>1, <2>2, AccountsRowStep
  <2>3. CASE req.name \in Accounts(o, n)!Rows
    <3> DEFINE x == [user[req.name] EXCEPT !.stored = req.password]
               q == [req EXCEPT !.op = "keycloakUser"]
    <3>1. req.password \in Password /\ req.kind = "signup"
      BY <1>r, <2>1, AccountRequestFields
    <3>2. /\ user[req.name] # NoRow
          /\ x \in Accounts(o, n)!Row /\ x.gen = user[req.name].gen /\ x.linked = user[req.name].linked
      BY <1>u, <1>x, <2>3, <3>1 DEF Accounts!Row
    <3>3. Accounts(o, n)!Change(req.name, x) /\ pend' = (pend \ {req}) \cup {q}
      BY <1>2, <2>3 DEF Accounts!UpdateUserInfo, Accounts!Go
    <3>4. /\ q \in AccountRequest(n) /\ q.op = "keycloakUser" /\ q.name = req.name
          /\ q.gen = req.gen /\ q.kind = "signup"
      BY <1>r, <2>1, <3>1, AccountRequestGoes
    <3> HIDE DEF x, q
    <3>5. user'[req.name] = x /\ x # NoRow
      BY <1>r, <1>t, <2>1, <3>2, <3>3, RowChanged
    <3>6. RequestGood(q)' /\ ~Claims(q)
      BY <1>r, <2>1, <3>1, <3>2, <3>4, <3>5 DEF RequestGood, Claims
    <3> QED BY <1>r, <1>u, <2>1, <3>2, <3>3, <3>4, <3>6, AccountsRowStep
  <2> QED BY <1>2, <2>2, <2>3 DEF Accounts!UpdateUserInfo, Accounts!End
<1>3. CASE Accounts(o, n)!UpdateUserDetails(req)
  <2>1. /\ req.op = "link" /\ UNCHANGED <<keycloak, tokens, mailed, deleted, faults, started>>
        /\ req.kind \in {"signup", "reset"}
    BY <1>3, <1>r, AccountRequestFields DEF Accounts!UpdateUserDetails, Accounts!End, Accounts!Go
  <2>2. CASE ~Accounts(o, n)!Same(req)
    <3>1. pend' = pend \ {req} /\ UNCHANGED user
      BY <1>3, <2>2 DEF Accounts!UpdateUserDetails, Accounts!End
    <3>2. req.name \in deleted
      BY <1>r, <2>1, <2>2 DEF RequestGood, Accounts!Same, Accounts!NoUser, NoRow
    <3> QED BY <1>r, <1>u, <2>1, <3>1, <3>2, AccountsRowStep
  <2>3. CASE Accounts(o, n)!Same(req)
    <3> DEFINE x == [user[req.name] EXCEPT !.linked = TRUE, !.verified = TRUE]
    <3>1. PICK next \in {"holder", "store"} :
            /\ (next = "holder") <=> (req.kind = "signup")
            /\ Accounts(o, n)!Go(req, next)
      BY <1>3, <2>3 DEF Accounts!UpdateUserDetails
    <3> DEFINE q == [req EXCEPT !.op = next]
    <3>2. /\ user[req.name] # NoRow
          /\ x \in Accounts(o, n)!Row /\ x.gen = user[req.name].gen /\ x.linked
      BY <1>s, <1>x, <2>3 DEF Accounts!Row
    <3>3. Accounts(o, n)!Change(req.name, x) /\ pend' = (pend \ {req}) \cup {q}
      BY <1>3, <2>3, <3>1 DEF Accounts!UpdateUserDetails, Accounts!Go
    <3>4. q \in AccountRequest(n) /\ q.op = next /\ q.name = req.name
      BY <1>r, <2>1, <3>1, AccountRequestGoes
    <3> HIDE DEF x, q
    <3>5. user'[req.name] = x /\ x # NoRow
      BY <1>r, <1>t, <2>1, <3>2, <3>3, RowChanged
    <3>6. RequestGood(q)' /\ ~Claims(q)
      BY <3>1, <3>4 DEF RequestGood, Claims
    <3>7. keycloak[req.name] \in Password
      BY <1>r, <2>1 DEF RequestGood
    <3> QED BY <1>r, <1>u, <2>1, <3>2, <3>3, <3>4, <3>5, <3>6, <3>7, AccountsRowStep
  <2> QED BY <2>2, <2>3
<1>4. CASE Accounts(o, n)!StoreUserRole(req)
  <2>1. /\ req.op = "holder" /\ UNCHANGED <<keycloak, tokens, mailed, deleted, faults, started>>
    BY <1>4 DEF Accounts!StoreUserRole, Accounts!End, Accounts!Go
  <2>2. CASE pend' = pend \ {req} /\ UNCHANGED user
    BY <1>r, <1>u, <2>1, <2>2, AccountsRowStep
  <2>3. CASE Accounts(o, n)!Same(req)
    <3> DEFINE x == [user[req.name] EXCEPT !.holder = TRUE]
               q == [req EXCEPT !.op = "account"]
    <3>1. req.kind \in {"signup", "username"}
      BY <1>r, <2>1, AccountRequestFields
    <3>2. /\ user[req.name] # NoRow
          /\ x \in Accounts(o, n)!Row /\ x.gen = user[req.name].gen /\ x.linked = user[req.name].linked
      BY <1>s, <1>x, <2>3 DEF Accounts!Row
    <3>3. Accounts(o, n)!Change(req.name, x) /\ pend' = (pend \ {req}) \cup {q}
      BY <1>4, <2>3 DEF Accounts!StoreUserRole, Accounts!Go
    <3>4. q \in AccountRequest(n) /\ q.op = "account" /\ q.name = req.name
      BY <1>r, <2>1, <3>1, AccountRequestGoes
    <3> HIDE DEF x, q
    <3>5. RequestGood(q)' /\ ~Claims(q)
      BY <3>4 DEF RequestGood, Claims
    <3> QED BY <1>r, <1>u, <2>1, <3>2, <3>3, <3>4, <3>5, AccountsRowStep
  <2> QED BY <1>4, <2>2, <2>3 DEF Accounts!StoreUserRole, Accounts!End
<1>5. CASE Accounts(o, n)!AddAccountDetails(req)
  <2>1. /\ req.op = "account" /\ pend' = pend \ {req}
        /\ UNCHANGED <<keycloak, tokens, mailed, deleted, faults, started>>
    BY <1>5 DEF Accounts!AddAccountDetails, Accounts!End
  <2>2. CASE UNCHANGED user
    BY <1>r, <1>u, <2>1, <2>2, AccountsRowStep
  <2>3. CASE Accounts(o, n)!Same(req)
    <3> DEFINE x == [user[req.name] EXCEPT !.account = TRUE]
    <3>1. /\ user[req.name] # NoRow
          /\ x \in Accounts(o, n)!Row /\ x.gen = user[req.name].gen /\ x.linked = user[req.name].linked
      BY <1>s, <1>x, <2>3 DEF Accounts!Row
    <3>2. Accounts(o, n)!Change(req.name, x)
      BY <1>5, <2>3 DEF Accounts!AddAccountDetails
    <3> HIDE DEF x
    <3> QED BY <1>r, <1>u, <2>1, <3>1, <3>2, AccountsRowStep
  <2> QED BY <1>5, <2>2, <2>3 DEF Accounts!AddAccountDetails
<1>6. CASE Accounts(o, n)!UpdateFidoVerifiedUser(req)
  <2>1. /\ req.op = "store" /\ UNCHANGED <<keycloak, tokens, mailed, deleted, faults, started>>
        /\ req.kind = "reset" /\ req.password \in Password
    BY <1>6, <1>r, AccountRequestFields DEF Accounts!UpdateFidoVerifiedUser, Accounts!End, Accounts!Go
  <2> DEFINE q == [req EXCEPT !.op = "spend"]
  <2>2. pend' = pend \ {req} \/ pend' = (pend \ {req}) \cup {q}
    BY <1>6 DEF Accounts!UpdateFidoVerifiedUser, Accounts!End, Accounts!Go
  <2>3. q \in AccountRequest(n) /\ q.op = "spend" /\ q.name = req.name
    BY <1>r, <2>1, AccountRequestGoes
  <2> HIDE DEF q
  <2>4. RequestGood(q)' /\ ~Claims(q)
    BY <2>3 DEF RequestGood, Claims
  <2>5. CASE UNCHANGED user
    BY <1>r, <1>u, <2>1, <2>2, <2>3, <2>4, <2>5, AccountsRowStep
  <2>6. CASE req.fido /\ req.name \in Accounts(o, n)!Rows
    <3> DEFINE x == [user[req.name] EXCEPT !.stored = req.password]
    <3>1. /\ user[req.name] # NoRow
          /\ x \in Accounts(o, n)!Row /\ x.gen = user[req.name].gen /\ x.linked = user[req.name].linked
      BY <1>u, <1>x, <2>1, <2>6 DEF Accounts!Row
    <3>2. Accounts(o, n)!Change(req.name, x)
      BY <1>6, <2>6 DEF Accounts!UpdateFidoVerifiedUser
    <3> HIDE DEF x
    <3> QED BY <1>r, <1>u, <2>1, <2>2, <2>3, <2>4, <3>1, <3>2, AccountsRowStep
  <2> QED BY <1>6, <2>5, <2>6 DEF Accounts!UpdateFidoVerifiedUser
<1>7. CASE Accounts(o, n)!DeleteResetPasswordToken(req)
  <2>1. /\ req.op = "spend" /\ pend' = pend \ {req} /\ tokens' \subseteq tokens
        /\ UNCHANGED <<user, keycloak, mailed, deleted, faults, started>>
    BY <1>7 DEF Accounts!DeleteResetPasswordToken, Accounts!End
  <2> QED BY <1>r, <1>u, <2>1, AccountsRowStep
<1>8. CASE Accounts(o, n)!AddUserPassword(req)
  <2>1. /\ req.op = "addUserPassword" /\ pend' = pend \ {req} /\ req.password \in Password
        /\ UNCHANGED <<keycloak, tokens, mailed, deleted, faults, started>>
    BY <1>8, <1>r, AccountRequestFields DEF Accounts!AddUserPassword, Accounts!End
  <2>2. CASE UNCHANGED user
    BY <1>r, <1>u, <2>1, <2>2, AccountsRowStep
  <2>3. CASE req.name \in Accounts(o, n)!Rows
    <3> DEFINE x == [user[req.name] EXCEPT !.stored = req.password]
    <3>1. /\ user[req.name] # NoRow
          /\ x \in Accounts(o, n)!Row /\ x.gen = user[req.name].gen /\ x.linked = user[req.name].linked
      BY <1>u, <1>x, <2>1, <2>3 DEF Accounts!Row
    <3>2. Accounts(o, n)!Change(req.name, x)
      BY <1>8, <2>3 DEF Accounts!AddUserPassword
    <3> HIDE DEF x
    <3> QED BY <1>r, <1>u, <2>1, <3>1, <3>2, AccountsRowStep
  <2> QED BY <1>8, <2>2, <2>3 DEF Accounts!AddUserPassword
<1>9. CASE Accounts(o, n)!Fails(req)
  <2>1. /\ pend' = pend \ {req} /\ UNCHANGED <<user, keycloak, tokens, mailed, deleted, started>>
        /\ faults' \in 0..Faults /\ faults' # 0
    BY <1>9, <1>u, AccountsConstants DEF Accounts!Fails, Accounts!End
  <2> QED BY <1>r, <2>1, AccountsRowStep
<1> QED BY <1>1, <1>2, <1>3, <1>4, <1>5, <1>6, <1>7, <1>8, <1>9

(* Handlers that create a row, or change Keycloak. *)
LEMMA AccountsCreateHandlers ==
  ASSUME NEW o \in BOOLEAN, NEW n \in Nat, AccountsIInv(o, n), NEW req \in pend,
         \/ Accounts(o, n)!SendEmailForVerification(req) \/ Accounts(o, n)!CreateUser(req)
         \/ Accounts(o, n)!CreateKeycloakUser(req) \/ Accounts(o, n)!ResetPasswordOfKeycloakUser(req)
         \/ Accounts(o, n)!CreateUserByUsername(req)
  PROVE  AccountsIInv(o, n)'
<1>t. Accounts(o, n)!TypeOK
  BY DEF AccountsIInv
<1>r. req \in AccountRequest(n) /\ RequestGood(req) /\ req.name \in AccountName
  BY AccountRequestFields DEF AccountsIInv
<1>u. /\ user \in [AccountName -> Accounts(o, n)!Row \cup {NoRow}]
      /\ keycloak \in [AccountName -> Password \cup {"none", "nopassword"}]
      /\ mailed \subseteq (Mail \X (1..n)) /\ deleted \subseteq AccountName
      /\ started \in 0..n /\ faults \in 0..Faults
      /\ Accounts(o, n)!Rows = {m \in AccountName : user[m] # NoRow}
  BY <1>t, AccountsUnfolded
<1>c. \A r \in pend : Claims(r) => r.name \in Username
  BY AccountRequestFields, AccountRequestKinds DEF AccountsIInv, Claims
<1>1. CASE Accounts(o, n)!SendEmailForVerification(req)
  <2> DEFINE q == [req EXCEPT !.op = "createUser"]
  <2>1. /\ req.op = "mail" /\ pend' = (pend \ {req}) \cup {q} /\ mailed' = mailed \cup {<<req.name, req.code>>}
        /\ UNCHANGED <<user, keycloak, tokens, deleted, faults, started>>
    BY <1>1 DEF Accounts!SendEmailForVerification, Accounts!Go
  <2>2. q \in AccountRequest(n) /\ q.op = "createUser" /\ q.name = req.name
    BY <1>r, <2>1, AccountRequestGoes
  <2> HIDE DEF q
  <2>3. RequestGood(q)' /\ ~Claims(q)
    BY <2>2 DEF RequestGood, Claims
  <2>4. mailed' \subseteq (Mail \X (1..n))
    BY <1>r, <1>u, <2>1, AccountRequestFields
  <2>5. Accounts(o, n)!TypeOK'
    BY <1>t, <1>u, <2>1, <2>4, AccountsTyped
  <2> QED BY <1>u, <2>1, <2>2, <2>3, <2>5, AccountsStep
<1>2. CASE Accounts(o, n)!CreateUser(req)
  <2>1. /\ req.op = "createUser" /\ pend' = pend \ {req}
        /\ UNCHANGED <<keycloak, tokens, mailed, deleted, faults, started>>
    BY <1>2 DEF Accounts!CreateUser, Accounts!End
  <2>2. req.name \in Mail /\ req.code \in 1..n /\ req.invited \in BOOLEAN
    BY <1>r, <2>1, AccountRequestFields
  <2>3. CASE user[req.name] # NoRow
    <3> DEFINE x == [user[req.name] EXCEPT !.code = req.code]
    <3>1. user[req.name] \in Accounts(o, n)!Row
      BY <1>r, <1>u, <2>3
    <3>2. x \in Accounts(o, n)!Row /\ x.gen = user[req.name].gen /\ x.linked = user[req.name].linked
      BY <2>2, <3>1 DEF Accounts!Row
    <3>3. Accounts(o, n)!Change(req.name, x)
      BY <1>2, <2>3 DEF Accounts!CreateUser, Accounts!NoUser, NoRow
    <3> HIDE DEF x
    <3> QED BY <1>r, <1>u, <2>1, <2>3, <3>2, <3>3, AccountsRowStep
  <2>4. CASE user[req.name] = NoRow
    <3> DEFINE x == [gen |-> req.code, code |-> req.code, verified |-> req.invited, linked |-> FALSE,
                     stored |-> Accounts(o, n)!None, fido |-> FALSE, holder |-> FALSE, account |-> FALSE]
    <3>1. x \in Accounts(o, n)!Row /\ ~x.linked
      BY <2>2 DEF Accounts!Row, Accounts!None
    <3>2. Accounts(o, n)!Change(req.name, x)
      BY <1>2, <2>4 DEF Accounts!CreateUser, Accounts!NoUser, NoRow
    <3> HIDE DEF x
    <3>3. /\ user' \in [AccountName -> Accounts(o, n)!Row \cup {NoRow}]
          /\ user'[req.name] = x /\ x # NoRow /\ \A k \in AccountName : k # req.name => user'[k] = user[k]
          /\ \A t \in tokens' : t[1] \in Accounts(o, n)!Rows' /\ user'[t[1]].gen = t[2]
      BY <1>r, <1>t, <2>1, <2>4, <3>1, <3>2, RowChanged
    <3>4. Accounts(o, n)!TypeOK'
      BY <1>t, <1>u, <2>1, <3>3, AccountsTyped
    <3>5. req.name \notin Username /\ \A r \in pend' : Claims(r) => r.name # req.name
      BY <1>c, <2>1, <2>2, AccountsConstants
    <3> QED BY <1>u, <2>1, <2>4, <3>1, <3>3, <3>4, <3>5, AccountsStep
  <2> QED BY <2>3, <2>4
<1>3. CASE Accounts(o, n)!CreateKeycloakUser(req)
  <2>1. /\ req.op = "keycloakUser" /\ UNCHANGED <<user, tokens, mailed, deleted, faults, started>>
        /\ req.kind \in {"signup", "username", "reset"}
    BY <1>3, <1>r, AccountRequestFields DEF Accounts!CreateKeycloakUser, Accounts!End, Accounts!Go
  <2>2. CASE pend' = pend \ {req} /\ UNCHANGED keycloak
    BY <1>r, <1>u, <2>1, <2>2, AccountsRowStep
  <2>3. CASE keycloak[req.name] = "none"
    <3> DEFINE q == [req EXCEPT !.op = "keycloakPassword"]
    <3>1. /\ keycloak' = [keycloak EXCEPT ![req.name] = "nopassword"]
          /\ pend' = (pend \ {req}) \cup {q}
      BY <1>3, <2>3 DEF Accounts!CreateKeycloakUser, Accounts!Go, Accounts!None, Accounts!NoPassword
    <3>2. /\ q \in AccountRequest(n) /\ q.op = "keycloakPassword" /\ q.name = req.name
          /\ q.gen = req.gen /\ q.kind = req.kind /\ (req.kind = "reset" => q.linked = req.linked)
      BY <1>r, <2>1, AccountRequestGoes
    <3> HIDE DEF q
    <3>3. /\ keycloak' \in [AccountName -> Password \cup {"none", "nopassword"}]
          /\ keycloak'[req.name] = "nopassword" /\ \A k \in AccountName : k # req.name => keycloak'[k] = keycloak[k]
      BY <1>r, <1>u, <3>1
    <3>4. Accounts(o, n)!TypeOK'
      BY <1>t, <1>u, <2>1, <3>3, AccountsTyped
    <3>5. req.kind = "username" => req.name \in Username
      BY <1>r, <2>1, AccountRequestKinds
    <3>6. req.kind = "username" => user[req.name] = NoRow
      BY <2>3, <3>5 DEF AccountsIInv
    <3>7. RequestGood(q)'
      BY <1>r, <2>1, <3>2, <3>3, <3>6 DEF RequestGood, Claims
    <3>8. \A r \in pend : Claims(r) => r.name # req.name
      BY <2>3 DEF AccountsIInv, RequestGood
    <3>9. \A r, p \in pend' : Claims(r) /\ Claims(p) /\ r.name = p.name /\ r # p => r \in pend /\ p \in pend
      BY <3>1, <3>2, <3>8
    <3>10. Bound(req.name)'
      BY <3>1, <3>2 DEF Bound
    <3>11. \A k \in AccountName : /\ keycloak[k] \in Password => keycloak'[k] \in Password
                                  /\ keycloak[k] # "none" => keycloak'[k] # "none"
      BY <2>3, <3>3, AccountsConstants
    <3>12. \A r \in pend \ pend' : r.op \notin {"keycloakPassword", "link", "createRow"}
      BY <2>1, <3>1
    <3>13. \A r \in pend' : r \in pend \/ (r \in AccountRequest(n) /\ RequestGood(r)')
      BY <3>1, <3>2, <3>7
    <3>14. \A k \in AccountName \ deleted' : keycloak'[k] # "none" => keycloak[k] # "none" \/ Bound(k)'
      BY <3>3, <3>10
    <3> QED BY <2>1, <3>4, <3>9, <3>11, <3>12, <3>13, <3>14, AccountsStep
  <2> QED BY <1>3, <2>2, <2>3 DEF Accounts!CreateKeycloakUser, Accounts!End, Accounts!None
<1>4. CASE Accounts(o, n)!ResetPasswordOfKeycloakUser(req)
  <2>1. /\ req.op = "keycloakPassword" /\ UNCHANGED <<user, tokens, mailed, deleted, faults, started>>
        /\ req.kind \in {"signup", "username", "reset"} /\ req.password \in Password
        /\ keycloak' = [keycloak EXCEPT ![req.name] = req.password]
    BY <1>4, <1>r, AccountRequestFields DEF Accounts!ResetPasswordOfKeycloakUser, Accounts!Go
  <2>2. PICK next \in {"createRow", "link", "store"} :
          /\ Accounts(o, n)!Go(req, next)
          /\ next = "createRow" => req.kind = "username"
          /\ next = "link" => req.kind \in {"signup", "reset"}
          /\ next = "store" => req.kind = "reset" /\ req.linked /\ user[req.name] # NoRow
    BY <1>4, <2>1 DEF Accounts!ResetPasswordOfKeycloakUser, Accounts!NoUser, NoRow
  <2> DEFINE q == [req EXCEPT !.op = next]
  <2>3. pend' = (pend \ {req}) \cup {q}
    BY <2>2 DEF Accounts!Go
  <2>4. /\ q \in AccountRequest(n) /\ q.op = next /\ q.name = req.name
        /\ q.gen = req.gen /\ q.kind = req.kind
    BY <1>r, <2>1, <2>2, AccountRequestGoes
  <2> HIDE DEF q
  <2>5. /\ keycloak' \in [AccountName -> Password \cup {"none", "nopassword"}]
        /\ keycloak'[req.name] \in Password /\ keycloak'[req.name] # "none"
        /\ \A k \in AccountName : k # req.name => keycloak'[k] = keycloak[k]
    BY <1>r, <1>u, <2>1, AccountsConstants
  <2>6. Accounts(o, n)!TypeOK'
    BY <1>t, <1>u, <2>1, <2>5, AccountsTyped
  <2>7. RequestGood(q)'
    <3>1. q.op \in {"link", "createRow"} => keycloak'[q.name] \in Password
      BY <2>4, <2>5
    <3>2. Claims(q) => Claims(req)
      BY <2>1, <2>2, <2>4 DEF Claims
    <3>3. Claims(q) => keycloak'[q.name] # "none" /\ user'[q.name] = NoRow
      BY <1>r, <2>1, <2>4, <2>5, <3>2 DEF RequestGood
    <3> QED BY <1>r, <2>1, <2>2, <2>4, <3>1, <3>3 DEF RequestGood, Claims
  <2>8. Claims(q) => Claims(req)
    BY <2>1, <2>2, <2>4 DEF Claims
  <2>9. \A r, p \in pend' : Claims(r) /\ Claims(p) /\ r.name = p.name /\ r # p => r \in pend /\ p \in pend
    BY <2>3, <2>4, <2>8 DEF AccountsIInv
  <2>10. req.name \notin deleted => Bound(req.name)'
    <3>1. CASE next \in {"createRow", "link"}
      BY <2>3, <2>4, <3>1 DEF Bound
    <3>2. CASE next = "store"
      BY <1>r, <2>1, <2>2, <3>2 DEF Bound, RequestGood
    <3> QED BY <3>1, <3>2
  <2>11. \A r \in pend \ pend' : r.op \in {"keycloakPassword", "link", "createRow"} /\ r.name \notin deleted' =>
           Bound(r.name)'
    BY <2>1, <2>3, <2>10
  <2>12. \A k \in AccountName : /\ keycloak[k] \in Password => keycloak'[k] \in Password
                                /\ keycloak[k] # "none" => keycloak'[k] # "none"
    BY <2>5
  <2>13. \A r \in pend' : r \in pend \/ (r \in AccountRequest(n) /\ RequestGood(r)')
    BY <2>3, <2>4, <2>7
  <2>14. \A k \in AccountName \ deleted' : keycloak'[k] # "none" => keycloak[k] # "none" \/ Bound(k)'
    BY <2>1, <2>5, <2>10
  <2> QED BY <2>1, <2>6, <2>9, <2>11, <2>12, <2>13, <2>14, AccountsStep
<1>5. CASE Accounts(o, n)!CreateUserByUsername(req)
  <2>1. /\ req.op = "createRow" /\ UNCHANGED <<keycloak, tokens, mailed, deleted, faults, started>>
        /\ req.kind = "username" /\ req.password \in Password /\ req.passkey \in BOOLEAN /\ req.gen \in 1..n
    BY <1>5, <1>r, AccountRequestFields DEF Accounts!CreateUserByUsername, Accounts!End, Accounts!Go
  <2>2. Claims(req) /\ user[req.name] = NoRow /\ keycloak[req.name] \in Password
    BY <1>r, <2>1 DEF RequestGood, Claims
  <2> DEFINE x == [gen |-> req.gen, code |-> 0, verified |-> FALSE, linked |-> TRUE,
                   stored |-> IF req.passkey THEN req.password ELSE Accounts(o, n)!None, fido |-> FALSE,
                   holder |-> FALSE, account |-> FALSE]
             q == [req EXCEPT !.op = "holder"]
  <2>3. x \in Accounts(o, n)!Row /\ x.linked
    BY <2>1 DEF Accounts!Row, Accounts!None
  <2>4. Accounts(o, n)!Change(req.name, x) /\ pend' = (pend \ {req}) \cup {q}
    BY <1>5, <2>2 DEF Accounts!CreateUserByUsername, Accounts!Go, Accounts!NoUser, NoRow
  <2>5. q \in AccountRequest(n) /\ q.op = "holder" /\ q.name = req.name
    BY <1>r, <2>1, AccountRequestGoes
  <2> HIDE DEF x, q
  <2>6. /\ user' \in [AccountName -> Accounts(o, n)!Row \cup {NoRow}]
        /\ user'[req.name] = x /\ x # NoRow /\ \A k \in AccountName : k # req.name => user'[k] = user[k]
        /\ \A t \in tokens' : t[1] \in Accounts(o, n)!Rows' /\ user'[t[1]].gen = t[2]
    BY <1>r, <1>t, <2>1, <2>2, <2>3, <2>4, RowChanged
  <2>7. Accounts(o, n)!TypeOK'
    BY <1>t, <1>u, <2>1, <2>6, AccountsTyped
  <2>8. RequestGood(q)' /\ ~Claims(q)
    BY <2>5 DEF RequestGood, Claims
  <2>9. \A r \in pend' : Claims(r) => r.name # req.name
    BY <2>2, <2>4, <2>8 DEF AccountsIInv
  <2>10. Bound(req.name)'
    BY <2>3, <2>6 DEF Bound
  <2>11. keycloak[req.name] # "none"
    BY <2>2, AccountsConstants
  <2> QED BY <1>u, <2>1, <2>2, <2>4, <2>5, <2>6, <2>7, <2>8, <2>9, <2>10, <2>11, AccountsStep
<1> QED BY <1>1, <1>2, <1>3, <1>4, <1>5

(* A new request. *)
LEMMA AccountsRequestKeeps ==
  ASSUME NEW o \in BOOLEAN, NEW n \in Nat, AccountsIInv(o, n), NEW q \in AccountRequest(n), Accounts(o, n)!Request(q),
         RequestGood(q), ~Claims(q), UNCHANGED <<user, keycloak, tokens, mailed, deleted, faults>>
  PROVE  AccountsIInv(o, n)'
<1>t. Accounts(o, n)!TypeOK
  BY DEF AccountsIInv
<1>1. pend' = pend \cup {q} /\ started' \in 0..n
  BY <1>t, AccountsUnfolded DEF Accounts!Request
<1>2. Accounts(o, n)!TypeOK'
  BY <1>1, <1>t, AccountsTyped, AccountsUnfolded
<1>3. RequestGood(q)'
  BY DEF RequestGood
<1> QED BY <1>1, <1>2, <1>3, AccountsStep

(* The requests of a user, by the call. *)
LEMMA AccountsMail ==
  ASSUME NEW o \in BOOLEAN, NEW n \in Nat, AccountsIInv(o, n), NEW m \in Mail, NEW b \in BOOLEAN,
         Accounts(o, n)!SendVerificationMail(m, b)
  PROVE  AccountsIInv(o, n)'
<1>1. PICK op \in {"createUser", "mail"} :
        Accounts(o, n)!Request([op |-> op, name |-> m, code |-> started + 1, invited |-> b])
  BY DEF Accounts!SendVerificationMail
<1>2. PICK c \in 1..n : c = started + 1
  BY <1>1, AccountsUnfolded DEF AccountsIInv, Accounts!Request
<1> DEFINE q == [op |-> op, name |-> m, code |-> c, invited |-> b]
<1>3. q \in AccountRequest(n) /\ q.op = op
  BY DEF AccountRequest
<1>4. Accounts(o, n)!Request(q) /\ UNCHANGED <<user, keycloak, tokens, mailed, deleted, faults>>
  BY <1>1, <1>2 DEF Accounts!SendVerificationMail
<1> HIDE DEF q
<1>5. RequestGood(q) /\ ~Claims(q)
  BY <1>1, <1>3 DEF RequestGood, Claims
<1> QED BY <1>3, <1>4, <1>5, AccountsRequestKeeps

LEMMA AccountsRequests ==
  ASSUME NEW o \in BOOLEAN, NEW n \in Nat, AccountsIInv(o, n), NEW m \in AccountName, NEW p \in Password,
         NEW b \in BOOLEAN,
         \/ Accounts(o, n)!CreateUserForToken(m, p, b) \/ Accounts(o, n)!CreateUserForUsernameToken(m, p, b)
         \/ Accounts(o, n)!ResetPassword(m, p, b) \/ Accounts(o, n)!AddPasskey(m, p)
  PROVE  AccountsIInv(o, n)'
<1>t. Accounts(o, n)!TypeOK
  BY DEF AccountsIInv
<1>u. /\ user \in [AccountName -> Accounts(o, n)!Row \cup {NoRow}]
      /\ started \in 0..n
      /\ Accounts(o, n)!Rows = {k \in AccountName : user[k] # NoRow}
  BY <1>t, AccountsUnfolded
<1>s. ASSUME NEW r, Accounts(o, n)!Request(r)
      PROVE  started + 1 \in 1..n
  BY <1>s, <1>u DEF Accounts!Request
<1>1. CASE Accounts(o, n)!CreateUserForToken(m, p, b)
  <2>1. m \in Mail /\ user[m] # NoRow /\ UNCHANGED <<user, keycloak, tokens, mailed, deleted, faults>>
    BY <1>1 DEF Accounts!CreateUserForToken, Accounts!NoUser, NoRow
  <2>2. user[m].gen \in 1..n
    BY <1>u, <2>1 DEF Accounts!Row
  <2>3. PICK g \in 1..n : g = user[m].gen
    BY <2>2
  <2>4. PICK op \in {"info", "keycloakUser"} :
          Accounts(o, n)!Request([op |-> op, name |-> m, gen |-> g, password |-> p, passkey |-> b, kind |-> "signup"])
    BY <1>1, <2>3 DEF Accounts!CreateUserForToken
  <2> DEFINE q == [op |-> op, name |-> m, gen |-> g, password |-> p, passkey |-> b, kind |-> "signup"]
  <2>5. q \in AccountRequest(n) /\ q.op = op /\ q.name = m /\ q.gen = g /\ q.kind = "signup"
    BY <2>1, <2>4 DEF AccountRequest
  <2>6. Accounts(o, n)!Request(q)
    BY <2>4
  <2> HIDE DEF q
  <2>7. RequestGood(q) /\ ~Claims(q)
    BY <2>1, <2>3, <2>4, <2>5 DEF RequestGood, Claims
  <2> QED BY <2>1, <2>5, <2>6, <2>7, AccountsRequestKeeps
<1>2. CASE Accounts(o, n)!CreateUserForUsernameToken(m, p, b)
  <2>1. m \in Username /\ UNCHANGED <<user, keycloak, tokens, mailed, deleted, faults>>
    BY <1>2 DEF Accounts!CreateUserForUsernameToken
  <2>2. PICK g \in 1..n : g = started + 1
    BY <1>2, <1>s DEF Accounts!CreateUserForUsernameToken
  <2> DEFINE q == [op |-> "keycloakUser", name |-> m, gen |-> g, password |-> p, passkey |-> b, kind |-> "username"]
  <2>3. q \in AccountRequest(n) /\ q.op = "keycloakUser" /\ q.kind = "username"
    BY <2>1 DEF AccountRequest
  <2>4. Accounts(o, n)!Request(q)
    BY <1>2, <2>2 DEF Accounts!CreateUserForUsernameToken
  <2> HIDE DEF q
  <2>5. RequestGood(q) /\ ~Claims(q)
    BY <2>3 DEF RequestGood, Claims
  <2> QED BY <2>1, <2>3, <2>4, <2>5, AccountsRequestKeeps
<1>3. CASE Accounts(o, n)!ResetPassword(m, p, b)
  <2>1. user[m] # NoRow /\ UNCHANGED <<user, keycloak, tokens, mailed, deleted, faults>>
    BY <1>3, <1>u DEF Accounts!ResetPassword
  <2>2. user[m].gen \in 1..n /\ user[m].linked \in BOOLEAN /\ user[m].fido \in BOOLEAN
    BY <1>u, <2>1 DEF Accounts!Row
  <2>3. PICK g \in 1..n, l \in BOOLEAN, f \in BOOLEAN : g = user[m].gen /\ l = user[m].linked /\ f = user[m].fido
    BY <2>2
  <2>4. PICK op \in {"keycloakPassword", "keycloakUser"} :
          Accounts(o, n)!Request([op |-> op, name |-> m, gen |-> g, password |-> p, passkey |-> FALSE,
                                  kind |-> "reset", linked |-> l, fido |-> f, token |-> b])
    BY <1>3, <2>3 DEF Accounts!ResetPassword
  <2> DEFINE q == [op |-> op, name |-> m, gen |-> g, password |-> p, passkey |-> FALSE,
                   kind |-> "reset", linked |-> l, fido |-> f, token |-> b]
  <2>5. q \in AccountRequest(n) /\ q.op = op /\ q.name = m /\ q.gen = g /\ q.kind = "reset" /\ q.linked = l
    BY <2>4 DEF AccountRequest
  <2>6. Accounts(o, n)!Request(q)
    BY <2>4
  <2> HIDE DEF q
  <2>7. RequestGood(q) /\ ~Claims(q)
    BY <2>1, <2>3, <2>4, <2>5 DEF RequestGood, Claims
  <2> QED BY <2>1, <2>5, <2>6, <2>7, AccountsRequestKeeps
<1>4. CASE Accounts(o, n)!AddPasskey(m, p)
  <2> DEFINE q == [op |-> "addUserPassword", name |-> m, password |-> p]
  <2>1. q \in AccountRequest(n) /\ q.op = "addUserPassword"
    BY DEF AccountRequest
  <2>2. Accounts(o, n)!Request(q) /\ UNCHANGED <<user, keycloak, tokens, mailed, deleted, faults>>
    BY <1>4 DEF Accounts!AddPasskey
  <2> HIDE DEF q
  <2>3. RequestGood(q) /\ ~Claims(q)
    BY <2>1 DEF RequestGood, Claims
  <2> QED BY <2>1, <2>2, <2>3, AccountsRequestKeeps
<1> QED BY <1>1, <1>2, <1>3, <1>4

(* Every step of the accounts preserves the invariant. *)
LEMMA AccountsInductive ==
  ASSUME NEW o \in BOOLEAN, NEW n \in Nat, AccountsIInv(o, n), [Accounts(o, n)!Next]_(Accounts(o, n)!vars)
  PROVE  AccountsIInv(o, n)'
<1>t. Accounts(o, n)!TypeOK
  BY DEF AccountsIInv
<1>u. /\ user \in [AccountName -> Accounts(o, n)!Row \cup {NoRow}]
      /\ keycloak \in [AccountName -> Password \cup {"none", "nopassword"}]
      /\ mailed \subseteq (Mail \X (1..n)) /\ deleted \subseteq AccountName
      /\ started \in 0..n /\ faults \in 0..Faults /\ started \in Nat
      /\ Accounts(o, n)!Rows = {m \in AccountName : user[m] # NoRow}
  BY <1>t, AccountsUnfolded
<1>1. CASE UNCHANGED Accounts(o, n)!vars
  <2>1. UNCHANGED <<user, keycloak, tokens, mailed, deleted, pend, started, faults>>
    BY <1>1 DEF Accounts!vars
  <2>2. Accounts(o, n)!TypeOK'
    BY <1>t, <1>u, <2>1, AccountsTyped
  <2> QED BY <2>1, <2>2, AccountsStep
<1>2. ASSUME NEW m \in AccountName, Accounts(o, n)!ForgotPassword(m)
      PROVE  AccountsIInv(o, n)'
  <2>1. /\ user[m] # NoRow /\ tokens' = tokens \cup {<<m, user[m].gen>>} /\ started' \in 0..n
        /\ UNCHANGED <<user, keycloak, mailed, deleted, pend, faults>>
    BY <1>2, <1>u DEF Accounts!ForgotPassword
  <2>2. \A t \in tokens' : t[1] \in Accounts(o, n)!Rows' /\ user'[t[1]].gen = t[2]
    <3>1. \A t \in tokens : t[1] \in Accounts(o, n)!Rows /\ user[t[1]].gen = t[2]
      BY <1>t DEF Accounts!TypeOK
    <3>2. m \in Accounts(o, n)!Rows /\ Accounts(o, n)!Rows' = Accounts(o, n)!Rows
      BY <1>u, <2>1 DEF Accounts!Rows
    <3> QED BY <2>1, <3>1, <3>2
  <2>3. Accounts(o, n)!TypeOK'
    BY <1>t, <1>u, <2>1, <2>2, AccountsTyped
  <2> QED BY <2>1, <2>3, AccountsStep
<1>3. ASSUME NEW t \in tokens, Accounts(o, n)!TokenExpires(t)
      PROVE  AccountsIInv(o, n)'
  <2>1. tokens' \subseteq tokens /\ UNCHANGED <<user, keycloak, mailed, deleted, pend, started, faults>>
    BY <1>3 DEF Accounts!TokenExpires
  <2>2. \A s \in tokens' : s[1] \in Accounts(o, n)!Rows' /\ user'[s[1]].gen = s[2]
    BY <1>t, <2>1 DEF Accounts!TypeOK, Accounts!Rows
  <2>3. Accounts(o, n)!TypeOK'
    BY <1>t, <1>u, <2>1, <2>2, AccountsTyped
  <2> QED BY <2>1, <2>3, AccountsStep
<1>4. ASSUME NEW m \in AccountName, Accounts(o, n)!VerifyRegistration(m)
      PROVE  AccountsIInv(o, n)'
  <2> DEFINE x == [user[m] EXCEPT !.fido = TRUE]
  <2>1. /\ user[m] # NoRow /\ Accounts(o, n)!Change(m, x)
        /\ UNCHANGED <<keycloak, tokens, mailed, deleted, pend, started, faults>>
    BY <1>4, <1>u DEF Accounts!VerifyRegistration
  <2>2. x \in Accounts(o, n)!Row /\ x.gen = user[m].gen /\ x.linked = user[m].linked
    BY <1>u, <2>1 DEF Accounts!Row
  <2> HIDE DEF x
  <2>3. /\ user' \in [AccountName -> Accounts(o, n)!Row \cup {NoRow}]
        /\ user'[m] = x /\ x # NoRow /\ \A k \in AccountName : k # m => user'[k] = user[k]
        /\ \A t \in tokens' : t[1] \in Accounts(o, n)!Rows' /\ user'[t[1]].gen = t[2]
    BY <1>t, <2>1, <2>2, RowChanged
  <2>4. Accounts(o, n)!TypeOK'
    BY <1>t, <1>u, <2>1, <2>3, AccountsTyped
  <2> QED BY <2>1, <2>2, <2>3, <2>4, AccountsStep
<1>5. ASSUME NEW m \in AccountName, Accounts(o, n)!DeleteUser(m)
      PROVE  AccountsIInv(o, n)'
  <2>1. /\ user' = [user EXCEPT ![m] = NoRow] /\ tokens' = {t \in tokens : t[1] # m} /\ deleted' = deleted \cup {m}
        /\ started' \in 0..n /\ UNCHANGED <<keycloak, mailed, pend, faults>>
    BY <1>5, <1>u DEF Accounts!DeleteUser, Accounts!Change, Accounts!NoUser, NoRow
  <2>2. /\ user' \in [AccountName -> Accounts(o, n)!Row \cup {NoRow}]
        /\ user'[m] = NoRow /\ \A k \in AccountName : k # m => user'[k] = user[k]
    BY <1>u, <2>1
  <2>3. \A t \in tokens' : t[1] \in Accounts(o, n)!Rows' /\ user'[t[1]].gen = t[2]
    <3>1. \A t \in tokens' : t[1] \in AccountName /\ t[1] # m /\ user[t[1]] # NoRow /\ user[t[1]].gen = t[2]
      BY <1>t, <1>u, <2>1 DEF Accounts!TypeOK
    <3> QED BY <2>2, <3>1 DEF Accounts!Rows, Accounts!Name, Accounts!NoUser, AccountName, NoRow
  <2>4. Accounts(o, n)!TypeOK'
    BY <1>t, <1>u, <2>1, <2>2, <2>3, AccountsTyped
  <2> QED BY <2>1, <2>2, <2>4, AccountsStep
<1>6. ASSUME NEW m \in mailed, Accounts(o, n)!VerifyEmail(m[1], m[2])
      PROVE  AccountsIInv(o, n)'
  <2>1. PICK k \in Mail, c \in 1..n : m = <<k, c>>
    BY <1>u
  <2>2. Accounts(o, n)!VerifyEmail(k, c) /\ k \in AccountName
    BY <1>6, <2>1 DEF AccountName
  <2> DEFINE q == [op |-> "verifyUser", name |-> k]
  <2>3. q \in AccountRequest(n) /\ q.op = "verifyUser"
    BY <2>2 DEF AccountRequest
  <2>4. Accounts(o, n)!Request(q) /\ UNCHANGED <<user, keycloak, tokens, mailed, deleted, faults>>
    BY <2>2 DEF Accounts!VerifyEmail
  <2> HIDE DEF q
  <2>5. RequestGood(q) /\ ~Claims(q)
    BY <2>3 DEF RequestGood, Claims
  <2> QED BY <2>3, <2>4, <2>5, AccountsRequestKeeps
<1>7. ASSUME NEW m \in Mail, NEW b \in BOOLEAN, Accounts(o, n)!SendVerificationMail(m, b)
      PROVE  AccountsIInv(o, n)'
  BY <1>7, AccountsMail
<1>8. ASSUME NEW req \in pend, Accounts(o, n)!Handler(req)
      PROVE  AccountsIInv(o, n)'
  BY <1>8, AccountsRowHandlers, AccountsCreateHandlers DEF Accounts!Handler
<1> QED BY <1>1, <1>2, <1>3, <1>4, <1>5, <1>6, <1>7, <1>8, AccountsRequests
        DEF Accounts!Next, Accounts!Name, AccountName

LEMMA AccountsInitial ==
  ASSUME NEW o \in BOOLEAN, NEW n \in Nat, Accounts(o, n)!Init
  PROVE  AccountsIInv(o, n)
<1>1. Accounts(o, n)!TypeOK
  BY AccountsConstants DEF Accounts!Init, Accounts!TypeOK
<1> QED BY <1>1, AccountsConstants
        DEF AccountsIInv, Accounts!Init, Accounts!Name, Accounts!NoUser, Accounts!None, AccountName, NoRow

(* The invariant is what AccountInv states of the accounts. *)
LEMMA AccountsSafe ==
  ASSUME NEW o \in BOOLEAN, NEW n \in Nat, AccountsIInv(o, n)
  PROVE  Accounts(o, n)!TypeOK /\ Accounts(o, n)!LinkedHasPassword /\ Accounts(o, n)!NoOrphanIdentity
<1>1. Accounts(o, n)!TypeOK
  BY DEF AccountsIInv
<1>2. Accounts(o, n)!Rows = {m \in AccountName : user[m] # NoRow} /\ Accounts(o, n)!Name = AccountName
  BY <1>1, AccountsUnfolded DEF Accounts!Name, AccountName
<1>3. Accounts(o, n)!LinkedHasPassword
  BY <1>2 DEF AccountsIInv, Accounts!LinkedHasPassword
<1>4. Accounts(o, n)!NoOrphanIdentity
  BY <1>2 DEF AccountsIInv, Bound, Accounts!NoOrphanIdentity, Accounts!None
<1> QED BY <1>1, <1>3, <1>4

-----------------------------------------------------------------------------
(* One request at a time, a reset that set the password of Keycloak still  *)
(* finds it there, and the passkey of the row as it read it.               *)
ResetUndisturbed ==
  /\ \A r, q \in pend : r = q
  /\ \A r \in pend : r.op \in {"keycloakUser", "keycloakPassword", "link", "store", "spend"} /\ r.kind = "reset" =>
       /\ user[r.name] # NoRow => user[r.name].fido = r.fido
       /\ r.op \in {"link", "store", "spend"} => keycloak[r.name] = r.password
       /\ r.op = "spend" /\ r.fido /\ user[r.name] # NoRow => user[r.name].stored = r.password

LEMMA ResetStaysUndisturbed ==
  ASSUME NEW n \in Nat, AccountsIInv(FALSE, n), ResetUndisturbed, [Accounts(FALSE, n)!Next]_(Accounts(FALSE, n)!vars)
  PROVE  ResetUndisturbed'
<1>t. Accounts(FALSE, n)!TypeOK
  BY DEF AccountsIInv
<1>u. /\ user \in [AccountName -> Accounts(FALSE, n)!Row \cup {NoRow}]
      /\ keycloak \in [AccountName -> Password \cup {"none", "nopassword"}]
      /\ Accounts(FALSE, n)!Rows = {m \in AccountName : user[m] # NoRow}
  BY <1>t, AccountsUnfolded
<1>1. ASSUME NEW req \in pend, Accounts(FALSE, n)!Handler(req)
      PROVE  ResetUndisturbed'
  <2>r. req \in AccountRequest(n) /\ req.name \in AccountName /\ pend = {req}
    BY AccountRequestFields DEF AccountsIInv, ResetUndisturbed
  <2>1. CASE Accounts(FALSE, n)!End(req)
    BY <2>1, <2>r DEF Accounts!End, ResetUndisturbed
  <2>2. ASSUME NEW next, pend' = {[req EXCEPT !.op = next]},
               \/ req.op = "mail" /\ next = "createUser"
               \/ /\ req.op \in {"info", "keycloakUser", "keycloakPassword", "link", "createRow", "holder", "store"}
                  /\ \/ req.kind = "signup" /\ next \in {"keycloakUser", "keycloakPassword", "link", "holder", "account"}
                     \/ req.kind = "username" /\ next \in {"keycloakPassword", "createRow", "holder", "account"}
                     \/ /\ req.kind = "reset" /\ next \in {"keycloakPassword", "link", "store", "spend"}
                        /\ user[req.name] # NoRow => user[req.name].fido = req.fido
                        /\ user'[req.name] # NoRow => user'[req.name].fido = req.fido
                        /\ next \in {"link", "store", "spend"} => keycloak'[req.name] = req.password
                        /\ next = "spend" /\ req.fido /\ user'[req.name] # NoRow =>
                             user'[req.name].stored = req.password
        PROVE  ResetUndisturbed'
    <3> DEFINE q == [req EXCEPT !.op = next]
    <3>1. /\ q.op = next /\ q.name = req.name
          /\ req.op # "mail" => q.gen = req.gen /\ q.kind = req.kind
          /\ req.op # "mail" /\ req.kind = "reset" =>
               q.linked = req.linked /\ q.fido = req.fido /\ q.password = req.password
      BY <2>2, <2>r, AccountRequestGoes
    <3>2. pend' = {q}
      BY <2>2
    <3> HIDE DEF q
    <3> QED BY <2>2, <3>1, <3>2 DEF ResetUndisturbed
  <2>3. CASE Accounts(FALSE, n)!SendEmailForVerification(req)
    BY <2>2, <2>3, <2>r DEF Accounts!SendEmailForVerification, Accounts!Go
  <2>4. CASE Accounts(FALSE, n)!UpdateUserInfo(req)
    <3>1. req.op = "info" /\ req.kind = "signup"
      BY <2>4, <2>r, AccountRequestFields DEF Accounts!UpdateUserInfo
    <3> QED BY <2>1, <2>2, <2>4, <2>r, <3>1 DEF Accounts!UpdateUserInfo, Accounts!Go
  <2>5. CASE Accounts(FALSE, n)!CreateKeycloakUser(req)
    <3>1. req.op = "keycloakUser" /\ req.kind \in {"signup", "username", "reset"} /\ UNCHANGED user
      BY <2>5, <2>r, AccountRequestFields DEF Accounts!CreateKeycloakUser
    <3>2. req.kind = "reset" /\ user[req.name] # NoRow => user[req.name].fido = req.fido
      BY <3>1 DEF ResetUndisturbed
    <3> QED BY <2>1, <2>2, <2>5, <2>r, <3>1, <3>2 DEF Accounts!CreateKeycloakUser, Accounts!Go
  <2>6. CASE Accounts(FALSE, n)!ResetPasswordOfKeycloakUser(req)
    <3>1. /\ req.op = "keycloakPassword" /\ req.kind \in {"signup", "username", "reset"} /\ UNCHANGED user
          /\ keycloak' = [keycloak EXCEPT ![req.name] = req.password]
      BY <2>6, <2>r, AccountRequestFields DEF Accounts!ResetPasswordOfKeycloakUser
    <3>2. req.kind = "reset" /\ user[req.name] # NoRow => user[req.name].fido = req.fido
      BY <3>1 DEF ResetUndisturbed
    <3>3. PICK next \in {"createRow", "link", "store"} :
            /\ Accounts(FALSE, n)!Go(req, next)
            /\ next = "createRow" <=> req.kind = "username"
            /\ next = "store" => req.kind = "reset"
      BY <2>6, <3>1 DEF Accounts!ResetPasswordOfKeycloakUser
    <3>4. keycloak'[req.name] = req.password
      BY <1>u, <2>r, <3>1
    <3> QED BY <2>2, <2>r, <3>1, <3>2, <3>3, <3>4 DEF Accounts!Go
  <2>7. CASE Accounts(FALSE, n)!UpdateUserDetails(req)
    <3>1. req.op = "link" /\ req.kind \in {"signup", "reset"} /\ UNCHANGED keycloak
      BY <2>7, <2>r, AccountRequestFields DEF Accounts!UpdateUserDetails
    <3>2. CASE Accounts(FALSE, n)!Same(req)
      <4>1. user[req.name] \in Accounts(FALSE, n)!Row /\ user[req.name] # NoRow
        BY <1>u, <2>r, <3>2 DEF Accounts!Same, Accounts!NoUser, NoRow
      <4>2. user'[req.name].fido = user[req.name].fido
        BY <1>u, <2>7, <2>r, <3>2, <4>1 DEF Accounts!UpdateUserDetails, Accounts!Change, Accounts!Row
      <4>3. req.kind = "reset" => user[req.name].fido = req.fido /\ keycloak[req.name] = req.password
        BY <3>1, <4>1 DEF ResetUndisturbed
      <4>4. PICK next \in {"holder", "store"} :
              /\ Accounts(FALSE, n)!Go(req, next)
              /\ (next = "holder") <=> (req.kind = "signup")
        BY <2>7, <3>2 DEF Accounts!UpdateUserDetails
      <4> QED BY <2>2, <2>r, <3>1, <4>2, <4>3, <4>4 DEF Accounts!Go
    <3> QED BY <2>1, <2>7, <3>2 DEF Accounts!UpdateUserDetails
  <2>8. CASE Accounts(FALSE, n)!CreateUserByUsername(req)
    <3>1. req.op = "createRow" /\ req.kind = "username"
      BY <2>8, <2>r, AccountRequestFields DEF Accounts!CreateUserByUsername
    <3> QED BY <2>1, <2>2, <2>8, <2>r, <3>1 DEF Accounts!CreateUserByUsername, Accounts!Go
  <2>9. CASE Accounts(FALSE, n)!StoreUserRole(req)
    <3>1. req.op = "holder" /\ req.kind \in {"signup", "username"}
      BY <2>9, <2>r, AccountRequestFields DEF Accounts!StoreUserRole
    <3> QED BY <2>1, <2>2, <2>9, <2>r, <3>1 DEF Accounts!StoreUserRole, Accounts!Go
  <2>10. CASE Accounts(FALSE, n)!UpdateFidoVerifiedUser(req)
    <3>1. req.op = "store" /\ req.kind = "reset" /\ UNCHANGED keycloak
      BY <2>10, <2>r, AccountRequestFields DEF Accounts!UpdateFidoVerifiedUser
    <3>2. /\ keycloak[req.name] = req.password
          /\ user[req.name] # NoRow => user[req.name].fido = req.fido
      BY <3>1 DEF ResetUndisturbed
    <3>3. /\ user'[req.name] # NoRow => user'[req.name].fido = req.fido
          /\ req.fido /\ user'[req.name] # NoRow => user'[req.name].stored = req.password
      BY <1>u, <2>10, <2>r, <3>2 DEF Accounts!UpdateFidoVerifiedUser, Accounts!Change, Accounts!Row
    <3>4. Accounts(FALSE, n)!End(req) \/ Accounts(FALSE, n)!Go(req, "spend")
      BY <2>10 DEF Accounts!UpdateFidoVerifiedUser
    <3> QED BY <2>1, <2>2, <2>r, <3>1, <3>2, <3>3, <3>4 DEF Accounts!Go
  <2> QED BY <1>1, <2>1, <2>3, <2>4, <2>5, <2>6, <2>7, <2>8, <2>9, <2>10
          DEF Accounts!Handler, Accounts!CreateUser, Accounts!VerifyUser, Accounts!AddAccountDetails,
              Accounts!DeleteResetPasswordToken, Accounts!AddUserPassword, Accounts!Fails
<1>2. ASSUME NEW q, Accounts(FALSE, n)!Request(q),
             q.op \in {"keycloakUser", "keycloakPassword", "link", "store", "spend"} /\ q.kind = "reset" =>
               /\ q.op \in {"keycloakUser", "keycloakPassword"}
               /\ user'[q.name].fido = q.fido
      PROVE  ResetUndisturbed'
  BY <1>2 DEF Accounts!Request, ResetUndisturbed
<1>3. ASSUME NEW m \in AccountName, NEW p \in Password, NEW b \in BOOLEAN, Accounts(FALSE, n)!ResetPassword(m, p, b)
      PROVE  ResetUndisturbed'
  <2>1. PICK q : /\ Accounts(FALSE, n)!Request(q)
                 /\ q = [op |-> IF user[m].linked THEN "keycloakPassword" ELSE "keycloakUser", name |-> m,
                         gen |-> user[m].gen, password |-> p, passkey |-> FALSE, kind |-> "reset",
                         linked |-> user[m].linked, fido |-> user[m].fido, token |-> b]
    BY <1>3 DEF Accounts!ResetPassword
  <2>2. UNCHANGED user
    BY <1>3 DEF Accounts!ResetPassword
  <2> QED BY <1>2, <2>1, <2>2
<1>4. ASSUME NEW m \in AccountName, NEW p \in Password, NEW b \in BOOLEAN,
             Accounts(FALSE, n)!CreateUserForToken(m, p, b) \/ Accounts(FALSE, n)!CreateUserForUsernameToken(m, p, b)
               \/ Accounts(FALSE, n)!AddPasskey(m, p)
      PROVE  ResetUndisturbed'
  <2>1. CASE Accounts(FALSE, n)!CreateUserForToken(m, p, b)
    <3>1. PICK q : /\ Accounts(FALSE, n)!Request(q)
                   /\ q = [op |-> IF b THEN "info" ELSE "keycloakUser", name |-> m, gen |-> user[m].gen, password |-> p,
                           passkey |-> b, kind |-> "signup"]
      BY <2>1 DEF Accounts!CreateUserForToken
    <3> QED BY <1>2, <3>1
  <2>2. CASE Accounts(FALSE, n)!CreateUserForUsernameToken(m, p, b)
    <3>1. PICK q : /\ Accounts(FALSE, n)!Request(q)
                   /\ q = [op |-> "keycloakUser", name |-> m, gen |-> started + 1, password |-> p, passkey |-> b,
                           kind |-> "username"]
      BY <2>2 DEF Accounts!CreateUserForUsernameToken
    <3> QED BY <1>2, <3>1
  <2>3. CASE Accounts(FALSE, n)!AddPasskey(m, p)
    <3>1. PICK q : /\ Accounts(FALSE, n)!Request(q)
                   /\ q = [op |-> "addUserPassword", name |-> m, password |-> p]
      BY <2>3 DEF Accounts!AddPasskey
    <3> QED BY <1>2, <3>1
  <2> QED BY <1>4, <2>1, <2>2, <2>3
<1>5. ASSUME NEW m, NEW c,
             Accounts(FALSE, n)!SendVerificationMail(m, c) \/ Accounts(FALSE, n)!VerifyEmail(m, c)
      PROVE  ResetUndisturbed'
  <2>1. CASE Accounts(FALSE, n)!SendVerificationMail(m, c)
    <3>1. PICK q : /\ Accounts(FALSE, n)!Request(q)
                   /\ q = [op |-> IF c THEN "createUser" ELSE "mail", name |-> m, code |-> started + 1, invited |-> c]
      BY <2>1 DEF Accounts!SendVerificationMail
    <3> QED BY <1>2, <3>1
  <2>2. CASE Accounts(FALSE, n)!VerifyEmail(m, c)
    <3>1. PICK q : /\ Accounts(FALSE, n)!Request(q)
                   /\ q = [op |-> "verifyUser", name |-> m]
      BY <2>2 DEF Accounts!VerifyEmail
    <3> QED BY <1>2, <3>1
  <2> QED BY <1>5, <2>1, <2>2
<1>6. ASSUME pend = {}, UNCHANGED pend
      PROVE  ResetUndisturbed'
  BY <1>6 DEF ResetUndisturbed
<1>7. ASSUME UNCHANGED <<user, keycloak, pend>>
      PROVE  ResetUndisturbed'
  BY <1>7 DEF ResetUndisturbed
<1> QED BY <1>1, <1>3, <1>4, <1>5, <1>6, <1>7
        DEF Accounts!Next, Accounts!Name, AccountName, Accounts!vars, Accounts!ForgotPassword,
            Accounts!VerifyRegistration, Accounts!DeleteUser, Accounts!TokenExpires

(* When a reset ends without a fault, a passkey has the password of        *)
(* Keycloak stored.                                                        *)
LEMMA PasskeyFollows ==
  ASSUME NEW n \in Nat, AccountsIInv(FALSE, n), ResetUndisturbed, [Accounts(FALSE, n)!Next]_(Accounts(FALSE, n)!vars)
  PROVE  Accounts(FALSE, n)!PasskeyFollowsReset
<1> SUFFICES ASSUME NEW req \in pend \ pend', req.op \in {"store", "spend"}, faults' = faults,
                    req.name \in Accounts(FALSE, n)!Rows, user'[req.name].fido
             PROVE  user'[req.name].stored = keycloak'[req.name]
  BY DEF Accounts!PasskeyFollowsReset
<1>t. Accounts(FALSE, n)!TypeOK
  BY DEF AccountsIInv
<1>u. /\ user \in [AccountName -> Accounts(FALSE, n)!Row \cup {NoRow}] /\ faults \in Nat
      /\ req.name \in AccountName /\ user[req.name] # NoRow
  BY <1>t, AccountsUnfolded
<1>r. /\ req.kind = "reset" /\ keycloak[req.name] = req.password
      /\ user[req.name].fido = req.fido
      /\ req.op = "spend" /\ req.fido => user[req.name].stored = req.password
  BY <1>u, AccountRequestFields DEF AccountsIInv, ResetUndisturbed
<1>1. CASE \E r \in pend : Accounts(FALSE, n)!Handler(r)
  <2>1. Accounts(FALSE, n)!Handler(req)
    BY <1>1 DEF ResetUndisturbed
  <2>2. CASE Accounts(FALSE, n)!UpdateFidoVerifiedUser(req)
    <3>1. UNCHANGED keycloak
      BY <2>2 DEF Accounts!UpdateFidoVerifiedUser
    <3>2. CASE req.fido
      <4>1. user' = [user EXCEPT ![req.name] = [user[req.name] EXCEPT !.stored = req.password]]
        BY <2>2, <3>2 DEF Accounts!UpdateFidoVerifiedUser, Accounts!Change
      <4>2. user[req.name] \in Accounts(FALSE, n)!Row
        BY <1>u
      <4>3. user'[req.name].stored = req.password
        BY <1>u, <4>1, <4>2 DEF Accounts!Row
      <4> QED BY <1>r, <3>1, <4>3
    <3>3. CASE ~req.fido
      BY <1>r, <2>2, <3>3 DEF Accounts!UpdateFidoVerifiedUser
    <3> QED BY <3>2, <3>3
  <2>3. CASE Accounts(FALSE, n)!DeleteResetPasswordToken(req)
    BY <1>r, <2>3 DEF Accounts!DeleteResetPasswordToken
  <2>4. CASE Accounts(FALSE, n)!Fails(req)
    BY <1>u, <2>4 DEF Accounts!Fails
  <2> QED BY <2>1, <2>2, <2>3, <2>4
          DEF Accounts!Handler, Accounts!SendEmailForVerification, Accounts!CreateUser, Accounts!VerifyUser,
              Accounts!UpdateUserInfo, Accounts!CreateKeycloakUser, Accounts!ResetPasswordOfKeycloakUser,
              Accounts!UpdateUserDetails, Accounts!CreateUserByUsername, Accounts!StoreUserRole,
              Accounts!AddAccountDetails, Accounts!AddUserPassword
<1>2. CASE ~ \E r \in pend : Accounts(FALSE, n)!Handler(r)
  <2>1. pend \subseteq pend'
    BY <1>2 DEF Accounts!Next, Accounts!vars, Accounts!Request, Accounts!SendVerificationMail, Accounts!VerifyEmail,
                Accounts!CreateUserForToken, Accounts!CreateUserForUsernameToken, Accounts!ResetPassword,
                Accounts!AddPasskey, Accounts!ForgotPassword, Accounts!VerifyRegistration, Accounts!DeleteUser,
                Accounts!TokenExpires
  <2> QED BY <2>1
<1> QED BY <1>1, <1>2

(* Only deleteOrg() takes an organization away, and it looked at what      *)
(* refers to it.                                                           *)
LEMMA ReferredStays ==
  MembersIInv /\ [Members!Next]_Members!vars => Members!ReferredOrgStays
<1> SUFFICES ASSUME MembersIInv, [Members!Next]_Members!vars, NEW o \in MemberOrg, org'[o] = "gone", org[o] # "gone"
             PROVE  refs[o] \cap {"listed", "unlisted"} = {}
  BY DEF Members!ReferredOrgStays
<1>t. org \in [MemberOrg -> {"none", "row", "registered", "gone"}]
  BY DEF MembersIInv, Members!TypeOK
<1>1. ASSUME NEW req \in pend, Members!DeleteOrg(req)
      PROVE  refs[o] \cap {"listed", "unlisted"} = {}
  <2>1. req.org = o
    BY <1>1, <1>t DEF Members!DeleteOrg
  <2> QED BY <1>1, <2>1 DEF Members!DeleteOrg
<1>2. ASSUME NEW req \in pend, Members!CreateOrganization(req)
      PROVE  org'[o] # "gone"
  <2>1. PICK p : org' = org \/ org' = [org EXCEPT ![p] = "row"] \/ org' = [org EXCEPT ![p] = "registered"]
    BY <1>2 DEF Members!CreateOrganization
  <2> QED BY <1>t, <2>1
<1>3. ASSUME NEW p \in MemberOrg, NEW u \in User, Members!CreateOrgCredentials(u, p)
      PROVE  org'[o] # "gone"
  <2>1. org' = [org EXCEPT ![p] = "registered"] \/ org' = [org EXCEPT ![p] = @]
    BY <1>3 DEF Members!CreateOrgCredentials
  <2> QED BY <1>t, <2>1
<1>4. ASSUME NEW p \in MemberOrg, Members!RegisterOrgsMapUsers(p) \/ Members!DeleteClientCredentials(p)
      PROVE  org'[o] # "gone"
  BY <1>4, <1>t DEF Members!RegisterOrgsMapUsers, Members!DeleteClientCredentials
<1>5. org' # org
  OBVIOUS
<1>6. ASSUME NEW req \in pend, Members!Handler(req)
      PROVE  refs[o] \cap {"listed", "unlisted"} = {}
  <2>1. Members!DeleteOrg(req) \/ Members!CreateOrganization(req)
    BY <1>5, <1>6
       DEF Members!Handler, Members!CreateInvitation, Members!RejectInvitation, Members!UpdateClientInvitation,
           Members!AcceptWithoutClient, Members!DeleteInvitation, Members!UpdateUserClientRoles, Members!Die
  <2> QED BY <1>1, <1>2, <2>1
<1>7. ASSUME NEW u \in User, NEW p \in MemberOrg
      PROVE  /\ ~Members!CreateOrganizationCheck(u, p) /\ ~Members!CreateOrgCredentials(u, p)
             /\ ~Members!DeleteOrganization(u, p)
             /\ \A v, R : ~Members!CreateInvitationCheck(u, p, v, R) /\ ~Members!UpdateUserRoles(u, v, p, R)
  BY <1>3, <1>5 DEF Members!CreateOrganizationCheck, Members!DeleteOrganization, Members!CreateInvitationCheck,
                    Members!UpdateUserRoles
<1>8. /\ \A p \in MemberOrg : /\ ~Members!RegisterOrgsMapUsers(p) /\ ~Members!DeleteClientCredentials(p)
                               /\ \A r : ~Members!Refer(p, r)
      /\ \A u, i, s : ~Members!DeleteInvitationCheck(u, i) /\ ~Members!UpdateOrgInvitationCheck(u, i, s)
      /\ \A w : ~Members!CreateUserOrgRole(w)
      /\ \A u : ~Members!NewToken(u)
  BY <1>4, <1>5 DEF Members!Refer, Members!DeleteInvitationCheck, Members!UpdateOrgInvitationCheck,
                    Members!CreateUserOrgRole, Members!NewToken
<1>9. Members!Next
  BY <1>5 DEF Members!vars
<1> QED BY <1>6, <1>7, <1>8, <1>9 DEF Members!Next

-----------------------------------------------------------------------------
(* Together, for the part that was chosen. *)
PeopleIInv ==
  /\ part = "members" => MembersIInv
  /\ part = "sessions" => SessionsIInv
  /\ part = "accounts" => AccountsIInv(TRUE, Requests.accounts)
  /\ part = "accountsInTurn" => AccountsIInv(FALSE, Requests.accountsInTurn) /\ ResetUndisturbed

LEMMA PeopleSteps ==
  ASSUME [Next]_vars
  PROVE  /\ part' = part
         /\ part = "members" => [Members!Next]_Members!vars
         /\ part = "sessions" => [Sessions!Next]_Sessions!vars
         /\ part = "accounts" => [Accounts(TRUE, Requests.accounts)!Next]_(Accounts(TRUE, Requests.accounts)!vars)
         /\ part = "accountsInTurn" =>
              [Accounts(FALSE, Requests.accountsInTurn)!Next]_(Accounts(FALSE, Requests.accountsInTurn)!vars)
<1>1. part' = part
  BY DEF Next, vars
<1>2. part = "members" => [Members!Next]_Members!vars
  BY SalesApart DEF Next, vars, OtherParts, memberVars, Members!vars
<1>3. part = "sessions" => [Sessions!Next]_Sessions!vars
  BY SalesApart DEF Next, vars, OtherParts, sessionVars, Sessions!vars
<1>4. part = "accounts" => [Accounts(TRUE, Requests.accounts)!Next]_(Accounts(TRUE, Requests.accounts)!vars)
  BY SalesApart DEF Next, vars, OtherParts, accountVars, Accounts!vars
<1>5. part = "accountsInTurn" =>
        [Accounts(FALSE, Requests.accountsInTurn)!Next]_(Accounts(FALSE, Requests.accountsInTurn)!vars)
  BY SalesApart DEF Next, vars, OtherParts, accountVars, Accounts!vars
<1> QED BY <1>1, <1>2, <1>3, <1>4, <1>5

LEMMA PeopleInvariant == Spec => []PeopleIInv
<1>1. Init => PeopleIInv
  <2> SUFFICES ASSUME Init
               PROVE  PeopleIInv
    OBVIOUS
  <2>1. part = "members" => MembersIInv
    BY MembersInitial, SalesApart DEF Init, OtherParts
  <2>2. part = "sessions" => SessionsIInv
    BY SessionsInitial, SalesApart DEF Init, OtherParts
  <2>3. part = "accounts" => AccountsIInv(TRUE, Requests.accounts)
    BY AccountsInitial, AccountsConstants, SalesApart DEF Init, OtherParts
  <2>4. part = "accountsInTurn" => AccountsIInv(FALSE, Requests.accountsInTurn) /\ pend = {}
    <3>1. part = "accountsInTurn" => Accounts(FALSE, Requests.accountsInTurn)!Init
      BY SalesApart DEF Init, OtherParts
    <3> QED BY <3>1, AccountsInitial, AccountsConstants DEF Accounts!Init
  <2> QED BY <2>1, <2>2, <2>3, <2>4 DEF PeopleIInv, ResetUndisturbed
<1>2. PeopleIInv /\ [Next]_vars => PeopleIInv'
  <2> SUFFICES ASSUME PeopleIInv, [Next]_vars
               PROVE  PeopleIInv'
    OBVIOUS
  <2>1. part = "members" => MembersIInv'
    BY MembersInductive, PeopleSteps DEF PeopleIInv
  <2>2. part = "sessions" => SessionsIInv'
    BY SessionsInductive, PeopleSteps DEF PeopleIInv
  <2>3. part = "accounts" => AccountsIInv(TRUE, Requests.accounts)'
    BY AccountsInductive, AccountsConstants, PeopleSteps DEF PeopleIInv
  <2>4. part = "accountsInTurn" => AccountsIInv(FALSE, Requests.accountsInTurn)' /\ ResetUndisturbed'
    BY AccountsInductive, ResetStaysUndisturbed, AccountsConstants, PeopleSteps DEF PeopleIInv
  <2> QED BY <2>1, <2>2, <2>3, <2>4, PeopleSteps DEF PeopleIInv
<1> QED BY <1>1, <1>2, PTL DEF Spec

(* user, api-gateway: however sign-ups, resets, passkeys, deletions,       *)
(* logins and refreshes overlap, a linked row has a password in Keycloak,  *)
(* no faultless sign-up strands an account there, a deleted session stays  *)
(* deleted and a request made after logout is refused (createUserForToken, *)
(* updateUserDetails, updateSessionToken, JwtStrategy.validate).           *)
THEOREM AccountsStaySafe == Spec => []AccountInv
<1>1. PeopleIInv => AccountInv
  <2> SUFFICES ASSUME PeopleIInv
               PROVE  AccountInv
    OBVIOUS
  <2>1. ASSUME part = "sessions"
        PROVE  Sessions!TypeOK /\ Sessions!DeletedStaysDeleted /\ Sessions!RevokedIsRefused
    BY <2>1 DEF PeopleIInv, SessionsIInv, ChecksHonest, Sessions!RevokedIsRefused
  <2> QED BY <2>1, AccountsSafe, AccountsConstants DEF PeopleIInv, AccountInv
<1> QED BY <1>1, PeopleInvariant, PTL

(* organization, user, api-gateway: no step deletes an organization that   *)
(* is referred to (deleteOrg), lets the cleanup of a login end a live      *)
(* session (deleteInactiveSessions) or ends a reset with another password  *)
(* stored for the passkey than Keycloak has (resetPassword).               *)
THEOREM StepsStaySafe == Spec => StepsKeep
<1>1. PeopleIInv /\ [Next]_vars =>
        /\ part = "members" => Members!ReferredOrgStays
        /\ part = "sessions" => Sessions!CleanupSparesLive
        /\ part = "accountsInTurn" => Accounts(FALSE, Requests.accountsInTurn)!PasskeyFollowsReset
  <2> SUFFICES ASSUME PeopleIInv, [Next]_vars
               PROVE  /\ part = "members" => Members!ReferredOrgStays
                      /\ part = "sessions" => Sessions!CleanupSparesLive
                      /\ part = "accountsInTurn" => Accounts(FALSE, Requests.accountsInTurn)!PasskeyFollowsReset
    OBVIOUS
  <2>1. part = "members" => Members!ReferredOrgStays
    BY ReferredStays, PeopleSteps DEF PeopleIInv
  <2>2. part = "sessions" => Sessions!CleanupSparesLive
    BY SessionsCleanup, PeopleSteps DEF PeopleIInv
  <2>3. part = "accountsInTurn" => Accounts(FALSE, Requests.accountsInTurn)!PasskeyFollowsReset
    BY PasskeyFollows, AccountsConstants, PeopleSteps DEF PeopleIInv
  <2> QED BY <2>1, <2>2, <2>3
<1> QED BY <1>1, PeopleInvariant, PTL DEF Spec, StepsKeep

-----------------------------------------------------------------------------
(* marketplace: metering.  Quantities are sizes of sets of units, so that  *)
(* sums need no induction.                                                 *)
UnitsOf(f, S) == UNION {{x} \X (1..f[x]) : x \in S}
Sum(S) == Cardinality(UnitsOf(Quantity, S))
HourOf == 1..Hours
EventsAt(E) == {s \in Source : E[s] # 0}
Earlier(E, h) == {s \in EventsAt(E) : E[s] < h}
Until(E, h) == {s \in EventsAt(E) : E[s] <= h}
Over(n) == IF n > Included THEN n - Included ELSE 0
Excess(E, h) == Over(Sum(Until(E, h))) - Over(Sum(Earlier(E, h)))

LEMMA MeterConstants ==
  /\ IsFiniteSet(Source) /\ Quantity \in [Source -> Nat \ {0}] /\ Included \in Nat
  /\ Window \in Nat /\ Batch \in Nat \ {0} /\ Hours \in Nat \ {0} /\ Faults \in Nat
<1>1. Metering!IsFiniteSet(Source) = IsFiniteSet(Source)
  BY DEF IsFiniteSet, Metering!IsFiniteSet
<1> QED BY <1>1, TenancyAssumption DEF TenancyAssumption, Metering!MeteringAssumption

LEMMA MeterUnfolded ==
  /\ \A f, S : Metering!Units(f, S) = UnitsOf(f, S)
  /\ \A S : Metering!Cardinality(S) = Cardinality(S)
BY DEF Metering!Units, UnitsOf, Cardinality, Metering!Cardinality

LEMMA ExcessUnfolded ==
  /\ Metering!Recorded = EventsAt(events)
  /\ \A S : Metering!Total(S) = Sum(S)
  /\ \A h : Metering!Overage(h) = Excess(events, h)
  /\ \A n : Metering!Beyond(n) = Over(n)
<1>1. Metering!Recorded = EventsAt(events)
  BY DEF Metering!Recorded, Metering!NoHour, EventsAt
<1>2. ASSUME NEW S PROVE Metering!Total(S) = Sum(S)
  BY MeterUnfolded DEF Metering!Total, Sum
<1>3. ASSUME NEW n PROVE Metering!Beyond(n) = Over(n)
  BY DEF Metering!Beyond, Over
<1>4. ASSUME NEW h PROVE Metering!Overage(h) = Excess(events, h)
  BY <1>1, <1>2, <1>3 DEF Metering!Overage, Metering!UpTo, Metering!Before, Excess, Until, Earlier
<1> QED BY <1>1, <1>2, <1>3, <1>4

(* A unit is an event and a number up to its quantity.                     *)
LEMMA UnitMember ==
  ASSUME NEW f, NEW S, NEW p
  PROVE  p \in UnitsOf(f, S) <=> \E x \in S : \E k \in 1..f[x] : p = <<x, k>>
BY DEF UnitsOf

LEMMA UnitsFinite ==
  ASSUME NEW S, IsFiniteSet(S), NEW f, \A x \in S : f[x] \in Nat
  PROVE  IsFiniteSet(UnitsOf(f, S)) /\ Cardinality(UnitsOf(f, S)) \in Nat
<1> DEFINE g == [x \in S |-> {x} \X (1..f[x])]
<1>1. IsFiniteSet({g[x] : x \in S})
  <2>1. g \in Surjection(S, {g[x] : x \in S})
    BY DEF Surjection
  <2> QED BY <2>1, FS_Surjection
<1>2. ASSUME NEW x \in S PROVE IsFiniteSet(g[x])
  <2>1. IsFiniteSet(1..f[x])
    BY FS_Interval
  <2>2. IsFiniteSet({x} \X (1..f[x]))
    BY <2>1, FS_Singleton, FS_Product
  <2> QED BY <2>2
<1>3. IsFiniteSet(UNION {g[x] : x \in S})
  BY <1>1, <1>2, FS_UNION
<1>4. UNION {g[x] : x \in S} = UnitsOf(f, S)
  BY DEF UnitsOf
<1> QED BY <1>3, <1>4, FS_CardinalityType

LEMMA SumType ==
  ASSUME NEW S \in SUBSET Source
  PROVE  IsFiniteSet(UnitsOf(Quantity, S)) /\ Sum(S) \in Nat
<1>1. IsFiniteSet(S) /\ \A x \in S : Quantity[x] \in Nat
  BY MeterConstants, FS_Subset
<1> QED BY <1>1, UnitsFinite DEF Sum

LEMMA SumGrows ==
  ASSUME NEW T \in SUBSET Source, NEW S \in SUBSET T
  PROVE  Sum(S) <= Sum(T)
<1>1. UnitsOf(Quantity, S) \subseteq UnitsOf(Quantity, T)
  BY UnitMember
<1> QED BY <1>1, SumType, FS_Subset DEF Sum

LEMMA SumAdds ==
  ASSUME NEW S \in SUBSET Source, NEW x \in Source \ S
  PROVE  Sum(S \cup {x}) = Sum(S) + Quantity[x]
<1> DEFINE A == UnitsOf(Quantity, S)
           B == {x} \X (1..Quantity[x])
<1>1. IsFiniteSet(A) /\ Cardinality(A) \in Nat
  BY SumType DEF Sum
<1>2. IsFiniteSet(B) /\ Cardinality(B) = Quantity[x]
  <2>1. Quantity[x] \in Nat \ {0}
    BY MeterConstants
  <2>2. IsFiniteSet(1..Quantity[x]) /\ Cardinality(1..Quantity[x]) = Quantity[x]
    BY <2>1, FS_Interval
  <2>3. IsFiniteSet({x}) /\ Cardinality({x}) = 1
    BY FS_Singleton
  <2>4. IsFiniteSet(B) /\ Cardinality(B) = 1 * Quantity[x]
    BY <2>2, <2>3, FS_Product
  <2> QED BY <2>1, <2>4
<1>3. A \cap B = {}
  BY UnitMember
<1>4. UnitsOf(Quantity, S \cup {x}) = A \cup B
  BY UnitMember
<1>5. Cardinality(A \cap B) = 0
  BY <1>3, FS_EmptySet
<1>6. Cardinality(A \cup B) = Cardinality(A) + Cardinality(B) - Cardinality(A \cap B)
  BY <1>1, <1>2, FS_Union
<1>7. Quantity[x] \in Nat
  BY MeterConstants
<1>8. Sum(S) = Cardinality(A) /\ Sum(S \cup {x}) = Cardinality(A \cup B)
  BY <1>4 DEF Sum
<1> HIDE DEF A, B
<1> QED BY <1>1, <1>2, <1>5, <1>6, <1>7, <1>8

LEMMA OverType ==
  ASSUME NEW m \in Nat, NEW n \in Nat, m <= n
  PROVE  /\ Over(m) \in Nat /\ Over(m) <= m /\ Over(m) <= Over(n)
         /\ \A q \in Nat : Over(n) - Over(m) <= Over(n + q) - Over(m + q)
BY MeterConstants DEF Over

LEMMA ExcessType ==
  ASSUME NEW E \in [Source -> HourOf \cup {0}], NEW h \in HourOf
  PROVE  /\ Excess(E, h) \in Nat /\ Excess(E, h) <= Sum(Source)
         /\ Sum(Until(E, h)) \in Nat /\ Sum(Earlier(E, h)) \in Nat /\ Sum(Earlier(E, h)) <= Sum(Until(E, h))
<1>1. Until(E, h) \in SUBSET Source /\ Earlier(E, h) \in SUBSET Source /\ Earlier(E, h) \in SUBSET Until(E, h)
  BY MeterConstants DEF Until, Earlier, EventsAt, HourOf
<1>2. /\ Sum(Until(E, h)) \in Nat /\ Sum(Earlier(E, h)) \in Nat /\ Sum(Source) \in Nat
      /\ Sum(Earlier(E, h)) <= Sum(Until(E, h)) /\ Sum(Until(E, h)) <= Sum(Source)
  BY <1>1, SumType, SumGrows
<1>3. Over(Sum(Until(E, h))) \in Nat /\ Over(Sum(Earlier(E, h))) \in Nat /\ Over(Sum(Earlier(E, h))) <= Over(Sum(Until(E, h)))
      /\ Over(Sum(Until(E, h))) <= Sum(Until(E, h))
  BY <1>2, OverType
<1> QED BY <1>2, <1>3 DEF Excess

(* An event, however late it comes, takes nothing off the excess of an     *)
(* hour: what is beyond the quota before the hour moves with it.           *)
LEMMA ExcessGrows ==
  ASSUME NEW E \in [Source -> HourOf \cup {0}], NEW s \in Source, E[s] = 0, NEW k \in HourOf,
         NEW F, F = [E EXCEPT ![s] = k], NEW h \in HourOf
  PROVE  Excess(E, h) <= Excess(F, h)
<1>0. Hours \in Nat
  BY MeterConstants
<1>1. /\ Until(E, h) \in SUBSET Source /\ Earlier(E, h) \in SUBSET Source
      /\ s \in Source \ Until(E, h) /\ s \in Source \ Earlier(E, h)
  BY DEF Until, Earlier, EventsAt
<1>2. Sum(Until(E, h)) \in Nat /\ Sum(Earlier(E, h)) \in Nat /\ Sum(Earlier(E, h)) <= Sum(Until(E, h))
  BY ExcessType
<1>3. Quantity[s] \in Nat
  BY MeterConstants
<1>4. /\ Sum(Until(E, h) \cup {s}) = Sum(Until(E, h)) + Quantity[s]
      /\ Sum(Earlier(E, h) \cup {s}) = Sum(Earlier(E, h)) + Quantity[s]
  BY <1>1, SumAdds
<1>5. CASE k < h
  <2>1. Until(F, h) = Until(E, h) \cup {s} /\ Earlier(F, h) = Earlier(E, h) \cup {s}
    BY <1>0, <1>5 DEF Until, Earlier, EventsAt, HourOf
  <2>2. Over(Sum(Until(E, h))) - Over(Sum(Earlier(E, h)))
          <= Over(Sum(Until(E, h)) + Quantity[s]) - Over(Sum(Earlier(E, h)) + Quantity[s])
    BY <1>2, <1>3, OverType
  <2> QED BY <1>4, <2>1, <2>2 DEF Excess
<1>6. CASE k = h
  <2>1. Until(F, h) = Until(E, h) \cup {s} /\ Earlier(F, h) = Earlier(E, h)
    BY <1>0, <1>6 DEF Until, Earlier, EventsAt, HourOf
  <2>2. Over(Sum(Until(E, h))) <= Over(Sum(Until(E, h)) + Quantity[s])
    BY <1>2, <1>3, OverType
  <2>3. /\ Over(Sum(Until(E, h))) \in Nat /\ Over(Sum(Until(E, h)) + Quantity[s]) \in Nat
        /\ Over(Sum(Earlier(E, h))) \in Nat
    BY <1>2, <1>3, OverType
  <2>4. /\ Excess(E, h) = Over(Sum(Until(E, h))) - Over(Sum(Earlier(E, h)))
        /\ Excess(F, h) = Over(Sum(Until(E, h)) + Quantity[s]) - Over(Sum(Earlier(E, h)))
    BY <1>4, <2>1 DEF Excess
  <2> QED BY <2>2, <2>3, <2>4
<1>7. CASE k > h
  <2>1. Until(F, h) = Until(E, h) /\ Earlier(F, h) = Earlier(E, h)
    BY <1>0, <1>7 DEF Until, Earlier, EventsAt, HourOf
  <2>2. Excess(E, h) \in Nat
    BY ExcessType
  <2> QED BY <2>1, <2>2 DEF Excess
<1> QED BY <1>0, <1>5, <1>6, <1>7 DEF HourOf

(* What is billed in the hours, laid side by side, fits into the usage     *)
(* beyond the quota: the units of an hour are numbered from what is beyond *)
(* it before the hour.                                                     *)
LEMMA SideBySide ==
  ASSUME NEW a \in Nat, NEW b \in Nat, NEW i \in 1..b, NEW e \in Nat, a + b <= e,
         NEW c \in Nat, NEW d \in Nat, NEW j \in 1..d, NEW g \in Nat, c + d <= g,
         a + i = c + j
  PROVE  ~(e <= c) /\ ~(g <= a) /\ (a = c => i = j)
OBVIOUS

LEMMA BilledFits ==
  ASSUME NEW E \in [Source -> HourOf \cup {0}], NEW B \in [HourOf -> Nat], \A h \in HourOf : B[h] <= Excess(E, h)
  PROVE  Cardinality(UnitsOf(B, HourOf)) <= Over(Sum(EventsAt(E)))
<1> DEFINE U == UnitsOf(B, HourOf)
           n == Over(Sum(EventsAt(E)))
           first(h) == Over(Sum(Earlier(E, h)))
           f == [p \in U |-> first(p[1]) + p[2]]
<1>1. n \in Nat /\ Sum(EventsAt(E)) \in Nat
  BY SumType, OverType DEF EventsAt
<1>2. ASSUME NEW h \in HourOf
      PROVE  /\ first(h) \in Nat /\ first(h) + B[h] <= Over(Sum(Until(E, h)))
             /\ Over(Sum(Until(E, h))) \in Nat /\ Over(Sum(Until(E, h))) <= n
  <2>1. Until(E, h) \in SUBSET EventsAt(E) /\ EventsAt(E) \in SUBSET Source
    BY DEF Until, EventsAt
  <2>2. Sum(Until(E, h)) <= Sum(EventsAt(E))
    BY <2>1, SumGrows
  <2>3. Sum(Until(E, h)) \in Nat /\ Sum(Earlier(E, h)) \in Nat
    BY ExcessType
  <2>4. first(h) \in Nat /\ Over(Sum(Until(E, h))) \in Nat /\ Over(Sum(Until(E, h))) <= n
    BY <1>1, <2>2, <2>3, OverType
  <2>5. B[h] \in Nat /\ B[h] <= Over(Sum(Until(E, h))) - first(h)
    BY DEF Excess
  <2> QED BY <2>4, <2>5
<1>3. ASSUME NEW h \in HourOf, NEW i \in HourOf, h < i
      PROVE  Over(Sum(Until(E, h))) <= first(i)
  <2>1. Until(E, h) \in SUBSET Earlier(E, i) /\ Earlier(E, i) \in SUBSET Source
    BY <1>3, MeterConstants DEF Until, Earlier, EventsAt, HourOf
  <2>2. Sum(Until(E, h)) \in Nat /\ Sum(Earlier(E, i)) \in Nat
    BY ExcessType
  <2> QED BY <2>1, <2>2, SumGrows, OverType
<1>4. ASSUME NEW p \in U
      PROVE  /\ p[1] \in HourOf /\ p[2] \in 1..B[p[1]] /\ p = <<p[1], p[2]>> /\ B[p[1]] \in Nat
             /\ f[p] = first(p[1]) + p[2]
  BY UnitMember
<1>5. ASSUME NEW p \in U PROVE f[p] \in 1..n
  <2>1. /\ p[1] \in HourOf /\ p[2] \in 1..B[p[1]] /\ B[p[1]] \in Nat /\ f[p] = first(p[1]) + p[2]
    BY <1>4
  <2>2. /\ first(p[1]) \in Nat /\ first(p[1]) + B[p[1]] <= Over(Sum(Until(E, p[1])))
        /\ Over(Sum(Until(E, p[1]))) \in Nat /\ Over(Sum(Until(E, p[1]))) <= n
    BY <2>1, <1>2
  <2> HIDE DEF f, first, n
  <2> QED BY <1>1, <2>1, <2>2
<1>6. ASSUME NEW p \in U, NEW q \in U, f[p] = f[q] PROVE p = q
  <2>1. /\ p[1] \in HourOf /\ p[2] \in 1..B[p[1]] /\ B[p[1]] \in Nat /\ f[p] = first(p[1]) + p[2] /\ p = <<p[1], p[2]>>
        /\ q[1] \in HourOf /\ q[2] \in 1..B[q[1]] /\ B[q[1]] \in Nat /\ f[q] = first(q[1]) + q[2] /\ q = <<q[1], q[2]>>
    BY <1>4
  <2>2. /\ first(p[1]) \in Nat /\ first(p[1]) + B[p[1]] <= Over(Sum(Until(E, p[1]))) /\ Over(Sum(Until(E, p[1]))) \in Nat
        /\ first(q[1]) \in Nat /\ first(q[1]) + B[q[1]] <= Over(Sum(Until(E, q[1]))) /\ Over(Sum(Until(E, q[1]))) \in Nat
    BY <2>1, <1>2
  <2>3. /\ p[1] < q[1] => Over(Sum(Until(E, p[1]))) <= first(q[1])
        /\ q[1] < p[1] => Over(Sum(Until(E, q[1]))) <= first(p[1])
    BY <2>1, <1>3
  <2>4. p[1] \in Nat /\ q[1] \in Nat
    BY <2>1, MeterConstants DEF HourOf
  <2>5. /\ ~(Over(Sum(Until(E, p[1]))) <= first(q[1])) /\ ~(Over(Sum(Until(E, q[1]))) <= first(p[1]))
        /\ first(p[1]) = first(q[1]) => p[2] = q[2]
    <3>1. first(p[1]) + p[2] = first(q[1]) + q[2]
      BY <1>6, <2>1
    <3> HIDE DEF f, first, n
    <3> QED BY <2>1, <2>2, <3>1, SideBySide
  <2> HIDE DEF f, first, n
  <2>6. p[1] = q[1]
    BY <2>3, <2>4, <2>5
  <2>7. p[2] = q[2]
    BY <2>5, <2>6
  <2> QED BY <2>1, <2>6, <2>7
<1>7. f \in Injection(U, 1..n)
  <2>1. f \in [U -> 1..n]
    BY <1>5
  <2> HIDE DEF f, U, n
  <2> QED BY <2>1, <1>6 DEF Injection, IsInjective
<1>8. IsFiniteSet(1..n) /\ Cardinality(1..n) = n
  <2> HIDE DEF n
  <2> QED BY <1>1, FS_Interval
<1>9. Cardinality(U) <= Cardinality(1..n)
  BY <1>7, <1>8, FS_Injection
<1> QED BY <1>8, <1>9

-----------------------------------------------------------------------------
(* The inductive invariant: whatever a row, a run or Microsoft has of an   *)
(* hour is at most the hour's excess, which only grows.                    *)
NoUse == [status |-> "none", quantity |-> 0]
UsageRow == [status : {"pending", "failed", "expired", "accepted", "duplicate"}, quantity : Nat]
Fits(E, U, B) ==
  /\ U \in [HourOf -> UsageRow \cup {NoUse}] /\ B \in [HourOf -> Nat]
  /\ \A h \in HourOf : B[h] <= Excess(E, h)
  /\ \A h \in HourOf : U[h] # NoUse =>
       U[h].quantity \in 1..Excess(E, h) /\ (U[h].status \in {"accepted", "duplicate"} => B[h] > 0)
Billable(E, T) == T \subseteq HourOf \X Nat /\ \A t \in T : t[2] \in 1..Excess(E, t[1])
Listed(U, T) == \A t \in T : U[t[1]] # NoUse
Results(R, U, B) ==
  /\ R \subseteq HourOf \X {"accepted", "duplicate", "failed"} /\ Listed(U, R)
  /\ \A r \in R : r[2] # "failed" => B[r[1]] > 0
JobFits(w, E, U, B) ==
  \/ w = [step |-> "idle"] \/ w = [step |-> "list"]
  \/ \E T : w = [step |-> "write", todo |-> T] /\ Billable(E, T)
  \/ \E X, T : /\ w = [step |-> "submit", expired |-> X, batch |-> T]
               /\ X \subseteq HourOf /\ (\A h \in X : U[h] # NoUse) /\ Billable(E, T) /\ Listed(U, T)
  \/ \E R : w = [step |-> "results", results |-> R] /\ Results(R, U, B)
MeterTyped ==
  /\ now \in HourOf /\ admitted \subseteq Source /\ EventsAt(events) \subseteq admitted
  /\ events \in [Source -> HourOf \cup {0}] /\ subscribed \in BOOLEAN /\ faults \in 0..Faults
MeterIInv ==
  /\ MeterTyped /\ Fits(events, usage, billed)
  /\ job = [j \in Jobs |-> job[j]] /\ \A j \in Jobs : JobFits(job[j], events, usage, billed)

(* What steps may do to the state a run depends on.                        *)
Follows(E, U, B, F, V, C) ==
  /\ \A h \in HourOf : Excess(E, h) \in Nat /\ Excess(F, h) \in Nat /\ Excess(E, h) <= Excess(F, h)
  /\ \A h \in HourOf : U[h] # NoUse => V[h] # NoUse
  /\ \A h \in HourOf : B[h] > 0 => C[h] > 0

LEMMA JobKept ==
  ASSUME NEW E, NEW U, NEW B, NEW F, NEW V, NEW C, Follows(E, U, B, F, V, C), NEW w, JobFits(w, E, U, B)
  PROVE  JobFits(w, F, V, C)
<1>1. ASSUME NEW T, Billable(E, T) PROVE Billable(F, T)
  <2>1. ASSUME NEW t \in T PROVE t[2] \in 1..Excess(F, t[1])
    <3>1. t[1] \in HourOf /\ t[2] \in 1..Excess(E, t[1])
      BY <1>1 DEF Billable
    <3>2. Excess(E, t[1]) \in Nat /\ Excess(F, t[1]) \in Nat /\ Excess(E, t[1]) <= Excess(F, t[1])
      BY <3>1 DEF Follows
    <3> QED BY <3>1, <3>2
  <2> QED BY <1>1, <2>1 DEF Billable
<1>2. ASSUME NEW T, NEW X, T \subseteq HourOf \X X, Listed(U, T) PROVE Listed(V, T)
  BY <1>2 DEF Listed, Follows
<1>3. ASSUME NEW R, Results(R, U, B) PROVE Results(R, V, C)
  <2>1. R \subseteq HourOf \X {"accepted", "duplicate", "failed"} /\ Listed(V, R)
    BY <1>2, <1>3 DEF Results
  <2>2. ASSUME NEW r \in R, r[2] # "failed" PROVE C[r[1]] > 0
    <3>1. r[1] \in HourOf /\ B[r[1]] > 0
      BY <1>3, <2>2 DEF Results
    <3> QED BY <3>1 DEF Follows
  <2> QED BY <2>1, <2>2 DEF Results
<1>4. CASE w = [step |-> "idle"] \/ w = [step |-> "list"]
  BY <1>4 DEF JobFits
<1>5. CASE \E T : w = [step |-> "write", todo |-> T] /\ Billable(E, T)
  BY <1>1, <1>5 DEF JobFits
<1>6. ASSUME NEW X, NEW T, w = [step |-> "submit", expired |-> X, batch |-> T],
             X \subseteq HourOf, \A h \in X : U[h] # NoUse, Billable(E, T), Listed(U, T)
      PROVE  JobFits(w, F, V, C)
  <2>1. Billable(F, T)
    BY <1>1, <1>6
  <2>2. Listed(V, T)
    BY <1>2, <1>6 DEF Billable
  <2>3. \A h \in X : V[h] # NoUse
    BY <1>6 DEF Follows
  <2> QED BY <1>6, <2>1, <2>2, <2>3 DEF JobFits
<1>7. CASE \E R : w = [step |-> "results", results |-> R] /\ Results(R, U, B)
  BY <1>3, <1>7 DEF JobFits
<1> QED BY <1>4, <1>5, <1>6, <1>7 DEF JobFits

(* A run's step.                                                           *)
LEMMA MeterJobStep ==
  ASSUME MeterIInv, NEW j \in Jobs, NEW next, job' = [job EXCEPT ![j] = next],
         JobFits(next, events', usage', billed'), Follows(events, usage, billed, events', usage', billed'),
         MeterTyped', Fits(events, usage, billed)'
  PROVE  MeterIInv'
<1>1. job = [i \in Jobs |-> job[i]] /\ \A i \in Jobs : JobFits(job[i], events, usage, billed)
  BY DEF MeterIInv
<1>2. job' = [i \in Jobs |-> job'[i]] /\ job'[j] = next /\ \A i \in Jobs : i # j => job'[i] = job[i]
  BY <1>1
<1>3. \A i \in Jobs : JobFits(job[i], events', usage', billed')
  BY <1>1, JobKept
<1>4. \A i \in Jobs : JobFits(job'[i], events', usage', billed')
  BY <1>2, <1>3
<1> QED BY <1>2, <1>4 DEF MeterIInv

(* A step of something else.                                               *)
LEMMA MeterQuiet ==
  ASSUME MeterIInv, UNCHANGED job, Follows(events, usage, billed, events', usage', billed'),
         MeterTyped', Fits(events, usage, billed)'
  PROVE  MeterIInv'
<1>1. job = [i \in Jobs |-> job[i]] /\ \A i \in Jobs : JobFits(job[i], events, usage, billed)
  BY DEF MeterIInv
<1>2. \A i \in Jobs : JobFits(job[i], events', usage', billed')
  BY <1>1, JobKept
<1> QED BY <1>1, <1>2 DEF MeterIInv

LEMMA FollowsItself ==
  ASSUME MeterTyped
  PROVE  Follows(events, usage, billed, events, usage, billed)
<1>1. \A h \in HourOf : Excess(events, h) \in Nat
  BY ExcessType DEF MeterTyped
<1> QED BY <1>1 DEF Follows

LEMMA MeterUsers ==
  ASSUME MeterIInv, \/ \E s \in Source : Metering!CanActivate(s) \/ Metering!Bypass(s)
                    \/ Metering!HourPasses \/ Metering!SubscriptionChanges
  PROVE  MeterIInv'
<1>1. UNCHANGED <<events, usage, billed, job, faults>>
  BY DEF Metering!CanActivate, Metering!Bypass, Metering!HourPasses, Metering!SubscriptionChanges
<1>2. MeterTyped
  BY DEF MeterIInv
<1>3. MeterTyped'
  <2>1. \/ \E s \in Source : admitted' = admitted \cup {s} /\ UNCHANGED <<now, subscribed>>
        \/ now < Hours /\ now' = now + 1 /\ UNCHANGED <<admitted, subscribed>>
        \/ subscribed' = ~subscribed /\ UNCHANGED <<admitted, now>>
    BY DEF Metering!CanActivate, Metering!Bypass, Metering!HourPasses, Metering!SubscriptionChanges
  <2>2. now' \in HourOf
    BY <1>2, <2>1, MeterConstants DEF MeterTyped, HourOf
  <2>3. subscribed' \in BOOLEAN /\ admitted' \subseteq Source /\ admitted \subseteq admitted'
    BY <1>2, <2>1 DEF MeterTyped
  <2>4. EventsAt(events') = EventsAt(events) /\ events' = events /\ faults' = faults
    BY <1>1
  <2> QED BY <1>2, <2>2, <2>3, <2>4, Zenon DEF MeterTyped
<1>4. Follows(events, usage, billed, events', usage', billed')
  BY <1>1, <1>2, FollowsItself
<1>5. Fits(events, usage, billed)'
  BY <1>1 DEF MeterIInv
<1> QED BY <1>1, <1>3, <1>4, <1>5, MeterQuiet

LEMMA FitsOn ==
  ASSUME NEW E, NEW U, NEW B, NEW F, Follows(E, U, B, F, U, B), Fits(E, U, B)
  PROVE  Fits(F, U, B)
<1>1. ASSUME NEW h \in HourOf
      PROVE  /\ B[h] <= Excess(F, h)
             /\ U[h] # NoUse =>
                  U[h].quantity \in 1..Excess(F, h) /\ (U[h].status \in {"accepted", "duplicate"} => B[h] > 0)
  <2>1. Excess(E, h) \in Nat /\ Excess(F, h) \in Nat /\ Excess(E, h) <= Excess(F, h)
    BY DEF Follows
  <2>2. /\ B[h] <= Excess(E, h) /\ B[h] \in Nat
        /\ U[h] # NoUse =>
             U[h].quantity \in 1..Excess(E, h) /\ (U[h].status \in {"accepted", "duplicate"} => B[h] > 0)
    BY DEF Fits
  <2>3. B[h] <= Excess(F, h)
    BY <2>1, <2>2
  <2>4. U[h].quantity \in 1..Excess(E, h) => U[h].quantity \in 1..Excess(F, h)
    BY <2>1
  <2> QED BY <2>2, <2>3, <2>4
<1> QED BY <1>1 DEF Fits

LEMMA MeterRecords ==
  ASSUME MeterIInv, NEW s \in Source, NEW h \in HourOf, Metering!RecordUsageEvent(s, h)
  PROVE  MeterIInv'
<1>1. /\ s \in admitted /\ UNCHANGED <<now, admitted, usage, billed, job, subscribed, faults>>
      /\ events' = [events EXCEPT ![s] = IF events[s] = 0 THEN h ELSE events[s]]
  BY DEF Metering!RecordUsageEvent, Metering!NoHour
<1>2. MeterTyped /\ events \in [Source -> HourOf \cup {0}] /\ EventsAt(events) \subseteq admitted
  BY DEF MeterIInv, MeterTyped
<1>3. events' \in [Source -> HourOf \cup {0}] /\ EventsAt(events') \subseteq admitted
  BY <1>1, <1>2 DEF EventsAt
<1>4. MeterTyped'
  BY <1>1, <1>2, <1>3 DEF MeterTyped
<1>5. ASSUME NEW i \in HourOf
      PROVE  /\ Excess(events, i) \in Nat /\ Excess(events', i) \in Nat
             /\ Excess(events, i) <= Excess(events', i)
  <2>1. Excess(events, i) \in Nat /\ Excess(events', i) \in Nat
    BY <1>2, <1>3, ExcessType
  <2>2. PICK E, F : E = events /\ F = events'
    OBVIOUS
  <2>3. Excess(E, i) <= Excess(F, i)
    <3>1. CASE E[s] = 0
      <4>1. F = [E EXCEPT ![s] = h] /\ E \in [Source -> HourOf \cup {0}]
        BY <1>1, <1>2, <2>2, <3>1
      <4> QED BY <3>1, <4>1, ExcessGrows
    <3>2. CASE E[s] # 0
      <4>1. F = E
        BY <1>1, <1>2, <2>2, <3>2
      <4> QED BY <2>1, <2>2, <4>1
    <3> QED BY <3>1, <3>2
  <2> QED BY <2>1, <2>2, <2>3
<1>6. Follows(events, usage, billed, events', usage, billed)
  BY <1>5 DEF Follows
<1>7. Fits(events', usage, billed)
  BY <1>6, FitsOn DEF MeterIInv
<1> QED BY <1>1, <1>4, <1>6, <1>7, MeterQuiet

(* A run reads the excess of the hours.                                    *)
LEMMA MeterAggregates ==
  ASSUME MeterIInv, NEW j \in Jobs, Metering!AggregateUsage(j)
  PROVE  MeterIInv'
<1>0. MeterTyped
  BY DEF MeterIInv
<1> DEFINE T == {<<h, Excess(events, h)>> : h \in {k \in HourOf : Excess(events, k) > 0}}
<1>1. PICK next : /\ next \in {[step |-> "write", todo |-> T], [step |-> "list"]}
                  /\ job' = [job EXCEPT ![j] = next]
  <2>1. {<<h, Metering!Overage(h)>> : h \in {k \in Metering!Hour : Metering!Overage(k) > 0}} = T
    BY ExcessUnfolded DEF Metering!Hour, HourOf
  <2> HIDE DEF T
  <2> QED BY <2>1 DEF Metering!AggregateUsage, Metering!Enter
<1>2. UNCHANGED <<now, admitted, events, usage, billed, subscribed, faults>>
  BY DEF Metering!AggregateUsage
<1>3. Billable(events, T)
  <2>1. ASSUME NEW t \in T PROVE t \in HourOf \X Nat /\ t[2] \in 1..Excess(events, t[1])
    <3>1. PICK h \in HourOf : Excess(events, h) > 0 /\ t = <<h, Excess(events, h)>>
      OBVIOUS
    <3>2. Excess(events, h) \in Nat
      BY <1>0, ExcessType DEF MeterTyped
    <3> QED BY <3>1, <3>2
  <2> HIDE DEF T
  <2> QED BY <2>1 DEF Billable
<1>4. JobFits(next, events, usage, billed)
  <2> HIDE DEF T
  <2> QED BY <1>1, <1>3 DEF JobFits
<1>5. Follows(events, usage, billed, events, usage, billed)
  BY <1>0, FollowsItself
<1>6. MeterTyped' /\ Fits(events, usage, billed)' /\ JobFits(next, events', usage', billed')
      /\ Follows(events, usage, billed, events', usage', billed')
  BY <1>0, <1>2, <1>4, <1>5 DEF MeterTyped, MeterIInv
<1> QED BY <1>1, <1>6, MeterJobStep

(* What the step of a run says of the run.                                 *)
LEMMA JobIs ==
  ASSUME NEW w, NEW E, NEW U, NEW B, JobFits(w, E, U, B)
  PROVE  /\ w.step = "write" => w = [step |-> "write", todo |-> w.todo] /\ Billable(E, w.todo)
         /\ w.step = "submit" => /\ w = [step |-> "submit", expired |-> w.expired, batch |-> w.batch]
                                 /\ w.expired \subseteq HourOf /\ (\A h \in w.expired : U[h] # NoUse)
                                 /\ Billable(E, w.batch) /\ Listed(U, w.batch)
         /\ w.step = "results" => w = [step |-> "results", results |-> w.results] /\ Results(w.results, U, B)
<1>1. CASE w = [step |-> "idle"] \/ w = [step |-> "list"]
  BY <1>1
<1>2. ASSUME NEW T, w = [step |-> "write", todo |-> T], Billable(E, T)
      PROVE  w.step = "write" /\ w.todo = T
  BY <1>2
<1>3. ASSUME NEW X, NEW T, w = [step |-> "submit", expired |-> X, batch |-> T]
      PROVE  w.step = "submit" /\ w.expired = X /\ w.batch = T
  BY <1>3
<1>4. ASSUME NEW R, w = [step |-> "results", results |-> R]
      PROVE  w.step = "results" /\ w.results = R
  BY <1>4
<1> QED BY <1>1, <1>2, <1>3, <1>4 DEF JobFits

(* A row's status or quantity is written.                                  *)
Put(U, h, st, q) == [U EXCEPT ![h] = [status |-> st, quantity |-> q]]
LEMMA RowWritten ==
  ASSUME NEW E, NEW U, NEW B, Fits(E, U, B), NEW h \in HourOf, NEW V, NEW st, NEW q,
         V = Put(U, h, st, q), q \in 1..Excess(E, h), Excess(E, h) \in Nat,
         st \in {"pending", "failed", "expired", "accepted", "duplicate"},
         st \in {"accepted", "duplicate"} => B[h] > 0
  PROVE  Fits(E, V, B) /\ \A i \in HourOf : U[i] # NoUse => V[i] # NoUse
<1> DEFINE r == [status |-> st, quantity |-> q]
<1>1. r \in UsageRow /\ r # NoUse /\ r.quantity = q /\ r.status = st
  BY DEF UsageRow, NoUse
<1>2. U \in [HourOf -> UsageRow \cup {NoUse}]
  BY DEF Fits
<1>3. V[h] = r /\ \A i \in HourOf : i # h => V[i] = U[i]
  BY <1>2 DEF Put
<1> HIDE DEF r
<1>4. V \in [HourOf -> UsageRow \cup {NoUse}]
  BY <1>1, <1>2 DEF r, Put
<1>5. \A i \in HourOf : U[i] # NoUse => V[i] # NoUse
  BY <1>1, <1>3
<1>6. ASSUME NEW i \in HourOf, V[i] # NoUse
      PROVE  V[i].quantity \in 1..Excess(E, i) /\ (V[i].status \in {"accepted", "duplicate"} => B[i] > 0)
  <2>1. CASE i = h
    BY <1>1, <1>3, <2>1
  <2>2. CASE i # h
    BY <1>3, <1>6, <2>2 DEF Fits
  <2> QED BY <2>1, <2>2
<1> QED BY <1>4, <1>5, <1>6 DEF Fits

LEMMA MeterWrites ==
  ASSUME MeterIInv, NEW j \in Jobs, Metering!CreateOrUpdateUsageEvent(j)
  PROVE  MeterIInv'
<1>0. /\ MeterTyped /\ Fits(events, usage, billed) /\ JobFits(job[j], events, usage, billed)
      /\ usage \in [HourOf -> UsageRow \cup {NoUse}]
  BY DEF MeterIInv, Fits
<1>1. /\ UNCHANGED <<now, admitted, events, billed, subscribed, faults>> /\ job[j].step = "write"
      /\ \/ \E t \in job[j].todo :
              /\ usage' = [usage EXCEPT ![t[1]] = [status |-> IF usage[t[1]] = NoUse THEN "pending" ELSE usage[t[1]].status,
                                                   quantity |-> t[2]]]
              /\ job' = [job EXCEPT ![j] = [job[j] EXCEPT !.todo = job[j].todo \ {t}]]
         \/ job' = [job EXCEPT ![j] = [step |-> "list"]] /\ usage' = usage
  BY DEF Metering!CreateOrUpdateUsageEvent, Metering!Enter, Metering!NoUsage, NoUse
<1>2. PICK T : T = job[j].todo /\ job[j] = [step |-> "write", todo |-> T] /\ Billable(events, T)
  BY <1>0, <1>1, JobIs
<1>3. MeterTyped'
  BY <1>0, <1>1 DEF MeterTyped
<1>4. Follows(events, usage, billed, events, usage, billed)
  BY <1>0, FollowsItself
<1>5. ASSUME NEW t \in T,
             usage' = [usage EXCEPT ![t[1]] = [status |-> IF usage[t[1]] = NoUse THEN "pending" ELSE usage[t[1]].status,
                                                   quantity |-> t[2]]],
             job' = [job EXCEPT ![j] = [job[j] EXCEPT !.todo = T \ {t}]]
      PROVE  MeterIInv'
  <2>1. t[1] \in HourOf /\ t[2] \in 1..Excess(events, t[1])
    BY <1>2 DEF Billable
  <2>2. PICK st : st = IF usage[t[1]] = NoUse THEN "pending" ELSE usage[t[1]].status
    OBVIOUS
  <2>3. /\ st \in {"pending", "failed", "expired", "accepted", "duplicate"}
        /\ st \in {"accepted", "duplicate"} => billed[t[1]] > 0
    BY <1>0, <2>1, <2>2 DEF Fits, UsageRow
  <2>4. Excess(events, t[1]) \in Nat
    BY <1>0, <2>1, ExcessType DEF MeterTyped
  <2>5. usage' = [usage EXCEPT ![t[1]] = [status |-> st, quantity |-> t[2]]]
    BY <1>5, <2>2
  <2>6. Fits(events, usage', billed) /\ \A i \in HourOf : usage[i] # NoUse => usage'[i] # NoUse
    <3>1. PICK h, q, V : h = t[1] /\ q = t[2] /\ V = usage'
      OBVIOUS
    <3>2. V = Put(usage, h, st, q)
      BY <2>5, <3>1, Zenon DEF Put
    <3>3. /\ h \in HourOf /\ q \in 1..Excess(events, h) /\ Excess(events, h) \in Nat
          /\ st \in {"accepted", "duplicate"} => billed[h] > 0
      BY <2>1, <2>3, <2>4, <3>1
    <3>4. Fits(events, V, billed) /\ \A i \in HourOf : usage[i] # NoUse => V[i] # NoUse
      BY <1>0, <2>3, <3>2, <3>3, RowWritten
    <3> QED BY <3>1, <3>4
  <2>7. Follows(events, usage, billed, events', usage', billed')
    BY <1>1, <1>4, <2>6 DEF Follows
  <2>8. Billable(events, T \ {t})
    BY <1>2 DEF Billable
  <2>9. PICK next : next = [step |-> "write", todo |-> T \ {t}]
    OBVIOUS
  <2>10. job' = [job EXCEPT ![j] = next]
    <3>1. [job[j] EXCEPT !.todo = T \ {t}] = next
      BY <1>2, <2>9
    <3> QED BY <1>5, <3>1, Zenon
  <2>11. JobFits(next, events', usage', billed')
    BY <1>1, <2>8, <2>9 DEF JobFits
  <2> QED BY <1>1, <1>3, <2>6, <2>7, <2>10, <2>11, MeterJobStep
<1>6. CASE job' = [job EXCEPT ![j] = [step |-> "list"]] /\ usage' = usage
  <2>1. PICK next : next = [step |-> "list"]
    OBVIOUS
  <2>2. JobFits(next, events', usage', billed') /\ job' = [job EXCEPT ![j] = next]
    BY <1>6, <2>1 DEF JobFits
  <2>3. Fits(events, usage, billed)' /\ Follows(events, usage, billed, events', usage', billed')
    BY <1>0, <1>1, <1>4, <1>6
  <2> QED BY <1>3, <2>2, <2>3, MeterJobStep
<1> QED BY <1>1, <1>2, <1>5, <1>6

LEMMA MeterLists ==
  ASSUME MeterIInv, NEW j \in Jobs, Metering!ListPendingUsageEvents(j)
  PROVE  MeterIInv'
<1>0. /\ MeterTyped /\ Fits(events, usage, billed)
      /\ usage \in [HourOf -> UsageRow \cup {NoUse}]
  BY DEF MeterIInv, Fits
<1>1. UNCHANGED <<now, admitted, events, usage, billed, subscribed, faults>>
  BY DEF Metering!ListPendingUsageEvents
<1>2. Metering!Oldest \subseteq {h \in HourOf : usage[h] # NoUse}
  BY DEF Metering!Oldest, Metering!Open, Metering!Rows, Metering!Hour, Metering!NoUsage, HourOf, NoUse
<1>3. PICK X, H : /\ X \subseteq {h \in HourOf : usage[h] # NoUse} /\ H \subseteq {h \in HourOf : usage[h] # NoUse}
                  /\ job' = [job EXCEPT ![j] = [step |-> "submit", expired |-> X,
                                                batch |-> {<<h, usage[h].quantity>> : h \in H}]]
  <2>1. PICK O : O = Metering!Oldest
    OBVIOUS
  <2>2. job' = [job EXCEPT ![j] = [step |-> "submit", expired |-> {h \in O : now - h > Window},
                                    batch |-> {<<h, usage[h].quantity>> : h \in {k \in O : now - k <= Window}}]]
    BY <2>1 DEF Metering!ListPendingUsageEvents, Metering!Enter
  <2>3. /\ {h \in O : now - h > Window} \subseteq {h \in HourOf : usage[h] # NoUse}
        /\ {k \in O : now - k <= Window} \subseteq {h \in HourOf : usage[h] # NoUse}
    BY <1>2, <2>1
  <2> QED BY <2>2, <2>3
<1>4. PICK T : T = {<<h, usage[h].quantity>> : h \in H}
  OBVIOUS
<1>5. Billable(events, T) /\ Listed(usage, T)
  <2>1. ASSUME NEW t \in T
        PROVE  t \in HourOf \X Nat /\ t[2] \in 1..Excess(events, t[1]) /\ usage[t[1]] # NoUse
    <3>1. PICK h \in H : t = <<h, usage[h].quantity>>
      BY <1>4
    <3>2. h \in HourOf /\ usage[h] # NoUse /\ usage[h].quantity \in 1..Excess(events, h)
      BY <1>0, <1>3 DEF Fits
    <3>3. usage[h].quantity \in Nat
      BY <1>0, <3>2 DEF UsageRow
    <3> QED BY <3>1, <3>2, <3>3
  <2> QED BY <2>1 DEF Billable, Listed
<1>6. PICK next : next = [step |-> "submit", expired |-> X, batch |-> T]
  OBVIOUS
<1>7. job' = [job EXCEPT ![j] = next]
  BY <1>3, <1>4, <1>6
<1>8. JobFits(next, events, usage, billed)
  BY <1>3, <1>5, <1>6 DEF JobFits
<1>9. Follows(events, usage, billed, events, usage, billed)
  BY <1>0, FollowsItself
<1>10. MeterTyped' /\ Fits(events, usage, billed)' /\ JobFits(next, events', usage', billed')
       /\ Follows(events, usage, billed, events', usage', billed')
  BY <1>0, <1>1, <1>8, <1>9 DEF MeterTyped
<1> QED BY <1>7, <1>10, MeterJobStep

(* A row is found expired, or gets the answer Microsoft gave for it.       *)
PutStatus(U, h, st) == [U EXCEPT ![h].status = st]
LEMMA StatusWritten ==
  ASSUME NEW E \in [Source -> HourOf \cup {0}], NEW U, NEW B, Fits(E, U, B), NEW h \in HourOf, U[h] # NoUse,
         NEW V, NEW st, V = PutStatus(U, h, st),
         st \in {"failed", "expired", "accepted", "duplicate"}, st \in {"accepted", "duplicate"} => B[h] > 0
  PROVE  Fits(E, V, B) /\ Follows(E, U, B, E, V, B)
<1>1. /\ U \in [HourOf -> UsageRow \cup {NoUse}] /\ U[h] \in UsageRow
      /\ U[h].quantity \in 1..Excess(E, h)
  BY DEF Fits
<1>2. PICK q : q = U[h].quantity
  OBVIOUS
<1>3. V = Put(U, h, st, q)
  <2>1. V = [U EXCEPT ![h] = [U[h] EXCEPT !.status = st]]
    BY DEF PutStatus
  <2>2. [U[h] EXCEPT !.status = st] = [status |-> st, quantity |-> q]
    BY <1>1, <1>2 DEF UsageRow
  <2> QED BY <2>1, <2>2, Zenon DEF Put
<1>4. \A i \in HourOf : Excess(E, i) \in Nat
  BY ExcessType
<1>5. Fits(E, V, B) /\ \A i \in HourOf : U[i] # NoUse => V[i] # NoUse
  BY <1>1, <1>2, <1>3, <1>4, RowWritten
<1> QED BY <1>4, <1>5 DEF Follows

LEMMA MeterExpires ==
  ASSUME MeterIInv, NEW j \in Jobs, Metering!Expire(j)
  PROVE  MeterIInv'
<1>0. MeterTyped /\ Fits(events, usage, billed) /\ JobFits(job[j], events, usage, billed)
  BY DEF MeterIInv
<1>1. PICK h \in job[j].expired :
        /\ job[j].step = "submit" /\ UNCHANGED <<now, admitted, events, billed, subscribed, faults>>
        /\ usage' = [usage EXCEPT ![h].status = "expired"]
        /\ job' = [job EXCEPT ![j] = [job[j] EXCEPT !.expired = job[j].expired \ {h}]]
  BY DEF Metering!Expire, Metering!Enter
<1>2. PICK X, T : /\ X = job[j].expired /\ job[j] = [step |-> "submit", expired |-> X, batch |-> T]
                  /\ X \subseteq HourOf /\ (\A i \in X : usage[i] # NoUse)
                  /\ Billable(events, T) /\ Listed(usage, T)
  BY <1>0, <1>1, JobIs
<1>3. Fits(events, usage', billed) /\ Follows(events, usage, billed, events, usage', billed)
  <2>1. PICK V, st : V = usage' /\ st = "expired"
    OBVIOUS
  <2>2. V = PutStatus(usage, h, st) /\ h \in HourOf /\ usage[h] # NoUse
    BY <1>1, <1>2, <2>1 DEF PutStatus
  <2>3. /\ st \in {"failed", "expired", "accepted", "duplicate"}
        /\ st \in {"accepted", "duplicate"} => billed[h] > 0
    BY <2>1
  <2>4. Fits(events, V, billed) /\ Follows(events, usage, billed, events, V, billed)
    BY <1>0, <2>2, <2>3, StatusWritten DEF MeterTyped
  <2> QED BY <2>1, <2>4
<1>4. PICK next : next = [step |-> "submit", expired |-> X \ {h}, batch |-> T]
  OBVIOUS
<1>5. job' = [job EXCEPT ![j] = next]
  <2>1. [job[j] EXCEPT !.expired = job[j].expired \ {h}] = next
    BY <1>2, <1>4
  <2> QED BY <1>1, <2>1, Zenon
<1>6. JobFits(next, events, usage', billed)
  <2>1. JobFits(next, events, usage, billed)
    BY <1>2, <1>4 DEF JobFits
  <2> QED BY <1>3, <2>1, JobKept
<1>7. MeterTyped'
  BY <1>0, <1>1 DEF MeterTyped
<1> QED BY <1>1, <1>3, <1>5, <1>6, <1>7, MeterJobStep

LEMMA MeterAnswers ==
  ASSUME MeterIInv, NEW j \in Jobs, Metering!UpdateUsageEventStatus(j)
  PROVE  MeterIInv'
<1>0. MeterTyped /\ Fits(events, usage, billed) /\ JobFits(job[j], events, usage, billed)
  BY DEF MeterIInv
<1>1. /\ job[j].step = "results" /\ UNCHANGED <<now, admitted, events, billed, subscribed, faults>>
      /\ \/ \E r \in job[j].results : /\ usage' = [usage EXCEPT ![r[1]].status = r[2]]
                                      /\ job' = [job EXCEPT ![j] = [job[j] EXCEPT !.results = job[j].results \ {r}]]
         \/ job' = [job EXCEPT ![j] = [step |-> "idle"]] /\ usage' = usage
  BY DEF Metering!UpdateUsageEventStatus, Metering!Enter, Metering!Idle
<1>2. PICK R : R = job[j].results /\ job[j] = [step |-> "results", results |-> R] /\ Results(R, usage, billed)
  BY <1>0, <1>1, JobIs
<1>3. MeterTyped'
  BY <1>0, <1>1 DEF MeterTyped
<1>4. ASSUME NEW r \in R, usage' = [usage EXCEPT ![r[1]].status = r[2]],
             job' = [job EXCEPT ![j] = [job[j] EXCEPT !.results = R \ {r}]]
      PROVE  MeterIInv'
  <2>1. /\ r[1] \in HourOf /\ r[2] \in {"accepted", "duplicate", "failed"} /\ usage[r[1]] # NoUse
        /\ r[2] # "failed" => billed[r[1]] > 0
    BY <1>2 DEF Results, Listed
  <2>2. Fits(events, usage', billed) /\ Follows(events, usage, billed, events, usage', billed)
    <3>1. PICK V, h, st : V = usage' /\ h = r[1] /\ st = r[2]
      OBVIOUS
    <3>2. V = PutStatus(usage, h, st) /\ h \in HourOf /\ usage[h] # NoUse
      BY <1>4, <2>1, <3>1 DEF PutStatus
    <3>3. /\ st \in {"failed", "expired", "accepted", "duplicate"}
          /\ st \in {"accepted", "duplicate"} => billed[h] > 0
      BY <2>1, <3>1
    <3>4. Fits(events, V, billed) /\ Follows(events, usage, billed, events, V, billed)
      BY <1>0, <3>2, <3>3, StatusWritten DEF MeterTyped
    <3> QED BY <3>1, <3>4
  <2>3. PICK next : next = [step |-> "results", results |-> R \ {r}]
    OBVIOUS
  <2>4. job' = [job EXCEPT ![j] = next]
    <3>1. [job[j] EXCEPT !.results = R \ {r}] = next
      BY <1>2, <2>3
    <3> QED BY <1>4, <3>1, Zenon
  <2>5. JobFits(next, events, usage', billed)
    <3>1. Results(R \ {r}, usage, billed)
      BY <1>2 DEF Results, Listed
    <3>2. JobFits(next, events, usage, billed)
      BY <2>3, <3>1 DEF JobFits
    <3> QED BY <2>2, <3>2, JobKept
  <2> QED BY <1>1, <1>3, <2>2, <2>4, <2>5, MeterJobStep
<1>5. CASE job' = [job EXCEPT ![j] = [step |-> "idle"]] /\ usage' = usage
  <2>1. PICK next : next = [step |-> "idle"]
    OBVIOUS
  <2>2. JobFits(next, events', usage', billed') /\ job' = [job EXCEPT ![j] = next]
    BY <1>5, <2>1 DEF JobFits
  <2>3. Fits(events, usage, billed)' /\ Follows(events, usage, billed, events', usage', billed')
    BY <1>0, <1>1, <1>5, FollowsItself
  <2> QED BY <1>3, <2>2, <2>3, MeterJobStep
<1> QED BY <1>1, <1>2, <1>4, <1>5

(* Microsoft takes the first quantity of an hour.                          *)
AtMs(B, T) == [h \in HourOf |-> IF B[h] = 0 /\ \E t \in T : t[1] = h THEN (CHOOSE t \in T : t[1] = h)[2] ELSE B[h]]
LEMMA AtMicrosoftFits ==
  ASSUME NEW E \in [Source -> HourOf \cup {0}], NEW U, NEW B, Fits(E, U, B), NEW T, Billable(E, T), NEW C, C = AtMs(B, T)
  PROVE  /\ Fits(E, U, C) /\ Follows(E, U, B, E, U, C)
         /\ \A t \in T : C[t[1]] > 0
<1>1. ASSUME NEW h \in HourOf
      PROVE  /\ C[h] \in Nat /\ C[h] <= Excess(E, h) /\ (B[h] > 0 => C[h] > 0)
             /\ \A t \in T : t[1] = h => C[h] > 0
  <2>1. B[h] \in Nat /\ B[h] <= Excess(E, h) /\ Excess(E, h) \in Nat
    BY ExcessType DEF Fits
  <2>2. CASE B[h] = 0 /\ \E t \in T : t[1] = h
    <3>1. PICK u : u = CHOOSE t \in T : t[1] = h
      OBVIOUS
    <3>2. u \in T /\ u[1] = h
      BY <2>2, <3>1
    <3>3. C[h] = u[2]
      BY <2>2, <3>1 DEF AtMs
    <3>4. u[2] \in 1..Excess(E, h)
      BY <3>2 DEF Billable
    <3> QED BY <2>1, <2>2, <3>3, <3>4
  <2>3. CASE ~(B[h] = 0 /\ \E t \in T : t[1] = h)
    <3>1. C[h] = B[h]
      BY <2>3 DEF AtMs
    <3> QED BY <2>1, <2>3, <3>1
  <2> QED BY <2>2, <2>3
<1>2. C \in [HourOf -> Nat]
  <2>1. C = [h \in HourOf |-> C[h]]
    BY DEF AtMs
  <2> QED BY <1>1, <2>1
<1>3. \A h \in HourOf : Excess(E, h) \in Nat
  BY ExcessType
<1>4. Fits(E, U, C)
  BY <1>1, <1>2 DEF Fits
<1>5. Follows(E, U, B, E, U, C)
  BY <1>1, <1>3 DEF Follows
<1>6. ASSUME NEW t \in T PROVE C[t[1]] > 0
  <2>1. t[1] \in HourOf
    BY DEF Billable
  <2> QED BY <1>1, <2>1
<1> QED BY <1>4, <1>5, <1>6

LEMMA MeterSubmits ==
  ASSUME MeterIInv, NEW j \in Jobs, Metering!SubmitBatchUsageEvents(j)
  PROVE  MeterIInv'
<1>0. /\ MeterTyped /\ Fits(events, usage, billed) /\ JobFits(job[j], events, usage, billed)
      /\ events \in [Source -> HourOf \cup {0}]
  BY DEF MeterIInv, MeterTyped
<1>1. PICK T : T = job[j].batch
  OBVIOUS
<1>2. Metering!AtMicrosoft(T) = AtMs(billed, T)
  BY DEF Metering!AtMicrosoft, AtMs, Metering!Hour, HourOf
<1>3. /\ job[j].step = "submit" /\ UNCHANGED <<now, admitted, events, usage, subscribed>>
      /\ faults' = faults \/ (faults < Faults /\ faults' = faults + 1)
      /\ billed' = billed \/ billed' = AtMs(billed, T)
      /\ \/ job' = [job EXCEPT ![j] = [step |-> "idle"]]
         \/ /\ billed' = AtMs(billed, T)
            /\ job' = [job EXCEPT ![j] = [step |-> "results", results |-> {<<t[1], Metering!Answer(t[1])>> : t \in T}]]
         \/ job' = [job EXCEPT ![j] = [step |-> "results", results |-> {<<t[1], "failed">> : t \in T}]]
  BY <1>1, <1>2 DEF Metering!SubmitBatchUsageEvents, Metering!Enter, Metering!Idle
<1>4. Billable(events, T) /\ Listed(usage, T)
  BY <1>0, <1>1, <1>3, JobIs
<1>5. MeterTyped'
  <2>1. faults' \in 0..Faults
    BY <1>0, <1>3, MeterConstants DEF MeterTyped
  <2> QED BY <1>0, <1>3, <2>1 DEF MeterTyped
<1>6. PICK C : C = billed'
  OBVIOUS
<1>7. Fits(events, usage, C) /\ Follows(events, usage, billed, events, usage, C)
      /\ (C = AtMs(billed, T) => \A t \in T : C[t[1]] > 0)
  BY <1>0, <1>3, <1>4, <1>6, AtMicrosoftFits, FollowsItself
<1>8. PICK next : job' = [job EXCEPT ![j] = next] /\ JobFits(next, events, usage, C)
  <2>1. CASE job' = [job EXCEPT ![j] = [step |-> "idle"]]
    <3>1. JobFits([step |-> "idle"], events, usage, C)
      BY DEF JobFits
    <3> QED BY <2>1, <3>1
  <2>2. CASE /\ billed' = AtMs(billed, T)
             /\ job' = [job EXCEPT ![j] = [step |-> "results", results |-> {<<t[1], Metering!Answer(t[1])>> : t \in T}]]
    <3>1. PICK R : R = {<<t[1], Metering!Answer(t[1])>> : t \in T}
      OBVIOUS
    <3>2. \A h : Metering!Answer(h) \in {"accepted", "duplicate", "failed"}
      BY DEF Metering!Answer
    <3>3. ASSUME NEW r \in R
          PROVE  /\ r \in HourOf \X {"accepted", "duplicate", "failed"} /\ usage[r[1]] # NoUse
                 /\ C[r[1]] > 0
      <4>1. PICK t \in T : r = <<t[1], Metering!Answer(t[1])>>
        BY <3>1
      <4>2. t[1] \in HourOf /\ usage[t[1]] # NoUse /\ C[t[1]] > 0
        BY <1>4, <1>6, <1>7, <2>2 DEF Billable, Listed
      <4> QED BY <3>2, <4>1, <4>2
    <3>4. Results(R, usage, C)
      BY <3>3 DEF Results, Listed
    <3>5. JobFits([step |-> "results", results |-> R], events, usage, C)
      BY <3>4 DEF JobFits
    <3> QED BY <2>2, <3>1, <3>5
  <2>3. CASE job' = [job EXCEPT ![j] = [step |-> "results", results |-> {<<t[1], "failed">> : t \in T}]]
    <3>1. PICK R : R = {<<t[1], "failed">> : t \in T}
      OBVIOUS
    <3>2. ASSUME NEW r \in R
          PROVE  /\ r \in HourOf \X {"accepted", "duplicate", "failed"} /\ usage[r[1]] # NoUse
                 /\ r[2] = "failed"
      <4>1. PICK t \in T : r = <<t[1], "failed">>
        BY <3>1
      <4>2. t[1] \in HourOf /\ usage[t[1]] # NoUse
        BY <1>4 DEF Billable, Listed
      <4> QED BY <4>1, <4>2
    <3>3. Results(R, usage, C)
      BY <3>2 DEF Results, Listed
    <3>4. JobFits([step |-> "results", results |-> R], events, usage, C)
      BY <3>3 DEF JobFits
    <3> QED BY <2>3, <3>1, <3>4
  <2> QED BY <1>3, <2>1, <2>2, <2>3
<1> QED BY <1>3, <1>5, <1>6, <1>7, <1>8, MeterJobStep

LEMMA MeterStep ==
  ASSUME MeterIInv, Metering!Next
  PROVE  MeterIInv'
<1>1. ASSUME NEW s \in Source, NEW h \in Metering!Hour, Metering!RecordUsageEvent(s, h)
      PROVE  MeterIInv'
  BY <1>1, MeterRecords DEF Metering!Hour, HourOf
<1>2. ASSUME NEW j \in Jobs, Metering!Metering(j)
      PROVE  MeterIInv'
  BY <1>2, MeterAggregates, MeterWrites, MeterLists, MeterExpires, MeterSubmits, MeterAnswers DEF Metering!Metering
<1> QED BY <1>1, <1>2, MeterUsers DEF Metering!Next

LEMMA MeterInit ==
  ASSUME Metering!Init
  PROVE  MeterIInv
<1>1. /\ now = 1 /\ admitted = {} /\ events = [s \in Source |-> 0] /\ usage = [h \in HourOf |-> NoUse]
      /\ billed = [h \in HourOf |-> 0] /\ job = [j \in Jobs |-> [step |-> "idle"]] /\ subscribed = TRUE /\ faults = 0
  BY DEF Metering!Init, Metering!Hour, Metering!NoHour, Metering!NoUsage, Metering!Idle, HourOf, NoUse
<1>2. MeterTyped
  <2>1. EventsAt(events) = {} /\ events \in [Source -> HourOf \cup {0}]
    BY <1>1 DEF EventsAt
  <2>2. now \in HourOf /\ faults \in 0..Faults
    BY <1>1, MeterConstants DEF HourOf
  <2> QED BY <1>1, <2>1, <2>2 DEF MeterTyped
<1>3. \A h \in HourOf : Excess(events, h) \in Nat
  BY <1>2, ExcessType DEF MeterTyped
<1>4. Fits(events, usage, billed)
  BY <1>1, <1>3 DEF Fits
<1>5. job = [j \in Jobs |-> job[j]] /\ \A j \in Jobs : JobFits(job[j], events, usage, billed)
  BY <1>1 DEF JobFits
<1> QED BY <1>2, <1>4, <1>5 DEF MeterIInv

LEMMA MeterMeans ==
  ASSUME MeterIInv
  PROVE  Metering!TypeOK /\ Metering!NeverOverbilled /\ Metering!AcceptedWasBilled
<1>0. /\ MeterTyped /\ Fits(events, usage, billed) /\ usage \in [HourOf -> UsageRow \cup {NoUse}]
      /\ billed \in [HourOf -> Nat]
  BY DEF MeterIInv, Fits
<1>1. Metering!Hour = HourOf /\ Metering!NoHour = 0 /\ Metering!Rows = {h \in HourOf : usage[h] # NoUse}
  BY DEF Metering!Hour, Metering!NoHour, HourOf, Metering!Rows, Metering!NoUsage, NoUse
<1>2. ASSUME NEW h \in HourOf
      PROVE  /\ Excess(events, h) \in Nat /\ Excess(events, h) <= Sum(Source) /\ Sum(Source) \in Nat
             /\ billed[h] \in Nat /\ billed[h] <= Excess(events, h)
             /\ usage[h] # NoUse => usage[h].quantity \in 1..Excess(events, h)
  BY <1>0, ExcessType, SumType DEF MeterTyped, Fits
<1>3. Metering!NeverOverbilled
  <2>1. \A h \in HourOf : billed[h] <= Metering!Overage(h)
    BY <1>2, ExcessUnfolded
  <2>2. Cardinality(UnitsOf(billed, HourOf)) <= Over(Sum(EventsAt(events)))
    BY <1>0, <1>2, BilledFits DEF MeterTyped
  <2>3. Metering!Cardinality(Metering!Units(billed, Metering!Hour)) <= Metering!Beyond(Metering!Total(Metering!Recorded))
    BY <1>1, <2>2, MeterUnfolded, ExcessUnfolded
  <2> QED BY <1>1, <2>1, <2>3 DEF Metering!NeverOverbilled
<1>4. Metering!AcceptedWasBilled
  BY <1>0, <1>1 DEF Metering!AcceptedWasBilled, Metering!Submitted, Fits
<1>5. Metering!TypeOK
  <2>1. /\ now \in HourOf /\ admitted \subseteq Source /\ EventsAt(events) \subseteq admitted
        /\ events \in [Source -> HourOf \cup {0}] /\ subscribed \in BOOLEAN /\ faults \in 0..Faults
    BY <1>0 DEF MeterTyped
  <2>2. ASSUME NEW h \in HourOf, usage[h] # NoUse
        PROVE  /\ usage[h].quantity \in 1..Sum(Source)
               /\ usage[h].status \in {"pending", "failed", "expired"} \cup {"accepted", "duplicate"}
    <3>1. usage[h].quantity \in 1..Sum(Source)
      BY <1>2, <2>2
    <3>2. usage[h].status \in {"pending", "failed", "expired"} \cup {"accepted", "duplicate"}
      BY <1>0, <2>2 DEF UsageRow
    <3> QED BY <3>1, <3>2
  <2>3. billed \in [HourOf -> 0..Sum(Source)]
    BY <1>0, <1>2
  <2> QED BY <1>1, <2>1, <2>2, <2>3, ExcessUnfolded DEF Metering!TypeOK, Metering!Submitted
<1> QED BY <1>3, <1>4, <1>5

LEMMA MeterStutters ==
  ASSUME MeterIInv, UNCHANGED <<meterVars, faults>>
  PROVE  MeterIInv'
BY DEF MeterIInv, MeterTyped, meterVars

-----------------------------------------------------------------------------
(* marketplace: subscriptions, for an instance with the constants of c.    *)
LEMMA MarketConstants ==
  ASSUME NEW c, Market(c)!MarketplaceAssumption
  PROVE  /\ IsFiniteSet(c.subs) /\ c.owner \in [c.orgs -> c.users] /\ c.buyers \in [c.subs -> SUBSET c.users]
         /\ "none" \notin c.users /\ "none" \notin c.orgs
         /\ c.start \in {"unknown", "linked", "used"} /\ c.requests \in Nat /\ c.faults \in Nat
<1>1. \A S : Market(c)!IsFiniteSet(S) = IsFiniteSet(S)
  BY DEF IsFiniteSet, Market!IsFiniteSet
<1> QED BY <1>1 DEF Market!MarketplaceAssumption, Market!None

MsStatus == {"PendingFulfillmentStart", "Subscribed", "Suspended", "Unsubscribed"}
AtMarket(c) == [status : MsStatus, plan : c.plans]
SubRow(c) == [born : 1..Cardinality(c.subs), status : MsStatus, plan : c.plans, user : c.users \cup {"none"},
              org : c.orgs \cup {"none"}, activation : {"not_started", "in_progress", "activated", "failed"}]
NoSubRow == [born |-> 0]
NoBuyer == [status |-> "none"]
NoOp == [state |-> "none", answered |-> FALSE]
StatusOfSession == {"resolved", "account_linked", "org_linked", "activated", "failed"}

(* Microsoft has started a subscription; what was heard of it is not ahead *)
(* of Microsoft; an organization belongs to a buyer.                       *)
Begun(M, s) == M[s].status # "PendingFulfillmentStart"
Heard(c, M, s, l) == l \in AtMarket(c) /\ (l.status # "PendingFulfillmentStart" => Begun(M, s))
Payer(c, s, g) == g \in c.orgs /\ c.owner[g] \in c.buyers[s]

RowFine(c, M, s, r) ==
  /\ r \in SubRow(c) /\ r.user \in c.buyers[s] \cup {"none"} /\ (r.org # "none" => c.owner[r.org] \in c.buyers[s])
  /\ r.status # "PendingFulfillmentStart" => Begun(M, s)
SessionFine(c, R, x) ==
  \/ x = NoBuyer
  \/ /\ x = [sub |-> x.sub, status |-> x.status, valid |-> x.valid]
     /\ x.sub \in c.subs /\ R[x.sub] # NoSubRow /\ x.status \in StatusOfSession
OpFine(c, M, a, op) ==
  /\ a \in {"none", "pending", "success", "not_required"} /\ (a = "success" => op.state = "Done")
  /\ \/ op = NoOp
     \/ /\ op = [sub |-> op.sub, action |-> op.action, plan |-> op.plan, state |-> op.state, answered |-> op.answered]
        /\ op.sub \in c.subs /\ op.plan \in c.plans /\ op.state \in {"InProgress", "Done"} /\ Begun(M, op.sub)
FeeFine(c, M, s, f) == f = "none" \/ (Payer(c, s, f) /\ Begun(M, s))

Holds(r) == r # NoSubRow /\ r.org # "none" /\ r.status # "Unsubscribed"
RowsFine(c, M, R) == R = [s \in c.subs |-> R[s]] /\ \A s \in c.subs : R[s] = NoSubRow \/ RowFine(c, M, s, R[s])
SessionsFine(c, R, S) == S = [x \in c.sessions |-> S[x]] /\ \A x \in c.sessions : SessionFine(c, R, S[x])
OpsFine(c, M, O, A) ==
  /\ O = [o \in c.operations |-> O[o]] /\ A = [o \in c.operations |-> A[o]]
  /\ \A o \in c.operations : OpFine(c, M, A[o], O[o])
FeesFine(c, M, F) == F = [s \in c.subs |-> F[s]] /\ \A s \in c.subs : FeeFine(c, M, s, F[s])
OneHolds(c, R) == \A s, k \in c.subs : Holds(R[s]) /\ Holds(R[k]) /\ R[s].org = R[k].org => s = k

MarketFine(c, M, O, R, S, A, F) ==
  /\ M \in [c.subs -> AtMarket(c)] /\ RowsFine(c, M, R) /\ SessionsFine(c, R, S) /\ OpsFine(c, M, O, A)
  /\ FeesFine(c, M, F) /\ OneHolds(c, R)

(* What a handler has left to do.                                          *)
OfBuyer(c, S, x) == x \in c.sessions /\ S[x] # NoBuyer /\ S[x].sub \in c.subs
OfSession == {"session", "linkUser", "linkOrg", "inProgress", "activateAtMicrosoft", "activated", "failed"}
ReqFine(c, q, M, O, R, S) ==
  /\ q.op \in {"resolved", "update"} => q.sub \in c.subs /\ Heard(c, M, q.sub, q.latest)
  /\ q.op \in {"findSession", "createSession"} => q.sub \in c.subs /\ R[q.sub] # NoSubRow
  /\ q.op = "refresh" => q.sub \in c.subs
  /\ q.op = "fee" => q.sub \in c.subs /\ Payer(c, q.sub, q.org) /\ Begun(M, q.sub)
  /\ q.op \in OfSession => OfBuyer(c, S, q.session)
  /\ q.op = "session" => /\ q.status \in StatusOfSession
                         /\ q.status = "activated" => /\ Payer(c, S[q.session].sub, q.org)
                                                      /\ Begun(M, S[q.session].sub)
  /\ q.op = "linkUser" => q.user \in c.buyers[S[q.session].sub]
  /\ q.op \in {"linkOrg", "inProgress", "activateAtMicrosoft", "activated"} => Payer(c, S[q.session].sub, q.org)
  /\ q.op \in {"inProgress", "activateAtMicrosoft", "activated"} =>
       q = [op |-> q.op, session |-> q.session, org |-> q.org, refresh |-> q.refresh]
  /\ q.op = "activated" => Begun(M, S[q.session].sub)
  /\ q.op = "webhook" => /\ q.o \in c.operations /\ O[q.o] # NoOp /\ O[q.o].sub \in c.subs /\ R[O[q.o].sub] # NoSubRow
                         /\ q.step = "ack" => O[q.o].state = "Done"
                         /\ q.step = "update" => Heard(c, M, O[q.o].sub, q.latest)
  /\ q.op = "reconcile" => /\ q.todo \subseteq c.subs /\ \A s \in c.subs : Heard(c, M, s, q.latest[s])
                           /\ q.step \in {"update", "activate"} => q.sub \in c.subs
                           /\ q.step = "activate" => R[q.sub] # NoSubRow
                           /\ q.step = "update" => q = [op |-> q.op, step |-> q.step, todo |-> q.todo,
                                                        latest |-> q.latest, sub |-> q.sub, inProgress |-> q.inProgress]
MarketIInv(c) ==
  /\ MarketFine(c, ms, ops, row, onboarding, ack, fee)
  /\ \A q \in pend : ReqFine(c, q, ms, ops, row, onboarding)
  /\ started \in 0..c.requests /\ faults \in 0..c.faults

(* What no step takes back.                                                *)
Onward(c, M, O, R, S, M1, O1, R1, S1) ==
  /\ \A s \in c.subs : Begun(M, s) => Begun(M1, s)
  /\ \A s \in c.subs : R[s] # NoSubRow => R1[s] # NoSubRow
  /\ \A o \in c.operations : O[o] # NoOp => /\ O1[o] # NoOp /\ O1[o].sub = O[o].sub
                                            /\ O[o].state = "Done" => O1[o].state = "Done"
  /\ \A x \in c.sessions : S[x] # NoBuyer => S1[x] # NoBuyer /\ S1[x].sub = S[x].sub

LEMMA ReqKept ==
  ASSUME NEW c, NEW q, NEW M, NEW O, NEW R, NEW S, NEW M1, NEW O1, NEW R1, NEW S1,
         Onward(c, M, O, R, S, M1, O1, R1, S1), ReqFine(c, q, M, O, R, S)
  PROVE  ReqFine(c, q, M1, O1, R1, S1)
<1>1. ASSUME NEW s \in c.subs
      PROVE  (Begun(M, s) => Begun(M1, s)) /\ \A l : Heard(c, M, s, l) => Heard(c, M1, s, l)
  BY DEF Onward, Heard
<1>2. ASSUME NEW x, OfBuyer(c, S, x) PROVE OfBuyer(c, S1, x) /\ S1[x].sub = S[x].sub /\ S[x].sub \in c.subs
  BY <1>2 DEF Onward, OfBuyer
<1>3. ASSUME NEW s \in c.subs, R[s] # NoSubRow PROVE R1[s] # NoSubRow
  BY <1>3 DEF Onward
<1>4. ASSUME NEW o \in c.operations, O[o] # NoOp
      PROVE  O1[o] # NoOp /\ O1[o].sub = O[o].sub /\ (O[o].state = "Done" => O1[o].state = "Done")
  BY <1>4 DEF Onward
<1> HIDE DEF NoOp, NoSubRow, NoBuyer
<1>5. q.op \in OfSession => OfBuyer(c, S, q.session)
  BY DEF ReqFine
<1>6. q.op \in OfSession => OfBuyer(c, S1, q.session) /\ S1[q.session].sub = S[q.session].sub /\ S[q.session].sub \in c.subs
  BY <1>2, <1>5
<1>7. /\ q.op \in {"resolved", "update"} => q.sub \in c.subs /\ Heard(c, M1, q.sub, q.latest)
      /\ q.op \in {"findSession", "createSession"} => q.sub \in c.subs /\ R1[q.sub] # NoSubRow
      /\ q.op = "refresh" => q.sub \in c.subs
      /\ q.op = "fee" => q.sub \in c.subs /\ Payer(c, q.sub, q.org) /\ Begun(M1, q.sub)
  BY <1>1, <1>3 DEF ReqFine
<1>8. /\ q.op = "session" => /\ q.status \in StatusOfSession
                             /\ q.status = "activated" => /\ Payer(c, S1[q.session].sub, q.org)
                                                          /\ Begun(M1, S1[q.session].sub)
      /\ q.op = "linkUser" => q.user \in c.buyers[S1[q.session].sub]
      /\ q.op \in {"linkOrg", "inProgress", "activateAtMicrosoft", "activated"} => Payer(c, S1[q.session].sub, q.org)
      /\ q.op = "activated" => Begun(M1, S1[q.session].sub)
  BY <1>1, <1>6 DEF ReqFine, OfSession
<1>9. q.op = "webhook" => /\ q.o \in c.operations /\ O1[q.o] # NoOp /\ O1[q.o].sub \in c.subs /\ R1[O1[q.o].sub] # NoSubRow
                          /\ q.step = "ack" => O1[q.o].state = "Done"
                          /\ q.step = "update" => Heard(c, M1, O1[q.o].sub, q.latest)
  BY <1>1, <1>3, <1>4 DEF ReqFine
<1>10. q.op = "reconcile" => /\ q.todo \subseteq c.subs /\ \A s \in c.subs : Heard(c, M1, s, q.latest[s])
                             /\ q.step \in {"update", "activate"} => q.sub \in c.subs
                             /\ q.step = "activate" => R1[q.sub] # NoSubRow
                             /\ q.step = "update" => q = [op |-> q.op, step |-> q.step, todo |-> q.todo,
                                                        latest |-> q.latest, sub |-> q.sub, inProgress |-> q.inProgress]
  BY <1>1, <1>3 DEF ReqFine
<1>11. q.op \in {"inProgress", "activateAtMicrosoft", "activated"} =>
         q = [op |-> q.op, session |-> q.session, org |-> q.org, refresh |-> q.refresh]
  BY DEF ReqFine
<1> QED BY <1>6, <1>7, <1>8, <1>9, <1>10, <1>11, Zenon DEF ReqFine

(* A step that keeps the tables fine and adds requests that are.           *)
LEMMA MarketStepFine ==
  ASSUME NEW c, MarketIInv(c), Onward(c, ms, ops, row, onboarding, ms', ops', row', onboarding'),
         MarketFine(c, ms', ops', row', onboarding', ack', fee'),
         \A q \in pend' : q \in pend \/ ReqFine(c, q, ms', ops', row', onboarding'),
         started' \in 0..c.requests, faults' \in 0..c.faults
  PROVE  MarketIInv(c)'
<1>1. \A q \in pend : ReqFine(c, q, ms', ops', row', onboarding')
  BY ReqKept DEF MarketIInv
<1>2. \A q \in pend' : ReqFine(c, q, ms', ops', row', onboarding')
  BY <1>1
<1> QED BY <1>2 DEF MarketIInv

LEMMA OnwardItself ==
  ASSUME NEW c, NEW M, NEW O, NEW R, NEW S
  PROVE  Onward(c, M, O, R, S, M, O, R, S)
BY DEF Onward

(* The requests a handler leaves.                                          *)
LEMMA ReqOfRow ==
  ASSUME NEW c, NEW M, NEW O, NEW R, NEW S, NEW k \in {"findSession", "createSession"}, NEW s \in c.subs, R[s] # NoSubRow
  PROVE  ReqFine(c, [op |-> k, sub |-> s], M, O, R, S)
<1> HIDE DEF NoSubRow
<1> QED BY DEF ReqFine, OfSession
LEMMA ReqHeard ==
  ASSUME NEW c, NEW M, NEW O, NEW R, NEW S, NEW k \in {"resolved", "update"}, NEW s \in c.subs, NEW l, Heard(c, M, s, l)
  PROVE  ReqFine(c, [op |-> k, sub |-> s, latest |-> l], M, O, R, S)
BY DEF ReqFine, OfSession
LEMMA ReqRefresh ==
  ASSUME NEW c, NEW M, NEW O, NEW R, NEW S, NEW s \in c.subs
  PROVE  ReqFine(c, [op |-> "refresh", sub |-> s], M, O, R, S)
BY DEF ReqFine, OfSession
LEMMA ReqFee ==
  ASSUME NEW c, NEW M, NEW O, NEW R, NEW S, NEW s \in c.subs, NEW g, NEW b, Payer(c, s, g), Begun(M, s)
  PROVE  ReqFine(c, [op |-> "fee", sub |-> s, org |-> g, refresh |-> b], M, O, R, S)
BY DEF ReqFine, OfSession
LEMMA ReqSession ==
  ASSUME NEW c, NEW M, NEW O, NEW R, NEW S, NEW x, NEW st \in StatusOfSession \ {"activated"}, OfBuyer(c, S, x)
  PROVE  ReqFine(c, [op |-> "session", session |-> x, status |-> st], M, O, R, S)
BY DEF ReqFine, OfSession
LEMMA ReqSessionActivated ==
  ASSUME NEW c, NEW M, NEW O, NEW R, NEW S, NEW x, NEW g, NEW b, OfBuyer(c, S, x),
         Payer(c, S[x].sub, g), Begun(M, S[x].sub)
  PROVE  ReqFine(c, [op |-> "session", session |-> x, status |-> "activated", org |-> g, refresh |-> b], M, O, R, S)
BY DEF ReqFine, OfSession, StatusOfSession
LEMMA ReqLinkUser ==
  ASSUME NEW c, NEW M, NEW O, NEW R, NEW S, NEW x, NEW u, OfBuyer(c, S, x), u \in c.buyers[S[x].sub]
  PROVE  ReqFine(c, [op |-> "linkUser", session |-> x, user |-> u], M, O, R, S)
BY DEF ReqFine, OfSession
LEMMA ReqLinkOrg ==
  ASSUME NEW c, NEW M, NEW O, NEW R, NEW S, NEW x, NEW g, OfBuyer(c, S, x), Payer(c, S[x].sub, g)
  PROVE  ReqFine(c, [op |-> "linkOrg", session |-> x, org |-> g], M, O, R, S)
BY DEF ReqFine, OfSession
LEMMA ReqActivating ==
  ASSUME NEW c, NEW M, NEW O, NEW R, NEW S, NEW x, NEW g, NEW b, NEW k \in {"inProgress", "activateAtMicrosoft", "activated"},
         OfBuyer(c, S, x), Payer(c, S[x].sub, g), k = "activated" => Begun(M, S[x].sub)
  PROVE  ReqFine(c, [op |-> k, session |-> x, org |-> g, refresh |-> b], M, O, R, S)
BY DEF ReqFine, OfSession
LEMMA ReqFailed ==
  ASSUME NEW c, NEW M, NEW O, NEW R, NEW S, NEW x, OfBuyer(c, S, x)
  PROVE  ReqFine(c, [op |-> "failed", session |-> x], M, O, R, S)
BY DEF ReqFine, OfSession
OfWebhook(c, O, R, o) == o \in c.operations /\ O[o] # NoOp /\ O[o].sub \in c.subs /\ R[O[o].sub] # NoSubRow
LEMMA ReqWebhook ==
  ASSUME NEW c, NEW M, NEW O, NEW R, NEW S, NEW o, NEW st, OfWebhook(c, O, R, o), st # "update",
         st = "ack" => O[o].state = "Done"
  PROVE  ReqFine(c, [op |-> "webhook", o |-> o, step |-> st], M, O, R, S)
<1> HIDE DEF NoSubRow, NoOp
<1> QED BY DEF ReqFine, OfSession, OfWebhook
LEMMA ReqWebhookUpdate ==
  ASSUME NEW c, NEW M, NEW O, NEW R, NEW S, NEW o, NEW l, OfWebhook(c, O, R, o), Heard(c, M, O[o].sub, l)
  PROVE  ReqFine(c, [op |-> "webhook", o |-> o, step |-> "update", latest |-> l], M, O, R, S)
<1> HIDE DEF NoSubRow, NoOp
<1> QED BY DEF ReqFine, OfSession, OfWebhook
LEMMA ReqReconcile ==
  ASSUME NEW c, NEW M, NEW O, NEW R, NEW S, NEW T, NEW L, T \subseteq c.subs, \A s \in c.subs : Heard(c, M, s, L[s])
  PROVE  ReqFine(c, [op |-> "reconcile", step |-> "next", todo |-> T, latest |-> L], M, O, R, S)
BY DEF ReqFine, OfSession
LEMMA ReqReconcileOf ==
  ASSUME NEW c, NEW M, NEW O, NEW R, NEW S, NEW T, NEW L, T \subseteq c.subs, \A s \in c.subs : Heard(c, M, s, L[s]),
         NEW st \in {"update", "activate"}, NEW s \in c.subs, NEW b, st = "activate" => R[s] # NoSubRow
  PROVE  ReqFine(c, [op |-> "reconcile", step |-> st, todo |-> T, latest |-> L, sub |-> s, inProgress |-> b], M, O, R, S)
<1> HIDE DEF NoSubRow
<1> QED BY DEF ReqFine, OfSession

(* The tables after one of them was written.                               *)
PutAt(R, s, r) == [R EXCEPT ![s] = r]
LEMMA PutAtIs ==
  ASSUME NEW D, NEW R, R = [s \in D |-> R[s]], NEW d \in D, NEW r
  PROVE  /\ PutAt(R, d, r) = [s \in D |-> PutAt(R, d, r)[s]] /\ PutAt(R, d, r)[d] = r
         /\ \A k \in D \ {d} : PutAt(R, d, r)[k] = R[k]
BY DEF PutAt

LEMMA RowPut ==
  ASSUME NEW c, NEW M, NEW O, NEW R, NEW S, NEW A, NEW F, MarketFine(c, M, O, R, S, A, F), NEW s \in c.subs, NEW r,
         RowFine(c, M, s, r), \A k \in c.subs \ {s} : Holds(r) /\ Holds(R[k]) => R[k].org # r.org,
         NEW R1, R1 = PutAt(R, s, r)
  PROVE  MarketFine(c, M, O, R1, S, A, F) /\ Onward(c, M, O, R, S, M, O, R1, S) /\ R1[s] = r /\ r # NoSubRow
<1>1. R1 = [k \in c.subs |-> R1[k]] /\ R1[s] = r /\ \A k \in c.subs \ {s} : R1[k] = R[k]
  BY PutAtIs DEF MarketFine, RowsFine
<1>2. r.born # 0 /\ r # NoSubRow
  <2>1. r.born \in 1..Cardinality(c.subs)
    BY DEF RowFine, SubRow
  <2>2. r.born # 0
    BY <2>1
  <2> QED BY <2>2 DEF NoSubRow
<1> HIDE DEF NoSubRow, PutAt
<1>3. RowsFine(c, M, R1)
  BY <1>1 DEF RowsFine, MarketFine
<1>4. \A k \in c.subs : R[k] # NoSubRow => R1[k] # NoSubRow
  BY <1>1, <1>2
<1>5. SessionsFine(c, R1, S)
  BY <1>4 DEF SessionsFine, SessionFine, MarketFine
<1>6. OneHolds(c, R1)
  <2> SUFFICES ASSUME NEW i \in c.subs, NEW j \in c.subs, Holds(R1[i]), Holds(R1[j]), R1[i].org = R1[j].org PROVE i = j
    BY Zenon DEF OneHolds
  <2>1. CASE i = s \/ j = s
    BY <1>1, <2>1
  <2>2. CASE i # s /\ j # s
    BY <1>1, <2>2 DEF OneHolds, MarketFine
  <2> QED BY <2>1, <2>2
<1> QED BY <1>1, <1>2, <1>3, <1>4, <1>5, <1>6 DEF MarketFine, Onward

LEMMA SessionPut ==
  ASSUME NEW c, NEW M, NEW O, NEW R, NEW S, NEW A, NEW F, MarketFine(c, M, O, R, S, A, F), NEW x \in c.sessions, NEW v,
         SessionFine(c, R, v), v # NoBuyer, S[x] # NoBuyer => v.sub = S[x].sub, NEW S1, S1 = PutAt(S, x, v)
  PROVE  MarketFine(c, M, O, R, S1, A, F) /\ Onward(c, M, O, R, S, M, O, R, S1) /\ S1[x] = v
<1>1. S1 = [k \in c.sessions |-> S1[k]] /\ S1[x] = v /\ \A k \in c.sessions \ {x} : S1[k] = S[k]
  BY PutAtIs DEF MarketFine, SessionsFine
<1> HIDE DEF NoBuyer, PutAt
<1>2. SessionsFine(c, R, S1)
  BY <1>1 DEF SessionsFine, MarketFine
<1>3. \A k \in c.sessions : S[k] # NoBuyer => S1[k] # NoBuyer /\ S1[k].sub = S[k].sub
  BY <1>1
<1> QED BY <1>1, <1>2, <1>3 DEF MarketFine, Onward

LEMMA MsPut ==
  ASSUME NEW c, NEW M, NEW O, NEW R, NEW S, NEW A, NEW F, MarketFine(c, M, O, R, S, A, F),
         NEW M1 \in [c.subs -> AtMarket(c)], \A s \in c.subs : Begun(M, s) => Begun(M1, s)
  PROVE  MarketFine(c, M1, O, R, S, A, F) /\ Onward(c, M, O, R, S, M1, O, R, S)
<1> HIDE DEF NoBuyer, NoOp, NoSubRow, Begun
<1>1. RowsFine(c, M1, R)
  BY DEF RowsFine, RowFine, MarketFine
<1>2. OpsFine(c, M1, O, A)
  BY DEF OpsFine, OpFine, MarketFine
<1>3. FeesFine(c, M1, F)
  BY DEF FeesFine, FeeFine, MarketFine
<1> QED BY <1>1, <1>2, <1>3 DEF MarketFine, Onward

LEMMA OpPut ==
  ASSUME NEW c, NEW M, NEW O, NEW R, NEW S, NEW A, NEW F, MarketFine(c, M, O, R, S, A, F), NEW o \in c.operations, NEW v,
         OpFine(c, M, A[o], v), v # NoOp, NEW O1, O1 = PutAt(O, o, v),
         O[o] # NoOp => v.sub = O[o].sub /\ (O[o].state = "Done" => v.state = "Done")
  PROVE  MarketFine(c, M, O1, R, S, A, F) /\ Onward(c, M, O, R, S, M, O1, R, S) /\ O1[o] = v
<1>1. O1 = [k \in c.operations |-> O1[k]] /\ O1[o] = v /\ \A k \in c.operations \ {o} : O1[k] = O[k]
  BY PutAtIs DEF MarketFine, OpsFine
<1> HIDE DEF NoOp, PutAt
<1>2. OpsFine(c, M, O1, A)
  BY <1>1 DEF OpsFine, MarketFine
<1>3. \A k \in c.operations : O[k] # NoOp => /\ O1[k] # NoOp /\ O1[k].sub = O[k].sub
                                             /\ O[k].state = "Done" => O1[k].state = "Done"
  BY <1>1
<1> QED BY <1>1, <1>2, <1>3 DEF MarketFine, Onward

LEMMA AckPut ==
  ASSUME NEW c, NEW M, NEW O, NEW R, NEW S, NEW A, NEW F, MarketFine(c, M, O, R, S, A, F), NEW o \in c.operations,
         NEW a \in {"pending", "success", "not_required"}, a = "success" => O[o].state = "Done",
         NEW A1, A1 = PutAt(A, o, a)
  PROVE  MarketFine(c, M, O, R, S, A1, F)
<1>1. A1 = [k \in c.operations |-> A1[k]] /\ A1[o] = a /\ \A k \in c.operations \ {o} : A1[k] = A[k]
  BY PutAtIs DEF MarketFine, OpsFine
<1> HIDE DEF NoOp, PutAt
<1>2. ASSUME NEW k \in c.operations PROVE OpFine(c, M, A1[k], O[k])
  BY <1>1 DEF OpsFine, OpFine, MarketFine
<1> QED BY <1>1, <1>2 DEF MarketFine, OpsFine

LEMMA FeePut ==
  ASSUME NEW c, NEW M, NEW O, NEW R, NEW S, NEW A, NEW F, MarketFine(c, M, O, R, S, A, F), NEW s \in c.subs, NEW f,
         FeeFine(c, M, s, f), NEW F1, F1 = PutAt(F, s, f)
  PROVE  MarketFine(c, M, O, R, S, A, F1)
<1>1. F1 = [k \in c.subs |-> F1[k]] /\ F1[s] = f /\ \A k \in c.subs \ {s} : F1[k] = F[k]
  BY PutAtIs DEF MarketFine, FeesFine
<1> HIDE DEF PutAt
<1>2. FeesFine(c, M, F1)
  BY <1>1 DEF FeesFine, MarketFine
<1> QED BY <1>2 DEF MarketFine

(* A step that writes no table.                                            *)
LEMMA QuietStep ==
  ASSUME NEW c, MarketIInv(c), UNCHANGED <<ms, ops, row, onboarding, ack, fee>>,
         \A q \in pend' : q \in pend \/ ReqFine(c, q, ms, ops, row, onboarding),
         started' \in 0..c.requests, faults' \in 0..c.faults
  PROVE  MarketIInv(c)'
BY DEF MarketIInv

(* The counters.                                                           *)
LEMMA CountSame ==
  ASSUME NEW c, MarketIInv(c)
  PROVE  (started' = started => started' \in 0..c.requests) /\ (faults' = faults => faults' \in 0..c.faults)
BY DEF MarketIInv
LEMMA CountMore ==
  ASSUME NEW c, MarketIInv(c), c.requests \in Nat, c.faults \in Nat
  PROVE  /\ started < c.requests /\ started' = started + 1 => started' \in 0..c.requests
         /\ faults < c.faults /\ faults' = faults + 1 => faults' \in 0..c.faults
BY DEF MarketIInv

(* What a request or a handler does with the requests.                     *)
LEMMA QuietRequest ==
  ASSUME NEW c, Market(c)!MarketplaceAssumption, MarketIInv(c), NEW q, ReqFine(c, q, ms, ops, row, onboarding),
         Market(c)!Request(q), UNCHANGED <<ms, ops, row, onboarding, ack, fee, faults>>
  PROVE  MarketIInv(c)'
<1>1. (\A r \in pend' : r \in pend \/ r = q) /\ started < c.requests /\ started' = started + 1 /\ faults' = faults
  BY DEF Market!Request
<1>2. started' \in 0..c.requests /\ faults' \in 0..c.faults
  BY <1>1, CountSame, CountMore, MarketConstants
<1> QED BY <1>1, <1>2, QuietStep

LEMMA QuietGo ==
  ASSUME NEW c, MarketIInv(c), NEW req, NEW q, ReqFine(c, q, ms, ops, row, onboarding),
         Market(c)!Go(req, q), UNCHANGED <<ms, ops, row, onboarding, ack, fee, faults>>
  PROVE  MarketIInv(c)'
<1>1. (\A r \in pend' : r \in pend \/ r = q) /\ started' = started /\ faults' = faults
  BY DEF Market!Go
<1>2. started' \in 0..c.requests /\ faults' \in 0..c.faults
  BY <1>1, CountSame
<1> QED BY <1>1, <1>2, QuietStep

LEMMA QuietEnd ==
  ASSUME NEW c, Market(c)!MarketplaceAssumption, MarketIInv(c), pend' \subseteq pend, started' = started,
         faults' = faults \/ Market(c)!Fault, UNCHANGED <<ms, ops, row, onboarding, ack, fee>>
  PROVE  MarketIInv(c)'
<1>1. faults' = faults \/ (faults < c.faults /\ faults' = faults + 1)
  BY DEF Market!Fault
<1>2. started' \in 0..c.requests /\ faults' \in 0..c.faults
  BY <1>1, CountSame, CountMore, MarketConstants
<1> QED BY <1>2, QuietStep

LEMMA TableGo ==
  ASSUME NEW c, MarketIInv(c), NEW req, NEW q, Onward(c, ms, ops, row, onboarding, ms', ops', row', onboarding'),
         MarketFine(c, ms', ops', row', onboarding', ack', fee'), ReqFine(c, q, ms', ops', row', onboarding'),
         Market(c)!Go(req, q), faults' \in 0..c.faults
  PROVE  MarketIInv(c)'
<1>1. (\A r \in pend' : r \in pend \/ r = q) /\ started' = started
  BY DEF Market!Go
<1>2. started' \in 0..c.requests
  BY <1>1, CountSame
<1> QED BY <1>1, <1>2, MarketStepFine

LEMMA TableEnd ==
  ASSUME NEW c, MarketIInv(c), Onward(c, ms, ops, row, onboarding, ms', ops', row', onboarding'),
         MarketFine(c, ms', ops', row', onboarding', ack', fee'), pend' \subseteq pend, started' = started,
         faults' \in 0..c.faults
  PROVE  MarketIInv(c)'
<1>1. started' \in 0..c.requests
  BY CountSame
<1> QED BY <1>1, MarketStepFine

LEMMA EndIs ==
  ASSUME NEW c, NEW req, Market(c)!End(req) PROVE pend' \subseteq pend /\ started' = started
BY DEF Market!End

(* The names of the instance.                                              *)
LEMMA MarketNames ==
  ASSUME NEW c
  PROVE  /\ Market(c)!NoRow = NoSubRow /\ Market(c)!NoSession = NoBuyer /\ Market(c)!NoOperation = NoOp
         /\ \A r : Market(c)!Occupies(r) <=> Holds(r)
BY DEF Market!NoRow, NoSubRow, Market!NoSession, NoBuyer, Market!NoOperation, NoOp, Market!Occupies, Holds, Market!None

LEMMA MarketHears ==
  ASSUME NEW c, MarketIInv(c), NEW s \in c.subs PROVE ms[s] \in AtMarket(c) /\ Heard(c, ms, s, ms[s])
BY DEF MarketIInv, MarketFine, Heard, Begun

LEMMA MarketSession ==
  ASSUME NEW c, MarketIInv(c), NEW x \in c.sessions, onboarding[x] # NoBuyer
  PROVE  /\ OfBuyer(c, onboarding, x) /\ row[onboarding[x].sub] # NoSubRow
         /\ RowFine(c, ms, onboarding[x].sub, row[onboarding[x].sub])
<1> HIDE DEF NoBuyer, NoSubRow
<1> QED BY DEF MarketIInv, MarketFine, SessionsFine, SessionFine, OfBuyer, RowsFine

LEMMA Resolves ==
  ASSUME NEW c, Market(c)!MarketplaceAssumption, MarketIInv(c), NEW s \in c.subs, Market(c)!ResolveSubscription(s)
  PROVE  MarketIInv(c)'
<1> DEFINE q == [op |-> "resolved", sub |-> s, latest |-> ms[s]]
<1>1. ReqFine(c, q, ms, ops, row, onboarding)
  BY ReqHeard, MarketHears
<1>2. Market(c)!Request(q) /\ UNCHANGED <<ms, ops, row, onboarding, ack, fee, faults>>
  BY DEF Market!ResolveSubscription, Market!db
<1> QED BY <1>1, <1>2, QuietRequest

LEMMA Refreshes ==
  ASSUME NEW c, Market(c)!MarketplaceAssumption, MarketIInv(c), NEW s \in c.subs, Market(c)!RefreshSubscription(s)
  PROVE  MarketIInv(c)'
<1> DEFINE q == [op |-> "refresh", sub |-> s]
<1>1. ReqFine(c, q, ms, ops, row, onboarding)
  BY ReqRefresh
<1>2. Market(c)!Request(q) /\ UNCHANGED <<ms, ops, row, onboarding, ack, fee, faults>>
  BY DEF Market!RefreshSubscription, Market!db
<1> QED BY <1>1, <1>2, QuietRequest

LEMMA LinksAccount ==
  ASSUME NEW c, Market(c)!MarketplaceAssumption, MarketIInv(c), NEW x \in c.sessions, NEW u, Market(c)!LinkAccount(x, u)
  PROVE  MarketIInv(c)'
<1> DEFINE q == [op |-> "linkUser", session |-> x, user |-> u]
<1>1. onboarding[x] # NoBuyer /\ u \in c.buyers[onboarding[x].sub]
  BY MarketNames, Zenon DEF Market!LinkAccount, Market!ValidSession
<1>2. ReqFine(c, q, ms, ops, row, onboarding)
  BY <1>1, ReqLinkUser, MarketSession
<1>3. Market(c)!Request(q) /\ UNCHANGED <<ms, ops, row, onboarding, ack, fee, faults>>
  BY DEF Market!LinkAccount, Market!db
<1> QED BY <1>2, <1>3, QuietRequest

LEMMA LinksOrganization ==
  ASSUME NEW c, Market(c)!MarketplaceAssumption, MarketIInv(c), NEW x \in c.sessions, NEW u \in c.users, NEW g \in c.orgs,
         Market(c)!LinkOrganization(x, u, g)
  PROVE  MarketIInv(c)'
<1> DEFINE q == [op |-> "linkOrg", session |-> x, org |-> g]
<1>1. onboarding[x] # NoBuyer /\ row[onboarding[x].sub].user = u /\ c.owner[g] = u
  BY MarketNames, Zenon DEF Market!LinkOrganization, Market!ValidSession
<1>2. Payer(c, onboarding[x].sub, g)
  BY <1>1, MarketSession, MarketConstants DEF RowFine, Payer
<1>3. ReqFine(c, q, ms, ops, row, onboarding)
  BY <1>1, <1>2, ReqLinkOrg, MarketSession
<1>4. Market(c)!Request(q) /\ UNCHANGED <<ms, ops, row, onboarding, ack, fee, faults>>
  BY DEF Market!LinkOrganization, Market!db
<1> QED BY <1>3, <1>4, QuietRequest

LEMMA Activates ==
  ASSUME NEW c, Market(c)!MarketplaceAssumption, MarketIInv(c), NEW x \in c.sessions, NEW u \in c.users, NEW g \in c.orgs,
         Market(c)!ActivateSubscription(x, u, g)
  PROVE  MarketIInv(c)'
<1>1. PICK k, b : /\ k = IF row[onboarding[x].sub].status = "Subscribed" THEN "activated" ELSE "inProgress"
                  /\ b = (row[onboarding[x].sub].status # "Subscribed")
  OBVIOUS
<1> DEFINE q == [op |-> k, session |-> x, org |-> g, refresh |-> b]
<1>2. onboarding[x] # NoBuyer /\ row[onboarding[x].sub].org = g
  BY MarketNames, Zenon DEF Market!ActivateSubscription, Market!ValidSession
<1>3. Payer(c, onboarding[x].sub, g)
  BY <1>2, MarketSession, MarketConstants DEF RowFine, Payer
<1>4. k \in {"inProgress", "activateAtMicrosoft", "activated"} /\ (k = "activated" => Begun(ms, onboarding[x].sub))
  BY <1>1, <1>2, MarketSession DEF RowFine
<1>5. ReqFine(c, q, ms, ops, row, onboarding)
  BY <1>2, <1>3, <1>4, ReqActivating, MarketSession
<1>6. Market(c)!Request(q) /\ UNCHANGED <<ms, ops, row, onboarding, ack, fee, faults>>
  BY <1>1, Zenon DEF Market!ActivateSubscription, Market!db
<1> QED BY <1>5, <1>6, QuietRequest

(* Handlers that write no table.                                           *)
LEMMA ReqOf ==
  ASSUME NEW c, MarketIInv(c), NEW req \in pend PROVE ReqFine(c, req, ms, ops, row, onboarding)
BY DEF MarketIInv

LEMMA FindsSession ==
  ASSUME NEW c, Market(c)!MarketplaceAssumption, MarketIInv(c), NEW req \in pend, Market(c)!FindSession(req)
  PROVE  MarketIInv(c)'
<1> DEFINE q == [op |-> "createSession", sub |-> req.sub]
<1>1. req.sub \in c.subs /\ row[req.sub] # NoSubRow
  BY ReqOf DEF ReqFine, Market!FindSession
<1>2. ReqFine(c, q, ms, ops, row, onboarding)
  BY <1>1, ReqOfRow
<1>3. UNCHANGED <<ms, ops, row, onboarding, ack, fee, faults>> /\ (Market(c)!End(req) \/ Market(c)!Go(req, q))
  BY DEF Market!FindSession, Market!db
<1>4. CASE Market(c)!End(req)
  BY <1>3, <1>4, EndIs, QuietEnd
<1>5. CASE Market(c)!Go(req, q)
  BY <1>2, <1>3, <1>5, QuietGo
<1> QED BY <1>3, <1>4, <1>5

LEMMA ReadsSubscription ==
  ASSUME NEW c, Market(c)!MarketplaceAssumption, MarketIInv(c), NEW req \in pend, Market(c)!ReadSubscription(req)
  PROVE  MarketIInv(c)'
<1> DEFINE q == [op |-> "update", sub |-> req.sub, latest |-> ms[req.sub]]
<1>1. req.sub \in c.subs
  BY ReqOf DEF ReqFine, Market!ReadSubscription
<1>2. ReqFine(c, q, ms, ops, row, onboarding)
  BY <1>1, ReqHeard, MarketHears
<1>3. UNCHANGED <<ms, ops, row, onboarding, ack, fee, faults>> /\ Market(c)!Go(req, q)
  BY DEF Market!ReadSubscription, Market!db
<1> QED BY <1>2, <1>3, QuietGo

LEMMA ReqOfWebhook ==
  ASSUME NEW c, MarketIInv(c), NEW req \in pend, req.op = "webhook"
  PROVE  /\ OfWebhook(c, ops, row, req.o)
         /\ req.step = "ack" => ops[req.o].state = "Done"
         /\ req.step = "update" => Heard(c, ms, ops[req.o].sub, req.latest)
BY ReqOf DEF ReqFine, OfWebhook

LEMMA WebhookReadsIt ==
  ASSUME NEW c, Market(c)!MarketplaceAssumption, MarketIInv(c), NEW req \in pend, Market(c)!WebhookReads(req)
  PROVE  MarketIInv(c)'
<1> DEFINE q == [op |-> "webhook", o |-> req.o, step |-> "update", latest |-> ms[ops[req.o].sub]]
<1>1. OfWebhook(c, ops, row, req.o)
  BY ReqOfWebhook DEF Market!WebhookReads
<1>2. ReqFine(c, q, ms, ops, row, onboarding)
  BY <1>1, ReqWebhookUpdate, MarketHears DEF OfWebhook
<1>3. /\ UNCHANGED <<ms, ops, row, onboarding, ack, fee>>
      /\ (Market(c)!Fault /\ Market(c)!End(req)) \/ (Market(c)!Go(req, q) /\ UNCHANGED faults)
  BY DEF Market!WebhookReads, Market!db
<1>4. CASE Market(c)!Fault /\ Market(c)!End(req)
  BY <1>3, <1>4, EndIs, QuietEnd
<1>5. CASE Market(c)!Go(req, q) /\ UNCHANGED faults
  BY <1>2, <1>3, <1>5, QuietGo
<1> QED BY <1>3, <1>4, <1>5

LEMMA ProcessesWebhook ==
  ASSUME NEW c, MarketIInv(c), NEW o \in c.operations, Market(c)!ProcessWebhook(o)
  PROVE  MarketIInv(c)'
<1>1. ops[o] # NoOp /\ row[ops[o].sub] # NoSubRow /\ ops[o].sub \in c.subs
  BY MarketNames, Zenon DEF Market!ProcessWebhook, Market!Rows
<1>2. PICK q : q = [op |-> "webhook", o |-> o, step |-> "operation"]
  OBVIOUS
<1>3. ReqFine(c, q, ms, ops, row, onboarding)
  BY <1>1, <1>2, ReqWebhook DEF OfWebhook
<1>4. /\ UNCHANGED <<ms, ops, row, onboarding, ack, fee, started, faults>> /\ pend' = pend \cup {q}
  BY <1>2 DEF Market!ProcessWebhook, Market!db, Market!Webhook
<1>5. started' \in 0..c.requests /\ faults' \in 0..c.faults
  BY <1>4, CountSame
<1>6. \A r \in pend' : r \in pend \/ ReqFine(c, r, ms, ops, row, onboarding)
  BY <1>3, <1>4
<1> QED BY <1>4, <1>5, <1>6, QuietStep

LEMMA Reconciles ==
  ASSUME NEW c, MarketIInv(c), Market(c)!ReconcileSubscriptions
  PROVE  MarketIInv(c)'
<1>1. PICK q : q = [op |-> "reconcile", step |-> "next", todo |-> c.subs, latest |-> ms]
  OBVIOUS
<1>2. ReqFine(c, q, ms, ops, row, onboarding)
  BY <1>1, ReqReconcile, MarketHears
<1>3. UNCHANGED <<ms, ops, row, onboarding, ack, fee, started, faults>> /\ pend' = pend \cup {q}
  BY <1>1 DEF Market!ReconcileSubscriptions, Market!db
<1>4. started' \in 0..c.requests /\ faults' \in 0..c.faults
  BY <1>3, CountSame
<1>5. \A r \in pend' : r \in pend \/ ReqFine(c, r, ms, ops, row, onboarding)
  BY <1>2, <1>3
<1> QED BY <1>3, <1>4, <1>5, QuietStep

LEMMA ReqOfReconcile ==
  ASSUME NEW c, MarketIInv(c), NEW req \in pend, req.op = "reconcile"
  PROVE  /\ req.todo \subseteq c.subs /\ \A s \in c.subs : Heard(c, ms, s, req.latest[s])
         /\ req.step \in {"update", "activate"} => req.sub \in c.subs
         /\ req.step = "activate" => row[req.sub] # NoSubRow
         /\ req.step = "update" => req = [op |-> req.op, step |-> req.step, todo |-> req.todo,
                                          latest |-> req.latest, sub |-> req.sub, inProgress |-> req.inProgress]
<1> HIDE DEF NoSubRow
<1> QED BY ReqOf DEF ReqFine

LEMMA ReconcileReadsIt ==
  ASSUME NEW c, MarketIInv(c), NEW req \in pend, NEW s \in c.subs, Market(c)!ReconcileReads(req, s)
  PROVE  MarketIInv(c)'
<1>1. req.todo \subseteq c.subs /\ \A k \in c.subs : Heard(c, ms, k, req.latest[k])
  BY ReqOfReconcile DEF Market!ReconcileReads
<1>2. PICK T, b : T = req.todo \ {s} /\ b = (row[s] # Market(c)!NoRow /\ row[s].activation = "in_progress")
  OBVIOUS
<1> DEFINE q == [op |-> "reconcile", step |-> "update", todo |-> T, latest |-> req.latest, sub |-> s, inProgress |-> b]
<1>3. T \subseteq c.subs
  BY <1>1, <1>2
<1>4. ReqFine(c, q, ms, ops, row, onboarding)
  BY <1>1, <1>3, ReqReconcileOf
<1>5. UNCHANGED <<ms, ops, row, onboarding, ack, fee, faults>> /\ Market(c)!Go(req, q)
  BY <1>2, Zenon DEF Market!ReconcileReads, Market!db
<1> QED BY <1>4, <1>5, QuietGo

LEMMA ReconcileEndsIt ==
  ASSUME NEW c, Market(c)!MarketplaceAssumption, MarketIInv(c), NEW req \in pend, Market(c)!ReconcileEnds(req)
  PROVE  MarketIInv(c)'
<1>1. UNCHANGED <<ms, ops, row, onboarding, ack, fee, faults>> /\ Market(c)!End(req)
  BY DEF Market!ReconcileEnds, Market!db
<1> QED BY <1>1, EndIs, QuietEnd

LEMMA Restarts ==
  ASSUME NEW c, Market(c)!MarketplaceAssumption, MarketIInv(c), Market(c)!Restart
  PROVE  MarketIInv(c)'
<1>1. UNCHANGED <<ms, ops, row, onboarding, ack, fee, started>> /\ Market(c)!Fault /\ pend' \subseteq pend
  BY DEF Market!Restart, Market!db
<1> QED BY <1>1, QuietEnd

(* Handlers that write a row: one field, or what Microsoft said.           *)
Touched(c, M, s, r, t) == RowFine(c, M, s, t) /\ t.org = r.org /\ t.status = r.status
LEMMA RowWith ==
  ASSUME NEW c, Market(c)!MarketplaceAssumption, NEW M, NEW s \in c.subs, NEW r, RowFine(c, M, s, r)
  PROVE  /\ \A u \in c.buyers[s] : Touched(c, M, s, r, [r EXCEPT !.user = u])
         /\ \A g : Payer(c, s, g) => RowFine(c, M, s, [r EXCEPT !.org = g])
         /\ \A p \in c.plans : Touched(c, M, s, r, [r EXCEPT !.plan = p])
         /\ \A t \in {"in_progress", "activated", "failed"} : Touched(c, M, s, r, [r EXCEPT !.activation = t])
         /\ \A t \in MsStatus : Begun(M, s) => RowFine(c, M, s, [r EXCEPT !.status = t])
         /\ \A l : Heard(c, M, s, l) => RowFine(c, M, s, [r EXCEPT !.status = l.status, !.plan = l.plan])
<1>1. c.buyers[s] \subseteq c.users
  BY MarketConstants
<1>2. \A u \in c.buyers[s] : Touched(c, M, s, r, [r EXCEPT !.user = u])
  BY <1>1 DEF Touched, RowFine, SubRow
<1>3. \A g : Payer(c, s, g) => RowFine(c, M, s, [r EXCEPT !.org = g])
  BY DEF RowFine, SubRow, Payer
<1>4. \A p \in c.plans : Touched(c, M, s, r, [r EXCEPT !.plan = p])
  BY DEF Touched, RowFine, SubRow
<1>5. \A t \in {"in_progress", "activated", "failed"} : Touched(c, M, s, r, [r EXCEPT !.activation = t])
  BY DEF Touched, RowFine, SubRow
<1>6. \A t \in MsStatus : Begun(M, s) => RowFine(c, M, s, [r EXCEPT !.status = t])
  BY DEF RowFine, SubRow
<1>7. \A l : Heard(c, M, s, l) => RowFine(c, M, s, [r EXCEPT !.status = l.status, !.plan = l.plan])
  BY DEF RowFine, SubRow, Heard, AtMarket
<1> QED BY <1>2, <1>3, <1>4, <1>5, <1>6, <1>7

LEMMA RowIndexed ==
  ASSUME NEW c, MarketIInv(c), NEW s \in c.subs, NEW t, RowFine(c, ms, s, t), ~Market(c)!IndexRefuses(s, t),
         row' = PutAt(row, s, t), UNCHANGED <<ms, ops, onboarding, ack, fee>>
  PROVE  /\ MarketFine(c, ms', ops', row', onboarding', ack', fee')
         /\ Onward(c, ms, ops, row, onboarding, ms', ops', row', onboarding') /\ row'[s] # NoSubRow
<1>1. \A k \in c.subs \ {s} : Holds(t) /\ Holds(row[k]) => row[k].org # t.org
  BY MarketNames, Zenon DEF Market!IndexRefuses
<1> HIDE DEF PutAt, NoSubRow
<1>2. MarketFine(c, ms, ops, row, onboarding, ack, fee)
  BY DEF MarketIInv
<1>3. PICK R1 : R1 = row'
  OBVIOUS
<1>4. /\ MarketFine(c, ms, ops, R1, onboarding, ack, fee) /\ R1[s] = t /\ t # NoSubRow
      /\ Onward(c, ms, ops, row, onboarding, ms, ops, R1, onboarding)
  BY <1>1, <1>2, <1>3, RowPut
<1> QED BY <1>3, <1>4

LEMMA RowTouched ==
  ASSUME NEW c, MarketIInv(c), NEW s \in c.subs, row[s] # NoSubRow, NEW t, Touched(c, ms, s, row[s], t),
         row' = PutAt(row, s, t), UNCHANGED <<ms, ops, onboarding, ack, fee>>
  PROVE  /\ MarketFine(c, ms', ops', row', onboarding', ack', fee')
         /\ Onward(c, ms, ops, row, onboarding, ms', ops', row', onboarding')
<1>1. \A k \in c.subs \ {s} : Holds(t) /\ Holds(row[k]) => row[k].org # t.org
  BY DEF MarketIInv, MarketFine, OneHolds, Holds, Touched
<1>2. ~Market(c)!IndexRefuses(s, t)
  BY <1>1, MarketNames, Zenon DEF Market!IndexRefuses
<1> QED BY <1>2, RowIndexed DEF Touched

LEMMA RowOfSub ==
  ASSUME NEW c, MarketIInv(c), NEW s \in c.subs, row[s] # NoSubRow
  PROVE  /\ RowFine(c, ms, s, row[s]) /\ row = [k \in c.subs |-> row[k]]
         /\ row[s] = [born |-> row[s].born, status |-> row[s].status, plan |-> row[s].plan, user |-> row[s].user,
                      org |-> row[s].org, activation |-> row[s].activation]
<1>1. RowFine(c, ms, s, row[s]) /\ row = [k \in c.subs |-> row[k]]
  BY DEF MarketIInv, MarketFine, RowsFine
<1>2. row[s] \in SubRow(c)
  BY <1>1 DEF RowFine
<1> QED BY <1>1, <1>2 DEF SubRow

LEMMA LinksUser ==
  ASSUME NEW c, Market(c)!MarketplaceAssumption, MarketIInv(c), NEW req \in pend, Market(c)!LinkUser(req)
  PROVE  MarketIInv(c)'
<1> DEFINE q == [op |-> "session", session |-> req.session, status |-> "account_linked"]
<1>1. PICK s, t : s = onboarding[req.session].sub /\ t = [row[s] EXCEPT !.user = req.user]
  OBVIOUS
<1>2. OfBuyer(c, onboarding, req.session) /\ req.user \in c.buyers[s]
  BY <1>1, ReqOf DEF ReqFine, OfSession, Market!LinkUser
<1>3. s \in c.subs /\ row[s] # NoSubRow
  BY <1>1, <1>2, MarketSession DEF OfBuyer
<1>4. Touched(c, ms, s, row[s], t)
  <2>1. RowFine(c, ms, s, row[s])
    BY <1>3, RowOfSub
  <2> QED BY <1>1, <1>2, <1>3, <2>1, RowWith
<1>5. row' = PutAt(row, s, t) /\ Market(c)!Go(req, q) /\ UNCHANGED <<ms, ops, onboarding, ack, fee, faults>>
  BY <1>1 DEF Market!LinkUser, PutAt
<1>6. ReqFine(c, q, ms', ops', row', onboarding')
  BY <1>2, <1>5, ReqSession DEF StatusOfSession
<1>7. faults' \in 0..c.faults
  BY <1>5, CountSame
<1>8. MarketFine(c, ms', ops', row', onboarding', ack', fee') /\ Onward(c, ms, ops, row, onboarding, ms', ops', row', onboarding')
  BY <1>3, <1>4, <1>5, RowTouched
<1> QED BY <1>5, <1>6, <1>7, <1>8, TableGo

LEMMA SetsInProgress ==
  ASSUME NEW c, Market(c)!MarketplaceAssumption, MarketIInv(c), NEW req \in pend, Market(c)!SetInProgress(req)
  PROVE  MarketIInv(c)'
<1> DEFINE q == [op |-> "activateAtMicrosoft", session |-> req.session, org |-> req.org, refresh |-> req.refresh]
<1>1. PICK s, t : s = onboarding[req.session].sub /\ t = [row[s] EXCEPT !.activation = "in_progress"]
  OBVIOUS
<1>2. /\ OfBuyer(c, onboarding, req.session) /\ Payer(c, s, req.org)
      /\ req = [op |-> req.op, session |-> req.session, org |-> req.org, refresh |-> req.refresh]
  BY <1>1, ReqOf DEF ReqFine, OfSession, Market!SetInProgress
<1>3. s \in c.subs /\ row[s] # NoSubRow
  BY <1>1, <1>2, MarketSession DEF OfBuyer
<1>4. Touched(c, ms, s, row[s], t)
  <2>1. RowFine(c, ms, s, row[s])
    BY <1>3, RowOfSub
  <2> QED BY <1>1, <1>3, <2>1, RowWith
<1>5. [req EXCEPT !.op = "activateAtMicrosoft"] = q
  BY <1>2
<1>6. Market(c)!Go(req, q) /\ UNCHANGED <<ms, ops, onboarding, ack, fee, faults>>
  BY <1>5, Zenon DEF Market!SetInProgress
<1>7. row' = PutAt(row, s, t)
  BY <1>1 DEF Market!SetInProgress, PutAt
<1>8. ReqFine(c, q, ms', ops', row', onboarding')
  BY <1>1, <1>2, <1>6, ReqActivating
<1>9. faults' \in 0..c.faults
  BY <1>6, CountSame
<1>10. MarketFine(c, ms', ops', row', onboarding', ack', fee') /\ Onward(c, ms, ops, row, onboarding, ms', ops', row', onboarding')
  BY <1>3, <1>4, <1>6, <1>7, RowTouched
<1> QED BY <1>6, <1>8, <1>9, <1>10, TableGo

LEMMA SetsActivated ==
  ASSUME NEW c, Market(c)!MarketplaceAssumption, MarketIInv(c), NEW req \in pend, Market(c)!SetActivated(req)
  PROVE  MarketIInv(c)'
<1> DEFINE q == [op |-> "session", session |-> req.session, status |-> "activated", org |-> req.org,
                 refresh |-> req.refresh]
<1>1. PICK s, t : s = onboarding[req.session].sub /\ t = [row[s] EXCEPT !.activation = "activated"]
  OBVIOUS
<1>2. OfBuyer(c, onboarding, req.session) /\ Payer(c, s, req.org) /\ Begun(ms, s)
  BY <1>1, ReqOf DEF ReqFine, OfSession, Market!SetActivated
<1>3. s \in c.subs /\ row[s] # NoSubRow
  BY <1>1, <1>2, MarketSession DEF OfBuyer
<1>4. Touched(c, ms, s, row[s], t)
  <2>1. RowFine(c, ms, s, row[s])
    BY <1>3, RowOfSub
  <2> QED BY <1>1, <1>3, <2>1, RowWith
<1>5. row' = PutAt(row, s, t) /\ Market(c)!Go(req, q) /\ UNCHANGED <<ms, ops, onboarding, ack, fee, faults>>
  BY <1>1 DEF Market!SetActivated, PutAt
<1>6. ReqFine(c, q, ms', ops', row', onboarding')
  BY <1>1, <1>2, <1>5, ReqSessionActivated
<1>7. faults' \in 0..c.faults
  BY <1>5, CountSame
<1>8. MarketFine(c, ms', ops', row', onboarding', ack', fee') /\ Onward(c, ms, ops, row, onboarding, ms', ops', row', onboarding')
  BY <1>3, <1>4, <1>5, RowTouched
<1> QED BY <1>5, <1>6, <1>7, <1>8, TableGo

LEMMA SetsFailed ==
  ASSUME NEW c, Market(c)!MarketplaceAssumption, MarketIInv(c), NEW req \in pend, Market(c)!SetFailed(req)
  PROVE  MarketIInv(c)'
<1> DEFINE q == [op |-> "session", session |-> req.session, status |-> "failed"]
<1>1. PICK s, t : s = onboarding[req.session].sub /\ t = [row[s] EXCEPT !.activation = "failed"]
  OBVIOUS
<1>2. OfBuyer(c, onboarding, req.session)
  BY ReqOf DEF ReqFine, OfSession, Market!SetFailed
<1>3. s \in c.subs /\ row[s] # NoSubRow
  BY <1>1, <1>2, MarketSession DEF OfBuyer
<1>4. Touched(c, ms, s, row[s], t)
  <2>1. RowFine(c, ms, s, row[s])
    BY <1>3, RowOfSub
  <2> QED BY <1>1, <1>3, <2>1, RowWith
<1>5. row' = PutAt(row, s, t) /\ Market(c)!Go(req, q) /\ UNCHANGED <<ms, ops, onboarding, ack, fee, faults>>
  BY <1>1 DEF Market!SetFailed, PutAt
<1>6. ReqFine(c, q, ms', ops', row', onboarding')
  BY <1>2, <1>5, ReqSession DEF StatusOfSession
<1>7. faults' \in 0..c.faults
  BY <1>5, CountSame
<1>8. MarketFine(c, ms', ops', row', onboarding', ack', fee') /\ Onward(c, ms, ops, row, onboarding, ms', ops', row', onboarding')
  BY <1>3, <1>4, <1>5, RowTouched
<1> QED BY <1>5, <1>6, <1>7, <1>8, TableGo

(* A webhook keeps what it is about.                                       *)
LEMMA WebhookKept ==
  ASSUME NEW c, NEW M, NEW O, NEW R, NEW S, NEW M1, NEW O1, NEW R1, NEW S1,
         Onward(c, M, O, R, S, M1, O1, R1, S1), NEW o, OfWebhook(c, O, R, o)
  PROVE  OfWebhook(c, O1, R1, o)
<1> HIDE DEF NoOp, NoSubRow
<1> QED BY DEF Onward, OfWebhook

LEMMA SetsPlan ==
  ASSUME NEW c, Market(c)!MarketplaceAssumption, MarketIInv(c), NEW req \in pend, Market(c)!SetSubscriptionPlanId(req)
  PROVE  MarketIInv(c)'
<1> DEFINE q == [op |-> "webhook", o |-> req.o, step |-> "patch"]
<1>1. PICK s, t : s = ops[req.o].sub /\ t = [row[s] EXCEPT !.plan = ops[req.o].plan]
  OBVIOUS
<1>2. OfWebhook(c, ops, row, req.o)
  BY ReqOfWebhook DEF Market!SetSubscriptionPlanId
<1>3. s \in c.subs /\ row[s] # NoSubRow /\ ops[req.o].plan \in c.plans
  BY <1>1, <1>2 DEF OfWebhook, MarketIInv, MarketFine, OpsFine, OpFine
<1>4. Touched(c, ms, s, row[s], t)
  <2>1. RowFine(c, ms, s, row[s])
    BY <1>3, RowOfSub
  <2> QED BY <1>1, <1>3, <2>1, RowWith
<1>5. row' = PutAt(row, s, t) /\ Market(c)!Go(req, q) /\ UNCHANGED <<ms, ops, onboarding, ack, fee, faults>>
  BY <1>1 DEF Market!SetSubscriptionPlanId, PutAt, Market!Webhook
<1>6. MarketFine(c, ms', ops', row', onboarding', ack', fee') /\ Onward(c, ms, ops, row, onboarding, ms', ops', row', onboarding')
  BY <1>3, <1>4, <1>5, RowTouched
<1>7. ReqFine(c, q, ms', ops', row', onboarding')
  BY <1>2, <1>6, WebhookKept, ReqWebhook
<1>8. faults' \in 0..c.faults
  BY <1>5, CountSame
<1> QED BY <1>5, <1>6, <1>7, <1>8, TableGo

LEMMA ReconcileActivatesIt ==
  ASSUME NEW c, Market(c)!MarketplaceAssumption, MarketIInv(c), NEW req \in pend, Market(c)!ReconcileActivates(req)
  PROVE  MarketIInv(c)'
<1> DEFINE q == [op |-> "reconcile", step |-> "next", todo |-> req.todo, latest |-> req.latest]
<1>1. PICK s, t : s = req.sub /\ t = [row[s] EXCEPT !.activation = "activated"]
  OBVIOUS
<1>2. /\ req.todo \subseteq c.subs /\ \A k \in c.subs : Heard(c, ms, k, req.latest[k])
      /\ s \in c.subs /\ row[s] # NoSubRow
  BY <1>1, ReqOfReconcile DEF Market!ReconcileActivates
<1>3. Touched(c, ms, s, row[s], t)
  <2>1. RowFine(c, ms, s, row[s])
    BY <1>2, RowOfSub
  <2> QED BY <1>1, <1>2, <2>1, RowWith
<1>4. row' = PutAt(row, s, t) /\ Market(c)!Go(req, q) /\ UNCHANGED <<ms, ops, onboarding, ack, fee, faults>>
  BY <1>1 DEF Market!ReconcileActivates, PutAt
<1>5. ReqFine(c, q, ms', ops', row', onboarding')
  BY <1>2, <1>4, ReqReconcile
<1>6. faults' \in 0..c.faults
  BY <1>4, CountSame
<1>7. MarketFine(c, ms', ops', row', onboarding', ack', fee') /\ Onward(c, ms, ops, row, onboarding, ms', ops', row', onboarding')
  BY <1>2, <1>3, <1>4, RowTouched
<1> QED BY <1>4, <1>5, <1>6, <1>7, TableGo

LEMMA MarketCounts ==
  ASSUME NEW c, NEW S PROVE Market(c)!Cardinality(S) = Cardinality(S)
BY DEF Cardinality, Market!Cardinality

LEMMA SyncedFine ==
  ASSUME NEW c, Market(c)!MarketplaceAssumption, MarketIInv(c), NEW s \in c.subs, NEW l, Heard(c, ms, s, l)
  PROVE  RowFine(c, ms, s, Market(c)!Synced(s, l))
<1>1. CASE row[s] = NoSubRow
  <2>1. PICK n : n = Cardinality(Market(c)!Rows) + 1
    OBVIOUS
  <2>2. n \in 1..Cardinality(c.subs)
    <3>1. Market(c)!Rows \subseteq c.subs \ {s}
      BY <1>1, MarketNames, Zenon DEF Market!Rows
    <3>2. IsFiniteSet(c.subs \ {s}) /\ Cardinality(c.subs \ {s}) = Cardinality(c.subs) - 1 /\ Cardinality(c.subs) \in Nat
      BY MarketConstants, FS_RemoveElement, FS_CardinalityType
    <3>3. Cardinality(Market(c)!Rows) \in Nat /\ Cardinality(Market(c)!Rows) <= Cardinality(c.subs \ {s})
      BY <3>1, <3>2, FS_Subset, FS_CardinalityType
    <3> QED BY <2>1, <3>2, <3>3
  <2>3. Market(c)!Synced(s, l) = [born |-> n, status |-> l.status, plan |-> l.plan, user |-> "none", org |-> "none",
                                  activation |-> "not_started"]
    BY <1>1, <2>1, MarketNames, MarketCounts, Zenon DEF Market!Synced, Market!None
  <2>4. l.status \in MsStatus /\ l.plan \in c.plans /\ (l.status # "PendingFulfillmentStart" => Begun(ms, s))
    BY DEF Heard, AtMarket
  <2> QED BY <2>2, <2>3, <2>4 DEF RowFine, SubRow
<1>2. CASE row[s] # NoSubRow
  <2>1. Market(c)!Synced(s, l) = [row[s] EXCEPT !.status = l.status, !.plan = l.plan]
    BY <1>2, MarketNames, Zenon DEF Market!Synced
  <2>2. RowFine(c, ms, s, row[s])
    BY <1>2, RowOfSub
  <2>3. \A k : Heard(c, ms, s, k) => RowFine(c, ms, s, [row[s] EXCEPT !.status = k.status, !.plan = k.plan])
    BY <2>2, RowWith
  <2> QED BY <2>1, <2>3
<1> QED BY <1>1, <1>2

LEMMA UpsertsResolved ==
  ASSUME NEW c, Market(c)!MarketplaceAssumption, MarketIInv(c), NEW req \in pend, Market(c)!UpsertResolvedSubscription(req)
  PROVE  MarketIInv(c)'
<1> DEFINE q == [op |-> "findSession", sub |-> req.sub]
<1>1. req.sub \in c.subs /\ Heard(c, ms, req.sub, req.latest)
  BY ReqOf DEF ReqFine, Market!UpsertResolvedSubscription
<1>2. PICK t : t = Market(c)!Synced(req.sub, req.latest)
  OBVIOUS
<1>3. RowFine(c, ms, req.sub, t)
  BY <1>1, <1>2, SyncedFine
<1>4. /\ UNCHANGED <<ms, ops, onboarding, ack, fee, faults>>
      /\ \/ Market(c)!End(req) /\ row' = row
         \/ ~Market(c)!IndexRefuses(req.sub, t) /\ row' = PutAt(row, req.sub, t) /\ Market(c)!Go(req, q)
  BY <1>2, Zenon DEF Market!UpsertResolvedSubscription, PutAt
<1>5. CASE Market(c)!End(req) /\ row' = row
  BY <1>4, <1>5, EndIs, QuietEnd
<1>6. CASE ~Market(c)!IndexRefuses(req.sub, t) /\ row' = PutAt(row, req.sub, t) /\ Market(c)!Go(req, q)
  <2>1. /\ MarketFine(c, ms', ops', row', onboarding', ack', fee') /\ row'[req.sub] # NoSubRow
        /\ Onward(c, ms, ops, row, onboarding, ms', ops', row', onboarding')
    BY <1>1, <1>3, <1>4, <1>6, RowIndexed
  <2>2. ReqFine(c, q, ms', ops', row', onboarding')
    BY <1>1, <2>1, ReqOfRow
  <2>3. faults' \in 0..c.faults
    BY <1>4, CountSame
  <2> QED BY <1>6, <2>1, <2>2, <2>3, TableGo
<1> QED BY <1>4, <1>5, <1>6

LEMMA UpdatesFromMicrosoft ==
  ASSUME NEW c, Market(c)!MarketplaceAssumption, MarketIInv(c), NEW req \in pend,
         Market(c)!UpdateSubscriptionFromMicrosoft(req)
  PROVE  MarketIInv(c)'
<1>1. req.sub \in c.subs /\ Heard(c, ms, req.sub, req.latest)
  BY ReqOf DEF ReqFine, Market!UpdateSubscriptionFromMicrosoft
<1>2. PICK t : t = Market(c)!Synced(req.sub, req.latest)
  OBVIOUS
<1>3. RowFine(c, ms, req.sub, t)
  BY <1>1, <1>2, SyncedFine
<1>4. /\ UNCHANGED <<ms, ops, onboarding, ack, fee, faults>> /\ Market(c)!End(req)
      /\ row' = row \/ (~Market(c)!IndexRefuses(req.sub, t) /\ row' = PutAt(row, req.sub, t))
  BY <1>2, Zenon DEF Market!UpdateSubscriptionFromMicrosoft, PutAt
<1>5. CASE row' = row
  BY <1>4, <1>5, EndIs, QuietEnd
<1>6. CASE ~Market(c)!IndexRefuses(req.sub, t) /\ row' = PutAt(row, req.sub, t)
  <2>1. /\ MarketFine(c, ms', ops', row', onboarding', ack', fee')
        /\ Onward(c, ms, ops, row, onboarding, ms', ops', row', onboarding')
    BY <1>1, <1>3, <1>4, <1>6, RowIndexed
  <2>2. faults' \in 0..c.faults
    BY <1>4, CountSame
  <2> QED BY <1>4, <2>1, <2>2, EndIs, TableEnd
<1> QED BY <1>4, <1>5, <1>6

LEMMA WebhookUpdatesIt ==
  ASSUME NEW c, Market(c)!MarketplaceAssumption, MarketIInv(c), NEW req \in pend, Market(c)!WebhookUpdates(req)
  PROVE  MarketIInv(c)'
<1>1. PICK s, k : /\ s = ops[req.o].sub
                  /\ k = CASE ops[req.o].action = "ChangePlan" -> "plan"
                           [] ops[req.o].action = "Renew" -> "answer"
                           [] OTHER -> "patch"
  OBVIOUS
<1> DEFINE q == [op |-> "webhook", o |-> req.o, step |-> k]
<1>2. OfWebhook(c, ops, row, req.o) /\ Heard(c, ms, s, req.latest)
  BY <1>1, ReqOfWebhook DEF Market!WebhookUpdates
<1>3. s \in c.subs /\ k \notin {"update", "ack"}
  BY <1>1, <1>2 DEF OfWebhook
<1>4. PICK t : t = Market(c)!Synced(s, req.latest)
  OBVIOUS
<1>5. RowFine(c, ms, s, t)
  BY <1>2, <1>3, <1>4, SyncedFine
<1>6. /\ UNCHANGED <<ms, ops, onboarding, ack, fee, faults>>
      /\ \/ Market(c)!End(req) /\ row' = row
         \/ ~Market(c)!IndexRefuses(s, t) /\ row' = PutAt(row, s, t) /\ Market(c)!Go(req, q)
  BY <1>1, <1>4, Zenon DEF Market!WebhookUpdates, PutAt, Market!Webhook
<1>7. CASE Market(c)!End(req) /\ row' = row
  BY <1>6, <1>7, EndIs, QuietEnd
<1>8. CASE ~Market(c)!IndexRefuses(s, t) /\ row' = PutAt(row, s, t) /\ Market(c)!Go(req, q)
  <2>1. /\ MarketFine(c, ms', ops', row', onboarding', ack', fee')
        /\ Onward(c, ms, ops, row, onboarding, ms', ops', row', onboarding')
    BY <1>3, <1>5, <1>6, <1>8, RowIndexed
  <2>2. ReqFine(c, q, ms', ops', row', onboarding')
    BY <1>2, <1>3, <2>1, WebhookKept, ReqWebhook
  <2>3. faults' \in 0..c.faults
    BY <1>6, CountSame
  <2> QED BY <1>8, <2>1, <2>2, <2>3, TableGo
<1> QED BY <1>6, <1>7, <1>8

LEMMA SetsStatus ==
  ASSUME NEW c, Market(c)!MarketplaceAssumption, MarketIInv(c), NEW req \in pend, Market(c)!SetSubscriptionStatus(req)
  PROVE  MarketIInv(c)'
<1> DEFINE q == [op |-> "webhook", o |-> req.o, step |-> "answer"]
<1>1. PICK s, k : s = ops[req.o].sub /\ k = IF ops[req.o].action = "Suspend" THEN "Suspended" ELSE "Unsubscribed"
  OBVIOUS
<1>2. OfWebhook(c, ops, row, req.o)
  BY ReqOfWebhook DEF Market!SetSubscriptionStatus
<1>3. s \in c.subs /\ row[s] # NoSubRow /\ Begun(ms, s) /\ k \in MsStatus
  BY <1>1, <1>2 DEF OfWebhook, MarketIInv, MarketFine, OpsFine, OpFine, MsStatus
<1>4. PICK t : t = [row[s] EXCEPT !.status = k]
  OBVIOUS
<1>5. RowFine(c, ms, s, t)
  <2>1. RowFine(c, ms, s, row[s])
    BY <1>3, RowOfSub
  <2> QED BY <1>3, <1>4, <2>1, RowWith
<1>6. /\ UNCHANGED <<ms, ops, onboarding, ack, fee, faults>>
      /\ \/ Market(c)!End(req) /\ row' = row
         \/ ~Market(c)!IndexRefuses(s, t) /\ row' = PutAt(row, s, t) /\ Market(c)!Go(req, q)
  BY <1>1, <1>4, Zenon DEF Market!SetSubscriptionStatus, PutAt, Market!Webhook
<1>7. CASE Market(c)!End(req) /\ row' = row
  BY <1>6, <1>7, EndIs, QuietEnd
<1>8. CASE ~Market(c)!IndexRefuses(s, t) /\ row' = PutAt(row, s, t) /\ Market(c)!Go(req, q)
  <2>1. /\ MarketFine(c, ms', ops', row', onboarding', ack', fee')
        /\ Onward(c, ms, ops, row, onboarding, ms', ops', row', onboarding')
    BY <1>3, <1>5, <1>6, <1>8, RowIndexed
  <2>2. ReqFine(c, q, ms', ops', row', onboarding')
    BY <1>2, <2>1, WebhookKept, ReqWebhook
  <2>3. faults' \in 0..c.faults
    BY <1>6, CountSame
  <2> QED BY <1>8, <2>1, <2>2, <2>3, TableGo
<1> QED BY <1>6, <1>7, <1>8

LEMMA LinksToOrg ==
  ASSUME NEW c, Market(c)!MarketplaceAssumption, MarketIInv(c), NEW req \in pend, Market(c)!LinkSubscriptionToOrg(req)
  PROVE  MarketIInv(c)'
<1> DEFINE q == [op |-> "session", session |-> req.session, status |-> "org_linked"]
<1>1. PICK s, t : s = onboarding[req.session].sub /\ t = [row[s] EXCEPT !.org = req.org]
  OBVIOUS
<1>2. OfBuyer(c, onboarding, req.session) /\ Payer(c, s, req.org)
  BY <1>1, ReqOf DEF ReqFine, OfSession, Market!LinkSubscriptionToOrg
<1>3. s \in c.subs /\ row[s] # NoSubRow
  BY <1>1, <1>2, MarketSession DEF OfBuyer
<1>4. RowFine(c, ms, s, t)
  <2>1. RowFine(c, ms, s, row[s])
    BY <1>3, RowOfSub
  <2> QED BY <1>1, <1>2, <1>3, <2>1, RowWith
<1>5. /\ UNCHANGED <<ms, ops, onboarding, ack, fee, faults>>
      /\ \/ Market(c)!End(req) /\ row' = row
         \/ ~Market(c)!IndexRefuses(s, t) /\ row' = PutAt(row, s, t) /\ Market(c)!Go(req, q)
  BY <1>1 DEF Market!LinkSubscriptionToOrg, PutAt
<1>6. CASE Market(c)!End(req) /\ row' = row
  BY <1>5, <1>6, EndIs, QuietEnd
<1>7. CASE ~Market(c)!IndexRefuses(s, t) /\ row' = PutAt(row, s, t) /\ Market(c)!Go(req, q)
  <2>1. /\ MarketFine(c, ms', ops', row', onboarding', ack', fee')
        /\ Onward(c, ms, ops, row, onboarding, ms', ops', row', onboarding')
    BY <1>3, <1>4, <1>5, <1>7, RowIndexed
  <2>2. ReqFine(c, q, ms', ops', row', onboarding')
    BY <1>2, <1>5, ReqSession DEF StatusOfSession
  <2>3. faults' \in 0..c.faults
    BY <1>5, CountSame
  <2> QED BY <1>7, <2>1, <2>2, <2>3, TableGo
<1> QED BY <1>5, <1>6, <1>7

LEMMA ReconcileUpdatesIt ==
  ASSUME NEW c, Market(c)!MarketplaceAssumption, MarketIInv(c), NEW req \in pend, Market(c)!ReconcileUpdates(req)
  PROVE  MarketIInv(c)'
<1> DEFINE n == [op |-> "reconcile", step |-> "next", todo |-> req.todo, latest |-> req.latest]
           a == [op |-> "reconcile", step |-> "activate", todo |-> req.todo, latest |-> req.latest, sub |-> req.sub,
                 inProgress |-> req.inProgress]
<1>1. /\ req.todo \subseteq c.subs /\ \A k \in c.subs : Heard(c, ms, k, req.latest[k])
      /\ req.sub \in c.subs
  BY ReqOfReconcile DEF Market!ReconcileUpdates
<1>2. [req EXCEPT !.step = "activate"] = a
  <2>1. req.op = "reconcile" /\ req.step = "update"
    BY DEF Market!ReconcileUpdates
  <2>2. req = [op |-> req.op, step |-> req.step, todo |-> req.todo, latest |-> req.latest, sub |-> req.sub,
               inProgress |-> req.inProgress]
    BY <2>1, ReqOfReconcile
  <2> QED BY <2>1, <2>2
<1>3. PICK t : t = Market(c)!Synced(req.sub, req.latest[req.sub])
  OBVIOUS
<1>4. RowFine(c, ms, req.sub, t)
  BY <1>1, <1>3, SyncedFine
<1>5. /\ UNCHANGED <<ms, ops, onboarding, ack, fee, faults>>
      /\ \/ Market(c)!End(req) /\ row' = row
         \/ /\ ~Market(c)!IndexRefuses(req.sub, t) /\ row' = PutAt(row, req.sub, t)
            /\ Market(c)!Go(req, n) \/ Market(c)!Go(req, a)
  BY <1>2, <1>3, Zenon DEF Market!ReconcileUpdates, PutAt
<1>6. CASE Market(c)!End(req) /\ row' = row
  BY <1>5, <1>6, EndIs, QuietEnd
<1>7. CASE ~Market(c)!IndexRefuses(req.sub, t) /\ row' = PutAt(row, req.sub, t) /\ (Market(c)!Go(req, n) \/ Market(c)!Go(req, a))
  <2>1. /\ MarketFine(c, ms', ops', row', onboarding', ack', fee') /\ row'[req.sub] # NoSubRow
        /\ Onward(c, ms, ops, row, onboarding, ms', ops', row', onboarding')
    BY <1>1, <1>4, <1>5, <1>7, RowIndexed
  <2>2. ReqFine(c, n, ms', ops', row', onboarding')
    BY <1>1, <1>5, ReqReconcile
  <2>3. ReqFine(c, a, ms', ops', row', onboarding')
    BY <1>1, <1>5, <2>1, ReqReconcileOf
  <2>4. faults' \in 0..c.faults
    BY <1>5, CountSame
  <2> HIDE DEF n, a
  <2> QED BY <1>7, <2>1, <2>2, <2>3, <2>4, TableGo
<1> QED BY <1>5, <1>6, <1>7

(* Sessions.                                                               *)
LEMMA SessionWritten ==
  ASSUME NEW c, MarketIInv(c), NEW x \in c.sessions, NEW v, SessionFine(c, row, v), v # NoBuyer,
         onboarding[x] # NoBuyer => v.sub = onboarding[x].sub, onboarding' = PutAt(onboarding, x, v),
         UNCHANGED <<ms, ops, row, ack, fee>>
  PROVE  /\ MarketFine(c, ms', ops', row', onboarding', ack', fee')
         /\ Onward(c, ms, ops, row, onboarding, ms', ops', row', onboarding') /\ onboarding'[x] = v
<1> HIDE DEF NoBuyer
<1>1. PICK S1 : S1 = onboarding'
  OBVIOUS
<1>2. MarketFine(c, ms, ops, row, onboarding, ack, fee)
  BY DEF MarketIInv
<1>3. /\ MarketFine(c, ms, ops, row, S1, ack, fee) /\ S1[x] = v
      /\ Onward(c, ms, ops, row, onboarding, ms, ops, row, S1)
  BY <1>1, <1>2, SessionPut
<1> QED BY <1>1, <1>3

LEMMA CreatesSession ==
  ASSUME NEW c, Market(c)!MarketplaceAssumption, MarketIInv(c), NEW req \in pend, NEW x \in c.sessions,
         Market(c)!CreateOnboardingSession(req, x)
  PROVE  MarketIInv(c)'
<1>1. PICK v : v = [sub |-> req.sub, status |-> "resolved", valid |-> TRUE]
  OBVIOUS
<1>2. req.sub \in c.subs /\ row[req.sub] # NoSubRow
  BY ReqOf DEF ReqFine, Market!CreateOnboardingSession
<1>3. SessionFine(c, row, v) /\ v # NoBuyer
  <2>1. v.sub = req.sub /\ v.status = "resolved" /\ v = [sub |-> v.sub, status |-> v.status, valid |-> v.valid]
    BY <1>1
  <2>2. v.status # NoBuyer.status
    BY <2>1 DEF NoBuyer
  <2> QED BY <1>2, <2>1, <2>2 DEF SessionFine, StatusOfSession
<1>4. /\ onboarding' = PutAt(onboarding, x, v) /\ UNCHANGED <<ms, ops, row, ack, fee, faults>>
      /\ onboarding[x] = NoBuyer /\ Market(c)!End(req)
  BY <1>1, MarketNames, Zenon DEF Market!CreateOnboardingSession, PutAt
<1>5. /\ MarketFine(c, ms', ops', row', onboarding', ack', fee')
      /\ Onward(c, ms, ops, row, onboarding, ms', ops', row', onboarding')
  BY <1>3, <1>4, SessionWritten
<1>6. faults' \in 0..c.faults
  BY <1>4, CountSame
<1> QED BY <1>4, <1>5, <1>6, EndIs, TableEnd

LEMMA SessionShape ==
  ASSUME NEW c, MarketIInv(c), NEW x \in c.sessions, onboarding[x] # NoBuyer
  PROVE  /\ onboarding = [k \in c.sessions |-> onboarding[k]] /\ SessionFine(c, row, onboarding[x])
         /\ onboarding[x] = [sub |-> onboarding[x].sub, status |-> onboarding[x].status, valid |-> onboarding[x].valid]
<1> HIDE DEF NoBuyer
<1> QED BY DEF MarketIInv, MarketFine, SessionsFine, SessionFine

LEMMA SessionWith ==
  ASSUME NEW a, NEW b, NEW d, NEW r, r = [sub |-> a, status |-> b, valid |-> d]
  PROVE  /\ \A t : [r EXCEPT !.valid = t] = [sub |-> a, status |-> b, valid |-> t]
         /\ \A t : [r EXCEPT !.status = t] = [sub |-> a, status |-> t, valid |-> d]
OBVIOUS

LEMMA SessionExpiresIt ==
  ASSUME NEW c, MarketIInv(c), NEW x \in c.sessions, Market(c)!SessionExpires(x)
  PROVE  MarketIInv(c)'
<1>1. PICK v : v = [onboarding[x] EXCEPT !.valid = FALSE]
  OBVIOUS
<1>2. onboarding[x] # NoBuyer
  BY MarketNames, Zenon DEF Market!SessionExpires
<1>3. SessionFine(c, row, v) /\ v # NoBuyer /\ v.sub = onboarding[x].sub
  <2>1. /\ v.sub = onboarding[x].sub /\ v.status = onboarding[x].status
        /\ v = [sub |-> v.sub, status |-> v.status, valid |-> v.valid]
    <3>1. PICK a, b, d, e : a = onboarding[x].sub /\ b = onboarding[x].status /\ d = onboarding[x].valid /\ e = FALSE
      OBVIOUS
    <3>2. onboarding[x] = [sub |-> a, status |-> b, valid |-> d]
      BY <1>2, <3>1, SessionShape, Zenon
    <3>3. [onboarding[x] EXCEPT !.valid = e] = [sub |-> a, status |-> b, valid |-> e]
      BY <3>2, SessionWith
    <3>4. v = [sub |-> a, status |-> b, valid |-> e]
      BY <1>1, <3>1, <3>3, Zenon
    <3> QED BY <3>1, <3>4
  <2>2. v.sub \in c.subs /\ row[v.sub] # NoSubRow /\ v.status \in StatusOfSession
    BY <1>2, <2>1, SessionShape DEF SessionFine
  <2>3. v.status # NoBuyer.status
    BY <2>2 DEF NoBuyer, StatusOfSession
  <2> QED BY <2>1, <2>2, <2>3 DEF SessionFine
<1>4. onboarding' = PutAt(onboarding, x, v) /\ UNCHANGED <<ms, ops, row, ack, fee, pend, started, faults>>
  BY <1>1 DEF Market!SessionExpires, PutAt
<1>5. /\ MarketFine(c, ms', ops', row', onboarding', ack', fee')
      /\ Onward(c, ms, ops, row, onboarding, ms', ops', row', onboarding')
  BY <1>3, <1>4, SessionWritten
<1>6. faults' \in 0..c.faults
  BY <1>4, CountSame
<1> QED BY <1>4, <1>5, <1>6, TableEnd

LEMMA UpdatesSession ==
  ASSUME NEW c, MarketIInv(c), NEW req \in pend, Market(c)!UpdateOnboardingSession(req)
  PROVE  MarketIInv(c)'
<1>1. PICK x, v, s : x = req.session /\ v = [onboarding[x] EXCEPT !.status = req.status] /\ s = onboarding[x].sub
  OBVIOUS
<1> DEFINE q == [op |-> "fee", sub |-> s, org |-> req.org, refresh |-> req.refresh]
<1>2. /\ OfBuyer(c, onboarding, x) /\ req.status \in StatusOfSession
      /\ req.status = "activated" => Payer(c, s, req.org) /\ Begun(ms, s)
  BY <1>1, ReqOf DEF ReqFine, OfSession, Market!UpdateOnboardingSession
<1>3. SessionFine(c, row, v) /\ v # NoBuyer /\ v.sub = s /\ s \in c.subs
  <2>1. v.sub = s /\ v.status = req.status /\ v = [sub |-> v.sub, status |-> v.status, valid |-> v.valid]
    <3>1. PICK d : onboarding[x] = [sub |-> s, status |-> onboarding[x].status, valid |-> d]
      BY <1>1, <1>2, SessionShape DEF OfBuyer
    <3>2. v = [sub |-> s, status |-> req.status, valid |-> d]
      BY <1>1, <3>1, SessionWith
    <3> QED BY <3>2
  <2>2. v.sub \in c.subs /\ row[v.sub] # NoSubRow /\ v.status \in StatusOfSession
    BY <1>1, <1>2, <2>1, MarketSession DEF OfBuyer
  <2>3. v.status # NoBuyer.status
    BY <2>2 DEF NoBuyer, StatusOfSession
  <2> QED BY <2>1, <2>2, <2>3 DEF SessionFine
<1>4. /\ UNCHANGED <<ms, ops, row, ack, fee, faults>>
      /\ \/ req.status = "activated" /\ Market(c)!Go(req, q)
         \/ Market(c)!End(req)
  BY <1>1, Zenon DEF Market!UpdateOnboardingSession
<1>5. onboarding' = PutAt(onboarding, x, v)
  BY <1>1 DEF Market!UpdateOnboardingSession, PutAt
<1>6. /\ MarketFine(c, ms', ops', row', onboarding', ack', fee')
      /\ Onward(c, ms, ops, row, onboarding, ms', ops', row', onboarding')
  BY <1>1, <1>2, <1>3, <1>4, <1>5, SessionWritten DEF OfBuyer
<1>7. faults' \in 0..c.faults
  BY <1>4, CountSame
<1>8. CASE Market(c)!End(req)
  BY <1>6, <1>7, <1>8, EndIs, TableEnd
<1>9. CASE req.status = "activated" /\ Market(c)!Go(req, q)
  <2>1. ReqFine(c, q, ms', ops', row', onboarding')
    BY <1>2, <1>3, <1>4, <1>9, ReqFee
  <2> QED BY <1>6, <1>7, <1>9, <2>1, TableGo
<1> QED BY <1>4, <1>8, <1>9

(* The acknowledgement, the setup fee.                                     *)
LEMMA AckWritten ==
  ASSUME NEW c, MarketIInv(c), NEW o \in c.operations, NEW a \in {"pending", "success", "not_required"},
         a = "success" => ops[o].state = "Done", ack' = PutAt(ack, o, a), UNCHANGED <<ms, ops, row, onboarding, fee>>
  PROVE  /\ MarketFine(c, ms', ops', row', onboarding', ack', fee')
         /\ Onward(c, ms, ops, row, onboarding, ms', ops', row', onboarding')
<1>1. PICK A1 : A1 = ack'
  OBVIOUS
<1>2. MarketFine(c, ms, ops, row, onboarding, ack, fee)
  BY DEF MarketIInv
<1>3. MarketFine(c, ms, ops, row, onboarding, A1, fee)
  BY <1>1, <1>2, AckPut
<1> QED BY <1>1, <1>3, OnwardItself

LEMMA UpsertsOperation ==
  ASSUME NEW c, MarketIInv(c), NEW req \in pend, Market(c)!UpsertOperation(req)
  PROVE  MarketIInv(c)'
<1>1. PICK a, k : /\ a = IF Market(c)!NeedsAck(ops[req.o].action) THEN "pending" ELSE "not_required"
                  /\ k = IF Market(c)!NeedsAck(ops[req.o].action) \/ ops[req.o].action = "Renew" THEN "read" ELSE "status"
  OBVIOUS
<1> DEFINE q == [op |-> "webhook", o |-> req.o, step |-> k]
<1>2. OfWebhook(c, ops, row, req.o)
  BY ReqOfWebhook DEF Market!UpsertOperation
<1>3. a \in {"pending", "not_required"} /\ k \notin {"update", "ack"}
  BY <1>1
<1>4. ack' = PutAt(ack, req.o, a) /\ Market(c)!Go(req, q) /\ UNCHANGED <<ms, ops, row, onboarding, fee, faults>>
  BY <1>1, Zenon DEF Market!UpsertOperation, PutAt, Market!Webhook
<1>5. /\ MarketFine(c, ms', ops', row', onboarding', ack', fee')
      /\ Onward(c, ms, ops, row, onboarding, ms', ops', row', onboarding')
  BY <1>2, <1>3, <1>4, AckWritten DEF OfWebhook
<1>6. ReqFine(c, q, ms', ops', row', onboarding')
  BY <1>2, <1>3, <1>5, WebhookKept, ReqWebhook
<1>7. faults' \in 0..c.faults
  BY <1>4, CountSame
<1> QED BY <1>4, <1>5, <1>6, <1>7, TableGo

LEMMA UpdatesAck ==
  ASSUME NEW c, MarketIInv(c), NEW req \in pend, Market(c)!UpdateOperationAckStatus(req)
  PROVE  MarketIInv(c)'
<1> DEFINE q == [op |-> "webhook", o |-> req.o, step |-> "answer"]
<1>1. OfWebhook(c, ops, row, req.o) /\ ops[req.o].state = "Done"
  BY ReqOfWebhook DEF Market!UpdateOperationAckStatus
<1>2. ack' = PutAt(ack, req.o, "success") /\ Market(c)!Go(req, q) /\ UNCHANGED <<ms, ops, row, onboarding, fee, faults>>
  BY Zenon DEF Market!UpdateOperationAckStatus, PutAt, Market!Webhook
<1>3. /\ MarketFine(c, ms', ops', row', onboarding', ack', fee')
      /\ Onward(c, ms, ops, row, onboarding, ms', ops', row', onboarding')
  BY <1>1, <1>2, AckWritten DEF OfWebhook
<1>4. ReqFine(c, q, ms', ops', row', onboarding')
  BY <1>1, <1>3, WebhookKept, ReqWebhook
<1>5. faults' \in 0..c.faults
  BY <1>2, CountSame
<1> QED BY <1>2, <1>3, <1>4, <1>5, TableGo

LEMMA RecordsFee ==
  ASSUME NEW c, Market(c)!MarketplaceAssumption, MarketIInv(c), NEW req \in pend, Market(c)!RecordSetupFeeUsage(req)
  PROVE  MarketIInv(c)'
<1> DEFINE q == [op |-> "refresh", sub |-> req.sub]
<1>1. req.sub \in c.subs /\ Payer(c, req.sub, req.org) /\ Begun(ms, req.sub)
  BY ReqOf DEF ReqFine, Market!RecordSetupFeeUsage
<1>2. PICK f : f = IF fee[req.sub] = "none" THEN req.org ELSE fee[req.sub]
  OBVIOUS
<1>3. FeeFine(c, ms, req.sub, f)
  BY <1>1, <1>2 DEF MarketIInv, MarketFine, FeesFine, FeeFine
<1>4. UNCHANGED <<ms, ops, row, onboarding, ack, faults>> /\ (Market(c)!Go(req, q) \/ Market(c)!End(req))
  BY Zenon DEF Market!RecordSetupFeeUsage
<1>5. fee' = PutAt(fee, req.sub, f)
  BY <1>2 DEF Market!RecordSetupFeeUsage, PutAt, Market!None
<1>6. /\ MarketFine(c, ms', ops', row', onboarding', ack', fee')
      /\ Onward(c, ms, ops, row, onboarding, ms', ops', row', onboarding')
  <2>1. PICK F1 : F1 = fee'
    OBVIOUS
  <2>2. MarketFine(c, ms, ops, row, onboarding, ack, fee)
    BY DEF MarketIInv
  <2>3. MarketFine(c, ms, ops, row, onboarding, ack, F1)
    BY <1>1, <1>3, <1>5, <2>1, <2>2, FeePut
  <2> QED BY <1>4, <2>1, <2>3, OnwardItself
<1>7. faults' \in 0..c.faults
  BY <1>4, CountSame
<1>8. CASE Market(c)!End(req)
  BY <1>6, <1>7, <1>8, EndIs, TableEnd
<1>9. CASE Market(c)!Go(req, q)
  <2>1. ReqFine(c, q, ms', ops', row', onboarding')
    BY <1>1, ReqRefresh
  <2> QED BY <1>6, <1>7, <1>9, <2>1, TableGo
<1> QED BY <1>4, <1>8, <1>9

(* Microsoft.                                                              *)
LaterMs(c, M, N) == N \in [c.subs -> AtMarket(c)] /\ \A s \in c.subs : Begun(M, s) => Begun(N, s)
LEMMA MsWith ==
  ASSUME NEW c, NEW M \in [c.subs -> AtMarket(c)], NEW s \in c.subs
  PROVE  /\ LaterMs(c, M, M)
         /\ \A p \in c.plans : LaterMs(c, M, [M EXCEPT ![s].plan = p])
         /\ \A t \in MsStatus \ {"PendingFulfillmentStart"} :
              LaterMs(c, M, [M EXCEPT ![s].status = t]) /\ Begun([M EXCEPT ![s].status = t], s)
BY DEF LaterMs, AtMarket, Begun

LEMMA MsWritten ==
  ASSUME NEW c, MarketIInv(c), LaterMs(c, ms, ms'), UNCHANGED <<ops, row, onboarding, ack, fee>>
  PROVE  /\ MarketFine(c, ms', ops', row', onboarding', ack', fee')
         /\ Onward(c, ms, ops, row, onboarding, ms', ops', row', onboarding')
<1>1. PICK N : N = ms'
  OBVIOUS
<1>2. MarketFine(c, ms, ops, row, onboarding, ack, fee)
  BY DEF MarketIInv
<1>3. /\ MarketFine(c, N, ops, row, onboarding, ack, fee)
      /\ Onward(c, ms, ops, row, onboarding, N, ops, row, onboarding)
  BY <1>1, <1>2, MsPut DEF LaterMs
<1> QED BY <1>1, <1>3

LEMMA OpWritten ==
  ASSUME NEW c, MarketIInv(c), LaterMs(c, ms, ms'), NEW o \in c.operations, NEW v, OpFine(c, ms', ack[o], v), v # NoOp,
         ops' = PutAt(ops, o, v), ops[o] # NoOp => v.sub = ops[o].sub /\ (ops[o].state = "Done" => v.state = "Done"),
         UNCHANGED <<row, onboarding, ack, fee>>
  PROVE  /\ MarketFine(c, ms', ops', row', onboarding', ack', fee') /\ ops'[o] = v
         /\ Onward(c, ms, ops, row, onboarding, ms', ops', row', onboarding')
<1> HIDE DEF NoOp
<1>1. PICK N, P : N = ms' /\ P = ops'
  OBVIOUS
<1>2. MarketFine(c, ms, ops, row, onboarding, ack, fee)
  BY DEF MarketIInv
<1>3. MarketFine(c, N, ops, row, onboarding, ack, fee)
  BY <1>1, <1>2, MsPut DEF LaterMs
<1>4. /\ MarketFine(c, N, P, row, onboarding, ack, fee) /\ P[o] = v
      /\ Onward(c, N, ops, row, onboarding, N, P, row, onboarding)
  BY <1>1, <1>3, OpPut
<1>5. Onward(c, ms, ops, row, onboarding, N, P, row, onboarding)
  BY <1>1, <1>4 DEF Onward, LaterMs
<1> QED BY <1>1, <1>4, <1>5

LEMMA ActivatesAtMicrosoft ==
  ASSUME NEW c, Market(c)!MarketplaceAssumption, MarketIInv(c), NEW req \in pend, Market(c)!ActivateAtMicrosoft(req)
  PROVE  MarketIInv(c)'
<1> DEFINE a == [op |-> "activated", session |-> req.session, org |-> req.org, refresh |-> req.refresh]
           f == [op |-> "failed", session |-> req.session]
<1>1. PICK s : s = onboarding[req.session].sub
  OBVIOUS
<1>2. /\ OfBuyer(c, onboarding, req.session) /\ Payer(c, s, req.org)
      /\ req = [op |-> req.op, session |-> req.session, org |-> req.org, refresh |-> req.refresh]
  BY <1>1, ReqOf DEF ReqFine, OfSession, Market!ActivateAtMicrosoft
<1>3. [req EXCEPT !.op = "activated"] = a
  BY <1>2
<1>4. s \in c.subs /\ ms \in [c.subs -> AtMarket(c)]
  BY <1>1, <1>2 DEF OfBuyer, MarketIInv, MarketFine
<1>5. UNCHANGED <<ops, row, onboarding, ack, fee>>
  BY DEF Market!ActivateAtMicrosoft, Market!db
<1>6. \/ /\ ms' = [ms EXCEPT ![s].status = "Subscribed"]
         /\ Market(c)!Go(req, a) /\ faults' = faults
      \/ /\ faults' = faults \/ Market(c)!Fault
         /\ ms' \in {ms, [ms EXCEPT ![s].status = IF ms[s].status = "PendingFulfillmentStart" THEN "Subscribed" ELSE ms[s].status]}
         /\ Market(c)!Go(req, f)
  <2>1. CASE ms[s].status = "PendingFulfillmentStart"
    BY <1>1, <1>3, <2>1 DEF Market!ActivateAtMicrosoft
  <2>2. CASE ms[s].status # "PendingFulfillmentStart"
    BY <1>1, <1>3, <2>2 DEF Market!ActivateAtMicrosoft
  <2> QED BY <2>1, <2>2
<1>7. LaterMs(c, ms, [ms EXCEPT ![s].status = "Subscribed"]) /\ Begun([ms EXCEPT ![s].status = "Subscribed"], s)
  BY <1>4, MsWith DEF MsStatus
<1>8. CASE ms' = [ms EXCEPT ![s].status = "Subscribed"] /\ Market(c)!Go(req, a) /\ faults' = faults
  <2>1. LaterMs(c, ms, ms') /\ Begun(ms', s)
    BY <1>7, <1>8
  <2>2. /\ MarketFine(c, ms', ops', row', onboarding', ack', fee')
        /\ Onward(c, ms, ops, row, onboarding, ms', ops', row', onboarding')
    BY <1>5, <2>1, MsWritten
  <2>3. ReqFine(c, a, ms', ops', row', onboarding')
    BY <1>1, <1>2, <1>5, <2>1, ReqActivating
  <2>4. faults' \in 0..c.faults
    BY <1>8, CountSame
  <2> HIDE DEF a
  <2> QED BY <1>8, <2>2, <2>3, <2>4, TableGo
<1>9. CASE /\ faults' = faults \/ Market(c)!Fault
           /\ ms' \in {ms, [ms EXCEPT ![s].status = IF ms[s].status = "PendingFulfillmentStart" THEN "Subscribed" ELSE ms[s].status]}
           /\ Market(c)!Go(req, f)
  <2>1. LaterMs(c, ms, ms')
    BY <1>4, <1>9 DEF LaterMs, AtMarket, Begun, MsStatus
  <2>2. /\ MarketFine(c, ms', ops', row', onboarding', ack', fee')
        /\ Onward(c, ms, ops, row, onboarding, ms', ops', row', onboarding')
    BY <1>5, <2>1, MsWritten
  <2>3. ReqFine(c, f, ms', ops', row', onboarding')
    BY <1>2, <1>5, ReqFailed
  <2>4. faults' \in 0..c.faults
    BY <1>9, CountSame, CountMore, MarketConstants DEF Market!Fault
  <2> HIDE DEF f
  <2> QED BY <1>9, <2>2, <2>3, <2>4, TableGo
<1> QED BY <1>6, <1>8, <1>9

(* An operation under way, and what ends it.                               *)
LEMMA OpWith ==
  ASSUME NEW a, NEW b, NEW d, NEW e, NEW f, NEW r, r = [sub |-> a, action |-> b, plan |-> d, state |-> e, answered |-> f]
  PROVE  /\ \A t : [r EXCEPT !.state = t] = [sub |-> a, action |-> b, plan |-> d, state |-> t, answered |-> f]
         /\ \A t : [r EXCEPT !.answered = t] = [sub |-> a, action |-> b, plan |-> d, state |-> e, answered |-> t]
         /\ r.sub = a /\ r.plan = d /\ r.state = e
         /\ r = [sub |-> r.sub, action |-> r.action, plan |-> r.plan, state |-> r.state, answered |-> r.answered]
OBVIOUS

LEMMA OpIsFine ==
  ASSUME NEW c, NEW M, NEW k \in {"none", "pending", "success", "not_required"}, NEW a \in c.subs, NEW b, NEW d \in c.plans,
         NEW e \in {"InProgress", "Done"}, NEW f, k = "success" => e = "Done", Begun(M, a),
         NEW v, v = [sub |-> a, action |-> b, plan |-> d, state |-> e, answered |-> f]
  PROVE  OpFine(c, M, k, v) /\ v # NoOp /\ v.sub = a /\ v.state = e
<1>1. /\ v.sub = a /\ v.plan = d /\ v.state = e
      /\ v = [sub |-> v.sub, action |-> v.action, plan |-> v.plan, state |-> v.state, answered |-> v.answered]
  BY OpWith
<1>2. v.state # NoOp.state
  BY <1>1 DEF NoOp
<1> QED BY <1>1, <1>2, Zenon DEF OpFine

LEMMA OpShape ==
  ASSUME NEW c, MarketIInv(c), NEW o \in c.operations, ops[o] # NoOp
  PROVE  /\ ack[o] \in {"none", "pending", "success", "not_required"} /\ (ack[o] = "success" => ops[o].state = "Done")
         /\ ops[o].sub \in c.subs /\ ops[o].plan \in c.plans /\ ops[o].state \in {"InProgress", "Done"} /\ Begun(ms, ops[o].sub)
         /\ \E b, f : ops[o] = [sub |-> ops[o].sub, action |-> b, plan |-> ops[o].plan, state |-> ops[o].state, answered |-> f]
<1> HIDE DEF NoOp
<1>1. OpFine(c, ms, ack[o], ops[o])
  BY DEF MarketIInv, MarketFine, OpsFine
<1> QED BY <1>1, Zenon DEF OpFine

LEMMA EffectLater ==
  ASSUME NEW c, MarketIInv(c), NEW o \in c.operations, ops[o] # NoOp
  PROVE  LaterMs(c, ms, Market(c)!Effect(o))
<1>1. ms \in [c.subs -> AtMarket(c)] /\ ops[o].sub \in c.subs /\ ops[o].plan \in c.plans
  BY OpShape DEF MarketIInv, MarketFine
<1>2. /\ LaterMs(c, ms, ms) /\ LaterMs(c, ms, [ms EXCEPT ![ops[o].sub].plan = ops[o].plan])
      /\ LaterMs(c, ms, [ms EXCEPT ![ops[o].sub].status = "Subscribed"])
  BY <1>1, MsWith DEF MsStatus
<1>3. \/ Market(c)!Effect(o) = ms \/ Market(c)!Effect(o) = [ms EXCEPT ![ops[o].sub].plan = ops[o].plan]
      \/ Market(c)!Effect(o) = [ms EXCEPT ![ops[o].sub].status = "Subscribed"]
  BY DEF Market!Effect
<1> QED BY <1>2, <1>3, Zenon

LEMMA OpEnds ==
  ASSUME NEW c, MarketIInv(c), NEW o \in c.operations, ops[o] # NoOp, LaterMs(c, ms, ms'),
         ops' = [ops EXCEPT ![o].state = "Done"], UNCHANGED <<row, onboarding, ack, fee>>
  PROVE  /\ MarketFine(c, ms', ops', row', onboarding', ack', fee')
         /\ Onward(c, ms, ops, row, onboarding, ms', ops', row', onboarding') /\ ops'[o].state = "Done"
<1> HIDE DEF NoOp
<1>1. PICK v, a, d, e : /\ v = [ops[o] EXCEPT !.state = e] /\ a = ops[o].sub /\ d = ops[o].plan /\ e = "Done"
  OBVIOUS
<1>2. PICK b, f : ops[o] = [sub |-> a, action |-> b, plan |-> d, state |-> ops[o].state, answered |-> f]
  BY <1>1, OpShape, Zenon
<1>3. v = [sub |-> a, action |-> b, plan |-> d, state |-> e, answered |-> f]
  <2>1. PICK g : g = ops[o].state
    OBVIOUS
  <2>2. \A x : [ops[o] EXCEPT !.state = x] = [sub |-> a, action |-> b, plan |-> d, state |-> x, answered |-> f]
    BY <1>2, <2>1, OpWith
  <2> QED BY <1>1, <2>2, Zenon
<1>4. a \in c.subs /\ d \in c.plans /\ ack[o] \in {"none", "pending", "success", "not_required"} /\ Begun(ms', a)
  BY <1>1, OpShape DEF LaterMs
<1>5. PICK N, k : N = ms' /\ k = ack[o]
  OBVIOUS
<1>6. OpFine(c, N, k, v) /\ v # NoOp /\ v.sub = a /\ v.state = "Done"
  BY <1>1, <1>3, <1>4, <1>5, OpIsFine
<1>7. ops' = PutAt(ops, o, v)
  BY <1>1 DEF PutAt
<1>8. OpFine(c, ms', ack[o], v) /\ (v.sub = ops[o].sub /\ (ops[o].state = "Done" => v.state = "Done"))
  BY <1>1, <1>5, <1>6, Zenon
<1>9. /\ MarketFine(c, ms', ops', row', onboarding', ack', fee') /\ ops'[o] = v
      /\ Onward(c, ms, ops, row, onboarding, ms', ops', row', onboarding')
  BY <1>6, <1>7, <1>8, OpWritten
<1> QED BY <1>6, <1>9, Zenon

LEMMA MicrosoftGivesUpIt ==
  ASSUME NEW c, Market(c)!MarketplaceAssumption, MarketIInv(c), NEW o \in c.operations, Market(c)!MicrosoftGivesUp(o)
  PROVE  MarketIInv(c)'
<1>1. ops[o].state = "InProgress" /\ NoOp.state = "none"
  BY DEF Market!MicrosoftGivesUp, NoOp
<1>2. ops[o] # NoOp
  BY <1>1
<1>3. LaterMs(c, ms, ms) /\ LaterMs(c, ms, Market(c)!Effect(o))
  BY <1>2, EffectLater DEF LaterMs, MarketIInv, MarketFine
<1>4. /\ LaterMs(c, ms, ms') /\ ops' = [ops EXCEPT ![o].state = "Done"] /\ Market(c)!Fault
      /\ UNCHANGED <<row, onboarding, ack, fee, pend, started>>
  BY <1>3 DEF Market!MicrosoftGivesUp, Market!db
<1>5. /\ MarketFine(c, ms', ops', row', onboarding', ack', fee')
      /\ Onward(c, ms, ops, row, onboarding, ms', ops', row', onboarding')
  BY <1>2, <1>4, OpEnds
<1>6. faults' \in 0..c.faults
  BY <1>4, CountMore, MarketConstants DEF Market!Fault
<1> QED BY <1>4, <1>5, <1>6, TableEnd

LEMMA PatchesOperation ==
  ASSUME NEW c, Market(c)!MarketplaceAssumption, MarketIInv(c), NEW req \in pend, Market(c)!PatchOperationIfNeeded(req)
  PROVE  MarketIInv(c)'
<1> DEFINE q == [op |-> "webhook", o |-> req.o, step |-> "ack"]
<1>1. OfWebhook(c, ops, row, req.o)
  BY ReqOfWebhook DEF Market!PatchOperationIfNeeded
<1>2. LaterMs(c, ms, Market(c)!Effect(req.o)) /\ req.o \in c.operations /\ ops[req.o] # NoOp
  BY <1>1, EffectLater DEF OfWebhook
<1>3. UNCHANGED <<row, onboarding, ack, fee>>
  BY DEF Market!PatchOperationIfNeeded, Market!db
<1>4. \/ /\ ms' = Market(c)!Effect(req.o) /\ ops' = [ops EXCEPT ![req.o].state = "Done"]
         /\ (Market(c)!Go(req, q) /\ faults' = faults) \/ (Market(c)!Fault /\ Market(c)!End(req))
      \/ ops[req.o].state = "Done" /\ Market(c)!Go(req, q) /\ UNCHANGED <<ms, ops, faults>>
      \/ Market(c)!Fault /\ Market(c)!End(req) /\ UNCHANGED <<ms, ops>>
  BY DEF Market!PatchOperationIfNeeded, Market!Webhook
<1>5. faults' = faults \/ Market(c)!Fault => faults' \in 0..c.faults
  BY CountSame, CountMore, MarketConstants DEF Market!Fault
<1>6. CASE /\ ms' = Market(c)!Effect(req.o) /\ ops' = [ops EXCEPT ![req.o].state = "Done"]
           /\ (Market(c)!Go(req, q) /\ faults' = faults) \/ (Market(c)!Fault /\ Market(c)!End(req))
  <2>1. LaterMs(c, ms, ms')
    BY <1>2, <1>6
  <2>2. /\ MarketFine(c, ms', ops', row', onboarding', ack', fee') /\ ops'[req.o].state = "Done"
        /\ Onward(c, ms, ops, row, onboarding, ms', ops', row', onboarding')
    BY <1>2, <1>3, <1>6, <2>1, OpEnds
  <2>3. ReqFine(c, q, ms', ops', row', onboarding')
    BY <1>1, <2>2, WebhookKept, ReqWebhook
  <2>4. faults' \in 0..c.faults
    BY <1>5, <1>6
  <2> HIDE DEF q
  <2>5. CASE Market(c)!Go(req, q)
    BY <2>2, <2>3, <2>4, <2>5, TableGo
  <2>6. CASE Market(c)!End(req)
    BY <2>2, <2>4, <2>6, EndIs, TableEnd
  <2> QED BY <1>6, <2>5, <2>6
<1>7. CASE ops[req.o].state = "Done" /\ Market(c)!Go(req, q) /\ UNCHANGED <<ms, ops, faults>>
  <2>1. ReqFine(c, q, ms, ops, row, onboarding)
    BY <1>1, <1>7, ReqWebhook
  <2> QED BY <1>3, <1>7, <2>1, QuietGo
<1>8. CASE Market(c)!Fault /\ Market(c)!End(req) /\ UNCHANGED <<ms, ops>>
  BY <1>3, <1>8, EndIs, QuietEnd
<1> QED BY <1>4, <1>6, <1>7, <1>8

LEMMA WebhookAnsweredIt ==
  ASSUME NEW c, MarketIInv(c), NEW req \in pend, Market(c)!WebhookAnswered(req)
  PROVE  MarketIInv(c)'
<1> HIDE DEF NoOp
<1>1. PICK o, v, a, d, e, t : /\ o = req.o /\ v = [ops[o] EXCEPT !.answered = t] /\ a = ops[o].sub /\ d = ops[o].plan
                              /\ e = ops[o].state /\ t = TRUE
  OBVIOUS
<1>2. OfWebhook(c, ops, row, o)
  BY <1>1, ReqOfWebhook DEF Market!WebhookAnswered
<1>3. o \in c.operations /\ ops[o] # NoOp
  BY <1>2 DEF OfWebhook
<1>4. PICK b, f : ops[o] = [sub |-> a, action |-> b, plan |-> d, state |-> e, answered |-> f]
  BY <1>1, <1>3, OpShape, Zenon
<1>5. v = [sub |-> a, action |-> b, plan |-> d, state |-> e, answered |-> t]
  <2>1. \A x : [ops[o] EXCEPT !.answered = x] = [sub |-> a, action |-> b, plan |-> d, state |-> e, answered |-> x]
    BY <1>4, OpWith
  <2> QED BY <1>1, <2>1, Zenon
<1>6. /\ a \in c.subs /\ d \in c.plans /\ ack[o] \in {"none", "pending", "success", "not_required"} /\ Begun(ms, a)
      /\ e \in {"InProgress", "Done"} /\ (ack[o] = "success" => e = "Done")
  BY <1>1, <1>3, OpShape
<1>7. PICK k : k = ack[o]
  OBVIOUS
<1>8. OpFine(c, ms, k, v) /\ v # NoOp /\ v.sub = a /\ v.state = e
  <2>1. k \in {"none", "pending", "success", "not_required"} /\ (k = "success" => e = "Done")
    BY <1>6, <1>7
  <2>2. PICK M : M = ms
    OBVIOUS
  <2>3. a \in c.subs /\ d \in c.plans /\ e \in {"InProgress", "Done"} /\ Begun(M, a)
    BY <1>6, <2>2
  <2>4. OpFine(c, M, k, v) /\ v # NoOp /\ v.sub = a /\ v.state = e
    BY <1>5, <2>1, <2>3, OpIsFine
  <2> QED BY <2>2, <2>4
<1>9. Market(c)!End(req) /\ UNCHANGED <<ms, row, onboarding, ack, fee, faults>>
  BY Zenon DEF Market!WebhookAnswered, Market!db
<1>10. ops' = PutAt(ops, o, v)
  BY <1>1, Zenon DEF Market!WebhookAnswered, PutAt
<1>11. LaterMs(c, ms, ms')
  BY <1>9 DEF LaterMs, MarketIInv, MarketFine
<1>12. /\ MarketFine(c, ms', ops', row', onboarding', ack', fee')
       /\ Onward(c, ms, ops, row, onboarding, ms', ops', row', onboarding')
  BY <1>1, <1>3, <1>7, <1>8, <1>9, <1>10, <1>11, OpWritten
<1>13. faults' \in 0..c.faults
  BY <1>9, CountSame
<1> QED BY <1>9, <1>12, <1>13, EndIs, TableEnd

LEMMA MicrosoftOperates ==
  ASSUME NEW c, MarketIInv(c), NEW o \in c.operations, NEW s \in c.subs, NEW a, NEW p \in c.plans,
         Market(c)!MicrosoftOperation(o, s, a, p)
  PROVE  MarketIInv(c)'
<1>1. PICK d, e, f : /\ d = IF a = "ChangePlan" THEN p ELSE ms[s].plan
                     /\ e = IF Market(c)!NeedsAck(a) THEN "InProgress" ELSE "Done"
                     /\ f = FALSE
  OBVIOUS
<1>2. PICK v : v = [sub |-> s, action |-> a, plan |-> d, state |-> e, answered |-> f]
  OBVIOUS
<1>3. ms \in [c.subs -> AtMarket(c)] /\ d \in c.plans /\ e \in {"InProgress", "Done"}
  BY <1>1 DEF MarketIInv, MarketFine, AtMarket
<1>4. ops[o] = NoOp /\ UNCHANGED <<row, onboarding, ack, fee, pend, started, faults>>
  BY MarketNames, Zenon DEF Market!MicrosoftOperation, Market!db
<1>5. ops' = PutAt(ops, o, v)
  BY <1>1, <1>2, Zenon DEF Market!MicrosoftOperation, PutAt
<1>6. LaterMs(c, ms, ms') /\ Begun(ms', s)
  <2>1. /\ LaterMs(c, ms, ms)
        /\ \A t \in {"Suspended", "Unsubscribed"} :
             LaterMs(c, ms, [ms EXCEPT ![s].status = t]) /\ Begun([ms EXCEPT ![s].status = t], s)
    BY <1>3, MsWith DEF MsStatus
  <2>2. \/ ms' = [ms EXCEPT ![s].status = "Suspended"] \/ ms' = [ms EXCEPT ![s].status = "Unsubscribed"]
        \/ ms' = ms /\ ms[s].status \in {"Suspended", "Subscribed"}
    BY DEF Market!MicrosoftOperation, Market!Allowed
  <2>3. CASE ms' = [ms EXCEPT ![s].status = "Suspended"] \/ ms' = [ms EXCEPT ![s].status = "Unsubscribed"]
    BY <2>1, <2>3
  <2>4. CASE ms' = ms /\ ms[s].status \in {"Suspended", "Subscribed"}
    BY <2>1, <2>4 DEF Begun
  <2> QED BY <2>2, <2>3, <2>4
<1>7. ack[o] \in {"none", "pending", "success", "not_required"} /\ ack[o] # "success"
  <2>1. OpFine(c, ms, ack[o], ops[o]) /\ NoOp.state = "none"
    BY DEF MarketIInv, MarketFine, OpsFine, NoOp
  <2> QED BY <1>4, <2>1 DEF OpFine
<1>8. PICK N, k : N = ms' /\ k = ack[o]
  OBVIOUS
<1>9. OpFine(c, N, k, v) /\ v # NoOp
  BY <1>2, <1>3, <1>6, <1>7, <1>8, OpIsFine
<1>10. /\ MarketFine(c, ms', ops', row', onboarding', ack', fee')
       /\ Onward(c, ms, ops, row, onboarding, ms', ops', row', onboarding')
  BY <1>4, <1>5, <1>6, <1>8, <1>9, OpWritten
<1>11. faults' \in 0..c.faults
  BY <1>4, CountSame
<1> QED BY <1>4, <1>10, <1>11, TableEnd

LEMMA MarketHandles ==
  ASSUME NEW c, Market(c)!MarketplaceAssumption, MarketIInv(c), NEW req \in pend, Market(c)!Handler(req)
  PROVE  MarketIInv(c)'
<1>1. CASE \/ Market(c)!UpsertResolvedSubscription(req) \/ Market(c)!FindSession(req)
           \/ \E x \in c.sessions : Market(c)!CreateOnboardingSession(req, x)
           \/ Market(c)!UpdateOnboardingSession(req) \/ Market(c)!LinkUser(req) \/ Market(c)!LinkSubscriptionToOrg(req)
  BY <1>1, UpsertsResolved, FindsSession, CreatesSession, UpdatesSession, LinksUser, LinksToOrg
<1>2. CASE \/ Market(c)!SetInProgress(req) \/ Market(c)!ActivateAtMicrosoft(req) \/ Market(c)!SetActivated(req)
           \/ Market(c)!SetFailed(req) \/ Market(c)!RecordSetupFeeUsage(req) \/ Market(c)!ReadSubscription(req)
           \/ Market(c)!UpdateSubscriptionFromMicrosoft(req)
  BY <1>2, SetsInProgress, ActivatesAtMicrosoft, SetsActivated, SetsFailed, RecordsFee, ReadsSubscription, UpdatesFromMicrosoft
<1>3. CASE \/ Market(c)!UpsertOperation(req) \/ Market(c)!WebhookReads(req) \/ Market(c)!WebhookUpdates(req)
           \/ Market(c)!SetSubscriptionPlanId(req) \/ Market(c)!PatchOperationIfNeeded(req)
           \/ Market(c)!UpdateOperationAckStatus(req) \/ Market(c)!SetSubscriptionStatus(req) \/ Market(c)!WebhookAnswered(req)
  BY <1>3, UpsertsOperation, WebhookReadsIt, WebhookUpdatesIt, SetsPlan, PatchesOperation, UpdatesAck, SetsStatus,
     WebhookAnsweredIt
<1>4. CASE \/ \E s \in c.subs : Market(c)!ReconcileReads(req, s)
           \/ Market(c)!ReconcileUpdates(req) \/ Market(c)!ReconcileActivates(req) \/ Market(c)!ReconcileEnds(req)
  BY <1>4, ReconcileReadsIt, ReconcileUpdatesIt, ReconcileActivatesIt, ReconcileEndsIt
<1> QED BY <1>1, <1>2, <1>3, <1>4, Zenon DEF Market!Handler

LEMMA MarketStep ==
  ASSUME NEW c, Market(c)!MarketplaceAssumption, MarketIInv(c), Market(c)!Next
  PROVE  MarketIInv(c)'
<1>1. CASE \E s \in c.subs : Market(c)!ResolveSubscription(s) \/ Market(c)!RefreshSubscription(s)
  BY <1>1, Resolves, Refreshes
<1>2. CASE \E x \in c.sessions : Market(c)!SessionExpires(x) \/ \E u \in c.users : Market(c)!UserRequest(u, x)
  <2>1. PICK x \in c.sessions : Market(c)!SessionExpires(x) \/ \E u \in c.users : Market(c)!UserRequest(u, x)
    BY <1>2
  <2>2. CASE Market(c)!SessionExpires(x)
    BY <2>2, SessionExpiresIt
  <2>3. ASSUME NEW u \in c.users, Market(c)!UserRequest(u, x)
        PROVE  MarketIInv(c)'
    BY <2>3, LinksAccount, LinksOrganization, Activates DEF Market!UserRequest
  <2> QED BY <2>1, <2>2, <2>3
<1>3. CASE \E o \in c.operations : Market(c)!ProcessWebhook(o) \/ Market(c)!MicrosoftGivesUp(o)
  BY <1>3, ProcessesWebhook, MicrosoftGivesUpIt
<1>4. CASE \E o \in c.operations, s \in c.subs, a \in c.actions, p \in c.plans : Market(c)!MicrosoftOperation(o, s, a, p)
  BY <1>4, MicrosoftOperates
<1>5. CASE \E req \in pend : Market(c)!Handler(req)
  BY <1>5, MarketHandles
<1>6. CASE Market(c)!ReconcileSubscriptions \/ Market(c)!Restart
  BY <1>6, Reconciles, Restarts
<1> QED BY <1>1, <1>2, <1>3, <1>4, <1>5, <1>6 DEF Market!Next

LEMMA MarketStutters ==
  ASSUME NEW c, MarketIInv(c), UNCHANGED <<ms, ops, row, onboarding, ack, fee, pend, started, faults>>
  PROVE  MarketIInv(c)'
BY DEF MarketIInv

LEMMA MarketInit ==
  ASSUME NEW c, Market(c)!MarketplaceAssumption, Market(c)!Init
  PROVE  MarketIInv(c)
<1>1. PICK st : st = Market(c)!StartStatus
  OBVIOUS
<1>2. /\ st \in MsStatus /\ (st # "PendingFulfillmentStart" <=> c.start = "used")
  BY <1>1 DEF Market!StartStatus, MsStatus
<1>3. ms \in [c.subs -> AtMarket(c)] /\ \A s \in c.subs : ms[s].status = st
  BY <1>1, <1>2 DEF Market!Init, AtMarket
<1>4. /\ ops = [o \in c.operations |-> NoOp] /\ ack = [o \in c.operations |-> "none"] /\ pend = {} /\ started = 0 /\ faults = 0
      /\ fee = [s \in c.subs |-> IF c.start = "used" THEN row[s].org ELSE "none"]
  BY MarketNames, Zenon DEF Market!Init, Market!None
<1>5. OpsFine(c, ms, ops, ack)
  <2>1. \A o \in c.operations : ops[o] = NoOp /\ ack[o] = "none"
    BY <1>4
  <2>2. OpFine(c, ms, "none", NoOp)
    BY DEF OpFine
  <2> QED BY <1>4, <2>1, <2>2, Zenon DEF OpsFine
<1>6. started \in 0..c.requests /\ faults \in 0..c.faults
  BY <1>4, MarketConstants
<1>7. RowsFine(c, ms, row) /\ SessionsFine(c, row, onboarding) /\ OneHolds(c, row) /\ FeesFine(c, ms, fee)
  <2>1. CASE c.start = "unknown"
    <3>1. row = [s \in c.subs |-> NoSubRow] /\ onboarding = [x \in c.sessions |-> NoBuyer]
      BY <2>1, MarketNames, Zenon DEF Market!Init
    <3> HIDE DEF NoSubRow, NoBuyer
    <3>2. RowsFine(c, ms, row) /\ SessionsFine(c, row, onboarding) /\ OneHolds(c, row)
      BY <3>1 DEF RowsFine, SessionsFine, SessionFine, OneHolds, Holds
    <3>3. FeesFine(c, ms, fee)
      BY <1>4, <2>1 DEF FeesFine, FeeFine
    <3> QED BY <3>2, <3>3
  <2>2. CASE c.start # "unknown"
    <3>1. PICK G, A : /\ G = (IF c.start = "used" THEN c.orgs ELSE {"none"})
                      /\ A = (IF c.start = "used" THEN "activated" ELSE "not_started")
      OBVIOUS
    <3>2. /\ row \in [c.subs -> [born : 1..Cardinality(c.subs), status : {st}, plan : c.plans, user : c.users,
                                 org : G, activation : {A}]]
          /\ \A s \in c.subs : row[s].user \in c.buyers[s] /\ (row[s].org # "none" => c.owner[row[s].org] = row[s].user)
          /\ \A s, k \in c.subs : row[s].org = row[k].org /\ row[s].org # "none" => s = k
          /\ onboarding \in [c.sessions -> [sub : c.subs, status : {"account_linked"}, valid : {TRUE}]]
      BY <1>1, <2>2, <3>1, MarketCounts, Zenon DEF Market!Init, Market!None
    <3>3. ASSUME NEW s \in c.subs PROVE RowFine(c, ms, s, row[s]) /\ row[s] # NoSubRow
      <4>1. row[s] \in [born : 1..Cardinality(c.subs), status : {st}, plan : c.plans, user : c.users, org : G, activation : {A}]
        BY <3>2
      <4>2. G \subseteq c.orgs \cup {"none"} /\ A \in {"not_started", "activated"}
        BY <3>1
      <4>3. row[s] \in SubRow(c) /\ row[s].status = st
        BY <1>2, <4>1, <4>2 DEF SubRow
      <4>4. RowFine(c, ms, s, row[s])
        BY <1>3, <3>2, <4>3 DEF RowFine, Begun
      <4>5. row[s].born # NoSubRow.born
        <5>1. row[s].born \in 1..Cardinality(c.subs)
          BY <4>1
        <5> QED BY <5>1 DEF NoSubRow
      <4> QED BY <4>4, <4>5
    <3>4. RowsFine(c, ms, row)
      BY <3>2, <3>3 DEF RowsFine
    <3>5. SessionsFine(c, row, onboarding)
      <4>1. ASSUME NEW x \in c.sessions PROVE SessionFine(c, row, onboarding[x])
        <5>1. PICK T : T = {TRUE}
          OBVIOUS
        <5>2. onboarding[x] \in [sub : c.subs, status : {"account_linked"}, valid : T]
          BY <3>2, <5>1, Zenon
        <5>3. /\ onboarding[x] = [sub |-> onboarding[x].sub, status |-> onboarding[x].status, valid |-> onboarding[x].valid]
              /\ onboarding[x].sub \in c.subs /\ onboarding[x].status = "account_linked"
          BY <5>2
        <5> QED BY <3>3, <5>3 DEF SessionFine, StatusOfSession
      <4>2. onboarding = [x \in c.sessions |-> onboarding[x]]
        BY <3>2, Zenon
      <4> QED BY <4>1, <4>2, Zenon DEF SessionsFine
    <3>6. OneHolds(c, row)
      BY <3>2 DEF OneHolds, Holds
    <3>7. FeesFine(c, ms, fee)
      <4>1. ASSUME NEW s \in c.subs, c.start = "used" PROVE Payer(c, s, row[s].org) /\ Begun(ms, s)
        <5>1. row[s].org \in c.orgs
          BY <3>1, <3>2, <4>1
        <5>2. row[s].org # "none"
          BY <5>1, MarketConstants
        <5> QED BY <1>2, <1>3, <3>2, <4>1, <5>1, <5>2 DEF Payer, Begun
      <4> QED BY <1>4, <4>1 DEF FeesFine, FeeFine
    <3> QED BY <3>4, <3>5, <3>6, <3>7
  <2> QED BY <2>1, <2>2
<1> QED BY <1>3, <1>4, <1>5, <1>6, <1>7 DEF MarketIInv, MarketFine

(* Of some rows one is the newest.                                         *)
LEMMA LargestExists ==
  ASSUME NEW n \in Nat, NEW C \in SUBSET (1..n), C # {}
  PROVE  \E i \in C : \A j \in C : j <= i
<1> DEFINE D == {m \in Nat : n - m \in C}
<1>1. D \subseteq Nat /\ D # {}
  <2>1. PICK i \in C : TRUE
    OBVIOUS
  <2>2. n - i \in Nat /\ n - (n - i) = i
    OBVIOUS
  <2> QED BY <2>2
<1>2. PICK x \in D : \A y \in D : ~(<<y, x>> \in OpToRel(<, Nat))
  BY <1>1, NatLessThanWellFounded, WFMin
<1>3. \A y \in D : ~(y < x)
  BY <1>2 DEF OpToRel
<1>4. ASSUME NEW j \in C
      PROVE  j <= n - x
  <2>1. n - j \in Nat /\ n - (n - j) = j
    OBVIOUS
  <2>2. n - j \in D
    BY <2>1
  <2> QED BY <1>3, <2>1, <2>2
<1> QED BY <1>4

LEMMA MarketMeans ==
  ASSUME NEW c, Market(c)!MarketplaceAssumption, MarketIInv(c)
  PROVE  /\ Market(c)!TypeOK /\ Market(c)!OrgOfBuyer /\ Market(c)!FeeAfterStart
         /\ Market(c)!OneLiveSubscription /\ Market(c)!AckedIsOver
<1> HIDE DEF NoSubRow, NoBuyer
<1>1. Market(c)!Rows = {s \in c.subs : row[s] # NoSubRow}
  BY MarketNames, Zenon DEF Market!Rows
<1>2. /\ ms \in [c.subs -> AtMarket(c)] /\ row = [s \in c.subs |-> row[s]] /\ fee = [s \in c.subs |-> fee[s]]
      /\ ack = [o \in c.operations |-> ack[o]]
      /\ \A s \in c.subs : row[s] = NoSubRow \/ RowFine(c, ms, s, row[s])
      /\ \A s \in c.subs : fee[s] = "none" \/ (Payer(c, s, fee[s]) /\ Begun(ms, s))
      /\ \A o \in c.operations : /\ ack[o] \in {"none", "pending", "success", "not_required"}
                                 /\ ack[o] = "success" => ops[o].state = "Done"
  BY DEF MarketIInv, MarketFine, RowsFine, FeesFine, FeeFine, OpsFine, OpFine
<1>3. Market(c)!TypeOK
  <2>1. ms \in [c.subs -> [status : Market(c)!Status, plan : c.plans]]
    BY <1>2 DEF AtMarket, MsStatus, Market!Status
  <2>2. SubRow(c) = Market(c)!Row
    BY MarketCounts DEF SubRow, Market!Row, Market!Status, MsStatus, Market!None
  <2>3. row \in [c.subs -> Market(c)!Row \cup {Market(c)!NoRow}]
    BY <1>2, <2>2, MarketNames DEF RowFine
  <2>4. \A x \in c.sessions : \/ onboarding[x] = NoBuyer
                              \/ onboarding[x].sub \in Market(c)!Rows /\ onboarding[x].status \in StatusOfSession
    BY <1>1 DEF MarketIInv, MarketFine, SessionsFine, SessionFine
  <2>5. \A x \in c.sessions : \/ onboarding[x] = Market(c)!NoSession
                              \/ onboarding[x].sub \in Market(c)!Rows /\ onboarding[x].status \in Market(c)!SessionStatus
    BY <2>4, MarketNames DEF StatusOfSession, Market!SessionStatus
  <2>6. ack \in [c.operations -> {Market(c)!None, "pending", "success", "not_required"}]
    BY <1>2 DEF Market!None
  <2>7. fee \in [c.subs -> c.orgs \cup {Market(c)!None}]
    BY <1>2 DEF Market!None, Payer
  <2>8. started \in 0..c.requests /\ faults \in 0..c.faults
    BY DEF MarketIInv
  <2> QED BY <2>1, <2>3, <2>5, <2>6, <2>7, <2>8 DEF Market!TypeOK
<1>4. Market(c)!OrgOfBuyer
  BY <1>1, <1>2 DEF Market!OrgOfBuyer, Market!None, RowFine, Payer
<1>5. Market(c)!FeeAfterStart
  <2>1. \A s \in c.subs : fee[s] # "none" => ms[s].status # "PendingFulfillmentStart"
    BY <1>2 DEF Begun
  <2>2. ASSUME NEW g \in c.orgs, Market(c)!Entitled(g)
        PROVE  ms[Market(c)!GetSubscriptionByOrgId(g)].status # "PendingFulfillmentStart"
    <3>1. PICK R, k : R = Market(c)!RowsOf(g) /\ k = Market(c)!GetSubscriptionByOrgId(g)
      OBVIOUS
    <3>2. R # {} /\ row[k].status = "Subscribed"
      BY <2>2, <3>1 DEF Market!Entitled, Market!Active
    <3>3. R \subseteq c.subs /\ \A s \in R : row[s] # NoSubRow
      BY <1>1, <3>1 DEF Market!RowsOf
    <3>4. \A s \in R : row[s].born \in 1..Cardinality(c.subs)
      BY <1>2, <3>3 DEF RowFine, SubRow
    <3>5. PICK B : B = {row[s].born : s \in R}
      OBVIOUS
    <3>6. Cardinality(c.subs) \in Nat
      BY MarketConstants, FS_CardinalityType
    <3>7. B \in SUBSET (1..Cardinality(c.subs)) /\ B # {}
      BY <3>2, <3>4, <3>5
    <3>8. PICK b \in B : \A j \in B : j <= b
      BY <3>6, <3>7, LargestExists
    <3>9. \E s \in R : \A j \in R : row[j].born <= row[s].born
      BY <3>5, <3>8
    <3>10. k = CHOOSE s \in R : \A j \in R : row[j].born <= row[s].born
      BY <3>1 DEF Market!GetSubscriptionByOrgId
    <3>11. k \in R
      BY <3>9, <3>10
    <3>12. k \in c.subs /\ RowFine(c, ms, k, row[k])
      BY <1>2, <3>3, <3>11
    <3> QED BY <3>1, <3>2, <3>12 DEF RowFine, Begun
  <2> QED BY <2>1, <2>2 DEF Market!FeeAfterStart, Market!None
<1>6. Market(c)!OneLiveSubscription
  <2>1. \A s, k \in c.subs : Holds(row[s]) /\ Holds(row[k]) /\ row[s].org = row[k].org => s = k
    BY DEF MarketIInv, MarketFine, OneHolds
  <2> QED BY <1>1, <2>1, MarketNames, Zenon DEF Market!OneLiveSubscription
<1>7. Market(c)!AckedIsOver
  BY <1>2 DEF Market!AckedIsOver
<1> QED BY <1>3, <1>4, <1>5, <1>6, <1>7

-----------------------------------------------------------------------------
(* marketplace, for the part that was chosen.                              *)
BillingIInv ==
  /\ \A p \in DOMAIN Sales : part = p => MarketIInv(Sales[p])
  /\ part = "metering" => MeterIInv

LEMMA BillingInitial == Init => BillingIInv
<1> SUFFICES ASSUME Init
             PROVE  BillingIInv
  OBVIOUS
<1>1. ASSUME NEW p \in DOMAIN Sales, part = p
      PROVE  MarketIInv(Sales[p])
  <2>1. Market(Sales[p])!Init
    BY <1>1, SalesApart DEF Init, OtherParts
  <2> QED BY <2>1, MarketInit, TenancyAssumption DEF TenancyAssumption
<1>2. part = "metering" => MeterIInv
  <2>1. part = "metering" => Metering!Init
    BY SalesApart DEF Init, OtherParts
  <2> QED BY <2>1, MeterInit
<1> QED BY <1>1, <1>2 DEF BillingIInv

LEMMA BillingSteps == BillingIInv /\ [Next]_vars => BillingIInv'
<1> SUFFICES ASSUME BillingIInv, [Next]_vars
             PROVE  BillingIInv'
  OBVIOUS
<1>1. part' = part
  BY DEF Next, vars
<1>2. ASSUME NEW p \in DOMAIN Sales, part = p
      PROVE  MarketIInv(Sales[p])'
  <2>1. Market(Sales[p])!Next \/ UNCHANGED <<ms, ops, row, onboarding, ack, fee, pend, started, faults>>
    BY <1>2, SalesApart DEF Next, vars, OtherParts, marketVars
  <2>2. MarketIInv(Sales[p]) /\ Market(Sales[p])!MarketplaceAssumption
    BY <1>2, TenancyAssumption DEF BillingIInv, TenancyAssumption
  <2> QED BY <2>1, <2>2, MarketStep, MarketStutters
<1>3. ASSUME part = "metering"
      PROVE  MeterIInv'
  <2>1. Metering!Next \/ UNCHANGED <<meterVars, faults>>
    BY <1>3, SalesApart DEF Next, vars, OtherParts
  <2>2. MeterIInv
    BY <1>3 DEF BillingIInv
  <2> QED BY <2>1, <2>2, MeterStep, MeterStutters
<1> QED BY <1>1, <1>2, <1>3 DEF BillingIInv

(* marketplace, for every number of subscriptions, organizations, buyers,  *)
(* operations, requests and faults, with or without reconciliation: the    *)
(* organization of a subscription and the one billed for its setup belong  *)
(* to a buyer, nobody is billed for or entitled by a subscription that     *)
(* Microsoft never started, one live subscription has an organization, an  *)
(* acknowledged operation is over at Microsoft; and for every quota, event *)
(* and number of runs, Microsoft bills no more than the usage beyond the   *)
(* quota (linkOrganization, activateSubscription, patchOperationIfNeeded,  *)
(* aggregateSubscriptionUsage, updateUsageEventStatus).                    *)
THEOREM BillingStaysSafe == Spec => []BillingInv
<1>1. BillingIInv => BillingInv
  <2> SUFFICES ASSUME BillingIInv
               PROVE  BillingInv
    OBVIOUS
  <2>1. ASSUME NEW p \in DOMAIN Sales, part = p
        PROVE  /\ Market(Sales[p])!TypeOK /\ Market(Sales[p])!OrgOfBuyer /\ Market(Sales[p])!FeeAfterStart
               /\ Market(Sales[p])!OneLiveSubscription /\ Market(Sales[p])!AckedIsOver
    BY <2>1, MarketMeans, TenancyAssumption DEF BillingIInv, TenancyAssumption
  <2>2. part = "metering" => Metering!TypeOK /\ Metering!NeverOverbilled /\ Metering!AcceptedWasBilled
    BY MeterMeans DEF BillingIInv
  <2> QED BY <2>1, <2>2 DEF BillingInv
<1> QED BY <1>1, BillingInitial, BillingSteps, PTL DEF Spec

=============================================================================

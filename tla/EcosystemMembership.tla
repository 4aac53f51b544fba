-------------------------- MODULE EcosystemMembership --------------------------
(***************************************************************************)
(* Ecosystems, their lead and member organizations and the invitations to  *)
(* both.  A role in an ecosystem is a row of ecosystem_orgs and an entry of*)
(* the ecosystem_access attribute in Keycloak, which is read, changed and  *)
(* written back as a whole.                                                *)
(***************************************************************************)
EXTENDS Naturals, FiniteSets

CONSTANTS User, Org,
          OrgCreator,     \* the user that created the organization
          Overlap,        \* handlers may interleave
          MaxRequests,    \* bound: requests
          MaxFaults       \* bound: calls that fail

EcosystemAssumption ==
  /\ IsFiniteSet(User) /\ IsFiniteSet(Org) /\ OrgCreator \in [Org -> User]
  /\ Overlap \in BOOLEAN /\ MaxRequests \in Nat /\ MaxFaults \in Nat

VARIABLES ecosystems,  \* ids of the ecosystems
          invitations, \* rows of ecosystem_invitations
          orgs,        \* rows of ecosystem_orgs
          access,      \* ecosystem_access of each user in Keycloak
          pend, started, faults

vars == <<ecosystems, invitations, orgs, access, pend, started, faults>>

None == "none"
Id == 1..MaxRequests
Entry == Org \X Id \X {"lead", "member"}
Invitation == [id : Id, email : User, type : {"ECOSYSTEM", "MEMBER"}, status : {"ACCEPTED", "PENDING", "REJECTED"},
               eco : Id \cup {0}, org : Org \cup {None}]
OrgRow == [org : Org, eco : Id, role : {"lead", "member"}, status : {"ACTIVE", "SUSPENDED"}, by : User]
Invited(u, e, o) == {i \in invitations : i.email = u /\ i.eco = e /\ i.org = o}

(* The shape of the state; the unique keys of the two tables.              *)
TypeOK ==
  /\ ecosystems \subseteq Id /\ invitations \subseteq Invitation /\ orgs \subseteq OrgRow
  /\ \A r, s \in orgs : r.org = s.org /\ r.eco = s.eco => r = s
  /\ \A i, j \in invitations : i.email = j.email /\ i.eco = j.eco /\ i.eco # 0 /\ i.org = j.org => i = j
  /\ \A r \in orgs : r.eco \in ecosystems
  /\ access \in [User -> SUBSET Entry]
  /\ started \in 0..MaxRequests /\ faults \in 0..MaxFaults

Init == /\ ecosystems = {} /\ invitations = {} /\ orgs = {} /\ access = [u \in User |-> {}]
        /\ pend = {} /\ started = 0 /\ faults = 0

Request(req) == (Overlap \/ pend = {}) /\ started < MaxRequests /\ started' = started + 1 /\ pend' = pend \cup {req}
Turn(req, next) == req \in pend /\ pend' = (pend \ {req}) \cup {next} /\ UNCHANGED started
Go(req, op) == Turn(req, [req EXCEPT !.op = op])
End(req) == req \in pend /\ pend' = pend \ {req} /\ UNCHANGED started
Fails(req) == faults < MaxFaults /\ faults' = faults + 1 /\ End(req) /\ UNCHANGED <<ecosystems, invitations, orgs, access>>

-----------------------------------------------------------------------------
(* inviteUserToCreateEcosystem(): a new invitation that is accepted as it  *)
(* is, whatever the user has.                                              *)
InviteUserToCreateEcosystem(u) ==
  /\ (Overlap \/ pend = {}) /\ started < MaxRequests /\ started' = started + 1
  /\ invitations' = invitations \cup
       {[id |-> started + 1, email |-> u, type |-> "ECOSYSTEM", status |-> "ACCEPTED", eco |-> 0, org |-> None]}
  /\ UNCHANGED <<ecosystems, orgs, access, pend, faults>>
(* createEcosystem(): any accepted invitation of the user will do here;    *)
(* its transaction looks for one that no ecosystem has used.               *)
CreateEcosystem(u, o) ==
  /\ \E i \in invitations : i.email = u /\ i.status = "ACCEPTED"
  /\ Request([op |-> "findUnused", eco |-> started + 1, user |-> u, org |-> o, role |-> "lead"])
  /\ UNCHANGED <<ecosystems, invitations, orgs, access, faults>>
(* The transaction runs at READ COMMITTED: the invitation it reads may be  *)
(* used by another before it writes.                                       *)
FindUnusedInvitation(req) ==
  /\ req.op = "findUnused"
  /\ LET unused == {i \in invitations : i.email = req.user /\ i.status = "ACCEPTED" /\ i.eco = 0}
     IN  IF unused = {} THEN End(req)
         ELSE \E i \in unused : /\ \A j \in unused : j.id <= i.id
                                /\ Turn(req, [op |-> "commit", eco |-> req.eco, user |-> req.user, org |-> req.org,
                                              role |-> "lead", used |-> i.id])
  /\ UNCHANGED <<ecosystems, invitations, orgs, access, faults>>
(* Mutant: the invitation is not marked as used.                           *)
CommitKeepsInvitation(req) ==
  /\ req.op = "commit" /\ Go(req, "readAccess")
  /\ ecosystems' = ecosystems \cup {req.eco}
  /\ orgs' = orgs \cup {[org |-> req.org, eco |-> req.eco, role |-> "lead", status |-> "ACTIVE", by |-> req.user]}
  /\ UNCHANGED <<invitations, access, faults>>
(* createNewEcosystem(), updateEcosystemInvitationDetails().               *)
CommitEcosystem(req) ==
  /\ req.op = "commit" /\ Go(req, "readAccess")
  /\ ecosystems' = ecosystems \cup {req.eco}
  /\ orgs' = orgs \cup {[org |-> req.org, eco |-> req.eco, role |-> "lead", status |-> "ACTIVE", by |-> req.user]}
  /\ invitations' = {IF i.id = req.used THEN [i EXCEPT !.eco = req.eco, !.org = req.org] ELSE i : i \in invitations}
  /\ UNCHANGED <<access, faults>>

(* updateUserEcosystemAccess(): reads the attribute, writes it with the    *)
(* new entry.                                                              *)
ReadAccess(req) ==
  /\ req.op = "readAccess"
  /\ Turn(req, [op |-> "putAccess", eco |-> req.eco, user |-> req.user, org |-> req.org, role |-> req.role,
                seen |-> access[req.user]])
  /\ UNCHANGED <<ecosystems, invitations, orgs, access, faults>>
(* Mutant: the entry replaces the attribute.                               *)
PutAccessAlone(req) ==
  /\ req.op = "putAccess" /\ End(req)
  /\ access' = [access EXCEPT ![req.user] = {<<req.org, req.eco, req.role>>}]
  /\ UNCHANGED <<ecosystems, invitations, orgs, faults>>
PutAccess(req) ==
  /\ req.op = "putAccess" /\ End(req)
  /\ access' = [access EXCEPT ![req.user] = req.seen \cup {<<req.org, req.eco, req.role>>}]
  /\ UNCHANGED <<ecosystems, invitations, orgs, faults>>

-----------------------------------------------------------------------------
(* inviteMemberToEcosystem(): by the creator of the organization.          *)
InviteMemberToEcosystem(u, o, e) ==
  /\ e \in ecosystems
  /\ LET c == OrgCreator[o]
         found == Invited(c, e, o)
     IN  /\ \A i \in found : i.status = "REJECTED"
         /\ Request([op |-> IF found = {} THEN "createInvitation" ELSE "reopen", id |-> started + 1,
                     user |-> c, by |-> u, org |-> o, eco |-> e])
  /\ UNCHANGED <<ecosystems, invitations, orgs, access, faults>>
(* createEcosystemInvitation(): a creator who asks accepts at once.        *)
CreateEcosystemInvitation(req) ==
  /\ req.op = "createInvitation"
  /\ IF Invited(req.user, req.eco, req.org) = {}
     THEN /\ invitations' = invitations \cup {[id |-> req.id, email |-> req.user, type |-> "MEMBER",
                                               status |-> "PENDING", eco |-> req.eco, org |-> req.org]}
          /\ IF req.by = req.user
             THEN Turn(req, [op |-> "setStatus", user |-> req.user, org |-> req.org, eco |-> req.eco, status |-> "ACCEPTED"])
             ELSE End(req)
     ELSE End(req) /\ UNCHANGED invitations
  /\ UNCHANGED <<ecosystems, orgs, access, faults>>
SetStatus(u, e, o, s) ==
  invitations' = {IF i \in Invited(u, e, o) THEN [i EXCEPT !.status = s] ELSE i : i \in invitations}
(* A rejected invitation is made pending again.                            *)
ReopenInvitation(req) ==
  /\ req.op = "reopen" /\ End(req)
  /\ SetStatus(req.user, req.eco, req.org, "PENDING")
  /\ UNCHANGED <<ecosystems, orgs, access, faults>>
(* Mutant: an accepted invitation may be answered again.                   *)
AnswerTwice(u, e, o, status) ==
  /\ Invited(u, e, o) # {}
  /\ Request([op |-> "setStatus", user |-> u, org |-> o, eco |-> e, status |-> status])
  /\ UNCHANGED <<ecosystems, invitations, orgs, access, faults>>
(* updateEcosystemInvitationStatus().                                      *)
UpdateEcosystemInvitationStatus(u, e, o, status) ==
  /\ \E i \in Invited(u, e, o) : i.status # "ACCEPTED"
  /\ Request([op |-> "setStatus", user |-> u, org |-> o, eco |-> e, status |-> status])
  /\ UNCHANGED <<ecosystems, invitations, orgs, access, faults>>
UpdateEcosystemInvitationStatusByEmail(req) ==
  /\ req.op = "setStatus"
  /\ SetStatus(req.user, req.eco, req.org, req.status)
  /\ IF Invited(req.user, req.eco, req.org) # {} /\ req.status = "ACCEPTED"
     THEN Turn(req, [op |-> "createOrg", user |-> req.user, org |-> req.org, eco |-> req.eco, role |-> "member"])
     ELSE End(req)
  /\ UNCHANGED <<ecosystems, orgs, access, faults>>
(* createEcosystemOrg(): the key refuses a second row.  The check before   *)
(* it compares the organization with the id of the user and finds nothing. *)
CreateEcosystemOrg(req) ==
  /\ req.op = "createOrg"
  /\ IF \E r \in orgs : r.org = req.org /\ r.eco = req.eco
     THEN End(req) /\ UNCHANGED orgs
     ELSE /\ orgs' = orgs \cup {[org |-> req.org, eco |-> req.eco, role |-> "member", status |-> "ACTIVE", by |-> req.user]}
          /\ Go(req, "readAccess")
  /\ UNCHANGED <<ecosystems, invitations, access, faults>>

(* Mutant: the lead can be removed as well.                                *)
DeleteAnyOrg(e, o) ==
  /\ e \in ecosystems /\ (Overlap \/ pend = {}) /\ started < MaxRequests /\ started' = started + 1
  /\ orgs' = {r \in orgs : ~(r.eco = e /\ r.org = o)}
  /\ invitations' = {i \in invitations : ~(i.eco = e /\ i.type = "MEMBER" /\ i.org = o)}
  /\ UNCHANGED <<ecosystems, access, pend, faults>>
(* deleteOrgsFromEcosystem(): members and their invitations, in one        *)
(* transaction; Keycloak keeps the entry.                                  *)
DeleteOrgsFromEcosystem(e, o) ==
  /\ e \in ecosystems /\ (Overlap \/ pend = {}) /\ started < MaxRequests /\ started' = started + 1
  /\ orgs' = {r \in orgs : ~(r.eco = e /\ r.org = o /\ r.role = "member")}
  /\ invitations' = {i \in invitations : ~(i.eco = e /\ i.type = "MEMBER" /\ i.org = o)}
  /\ UNCHANGED <<ecosystems, access, pend, faults>>
UpdateEcosystemOrgStatus(e, o, s) ==
  /\ \E r \in orgs : r.eco = e /\ r.org = o /\ r.status # s
  /\ (Overlap \/ pend = {}) /\ started < MaxRequests /\ started' = started + 1
  /\ orgs' = {IF r.eco = e /\ r.org = o THEN [r EXCEPT !.status = s] ELSE r : r \in orgs}
  /\ UNCHANGED <<ecosystems, invitations, access, pend, faults>>

-----------------------------------------------------------------------------
Handler(req) ==
  \/ FindUnusedInvitation(req) \/ CommitEcosystem(req) \/ ReadAccess(req) \/ PutAccess(req)
  \/ CreateEcosystemInvitation(req) \/ ReopenInvitation(req) \/ UpdateEcosystemInvitationStatusByEmail(req)
  \/ CreateEcosystemOrg(req) \/ Fails(req)

Next ==
  \/ \E req \in pend : Handler(req)
  \/ \E u \in User : InviteUserToCreateEcosystem(u) \/ \E o \in Org : CreateEcosystem(u, o)
  \/ \E u \in User, o \in Org, e \in ecosystems :
       \/ InviteMemberToEcosystem(u, o, e) \/ DeleteOrgsFromEcosystem(e, o)
       \/ \E s \in {"ACCEPTED", "REJECTED"} : UpdateEcosystemInvitationStatus(u, e, o, s)
       \/ \E s \in {"ACTIVE", "SUSPENDED"} : UpdateEcosystemOrgStatus(e, o, s)

Spec == Init /\ [][Next]_vars

-----------------------------------------------------------------------------
(* Whatever overlaps or fails, an ecosystem keeps exactly one lead: it can *)
(* be neither removed nor replaced, and is no second time a member         *)
(* (createNewEcosystem, deleteOrgFromEcosystem).                           *)
EveryEcosystemIsLed == \A e \in ecosystems : Cardinality({r \in orgs : r.eco = e /\ r.role = "lead"}) = 1

(* Between requests, a member organization has an accepted invitation to   *)
(* its ecosystem (updateEcosystemInvitationStatus).                        *)
MemberIsInvited ==
  pend = {} => \A r \in orgs : r.role = "member" =>
                 \E i \in invitations : i.eco = r.eco /\ i.org = r.org /\ i.status = "ACCEPTED"

(* Between requests and without faults, the roles of an organization are   *)
(* in the ecosystem_access of the user that took them, the earlier ones    *)
(* included (updateUserEcosystemAccess).                                   *)
RolesAreInAccess == pend = {} /\ faults = 0 => \A r \in orgs : <<r.org, r.eco, r.role>> \in access[r.by]

(* Every ecosystem has an invitation of its own, from a platform admin     *)
(* (findAcceptedInvitationByUserId, updateEcosystemInvitationDetails).     *)
EcosystemIsInvited == \A e \in ecosystems : \E i \in invitations : i.type = "ECOSYSTEM" /\ i.eco = e
================================================================================

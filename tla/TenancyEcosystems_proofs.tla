---------------------- MODULE TenancyEcosystems_proofs ----------------------
(***************************************************************************)
(* For every set of users, organizations, ecosystems, names and templates  *)
(* and every number of requests and faults: the invariants of the parts of *)
(* Tenancy that keep ecosystems, their members and their intents, and the  *)
(* wallet of an organization.  The rows of org_agents and org_dids agree   *)
(* with each other, with the wallet at the agent and with the stored token *)
(* because ids are never given twice, so a handler whose row is gone finds *)
(* no other under its id, the handler that is to give a row its wallet is  *)
(* the only one, and the one that is to delete a tenant comes after the    *)
(* row of that tenant is gone.                                             *)
(***************************************************************************)
EXTENDS Tenancy, FiniteSetTheorems, TLAPS

(* A part that sells subscriptions is none of the others.                  *)
LEMMA SalesApart == \A p \in DOMAIN Sales : p \notin OtherParts
BY TenancyAssumption DEF TenancyAssumption

-----------------------------------------------------------------------------
(* ecosystem: leads, members and invitations, with handlers that           *)
(* interleave (o) or not, and at most n requests.                          *)

EcoEntry(n) == EcosystemOrg \X (1..n) \X {"lead", "member"}
EcoInvitation(n) ==
  [id : 1..n, email : User, type : {"ECOSYSTEM", "MEMBER"}, status : {"ACCEPTED", "PENDING", "REJECTED"},
   eco : (1..n) \cup {0}, org : EcosystemOrg \cup {"none"}]
EcoRow(n) ==
  [org : EcosystemOrg, eco : 1..n, role : {"lead", "member"}, status : {"ACTIVE", "SUSPENDED"}, by : User]

(* The requests under way. *)
EcoRequest(n) ==
  [op : {"findUnused"}, eco : 1..n, user : User, org : EcosystemOrg, role : {"lead"}]
    \cup [op : {"commit", "readAccess"}, eco : 1..n, user : User, org : EcosystemOrg, role : {"lead"}, used : 1..n]
    \cup [op : {"createOrg", "readAccess"}, user : User, org : EcosystemOrg, eco : 1..n, role : {"member"}]
    \cup [op : {"putAccess"}, eco : 1..n, user : User, org : EcosystemOrg, role : {"lead", "member"},
          seen : SUBSET EcoEntry(n)]
    \cup [op : {"createInvitation", "reopen"}, id : 1..n, user : User, by : User, org : EcosystemOrg, eco : 1..n]
    \cup [op : {"setStatus"}, user : User, org : EcosystemOrg, eco : 1..n, status : {"ACCEPTED", "REJECTED"}]

(* The id of an ecosystem or an invitation is new until the request that   *)
(* took it writes it; whoever invites or answers does so in an ecosystem.  *)
Founding(r) == r.op \in {"findUnused", "commit"}
EcoGood(r) ==
  /\ Founding(r) => r.eco <= started /\ r.eco \notin ecosystems
  /\ r.op = "createInvitation" => r.id <= started /\ \A i \in invitations : i.id # r.id
  /\ r.op \in {"createInvitation", "reopen", "setStatus", "createOrg"} => r.eco \in ecosystems

EcoRequests(n) ==
  /\ pend \subseteq EcoRequest(n)
  /\ \A r \in pend : EcoGood(r)
  /\ \A r, q \in pend : Founding(r) /\ Founding(q) /\ r.eco = q.eco => r = q
  /\ \A r, q \in pend : r.op = "createInvitation" /\ q.op = "createInvitation" /\ r.id = q.id => r = q

(* Invitations have ids of their own; one without an ecosystem is from a   *)
(* platform admin.                                                         *)
InvitationsKnown ==
  /\ \A i \in invitations : i.id <= started /\ i.eco \in ecosystems \cup {0} /\ (i.eco = 0 => i.type = "ECOSYSTEM")
  /\ \A i, j \in invitations : i.id = j.id => i = j

(* Every ecosystem has its lead, and no other.                             *)
Led ==
  /\ \A e \in ecosystems : e <= started /\ \E r \in orgs : r.eco = e /\ r.role = "lead"
  /\ \A r, s \in orgs : r.eco = s.eco /\ r.role = "lead" /\ s.role = "lead" => r = s

EcoIInv(o, n) == Ecosystems(o, n)!TypeOK /\ EcoRequests(n) /\ InvitationsKnown /\ Led

LEMMA EcoConstants ==
  /\ OrgCreator \in [EcosystemOrg -> User] /\ Faults \in Nat
  /\ Requests.ecosystems \in Nat /\ Requests.ecosystemsInTurn \in Nat
BY TenancyAssumption DEF TenancyAssumption, Ecosystems!EcosystemAssumption

(* The state, with the definitions of the module put out of the way. *)
EcoTyped(n) ==
  /\ ecosystems \subseteq 1..n /\ invitations \subseteq EcoInvitation(n) /\ orgs \subseteq EcoRow(n)
  /\ \A r, s \in orgs : r.org = s.org /\ r.eco = s.eco => r = s
  /\ \A i, j \in invitations : i.email = j.email /\ i.eco = j.eco /\ i.eco # 0 /\ i.org = j.org => i = j
  /\ \A r \in orgs : r.eco \in ecosystems
  /\ access \in [User -> SUBSET EcoEntry(n)]
  /\ started \in 0..n /\ faults \in 0..Faults

LEMMA EcoUnfolded ==
  ASSUME NEW o \in BOOLEAN, NEW n \in Nat
  PROVE  (Ecosystems(o, n)!TypeOK <=> EcoTyped(n)) /\ (Ecosystems(o, n)!TypeOK' <=> EcoTyped(n)')
BY DEF Ecosystems!TypeOK, EcoTyped, Ecosystems!Id, Ecosystems!Invitation, EcoInvitation, Ecosystems!OrgRow, EcoRow,
       Ecosystems!Entry, EcoEntry, Ecosystems!None

(* The fields of the kinds of requests. *)
LEMMA EcoRequestFields ==
  ASSUME NEW n \in Nat, NEW r \in EcoRequest(n)
  PROVE  /\ r.eco \in 1..n /\ r.user \in User /\ r.org \in EcosystemOrg
         /\ r.op = "commit" =>
              r \in [op : {"commit", "readAccess"}, eco : 1..n, user : User, org : EcosystemOrg, role : {"lead"}, used : 1..n]
         /\ r.op = "createOrg" =>
              r \in [op : {"createOrg", "readAccess"}, user : User, org : EcosystemOrg, eco : 1..n, role : {"member"}]
         /\ r.op \in {"readAccess", "putAccess"} => r.role \in {"lead", "member"}
         /\ r.op = "putAccess" => r.seen \in SUBSET EcoEntry(n)
         /\ r.op = "createInvitation" => r.id \in 1..n /\ r.by \in User
         /\ r.op = "setStatus" => r.status \in {"ACCEPTED", "REJECTED"}
BY DEF EcoRequest

(* Requests after a step: those that stay and one that is new. *)
LEMMA EcoRequestsKept ==
  ASSUME NEW n \in Nat, EcoRequests(n), started \in Nat, started' \in Nat, started <= started',
         ecosystems \subseteq ecosystems',
         \A r \in pend' : r \in pend \/ (r \in EcoRequest(n) /\ EcoGood(r)'),
         \A r \in pend' : Founding(r) => r.eco \notin ecosystems' \ ecosystems,
         \A i \in invitations' : \/ \E j \in invitations : i.id = j.id
                                 \/ \A r \in pend' : r.op = "createInvitation" => r.id # i.id,
         \A r, q \in pend' : Founding(r) /\ Founding(q) /\ r.eco = q.eco /\ r # q => r \in pend /\ q \in pend,
         \A r, q \in pend' : r.op = "createInvitation" /\ q.op = "createInvitation" /\ r.id = q.id /\ r # q =>
           r \in pend /\ q \in pend
  PROVE  EcoRequests(n)'
<1>1. \A r \in pend' : EcoGood(r)'
  <2> SUFFICES ASSUME NEW r \in pend', r \in pend
               PROVE  EcoGood(r)'
    OBVIOUS
  <2>1. r \in EcoRequest(n) /\ EcoGood(r)
    BY DEF EcoRequests
  <2>2. r.eco \in 1..n /\ (r.op = "createInvitation" => r.id \in 1..n)
    BY <2>1, EcoRequestFields
  <2>3. Founding(r) => r.eco <= started' /\ r.eco \notin ecosystems'
    BY <2>1, <2>2 DEF EcoGood
  <2>4. r.op = "createInvitation" => r.id <= started' /\ \A i \in invitations' : i.id # r.id
    BY <2>1, <2>2 DEF EcoGood
  <2> QED BY <2>1, <2>3, <2>4 DEF EcoGood, Founding
<1>2. \A r, q \in pend' : Founding(r) /\ Founding(q) /\ r.eco = q.eco => r = q
  BY DEF EcoRequests
<1>3. \A r, q \in pend' : r.op = "createInvitation" /\ q.op = "createInvitation" /\ r.id = q.id => r = q
  BY DEF EcoRequests
<1> QED BY <1>1, <1>2, <1>3 DEF EcoRequests, Founding

(* A handler that leaves the tables alone, ends its request or goes on     *)
(* with one that is neither founding nor inviting.                         *)
LEMMA EcoQuiet ==
  ASSUME NEW o \in BOOLEAN, NEW n \in Nat, EcoIInv(o, n), NEW req \in pend,
         UNCHANGED <<ecosystems, invitations, orgs, started>>, access' \in [User -> SUBSET EcoEntry(n)],
         faults' \in 0..Faults,
         \/ pend' = pend \ {req}
         \/ \E q \in EcoRequest(n) : /\ pend' = (pend \ {req}) \cup {q}
                                     /\ q.op # "createInvitation" /\ EcoGood(q)
                                     /\ Founding(q) => Founding(req) /\ q.eco = req.eco
  PROVE  EcoIInv(o, n)'
<1>1. EcoTyped(n) /\ EcoRequests(n) /\ InvitationsKnown /\ Led
  BY EcoUnfolded DEF EcoIInv
<1>2. EcoTyped(n)'
  BY <1>1 DEF EcoTyped
<1>3. EcoRequests(n)'
  <2>1. CASE pend' = pend \ {req}
    BY <1>1, <2>1, EcoRequestsKept DEF EcoTyped
  <2>2. ASSUME NEW q \in EcoRequest(n), pend' = (pend \ {req}) \cup {q}, q.op # "createInvitation", EcoGood(q),
               Founding(q) => Founding(req) /\ q.eco = req.eco
        PROVE  EcoRequests(n)'
    <3>1. EcoGood(q)'
      BY <2>2 DEF EcoGood, Founding
    <3>2. \A r, p \in pend' : Founding(r) /\ Founding(p) /\ r.eco = p.eco /\ r # p => r \in pend /\ p \in pend
      BY <1>1, <2>2 DEF EcoRequests
    <3> QED BY <1>1, <2>2, <3>1, <3>2, EcoRequestsKept DEF EcoTyped
  <2> QED BY <2>1, <2>2
<1>4. InvitationsKnown' /\ Led'
  BY <1>1 DEF InvitationsKnown, Led
<1> QED BY <1>2, <1>3, <1>4, EcoUnfolded DEF EcoIInv

(* updateEcosystemInvitationStatusByEmail() changes nothing but the status *)
(* of the invitations it finds.                                            *)
SameInvitation(j, i) == j.id = i.id /\ j.email = i.email /\ j.type = i.type /\ j.eco = i.eco /\ j.org = i.org

StatusSet(u, e, g, s) ==
  invitations' = {IF i.email = u /\ i.eco = e /\ i.org = g THEN [i EXCEPT !.status = s] ELSE i : i \in invitations}

LEMMA EcoStatusSet ==
  ASSUME NEW n \in Nat, EcoTyped(n), InvitationsKnown, NEW u, NEW e, NEW g,
         NEW s \in {"ACCEPTED", "PENDING", "REJECTED"}, StatusSet(u, e, g, s)
  PROVE  /\ \A j \in invitations' : \E i \in invitations :
              /\ SameInvitation(j, i)
              /\ j.status = IF i.email = u /\ i.eco = e /\ i.org = g THEN s ELSE i.status
         /\ \A i \in invitations : \E j \in invitations' :
              /\ SameInvitation(j, i)
              /\ j.status = IF i.email = u /\ i.eco = e /\ i.org = g THEN s ELSE i.status
         /\ invitations' \subseteq EcoInvitation(n)
         /\ \A i, j \in invitations' : i.email = j.email /\ i.eco = j.eco /\ i.eco # 0 /\ i.org = j.org => i = j
         /\ \A i, j \in invitations' : i.id = j.id => i = j
<1>1. EcoTyped(n) /\ InvitationsKnown
  OBVIOUS
<1> DEFINE F(i) == IF i.email = u /\ i.eco = e /\ i.org = g THEN [i EXCEPT !.status = s] ELSE i
<1>2. invitations' = {F(i) : i \in invitations}
  BY DEF StatusSet
<1>3. ASSUME NEW i \in invitations
      PROVE  /\ F(i) \in EcoInvitation(n) /\ SameInvitation(F(i), i)
             /\ F(i).status = IF i.email = u /\ i.eco = e /\ i.org = g THEN s ELSE i.status
  <2>1. i \in EcoInvitation(n)
    BY <1>1 DEF EcoTyped
  <2> QED BY <2>1 DEF EcoInvitation, SameInvitation
<1> HIDE DEF F
<1>4. \A j \in invitations' : \E i \in invitations :
        /\ j = F(i) /\ SameInvitation(j, i)
        /\ j.status = IF i.email = u /\ i.eco = e /\ i.org = g THEN s ELSE i.status
  BY <1>2, <1>3
<1>5. \A i \in invitations : F(i) \in invitations'
  BY <1>2
<1>6. invitations' \subseteq EcoInvitation(n)
  BY <1>2, <1>3
<1>7. \A i, j \in invitations' : i.id = j.id => i = j
  <2> SUFFICES ASSUME NEW i \in invitations', NEW j \in invitations', i.id = j.id
               PROVE  i = j
    OBVIOUS
  <2>1. PICK x \in invitations : i = F(x) /\ SameInvitation(i, x)
    BY <1>4
  <2>2. PICK y \in invitations : j = F(y) /\ SameInvitation(j, y)
    BY <1>4
  <2>3. x = y
    BY <1>1, <2>1, <2>2 DEF SameInvitation, InvitationsKnown
  <2> QED BY <2>1, <2>2, <2>3
<1>8. \A i, j \in invitations' : i.email = j.email /\ i.eco = j.eco /\ i.eco # 0 /\ i.org = j.org => i = j
  <2> SUFFICES ASSUME NEW i \in invitations', NEW j \in invitations',
                      i.email = j.email, i.eco = j.eco, i.eco # 0, i.org = j.org
               PROVE  i = j
    OBVIOUS
  <2>1. PICK x \in invitations : i = F(x) /\ SameInvitation(i, x)
    BY <1>4
  <2>2. PICK y \in invitations : j = F(y) /\ SameInvitation(j, y)
    BY <1>4
  <2>3. x = y
    BY <1>1, <2>1, <2>2 DEF SameInvitation, EcoTyped
  <2> QED BY <2>1, <2>2, <2>3
<1>9. \A i \in invitations : \E j \in invitations' :
        /\ SameInvitation(j, i)
        /\ j.status = IF i.email = u /\ i.eco = e /\ i.org = g THEN s ELSE i.status
  BY <1>3, <1>5
<1> QED BY <1>4, <1>6, <1>7, <1>8, <1>9

(* A handler that sets the status of invitations. *)
LEMMA EcoStatusKept ==
  ASSUME NEW o \in BOOLEAN, NEW n \in Nat, EcoIInv(o, n), NEW req \in pend, NEW u, NEW e, NEW g,
         NEW s \in {"ACCEPTED", "PENDING", "REJECTED"}, StatusSet(u, e, g, s),
         UNCHANGED <<ecosystems, orgs, access, faults, started>>,
         \/ pend' = pend \ {req}
         \/ \E q \in EcoRequest(n) : /\ pend' = (pend \ {req}) \cup {q}
                                     /\ q.op = "createOrg" /\ q.eco \in ecosystems
  PROVE  EcoIInv(o, n)'
<1>1. EcoTyped(n) /\ EcoRequests(n) /\ InvitationsKnown /\ Led
  BY EcoUnfolded DEF EcoIInv
<1>2. /\ \A j \in invitations' : \E i \in invitations : SameInvitation(j, i)
      /\ invitations' \subseteq EcoInvitation(n)
      /\ \A i, j \in invitations' : i.email = j.email /\ i.eco = j.eco /\ i.eco # 0 /\ i.org = j.org => i = j
      /\ \A i, j \in invitations' : i.id = j.id => i = j
  <2>1. \A j \in invitations' : \E i \in invitations :
              /\ SameInvitation(j, i)
              /\ j.status = IF i.email = u /\ i.eco = e /\ i.org = g THEN s ELSE i.status
    BY <1>1, EcoStatusSet
  <2>2. /\ invitations' \subseteq EcoInvitation(n)
        /\ \A i, j \in invitations' : i.email = j.email /\ i.eco = j.eco /\ i.eco # 0 /\ i.org = j.org => i = j
        /\ \A i, j \in invitations' : i.id = j.id => i = j
    BY <1>1, EcoStatusSet
  <2> QED BY <2>1, <2>2
<1>3. EcoTyped(n)'
  BY <1>1, <1>2 DEF EcoTyped
<1>4. EcoRequests(n)'
  <2>1. \A i \in invitations' : \E j \in invitations : i.id = j.id
    BY <1>2 DEF SameInvitation
  <2>2. CASE pend' = pend \ {req}
    BY <1>1, <2>1, <2>2, EcoRequestsKept DEF EcoTyped
  <2>3. ASSUME NEW q \in EcoRequest(n), pend' = (pend \ {req}) \cup {q}, q.op = "createOrg", q.eco \in ecosystems
        PROVE  EcoRequests(n)'
    <3>1. EcoGood(q)' /\ ~Founding(q)
      BY <2>3 DEF EcoGood, Founding
    <3> QED BY <1>1, <2>1, <2>3, <3>1, EcoRequestsKept DEF EcoTyped
  <2> QED BY <2>2, <2>3
<1>5. InvitationsKnown'
  BY <1>1, <1>2 DEF InvitationsKnown, SameInvitation
<1>6. Led'
  BY <1>1 DEF Led
<1> QED BY <1>3, <1>4, <1>5, <1>6, EcoUnfolded DEF EcoIInv

(* createNewEcosystem() and updateEcosystemInvitationDetails(): the        *)
(* invitation that was found gets the new ecosystem, the others stay.      *)
LEMMA EcoCommitted ==
  ASSUME NEW o \in BOOLEAN, NEW n \in Nat, EcoIInv(o, n), NEW req \in pend, Ecosystems(o, n)!CommitEcosystem(req)
  PROVE  /\ \A j \in invitations' : \E i \in invitations :
              /\ j.id = i.id /\ j.email = i.email /\ j.type = i.type /\ j.status = i.status
              /\ i.id # req.used => j = i
              /\ i.id = req.used => j.eco = req.eco /\ j.org = req.org
         /\ \A i \in invitations : \E j \in invitations' :
              /\ j.id = i.id /\ j.email = i.email /\ j.type = i.type /\ j.status = i.status
              /\ i.id # req.used => j = i
              /\ i.id = req.used => j.eco = req.eco /\ j.org = req.org
         /\ invitations' \subseteq EcoInvitation(n)
         /\ \A i, j \in invitations' : i.id = j.id => i = j
<1>1. EcoTyped(n) /\ InvitationsKnown
  BY EcoUnfolded DEF EcoIInv
<1>2. req.eco \in 1..n /\ req.org \in EcosystemOrg
  BY EcoRequestFields DEF EcoIInv, EcoRequests
<1> DEFINE F(i) == IF i.id = req.used THEN [i EXCEPT !.eco = req.eco, !.org = req.org] ELSE i
<1>3. invitations' = {F(i) : i \in invitations}
  BY DEF Ecosystems!CommitEcosystem
<1>4. ASSUME NEW i \in invitations
      PROVE  /\ F(i) \in EcoInvitation(n)
             /\ F(i).id = i.id /\ F(i).email = i.email /\ F(i).type = i.type /\ F(i).status = i.status
             /\ i.id # req.used => F(i) = i
             /\ i.id = req.used => F(i).eco = req.eco /\ F(i).org = req.org
  <2>1. i \in EcoInvitation(n)
    BY <1>1 DEF EcoTyped
  <2> QED BY <1>2, <2>1 DEF EcoInvitation
<1> HIDE DEF F
<1>5. \A j \in invitations' : \E i \in invitations : j = F(i)
  BY <1>3
<1>6. \A i \in invitations : F(i) \in invitations'
  BY <1>3
<1>7. invitations' \subseteq EcoInvitation(n)
  BY <1>4, <1>5
<1>8. \A i, j \in invitations' : i.id = j.id => i = j
  BY <1>1, <1>4, <1>5 DEF InvitationsKnown
<1> QED BY <1>4, <1>5, <1>6, <1>7, <1>8

LEMMA EcoCommitKept ==
  ASSUME NEW o \in BOOLEAN, NEW n \in Nat, EcoIInv(o, n), NEW req \in pend, Ecosystems(o, n)!CommitEcosystem(req)
  PROVE  EcoIInv(o, n)'
<1>1. EcoTyped(n) /\ EcoRequests(n) /\ InvitationsKnown /\ Led
  BY EcoUnfolded DEF EcoIInv
<1>2. /\ req \in EcoRequest(n) /\ req.op = "commit" /\ EcoGood(req)
      /\ req.eco \in 1..n /\ req.org \in EcosystemOrg /\ req.user \in User
      /\ req \in [op : {"commit", "readAccess"}, eco : 1..n, user : User, org : EcosystemOrg, role : {"lead"}, used : 1..n]
  BY <1>1, EcoRequestFields DEF EcoRequests, Ecosystems!CommitEcosystem
<1>3. req.eco <= started /\ req.eco \notin ecosystems
  BY <1>2 DEF EcoGood, Founding
<1> DEFINE q == [req EXCEPT !.op = "readAccess"]
           leader == [org |-> req.org, eco |-> req.eco, role |-> "lead", status |-> "ACTIVE", by |-> req.user]
<1>4. /\ pend' = (pend \ {req}) \cup {q} /\ ecosystems' = ecosystems \cup {req.eco} /\ orgs' = orgs \cup {leader}
      /\ UNCHANGED <<access, faults, started>>
  BY DEF Ecosystems!CommitEcosystem, Ecosystems!Go, Ecosystems!Turn
<1>5. q \in EcoRequest(n) /\ q.op = "readAccess"
  BY <1>2 DEF EcoRequest
<1>6. leader \in EcoRow(n) /\ leader.eco = req.eco /\ leader.role = "lead"
  BY <1>2 DEF EcoRow
<1> HIDE DEF q, leader
<1>7. /\ \A j \in invitations' : \E i \in invitations :
           /\ j.id = i.id /\ j.email = i.email /\ j.type = i.type
           /\ i.id # req.used => j = i
           /\ i.id = req.used => j.eco = req.eco /\ j.org = req.org
      /\ invitations' \subseteq EcoInvitation(n)
      /\ \A i, j \in invitations' : i.id = j.id => i = j
  BY EcoCommitted
<1>8. \A i, j \in invitations' : i.email = j.email /\ i.eco = j.eco /\ i.eco # 0 /\ i.org = j.org => i = j
  <2> SUFFICES ASSUME NEW i \in invitations', NEW j \in invitations',
                      i.email = j.email, i.eco = j.eco, i.eco # 0, i.org = j.org
               PROVE  i = j
    OBVIOUS
  <2>1. PICK x \in invitations : /\ i.id = x.id
                                 /\ x.id # req.used => i = x
                                 /\ x.id = req.used => i.eco = req.eco
    BY <1>7
  <2>2. PICK y \in invitations : /\ j.id = y.id
                                 /\ y.id # req.used => j = y
                                 /\ y.id = req.used => j.eco = req.eco
    BY <1>7
  <2>3. x.eco # req.eco /\ y.eco # req.eco
    BY <1>1, <1>2, <1>3 DEF InvitationsKnown
  <2> QED BY <1>1, <1>7, <2>1, <2>2, <2>3 DEF EcoTyped
<1>9. EcoTyped(n)'
  <2>1. \A r, s \in orgs' : r.org = s.org /\ r.eco = s.eco => r = s
    BY <1>1, <1>3, <1>4, <1>6 DEF EcoTyped
  <2> QED BY <1>1, <1>2, <1>4, <1>6, <1>7, <1>8, <2>1 DEF EcoTyped
<1>10. EcoRequests(n)'
  <2>1. EcoGood(q)' /\ ~Founding(q)
    BY <1>5 DEF EcoGood, Founding
  <2>2. \A r \in pend' : Founding(r) => r.eco # req.eco
    BY <1>1, <1>2, <1>4, <2>1 DEF EcoRequests, Founding
  <2>3. \A i \in invitations' : \E j \in invitations : i.id = j.id
    BY <1>7
  <2> QED BY <1>1, <1>4, <1>5, <2>1, <2>2, <2>3, EcoRequestsKept DEF EcoTyped
<1>11. InvitationsKnown'
  <2>1. \A j \in invitations' : j.id <= started' /\ j.eco \in ecosystems' \cup {0} /\ (j.eco = 0 => j.type = "ECOSYSTEM")
    BY <1>1, <1>2, <1>4, <1>7 DEF InvitationsKnown
  <2> QED BY <1>7, <2>1 DEF InvitationsKnown
<1>12. Led'
  <2>1. \A e \in ecosystems' : e <= started' /\ \E r \in orgs' : r.eco = e /\ r.role = "lead"
    BY <1>1, <1>3, <1>4, <1>6 DEF Led
  <2>2. \A r \in orgs : r.eco # req.eco
    BY <1>1, <1>3 DEF EcoTyped
  <2>3. \A r, s \in orgs' : r.eco = s.eco /\ r.role = "lead" /\ s.role = "lead" => r = s
    BY <1>1, <1>4, <1>6, <2>2 DEF Led
  <2> QED BY <2>1, <2>3 DEF Led
<1> QED BY <1>9, <1>10, <1>11, <1>12, EcoUnfolded DEF EcoIInv

(* createEcosystemInvitation(): the invitation has the id the request took. *)
LEMMA EcoInvitationKept ==
  ASSUME NEW o \in BOOLEAN, NEW n \in Nat, EcoIInv(o, n), NEW req \in pend,
         Ecosystems(o, n)!CreateEcosystemInvitation(req)
  PROVE  EcoIInv(o, n)'
<1>1. EcoTyped(n) /\ EcoRequests(n) /\ InvitationsKnown /\ Led
  BY EcoUnfolded DEF EcoIInv
<1>2. /\ req \in EcoRequest(n) /\ req.op = "createInvitation" /\ EcoGood(req)
      /\ req.eco \in 1..n /\ req.org \in EcosystemOrg /\ req.user \in User /\ req.id \in 1..n
  BY <1>1, EcoRequestFields DEF EcoRequests, Ecosystems!CreateEcosystemInvitation
<1>3. req.id <= started /\ req.eco \in ecosystems /\ \A i \in invitations : i.id # req.id
  BY <1>2 DEF EcoGood
<1>4. UNCHANGED <<ecosystems, orgs, access, faults, started>>
  BY DEF Ecosystems!CreateEcosystemInvitation, Ecosystems!End, Ecosystems!Turn
<1>5. CASE Ecosystems(o, n)!Invited(req.user, req.eco, req.org) # {}
  <2>1. pend' = pend \ {req} /\ UNCHANGED invitations
    BY <1>5 DEF Ecosystems!CreateEcosystemInvitation, Ecosystems!End
  <2> QED BY <1>1, <1>4, <2>1, EcoQuiet DEF EcoTyped
<1>6. CASE Ecosystems(o, n)!Invited(req.user, req.eco, req.org) = {}
  <2> DEFINE q == [op |-> "setStatus", user |-> req.user, org |-> req.org, eco |-> req.eco, status |-> "ACCEPTED"]
             i0 == [id |-> req.id, email |-> req.user, type |-> "MEMBER",
                    status |-> "PENDING", eco |-> req.eco, org |-> req.org]
  <2>1. invitations' = invitations \cup {i0}
    BY <1>6 DEF Ecosystems!CreateEcosystemInvitation
  <2>2. pend' = pend \ {req} \/ pend' = (pend \ {req}) \cup {q}
    BY <1>6 DEF Ecosystems!CreateEcosystemInvitation, Ecosystems!End, Ecosystems!Turn
  <2>3. q \in EcoRequest(n) /\ q.op = "setStatus" /\ q.eco = req.eco
    BY <1>2 DEF EcoRequest
  <2>4. /\ i0 \in EcoInvitation(n) /\ i0.id = req.id /\ i0.email = req.user /\ i0.eco = req.eco /\ i0.org = req.org
        /\ i0.type = "MEMBER"
    BY <1>2 DEF EcoInvitation
  <2> HIDE DEF q, i0
  <2>5. \A i \in invitations : ~(i.email = req.user /\ i.eco = req.eco /\ i.org = req.org)
    BY <1>6 DEF Ecosystems!Invited
  <2>6. EcoTyped(n)'
    <3>1. \A i, j \in invitations' : i.email = j.email /\ i.eco = j.eco /\ i.eco # 0 /\ i.org = j.org => i = j
      BY <1>1, <2>1, <2>4, <2>5 DEF EcoTyped
    <3> QED BY <1>1, <1>4, <2>1, <2>4, <3>1 DEF EcoTyped
  <2>7. EcoRequests(n)'
    <3>1. EcoGood(q)' /\ ~Founding(q)
      BY <1>3, <1>4, <2>3 DEF EcoGood, Founding
    <3>2. \A r \in pend' : r.op = "createInvitation" => r \in pend /\ r.id # req.id
      BY <1>1, <1>2, <2>2, <2>3 DEF EcoRequests
    <3> QED BY <1>1, <1>4, <2>1, <2>2, <2>3, <2>4, <3>1, <3>2, EcoRequestsKept DEF EcoTyped
  <2>8. InvitationsKnown'
    <3>1. \A j \in invitations' : j.id <= started' /\ j.eco \in ecosystems' \cup {0} /\ (j.eco = 0 => j.type = "ECOSYSTEM")
      BY <1>1, <1>2, <1>3, <1>4, <2>1, <2>4 DEF InvitationsKnown
    <3>2. \A i, j \in invitations' : i.id = j.id => i = j
      BY <1>1, <1>3, <2>1, <2>4 DEF InvitationsKnown
    <3> QED BY <3>1, <3>2 DEF InvitationsKnown
  <2>9. Led'
    BY <1>1, <1>4 DEF Led
  <2> QED BY <2>6, <2>7, <2>8, <2>9, EcoUnfolded DEF EcoIInv
<1> QED BY <1>5, <1>6

(* createEcosystemOrg(): a member, where the organization has no row.      *)
LEMMA EcoOrgKept ==
  ASSUME NEW o \in BOOLEAN, NEW n \in Nat, EcoIInv(o, n), NEW req \in pend, Ecosystems(o, n)!CreateEcosystemOrg(req)
  PROVE  EcoIInv(o, n)'
<1>1. EcoTyped(n) /\ EcoRequests(n) /\ InvitationsKnown /\ Led
  BY EcoUnfolded DEF EcoIInv
<1>2. /\ req \in EcoRequest(n) /\ req.op = "createOrg" /\ EcoGood(req)
      /\ req.eco \in 1..n /\ req.org \in EcosystemOrg /\ req.user \in User
      /\ req \in [op : {"createOrg", "readAccess"}, user : User, org : EcosystemOrg, eco : 1..n, role : {"member"}]
  BY <1>1, EcoRequestFields DEF EcoRequests, Ecosystems!CreateEcosystemOrg
<1>3. req.eco \in ecosystems
  BY <1>2 DEF EcoGood
<1>4. UNCHANGED <<ecosystems, invitations, access, faults, started>>
  BY DEF Ecosystems!CreateEcosystemOrg, Ecosystems!End, Ecosystems!Go, Ecosystems!Turn
<1>5. CASE \E r \in orgs : r.org = req.org /\ r.eco = req.eco
  <2>1. pend' = pend \ {req} /\ UNCHANGED orgs
    BY <1>5 DEF Ecosystems!CreateEcosystemOrg, Ecosystems!End
  <2> QED BY <1>1, <1>4, <2>1, EcoQuiet DEF EcoTyped
<1>6. CASE ~\E r \in orgs : r.org = req.org /\ r.eco = req.eco
  <2> DEFINE q == [req EXCEPT !.op = "readAccess"]
             row1 == [org |-> req.org, eco |-> req.eco, role |-> "member", status |-> "ACTIVE", by |-> req.user]
  <2>1. pend' = (pend \ {req}) \cup {q} /\ orgs' = orgs \cup {row1}
    BY <1>6 DEF Ecosystems!CreateEcosystemOrg, Ecosystems!Go, Ecosystems!Turn
  <2>2. q \in EcoRequest(n) /\ q.op = "readAccess"
    BY <1>2 DEF EcoRequest
  <2>3. row1 \in EcoRow(n) /\ row1.org = req.org /\ row1.eco = req.eco /\ row1.role = "member"
    BY <1>2 DEF EcoRow
  <2> HIDE DEF q, row1
  <2>4. EcoTyped(n)'
    <3>1. \A r, s \in orgs' : r.org = s.org /\ r.eco = s.eco => r = s
      BY <1>1, <1>6, <2>1, <2>3 DEF EcoTyped
    <3> QED BY <1>1, <1>3, <1>4, <2>1, <2>3, <3>1 DEF EcoTyped
  <2>5. EcoRequests(n)'
    <3>1. EcoGood(q)' /\ ~Founding(q)
      BY <2>2 DEF EcoGood, Founding
    <3> QED BY <1>1, <1>4, <2>1, <2>2, <3>1, EcoRequestsKept DEF EcoTyped
  <2>6. InvitationsKnown'
    BY <1>1, <1>4 DEF InvitationsKnown
  <2>7. Led'
    BY <1>1, <1>4, <2>1, <2>3 DEF Led
  <2> QED BY <2>4, <2>5, <2>6, <2>7, EcoUnfolded DEF EcoIInv
<1> QED BY <1>5, <1>6

LEMMA EcoHandlerKept ==
  ASSUME NEW o \in BOOLEAN, NEW n \in Nat, EcoIInv(o, n), NEW req \in pend, Ecosystems(o, n)!Handler(req)
  PROVE  EcoIInv(o, n)'
<1>1. EcoTyped(n) /\ EcoRequests(n) /\ InvitationsKnown /\ Led
  BY EcoUnfolded DEF EcoIInv
<1>2. /\ req \in EcoRequest(n) /\ EcoGood(req) /\ req.eco \in 1..n /\ req.org \in EcosystemOrg /\ req.user \in User
      /\ req.op \in {"readAccess", "putAccess"} => req.role \in {"lead", "member"}
      /\ req.op = "putAccess" => req.seen \in SUBSET EcoEntry(n)
      /\ req.op = "setStatus" => req.status \in {"ACCEPTED", "REJECTED"}
  BY <1>1, EcoRequestFields DEF EcoRequests
<1>3. CASE Ecosystems(o, n)!FindUnusedInvitation(req)
  <2>1. UNCHANGED <<ecosystems, invitations, orgs, access, faults, started>> /\ req.op = "findUnused"
    BY <1>3 DEF Ecosystems!FindUnusedInvitation, Ecosystems!End, Ecosystems!Turn
  <2>2. CASE pend' = pend \ {req}
    BY <1>1, <2>1, <2>2, EcoQuiet DEF EcoTyped
  <2>3. CASE pend' # pend \ {req}
    <3>1. PICK i \in invitations :
            pend' = (pend \ {req}) \cup {[op |-> "commit", eco |-> req.eco, user |-> req.user, org |-> req.org,
                                           role |-> "lead", used |-> i.id]}
      BY <1>3, <2>3 DEF Ecosystems!FindUnusedInvitation, Ecosystems!End, Ecosystems!Turn
    <3> DEFINE q == [op |-> "commit", eco |-> req.eco, user |-> req.user, org |-> req.org, role |-> "lead", used |-> i.id]
    <3>2. i.id \in 1..n
      BY <1>1 DEF EcoTyped, EcoInvitation
    <3>3. q \in EcoRequest(n) /\ q.op = "commit" /\ q.eco = req.eco
      BY <1>2, <3>2 DEF EcoRequest
    <3>4. pend' = (pend \ {req}) \cup {q}
      BY <3>1
    <3> HIDE DEF q
    <3>5. EcoGood(q) /\ Founding(q) /\ Founding(req) /\ q.op # "createInvitation"
      BY <1>2, <2>1, <3>3 DEF EcoGood, Founding
    <3>6. \E p \in EcoRequest(n) : /\ pend' = (pend \ {req}) \cup {p}
                                   /\ p.op # "createInvitation" /\ EcoGood(p)
                                   /\ Founding(p) => Founding(req) /\ p.eco = req.eco
      BY <3>3, <3>4, <3>5
    <3> QED BY <1>1, <2>1, <3>6, EcoQuiet DEF EcoTyped
  <2> QED BY <2>2, <2>3
<1>4. CASE Ecosystems(o, n)!CommitEcosystem(req)
  BY <1>4, EcoCommitKept
<1>5. CASE Ecosystems(o, n)!ReadAccess(req)
  <2>1. /\ UNCHANGED <<ecosystems, invitations, orgs, access, faults, started>> /\ req.op = "readAccess"
        /\ pend' = (pend \ {req}) \cup
             {[op |-> "putAccess", eco |-> req.eco, user |-> req.user, org |-> req.org, role |-> req.role,
               seen |-> access[req.user]]}
    BY <1>5 DEF Ecosystems!ReadAccess, Ecosystems!Turn
  <2>2. PICK seen \in SUBSET EcoEntry(n) : seen = access[req.user]
    BY <1>1, <1>2 DEF EcoTyped
  <2> DEFINE q == [op |-> "putAccess", eco |-> req.eco, user |-> req.user, org |-> req.org, role |-> req.role,
                   seen |-> seen]
  <2>3. q \in EcoRequest(n) /\ q.op = "putAccess"
    BY <1>2, <2>1 DEF EcoRequest
  <2>4. pend' = (pend \ {req}) \cup {q}
    BY <2>1, <2>2
  <2> HIDE DEF q
  <2>5. EcoGood(q) /\ ~Founding(q) /\ q.op # "createInvitation"
    BY <2>3 DEF EcoGood, Founding
  <2>6. \E p \in EcoRequest(n) : /\ pend' = (pend \ {req}) \cup {p}
                                 /\ p.op # "createInvitation" /\ EcoGood(p)
                                 /\ Founding(p) => Founding(req) /\ p.eco = req.eco
    BY <2>3, <2>4, <2>5
  <2> QED BY <1>1, <2>1, <2>6, EcoQuiet DEF EcoTyped
<1>6. CASE Ecosystems(o, n)!PutAccess(req)
  <2>1. /\ UNCHANGED <<ecosystems, invitations, orgs, faults, started>> /\ req.op = "putAccess" /\ pend' = pend \ {req}
        /\ access' = [access EXCEPT ![req.user] = req.seen \cup {<<req.org, req.eco, req.role>>}]
    BY <1>6 DEF Ecosystems!PutAccess, Ecosystems!End
  <2>2. req.seen \cup {<<req.org, req.eco, req.role>>} \in SUBSET EcoEntry(n)
    BY <1>2, <2>1 DEF EcoEntry
  <2>3. access' \in [User -> SUBSET EcoEntry(n)]
    BY <1>1, <1>2, <2>1, <2>2 DEF EcoTyped
  <2> QED BY <1>1, <2>1, <2>3, EcoQuiet DEF EcoTyped
<1>7. CASE Ecosystems(o, n)!CreateEcosystemInvitation(req)
  BY <1>7, EcoInvitationKept
<1>8. CASE Ecosystems(o, n)!ReopenInvitation(req)
  <2>1. /\ UNCHANGED <<ecosystems, orgs, access, faults, started>> /\ pend' = pend \ {req}
        /\ StatusSet(req.user, req.eco, req.org, "PENDING")
    BY <1>8 DEF Ecosystems!ReopenInvitation, Ecosystems!End, Ecosystems!SetStatus, Ecosystems!Invited, StatusSet
  <2> QED BY <2>1, EcoStatusKept
<1>9. CASE Ecosystems(o, n)!UpdateEcosystemInvitationStatusByEmail(req)
  <2> DEFINE q == [op |-> "createOrg", user |-> req.user, org |-> req.org, eco |-> req.eco, role |-> "member"]
  <2>1. /\ UNCHANGED <<ecosystems, orgs, access, faults, started>> /\ req.op = "setStatus"
        /\ pend' = pend \ {req} \/ pend' = (pend \ {req}) \cup {q}
        /\ StatusSet(req.user, req.eco, req.org, req.status)
    BY <1>9 DEF Ecosystems!UpdateEcosystemInvitationStatusByEmail, Ecosystems!End, Ecosystems!Turn,
                Ecosystems!SetStatus, Ecosystems!Invited, StatusSet
  <2>2. q \in EcoRequest(n) /\ q.op = "createOrg" /\ q.eco \in ecosystems
    BY <1>2, <2>1 DEF EcoRequest, EcoGood
  <2> HIDE DEF q
  <2>3. req.status \in {"ACCEPTED", "PENDING", "REJECTED"}
    BY <1>2, <2>1
  <2>4. \/ pend' = pend \ {req}
        \/ \E p \in EcoRequest(n) : /\ pend' = (pend \ {req}) \cup {p}
                                    /\ p.op = "createOrg" /\ p.eco \in ecosystems
    BY <2>1, <2>2
  <2> QED BY <2>1, <2>3, <2>4, EcoStatusKept
<1>10. CASE Ecosystems(o, n)!CreateEcosystemOrg(req)
  BY <1>10, EcoOrgKept
<1>11. CASE Ecosystems(o, n)!Fails(req)
  <2>1. /\ UNCHANGED <<ecosystems, invitations, orgs, access, started>> /\ pend' = pend \ {req} /\ faults' \in 0..Faults
    BY <1>1, <1>11, EcoConstants DEF Ecosystems!Fails, Ecosystems!End, EcoTyped
  <2> QED BY <1>1, <2>1, EcoQuiet DEF EcoTyped
<1> QED BY <1>3, <1>4, <1>5, <1>6, <1>7, <1>8, <1>9, <1>10, <1>11 DEF Ecosystems!Handler

(* A request that comes in; it may take the next id, and no table changes. *)
LEMMA EcoNew ==
  ASSUME NEW o \in BOOLEAN, NEW n \in Nat, EcoIInv(o, n), NEW req, Ecosystems(o, n)!Request(req),
         UNCHANGED <<ecosystems, invitations, orgs, access, faults>>, req \in EcoRequest(n),
         Founding(req) => req.eco = started + 1,
         req.op = "createInvitation" => req.id = started + 1,
         req.op \in {"createInvitation", "reopen", "setStatus", "createOrg"} => req.eco \in ecosystems
  PROVE  EcoIInv(o, n)'
<1>1. EcoTyped(n) /\ EcoRequests(n) /\ InvitationsKnown /\ Led
  BY EcoUnfolded DEF EcoIInv
<1>2. started' = started + 1 /\ started < n /\ pend' = pend \cup {req} /\ started \in Nat
  BY <1>1 DEF Ecosystems!Request, EcoTyped
<1>3. EcoTyped(n)'
  BY <1>1, <1>2 DEF EcoTyped
<1>4. EcoRequests(n)'
  <2>1. started + 1 \notin ecosystems /\ \A i \in invitations : i.id # started + 1
    BY <1>1, <1>2 DEF InvitationsKnown, Led
  <2>2. EcoGood(req)'
    <3>1. Founding(req)' => Founding(req)
      BY DEF Founding
    <3> QED BY <1>2, <2>1, <3>1 DEF EcoGood
  <2>3. \A r \in pend : /\ Founding(r) => r.eco # started + 1
                        /\ r.op = "createInvitation" => r.id # started + 1
    <3>1. \A r \in pend : r \in EcoRequest(n) /\ EcoGood(r)
      BY <1>1 DEF EcoRequests
    <3> QED BY <1>2, <3>1 DEF EcoGood
  <2>4. \A r, q \in pend' : Founding(r) /\ Founding(q) /\ r.eco = q.eco /\ r # q => r \in pend /\ q \in pend
    BY <1>2, <2>3
  <2>5. \A r, q \in pend' : r.op = "createInvitation" /\ q.op = "createInvitation" /\ r.id = q.id /\ r # q =>
           r \in pend /\ q \in pend
    BY <1>2, <2>3
  <2> QED BY <1>1, <1>2, <2>2, <2>4, <2>5, EcoRequestsKept DEF EcoTyped
<1>5. InvitationsKnown' /\ Led'
  <2>1. \A i \in invitations : i.id <= started'
    BY <1>1, <1>2 DEF InvitationsKnown, EcoTyped, EcoInvitation
  <2>2. \A e \in ecosystems : e <= started'
    BY <1>1, <1>2 DEF Led, EcoTyped
  <2> QED BY <1>1, <2>1, <2>2 DEF InvitationsKnown, Led
<1> QED BY <1>3, <1>4, <1>5, EcoUnfolded DEF EcoIInv

LEMMA EcoInitial ==
  ASSUME NEW o \in BOOLEAN, NEW n \in Nat, Ecosystems(o, n)!Init
  PROVE  EcoIInv(o, n)
<1>1. EcoTyped(n)
  BY EcoConstants DEF Ecosystems!Init, EcoTyped
<1>2. EcoRequests(n) /\ InvitationsKnown /\ Led
  BY DEF Ecosystems!Init, EcoRequests, InvitationsKnown, Led
<1> QED BY <1>1, <1>2, EcoUnfolded DEF EcoIInv

(* A step, whatever overlaps. *)
LEMMA EcoStep ==
  ASSUME NEW o \in BOOLEAN, NEW n \in Nat, EcoIInv(o, n), Ecosystems(o, n)!Next
  PROVE  EcoIInv(o, n)'
<1>1. EcoTyped(n) /\ EcoRequests(n) /\ InvitationsKnown /\ Led
  BY EcoUnfolded DEF EcoIInv
<1>2. started \in Nat /\ started + 1 \in Nat /\ (started < n => started + 1 \in 1..n)
  BY <1>1 DEF EcoTyped
<1>3. ASSUME NEW req \in pend, Ecosystems(o, n)!Handler(req)
      PROVE  EcoIInv(o, n)'
  BY <1>3, EcoHandlerKept
<1>4. ASSUME NEW u \in User, Ecosystems(o, n)!InviteUserToCreateEcosystem(u)
      PROVE  EcoIInv(o, n)'
  <2> DEFINE i0 == [id |-> started + 1, email |-> u, type |-> "ECOSYSTEM", status |-> "ACCEPTED", eco |-> 0, org |-> "none"]
  <2>1. /\ started < n /\ started' = started + 1 /\ UNCHANGED <<ecosystems, orgs, access, pend, faults>>
        /\ invitations' = invitations \cup {i0}
    BY <1>4 DEF Ecosystems!InviteUserToCreateEcosystem, Ecosystems!None
  <2>2. i0 \in EcoInvitation(n) /\ i0.id = started + 1 /\ i0.eco = 0 /\ i0.type = "ECOSYSTEM"
    BY <1>2, <2>1 DEF EcoInvitation
  <2> HIDE DEF i0
  <2>3. EcoTyped(n)'
    <3>1. \A i, j \in invitations' : i.email = j.email /\ i.eco = j.eco /\ i.eco # 0 /\ i.org = j.org => i = j
      BY <1>1, <2>1, <2>2 DEF EcoTyped
    <3> QED BY <1>1, <2>1, <2>2, <3>1 DEF EcoTyped
  <2>4. \A i \in invitations : i.id # started + 1 /\ i.id <= started + 1
    BY <1>1, <1>2 DEF InvitationsKnown, EcoTyped, EcoInvitation
  <2>5. EcoRequests(n)'
    <3>1. \A r \in pend : r.op = "createInvitation" => r.id # started + 1
      <4>1. \A r \in pend : r \in EcoRequest(n) /\ EcoGood(r)
        BY <1>1 DEF EcoRequests
      <4> QED BY <1>2, <4>1 DEF EcoGood
    <3> QED BY <1>1, <1>2, <2>1, <2>2, <3>1, EcoRequestsKept DEF EcoTyped
  <2>6. InvitationsKnown'
    <3>1. \A i, j \in invitations' : i.id = j.id => i = j
      BY <1>1, <2>1, <2>2, <2>4 DEF InvitationsKnown
    <3>2. \A j \in invitations' : j.id <= started' /\ j.eco \in ecosystems' \cup {0} /\ (j.eco = 0 => j.type = "ECOSYSTEM")
      BY <1>1, <1>2, <2>1, <2>2, <2>4 DEF InvitationsKnown
    <3> QED BY <3>1, <3>2 DEF InvitationsKnown
  <2>7. Led'
    <3>1. \A e \in ecosystems : e <= started'
      BY <1>1, <1>2, <2>1 DEF Led, EcoTyped
    <3> QED BY <1>1, <2>1, <3>1 DEF Led
  <2> QED BY <2>3, <2>5, <2>6, <2>7, EcoUnfolded DEF EcoIInv
<1>5. ASSUME NEW u \in User, NEW g \in EcosystemOrg, Ecosystems(o, n)!CreateEcosystem(u, g)
      PROVE  EcoIInv(o, n)'
  <2>1. started < n /\ UNCHANGED <<ecosystems, invitations, orgs, access, faults>>
    BY <1>5 DEF Ecosystems!CreateEcosystem, Ecosystems!Request
  <2>2. PICK k \in 1..n : k = started + 1
    BY <1>2, <2>1
  <2> DEFINE q == [op |-> "findUnused", eco |-> k, user |-> u, org |-> g, role |-> "lead"]
  <2>3. Ecosystems(o, n)!Request(q)
    BY <1>5, <2>2 DEF Ecosystems!CreateEcosystem
  <2>4. q \in EcoRequest(n) /\ q.eco = k /\ q.op = "findUnused"
    BY DEF EcoRequest
  <2> HIDE DEF q
  <2> QED BY <2>1, <2>2, <2>3, <2>4, EcoNew
<1>6. ASSUME NEW u \in User, NEW g \in EcosystemOrg, NEW e \in ecosystems, Ecosystems(o, n)!InviteMemberToEcosystem(u, g, e)
      PROVE  EcoIInv(o, n)'
  <2>1. started < n /\ UNCHANGED <<ecosystems, invitations, orgs, access, faults>>
    BY <1>6 DEF Ecosystems!InviteMemberToEcosystem, Ecosystems!Request
  <2>2. PICK k \in 1..n, x \in 1..n : k = started + 1 /\ x = e
    BY <1>1, <1>2, <2>1 DEF EcoTyped
  <2>3. PICK op \in {"createInvitation", "reopen"} :
          Ecosystems(o, n)!Request([op |-> op, id |-> k, user |-> OrgCreator[g], by |-> u, org |-> g, eco |-> x])
    BY <1>6, <2>2 DEF Ecosystems!InviteMemberToEcosystem
  <2> DEFINE q == [op |-> op, id |-> k, user |-> OrgCreator[g], by |-> u, org |-> g, eco |-> x]
  <2>4. OrgCreator[g] \in User
    BY EcoConstants
  <2>5. q \in EcoRequest(n) /\ q.eco = x /\ q.id = k /\ q.op = op
    BY <2>4 DEF EcoRequest
  <2>6. Ecosystems(o, n)!Request(q)
    BY <2>3
  <2> HIDE DEF q
  <2>7. ~Founding(q)
    BY <2>5 DEF Founding
  <2> QED BY <2>1, <2>2, <2>5, <2>6, <2>7, EcoNew
<1>7. ASSUME NEW u \in User, NEW g \in EcosystemOrg, NEW e \in ecosystems, NEW s \in {"ACCEPTED", "REJECTED"},
             Ecosystems(o, n)!UpdateEcosystemInvitationStatus(u, e, g, s)
      PROVE  EcoIInv(o, n)'
  <2>1. UNCHANGED <<ecosystems, invitations, orgs, access, faults>>
    BY <1>7 DEF Ecosystems!UpdateEcosystemInvitationStatus
  <2>2. PICK x \in 1..n : x = e
    BY <1>1 DEF EcoTyped
  <2> DEFINE q == [op |-> "setStatus", user |-> u, org |-> g, eco |-> x, status |-> s]
  <2>3. Ecosystems(o, n)!Request(q)
    BY <1>7, <2>2 DEF Ecosystems!UpdateEcosystemInvitationStatus
  <2>4. q \in EcoRequest(n) /\ q.eco = x /\ q.op = "setStatus"
    BY DEF EcoRequest
  <2> HIDE DEF q
  <2>5. ~Founding(q)
    BY <2>4 DEF Founding
  <2> QED BY <2>1, <2>2, <2>3, <2>4, <2>5, EcoNew
<1>8. ASSUME NEW g \in EcosystemOrg, NEW e \in ecosystems, Ecosystems(o, n)!DeleteOrgsFromEcosystem(e, g)
      PROVE  EcoIInv(o, n)'
  <2>1. /\ started < n /\ started' = started + 1 /\ UNCHANGED <<ecosystems, access, pend, faults>>
        /\ orgs' = {r \in orgs : ~(r.eco = e /\ r.org = g /\ r.role = "member")}
        /\ invitations' \subseteq invitations
    BY <1>8 DEF Ecosystems!DeleteOrgsFromEcosystem
  <2>2. EcoTyped(n)'
    BY <1>1, <2>1 DEF EcoTyped
  <2>3. EcoRequests(n)'
    BY <1>1, <1>2, <2>1, EcoRequestsKept DEF EcoTyped
  <2>4. InvitationsKnown'
    <3>1. \A i \in invitations : i.id <= started'
      BY <1>1, <2>1 DEF InvitationsKnown, EcoTyped, EcoInvitation
    <3> QED BY <1>1, <2>1, <3>1 DEF InvitationsKnown
  <2>5. Led'
    <3>1. \A x \in ecosystems : x <= started'
      BY <1>1, <1>2, <2>1 DEF Led, EcoTyped
    <3>2. \A x \in ecosystems : \E r \in orgs' : r.eco = x /\ r.role = "lead"
      BY <1>1, <2>1 DEF Led
    <3> QED BY <1>1, <2>1, <3>1, <3>2 DEF Led
  <2> QED BY <2>2, <2>3, <2>4, <2>5, EcoUnfolded DEF EcoIInv
<1>9. ASSUME NEW g \in EcosystemOrg, NEW e \in ecosystems, NEW s \in {"ACTIVE", "SUSPENDED"},
             Ecosystems(o, n)!UpdateEcosystemOrgStatus(e, g, s)
      PROVE  EcoIInv(o, n)'
  <2> DEFINE F(r) == IF r.eco = e /\ r.org = g THEN [r EXCEPT !.status = s] ELSE r
  <2>1. /\ started < n /\ started' = started + 1 /\ UNCHANGED <<ecosystems, invitations, access, pend, faults>>
        /\ orgs' = {F(r) : r \in orgs}
    BY <1>9 DEF Ecosystems!UpdateEcosystemOrgStatus
  <2>2. ASSUME NEW r \in orgs
        PROVE  F(r) \in EcoRow(n) /\ F(r).org = r.org /\ F(r).eco = r.eco /\ F(r).role = r.role
    <3>1. r \in EcoRow(n)
      BY <1>1 DEF EcoTyped
    <3> QED BY <3>1 DEF EcoRow
  <2> HIDE DEF F
  <2>3. EcoTyped(n)'
    <3>1. orgs' \subseteq EcoRow(n)
      BY <2>1, <2>2
    <3>2. \A r, t \in orgs' : r.org = t.org /\ r.eco = t.eco => r = t
      BY <1>1, <2>1, <2>2 DEF EcoTyped
    <3>3. \A r \in orgs' : r.eco \in ecosystems'
      BY <1>1, <2>1, <2>2 DEF EcoTyped
    <3> QED BY <1>1, <2>1, <3>1, <3>2, <3>3 DEF EcoTyped
  <2>4. EcoRequests(n)'
    BY <1>1, <1>2, <2>1, EcoRequestsKept DEF EcoTyped
  <2>5. InvitationsKnown'
    <3>1. \A i \in invitations : i.id <= started'
      BY <1>1, <2>1 DEF InvitationsKnown, EcoTyped, EcoInvitation
    <3> QED BY <1>1, <2>1, <3>1 DEF InvitationsKnown
  <2>6. Led'
    <3>1. \A x \in ecosystems : x <= started'
      BY <1>1, <1>2, <2>1 DEF Led, EcoTyped
    <3>2. \A x \in ecosystems : \E r \in orgs' : r.eco = x /\ r.role = "lead"
      BY <1>1, <2>1, <2>2 DEF Led
    <3>3. \A r, t \in orgs' : r.eco = t.eco /\ r.role = "lead" /\ t.role = "lead" => r = t
      BY <1>1, <2>1, <2>2 DEF Led
    <3> QED BY <2>1, <3>1, <3>2, <3>3 DEF Led
  <2> QED BY <2>3, <2>4, <2>5, <2>6, EcoUnfolded DEF EcoIInv
<1> QED BY <1>3, <1>4, <1>5, <1>6, <1>7, <1>8, <1>9 DEF Ecosystems!Next

LEMMA EcoCardinality ==
  ASSUME NEW o, NEW n, NEW S
  PROVE  Ecosystems(o, n)!Cardinality(S) = Cardinality(S)
BY DEF Cardinality, Ecosystems!Cardinality

LEMMA EcoLed ==
  ASSUME NEW o \in BOOLEAN, NEW n \in Nat, EcoIInv(o, n)
  PROVE  Ecosystems(o, n)!EveryEcosystemIsLed
<1> SUFFICES ASSUME NEW e \in ecosystems
             PROVE  Cardinality({r \in orgs : r.eco = e /\ r.role = "lead"}) = 1
  BY EcoCardinality DEF Ecosystems!EveryEcosystemIsLed
<1>1. PICK r \in orgs : r.eco = e /\ r.role = "lead"
  BY DEF EcoIInv, Led
<1>2. {s \in orgs : s.eco = e /\ s.role = "lead"} = {r}
  BY <1>1 DEF EcoIInv, Led
<1> QED BY <1>2, FS_Singleton

-----------------------------------------------------------------------------
(* ecosystem, one request at a time.  Only one handler is under way, and   *)
(* what it found when it began still holds when it writes.                 *)
Accepted(g, e) == \E i \in invitations : i.eco = e /\ i.org = g /\ i.status = "ACCEPTED"
Alone == \A r, q \in pend : r = q
MembersAccepted ==
  /\ \A r \in orgs : r.role = "member" => Accepted(r.org, r.eco)
  /\ \A r \in pend : r.op = "createOrg" => Accepted(r.org, r.eco)
AnswersOpen ==
  \A r \in pend : r.op = "reopen" \/ (r.op = "setStatus" /\ r.status # "ACCEPTED") =>
    \A i \in invitations : i.email = r.user /\ i.eco = r.eco /\ i.org = r.org => i.status # "ACCEPTED"
InvitationUnused == \A r \in pend : r.op = "commit" => \E i \in invitations : i.id = r.used /\ i.eco = 0
EcosystemsInvited == \A e \in ecosystems : \E i \in invitations : i.type = "ECOSYSTEM" /\ i.eco = e

(* The role of a row is in Keycloak, or on its way there. *)
SeenIsAccess == \A r \in pend : r.op = "putAccess" => r.seen = access[r.user]
Reached(r) ==
  \/ <<r.org, r.eco, r.role>> \in access[r.by]
  \/ \E q \in pend : /\ q.op \in {"readAccess", "putAccess"}
                     /\ q.user = r.by /\ q.org = r.org /\ q.eco = r.eco /\ q.role = r.role
RolesReached == faults = 0 => \A r \in orgs : Reached(r)

EcoTurns(n) ==
  /\ EcoIInv(FALSE, n) /\ Alone
  /\ MembersAccepted /\ AnswersOpen /\ InvitationUnused /\ EcosystemsInvited /\ SeenIsAccess /\ RolesReached

LEMMA EcoTurnsInitial ==
  ASSUME NEW n \in Nat, Ecosystems(FALSE, n)!Init
  PROVE  EcoTurns(n)
<1>1. EcoIInv(FALSE, n)
  BY EcoInitial
<1> QED BY <1>1 DEF Ecosystems!Init, EcoTurns, Alone, MembersAccepted, AnswersOpen, InvitationUnused, EcosystemsInvited,
               SeenIsAccess, RolesReached

(* A step that leaves the tables alone: what is new is the request.        *)
LEMMA EcoTurnsQuiet ==
  ASSUME NEW n \in Nat, EcoTurns(n), EcoIInv(FALSE, n)',
         UNCHANGED <<ecosystems, invitations, orgs, access>>,
         faults' = faults \/ (faults' # 0 /\ pend' = {}),
         pend' = {} \/ \E q : /\ pend' = {q}
                              /\ q.op = "createOrg" => Accepted(q.org, q.eco)
                              /\ q.op = "reopen" \/ (q.op = "setStatus" /\ q.status # "ACCEPTED") =>
                                   \A i \in invitations : i.email = q.user /\ i.eco = q.eco /\ i.org = q.org =>
                                     i.status # "ACCEPTED"
                              /\ q.op = "commit" => \E i \in invitations : i.id = q.used /\ i.eco = 0
                              /\ q.op = "putAccess" => q.seen = access[q.user],
         faults' = 0 => \A r \in orgs : Reached(r) => Reached(r)'
  PROVE  EcoTurns(n)'
<1>1. Alone' /\ AnswersOpen' /\ InvitationUnused' /\ SeenIsAccess'
  BY DEF Alone, AnswersOpen, InvitationUnused, SeenIsAccess
<1>2. MembersAccepted'
  BY DEF EcoTurns, MembersAccepted, Accepted
<1>3. EcosystemsInvited'
  BY DEF EcoTurns, EcosystemsInvited
<1>4. RolesReached'
  BY DEF EcoTurns, RolesReached
<1> QED BY <1>1, <1>2, <1>3, <1>4 DEF EcoTurns

(* The handler is the only one, and ends or goes on.                       *)
LEMMA EcoAlone ==
  ASSUME NEW n \in Nat, EcoTurns(n), NEW req \in pend
  PROVE  /\ pend = {req} /\ pend \ {req} = {} /\ \A q : (pend \ {req}) \cup {q} = {q}
         /\ faults = 0 /\ req.op \notin {"readAccess", "putAccess"} =>
              \A r \in orgs : <<r.org, r.eco, r.role>> \in access[r.by]
BY DEF EcoTurns, Alone, RolesReached, Reached

LEMMA EcoTurnsCommit ==
  ASSUME NEW n \in Nat, EcoTurns(n), EcoIInv(FALSE, n)', NEW req \in pend, Ecosystems(FALSE, n)!CommitEcosystem(req)
  PROVE  EcoTurns(n)'
<1>1. EcoTyped(n) /\ EcoRequests(n) /\ InvitationsKnown /\ EcoIInv(FALSE, n)
  BY EcoUnfolded DEF EcoIInv, EcoTurns
<1>2. /\ req \in EcoRequest(n) /\ req.op = "commit" /\ EcoGood(req)
      /\ req \in [op : {"commit", "readAccess"}, eco : 1..n, user : User, org : EcosystemOrg, role : {"lead"}, used : 1..n]
  BY <1>1, EcoRequestFields DEF EcoRequests, Ecosystems!CommitEcosystem
<1> DEFINE q == [req EXCEPT !.op = "readAccess"]
           row1 == [org |-> req.org, eco |-> req.eco, role |-> "lead", status |-> "ACTIVE", by |-> req.user]
<1>3. /\ pend' = (pend \ {req}) \cup {q} /\ ecosystems' = ecosystems \cup {req.eco} /\ orgs' = orgs \cup {row1}
      /\ UNCHANGED <<access, faults>>
  BY DEF Ecosystems!CommitEcosystem, Ecosystems!Go, Ecosystems!Turn
<1>4. q.op = "readAccess" /\ q.user = req.user /\ q.org = req.org /\ q.eco = req.eco /\ q.role = "lead"
  BY <1>2
<1>5. row1.role = "lead" /\ row1.eco = req.eco /\ row1.org = req.org /\ row1.by = req.user
  OBVIOUS
<1> HIDE DEF q, row1
<1>6. pend' = {q} /\ (faults = 0 => \A r \in orgs : <<r.org, r.eco, r.role>> \in access[r.by])
  BY <1>2, <1>3, EcoAlone
<1>7. \A i \in invitations : \E j \in invitations' :
              /\ j.type = i.type /\ j.status = i.status
              /\ i.id # req.used => j = i
              /\ i.id = req.used => j.eco = req.eco /\ j.org = req.org
  BY <1>1, EcoCommitted
<1>8. PICK i0 \in invitations : i0.id = req.used /\ i0.eco = 0
  BY <1>2 DEF EcoTurns, InvitationUnused
<1>9. i0.type = "ECOSYSTEM" /\ \A i \in invitations : i.id = req.used => i = i0
  BY <1>1, <1>8 DEF InvitationsKnown
<1>10. \A r \in orgs : r.eco # 0
  BY <1>1 DEF EcoTyped, EcoRow
<1>11. ASSUME NEW e \in ecosystems' \ {req.eco}
       PROVE  \E i \in invitations' : i.type = "ECOSYSTEM" /\ i.eco = e
  <2>1. PICK i \in invitations : i.type = "ECOSYSTEM" /\ i.eco = e
    BY <1>3, <1>11 DEF EcoTurns, EcosystemsInvited
  <2>2. e # 0
    BY <1>1, <1>3 DEF EcoTyped
  <2>3. i.id # req.used
    BY <1>8, <1>9, <2>1, <2>2
  <2> QED BY <1>7, <2>1, <2>3
<1>12. \E i \in invitations' : i.type = "ECOSYSTEM" /\ i.eco = req.eco
  BY <1>7, <1>8, <1>9
<1>13. EcosystemsInvited'
  BY <1>11, <1>12 DEF EcosystemsInvited
<1>14. \A r \in orgs : r.role = "member" => Accepted(r.org, r.eco)'
  <2> SUFFICES ASSUME NEW r \in orgs, r.role = "member"
               PROVE  \E i \in invitations' : i.eco = r.eco /\ i.org = r.org /\ i.status = "ACCEPTED"
    BY DEF Accepted
  <2>1. PICK i \in invitations : i.eco = r.eco /\ i.org = r.org /\ i.status = "ACCEPTED"
    BY DEF EcoTurns, MembersAccepted, Accepted
  <2>2. i.id # req.used
    BY <1>8, <1>9, <1>10, <2>1
  <2> QED BY <1>7, <2>1, <2>2
<1>15. MembersAccepted'
  BY <1>3, <1>4, <1>5, <1>6, <1>14 DEF MembersAccepted
<1>16. Alone' /\ AnswersOpen' /\ InvitationUnused' /\ SeenIsAccess'
  BY <1>4, <1>6 DEF Alone, AnswersOpen, InvitationUnused, SeenIsAccess
<1>17. RolesReached'
  BY <1>3, <1>4, <1>5, <1>6 DEF RolesReached, Reached
<1> QED BY <1>13, <1>15, <1>16, <1>17 DEF EcoTurns

LEMMA EcoTurnsPutAccess ==
  ASSUME NEW n \in Nat, EcoTurns(n), EcoIInv(FALSE, n)', NEW req \in pend, Ecosystems(FALSE, n)!PutAccess(req)
  PROVE  EcoTurns(n)'
<1>1. EcoTyped(n) /\ EcoRequests(n)
  BY EcoUnfolded DEF EcoIInv, EcoTurns
<1>2. req.op = "putAccess" /\ req.user \in User /\ req.seen = access[req.user] /\ access \in [User -> SUBSET EcoEntry(n)]
  BY <1>1, EcoRequestFields DEF EcoTyped, EcoRequests, Ecosystems!PutAccess, EcoTurns, SeenIsAccess
<1>3. /\ UNCHANGED <<ecosystems, invitations, orgs, faults>> /\ pend' = {} /\ pend = {req}
      /\ access' = [access EXCEPT ![req.user] = req.seen \cup {<<req.org, req.eco, req.role>>}]
  BY EcoAlone DEF Ecosystems!PutAccess, Ecosystems!End
<1>4. \A r \in orgs : r.by \in User
  BY <1>1 DEF EcoTyped, EcoRow
<1>5. ASSUME faults = 0, NEW r \in orgs
      PROVE  <<r.org, r.eco, r.role>> \in access'[r.by]
  <2>1. Reached(r)
    BY <1>5 DEF EcoTurns, RolesReached
  <2>2. access[r.by] \subseteq access'[r.by]
    BY <1>2, <1>3, <1>4
  <2>3. <<req.org, req.eco, req.role>> \in access'[req.user]
    BY <1>2, <1>3
  <2> QED BY <1>3, <2>1, <2>2, <2>3 DEF Reached
<1>6. RolesReached'
  BY <1>3, <1>5 DEF RolesReached, Reached
<1>7. Alone' /\ AnswersOpen' /\ InvitationUnused' /\ SeenIsAccess'
  BY <1>3 DEF Alone, AnswersOpen, InvitationUnused, SeenIsAccess
<1>8. MembersAccepted' /\ EcosystemsInvited'
  BY <1>3 DEF EcoTurns, MembersAccepted, Accepted, EcosystemsInvited
<1> QED BY <1>6, <1>7, <1>8 DEF EcoTurns

LEMMA EcoTurnsOrg ==
  ASSUME NEW n \in Nat, EcoTurns(n), EcoIInv(FALSE, n)', NEW req \in pend, Ecosystems(FALSE, n)!CreateEcosystemOrg(req)
  PROVE  EcoTurns(n)'
<1>1. EcoTyped(n) /\ EcoRequests(n)
  BY EcoUnfolded DEF EcoIInv, EcoTurns
<1>2. /\ req.op = "createOrg" /\ Accepted(req.org, req.eco)
      /\ req \in [op : {"createOrg", "readAccess"}, user : User, org : EcosystemOrg, eco : 1..n, role : {"member"}]
  BY <1>1, EcoRequestFields DEF EcoRequests, Ecosystems!CreateEcosystemOrg, EcoTurns, MembersAccepted
<1>3. faults = 0 => \A r \in orgs : <<r.org, r.eco, r.role>> \in access[r.by]
  BY <1>2, EcoAlone
<1>4. UNCHANGED <<ecosystems, invitations, access, faults>>
  BY DEF Ecosystems!CreateEcosystemOrg
<1>5. CASE \E r \in orgs : r.org = req.org /\ r.eco = req.eco
  <2>1. pend' = {} /\ UNCHANGED orgs
    BY <1>5, EcoAlone DEF Ecosystems!CreateEcosystemOrg, Ecosystems!End
  <2> QED BY <1>3, <1>4, <2>1, EcoTurnsQuiet DEF Reached
<1>6. CASE ~\E r \in orgs : r.org = req.org /\ r.eco = req.eco
  <2> DEFINE q == [req EXCEPT !.op = "readAccess"]
             row1 == [org |-> req.org, eco |-> req.eco, role |-> "member", status |-> "ACTIVE", by |-> req.user]
  <2>1. pend' = (pend \ {req}) \cup {q} /\ orgs' = orgs \cup {row1}
    BY <1>6 DEF Ecosystems!CreateEcosystemOrg, Ecosystems!Go, Ecosystems!Turn
  <2>2. q.op = "readAccess" /\ q.user = req.user /\ q.org = req.org /\ q.eco = req.eco /\ q.role = "member"
    BY <1>2
  <2>3. row1.role = "member" /\ row1.eco = req.eco /\ row1.org = req.org /\ row1.by = req.user
    OBVIOUS
  <2> HIDE DEF q, row1
  <2>4. pend' = {q}
    BY <2>1, EcoAlone
  <2>5. MembersAccepted'
    BY <1>2, <1>4, <2>1, <2>2, <2>3, <2>4 DEF EcoTurns, MembersAccepted, Accepted
  <2>6. RolesReached'
    BY <1>3, <1>4, <2>1, <2>2, <2>3, <2>4 DEF RolesReached, Reached
  <2>7. Alone' /\ AnswersOpen' /\ InvitationUnused' /\ SeenIsAccess'
    BY <2>2, <2>4 DEF Alone, AnswersOpen, InvitationUnused, SeenIsAccess
  <2>8. EcosystemsInvited'
    BY <1>4 DEF EcoTurns, EcosystemsInvited
  <2> QED BY <2>5, <2>6, <2>7, <2>8 DEF EcoTurns
<1> QED BY <1>5, <1>6

LEMMA EcoTurnsInvitation ==
  ASSUME NEW n \in Nat, EcoTurns(n), EcoIInv(FALSE, n)', NEW req \in pend,
         Ecosystems(FALSE, n)!CreateEcosystemInvitation(req)
  PROVE  EcoTurns(n)'
<1>1. req.op = "createInvitation" /\ UNCHANGED <<ecosystems, orgs, access, faults>>
  BY DEF Ecosystems!CreateEcosystemInvitation
<1>2. faults = 0 => \A r \in orgs : <<r.org, r.eco, r.role>> \in access[r.by]
  BY <1>1, EcoAlone
<1>3. invitations \subseteq invitations'
  BY DEF Ecosystems!CreateEcosystemInvitation
<1> DEFINE q == [op |-> "setStatus", user |-> req.user, org |-> req.org, eco |-> req.eco, status |-> "ACCEPTED"]
<1>4. pend' = pend \ {req} \/ pend' = (pend \ {req}) \cup {q}
  BY DEF Ecosystems!CreateEcosystemInvitation, Ecosystems!End, Ecosystems!Turn
<1>5. q.op = "setStatus" /\ q.status = "ACCEPTED"
  OBVIOUS
<1> HIDE DEF q
<1>6. pend' = {} \/ pend' = {q}
  BY <1>4, EcoAlone
<1>7. MembersAccepted'
  BY <1>1, <1>3, <1>5, <1>6 DEF EcoTurns, MembersAccepted, Accepted
<1>8. EcosystemsInvited'
  BY <1>1, <1>3 DEF EcoTurns, EcosystemsInvited
<1>9. Alone' /\ AnswersOpen' /\ InvitationUnused' /\ SeenIsAccess'
  BY <1>5, <1>6 DEF Alone, AnswersOpen, InvitationUnused, SeenIsAccess
<1>10. RolesReached'
  BY <1>1, <1>2 DEF RolesReached, Reached
<1> QED BY <1>7, <1>8, <1>9, <1>10 DEF EcoTurns

(* The answer, or a second invitation, changes no invitation that was      *)
(* accepted.                                                               *)
LEMMA EcoTurnsStatus ==
  ASSUME NEW n \in Nat, EcoTurns(n), EcoIInv(FALSE, n)', NEW req \in pend,
         req.op \in {"reopen", "setStatus"},
         NEW s \in {"ACCEPTED", "PENDING", "REJECTED"},
         s = IF req.op = "reopen" THEN "PENDING" ELSE req.status,
         StatusSet(req.user, req.eco, req.org, s),
         UNCHANGED <<ecosystems, orgs, access, faults>>,
         \/ pend' = {}
         \/ \E q : pend' = {q} /\ q.op = "createOrg"
                 /\ \E i \in invitations' : i.eco = q.eco /\ i.org = q.org /\ i.status = "ACCEPTED"
  PROVE  EcoTurns(n)'
<1>1. EcoTyped(n) /\ InvitationsKnown
  BY EcoUnfolded DEF EcoTurns, EcoIInv
<1>2. \A i \in invitations : \E j \in invitations' :
        /\ SameInvitation(j, i)
        /\ j.status = IF i.email = req.user /\ i.eco = req.eco /\ i.org = req.org THEN s ELSE i.status
  BY <1>1, EcoStatusSet
<1>3. \A i \in invitations : i.status = "ACCEPTED" =>
        \E j \in invitations' : SameInvitation(j, i) /\ j.status = "ACCEPTED"
  <2>1. s # "ACCEPTED" => \A i \in invitations : i.email = req.user /\ i.eco = req.eco /\ i.org = req.org =>
                            i.status # "ACCEPTED"
    BY DEF EcoTurns, AnswersOpen
  <2> QED BY <1>2, <2>1
<1>4. \A r \in orgs : r.role = "member" => Accepted(r.org, r.eco)'
  <2> SUFFICES ASSUME NEW r \in orgs, r.role = "member"
               PROVE  \E i \in invitations' : i.eco = r.eco /\ i.org = r.org /\ i.status = "ACCEPTED"
    BY DEF Accepted
  <2>1. PICK i \in invitations : i.eco = r.eco /\ i.org = r.org /\ i.status = "ACCEPTED"
    BY DEF EcoTurns, MembersAccepted, Accepted
  <2> QED BY <1>3, <2>1 DEF SameInvitation
<1>5. MembersAccepted'
  BY <1>4 DEF MembersAccepted, Accepted
<1>6. EcosystemsInvited'
  <2>1. \A i \in invitations : \E j \in invitations' : SameInvitation(j, i)
    BY <1>2
  <2> QED BY <2>1 DEF EcoTurns, EcosystemsInvited, SameInvitation
<1>7. Alone' /\ AnswersOpen' /\ InvitationUnused' /\ SeenIsAccess'
  BY DEF Alone, AnswersOpen, InvitationUnused, SeenIsAccess
<1>8. faults = 0 => \A r \in orgs : <<r.org, r.eco, r.role>> \in access[r.by]
  BY EcoAlone
<1>9. RolesReached'
  BY <1>8 DEF RolesReached, Reached
<1> QED BY <1>5, <1>6, <1>7, <1>9 DEF EcoTurns

LEMMA EcoTurnsHandler ==
  ASSUME NEW n \in Nat, EcoTurns(n), EcoIInv(FALSE, n)', NEW req \in pend, Ecosystems(FALSE, n)!Handler(req)
  PROVE  EcoTurns(n)'
<1>1. EcoTyped(n) /\ EcoRequests(n)
  BY EcoUnfolded DEF EcoIInv, EcoTurns
<1>2. /\ pend = {req} /\ pend \ {req} = {} /\ \A q : (pend \ {req}) \cup {q} = {q}
      /\ faults = 0 /\ req.op \notin {"readAccess", "putAccess"} =>
              \A r \in orgs : <<r.org, r.eco, r.role>> \in access[r.by]
  BY EcoAlone
<1>3. CASE Ecosystems(FALSE, n)!FindUnusedInvitation(req)
  <2>1. UNCHANGED <<ecosystems, invitations, orgs, access, faults>> /\ req.op = "findUnused"
    BY <1>3 DEF Ecosystems!FindUnusedInvitation
  <2>2. \A r \in orgs : faults' = 0 => Reached(r)'
    BY <1>2, <2>1 DEF Reached
  <2>3. CASE pend' = pend \ {req}
    BY <1>2, <2>1, <2>2, <2>3, EcoTurnsQuiet
  <2>4. CASE pend' # pend \ {req}
    <3>1. PICK i \in invitations :
            /\ i.eco = 0
            /\ pend' = (pend \ {req}) \cup {[op |-> "commit", eco |-> req.eco, user |-> req.user, org |-> req.org,
                                              role |-> "lead", used |-> i.id]}
      BY <1>3, <2>4 DEF Ecosystems!FindUnusedInvitation, Ecosystems!End, Ecosystems!Turn
    <3> DEFINE q == [op |-> "commit", eco |-> req.eco, user |-> req.user, org |-> req.org, role |-> "lead", used |-> i.id]
    <3>2. pend' = {q} /\ q.op = "commit" /\ q.used = i.id
      BY <1>2, <3>1
    <3> HIDE DEF q
    <3> QED BY <2>1, <2>2, <3>1, <3>2, EcoTurnsQuiet
  <2> QED BY <2>3, <2>4
<1>4. CASE Ecosystems(FALSE, n)!CommitEcosystem(req)
  BY <1>4, EcoTurnsCommit
<1>5. CASE Ecosystems(FALSE, n)!ReadAccess(req)
  <2> DEFINE q == [op |-> "putAccess", eco |-> req.eco, user |-> req.user, org |-> req.org, role |-> req.role,
                   seen |-> access[req.user]]
  <2>1. /\ UNCHANGED <<ecosystems, invitations, orgs, access, faults>> /\ pend' = {q}
    BY <1>2, <1>5 DEF Ecosystems!ReadAccess, Ecosystems!Turn
  <2>2. /\ q.op = "putAccess" /\ q.eco = req.eco /\ q.user = req.user /\ q.org = req.org /\ q.role = req.role
        /\ q.seen = access[req.user]
    OBVIOUS
  <2> HIDE DEF q
  <2>3. \A r \in orgs : Reached(r) => Reached(r)'
    BY <1>2, <2>1, <2>2 DEF Reached
  <2>4. \E p : /\ pend' = {p} /\ p.op = "putAccess" /\ p.seen = access[p.user]
    BY <2>1, <2>2
  <2> QED BY <2>1, <2>3, <2>4, EcoTurnsQuiet
<1>6. CASE Ecosystems(FALSE, n)!PutAccess(req)
  BY <1>6, EcoTurnsPutAccess
<1>7. CASE Ecosystems(FALSE, n)!CreateEcosystemInvitation(req)
  BY <1>7, EcoTurnsInvitation
<1>8. CASE Ecosystems(FALSE, n)!ReopenInvitation(req)
  <2>1. /\ UNCHANGED <<ecosystems, orgs, access, faults>> /\ pend' = {} /\ req.op = "reopen"
        /\ StatusSet(req.user, req.eco, req.org, "PENDING")
    BY <1>2, <1>8 DEF Ecosystems!ReopenInvitation, Ecosystems!End, Ecosystems!SetStatus, Ecosystems!Invited, StatusSet
  <2> QED BY <2>1, EcoTurnsStatus
<1>9. CASE Ecosystems(FALSE, n)!UpdateEcosystemInvitationStatusByEmail(req)
  <2> DEFINE q == [op |-> "createOrg", user |-> req.user, org |-> req.org, eco |-> req.eco, role |-> "member"]
  <2>1. /\ UNCHANGED <<ecosystems, orgs, access, faults>> /\ req.op = "setStatus"
        /\ \/ pend' = {}
           \/ /\ pend' = {q} /\ req.status = "ACCEPTED"
              /\ \E i \in invitations : i.email = req.user /\ i.eco = req.eco /\ i.org = req.org
        /\ StatusSet(req.user, req.eco, req.org, req.status)
    BY <1>2, <1>9 DEF Ecosystems!UpdateEcosystemInvitationStatusByEmail, Ecosystems!End, Ecosystems!Turn,
                Ecosystems!SetStatus, Ecosystems!Invited, StatusSet
  <2>2. q.op = "createOrg" /\ q.eco = req.eco /\ q.org = req.org
    OBVIOUS
  <2> HIDE DEF q
  <2>3. req.status \in {"ACCEPTED", "PENDING", "REJECTED"}
    BY <1>1, <2>1, EcoRequestFields DEF EcoRequests
  <2>4. InvitationsKnown
    BY DEF EcoTurns, EcoIInv
  <2>5. ASSUME pend' = {q}, req.status = "ACCEPTED",
               NEW i \in invitations, i.email = req.user, i.eco = req.eco, i.org = req.org
        PROVE  \E j \in invitations' : j.eco = q.eco /\ j.org = q.org /\ j.status = "ACCEPTED"
    <3>1. \A x \in invitations : \E j \in invitations' :
            /\ SameInvitation(j, x)
            /\ j.status = IF x.email = req.user /\ x.eco = req.eco /\ x.org = req.org THEN req.status ELSE x.status
      <4>1. PICK t \in {"ACCEPTED", "PENDING", "REJECTED"} : t = req.status
        BY <2>3
      <4>2. StatusSet(req.user, req.eco, req.org, t)
        BY <2>1, <4>1
      <4>3. \A x \in invitations : \E j \in invitations' :
              /\ SameInvitation(j, x)
              /\ j.status = IF x.email = req.user /\ x.eco = req.eco /\ x.org = req.org THEN t ELSE x.status
        BY <1>1, <2>4, <4>2, EcoStatusSet
      <4> QED BY <4>1, <4>3
    <3> QED BY <2>2, <2>5, <3>1 DEF SameInvitation
  <2>6. \/ pend' = {}
        \/ \E p : pend' = {p} /\ p.op = "createOrg"
                  /\ \E j \in invitations' : j.eco = p.eco /\ j.org = p.org /\ j.status = "ACCEPTED"
    BY <2>1, <2>2, <2>5
  <2> QED BY <2>1, <2>3, <2>6, EcoTurnsStatus
<1>10. CASE Ecosystems(FALSE, n)!CreateEcosystemOrg(req)
  BY <1>10, EcoTurnsOrg
<1>11. CASE Ecosystems(FALSE, n)!Fails(req)
  <2>1. UNCHANGED <<ecosystems, invitations, orgs, access>> /\ pend' = {} /\ faults' # 0
    BY <1>1, <1>2, <1>11 DEF Ecosystems!Fails, Ecosystems!End, EcoTyped
  <2> QED BY <2>1, EcoTurnsQuiet
<1> QED BY <1>3, <1>4, <1>5, <1>6, <1>7, <1>8, <1>9, <1>10, <1>11 DEF Ecosystems!Handler

(* A request that comes in, with what it found. *)
LEMMA EcoTurnsNew ==
  ASSUME NEW n \in Nat, EcoTurns(n), EcoIInv(FALSE, n)', NEW req, Ecosystems(FALSE, n)!Request(req),
         UNCHANGED <<ecosystems, invitations, orgs, access, faults>>,
         req.op \notin {"commit", "createOrg", "readAccess", "putAccess"},
         req.op = "reopen" \/ (req.op = "setStatus" /\ req.status # "ACCEPTED") =>
           \A i \in invitations : i.email = req.user /\ i.eco = req.eco /\ i.org = req.org => i.status # "ACCEPTED"
  PROVE  EcoTurns(n)'
<1>1. pend = {} /\ pend' = {req}
  BY DEF Ecosystems!Request
<1>2. \A r \in orgs : Reached(r) => Reached(r)'
  BY <1>1 DEF Reached
<1> QED BY <1>1, <1>2, EcoTurnsQuiet

(* A step, one request at a time. *)
LEMMA EcoTurnsStep ==
  ASSUME NEW n \in Nat, EcoTurns(n), Ecosystems(FALSE, n)!Next
  PROVE  EcoTurns(n)'
<1>1. EcoIInv(FALSE, n) /\ EcoTyped(n)
  BY EcoUnfolded DEF EcoIInv, EcoTurns
<1>2. EcoIInv(FALSE, n)'
  BY <1>1, EcoStep
<1>3. ASSUME NEW req \in pend, Ecosystems(FALSE, n)!Handler(req)
      PROVE  EcoTurns(n)'
  BY <1>2, <1>3, EcoTurnsHandler
<1>4. ASSUME NEW u \in User, Ecosystems(FALSE, n)!InviteUserToCreateEcosystem(u)
      PROVE  EcoTurns(n)'
  <2>1. pend = {} /\ invitations \subseteq invitations' /\ UNCHANGED <<ecosystems, orgs, access, pend, faults>>
    BY <1>4 DEF Ecosystems!InviteUserToCreateEcosystem
  <2>2. MembersAccepted' /\ EcosystemsInvited'
    BY <2>1 DEF EcoTurns, MembersAccepted, Accepted, EcosystemsInvited
  <2>3. Alone' /\ AnswersOpen' /\ InvitationUnused' /\ SeenIsAccess'
    BY <2>1 DEF Alone, AnswersOpen, InvitationUnused, SeenIsAccess
  <2>4. RolesReached'
    BY <2>1 DEF EcoTurns, RolesReached, Reached
  <2> QED BY <1>2, <2>2, <2>3, <2>4 DEF EcoTurns
<1>5. ASSUME NEW u \in User, NEW g \in EcosystemOrg, Ecosystems(FALSE, n)!CreateEcosystem(u, g)
      PROVE  EcoTurns(n)'
  <2>1. PICK k : k = started + 1
    OBVIOUS
  <2> DEFINE q == [op |-> "findUnused", eco |-> k, user |-> u, org |-> g, role |-> "lead"]
  <2>2. Ecosystems(FALSE, n)!Request(q) /\ UNCHANGED <<ecosystems, invitations, orgs, access, faults>>
    BY <1>5, <2>1 DEF Ecosystems!CreateEcosystem
  <2>3. q.op = "findUnused"
    OBVIOUS
  <2> HIDE DEF q
  <2> QED BY <1>2, <2>2, <2>3, EcoTurnsNew
<1>6. ASSUME NEW u \in User, NEW g \in EcosystemOrg, NEW e \in ecosystems,
             Ecosystems(FALSE, n)!InviteMemberToEcosystem(u, g, e)
      PROVE  EcoTurns(n)'
  <2>1. PICK op, k, x : /\ op \in {"createInvitation", "reopen"} /\ x = e
                        /\ Ecosystems(FALSE, n)!Request([op |-> op, id |-> k, user |-> OrgCreator[g], by |-> u,
                                                         org |-> g, eco |-> x])
    BY <1>6 DEF Ecosystems!InviteMemberToEcosystem
  <2>2. /\ UNCHANGED <<ecosystems, invitations, orgs, access, faults>>
        /\ \A i \in invitations : i.email = OrgCreator[g] /\ i.eco = e /\ i.org = g => i.status = "REJECTED"
    BY <1>6 DEF Ecosystems!InviteMemberToEcosystem, Ecosystems!Invited
  <2> DEFINE q == [op |-> op, id |-> k, user |-> OrgCreator[g], by |-> u, org |-> g, eco |-> x]
  <2>3. Ecosystems(FALSE, n)!Request(q)
    BY <2>1
  <2>4. q.op = op /\ q.user = OrgCreator[g] /\ q.eco = x /\ q.org = g
    OBVIOUS
  <2> HIDE DEF q
  <2> QED BY <1>2, <2>1, <2>2, <2>3, <2>4, EcoTurnsNew
<1>7. ASSUME NEW u \in User, NEW g \in EcosystemOrg, NEW e \in ecosystems, NEW s \in {"ACCEPTED", "REJECTED"},
             Ecosystems(FALSE, n)!UpdateEcosystemInvitationStatus(u, e, g, s)
      PROVE  EcoTurns(n)'
  <2>1. PICK x : x = e
    OBVIOUS
  <2> DEFINE q == [op |-> "setStatus", user |-> u, org |-> g, eco |-> x, status |-> s]
  <2>2. Ecosystems(FALSE, n)!Request(q) /\ UNCHANGED <<ecosystems, invitations, orgs, access, faults>>
    BY <1>7, <2>1 DEF Ecosystems!UpdateEcosystemInvitationStatus
  <2>3. q.op = "setStatus" /\ q.user = u /\ q.eco = x /\ q.org = g
    OBVIOUS
  <2>4. PICK i \in invitations : i.email = u /\ i.eco = e /\ i.org = g /\ i.status # "ACCEPTED"
    BY <1>7 DEF Ecosystems!UpdateEcosystemInvitationStatus, Ecosystems!Invited
  <2>5. e # 0 /\ \A j \in invitations : j.email = u /\ j.eco = e /\ j.org = g => j = i
    BY <1>1, <2>4 DEF EcoTyped
  <2> HIDE DEF q
  <2> QED BY <1>2, <2>1, <2>2, <2>3, <2>4, <2>5, EcoTurnsNew
<1>8. ASSUME NEW g \in EcosystemOrg, NEW e \in ecosystems, Ecosystems(FALSE, n)!DeleteOrgsFromEcosystem(e, g)
      PROVE  EcoTurns(n)'
  <2>1. /\ pend = {} /\ UNCHANGED <<ecosystems, access, pend, faults>>
        /\ orgs' = {r \in orgs : ~(r.eco = e /\ r.org = g /\ r.role = "member")}
        /\ invitations' = {i \in invitations : ~(i.eco = e /\ i.type = "MEMBER" /\ i.org = g)}
    BY <1>8 DEF Ecosystems!DeleteOrgsFromEcosystem
  <2>2. EcosystemsInvited'
    BY <2>1 DEF EcoTurns, EcosystemsInvited
  <2>3. MembersAccepted'
    BY <2>1 DEF EcoTurns, MembersAccepted, Accepted
  <2>4. Alone' /\ AnswersOpen' /\ InvitationUnused' /\ SeenIsAccess'
    BY <2>1 DEF Alone, AnswersOpen, InvitationUnused, SeenIsAccess
  <2>5. RolesReached'
    BY <2>1 DEF EcoTurns, RolesReached, Reached
  <2> QED BY <1>2, <2>2, <2>3, <2>4, <2>5 DEF EcoTurns
<1>9. ASSUME NEW g \in EcosystemOrg, NEW e \in ecosystems, NEW s \in {"ACTIVE", "SUSPENDED"},
             Ecosystems(FALSE, n)!UpdateEcosystemOrgStatus(e, g, s)
      PROVE  EcoTurns(n)'
  <2> DEFINE F(r) == IF r.eco = e /\ r.org = g THEN [r EXCEPT !.status = s] ELSE r
  <2>1. /\ pend = {} /\ UNCHANGED <<ecosystems, invitations, access, pend, faults>>
        /\ orgs' = {F(r) : r \in orgs}
    BY <1>9 DEF Ecosystems!UpdateEcosystemOrgStatus
  <2>2. ASSUME NEW r \in orgs
        PROVE  F(r).by = r.by /\ F(r).org = r.org /\ F(r).eco = r.eco /\ F(r).role = r.role
    <3>1. r \in EcoRow(n)
      BY <1>1 DEF EcoTyped
    <3> QED BY <3>1 DEF EcoRow
  <2> HIDE DEF F
  <2>3. MembersAccepted'
    BY <2>1, <2>2 DEF EcoTurns, MembersAccepted, Accepted
  <2>4. EcosystemsInvited'
    BY <2>1 DEF EcoTurns, EcosystemsInvited
  <2>5. Alone' /\ AnswersOpen' /\ InvitationUnused' /\ SeenIsAccess'
    BY <2>1 DEF Alone, AnswersOpen, InvitationUnused, SeenIsAccess
  <2>6. RolesReached'
    <3>1. faults = 0 => \A r \in orgs : <<r.org, r.eco, r.role>> \in access[r.by]
      BY <2>1 DEF EcoTurns, RolesReached, Reached
    <3>2. faults = 0 => \A r \in orgs' : <<r.org, r.eco, r.role>> \in access[r.by]
      BY <2>1, <2>2, <3>1
    <3> QED BY <2>1, <3>2 DEF RolesReached, Reached
  <2> QED BY <1>2, <2>3, <2>4, <2>5, <2>6 DEF EcoTurns
<1> QED BY <1>3, <1>4, <1>5, <1>6, <1>7, <1>8, <1>9 DEF Ecosystems!Next

(* What the invariant says between requests. *)
LEMMA EcoTurnsMeans ==
  ASSUME NEW n \in Nat, EcoTurns(n)
  PROVE  /\ Ecosystems(FALSE, n)!TypeOK /\ Ecosystems(FALSE, n)!EveryEcosystemIsLed
         /\ Ecosystems(FALSE, n)!MemberIsInvited /\ Ecosystems(FALSE, n)!RolesAreInAccess
         /\ Ecosystems(FALSE, n)!EcosystemIsInvited
<1>1. EcoIInv(FALSE, n)
  BY DEF EcoTurns
<1>2. Ecosystems(FALSE, n)!TypeOK /\ Ecosystems(FALSE, n)!EveryEcosystemIsLed
  BY <1>1, EcoLed DEF EcoIInv
<1>3. Ecosystems(FALSE, n)!MemberIsInvited
  BY DEF EcoTurns, MembersAccepted, Accepted, Ecosystems!MemberIsInvited
<1>4. Ecosystems(FALSE, n)!RolesAreInAccess
  BY DEF EcoTurns, RolesReached, Reached, Ecosystems!RolesAreInAccess
<1>5. Ecosystems(FALSE, n)!EcosystemIsInvited
  BY DEF EcoTurns, EcosystemsInvited, Ecosystems!EcosystemIsInvited
<1> QED BY <1>2, <1>3, <1>4, <1>5

-----------------------------------------------------------------------------
(* ecosystem: intents, their templates and notices.                        *)

IntentRow(n) == [id : 1..n, eco : Ecosystem, name : IntentName, under : Ecosystem]
TemplateRow(n) == [id : 1..n, intent : 1..n, org : IntentOrg \cup {"all"}, template : Template]
NoticeRow(n) == [id : 1..n, intent : 1..n, org : IntentOrg \cup {"all"}]
IntentRequest(n) ==
  [op : {"createIntent", "updateIntent"}, id : 1..n, eco : Ecosystem, name : IntentName]
    \cup [op : {"template"}, id : 1..n, intent : 1..n, org : IntentOrg \cup {"all"}, template : Template]
    \cup [op : {"notice"}, id : 1..n, intent : 1..n, org : IntentOrg \cup {"all"}]

(* The state, with the definitions of the module put out of the way. *)
IntentsTyped(n) ==
  /\ intents \subseteq IntentRow(n) /\ templates \subseteq TemplateRow(n) /\ notices \subseteq NoticeRow(n)
  /\ member \in [Ecosystem -> [IntentOrg -> {"none", "ACTIVE", "SUSPENDED"}]] /\ organisations \subseteq IntentOrg
  /\ \A t \in templates \cup notices : (\E r \in intents : r.id = t.intent) /\ t.org \in organisations \cup {"all"}
  /\ \A t, s \in templates : t.intent = s.intent /\ t.org = s.org /\ t.template = s.template => t = s
  /\ \A e \in Ecosystem, g \in IntentOrg : member[e][g] # "none" => g \in organisations
  /\ started \in 0..n

LEMMA IntentsUnfolded ==
  ASSUME NEW o \in BOOLEAN, NEW n \in Nat
  PROVE  (Intents(o, n)!TypeOK <=> IntentsTyped(n)) /\ (Intents(o, n)!TypeOK' <=> IntentsTyped(n)')
BY DEF Intents!TypeOK, IntentsTyped, Intents!Intent, IntentRow, Intents!Assignment, TemplateRow, Intents!Notice, NoticeRow,
       Intents!Id, Intents!All, Intents!Known

IntentsIInv(o, n) == Intents(o, n)!TypeOK /\ pend \subseteq IntentRequest(n)

LEMMA IntentsConstants ==
  /\ "all" \notin IntentOrg /\ Requests.intents \in Nat /\ Requests.intentsInTurn \in Nat
BY TenancyAssumption DEF TenancyAssumption, Intents!IntentsAssumption, Intents!All

LEMMA IntentRequestFields ==
  ASSUME NEW n \in Nat, NEW r \in IntentRequest(n)
  PROVE  /\ r.id \in 1..n
         /\ r.op \in {"createIntent", "updateIntent"} => r.eco \in Ecosystem /\ r.name \in IntentName
         /\ r.op \in {"template", "notice"} => r.intent \in 1..n /\ r.org \in IntentOrg \cup {"all"}
         /\ r.op = "template" => r.template \in Template
BY DEF IntentRequest

LEMMA IntentsInitial ==
  ASSUME NEW o \in BOOLEAN, NEW n \in Nat, Intents(o, n)!Init
  PROVE  IntentsIInv(o, n)
<1>1. IntentsTyped(n)
  <2>1. /\ intents = {} /\ templates = {} /\ notices = {} /\ started = 0 /\ organisations = IntentOrg
        /\ member = [e \in Ecosystem |-> [g \in IntentOrg |-> "ACTIVE"]]
    BY DEF Intents!Init
  <2> QED BY <2>1 DEF IntentsTyped
<1> QED BY <1>1, IntentsUnfolded DEF Intents!Init, IntentsIInv

(* A request that comes in, and one that ends without a write. *)
LEMMA IntentsQuiet ==
  ASSUME NEW o \in BOOLEAN, NEW n \in Nat, IntentsIInv(o, n),
         UNCHANGED <<intents, templates, notices, member, organisations>>, started' \in 0..n,
         pend' \subseteq IntentRequest(n)
  PROVE  IntentsIInv(o, n)'
<1>1. IntentsTyped(n)
  BY IntentsUnfolded DEF IntentsIInv
<1>2. IntentsTyped(n)'
  BY <1>1 DEF IntentsTyped
<1> QED BY <1>2, IntentsUnfolded DEF IntentsIInv

(* createIntent(), updateIntent(): every id stays. *)
LEMMA IntentsWritten ==
  ASSUME NEW o \in BOOLEAN, NEW n \in Nat, IntentsIInv(o, n), NEW req \in pend, Intents(o, n)!WriteIntent(req)
  PROVE  /\ intents' \subseteq IntentRow(n) /\ \A r \in intents : \E s \in intents' : s.id = r.id
         /\ req.op = "createIntent" =>
              \E s \in intents' : /\ s.id = req.id /\ s.eco = req.eco /\ s.name = req.name /\ s.under = req.eco
                                  /\ intents' = intents \cup {s}
         /\ req.op # "createIntent" =>
              \A s \in intents' : \E r \in intents :
                /\ s.id = r.id /\ s.eco = r.eco
                /\ r.id = req.id => s.name = req.name /\ s.under = req.eco
                /\ r.id # req.id => s = r
         /\ req.op # "createIntent" /\ (\A r, s \in intents : r.id = s.id => r = s) =>
              \A r, s \in intents' : r.id = s.id => r = s
<1>1. IntentsTyped(n) /\ req \in IntentRequest(n) /\ req.op \in {"createIntent", "updateIntent"}
  BY IntentsUnfolded DEF IntentsIInv, Intents!WriteIntent
<1>2. req.id \in 1..n /\ req.eco \in Ecosystem /\ req.name \in IntentName
  BY <1>1, IntentRequestFields
<1>3. CASE req.op = "createIntent"
  <2> DEFINE s == [id |-> req.id, eco |-> req.eco, name |-> req.name, under |-> req.eco]
  <2>1. intents' = intents \cup {s}
    BY <1>3 DEF Intents!WriteIntent
  <2>2. s \in IntentRow(n) /\ s.id = req.id /\ s.eco = req.eco /\ s.name = req.name /\ s.under = req.eco
    BY <1>2 DEF IntentRow
  <2> HIDE DEF s
  <2> QED BY <1>1, <1>3, <2>1, <2>2 DEF IntentsTyped
<1>4. CASE req.op # "createIntent"
  <2> DEFINE F(r) == IF r.id = req.id THEN [r EXCEPT !.name = req.name, !.under = req.eco] ELSE r
  <2>1. intents' = {F(r) : r \in intents}
    BY <1>4 DEF Intents!WriteIntent
  <2>2. ASSUME NEW r \in intents
        PROVE  /\ F(r) \in IntentRow(n) /\ F(r).id = r.id /\ F(r).eco = r.eco
               /\ r.id = req.id => F(r).name = req.name /\ F(r).under = req.eco
               /\ r.id # req.id => F(r) = r
    <3>1. r \in IntentRow(n)
      BY <1>1 DEF IntentsTyped
    <3> QED BY <1>2, <3>1 DEF IntentRow
  <2> HIDE DEF F
  <2>3. intents' \subseteq IntentRow(n) /\ \A r \in intents : \E s \in intents' : s.id = r.id
    BY <2>1, <2>2
  <2>4. \A s \in intents' : \E r \in intents :
                /\ s = F(r) /\ s.id = r.id /\ s.eco = r.eco
                /\ r.id = req.id => s.name = req.name /\ s.under = req.eco
                /\ r.id # req.id => s = r
    BY <2>1, <2>2
  <2>5. (\A r, s \in intents : r.id = s.id => r = s) => \A r, s \in intents' : r.id = s.id => r = s
    BY <2>4
  <2> QED BY <1>4, <2>3, <2>4, <2>5
<1> QED BY <1>3, <1>4

(* The rows that lose their organization when it is deleted. *)
LEMMA IntentsOrgDeleted ==
  ASSUME NEW o \in BOOLEAN, NEW n \in Nat, IntentsIInv(o, n), NEW g \in IntentOrg, Intents(o, n)!DeleteOrg(g)
  PROVE  IntentsIInv(o, n)'
<1>1. IntentsTyped(n) /\ pend \subseteq IntentRequest(n)
  BY IntentsUnfolded DEF IntentsIInv
<1> DEFINE F(r) == IF r.org = g THEN [r EXCEPT !.org = "all"] ELSE r
<1>2. /\ \A e \in Ecosystem : member[e][g] = "none"
      /\ \A r \in templates : r.org = g =>
           ~\E t \in templates : t.intent = r.intent /\ t.org = "all" /\ t.template = r.template
      /\ templates' = {F(r) : r \in templates} /\ notices' = {F(r) : r \in notices}
      /\ organisations' = organisations \ {g} /\ UNCHANGED <<intents, member, pend>>
      /\ started < n /\ started' = started + 1
  BY DEF Intents!DeleteOrg, Intents!Free, Intents!Assigned, Intents!All
<1>3. ASSUME NEW r \in templates
      PROVE  /\ F(r) \in TemplateRow(n) /\ F(r).intent = r.intent /\ F(r).template = r.template
             /\ F(r).org = IF r.org = g THEN "all" ELSE r.org
             /\ r.org # g => F(r) = r
  <2>1. r \in TemplateRow(n)
    BY <1>1 DEF IntentsTyped
  <2> QED BY <2>1 DEF TemplateRow
<1>4. ASSUME NEW r \in notices
      PROVE  F(r) \in NoticeRow(n) /\ F(r).intent = r.intent /\ F(r).org = IF r.org = g THEN "all" ELSE r.org
  <2>1. r \in NoticeRow(n)
    BY <1>1 DEF IntentsTyped
  <2> QED BY <2>1 DEF NoticeRow
<1> HIDE DEF F
<1>5. templates' \subseteq TemplateRow(n) /\ notices' \subseteq NoticeRow(n)
  BY <1>2, <1>3, <1>4
<1>6. \A t \in templates' \cup notices' :
        (\E r \in intents' : r.id = t.intent) /\ t.org \in organisations' \cup {"all"}
  <2> SUFFICES ASSUME NEW t \in templates' \cup notices'
               PROVE  (\E r \in intents : r.id = t.intent) /\ t.org \in (organisations \ {g}) \cup {"all"}
    BY <1>2
  <2>1. PICK r \in templates \cup notices : t.intent = r.intent /\ t.org = IF r.org = g THEN "all" ELSE r.org
    BY <1>2, <1>3, <1>4
  <2>2. (\E x \in intents : x.id = r.intent) /\ r.org \in organisations \cup {"all"}
    BY <1>1 DEF IntentsTyped
  <2> QED BY <2>1, <2>2
<1>7. \A t, s \in templates' : t.intent = s.intent /\ t.org = s.org /\ t.template = s.template => t = s
  <2> SUFFICES ASSUME NEW t \in templates', NEW s \in templates', t.intent = s.intent, t.org = s.org,
                      t.template = s.template
               PROVE  t = s
    OBVIOUS
  <2>1. PICK x \in templates : t = F(x)
    BY <1>2
  <2>2. PICK y \in templates : s = F(y)
    BY <1>2
  <2>3. x.intent = y.intent /\ x.template = y.template
    BY <1>3, <2>1, <2>2
  <2>4. x.org = y.org
    BY <1>2, <1>3, <2>1, <2>2, <2>3
  <2>5. x = y
    BY <1>1, <2>3, <2>4 DEF IntentsTyped
  <2> QED BY <2>1, <2>2, <2>5
<1>8. \A e \in Ecosystem, h \in IntentOrg : member'[e][h] # "none" => h \in organisations'
  BY <1>1, <1>2 DEF IntentsTyped
<1>9. IntentsTyped(n)'
  BY <1>1, <1>2, <1>5, <1>6, <1>7, <1>8 DEF IntentsTyped
<1> QED BY <1>1, <1>2, <1>9, IntentsUnfolded DEF IntentsIInv

(* A step, whatever overlaps. *)
LEMMA IntentsStep ==
  ASSUME NEW o \in BOOLEAN, NEW n \in Nat, IntentsIInv(o, n), Intents(o, n)!Next
  PROVE  IntentsIInv(o, n)'
<1>1. IntentsTyped(n) /\ pend \subseteq IntentRequest(n)
  BY IntentsUnfolded DEF IntentsIInv
<1>2. Intents(o, n)!Free => started' \in 0..n /\ started < n /\ started + 1 \in 1..n /\ started' = started + 1
  BY <1>1 DEF IntentsTyped, Intents!Free
<1>3. ASSUME NEW req \in pend, Intents(o, n)!WriteIntent(req)
      PROVE  IntentsIInv(o, n)'
  <2>1. intents' \subseteq IntentRow(n) /\ \A r \in intents : \E s \in intents' : s.id = r.id
    BY <1>3, IntentsWritten
  <2>2. UNCHANGED <<templates, notices, member, organisations, started>> /\ pend' \subseteq pend
    BY <1>3 DEF Intents!WriteIntent, Intents!End
  <2>3. IntentsTyped(n)'
    <3>1. \A t \in templates \cup notices : \E s \in intents' : s.id = t.intent
      BY <1>1, <2>1 DEF IntentsTyped
    <3> QED BY <1>1, <2>1, <2>2, <3>1 DEF IntentsTyped
  <2> QED BY <1>1, <2>2, <2>3, IntentsUnfolded DEF IntentsIInv
<1>4. ASSUME NEW req \in pend, Intents(o, n)!WriteTemplate(req)
      PROVE  IntentsIInv(o, n)'
  <2>1. UNCHANGED <<intents, notices, member, organisations, started>> /\ pend' \subseteq pend /\ req.op = "template"
    BY <1>4 DEF Intents!WriteTemplate, Intents!End
  <2>2. /\ req.id \in 1..n /\ req.intent \in 1..n /\ req.org \in IntentOrg \cup {"all"} /\ req.template \in Template
    BY <1>1, <2>1, IntentRequestFields
  <2>3. CASE UNCHANGED templates
    BY <1>1, <2>1, <2>3, IntentsQuiet DEF IntentsTyped
  <2>4. CASE templates' # templates
    <3> DEFINE t0 == [id |-> req.id, intent |-> req.intent, org |-> req.org, template |-> req.template]
    <3>1. /\ \E r \in intents : r.id = req.intent
          /\ req.org \in organisations \cup {"all"}
          /\ \A r \in templates : r.intent = req.intent /\ r.org = req.org /\ r.template = req.template => r.id = req.id
          /\ templates' = {r \in templates : r.id # req.id} \cup {t0}
      BY <1>4, <2>4 DEF Intents!WriteTemplate, Intents!Known, Intents!All, Intents!Assigned
    <3>2. t0 \in TemplateRow(n) /\ t0.intent = req.intent /\ t0.org = req.org /\ t0.template = req.template
      BY <2>2 DEF TemplateRow
    <3> HIDE DEF t0
    <3>3. \A t, s \in templates' : t.intent = s.intent /\ t.org = s.org /\ t.template = s.template => t = s
      BY <1>1, <3>1, <3>2 DEF IntentsTyped
    <3>4. \A t \in templates' \cup notices' :
            (\E r \in intents' : r.id = t.intent) /\ t.org \in organisations' \cup {"all"}
      BY <1>1, <2>1, <3>1, <3>2 DEF IntentsTyped
    <3>5. IntentsTyped(n)'
      BY <1>1, <2>1, <3>1, <3>2, <3>3, <3>4 DEF IntentsTyped
    <3> QED BY <1>1, <2>1, <3>5, IntentsUnfolded DEF IntentsIInv
  <2> QED BY <2>3, <2>4
<1>5. ASSUME NEW req \in pend, Intents(o, n)!WriteNotice(req)
      PROVE  IntentsIInv(o, n)'
  <2>1. UNCHANGED <<intents, templates, member, organisations, started>> /\ pend' \subseteq pend /\ req.op = "notice"
    BY <1>5 DEF Intents!WriteNotice, Intents!End
  <2>2. req.id \in 1..n /\ req.intent \in 1..n /\ req.org \in IntentOrg \cup {"all"}
    BY <1>1, <2>1, IntentRequestFields
  <2>3. CASE UNCHANGED notices
    BY <1>1, <2>1, <2>3, IntentsQuiet DEF IntentsTyped
  <2>4. CASE notices' # notices
    <3> DEFINE t0 == [id |-> req.id, intent |-> req.intent, org |-> req.org]
    <3>1. /\ \E r \in intents : r.id = req.intent
          /\ req.org \in organisations \cup {"all"}
          /\ notices' = notices \cup {t0}
      BY <1>5, <2>4 DEF Intents!WriteNotice, Intents!Known, Intents!All
    <3>2. t0 \in NoticeRow(n) /\ t0.intent = req.intent /\ t0.org = req.org
      BY <2>2 DEF NoticeRow
    <3> HIDE DEF t0
    <3>3. \A t \in templates' \cup notices' :
            (\E r \in intents' : r.id = t.intent) /\ t.org \in organisations' \cup {"all"}
      BY <1>1, <2>1, <3>1, <3>2 DEF IntentsTyped
    <3>4. IntentsTyped(n)'
      BY <1>1, <2>1, <3>1, <3>2, <3>3 DEF IntentsTyped
    <3> QED BY <1>1, <2>1, <3>4, IntentsUnfolded DEF IntentsIInv
  <2> QED BY <2>3, <2>4
<1>6. ASSUME NEW q \in IntentRequest(n), Intents(o, n)!Request(q)
      PROVE  IntentsIInv(o, n)'
  <2>1. started' \in 0..n /\ pend' = pend \cup {q} /\ UNCHANGED <<intents, templates, notices, member, organisations>>
    BY <1>2, <1>6 DEF Intents!Request
  <2> QED BY <1>1, <2>1, IntentsQuiet
<1>7. ASSUME NEW e \in Ecosystem, NEW x \in IntentName, Intents(o, n)!CreateIntent(e, x)
      PROVE  IntentsIInv(o, n)'
  <2>1. started + 1 \in 1..n
    BY <1>2, <1>7 DEF Intents!CreateIntent, Intents!Request
  <2>2. PICK k \in 1..n : k = started + 1
    BY <2>1
  <2>3. Intents(o, n)!Request([op |-> "createIntent", id |-> k, eco |-> e, name |-> x])
    BY <1>7, <2>2 DEF Intents!CreateIntent
  <2>4. [op |-> "createIntent", id |-> k, eco |-> e, name |-> x] \in IntentRequest(n)
    BY DEF IntentRequest
  <2> QED BY <1>6, <2>3, <2>4
<1>8. ASSUME NEW e \in Ecosystem, NEW x \in IntentName, NEW i \in 1..n, Intents(o, n)!UpdateIntent(e, i, x)
      PROVE  IntentsIInv(o, n)'
  <2>1. Intents(o, n)!Request([op |-> "updateIntent", id |-> i, eco |-> e, name |-> x])
    BY <1>8 DEF Intents!UpdateIntent
  <2>2. [op |-> "updateIntent", id |-> i, eco |-> e, name |-> x] \in IntentRequest(n)
    BY DEF IntentRequest
  <2> QED BY <1>6, <2>1, <2>2
<1>9. ASSUME NEW e \in Ecosystem, NEW i \in 1..n, Intents(o, n)!DeleteIntent(e, i)
      PROVE  IntentsIInv(o, n)'
  <2>1. /\ \A r \in templates \cup notices : r.intent # i
        /\ intents' = {r \in intents : r.id # i} /\ started' \in 0..n
        /\ UNCHANGED <<templates, notices, member, organisations, pend>>
    BY <1>2, <1>9 DEF Intents!DeleteIntent
  <2>2. \A t \in templates \cup notices : \E r \in intents' : r.id = t.intent
    BY <1>1, <2>1 DEF IntentsTyped
  <2>3. IntentsTyped(n)'
    BY <1>1, <2>1, <2>2 DEF IntentsTyped
  <2> QED BY <1>1, <2>1, <2>3, IntentsUnfolded DEF IntentsIInv
<1>10. ASSUME NEW i \in 1..n, NEW g \in IntentOrg \cup {"all"}, NEW t \in Template,
              Intents(o, n)!CreateIntentTemplate(i, g, t)
       PROVE  IntentsIInv(o, n)'
  <2>1. started + 1 \in 1..n
    BY <1>2, <1>10 DEF Intents!CreateIntentTemplate, Intents!Request
  <2>2. PICK k \in 1..n : k = started + 1
    BY <2>1
  <2>3. Intents(o, n)!Request([op |-> "template", id |-> k, intent |-> i, org |-> g, template |-> t])
    BY <1>10, <2>2 DEF Intents!CreateIntentTemplate
  <2>4. [op |-> "template", id |-> k, intent |-> i, org |-> g, template |-> t] \in IntentRequest(n)
    BY DEF IntentRequest
  <2> QED BY <1>6, <2>3, <2>4
<1>11. ASSUME NEW id \in 1..n, NEW i \in 1..n, NEW g \in IntentOrg \cup {"all"}, NEW t \in Template,
              Intents(o, n)!UpdateIntentTemplate(id, i, g, t)
       PROVE  IntentsIInv(o, n)'
  <2>1. Intents(o, n)!Request([op |-> "template", id |-> id, intent |-> i, org |-> g, template |-> t])
    BY <1>11 DEF Intents!UpdateIntentTemplate
  <2>2. [op |-> "template", id |-> id, intent |-> i, org |-> g, template |-> t] \in IntentRequest(n)
    BY DEF IntentRequest
  <2> QED BY <1>6, <2>1, <2>2
<1>12. ASSUME NEW i \in 1..n, NEW g \in IntentOrg \cup {"all"}, Intents(o, n)!CreateIntentNotice(i, g)
       PROVE  IntentsIInv(o, n)'
  <2>1. started + 1 \in 1..n
    BY <1>2, <1>12 DEF Intents!CreateIntentNotice, Intents!Request
  <2>2. PICK k \in 1..n : k = started + 1
    BY <2>1
  <2>3. Intents(o, n)!Request([op |-> "notice", id |-> k, intent |-> i, org |-> g])
    BY <1>12, <2>2 DEF Intents!CreateIntentNotice
  <2>4. [op |-> "notice", id |-> k, intent |-> i, org |-> g] \in IntentRequest(n)
    BY DEF IntentRequest
  <2> QED BY <1>6, <2>3, <2>4
<1>13. ASSUME NEW id \in 1..n, Intents(o, n)!DeleteIntentTemplate(id) \/ Intents(o, n)!DeleteIntentNotice(id)
       PROVE  IntentsIInv(o, n)'
  <2>1. /\ templates' \subseteq templates /\ notices' \subseteq notices /\ started' \in 0..n
        /\ UNCHANGED <<intents, member, organisations, pend>>
    BY <1>2, <1>13 DEF Intents!DeleteIntentTemplate, Intents!DeleteIntentNotice
  <2>2. IntentsTyped(n)'
    BY <1>1, <2>1 DEF IntentsTyped
  <2> QED BY <1>1, <2>1, <2>2, IntentsUnfolded DEF IntentsIInv
<1>14. ASSUME NEW e \in Ecosystem, NEW g \in IntentOrg, NEW s \in {"none", "ACTIVE", "SUSPENDED"},
              Intents(o, n)!MemberChanges(e, g, s)
       PROVE  IntentsIInv(o, n)'
  <2>1. /\ member[e][g] # "none" /\ member' = [member EXCEPT ![e][g] = s] /\ started' \in 0..n
        /\ UNCHANGED <<intents, templates, notices, organisations, pend>>
    BY <1>2, <1>14 DEF Intents!MemberChanges
  <2>2. /\ member' \in [Ecosystem -> [IntentOrg -> {"none", "ACTIVE", "SUSPENDED"}]]
        /\ \A x \in Ecosystem, h \in IntentOrg : member'[x][h] = IF x = e /\ h = g THEN s ELSE member[x][h]
    BY <1>1, <2>1 DEF IntentsTyped
  <2>3. \A x \in Ecosystem, h \in IntentOrg : member'[x][h] # "none" => h \in organisations
    BY <1>1, <2>1, <2>2 DEF IntentsTyped
  <2>4. IntentsTyped(n)'
    BY <1>1, <2>1, <2>2, <2>3 DEF IntentsTyped
  <2> QED BY <1>1, <2>1, <2>4, IntentsUnfolded DEF IntentsIInv
<1>15. ASSUME NEW g \in IntentOrg, Intents(o, n)!DeleteOrg(g)
       PROVE  IntentsIInv(o, n)'
  BY <1>15, IntentsOrgDeleted
<1> QED BY <1>3, <1>4, <1>5, <1>7, <1>8, <1>9, <1>10, <1>11, <1>12, <1>13, <1>14, <1>15
        DEF Intents!Next, Intents!Id, Intents!All

(* Intents, one request at a time: ids are not given twice, and a name     *)
(* that was free when the handler looked is free when it writes.           *)
IntentIds ==
  /\ \A r, s \in intents : r.id = s.id => r = s
  /\ \A r \in intents : r.id <= started
  /\ \A q \in pend : q.op = "createIntent" => q.id <= started /\ \A r \in intents : r.id # q.id
NamesStillFree ==
  \A q \in pend : q.op \in {"createIntent", "updateIntent"} =>
    \A r \in intents : r.eco = q.eco /\ r.name = q.name => q.op = "updateIntent" /\ r.id = q.id
NamesUnique ==
  \A r, s \in intents : r.under = r.eco /\ s.under = s.eco /\ r.eco = s.eco /\ r.name = s.name => r = s
IntentTurns(n) == IntentsIInv(FALSE, n) /\ Alone /\ IntentIds /\ NamesStillFree /\ NamesUnique

LEMMA IntentTurnsInitial ==
  ASSUME NEW n \in Nat, Intents(FALSE, n)!Init
  PROVE  IntentTurns(n)
<1>1. IntentsIInv(FALSE, n)
  BY IntentsInitial
<1> QED BY <1>1 DEF Intents!Init, IntentTurns, Alone, IntentIds, NamesStillFree, NamesUnique

(* A step that writes no intent: what is new is the request. *)
LEMMA IntentTurnsKept ==
  ASSUME NEW n \in Nat, IntentTurns(n), IntentsIInv(FALSE, n)', intents' \subseteq intents,
         started' = started \/ started' = started + 1,
         \/ pend' = {}
         \/ \E q : /\ pend' = {q}
                   /\ q.op = "createIntent" => q.id = started + 1 /\ started' = started + 1
                   /\ q.op \in {"createIntent", "updateIntent"} =>
                        \A r \in intents : r.eco = q.eco /\ r.name = q.name => q.op = "updateIntent" /\ r.id = q.id
  PROVE  IntentTurns(n)'
<1>1. IntentsTyped(n) /\ started \in Nat
  <2>1. IntentsTyped(n)
    BY IntentsUnfolded DEF IntentTurns, IntentsIInv
  <2> QED BY <2>1 DEF IntentsTyped
<1>2. \A r \in intents : r.id \in Nat /\ r.id <= started
  BY <1>1 DEF IntentTurns, IntentIds, IntentsTyped, IntentRow
<1>3. \A r \in intents : r.id <= started' /\ r.id # started + 1
  BY <1>1, <1>2
<1>4. IntentIds'
  <2>1. \A q \in pend' : q.op = "createIntent" => q.id <= started' /\ \A r \in intents' : r.id # q.id
    BY <1>1, <1>3
  <2> QED BY <1>3, <2>1 DEF IntentTurns, IntentIds
<1>5. NamesStillFree' /\ Alone'
  BY DEF NamesStillFree, Alone
<1>6. NamesUnique'
  BY DEF IntentTurns, NamesUnique
<1> QED BY <1>4, <1>5, <1>6 DEF IntentTurns

LEMMA IntentTurnsWritten ==
  ASSUME NEW n \in Nat, IntentTurns(n), IntentsIInv(FALSE, n)', NEW req \in pend, Intents(FALSE, n)!WriteIntent(req)
  PROVE  IntentTurns(n)'
<1>1. IntentsTyped(n) /\ pend \subseteq IntentRequest(n) /\ IntentsIInv(FALSE, n) /\ Alone
  BY IntentsUnfolded DEF IntentTurns, IntentsIInv
<1>2. pend' = {} /\ started' = started /\ req.op \in {"createIntent", "updateIntent"}
  BY <1>1 DEF Intents!WriteIntent, Intents!End, Alone
<1>3. /\ \A r, s \in intents : r.id = s.id => r = s
      /\ \A r \in intents : r.id <= started
      /\ req.op = "createIntent" => req.id <= started /\ \A r \in intents : r.id # req.id
      /\ \A r \in intents : r.eco = req.eco /\ r.name = req.name => req.op = "updateIntent" /\ r.id = req.id
      /\ NamesUnique
  BY <1>2 DEF IntentTurns, IntentIds, NamesStillFree
<1>4. Alone' /\ NamesStillFree' /\ \A q \in pend' : q.op = "createIntent" => FALSE
  BY <1>2 DEF Alone, NamesStillFree
<1>5. CASE req.op = "createIntent"
  <2>1. PICK s \in intents' : /\ s.id = req.id /\ s.eco = req.eco /\ s.name = req.name /\ s.under = req.eco
                              /\ intents' = intents \cup {s}
    BY <1>1, <1>5, IntentsWritten
  <2>2. IntentIds'
    BY <1>2, <1>3, <1>4, <1>5, <2>1 DEF IntentIds
  <2>3. \A r \in intents : ~(r.eco = s.eco /\ r.name = s.name)
    BY <1>3, <1>5, <2>1
  <2>4. NamesUnique'
    BY <1>3, <2>1, <2>3 DEF NamesUnique
  <2> QED BY <1>4, <2>2, <2>4 DEF IntentTurns
<1>6. CASE req.op = "updateIntent"
  <2>1. \A s \in intents' : \E r \in intents :
                /\ s.id = r.id /\ s.eco = r.eco
                /\ r.id = req.id => s.name = req.name /\ s.under = req.eco
                /\ r.id # req.id => s = r
    BY <1>1, <1>6, IntentsWritten
  <2>2. \A r, s \in intents' : r.id = s.id => r = s
    BY <1>1, <1>3, <1>6, IntentsWritten
  <2>3. IntentIds'
    <3>1. \A s \in intents' : s.id <= started'
      BY <1>2, <1>3, <2>1
    <3> QED BY <1>4, <2>2, <3>1 DEF IntentIds
  <2>4. NamesUnique'
    <3> SUFFICES ASSUME NEW r \in intents', NEW s \in intents',
                        r.under = r.eco, s.under = s.eco, r.eco = s.eco, r.name = s.name, r.id # s.id
                 PROVE  FALSE
      BY <2>2 DEF NamesUnique
    <3>1. PICK x \in intents : /\ r.id = x.id /\ r.eco = x.eco
                               /\ x.id = req.id => r.name = req.name /\ r.under = req.eco
                               /\ x.id # req.id => r = x
      BY <2>1
    <3>2. PICK y \in intents : /\ s.id = y.id /\ s.eco = y.eco
                               /\ y.id = req.id => s.name = req.name /\ s.under = req.eco
                               /\ y.id # req.id => s = y
      BY <2>1
    <3>3. CASE x.id = req.id
      <4>1. y.id # req.id /\ y.eco = req.eco /\ y.name = req.name
        BY <3>1, <3>2, <3>3
      <4> QED BY <1>3, <4>1
    <3>4. CASE y.id = req.id
      <4>1. x.id # req.id /\ x.eco = req.eco /\ x.name = req.name
        BY <3>1, <3>2, <3>4
      <4> QED BY <1>3, <4>1
    <3>5. CASE x.id # req.id /\ y.id # req.id
      BY <1>3, <3>1, <3>2, <3>5 DEF NamesUnique
    <3> QED BY <3>3, <3>4, <3>5
  <2> QED BY <1>4, <2>3, <2>4 DEF IntentTurns
<1> QED BY <1>2, <1>5, <1>6

LEMMA IntentTurnsStep ==
  ASSUME NEW n \in Nat, IntentTurns(n), Intents(FALSE, n)!Next
  PROVE  IntentTurns(n)'
<1>1. IntentsIInv(FALSE, n) /\ Alone
  BY DEF IntentTurns
<1>2. IntentsIInv(FALSE, n)'
  BY <1>1, IntentsStep
<1>3. ASSUME NEW req \in pend, Intents(FALSE, n)!WriteIntent(req)
      PROVE  IntentTurns(n)'
  BY <1>2, <1>3, IntentTurnsWritten
<1>4. ASSUME NEW req \in pend, Intents(FALSE, n)!WriteTemplate(req) \/ Intents(FALSE, n)!WriteNotice(req)
      PROVE  IntentTurns(n)'
  <2>1. pend' = {} /\ UNCHANGED <<intents, started>>
    BY <1>1, <1>4 DEF Intents!WriteTemplate, Intents!WriteNotice, Intents!End, Alone
  <2> QED BY <1>2, <2>1, IntentTurnsKept
<1>5. ASSUME NEW q, Intents(FALSE, n)!Request(q), q.op = "createIntent" => q.id = started + 1,
             q.op \in {"createIntent", "updateIntent"} =>
               \A r \in intents : r.eco = q.eco /\ r.name = q.name => q.op = "updateIntent" /\ r.id = q.id
      PROVE  IntentTurns(n)'
  <2>1. pend' = {q} /\ UNCHANGED intents /\ started' = started + 1
    BY <1>5 DEF Intents!Request, Intents!Free
  <2> QED BY <1>2, <1>5, <2>1, IntentTurnsKept
<1>6. ASSUME NEW e \in Ecosystem, NEW x \in IntentName, Intents(FALSE, n)!CreateIntent(e, x)
      PROVE  IntentTurns(n)'
  <2>1. PICK k : k = started + 1
    OBVIOUS
  <2> DEFINE q == [op |-> "createIntent", id |-> k, eco |-> e, name |-> x]
  <2>2. Intents(FALSE, n)!Request(q) /\ \A r \in intents : ~(r.eco = e /\ r.name = x /\ r.id # 0)
    BY <1>6, <2>1 DEF Intents!CreateIntent, Intents!NameFree
  <2>3. \A r \in intents : r.id # 0
    <3>1. IntentsTyped(n)
      BY <1>1, IntentsUnfolded DEF IntentsIInv
    <3> QED BY <3>1 DEF IntentsTyped, IntentRow
  <2>4. q.op = "createIntent" /\ q.id = k /\ q.eco = e /\ q.name = x
    OBVIOUS
  <2> HIDE DEF q
  <2> QED BY <1>5, <2>1, <2>2, <2>3, <2>4
<1>7. ASSUME NEW e \in Ecosystem, NEW x \in IntentName, NEW i \in 1..n, Intents(FALSE, n)!UpdateIntent(e, i, x)
      PROVE  IntentTurns(n)'
  <2> DEFINE q == [op |-> "updateIntent", id |-> i, eco |-> e, name |-> x]
  <2>1. Intents(FALSE, n)!Request(q) /\ \A r \in intents : ~(r.eco = e /\ r.name = x /\ r.id # i)
    BY <1>7 DEF Intents!UpdateIntent, Intents!NameFree
  <2>2. q.op = "updateIntent" /\ q.id = i /\ q.eco = e /\ q.name = x
    OBVIOUS
  <2> HIDE DEF q
  <2> QED BY <1>5, <2>1, <2>2
<1>8. ASSUME NEW i \in 1..n, NEW g \in IntentOrg \cup {"all"}, NEW t \in Template,
             \/ Intents(FALSE, n)!CreateIntentTemplate(i, g, t)
             \/ \E id \in 1..n : Intents(FALSE, n)!UpdateIntentTemplate(id, i, g, t)
      PROVE  IntentTurns(n)'
  <2>1. PICK k : Intents(FALSE, n)!Request([op |-> "template", id |-> k, intent |-> i, org |-> g, template |-> t])
    BY <1>8 DEF Intents!CreateIntentTemplate, Intents!UpdateIntentTemplate
  <2> DEFINE q == [op |-> "template", id |-> k, intent |-> i, org |-> g, template |-> t]
  <2>2. Intents(FALSE, n)!Request(q) /\ q.op = "template"
    BY <2>1
  <2> HIDE DEF q
  <2> QED BY <1>5, <2>2
<1>9. ASSUME NEW i \in 1..n, NEW g \in IntentOrg \cup {"all"}, Intents(FALSE, n)!CreateIntentNotice(i, g)
      PROVE  IntentTurns(n)'
  <2>1. PICK k : Intents(FALSE, n)!Request([op |-> "notice", id |-> k, intent |-> i, org |-> g])
    BY <1>9 DEF Intents!CreateIntentNotice
  <2> DEFINE q == [op |-> "notice", id |-> k, intent |-> i, org |-> g]
  <2>2. Intents(FALSE, n)!Request(q) /\ q.op = "notice"
    BY <2>1
  <2> HIDE DEF q
  <2> QED BY <1>5, <2>2
<1>10. ASSUME intents' \subseteq intents, UNCHANGED pend, Intents(FALSE, n)!Free
       PROVE  IntentTurns(n)'
  <2>1. pend' = {} /\ started' = started + 1
    BY <1>10 DEF Intents!Free
  <2> QED BY <1>2, <1>10, <2>1, IntentTurnsKept
<1>11. ASSUME NEW e \in Ecosystem, NEW i \in 1..n, Intents(FALSE, n)!DeleteIntent(e, i)
       PROVE  IntentTurns(n)'
  <2>1. intents' \subseteq intents /\ UNCHANGED pend /\ Intents(FALSE, n)!Free
    BY <1>11 DEF Intents!DeleteIntent
  <2> QED BY <1>10, <2>1
<1>12. ASSUME NEW i \in 1..n, Intents(FALSE, n)!DeleteIntentTemplate(i) \/ Intents(FALSE, n)!DeleteIntentNotice(i)
       PROVE  IntentTurns(n)'
  <2>1. UNCHANGED <<intents, pend>> /\ Intents(FALSE, n)!Free
    BY <1>12 DEF Intents!DeleteIntentTemplate, Intents!DeleteIntentNotice
  <2> QED BY <1>10, <2>1
<1>13. ASSUME NEW e \in Ecosystem, NEW g \in IntentOrg, NEW s \in {"none", "ACTIVE", "SUSPENDED"},
              Intents(FALSE, n)!MemberChanges(e, g, s)
       PROVE  IntentTurns(n)'
  <2>1. UNCHANGED <<intents, pend>> /\ Intents(FALSE, n)!Free
    BY <1>13 DEF Intents!MemberChanges
  <2> QED BY <1>10, <2>1
<1>14. ASSUME NEW g \in IntentOrg, Intents(FALSE, n)!DeleteOrg(g)
       PROVE  IntentTurns(n)'
  <2>1. UNCHANGED <<intents, pend>> /\ Intents(FALSE, n)!Free
    BY <1>14 DEF Intents!DeleteOrg
  <2> QED BY <1>10, <2>1
<1> QED BY <1>3, <1>4, <1>6, <1>7, <1>8, <1>9, <1>11, <1>12, <1>13, <1>14 DEF Intents!Next, Intents!Id, Intents!All

LEMMA IntentsCardinality ==
  ASSUME NEW o, NEW n, NEW S
  PROVE  Intents(o, n)!Cardinality(S) = Cardinality(S)
BY DEF Cardinality, Intents!Cardinality

LEMMA AtMostOne ==
  ASSUME NEW S, \A x, y \in S : x = y
  PROVE  Cardinality(S) <= 1
<1>1. S = {} \/ \E x : S = {x}
  OBVIOUS
<1>2. CASE S = {}
  <2>1. Cardinality(S) = 0
    BY <1>2, FS_EmptySet
  <2> QED BY <2>1
<1>3. ASSUME NEW x, S = {x}
      PROVE  Cardinality(S) <= 1
  <2>1. Cardinality(S) = 1
    BY <1>3, FS_Singleton
  <2> QED BY <2>1
<1> QED BY <1>1, <1>2, <1>3

(* Names are unique, and so is the template of one intent and one          *)
(* organization: a lookup by name finds at most one of a kind.             *)
LEMMA IntentTurnsMeans ==
  ASSUME NEW n \in Nat, IntentTurns(n)
  PROVE  Intents(FALSE, n)!TypeOK /\ Intents(FALSE, n)!IntentNameUnique /\ Intents(FALSE, n)!LookupUnambiguous
<1>1. IntentsTyped(n) /\ Intents(FALSE, n)!TypeOK /\ NamesUnique
  BY IntentsUnfolded DEF IntentTurns, IntentsIInv
<1>2. Intents(FALSE, n)!IntentNameUnique
  BY <1>1 DEF NamesUnique, Intents!IntentNameUnique, Intents!Own
<1>3. ASSUME NEW x \in IntentName, NEW g \in IntentOrg, NEW e \in Ecosystem, NEW t \in Template,
             \A r \in intents : r.eco = e /\ r.name = x => r.under = r.eco
      PROVE  Cardinality({r \in Intents(FALSE, n)!Resolved(x, g, e) : r.template = t}) <= 1
  <2> DEFINE S == {r \in Intents(FALSE, n)!Resolved(x, g, e) : r.template = t}
  <2>1. \A r \in S : /\ r \in templates /\ r.template = t
                     /\ \E i \in intents : i.id = r.intent /\ i.name = x /\ i.eco = e
    BY DEF Intents!Resolved
  <2>2. \A r, s \in S : r.org = s.org
    BY DEF Intents!Resolved
  <2>3. \A i, j \in intents : i.name = x /\ i.eco = e /\ j.name = x /\ j.eco = e => i = j
    BY <1>1, <1>3 DEF NamesUnique
  <2> HIDE DEF S
  <2>4. \A r, s \in S : r.intent = s.intent
    BY <2>1, <2>3
  <2>5. \A r, s \in S : r = s
    BY <1>1, <2>1, <2>2, <2>4 DEF IntentsTyped
  <2>6. Cardinality(S) <= 1
    BY <2>5, AtMostOne
  <2> QED BY <2>6 DEF S
<1>4. Intents(FALSE, n)!LookupUnambiguous
  BY <1>3, IntentsCardinality DEF Intents!LookupUnambiguous, Intents!Own
<1> QED BY <1>1, <1>2, <1>4

-----------------------------------------------------------------------------
(* Tenancy: the invariants of the chosen part.                             *)
EcosystemsIInv ==
  /\ part = "ecosystems" => EcoIInv(TRUE, Requests.ecosystems)
  /\ part = "ecosystemsInTurn" => EcoTurns(Requests.ecosystemsInTurn)
  /\ part = "intents" => IntentsIInv(TRUE, Requests.intents)
  /\ part = "intentsInTurn" => IntentTurns(Requests.intentsInTurn)

LEMMA EcosystemsMeans ==
  ASSUME EcosystemsIInv
  PROVE  EcosystemInv
<1>1. part = "ecosystems" => /\ Ecosystems(TRUE, Requests.ecosystems)!TypeOK
                             /\ Ecosystems(TRUE, Requests.ecosystems)!EveryEcosystemIsLed
  BY EcoConstants, EcoLed DEF EcosystemsIInv, EcoIInv
<1>2. part = "ecosystemsInTurn" => /\ Ecosystems(FALSE, Requests.ecosystemsInTurn)!TypeOK
                                   /\ Ecosystems(FALSE, Requests.ecosystemsInTurn)!EveryEcosystemIsLed
                                   /\ Ecosystems(FALSE, Requests.ecosystemsInTurn)!MemberIsInvited
                                   /\ Ecosystems(FALSE, Requests.ecosystemsInTurn)!RolesAreInAccess
                                   /\ Ecosystems(FALSE, Requests.ecosystemsInTurn)!EcosystemIsInvited
  BY EcoConstants, EcoTurnsMeans DEF EcosystemsIInv
<1>3. part = "intents" => Intents(TRUE, Requests.intents)!TypeOK
  BY DEF EcosystemsIInv, IntentsIInv
<1>4. part = "intentsInTurn" => /\ Intents(FALSE, Requests.intentsInTurn)!TypeOK
                                /\ Intents(FALSE, Requests.intentsInTurn)!IntentNameUnique
                                /\ Intents(FALSE, Requests.intentsInTurn)!LookupUnambiguous
  BY IntentsConstants, IntentTurnsMeans DEF EcosystemsIInv
<1> QED BY <1>1, <1>2, <1>3, <1>4 DEF EcosystemInv

LEMMA EcosystemsSteps ==
  ASSUME Next
  PROVE  /\ part' = part
         /\ part = "ecosystems" => Ecosystems(TRUE, Requests.ecosystems)!Next
         /\ part = "ecosystemsInTurn" => Ecosystems(FALSE, Requests.ecosystemsInTurn)!Next
         /\ part = "intents" => Intents(TRUE, Requests.intents)!Next
         /\ part = "intentsInTurn" => Intents(FALSE, Requests.intentsInTurn)!Next
BY SalesApart DEF Next, OtherParts

(* Where nothing moves, everything stays. *)
LEMMA EcosystemsStutter ==
  ASSUME EcosystemsIInv, UNCHANGED vars
  PROVE  EcosystemsIInv'
<1>1. UNCHANGED <<part, ecosystems, invitations, orgs, access, intents, templates, notices, member, organisations,
                  pend, started, faults>>
  BY DEF vars, ecoVars, intentVars
<1>2. ASSUME NEW o \in BOOLEAN, NEW n \in Nat, EcoIInv(o, n)
      PROVE  EcoIInv(o, n)'
  <2>1. EcoTyped(n)'
    BY <1>1, <1>2, EcoUnfolded DEF EcoIInv, EcoTyped
  <2>2. EcoRequests(n)' /\ InvitationsKnown' /\ Led'
    BY <1>1, <1>2 DEF EcoIInv, EcoRequests, EcoGood, InvitationsKnown, Led
  <2> QED BY <2>1, <2>2, EcoUnfolded DEF EcoIInv
<1>3. ASSUME NEW n \in Nat, EcoTurns(n)
      PROVE  EcoTurns(n)'
  <2>1. EcoIInv(FALSE, n)'
    BY <1>2, <1>3 DEF EcoTurns
  <2>2. MembersAccepted' /\ AnswersOpen' /\ Alone'
    BY <1>1, <1>3 DEF EcoTurns, MembersAccepted, Accepted, AnswersOpen, Alone
  <2>3. InvitationUnused' /\ EcosystemsInvited' /\ SeenIsAccess' /\ RolesReached'
    BY <1>1, <1>3 DEF EcoTurns, InvitationUnused, EcosystemsInvited, SeenIsAccess, RolesReached, Reached
  <2> QED BY <2>1, <2>2, <2>3 DEF EcoTurns
<1>4. ASSUME NEW o \in BOOLEAN, NEW n \in Nat, IntentsIInv(o, n)
      PROVE  IntentsIInv(o, n)'
  <2>1. IntentsTyped(n)'
    <3>1. IntentsTyped(n)
      BY <1>4, IntentsUnfolded DEF IntentsIInv
    <3> QED BY <1>1, <3>1 DEF IntentsTyped
  <2> QED BY <1>1, <1>4, <2>1, IntentsUnfolded DEF IntentsIInv
<1>5. ASSUME NEW n \in Nat, IntentTurns(n)
      PROVE  IntentTurns(n)'
  <2>1. IntentsIInv(FALSE, n)'
    BY <1>4, <1>5 DEF IntentTurns
  <2> QED BY <1>1, <1>5, <2>1 DEF IntentTurns, Alone, IntentIds, NamesStillFree, NamesUnique
<1>6. part = "ecosystems" => EcoIInv(TRUE, Requests.ecosystems)'
  BY <1>2, EcoConstants DEF EcosystemsIInv
<1>7. part = "ecosystemsInTurn" => EcoTurns(Requests.ecosystemsInTurn)'
  BY <1>3, EcoConstants DEF EcosystemsIInv
<1>8. part = "intents" => IntentsIInv(TRUE, Requests.intents)'
  BY <1>4, IntentsConstants DEF EcosystemsIInv
<1>9. part = "intentsInTurn" => IntentTurns(Requests.intentsInTurn)'
  BY <1>5, IntentsConstants DEF EcosystemsIInv
<1> QED BY <1>1, <1>6, <1>7, <1>8, <1>9 DEF EcosystemsIInv

LEMMA EcosystemsInvariant == Spec => []EcosystemsIInv
<1>1. Init => EcosystemsIInv
  <2> SUFFICES ASSUME Init
               PROVE  EcosystemsIInv
    OBVIOUS
  <2>1. /\ part = "ecosystems" => Ecosystems(TRUE, Requests.ecosystems)!Init
        /\ part = "ecosystemsInTurn" => Ecosystems(FALSE, Requests.ecosystemsInTurn)!Init
        /\ part = "intents" => Intents(TRUE, Requests.intents)!Init
        /\ part = "intentsInTurn" => Intents(FALSE, Requests.intentsInTurn)!Init
    BY SalesApart DEF Init, OtherParts
  <2>2. /\ part = "ecosystems" => EcoIInv(TRUE, Requests.ecosystems)
        /\ part = "ecosystemsInTurn" => EcoTurns(Requests.ecosystemsInTurn)
    BY <2>1, EcoInitial, EcoTurnsInitial, EcoConstants
  <2>3. /\ part = "intents" => IntentsIInv(TRUE, Requests.intents)
        /\ part = "intentsInTurn" => IntentTurns(Requests.intentsInTurn)
    BY <2>1, IntentsInitial, IntentTurnsInitial, IntentsConstants
  <2> QED BY <2>2, <2>3 DEF EcosystemsIInv
<1>2. EcosystemsIInv /\ [Next]_vars => EcosystemsIInv'
  <2> SUFFICES ASSUME EcosystemsIInv, Next
               PROVE  EcosystemsIInv'
    BY EcosystemsStutter
  <2>1. part = "ecosystems" => EcoIInv(TRUE, Requests.ecosystems)'
    BY EcosystemsSteps, EcoStep, EcoConstants DEF EcosystemsIInv
  <2>2. part = "ecosystemsInTurn" => EcoTurns(Requests.ecosystemsInTurn)'
    BY EcosystemsSteps, EcoTurnsStep, EcoConstants DEF EcosystemsIInv
  <2>3. part = "intents" => IntentsIInv(TRUE, Requests.intents)'
    BY EcosystemsSteps, IntentsStep, IntentsConstants DEF EcosystemsIInv
  <2>4. part = "intentsInTurn" => IntentTurns(Requests.intentsInTurn)'
    BY EcosystemsSteps, IntentTurnsStep, IntentsConstants DEF EcosystemsIInv
  <2> QED BY <2>1, <2>2, <2>3, <2>4, EcosystemsSteps DEF EcosystemsIInv
<1> QED BY <1>1, <1>2, PTL DEF Spec

(* ecosystem: whatever overlaps or fails, an ecosystem keeps exactly one   *)
(* lead, and no template or notice loses its intent or organization.  One  *)
(* request at a time, members have accepted an invitation, the access of   *)
(* their users names what they are, an ecosystem has an invitation of its  *)
(* own, and names that were given in their own ecosystem are unique there  *)
(* and resolve to at most one template (createEcosystem,                   *)
(* updateEcosystemInvitationStatus, createIntent,                          *)
(* getIntentTemplateByIntentAndOrg).                                       *)
THEOREM EcosystemsStaySafe == Spec => []EcosystemInv
BY EcosystemsInvariant, EcosystemsMeans, PTL

-----------------------------------------------------------------------------
(* agent-service: the wallet of an organization, with a tenant from before *)
(* tokens were stored (l) or without, and at most n requests.              *)

NoW == <<"none", 0>>
KnownWallet(n) == (Endpoint \X {0}) \cup ({"shared"} \X (0..n + 1))
AgentRow(n) ==
  [id : 0..n + 1, type : {"none", "shared", "dedicated"}, wallet : KnownWallet(n) \cup {NoW},
   key : KnownWallet(n) \cup {NoW}, status : {"none", "WALLET_CREATED", "DID_CREATED"}, orgDid : Did \cup {"none"}]
DidOfAgent(n) == [rid : 0..n + 1, did : Did, agentId : 0..n + 1, primary : BOOLEAN, home : KnownWallet(n)]

Primaries(S) == {r \in S : r.primary}
WalletTyped(n) ==
  /\ agent \in AgentRow(n) /\ dids \subseteq DidOfAgent(n)
  /\ Cardinality(Primaries(dids)) <= 1
  /\ \A r \in dids : r.agentId = agent.id /\ agent.id # 0
  /\ tenants \subseteq 0..n + 1 /\ used \in BOOLEAN
  /\ started \in 0..n /\ faults \in 0..Faults

LEMMA WalletConstants ==
  "shared" \notin Endpoint /\ "none" \notin Endpoint /\ "none" \notin Did /\ Requests.wallet \in Nat /\ Faults \in Nat
BY TenancyAssumption DEF TenancyAssumption, Wallet!WalletAssumption

LEMMA WalletCardinality ==
  ASSUME NEW l, NEW S
  PROVE  Wallet(l)!Cardinality(S) = Cardinality(S)
BY DEF Cardinality, Wallet!Cardinality

LEMMA WalletSets ==
  ASSUME NEW l
  PROVE  Wallet(l)!Wallet = KnownWallet(Requests.wallet)
BY DEF Wallet!Wallet, Wallet!Id, KnownWallet

LEMMA WalletUnfolded ==
  ASSUME NEW l \in BOOLEAN
  PROVE  /\ Wallet(l)!TypeOK <=> WalletTyped(Requests.wallet)
         /\ Wallet(l)!TypeOK' <=> WalletTyped(Requests.wallet)'
         /\ Wallet(l)!NoRow = [id |-> 0, type |-> "none", wallet |-> NoW, key |-> NoW, status |-> "none", orgDid |-> "none"]
<1>1. Wallet(l)!Row = AgentRow(Requests.wallet) /\ Wallet(l)!DidRow = DidOfAgent(Requests.wallet)
  BY WalletSets DEF Wallet!Row, Wallet!Id, Wallet!NoWallet, NoW, AgentRow, Wallet!DidRow, DidOfAgent
<1>2. Wallet(l)!Primary = Primaries(dids) /\ Wallet(l)!Primary' = Primaries(dids')
  BY DEF Wallet!Primary, Primaries
<1>3. Wallet(l)!TypeOK <=> WalletTyped(Requests.wallet)
  BY <1>1, <1>2, WalletCardinality DEF Wallet!TypeOK, WalletTyped, Wallet!Id
<1>4. Wallet(l)!TypeOK' <=> WalletTyped(Requests.wallet)'
  BY <1>1, <1>2, WalletCardinality DEF Wallet!TypeOK, WalletTyped, Wallet!Id
<1>5. Wallet(l)!NoRow = [id |-> 0, type |-> "none", wallet |-> NoW, key |-> NoW, status |-> "none", orgDid |-> "none"]
  BY DEF Wallet!NoRow, Wallet!NoWallet, NoW
<1> QED BY <1>3, <1>4, <1>5

(* The handlers under way. *)
RowRequest(n) == [op : {"tenant", "tenantStore", "tenantInvite", "spinup"}, id : 1..n + 1]
TokenRequest(n) == [op : {"tenantToken", "token", "delete", "deleteAgent"}, wallet : KnownWallet(n) \cup {NoW}]
DidRequest(n) ==
  [op : {"did"}, rid : 1..n + 1, id : 1..n + 1, status : {"WALLET_CREATED", "DID_CREATED"},
   wallet : KnownWallet(n), primary : BOOLEAN]
FindRequest(n) ==
  [op : {"didFind"}, rid : 1..n + 1, id : 1..n + 1, status : {"WALLET_CREATED", "DID_CREATED"},
   primary : BOOLEAN, did : Did, home : KnownWallet(n)]
StoreRequest(n) ==
  [op : {"didStore"}, rid : 1..n + 1, id : 1..n + 1, status : {"WALLET_CREATED", "DID_CREATED"},
   primary : BOOLEAN, did : Did, home : KnownWallet(n), found : 0..n + 1]
PrimaryRequest(n) == [op : {"primary"}, did : Did, rid : 1..n + 1, previous : 0..n + 1]
WalletRequest(n) ==
  RowRequest(n) \cup TokenRequest(n) \cup DidRequest(n) \cup FindRequest(n) \cup StoreRequest(n) \cup PrimaryRequest(n)

(* The handlers that will give a row its wallet, those that will delete a  *)
(* tenant, and those of createDid().                                       *)
Making(q) == q.op \in {"tenant", "tenantStore", "spinup"}
Unmaking(q) == q.op \in {"delete", "deleteAgent"} /\ q.wallet[1] = "shared"
Adding(q) == q.op \in {"did", "didFind", "didStore"}

(* Ids that were given: by a request, or to the tenant from before.        *)
Spent(k, n) == k \in 1..n + 1 /\ (k <= started \/ k = n + 1)

(* What a handler can rely on when it goes on: the row it works for is the *)
(* one it read or is gone for good, and a did it found has its row still   *)
(* or never again.                                                         *)
WalletGood(q, n) ==
  /\ q.op \in {"tenant", "tenantStore", "tenantInvite", "spinup"} => Spent(q.id, n)
  /\ Making(q) => (agent.id = q.id => agent.wallet = NoW)
  /\ q.op = "tenantStore" => q.id \in tenants
  /\ Unmaking(q) => Spent(q.wallet[2], n)
  /\ q.op = "deleteAgent" => q.wallet[1] = "shared" /\ agent.id # q.wallet[2]
  /\ Adding(q) => /\ Spent(q.id, n) /\ Spent(q.rid, n) /\ \A r \in dids : r.rid # q.rid
                  /\ agent.id = q.id => /\ agent.wallet # NoW
                                        /\ q.status = "DID_CREATED" => agent.status = "DID_CREATED"
  /\ q.op = "didStore" /\ q.found # 0 => Spent(q.found, n) /\ \A r \in dids : r.rid = q.found => r.did = q.did
  /\ q.op = "primary" => Spent(q.rid, n) /\ q.previous # q.rid /\ \A r \in dids : r.rid = q.rid => r.did = q.did

WalletApart(p, q) ==
  /\ Making(p) /\ Unmaking(q) => p.id # q.wallet[2]
  /\ Making(p) /\ Making(q) /\ p.id = q.id => p = q
  /\ Adding(p) /\ Adding(q) /\ p.rid = q.rid => p = q
  /\ Adding(p) /\ q.op = "didStore" => q.found # p.rid
  /\ Adding(p) /\ q.op = "primary" => q.rid # p.rid

WalletRequests(n) ==
  /\ pend \subseteq WalletRequest(n)
  /\ \A q \in pend : WalletGood(q, n)
  /\ \A p, q \in pend : WalletApart(p, q)

(* A row and its wallet, and the rows of its DIDs.                         *)
AgentShape(n) ==
  /\ agent.id # 0 => Spent(agent.id, n)
  /\ agent.id = 0 => agent.wallet = NoW
  /\ agent.type = "none" <=> agent.wallet = NoW
  /\ agent.type = "shared" => agent.wallet = <<"shared", agent.id>> /\ agent.id \in tenants
  /\ agent.type = "dedicated" => agent.wallet[1] # "shared"
  /\ agent.wallet # NoW => agent.status # "none"
DidsShape(n) ==
  /\ IsFiniteSet(dids)
  /\ \A r \in dids : Spent(r.rid, n)
  /\ \A r, s \in dids : r.rid = s.rid => r.did = s.did
  /\ \A r \in dids : r.primary => r.did = agent.orgDid
  /\ dids # {} => agent.wallet # NoW /\ agent.status = "DID_CREATED"

WalletIInv(n) == WalletTyped(n) /\ WalletRequests(n) /\ AgentShape(n) /\ DidsShape(n)

(* Without that tenant, a row has the token of its wallet, and DIDs are    *)
(* created in the wallet of the row.                                       *)
KeysFit ==
  /\ agent.key = agent.wallet
  /\ \A q \in pend : /\ q.op # "tenantToken"
                     /\ q.op \in {"didFind", "didStore"} /\ agent.id = q.id => q.home = agent.wallet
  /\ \A r \in dids : r.home = agent.wallet

WalletsIInv ==
  /\ part \in {"wallet", "legacy"} => WalletIInv(Requests.wallet)
  /\ part = "wallet" => KeysFit

RequestFields(q, n) ==
  /\ q.op \in {"tenant", "tenantStore", "tenantInvite", "spinup"} => q.id \in 1..n + 1
  /\ q.op \in {"tenantToken", "token", "delete", "deleteAgent"} => q.wallet \in KnownWallet(n) \cup {NoW}
  /\ Adding(q) => /\ q.rid \in 1..n + 1 /\ q.id \in 1..n + 1 /\ q.status \in {"WALLET_CREATED", "DID_CREATED"}
                  /\ q.primary \in BOOLEAN
  /\ q.op = "did" => q.wallet \in KnownWallet(n)
  /\ q.op \in {"didFind", "didStore"} => q.did \in Did /\ q.home \in KnownWallet(n)
  /\ q.op = "didStore" => q.found \in 0..n + 1
  /\ q.op = "primary" => q.did \in Did /\ q.rid \in 1..n + 1 /\ q.previous \in 0..n + 1

LEMMA WalletRequestFields ==
  ASSUME NEW n \in Nat, NEW q \in WalletRequest(n)
  PROVE  RequestFields(q, n)
<1>1. CASE q \in RowRequest(n)
  BY <1>1 DEF RowRequest, Adding, RequestFields
<1>2. CASE q \in TokenRequest(n)
  BY <1>2 DEF TokenRequest, Adding, RequestFields
<1>3. CASE q \in DidRequest(n)
  BY <1>3 DEF DidRequest, Adding, RequestFields
<1>4. CASE q \in FindRequest(n)
  BY <1>4 DEF FindRequest, Adding, RequestFields
<1>5. CASE q \in StoreRequest(n)
  BY <1>5 DEF StoreRequest, Adding, RequestFields
<1>6. CASE q \in PrimaryRequest(n)
  BY <1>6 DEF PrimaryRequest, Adding, RequestFields
<1> QED BY <1>1, <1>2, <1>3, <1>4, <1>5, <1>6 DEF WalletRequest

(* Ids stay spent, and the next one is not.                                *)
LEMMA StaysSpent ==
  ASSUME NEW n \in Nat, started \in 0..n, started' \in 0..n, started <= started'
  PROVE  /\ \A k : Spent(k, n) => Spent(k, n)' /\ k # 0
         /\ started < n => ~Spent(started + 1, n)
         /\ started < n /\ started' = started + 1 => \A k : k = started + 1 => Spent(k, n)' /\ k \in 1..n + 1
BY DEF Spent

(* What a step may do to the row that requests work for: it stays, is      *)
(* replaced by none or a new one, or gets its wallet.                      *)
AgentGoesOn(n) ==
  Spent(agent'.id, n) =>
    /\ agent'.id = agent.id
    /\ agent.wallet # NoW => /\ agent'.wallet = agent.wallet
                             /\ agent.status = "DID_CREATED" => agent'.status = "DID_CREATED"
    /\ agent'.wallet # agent.wallet => \A q \in pend' : Making(q) => q.id # agent.id

(* And to the rows of DIDs: they stay, go, or a request wrote its own and  *)
(* ended.                                                                  *)
DidsGoOn ==
  \A r \in dids' : \/ \E s \in dids : s.rid = r.rid /\ s.did = r.did
                   \/ /\ \E x \in pend : Adding(x) /\ x.rid = r.rid
                      /\ \A q \in pend' : q \in pend /\ (Adding(q) => q.rid # r.rid)

(* Requests after a step: those that stay and one that is new.             *)
LEMMA WalletRequestsKept ==
  ASSUME NEW n \in Nat, WalletRequests(n), started \in 0..n, started' \in 0..n, started <= started',
         AgentGoesOn(n), DidsGoOn, agent'.id \in 0..n + 1,
         \A q \in pend' : q.op = "tenantStore" => q.id \in tenants',
         \A q \in pend' : q \in pend \/ (q \in WalletRequest(n) /\ WalletGood(q, n)'),
         \A p, q \in pend' : (p \in pend /\ q \in pend) \/ WalletApart(p, q)
  PROVE  WalletRequests(n)'
<1>1. \A p, q \in pend' : WalletApart(p, q)
  BY DEF WalletRequests
<1>2. pend' \subseteq WalletRequest(n)
  BY DEF WalletRequests
<1>3. \A k : Spent(k, n) => Spent(k, n)' /\ k # 0
  BY StaysSpent
<1>4. ASSUME NEW q \in pend', q \in pend
      PROVE  WalletGood(q, n)'
  <2>1. q \in WalletRequest(n) /\ WalletGood(q, n)
    BY <1>4 DEF WalletRequests
  <2>2. q.op \in {"tenant", "tenantStore", "tenantInvite", "spinup"} => Spent(q.id, n)'
    BY <1>3, <2>1 DEF WalletGood
  <2>3. Making(q) => (agent'.id = q.id => agent'.wallet = NoW)
    <3> SUFFICES ASSUME Making(q), agent'.id = q.id
                 PROVE  agent'.wallet = NoW
      OBVIOUS
    <3>1. Spent(q.id, n) /\ (agent.id = q.id => agent.wallet = NoW)
      BY <2>1 DEF WalletGood, Making
    <3> QED BY <3>1 DEF AgentGoesOn
  <2>4. Unmaking(q) => Spent(q.wallet[2], n)'
    BY <1>3, <2>1 DEF WalletGood
  <2>5. q.op = "deleteAgent" => q.wallet[1] = "shared" /\ agent'.id # q.wallet[2]
    <3> SUFFICES ASSUME q.op = "deleteAgent"
                 PROVE  q.wallet[1] = "shared" /\ agent'.id # q.wallet[2]
      OBVIOUS
    <3>1. q.wallet[1] = "shared" /\ agent.id # q.wallet[2] /\ Spent(q.wallet[2], n)
      BY <2>1 DEF WalletGood, Unmaking
    <3> QED BY <3>1 DEF AgentGoesOn
  <2>6. Adding(q) => \A r \in dids' : r.rid # q.rid
    <3> SUFFICES ASSUME Adding(q), NEW r \in dids'
                 PROVE  r.rid # q.rid
      OBVIOUS
    <3>1. \A s \in dids : s.rid # q.rid
      BY <2>1 DEF WalletGood
    <3> QED BY <1>4, <3>1 DEF DidsGoOn
  <2>7. Adding(q) => Spent(q.id, n)' /\ Spent(q.rid, n)'
    BY <1>3, <2>1 DEF WalletGood
  <2>8. Adding(q) /\ agent'.id = q.id => /\ agent'.wallet # NoW
                                         /\ q.status = "DID_CREATED" => agent'.status = "DID_CREATED"
    <3> SUFFICES ASSUME Adding(q), agent'.id = q.id
                 PROVE  agent'.wallet # NoW /\ (q.status = "DID_CREATED" => agent'.status = "DID_CREATED")
      OBVIOUS
    <3>1. /\ Spent(q.id, n)
          /\ agent.id = q.id => agent.wallet # NoW /\ (q.status = "DID_CREATED" => agent.status = "DID_CREATED")
      BY <2>1 DEF WalletGood
    <3> QED BY <3>1 DEF AgentGoesOn
  <2>9. q.op = "didStore" /\ q.found # 0 => Spent(q.found, n)' /\ \A r \in dids' : r.rid = q.found => r.did = q.did
    <3> SUFFICES ASSUME q.op = "didStore", q.found # 0
                 PROVE  Spent(q.found, n)' /\ \A r \in dids' : r.rid = q.found => r.did = q.did
      OBVIOUS
    <3>1. Spent(q.found, n) /\ \A r \in dids : r.rid = q.found => r.did = q.did
      BY <2>1 DEF WalletGood
    <3>2. \A x \in pend : Adding(x) => q.found # x.rid
      BY <1>4 DEF WalletRequests, WalletApart
    <3> QED BY <1>3, <3>1, <3>2 DEF DidsGoOn
  <2>10. q.op = "primary" => /\ Spent(q.rid, n)' /\ q.previous # q.rid
                             /\ \A r \in dids' : r.rid = q.rid => r.did = q.did
    <3> SUFFICES ASSUME q.op = "primary"
                 PROVE  Spent(q.rid, n)' /\ q.previous # q.rid /\ \A r \in dids' : r.rid = q.rid => r.did = q.did
      OBVIOUS
    <3>1. Spent(q.rid, n) /\ q.previous # q.rid /\ \A r \in dids : r.rid = q.rid => r.did = q.did
      BY <2>1 DEF WalletGood
    <3>2. \A x \in pend : Adding(x) => q.rid # x.rid
      BY <1>4 DEF WalletRequests, WalletApart
    <3> QED BY <1>3, <3>1, <3>2 DEF DidsGoOn
  <2> QED BY <2>2, <2>3, <2>4, <2>5, <2>6, <2>7, <2>8, <2>9, <2>10 DEF WalletGood, Making, Unmaking, Adding
<1>5. \A q \in pend' : WalletGood(q, n)'
  BY <1>4
<1>6. \A p, q : WalletApart(p, q) => WalletApart(p, q)'
  BY DEF WalletApart, Making, Unmaking, Adding
<1> QED BY <1>1, <1>2, <1>5, <1>6 DEF WalletRequests

(* A request that comes in has ids of its own.                             *)
LEMMA NewApart ==
  ASSUME NEW n \in Nat, WalletRequests(n), NEW q,
         Making(q) => ~Spent(q.id, n), Adding(q) => ~Spent(q.rid, n), q.op # "didStore",
         Unmaking(q) => \A p \in pend : Making(p) => p.id # q.wallet[2],
         q.op = "primary" => \A p \in pend : Adding(p) => p.rid # q.rid,
         Adding(q) => q.rid # 0
  PROVE  /\ WalletApart(q, q)
         /\ \A p \in pend : WalletApart(p, q) /\ WalletApart(q, p)
<1>1. WalletApart(q, q)
  BY DEF WalletApart, Making, Unmaking, Adding
<1>2. ASSUME NEW p \in pend
      PROVE  WalletApart(p, q) /\ WalletApart(q, p)
  <2>1. WalletGood(p, n) /\ p \in WalletRequest(n)
    BY DEF WalletRequests
  <2>2. WalletApart(p, q)
    <3>1. Making(p) => Spent(p.id, n)
      BY <2>1 DEF WalletGood, Making
    <3>2. Adding(p) => Spent(p.rid, n)
      BY <2>1 DEF WalletGood
    <3> QED BY <3>1, <3>2 DEF WalletApart
  <2>3. WalletApart(q, p)
    <3>1. Making(p) => Spent(p.id, n)
      BY <2>1 DEF WalletGood, Making
    <3>2. Unmaking(p) => Spent(p.wallet[2], n)
      BY <2>1 DEF WalletGood
    <3>3. Adding(p) => Spent(p.rid, n)
      BY <2>1 DEF WalletGood
    <3>4. p.op = "primary" => Spent(p.rid, n)
      BY <2>1 DEF WalletGood
    <3>5. p.op = "didStore" => p.found = 0 \/ Spent(p.found, n)
      BY <2>1 DEF WalletGood
    <3> QED BY <3>1, <3>2, <3>3, <3>4, <3>5 DEF WalletApart
  <2> QED BY <2>2, <2>3
<1> QED BY <1>1, <1>2

(* A request that goes on keeps its ids.                                   *)
LEMMA SuccessorApart ==
  ASSUME NEW n \in Nat, WalletRequests(n), NEW req \in pend, NEW q,
         Making(q) => Making(req) /\ q.id = req.id, Adding(q) => Adding(req) /\ q.rid = req.rid,
         Unmaking(q) => Unmaking(req) /\ q.wallet = req.wallet,
         q.op = "didStore" => \A p \in pend : Adding(p) => q.found # p.rid,
         q.op # "primary"
  PROVE  /\ WalletApart(q, q)
         /\ \A p \in pend \ {req} : WalletApart(p, q) /\ WalletApart(q, p)
<1>1. WalletApart(q, q)
  BY DEF WalletApart, Making, Unmaking, Adding
<1>2. ASSUME NEW p \in pend \ {req}
      PROVE  WalletApart(p, q) /\ WalletApart(q, p)
  <2>1. WalletApart(p, req) /\ WalletApart(req, p) /\ p # req
    BY DEF WalletRequests
  <2>2. WalletApart(p, q)
    BY <2>1 DEF WalletApart
  <2>3. WalletApart(q, p)
    BY <2>1 DEF WalletApart
  <2> QED BY <2>2, <2>3
<1> QED BY <1>1, <1>2

(* A step that leaves the rows of DIDs alone.                              *)
LEMMA WalletSameDids ==
  ASSUME NEW n \in Nat, WalletIInv(n), UNCHANGED dids, agent' \in AgentRow(n), tenants' \subseteq 0..n + 1,
         used' \in BOOLEAN, started' \in 0..n, started <= started', faults' \in 0..Faults,
         AgentGoesOn(n), AgentShape(n)',
         dids # {} => agent'.id = agent.id /\ agent'.orgDid = agent.orgDid,
         \A q \in pend' : q.op = "tenantStore" => q.id \in tenants',
         \A q \in pend' : q \in pend \/ (q \in WalletRequest(n) /\ WalletGood(q, n)'),
         \A p, q \in pend' : (p \in pend /\ q \in pend) \/ WalletApart(p, q)
  PROVE  WalletIInv(n)'
<1>1. WalletTyped(n) /\ WalletRequests(n) /\ AgentShape(n) /\ DidsShape(n)
  BY DEF WalletIInv
<1>2. started \in 0..n /\ agent'.id \in 0..n + 1
  BY <1>1 DEF WalletTyped, AgentRow
<1>3. DidsGoOn
  BY DEF DidsGoOn
<1>4. WalletRequests(n)'
  BY <1>1, <1>2, <1>3, WalletRequestsKept
<1>5. WalletTyped(n)'
  BY <1>1 DEF WalletTyped
<1>6. DidsShape(n)'
  <2>1. \A r \in dids : Spent(r.rid, n)'
    BY <1>1, <1>2, StaysSpent DEF DidsShape
  <2>2. dids # {} => agent.id # 0 /\ Spent(agent.id, n) /\ agent.wallet # NoW /\ agent.status = "DID_CREATED"
    BY <1>1 DEF DidsShape, AgentShape, WalletTyped
  <2>3. dids # {} => agent'.wallet # NoW /\ agent'.status = "DID_CREATED"
    BY <2>2 DEF AgentGoesOn
  <2> QED BY <1>1, <2>1, <2>3 DEF DidsShape
<1> QED BY <1>4, <1>5, <1>6 DEF WalletIInv

(* A step that changes nothing but the requests.                           *)
LEMMA WalletQuiet ==
  ASSUME NEW n \in Nat, WalletIInv(n), UNCHANGED <<agent, dids, tenants>>,
         used' \in BOOLEAN, started' \in 0..n, started <= started', faults' \in 0..Faults,
         \A q \in pend' : q \in pend \/ (q \in WalletRequest(n) /\ WalletGood(q, n)'),
         \A p, q \in pend' : (p \in pend /\ q \in pend) \/ WalletApart(p, q)
  PROVE  WalletIInv(n)'
<1>1. WalletTyped(n) /\ WalletRequests(n) /\ AgentShape(n)
  BY DEF WalletIInv
<1>2. AgentGoesOn(n)
  BY DEF AgentGoesOn
<1>3. AgentShape(n)'
  <2>1. started \in 0..n
    BY <1>1 DEF WalletTyped
  <2>2. agent.id # 0 => Spent(agent.id, n)'
    <3>1. PICK k : k = agent.id
      OBVIOUS
    <3>2. k # 0 => Spent(k, n)
      BY <1>1, <3>1 DEF AgentShape
    <3>3. k # 0 => Spent(k, n)'
      BY <2>1, <3>2, StaysSpent
    <3> QED BY <3>1, <3>3 DEF Spent
  <2> QED BY <1>1, <2>2 DEF AgentShape
<1>4. \A q \in pend' : q.op = "tenantStore" => q.id \in tenants'
  BY <1>1 DEF WalletRequests, WalletGood
<1> QED BY <1>1, <1>2, <1>3, <1>4, WalletSameDids DEF WalletTyped

(* A request that comes in, and changes nothing yet.                       *)
LEMMA WalletEnters ==
  ASSUME NEW n \in Nat, WalletIInv(n), UNCHANGED <<agent, dids, tenants, used, faults>>, started < n,
         started' = started + 1, NEW q \in WalletRequest(n), pend' = pend \cup {q}, WalletGood(q, n)',
         ~Making(q), Adding(q) => ~Spent(q.rid, n) /\ q.rid # 0, q.op # "didStore",
         Unmaking(q) => \A p \in pend : Making(p) => p.id # q.wallet[2],
         q.op = "primary" => \A p \in pend : Adding(p) => p.rid # q.rid
  PROVE  WalletIInv(n)'
<1>1. WalletTyped(n) /\ WalletRequests(n)
  BY DEF WalletIInv
<1>2. WalletApart(q, q) /\ \A p \in pend : WalletApart(p, q) /\ WalletApart(q, p)
  BY <1>1, NewApart
<1>3. used' \in BOOLEAN /\ started' \in 0..n /\ started <= started' /\ faults' \in 0..Faults
  BY <1>1 DEF WalletTyped
<1>4. \A p, r \in pend' : (p \in pend /\ r \in pend) \/ WalletApart(p, r)
  BY <1>2
<1>5. \A r \in pend' : r \in pend \/ (r \in WalletRequest(n) /\ WalletGood(r, n)')
  OBVIOUS
<1> QED BY <1>3, <1>4, <1>5, WalletQuiet

(* A request that goes on, and changes nothing yet.                        *)
LEMMA WalletGoesOn ==
  ASSUME NEW n \in Nat, WalletIInv(n), UNCHANGED <<agent, dids, tenants, used, faults, started>>,
         NEW req \in pend, NEW q \in WalletRequest(n), pend' = (pend \ {req}) \cup {q}, WalletGood(q, n)',
         Making(q) => Making(req) /\ q.id = req.id, Adding(q) => Adding(req) /\ q.rid = req.rid,
         Unmaking(q) => Unmaking(req) /\ q.wallet = req.wallet,
         q.op = "didStore" => \A p \in pend : Adding(p) => q.found # p.rid,
         q.op # "primary"
  PROVE  WalletIInv(n)'
<1>1. WalletTyped(n) /\ WalletRequests(n)
  BY DEF WalletIInv
<1>2. WalletApart(q, q) /\ \A p \in pend \ {req} : WalletApart(p, q) /\ WalletApart(q, p)
  BY <1>1, SuccessorApart
<1>3. used' \in BOOLEAN /\ started' \in 0..n /\ started <= started' /\ faults' \in 0..Faults
  BY <1>1 DEF WalletTyped
<1>4. \A p, r \in pend' : (p \in pend /\ r \in pend) \/ WalletApart(p, r)
  BY <1>2
<1>5. \A r \in pend' : r \in pend \/ (r \in WalletRequest(n) /\ WalletGood(r, n)')
  OBVIOUS
<1> QED BY <1>3, <1>4, <1>5, WalletQuiet

(* A request that ends and changes nothing.                                *)
LEMMA WalletEnds ==
  ASSUME NEW n \in Nat, WalletIInv(n), UNCHANGED <<agent, dids, tenants, started>>, used' \in BOOLEAN,
         faults' \in 0..Faults, pend' \subseteq pend
  PROVE  WalletIInv(n)'
<1>1. started' \in 0..n /\ started <= started'
  BY DEF WalletIInv, WalletTyped
<1> QED BY <1>1, WalletQuiet

LEMMA WalletFaults ==
  ASSUME NEW l \in BOOLEAN, faults \in 0..Faults, Wallet(l)!Fault
  PROVE  faults' \in 0..Faults
BY WalletConstants DEF Wallet!Fault

-----------------------------------------------------------------------------
(* The steps that only read.                                               *)
LEMMA WalletUse ==
  ASSUME NEW l \in BOOLEAN, NEW n \in Nat, n = Requests.wallet, WalletIInv(n), Wallet(l)!Use
  PROVE  WalletIInv(n)'
<1>1. UNCHANGED <<agent, dids, tenants, started>> /\ used' \in BOOLEAN /\ pend' \subseteq pend /\ UNCHANGED faults
  BY DEF Wallet!Use
<1>2. faults' \in 0..Faults
  BY <1>1 DEF WalletIInv, WalletTyped
<1> QED BY <1>1, <1>2, WalletEnds

LEMMA WalletGetTenantToken ==
  ASSUME NEW l \in BOOLEAN, NEW n \in Nat, n = Requests.wallet, WalletIInv(n), Wallet(l)!GetTenantToken
  PROVE  WalletIInv(n)'
<1>1. PICK q : q = [op |-> "tenantToken", wallet |-> agent.wallet]
  OBVIOUS
<1>2. /\ UNCHANGED <<agent, dids, tenants, used, faults>> /\ started < n
      /\ started' = started + 1 /\ pend' = pend \cup {q}
  BY <1>1 DEF Wallet!GetTenantToken, Wallet!Begin
<1>3. agent.wallet \in KnownWallet(n) \cup {NoW}
  BY DEF WalletIInv, WalletTyped, AgentRow
<1>4. q \in WalletRequest(n) /\ q.op = "tenantToken"
  BY <1>1, <1>3 DEF WalletRequest, TokenRequest
<1>5. WalletGood(q, n)'
  BY <1>4 DEF WalletGood, Making, Unmaking, Adding
<1> QED BY <1>2, <1>4, <1>5, WalletEnters DEF Making, Unmaking, Adding

LEMMA WalletTokenCheck ==
  ASSUME NEW l \in BOOLEAN, NEW n \in Nat, n = Requests.wallet, WalletIInv(n), NEW e \in Endpoint,
         Wallet(l)!SetDedicatedAgentTokenCheck(e)
  PROVE  WalletIInv(n)'
<1>1. PICK q : q = [op |-> "token", wallet |-> agent.wallet]
  OBVIOUS
<1>2. /\ UNCHANGED <<agent, dids, tenants, used, faults>> /\ started < n
      /\ started' = started + 1 /\ pend' = pend \cup {q}
  BY <1>1 DEF Wallet!SetDedicatedAgentTokenCheck, Wallet!Begin
<1>3. agent.wallet \in KnownWallet(n) \cup {NoW}
  BY DEF WalletIInv, WalletTyped, AgentRow
<1>4. q \in WalletRequest(n) /\ q.op = "token"
  BY <1>1, <1>3 DEF WalletRequest, TokenRequest
<1>5. WalletGood(q, n)'
  BY <1>4 DEF WalletGood, Making, Unmaking, Adding
<1> QED BY <1>2, <1>4, <1>5, WalletEnters DEF Making, Unmaking, Adding

(* Only the row with the tenant's id has the tenant's wallet.              *)
LEMMA SharedWallet ==
  ASSUME NEW n \in Nat, WalletIInv(n)
  PROVE  /\ agent.wallet[1] = "shared" => agent.type = "shared"
         /\ agent.wallet # NoW => agent.id # 0 /\ Spent(agent.id, n) /\ agent.status # "none" /\ agent.wallet \in KnownWallet(n)
         /\ agent.type = "shared" => agent.wallet = <<"shared", agent.id>> /\ agent.wallet # NoW /\ agent.wallet[2] = agent.id
<1>1. WalletTyped(n) /\ AgentShape(n)
  BY DEF WalletIInv
<1>2. agent.type \in {"none", "shared", "dedicated"} /\ agent.wallet \in KnownWallet(n) \cup {NoW}
  BY <1>1 DEF WalletTyped, AgentRow
<1> QED BY <1>1, <1>2 DEF AgentShape, NoW

LEMMA WalletDeleteRead ==
  ASSUME NEW l \in BOOLEAN, NEW n \in Nat, n = Requests.wallet, WalletIInv(n), Wallet(l)!DeleteWalletRead
  PROVE  WalletIInv(n)'
<1>1. PICK q : q = [op |-> "delete", wallet |-> agent.wallet]
  OBVIOUS
<1>2. /\ UNCHANGED <<agent, dids, tenants, used, faults>> /\ started < n /\ agent.id # 0
      /\ started' = started + 1 /\ pend' = pend \cup {q}
  BY <1>1 DEF Wallet!DeleteWalletRead, Wallet!Begin
<1>3. agent.wallet \in KnownWallet(n) \cup {NoW} /\ started \in 0..n
  BY DEF WalletIInv, WalletTyped, AgentRow
<1>4. q \in WalletRequest(n) /\ q.op = "delete" /\ q.wallet = agent.wallet
  BY <1>1, <1>3 DEF WalletRequest, TokenRequest
<1>5. q.wallet[1] = "shared" => Spent(q.wallet[2], n)
  BY <1>4, SharedWallet
<1>6. q.wallet[1] = "shared" => Spent(q.wallet[2], n)'
  BY <1>2, <1>3, <1>5, StaysSpent
<1>7. WalletGood(q, n)'
  BY <1>4, <1>6 DEF WalletGood, Making, Unmaking, Adding
<1>8. q.wallet[1] = "shared" => \A p \in pend : Making(p) => p.id # q.wallet[2]
  BY <1>4, SharedWallet DEF WalletIInv, WalletRequests, WalletGood
<1> QED BY <1>2, <1>4, <1>7, <1>8, WalletEnters DEF Making, Unmaking, Adding

LEMMA WalletDidRead ==
  ASSUME NEW l \in BOOLEAN, NEW n \in Nat, n = Requests.wallet, WalletIInv(n), NEW p \in BOOLEAN,
         Wallet(l)!CreateDidRead(p)
  PROVE  WalletIInv(n)'
<1>1. PICK q : q = [op |-> "did", rid |-> started + 1, id |-> agent.id, status |-> agent.status,
                    wallet |-> agent.wallet, primary |-> p]
  OBVIOUS
<1>2. /\ UNCHANGED <<agent, dids, tenants, used, faults>> /\ started < n /\ agent.wallet # NoW
      /\ started' = started + 1 /\ pend' = pend \cup {q}
  BY <1>1 DEF Wallet!CreateDidRead, Wallet!Begin, Wallet!NoWallet, NoW
<1>3. agent.id \in 0..n + 1 /\ started \in 0..n /\ agent.status \in {"none", "WALLET_CREATED", "DID_CREATED"}
  BY DEF WalletIInv, WalletTyped, AgentRow
<1>4. agent.id # 0 /\ Spent(agent.id, n) /\ agent.status # "none" /\ agent.wallet \in KnownWallet(n)
  BY <1>2, SharedWallet
<1>5. q.op = "did" /\ q.rid = started + 1 /\ q.id = agent.id /\ q.status = agent.status
  BY <1>1
<1>6. q \in DidRequest(n)
  BY <1>1, <1>2, <1>3, <1>4 DEF DidRequest
<1>7. Spent(q.id, n)' /\ Spent(q.rid, n)' /\ ~Spent(q.rid, n) /\ q.rid # 0
  <2>1. Spent(q.id, n)
    BY <1>4, <1>5
  <2>2. \A k : Spent(k, n) => Spent(k, n)'
    BY <1>2, <1>3, StaysSpent
  <2>3. ~Spent(q.rid, n) /\ q.rid # 0
    BY <1>2, <1>3, <1>5, StaysSpent
  <2>4. \A k : k = started + 1 => Spent(k, n)'
    BY <1>2, <1>3, StaysSpent
  <2> QED BY <1>5, <2>1, <2>2, <2>3, <2>4
<1>8. \A r \in dids : r.rid # q.rid
  BY <1>7 DEF WalletIInv, DidsShape
<1>9. WalletGood(q, n)'
  BY <1>2, <1>5, <1>7, <1>8 DEF WalletGood, Making, Unmaking, Adding
<1> QED BY <1>2, <1>5, <1>6, <1>7, <1>9, WalletEnters DEF Making, Unmaking, Adding, WalletRequest

LEMMA WalletPrimaryCheck ==
  ASSUME NEW l \in BOOLEAN, NEW n \in Nat, n = Requests.wallet, WalletIInv(n), NEW d \in Did, NEW rid,
         Wallet(l)!SetPrimaryDidCheck(d, rid)
  PROVE  WalletIInv(n)'
<1>1. PICK r \in dids : r.did = d /\ r.rid = rid
  BY DEF Wallet!SetPrimaryDidCheck
<1>2. \A s \in dids : s.rid \in 0..n + 1 /\ Spent(s.rid, n) /\ (s.rid = rid => s.did = d)
  BY <1>1 DEF WalletIInv, WalletTyped, DidOfAgent, DidsShape
<1>3. rid \in 1..n + 1 /\ Spent(rid, n)
  BY <1>1, <1>2 DEF Spent
<1>4. PICK previous \in 0..n + 1 :
        /\ previous # rid
        /\ Wallet(l)!Begin([op |-> "primary", did |-> d, rid |-> rid, previous |-> previous])
  <2>1. Wallet(l)!Primary \subseteq dids
    BY DEF Wallet!Primary
  <2> DEFINE P == {s.rid : s \in Wallet(l)!Primary} \ {rid}
  <2>2. P \subseteq 0..n + 1 /\ rid \notin P /\ rid # 0
    BY <1>2, <1>3, <2>1
  <2>3. \E x \in (IF P = {} THEN {0} ELSE P) : Wallet(l)!Begin([op |-> "primary", did |-> d, rid |-> rid, previous |-> x])
    BY DEF Wallet!SetPrimaryDidCheck
  <2> HIDE DEF P
  <2> QED BY <2>2, <2>3
<1>5. PICK q : q = [op |-> "primary", did |-> d, rid |-> rid, previous |-> previous]
  OBVIOUS
<1>6. /\ UNCHANGED <<agent, dids, tenants, used, faults>> /\ started < n
      /\ started' = started + 1 /\ pend' = pend \cup {q}
  BY <1>4, <1>5 DEF Wallet!SetPrimaryDidCheck, Wallet!Begin
<1>7. q \in PrimaryRequest(n) /\ q.op = "primary" /\ q.rid = rid /\ q.did = d /\ q.previous # rid
  BY <1>3, <1>4, <1>5 DEF PrimaryRequest
<1>8. Spent(q.rid, n)'
  BY <1>3, <1>6, <1>7, StaysSpent DEF WalletIInv, WalletTyped
<1>9. WalletGood(q, n)'
  BY <1>2, <1>6, <1>7, <1>8 DEF WalletGood, Making, Unmaking, Adding
<1>10. \A p \in pend : Adding(p) => p.rid # q.rid
  BY <1>1, <1>7 DEF WalletIInv, WalletRequests, WalletGood
<1> QED BY <1>6, <1>7, <1>9, <1>10, WalletEnters DEF Making, Unmaking, Adding, WalletRequest

-----------------------------------------------------------------------------
(* The steps of createDid() before it stores.                              *)
LEMMA WalletDidAtAgent ==
  ASSUME NEW l \in BOOLEAN, NEW n \in Nat, n = Requests.wallet, WalletIInv(n), NEW d \in Did, NEW req \in pend,
         Wallet(l)!CreateDidAtAgent(req, d)
  PROVE  WalletIInv(n)'
<1>1. WalletTyped(n) /\ req \in WalletRequest(n) /\ WalletGood(req, n)
  BY DEF WalletIInv, WalletRequests
<1>2. req.op = "did" /\ UNCHANGED <<agent, dids, tenants, used, started>>
  BY DEF Wallet!CreateDidAtAgent, Wallet!Go, Wallet!End
<1>3. used' \in BOOLEAN /\ faults \in 0..Faults
  BY <1>1, <1>2 DEF WalletTyped
<1>4. CASE Wallet(l)!End(req)
  <2>1. faults' \in 0..Faults
    BY <1>3, WalletFaults DEF Wallet!CreateDidAtAgent
  <2>2. pend' \subseteq pend
    BY <1>4 DEF Wallet!End
  <2> QED BY <1>2, <1>3, <2>1, <2>2, WalletEnds
<1>5. CASE ~Wallet(l)!End(req)
  <2>1. PICK q : q = [op |-> "didFind", rid |-> req.rid, id |-> req.id, status |-> req.status,
                      primary |-> req.primary, did |-> d, home |-> agent.key]
    OBVIOUS
  <2>2. agent.key[1] = req.wallet[1] /\ pend' = (pend \ {req}) \cup {q} /\ UNCHANGED faults
    BY <1>5, <2>1 DEF Wallet!CreateDidAtAgent, Wallet!Go
  <2>3. RequestFields(req, n)
    BY <1>1, WalletRequestFields
  <2>4. agent.key \in KnownWallet(n)
    <3>1. agent.key \in KnownWallet(n) \cup {NoW} /\ req.wallet \in KnownWallet(n)
      BY <1>1, <1>2, <2>3 DEF WalletTyped, AgentRow, RequestFields
    <3>2. \A w \in KnownWallet(n) : w[1] # "none"
      BY WalletConstants DEF KnownWallet
    <3> QED BY <2>2, <3>1, <3>2 DEF NoW
  <2>5. q \in FindRequest(n) /\ q.op = "didFind" /\ q.rid = req.rid /\ q.id = req.id /\ q.status = req.status
    BY <1>2, <2>1, <2>3, <2>4 DEF FindRequest, RequestFields, Adding
  <2>6. WalletGood(q, n)'
    <3>1. /\ Spent(req.id, n) /\ Spent(req.rid, n) /\ \A r \in dids : r.rid # req.rid
          /\ agent.id = req.id => /\ agent.wallet # NoW
                                  /\ req.status = "DID_CREATED" => agent.status = "DID_CREATED"
      BY <1>1, <1>2 DEF WalletGood, Adding
    <3>2. Spent(q.id, n)' /\ Spent(q.rid, n)'
      BY <1>2, <2>5, <3>1 DEF Spent
    <3> QED BY <1>2, <2>5, <3>1, <3>2 DEF WalletGood, Making, Unmaking, Adding
  <2> QED BY <1>2, <2>2, <2>5, <2>6, WalletGoesOn DEF Making, Unmaking, Adding, WalletRequest
<1> QED BY <1>4, <1>5

LEMMA WalletDidFind ==
  ASSUME NEW l \in BOOLEAN, NEW n \in Nat, n = Requests.wallet, WalletIInv(n), NEW req \in pend,
         Wallet(l)!CreateDidFind(req)
  PROVE  WalletIInv(n)'
<1>1. WalletTyped(n) /\ req \in WalletRequest(n) /\ WalletGood(req, n) /\ DidsShape(n)
  BY DEF WalletIInv, WalletRequests
<1>2. req.op = "didFind" /\ UNCHANGED <<agent, dids, tenants, used, started, faults>>
  BY DEF Wallet!CreateDidFind, Wallet!Go
<1>3. PICK f : /\ f = 0 \/ \E r \in dids : r.did = req.did /\ r.rid = f
               /\ Wallet(l)!Go(req, [op |-> "didStore", rid |-> req.rid, id |-> req.id, status |-> req.status,
                                     primary |-> req.primary, did |-> req.did, home |-> req.home, found |-> f])
  <2> DEFINE F == {r.rid : r \in {x \in dids : x.did = req.did}}
  <2>1. \E f \in IF F = {} THEN {0} ELSE F :
          Wallet(l)!Go(req, [op |-> "didStore", rid |-> req.rid, id |-> req.id, status |-> req.status,
                             primary |-> req.primary, did |-> req.did, home |-> req.home, found |-> f])
    BY DEF Wallet!CreateDidFind
  <2>2. \A f \in F : \E r \in dids : r.did = req.did /\ r.rid = f
    OBVIOUS
  <2> HIDE DEF F
  <2> QED BY <2>1, <2>2
<1>4. PICK q : q = [op |-> "didStore", rid |-> req.rid, id |-> req.id, status |-> req.status,
                    primary |-> req.primary, did |-> req.did, home |-> req.home, found |-> f]
  OBVIOUS
<1>5. pend' = (pend \ {req}) \cup {q}
  BY <1>3, <1>4 DEF Wallet!Go
<1>6. f \in 0..n + 1 /\ (f # 0 => Spent(f, n) /\ \A r \in dids : r.rid = f => r.did = req.did)
  <2>1. \A r \in dids : r.rid \in 0..n + 1
    BY <1>1 DEF WalletTyped, DidOfAgent
  <2> QED BY <1>1, <1>3, <2>1 DEF DidsShape
<1>7. RequestFields(req, n)
  BY <1>1, WalletRequestFields
<1>8. /\ q \in StoreRequest(n) /\ q.op = "didStore" /\ q.rid = req.rid /\ q.id = req.id /\ q.status = req.status
      /\ q.found = f /\ q.did = req.did
  BY <1>2, <1>4, <1>6, <1>7 DEF StoreRequest, RequestFields, Adding
<1>9. WalletGood(q, n)'
  <2>1. /\ Spent(req.id, n) /\ Spent(req.rid, n) /\ \A r \in dids : r.rid # req.rid
        /\ agent.id = req.id => /\ agent.wallet # NoW
                                /\ req.status = "DID_CREATED" => agent.status = "DID_CREATED"
    BY <1>1, <1>2 DEF WalletGood, Adding
  <2>2. Spent(q.id, n)' /\ Spent(q.rid, n)' /\ (f # 0 => Spent(f, n)')
    BY <1>2, <1>6, <1>8, <2>1 DEF Spent
  <2> QED BY <1>2, <1>6, <1>8, <2>1, <2>2 DEF WalletGood, Making, Unmaking, Adding
<1>10. \A p \in pend : Adding(p) => q.found # p.rid
  <2> SUFFICES ASSUME NEW p \in pend, Adding(p)
               PROVE  q.found # p.rid
    OBVIOUS
  <2>1. Spent(p.rid, n) /\ \A r \in dids : r.rid # p.rid
    BY DEF WalletIInv, WalletRequests, WalletGood
  <2> QED BY <1>3, <1>8, <2>1 DEF Spent
<1> QED BY <1>2, <1>5, <1>8, <1>9, <1>10, WalletGoesOn DEF Making, Unmaking, Adding, WalletRequest

-----------------------------------------------------------------------------
(* deleteWallet().                                                         *)
LEMMA WalletDeleteAtAgent ==
  ASSUME NEW l \in BOOLEAN, NEW n \in Nat, n = Requests.wallet, WalletIInv(n), NEW req \in pend,
         Wallet(l)!DeleteWalletAtAgent(req)
  PROVE  WalletIInv(n)'
<1>1. WalletTyped(n) /\ WalletRequests(n) /\ WalletGood(req, n) /\ AgentShape(n)
  BY DEF WalletIInv, WalletRequests
<1>2. req.op = "deleteAgent" /\ UNCHANGED <<agent, dids, used, started>> /\ pend' = pend \ {req}
  BY DEF Wallet!DeleteWalletAtAgent, Wallet!End
<1>3. faults' \in 0..Faults
  <2>1. faults \in 0..Faults
    BY <1>1 DEF WalletTyped
  <2> QED BY <2>1, WalletFaults DEF Wallet!DeleteWalletAtAgent
<1>4. tenants' \subseteq tenants /\ tenants \subseteq tenants' \cup {req.wallet[2]}
  BY DEF Wallet!DeleteWalletAtAgent
<1>5. agent.id # req.wallet[2] /\ Unmaking(req)
  BY <1>1, <1>2 DEF WalletGood, Unmaking
<1>6. AgentShape(n)'
  BY <1>1, <1>2, <1>4, <1>5 DEF AgentShape, Spent
<1>7. \A q \in pend' : q.op = "tenantStore" => q.id \in tenants'
  <2> SUFFICES ASSUME NEW q \in pend, q.op = "tenantStore"
               PROVE  q.id \in tenants'
    BY <1>2
  <2>1. q.id \in tenants /\ q.id # req.wallet[2]
    BY <1>1, <1>5 DEF WalletRequests, WalletGood, WalletApart, Making
  <2> QED BY <1>4, <2>1
<1>8. AgentGoesOn(n)
  BY <1>2 DEF AgentGoesOn
<1>9. /\ agent' \in AgentRow(n) /\ tenants' \subseteq 0..n + 1 /\ used' \in BOOLEAN /\ started' \in 0..n
      /\ started <= started'
  BY <1>1, <1>2, <1>4 DEF WalletTyped
<1> QED BY <1>2, <1>3, <1>6, <1>7, <1>8, <1>9, WalletSameDids

LEMMA WalletDeleteRows ==
  ASSUME NEW l \in BOOLEAN, NEW n \in Nat, n = Requests.wallet, WalletIInv(n), NEW req \in pend,
         Wallet(l)!DeleteWalletRows(req)
  PROVE  WalletIInv(n)'
<1>1. WalletTyped(n) /\ WalletRequests(n) /\ WalletGood(req, n) /\ req \in WalletRequest(n)
  BY DEF WalletIInv, WalletRequests
<1>2. req.op = "delete" /\ UNCHANGED <<tenants, used, faults, started>>
  BY DEF Wallet!DeleteWalletRows, Wallet!End, Wallet!Go
<1>3. used' \in BOOLEAN /\ faults' \in 0..Faults /\ started \in 0..n /\ started' \in 0..n /\ started <= started'
  BY <1>1, <1>2 DEF WalletTyped
<1>4. CASE UNCHANGED <<agent, dids>> /\ Wallet(l)!End(req)
  BY <1>2, <1>3, <1>4, WalletEnds DEF Wallet!End
<1>5. CASE Wallet(l)!DeleteOrgAgentByOrg /\ ~(UNCHANGED <<agent, dids>> /\ Wallet(l)!End(req))
  <2>1. dids' = {} /\ agent'.id = 0 /\ agent'.type = "none" /\ agent'.wallet = NoW /\ agent' \in AgentRow(n)
    <3>1. agent' = [id |-> 0, type |-> "none", wallet |-> NoW, key |-> NoW, status |-> "none", orgDid |-> "none"]
      BY <1>5, WalletUnfolded DEF Wallet!DeleteOrgAgentByOrg
    <3>2. dids' = {}
      BY <1>5 DEF Wallet!DeleteOrgAgentByOrg
    <3>3. agent' \in AgentRow(n)
      BY <3>1 DEF AgentRow
    <3> QED BY <3>1, <3>2, <3>3
  <2>2. AgentShape(n)'
    BY <2>1 DEF AgentShape
  <2>3. DidsShape(n)' /\ WalletTyped(n)'
    <3>1. IsFiniteSet({}) /\ Cardinality({}) = 0 /\ Primaries({}) = {}
      BY FS_EmptySet DEF Primaries
    <3>2. Primaries(dids)' = {}
      BY <2>1 DEF Primaries
    <3>3. Cardinality(Primaries(dids))' <= 1
      BY <3>1, <3>2
    <3>4. WalletTyped(n)'
      BY <1>1, <1>2, <1>3, <2>1, <3>3 DEF WalletTyped
    <3>5. DidsShape(n)'
      BY <2>1, <3>1 DEF DidsShape
    <3> QED BY <3>4, <3>5
  <2>4. AgentGoesOn(n) /\ DidsGoOn
    BY <2>1 DEF AgentGoesOn, DidsGoOn, Spent
  <2>5. PICK q : q = [op |-> "deleteAgent", wallet |-> req.wallet]
    OBVIOUS
  <2>6. /\ \A x \in pend' : x \in pend \/ (x \in WalletRequest(n) /\ WalletGood(x, n)' /\ x.op = "deleteAgent")
        /\ \A x, y \in pend' : (x \in pend /\ y \in pend) \/ WalletApart(x, y)
    <3>1. CASE req.wallet[1] # "shared"
      BY <1>2, <1>5, <3>1 DEF Wallet!DeleteWalletRows, Wallet!End, Wallet!DeleteOrgAgentByOrg
    <3>2. CASE req.wallet[1] = "shared"
      <4>1. pend' = (pend \ {req}) \cup {q}
        BY <1>5, <2>5, <3>2 DEF Wallet!DeleteWalletRows, Wallet!Go
      <4>2. q \in TokenRequest(n) /\ q.op = "deleteAgent" /\ q.wallet = req.wallet
        <5>1. req.wallet \in KnownWallet(n) \cup {NoW}
          BY <1>1, <1>2, WalletRequestFields DEF RequestFields
        <5> QED BY <2>5, <5>1 DEF TokenRequest
      <4>3. Unmaking(q) /\ Unmaking(req) /\ ~Making(q) /\ ~Adding(q)
        BY <1>2, <3>2, <4>2 DEF Unmaking, Making, Adding
      <4>4. Spent(q.wallet[2], n)' /\ q.wallet[2] # 0
        BY <1>1, <1>2, <4>2, <4>3 DEF WalletGood, Spent
      <4>5. WalletGood(q, n)'
        BY <2>1, <3>2, <4>2, <4>3, <4>4 DEF WalletGood, Making, Adding, Unmaking
      <4>6. WalletApart(q, q) /\ \A p \in pend \ {req} : WalletApart(p, q) /\ WalletApart(q, p)
        BY <1>1, <4>2, <4>3, SuccessorApart
      <4> QED BY <4>1, <4>2, <4>5, <4>6 DEF WalletRequest
    <3> QED BY <3>1, <3>2
  <2>7. \A x \in pend' : x.op = "tenantStore" => x.id \in tenants'
    BY <1>1, <1>2, <2>6 DEF WalletRequests, WalletGood
  <2>8. WalletRequests(n)'
    BY <1>1, <1>3, <2>1, <2>4, <2>6, <2>7, WalletRequestsKept
  <2> QED BY <2>2, <2>3, <2>8 DEF WalletIInv
<1> QED BY <1>4, <1>5 DEF Wallet!DeleteWalletRows

-----------------------------------------------------------------------------
(* The row of org_agents, its wallet and its token.                        *)
LEMMA WalletRowRemoved ==
  ASSUME NEW l \in BOOLEAN, NEW n \in Nat, n = Requests.wallet, WalletIInv(n), NEW id,
         Wallet(l)!RemoveOrgAgent(id), UNCHANGED <<dids, used, started>>, pend' \subseteq pend,
         tenants \subseteq tenants', tenants' \subseteq 0..n + 1, faults' \in 0..Faults
  PROVE  WalletIInv(n)'
<1>1. WalletTyped(n) /\ WalletRequests(n) /\ AgentShape(n)
  BY DEF WalletIInv
<1>2. used' \in BOOLEAN /\ started' \in 0..n /\ started <= started'
  BY <1>1 DEF WalletTyped
<1>3. \A q \in pend' : q.op = "tenantStore" => q.id \in tenants'
  BY <1>1 DEF WalletRequests, WalletGood
<1>4. CASE UNCHANGED agent
  <2>1. AgentGoesOn(n) /\ AgentShape(n)' /\ agent' \in AgentRow(n)
    BY <1>1, <1>4 DEF AgentGoesOn, AgentShape, Spent, WalletTyped
  <2> QED BY <1>2, <1>3, <1>4, <2>1, WalletSameDids
<1>5. CASE agent' # agent
  <2>1. /\ dids = {}
        /\ agent' = [id |-> 0, type |-> "none", wallet |-> NoW, key |-> NoW, status |-> "none", orgDid |-> "none"]
    BY <1>5, WalletUnfolded DEF Wallet!RemoveOrgAgent
  <2>2. agent' \in AgentRow(n)
    BY <2>1 DEF AgentRow
  <2>3. AgentGoesOn(n) /\ AgentShape(n)'
    BY <2>1 DEF AgentGoesOn, AgentShape, Spent
  <2> QED BY <1>2, <1>3, <2>1, <2>2, <2>3, WalletSameDids
<1> QED BY <1>4, <1>5

LEMMA WalletRowCreated ==
  ASSUME NEW l \in BOOLEAN, NEW n \in Nat, n = Requests.wallet, WalletIInv(n), NEW op \in {"tenant", "spinup"},
         Wallet(l)!CreateOrgAgent(started + 1), Wallet(l)!Begin([op |-> op, id |-> started + 1]),
         UNCHANGED <<dids, tenants, used, faults>>
  PROVE  WalletIInv(n)'
<1>1. WalletTyped(n) /\ WalletRequests(n) /\ AgentShape(n) /\ DidsShape(n)
  BY DEF WalletIInv
<1>2. PICK k : k = started + 1
  OBVIOUS
<1>3. PICK q : q = [op |-> op, id |-> k]
  OBVIOUS
<1>4. started < n /\ started' = started + 1 /\ pend' = pend \cup {q} /\ started \in 0..n
  BY <1>1, <1>2, <1>3 DEF Wallet!Begin, WalletTyped
<1>5. agent.id = 0 /\ agent' = [id |-> k, type |-> "none", wallet |-> NoW, key |-> NoW, status |-> "WALLET_CREATED",
                                orgDid |-> "none"]
  BY <1>2 DEF Wallet!CreateOrgAgent, Wallet!NoRow, Wallet!NoWallet, NoW
<1>6. ~Spent(k, n) /\ Spent(k, n)' /\ k \in 1..n + 1
  BY <1>2, <1>4, StaysSpent
<1>7. q \in RowRequest(n) /\ q.op = op /\ q.id = k
  BY <1>3, <1>6 DEF RowRequest
<1>8. WalletGood(q, n)'
  BY <1>5, <1>6, <1>7 DEF WalletGood, Making, Unmaking, Adding
<1>9. WalletApart(q, q) /\ \A p \in pend : WalletApart(p, q) /\ WalletApart(q, p)
  BY <1>1, <1>6, <1>7, NewApart DEF Making, Unmaking, Adding
<1>10. AgentGoesOn(n) /\ AgentShape(n)'
  BY <1>5, <1>6 DEF AgentGoesOn, AgentShape
<1>11. agent' \in AgentRow(n)
  BY <1>5, <1>6 DEF AgentRow
<1>12. dids = {}
  BY <1>1, <1>5 DEF WalletTyped
<1>13. \A x \in pend' : x.op = "tenantStore" => x.id \in tenants'
  BY <1>1, <1>4, <1>7 DEF WalletRequests, WalletGood
<1>14. /\ used' \in BOOLEAN /\ started' \in 0..n /\ started <= started' /\ faults' \in 0..Faults
       /\ tenants' \subseteq 0..n + 1
  BY <1>1, <1>4 DEF WalletTyped
<1>15. \A x, y \in pend' : (x \in pend /\ y \in pend) \/ WalletApart(x, y)
  BY <1>4, <1>9
<1>16. \A x \in pend' : x \in pend \/ (x \in WalletRequest(n) /\ WalletGood(x, n)')
  BY <1>4, <1>7, <1>8 DEF WalletRequest
<1> QED BY <1>10, <1>11, <1>12, <1>13, <1>14, <1>15, <1>16, WalletSameDids

LEMMA WalletConfigure ==
  ASSUME NEW l \in BOOLEAN, NEW n \in Nat, n = Requests.wallet, WalletIInv(n), NEW e \in Endpoint,
         NEW d \in Did \cup {"none"}, Wallet(l)!AgentConfigure(e, d)
  PROVE  WalletIInv(n)'
<1>1. WalletTyped(n) /\ WalletRequests(n)
  BY DEF WalletIInv
<1>2. PICK k : k = started + 1
  OBVIOUS
<1>3. /\ agent.id = 0 /\ started < n /\ started' = started + 1 /\ UNCHANGED <<dids, tenants, used, pend, faults>>
      /\ agent' = [id |-> k, type |-> "dedicated", wallet |-> <<e, 0>>, key |-> <<e, 0>>, status |-> "DID_CREATED",
                   orgDid |-> d]
  BY <1>2 DEF Wallet!AgentConfigure
<1>4. ~Spent(k, n) /\ Spent(k, n)' /\ k \in 1..n + 1
  BY <1>1, <1>2, <1>3, StaysSpent DEF WalletTyped
<1>5. <<e, 0>> \in KnownWallet(n) /\ <<e, 0>> # NoW /\ <<e, 0>>[1] # "shared"
  BY WalletConstants DEF KnownWallet, NoW
<1>6. agent' \in AgentRow(n)
  BY <1>3, <1>4, <1>5 DEF AgentRow
<1>7. AgentGoesOn(n) /\ AgentShape(n)'
  BY <1>3, <1>4, <1>5 DEF AgentGoesOn, AgentShape
<1>8. dids = {}
  BY <1>1, <1>3 DEF WalletTyped
<1>9. \A x \in pend' : x.op = "tenantStore" => x.id \in tenants'
  BY <1>1, <1>3 DEF WalletRequests, WalletGood
<1>10. /\ used' \in BOOLEAN /\ started' \in 0..n /\ started <= started' /\ faults' \in 0..Faults
       /\ tenants' \subseteq 0..n + 1
  BY <1>1, <1>3 DEF WalletTyped
<1> QED BY <1>3, <1>6, <1>7, <1>8, <1>9, <1>10, WalletSameDids

(* A row gets its wallet, once: its maker is the only one.                 *)
LEMMA WalletRowStored ==
  ASSUME NEW l \in BOOLEAN, NEW n \in Nat, n = Requests.wallet, WalletIInv(n), NEW req \in pend, Making(req),
         NEW type, NEW w \in KnownWallet(n), NEW status \in {"WALLET_CREATED", "DID_CREATED"},
         \/ type = "shared" /\ w = <<"shared", req.id>> /\ req.id \in tenants
         \/ type = "dedicated" /\ w[1] # "shared" /\ w # NoW,
         Wallet(l)!StoreOrgAgentDetails(req.id, type, w, status, "none"),
         UNCHANGED <<dids, tenants, used, started, faults>>,
         \/ pend' = pend \ {req}
         \/ \E q \in RowRequest(n) : /\ q.op = "tenantInvite" /\ q.id = req.id
                                     /\ pend' = (pend \ {req}) \cup {q}
  PROVE  WalletIInv(n)'
<1>1. WalletTyped(n) /\ WalletRequests(n) /\ WalletGood(req, n) /\ AgentShape(n) /\ DidsShape(n)
  BY DEF WalletIInv, WalletRequests
<1>2. /\ agent.id = req.id /\ agent \in AgentRow(n)
      /\ agent' = [agent EXCEPT !.type = type, !.wallet = w, !.key = w, !.status = status, !.orgDid = agent.orgDid]
  BY <1>1 DEF Wallet!StoreOrgAgentDetails, WalletTyped
<1>3. agent'.id = req.id /\ agent'.type = type /\ agent'.wallet = w /\ agent'.status = status /\ w # NoW
  BY <1>2 DEF AgentRow, NoW
<1>4. agent.wallet = NoW /\ dids = {} /\ Spent(req.id, n) /\ req.id # 0
  BY <1>1, <1>2 DEF WalletGood, DidsShape, Making, Spent
<1>5. agent' \in AgentRow(n)
  BY <1>2 DEF AgentRow
<1>6. AgentShape(n)'
  <2>1. Spent(agent.id, n)'
    BY <1>2, <1>3, <1>4 DEF Spent
  <2> QED BY <1>2, <1>3, <1>4, <2>1 DEF AgentShape, NoW
<1>7. \A q \in pend' : Making(q) => q \in pend /\ q # req
  BY DEF Making
<1>8. AgentGoesOn(n)
  <2>1. \A q \in pend' : Making(q) => q.id # agent.id
    BY <1>1, <1>2, <1>7 DEF WalletRequests, WalletApart
  <2> QED BY <1>2, <1>3, <1>4, <2>1 DEF AgentGoesOn
<1>9. \A x \in pend' : x.op = "tenantStore" => x.id \in tenants'
  BY <1>1, <1>7 DEF WalletRequests, WalletGood, Making
<1>10. /\ used' \in BOOLEAN /\ started' \in 0..n /\ started <= started' /\ faults' \in 0..Faults
       /\ tenants' \subseteq 0..n + 1
  BY <1>1 DEF WalletTyped
<1>11. /\ \A x \in pend' : x \in pend \/ (x \in WalletRequest(n) /\ WalletGood(x, n)')
       /\ \A x, y \in pend' : (x \in pend /\ y \in pend) \/ WalletApart(x, y)
  <2>1. CASE pend' = pend \ {req}
    BY <2>1
  <2>2. ASSUME NEW q \in RowRequest(n), q.op = "tenantInvite", q.id = req.id, pend' = (pend \ {req}) \cup {q}
        PROVE  /\ \A x \in pend' : x \in pend \/ (x \in WalletRequest(n) /\ WalletGood(x, n)')
               /\ \A x, y \in pend' : (x \in pend /\ y \in pend) \/ WalletApart(x, y)
    <3>1. ~Making(q) /\ ~Unmaking(q) /\ ~Adding(q)
      BY <2>2 DEF Making, Unmaking, Adding
    <3>2. WalletApart(q, q) /\ \A p \in pend \ {req} : WalletApart(p, q) /\ WalletApart(q, p)
      BY <1>1, <2>2, <3>1, SuccessorApart
    <3>3. Spent(q.id, n)'
      BY <1>4, <2>2 DEF Spent
    <3>4. WalletGood(q, n)'
      BY <2>2, <3>1, <3>3 DEF WalletGood
    <3> QED BY <2>2, <3>2, <3>4 DEF WalletRequest
  <2> QED BY <2>1, <2>2
<1> QED BY <1>4, <1>5, <1>6, <1>8, <1>9, <1>10, <1>11, WalletSameDids

(* A token is stored.                                                      *)
LEMMA WalletKeyStored ==
  ASSUME NEW n \in Nat, WalletIInv(n), NEW w \in KnownWallet(n) \cup {NoW},
         agent' = agent \/ agent' = [agent EXCEPT !.key = w],
         UNCHANGED <<dids, tenants, used, started, faults>>, pend' \subseteq pend
  PROVE  WalletIInv(n)'
<1>1. WalletTyped(n) /\ WalletRequests(n) /\ AgentShape(n)
  BY DEF WalletIInv
<1>2. /\ agent'.id = agent.id /\ agent'.type = agent.type /\ agent'.wallet = agent.wallet
      /\ agent'.status = agent.status /\ agent'.orgDid = agent.orgDid /\ agent' \in AgentRow(n)
  BY <1>1 DEF WalletTyped, AgentRow
<1>3. AgentGoesOn(n) /\ AgentShape(n)'
  BY <1>1, <1>2 DEF AgentGoesOn, AgentShape, Spent
<1>4. \A x \in pend' : x.op = "tenantStore" => x.id \in tenants'
  BY <1>1 DEF WalletRequests, WalletGood
<1>5. /\ used' \in BOOLEAN /\ started' \in 0..n /\ started <= started' /\ faults' \in 0..Faults
      /\ tenants' \subseteq 0..n + 1
  BY <1>1 DEF WalletTyped
<1> QED BY <1>2, <1>3, <1>4, <1>5, WalletSameDids

LEMMA WalletCreateTenant ==
  ASSUME NEW l \in BOOLEAN, NEW n \in Nat, n = Requests.wallet, WalletIInv(n), Wallet(l)!CreateTenant
  PROVE  WalletIInv(n)'
<1>1. /\ Wallet(l)!CreateOrgAgent(started + 1) /\ Wallet(l)!Begin([op |-> "tenant", id |-> started + 1])
      /\ UNCHANGED <<dids, tenants, used, faults>>
  BY DEF Wallet!CreateTenant
<1> QED BY <1>1, WalletRowCreated

LEMMA WalletProvision ==
  ASSUME NEW l \in BOOLEAN, NEW n \in Nat, n = Requests.wallet, WalletIInv(n), Wallet(l)!ProvisionWallet
  PROVE  WalletIInv(n)'
<1>1. /\ Wallet(l)!CreateOrgAgent(started + 1) /\ Wallet(l)!Begin([op |-> "spinup", id |-> started + 1])
      /\ UNCHANGED <<dids, tenants, used, faults>>
  BY DEF Wallet!ProvisionWallet
<1> QED BY <1>1, WalletRowCreated

LEMMA WalletTenantWallet ==
  ASSUME NEW l \in BOOLEAN, NEW n \in Nat, n = Requests.wallet, WalletIInv(n), NEW req \in pend,
         Wallet(l)!CreateTenantWallet(req)
  PROVE  WalletIInv(n)'
<1>1. WalletTyped(n) /\ WalletRequests(n) /\ WalletGood(req, n) /\ req \in WalletRequest(n) /\ AgentShape(n)
  BY DEF WalletIInv, WalletRequests
<1>2. req.op = "tenant" /\ UNCHANGED <<dids, used, started>>
  BY DEF Wallet!CreateTenantWallet, Wallet!End, Wallet!Go
<1>3. req.id \in 1..n + 1 /\ Spent(req.id, n)
  BY <1>1, <1>2, WalletRequestFields DEF RequestFields, WalletGood
<1>4. /\ used' \in BOOLEAN /\ started' \in 0..n /\ started <= started' /\ tenants \subseteq 0..n + 1
      /\ faults \in 0..Faults
  BY <1>1, <1>2 DEF WalletTyped
<1>5. tenants \subseteq tenants' /\ tenants' \subseteq 0..n + 1
  <2>1. tenants \subseteq tenants' /\ tenants' \subseteq tenants \cup {req.id}
    BY DEF Wallet!CreateTenantWallet
  <2> QED BY <1>3, <1>4, <2>1
<1>6. CASE Wallet(l)!Fault /\ Wallet(l)!End(req) /\ Wallet(l)!RemoveOrgAgent(req.id)
  <2>1. faults' \in 0..Faults /\ pend' \subseteq pend
    BY <1>4, <1>6, WalletFaults DEF Wallet!End
  <2> QED BY <1>2, <1>5, <1>6, <2>1, WalletRowRemoved
<1>7. CASE ~(Wallet(l)!Fault /\ Wallet(l)!End(req) /\ Wallet(l)!RemoveOrgAgent(req.id))
  <2>1. PICK q : q = [op |-> "tenantStore", id |-> req.id]
    OBVIOUS
  <2>2. tenants' = tenants \cup {req.id} /\ UNCHANGED <<agent, faults>> /\ pend' = (pend \ {req}) \cup {q}
    BY <1>7, <2>1 DEF Wallet!CreateTenantWallet, Wallet!Go
  <2>3. q \in RowRequest(n) /\ q.op = "tenantStore" /\ q.id = req.id
    BY <1>3, <2>1 DEF RowRequest
  <2>4. AgentGoesOn(n) /\ AgentShape(n)' /\ agent' \in AgentRow(n)
    BY <1>1, <1>2, <2>2 DEF AgentGoesOn, AgentShape, Spent, WalletTyped
  <2>5. Making(q) /\ Making(req) /\ ~Unmaking(q) /\ ~Adding(q)
    BY <1>2, <2>3 DEF Making, Unmaking, Adding
  <2>6. WalletGood(q, n)'
    <3>1. Spent(q.id, n)' /\ (agent'.id = q.id => agent'.wallet = NoW)
      BY <1>1, <1>2, <1>3, <2>2, <2>3, <2>5 DEF WalletGood, Spent
    <3> QED BY <2>2, <2>3, <2>5, <3>1 DEF WalletGood
  <2>7. WalletApart(q, q) /\ \A p \in pend \ {req} : WalletApart(p, q) /\ WalletApart(q, p)
    BY <1>1, <2>3, <2>5, SuccessorApart
  <2>8. \A x, y \in pend' : (x \in pend /\ y \in pend) \/ WalletApart(x, y)
    BY <2>2, <2>7
  <2>9. \A x \in pend' : x \in pend \/ (x \in WalletRequest(n) /\ WalletGood(x, n)')
    BY <2>2, <2>3, <2>6 DEF WalletRequest
  <2>10. \A x \in pend' : x.op = "tenantStore" => x.id \in tenants'
    BY <1>1, <2>2, <2>3 DEF WalletRequests, WalletGood
  <2> QED BY <1>2, <1>4, <1>5, <2>2, <2>4, <2>8, <2>9, <2>10, WalletSameDids
<1> QED BY <1>6, <1>7

LEMMA WalletTenantStore ==
  ASSUME NEW l \in BOOLEAN, NEW n \in Nat, n = Requests.wallet, WalletIInv(n), NEW req \in pend,
         Wallet(l)!CreateTenantStore(req)
  PROVE  WalletIInv(n)'
<1>1. WalletTyped(n) /\ WalletGood(req, n) /\ req \in WalletRequest(n)
  BY DEF WalletIInv, WalletRequests
<1>2. req.op = "tenantStore" /\ UNCHANGED <<dids, tenants, used, started>>
  BY DEF Wallet!CreateTenantStore, Wallet!End, Wallet!Go
<1>3. req.id \in 1..n + 1 /\ req.id \in tenants
  BY <1>1, <1>2, WalletRequestFields DEF RequestFields, WalletGood
<1>4. tenants' \subseteq 0..n + 1 /\ faults \in 0..Faults
  BY <1>1, <1>2 DEF WalletTyped
<1>5. CASE Wallet(l)!Fault /\ Wallet(l)!End(req) /\ Wallet(l)!RemoveOrgAgent(req.id)
  <2>1. faults' \in 0..Faults /\ pend' \subseteq pend
    BY <1>4, <1>5, WalletFaults DEF Wallet!End
  <2> QED BY <1>2, <1>4, <1>5, <2>1, WalletRowRemoved
<1>6. CASE ~(Wallet(l)!Fault /\ Wallet(l)!End(req) /\ Wallet(l)!RemoveOrgAgent(req.id))
  <2>1. PICK q : q = [op |-> "tenantInvite", id |-> req.id]
    OBVIOUS
  <2>2. /\ Wallet(l)!StoreOrgAgentDetails(req.id, "shared", <<"shared", req.id>>, "WALLET_CREATED", "none")
        /\ UNCHANGED faults /\ pend' = (pend \ {req}) \cup {q}
    BY <1>6, <2>1 DEF Wallet!CreateTenantStore, Wallet!Go
  <2>3. q \in RowRequest(n) /\ q.op = "tenantInvite" /\ q.id = req.id
    BY <1>3, <2>1 DEF RowRequest
  <2>4. <<"shared", req.id>> \in KnownWallet(n) /\ Making(req)
    BY <1>2, <1>3 DEF KnownWallet, Making
  <2> QED BY <1>2, <1>3, <2>2, <2>3, <2>4, WalletRowStored
<1> QED BY <1>5, <1>6

LEMMA WalletTenantInvitation ==
  ASSUME NEW l \in BOOLEAN, NEW n \in Nat, n = Requests.wallet, WalletIInv(n), NEW req \in pend,
         Wallet(l)!CreateTenantInvitation(req)
  PROVE  WalletIInv(n)'
<1>1. /\ UNCHANGED <<dids, tenants, used, started>> /\ pend' \subseteq pend
      /\ UNCHANGED <<agent, faults>> \/ (Wallet(l)!Fault /\ Wallet(l)!RemoveOrgAgent(req.id))
  BY DEF Wallet!CreateTenantInvitation, Wallet!End
<1>2. tenants' \subseteq 0..n + 1 /\ faults \in 0..Faults /\ used' \in BOOLEAN
  BY <1>1 DEF WalletIInv, WalletTyped
<1>3. faults' \in 0..Faults
  BY <1>1, <1>2, WalletFaults
<1>4. CASE UNCHANGED agent
  BY <1>1, <1>2, <1>3, <1>4, WalletEnds
<1>5. CASE Wallet(l)!RemoveOrgAgent(req.id)
  BY <1>1, <1>2, <1>3, <1>5, WalletRowRemoved
<1> QED BY <1>1, <1>4, <1>5

LEMMA WalletSpinup ==
  ASSUME NEW l \in BOOLEAN, NEW n \in Nat, n = Requests.wallet, WalletIInv(n), NEW req \in pend,
         Wallet(l)!AgentSpinup(req)
  PROVE  WalletIInv(n)'
<1>1. req.op = "spinup" /\ UNCHANGED <<dids, tenants, used, started>> /\ pend' = pend \ {req}
  BY DEF Wallet!AgentSpinup, Wallet!End
<1>2. tenants' \subseteq 0..n + 1 /\ faults \in 0..Faults
  BY <1>1 DEF WalletIInv, WalletTyped
<1>3. CASE Wallet(l)!Fault /\ Wallet(l)!RemoveOrgAgent(req.id)
  <2>1. faults' \in 0..Faults
    BY <1>2, <1>3, WalletFaults
  <2> QED BY <1>1, <1>2, <1>3, <2>1, WalletRowRemoved
<1>4. CASE ~(Wallet(l)!Fault /\ Wallet(l)!RemoveOrgAgent(req.id))
  <2>1. PICK e \in Endpoint : /\ Wallet(l)!StoreOrgAgentDetails(req.id, "dedicated", <<e, 0>>, "DID_CREATED", "none")
                              /\ UNCHANGED faults
    BY <1>4 DEF Wallet!AgentSpinup
  <2>2. <<e, 0>> \in KnownWallet(n) /\ <<e, 0>> # NoW /\ <<e, 0>>[1] # "shared" /\ Making(req)
    BY <1>1, WalletConstants DEF KnownWallet, NoW, Making
  <2> QED BY <1>1, <2>1, <2>2, WalletRowStored
<1> QED BY <1>3, <1>4

LEMMA WalletTokens ==
  ASSUME NEW l \in BOOLEAN, NEW n \in Nat, n = Requests.wallet, WalletIInv(n), NEW req \in pend,
         Wallet(l)!UpdateTenantToken(req) \/ Wallet(l)!SetDedicatedAgentToken(req)
  PROVE  WalletIInv(n)'
<1>1. /\ req.op \in {"tenantToken", "token"} /\ pend' \subseteq pend
      /\ UNCHANGED <<dids, tenants, used, started, faults>>
  BY DEF Wallet!UpdateTenantToken, Wallet!SetDedicatedAgentToken, Wallet!End
<1>2. agent' = agent \/ agent' = [agent EXCEPT !.key = req.wallet]
  BY DEF Wallet!UpdateTenantToken, Wallet!SetDedicatedAgentToken, Wallet!UpdateVerifiedTenantToken
<1>3. req.wallet \in KnownWallet(n) \cup {NoW}
  BY <1>1, WalletRequestFields DEF RequestFields, WalletIInv, WalletRequests
<1> QED BY <1>1, <1>2, <1>3, WalletKeyStored

-----------------------------------------------------------------------------
(* The rows of org_dids.                                                   *)
LEMMA ImageIsFinite ==
  ASSUME NEW S, IsFiniteSet(S), NEW f, DOMAIN f = S, f = [x \in S |-> f[x]]
  PROVE  IsFiniteSet({f[x] : x \in S})
<1>1. f \in Surjection(S, {f[x] : x \in S})
  BY DEF Surjection
<1> QED BY <1>1, FS_Surjection

LEMMA SolePrimary ==
  ASSUME NEW S, IsFiniteSet(S), Cardinality(S) <= 1, NEW a \in S, NEW b \in S
  PROVE  a = b
<1>1. IsFiniteSet(S \ {a}) /\ Cardinality(S \ {a}) = Cardinality(S) - 1
  BY FS_RemoveElement
<1>2. Cardinality(S \ {a}) \in Nat /\ Cardinality(S) \in Nat
  BY <1>1, FS_CardinalityType
<1>3. S \ {a} = {}
  BY <1>1, <1>2, FS_EmptySet
<1> QED BY <1>3

(* A transaction that writes them, with the row of org_agents.             *)
LEMMA WalletDidsWritten ==
  ASSUME NEW n \in Nat, WalletIInv(n), UNCHANGED <<tenants, used, started, faults>>, pend' \subseteq pend,
         agent' \in AgentRow(n), agent'.id = agent.id, agent'.type = agent.type, agent'.wallet = agent.wallet,
         agent.id # 0, agent.wallet # NoW,
         agent'.status = "DID_CREATED",
         dids' \subseteq DidOfAgent(n), IsFiniteSet(dids'), Cardinality(Primaries(dids')) <= 1,
         \A r \in dids' : r.agentId = agent.id /\ Spent(r.rid, n) /\ (r.primary => r.did = agent'.orgDid),
         \A r, s \in dids' : r.rid = s.rid => r.did = s.did, DidsGoOn
  PROVE  WalletIInv(n)'
<1>1. WalletTyped(n) /\ WalletRequests(n) /\ AgentShape(n)
  BY DEF WalletIInv
<1>2. started \in 0..n /\ started' \in 0..n /\ started <= started' /\ agent'.id \in 0..n + 1
  BY <1>1 DEF WalletTyped, AgentRow
<1>3. WalletTyped(n)'
  <2>1. Cardinality(Primaries(dids))' <= 1
    BY DEF Primaries
  <2> QED BY <1>1, <2>1 DEF WalletTyped
<1>4. AgentShape(n)'
  BY <1>1 DEF AgentShape, Spent
<1>5. AgentGoesOn(n)
  BY DEF AgentGoesOn
<1>6. \A q \in pend' : q.op = "tenantStore" => q.id \in tenants'
  BY <1>1 DEF WalletRequests, WalletGood
<1>7. WalletRequests(n)'
  BY <1>1, <1>2, <1>5, <1>6, WalletRequestsKept
<1>8. DidsShape(n)'
  <2>1. \A r \in dids' : Spent(r.rid, n)'
    BY DEF Spent
  <2> QED BY <2>1 DEF DidsShape
<1> QED BY <1>3, <1>4, <1>7, <1>8 DEF WalletIInv

(* What createDid() leaves: the rows there were, flags apart, and its own. *)
LEMMA PersistedRows ==
  ASSUME NEW l \in BOOLEAN, NEW n \in Nat, dids \subseteq DidOfAgent(n), IsFiniteSet(dids), NEW req,
         RequestFields(req, n), req.op = "didStore"
  PROVE  /\ IsFiniteSet(Wallet(l)!Persisted(req))
         /\ \A s \in Wallet(l)!Persisted(req) :
              /\ s \in DidOfAgent(n)
              /\ \/ req.found = 0 /\ s = [rid |-> req.rid, did |-> req.did, agentId |-> req.id, primary |-> req.primary,
                                          home |-> req.home]
                 \/ \E r \in dids : /\ s.rid = r.rid /\ s.did = r.did /\ s.agentId = r.agentId /\ s.home = r.home
                                    /\ s.primary => \/ req.found # 0 /\ r.rid = req.found /\ req.primary
                                                    \/ r.primary /\ (req.primary => r.did = req.did)
<1> DEFINE demote == [r \in dids |-> IF req.primary /\ r.did # req.did THEN [r EXCEPT !.primary = FALSE] ELSE r]
           D == {demote[r] : r \in dids}
           flag == [r \in D |-> IF r.rid = req.found THEN [r EXCEPT !.primary = req.primary] ELSE r]
           new == [rid |-> req.rid, did |-> req.did, agentId |-> req.id, primary |-> req.primary, home |-> req.home]
<1>1. Wallet(l)!Persisted(req) = IF req.found = 0 THEN D \cup {new} ELSE {flag[r] : r \in D}
  BY DEF Wallet!Persisted
<1>2. new \in DidOfAgent(n)
  BY DEF DidOfAgent, RequestFields, Adding
<1>3. IsFiniteSet(D)
  <2>1. DOMAIN demote = dids /\ demote = [r \in dids |-> demote[r]]
    OBVIOUS
  <2> HIDE DEF demote
  <2> QED BY <2>1, ImageIsFinite
<1>4. \A s \in D : /\ s \in DidOfAgent(n)
                   /\ \E r \in dids : /\ s.rid = r.rid /\ s.did = r.did /\ s.agentId = r.agentId /\ s.home = r.home
                                      /\ s.primary => r.primary /\ (req.primary => r.did = req.did)
  BY DEF DidOfAgent
<1> HIDE DEF D
<1>5. IsFiniteSet({flag[r] : r \in D})
  <2>1. DOMAIN flag = D /\ flag = [r \in D |-> flag[r]]
    OBVIOUS
  <2> HIDE DEF flag
  <2> QED BY <1>3, <2>1, ImageIsFinite
<1>6. IsFiniteSet(D \cup {new})
  BY <1>3, FS_AddElement
<1>7. ASSUME NEW r \in D
      PROVE  /\ flag[r] \in DidOfAgent(n)
             /\ flag[r].rid = r.rid /\ flag[r].did = r.did /\ flag[r].agentId = r.agentId /\ flag[r].home = r.home
             /\ flag[r].primary => (r.rid = req.found /\ req.primary) \/ r.primary
  BY <1>4 DEF DidOfAgent, RequestFields, Adding
<1> HIDE DEF flag, new
<1>8. CASE req.found = 0
  BY <1>1, <1>2, <1>4, <1>6, <1>8 DEF new
<1>9. CASE req.found # 0
  <2>1. \A s \in {flag[r] : r \in D} :
          /\ s \in DidOfAgent(n)
          /\ \E r \in dids : /\ s.rid = r.rid /\ s.did = r.did /\ s.agentId = r.agentId /\ s.home = r.home
                             /\ s.primary => \/ r.rid = req.found /\ req.primary
                                             \/ r.primary /\ (req.primary => r.did = req.did)
    <3> SUFFICES ASSUME NEW x \in D
                 PROVE  /\ flag[x] \in DidOfAgent(n)
                        /\ \E r \in dids : /\ flag[x].rid = r.rid /\ flag[x].did = r.did
                                           /\ flag[x].agentId = r.agentId /\ flag[x].home = r.home
                                           /\ flag[x].primary => \/ r.rid = req.found /\ req.primary
                                                                 \/ r.primary /\ (req.primary => r.did = req.did)
      OBVIOUS
    <3> QED BY <1>4, <1>7
  <2> QED BY <1>1, <1>5, <1>9, <2>1
<1> QED BY <1>8, <1>9

LEMMA WalletCreateDid ==
  ASSUME NEW l \in BOOLEAN, NEW n \in Nat, n = Requests.wallet, WalletIInv(n), NEW req \in pend,
         Wallet(l)!CreateDid(req)
  PROVE  WalletIInv(n)'
<1>1. /\ WalletTyped(n) /\ WalletRequests(n) /\ WalletGood(req, n) /\ req \in WalletRequest(n)
      /\ AgentShape(n) /\ DidsShape(n)
  BY DEF WalletIInv, WalletRequests
<1>2. req.op = "didStore" /\ UNCHANGED <<tenants, used, started, faults>> /\ pend' = pend \ {req}
  BY DEF Wallet!CreateDid, Wallet!End
<1>3. used' \in BOOLEAN /\ faults' \in 0..Faults /\ dids \subseteq DidOfAgent(n) /\ agent \in AgentRow(n)
  BY <1>1, <1>2 DEF WalletTyped
<1>4. CASE UNCHANGED <<agent, dids>>
  BY <1>2, <1>3, <1>4, WalletEnds
<1>5. CASE Wallet(l)!PersistDidWithUpdates(req)
  <2>1. RequestFields(req, n)
    BY <1>1, WalletRequestFields
  <2>2. req.did \in Did /\ req.primary \in BOOLEAN
    BY <1>2, <2>1 DEF RequestFields, Adding
  <2>3. dids' = Wallet(l)!Persisted(req)
    BY <1>5 DEF Wallet!PersistDidWithUpdates
  <2>4. /\ IsFiniteSet(dids')
        /\ \A s \in dids' :
             /\ s \in DidOfAgent(n)
             /\ \/ req.found = 0 /\ s = [rid |-> req.rid, did |-> req.did, agentId |-> req.id, primary |-> req.primary,
                                         home |-> req.home]
                \/ \E r \in dids : /\ s.rid = r.rid /\ s.did = r.did /\ s.agentId = r.agentId /\ s.home = r.home
                                   /\ s.primary => \/ req.found # 0 /\ r.rid = req.found /\ req.primary
                                                   \/ r.primary /\ (req.primary => r.did = req.did)
    BY <1>1, <1>2, <1>3, <2>1, <2>3, PersistedRows DEF DidsShape
  <2>5. /\ req.found # 0 => \E r \in dids : r.rid = req.found
        /\ req.found = 0 => agent.id = req.id
        /\ agent' = [agent EXCEPT !.orgDid = IF req.primary THEN req.did ELSE @,
                                  !.status = IF req.status = "WALLET_CREATED" THEN "DID_CREATED" ELSE @]
    BY <1>5 DEF Wallet!PersistDidWithUpdates
  <2>6. /\ agent' \in AgentRow(n) /\ agent'.id = agent.id /\ agent'.type = agent.type /\ agent'.wallet = agent.wallet
        /\ agent'.status = IF req.status = "WALLET_CREATED" THEN "DID_CREATED" ELSE agent.status
        /\ agent'.orgDid = IF req.primary THEN req.did ELSE agent.orgDid
    BY <1>3, <2>2, <2>5 DEF AgentRow
  <2>7. Cardinality(Primaries(dids')) <= 1
    <3>1. Primaries(dids') = {r \in Wallet(l)!Persisted(req) : r.primary}
      BY <2>3 DEF Primaries
    <3> QED BY <1>5, <3>1, WalletCardinality DEF Wallet!PersistDidWithUpdates
  <2>8. /\ Spent(req.rid, n) /\ Spent(req.id, n) /\ Adding(req) /\ \A r \in dids : r.rid # req.rid
        /\ agent.id = req.id => /\ agent.wallet # NoW
                                /\ req.status = "DID_CREATED" => agent.status = "DID_CREATED"
        /\ req.found # 0 => \A r \in dids : r.rid = req.found => r.did = req.did
        /\ req.status \in {"WALLET_CREATED", "DID_CREATED"}
    BY <1>1, <1>2, <2>1 DEF WalletGood, Adding, RequestFields
  <2>9. agent.id # 0 /\ agent.wallet # NoW /\ agent'.status = "DID_CREATED"
    <3>1. CASE req.found = 0
      BY <2>5, <2>6, <2>8, <3>1 DEF Spent
    <3>2. CASE req.found # 0
      BY <1>1, <2>5, <2>6, <3>2 DEF DidsShape, WalletTyped
    <3> QED BY <3>1, <3>2
  <2>10. \A s \in dids' : s.agentId = agent.id /\ Spent(s.rid, n)
    BY <1>1, <2>4, <2>5, <2>8 DEF WalletTyped, DidsShape
  <2>11. \A s \in dids' : s.primary => s.did = agent'.orgDid
    <3> SUFFICES ASSUME NEW s \in dids', s.primary
                 PROVE  s.did = agent'.orgDid
      OBVIOUS
    <3>1. CASE s = [rid |-> req.rid, did |-> req.did, agentId |-> req.id, primary |-> req.primary, home |-> req.home]
      BY <2>6, <3>1
    <3>2. CASE \E r \in dids : /\ s.did = r.did
                               /\ \/ req.found # 0 /\ r.rid = req.found /\ req.primary
                                  \/ r.primary /\ (req.primary => r.did = req.did)
      BY <1>1, <2>6, <2>8, <3>2 DEF DidsShape
    <3> QED BY <2>4, <3>1, <3>2
  <2>12. \A r, s \in dids' : r.rid = s.rid => r.did = s.did
    <3>1. \A s \in dids' : \/ s.rid = req.rid /\ s.did = req.did
                           \/ \E r \in dids : s.rid = r.rid /\ s.did = r.did
      BY <2>4
    <3> QED BY <1>1, <2>8, <3>1 DEF DidsShape
  <2>13. DidsGoOn
    <3> SUFFICES ASSUME NEW s \in dids', ~\E r \in dids : r.rid = s.rid /\ r.did = s.did
                 PROVE  /\ \E x \in pend : Adding(x) /\ x.rid = s.rid
                        /\ \A q \in pend' : q \in pend /\ (Adding(q) => q.rid # s.rid)
      BY DEF DidsGoOn
    <3>1. s.rid = req.rid
      BY <2>4
    <3>2. \A q \in pend' : Adding(q) => q.rid # req.rid
      BY <1>1, <1>2, <2>8 DEF WalletRequests, WalletApart
    <3> QED BY <1>2, <2>8, <3>1, <3>2
  <2>14. dids' \subseteq DidOfAgent(n) /\ pend' \subseteq pend
    BY <1>2, <2>4
  <2> QED BY <1>2, <2>4, <2>6, <2>7, <2>9, <2>10, <2>11, <2>12, <2>13, <2>14, WalletDidsWritten
<1> QED BY <1>4, <1>5 DEF Wallet!CreateDid

LEMMA WalletSetPrimary ==
  ASSUME NEW l \in BOOLEAN, NEW n \in Nat, n = Requests.wallet, WalletIInv(n), NEW req \in pend,
         Wallet(l)!SetPrimaryDid(req)
  PROVE  WalletIInv(n)'
<1>1. /\ WalletTyped(n) /\ WalletRequests(n) /\ WalletGood(req, n) /\ req \in WalletRequest(n)
      /\ AgentShape(n) /\ DidsShape(n)
  BY DEF WalletIInv, WalletRequests
<1>2. req.op = "primary" /\ UNCHANGED <<tenants, used, started, faults>> /\ pend' = pend \ {req}
  BY DEF Wallet!SetPrimaryDid, Wallet!End
<1>3. used' \in BOOLEAN /\ faults' \in 0..Faults /\ dids \subseteq DidOfAgent(n) /\ agent \in AgentRow(n)
  BY <1>1, <1>2 DEF WalletTyped
<1>4. CASE UNCHANGED <<agent, dids>>
  BY <1>2, <1>3, <1>4, WalletEnds
<1>5. CASE Wallet(l)!SetOrgsPrimaryDid(req)
  <2> DEFINE flag == [r \in dids |-> [r EXCEPT !.primary = CASE r.rid = req.rid -> TRUE
                                                             [] r.rid = req.previous -> FALSE
                                                             [] OTHER -> @]]
  <2>1. RequestFields(req, n)
    BY <1>1, WalletRequestFields
  <2>2. req.did \in Did /\ req.rid \in 1..n + 1
    BY <1>2, <2>1 DEF RequestFields
  <2>3. dids' = {flag[r] : r \in dids} /\ agent' = [agent EXCEPT !.orgDid = req.did]
    BY <1>5 DEF Wallet!SetOrgsPrimaryDid
  <2>4. Cardinality(Primaries(dids')) <= 1
    <3>1. Primaries(dids') = {r \in {flag[r] : r \in dids} : r.primary}
      BY <2>3 DEF Primaries
    <3> QED BY <1>5, <3>1, WalletCardinality DEF Wallet!SetOrgsPrimaryDid
  <2>5. PICK target \in dids : target.rid = req.rid
    BY <1>5, <2>2 DEF Wallet!SetOrgsPrimaryDid
  <2>6. ASSUME NEW r \in dids
        PROVE  /\ flag[r] \in DidOfAgent(n) /\ flag[r].rid = r.rid /\ flag[r].did = r.did
               /\ flag[r].agentId = r.agentId /\ flag[r].home = r.home
               /\ r.rid = req.rid => flag[r].primary
    <3> DEFINE b == CASE r.rid = req.rid -> TRUE
                      [] r.rid = req.previous -> FALSE
                      [] OTHER -> r.primary
    <3>1. r \in DidOfAgent(n) /\ r.primary \in BOOLEAN
      BY <1>3 DEF DidOfAgent
    <3>2. b \in BOOLEAN /\ (r.rid = req.rid => b)
      <4>1. req.previous # req.rid
        BY <1>1, <1>2 DEF WalletGood
      <4>2. CASE r.rid = req.rid
        BY <4>1, <4>2
      <4>3. CASE r.rid = req.previous
        BY <4>1, <4>3
      <4>4. CASE r.rid # req.rid /\ r.rid # req.previous
        BY <3>1, <4>4
      <4> QED BY <4>2, <4>3, <4>4
    <3>3. flag[r] = [r EXCEPT !.primary = b]
      OBVIOUS
    <3> HIDE DEF b, flag
    <3> QED BY <3>1, <3>2, <3>3 DEF DidOfAgent
  <2>7. IsFiniteSet(dids')
    <3>1. DOMAIN flag = dids /\ flag = [r \in dids |-> flag[r]]
      OBVIOUS
    <3> HIDE DEF flag
    <3> QED BY <1>1, <2>3, <3>1, ImageIsFinite DEF DidsShape
  <2> HIDE DEF flag
  <2>8. \A s \in dids' : /\ s \in DidOfAgent(n)
                         /\ \E r \in dids : s.rid = r.rid /\ s.did = r.did /\ s.agentId = r.agentId /\ s.home = r.home
    BY <2>3, <2>6
  <2>9. IsFiniteSet(Primaries(dids')) /\ flag[target] \in Primaries(dids') /\ flag[target].did = req.did
    <3>1. Primaries(dids') \in SUBSET dids'
      BY DEF Primaries
    <3>2. target.did = req.did
      BY <1>1, <1>2, <2>5 DEF WalletGood
    <3>3. flag[target] \in Primaries(dids')
      BY <2>3, <2>5, <2>6 DEF Primaries
    <3> QED BY <2>5, <2>6, <2>7, <3>1, <3>2, <3>3, FS_Subset
  <2>10. \A s \in dids' : s.primary => s.did = req.did
    <3> SUFFICES ASSUME NEW s \in dids', s.primary
                 PROVE  s.did = req.did
      OBVIOUS
    <3>1. s \in Primaries(dids')
      BY DEF Primaries
    <3> QED BY <2>4, <2>9, <3>1, SolePrimary
  <2>11. /\ agent' \in AgentRow(n) /\ agent'.id = agent.id /\ agent'.type = agent.type /\ agent'.wallet = agent.wallet
         /\ agent'.status = agent.status /\ agent'.orgDid = req.did
    BY <1>3, <2>2, <2>3 DEF AgentRow
  <2>12. agent.id # 0 /\ agent.wallet # NoW /\ agent'.status = "DID_CREATED"
    BY <1>1, <2>5, <2>11 DEF DidsShape, WalletTyped
  <2>13. \A s \in dids' : s.agentId = agent.id /\ Spent(s.rid, n)
    BY <1>1, <2>8 DEF WalletTyped, DidsShape
  <2>14. \A r, s \in dids' : r.rid = s.rid => r.did = s.did
    BY <1>1, <2>8 DEF DidsShape
  <2>15. DidsGoOn
    BY <2>8 DEF DidsGoOn
  <2>16. dids' \subseteq DidOfAgent(n) /\ pend' \subseteq pend
    BY <1>2, <2>8
  <2> QED BY <1>2, <2>4, <2>7, <2>10, <2>11, <2>12, <2>13, <2>14, <2>15, <2>16, WalletDidsWritten
<1> QED BY <1>4, <1>5 DEF Wallet!SetPrimaryDid

-----------------------------------------------------------------------------
(* Tokens, and the wallets that DIDs are created in.                       *)
LEMMA KeysKept ==
  ASSUME NEW n \in Nat, WalletIInv(n), KeysFit, agent'.key = agent'.wallet,
         \/ agent'.id = agent.id /\ (agent'.wallet = agent.wallet \/ agent.wallet = NoW)
         \/ ~Spent(agent'.id, n),
         \A q \in pend' : \/ q \in pend
                          \/ /\ q.op # "tenantToken"
                             /\ q.op \in {"didFind", "didStore"} /\ agent'.id = q.id => q.home = agent'.wallet,
         \A r \in dids' : r.home = agent'.wallet
  PROVE  KeysFit'
<1>1. ASSUME NEW q \in pend', q \in pend
      PROVE  /\ q.op # "tenantToken"
             /\ q.op \in {"didFind", "didStore"} /\ agent'.id = q.id => q.home = agent'.wallet
  <2>1. q.op # "tenantToken" /\ (q.op \in {"didFind", "didStore"} /\ agent.id = q.id => q.home = agent.wallet)
    BY <1>1 DEF KeysFit
  <2>2. q.op \in {"didFind", "didStore"} => Spent(q.id, n) /\ (agent.id = q.id => agent.wallet # NoW)
    BY <1>1 DEF WalletIInv, WalletRequests, WalletGood, Adding
  <2> QED BY <2>1, <2>2
<1> QED BY <1>1 DEF KeysFit

LEMMA KeysQuiet ==
  ASSUME NEW n \in Nat, WalletIInv(n), KeysFit, UNCHANGED <<agent, dids>>,
         \A q \in pend' : q \in pend \/ q.op \notin {"tenantToken", "didFind", "didStore"}
  PROVE  KeysFit'
BY DEF KeysFit

LEMMA KeysRowRemoved ==
  ASSUME NEW l \in BOOLEAN, NEW n \in Nat, WalletIInv(n), KeysFit, NEW id, Wallet(l)!RemoveOrgAgent(id),
         UNCHANGED dids, \A q \in pend' : q \in pend \/ q.op \notin {"tenantToken", "didFind", "didStore"}
  PROVE  KeysFit'
<1>1. CASE UNCHANGED agent
  BY <1>1, KeysQuiet
<1>2. CASE agent' # agent
  <2>1. dids = {} /\ agent'.id = 0 /\ agent'.key = agent'.wallet
    BY <1>2 DEF Wallet!RemoveOrgAgent, Wallet!NoRow
  <2>2. ~Spent(agent'.id, n)
    BY <2>1 DEF Spent
  <2> QED BY <2>1, <2>2, KeysKept
<1> QED BY <1>1, <1>2

LEMMA KeysRowCreated ==
  ASSUME NEW l \in BOOLEAN, NEW n \in Nat, n = Requests.wallet, WalletIInv(n), KeysFit,
         \/ Wallet(l)!CreateTenant \/ Wallet(l)!ProvisionWallet
         \/ \E e \in Endpoint, d \in Did \cup {"none"} : Wallet(l)!AgentConfigure(e, d)
  PROVE  KeysFit'
<1>1. /\ agent.id = 0 /\ agent'.id = started + 1 /\ agent'.key = agent'.wallet /\ UNCHANGED dids /\ started < n
      /\ \A q \in pend' : q \in pend \/ q.op \in {"tenant", "spinup"}
  <2>1. ASSUME NEW op \in {"tenant", "spinup"}, Wallet(l)!CreateOrgAgent(started + 1), UNCHANGED dids,
               Wallet(l)!Begin([op |-> op, id |-> started + 1])
        PROVE  /\ agent.id = 0 /\ agent'.id = started + 1 /\ agent'.key = agent'.wallet /\ UNCHANGED dids /\ started < n
               /\ \A q \in pend' : q \in pend \/ q.op \in {"tenant", "spinup"}
    <3>1. agent.id = 0 /\ agent'.id = started + 1 /\ agent'.key = agent'.wallet
      BY <2>1 DEF Wallet!CreateOrgAgent, Wallet!NoRow
    <3> QED BY <2>1, <3>1 DEF Wallet!Begin
  <2>2. CASE Wallet(l)!CreateTenant
    BY <2>1, <2>2 DEF Wallet!CreateTenant
  <2>3. CASE Wallet(l)!ProvisionWallet
    BY <2>1, <2>3 DEF Wallet!ProvisionWallet
  <2>4. ASSUME NEW e \in Endpoint, NEW d \in Did \cup {"none"}, Wallet(l)!AgentConfigure(e, d)
        PROVE  /\ agent.id = 0 /\ agent'.id = started + 1 /\ agent'.key = agent'.wallet /\ UNCHANGED dids /\ started < n
               /\ \A q \in pend' : q \in pend \/ q.op \in {"tenant", "spinup"}
    BY <2>4 DEF Wallet!AgentConfigure
  <2> QED BY <2>2, <2>3, <2>4
<1>2. dids = {} /\ started \in 0..n
  BY <1>1 DEF WalletIInv, WalletTyped
<1>3. ~Spent(agent'.id, n)
  BY <1>1, <1>2 DEF Spent
<1> QED BY <1>1, <1>2, <1>3, KeysKept

LEMMA KeysRowStored ==
  ASSUME NEW l \in BOOLEAN, NEW n \in Nat, WalletIInv(n), KeysFit, NEW req \in pend, Making(req),
         NEW type, NEW w, NEW status, Wallet(l)!StoreOrgAgentDetails(req.id, type, w, status, "none"),
         UNCHANGED dids, \A q \in pend' : q \in pend \/ q.op = "tenantInvite"
  PROVE  KeysFit'
<1>1. agent \in AgentRow(n) /\ WalletGood(req, n) /\ DidsShape(n)
  BY DEF WalletIInv, WalletRequests, WalletTyped
<1>2. agent.id = req.id /\ agent'.id = agent.id /\ agent'.key = agent'.wallet
  BY <1>1 DEF Wallet!StoreOrgAgentDetails, AgentRow
<1>3. agent.wallet = NoW /\ dids = {}
  BY <1>1, <1>2 DEF WalletGood, DidsShape
<1> QED BY <1>2, <1>3, KeysKept

LEMMA KeysDidAtAgent ==
  ASSUME NEW l \in BOOLEAN, NEW n \in Nat, WalletIInv(n), KeysFit, NEW req \in pend,
         Wallet(l)!CreateDidFind(req) \/ \E d \in Did : Wallet(l)!CreateDidAtAgent(req, d)
  PROVE  KeysFit'
<1>1. UNCHANGED <<agent, dids>>
  BY DEF Wallet!CreateDidAtAgent, Wallet!CreateDidFind
<1>2. \A q \in pend' : \/ q \in pend
                       \/ /\ q.op # "tenantToken"
                          /\ q.op \in {"didFind", "didStore"} /\ agent.id = q.id => q.home = agent.wallet
  <2>1. CASE \E d \in Did : Wallet(l)!CreateDidAtAgent(req, d)
    <3>1. \A q \in pend' : q \in pend \/ (q.op = "didFind" /\ q.home = agent.key)
      BY <2>1 DEF Wallet!CreateDidAtAgent, Wallet!Go, Wallet!End
    <3> QED BY <3>1 DEF KeysFit
  <2>2. CASE Wallet(l)!CreateDidFind(req)
    <3>1. req.op = "didFind" /\ \A q \in pend' : q \in pend \/ (q.op = "didStore" /\ q.home = req.home /\ q.id = req.id)
      BY <2>2 DEF Wallet!CreateDidFind, Wallet!Go
    <3> QED BY <3>1 DEF KeysFit
  <2> QED BY <2>1, <2>2
<1> QED BY <1>1, <1>2 DEF KeysFit

LEMMA KeysDidsWritten ==
  ASSUME NEW l \in BOOLEAN, NEW n \in Nat, WalletIInv(n), KeysFit, NEW req \in pend,
         Wallet(l)!CreateDid(req) \/ Wallet(l)!SetPrimaryDid(req)
  PROVE  KeysFit'
<1>1. WalletTyped(n) /\ DidsShape(n) /\ RequestFields(req, n)
  BY WalletRequestFields DEF WalletIInv, WalletRequests
<1>2. pend' \subseteq pend
  BY DEF Wallet!CreateDid, Wallet!SetPrimaryDid, Wallet!End
<1>3. CASE UNCHANGED <<agent, dids>>
  BY <1>2, <1>3, KeysQuiet
<1>4. CASE req.op = "didStore" /\ Wallet(l)!PersistDidWithUpdates(req)
  <2>1. agent'.id = agent.id /\ agent'.wallet = agent.wallet /\ agent'.key = agent.key
    BY <1>1, <1>4 DEF Wallet!PersistDidWithUpdates, WalletTyped, AgentRow
  <2>2. dids' = Wallet(l)!Persisted(req) /\ (req.found = 0 => agent.id = req.id)
    BY <1>4 DEF Wallet!PersistDidWithUpdates
  <2>3. \A s \in dids' : \/ req.found = 0 /\ s.home = req.home
                         \/ \E r \in dids : s.home = r.home
    <3>1. \A s \in Wallet(l)!Persisted(req) :
            \/ req.found = 0 /\ s = [rid |-> req.rid, did |-> req.did, agentId |-> req.id, primary |-> req.primary,
                                     home |-> req.home]
            \/ \E r \in dids : s.home = r.home
      BY <1>1, <1>4, PersistedRows DEF WalletTyped, DidsShape
    <3> QED BY <2>2, <3>1
  <2>4. agent.id = req.id => req.home = agent.wallet
    BY <1>4 DEF KeysFit
  <2>5. \A s \in dids' : s.home = agent'.wallet
    BY <2>1, <2>2, <2>3, <2>4 DEF KeysFit
  <2> QED BY <1>2, <2>1, <2>5, KeysKept DEF KeysFit
<1>5. CASE Wallet(l)!SetOrgsPrimaryDid(req)
  <2>1. agent'.id = agent.id /\ agent'.wallet = agent.wallet /\ agent'.key = agent.key
    BY <1>1, <1>5 DEF Wallet!SetOrgsPrimaryDid, WalletTyped, AgentRow
  <2>2. \A s \in dids' : \E r \in dids : s.home = r.home
    BY <1>1, <1>5 DEF Wallet!SetOrgsPrimaryDid, WalletTyped, DidOfAgent
  <2> QED BY <1>2, <2>1, <2>2, KeysKept DEF KeysFit
<1> QED BY <1>3, <1>4, <1>5 DEF Wallet!CreateDid, Wallet!SetPrimaryDid

(* The steps that begin a request.                                         *)
LEMMA KeysBegin ==
  ASSUME NEW l \in BOOLEAN, NEW n \in Nat, n = Requests.wallet, WalletIInv(n), KeysFit,
         \/ Wallet(l)!GetTenantToken \/ Wallet(l)!DeleteWalletRead \/ Wallet(l)!Use
         \/ \E e \in Endpoint : Wallet(l)!SetDedicatedAgentTokenCheck(e)
         \/ \E p \in BOOLEAN : Wallet(l)!CreateDidRead(p)
         \/ \E d \in Did, rid \in Wallet(l)!Id : Wallet(l)!SetPrimaryDidCheck(d, rid)
  PROVE  KeysFit'
<1>1. CASE Wallet(l)!GetTenantToken
  <2>1. agent.type = "shared" /\ agent.key = NoW
    BY <1>1 DEF Wallet!GetTenantToken, Wallet!NoWallet, NoW
  <2> QED BY <2>1, SharedWallet DEF KeysFit
<1>2. CASE Wallet(l)!DeleteWalletRead \/ Wallet(l)!Use
  BY <1>2, KeysQuiet DEF Wallet!DeleteWalletRead, Wallet!Use, Wallet!Begin
<1>3. CASE \E e \in Endpoint : Wallet(l)!SetDedicatedAgentTokenCheck(e)
  BY <1>3, KeysQuiet DEF Wallet!SetDedicatedAgentTokenCheck, Wallet!Begin
<1>4. CASE \E p \in BOOLEAN : Wallet(l)!CreateDidRead(p)
  BY <1>4, KeysQuiet DEF Wallet!CreateDidRead, Wallet!Begin
<1>5. CASE \E d \in Did, rid \in Wallet(l)!Id : Wallet(l)!SetPrimaryDidCheck(d, rid)
  <2>1. UNCHANGED <<agent, dids>> /\ \A q \in pend' : q \in pend \/ q.op = "primary"
    BY <1>5 DEF Wallet!SetPrimaryDidCheck, Wallet!Begin
  <2> QED BY <2>1, KeysQuiet
<1> QED BY <1>1, <1>2, <1>3, <1>4, <1>5

(* The steps of a request.                                                 *)
LEMMA KeysSteps ==
  ASSUME NEW l \in BOOLEAN, NEW n \in Nat, n = Requests.wallet, WalletIInv(n), KeysFit, NEW req \in pend,
         Wallet(l)!Steps(req)
  PROVE  KeysFit'
<1>1. CASE Wallet(l)!CreateTenantWallet(req)
  <2>1. CASE Wallet(l)!RemoveOrgAgent(req.id) /\ Wallet(l)!End(req)
    BY <1>1, <2>1, KeysRowRemoved DEF Wallet!CreateTenantWallet, Wallet!End
  <2>2. CASE ~(Wallet(l)!RemoveOrgAgent(req.id) /\ Wallet(l)!End(req))
    BY <1>1, <2>2, KeysQuiet DEF Wallet!CreateTenantWallet, Wallet!Go
  <2> QED BY <2>1, <2>2
<1>2. CASE Wallet(l)!CreateTenantStore(req)
  <2>1. CASE Wallet(l)!RemoveOrgAgent(req.id) /\ Wallet(l)!End(req)
    BY <1>2, <2>1, KeysRowRemoved DEF Wallet!CreateTenantStore, Wallet!End
  <2>2. CASE ~(Wallet(l)!RemoveOrgAgent(req.id) /\ Wallet(l)!End(req))
    <3>1. /\ Wallet(l)!StoreOrgAgentDetails(req.id, "shared", <<"shared", req.id>>, "WALLET_CREATED", "none")
          /\ UNCHANGED dids /\ \A q \in pend' : q \in pend \/ q.op = "tenantInvite"
      BY <1>2, <2>2 DEF Wallet!CreateTenantStore, Wallet!Go
    <3>2. Making(req)
      BY <1>2 DEF Wallet!CreateTenantStore, Making
    <3> QED BY <3>1, <3>2, KeysRowStored
  <2> QED BY <2>1, <2>2
<1>3. CASE Wallet(l)!CreateTenantInvitation(req)
  <2>1. /\ UNCHANGED dids /\ pend' \subseteq pend
        /\ UNCHANGED agent \/ Wallet(l)!RemoveOrgAgent(req.id)
    BY <1>3 DEF Wallet!CreateTenantInvitation, Wallet!End
  <2>2. CASE UNCHANGED agent
    BY <2>1, <2>2, KeysQuiet
  <2>3. CASE Wallet(l)!RemoveOrgAgent(req.id)
    BY <2>1, <2>3, KeysRowRemoved
  <2> QED BY <2>1, <2>2, <2>3
<1>4. CASE Wallet(l)!AgentSpinup(req)
  <2>1. UNCHANGED dids /\ pend' \subseteq pend /\ Making(req)
    BY <1>4 DEF Wallet!AgentSpinup, Wallet!End, Making
  <2>2. CASE Wallet(l)!RemoveOrgAgent(req.id)
    BY <2>1, <2>2, KeysRowRemoved
  <2>3. CASE ~Wallet(l)!RemoveOrgAgent(req.id)
    <3>1. PICK e \in Endpoint : Wallet(l)!StoreOrgAgentDetails(req.id, "dedicated", <<e, 0>>, "DID_CREATED", "none")
      BY <1>4, <2>3 DEF Wallet!AgentSpinup
    <3> QED BY <2>1, <3>1, KeysRowStored
  <2> QED BY <2>2, <2>3
<1>5. CASE Wallet(l)!UpdateTenantToken(req)
  BY <1>5 DEF Wallet!UpdateTenantToken, KeysFit
<1>6. CASE Wallet(l)!CreateDidFind(req) \/ \E d \in Did : Wallet(l)!CreateDidAtAgent(req, d)
  BY <1>6, KeysDidAtAgent
<1>7. CASE Wallet(l)!CreateDid(req) \/ Wallet(l)!SetPrimaryDid(req)
  BY <1>7, KeysDidsWritten
<1>8. CASE Wallet(l)!SetDedicatedAgentToken(req)
  <2>1. agent \in AgentRow(n)
    BY DEF WalletIInv, WalletTyped
  <2>2. /\ agent'.id = agent.id /\ agent'.wallet = agent.wallet /\ agent'.key = agent.wallet
        /\ UNCHANGED dids /\ pend' \subseteq pend
    BY <1>8, <2>1 DEF Wallet!SetDedicatedAgentToken, Wallet!UpdateVerifiedTenantToken, Wallet!End, KeysFit, AgentRow
  <2> QED BY <2>2, KeysKept DEF KeysFit
<1>9. CASE Wallet(l)!DeleteWalletRows(req)
  <2>1. \A q \in pend' : q \in pend \/ q.op = "deleteAgent"
    BY <1>9 DEF Wallet!DeleteWalletRows, Wallet!Go, Wallet!End
  <2>2. CASE UNCHANGED <<agent, dids>>
    BY <2>1, <2>2, KeysQuiet
  <2>3. CASE Wallet(l)!DeleteOrgAgentByOrg
    <3>1. dids' = {} /\ agent'.id = 0 /\ agent'.key = agent'.wallet
      BY <2>3 DEF Wallet!DeleteOrgAgentByOrg, Wallet!NoRow
    <3>2. ~Spent(agent'.id, n)
      BY <3>1 DEF Spent
    <3> QED BY <2>1, <3>1, <3>2, KeysKept
  <2> QED BY <1>9, <2>2, <2>3 DEF Wallet!DeleteWalletRows
<1>10. CASE Wallet(l)!DeleteWalletAtAgent(req)
  BY <1>10, KeysQuiet DEF Wallet!DeleteWalletAtAgent, Wallet!End
<1> QED BY <1>1, <1>2, <1>3, <1>4, <1>5, <1>6, <1>7, <1>8, <1>9, <1>10 DEF Wallet!Steps

-----------------------------------------------------------------------------
LEMMA WalletSteps ==
  ASSUME NEW l \in BOOLEAN, NEW n \in Nat, n = Requests.wallet, WalletIInv(n), NEW req \in pend, Wallet(l)!Steps(req)
  PROVE  WalletIInv(n)'
<1>1. CASE Wallet(l)!CreateTenantWallet(req)
  BY <1>1, WalletTenantWallet
<1>2. CASE Wallet(l)!CreateTenantStore(req)
  BY <1>2, WalletTenantStore
<1>3. CASE Wallet(l)!CreateTenantInvitation(req)
  BY <1>3, WalletTenantInvitation
<1>4. CASE Wallet(l)!AgentSpinup(req)
  BY <1>4, WalletSpinup
<1>5. CASE Wallet(l)!UpdateTenantToken(req) \/ Wallet(l)!SetDedicatedAgentToken(req)
  BY <1>5, WalletTokens
<1>6. CASE \E d \in Did : Wallet(l)!CreateDidAtAgent(req, d)
  BY <1>6, WalletDidAtAgent
<1>7. CASE Wallet(l)!CreateDidFind(req)
  BY <1>7, WalletDidFind
<1>8. CASE Wallet(l)!CreateDid(req)
  BY <1>8, WalletCreateDid
<1>9. CASE Wallet(l)!SetPrimaryDid(req)
  BY <1>9, WalletSetPrimary
<1>10. CASE Wallet(l)!DeleteWalletRows(req)
  BY <1>10, WalletDeleteRows
<1>11. CASE Wallet(l)!DeleteWalletAtAgent(req)
  BY <1>11, WalletDeleteAtAgent
<1> QED BY <1>1, <1>2, <1>3, <1>4, <1>5, <1>6, <1>7, <1>8, <1>9, <1>10, <1>11 DEF Wallet!Steps

LEMMA WalletNext ==
  ASSUME NEW l \in BOOLEAN, NEW n \in Nat, n = Requests.wallet, WalletIInv(n), Wallet(l)!Next
  PROVE  WalletIInv(n)' /\ (KeysFit => KeysFit')
<1>1. CASE Wallet(l)!CreateTenant
  BY <1>1, WalletCreateTenant, KeysRowCreated
<1>2. CASE Wallet(l)!ProvisionWallet
  BY <1>2, WalletProvision, KeysRowCreated
<1>3. CASE Wallet(l)!GetTenantToken
  BY <1>3, WalletGetTenantToken, KeysBegin
<1>4. CASE Wallet(l)!DeleteWalletRead
  BY <1>4, WalletDeleteRead, KeysBegin
<1>5. CASE Wallet(l)!Use
  BY <1>5, WalletUse, KeysBegin
<1>6. CASE \E e \in Endpoint : Wallet(l)!SetDedicatedAgentTokenCheck(e)
  BY <1>6, WalletTokenCheck, KeysBegin
<1>7. CASE \E e \in Endpoint, d \in Did \cup {"none"} : Wallet(l)!AgentConfigure(e, d)
  BY <1>7, WalletConfigure, KeysRowCreated
<1>8. CASE \E p \in BOOLEAN : Wallet(l)!CreateDidRead(p)
  BY <1>8, WalletDidRead, KeysBegin
<1>9. CASE \E d \in Did, rid \in Wallet(l)!Id : Wallet(l)!SetPrimaryDidCheck(d, rid)
  <2>1. WalletIInv(n)'
    BY <1>9, WalletPrimaryCheck
  <2>2. KeysFit => KeysFit'
    BY <1>9, KeysBegin
  <2> QED BY <2>1, <2>2
<1>10. CASE \E req \in pend : Wallet(l)!Steps(req)
  BY <1>10, WalletSteps, KeysSteps
<1> QED BY <1>1, <1>2, <1>3, <1>4, <1>5, <1>6, <1>7, <1>8, <1>9, <1>10 DEF Wallet!Next

LEMMA WalletInit ==
  ASSUME NEW l \in BOOLEAN, NEW n \in Nat, n = Requests.wallet, Wallet(l)!Init
  PROVE  WalletIInv(n) /\ (~l => KeysFit)
<1>1. dids = {} /\ used = FALSE /\ pend = {} /\ started = 0 /\ faults = 0
  BY DEF Wallet!Init
<1>2. Cardinality(Primaries(dids)) <= 1
  <2>1. Primaries(dids) = {}
    BY <1>1 DEF Primaries
  <2> QED BY <2>1, FS_EmptySet
<1>3. WalletRequests(n) /\ DidsShape(n)
  BY <1>1, FS_EmptySet DEF WalletRequests, DidsShape
<1>4. CASE l
  <2>1. /\ agent = [id |-> n + 1, type |-> "shared", wallet |-> <<"shared", n + 1>>, key |-> NoW,
                    status |-> "DID_CREATED", orgDid |-> "none"]
        /\ tenants = {n + 1}
    BY <1>4 DEF Wallet!Init, Wallet!LegacyRow, Wallet!NoRow, Wallet!NoWallet, NoW
  <2>2. agent \in AgentRow(n)
    BY <2>1 DEF AgentRow, KnownWallet
  <2>3. AgentShape(n)
    BY <2>1 DEF AgentShape, Spent, NoW
  <2>4. WalletTyped(n)
    <3>1. dids \subseteq DidOfAgent(n) /\ used \in BOOLEAN /\ \A r \in dids : r.agentId = agent.id /\ agent.id # 0
      BY <1>1
    <3>2. tenants \subseteq 0..n + 1 /\ started \in 0..n /\ faults \in 0..Faults
      BY <1>1, <2>1, WalletConstants
    <3> QED BY <1>2, <2>2, <3>1, <3>2 DEF WalletTyped
  <2> QED BY <1>4, <1>3, <2>3, <2>4 DEF WalletIInv
<1>5. CASE ~l
  <2>1. /\ agent = [id |-> 0, type |-> "none", wallet |-> NoW, key |-> NoW, status |-> "none", orgDid |-> "none"]
        /\ tenants = {}
    BY <1>5 DEF Wallet!Init, Wallet!NoRow, Wallet!NoWallet, NoW
  <2>2. agent \in AgentRow(n)
    BY <2>1 DEF AgentRow
  <2>3. AgentShape(n)
    BY <2>1 DEF AgentShape
  <2>4. KeysFit
    BY <1>1, <2>1 DEF KeysFit
  <2>5. WalletTyped(n)
    <3>1. dids \subseteq DidOfAgent(n) /\ used \in BOOLEAN /\ \A r \in dids : r.agentId = agent.id /\ agent.id # 0
      BY <1>1
    <3>2. tenants \subseteq 0..n + 1 /\ started \in 0..n /\ faults \in 0..Faults
      BY <1>1, <2>1, WalletConstants
    <3> QED BY <1>2, <2>2, <3>1, <3>2 DEF WalletTyped
  <2> QED BY <1>3, <2>3, <2>4, <2>5 DEF WalletIInv
<1> QED BY <1>4, <1>5

LEMMA WalletStutter ==
  ASSUME NEW n \in Nat, UNCHANGED <<walletVars, pend, started, faults>>
  PROVE  /\ WalletIInv(n) => WalletIInv(n)'
         /\ KeysFit => KeysFit'
<1> USE DEF walletVars
<1>1. WalletTyped(n) => WalletTyped(n)'
  BY DEF WalletTyped
<1>2. WalletRequests(n) => WalletRequests(n)'
  BY DEF WalletRequests, WalletGood, WalletApart, Making, Unmaking, Adding, Spent
<1>3. AgentShape(n) => AgentShape(n)'
  BY DEF AgentShape, Spent
<1>4. DidsShape(n) => DidsShape(n)'
  BY DEF DidsShape, Spent
<1> QED BY <1>1, <1>2, <1>3, <1>4 DEF WalletIInv, KeysFit

LEMMA WalletMeans ==
  ASSUME NEW l \in BOOLEAN, WalletIInv(Requests.wallet)
  PROVE  /\ Wallet(l)!TypeOK /\ Wallet(l)!PrimaryMatchesAgent /\ Wallet(l)!RowHasTenant /\ Wallet(l)!StatusFollowsDids
         /\ KeysFit => Wallet(l)!DidsInTheirWallet /\ Wallet(l)!TokenFitsAgent
<1>1. Wallet(l)!TypeOK
  BY WalletUnfolded DEF WalletIInv
<1>2. Wallet(l)!PrimaryMatchesAgent /\ Wallet(l)!StatusFollowsDids
  BY DEF Wallet!PrimaryMatchesAgent, Wallet!Primary, Wallet!StatusFollowsDids, WalletIInv, DidsShape
<1>3. Wallet(l)!RowHasTenant
  BY DEF Wallet!RowHasTenant, WalletIInv, AgentShape
<1>4. KeysFit => Wallet(l)!DidsInTheirWallet /\ Wallet(l)!TokenFitsAgent
  BY DEF Wallet!DidsInTheirWallet, Wallet!TokenFitsAgent, KeysFit
<1> QED BY <1>1, <1>2, <1>3, <1>4

LEMMA WalletsInductive ==
  /\ Init => WalletsIInv
  /\ WalletsIInv /\ [Next]_vars => WalletsIInv'
<1>1. Requests.wallet \in Nat
  BY WalletConstants
<1>2. Init => WalletsIInv
  <2> SUFFICES ASSUME Init, part \in {"wallet", "legacy"}
               PROVE  WalletIInv(Requests.wallet) /\ (part = "wallet" => KeysFit)
    BY DEF WalletsIInv
  <2>1. \/ part = "wallet" /\ Wallet(FALSE)!Init
        \/ part = "legacy" /\ Wallet(TRUE)!Init
    BY SalesApart DEF Init, OtherParts
  <2> QED BY <1>1, <2>1, WalletInit
<1>3. WalletsIInv /\ [Next]_vars => WalletsIInv'
  <2> SUFFICES ASSUME WalletsIInv, [Next]_vars, part' \in {"wallet", "legacy"}
               PROVE  WalletIInv(Requests.wallet)' /\ (part' = "wallet" => KeysFit')
    BY DEF WalletsIInv
  <2>1. /\ part' = part
        /\ \/ part = "wallet" /\ Wallet(FALSE)!Next
           \/ part = "legacy" /\ Wallet(TRUE)!Next
           \/ UNCHANGED <<walletVars, pend, started, faults>>
    BY SalesApart DEF Next, vars, OtherParts
  <2>2. WalletIInv(Requests.wallet) /\ (part = "wallet" => KeysFit)
    BY <2>1 DEF WalletsIInv
  <2> QED BY <1>1, <2>1, <2>2, WalletNext, WalletStutter
<1> QED BY <1>2, <1>3

(* The wallet of an organization, for any number of requests, faults,     *)
(* DIDs and agents: org_agents and the primary row of org_dids name the    *)
(* same DID, and the row of a shared wallet has its tenant, whatever       *)
(* createTenant(), walletProvision(), createDid(), setPrimaryDid() and     *)
(* deleteWallet() read before others replaced the row.  Where no tenant is *)
(* left from before tokens were stored, a DID is also listed under the     *)
(* wallet that holds its keys and a dedicated agent's token was verified   *)
(* against it.                                                             *)
THEOREM WalletsStaySafe == Spec => []WalletInv
<1>1. Init => WalletsIInv
  BY WalletsInductive
<1>2. WalletsIInv /\ [Next]_vars => WalletsIInv'
  BY WalletsInductive
<1>3. WalletsIInv => WalletInv
  BY WalletMeans DEF WalletsIInv, WalletInv
<1> QED BY <1>1, <1>2, <1>3, PTL DEF Spec
=============================================================================

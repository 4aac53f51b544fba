---------------------------- MODULE Oid4vpVerifiers ----------------------------
(***************************************************************************)
(* OpenID4VP verifiers and presentations (apps/oid4vc-verification).  A    *)
(* verifier has a record in the wallet of its organization and a row here; *)
(* every handler reads the row, calls the agent and then writes.  What     *)
(* happens in a verification session comes as a webhook of the agent,      *)
(* which a shared agent posts for all its tenants.                         *)
(***************************************************************************)
EXTENDS Naturals, FiniteSets

CONSTANTS Org, PublicId,
          Shared,        \* organizations whose wallet is a tenant
          Overlap,       \* handlers may interleave
          Ordered,       \* posts arrive in the order they were sent
          MaxRequests,   \* bound: handlers that start
          MaxFaults      \* bound: calls of the agent or the database that fail

VerifiersAssumption ==
  /\ IsFiniteSet(Org) /\ IsFiniteSet(PublicId) /\ Shared \subseteq Org
  /\ Overlap \in BOOLEAN /\ Ordered \in BOOLEAN /\ MaxRequests \in Nat /\ MaxFaults \in Nat

VARIABLES verifiers,       \* rows of oid4vp_verifier
          agentVerifiers,  \* records of the wallets
          exchanges,       \* verification sessions of the agents
          events,          \* posts on their way
          presentations,   \* rows of oid4vp_presentations
          torn,            \* history: verifiers the agent changed and the row did not follow
          pend, started, faults

vars == <<verifiers, agentVerifiers, exchanges, events, presentations, torn, pend, started, faults>>

Verifier == [id : 1..MaxRequests, public : PublicId, org : Org, metadata : 1..MaxRequests]
Stage == 1..3    \* RequestCreated, RequestUriRetrieved, ResponseVerified
Exchange == [id : 1..MaxRequests, public : PublicId, org : Org, stage : Stage]

(* The shape of the state: verifierId and verificationSessionId are unique. *)
TypeOK ==
  /\ verifiers \subseteq Verifier /\ agentVerifiers \subseteq Verifier
  /\ exchanges \subseteq Exchange /\ events \subseteq Exchange /\ presentations \subseteq Exchange
  /\ \A S \in {verifiers, agentVerifiers, exchanges, presentations} : \A v, w \in S : v.id = w.id => v = w
  /\ torn \subseteq 1..MaxRequests /\ started \in 0..MaxRequests /\ faults \in 0..MaxFaults

Init == /\ verifiers = {} /\ agentVerifiers = {} /\ exchanges = {} /\ events = {} /\ presentations = {}
        /\ torn = {} /\ pend = {} /\ started = 0 /\ faults = 0

Begin(req) == /\ Overlap \/ pend = {}
              /\ started < MaxRequests /\ started' = started + 1
              /\ pend' = pend \cup {req}
Go(req, next) == req \in pend /\ pend' = (pend \ {req}) \cup {next} /\ UNCHANGED started
End(req) == req \in pend /\ pend' = pend \ {req} /\ UNCHANGED started
Refused(req) == faults < MaxFaults /\ faults' = faults + 1 /\ End(req)
AtAgent(o, p) == {v \in agentVerifiers : v.org = o /\ v.public = p}

-----------------------------------------------------------------------------
(* Mutant: only the organization's own verifiers are looked at.            *)
CreateVerifierOwn(o, p) ==
  /\ ~\E v \in verifiers : v.public = p /\ v.org = o
  /\ Begin([op |-> "create", verifier |-> [id |-> started + 1, public |-> p, org |-> o, metadata |-> started + 1]])
  /\ UNCHANGED <<verifiers, agentVerifiers, exchanges, events, presentations, torn, faults>>
(* oid4vpCreateVerifier(): the public id is free on the whole platform.    *)
CreateVerifier(o, p) ==
  /\ ~\E v \in verifiers : v.public = p
  /\ Begin([op |-> "create", verifier |-> [id |-> started + 1, public |-> p, org |-> o, metadata |-> started + 1]])
  /\ UNCHANGED <<verifiers, agentVerifiers, exchanges, events, presentations, torn, faults>>
(* The agent knows the ids of one wallet: 409.                             *)
CreateAtAgent(req) ==
  /\ req.op = "create"
  /\ \/ /\ AtAgent(req.verifier.org, req.verifier.public) = {}
        /\ agentVerifiers' = agentVerifiers \cup {req.verifier}
        /\ Go(req, [op |-> "save", verifier |-> req.verifier]) /\ UNCHANGED faults
     \/ /\ AtAgent(req.verifier.org, req.verifier.public) # {}
        /\ End(req) /\ UNCHANGED <<agentVerifiers, faults>>
     \/ Refused(req) /\ UNCHANGED agentVerifiers
  /\ UNCHANGED <<verifiers, exchanges, events, presentations, torn>>
SaveVerifier(req) ==
  /\ req.op = "save" /\ End(req)
  /\ verifiers' = verifiers \cup {req.verifier}
  /\ UNCHANGED <<agentVerifiers, exchanges, events, presentations, torn, faults>>

(* oid4vpUpdateVerifier(): the agent is asked by the public id, the row is *)
(* written by its own.                                                     *)
UpdateVerifier(v) ==
  /\ Begin([op |-> "update", verifier |-> v, metadata |-> started + 1])
  /\ UNCHANGED <<verifiers, agentVerifiers, exchanges, events, presentations, torn, faults>>
(* Mutant: a refused update is written all the same.                       *)
UpdateAnyway(req) ==
  /\ req.op = "update" /\ Go(req, [req EXCEPT !.op = "write"])
  /\ \/ /\ agentVerifiers' = {IF v \in AtAgent(req.verifier.org, req.verifier.public)
                              THEN [v EXCEPT !.metadata = req.metadata] ELSE v : v \in agentVerifiers}
        /\ UNCHANGED faults
     \/ faults < MaxFaults /\ faults' = faults + 1 /\ UNCHANGED agentVerifiers
  /\ UNCHANGED <<verifiers, exchanges, events, presentations, torn>>
UpdateAtAgent(req) ==
  /\ req.op = "update"
  /\ \/ /\ AtAgent(req.verifier.org, req.verifier.public) # {}
        /\ agentVerifiers' = {IF v \in AtAgent(req.verifier.org, req.verifier.public)
                              THEN [v EXCEPT !.metadata = req.metadata] ELSE v : v \in agentVerifiers}
        /\ Go(req, [req EXCEPT !.op = "write"]) /\ UNCHANGED faults
     \/ /\ AtAgent(req.verifier.org, req.verifier.public) = {}
        /\ End(req) /\ UNCHANGED <<agentVerifiers, faults>>
     \/ Refused(req) /\ UNCHANGED agentVerifiers
  /\ UNCHANGED <<verifiers, exchanges, events, presentations, torn>>
WriteVerifier(req) ==
  /\ req.op = "write" /\ End(req)
  /\ verifiers' = {IF v.id = req.verifier.id THEN [v EXCEPT !.metadata = req.metadata] ELSE v : v \in verifiers}
  /\ UNCHANGED <<agentVerifiers, exchanges, events, presentations, torn, faults>>

(* deleteVerifierById(): the agent first, then the row.  An agent that     *)
(* does not know the verifier answers 404, and the row stays.              *)
DeleteVerifier(v) ==
  /\ Begin([op |-> "delete", verifier |-> v])
  /\ UNCHANGED <<verifiers, agentVerifiers, exchanges, events, presentations, torn, faults>>
(* Mutant: the row goes although the agent refused.                        *)
DeleteAnyway(req) ==
  /\ req.op = "delete" /\ Go(req, [req EXCEPT !.op = "remove"])
  /\ \/ agentVerifiers' = {v \in agentVerifiers : v.id # req.verifier.id} /\ UNCHANGED faults
     \/ faults < MaxFaults /\ faults' = faults + 1 /\ UNCHANGED agentVerifiers
  /\ UNCHANGED <<verifiers, exchanges, events, presentations, torn>>
DeleteAtAgent(req) ==
  /\ req.op = "delete"
  /\ \/ /\ \E v \in agentVerifiers : v.id = req.verifier.id
        /\ agentVerifiers' = {v \in agentVerifiers : v.id # req.verifier.id}
        /\ Go(req, [req EXCEPT !.op = "remove"]) /\ UNCHANGED faults
     \/ /\ ~\E v \in agentVerifiers : v.id = req.verifier.id
        /\ End(req) /\ UNCHANGED <<agentVerifiers, faults>>
     \/ Refused(req) /\ UNCHANGED agentVerifiers
  /\ UNCHANGED <<verifiers, exchanges, events, presentations, torn>>
RemoveVerifier(req) ==
  /\ req.op = "remove" /\ End(req)
  /\ verifiers' = {v \in verifiers : v.id # req.verifier.id}
  /\ UNCHANGED <<agentVerifiers, exchanges, events, presentations, torn, faults>>

(* The agent has done what it was asked, and its answer is lost or the     *)
(* write fails: the handler ends and nothing takes the change back.        *)
RowLeftBehind(req) ==
  /\ req.op \in {"save", "write", "remove"} /\ Refused(req)
  /\ torn' = torn \cup {req.verifier.id}
  /\ UNCHANGED <<verifiers, agentVerifiers, exchanges, events, presentations>>

-----------------------------------------------------------------------------
(* oid4vpCreateVerificationSession() and                                   *)
(* createIntentBasedVerificationPresentation(): the request is made for    *)
(* the public id of the row that was read.  Certificates has the signer,   *)
(* EcosystemIntents the template of the intent.                            *)
CreateSession(v) ==
  /\ Begin([op |-> "session", id |-> started + 1, verifier |-> v])
  /\ UNCHANGED <<verifiers, agentVerifiers, exchanges, events, presentations, torn, faults>>
SessionAtAgent(req) ==
  /\ req.op = "session"
  /\ \/ /\ AtAgent(req.verifier.org, req.verifier.public) # {}
        /\ LET e == [id |-> req.id, public |-> req.verifier.public, org |-> req.verifier.org, stage |-> 1]
           IN exchanges' = exchanges \cup {e} /\ events' = events \cup {e}
        /\ End(req) /\ UNCHANGED faults
     \/ /\ AtAgent(req.verifier.org, req.verifier.public) = {}
        /\ End(req) /\ UNCHANGED <<exchanges, events, faults>>
     \/ Refused(req) /\ UNCHANGED <<exchanges, events>>
  /\ UNCHANGED <<verifiers, agentVerifiers, presentations, torn>>
(* The holder's wallet answers; the agent posts every change.              *)
Advance(e) ==
  /\ e.stage < 3
  /\ LET f == [e EXCEPT !.stage = e.stage + 1]
     IN exchanges' = (exchanges \ {e}) \cup {f} /\ events' = events \cup {f}
  /\ UNCHANGED <<verifiers, agentVerifiers, presentations, torn, pend, started, faults>>

(* Mutant: the path decides.                                               *)
OwnerOfPath(e, path) == path
(* The path of the post names the organization of the agent; for a tenant  *)
(* that is the platform's, and the tenant of the body decides.             *)
Owner(e, path) == IF e.org \in Shared THEN e.org ELSE path
(* Mutant: the first post is kept.                                         *)
StoredFirst(e, org) ==
  IF \E r \in presentations : r.id = e.id THEN presentations ELSE presentations \cup {[e EXCEPT !.org = org]}
(* storeOid4vpPresentationDetails(): one row per session; a later post     *)
(* changes the state and nothing else.                                     *)
Stored(e, org) ==
  IF \E r \in presentations : r.id = e.id
  THEN {IF r.id = e.id THEN [r EXCEPT !.stage = e.stage] ELSE r : r \in presentations}
  ELSE presentations \cup {[e EXCEPT !.org = org]}
Webhook(e, path) ==
  /\ e.org \notin Shared => path = e.org
  /\ Ordered => \A f \in events : f.id = e.id => f.stage >= e.stage
  /\ presentations' = Stored(e, Owner(e, path))
  /\ events' = events \ {e}
  /\ UNCHANGED <<verifiers, agentVerifiers, exchanges, torn, pend, started, faults>>

Steps(req) ==
  \/ CreateAtAgent(req) \/ SaveVerifier(req) \/ UpdateAtAgent(req) \/ WriteVerifier(req)
  \/ DeleteAtAgent(req) \/ RemoveVerifier(req) \/ RowLeftBehind(req) \/ SessionAtAgent(req)
Next ==
  \/ \E o \in Org, p \in PublicId : CreateVerifier(o, p)
  \/ \E v \in verifiers : UpdateVerifier(v) \/ DeleteVerifier(v) \/ CreateSession(v)
  \/ \E req \in pend : Steps(req)
  \/ \E e \in exchanges : Advance(e)
  \/ \E e \in events, path \in Org : Webhook(e, path)

Spec == Init /\ [][Next]_vars

-----------------------------------------------------------------------------
(* One request at a time, the rows are the records of the wallets, with    *)
(* the metadata the agent serves, also after calls the agent refused       *)
(* (oid4vpCreateVerifier, oid4vpUpdateVerifier, deleteVerifierById).  Only *)
(* a verifier whose row was left behind differs.                           *)
Whole(S) == {v \in S : v.id \notin torn}
VerifiersMatchAgent == pend = {} => Whole(verifiers) = Whole(agentVerifiers)

(* A public id names one verifier of the platform, although each agent     *)
(* knows the ids of its own wallet alone (getVerifiersByPublicVerifierId). *)
PublicIdUnique == \A v, w \in verifiers : v.public = w.public => v = w

(* A presentation is kept for the organization whose wallet ran the        *)
(* session, under the verifier it was made for, whoever's agent posts it   *)
(* and in whatever order (oid4vpPresentationWebhook).                      *)
PresentationOfSession ==
  \A r \in presentations : \E e \in exchanges : /\ e.id = r.id /\ e.org = r.org /\ e.public = r.public
                                                /\ r.stage <= e.stage

(* Posts that come in order leave the row in the state of the session.     *)
PresentationSettled ==
  \A e \in exchanges : (\A f \in events : f.id # e.id) => e \in presentations
=============================================================================

----------------------------- MODULE ProofRequests -----------------------------
(***************************************************************************)
(* Out-of-band proof requests of the verification service: the allowlist   *)
(* of redirect URIs of an organization, the request that returns to the    *)
(* relying party, and the requests that are sent by e-mail.                *)
(***************************************************************************)
EXTENDS Naturals, Sequences, FiniteSets, SequencesExt

CONSTANTS Origin,        \* scheme, host and port; "http" origins are in Plain
          Plain,
          Letter, PathLength,   \* paths: "/" and letters, up to this length
          AllowHttp,     \* REDIRECT_URI_ALLOW_HTTP
          Email,
          Overlap,       \* requests may interleave
          MaxRequests,   \* bound: requests
          MaxFaults      \* bound: agent calls and mails that fail

ProofRequestsAssumption ==
  /\ \A S \in {Origin, Letter, Email} : IsFiniteSet(S)
  /\ Plain \subseteq Origin /\ "/" \notin Letter /\ {AllowHttp, Overlap} \subseteq BOOLEAN
  /\ {PathLength, MaxRequests, MaxFaults} \subseteq Nat

VARIABLES allow,      \* redirectUriAllowlist of the organization
          targets,    \* redirect URIs of sessions that were created, with the list they were checked against
          emailData,  \* the e-mail under construction, one for the service
          mails,      \* e-mails that went out: addressee, and the addressee whose request it carries
          saved,      \* exchanges whose e-mail address was saved
          pend, started, faults

vars == <<allow, targets, emailData, mails, saved, pend, started, faults>>

Path == {<<"/">> \o p : p \in BoundedSeq(Letter \cup {"/"}, PathLength)}
Uri == [origin : Origin, path : Path]

Init == /\ allow = {} /\ targets = {} /\ emailData = "none" /\ mails = {} /\ saved = {}
        /\ pend = {} /\ started = 0 /\ faults = 0

Request(req) == (Overlap \/ pend = {}) /\ started < MaxRequests /\ started' = started + 1 /\ pend' = pend \cup {req}
Turn(req, new) == req \in pend /\ pend' = (pend \ {req}) \cup {new} /\ UNCHANGED started
End(req) == req \in pend /\ pend' = pend \ {req} /\ UNCHANGED started
Fault == faults < MaxFaults /\ faults' = faults + 1

-----------------------------------------------------------------------------
HasAllowedRedirectProtocol(u) == u.origin \notin Plain \/ AllowHttp
(* pathname.replace(/\/+$/, '')                                            *)
Strip(p) == LET kept == {0} \cup {i \in DOMAIN p : p[i] # "/"}
            IN  SubSeq(p, 1, CHOOSE i \in kept : \A j \in kept : j <= i)
(* Mutant: a prefix of the letters is enough.                              *)
MatchesRawPrefix(target, allowed) ==
  /\ target.origin = allowed.origin
  /\ IsPrefix(Strip(allowed.path), Strip(target.path))
MatchesAllowlistEntry(target, allowed) ==
  /\ target.origin = allowed.origin
  /\ \/ Strip(allowed.path) = << >>
     \/ Strip(target.path) = Strip(allowed.path)
     \/ IsPrefix(Append(Strip(allowed.path), "/"), Strip(target.path))
IsRedirectUriAllowed(u, list) ==
  HasAllowedRedirectProtocol(u) /\ \E allowed \in list : MatchesAllowlistEntry(u, allowed)

(* setRedirectUris() replaces the list, if every URI has an allowed scheme. *)
SetRedirectUris(S) ==
  /\ started < MaxRequests /\ started' = started + 1
  /\ \A u \in S : HasAllowedRedirectProtocol(u)
  /\ allow' = S
  /\ UNCHANGED <<targets, emailData, mails, saved, pend, faults>>

-----------------------------------------------------------------------------
(* sendOutOfBandPresentationRequest() with a redirect URI: the list is     *)
(* read with the agent's details and checked; the agent makes the request; *)
(* then the session is created, whose failure leaves the invitation        *)
(* without a redirect.                                                     *)
SendWithRedirect(u) ==
  /\ IsRedirectUriAllowed(u, allow)
  /\ Request([op |-> "oob", uri |-> u, list |-> allow])
  /\ UNCHANGED <<allow, targets, emailData, mails, saved, faults>>
AttachRedirect(req) ==
  /\ req.op = "oob" /\ End(req)
  /\ \/ targets' = targets \cup {[uri |-> req.uri, list |-> req.list]} /\ UNCHANGED faults
     \/ Fault /\ UNCHANGED targets
  /\ UNCHANGED <<allow, emailData, mails, saved>>

(* With e-mail addresses, one request each, in turn; those that fail are   *)
(* collected, and any failure fails the whole at the end.                  *)
SendByEmail(list) ==
  /\ list # << >>
  /\ Request([op |-> "email", n |-> started, todo |-> list, sent |-> {}, failed |-> FALSE])
  /\ UNCHANGED <<allow, targets, emailData, mails, saved, faults>>
Next1(req, ok) == [req EXCEPT !.op = "email", !.todo = Tail(@), !.failed = @ \/ ~ok,
                              !.sent = IF ok THEN @ \cup {Head(req.todo)} ELSE @]
(* Mutant: the address is left as it is.                                   *)
ComposeBody(req) ==
  /\ req.op = "email" /\ req.todo # << >>
  /\ Turn(req, [req EXCEPT !.op = "send"])
  /\ UNCHANGED <<allow, targets, emailData, mails, saved, faults>>
(* sendOutOfBandProofRequest(): the request, the short URL and the QR code, *)
(* then the address goes into the shared e-mail and the template is        *)
(* awaited.                                                                *)
ComposeEmail(req) ==
  /\ req.op = "email" /\ req.todo # << >>
  /\ \/ emailData' = Head(req.todo) /\ Turn(req, [req EXCEPT !.op = "send"]) /\ UNCHANGED faults
     \/ Fault /\ Turn(req, Next1(req, FALSE)) /\ UNCHANGED emailData
  /\ UNCHANGED <<allow, targets, mails, saved>>
(* The link is put into the shared e-mail, and it is sent.                 *)
SendEmail(req) ==
  /\ req.op = "send"
  /\ \/ mails' = mails \cup {[to |-> emailData, for |-> Head(req.todo)]} /\ Turn(req, Next1(req, TRUE)) /\ UNCHANGED faults
     \/ Fault /\ Turn(req, Next1(req, FALSE)) /\ UNCHANGED mails
  /\ UNCHANGED <<allow, targets, emailData, saved>>
(* Mutant: what was sent is saved, also when another failed.               *)
SaveEmailAlways(req) ==
  /\ req.op = "email" /\ req.todo = << >> /\ End(req)
  /\ saved' = saved \cup {<<req.n, req.sent, req.failed>>}
  /\ UNCHANGED <<allow, targets, emailData, mails, faults>>
SaveEmail(req) ==
  /\ req.op = "email" /\ req.todo = << >> /\ End(req)
  /\ saved' = IF req.failed THEN saved ELSE saved \cup {<<req.n, req.sent, req.failed>>}
  /\ UNCHANGED <<allow, targets, emailData, mails, faults>>

Redirects == \/ \E u, v \in Uri : \E S \in {{}, {u}, {u, v}} : SetRedirectUris(S)
             \/ \E u \in Uri : SendWithRedirect(u)
             \/ \E req \in pend : AttachRedirect(req)
Emails == \/ \E list \in BoundedSeq(Email, 2) : SendByEmail(list)
          \/ \E req \in pend : ComposeEmail(req) \/ SendEmail(req) \/ SaveEmail(req)
Next == Redirects \/ Emails
Spec == Init /\ [][Next]_vars

(* The shape of the state.                                                 *)
TypeOK == /\ allow \subseteq Uri /\ emailData \in Email \cup {"none"}
          /\ mails \subseteq [to : Email, for : Email] /\ started \in 0..MaxRequests /\ faults \in 0..MaxFaults

-----------------------------------------------------------------------------
(* The parts of a path between slashes, without the empty ones at its end. *)
Segments(p) ==
  LET s == Strip(p)
      cuts == {0, Len(s) + 1} \cup {i \in DOMAIN s : s[i] = "/"}
      At(k) == CHOOSE c \in cuts : Cardinality({d \in cuts : d < c}) = k
  IN  [k \in 1..Cardinality(cuts) - 1 |-> SubSeq(s, At(k - 1) + 1, At(k) - 1)]

(* A session returns only to an origin the organization registered, below  *)
(* a registered path by whole segments: a path or a host that merely looks *)
(* alike is refused; and over https, unless http is allowed.               *)
RedirectsRegistered ==
  \A t \in targets :
    /\ t.uri.origin \notin Plain \/ AllowHttp
    /\ \E a \in t.list : /\ a.origin = t.uri.origin
                         /\ Strip(a.path) = << >> \/ IsPrefix(Segments(a.path), Segments(t.uri.path))

(* While requests come one after the other, an e-mail carries the proof    *)
(* request that was made for its addressee.                                *)
MailsReachAddresseeAlone == ~Overlap => \A m \in mails : m.to = m.for

(* Addresses are saved only for a request whose e-mails all went out.      *)
SavedWereSent == \A s \in saved : \A e \in s[2] : (\E m \in mails : m.for = e) /\ ~s[3]
================================================================================

----------------------------- MODULE Certificates -----------------------------
(***************************************************************************)
(* X.509 certificates of one organization (apps/x509).  The agent makes or *)
(* imports the certificate and keeps its key; the platform keeps a row     *)
(* with the key type, the period of validity and a status.  A verification *)
(* session that is signed with a certificate takes the newest active one   *)
(* of the key type that is valid now.  The check for colliding periods,    *)
(* the agent's call and the write are steps of their own.                  *)
(***************************************************************************)
EXTENDS Naturals, Sequences, FiniteSets

CONSTANTS Key,           \* x5cKeyType
          MaxTime,       \* bound: instants of validity
          Overlap,       \* handlers may interleave
          MaxRequests,   \* bound: handlers that start
          MaxFaults      \* bound: calls and writes that fail

CertificatesAssumption ==
  /\ IsFiniteSet(Key) /\ Overlap \in BOOLEAN
  /\ MaxTime \in Nat /\ MaxRequests \in Nat /\ MaxFaults \in Nat

VARIABLES certs,      \* rows of x509_certificates, the oldest first
          keys,       \* certificates whose key the wallet has
          now,
          signed,     \* signers of the sessions the agent made, and when they were chosen
          pend, started, faults

vars == <<certs, keys, now, signed, pend, started, faults>>

Time == 0..MaxTime
Status == {"Active", "PendingActivation", "InActive"}
Row == [cert : 1..MaxRequests, key : Key, from : Time, to : Time, status : Status]
Rows == {certs[i] : i \in DOMAIN certs}

(* The shape of the state.                                                 *)
TypeOK ==
  /\ certs \in Seq(Row) /\ keys \subseteq 1..MaxRequests /\ now \in Time
  /\ signed \subseteq [cert : 1..MaxRequests, key : Key, at : Time]
  /\ started \in 0..MaxRequests /\ faults \in 0..MaxFaults

Init == /\ certs = <<>> /\ keys = {} /\ now = 0 /\ signed = {}
        /\ pend = {} /\ started = 0 /\ faults = 0

Begin(req) == /\ Overlap \/ pend = {}
              /\ started < MaxRequests /\ started' = started + 1
              /\ pend' = pend \cup {req}
Go(req, next) == req \in pend /\ pend' = (pend \ {req}) \cup {next} /\ UNCHANGED started
End(req) == req \in pend /\ pend' = pend \ {req} /\ UNCHANGED started
Fault == faults < MaxFaults /\ faults' = faults + 1

-----------------------------------------------------------------------------
(* Mutant: a period that begins when another ends does not collide.        *)
CollisionStrict(status, key, from, to, self) ==
  {i \in DOMAIN certs \ {self} : /\ certs[i].status = status /\ certs[i].key = key
                                 /\ certs[i].from < to /\ certs[i].to > from}
(* Mutant: only rows whose period encloses the new one.                    *)
CollisionEncloses(status, key, from, to, self) ==
  {i \in DOMAIN certs \ {self} : /\ certs[i].status = status /\ certs[i].key = key
                                 /\ certs[i].from <= from /\ certs[i].to >= to}
(* hasDateCollision(): both ends belong to a period.                       *)
Collisions(status, key, from, to, self) ==
  {i \in DOMAIN certs \ {self} : /\ certs[i].status = status /\ certs[i].key = key
                                 /\ certs[i].from <= to /\ certs[i].to >= from}

(* Active unless an active one collides.  Nothing says that a period       *)
(* begins before it ends.                                                  *)
Checked(row) ==
  [op |-> IF Collisions("Active", row.key, row.from, row.to, 0) = {} THEN "agent" ELSE "pending", row |-> row]
New(key, from, to) == [cert |-> started + 1, key |-> key, from |-> from, to |-> to, status |-> "Active"]

CreateCertificate(key, from, to) ==
  /\ Begin(Checked(New(key, from, to)))
  /\ UNCHANGED <<certs, keys, now, signed, faults>>
(* importCertificate(): the agent decodes the certificate, which says its  *)
(* key and period; then as above.                                          *)
ImportCertificate(key, from, to) ==
  /\ Begin([op |-> "decode", row |-> New(key, from, to)])
  /\ UNCHANGED <<certs, keys, now, signed, faults>>
Decode(req) ==
  /\ req.op = "decode"
  /\ \/ Go(req, Checked(req.row)) /\ UNCHANGED faults
     \/ Fault /\ End(req)
  /\ UNCHANGED <<certs, keys, now, signed>>
(* Mutant: a waiting certificate is not compared with the other ones.      *)
CheckPendingSkipped(req) ==
  /\ req.op = "pending"
  /\ Go(req, [op |-> "agent", row |-> [req.row EXCEPT !.status = "PendingActivation"]])
  /\ UNCHANGED <<certs, keys, now, signed, faults>>
(* Then it waits for its activation, unless it collides with a waiting one *)
(* too.                                                                    *)
CheckPending(req) ==
  /\ req.op = "pending"
  /\ IF Collisions("PendingActivation", req.row.key, req.row.from, req.row.to, 0) = {}
     THEN Go(req, [op |-> "agent", row |-> [req.row EXCEPT !.status = "PendingActivation"]])
     ELSE End(req)
  /\ UNCHANGED <<certs, keys, now, signed, faults>>
(* Mutant: the row is written although the agent's call failed.            *)
CertificateAnyway(req) ==
  /\ req.op = "agent"
  /\ Go(req, [op |-> "insert", row |-> req.row])
  /\ \/ keys' = keys \cup {req.row.cert} /\ UNCHANGED faults
     \/ Fault /\ UNCHANGED keys
  /\ UNCHANGED <<certs, now, signed>>
(* _createX509CertificateForOrg(), _importX509CertificateForOrg().  A call *)
(* that fails has made the certificate when only its answer was lost.      *)
CertificateAtAgent(req) ==
  /\ req.op = "agent"
  /\ \/ /\ keys' = keys \cup {req.row.cert}
        /\ Go(req, [op |-> "insert", row |-> req.row]) /\ UNCHANGED faults
     \/ Fault /\ End(req) /\ keys' \in {keys, keys \cup {req.row.cert}}
  /\ UNCHANGED <<certs, now, signed>>
(* create(): a failed write leaves the certificate in the wallet.          *)
Create(req) ==
  /\ req.op = "insert" /\ End(req)
  /\ \/ certs' = Append(certs, req.row) /\ UNCHANGED faults
     \/ Fault /\ UNCHANGED certs
  /\ UNCHANGED <<keys, now, signed>>

(* activateCertificate(): whatever the status was.  The row itself does    *)
(* not collide.                                                            *)
ActivateCertificate(i) ==
  /\ i \in DOMAIN certs
  /\ Collisions("Active", certs[i].key, certs[i].from, certs[i].to, i) = {}
  /\ Begin([op |-> "update", row |-> i, status |-> "Active"])
  /\ UNCHANGED <<certs, keys, now, signed, faults>>
(* deActivateCertificate().                                                *)
DeActivateCertificate(i) ==
  /\ i \in DOMAIN certs
  /\ Begin([op |-> "update", row |-> i, status |-> "InActive"])
  /\ UNCHANGED <<certs, keys, now, signed, faults>>
UpdateStatus(req) ==
  /\ req.op = "update" /\ End(req)
  /\ certs' = [certs EXCEPT ![req.row].status = req.status]
  /\ UNCHANGED <<keys, now, signed, faults>>

(* Mutant: an active certificate that has expired signs as well.           *)
StartedCertificates(key) ==
  {i \in DOMAIN certs : certs[i].status = "Active" /\ certs[i].key = key /\ certs[i].from <= now}
(* getCurrentActiveCertificate().                                          *)
CurrentActiveCertificates(key) ==
  {i \in DOMAIN certs : /\ certs[i].status = "Active" /\ certs[i].key = key
                        /\ certs[i].from <= now /\ now <= certs[i].to}
(* oid4vpCreateVerificationSession(): the newest one signs; the agent is   *)
(* asked later.                                                            *)
CreateVerificationSession(key) ==
  /\ CurrentActiveCertificates(key) # {}
  /\ LET newest == CHOOSE i \in CurrentActiveCertificates(key) : \A j \in CurrentActiveCertificates(key) : j <= i
     IN Begin([op |-> "session", cert |-> certs[newest].cert, key |-> key, at |-> now])
  /\ UNCHANGED <<certs, keys, now, signed, faults>>
SessionAtAgent(req) ==
  /\ req.op = "session" /\ End(req)
  /\ \/ req.cert \in keys /\ signed' = signed \cup {[cert |-> req.cert, key |-> req.key, at |-> req.at]}
     \/ UNCHANGED signed    \* refused
  /\ UNCHANGED <<certs, keys, now, faults>>

Tick == now < MaxTime /\ now' = now + 1 /\ UNCHANGED <<certs, keys, signed, pend, started, faults>>

Next ==
  \/ \E k \in Key : \/ CreateVerificationSession(k)
                    \/ \E from, to \in Time : CreateCertificate(k, from, to) \/ ImportCertificate(k, from, to)
  \/ \E i \in DOMAIN certs : ActivateCertificate(i) \/ DeActivateCertificate(i)
  \/ \E req \in pend : \/ Decode(req) \/ CheckPending(req) \/ CertificateAtAgent(req) \/ Create(req)
                       \/ UpdateStatus(req) \/ SessionAtAgent(req)
  \/ Tick

Spec == Init /\ [][Next]_vars

-----------------------------------------------------------------------------
(* A listed certificate has its key in the wallet, whatever overlaps and   *)
(* fails: the agent is asked first (createCertificate, importCertificate). *)
RowsInWallet == \A r \in Rows : r.cert \in keys

(* At every instant at most one certificate of a key type can sign, and at *)
(* most one waits for it: what getCurrentActiveCertificate takes does not  *)
(* depend on the order of creation, after any series of creations,         *)
(* imports, activations and deactivations, one at a time.                  *)
SignerUnambiguous ==
  \A k \in Key, t \in Time, s \in {"Active", "PendingActivation"} :
    Cardinality({i \in DOMAIN certs : /\ certs[i].key = k /\ certs[i].status = s
                                      /\ certs[i].from <= t /\ t <= certs[i].to}) <= 1

(* A session is signed with a certificate of the key type that was asked   *)
(* for, which was within its period when the session asked for it, before  *)
(* the agent's call, whatever was listed or deactivated meanwhile          *)
(* (getCurrentActiveCertificate).                                          *)
SignedInPeriod ==
  \A s \in signed : \E r \in Rows : r.cert = s.cert /\ r.key = s.key /\ r.from <= s.at /\ s.at <= r.to
=============================================================================

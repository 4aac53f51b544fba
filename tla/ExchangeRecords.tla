---------------------------- MODULE ExchangeRecords ----------------------------
(***************************************************************************)
(* The records an organization keeps of what its agent does: rows of       *)
(* connections, credentials and presentations, written from the webhook    *)
(* posts of the agent, which may arrive late or in another order than they *)
(* were sent; offers and proof requests; deletion of the records.          *)
(***************************************************************************)
EXTENDS Naturals, FiniteSets

CONSTANTS Conn, Cred, Pres,  \* exchanges, by kind
          Oob,               \* credential and proof exchanges that have no connection
          Length,            \* lengths of labels
          Ordered,           \* posts arrive in the order in which they were sent
          Overlap,           \* handlers may interleave
          MaxRequests,       \* bound: requests
          MaxFaults          \* bound: calls and posts that fail

RecordsAssumption ==
  /\ IsFiniteSet(Length) /\ \A S \in {Conn, Cred, Pres} : IsFiniteSet(S)
  /\ Conn \cap (Cred \cup Pres) = {} /\ Cred \cap Pres = {}
  /\ Length \subseteq Nat /\ Oob \subseteq Cred \cup Pres /\ Cardinality(Conn) = 1
  /\ {Ordered, Overlap} \subseteq BOOLEAN /\ MaxRequests \in Nat /\ MaxFaults \in Nat

VARIABLES dedicated,   \* the organization's agent is its own: posts name no tenant but 'default'
          unlabelled,  \* connections whose record on the agent has no theirLabel
          wallet,   \* org_agents has the agent of the organization
          agent,    \* state of an exchange on the agent, 0 before it begins
          posts,    \* webhook posts on their way
          sent,     \* posts so far
          row,      \* rows of connections, credentials and presentations
          files,    \* rows of file_upload and file_data exist
          pend, started, faults

vars == <<dedicated, unlabelled, wallet, agent, posts, sent, row, files, pend, started, faults>>
fixed == <<dedicated, unlabelled>>
db == <<wallet, row, files>>
far == <<agent, posts, sent>>

Exchange == Conn \cup Cred \cup Pres
Done == 2
ConnOf(x) == CHOOSE c \in Conn : TRUE
None == [st |-> 0]
Has(x) == row[x] # None
Of(S) == {x \in S : Has(x)}

(* The shape of the state.  A row that names a connection finds it (the    *)
(* foreign key).                                                           *)
TypeOK ==
  /\ {dedicated, wallet, files} \subseteq BOOLEAN /\ unlabelled \subseteq Conn
  /\ agent \in [Exchange -> 0..Done]
  /\ row \in [Exchange -> [st : 1..Done, linked : BOOLEAN, schema : BOOLEAN, hidden : Nat, len : Nat] \cup {None}]
  /\ \A x \in Exchange : Has(x) /\ row[x].linked => Has(ConnOf(x))
  /\ started \in 0..MaxRequests /\ faults \in 0..MaxFaults

Init == /\ dedicated \in BOOLEAN /\ unlabelled \in SUBSET Conn
        /\ wallet = TRUE /\ agent = [x \in Exchange |-> 0] /\ posts = {} /\ sent = 0
        /\ row = [x \in Exchange |-> None] /\ files = FALSE
        /\ pend = {} /\ started = 0 /\ faults = 0

Request(req) == /\ (Overlap \/ pend = {}) /\ started < MaxRequests /\ started' = started + 1 /\ pend' = pend \cup {req}
Turn(req, new) == req \in pend /\ pend' = (pend \ {req}) \cup {new} /\ UNCHANGED started
Go(req, next) == Turn(req, [req EXCEPT !.op = next])
End(req) == req \in pend /\ pend' = pend \ {req} /\ UNCHANGED started
Fault == faults < MaxFaults /\ faults' = faults + 1

(* The agent posts every change of an exchange.                            *)
Advance(x) == /\ agent[x] < Done /\ agent' = [agent EXCEPT ![x] = @ + 1]
              /\ posts' = posts \cup {[n |-> sent, x |-> x, st |-> agent[x] + 1]} /\ sent' = sent + 1

-----------------------------------------------------------------------------
(* sendCredentialCreateOffer(): all offers of the request are made; when   *)
(* every one of them succeeded, the schema id is written to their rows,    *)
(* which are there only if the webhook came first.                         *)
SendCredentialCreateOffer(X) ==
  /\ wallet /\ X # {} /\ \A x \in X : agent[x] = 0 /\ (x \in Oob \/ agent[ConnOf(x)] = Done)
  /\ Request([op |-> "offer", todo |-> X, ok |-> {}, failed |-> FALSE])
  /\ UNCHANGED <<db, far, faults>>
OfferOne(req, x) ==
  /\ req.op = "offer" /\ x \in req.todo /\ agent[x] = 0
  /\ \/ Advance(x) /\ Turn(req, [req EXCEPT !.todo = @ \ {x}, !.ok = @ \cup {x}]) /\ UNCHANGED faults
     \/ Fault /\ Turn(req, [req EXCEPT !.todo = @ \ {x}, !.failed = TRUE]) /\ UNCHANGED far
  /\ UNCHANGED db
Offered(req) ==
  /\ req.op = "offer" /\ req.todo = {}
  /\ IF req.failed THEN End(req) ELSE Go(req, "schemaId")
  /\ UNCHANGED <<db, far, faults>>
UpdateSchemaIdByThreadId(req, x) ==
  /\ req.op = "schemaId" /\ x \in req.ok
  /\ row' = IF Has(x) THEN [row EXCEPT ![x].schema = TRUE] ELSE row
  /\ IF req.ok = {x} THEN End(req) ELSE Turn(req, [req EXCEPT !.ok = @ \ {x}])
  /\ UNCHANGED <<wallet, files, far, faults>>
(* sendProofRequest(), for one connection after the other: a failure ends  *)
(* it, and what was sent before stays.                                     *)
SendProofRequest(x) ==
  /\ wallet /\ agent[x] = 0 /\ (x \in Oob \/ agent[ConnOf(x)] = Done)
  /\ (Overlap \/ pend = {}) /\ started < MaxRequests /\ started' = started + 1
  /\ Advance(x)
  /\ UNCHANGED <<db, pend, faults>>
(* The holder accepts an invitation; the exchanges go on on the agent.     *)
Connect(c) == wallet /\ Advance(c) /\ UNCHANGED <<db, pend, started, faults>>
Proceed(x) == agent[x] > 0 /\ Advance(x) /\ UNCHANGED <<db, pend, started, faults>>
(* Bulk issuance stores a file.                                            *)
Upload == wallet /\ ~files /\ files' = TRUE /\ UNCHANGED <<wallet, row, far, pend, started, faults>>

-----------------------------------------------------------------------------
(* A post reaches the gateway, which answers 200 whatever comes of it.     *)
(* The organization is the one whose wallet has the tenant; a post of a    *)
(* dedicated agent is taken for the one its address names.                 *)
Receive(p) ==
  /\ p \in posts /\ (Overlap \/ pend = {}) /\ (Ordered => \A q \in posts : p.n <= q.n)
  /\ posts' = posts \ {p}
  /\ pend' = pend \cup {[op |-> "save", x |-> p.x, st |-> p.st, n |-> p.n, org |-> wallet \/ dedicated]}
  /\ UNCHANGED <<db, agent, sent, started, faults>>
Lose(p) == /\ p \in posts /\ Fault /\ posts' = posts \ {p}
           /\ UNCHANGED <<db, agent, sent, pend, started>>

(* saveConnectionWebhook(): the letters of the label that stay readable.   *)
(* It throws when there is no label, and the post is lost.                 *)
(* Mutant: eight letters are taken for a long label.                       *)
VisibleOfLong(n) == IF n = 0 THEN 0 ELSE IF n <= 3 THEN 1 ELSE IF n < 6 THEN 2 ELSE IF n < 8 THEN 4 ELSE 6
Visible(n) == IF n = 0 THEN 0 ELSE IF n <= 3 THEN 1 ELSE IF n < 6 THEN 2 ELSE IF n <= 8 THEN 4 ELSE 6
(* Mutant: the organization named in the address of a tenant's post is     *)
(* trusted.                                                                *)
SaveForNamedOrg(req, n) ==
  /\ req.op = "save" /\ req.x \in Conn /\ End(req)
  /\ row' = CASE req.x \in unlabelled -> row
              [] req.x \notin unlabelled /\ Has(req.x) -> [row EXCEPT ![req.x].st = req.st]
              [] OTHER -> [row EXCEPT ![req.x] = [st |-> req.st, linked |-> FALSE, schema |-> FALSE, hidden |-> n - Visible(n), len |-> n]]
  /\ UNCHANGED <<wallet, files, far, faults>>
SaveConnectionWebhook(req, n) ==
  /\ req.op = "save" /\ req.x \in Conn /\ End(req)
  /\ row' = CASE req.x \in unlabelled -> row
              [] req.x \notin unlabelled /\ Has(req.x) -> [row EXCEPT ![req.x].st = req.st]
              [] req.x \notin unlabelled /\ ~Has(req.x) /\ req.org ->
                   [row EXCEPT ![req.x] = [st |-> req.st, linked |-> FALSE, schema |-> FALSE, hidden |-> n - Visible(n), len |-> n]]
              [] OTHER -> row
  /\ UNCHANGED <<wallet, files, far, faults>>
(* Upsert by thread id.  A row that is written names the connection of the *)
(* exchange; the write is refused when that is not recorded, or when the   *)
(* row is new and the organization is not known.                           *)
Accepted(req) == (req.x \in Oob \/ Has(ConnOf(req.x))) /\ (Has(req.x) \/ req.org)
Stored(req, schema) == [st |-> req.st, linked |-> req.x \notin Oob, schema |-> schema, hidden |-> 0, len |-> 0]
(* Mutant: the schema id of the post replaces the stored one, empty or not.*)
OverwriteSchemaId(req, schema) ==
  /\ req.op = "save" /\ req.x \in Cred /\ End(req)
  /\ row' = IF Accepted(req) THEN [row EXCEPT ![req.x] = Stored(req, schema)] ELSE row
  /\ UNCHANGED <<wallet, files, far, faults>>
SaveIssuedCredentialDetails(req, schema) ==
  /\ req.op = "save" /\ req.x \in Cred /\ End(req)
  /\ row' = IF Accepted(req)
            THEN [row EXCEPT ![req.x] = Stored(req, schema \/ (Has(req.x) /\ row[req.x].schema))] ELSE row
  /\ UNCHANGED <<wallet, files, far, faults>>
(* Mutant: a row that exists keeps its state.                              *)
CreateProofPresentation(req) ==
  /\ req.op = "save" /\ req.x \in Pres /\ End(req)
  /\ row' = IF Accepted(req) /\ ~Has(req.x) THEN [row EXCEPT ![req.x] = Stored(req, FALSE)] ELSE row
  /\ UNCHANGED <<wallet, files, far, faults>>
StoreProofPresentation(req) ==
  /\ req.op = "save" /\ req.x \in Pres /\ End(req)
  /\ row' = IF Accepted(req) THEN [row EXCEPT ![req.x] = Stored(req, FALSE)] ELSE row
  /\ UNCHANGED <<wallet, files, far, faults>>

-----------------------------------------------------------------------------
Without(S) == [x \in Exchange |-> IF x \in S THEN None ELSE row[x]]
DeleteVerificationRecords ==
  /\ (Overlap \/ pend = {}) /\ started < MaxRequests /\ started' = started + 1
  /\ row' = Without(Pres)
  /\ UNCHANGED <<wallet, files, far, pend, faults>>
(* deleteIssuanceRecords(): files first, then the credentials, unless      *)
(* there are presentations.                                                *)
DeleteIssuanceRecords ==
  /\ Request([op |-> "countPres"]) /\ files' = FALSE
  /\ UNCHANGED <<wallet, row, far, faults>>
CountPresentations(req) ==
  /\ req.op = "countPres" /\ IF Of(Pres) # {} THEN End(req) ELSE Go(req, "dropCreds")
  /\ UNCHANGED <<db, far, faults>>
DeleteIssuanceRecordsByOrgId(req) ==
  /\ req.op = "dropCreds" /\ End(req) /\ row' = Without(Cred)
  /\ UNCHANGED <<wallet, files, far, faults>>
(* deleteConnectionRecordsByOrgId() counts and deletes in one transaction, *)
(* which sees what others commit in between.  A row that still names a     *)
(* deleted connection has its reference set to null.                       *)
(* Mutant: only credentials are counted.                                   *)
CountCredentials ==
  /\ Request([op |-> IF Of(Cred) # {} THEN "refuse" ELSE "dropConns"])
  /\ UNCHANGED <<db, far, faults>>
DeleteConnectionRecords ==
  /\ Request([op |-> IF Of(Cred \cup Pres) # {} THEN "refuse" ELSE "dropConns"])
  /\ UNCHANGED <<db, far, faults>>
Refuse(req) == req.op = "refuse" /\ End(req) /\ UNCHANGED <<db, far, faults>>
DeleteConnectionRecordsByOrgId(req) ==
  /\ req.op = "dropConns" /\ End(req)
  /\ row' = [x \in Exchange |-> CASE x \in Conn -> None
                                  [] x \notin Conn /\ Has(x) -> [row[x] EXCEPT !.linked = FALSE]
                                  [] OTHER -> row[x]]
  /\ UNCHANGED <<wallet, files, far, faults>>
(* The wallet can be deleted when no records are left (see OrgWallet).     *)
DeleteWallet ==
  /\ wallet /\ Of(Exchange) = {} /\ (Overlap \/ pend = {})
  /\ wallet' = FALSE
  /\ UNCHANGED <<row, files, far, pend, started, faults>>

Exchanges == \/ \E X \in SUBSET Cred : SendCredentialCreateOffer(X)
             \/ \E x \in Pres : SendProofRequest(x)
             \/ \E c \in Conn : Connect(c)
             \/ \E x \in Cred \cup Pres : Proceed(x)
             \/ Upload
             \/ \E req \in pend : \E x \in Cred : OfferOne(req, x) \/ UpdateSchemaIdByThreadId(req, x)
             \/ \E req \in pend : Offered(req)
Webhooks == \/ \E p \in posts : Receive(p) \/ Lose(p)
            \/ \E req \in pend : \/ \E n \in Length : SaveConnectionWebhook(req, n)
                                 \/ \E schema \in BOOLEAN : SaveIssuedCredentialDetails(req, schema)
                                 \/ StoreProofPresentation(req)
Deletions == \/ DeleteVerificationRecords \/ DeleteIssuanceRecords \/ DeleteConnectionRecords \/ DeleteWallet
             \/ \E req \in pend : \/ CountPresentations(req) \/ DeleteIssuanceRecordsByOrgId(req) \/ Refuse(req)
                                  \/ DeleteConnectionRecordsByOrgId(req)
NothingDeleted == (Exchanges \/ Webhooks) /\ UNCHANGED fixed
Next == (Exchanges \/ Webhooks \/ Deletions) /\ UNCHANGED fixed
Spec == Init /\ [][Next]_vars

-----------------------------------------------------------------------------
(* A schema id that was recorded for a credential stays recorded, whatever *)
(* posts without one come later and in whatever order.                     *)
SchemaIdKept == \A x \in Cred : Has(x) /\ row[x].schema /\ row'[x] # None => row'[x].schema

(* Posts that arrive in order, one after the other, and are not lost:      *)
(* once all are handled, the record of every exchange the agent knows of   *)
(* shows the state the agent has.  Exchanges over a connection without a   *)
(* label are excepted, and that connection: none of them is ever recorded. *)
Labelled(x) == x \in Oob \/ ConnOf(x) \notin unlabelled
RecordsFollowAgent ==
  Ordered /\ ~Overlap /\ faults = 0 /\ posts = {} /\ pend = {} =>
    \A x \in Exchange : agent[x] > 0 /\ Labelled(x) => Has(x) /\ row[x].st = agent[x]

(* A credential or presentation that was exchanged over a connection keeps *)
(* its reference: connections are deleted last.                            *)
ConnectionsGoLast == ~Overlap => \A x \in Of(Cred \cup Pres) : x \notin Oob => row[x].linked

(* A tenant of the shared agent whose wallet was deleted has no records,   *)
(* although the agent may still post what it did before.                   *)
NoRecordsWithoutWallet == ~Overlap /\ ~wallet /\ ~dedicated => Of(Exchange) = {}

(* At least a third of the label of a connection is hidden, if it has more *)
(* than one letter.                                                        *)
LabelMasked == \A c \in Of(Conn) : row[c].len > 1 => 3 * row[c].hidden >= row[c].len
================================================================================

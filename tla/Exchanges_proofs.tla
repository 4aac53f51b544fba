-------------------------- MODULE Exchanges_proofs --------------------------
(***************************************************************************)
(* For every set of connections, exchanges, label lengths, paths,          *)
(* addresses, organizations, DIDs, names, tags, users, endpoints and       *)
(* capacities and every number of requests and faults: the invariants of   *)
(* the parts of Exchanges that keep the records of exchanges, the redirect *)
(* allowlist, the e-mails of proof requests, the schemas of the ledger     *)
(* service and the cloud wallets of holders.                               *)
(***************************************************************************)
EXTENDS Exchanges, FiniteSets, Sequences, FiniteSetTheorems, SequenceTheorems, WellFoundedInduction, TLAPS

-----------------------------------------------------------------------------
(* connection, issuance, verification: rows of exchanges.                  *)

RecX(s) == s.conn \cup s.cred \cup s.pres
RecConn(s) == CHOOSE c \in s.conn : TRUE
NoRec == [st |-> 0]
RecRow == [st : 1..2, linked : BOOLEAN, schema : BOOLEAN, hidden : Nat, len : Nat]
RecOffer(s) == [op : {"offer", "schemaId"}, todo : SUBSET s.cred, ok : SUBSET s.cred, failed : BOOLEAN]

(* The rows R: a row that names the connection finds it, and a third of a  *)
(* label is masked.                                                        *)
RecRows(s, R) ==
  /\ R \in [RecX(s) -> RecRow \cup {NoRec}]
  /\ \A x \in RecX(s) : R[x] # NoRec /\ R[x].linked => R[RecConn(s)] # NoRec
  /\ \A c \in s.conn : R[c] # NoRec /\ R[c].len > 1 => 3 * R[c].hidden >= R[c].len

RecRequest(s, r) ==
  /\ r.op = "save" => r.x \in RecX(s) /\ r.st \in 1..2 /\ r.org \in BOOLEAN /\ r.n \in Nat
  /\ r.op \in {"offer", "schemaId"} => r \in RecOffer(s)
  /\ r.op = "countPres" => r = [op |-> "countPres"]
  /\ r.op \in {"save", "offer", "schemaId", "countPres", "dropCreds", "dropConns", "refuse"}

RecsIInv(s) ==
  /\ dedicated \in BOOLEAN /\ unlabelled \subseteq s.conn
  /\ wallet \in BOOLEAN /\ files \in BOOLEAN
  /\ agent \in [RecX(s) -> 0..2] /\ sent \in Nat
  /\ \A p \in posts : p.x \in RecX(s) /\ p.st \in 1..2 /\ p.n \in Nat
  /\ RecRows(s, row)
  /\ \A r \in pend : RecRequest(s, r)
  /\ started \in 0..s.requests /\ faults \in 0..s.faults

LEMMA RecsCardinality == \A s, o, d, S : Records(s, o, d)!Cardinality(S) = Cardinality(S)
BY DEF Records!Cardinality, Cardinality, Records!IsFiniteSet, IsFiniteSet

LEMMA RecsUnfolded ==
  ASSUME NEW s, NEW o \in BOOLEAN, NEW d \in BOOLEAN, Records(s, o, d)!RecordsAssumption
  PROVE  /\ s.requests \in Nat /\ s.faults \in Nat /\ s.length \subseteq Nat
         /\ s.conn = {RecConn(s)} /\ RecConn(s) \in RecX(s)
         /\ s.conn \cap (s.cred \cup s.pres) = {} /\ s.cred \cap s.pres = {} /\ s.oob \subseteq s.cred \cup s.pres
         /\ Records(s, o, d)!Exchange = RecX(s)
         /\ \A x : Records(s, o, d)!ConnOf(x) = RecConn(s)
         /\ \A x : Records(s, o, d)!Has(x) <=> row[x] # NoRec
<1>1. /\ s.requests \in Nat /\ s.faults \in Nat /\ s.length \subseteq Nat
      /\ s.conn \cap (s.cred \cup s.pres) = {} /\ s.cred \cap s.pres = {} /\ s.oob \subseteq s.cred \cup s.pres
  BY DEF Records!RecordsAssumption
<1>2. IsFiniteSet(s.conn) /\ Cardinality(s.conn) = 1
  BY RecsCardinality DEF Records!RecordsAssumption, Records!IsFiniteSet, IsFiniteSet
<1>3. PICK c : s.conn = {c}
  BY <1>2, FS_Singleton
<1>4. s.conn = {RecConn(s)} /\ RecConn(s) \in RecX(s)
  BY <1>3 DEF RecConn, RecX
<1>5. \A x : Records(s, o, d)!ConnOf(x) = RecConn(s)
  BY DEF Records!ConnOf, RecConn
<1>6. \A x : Records(s, o, d)!Has(x) <=> row[x] # NoRec
  BY DEF Records!Has, Records!None, NoRec
<1>7. Records(s, o, d)!Exchange = RecX(s)
  BY DEF Records!Exchange, RecX
<1> QED BY <1>1, <1>4, <1>5, <1>6, <1>7

LEMMA RecRowPresent ==
  ASSUME NEW v \in RecRow
  PROVE  v # NoRec
<1>1. v.st \in 1..2
  BY DEF RecRow
<1>2. NoRec.st = 0
  BY DEF NoRec
<1> QED BY <1>1, <1>2

(* Writing a row of a credential or a presentation.                        *)
LEMMA RecRowWritten ==
  ASSUME NEW s, NEW R, RecRows(s, R), NEW x \in s.cred \cup s.pres, NEW v \in RecRow, s.conn = {RecConn(s)},
         x \notin s.conn, v.linked => R[RecConn(s)] # NoRec
  PROVE  RecRows(s, [R EXCEPT ![x] = v])
<1> DEFINE Q == [R EXCEPT ![x] = v]
<1>1. x \in RecX(s) /\ RecConn(s) \in RecX(s)
  BY DEF RecX
<1>2. Q \in [RecX(s) -> RecRow \cup {NoRec}]
  BY DEF RecRows
<1>3. \A y \in RecX(s) : Q[y] = IF y = x THEN v ELSE R[y]
  BY DEF RecRows
<1>4. Q[RecConn(s)] = R[RecConn(s)]
  BY <1>1, <1>3
<1>5. \A c \in s.conn : Q[c] = R[c]
  BY <1>4
<1> HIDE DEF Q
<1>6. \A y \in RecX(s) : Q[y] # NoRec /\ Q[y].linked => Q[RecConn(s)] # NoRec
  BY <1>3, <1>4 DEF RecRows
<1>7. \A c \in s.conn : Q[c] # NoRec /\ Q[c].len > 1 => 3 * Q[c].hidden >= Q[c].len
  BY <1>5 DEF RecRows
<1> QED BY <1>2, <1>6, <1>7 DEF RecRows, Q

(* Writing the row of the connection.                                      *)
LEMMA RecConnWritten ==
  ASSUME NEW s, NEW R, RecRows(s, R), NEW x \in s.conn, NEW v \in RecRow, s.conn = {RecConn(s)},
         v.len > 1 => 3 * v.hidden >= v.len
  PROVE  RecRows(s, [R EXCEPT ![x] = v])
<1> DEFINE Q == [R EXCEPT ![x] = v]
<1>1. x \in RecX(s) /\ RecConn(s) = x
  BY DEF RecX
<1>2. Q \in [RecX(s) -> RecRow \cup {NoRec}]
  BY DEF RecRows
<1>3. Q[x] = v /\ v # NoRec
  BY <1>1, RecRowPresent DEF RecRows
<1> HIDE DEF Q
<1>6. \A y \in RecX(s) : Q[y] # NoRec /\ Q[y].linked => Q[RecConn(s)] # NoRec
  BY <1>1, <1>3
<1>7. \A c \in s.conn : Q[c] # NoRec /\ Q[c].len > 1 => 3 * Q[c].hidden >= Q[c].len
  BY <1>1, <1>3
<1> QED BY <1>2, <1>6, <1>7 DEF RecRows, Q

(* Rows that go, and references that are given up: what is left is what    *)
(* was there, and a reference that is kept finds its connection.           *)
LEMMA RecRowsDropped ==
  ASSUME NEW s, NEW R, RecRows(s, R), NEW Q \in [RecX(s) -> RecRow \cup {NoRec}],
         \A x \in RecX(s) : Q[x] # NoRec => R[x] # NoRec /\ Q[x].len = R[x].len /\ Q[x].hidden = R[x].hidden,
         \A x \in RecX(s) : Q[x] # NoRec /\ Q[x].linked => R[x].linked /\ Q[RecConn(s)] = R[RecConn(s)]
  PROVE  RecRows(s, Q)
<1>1. \A x \in RecX(s) : Q[x] # NoRec /\ Q[x].linked => Q[RecConn(s)] # NoRec
  BY DEF RecRows
<1>2. \A c \in s.conn : Q[c] # NoRec /\ Q[c].len > 1 => 3 * Q[c].hidden >= Q[c].len
  BY DEF RecRows, RecX
<1> QED BY <1>1, <1>2 DEF RecRows

(* Requests that go on and posts of the agent.                             *)
LEMMA RecsMoved ==
  ASSUME NEW s, RecsIInv(s), wallet' \in BOOLEAN, files' \in BOOLEAN, agent' \in [RecX(s) -> 0..2], sent' \in Nat,
         \A p \in posts' : p \in posts \/ (p.x \in RecX(s) /\ p.st \in 1..2 /\ p.n \in Nat),
         RecRows(s, row'), \A r \in pend' : r \in pend \/ RecRequest(s, r),
         started' \in 0..s.requests, faults' \in 0..s.faults,
         UNCHANGED <<dedicated, unlabelled>>
  PROVE  RecsIInv(s)'
<1>1. \A r \in pend' : RecRequest(s, r)
  BY DEF RecsIInv
<1>2. \A p \in posts' : p.x \in RecX(s) /\ p.st \in 1..2 /\ p.n \in Nat
  BY DEF RecsIInv
<1> QED BY <1>1, <1>2 DEF RecsIInv

LEMMA RecAdvance ==
  ASSUME NEW s, NEW o \in BOOLEAN, NEW d \in BOOLEAN, Records(s, o, d)!RecordsAssumption, RecsIInv(s),
         NEW x \in RecX(s), Records(s, o, d)!Advance(x)
  PROVE  /\ agent[x] \in 0..1 /\ agent' = [agent EXCEPT ![x] = agent[x] + 1] /\ agent' \in [RecX(s) -> 0..2]
         /\ agent'[x] = agent[x] + 1
         /\ sent' = sent + 1 /\ sent' \in Nat
         /\ posts' = posts \cup {[n |-> sent, x |-> x, st |-> agent[x] + 1]}
         /\ \A p \in posts' : p \in posts \/ (p.x \in RecX(s) /\ p.st \in 1..2 /\ p.n \in Nat)
<1>1. agent[x] \in 0..1 /\ agent \in [RecX(s) -> 0..2] /\ sent \in Nat
  BY DEF RecsIInv, Records!Advance, Records!Done
<1>2. /\ agent' = [agent EXCEPT ![x] = agent[x] + 1] /\ sent' = sent + 1
      /\ posts' = posts \cup {[n |-> sent, x |-> x, st |-> agent[x] + 1]}
  BY DEF Records!Advance
<1>3. agent' \in [RecX(s) -> 0..2] /\ agent'[x] = agent[x] + 1
  BY <1>1, <1>2
<1>4. \A p \in posts' : p \in posts \/ (p.x \in RecX(s) /\ p.st \in 1..2 /\ p.n \in Nat)
  BY <1>1, <1>2
<1> QED BY <1>1, <1>2, <1>3, <1>4

LEMMA RecOfferFields ==
  ASSUME NEW s, NEW r \in RecOffer(s)
  PROVE  /\ r.op \in {"offer", "schemaId"} /\ r.todo \in SUBSET s.cred /\ r.ok \in SUBSET s.cred /\ r.failed \in BOOLEAN
         /\ \A o \in {"offer", "schemaId"} : RecRequest(s, [r EXCEPT !.op = o])
         /\ \A o \in {"offer", "schemaId"} : [r EXCEPT !.op = o].op = o
         /\ \A x \in s.cred : LET q == [r EXCEPT !.todo = @ \ {x}, !.ok = @ \cup {x}]
                              IN  RecRequest(s, q) /\ q.op = r.op /\ q.todo = r.todo \ {x}
         /\ \A x \in s.cred : LET q == [r EXCEPT !.todo = @ \ {x}, !.failed = TRUE]
                              IN  RecRequest(s, q) /\ q.op = r.op /\ q.todo = r.todo \ {x}
         /\ \A x : LET q == [r EXCEPT !.ok = @ \ {x}] IN RecRequest(s, q) /\ q.op = r.op /\ q.todo = r.todo
<1>1. /\ r.op \in {"offer", "schemaId"} /\ r.todo \in SUBSET s.cred /\ r.ok \in SUBSET s.cred /\ r.failed \in BOOLEAN
  BY DEF RecOffer
<1>2. ASSUME NEW o \in {"offer", "schemaId"}
      PROVE  RecRequest(s, [r EXCEPT !.op = o]) /\ [r EXCEPT !.op = o].op = o
  <2>1. [r EXCEPT !.op = o] \in RecOffer(s) /\ [r EXCEPT !.op = o].op = o
    BY DEF RecOffer
  <2> QED BY <2>1 DEF RecRequest
<1>3. ASSUME NEW x \in s.cred
      PROVE  LET q == [r EXCEPT !.todo = @ \ {x}, !.ok = @ \cup {x}]
             IN  RecRequest(s, q) /\ q.op = r.op /\ q.todo = r.todo \ {x}
  <2> DEFINE q == [r EXCEPT !.todo = @ \ {x}, !.ok = @ \cup {x}]
  <2>1. q \in RecOffer(s) /\ q.op = r.op /\ q.todo = r.todo \ {x}
    BY DEF RecOffer
  <2> QED BY <1>1, <2>1 DEF RecRequest
<1>4. ASSUME NEW x \in s.cred
      PROVE  LET q == [r EXCEPT !.todo = @ \ {x}, !.failed = TRUE]
             IN  RecRequest(s, q) /\ q.op = r.op /\ q.todo = r.todo \ {x}
  <2> DEFINE q == [r EXCEPT !.todo = @ \ {x}, !.failed = TRUE]
  <2>1. q \in RecOffer(s) /\ q.op = r.op /\ q.todo = r.todo \ {x}
    BY DEF RecOffer
  <2> QED BY <1>1, <2>1 DEF RecRequest
<1>5. ASSUME NEW x
      PROVE  LET q == [r EXCEPT !.ok = @ \ {x}] IN RecRequest(s, q) /\ q.op = r.op /\ q.todo = r.todo
  <2> DEFINE q == [r EXCEPT !.ok = @ \ {x}]
  <2>1. q \in RecOffer(s) /\ q.op = r.op /\ q.todo = r.todo
    BY DEF RecOffer
  <2> QED BY <1>1, <2>1 DEF RecRequest
<1> QED BY <1>1, <1>2, <1>3, <1>4, <1>5

(* Offers, proof requests and what goes on on the agent.                   *)
LEMMA RecExchangesKept ==
  ASSUME NEW s, NEW o \in BOOLEAN, NEW d \in BOOLEAN, Records(s, o, d)!RecordsAssumption, RecsIInv(s),
         Records(s, o, d)!Exchanges,
         UNCHANGED <<dedicated, unlabelled>>
  PROVE  RecsIInv(s)'
<1>u. /\ s.requests \in Nat /\ s.faults \in Nat /\ s.conn = {RecConn(s)}
      /\ s.conn \cap (s.cred \cup s.pres) = {} /\ \A x : Records(s, o, d)!Has(x) <=> row[x] # NoRec
      /\ s.conn \subseteq RecX(s) /\ s.cred \subseteq RecX(s) /\ s.pres \subseteq RecX(s)
  BY RecsUnfolded DEF RecX
<1>t. /\ wallet \in BOOLEAN /\ files \in BOOLEAN /\ agent \in [RecX(s) -> 0..2] /\ sent \in Nat /\ RecRows(s, row)
      /\ started \in 0..s.requests /\ faults \in 0..s.faults /\ \A r \in pend : RecRequest(s, r)
  BY DEF RecsIInv
<1>1. ASSUME NEW X \in SUBSET s.cred, Records(s, o, d)!SendCredentialCreateOffer(X)
      PROVE  RecsIInv(s)'
  <2> DEFINE q == [op |-> "offer", todo |-> X, ok |-> {}, failed |-> FALSE]
  <2>1. q \in RecOffer(s) /\ q.op = "offer"
    BY DEF RecOffer
  <2>2. RecRequest(s, q)
    BY <2>1 DEF RecRequest
  <2>3. /\ pend' = pend \cup {q} /\ started' \in 0..s.requests /\ wallet' = wallet /\ row' = row /\ files' = files
        /\ agent' = agent /\ posts' = posts /\ sent' = sent /\ faults' = faults
    BY <1>1, <1>u, <1>t DEF Records!SendCredentialCreateOffer, Records!Request, Records!db, Records!far
  <2> QED BY <1>t, <2>2, <2>3, RecsMoved
<1>2. ASSUME NEW x \in s.pres, Records(s, o, d)!SendProofRequest(x)
      PROVE  RecsIInv(s)'
  <2>1. /\ Records(s, o, d)!Advance(x) /\ started' \in 0..s.requests /\ wallet' = wallet /\ row' = row
        /\ files' = files /\ pend' = pend /\ faults' = faults
    BY <1>2, <1>u, <1>t DEF Records!SendProofRequest, Records!db
  <2>2. x \in RecX(s)
    BY <1>u
  <2>3. /\ agent' \in [RecX(s) -> 0..2] /\ sent' \in Nat
        /\ \A p \in posts' : p \in posts \/ (p.x \in RecX(s) /\ p.st \in 1..2 /\ p.n \in Nat)
    BY <2>1, <2>2, RecAdvance
  <2> QED BY <1>t, <2>1, <2>3, RecsMoved
<1>3. ASSUME NEW x \in RecX(s), Records(s, o, d)!Connect(x) \/ Records(s, o, d)!Proceed(x)
      PROVE  RecsIInv(s)'
  <2>1. /\ Records(s, o, d)!Advance(x) /\ started' = started /\ wallet' = wallet /\ row' = row
        /\ files' = files /\ pend' = pend /\ faults' = faults
    BY <1>3 DEF Records!Connect, Records!Proceed, Records!db
  <2>3. /\ agent' \in [RecX(s) -> 0..2] /\ sent' \in Nat
        /\ \A p \in posts' : p \in posts \/ (p.x \in RecX(s) /\ p.st \in 1..2 /\ p.n \in Nat)
    BY <2>1, RecAdvance
  <2> QED BY <1>t, <2>1, <2>3, RecsMoved
<1>4. ASSUME Records(s, o, d)!Upload
      PROVE  RecsIInv(s)'
  <2>1. /\ wallet' = wallet /\ row' = row /\ files' = TRUE /\ pend' = pend /\ started' = started /\ faults' = faults
        /\ agent' = agent /\ posts' = posts /\ sent' = sent
    BY <1>4 DEF Records!Upload, Records!far
  <2> QED BY <1>t, <2>1, RecsMoved
<1>5. ASSUME NEW req \in pend, NEW x \in s.cred, Records(s, o, d)!OfferOne(req, x)
      PROVE  RecsIInv(s)'
  <2>1. req \in RecOffer(s)
    BY <1>5, <1>t DEF RecRequest, Records!OfferOne
  <2>2. CASE /\ Records(s, o, d)!Advance(x) /\ faults' = faults
             /\ Records(s, o, d)!Turn(req, [req EXCEPT !.todo = @ \ {x}, !.ok = @ \cup {x}])
    <3> DEFINE q == [req EXCEPT !.todo = @ \ {x}, !.ok = @ \cup {x}]
    <3>1. RecRequest(s, q)
      BY <2>1, RecOfferFields
    <3>2. /\ pend' \subseteq pend \cup {q} /\ started' = started /\ wallet' = wallet /\ row' = row /\ files' = files
      BY <2>2, <1>5 DEF Records!Turn, Records!OfferOne, Records!db
    <3>3. /\ agent' \in [RecX(s) -> 0..2] /\ sent' \in Nat
          /\ \A p \in posts' : p \in posts \/ (p.x \in RecX(s) /\ p.st \in 1..2 /\ p.n \in Nat)
      BY <2>2, <1>u, RecAdvance
    <3> HIDE DEF q
    <3> QED BY <1>t, <2>2, <3>1, <3>2, <3>3, RecsMoved
  <2>3. CASE /\ Records(s, o, d)!Fault /\ agent' = agent /\ posts' = posts /\ sent' = sent
             /\ Records(s, o, d)!Turn(req, [req EXCEPT !.todo = @ \ {x}, !.failed = TRUE])
    <3> DEFINE q == [req EXCEPT !.todo = @ \ {x}, !.failed = TRUE]
    <3>1. RecRequest(s, q)
      BY <2>1, RecOfferFields
    <3>2. /\ pend' \subseteq pend \cup {q} /\ started' = started /\ wallet' = wallet /\ row' = row /\ files' = files
      BY <2>3, <1>5 DEF Records!Turn, Records!OfferOne, Records!db
    <3>3. faults' \in 0..s.faults
      BY <2>3, <1>u, <1>t DEF Records!Fault
    <3> HIDE DEF q
    <3> QED BY <1>t, <2>3, <3>1, <3>2, <3>3, RecsMoved
  <2> QED BY <1>5, <2>2, <2>3 DEF Records!OfferOne, Records!far
<1>6. ASSUME NEW req \in pend, Records(s, o, d)!Offered(req)
      PROVE  RecsIInv(s)'
  <2>1. req \in RecOffer(s)
    BY <1>6, <1>t DEF RecRequest, Records!Offered
  <2> DEFINE q == [req EXCEPT !.op = "schemaId"]
  <2>2. RecRequest(s, q)
    BY <2>1, RecOfferFields
  <2>3. /\ pend' \subseteq pend \cup {q} /\ started' = started /\ wallet' = wallet /\ row' = row /\ files' = files
        /\ agent' = agent /\ posts' = posts /\ sent' = sent /\ faults' = faults
    BY <1>6 DEF Records!Turn, Records!Offered, Records!db, Records!far, Records!Go, Records!End
  <2> HIDE DEF q
  <2> QED BY <1>t, <2>2, <2>3, RecsMoved
<1>7. ASSUME NEW req \in pend, NEW x \in s.cred, Records(s, o, d)!UpdateSchemaIdByThreadId(req, x)
      PROVE  RecsIInv(s)'
  <2>1. req \in RecOffer(s)
    BY <1>7, <1>t DEF RecRequest, Records!UpdateSchemaIdByThreadId
  <2> DEFINE q == [req EXCEPT !.ok = @ \ {x}]
  <2>2. RecRequest(s, q)
    BY <2>1, RecOfferFields
  <2>3. /\ pend' \subseteq pend \cup {q} /\ started' = started /\ wallet' = wallet /\ files' = files
        /\ agent' = agent /\ posts' = posts /\ sent' = sent /\ faults' = faults
    BY <1>7 DEF Records!Turn, Records!UpdateSchemaIdByThreadId, Records!far, Records!End
  <2>4. RecRows(s, row')
    <3>1. CASE row[x] = NoRec
      BY <3>1, <1>7, <1>u, <1>t DEF Records!UpdateSchemaIdByThreadId
    <3>2. CASE row[x] # NoRec
      <4> DEFINE v == [row[x] EXCEPT !.schema = TRUE]
      <4>1. row[x] \in RecRow /\ row \in [RecX(s) -> RecRow \cup {NoRec}]
        BY <3>2, <1>t, <1>u DEF RecRows
      <4>2. v \in RecRow /\ v.linked = row[x].linked
        BY <4>1 DEF RecRow
      <4>3. row' = [row EXCEPT ![x] = v]
        BY <3>2, <1>7, <1>u DEF Records!UpdateSchemaIdByThreadId
      <4>4. v.linked => row[RecConn(s)] # NoRec
        BY <4>2, <3>2, <1>u, <1>t DEF RecRows
      <4> HIDE DEF v
      <4> QED BY <4>2, <4>3, <4>4, <1>t, <1>u, RecRowWritten
    <3> QED BY <3>1, <3>2
  <2> HIDE DEF q
  <2> QED BY <1>t, <2>2, <2>3, <2>4, RecsMoved
<1>8. \A c \in s.conn \cup s.cred \cup s.pres : c \in RecX(s)
  BY DEF RecX
<1> QED BY <1>1, <1>2, <1>3, <1>4, <1>5, <1>6, <1>7, <1>8 DEF Records!Exchanges

LEMMA RecLabel ==
  ASSUME NEW s, NEW o \in BOOLEAN, NEW d \in BOOLEAN, NEW n \in Nat
  PROVE  LET h == n - Records(s, o, d)!Visible(n) IN h \in Nat /\ (n > 1 => 3 * h >= n)
BY DEF Records!Visible

(* A webhook is saved when the organization is known or the row is there,  *)
(* the connection has a label and the one it names is recorded.            *)
RecTaken(s, r) == /\ row[r.x] # NoRec \/ r.org
                  /\ r.x \in s.conn => r.x \notin unlabelled
                  /\ r.x \in s.conn \/ r.x \in s.oob \/ row[RecConn(s)] # NoRec
(* What it then writes: the state of the post, the connection it names,    *)
(* the schema id it had, a masked label.                                   *)
RecWrites(s, r, v) ==
  /\ v \in RecRow /\ v.st = r.st
  /\ r.x \notin s.conn => v.linked = (r.x \notin s.oob)
  /\ r.x \in s.cred /\ row[r.x] # NoRec /\ row[r.x].schema => v.schema
  /\ r.x \in s.conn /\ v.len > 1 => 3 * v.hidden >= v.len
RecSaves(s, r) == IF RecTaken(s, r) THEN \E v : RecWrites(s, r, v) /\ row' = [row EXCEPT ![r.x] = v] ELSE row' = row

LEMMA RecConnSaved ==
  ASSUME NEW s, NEW o \in BOOLEAN, NEW d \in BOOLEAN, Records(s, o, d)!RecordsAssumption, RecsIInv(s),
         NEW req \in pend, NEW n \in s.length, Records(s, o, d)!SaveConnectionWebhook(req, n)
  PROVE  RecSaves(s, req) /\ req.x \in s.conn
<1>u. /\ s.conn = {RecConn(s)} /\ s.conn \cap (s.cred \cup s.pres) = {} /\ s.length \subseteq Nat
      /\ Records(s, o, d)!Has(req.x) <=> row[req.x] # NoRec
  BY RecsUnfolded
<1>t. RecRows(s, row) /\ req.op = "save" /\ req.x \in s.conn /\ req.x \in RecX(s) /\ req.st \in 1..2 /\ req.org \in BOOLEAN
  BY DEF RecsIInv, RecRequest, Records!SaveConnectionWebhook
<1>c. req.x \notin s.cred
  BY <1>t, <1>u
<1>0. CASE req.x \in unlabelled
  BY <1>0, <1>t, <1>u DEF Records!SaveConnectionWebhook, RecSaves, RecTaken
<1>1. CASE req.x \notin unlabelled /\ row[req.x] # NoRec
  <2> DEFINE v == [row[req.x] EXCEPT !.st = req.st]
  <2>1. row[req.x] \in RecRow /\ row \in [RecX(s) -> RecRow \cup {NoRec}]
    BY <1>1, <1>t DEF RecRows
  <2>2. v \in RecRow /\ v.st = req.st /\ v.len = row[req.x].len /\ v.hidden = row[req.x].hidden
    BY <2>1, <1>t DEF RecRow
  <2>3. row' = [row EXCEPT ![req.x] = v]
    BY <1>1, <1>u DEF Records!SaveConnectionWebhook
  <2>4. row[req.x].len > 1 => 3 * row[req.x].hidden >= row[req.x].len
    BY <1>1, <1>t DEF RecRows
  <2> HIDE DEF v
  <2>5. RecWrites(s, req, v)
    BY <2>2, <2>4, <1>t, <1>c DEF RecWrites
  <2> QED BY <1>1, <1>t, <2>3, <2>5 DEF RecSaves, RecTaken
<1>2. CASE req.x \notin unlabelled /\ row[req.x] = NoRec /\ req.org
  <2> DEFINE h == n - Records(s, o, d)!Visible(n)
             v == [st |-> req.st, linked |-> FALSE, schema |-> FALSE, hidden |-> h, len |-> n]
  <2>1. n \in Nat /\ h \in Nat /\ (n > 1 => 3 * h >= n)
    BY <1>u, RecLabel
  <2>3. row' = [row EXCEPT ![req.x] = v]
    BY <1>2, <1>u DEF Records!SaveConnectionWebhook
  <2> HIDE DEF h
  <2>2. v \in RecRow /\ v.st = req.st /\ v.len = n /\ v.hidden = h
    BY <2>1, <1>t DEF RecRow
  <2> HIDE DEF v
  <2>5. RecWrites(s, req, v)
    BY <2>1, <2>2, <1>t, <1>c DEF RecWrites
  <2> QED BY <1>2, <1>t, <2>3, <2>5 DEF RecSaves, RecTaken
<1>3. CASE req.x \notin unlabelled /\ row[req.x] = NoRec /\ ~req.org
  BY <1>3, <1>t, <1>u DEF Records!SaveConnectionWebhook, RecSaves, RecTaken
<1> QED BY <1>t, <1>0, <1>1, <1>2, <1>3

LEMMA RecOtherSaved ==
  ASSUME NEW s, NEW o \in BOOLEAN, NEW d \in BOOLEAN, Records(s, o, d)!RecordsAssumption, RecsIInv(s),
         NEW req \in pend, \/ \E b \in BOOLEAN : Records(s, o, d)!SaveIssuedCredentialDetails(req, b)
                           \/ Records(s, o, d)!StoreProofPresentation(req)
  PROVE  RecSaves(s, req) /\ req.x \in s.cred \cup s.pres
<1>u. /\ s.conn = {RecConn(s)} /\ s.conn \cap (s.cred \cup s.pres) = {} /\ s.cred \cap s.pres = {}
      /\ \A x : Records(s, o, d)!Has(x) <=> row[x] # NoRec
      /\ \A x : Records(s, o, d)!ConnOf(x) = RecConn(s)
  BY RecsUnfolded
<1>t. RecRows(s, row) /\ req.op = "save" /\ req.x \in s.cred \cup s.pres /\ req.st \in 1..2 /\ req.org \in BOOLEAN
  BY DEF RecsIInv, RecRequest, Records!SaveIssuedCredentialDetails, Records!StoreProofPresentation
<1>c. req.x \notin s.conn /\ req.x \in RecX(s)
  BY <1>t, <1>u DEF RecX
<1>a. Records(s, o, d)!Accepted(req) <=> RecTaken(s, req)
  BY <1>u, <1>c DEF Records!Accepted, RecTaken
<1>s. row[req.x] # NoRec => row[req.x].schema \in BOOLEAN
  BY <1>t, <1>c DEF RecRows, RecRow
<1>v. ASSUME NEW b \in BOOLEAN
      PROVE  LET v == [st |-> req.st, linked |-> req.x \notin s.oob, schema |-> b, hidden |-> 0, len |-> 0]
             IN  v \in RecRow /\ v.st = req.st /\ v.linked = (req.x \notin s.oob) /\ v.schema = b
  BY <1>t DEF RecRow
<1>1. ASSUME NEW b \in BOOLEAN, Records(s, o, d)!SaveIssuedCredentialDetails(req, b)
      PROVE  RecSaves(s, req)
  <2>1. CASE ~RecTaken(s, req)
    BY <2>1, <1>1, <1>a DEF Records!SaveIssuedCredentialDetails, RecSaves
  <2>2. CASE RecTaken(s, req)
    <3> DEFINE e == b \/ (row[req.x] # NoRec /\ row[req.x].schema)
               v == [st |-> req.st, linked |-> req.x \notin s.oob, schema |-> e, hidden |-> 0, len |-> 0]
    <3>1. row' = [row EXCEPT ![req.x] = v]
      BY <2>2, <1>1, <1>a, <1>u DEF Records!SaveIssuedCredentialDetails, Records!Stored
    <3>2. e \in BOOLEAN /\ (row[req.x] # NoRec /\ row[req.x].schema => e = TRUE)
      BY <1>s
    <3> HIDE DEF e
    <3>3. v \in RecRow /\ v.st = req.st /\ v.linked = (req.x \notin s.oob) /\ v.schema = e
      BY <3>2, <1>v
    <3> HIDE DEF v
    <3>4. RecWrites(s, req, v)
      BY <3>2, <3>3, <1>c DEF RecWrites
    <3> QED BY <2>2, <3>1, <3>4 DEF RecSaves
  <2> QED BY <2>1, <2>2
<1>2. ASSUME Records(s, o, d)!StoreProofPresentation(req)
      PROVE  RecSaves(s, req)
  <2>1. CASE ~RecTaken(s, req)
    BY <2>1, <1>2, <1>a DEF Records!StoreProofPresentation, RecSaves
  <2>2. CASE RecTaken(s, req)
    <3> DEFINE v == [st |-> req.st, linked |-> req.x \notin s.oob, schema |-> FALSE, hidden |-> 0, len |-> 0]
    <3>1. row' = [row EXCEPT ![req.x] = v]
      BY <2>2, <1>2, <1>a DEF Records!StoreProofPresentation, Records!Stored
    <3>2. req.x \notin s.cred
      BY <1>2, <1>u DEF Records!StoreProofPresentation
    <3>3. v \in RecRow /\ v.st = req.st /\ v.linked = (req.x \notin s.oob)
      BY <1>v
    <3> HIDE DEF v
    <3>4. RecWrites(s, req, v)
      BY <3>2, <3>3, <1>c DEF RecWrites
    <3> QED BY <2>2, <3>1, <3>4 DEF RecSaves
  <2> QED BY <2>1, <2>2
<1> QED BY <1>1, <1>2, <1>t

(* A webhook that is saved leaves the rows in order.                       *)
LEMMA RecSavedRows ==
  ASSUME NEW s, NEW o \in BOOLEAN, NEW d \in BOOLEAN, Records(s, o, d)!RecordsAssumption, RecsIInv(s),
         NEW req \in pend, RecSaves(s, req), req.x \in RecX(s)
  PROVE  RecRows(s, row')
<1>u. s.conn = {RecConn(s)} /\ s.oob \subseteq s.cred \cup s.pres /\ s.conn \cap (s.cred \cup s.pres) = {} /\ RecRows(s, row)
  BY RecsUnfolded DEF RecsIInv
<1>1. CASE ~RecTaken(s, req)
  BY <1>1, <1>u DEF RecSaves
<1>2. CASE RecTaken(s, req)
  <2>1. PICK v : RecWrites(s, req, v) /\ row' = [row EXCEPT ![req.x] = v]
    BY <1>2 DEF RecSaves
  <2>2. CASE req.x \in s.conn
    BY <2>1, <2>2, <1>u, RecConnWritten DEF RecWrites
  <2>3. CASE req.x \notin s.conn
    <3>1. req.x \in s.cred \cup s.pres /\ (v.linked => row[RecConn(s)] # NoRec) /\ v \in RecRow
      BY <2>1, <2>3, <1>2 DEF RecX, RecWrites, RecTaken
    <3> QED BY <3>1, <2>1, <2>3, <1>u, RecRowWritten
  <2> QED BY <2>2, <2>3
<1> QED BY <1>1, <1>2

LEMMA RecSaveStep ==
  ASSUME NEW s, NEW o \in BOOLEAN, NEW d \in BOOLEAN, Records(s, o, d)!RecordsAssumption, RecsIInv(s),
         NEW req \in pend,
         \/ \E n \in s.length : Records(s, o, d)!SaveConnectionWebhook(req, n)
         \/ \E b \in BOOLEAN : Records(s, o, d)!SaveIssuedCredentialDetails(req, b)
         \/ Records(s, o, d)!StoreProofPresentation(req)
  PROVE  /\ RecSaves(s, req) /\ RecRows(s, row') /\ req.op = "save"
         /\ pend' = pend \ {req} /\ started' = started /\ wallet' = wallet /\ files' = files
         /\ agent' = agent /\ posts' = posts /\ sent' = sent /\ faults' = faults
<1>1. RecSaves(s, req) /\ req.x \in RecX(s)
  BY RecConnSaved, RecOtherSaved DEF RecX
<1>2. RecRows(s, row')
  BY <1>1, RecSavedRows
<1> QED BY <1>1, <1>2 DEF Records!SaveConnectionWebhook, Records!SaveIssuedCredentialDetails,
                          Records!StoreProofPresentation, Records!End, Records!far

LEMMA RecWebhooksKept ==
  ASSUME NEW s, NEW o \in BOOLEAN, NEW d \in BOOLEAN, Records(s, o, d)!RecordsAssumption, RecsIInv(s),
         Records(s, o, d)!Webhooks,
         UNCHANGED <<dedicated, unlabelled>>
  PROVE  RecsIInv(s)'
<1>u. s.requests \in Nat /\ s.faults \in Nat
  BY RecsUnfolded
<1>t. /\ wallet \in BOOLEAN /\ files \in BOOLEAN /\ agent \in [RecX(s) -> 0..2] /\ sent \in Nat /\ RecRows(s, row)
      /\ started \in 0..s.requests /\ faults \in 0..s.faults
      /\ \A p \in posts : p.x \in RecX(s) /\ p.st \in 1..2 /\ p.n \in Nat
  BY DEF RecsIInv
<1>1. ASSUME NEW p \in posts, Records(s, o, d)!Receive(p)
      PROVE  RecsIInv(s)'
  <2> DEFINE q == [op |-> "save", x |-> p.x, st |-> p.st, n |-> p.n, org |-> wallet \/ dedicated]
  <2>1. q.op = "save" /\ q.x = p.x /\ q.st = p.st /\ q.n = p.n /\ q.org = (wallet \/ dedicated)
    OBVIOUS
  <2>2. /\ pend' = pend \cup {q} /\ posts' = posts \ {p} /\ wallet' = wallet /\ row' = row /\ files' = files
        /\ agent' = agent /\ sent' = sent /\ started' = started /\ faults' = faults
    BY <1>1 DEF Records!Receive, Records!db
  <2> HIDE DEF q
  <2>3. RecRequest(s, q)
    BY <2>1, <1>t DEF RecRequest
  <2> QED BY <1>t, <2>2, <2>3, RecsMoved
<1>2. ASSUME NEW p \in posts, Records(s, o, d)!Lose(p)
      PROVE  RecsIInv(s)'
  <2>1. /\ posts' = posts \ {p} /\ wallet' = wallet /\ row' = row /\ files' = files
        /\ agent' = agent /\ sent' = sent /\ pend' = pend /\ started' = started
    BY <1>2 DEF Records!Lose, Records!db
  <2>2. faults' \in 0..s.faults
    BY <1>2, <1>t, <1>u DEF Records!Lose, Records!Fault
  <2> QED BY <1>t, <2>1, <2>2, RecsMoved
<1>3. ASSUME NEW req \in pend,
             \/ \E n \in s.length : Records(s, o, d)!SaveConnectionWebhook(req, n)
             \/ \E b \in BOOLEAN : Records(s, o, d)!SaveIssuedCredentialDetails(req, b)
             \/ Records(s, o, d)!StoreProofPresentation(req)
      PROVE  RecsIInv(s)'
  BY <1>3, <1>t, RecSaveStep, RecsMoved
<1> QED BY <1>1, <1>2, <1>3 DEF Records!Webhooks

(* Rows that are deleted.                                                  *)
LEMMA RecWithout ==
  ASSUME NEW s, NEW o \in BOOLEAN, NEW d \in BOOLEAN, Records(s, o, d)!RecordsAssumption, RecsIInv(s),
         NEW S \in {s.cred, s.pres}, row' = Records(s, o, d)!Without(S)
  PROVE  /\ RecRows(s, row')
         /\ \A x \in RecX(s) : row'[x] = IF x \in S THEN NoRec ELSE row[x]
<1>u. /\ s.conn = {RecConn(s)} /\ s.conn \cap (s.cred \cup s.pres) = {} /\ Records(s, o, d)!Exchange = RecX(s)
      /\ RecConn(s) \in RecX(s)
  BY RecsUnfolded
<1>t. RecRows(s, row) /\ row \in [RecX(s) -> RecRow \cup {NoRec}]
  BY DEF RecsIInv, RecRows
<1>1. row' = [x \in RecX(s) |-> IF x \in S THEN NoRec ELSE row[x]]
  BY <1>u DEF Records!Without, Records!None, NoRec
<1>2. \A x \in RecX(s) : row'[x] = IF x \in S THEN NoRec ELSE row[x]
  BY <1>1
<1>3. row' \in [RecX(s) -> RecRow \cup {NoRec}]
  BY <1>1, <1>t
<1>4. row'[RecConn(s)] = row[RecConn(s)]
  BY <1>2, <1>u
<1>5. RecRows(s, row')
  BY <1>t, <1>2, <1>3, <1>4, RecRowsDropped
<1> QED BY <1>2, <1>5

LEMMA RecDropConns ==
  ASSUME NEW s, NEW o \in BOOLEAN, NEW d \in BOOLEAN, Records(s, o, d)!RecordsAssumption, RecsIInv(s),
         NEW req, Records(s, o, d)!DeleteConnectionRecordsByOrgId(req)
  PROVE  /\ RecRows(s, row')
         /\ \A x \in s.conn : row'[x] = NoRec
         /\ \A x \in s.cred \cup s.pres : /\ row[x] = NoRec => row'[x] = NoRec
                                          /\ row[x] # NoRec => row'[x] = [row[x] EXCEPT !.linked = FALSE]
         /\ \A x \in s.cred \cup s.pres : row[x] # NoRec => row'[x].schema = row[x].schema
<1>u. /\ s.conn = {RecConn(s)} /\ s.conn \cap (s.cred \cup s.pres) = {} /\ Records(s, o, d)!Exchange = RecX(s)
      /\ RecConn(s) \in RecX(s) /\ \A x : Records(s, o, d)!Has(x) <=> row[x] # NoRec
  BY RecsUnfolded
<1>t. RecRows(s, row) /\ row \in [RecX(s) -> RecRow \cup {NoRec}]
  BY DEF RecsIInv, RecRows
<1> DEFINE F(x) == IF x \in s.conn THEN NoRec ELSE IF row[x] # NoRec THEN [row[x] EXCEPT !.linked = FALSE] ELSE row[x]
<1>1. \A x \in RecX(s) : row'[x] = F(x)
  BY <1>u DEF Records!DeleteConnectionRecordsByOrgId, Records!None, NoRec
<1>1a. row' = [x \in RecX(s) |-> row'[x]]
  BY <1>u DEF Records!DeleteConnectionRecordsByOrgId
<1>2. \A x \in RecX(s) : row[x] # NoRec => /\ row[x] \in RecRow /\ [row[x] EXCEPT !.linked = FALSE] \in RecRow
                                           /\ [row[x] EXCEPT !.linked = FALSE].linked = FALSE
                                           /\ [row[x] EXCEPT !.linked = FALSE].len = row[x].len
                                           /\ [row[x] EXCEPT !.linked = FALSE].hidden = row[x].hidden
                                           /\ [row[x] EXCEPT !.linked = FALSE].schema = row[x].schema
  <2> SUFFICES ASSUME NEW x \in RecX(s), row[x] # NoRec
               PROVE  /\ row[x] \in RecRow /\ [row[x] EXCEPT !.linked = FALSE] \in RecRow
                                           /\ [row[x] EXCEPT !.linked = FALSE].linked = FALSE
                                           /\ [row[x] EXCEPT !.linked = FALSE].len = row[x].len
                                           /\ [row[x] EXCEPT !.linked = FALSE].hidden = row[x].hidden
                                           /\ [row[x] EXCEPT !.linked = FALSE].schema = row[x].schema
    OBVIOUS
  <2>1. row[x] \in RecRow
    BY <1>t
  <2> QED BY <2>1 DEF RecRow
<1>3. row' \in [RecX(s) -> RecRow \cup {NoRec}]
  <2>1. \A x \in RecX(s) : row'[x] \in RecRow \cup {NoRec}
    BY <1>1, <1>2, <1>t
  <2> QED BY <2>1, <1>1a
<1>4. \A x \in RecX(s) : row'[x] # NoRec => /\ row[x] # NoRec /\ row'[x].len = row[x].len /\ row'[x].hidden = row[x].hidden
                                            /\ row'[x].linked = FALSE
  BY <1>1, <1>2
<1>5. RecRows(s, row')
  BY <1>t, <1>3, <1>4, RecRowsDropped
<1>6. \A x \in s.conn : x \in RecX(s)
  BY DEF RecX
<1>7. \A x \in s.cred \cup s.pres : x \in RecX(s) /\ x \notin s.conn
  BY <1>u DEF RecX
<1> QED BY <1>1, <1>2, <1>5, <1>6, <1>7

LEMMA RecDeletionsKept ==
  ASSUME NEW s, NEW o \in BOOLEAN, NEW d \in BOOLEAN, Records(s, o, d)!RecordsAssumption, RecsIInv(s),
         Records(s, o, d)!Deletions,
         UNCHANGED <<dedicated, unlabelled>>
  PROVE  RecsIInv(s)'
<1>u. s.requests \in Nat /\ s.faults \in Nat
  BY RecsUnfolded
<1>t. /\ wallet \in BOOLEAN /\ files \in BOOLEAN /\ agent \in [RecX(s) -> 0..2] /\ sent \in Nat /\ RecRows(s, row)
      /\ started \in 0..s.requests /\ faults \in 0..s.faults /\ \A r \in pend : RecRequest(s, r)
  BY DEF RecsIInv
<1>1. CASE Records(s, o, d)!DeleteVerificationRecords
  <2>1. /\ row' = Records(s, o, d)!Without(s.pres) /\ wallet' = wallet /\ files' = files /\ pend' = pend
        /\ agent' = agent /\ posts' = posts /\ sent' = sent /\ faults' = faults /\ started' \in 0..s.requests
    BY <1>1, <1>u, <1>t DEF Records!DeleteVerificationRecords, Records!far
  <2> QED BY <2>1, <1>t, RecWithout, RecsMoved
<1>2. CASE Records(s, o, d)!DeleteIssuanceRecords
  <2> DEFINE q == [op |-> "countPres"]
  <2>1. /\ pend' = pend \cup {q} /\ files' = FALSE /\ wallet' = wallet /\ row' = row
        /\ agent' = agent /\ posts' = posts /\ sent' = sent /\ faults' = faults /\ started' \in 0..s.requests
    BY <1>2, <1>u, <1>t DEF Records!DeleteIssuanceRecords, Records!Request, Records!far
  <2>2. RecRequest(s, q)
    BY DEF RecRequest
  <2> HIDE DEF q
  <2> QED BY <2>1, <2>2, <1>t, RecsMoved
<1>3. CASE Records(s, o, d)!DeleteConnectionRecords
  <2>1. PICK op \in {"refuse", "dropConns"} : pend' = pend \cup {[op |-> op]}
    BY <1>3 DEF Records!DeleteConnectionRecords, Records!Request
  <2>2. /\ files' = files /\ wallet' = wallet /\ row' = row
        /\ agent' = agent /\ posts' = posts /\ sent' = sent /\ faults' = faults /\ started' \in 0..s.requests
    BY <1>3, <1>u, <1>t DEF Records!DeleteConnectionRecords, Records!Request, Records!far, Records!db
  <2>3. RecRequest(s, [op |-> op])
    BY <2>1 DEF RecRequest
  <2> QED BY <2>1, <2>2, <2>3, <1>t, RecsMoved
<1>4. CASE Records(s, o, d)!DeleteWallet
  BY <1>4, <1>t, RecsMoved DEF Records!DeleteWallet, Records!far
<1>5. ASSUME NEW req \in pend, Records(s, o, d)!CountPresentations(req)
      PROVE  RecsIInv(s)'
  <2>1. req = [op |-> "countPres"]
    BY <1>5, <1>t DEF RecRequest, Records!CountPresentations
  <2> DEFINE q == [req EXCEPT !.op = "dropCreds"]
  <2>2. q = [op |-> "dropCreds"]
    BY <2>1
  <2>3. /\ pend' \subseteq pend \cup {q} /\ started' = started /\ wallet' = wallet /\ row' = row /\ files' = files
        /\ agent' = agent /\ posts' = posts /\ sent' = sent /\ faults' = faults
    BY <1>5 DEF Records!CountPresentations, Records!Go, Records!Turn, Records!End, Records!far, Records!db
  <2> HIDE DEF q
  <2>4. RecRequest(s, q)
    BY <2>2 DEF RecRequest
  <2> QED BY <2>3, <2>4, <1>t, RecsMoved
<1>6. ASSUME NEW req \in pend, Records(s, o, d)!DeleteIssuanceRecordsByOrgId(req)
      PROVE  RecsIInv(s)'
  <2>1. /\ row' = Records(s, o, d)!Without(s.cred) /\ wallet' = wallet /\ files' = files /\ pend' \subseteq pend
        /\ agent' = agent /\ posts' = posts /\ sent' = sent /\ faults' = faults /\ started' = started
    BY <1>6 DEF Records!DeleteIssuanceRecordsByOrgId, Records!far, Records!End
  <2> QED BY <2>1, <1>t, RecWithout, RecsMoved
<1>7. ASSUME NEW req \in pend, Records(s, o, d)!Refuse(req)
      PROVE  RecsIInv(s)'
  BY <1>7, <1>t, RecsMoved DEF Records!Refuse, Records!End, Records!db, Records!far
<1>8. ASSUME NEW req \in pend, Records(s, o, d)!DeleteConnectionRecordsByOrgId(req)
      PROVE  RecsIInv(s)'
  <2>1. /\ wallet' = wallet /\ files' = files /\ pend' \subseteq pend
        /\ agent' = agent /\ posts' = posts /\ sent' = sent /\ faults' = faults /\ started' = started
    BY <1>8 DEF Records!DeleteConnectionRecordsByOrgId, Records!far, Records!End
  <2> QED BY <2>1, <1>8, <1>t, RecDropConns, RecsMoved
<1> QED BY <1>1, <1>2, <1>3, <1>4, <1>5, <1>6, <1>7, <1>8 DEF Records!Deletions

LEMMA RecsKept ==
  ASSUME NEW s, NEW o \in BOOLEAN, NEW d \in BOOLEAN, Records(s, o, d)!RecordsAssumption, RecsIInv(s),
         Records(s, o, d)!Next
  PROVE  RecsIInv(s)'
BY RecExchangesKept, RecWebhooksKept, RecDeletionsKept DEF Records!Next, Records!fixed

LEMMA RecsBegin ==
  ASSUME NEW s, NEW o \in BOOLEAN, NEW d \in BOOLEAN, Records(s, o, d)!RecordsAssumption, Records(s, o, d)!Init
  PROVE  RecsIInv(s)
<1>1. /\ dedicated \in BOOLEAN /\ unlabelled \subseteq s.conn
      /\ wallet = TRUE /\ files = FALSE /\ posts = {} /\ sent = 0 /\ pend = {} /\ started = 0 /\ faults = 0
      /\ agent = [x \in RecX(s) |-> 0] /\ row = [x \in RecX(s) |-> NoRec]
  BY RecsUnfolded DEF Records!Init, Records!None, NoRec
<1>2. s.requests \in Nat /\ s.faults \in Nat /\ s.conn \subseteq RecX(s)
  BY RecsUnfolded DEF RecX
<1>3. RecRows(s, row)
  BY <1>1, <1>2 DEF RecRows
<1>4. agent \in [RecX(s) -> 0..2] /\ started \in 0..s.requests /\ faults \in 0..s.faults
  BY <1>1, <1>2
<1> QED BY <1>1, <1>3, <1>4 DEF RecsIInv

LEMMA RecsSafe ==
  ASSUME NEW s, NEW o \in BOOLEAN, NEW d \in BOOLEAN, Records(s, o, d)!RecordsAssumption, RecsIInv(s)
  PROVE  Records(s, o, d)!TypeOK /\ Records(s, o, d)!LabelMasked
<1>1. \A x \in RecX(s) : row[x] # NoRec /\ row[x].linked => row[RecConn(s)] # NoRec
  BY DEF RecsIInv, RecRows
<1>2. row \in [RecX(s) -> [st : 1..2, linked : BOOLEAN, schema : BOOLEAN, hidden : Nat, len : Nat] \cup {NoRec}]
  BY DEF RecsIInv, RecRows, RecRow
<1>3. Records(s, o, d)!TypeOK
  BY <1>1, <1>2, RecsUnfolded DEF RecsIInv, Records!TypeOK, Records!Done, Records!None, NoRec
<1>4. Records(s, o, d)!LabelMasked
  BY RecsUnfolded DEF RecsIInv, RecRows, Records!LabelMasked, Records!Of
<1> QED BY <1>3, <1>4

(* A schema id that is recorded stays.                                     *)
LEMMA RecsSchemaKept ==
  ASSUME NEW s, NEW o \in BOOLEAN, NEW d \in BOOLEAN, Records(s, o, d)!RecordsAssumption, RecsIInv(s),
         Records(s, o, d)!Next \/ row' = row
  PROVE  Records(s, o, d)!SchemaIdKept
<1> SUFFICES ASSUME NEW x \in s.cred, row[x] # NoRec, row[x].schema, row'[x] # NoRec
             PROVE  row'[x].schema
  BY RecsUnfolded DEF Records!SchemaIdKept, Records!None, NoRec
<1>u. /\ s.conn \cap (s.cred \cup s.pres) = {} /\ s.cred \cap s.pres = {}
      /\ \A y : Records(s, o, d)!Has(y) <=> row[y] # NoRec
  BY RecsUnfolded
<1>t. row \in [RecX(s) -> RecRow \cup {NoRec}] /\ x \in RecX(s) /\ row[x] \in RecRow
  BY DEF RecsIInv, RecRows, RecX
<1>1. CASE row' = row
  BY <1>1
<1>2. ASSUME NEW req \in pend, NEW y \in s.cred, Records(s, o, d)!UpdateSchemaIdByThreadId(req, y)
      PROVE  row'[x].schema
  <2>1. CASE row[y] = NoRec
    BY <2>1, <1>2, <1>u DEF Records!UpdateSchemaIdByThreadId
  <2>2. CASE row[y] # NoRec
    <3>1. row' = [row EXCEPT ![y] = [row[y] EXCEPT !.schema = TRUE]]
      BY <2>2, <1>2, <1>u DEF Records!UpdateSchemaIdByThreadId
    <3>2. [row[x] EXCEPT !.schema = TRUE].schema = TRUE
      BY <1>t DEF RecRow
    <3> QED BY <3>1, <3>2, <1>t
  <2> QED BY <2>1, <2>2
<1>3. ASSUME NEW req \in pend,
             \/ \E n \in s.length : Records(s, o, d)!SaveConnectionWebhook(req, n)
             \/ \E b \in BOOLEAN : Records(s, o, d)!SaveIssuedCredentialDetails(req, b)
             \/ Records(s, o, d)!StoreProofPresentation(req)
      PROVE  row'[x].schema
  <2>1. RecSaves(s, req)
    BY <1>3, RecSaveStep
  <2>2. CASE RecTaken(s, req)
    <3>1. PICK v : RecWrites(s, req, v) /\ row' = [row EXCEPT ![req.x] = v]
      BY <2>1, <2>2 DEF RecSaves
    <3> QED BY <3>1, <1>t DEF RecWrites
  <2> QED BY <2>1, <2>2 DEF RecSaves
<1>4. ASSUME NEW S \in {s.cred, s.pres}, row' = Records(s, o, d)!Without(S)
      PROVE  row'[x].schema
  BY <1>4, <1>t, RecWithout
<1>5. ASSUME NEW req \in pend, Records(s, o, d)!DeleteConnectionRecordsByOrgId(req)
      PROVE  row'[x].schema
  BY <1>5, <1>t, RecDropConns
<1>6. CASE Records(s, o, d)!Exchanges
  <2>1. \/ row' = row
        \/ \E req \in pend, y \in s.cred : Records(s, o, d)!UpdateSchemaIdByThreadId(req, y)
    BY <1>6 DEF Records!Exchanges, Records!SendCredentialCreateOffer, Records!SendProofRequest, Records!Connect,
                Records!Proceed, Records!Upload, Records!OfferOne, Records!Offered, Records!db
  <2> QED BY <2>1, <1>1, <1>2
<1>7. CASE Records(s, o, d)!Webhooks
  <2>1. ASSUME NEW p \in posts, Records(s, o, d)!Receive(p) \/ Records(s, o, d)!Lose(p)
        PROVE  row' = row
    BY <2>1 DEF Records!Receive, Records!Lose, Records!db
  <2> QED BY <1>7, <2>1, <1>1, <1>3 DEF Records!Webhooks
<1>8. CASE Records(s, o, d)!Deletions
  <2>1. \/ row' = row
        \/ \E S \in {s.cred, s.pres} : row' = Records(s, o, d)!Without(S)
        \/ \E req \in pend : Records(s, o, d)!DeleteConnectionRecordsByOrgId(req)
    BY <1>8 DEF Records!Deletions, Records!DeleteVerificationRecords, Records!DeleteIssuanceRecords,
                Records!DeleteConnectionRecords, Records!DeleteWallet, Records!CountPresentations,
                Records!DeleteIssuanceRecordsByOrgId, Records!Refuse, Records!db
  <2> QED BY <2>1, <1>1, <1>4, <1>5
<1> QED BY <1>1, <1>6, <1>7, <1>8 DEF Records!Next

(* One request at a time: connections are deleted when nothing names them, *)
(* and a tenant's post finds its organization only while there is a wallet. *)
RecsInTurn(s) ==
  /\ \A r, q \in pend : r = q
  /\ \A r \in pend : r.op = "dropConns" => \A x \in s.cred \cup s.pres : row[x] = NoRec
  /\ \A r \in pend : r.op = "save" /\ r.org => wallet \/ dedicated
  /\ ~wallet /\ ~dedicated => \A x \in RecX(s) : row[x] = NoRec
  /\ \A x \in s.cred \cup s.pres : row[x] # NoRec /\ x \notin s.oob => row[x].linked

(* A step that writes no row.                                              *)
LEMMA RecsQuietInTurn ==
  ASSUME NEW s, RecsInTurn(s), row' = row, wallet' = wallet, \A r, q \in pend' : r = q,
         \A r \in pend' : r \in pend \/ r.op \notin {"dropConns", "save"},
         UNCHANGED <<dedicated, unlabelled>>
  PROVE  RecsInTurn(s)'
BY DEF RecsInTurn

(* A step in which rows go.                                                *)
LEMMA RecsDropInTurn ==
  ASSUME NEW s, RecsInTurn(s), wallet' = wallet, pend' \subseteq pend,
         \A x \in RecX(s) : row'[x] = row[x] \/ row'[x] = NoRec,
         UNCHANGED <<dedicated, unlabelled>>
  PROVE  RecsInTurn(s)'
<1>1. \A x \in s.cred \cup s.pres : x \in RecX(s)
  BY DEF RecX
<1> QED BY <1>1 DEF RecsInTurn

LEMMA RecExchangesInTurn ==
  ASSUME NEW s, NEW o \in BOOLEAN, ~o, NEW d \in BOOLEAN, Records(s, o, d)!RecordsAssumption, RecsIInv(s), RecsInTurn(s),
         Records(s, o, d)!Exchanges,
         UNCHANGED <<dedicated, unlabelled>>
  PROVE  RecsInTurn(s)'
<1>u. /\ s.conn \cap (s.cred \cup s.pres) = {} /\ \A x : Records(s, o, d)!Has(x) <=> row[x] # NoRec
  BY RecsUnfolded
<1>t. RecRows(s, row) /\ (\A r \in pend : RecRequest(s, r)) /\ \A r, q \in pend : r = q
  BY DEF RecsIInv, RecsInTurn
<1>1. ASSUME NEW X \in SUBSET s.cred, Records(s, o, d)!SendCredentialCreateOffer(X)
      PROVE  RecsInTurn(s)'
  <2>1. /\ pend' = {[op |-> "offer", todo |-> X, ok |-> {}, failed |-> FALSE]} /\ row' = row /\ wallet' = wallet
    BY <1>1 DEF Records!SendCredentialCreateOffer, Records!Request, Records!db
  <2> QED BY <2>1, RecsQuietInTurn
<1>2. ASSUME row' = row, wallet' = wallet, pend' = pend
      PROVE  RecsInTurn(s)'
  BY <1>2, <1>t, RecsQuietInTurn
<1>3. ASSUME NEW req \in pend, NEW q, row' = row, wallet' = wallet, Records(s, o, d)!Turn(req, q), RecRequest(s, q),
             q.op \notin {"dropConns", "save"}
      PROVE  RecsInTurn(s)'
  <2>1. pend' = {q}
    BY <1>3, <1>t DEF Records!Turn
  <2> QED BY <2>1, <1>3, RecsQuietInTurn
<1>5. ASSUME NEW req \in pend, NEW x \in s.cred, Records(s, o, d)!OfferOne(req, x)
      PROVE  RecsInTurn(s)'
  <2>1. req \in RecOffer(s) /\ req.op = "offer" /\ row' = row /\ wallet' = wallet
    BY <1>5, <1>t DEF RecRequest, Records!OfferOne, Records!db
  <2>2. \/ Records(s, o, d)!Turn(req, [req EXCEPT !.todo = @ \ {x}, !.ok = @ \cup {x}])
        \/ Records(s, o, d)!Turn(req, [req EXCEPT !.todo = @ \ {x}, !.failed = TRUE])
    BY <1>5 DEF Records!OfferOne
  <2>3. CASE Records(s, o, d)!Turn(req, [req EXCEPT !.todo = @ \ {x}, !.ok = @ \cup {x}])
    <3> DEFINE q == [req EXCEPT !.todo = @ \ {x}, !.ok = @ \cup {x}]
    <3>1. RecRequest(s, q)
      BY <2>1, RecOfferFields
    <3>2. q.op = "offer"
      BY <2>1 DEF RecOffer
    <3> HIDE DEF q
    <3> QED BY <2>1, <2>3, <3>1, <3>2, <1>3 DEF q
  <2>4. CASE Records(s, o, d)!Turn(req, [req EXCEPT !.todo = @ \ {x}, !.failed = TRUE])
    <3> DEFINE q == [req EXCEPT !.todo = @ \ {x}, !.failed = TRUE]
    <3>1. RecRequest(s, q)
      BY <2>1, RecOfferFields
    <3>2. q.op = "offer"
      BY <2>1 DEF RecOffer
    <3> HIDE DEF q
    <3> QED BY <2>1, <2>4, <3>1, <3>2, <1>3 DEF q
  <2> QED BY <2>2, <2>3, <2>4
<1>6. ASSUME NEW req \in pend, Records(s, o, d)!Offered(req)
      PROVE  RecsInTurn(s)'
  <2>1. req \in RecOffer(s) /\ row' = row /\ wallet' = wallet
    BY <1>6, <1>t DEF RecRequest, Records!Offered, Records!db
  <2>2. \/ Records(s, o, d)!Turn(req, [req EXCEPT !.op = "schemaId"])
        \/ pend' \subseteq pend
    BY <1>6 DEF Records!Offered, Records!Go, Records!End
  <2>3. CASE pend' \subseteq pend
    BY <2>1, <2>3, <1>t, RecsQuietInTurn
  <2>4. CASE Records(s, o, d)!Turn(req, [req EXCEPT !.op = "schemaId"])
    <3> DEFINE q == [req EXCEPT !.op = "schemaId"]
    <3>1. RecRequest(s, q) /\ q.op = "schemaId"
      BY <2>1, RecOfferFields
    <3> HIDE DEF q
    <3> QED BY <2>1, <2>4, <3>1, <1>3 DEF q
  <2> QED BY <2>2, <2>3, <2>4
<1>7. ASSUME NEW req \in pend, NEW x \in s.cred, Records(s, o, d)!UpdateSchemaIdByThreadId(req, x)
      PROVE  RecsInTurn(s)'
  <2>1. req \in RecOffer(s) /\ req.op = "schemaId" /\ wallet' = wallet
    BY <1>7, <1>t DEF RecRequest, Records!UpdateSchemaIdByThreadId
  <2> DEFINE q == [req EXCEPT !.ok = @ \ {x}]
  <2>2. q.op = "schemaId"
    BY <2>1 DEF RecOffer
  <2>3. pend' = {q} \/ pend' = {}
    BY <1>7, <1>t DEF Records!UpdateSchemaIdByThreadId, Records!Turn, Records!End
  <2> HIDE DEF q
  <2>4. CASE row[x] = NoRec
    <3>1. row' = row
      BY <2>4, <1>7, <1>u DEF Records!UpdateSchemaIdByThreadId
    <3> QED BY <3>1, <2>1, <2>2, <2>3, RecsQuietInTurn
  <2>5. CASE row[x] # NoRec
    <3>1. row \in [RecX(s) -> RecRow \cup {NoRec}] /\ x \in RecX(s) /\ row[x] \in RecRow
      BY <2>5, <1>t DEF RecRows, RecX
    <3>2. row' = [row EXCEPT ![x] = [row[x] EXCEPT !.schema = TRUE]]
      BY <2>5, <1>7, <1>u DEF Records!UpdateSchemaIdByThreadId
    <3>3. [row[x] EXCEPT !.schema = TRUE].linked = row[x].linked
      BY <3>1 DEF RecRow
    <3>4. \A y \in RecX(s) : y # x => row'[y] = row[y]
      BY <3>1, <3>2
    <3>5. row'[x].linked = row[x].linked
      BY <3>1, <3>2, <3>3
    <3>6. wallet \/ dedicated
      BY <2>5, <3>1 DEF RecsInTurn
    <3>7. \A y \in s.cred \cup s.pres : y \in RecX(s)
      BY DEF RecX
    <3>8. \A y \in s.cred \cup s.pres : row'[y] # NoRec /\ y \notin s.oob => row'[y].linked
      BY <2>5, <3>4, <3>5, <3>7 DEF RecsInTurn
    <3> QED BY <3>6, <3>8, <2>1, <2>2, <2>3 DEF RecsInTurn
  <2> QED BY <2>4, <2>5
<1>8. \/ \E X \in SUBSET s.cred : Records(s, o, d)!SendCredentialCreateOffer(X)
      \/ row' = row /\ wallet' = wallet /\ pend' = pend
      \/ \E req \in pend : \E x \in s.cred : Records(s, o, d)!OfferOne(req, x) \/ Records(s, o, d)!UpdateSchemaIdByThreadId(req, x)
      \/ \E req \in pend : Records(s, o, d)!Offered(req)
  BY DEF Records!Exchanges, Records!SendProofRequest, Records!Connect, Records!Proceed, Records!Upload, Records!db
<1> QED BY <1>1, <1>2, <1>5, <1>6, <1>7, <1>8

LEMMA RecWebhooksInTurn ==
  ASSUME NEW s, NEW o \in BOOLEAN, ~o, NEW d \in BOOLEAN, Records(s, o, d)!RecordsAssumption, RecsIInv(s), RecsInTurn(s),
         Records(s, o, d)!Webhooks,
         UNCHANGED <<dedicated, unlabelled>>
  PROVE  RecsInTurn(s)'
<1>u. /\ s.conn \cap (s.cred \cup s.pres) = {} /\ s.conn = {RecConn(s)} /\ s.oob \subseteq s.cred \cup s.pres
  BY RecsUnfolded
<1>t. RecRows(s, row) /\ row \in [RecX(s) -> RecRow \cup {NoRec}] /\ \A r, q \in pend : r = q
  BY DEF RecsIInv, RecsInTurn, RecRows
<1>1. ASSUME NEW p \in posts, Records(s, o, d)!Receive(p)
      PROVE  RecsInTurn(s)'
  <2> DEFINE q == [op |-> "save", x |-> p.x, st |-> p.st, n |-> p.n, org |-> wallet \/ dedicated]
  <2>1. q.op = "save" /\ q.org = (wallet \/ dedicated)
    OBVIOUS
  <2>2. /\ pend' = {q} /\ wallet' = wallet /\ row' = row
    BY <1>1 DEF Records!Receive, Records!db
  <2> HIDE DEF q
  <2> QED BY <2>1, <2>2 DEF RecsInTurn
<1>2. ASSUME NEW p \in posts, Records(s, o, d)!Lose(p)
      PROVE  RecsInTurn(s)'
  BY <1>2, <1>t, RecsQuietInTurn DEF Records!Lose, Records!db
<1>3. ASSUME NEW req \in pend,
             \/ \E n \in s.length : Records(s, o, d)!SaveConnectionWebhook(req, n)
             \/ \E b \in BOOLEAN : Records(s, o, d)!SaveIssuedCredentialDetails(req, b)
             \/ Records(s, o, d)!StoreProofPresentation(req)
      PROVE  RecsInTurn(s)'
  <2>1. RecSaves(s, req) /\ req.op = "save" /\ pend' = pend \ {req} /\ wallet' = wallet
    BY <1>3, RecSaveStep
  <2>2. pend' = {} /\ req.x \in RecX(s)
    BY <2>1, <1>t DEF RecsIInv, RecRequest
  <2>3. CASE ~RecTaken(s, req)
    BY <2>1, <2>2, <2>3, RecsQuietInTurn DEF RecSaves
  <2>4. CASE RecTaken(s, req)
    <3>1. PICK v : RecWrites(s, req, v) /\ row' = [row EXCEPT ![req.x] = v]
      BY <2>1, <2>4 DEF RecSaves
    <3>2. wallet \/ dedicated
      BY <2>1, <2>2, <2>4 DEF RecTaken, RecsInTurn
    <3>3. \A y \in RecX(s) : row'[y] = IF y = req.x THEN v ELSE row[y]
      BY <3>1, <2>2, <1>t
    <3>4. req.x \in s.cred \cup s.pres /\ req.x \notin s.oob => v.linked
      BY <3>1, <1>u DEF RecWrites
    <3>7. \A y \in s.cred \cup s.pres : y \in RecX(s)
      BY DEF RecX
    <3>8. \A y \in s.cred \cup s.pres : row'[y] # NoRec /\ y \notin s.oob => row'[y].linked
      BY <3>3, <3>4, <3>7 DEF RecsInTurn
    <3> QED BY <3>2, <3>8, <2>1, <2>2 DEF RecsInTurn
  <2> QED BY <2>3, <2>4
<1> QED BY <1>1, <1>2, <1>3 DEF Records!Webhooks

LEMMA RecDeletionsInTurn ==
  ASSUME NEW s, NEW o \in BOOLEAN, ~o, NEW d \in BOOLEAN, Records(s, o, d)!RecordsAssumption, RecsIInv(s), RecsInTurn(s),
         Records(s, o, d)!Deletions,
         UNCHANGED <<dedicated, unlabelled>>
  PROVE  RecsInTurn(s)'
<1>u. /\ s.conn \cap (s.cred \cup s.pres) = {} /\ \A x : Records(s, o, d)!Has(x) <=> row[x] # NoRec
      /\ Records(s, o, d)!Exchange = RecX(s)
  BY RecsUnfolded
<1>t. RecRows(s, row) /\ (\A r \in pend : RecRequest(s, r)) /\ (\A r, q \in pend : r = q) /\ wallet \in BOOLEAN
  BY DEF RecsIInv, RecsInTurn
<1>1. CASE Records(s, o, d)!DeleteVerificationRecords
  <2>1. row' = Records(s, o, d)!Without(s.pres) /\ wallet' = wallet /\ pend' = pend
    BY <1>1 DEF Records!DeleteVerificationRecords
  <2>2. \A x \in RecX(s) : row'[x] = row[x] \/ row'[x] = NoRec
    BY <2>1, RecWithout
  <2> QED BY <2>1, <2>2, RecsDropInTurn
<1>2. CASE Records(s, o, d)!DeleteIssuanceRecords
  <2>1. pend' = {[op |-> "countPres"]} /\ wallet' = wallet /\ row' = row
    BY <1>2 DEF Records!DeleteIssuanceRecords, Records!Request
  <2> QED BY <2>1, RecsQuietInTurn
<1>3. CASE Records(s, o, d)!DeleteConnectionRecords
  <2>1. wallet' = wallet /\ row' = row
    BY <1>3 DEF Records!DeleteConnectionRecords, Records!db
  <2>2. CASE pend' = {[op |-> "refuse"]}
    BY <2>1, <2>2, RecsQuietInTurn
  <2>3. CASE pend' = {[op |-> "dropConns"]} /\ \A x \in s.cred \cup s.pres : row[x] = NoRec
    BY <2>1, <2>3 DEF RecsInTurn
  <2> QED BY <1>3, <1>u, <2>2, <2>3 DEF Records!DeleteConnectionRecords, Records!Request, Records!Of
<1>4. CASE Records(s, o, d)!DeleteWallet
  <2>1. pend' = {} /\ row' = row /\ \A x \in RecX(s) : row[x] = NoRec
    BY <1>4, <1>u DEF Records!DeleteWallet, Records!Of
  <2> QED BY <2>1 DEF RecsInTurn
<1>5. ASSUME NEW req \in pend, Records(s, o, d)!CountPresentations(req)
      PROVE  RecsInTurn(s)'
  <2>1. req = [op |-> "countPres"] /\ row' = row /\ wallet' = wallet
    BY <1>5, <1>t DEF RecRequest, Records!CountPresentations, Records!db
  <2>2. [req EXCEPT !.op = "dropCreds"] = [op |-> "dropCreds"]
    BY <2>1
  <2>3. pend' = {} \/ pend' = {[op |-> "dropCreds"]}
    BY <1>5, <1>t, <2>2 DEF Records!CountPresentations, Records!Go, Records!Turn, Records!End
  <2> QED BY <2>1, <2>3, RecsQuietInTurn
<1>6. ASSUME NEW req \in pend, Records(s, o, d)!DeleteIssuanceRecordsByOrgId(req)
      PROVE  RecsInTurn(s)'
  <2>1. row' = Records(s, o, d)!Without(s.cred) /\ wallet' = wallet /\ pend' \subseteq pend
    BY <1>6 DEF Records!DeleteIssuanceRecordsByOrgId, Records!End
  <2>2. \A x \in RecX(s) : row'[x] = row[x] \/ row'[x] = NoRec
    BY <2>1, RecWithout
  <2> QED BY <2>1, <2>2, RecsDropInTurn
<1>7. ASSUME NEW req \in pend, Records(s, o, d)!Refuse(req)
      PROVE  RecsInTurn(s)'
  BY <1>7, <1>t, RecsQuietInTurn DEF Records!Refuse, Records!End, Records!db
<1>8. ASSUME NEW req \in pend, Records(s, o, d)!DeleteConnectionRecordsByOrgId(req)
      PROVE  RecsInTurn(s)'
  <2>1. wallet' = wallet /\ pend' \subseteq pend /\ \A x \in s.cred \cup s.pres : row[x] = NoRec
    BY <1>8 DEF Records!DeleteConnectionRecordsByOrgId, Records!End, RecsInTurn
  <2>2. \A x \in RecX(s) : row'[x] = row[x] \/ row'[x] = NoRec
    BY <2>1, <1>8, RecDropConns DEF RecX
  <2> QED BY <2>1, <2>2, RecsDropInTurn
<1> QED BY <1>1, <1>2, <1>3, <1>4, <1>5, <1>6, <1>7, <1>8 DEF Records!Deletions

LEMMA RecsInTurnKept ==
  ASSUME NEW s, NEW o \in BOOLEAN, ~o, NEW d \in BOOLEAN, Records(s, o, d)!RecordsAssumption, RecsIInv(s), RecsInTurn(s),
         Records(s, o, d)!Next
  PROVE  RecsInTurn(s)'
BY RecExchangesInTurn, RecWebhooksInTurn, RecDeletionsInTurn DEF Records!Next, Records!fixed

LEMMA RecsInTurnBegin ==
  ASSUME NEW s, NEW o \in BOOLEAN, ~o, NEW d \in BOOLEAN, Records(s, o, d)!RecordsAssumption, Records(s, o, d)!Init
  PROVE  RecsInTurn(s)
<1>1. wallet = TRUE /\ pend = {} /\ row = [x \in RecX(s) |-> NoRec]
  BY RecsUnfolded DEF Records!Init, Records!None, NoRec
<1> QED BY <1>1 DEF RecsInTurn, RecX

LEMMA RecsInTurnSafe ==
  ASSUME NEW s, NEW o \in BOOLEAN, ~o, NEW d \in BOOLEAN, Records(s, o, d)!RecordsAssumption, RecsInTurn(s)
  PROVE  Records(s, o, d)!ConnectionsGoLast /\ Records(s, o, d)!NoRecordsWithoutWallet
<1>1. Records(s, o, d)!Exchange = RecX(s) /\ \A x : Records(s, o, d)!Has(x) <=> row[x] # NoRec
  BY RecsUnfolded
<1>2. Records(s, o, d)!ConnectionsGoLast
  BY <1>1 DEF RecsInTurn, Records!ConnectionsGoLast, Records!Of
<1>3. Records(s, o, d)!NoRecordsWithoutWallet
  BY <1>1 DEF RecsInTurn, Records!NoRecordsWithoutWallet, Records!Of
<1> QED BY <1>2, <1>3

(* Posts that arrive in order.  Credentials and presentations over the     *)
(* connection begin after it: its posts come before theirs.                *)
RecOver(s) == (s.cred \cup s.pres) \ s.oob
RecsPosts(s) ==
  /\ \A p \in posts : p.n < sent /\ p.st <= agent[p.x]
  /\ \A p, q \in posts : p.n = q.n => p = q
  /\ \A p, q \in posts : p.x = q.x /\ p.n < q.n => p.st < q.st
  /\ \A p, q \in posts : p.x \in RecOver(s) /\ q.x = RecConn(s) => q.n < p.n
  /\ \A x \in RecOver(s) : agent[x] > 0 => agent[RecConn(s)] = 2
RecsHandled(s) ==
  /\ \A r \in pend : r.op = "save" =>
       /\ r.org /\ r.n < sent /\ r.st <= agent[r.x]
       /\ \A p \in posts : r.n < p.n /\ (r.x = p.x => r.st < p.st) /\ (r.x \in RecOver(s) => p.x # RecConn(s))
  /\ \A r \in pend : r.op = "offer" => \A x \in r.todo : x \in s.oob \/ agent[RecConn(s)] = 2
(* What the agent did last is on its way, being handled, or recorded.      *)
RecsRecorded(s, x) ==
  /\ row[x] # NoRec /\ row[x].st = agent[x]
  /\ \A p \in posts : p.x # x
  /\ \A r \in pend : r.op = "save" => r.x # x
RecLabelled(s, x) == x \in s.oob \/ RecConn(s) \notin unlabelled
RecsFollow(s) ==
  faults = 0 => \A x \in RecX(s) : agent[x] > 0 /\ RecLabelled(s, x) =>
    \/ \E p \in posts : p.x = x /\ p.st = agent[x]
    \/ \E r \in pend : r.op = "save" /\ r.x = x /\ r.st = agent[x]
    \/ RecsRecorded(s, x)
RecsOrdered(s) == wallet = TRUE /\ RecsPosts(s) /\ RecsHandled(s) /\ RecsFollow(s)

(* Nothing is posted or saved, and rows keep their state.                  *)
LEMMA RecsQuietOrdered ==
  ASSUME NEW s, RecsIInv(s), RecsOrdered(s), wallet' = wallet, posts' = posts, sent' = sent, agent' = agent,
         faults \in Nat, faults' = faults \/ faults' # 0,
         \A x \in RecX(s) : row[x] # NoRec => row'[x] # NoRec /\ row'[x].st = row[x].st,
         \A r \in pend : r.op = "save" => r \in pend',
         \A r \in pend' : r \in pend \/ r.op # "save",
         \A r \in pend' : r \in pend \/ (r.op = "offer" => \A x \in r.todo : x \in s.oob \/ agent[RecConn(s)] = 2),
         UNCHANGED <<dedicated, unlabelled>>
  PROVE  RecsOrdered(s)'
<1>1. RecsPosts(s)'
  BY DEF RecsOrdered, RecsPosts
<1>2. RecsHandled(s)'
  BY DEF RecsOrdered, RecsHandled
<1>3. RecsFollow(s)'
  <2> SUFFICES ASSUME faults' = 0, NEW x \in RecX(s), agent[x] > 0, RecLabelled(s, x)
               PROVE  \/ \E p \in posts : p.x = x /\ p.st = agent[x]
                      \/ \E r \in pend' : r.op = "save" /\ r.x = x /\ r.st = agent[x]
                      \/ RecsRecorded(s, x)'
    BY DEF RecsFollow, RecLabelled
  <2>1. \/ \E p \in posts : p.x = x /\ p.st = agent[x]
        \/ \E r \in pend : r.op = "save" /\ r.x = x /\ r.st = agent[x]
        \/ RecsRecorded(s, x)
    BY DEF RecsOrdered, RecsFollow
  <2>2. RecsRecorded(s, x) => RecsRecorded(s, x)'
    BY DEF RecsRecorded
  <2> QED BY <2>1, <2>2
<1> QED BY <1>1, <1>2, <1>3 DEF RecsOrdered

(* The agent goes on and posts it.                                         *)
LEMMA RecsAdvanceOrdered ==
  ASSUME NEW s, NEW o \in BOOLEAN, NEW d \in BOOLEAN, Records(s, o, d)!RecordsAssumption, RecsIInv(s),
         RecsOrdered(s), NEW x \in RecX(s), Records(s, o, d)!Advance(x),
         x \in RecOver(s) => agent[RecConn(s)] = 2,
         wallet' = wallet, faults' = faults, row' = row,
         \A r \in pend : r.op = "save" => r \in pend',
         \A r \in pend' : r \in pend \/ r.op # "save",
         \A r \in pend' : r \in pend \/ (r.op = "offer" => \A y \in r.todo : y \in s.oob \/ agent[RecConn(s)] = 2),
         UNCHANGED <<dedicated, unlabelled>>
  PROVE  RecsOrdered(s)'
<1>u. RecConn(s) \in RecX(s) /\ RecConn(s) \notin RecOver(s)
  BY RecsUnfolded DEF RecOver
<1>t. /\ agent \in [RecX(s) -> 0..2] /\ sent \in Nat /\ RecOver(s) \subseteq RecX(s)
      /\ \A p \in posts : p.x \in RecX(s) /\ p.st \in 1..2 /\ p.n \in Nat
      /\ \A r \in pend : r.op = "save" => r.x \in RecX(s) /\ r.st \in 1..2 /\ r.n \in Nat
  BY DEF RecsIInv, RecRequest, RecOver, RecX
<1> DEFINE e == [n |-> sent, x |-> x, st |-> agent[x] + 1]
<1>a. /\ agent[x] \in 0..1 /\ agent' = [agent EXCEPT ![x] = agent[x] + 1] /\ sent' = sent + 1
      /\ agent'[x] = agent[x] + 1 /\ posts' = posts \cup {e}
  BY RecAdvance
<1>b. e.n = sent /\ e.x = x /\ e.st = agent[x] + 1
  OBVIOUS
<1> HIDE DEF e
<1>c. \A y \in RecX(s) : y # x => agent'[y] = agent[y]
  BY <1>a, <1>t
<1>d. agent[RecConn(s)] = 2 => x # RecConn(s) /\ agent'[RecConn(s)] = 2
  BY <1>a, <1>c, <1>u
<1>e. \A p \in posts : p.n < sent /\ p.st <= agent[p.x]
  BY DEF RecsOrdered, RecsPosts
<1>f. \A p \in posts : p.x \in RecOver(s) => agent[RecConn(s)] = 2
  BY <1>e, <1>t DEF RecsOrdered, RecsPosts
<1>1. RecsPosts(s)'
  <2>1. \A p \in posts' : p.n < sent' /\ p.st <= agent'[p.x]
    BY <1>a, <1>b, <1>c, <1>e, <1>t
  <2>2. \A p, q \in posts' : p.n = q.n => p = q
    <3>1. \A p \in posts : p.n # e.n
      BY <1>b, <1>e, <1>t
    <3> QED BY <3>1, <1>a DEF RecsOrdered, RecsPosts
  <2>3. \A p, q \in posts' : p.x = q.x /\ p.n < q.n => p.st < q.st
    <3>1. \A p \in posts : ~(e.n < p.n) /\ (p.x = x => p.st < e.st)
      BY <1>b, <1>e, <1>t, <1>a
    <3>2. ~(e.n < e.n)
      BY <1>b, <1>t
    <3>3. \A p, q \in posts : p.x = q.x /\ p.n < q.n => p.st < q.st
      BY DEF RecsOrdered, RecsPosts
    <3> QED BY <3>1, <3>2, <3>3, <1>a, <1>b
  <2>4. \A p, q \in posts' : p.x \in RecOver(s) /\ q.x = RecConn(s) => q.n < p.n
    <3>1. \A p \in posts : p.n < e.n
      BY <1>b, <1>e
    <3>2. \A p \in posts : p.x \in RecOver(s) => x # RecConn(s)
      BY <1>d, <1>f
    <3>3. \A p, q \in posts : p.x \in RecOver(s) /\ q.x = RecConn(s) => q.n < p.n
      BY DEF RecsOrdered, RecsPosts
    <3> QED BY <3>1, <3>2, <3>3, <1>a, <1>b, <1>u
  <2>5. \A y \in RecOver(s) : agent'[y] > 0 => agent'[RecConn(s)] = 2
    <3>1. \A y \in RecOver(s) : agent[y] > 0 => agent[RecConn(s)] = 2
      BY DEF RecsOrdered, RecsPosts
    <3> QED BY <3>1, <1>c, <1>d, <1>t
  <2> QED BY <2>1, <2>2, <2>3, <2>4, <2>5 DEF RecsPosts
<1>2. RecsHandled(s)'
  <2>1. ASSUME NEW r \in pend', r.op = "save"
        PROVE  /\ r.org /\ r.n < sent' /\ r.st <= agent'[r.x]
               /\ \A p \in posts' : r.n < p.n /\ (r.x = p.x => r.st < p.st) /\ (r.x \in RecOver(s) => p.x # RecConn(s))
    <3>1. r \in pend /\ r.x \in RecX(s) /\ r.st \in 1..2 /\ r.n \in Nat
      BY <2>1, <1>t
    <3>2. /\ r.org /\ r.n < sent /\ r.st <= agent[r.x]
          /\ \A p \in posts : r.n < p.n /\ (r.x = p.x => r.st < p.st) /\ (r.x \in RecOver(s) => p.x # RecConn(s))
      BY <2>1, <3>1 DEF RecsOrdered, RecsHandled
    <3>3. r.x \in RecOver(s) => agent[RecConn(s)] = 2
      BY <3>1, <3>2, <1>t DEF RecsOrdered, RecsPosts
    <3>4. r.n < sent' /\ r.st <= agent'[r.x]
      BY <3>1, <3>2, <1>a, <1>c, <1>t
    <3>5. r.n < e.n /\ (r.x = e.x => r.st < e.st) /\ (r.x \in RecOver(s) => e.x # RecConn(s))
      BY <3>1, <3>2, <3>3, <1>a, <1>b, <1>d, <1>t
    <3> QED BY <3>2, <3>4, <3>5, <1>a
  <2>2. \A r \in pend' : r.op = "offer" => \A y \in r.todo : y \in s.oob \/ agent'[RecConn(s)] = 2
    BY <1>d DEF RecsOrdered, RecsHandled
  <2> QED BY <2>1, <2>2 DEF RecsHandled
<1>3. RecsFollow(s)'
  <2> SUFFICES ASSUME faults = 0, NEW y \in RecX(s), agent'[y] > 0, RecLabelled(s, y)
               PROVE  \/ \E p \in posts' : p.x = y /\ p.st = agent'[y]
                      \/ \E r \in pend' : r.op = "save" /\ r.x = y /\ r.st = agent'[y]
                      \/ RecsRecorded(s, y)'
    BY DEF RecsFollow, RecLabelled
  <2>1. CASE y = x
    BY <2>1, <1>a, <1>b
  <2>2. CASE y # x
    <3>1. agent'[y] = agent[y]
      BY <2>2, <1>c
    <3>2. \/ \E p \in posts : p.x = y /\ p.st = agent[y]
          \/ \E r \in pend : r.op = "save" /\ r.x = y /\ r.st = agent[y]
          \/ RecsRecorded(s, y)
      BY <3>1 DEF RecsOrdered, RecsFollow
    <3>3. RecsRecorded(s, y) => RecsRecorded(s, y)'
      BY <2>2, <3>1, <1>a, <1>b DEF RecsRecorded
    <3> QED BY <3>1, <3>2, <3>3, <1>a
  <2> QED BY <2>1, <2>2
<1> QED BY <1>1, <1>2, <1>3 DEF RecsOrdered

LEMMA RecExchangesOrdered ==
  ASSUME NEW s, NEW o \in BOOLEAN, ~o, NEW d \in BOOLEAN, Records(s, o, d)!RecordsAssumption, RecsIInv(s),
         RecsInTurn(s), RecsOrdered(s), Records(s, o, d)!Exchanges,
         UNCHANGED <<dedicated, unlabelled>>
  PROVE  RecsOrdered(s)'
<1>u. /\ s.conn \cap (s.cred \cup s.pres) = {} /\ s.conn = {RecConn(s)} /\ RecConn(s) \in RecX(s)
      /\ (\A x : Records(s, o, d)!Has(x) <=> row[x] # NoRec)
      /\ (\A x : Records(s, o, d)!ConnOf(x) = RecConn(s)) /\ s.faults \in Nat
  BY RecsUnfolded
<1>t. /\ RecRows(s, row) /\ (\A r \in pend : RecRequest(s, r)) /\ agent \in [RecX(s) -> 0..2]
      /\ faults \in Nat
  BY <1>u DEF RecsIInv
<1>c. \A y \in s.cred \cup s.pres : y \in RecX(s)
  BY DEF RecX
<1>1. ASSUME NEW X \in SUBSET s.cred, Records(s, o, d)!SendCredentialCreateOffer(X)
      PROVE  RecsOrdered(s)'
  <2> DEFINE q == [op |-> "offer", todo |-> X, ok |-> {}, failed |-> FALSE]
  <2>1. /\ pend' = pend \cup {q} /\ row' = row /\ wallet' = wallet /\ posts' = posts /\ sent' = sent /\ agent' = agent
        /\ faults' = faults /\ \A x \in X : x \in s.oob \/ agent[RecConn(s)] = 2
    BY <1>1, <1>u DEF Records!SendCredentialCreateOffer, Records!Request, Records!db, Records!far, Records!Done
  <2>2. q.op = "offer" /\ q.todo = X
    OBVIOUS
  <2> HIDE DEF q
  <2> QED BY <2>1, <2>2, <1>t, RecsQuietOrdered
<1>2. ASSUME NEW x \in s.pres, Records(s, o, d)!SendProofRequest(x)
      PROVE  RecsOrdered(s)'
  <2>1. /\ Records(s, o, d)!Advance(x) /\ wallet' = wallet /\ row' = row /\ pend' = pend /\ faults' = faults
        /\ x \in s.oob \/ agent[RecConn(s)] = 2
    BY <1>2, <1>u DEF Records!SendProofRequest, Records!db, Records!Done
  <2> QED BY <2>1, <1>c, RecsAdvanceOrdered DEF RecOver
<1>3. ASSUME NEW x \in s.conn, Records(s, o, d)!Connect(x)
      PROVE  RecsOrdered(s)'
  <2>1. /\ Records(s, o, d)!Advance(x) /\ wallet' = wallet /\ row' = row /\ pend' = pend /\ faults' = faults
    BY <1>3 DEF Records!Connect, Records!db
  <2>2. x \in RecX(s) /\ x \notin RecOver(s)
    BY <1>u DEF RecOver
  <2> QED BY <2>1, <2>2, RecsAdvanceOrdered
<1>4. ASSUME NEW x \in s.cred \cup s.pres, Records(s, o, d)!Proceed(x)
      PROVE  RecsOrdered(s)'
  <2>1. /\ Records(s, o, d)!Advance(x) /\ wallet' = wallet /\ row' = row /\ pend' = pend /\ faults' = faults
        /\ agent[x] > 0
    BY <1>4 DEF Records!Proceed, Records!db
  <2>2. x \in RecOver(s) => agent[RecConn(s)] = 2
    BY <2>1 DEF RecsOrdered, RecsPosts
  <2> QED BY <2>1, <2>2, <1>c, RecsAdvanceOrdered
<1>5. ASSUME Records(s, o, d)!Upload
      PROVE  RecsOrdered(s)'
  BY <1>5, <1>t, RecsQuietOrdered DEF Records!Upload, Records!far
<1>6. ASSUME NEW req \in pend, NEW x \in s.cred, Records(s, o, d)!OfferOne(req, x)
      PROVE  RecsOrdered(s)'
  <2>1. /\ req \in RecOffer(s) /\ req.op = "offer" /\ row' = row /\ wallet' = wallet /\ x \in req.todo
        /\ \A y \in req.todo : y \in s.oob \/ agent[RecConn(s)] = 2
    BY <1>6, <1>t DEF RecRequest, Records!OfferOne, Records!db, RecsOrdered, RecsHandled
  <2>2. CASE /\ Records(s, o, d)!Advance(x) /\ faults' = faults
             /\ Records(s, o, d)!Turn(req, [req EXCEPT !.todo = @ \ {x}, !.ok = @ \cup {x}])
    <3> DEFINE q == [req EXCEPT !.todo = @ \ {x}, !.ok = @ \cup {x}]
    <3>1. q.op = "offer" /\ q.todo = req.todo \ {x}
      BY <2>1 DEF RecOffer
    <3>2. pend' = (pend \ {req}) \cup {q}
      BY <2>2 DEF Records!Turn
    <3> HIDE DEF q
    <3> QED BY <2>1, <2>2, <3>1, <3>2, <1>c, RecsAdvanceOrdered DEF RecOver
  <2>3. CASE /\ Records(s, o, d)!Fault /\ agent' = agent /\ posts' = posts /\ sent' = sent
             /\ Records(s, o, d)!Turn(req, [req EXCEPT !.todo = @ \ {x}, !.failed = TRUE])
    <3> DEFINE q == [req EXCEPT !.todo = @ \ {x}, !.failed = TRUE]
    <3>1. q.op = "offer" /\ q.todo = req.todo \ {x}
      BY <2>1 DEF RecOffer
    <3>2. pend' = (pend \ {req}) \cup {q} /\ faults' # 0
      BY <2>3, <1>t DEF Records!Turn, Records!Fault
    <3> HIDE DEF q
    <3> QED BY <2>1, <2>3, <3>1, <3>2, <1>t, RecsQuietOrdered
  <2> QED BY <1>6, <2>2, <2>3 DEF Records!OfferOne, Records!far
<1>7. ASSUME NEW req \in pend, Records(s, o, d)!Offered(req)
      PROVE  RecsOrdered(s)'
  <2>1. /\ req \in RecOffer(s) /\ req.op = "offer" /\ row' = row /\ wallet' = wallet /\ posts' = posts /\ sent' = sent
        /\ agent' = agent /\ faults' = faults
    BY <1>7, <1>t DEF RecRequest, Records!Offered, Records!db, Records!far
  <2> DEFINE q == [req EXCEPT !.op = "schemaId"]
  <2>2. q.op = "schemaId"
    BY <2>1 DEF RecOffer
  <2>3. pend' = (pend \ {req}) \cup {q} \/ pend' = pend \ {req}
    BY <1>7 DEF Records!Offered, Records!Go, Records!Turn, Records!End
  <2> HIDE DEF q
  <2> QED BY <2>1, <2>2, <2>3, <1>t, RecsQuietOrdered
<1>8. ASSUME NEW req \in pend, NEW x \in s.cred, Records(s, o, d)!UpdateSchemaIdByThreadId(req, x)
      PROVE  RecsOrdered(s)'
  <2>1. /\ req \in RecOffer(s) /\ req.op = "schemaId" /\ wallet' = wallet /\ posts' = posts /\ sent' = sent
        /\ agent' = agent /\ faults' = faults
    BY <1>8, <1>t DEF RecRequest, Records!UpdateSchemaIdByThreadId, Records!far
  <2> DEFINE q == [req EXCEPT !.ok = @ \ {x}]
  <2>2. q.op = "schemaId"
    BY <2>1 DEF RecOffer
  <2>3. pend' = (pend \ {req}) \cup {q} \/ pend' = pend \ {req}
    BY <1>8 DEF Records!UpdateSchemaIdByThreadId, Records!Turn, Records!End
  <2> HIDE DEF q
  <2>4. \A y \in RecX(s) : row[y] # NoRec => row'[y] # NoRec /\ row'[y].st = row[y].st
    <3>1. row \in [RecX(s) -> RecRow \cup {NoRec}] /\ x \in RecX(s)
      BY <1>t, <1>c DEF RecRows
    <3>2. CASE row[x] = NoRec
      BY <3>2, <1>8, <1>u DEF Records!UpdateSchemaIdByThreadId
    <3>3. CASE row[x] # NoRec
      <4> DEFINE v == [row[x] EXCEPT !.schema = TRUE]
      <4>1. row[x] \in RecRow
        BY <3>1, <3>3
      <4>2. row' = [row EXCEPT ![x] = v]
        BY <3>3, <1>8, <1>u DEF Records!UpdateSchemaIdByThreadId
      <4>3. v \in RecRow /\ v.st = row[x].st
        BY <4>1 DEF RecRow
      <4> HIDE DEF v
      <4>4. v # NoRec
        BY <4>3, RecRowPresent
      <4> QED BY <4>2, <4>3, <4>4, <3>1
    <3> QED BY <3>2, <3>3
  <2> QED BY <2>1, <2>2, <2>3, <2>4, <1>t, RecsQuietOrdered
<1> QED BY <1>1, <1>2, <1>3, <1>4, <1>5, <1>6, <1>7, <1>8 DEF Records!Exchanges

(* A post that arrives is the oldest one.                                  *)
LEMMA RecReceiveOrdered ==
  ASSUME NEW s, NEW o \in BOOLEAN, ~o, NEW d \in BOOLEAN, d, Records(s, o, d)!RecordsAssumption, RecsIInv(s),
         RecsOrdered(s), NEW p \in posts, Records(s, o, d)!Receive(p),
         UNCHANGED <<dedicated, unlabelled>>
  PROVE  RecsOrdered(s)'
<1> DEFINE q == [op |-> "save", x |-> p.x, st |-> p.st, n |-> p.n, org |-> wallet \/ dedicated]
<1>1. q.op = "save" /\ q.x = p.x /\ q.st = p.st /\ q.n = p.n /\ q.org = (wallet \/ dedicated)
  OBVIOUS
<1>2. /\ pend' = {q} /\ pend = {} /\ posts' = posts \ {p} /\ wallet' = wallet /\ row' = row
      /\ agent' = agent /\ sent' = sent /\ faults' = faults /\ \A e \in posts : p.n <= e.n
  BY DEF Records!Receive, Records!db
<1> HIDE DEF q
<1>t. \A e \in posts : e.x \in RecX(s) /\ e.st \in 1..2 /\ e.n \in Nat
  BY DEF RecsIInv
<1>3. RecsPosts(s)'
  BY <1>2 DEF RecsOrdered, RecsPosts
<1>4. RecsHandled(s)'
  <2>1. q.org /\ q.n < sent /\ q.st <= agent[q.x]
    BY <1>1 DEF RecsOrdered, RecsPosts
  <2>2. ASSUME NEW e \in posts \ {p}
        PROVE  q.n < e.n /\ (q.x = e.x => q.st < e.st) /\ (q.x \in RecOver(s) => e.x # RecConn(s))
    <3>1. p.n <= e.n /\ p.n # e.n /\ p.n \in Nat /\ e.n \in Nat
      BY <1>2, <1>t DEF RecsOrdered, RecsPosts
    <3>2. p.n < e.n /\ ~(e.n < p.n)
      BY <3>1
    <3> QED BY <3>2, <1>1 DEF RecsOrdered, RecsPosts
  <2> QED BY <1>1, <1>2, <2>1, <2>2 DEF RecsHandled
<1>5. RecsFollow(s)'
  <2> SUFFICES ASSUME faults = 0, NEW x \in RecX(s), agent[x] > 0, RecLabelled(s, x)
               PROVE  \/ \E e \in posts' : e.x = x /\ e.st = agent[x]
                      \/ \E r \in pend' : r.op = "save" /\ r.x = x /\ r.st = agent[x]
                      \/ RecsRecorded(s, x)'
    BY <1>2 DEF RecsFollow, RecLabelled
  <2>1. \/ \E e \in posts : e.x = x /\ e.st = agent[x]
        \/ RecsRecorded(s, x)
    BY <1>2 DEF RecsOrdered, RecsFollow
  <2>2. RecsRecorded(s, x) => RecsRecorded(s, x)'
    BY <1>1, <1>2 DEF RecsRecorded
  <2> QED BY <2>1, <2>2, <1>1, <1>2
<1> QED BY <1>2, <1>3, <1>4, <1>5 DEF RecsOrdered

LEMMA RecLoseOrdered ==
  ASSUME NEW s, NEW o \in BOOLEAN, NEW d \in BOOLEAN, Records(s, o, d)!RecordsAssumption, RecsIInv(s),
         RecsOrdered(s), NEW p \in posts, Records(s, o, d)!Lose(p),
         UNCHANGED <<dedicated, unlabelled>>
  PROVE  RecsOrdered(s)'
<1>1. /\ posts' = posts \ {p} /\ wallet' = wallet /\ row' = row /\ agent' = agent /\ sent' = sent /\ pend' = pend
  BY DEF Records!Lose, Records!db
<1>2. faults \in Nat
  BY RecsUnfolded DEF RecsIInv
<1>3. faults' # 0
  BY <1>2 DEF Records!Lose, Records!Fault
<1>4. RecsPosts(s)' /\ RecsHandled(s)'
  BY <1>1 DEF RecsOrdered, RecsPosts, RecsHandled
<1>5. RecsFollow(s)'
  BY <1>3 DEF RecsFollow
<1> QED BY <1>1, <1>4, <1>5 DEF RecsOrdered

(* A post that is handled is saved: the connection was recorded before,    *)
(* if it has a label.                                                      *)
LEMMA RecSaveOrdered ==
  ASSUME NEW s, NEW o \in BOOLEAN, NEW d \in BOOLEAN, Records(s, o, d)!RecordsAssumption, RecsIInv(s),
         RecsInTurn(s), RecsOrdered(s), NEW req \in pend, RecSaves(s, req), req.op = "save",
         pend' = pend \ {req}, wallet' = wallet, agent' = agent, posts' = posts, sent' = sent, faults' = faults,
         UNCHANGED <<dedicated, unlabelled>>
  PROVE  RecsOrdered(s)'
<1>u. /\ s.conn \cap (s.cred \cup s.pres) = {} /\ s.conn = {RecConn(s)} /\ RecConn(s) \in RecX(s)
      /\ s.oob \subseteq s.cred \cup s.pres
  BY RecsUnfolded
<1>t. /\ agent \in [RecX(s) -> 0..2] /\ row \in [RecX(s) -> RecRow \cup {NoRec}]
      /\ req.x \in RecX(s) /\ req.st \in 1..2
      /\ \A p \in posts : p.x \in RecX(s) /\ p.st \in 1..2 /\ p.n \in Nat
  BY DEF RecsIInv, RecRequest, RecRows
<1>1. pend' = {} /\ \A r \in pend : r = req
  BY DEF RecsInTurn
<1>2. /\ req.org /\ req.st <= agent[req.x]
      /\ \A p \in posts : (req.x = p.x => req.st < p.st) /\ (req.x \in RecOver(s) => p.x # RecConn(s))
  BY DEF RecsOrdered, RecsHandled
<1>3. RecsPosts(s)' /\ RecsHandled(s)'
  BY <1>1 DEF RecsOrdered, RecsPosts, RecsHandled
<1>4. RecsFollow(s)'
  <2> SUFFICES ASSUME faults = 0, NEW x \in RecX(s), agent[x] > 0, RecLabelled(s, x)
               PROVE  \/ \E e \in posts : e.x = x /\ e.st = agent[x]
                      \/ RecsRecorded(s, x)'
    BY DEF RecsFollow, RecLabelled
  <2>f. \A y \in RecX(s) : agent[y] > 0 /\ RecLabelled(s, y) =>
          \/ \E p \in posts : p.x = y /\ p.st = agent[y]
          \/ req.x = y /\ req.st = agent[y]
          \/ RecsRecorded(s, y)
    BY <1>1 DEF RecsOrdered, RecsFollow
  <2>1. req.x \in RecOver(s) /\ RecLabelled(s, req.x) => row[RecConn(s)] # NoRec
    <3> SUFFICES ASSUME req.x \in RecOver(s), RecLabelled(s, req.x)
                 PROVE  row[RecConn(s)] # NoRec
      OBVIOUS
    <3>1. agent[req.x] > 0
      BY <1>2, <1>t
    <3>2. agent[RecConn(s)] = 2 /\ req.x # RecConn(s)
      BY <3>1, <1>u DEF RecsOrdered, RecsPosts, RecOver
    <3>3. RecsRecorded(s, RecConn(s))
      BY <3>2, <2>f, <1>2, <1>u DEF RecLabelled, RecOver
    <3> QED BY <3>3 DEF RecsRecorded
  <2>6. CASE x # req.x
    <3>1. row'[x] = row[x]
      BY <2>6, <1>t DEF RecSaves
    <3>2. RecsRecorded(s, x) => RecsRecorded(s, x)'
      BY <3>1, <1>1 DEF RecsRecorded
    <3> QED BY <2>6, <2>f, <3>2
  <2>7. CASE x = req.x /\ ~ \E e \in posts : e.x = x /\ e.st = agent[x]
    <3>a. RecTaken(s, req)
      BY <2>1, <2>7, <1>2, <1>t, <1>u DEF RecTaken, RecOver, RecX, RecLabelled
    <3>b. PICK v : RecWrites(s, req, v) /\ row' = [row EXCEPT ![req.x] = v]
      BY <3>a DEF RecSaves
    <3>c. v # NoRec /\ v.st = req.st /\ row'[x] = v
      BY <3>b, <2>7, <1>t, RecRowPresent DEF RecWrites
    <3>1. ~RecsRecorded(s, x)
      BY <2>7 DEF RecsRecorded
    <3>2. req.st = agent[x]
      BY <3>1, <2>7, <2>f
    <3>3. \A p \in posts : p.x # x
      <4> SUFFICES ASSUME NEW p \in posts, p.x = x
                   PROVE  FALSE
        OBVIOUS
      <4>1. p.st > agent[x] /\ p.st <= agent[x]
        BY <3>2, <2>7, <1>2, <1>t DEF RecsOrdered, RecsPosts
      <4> QED BY <4>1, <1>t
    <3>4. row'[x] # NoRec /\ row'[x].st = agent[x]
      BY <3>c, <2>7, <3>2
    <3> QED BY <3>3, <3>4, <1>1 DEF RecsRecorded
  <2> QED BY <2>6, <2>7
<1> QED BY <1>3, <1>4 DEF RecsOrdered

LEMMA RecSavesOrdered ==
  ASSUME NEW s, NEW o \in BOOLEAN, NEW d \in BOOLEAN, Records(s, o, d)!RecordsAssumption, RecsIInv(s),
         RecsInTurn(s), RecsOrdered(s), NEW req \in pend,
         \/ \E n \in s.length : Records(s, o, d)!SaveConnectionWebhook(req, n)
         \/ \E b \in BOOLEAN : Records(s, o, d)!SaveIssuedCredentialDetails(req, b)
         \/ Records(s, o, d)!StoreProofPresentation(req),
         UNCHANGED <<dedicated, unlabelled>>
  PROVE  RecsOrdered(s)'
<1>1. /\ RecSaves(s, req) /\ req.op = "save" /\ pend' = pend \ {req} /\ wallet' = wallet
      /\ agent' = agent /\ posts' = posts /\ sent' = sent /\ faults' = faults
  BY RecSaveStep
<1> QED BY <1>1, RecSaveOrdered

LEMMA RecsOrderedKept ==
  ASSUME NEW s, NEW o \in BOOLEAN, ~o, NEW d \in BOOLEAN, d, Records(s, o, d)!RecordsAssumption, RecsIInv(s),
         RecsInTurn(s), RecsOrdered(s), Records(s, o, d)!Exchanges \/ Records(s, o, d)!Webhooks,
         UNCHANGED <<dedicated, unlabelled>>
  PROVE  RecsOrdered(s)'
<1>1. ASSUME NEW req \in pend,
             \/ \E n \in s.length : Records(s, o, d)!SaveConnectionWebhook(req, n)
             \/ \E b \in BOOLEAN : Records(s, o, d)!SaveIssuedCredentialDetails(req, b)
             \/ Records(s, o, d)!StoreProofPresentation(req)
      PROVE  RecsOrdered(s)'
  BY <1>1, RecSavesOrdered
<1>2. CASE Records(s, o, d)!Webhooks
  BY <1>1, <1>2, RecReceiveOrdered, RecLoseOrdered DEF Records!Webhooks
<1> QED BY <1>2, RecExchangesOrdered

LEMMA RecsOrderedBegin ==
  ASSUME NEW s, NEW o \in BOOLEAN, NEW d \in BOOLEAN, Records(s, o, d)!RecordsAssumption, Records(s, o, d)!Init
  PROVE  RecsOrdered(s)
<1>1. wallet = TRUE /\ pend = {} /\ posts = {} /\ agent = [x \in RecX(s) |-> 0]
  BY RecsUnfolded DEF Records!Init
<1>2. \A x \in RecX(s) : ~(agent[x] > 0)
  BY <1>1
<1>3. RecOver(s) \subseteq RecX(s)
  BY DEF RecOver, RecX
<1> QED BY <1>1, <1>2, <1>3 DEF RecsOrdered, RecsPosts, RecsHandled, RecsFollow

LEMMA RecsOrderedSafe ==
  ASSUME NEW s, NEW o \in BOOLEAN, NEW d \in BOOLEAN, Records(s, o, d)!RecordsAssumption, RecsOrdered(s)
  PROVE  Records(s, o, d)!RecordsFollowAgent
<1>1. /\ Records(s, o, d)!Exchange = RecX(s) /\ \A x : Records(s, o, d)!Has(x) <=> row[x] # NoRec
      /\ \A x : Records(s, o, d)!Labelled(x) <=> RecLabelled(s, x)
  BY RecsUnfolded DEF Records!Labelled, RecLabelled
<1> QED BY <1>1 DEF RecsOrdered, RecsFollow, RecsRecorded, Records!RecordsFollowAgent

-----------------------------------------------------------------------------
(* Numbers and cuts of paths.                                              *)

LEMMA LeastExists ==
  ASSUME NEW C \in SUBSET Nat, C # {}
  PROVE  \E i \in C : \A j \in C : i <= j
<1>1. PICK x \in C : \A y \in C : ~(<<y, x>> \in OpToRel(<, Nat))
  BY NatLessThanWellFounded, WFMin
<1>2. \A y \in C : ~(y < x)
  BY <1>1 DEF OpToRel
<1> QED BY <1>2

LEMMA GreatestExists ==
  ASSUME NEW n \in Nat, NEW C \in SUBSET (0..n), C # {}
  PROVE  \E i \in C : \A j \in C : j <= i
<1> DEFINE D == {m \in Nat : n - m \in C}
<1>1. D \in SUBSET Nat /\ D # {}
  <2>1. PICK i \in C : TRUE
    OBVIOUS
  <2>2. n - i \in Nat /\ n - (n - i) = i
    OBVIOUS
  <2> QED BY <2>2
<1>2. PICK x \in D : \A y \in D : x <= y
  BY <1>1, LeastExists
<1>4. ASSUME NEW j \in C
      PROVE  j <= n - x
  <2>1. n - j \in Nat /\ n - (n - j) = j
    OBVIOUS
  <2>2. n - j \in D
    BY <2>1
  <2> QED BY <1>2, <2>1, <2>2
<1> QED BY <1>4

(* The members of C below c, and the member of a rank.                     *)
Below(C, c) == {b \in C : b < c}
CutAt(C, k) == CHOOSE c \in C : Cardinality(Below(C, c)) = k

LEMMA BelowFinite ==
  ASSUME NEW n \in Nat, NEW C \in SUBSET (0..n)
  PROVE  /\ IsFiniteSet(C) /\ Cardinality(C) \in Nat
         /\ \A c : IsFiniteSet(Below(C, c)) /\ Cardinality(Below(C, c)) \in Nat
<1>0. IsFiniteSet(0..n)
  BY FS_Interval
<1>1. IsFiniteSet(C)
  BY <1>0, FS_Subset
<1>2. \A c : Below(C, c) \in SUBSET C
  BY DEF Below
<1> QED BY <1>1, <1>2, FS_Subset, FS_CardinalityType

LEMMA RankUnique ==
  ASSUME NEW n \in Nat, NEW C \in SUBSET (0..n), NEW c \in C, NEW e \in C,
         Cardinality(Below(C, c)) = Cardinality(Below(C, e))
  PROVE  c = e
<1>1. ASSUME NEW x \in C, NEW y \in C, x < y
      PROVE  Cardinality(Below(C, x)) # Cardinality(Below(C, y))
  <2>0. C \subseteq Nat
    OBVIOUS
  <2>1. Below(C, x) \in SUBSET Below(C, y) /\ x \in Below(C, y) /\ x \notin Below(C, x)
    <3>1. \A b \in C : b < x => b < y
      BY <1>1, <2>0
    <3>2. ~(x < x)
      BY <2>0
    <3> QED BY <1>1, <3>1, <3>2 DEF Below
  <2>2. IsFiniteSet(Below(C, y))
    BY BelowFinite
  <2>3. Cardinality(Below(C, y)) = Cardinality(Below(C, x)) => Below(C, y) = Below(C, x)
    BY <2>1, <2>2, FS_Subset
  <2> QED BY <2>1, <2>3
<1>2. c < e \/ e < c \/ c = e
  OBVIOUS
<1> QED BY <1>1, <1>2

LEMMA RankExists ==
  ASSUME NEW n \in Nat, NEW C \in SUBSET (0..n), NEW k \in Nat, k < Cardinality(C)
  PROVE  \E c \in C : Cardinality(Below(C, c)) = k
<1> DEFINE B == {c \in C : Cardinality(Below(C, c)) >= k}
<1>1. ASSUME NEW D \in SUBSET C, NEW m \in D, \A j \in D : j <= m, \A j \in C : j < m => j \in D
      PROVE  Cardinality(Below(C, m)) = Cardinality(D) - 1
  <2>1. Below(C, m) = D \ {m}
    <3>0. D \subseteq Nat
      OBVIOUS
    <3>1. \A j \in D : (j # m <=> j < m)
      BY <1>1, <3>0
    <3> QED BY <3>1, <1>1 DEF Below
  <2>2. IsFiniteSet(D)
    BY BelowFinite, FS_Subset
  <2> QED BY <2>1, <2>2, FS_RemoveElement
<1>2. C # {} /\ Cardinality(C) \in Nat
  BY BelowFinite, FS_EmptySet
<1>3. PICK m \in C : \A j \in C : j <= m
  BY <1>2, GreatestExists
<1>4. Cardinality(Below(C, m)) = Cardinality(C) - 1
  BY <1>1, <1>3
<1>5. m \in B
  BY <1>2, <1>4
<1>5a. B \in SUBSET Nat
  <2>1. C \subseteq Nat
    OBVIOUS
  <2> QED BY <2>1
<1>6. PICK c \in B : \A j \in B : c <= j
  BY <1>5, <1>5a, LeastExists
<1>7. c \in C /\ Cardinality(Below(C, c)) >= k /\ Cardinality(Below(C, c)) \in Nat
  BY <1>6, BelowFinite
<1>8. CASE Cardinality(Below(C, c)) # k
  <2>1. Below(C, c) # {} /\ Below(C, c) \in SUBSET C /\ Below(C, c) \in SUBSET (0..n)
    <3>1. Below(C, c) \in SUBSET C
      BY DEF Below
    <3>2. Cardinality(Below(C, c)) # 0
      BY <1>7, <1>8
    <3> QED BY <3>1, <3>2, FS_EmptySet
  <2>2. PICK l \in Below(C, c) : \A j \in Below(C, c) : j <= l
    BY <2>1, GreatestExists
  <2>2a. \A j \in C : j < l => j \in Below(C, c)
    <3>1. l < c /\ l \in Nat /\ c \in Nat /\ C \subseteq Nat
      BY <2>2, <1>7 DEF Below
    <3> QED BY <3>1 DEF Below
  <2>3. Cardinality(Below(C, l)) = Cardinality(Below(C, c)) - 1
    BY <1>1, <2>1, <2>2, <2>2a
  <2>4. l \in B /\ l < c
    BY <1>7, <1>8, <2>2, <2>3 DEF Below
  <2> QED BY <1>6, <1>7, <2>4
<1> QED BY <1>7, <1>8

LEMMA CutAtRank ==
  ASSUME NEW n \in Nat, NEW C \in SUBSET (0..n), NEW k \in Nat, k < Cardinality(C)
  PROVE  CutAt(C, k) \in C /\ Cardinality(Below(C, CutAt(C, k))) = k
BY RankExists DEF CutAt

(* Cuts up to a cut keep their rank.                                       *)
LEMMA CutAtPrefix ==
  ASSUME NEW n \in Nat, NEW T \in SUBSET (0..n), NEW m \in Nat, NEW A \in SUBSET T, \A c \in T : c \in A <=> c <= m,
         NEW k \in Nat, k < Cardinality(A)
  PROVE  CutAt(A, k) = CutAt(T, k) /\ CutAt(A, k) \in A /\ Cardinality(A) <= Cardinality(T)
<1>1. A \in SUBSET (0..n) /\ A \in SUBSET T
  OBVIOUS
<1>2. Cardinality(A) <= Cardinality(T) /\ Cardinality(A) \in Nat /\ Cardinality(T) \in Nat
  <2>1. IsFiniteSet(T) /\ Cardinality(T) \in Nat
    BY BelowFinite
  <2>2. Cardinality(A) \in Nat
    BY <1>1, BelowFinite
  <2> QED BY <2>1, <2>2, <1>1, FS_Subset
<1>3. CutAt(A, k) \in A /\ Cardinality(Below(A, CutAt(A, k))) = k
  BY <1>1, CutAtRank
<1>4. CutAt(T, k) \in T /\ Cardinality(Below(T, CutAt(T, k))) = k
  <2>1. k < Cardinality(T)
    BY <1>2
  <2> QED BY <2>1, CutAtRank
<1>5. Below(T, CutAt(A, k)) = Below(A, CutAt(A, k))
  <2>1. PICK c : c = CutAt(A, k)
    OBVIOUS
  <2>2. c \in A /\ c \in 0..n
    BY <1>1, <1>3, <2>1
  <2>3. \A b \in T : b < c => b <= m
    BY <2>2
  <2>4. Below(T, c) = Below(A, c)
    BY <2>3 DEF Below
  <2> QED BY <2>1, <2>4
<1>6. CutAt(A, k) \in T
  BY <1>1, <1>3
<1> QED BY <1>2, <1>3, <1>4, <1>5, <1>6, RankUnique

(* A path is cut at its slashes.                                           *)
Cuts(p) == {0, Len(p) + 1} \cup {i \in DOMAIN p : p[i] = "/"}
Parts(p) == [k \in 1..Cardinality(Cuts(p)) - 1 |-> SubSeq(p, CutAt(Cuts(p), k - 1) + 1, CutAt(Cuts(p), k) - 1)]

LEMMA CutsBounded ==
  ASSUME NEW S, NEW p \in Seq(S)
  PROVE  /\ Cuts(p) \in SUBSET (0..Len(p) + 1) /\ Len(p) + 1 \in Nat
         /\ Cardinality(Cuts(p)) \in Nat /\ Cardinality(Cuts(p)) - 1 \in Nat
         /\ \A i \in 1..Len(p) : i \in Cuts(p) <=> p[i] = "/"
         /\ 0 \in Cuts(p) /\ Len(p) + 1 \in Cuts(p)
<1>0. Len(p) \in Nat /\ DOMAIN p = 1..Len(p)
  OBVIOUS
<1>1. Cuts(p) \in SUBSET (0..Len(p) + 1) /\ Len(p) + 1 \in Nat /\ 0 \in Cuts(p) /\ Len(p) + 1 \in Cuts(p)
  BY <1>0 DEF Cuts
<1>2. IsFiniteSet(Cuts(p)) /\ Cardinality(Cuts(p)) \in Nat
  BY <1>1, BelowFinite
<1>3. Cardinality(Cuts(p)) # 0
  BY <1>1, <1>2, FS_EmptySet
<1>4. \A i \in 1..Len(p) : i \in Cuts(p) <=> p[i] = "/"
  BY <1>0 DEF Cuts
<1> QED BY <1>1, <1>2, <1>3, <1>4

LEMMA PartsAreSequences ==
  ASSUME NEW S, NEW p \in Seq(S)
  PROVE  Parts(p) \in Seq(Seq(S)) /\ Len(Parts(p)) = Cardinality(Cuts(p)) - 1
<1> DEFINE n == Cardinality(Cuts(p)) - 1
           F(k) == SubSeq(p, CutAt(Cuts(p), k - 1) + 1, CutAt(Cuts(p), k) - 1)
<1>1. n \in Nat /\ Cardinality(Cuts(p)) \in Nat /\ Len(p) \in Nat /\ Cuts(p) \in SUBSET (0..Len(p) + 1) /\ Len(p) + 1 \in Nat
  BY CutsBounded
<1>2. ASSUME NEW k \in 1..n
      PROVE  F(k) \in Seq(S)
  <2>1. k \in Nat /\ k - 1 \in Nat /\ k < Cardinality(Cuts(p)) /\ k - 1 < Cardinality(Cuts(p))
    BY <1>1
  <2>2. CutAt(Cuts(p), k - 1) \in Cuts(p) /\ CutAt(Cuts(p), k) \in Cuts(p)
    BY <1>1, <2>1, CutAtRank
  <2>3. PICK a : a = CutAt(Cuts(p), k - 1)
    OBVIOUS
  <2>4. PICK b : b = CutAt(Cuts(p), k)
    OBVIOUS
  <2>5. a \in 0..Len(p) + 1 /\ b \in 0..Len(p) + 1
    BY <1>1, <2>2, <2>3, <2>4
  <2>6. a + 1 \in Int /\ b - 1 \in Int /\ \A i \in a + 1 .. b - 1 : i \in 1..Len(p)
    BY <2>5, <1>1
  <2>7. \A i \in a + 1 .. b - 1 : p[i] \in S
    BY <2>6
  <2>8. SubSeq(p, a + 1, b - 1) \in Seq(S)
    BY <2>6, <2>7, SubSeqProperties
  <2> QED BY <2>3, <2>4, <2>8
<1> HIDE DEF n, F
<1>3. [k \in 1..n |-> F(k)] \in Seq(Seq(S)) /\ Len([k \in 1..n |-> F(k)]) = n
  BY <1>1, <1>2
<1> QED BY <1>3 DEF Parts, n, F

LEMMA PrefixExtensional ==
  ASSUME NEW S, NEW p \in Seq(S), NEW q \in Seq(S)
  PROVE  Len(p) <= Len(q) /\ (\A i \in 1..Len(p) : p[i] = q[i]) <=> Len(p) <= Len(q) /\ SubSeq(p, 1, Len(p)) = SubSeq(q, 1, Len(p))
<1> SUFFICES ASSUME Len(p) <= Len(q)
             PROVE  (\A i \in 1..Len(p) : p[i] = q[i]) <=> SubSeq(p, 1, Len(p)) = SubSeq(q, 1, Len(p))
  OBVIOUS
<1>0. Len(p) \in Nat /\ Len(q) \in Nat /\ \A i \in 1..Len(p) : p[i] \in S /\ q[i] \in S
  OBVIOUS
<1> DEFINE a == SubSeq(p, 1, Len(p))
           b == SubSeq(q, 1, Len(p))
<1>1. a \in Seq(S) /\ Len(a) = Len(p) /\ \A i \in 1..Len(p) : a[i] = p[i]
  OBVIOUS
<1>2. b \in Seq(S) /\ Len(b) = Len(p) /\ \A i \in 1..Len(p) : b[i] = q[i]
  OBVIOUS
<1> HIDE DEF a, b
<1>3. (\A i \in 1..Len(p) : p[i] = q[i]) => a = b
  BY <1>0, <1>1, <1>2, SeqEqual
<1>4. a = b => \A i \in 1..Len(p) : p[i] = q[i]
  BY <1>1, <1>2
<1> QED BY <1>3, <1>4 DEF a, b

(* The parts of a path that goes on behind a slash begin with the parts of *)
(* what it begins with.                                                    *)
LEMMA PartsOfPrefix ==
  ASSUME NEW S, "/" \in S, NEW p \in Seq(S), NEW q \in Seq(S), Len(p) < Len(q), \A i \in 1..Len(p) : p[i] = q[i],
         q[Len(p) + 1] = "/"
  PROVE  Len(Parts(p)) <= Len(Parts(q)) /\ \A k \in 1..Len(Parts(p)) : Parts(p)[k] = Parts(q)[k]
<1> DEFINE m == Len(p) + 1
           n == Len(q) + 1
           A == Cuts(p)
           T == Cuts(q)
<1>0. Len(p) \in Nat /\ Len(q) \in Nat /\ m \in Nat /\ n \in Nat /\ m \in 1..Len(q)
  OBVIOUS
<1>1. T \in SUBSET (0..n) /\ A \in SUBSET (0..m)
  BY CutsBounded
<1>c. /\ \A i \in 1..Len(p) : i \in A <=> p[i] = "/"
      /\ \A i \in 1..Len(q) : i \in T <=> q[i] = "/"
      /\ 0 \in A /\ m \in A /\ 0 \in T
  BY CutsBounded
<1>2. A \in SUBSET T /\ \A c \in T : c \in A <=> c <= m
  <2>0. \A c \in 1..Len(p) : c \in 1..Len(q)
    BY <1>0
  <2>1. \A c \in 1..Len(p) : c \in A <=> c \in T
    BY <2>0, <1>c
  <2>2. m \in T
    BY <1>0, <1>c
  <2>3. \A c \in A : c = 0 \/ c = m \/ c \in 1..Len(p)
    BY <1>0, <1>1
  <2>4. \A c \in T : c <= m => c = 0 \/ c = m \/ c \in 1..Len(p)
    BY <1>0, <1>1
  <2>5. \A c \in A : c <= m
    BY <1>0, <1>1
  <2> QED BY <2>1, <2>2, <2>3, <2>4, <2>5, <1>c
<1>3. /\ Len(Parts(p)) = Cardinality(A) - 1 /\ Cardinality(A) \in Nat /\ Cardinality(A) - 1 \in Nat
      /\ Len(Parts(q)) = Cardinality(T) - 1 /\ Cardinality(T) \in Nat
  BY PartsAreSequences, CutsBounded
<1> HIDE DEF m, n, A, T
<1>4. ASSUME NEW k \in Nat, k < Cardinality(A)
      PROVE  CutAt(A, k) = CutAt(T, k) /\ CutAt(A, k) \in A /\ Cardinality(A) <= Cardinality(T)
  BY <1>0, <1>1, <1>2, <1>4, CutAtPrefix
<1>5. Cardinality(A) <= Cardinality(T)
  <2>1. 0 < Cardinality(A) /\ 0 \in Nat
    BY <1>3
  <2> QED BY <2>1, <1>4
<1>6. ASSUME NEW k \in 1..Len(Parts(p))
      PROVE  Parts(p)[k] = Parts(q)[k]
  <2>1. k \in 1..Cardinality(A) - 1 /\ k \in 1..Cardinality(T) - 1
    BY <1>3, <1>5
  <2>2. k \in Nat /\ k - 1 \in Nat /\ k < Cardinality(A) /\ k - 1 < Cardinality(A)
    BY <2>1, <1>3
  <2>3. PICK a : a = CutAt(A, k - 1)
    OBVIOUS
  <2>4. PICK b : b = CutAt(A, k)
    OBVIOUS
  <2>5. CutAt(T, k - 1) = a /\ CutAt(T, k) = b /\ a \in A /\ b \in A
    BY <1>4, <2>2, <2>3, <2>4
  <2>6. a \in 0..m /\ b \in 0..m
    BY <2>5, <1>1
  <2>7. Parts(p)[k] = SubSeq(p, a + 1, b - 1)
    BY <2>1, <2>3, <2>4 DEF Parts, A
  <2>8. Parts(q)[k] = SubSeq(q, a + 1, b - 1)
    BY <2>1, <2>5 DEF Parts, T
  <2>9. a + 1 \in Int /\ b - 1 \in Int /\ \A i \in a + 1 .. b - 1 : i \in 1..Len(p)
    BY <2>6, <1>0 DEF m
  <2>10. \A i \in a + 1 .. b - 1 : p[i] \in S /\ q[i] = p[i]
    BY <2>9, <1>0
  <2> DEFINE u == SubSeq(p, a + 1, b - 1)
             w == SubSeq(q, a + 1, b - 1)
  <2>11. /\ u \in Seq(S) /\ Len(u) = (IF a + 1 <= b - 1 THEN b - 1 - (a + 1) + 1 ELSE 0)
         /\ \A i \in 1 .. b - 1 - (a + 1) + 1 : u[i] = p[a + 1 + i - 1]
    BY <2>9, <2>10, SubSeqProperties
  <2>12. /\ w \in Seq(S) /\ Len(w) = (IF a + 1 <= b - 1 THEN b - 1 - (a + 1) + 1 ELSE 0)
         /\ \A i \in 1 .. b - 1 - (a + 1) + 1 : w[i] = q[a + 1 + i - 1]
    BY <2>9, <2>10, SubSeqProperties
  <2> HIDE DEF u, w
  <2>13. Len(u) = Len(w) /\ Len(u) \in Nat
    BY <2>11, <2>12
  <2>14. \A i \in 1..Len(u) : u[i] = w[i]
    <3> SUFFICES ASSUME NEW i \in 1..Len(u)
                 PROVE  u[i] = w[i]
      OBVIOUS
    <3>1. i \in 1 .. b - 1 - (a + 1) + 1 /\ a + 1 + i - 1 \in a + 1 .. b - 1
      BY <2>6, <2>9, <2>11
    <3> QED BY <3>1, <2>10, <2>11, <2>12
  <2>15. u = w
    BY <2>11, <2>12, <2>13, <2>14, SeqEqual
  <2> QED BY <2>7, <2>8, <2>15 DEF u, w
<1> QED BY <1>3, <1>5, <1>6

-----------------------------------------------------------------------------
(* verification: redirect URIs and proof requests by e-mail.               *)

UriLetters == Setting.redirects.letter \cup {"/"}
RedirectSafe(u, list) ==
  /\ u \in Redirects!Uri /\ list \in SUBSET Redirects!Uri
  /\ Redirects!IsRedirectUriAllowed(u, list)
RedirectsIInv ==
  /\ allow \in SUBSET Redirects!Uri /\ emailData = "none" /\ mails = {}
  /\ \A t \in targets : RedirectSafe(t.uri, t.list)
  /\ \A r \in pend : r.op = "oob" /\ RedirectSafe(r.uri, r.list)
  /\ started \in 0..Setting.redirects.requests /\ faults \in 0..Setting.redirects.faults

LEMMA BoundedAreSequences ==
  ASSUME NEW S, NEW n \in Nat, NEW p \in Redirects!BoundedSeq(S, n)
  PROVE  p \in Seq(S)
BY DEF Redirects!BoundedSeq, Redirects!SeqOf

LEMMA PathsAreSequences ==
  ASSUME Redirects!ProofRequestsAssumption, NEW u \in Redirects!Uri
  PROVE  u.path \in Seq(UriLetters)
<1>1. Setting.redirects.pathLength \in Nat
  BY DEF Redirects!ProofRequestsAssumption
<1>2. u.path \in Redirects!Path
  BY DEF Redirects!Uri
<1>3. PICK p \in Redirects!BoundedSeq(UriLetters, Setting.redirects.pathLength) : u.path = <<"/">> \o p
  BY <1>2 DEF Redirects!Path, UriLetters
<1>4. p \in Seq(UriLetters) /\ <<"/">> \in Seq(UriLetters)
  BY <1>1, BoundedAreSequences DEF UriLetters
<1> QED BY <1>3, <1>4

LEMMA StripIsSequence ==
  ASSUME NEW S, NEW p \in Seq(S)
  PROVE  Redirects!Strip(p) \in Seq(S)
<1> DEFINE kept == {0} \cup {i \in DOMAIN p : p[i] # "/"}
           m == CHOOSE i \in kept : \A j \in kept : j <= i
<1>0. Len(p) \in Nat /\ DOMAIN p = 1..Len(p)
  OBVIOUS
<1>1. kept \in SUBSET (0..Len(p)) /\ kept # {}
  BY <1>0
<1> HIDE DEF kept
<1>2. m \in kept
  BY <1>0, <1>1, GreatestExists
<1> HIDE DEF m
<1>3. m \in 0..Len(p)
  BY <1>1, <1>2
<1>4. SubSeq(p, 1, m) \in Seq(S)
  BY <1>0, <1>3
<1> QED BY <1>4 DEF Redirects!Strip, kept, m

LEMMA SegmentsAreParts ==
  ASSUME NEW p
  PROVE  Redirects!Segments(p) = Parts(Redirects!Strip(p))
BY DEF Redirects!Segments, Parts, Cuts, CutAt, Below, Redirects!Cardinality, Cardinality, Redirects!IsFiniteSet, IsFiniteSet

LEMMA RedirectsBelow ==
  ASSUME Redirects!ProofRequestsAssumption, NEW u, NEW list, RedirectSafe(u, list)
  PROVE  /\ u.origin \notin Setting.redirects.plain \/ Setting.redirects.http
         /\ \E a \in list : /\ a.origin = u.origin
                            /\ \/ Redirects!Strip(a.path) = << >>
                               \/ Redirects!IsPrefix(Redirects!Segments(a.path), Redirects!Segments(u.path))
<1>1. PICK a \in list : Redirects!MatchesAllowlistEntry(u, a)
  BY DEF RedirectSafe, Redirects!IsRedirectUriAllowed
<1>2. u.origin \notin Setting.redirects.plain \/ Setting.redirects.http
  BY DEF RedirectSafe, Redirects!IsRedirectUriAllowed, Redirects!HasAllowedRedirectProtocol
<1>3. a.origin = u.origin
  BY <1>1 DEF Redirects!MatchesAllowlistEntry
<1>4. u.path \in Seq(UriLetters) /\ a.path \in Seq(UriLetters)
  BY PathsAreSequences DEF RedirectSafe
<1> DEFINE p == Redirects!Strip(a.path)
           q == Redirects!Strip(u.path)
<1>5. p \in Seq(UriLetters) /\ q \in Seq(UriLetters) /\ "/" \in UriLetters
  BY <1>4, StripIsSequence DEF UriLetters
<1>6. Redirects!Segments(a.path) = Parts(p) /\ Redirects!Segments(u.path) = Parts(q)
  BY SegmentsAreParts
<1>7. p = << >> \/ q = p \/ Redirects!IsPrefix(Append(p, "/"), q)
  BY <1>1 DEF Redirects!MatchesAllowlistEntry
<1> HIDE DEF p, q
<1>8. Parts(p) \in Seq(Seq(UriLetters)) /\ Parts(q) \in Seq(Seq(UriLetters))
  BY <1>5, PartsAreSequences
<1>9. (Len(Parts(p)) <= Len(Parts(q)) /\ \A k \in 1..Len(Parts(p)) : Parts(p)[k] = Parts(q)[k])
        => Redirects!IsPrefix(Parts(p), Parts(q))
  BY <1>8, PrefixExtensional DEF Redirects!IsPrefix
<1>10. CASE q = p
  BY <1>8, <1>9, <1>10, <1>2, <1>3, <1>6
<1>11. CASE Redirects!IsPrefix(Append(p, "/"), q)
  <2> DEFINE e == Append(p, "/")
  <2>1. e \in Seq(UriLetters) /\ Len(e) = Len(p) + 1 /\ e[Len(p) + 1] = "/" /\ \A i \in 1..Len(p) : e[i] = p[i]
    BY <1>5, AppendProperties
  <2> HIDE DEF e
  <2>2. Len(e) <= Len(q) /\ \A i \in 1..Len(e) : e[i] = q[i]
    BY <1>11, <2>1, <1>5, PrefixExtensional DEF Redirects!IsPrefix, e
  <2>3. Len(p) \in Nat /\ Len(q) \in Nat
    BY <1>5
  <2>4. Len(p) < Len(q) /\ (\A i \in 1..Len(p) : p[i] = q[i]) /\ q[Len(p) + 1] = "/"
    BY <2>1, <2>2, <2>3
  <2>5. Len(Parts(p)) <= Len(Parts(q)) /\ \A k \in 1..Len(Parts(p)) : Parts(p)[k] = Parts(q)[k]
    BY <2>4, <1>5, PartsOfPrefix
  <2> QED BY <2>5, <1>9, <1>2, <1>3, <1>6
<1>12. CASE p = << >>
  BY <1>12, <1>2, <1>3 DEF p
<1> QED BY <1>7, <1>10, <1>11, <1>12

LEMMA RedirectsKept ==
  ASSUME Redirects!ProofRequestsAssumption, RedirectsIInv, Redirects!Redirects
  PROVE  RedirectsIInv'
<1>u. Setting.redirects.requests \in Nat /\ Setting.redirects.faults \in Nat
  BY DEF Redirects!ProofRequestsAssumption
<1>1. ASSUME NEW u \in Redirects!Uri, NEW v \in Redirects!Uri, NEW S \in {{}, {u}, {u, v}}, Redirects!SetRedirectUris(S)
      PROVE  RedirectsIInv'
  <2>1. /\ allow' = S /\ targets' = targets /\ emailData' = emailData /\ mails' = mails /\ pend' = pend /\ faults' = faults
        /\ started' \in 0..Setting.redirects.requests
    BY <1>1, <1>u DEF Redirects!SetRedirectUris, RedirectsIInv
  <2>2. S \in SUBSET Redirects!Uri
    OBVIOUS
  <2> QED BY <2>1, <2>2 DEF RedirectsIInv
<1>2. ASSUME NEW u \in Redirects!Uri, Redirects!SendWithRedirect(u)
      PROVE  RedirectsIInv'
  <2> DEFINE q == [op |-> "oob", uri |-> u, list |-> allow]
  <2>1. /\ allow' = allow /\ targets' = targets /\ emailData' = emailData /\ mails' = mails /\ pend' = pend \cup {q}
        /\ faults' = faults /\ started' \in 0..Setting.redirects.requests
    BY <1>2, <1>u DEF Redirects!SendWithRedirect, Redirects!Request, RedirectsIInv
  <2>2. RedirectSafe(u, allow)
    BY <1>2 DEF RedirectSafe, RedirectsIInv, Redirects!SendWithRedirect
  <2>3. q.op = "oob" /\ q.uri = u /\ q.list = allow
    OBVIOUS
  <2> HIDE DEF q
  <2>4. \A r \in pend' : r.op = "oob" /\ RedirectSafe(r.uri, r.list)
    BY <2>1, <2>2, <2>3 DEF RedirectsIInv
  <2> QED BY <2>1, <2>4 DEF RedirectsIInv
<1>3. ASSUME NEW req \in pend, Redirects!AttachRedirect(req)
      PROVE  RedirectsIInv'
  <2>1. /\ allow' = allow /\ emailData' = emailData /\ mails' = mails /\ pend' \subseteq pend
        /\ started' = started
    BY <1>3 DEF Redirects!AttachRedirect, Redirects!End
  <2>2. faults' \in 0..Setting.redirects.faults
    BY <1>3, <1>u DEF Redirects!AttachRedirect, Redirects!Fault, RedirectsIInv
  <2> DEFINE t == [uri |-> req.uri, list |-> req.list]
  <2>3. targets' \subseteq targets \cup {t}
    BY <1>3 DEF Redirects!AttachRedirect
  <2>4. t.uri = req.uri /\ t.list = req.list /\ RedirectSafe(req.uri, req.list)
    BY DEF RedirectsIInv
  <2> HIDE DEF t
  <2>5. \A e \in targets' : RedirectSafe(e.uri, e.list)
    BY <2>3, <2>4 DEF RedirectsIInv
  <2>6. \A r \in pend' : r.op = "oob" /\ RedirectSafe(r.uri, r.list)
    BY <2>1 DEF RedirectsIInv
  <2> QED BY <2>1, <2>2, <2>5, <2>6 DEF RedirectsIInv
<1> QED BY <1>1, <1>2, <1>3 DEF Redirects!Redirects

LEMMA RedirectsBegin ==
  ASSUME Redirects!ProofRequestsAssumption, Redirects!Init
  PROVE  RedirectsIInv
BY DEF Redirects!ProofRequestsAssumption, Redirects!Init, RedirectsIInv

LEMMA RedirectsSafe ==
  ASSUME Redirects!ProofRequestsAssumption, RedirectsIInv
  PROVE  Redirects!TypeOK /\ Redirects!RedirectsRegistered
<1>1. Redirects!TypeOK
  BY DEF RedirectsIInv, Redirects!TypeOK
<1>2. ASSUME NEW t \in targets
      PROVE  /\ t.uri.origin \notin Setting.redirects.plain \/ Setting.redirects.http
             /\ \E a \in t.list : /\ a.origin = t.uri.origin
                                  /\ \/ Redirects!Strip(a.path) = << >>
                                     \/ Redirects!IsPrefix(Redirects!Segments(a.path), Redirects!Segments(t.uri.path))
  BY RedirectsBelow DEF RedirectsIInv
<1>3. Redirects!RedirectsRegistered
  BY <1>2 DEF Redirects!RedirectsRegistered
<1> QED BY <1>1, <1>3

(* One request at a time: while an e-mail is sent it has the address it    *)
(* was made for, and who was counted as reached was sent one.              *)
MailRequest == [op : {"email", "send"}, n : Nat, todo : Seq(Setting.emails.email), sent : SUBSET Setting.emails.email,
                failed : BOOLEAN]
MailsIInv ==
  /\ allow = {} /\ emailData \in Setting.emails.email \cup {"none"}
  /\ mails \in SUBSET [to : Setting.emails.email, for : Setting.emails.email]
  /\ \A m \in mails : m.to = m.for
  /\ pend \in SUBSET MailRequest /\ \A r, q \in pend : r = q
  /\ \A r \in pend : r.op = "send" => r.todo # << >> /\ emailData = Head(r.todo)
  /\ \A r \in pend : \A e \in r.sent : \E m \in mails : m.for = e
  /\ \A v \in saved : \A e \in v[2] : (\E m \in mails : m.for = e) /\ ~v[3]
  /\ started \in 0..Setting.emails.requests /\ faults \in 0..Setting.emails.faults

LEMMA AddressListsAreSequences ==
  ASSUME NEW S, NEW n \in Nat, NEW p \in Emails!BoundedSeq(S, n)
  PROVE  p \in Seq(S)
BY DEF Emails!BoundedSeq, Emails!SeqOf

LEMMA MailNext ==
  ASSUME NEW r \in MailRequest, r.todo # << >>, NEW ok \in BOOLEAN
  PROVE  LET q == Emails!Next1(r, ok)
         IN  /\ q \in MailRequest /\ q.op = "email"
             /\ q.sent = IF ok THEN r.sent \cup {Head(r.todo)} ELSE r.sent
<1> DEFINE E == Setting.emails.email
           q == Emails!Next1(r, ok)
<1>1. r \in [op : {"email", "send"}, n : Nat, todo : Seq(E), sent : SUBSET E, failed : BOOLEAN]
  BY DEF MailRequest
<1>2. Head(r.todo) \in E /\ Tail(r.todo) \in Seq(E)
  BY <1>1
<1> DEFINE t == Tail(r.todo)
           x == IF ok THEN r.sent \cup {Head(r.todo)} ELSE r.sent
           f == r.failed \/ ~ok
<1>3. t \in Seq(E) /\ x \in SUBSET E /\ f \in BOOLEAN
  BY <1>1, <1>2
<1>4. q = [r EXCEPT !.op = "email", !.todo = t, !.failed = f, !.sent = x]
  BY DEF Emails!Next1
<1> HIDE DEF t, x, f, E, q
<1>5. q \in [op : {"email", "send"}, n : Nat, todo : Seq(E), sent : SUBSET E, failed : BOOLEAN]
      /\ q.op = "email" /\ q.sent = x
  BY <1>1, <1>3, <1>4
<1> QED BY <1>5 DEF MailRequest, x, E, q

LEMMA MailsKept ==
  ASSUME Emails!ProofRequestsAssumption, MailsIInv, Emails!Emails
  PROVE  MailsIInv'
<1>u. Setting.emails.requests \in Nat /\ Setting.emails.faults \in Nat
  BY DEF Emails!ProofRequestsAssumption
<1>t. /\ pend \in SUBSET MailRequest /\ \A r, q \in pend : r = q
      /\ started \in 0..Setting.emails.requests /\ faults \in 0..Setting.emails.faults
  BY DEF MailsIInv
<1>f. Emails!Fault => faults' \in 0..Setting.emails.faults
  BY <1>u, <1>t DEF Emails!Fault
<1>1. ASSUME NEW list \in Emails!BoundedSeq(Setting.emails.email, 2), Emails!SendByEmail(list)
      PROVE  MailsIInv'
  <2> DEFINE q == [op |-> "email", n |-> started, todo |-> list, sent |-> {}, failed |-> FALSE]
  <2>1. /\ pend' = {q} /\ allow' = allow /\ emailData' = emailData /\ mails' = mails /\ saved' = saved /\ faults' = faults
        /\ started' \in 0..Setting.emails.requests
    BY <1>1, <1>u, <1>t DEF Emails!SendByEmail, Emails!Request
  <2>2. list \in Seq(Setting.emails.email)
    BY AddressListsAreSequences
  <2>3. q \in MailRequest /\ q.op = "email" /\ q.sent = {}
    BY <2>2, <1>t, <1>u DEF MailRequest
  <2> HIDE DEF q
  <2> QED BY <2>1, <2>3 DEF MailsIInv
<1>2. ASSUME NEW req \in pend, Emails!ComposeEmail(req)
      PROVE  MailsIInv'
  <2>1. /\ req \in MailRequest /\ req.todo # << >> /\ allow' = allow /\ mails' = mails /\ saved' = saved
    BY <1>2, <1>t DEF Emails!ComposeEmail
  <2>2. CASE emailData' = Head(req.todo) /\ Emails!Turn(req, [req EXCEPT !.op = "send"]) /\ faults' = faults
    <3> DEFINE q == [req EXCEPT !.op = "send"]
    <3>1. q \in MailRequest /\ q.op = "send" /\ q.todo = req.todo /\ q.sent = req.sent
      BY <2>1 DEF MailRequest
    <3>2. pend' = {q} /\ started' = started
      BY <2>2, <1>t DEF Emails!Turn
    <3>3. Head(req.todo) \in Setting.emails.email
      BY <2>1 DEF MailRequest
    <3> HIDE DEF q
    <3> QED BY <2>1, <2>2, <3>1, <3>2, <3>3 DEF MailsIInv
  <2>3. CASE Emails!Fault /\ Emails!Turn(req, Emails!Next1(req, FALSE)) /\ emailData' = emailData
    <3> DEFINE q == Emails!Next1(req, FALSE)
    <3>1. q \in MailRequest /\ q.op = "email" /\ q.sent = req.sent
      BY <2>1, MailNext
    <3> HIDE DEF q
    <3>2. pend' = {q} /\ started' = started
      BY <2>3, <1>t DEF Emails!Turn, q
    <3> QED BY <2>1, <2>3, <3>1, <3>2, <1>f DEF MailsIInv
  <2> QED BY <1>2, <2>2, <2>3 DEF Emails!ComposeEmail
<1>3. ASSUME NEW req \in pend, Emails!SendEmail(req)
      PROVE  MailsIInv'
  <2>1. /\ req \in MailRequest /\ req.op = "send" /\ req.todo # << >> /\ emailData = Head(req.todo)
        /\ allow' = allow /\ emailData' = emailData /\ saved' = saved
    BY <1>3, <1>t DEF Emails!SendEmail, MailsIInv
  <2>2. Head(req.todo) \in Setting.emails.email
    BY <2>1 DEF MailRequest
  <2>3. CASE /\ mails' = mails \cup {[to |-> emailData, for |-> Head(req.todo)]}
             /\ Emails!Turn(req, Emails!Next1(req, TRUE)) /\ faults' = faults
    <3> DEFINE q == Emails!Next1(req, TRUE)
               m == [to |-> emailData, for |-> Head(req.todo)]
    <3>1. q \in MailRequest /\ q.op = "email" /\ q.sent = req.sent \cup {Head(req.todo)}
      BY <2>1, MailNext
    <3>3. /\ m.to = Head(req.todo) /\ m.for = Head(req.todo)
          /\ m \in [to : Setting.emails.email, for : Setting.emails.email]
      BY <2>1, <2>2
    <3> HIDE DEF q
    <3>2. pend' = {q} /\ started' = started
      BY <2>3, <1>t DEF Emails!Turn, q
    <3>4. mails' = mails \cup {m}
      BY <2>3
    <3> HIDE DEF m
    <3>5. \A e \in q.sent : \E k \in mails' : k.for = e
      BY <3>1, <3>3, <3>4 DEF MailsIInv
    <3>6. \A v \in saved' : \A e \in v[2] : (\E k \in mails' : k.for = e) /\ ~v[3]
      BY <2>1, <3>4 DEF MailsIInv
    <3>7. mails' \in SUBSET [to : Setting.emails.email, for : Setting.emails.email] /\ \A k \in mails' : k.to = k.for
      BY <3>3, <3>4 DEF MailsIInv
    <3> QED BY <2>1, <2>3, <3>1, <3>2, <3>5, <3>6, <3>7 DEF MailsIInv
  <2>4. CASE Emails!Fault /\ Emails!Turn(req, Emails!Next1(req, FALSE)) /\ mails' = mails
    <3> DEFINE q == Emails!Next1(req, FALSE)
    <3>1. q \in MailRequest /\ q.op = "email" /\ q.sent = req.sent
      BY <2>1, MailNext
    <3> HIDE DEF q
    <3>2. pend' = {q} /\ started' = started
      BY <2>4, <1>t DEF Emails!Turn, q
    <3> QED BY <2>1, <2>4, <3>1, <3>2, <1>f DEF MailsIInv
  <2> QED BY <1>3, <2>3, <2>4 DEF Emails!SendEmail
<1>4. ASSUME NEW req \in pend, Emails!SaveEmail(req)
      PROVE  MailsIInv'
  <2>1. /\ pend' = {} /\ started' = started /\ allow' = allow /\ emailData' = emailData /\ mails' = mails /\ faults' = faults
        /\ saved' = IF req.failed THEN saved ELSE saved \cup {<<req.n, req.sent, req.failed>>}
    BY <1>4, <1>t DEF Emails!SaveEmail, Emails!End
  <2>2. \A v \in saved' : \A e \in v[2] : (\E k \in mails : k.for = e) /\ ~v[3]
    <3>1. CASE req.failed
      BY <2>1, <3>1 DEF MailsIInv
    <3>2. CASE ~req.failed
      <4> DEFINE w == <<req.n, req.sent, req.failed>>
      <4>1. w[2] = req.sent /\ w[3] = req.failed
        OBVIOUS
      <4>2. saved' = saved \cup {w}
        BY <2>1, <3>2
      <4> HIDE DEF w
      <4>3. \A e \in w[2] : (\E k \in mails : k.for = e) /\ ~w[3]
        BY <4>1, <3>2 DEF MailsIInv
      <4>4. \A v \in saved : \A e \in v[2] : (\E k \in mails : k.for = e) /\ ~v[3]
        BY DEF MailsIInv
      <4> QED BY <4>2, <4>3, <4>4
    <3> QED BY <3>1, <3>2
  <2> QED BY <2>1, <2>2 DEF MailsIInv
<1> QED BY <1>1, <1>2, <1>3, <1>4 DEF Emails!Emails

LEMMA MailsBegin ==
  ASSUME Emails!ProofRequestsAssumption, Emails!Init
  PROVE  MailsIInv
BY DEF Emails!ProofRequestsAssumption, Emails!Init, MailsIInv

LEMMA MailsSafe ==
  ASSUME MailsIInv
  PROVE  Emails!TypeOK /\ Emails!MailsReachAddresseeAlone /\ Emails!SavedWereSent
BY DEF MailsIInv, Emails!TypeOK, Emails!MailsReachAddresseeAlone, Emails!SavedWereSent

-----------------------------------------------------------------------------
(* ledger: names without the blanks around them, and without case.         *)

(* What is without blanks around it stays as it is.                        *)
LEMMA TrimTwice ==
  ASSUME NEW s, NEW o, NEW n \in Seq(STRING), \E i \in DOMAIN n : n[i] # "blank"
  PROVE  LET t == Schemas(s, o)!Trim(n) IN t \in Seq(STRING) /\ Schemas(s, o)!Trim(t) = t
<1> DEFINE ink == {i \in DOMAIN n : n[i] # "blank"}
           a == Schemas(s, o)!Min(ink)
           b == Schemas(s, o)!Max(ink)
           t == SubSeq(n, a, b)
<1>0. Len(n) \in Nat /\ DOMAIN n = 1..Len(n)
  OBVIOUS
<1>1. ink \in SUBSET Nat /\ ink \in SUBSET (0..Len(n)) /\ ink # {}
  BY <1>0
<1>2. a \in ink /\ \A j \in ink : a <= j
  <2>1. \E i \in ink : \A j \in ink : i <= j
    BY <1>1, LeastExists
  <2> HIDE DEF ink
  <2> QED BY <2>1 DEF Schemas!Min
<1>3. b \in ink /\ \A j \in ink : j <= b
  <2>1. PICK i \in ink : \A j \in ink : j <= i
    BY <1>0, <1>1, GreatestExists
  <2>2. \A j \in ink : i >= j
    BY <2>1, <1>1
  <2>3. b \in ink /\ \A j \in ink : b >= j
    <3> HIDE DEF ink
    <3> QED BY <2>2 DEF Schemas!Max
  <2> QED BY <2>3, <1>1
<1>4. a \in 1..Len(n) /\ b \in 1..Len(n) /\ a <= b /\ n[a] # "blank" /\ n[b] # "blank"
  BY <1>0, <1>2, <1>3
<1> HIDE DEF ink, a, b
<1>5. t \in Seq(STRING) /\ Len(t) = b - a + 1 /\ Len(t) \in Nat /\ DOMAIN t = 1..Len(t)
  BY <1>0, <1>4
<1>6. 1 \in DOMAIN t /\ Len(t) \in DOMAIN t /\ t[1] = n[a] /\ t[Len(t)] = n[b]
  BY <1>0, <1>4, <1>5
<1> DEFINE jnk == {i \in DOMAIN t : t[i] # "blank"}
<1>7. jnk \in SUBSET (1..Len(t)) /\ 1 \in jnk /\ Len(t) \in jnk
  BY <1>4, <1>5, <1>6
<1> HIDE DEF t
<1>8. Schemas(s, o)!Min(jnk) = 1
  <2>1. \A j \in jnk : 1 <= j
    BY <1>7, <1>5
  <2>2. \A x \in jnk : (\A j \in jnk : x <= j) => x = 1
    BY <1>7, <1>5
  <2> HIDE DEF jnk
  <2> QED BY <1>7, <2>1, <2>2 DEF Schemas!Min
<1>9. Schemas(s, o)!Max(jnk) = Len(t)
  <2>1. \A j \in jnk : Len(t) >= j
    BY <1>7, <1>5
  <2>2. \A x \in jnk : (\A j \in jnk : x >= j) => x = Len(t)
    BY <1>7, <1>5
  <2> HIDE DEF jnk
  <2> QED BY <1>7, <2>1, <2>2 DEF Schemas!Max
<1>10. Schemas(s, o)!Trim(t) = SubSeq(t, 1, Len(t))
  BY <1>8, <1>9 DEF Schemas!Trim
<1>11. SubSeq(t, 1, Len(t)) = t
  BY <1>5
<1> QED BY <1>5, <1>10, <1>11 DEF Schemas!Trim, t, a, b, ink

(* A name contains what differs from it in case alone.                     *)
LEMMA SameLetters ==
  ASSUME NEW s, NEW o, NEW n \in Seq(STRING), NEW m \in Seq(STRING),
         Schemas(s, o)!Lower(n) = Schemas(s, o)!Lower(m)
  PROVE  Schemas(s, o)!Contains(n, m)
<1> DEFINE l == Schemas(s, o)!Lower(n)
<1>0. Len(n) \in Nat /\ Len(m) \in Nat /\ DOMAIN n = 1..Len(n) /\ DOMAIN m = 1..Len(m)
  OBVIOUS
<1>1. DOMAIN l = DOMAIN n /\ DOMAIN l = DOMAIN m
  BY DEF Schemas!Lower
<1>2. Len(n) = Len(m)
  <2> DEFINE a == Len(n)
             b == Len(m)
  <2>1. a \in Nat /\ b \in Nat /\ 1..a = 1..b
    BY <1>0, <1>1
  <2> HIDE DEF a, b
  <2>2. /\ a \in 1..a <=> a \in 1..b
        /\ b \in 1..a <=> b \in 1..b
    BY <2>1
  <2>3. a = b
    <3>1. a \in Nat /\ b \in Nat
      BY <2>1
    <3> QED BY <3>1, <2>2
  <2> QED BY <2>3 DEF a, b
<1>3. \A i \in DOMAIN n : l[i] \in STRING \cup {"a"}
  <2>1. \A i \in DOMAIN n : n[i] \in STRING
    OBVIOUS
  <2>2. \A i \in DOMAIN n : l[i] = IF n[i] = "A" THEN "a" ELSE n[i]
    BY DEF Schemas!Lower
  <2> HIDE DEF l
  <2> QED BY <2>1, <2>2
<1>4. l \in Seq(STRING \cup {"a"}) /\ Len(l) = Len(n)
  <2>1. l = [i \in 1..Len(n) |-> l[i]]
    BY <1>0 DEF Schemas!Lower
  <2> HIDE DEF l
  <2> DEFINE S == STRING \cup {"a"}
  <2>2. l \in [1..Len(n) -> S]
    BY <1>0, <1>3, <2>1
  <2> HIDE DEF S
  <2>3. l \in Seq(S) /\ Len(l) = Len(n)
    BY <2>2, <1>0
  <2> QED BY <2>3 DEF S
<1> HIDE DEF l
<1>5. SubSeq(l, 1, Len(m)) = l
  BY <1>2, <1>4
<1>6. 0 \in 0..(Len(n) - Len(m)) /\ 0 + 1 = 1 /\ 0 + Len(m) = Len(m)
  BY <1>0, <1>2
<1>7. SubSeq(l, 0 + 1, 0 + Len(m)) = Schemas(s, o)!Lower(m)
  BY <1>5, <1>6 DEF l
<1> QED BY <1>6, <1>7 DEF Schemas!Contains, l

(* A row, a definition and a request have their fields, a stored Indy name *)
(* has no blanks around it.                                                *)
IsSchemaRow(s, o, r) ==
  /\ r \in [id : {r.id}, name : Seq(STRING), type : {"indy", "w3c", "migrated"}, org : s.org, issuer : s.did,
            archived : BOOLEAN]
  /\ r.type = "indy" => r.name = Schemas(s, o)!Trim(r.name)
RowOps == {"register", "recheck", "insert"}
DefOps == {"define", "find", "saveDef"}
WalletOps == {"archive", "remove"}
IsSchemaRequest(s, o, r) ==
  /\ r.op \in RowOps \cup DefOps \cup WalletOps \cup {"migrate"}
  /\ r.op \in RowOps => r = [op |-> r.op, row |-> r.row] /\ IsSchemaRow(s, o, r.row)
  /\ r.op \in DefOps => r = [op |-> r.op, def |-> r.def] /\ r.def.tag \in Seq(STRING)
  /\ r.op \in WalletOps => r = [op |-> r.op, org |-> r.org, issuer |-> r.issuer] /\ r.org \in s.org
  /\ r.op = "migrate" => r.issuer \in s.did
(* Handlers in any order: what is about to be written is registered, and   *)
(* the schema of a definition that is about to be written has its row.     *)
SchemasIInv(s, o) ==
  /\ did \in [s.org -> s.did \cup {"none"}] /\ lost \subseteq s.did
  /\ \A r \in schemas : IsSchemaRow(s, o, r)
  /\ \A c \in credDefs : c.tag \in Seq(STRING) /\ \E r \in schemas : r.id = c.schema
  /\ \A r \in schemas \cup credDefs : r.id \in ledger
  /\ \A r \in pend : IsSchemaRequest(s, o, r)
  /\ \A r \in pend : r.op \in {"recheck", "insert"} => r.row.id \in ledger
  /\ \A r \in pend : r.op \in {"find", "saveDef"} => r.def.id \in ledger
  /\ \A r \in pend : r.op = "saveDef" => \E x \in schemas : x.id = r.def.schema
  /\ started \in 0..s.requests /\ faults \in 0..s.faults

LEMMA SchemasSafe ==
  ASSUME NEW s, NEW o, SchemasIInv(s, o)
  PROVE  Schemas(s, o)!TypeOK /\ Schemas(s, o)!RowsRegistered
BY DEF SchemasIInv, IsSchemaRow, Schemas!TypeOK, Schemas!RowsRegistered

LEMMA SchemasBegin ==
  ASSUME NEW s, NEW o, Schemas(s, o)!LedgerAssumption, Schemas(s, o)!Init
  PROVE  SchemasIInv(s, o)
BY DEF SchemasIInv, Schemas!LedgerAssumption, Schemas!Init

(* Each kind of change keeps the invariant.                                *)
LEMMA SchemasBeginRequest ==
  ASSUME NEW s, NEW o, Schemas(s, o)!LedgerAssumption, SchemasIInv(s, o), NEW q, Schemas(s, o)!Begin(q),
         IsSchemaRequest(s, o, q), q.op \in {"register", "define", "archive", "migrate"},
         UNCHANGED <<did, schemas, credDefs, ledger, lost, faults>>
  PROVE  SchemasIInv(s, o)'
<1>1. started' \in 0..s.requests
  BY DEF SchemasIInv, Schemas!Begin, Schemas!LedgerAssumption
<1>2. pend' = pend \cup {q}
  BY DEF Schemas!Begin
<1> QED BY <1>1, <1>2 DEF SchemasIInv

LEMMA SchemasTrims ==
  ASSUME NEW s, NEW o, Schemas(s, o)!LedgerAssumption, NEW n \in s.name \cup s.tag
  PROVE  n \in Seq(STRING) /\ Schemas(s, o)!Trim(n) \in Seq(STRING)
         /\ Schemas(s, o)!Trim(Schemas(s, o)!Trim(n)) = Schemas(s, o)!Trim(n)
BY TrimTwice DEF Schemas!LedgerAssumption

LEMMA SchemasRequested ==
  ASSUME NEW s, NEW o, Schemas(s, o)!LedgerAssumption, SchemasIInv(s, o), NEW x \in s.org,
         \/ Schemas(s, o)!DeleteWallet(x)
         \/ \E n \in s.name : Schemas(s, o)!CreateW3CSchema(x, n) \/ \E d \in s.did : Schemas(s, o)!CreateSchema(x, d, n)
         \/ \E r \in schemas : Schemas(s, o)!MigrateW3CSchema(x, r)
         \/ \E d \in s.did : Schemas(s, o)!CreateWallet(x, d)
         \/ \E d \in s.did, id \in ledger, tag \in s.tag :
              id[1] = "indy" /\ Schemas(s, o)!CreateCredentialDefinition(x, d, id, tag)
  PROVE  SchemasIInv(s, o)'
<1>0. did \in [s.org -> s.did \cup {"none"}]
  BY DEF SchemasIInv
<1>1. CASE Schemas(s, o)!DeleteWallet(x)
  <2> DEFINE q == [op |-> "archive", org |-> x, issuer |-> did[x]]
  <2>1. Schemas(s, o)!Begin(q) /\ UNCHANGED <<did, schemas, credDefs, ledger, lost, faults>>
    BY <1>1 DEF Schemas!DeleteWallet
  <2>2. IsSchemaRequest(s, o, q) /\ q.op = "archive"
    BY DEF IsSchemaRequest, RowOps, DefOps, WalletOps
  <2> HIDE DEF q
  <2> QED BY <2>1, <2>2, SchemasBeginRequest
<1>2. ASSUME NEW n \in s.name, Schemas(s, o)!CreateW3CSchema(x, n)
      PROVE  SchemasIInv(s, o)'
  <2> DEFINE r == [id |-> <<"w3c", started + 1>>, name |-> n, type |-> "w3c", org |-> x, issuer |-> did[x], archived |-> FALSE]
             q == [op |-> "register", row |-> r]
  <2>1. did[x] # "none" /\ Schemas(s, o)!Begin(q) /\ UNCHANGED <<did, schemas, credDefs, ledger, lost, faults>>
    BY <1>2 DEF Schemas!CreateW3CSchema
  <2>2. IsSchemaRow(s, o, r)
    BY <1>0, <2>1, SchemasTrims DEF IsSchemaRow
  <2> HIDE DEF r
  <2>3. IsSchemaRequest(s, o, q) /\ q.op = "register"
    BY <2>2 DEF IsSchemaRequest, RowOps, DefOps, WalletOps
  <2> HIDE DEF q
  <2> QED BY <2>1, <2>3, SchemasBeginRequest
<1>3. ASSUME NEW n \in s.name, NEW d \in s.did, Schemas(s, o)!CreateSchema(x, d, n)
      PROVE  SchemasIInv(s, o)'
  <2>0. PICK t : t = Schemas(s, o)!Trim(n)
    OBVIOUS
  <2> DEFINE r == [id |-> <<"indy", d, t>>, name |-> t, type |-> "indy", org |-> x, issuer |-> d, archived |-> FALSE]
             q == [op |-> "register", row |-> r]
  <2>1. Schemas(s, o)!Begin(q) /\ UNCHANGED <<did, schemas, credDefs, ledger, lost, faults>>
    BY <1>3, <2>0 DEF Schemas!CreateSchema
  <2>2. t \in Seq(STRING) /\ Schemas(s, o)!Trim(t) = t
    BY <2>0, SchemasTrims
  <2>3. IsSchemaRow(s, o, r)
    BY <2>2 DEF IsSchemaRow
  <2> HIDE DEF r
  <2>4. IsSchemaRequest(s, o, q) /\ q.op = "register"
    BY <2>3 DEF IsSchemaRequest, RowOps, DefOps, WalletOps
  <2> HIDE DEF q
  <2> QED BY <2>1, <2>4, SchemasBeginRequest
<1>4. ASSUME NEW r \in schemas, Schemas(s, o)!MigrateW3CSchema(x, r)
      PROVE  SchemasIInv(s, o)'
  <2> DEFINE q == [op |-> "migrate", id |-> r.id, issuer |-> did[x]]
  <2>1. did[x] # "none" /\ Schemas(s, o)!Begin(q) /\ UNCHANGED <<did, schemas, credDefs, ledger, lost, faults>>
    BY <1>4 DEF Schemas!MigrateW3CSchema
  <2>2. IsSchemaRequest(s, o, q) /\ q.op = "migrate"
    BY <1>0, <2>1 DEF IsSchemaRequest, RowOps, DefOps, WalletOps
  <2> HIDE DEF q
  <2> QED BY <2>1, <2>2, SchemasBeginRequest
<1>5. ASSUME NEW d \in s.did, Schemas(s, o)!CreateWallet(x, d)
      PROVE  SchemasIInv(s, o)'
  <2>1. /\ did' = [did EXCEPT ![x] = d] /\ schemas' = schemas /\ credDefs' = credDefs /\ ledger' = ledger /\ lost' = lost
        /\ pend' = pend /\ started' = started /\ faults' = faults
    BY <1>5 DEF Schemas!CreateWallet
  <2>2. did' \in [s.org -> s.did \cup {"none"}]
    BY <1>0, <2>1
  <2> QED BY <2>1, <2>2 DEF SchemasIInv
<1>6. ASSUME NEW d \in s.did, NEW id \in ledger, NEW tag \in s.tag, Schemas(s, o)!CreateCredentialDefinition(x, d, id, tag)
      PROVE  SchemasIInv(s, o)'
  <2>0. PICK t : t = Schemas(s, o)!Trim(tag)
    OBVIOUS
  <2> DEFINE c == [id |-> <<"def", d, id, t>>, schema |-> id, tag |-> t, org |-> x]
             q == [op |-> "define", def |-> c]
  <2>1. Schemas(s, o)!Begin(q) /\ UNCHANGED <<did, schemas, credDefs, ledger, lost, faults>>
    BY <1>6, <2>0 DEF Schemas!CreateCredentialDefinition
  <2>2. c.tag \in Seq(STRING)
    BY <2>0, SchemasTrims
  <2> HIDE DEF c
  <2>3. IsSchemaRequest(s, o, q) /\ q.op = "define"
    BY <2>2 DEF IsSchemaRequest, RowOps, DefOps, WalletOps
  <2> HIDE DEF q
  <2> QED BY <2>1, <2>3, SchemasBeginRequest
<1> QED BY <1>1, <1>2, <1>3, <1>4, <1>5, <1>6

(* A request that ends, well or not, and one that goes on with its next    *)
(* step.                                                                   *)
LEMMA SchemasEnd ==
  ASSUME NEW s, NEW o, Schemas(s, o)!LedgerAssumption, SchemasIInv(s, o), NEW q \in pend,
         UNCHANGED <<did, schemas, credDefs, ledger, lost>>,
         Schemas(s, o)!Fails(q) \/ (Schemas(s, o)!End(q) /\ UNCHANGED faults)
  PROVE  SchemasIInv(s, o)'
<1>1. faults' \in 0..s.faults
  BY DEF SchemasIInv, Schemas!Fails, Schemas!LedgerAssumption
<1>2. pend' = pend \ {q} /\ started' = started
  BY DEF Schemas!Fails, Schemas!End
<1> QED BY <1>1, <1>2 DEF SchemasIInv

LEMMA SchemasGo ==
  ASSUME NEW s, NEW o, SchemasIInv(s, o), NEW q \in pend, NEW z, Schemas(s, o)!Go(q, z),
         IsSchemaRequest(s, o, z), ledger \subseteq ledger',
         z.op \in {"recheck", "insert"} => z.row.id \in ledger',
         z.op \in {"find", "saveDef"} => z.def.id \in ledger',
         z.op = "saveDef" => \E x \in schemas : x.id = z.def.schema,
         UNCHANGED <<did, schemas, credDefs, lost, faults>>
  PROVE  SchemasIInv(s, o)'
<1>1. pend' = (pend \ {q}) \cup {z} /\ started' = started
  BY DEF Schemas!Go
<1>2. \A r \in pend' : r \in pend \/ r = z
  BY <1>1
<1>3. /\ \A r \in pend' : IsSchemaRequest(s, o, r)
      /\ \A r \in pend' : r.op \in {"recheck", "insert"} => r.row.id \in ledger'
      /\ \A r \in pend' : r.op \in {"find", "saveDef"} => r.def.id \in ledger'
      /\ \A r \in pend' : r.op = "saveDef" => \E x \in schemas : x.id = r.def.schema
  BY <1>2 DEF SchemasIInv
<1> QED BY <1>1, <1>3 DEF SchemasIInv

(* A change of rows that keeps their ids.                                  *)
LEMMA SchemasChange ==
  ASSUME NEW s, NEW o, SchemasIInv(s, o), NEW P, P \subseteq pend,
         \A r \in schemas' : IsSchemaRow(s, o, r) /\ \E x \in schemas : x.id = r.id,
         \A x \in schemas : \E r \in schemas' : r.id = x.id,
         pend' = P, UNCHANGED <<did, credDefs, ledger, lost, started, faults>>
  PROVE  SchemasIInv(s, o)'
<1>1. \A r \in schemas' \cup credDefs' : r.id \in ledger'
  BY DEF SchemasIInv
<1>2. /\ \A c \in credDefs' : c.tag \in Seq(STRING) /\ \E r \in schemas' : r.id = c.schema
      /\ \A r \in pend' : r.op = "saveDef" => \E x \in schemas' : x.id = r.def.schema
  BY DEF SchemasIInv
<1> QED BY <1>1, <1>2 DEF SchemasIInv

(* The rows after a migration and after an archiving.                      *)
Moved(r, d) == [r EXCEPT !.issuer = d, !.type = "migrated"]
Migrated(R, i, d) == {IF r.id = i THEN [r EXCEPT !.issuer = d, !.type = "migrated"] ELSE r : r \in R}
Archived(R, d) == {IF r.issuer = d THEN [r EXCEPT !.archived = TRUE] ELSE r : r \in R}

LEMMA MigratedRow ==
  ASSUME NEW s, NEW o, NEW r, IsSchemaRow(s, o, r), NEW d \in s.did
  PROVE  LET z == Moved(r, d)
         IN  IsSchemaRow(s, o, z) /\ z.id = r.id /\ z.issuer = d /\ z.type = "migrated"
<1> DEFINE z == [r EXCEPT !.issuer = d, !.type = "migrated"]
<1>1. r \in [id : {r.id}, name : Seq(STRING), type : {"indy", "w3c", "migrated"}, org : s.org, issuer : s.did,
             archived : BOOLEAN]
  BY DEF IsSchemaRow
<1>2. /\ z \in [id : {r.id}, name : Seq(STRING), type : {"indy", "w3c", "migrated"}, org : s.org, issuer : s.did,
                archived : BOOLEAN]
      /\ z.id = r.id /\ z.issuer = d /\ z.type = "migrated"
  BY <1>1
<1> HIDE DEF z
<1> QED BY <1>2 DEF IsSchemaRow, Moved, z

LEMMA ArchivedRow ==
  ASSUME NEW s, NEW o, NEW r, IsSchemaRow(s, o, r)
  PROVE  LET z == [r EXCEPT !.archived = TRUE]
         IN  IsSchemaRow(s, o, z) /\ z.id = r.id /\ z.archived = TRUE
<1> DEFINE z == [r EXCEPT !.archived = TRUE]
<1>1. r \in [id : {r.id}, name : Seq(STRING), type : {"indy", "w3c", "migrated"}, org : s.org, issuer : s.did,
             archived : BOOLEAN]
  BY DEF IsSchemaRow
<1>2. /\ z \in [id : {r.id}, name : Seq(STRING), type : {"indy", "w3c", "migrated"}, org : s.org, issuer : s.did,
                archived : BOOLEAN]
      /\ z.id = r.id /\ z.archived = TRUE /\ z.type = r.type /\ z.name = r.name
  BY <1>1
<1>3. r.type = "indy" => r.name = Schemas(s, o)!Trim(r.name)
  BY DEF IsSchemaRow
<1> HIDE DEF z
<1> QED BY <1>2, <1>3 DEF IsSchemaRow, z

LEMMA MigratedRows ==
  ASSUME NEW s, NEW o, NEW R, \A r \in R : IsSchemaRow(s, o, r), NEW i, NEW d \in s.did
  PROVE  /\ \A z \in Migrated(R, i, d) : IsSchemaRow(s, o, z) /\ \E x \in R : x.id = z.id
         /\ \A x \in R : \E z \in Migrated(R, i, d) : z.id = x.id
         /\ \A z \in Migrated(R, i, d) : z \in R \/ (z.type = "migrated" /\ z.issuer = d)
<1>1. ASSUME NEW z \in Migrated(R, i, d)
      PROVE  /\ IsSchemaRow(s, o, z) /\ \E x \in R : x.id = z.id
             /\ z \in R \/ (z.type = "migrated" /\ z.issuer = d)
  <2>1. PICK r \in R : z = IF r.id = i THEN [r EXCEPT !.issuer = d, !.type = "migrated"] ELSE r
    BY DEF Migrated
  <2>2. CASE r.id = i
    <3>1. z = Moved(r, d) /\ IsSchemaRow(s, o, r)
      BY <2>1, <2>2 DEF Moved
    <3> QED BY <3>1, MigratedRow
  <2> QED BY <2>1, <2>2
<1>2. ASSUME NEW x \in R
      PROVE  \E z \in Migrated(R, i, d) : z.id = x.id
  <2> DEFINE z == IF x.id = i THEN [x EXCEPT !.issuer = d, !.type = "migrated"] ELSE x
  <2>1. z \in Migrated(R, i, d)
    BY DEF Migrated
  <2>2. Moved(x, d).id = x.id
    BY MigratedRow
  <2>3. z.id = x.id
    BY <2>2 DEF Moved
  <2> HIDE DEF z
  <2> QED BY <2>1, <2>3
<1> QED BY <1>1, <1>2

LEMMA ArchivedRows ==
  ASSUME NEW s, NEW o, NEW R, \A r \in R : IsSchemaRow(s, o, r), NEW d
  PROVE  /\ \A z \in Archived(R, d) : IsSchemaRow(s, o, z) /\ \E x \in R : x.id = z.id
         /\ \A x \in R : \E z \in Archived(R, d) : z.id = x.id
<1>1. ASSUME NEW z \in Archived(R, d)
      PROVE  IsSchemaRow(s, o, z) /\ \E x \in R : x.id = z.id
  <2>1. PICK r \in R : z = IF r.issuer = d THEN [r EXCEPT !.archived = TRUE] ELSE r
    BY DEF Archived
  <2> QED BY <2>1, ArchivedRow
<1>2. ASSUME NEW x \in R
      PROVE  \E z \in Archived(R, d) : z.id = x.id
  <2> DEFINE z == IF x.issuer = d THEN [x EXCEPT !.archived = TRUE] ELSE x
  <2>1. z \in Archived(R, d)
    BY DEF Archived
  <2>2. z.id = x.id
    BY ArchivedRow
  <2> QED BY <2>1, <2>2
<1> QED BY <1>1, <1>2

(* The next form of a request.                                             *)
LEMMA RowRequestGoes ==
  ASSUME NEW s, NEW o, NEW q, IsSchemaRequest(s, o, q), q.op \in RowOps, NEW p \in RowOps
  PROVE  LET z == [q EXCEPT !.op = p]
         IN  IsSchemaRequest(s, o, z) /\ z.op = p /\ z.row = q.row
<1>1. [q EXCEPT !.op = p] = [op |-> p, row |-> q.row]
  BY DEF IsSchemaRequest
<1> QED BY <1>1 DEF IsSchemaRequest, RowOps, DefOps, WalletOps

LEMMA DefRequestGoes ==
  ASSUME NEW s, NEW o, NEW q, IsSchemaRequest(s, o, q), q.op \in DefOps, NEW p \in DefOps
  PROVE  LET z == [q EXCEPT !.op = p]
         IN  IsSchemaRequest(s, o, z) /\ z.op = p /\ z.def = q.def
<1>1. [q EXCEPT !.op = p] = [op |-> p, def |-> q.def]
  BY DEF IsSchemaRequest
<1> QED BY <1>1 DEF IsSchemaRequest, RowOps, DefOps, WalletOps

LEMMA WalletRequestGoes ==
  ASSUME NEW s, NEW o, NEW q, IsSchemaRequest(s, o, q), q.op \in WalletOps
  PROVE  LET z == [q EXCEPT !.op = "remove"]
         IN  IsSchemaRequest(s, o, z) /\ z.op = "remove" /\ z.org = q.org /\ z.issuer = q.issuer
<1>1. [q EXCEPT !.op = "remove"] = [op |-> "remove", org |-> q.org, issuer |-> q.issuer]
  BY DEF IsSchemaRequest
<1> QED BY <1>1 DEF IsSchemaRequest, RowOps, DefOps, WalletOps

LEMMA SchemasStepped ==
  ASSUME NEW s, NEW o, Schemas(s, o)!LedgerAssumption, SchemasIInv(s, o), NEW q \in pend, Schemas(s, o)!Steps(q)
  PROVE  SchemasIInv(s, o)'
<1>0. /\ IsSchemaRequest(s, o, q)
      /\ q.op \in {"recheck", "insert"} => q.row.id \in ledger
      /\ q.op \in {"find", "saveDef"} => q.def.id \in ledger
      /\ q.op = "saveDef" => \E x \in schemas : x.id = q.def.schema
      /\ did \in [s.org -> s.did \cup {"none"}] /\ lost \subseteq s.did
      /\ \A r \in schemas : IsSchemaRow(s, o, r)
  BY DEF SchemasIInv
<1>1. CASE Schemas(s, o)!Register(q)
  <2>1. q.op = "register" /\ UNCHANGED <<did, schemas, credDefs, lost>>
    BY <1>1 DEF Schemas!Register
  <2>2. CASE Schemas(s, o)!Fails(q) /\ UNCHANGED ledger
    BY <2>1, <2>2, SchemasEnd
  <2>3. CASE /\ ledger' = ledger \cup {q.row.id}
             /\ Schemas(s, o)!Go(q, [q EXCEPT !.op = "recheck"]) /\ UNCHANGED faults
    <3>0. PICK z : z = [q EXCEPT !.op = "recheck"]
      OBVIOUS
    <3>1. IsSchemaRequest(s, o, z) /\ z.op = "recheck" /\ z.row = q.row
      BY <1>0, <2>1, <3>0, RowRequestGoes DEF RowOps
    <3>2. Schemas(s, o)!Go(q, z) /\ ledger \subseteq ledger' /\ z.row.id \in ledger'
      BY <2>3, <3>0, <3>1
    <3> QED BY <2>1, <2>3, <3>1, <3>2, SchemasGo
  <2> QED BY <1>1, <2>2, <2>3 DEF Schemas!Register
<1>2. CASE Schemas(s, o)!Recheck(q)
  <2>1. q.op = "recheck" /\ UNCHANGED <<did, schemas, credDefs, ledger, lost, faults>>
    BY <1>2 DEF Schemas!Recheck
  <2>2. CASE Schemas(s, o)!End(q)
    BY <2>1, <2>2, SchemasEnd
  <2>3. CASE Schemas(s, o)!Go(q, [q EXCEPT !.op = "insert"])
    <3>0. PICK z : z = [q EXCEPT !.op = "insert"]
      OBVIOUS
    <3>1. IsSchemaRequest(s, o, z) /\ z.op = "insert" /\ z.row = q.row
      BY <1>0, <2>1, <3>0, RowRequestGoes DEF RowOps
    <3>2. Schemas(s, o)!Go(q, z) /\ ledger \subseteq ledger' /\ z.row.id \in ledger'
      BY <1>0, <2>1, <2>3, <3>0, <3>1
    <3> QED BY <2>1, <3>1, <3>2, SchemasGo
  <2> QED BY <1>2, <2>2, <2>3 DEF Schemas!Recheck
<1>3. CASE Schemas(s, o)!SaveSchema(q)
  <2>1. q.op = "insert" /\ UNCHANGED <<did, credDefs, ledger, lost>>
    BY <1>3 DEF Schemas!SaveSchema
  <2>2. CASE Schemas(s, o)!Fails(q) /\ UNCHANGED schemas
    BY <2>1, <2>2, SchemasEnd
  <2>3. CASE schemas' = schemas \cup {q.row} /\ Schemas(s, o)!End(q) /\ UNCHANGED faults
    <3>1. IsSchemaRow(s, o, q.row) /\ q.row.id \in ledger
      BY <1>0, <2>1 DEF IsSchemaRequest, RowOps
    <3>2. pend' = pend \ {q} /\ started' = started
      BY <2>3 DEF Schemas!End
    <3> QED BY <2>1, <2>3, <3>1, <3>2 DEF SchemasIInv
  <2> QED BY <1>3, <2>2, <2>3 DEF Schemas!SaveSchema
<1>4. CASE Schemas(s, o)!UpdateSchemaLedgerDetails(q)
  <2>1. q.op = "migrate" /\ UNCHANGED <<did, credDefs, ledger, lost>>
    BY <1>4 DEF Schemas!UpdateSchemaLedgerDetails
  <2>2. CASE Schemas(s, o)!Fails(q) /\ UNCHANGED schemas
    BY <2>1, <2>2, SchemasEnd
  <2>3. CASE schemas' = Migrated(schemas, q.id, q.issuer) /\ Schemas(s, o)!End(q) /\ UNCHANGED faults
    <3>1. q.issuer \in s.did
      BY <1>0, <2>1 DEF IsSchemaRequest
    <3>2. pend' = pend \ {q} /\ started' = started
      BY <2>3 DEF Schemas!End
    <3>3. /\ \A r \in schemas' : IsSchemaRow(s, o, r) /\ \E x \in schemas : x.id = r.id
          /\ \A x \in schemas : \E r \in schemas' : r.id = x.id
      <4>1. PICK R, i, d : R = schemas /\ i = q.id /\ d = q.issuer
        OBVIOUS
      <4>2. d \in s.did /\ schemas' = Migrated(R, i, d)
        BY <2>3, <3>1, <4>1
      <4>3. \A r \in R : IsSchemaRow(s, o, r)
        BY <1>0, <4>1
      <4>4. /\ \A z \in Migrated(R, i, d) : IsSchemaRow(s, o, z) /\ \E x \in R : x.id = z.id
            /\ \A x \in R : \E z \in Migrated(R, i, d) : z.id = x.id
        BY <4>2, <4>3, MigratedRows
      <4> QED BY <4>1, <4>2, <4>4
    <3> QED BY <2>1, <2>3, <3>2, <3>3, SchemasChange
  <2> QED BY <1>4, <2>2, <2>3 DEF Schemas!UpdateSchemaLedgerDetails, Migrated
<1>5. CASE Schemas(s, o)!ArchiveSchemas(q)
  <2>1. q.op = "archive" /\ UNCHANGED <<did, credDefs, ledger, lost>>
    BY <1>5 DEF Schemas!ArchiveSchemas
  <2>2. CASE Schemas(s, o)!Fails(q) /\ UNCHANGED schemas
    BY <2>1, <2>2, SchemasEnd
  <2>3. CASE /\ schemas' = Archived(schemas, q.issuer)
             /\ Schemas(s, o)!Go(q, [q EXCEPT !.op = "remove"]) /\ UNCHANGED faults
    <3>0. PICK z : z = [q EXCEPT !.op = "remove"]
      OBVIOUS
    <3>1. IsSchemaRequest(s, o, z) /\ z.op = "remove"
      BY <1>0, <2>1, <3>0, WalletRequestGoes DEF WalletOps
    <3>2. pend' = (pend \ {q}) \cup {z} /\ started' = started
      BY <2>3, <3>0 DEF Schemas!Go
    <3>3. /\ \A r \in schemas' : IsSchemaRow(s, o, r) /\ \E x \in schemas : x.id = r.id
          /\ \A x \in schemas : \E r \in schemas' : r.id = x.id
      <4>1. PICK R, d : R = schemas /\ d = q.issuer
        OBVIOUS
      <4>2. schemas' = Archived(R, d)
        BY <2>3, <4>1
      <4>3. \A r \in R : IsSchemaRow(s, o, r)
        BY <1>0, <4>1
      <4>4. \A y \in Archived(R, d) : IsSchemaRow(s, o, y) /\ \E x \in R : x.id = y.id
        BY <4>3, ArchivedRows
      <4>5. \A x \in R : \E y \in Archived(R, d) : y.id = x.id
        BY <4>3, ArchivedRows
      <4> QED BY <4>1, <4>2, <4>4, <4>5
    <3>4. \A r \in schemas' \cup credDefs' : r.id \in ledger'
      BY <2>1, <3>3 DEF SchemasIInv
    <3>5. \A c \in credDefs' : c.tag \in Seq(STRING) /\ \E r \in schemas' : r.id = c.schema
      BY <2>1, <3>3 DEF SchemasIInv
    <3>6. /\ \A r \in pend' : IsSchemaRequest(s, o, r)
          /\ \A r \in pend' : r.op \in {"recheck", "insert"} => r.row.id \in ledger'
          /\ \A r \in pend' : r.op \in {"find", "saveDef"} => r.def.id \in ledger'
          /\ \A r \in pend' : r.op = "saveDef" => \E x \in schemas' : x.id = r.def.schema
      <4>1. \A r \in pend' : r \in pend \/ r = z
        BY <3>2
      <4> QED BY <2>1, <3>1, <3>3, <4>1 DEF SchemasIInv
    <3> QED BY <2>1, <2>3, <3>2, <3>3, <3>4, <3>5, <3>6 DEF SchemasIInv
  <2> QED BY <1>5, <2>2, <2>3 DEF Schemas!ArchiveSchemas, Archived
<1>6. CASE Schemas(s, o)!RemoveWallet(q)
  <2>1. q.op = "remove" /\ UNCHANGED <<schemas, credDefs, ledger>>
    BY <1>6 DEF Schemas!RemoveWallet
  <2>2. CASE Schemas(s, o)!Fails(q) /\ UNCHANGED <<did, lost>>
    BY <2>1, <2>2, SchemasEnd
  <2>3. CASE /\ did' = [did EXCEPT ![q.org] = "none"] /\ lost' = lost \cup ({did[q.org]} \ {"none"})
             /\ Schemas(s, o)!End(q) /\ UNCHANGED faults
    <3>1. q.org \in s.org
      BY <1>0, <2>1 DEF IsSchemaRequest, WalletOps
    <3>2. did' \in [s.org -> s.did \cup {"none"}] /\ lost' \subseteq s.did
      BY <1>0, <2>3, <3>1
    <3>3. pend' = pend \ {q} /\ started' = started
      BY <2>3 DEF Schemas!End
    <3> QED BY <2>1, <2>3, <3>2, <3>3 DEF SchemasIInv
  <2> QED BY <1>6, <2>2, <2>3 DEF Schemas!RemoveWallet
<1>7. CASE Schemas(s, o)!RegisterDefinition(q)
  <2>1. q.op = "define" /\ UNCHANGED <<did, schemas, credDefs, lost>>
    BY <1>7 DEF Schemas!RegisterDefinition
  <2>2. CASE Schemas(s, o)!Fails(q) /\ UNCHANGED ledger
    BY <2>1, <2>2, SchemasEnd
  <2>3. CASE /\ ledger' = ledger \cup {q.def.id}
             /\ Schemas(s, o)!Go(q, [q EXCEPT !.op = "find"]) /\ UNCHANGED faults
    <3>0. PICK z : z = [q EXCEPT !.op = "find"]
      OBVIOUS
    <3>1. IsSchemaRequest(s, o, z) /\ z.op = "find" /\ z.def = q.def
      BY <1>0, <2>1, <3>0, DefRequestGoes DEF DefOps
    <3>2. Schemas(s, o)!Go(q, z) /\ ledger \subseteq ledger' /\ z.def.id \in ledger'
      BY <2>3, <3>0, <3>1
    <3> QED BY <2>1, <2>3, <3>1, <3>2, SchemasGo
  <2> QED BY <1>7, <2>2, <2>3 DEF Schemas!RegisterDefinition
<1>8. CASE Schemas(s, o)!FindSchema(q)
  <2>1. q.op = "find" /\ UNCHANGED <<did, schemas, credDefs, ledger, lost, faults>>
    BY <1>8 DEF Schemas!FindSchema
  <2>2. CASE Schemas(s, o)!End(q)
    BY <2>1, <2>2, SchemasEnd
  <2>3. CASE (\E r \in schemas : r.id = q.def.schema) /\ Schemas(s, o)!Go(q, [q EXCEPT !.op = "saveDef"])
    <3>0. PICK z : z = [q EXCEPT !.op = "saveDef"]
      OBVIOUS
    <3>1. IsSchemaRequest(s, o, z) /\ z.op = "saveDef" /\ z.def = q.def
      BY <1>0, <2>1, <3>0, DefRequestGoes DEF DefOps
    <3>2. Schemas(s, o)!Go(q, z) /\ ledger \subseteq ledger' /\ z.def.id \in ledger' /\ \E r \in schemas : r.id = z.def.schema
      BY <1>0, <2>1, <2>3, <3>0, <3>1
    <3> QED BY <2>1, <3>1, <3>2, SchemasGo
  <2> QED BY <1>8, <2>2, <2>3 DEF Schemas!FindSchema
<1>9. CASE Schemas(s, o)!SaveCredentialDefinition(q)
  <2>1. /\ q.op = "saveDef" /\ credDefs' = credDefs \cup {q.def} /\ pend' = pend \ {q} /\ started' = started
        /\ UNCHANGED <<did, schemas, ledger, lost, faults>>
    BY <1>9 DEF Schemas!SaveCredentialDefinition, Schemas!End
  <2>2. q.def.tag \in Seq(STRING) /\ q.def.id \in ledger /\ \E x \in schemas : x.id = q.def.schema
    BY <1>0, <2>1 DEF IsSchemaRequest, DefOps
  <2> QED BY <2>1, <2>2 DEF SchemasIInv
<1> QED BY <1>1, <1>2, <1>3, <1>4, <1>5, <1>6, <1>7, <1>8, <1>9 DEF Schemas!Steps

LEMMA SchemasKept ==
  ASSUME NEW s, NEW o, Schemas(s, o)!LedgerAssumption, SchemasIInv(s, o), Schemas(s, o)!Next
  PROVE  SchemasIInv(s, o)'
<1>1. CASE \E q \in pend : Schemas(s, o)!Steps(q)
  BY <1>1, SchemasStepped
<1>2. ASSUME NEW x \in s.org,
             \/ Schemas(s, o)!DeleteWallet(x)
             \/ \E n \in s.name : Schemas(s, o)!CreateW3CSchema(x, n) \/ \E d \in s.did : Schemas(s, o)!CreateSchema(x, d, n)
             \/ \E r \in schemas : Schemas(s, o)!MigrateW3CSchema(x, r)
             \/ \E d \in s.did : Schemas(s, o)!CreateWallet(x, d)
             \/ \E d \in s.did, id \in ledger, tag \in s.tag :
                  id[1] = "indy" /\ Schemas(s, o)!CreateCredentialDefinition(x, d, id, tag)
      PROVE  SchemasIInv(s, o)'
  BY <1>2, SchemasRequested
<1> QED BY <1>1, <1>2 DEF Schemas!Next

(* Names that differ, and names that are free, among rows R and            *)
(* definitions C.                                                          *)
LiveOf(R) == {r \in R : ~r.archived}
RowsApart(s, o, R) ==
  \A r, t \in LiveOf(R) : r # t /\ r.type = t.type /\ r.type # "migrated" /\ (r.type = "indy" \/ r.org = t.org)
                          => Schemas(s, o)!Lower(r.name) # Schemas(s, o)!Lower(t.name)
DefsApart(s, o, C) ==
  \A c, d \in C : c # d /\ c.schema = d.schema => Schemas(s, o)!Lower(c.tag) # Schemas(s, o)!Lower(d.tag)
NameFree(s, o, R, n) == \A t \in LiveOf(R) : t.type = "indy" => ~Schemas(s, o)!Contains(t.name, n)
W3cFree(s, o, R, n, x) ==
  \A t \in LiveOf(R) : t.type = "w3c" /\ t.org = x => Schemas(s, o)!Lower(t.name) # Schemas(s, o)!Lower(n)
TagFree(s, o, C, i, n) == \A c \in C : c.schema = i => ~Schemas(s, o)!Contains(c.tag, n)

LEMMA SchemaNames ==
  ASSUME NEW s, NEW o
  PROVE  /\ Schemas(s, o)!NamesDistinct <=> RowsApart(s, o, schemas) /\ DefsApart(s, o, credDefs)
         /\ \A n : Schemas(s, o)!SchemaExists(n) <=> ~NameFree(s, o, schemas, n)
         /\ \A n, x : Schemas(s, o)!W3cSchemaExists(n, x) <=> ~W3cFree(s, o, schemas, n, x)
         /\ \A i, n : Schemas(s, o)!GetByAttribute(i, n) <=> ~TagFree(s, o, credDefs, i, n)
<1>1. Schemas(s, o)!NamesDistinct <=> RowsApart(s, o, schemas) /\ DefsApart(s, o, credDefs)
  BY DEF Schemas!NamesDistinct, Schemas!Live, RowsApart, DefsApart, LiveOf
<1>2. ASSUME NEW n
      PROVE  Schemas(s, o)!SchemaExists(n) <=> ~NameFree(s, o, schemas, n)
  BY DEF Schemas!SchemaExists, NameFree, Schemas!Live, LiveOf
<1>3. ASSUME NEW n, NEW x
      PROVE  Schemas(s, o)!W3cSchemaExists(n, x) <=> ~W3cFree(s, o, schemas, n, x)
  BY DEF Schemas!W3cSchemaExists, W3cFree, Schemas!Live, LiveOf
<1>4. ASSUME NEW i, NEW n
      PROVE  Schemas(s, o)!GetByAttribute(i, n) <=> ~TagFree(s, o, credDefs, i, n)
  BY DEF Schemas!GetByAttribute, TagFree
<1> QED BY <1>1, <1>2, <1>3, <1>4

(* A row and a definition whose names were free.                           *)
LEMMA InsertApart ==
  ASSUME NEW s, NEW o, NEW R, \A r \in R : IsSchemaRow(s, o, r), RowsApart(s, o, R), NEW w, IsSchemaRow(s, o, w),
         NameFree(s, o, R, w.name), w.type = "w3c" => W3cFree(s, o, R, w.name, w.org)
  PROVE  RowsApart(s, o, R \cup {w})
<1>1. ASSUME NEW r \in LiveOf(R), r.type = w.type, r.type # "migrated", r.type = "indy" \/ r.org = w.org
      PROVE  Schemas(s, o)!Lower(r.name) # Schemas(s, o)!Lower(w.name)
  <2>1. r \in R /\ r.name \in Seq(STRING) /\ w.name \in Seq(STRING) /\ r.type \in {"indy", "w3c", "migrated"}
    BY DEF LiveOf, IsSchemaRow
  <2>2. CASE r.type = "indy"
    <3>1. ~Schemas(s, o)!Contains(r.name, w.name)
      BY <2>2 DEF NameFree
    <3> QED BY <3>1, <2>1, SameLetters
  <2>3. CASE r.type = "w3c"
    BY <1>1, <2>3 DEF W3cFree
  <2> QED BY <1>1, <2>1, <2>2, <2>3
<1>2. \A r \in LiveOf(R \cup {w}) : r \in LiveOf(R) \/ r = w
  BY DEF LiveOf
<1>3. ASSUME NEW r \in LiveOf(R \cup {w}), NEW t \in LiveOf(R \cup {w}), r # t, r.type = t.type, r.type # "migrated",
             r.type = "indy" \/ r.org = t.org
      PROVE  Schemas(s, o)!Lower(r.name) # Schemas(s, o)!Lower(t.name)
  <2>1. CASE r \in LiveOf(R) /\ t \in LiveOf(R)
    BY <1>3, <2>1 DEF RowsApart
  <2>2. CASE r = w /\ t \in LiveOf(R)
    BY <1>1, <1>3, <2>2
  <2>3. CASE t = w /\ r \in LiveOf(R)
    BY <1>1, <1>3, <2>3
  <2> QED BY <1>2, <1>3, <2>1, <2>2, <2>3
<1> QED BY <1>3 DEF RowsApart

LEMMA DefineApart ==
  ASSUME NEW s, NEW o, NEW C, \A c \in C : c.tag \in Seq(STRING), DefsApart(s, o, C), NEW w, w.tag \in Seq(STRING),
         TagFree(s, o, C, w.schema, w.tag)
  PROVE  DefsApart(s, o, C \cup {w})
<1>1. ASSUME NEW c \in C, c.schema = w.schema
      PROVE  Schemas(s, o)!Lower(c.tag) # Schemas(s, o)!Lower(w.tag)
  <2>1. ~Schemas(s, o)!Contains(c.tag, w.tag)
    BY <1>1 DEF TagFree
  <2> QED BY <2>1, SameLetters
<1>2. ASSUME NEW c \in C \cup {w}, NEW d \in C \cup {w}, c # d, c.schema = d.schema
      PROVE  Schemas(s, o)!Lower(c.tag) # Schemas(s, o)!Lower(d.tag)
  <2>1. CASE c \in C /\ d \in C
    BY <1>2, <2>1 DEF DefsApart
  <2>2. CASE c = w /\ d \in C
    BY <1>1, <1>2, <2>2
  <2>3. CASE d = w /\ c \in C
    BY <1>1, <1>2, <2>3
  <2> QED BY <1>2, <2>1, <2>2, <2>3
<1> QED BY <1>2 DEF DefsApart

(* Rows of which some were migrated or archived.                           *)
LEMMA FewerApart ==
  ASSUME NEW s, NEW o, NEW R, RowsApart(s, o, R), NEW Q, \A z \in Q : z \in R \/ z.type = "migrated" \/ z.archived = TRUE
  PROVE  RowsApart(s, o, Q)
<1>1. ASSUME NEW r \in LiveOf(Q), NEW t \in LiveOf(Q), r # t, r.type = t.type, r.type # "migrated",
             r.type = "indy" \/ r.org = t.org
      PROVE  Schemas(s, o)!Lower(r.name) # Schemas(s, o)!Lower(t.name)
  <2>1. r \in LiveOf(R) /\ t \in LiveOf(R)
    BY <1>1 DEF LiveOf
  <2> QED BY <1>1, <2>1 DEF RowsApart
<1> QED BY <1>1 DEF RowsApart

(* One request at a time: a DID in use was not deleted, no live schema is  *)
(* of a deleted one, and names are distinct.                               *)
SchemasCalm(s, o) ==
  /\ \A x \in s.org : did[x] # "none" => did[x] \notin lost /\ s.home[did[x]] = x
  /\ \A r \in LiveOf(schemas) : r.issuer \notin lost
  /\ RowsApart(s, o, schemas) /\ DefsApart(s, o, credDefs)
(* What the request that runs has found out still holds.                   *)
SchemaTurn(s, o, r) ==
  /\ r.op \in RowOps => r.row.issuer \notin lost
                        /\ (r.row.type = "w3c" => W3cFree(s, o, schemas, r.row.name, r.row.org))
  /\ r.op = "insert" => NameFree(s, o, schemas, r.row.name)
  /\ r.op = "saveDef" => TagFree(s, o, credDefs, r.def.schema, r.def.tag)
  /\ r.op = "migrate" => r.issuer \notin lost
  /\ r.op \in WalletOps => did[r.org] = r.issuer /\ r.issuer # "none"
  /\ r.op = "remove" => \A x \in LiveOf(schemas) : x.issuer # r.issuer
SchemasInTurn(s, o) ==
  /\ SchemasCalm(s, o)
  /\ \A r, q \in pend : r = q
  /\ \A r \in pend : SchemaTurn(s, o, r)

LEMMA SchemasInTurnBegin ==
  ASSUME NEW s, NEW o, Schemas(s, o)!LedgerAssumption, Schemas(s, o)!Init
  PROVE  SchemasInTurn(s, o)
<1>1. schemas = {} /\ credDefs = {} /\ lost = {} /\ pend = {} /\ \A x \in s.org : s.home[did[x]] = x
  BY DEF Schemas!Init
<1> QED BY <1>1 DEF SchemasInTurn, SchemasCalm, RowsApart, DefsApart, LiveOf

LEMMA SchemasInTurnSafe ==
  ASSUME NEW s, NEW o, SchemasInTurn(s, o)
  PROVE  Schemas(s, o)!NamesDistinct /\ Schemas(s, o)!LostDidArchived
<1>1. Schemas(s, o)!NamesDistinct
  BY SchemaNames DEF SchemasInTurn, SchemasCalm
<1>2. Schemas(s, o)!LostDidArchived
  BY DEF SchemasInTurn, SchemasCalm, Schemas!LostDidArchived, Schemas!Live, LiveOf
<1> QED BY <1>1, <1>2

(* A request begins, goes on or ends and leaves the rows and wallets.      *)
LEMMA SchemasTurns ==
  ASSUME NEW s, NEW o, SchemasInTurn(s, o), NEW z, pend' \in {{}, {z}}, z \in pend' => SchemaTurn(s, o, z),
         UNCHANGED <<did, schemas, credDefs, lost>>
  PROVE  SchemasInTurn(s, o)'
<1>1. SchemasCalm(s, o)'
  BY DEF SchemasInTurn, SchemasCalm
<1>2. \A r \in pend' : SchemaTurn(s, o, r)'
  BY DEF SchemaTurn
<1> QED BY <1>1, <1>2 DEF SchemasInTurn

LEMMA ArchivedLive ==
  ASSUME NEW R, NEW d, \A r \in R : [r EXCEPT !.archived = TRUE].archived = TRUE
  PROVE  \A y \in Archived(R, d) : y.archived = TRUE \/ (y \in R /\ y.issuer # d)
<1>1. ASSUME NEW y \in Archived(R, d)
      PROVE  y.archived = TRUE \/ (y \in R /\ y.issuer # d)
  <2>1. PICK r \in R : y = IF r.issuer = d THEN [r EXCEPT !.archived = TRUE] ELSE r
    BY DEF Archived
  <2> QED BY <2>1
<1> QED BY <1>1

(* Requests begin when none is running.                                    *)
LEMMA SchemasTurnBegins ==
  ASSUME NEW s, NEW o \in BOOLEAN, ~o, SchemasInTurn(s, o), NEW q, Schemas(s, o)!Begin(q), SchemaTurn(s, o, q),
         UNCHANGED <<did, schemas, credDefs, ledger, lost, faults>>
  PROVE  SchemasInTurn(s, o)'
<1>1. pend' = {q}
  BY DEF Schemas!Begin
<1> QED BY <1>1, SchemasTurns

LEMMA SchemasRequestedInTurn ==
  ASSUME NEW s, NEW o \in BOOLEAN, ~o, Schemas(s, o)!LedgerAssumption, SchemasIInv(s, o), SchemasInTurn(s, o), NEW x \in s.org,
         \/ Schemas(s, o)!DeleteWallet(x)
         \/ \E n \in s.name : Schemas(s, o)!CreateW3CSchema(x, n) \/ \E d \in s.did : Schemas(s, o)!CreateSchema(x, d, n)
         \/ \E r \in schemas : Schemas(s, o)!MigrateW3CSchema(x, r)
         \/ \E d \in s.did : Schemas(s, o)!CreateWallet(x, d)
         \/ \E d \in s.did, id \in ledger, tag \in s.tag :
              id[1] = "indy" /\ Schemas(s, o)!CreateCredentialDefinition(x, d, id, tag)
  PROVE  SchemasInTurn(s, o)'
<1>0. /\ did \in [s.org -> s.did \cup {"none"}]
      /\ \A y \in s.org : did[y] # "none" => did[y] \notin lost /\ s.home[did[y]] = y
      /\ SchemasCalm(s, o)
  BY DEF SchemasIInv, SchemasInTurn, SchemasCalm
<1>1. CASE Schemas(s, o)!DeleteWallet(x)
  <2> DEFINE q == [op |-> "archive", org |-> x, issuer |-> did[x]]
  <2>1. did[x] # "none" /\ Schemas(s, o)!Begin(q) /\ UNCHANGED <<did, schemas, credDefs, ledger, lost, faults>>
    BY <1>1 DEF Schemas!DeleteWallet
  <2>2. SchemaTurn(s, o, q)
    BY <2>1 DEF SchemaTurn, RowOps, WalletOps
  <2> HIDE DEF q
  <2> QED BY <2>1, <2>2, SchemasTurnBegins
<1>2. ASSUME NEW n \in s.name, Schemas(s, o)!CreateW3CSchema(x, n)
      PROVE  SchemasInTurn(s, o)'
  <2> DEFINE r == [id |-> <<"w3c", started + 1>>, name |-> n, type |-> "w3c", org |-> x, issuer |-> did[x], archived |-> FALSE]
             q == [op |-> "register", row |-> r]
  <2>1. /\ did[x] # "none" /\ Schemas(s, o)!Begin(q) /\ UNCHANGED <<did, schemas, credDefs, ledger, lost, faults>>
        /\ ~Schemas(s, o)!W3cSchemaExists(n, x)
    BY <1>2 DEF Schemas!CreateW3CSchema
  <2>2. W3cFree(s, o, schemas, n, x)
    BY <2>1, SchemaNames
  <2>3. r.issuer \notin lost /\ W3cFree(s, o, schemas, r.name, r.org)
    BY <1>0, <2>1, <2>2
  <2> HIDE DEF r
  <2>4. SchemaTurn(s, o, q)
    BY <2>3 DEF SchemaTurn, RowOps, WalletOps
  <2> HIDE DEF q
  <2> QED BY <2>1, <2>4, SchemasTurnBegins
<1>3. ASSUME NEW n \in s.name, NEW d \in s.did, Schemas(s, o)!CreateSchema(x, d, n)
      PROVE  SchemasInTurn(s, o)'
  <2>0. PICK t : t = Schemas(s, o)!Trim(n)
    OBVIOUS
  <2> DEFINE r == [id |-> <<"indy", d, t>>, name |-> t, type |-> "indy", org |-> x, issuer |-> d, archived |-> FALSE]
             q == [op |-> "register", row |-> r]
  <2>1. d \notin lost /\ Schemas(s, o)!Begin(q) /\ UNCHANGED <<did, schemas, credDefs, ledger, lost, faults>>
    BY <1>3, <2>0 DEF Schemas!CreateSchema
  <2>2. r.issuer \notin lost /\ r.type # "w3c"
    BY <2>1
  <2> HIDE DEF r
  <2>3. SchemaTurn(s, o, q)
    BY <2>2 DEF SchemaTurn, RowOps, WalletOps
  <2> HIDE DEF q
  <2> QED BY <2>1, <2>3, SchemasTurnBegins
<1>4. ASSUME NEW r \in schemas, Schemas(s, o)!MigrateW3CSchema(x, r)
      PROVE  SchemasInTurn(s, o)'
  <2> DEFINE q == [op |-> "migrate", id |-> r.id, issuer |-> did[x]]
  <2>1. did[x] # "none" /\ Schemas(s, o)!Begin(q) /\ UNCHANGED <<did, schemas, credDefs, ledger, lost, faults>>
    BY <1>4 DEF Schemas!MigrateW3CSchema
  <2>2. SchemaTurn(s, o, q)
    BY <1>0, <2>1 DEF SchemaTurn, RowOps, WalletOps
  <2> HIDE DEF q
  <2> QED BY <2>1, <2>2, SchemasTurnBegins
<1>5. ASSUME NEW d \in s.did, Schemas(s, o)!CreateWallet(x, d)
      PROVE  SchemasInTurn(s, o)'
  <2>1. /\ did' = [did EXCEPT ![x] = d] /\ schemas' = schemas /\ credDefs' = credDefs /\ lost' = lost
        /\ pend = {} /\ pend' = {} /\ d \notin lost /\ s.home[d] = x
    BY <1>5 DEF Schemas!CreateWallet
  <2>2. \A y \in s.org : did'[y] # "none" => did'[y] \notin lost' /\ s.home[did'[y]] = y
    BY <1>0, <2>1
  <2>3. SchemasCalm(s, o)'
    BY <1>0, <2>1, <2>2 DEF SchemasCalm
  <2> QED BY <2>1, <2>3 DEF SchemasInTurn
<1>6. ASSUME NEW d \in s.did, NEW id \in ledger, NEW tag \in s.tag, Schemas(s, o)!CreateCredentialDefinition(x, d, id, tag)
      PROVE  SchemasInTurn(s, o)'
  <2>0. PICK t : t = Schemas(s, o)!Trim(tag)
    OBVIOUS
  <2> DEFINE c == [id |-> <<"def", d, id, t>>, schema |-> id, tag |-> t, org |-> x]
             q == [op |-> "define", def |-> c]
  <2>1. Schemas(s, o)!Begin(q) /\ UNCHANGED <<did, schemas, credDefs, ledger, lost, faults>>
    BY <1>6, <2>0 DEF Schemas!CreateCredentialDefinition
  <2> HIDE DEF c
  <2>2. SchemaTurn(s, o, q)
    BY DEF SchemaTurn, RowOps, WalletOps
  <2> HIDE DEF q
  <2> QED BY <2>1, <2>2, SchemasTurnBegins
<1> QED BY <1>1, <1>2, <1>3, <1>4, <1>5, <1>6

LEMMA SchemasSteppedInTurn ==
  ASSUME NEW s, NEW o \in BOOLEAN, ~o, Schemas(s, o)!LedgerAssumption, SchemasIInv(s, o), SchemasInTurn(s, o),
         NEW q \in pend, Schemas(s, o)!Steps(q)
  PROVE  SchemasInTurn(s, o)'
<1>0. /\ IsSchemaRequest(s, o, q) /\ SchemaTurn(s, o, q) /\ SchemasCalm(s, o)
      /\ \A y \in s.org : did[y] # "none" => did[y] \notin lost /\ s.home[did[y]] = y
      /\ \A r \in LiveOf(schemas) : r.issuer \notin lost
      /\ RowsApart(s, o, schemas) /\ DefsApart(s, o, credDefs)
      /\ did \in [s.org -> s.did \cup {"none"}]
      /\ \A r \in schemas : IsSchemaRow(s, o, r)
      /\ \A c \in credDefs : c.tag \in Seq(STRING)
  BY DEF SchemasIInv, SchemasInTurn, SchemasCalm
<1>e. ASSUME Schemas(s, o)!Fails(q) \/ Schemas(s, o)!End(q)
      PROVE  pend' = {}
  BY <1>e DEF SchemasInTurn, Schemas!Fails, Schemas!End
<1>g. ASSUME NEW z, Schemas(s, o)!Go(q, z)
      PROVE  pend' = {z}
  BY <1>g DEF SchemasInTurn, Schemas!Go
<1>1. CASE Schemas(s, o)!Register(q)
  <2>1. q.op = "register" /\ UNCHANGED <<did, schemas, credDefs, lost>>
    BY <1>1 DEF Schemas!Register
  <2>2. CASE Schemas(s, o)!Fails(q)
    BY <1>e, <2>1, <2>2, SchemasTurns
  <2>3. CASE Schemas(s, o)!Go(q, [q EXCEPT !.op = "recheck"])
    <3>0. PICK z : z = [q EXCEPT !.op = "recheck"]
      OBVIOUS
    <3>1. z.op = "recheck" /\ z.row = q.row
      BY <1>0, <2>1, <3>0, RowRequestGoes DEF RowOps
    <3>2. pend' = {z}
      BY <1>g, <2>3, <3>0
    <3>3. SchemaTurn(s, o, z)
      BY <1>0, <2>1, <3>1 DEF SchemaTurn, RowOps, WalletOps
    <3> QED BY <2>1, <3>2, <3>3, SchemasTurns
  <2> QED BY <1>1, <2>2, <2>3 DEF Schemas!Register
<1>2. CASE Schemas(s, o)!Recheck(q)
  <2>1. q.op = "recheck" /\ UNCHANGED <<did, schemas, credDefs, ledger, lost, faults>>
    BY <1>2 DEF Schemas!Recheck
  <2>2. CASE Schemas(s, o)!End(q)
    BY <1>e, <2>1, <2>2, SchemasTurns
  <2>3. CASE ~Schemas(s, o)!SchemaExists(q.row.name) /\ Schemas(s, o)!Go(q, [q EXCEPT !.op = "insert"])
    <3>0. PICK z : z = [q EXCEPT !.op = "insert"]
      OBVIOUS
    <3>1. z.op = "insert" /\ z.row = q.row
      BY <1>0, <2>1, <3>0, RowRequestGoes DEF RowOps
    <3>2. pend' = {z}
      BY <1>g, <2>3, <3>0
    <3>3. NameFree(s, o, schemas, z.row.name)
      BY <2>3, <3>1, SchemaNames
    <3>4. SchemaTurn(s, o, z)
      BY <1>0, <2>1, <3>1, <3>3 DEF SchemaTurn, RowOps, WalletOps
    <3> QED BY <2>1, <3>2, <3>4, SchemasTurns
  <2> QED BY <1>2, <2>2, <2>3 DEF Schemas!Recheck
<1>3. CASE Schemas(s, o)!SaveSchema(q)
  <2>1. q.op = "insert" /\ UNCHANGED <<did, credDefs, ledger, lost>>
    BY <1>3 DEF Schemas!SaveSchema
  <2>2. CASE Schemas(s, o)!Fails(q) /\ UNCHANGED schemas
    BY <1>e, <2>1, <2>2, SchemasTurns
  <2>3. CASE schemas' = schemas \cup {q.row} /\ Schemas(s, o)!End(q)
    <3>0. PICK R, w : R = schemas /\ w = q.row
      OBVIOUS
    <3>1. IsSchemaRow(s, o, w) /\ \A r \in R : IsSchemaRow(s, o, r)
      BY <1>0, <2>1, <3>0 DEF IsSchemaRequest, RowOps
    <3>2. NameFree(s, o, R, w.name) /\ w.issuer \notin lost /\ (w.type = "w3c" => W3cFree(s, o, R, w.name, w.org))
      BY <1>0, <2>1, <3>0 DEF SchemaTurn, RowOps
    <3>3. RowsApart(s, o, R)
      BY <1>0, <3>0
    <3>4. RowsApart(s, o, R \cup {w})
      BY <3>1, <3>2, <3>3, InsertApart
    <3>5. schemas' = R \cup {w} /\ pend' = {}
      BY <1>e, <2>3, <3>0
    <3>6. \A r \in LiveOf(schemas') : r.issuer \notin lost'
      BY <1>0, <2>1, <3>0, <3>2, <3>5 DEF LiveOf
    <3>7. SchemasCalm(s, o)'
      BY <1>0, <2>1, <3>4, <3>5, <3>6 DEF SchemasCalm
    <3> QED BY <3>5, <3>7 DEF SchemasInTurn
  <2> QED BY <1>3, <2>2, <2>3 DEF Schemas!SaveSchema
<1>4. CASE Schemas(s, o)!UpdateSchemaLedgerDetails(q)
  <2>1. q.op = "migrate" /\ UNCHANGED <<did, credDefs, ledger, lost>>
    BY <1>4 DEF Schemas!UpdateSchemaLedgerDetails
  <2>2. CASE Schemas(s, o)!Fails(q) /\ UNCHANGED schemas
    BY <1>e, <2>1, <2>2, SchemasTurns
  <2>3. CASE schemas' = Migrated(schemas, q.id, q.issuer) /\ Schemas(s, o)!End(q)
    <3>0. PICK R, i, d : R = schemas /\ i = q.id /\ d = q.issuer
      OBVIOUS
    <3>1. d \in s.did /\ d \notin lost /\ \A r \in R : IsSchemaRow(s, o, r)
      BY <1>0, <2>1, <3>0 DEF IsSchemaRequest, SchemaTurn
    <3>2. schemas' = Migrated(R, i, d) /\ pend' = {}
      BY <1>e, <2>3, <3>0
    <3>3. \A z \in Migrated(R, i, d) : z \in R \/ (z.type = "migrated" /\ z.issuer = d)
      BY <3>1, MigratedRows
    <3>4. RowsApart(s, o, R)
      BY <1>0, <3>0
    <3>5. RowsApart(s, o, Migrated(R, i, d))
      BY <3>3, <3>4, FewerApart
    <3>6. \A r \in LiveOf(schemas') : r.issuer \notin lost'
      BY <1>0, <2>1, <3>0, <3>1, <3>2, <3>3 DEF LiveOf
    <3>7. SchemasCalm(s, o)'
      BY <1>0, <2>1, <3>2, <3>5, <3>6 DEF SchemasCalm
    <3> QED BY <3>2, <3>7 DEF SchemasInTurn
  <2> QED BY <1>4, <2>2, <2>3 DEF Schemas!UpdateSchemaLedgerDetails, Migrated
<1>5. CASE Schemas(s, o)!ArchiveSchemas(q)
  <2>1. q.op = "archive" /\ UNCHANGED <<did, credDefs, ledger, lost>>
    BY <1>5 DEF Schemas!ArchiveSchemas
  <2>2. CASE Schemas(s, o)!Fails(q) /\ UNCHANGED schemas
    BY <1>e, <2>1, <2>2, SchemasTurns
  <2>3. CASE schemas' = Archived(schemas, q.issuer) /\ Schemas(s, o)!Go(q, [q EXCEPT !.op = "remove"])
    <3>0. PICK R, d, z : R = schemas /\ d = q.issuer /\ z = [q EXCEPT !.op = "remove"]
      OBVIOUS
    <3>1. z.op = "remove" /\ z.org = q.org /\ z.issuer = d
      BY <1>0, <2>1, <3>0, WalletRequestGoes DEF WalletOps
    <3>2. schemas' = Archived(R, d) /\ pend' = {z} /\ \A r \in R : IsSchemaRow(s, o, r)
      BY <1>0, <1>g, <2>3, <3>0
    <3>3. \A y \in Archived(R, d) : y.archived = TRUE \/ (y \in R /\ y.issuer # d)
      <4>1. \A r \in R : r \in [id : {r.id}, name : Seq(STRING), type : {"indy", "w3c", "migrated"}, org : s.org,
                              issuer : s.did, archived : BOOLEAN]
        BY <3>2 DEF IsSchemaRow
      <4>2. ASSUME NEW r \in R
            PROVE  [r EXCEPT !.archived = TRUE].archived = TRUE
        BY <4>1
      <4> QED BY <4>2, ArchivedLive
    <3>4. RowsApart(s, o, R)
      BY <1>0, <3>0
    <3>5. RowsApart(s, o, Archived(R, d))
      BY <3>3, <3>4, FewerApart
    <3>6. \A r \in LiveOf(schemas') : r.issuer \notin lost' /\ r.issuer # d
      BY <1>0, <2>1, <3>0, <3>2, <3>3 DEF LiveOf
    <3>7. SchemasCalm(s, o)'
      BY <1>0, <2>1, <3>2, <3>5, <3>6 DEF SchemasCalm
    <3>8. did[z.org] = z.issuer /\ z.issuer # "none"
      BY <1>0, <2>1, <3>0, <3>1 DEF SchemaTurn, WalletOps
    <3>9. SchemaTurn(s, o, z)'
      BY <2>1, <3>1, <3>6, <3>8 DEF SchemaTurn, RowOps, WalletOps
    <3> QED BY <3>2, <3>7, <3>9 DEF SchemasInTurn
  <2> QED BY <1>5, <2>2, <2>3 DEF Schemas!ArchiveSchemas, Archived
<1>6. CASE Schemas(s, o)!RemoveWallet(q)
  <2>1. q.op = "remove" /\ UNCHANGED <<schemas, credDefs, ledger>>
    BY <1>6 DEF Schemas!RemoveWallet
  <2>2. CASE Schemas(s, o)!Fails(q) /\ UNCHANGED <<did, lost>>
    BY <1>e, <2>1, <2>2, SchemasTurns
  <2>3. CASE /\ did' = [did EXCEPT ![q.org] = "none"] /\ lost' = lost \cup ({did[q.org]} \ {"none"})
             /\ Schemas(s, o)!End(q)
    <3>1. /\ q.org \in s.org /\ did[q.org] = q.issuer /\ q.issuer # "none"
          /\ \A x \in LiveOf(schemas) : x.issuer # q.issuer
      BY <1>0, <2>1 DEF IsSchemaRequest, SchemaTurn, WalletOps
    <3>2. lost' = lost \cup {q.issuer} /\ pend' = {} /\ s.home[q.issuer] = q.org
      BY <1>0, <1>e, <2>3, <3>1
    <3>3. \A y \in s.org : did'[y] # "none" => did'[y] \notin lost' /\ s.home[did'[y]] = y
      <4>1. ASSUME NEW y \in s.org, did'[y] # "none"
            PROVE  did'[y] \notin lost' /\ s.home[did'[y]] = y
        <5>1. y # q.org /\ did'[y] = did[y]
          BY <1>0, <2>3, <3>1, <4>1
        <5>2. did[y] \notin lost /\ s.home[did[y]] = y
          BY <1>0, <4>1, <5>1
        <5> QED BY <3>2, <5>1, <5>2
      <4> QED BY <4>1
    <3>4. \A r \in LiveOf(schemas') : r.issuer \notin lost'
      BY <1>0, <2>1, <3>1, <3>2
    <3>5. SchemasCalm(s, o)'
      BY <1>0, <2>1, <3>3, <3>4 DEF SchemasCalm
    <3> QED BY <3>2, <3>5 DEF SchemasInTurn
  <2> QED BY <1>6, <2>2, <2>3 DEF Schemas!RemoveWallet
<1>7. CASE Schemas(s, o)!RegisterDefinition(q)
  <2>1. q.op = "define" /\ UNCHANGED <<did, schemas, credDefs, lost>>
    BY <1>7 DEF Schemas!RegisterDefinition
  <2>2. CASE Schemas(s, o)!Fails(q)
    BY <1>e, <2>1, <2>2, SchemasTurns
  <2>3. CASE Schemas(s, o)!Go(q, [q EXCEPT !.op = "find"])
    <3>0. PICK z : z = [q EXCEPT !.op = "find"]
      OBVIOUS
    <3>1. z.op = "find"
      BY <1>0, <2>1, <3>0, DefRequestGoes DEF DefOps
    <3>2. pend' = {z}
      BY <1>g, <2>3, <3>0
    <3>3. SchemaTurn(s, o, z)
      BY <3>1 DEF SchemaTurn, RowOps, WalletOps
    <3> QED BY <2>1, <3>2, <3>3, SchemasTurns
  <2> QED BY <1>7, <2>2, <2>3 DEF Schemas!RegisterDefinition
<1>8. CASE Schemas(s, o)!FindSchema(q)
  <2>1. q.op = "find" /\ UNCHANGED <<did, schemas, credDefs, ledger, lost, faults>>
    BY <1>8 DEF Schemas!FindSchema
  <2>2. CASE Schemas(s, o)!End(q)
    BY <1>e, <2>1, <2>2, SchemasTurns
  <2>3. CASE /\ ~Schemas(s, o)!GetByAttribute(q.def.schema, q.def.tag)
             /\ Schemas(s, o)!Go(q, [q EXCEPT !.op = "saveDef"])
    <3>0. PICK z : z = [q EXCEPT !.op = "saveDef"]
      OBVIOUS
    <3>1. z.op = "saveDef" /\ z.def = q.def
      BY <1>0, <2>1, <3>0, DefRequestGoes DEF DefOps
    <3>2. pend' = {z}
      BY <1>g, <2>3, <3>0
    <3>3. TagFree(s, o, credDefs, z.def.schema, z.def.tag)
      BY <2>3, <3>1, SchemaNames
    <3>4. SchemaTurn(s, o, z)
      BY <3>1, <3>3 DEF SchemaTurn, RowOps, WalletOps
    <3> QED BY <2>1, <3>2, <3>4, SchemasTurns
  <2> QED BY <1>8, <2>2, <2>3 DEF Schemas!FindSchema
<1>9. CASE Schemas(s, o)!SaveCredentialDefinition(q)
  <2>1. /\ q.op = "saveDef" /\ credDefs' = credDefs \cup {q.def} /\ pend' = {} /\ UNCHANGED <<did, schemas, ledger, lost>>
    BY <1>9, <1>e DEF Schemas!SaveCredentialDefinition
  <2>2. PICK C, w : C = credDefs /\ w = q.def
    OBVIOUS
  <2>3. w.tag \in Seq(STRING) /\ \A c \in C : c.tag \in Seq(STRING)
    BY <1>0, <2>1, <2>2 DEF IsSchemaRequest, DefOps
  <2>4. TagFree(s, o, C, w.schema, w.tag) /\ DefsApart(s, o, C)
    BY <1>0, <2>1, <2>2 DEF SchemaTurn
  <2>5. DefsApart(s, o, C \cup {w})
    BY <2>3, <2>4, DefineApart
  <2>6. SchemasCalm(s, o)'
    BY <1>0, <2>1, <2>2, <2>5 DEF SchemasCalm
  <2> QED BY <2>1, <2>6 DEF SchemasInTurn
<1> QED BY <1>1, <1>2, <1>3, <1>4, <1>5, <1>6, <1>7, <1>8, <1>9 DEF Schemas!Steps

LEMMA SchemasInTurnKept ==
  ASSUME NEW s, NEW o \in BOOLEAN, ~o, Schemas(s, o)!LedgerAssumption, SchemasIInv(s, o), SchemasInTurn(s, o),
         Schemas(s, o)!Next
  PROVE  SchemasInTurn(s, o)'
<1>1. CASE \E q \in pend : Schemas(s, o)!Steps(q)
  BY <1>1, SchemasSteppedInTurn
<1>2. ASSUME NEW x \in s.org,
             \/ Schemas(s, o)!DeleteWallet(x)
             \/ \E n \in s.name : Schemas(s, o)!CreateW3CSchema(x, n) \/ \E d \in s.did : Schemas(s, o)!CreateSchema(x, d, n)
             \/ \E r \in schemas : Schemas(s, o)!MigrateW3CSchema(x, r)
             \/ \E d \in s.did : Schemas(s, o)!CreateWallet(x, d)
             \/ \E d \in s.did, id \in ledger, tag \in s.tag :
                  id[1] = "indy" /\ Schemas(s, o)!CreateCredentialDefinition(x, d, id, tag)
      PROVE  SchemasInTurn(s, o)'
  BY <1>2, SchemasRequestedInTurn
<1> QED BY <1>1, <1>2 DEF Schemas!Next

-----------------------------------------------------------------------------
(* The parts together.                                                     *)

ExchangeIInv ==
  /\ part = "records" => RecsIInv(Setting.records)
  /\ part = "recordsInTurn" => RecsIInv(Setting.recordsInTurn) /\ RecsInTurn(Setting.recordsInTurn)
  /\ part = "recordsOrdered" =>
       RecsIInv(Setting.recordsOrdered) /\ RecsInTurn(Setting.recordsOrdered) /\ RecsOrdered(Setting.recordsOrdered)
  /\ part = "redirects" => RedirectsIInv
  /\ part = "emails" => MailsIInv
  /\ part = "schemas" => SchemasIInv(Setting.schemas, TRUE)
  /\ part = "schemasInTurn" => SchemasIInv(Setting.schemasInTurn, FALSE) /\ SchemasInTurn(Setting.schemasInTurn, FALSE)

LEMMA ExchangesBegin == Init => ExchangeIInv
<1> SUFFICES ASSUME Init
             PROVE  ExchangeIInv
  OBVIOUS
<1>1. /\ part = "records" => Records(Setting.records, TRUE, FALSE)!Init
      /\ part = "recordsInTurn" => Records(Setting.recordsInTurn, FALSE, FALSE)!Init
      /\ part = "recordsOrdered" => Records(Setting.recordsOrdered, FALSE, TRUE)!Init
      /\ part = "redirects" => Redirects!Init
      /\ part = "emails" => Emails!Init
      /\ part = "schemas" => Schemas(Setting.schemas, TRUE)!Init
      /\ part = "schemasInTurn" => Schemas(Setting.schemasInTurn, FALSE)!Init
  BY DEF Init
<1>2. part = "records" => RecsIInv(Setting.records)
  BY <1>1, ExchangesAssumption, RecsBegin
<1>3. part = "recordsInTurn" => RecsIInv(Setting.recordsInTurn) /\ RecsInTurn(Setting.recordsInTurn)
  BY <1>1, ExchangesAssumption, RecsBegin, RecsInTurnBegin
<1>4. part = "recordsOrdered" =>
        RecsIInv(Setting.recordsOrdered) /\ RecsInTurn(Setting.recordsOrdered) /\ RecsOrdered(Setting.recordsOrdered)
  BY <1>1, ExchangesAssumption, RecsBegin, RecsInTurnBegin, RecsOrderedBegin
<1>5. part = "redirects" => RedirectsIInv
  BY <1>1, ExchangesAssumption, RedirectsBegin
<1>6. part = "emails" => MailsIInv
  BY <1>1, ExchangesAssumption, MailsBegin
<1>7. part = "schemas" => SchemasIInv(Setting.schemas, TRUE)
  BY <1>1, ExchangesAssumption, SchemasBegin
<1>8. part = "schemasInTurn" => SchemasIInv(Setting.schemasInTurn, FALSE) /\ SchemasInTurn(Setting.schemasInTurn, FALSE)
  BY <1>1, ExchangesAssumption, SchemasBegin, SchemasInTurnBegin
<1> QED BY <1>2, <1>3, <1>4, <1>5, <1>6, <1>7, <1>8 DEF ExchangeIInv

LEMMA ExchangesMove ==
  ASSUME ExchangeIInv, Next
  PROVE  ExchangeIInv'
<1>1. /\ part = "records" => Records(Setting.records, TRUE, FALSE)!Next
      /\ part = "recordsInTurn" => Records(Setting.recordsInTurn, FALSE, FALSE)!Next
      /\ part = "recordsOrdered" => Records(Setting.recordsOrdered, FALSE, TRUE)!NothingDeleted
      /\ part = "redirects" => Redirects!Redirects
      /\ part = "emails" => Emails!Emails
      /\ part = "schemas" => Schemas(Setting.schemas, TRUE)!Next
      /\ part = "schemasInTurn" => Schemas(Setting.schemasInTurn, FALSE)!Next
  BY DEF Next
<1>p. part' = part
  BY DEF Next
<1>2. part = "records" => RecsIInv(Setting.records)'
  BY <1>1, ExchangesAssumption, RecsKept DEF ExchangeIInv
<1>3. part = "recordsInTurn" => RecsIInv(Setting.recordsInTurn)' /\ RecsInTurn(Setting.recordsInTurn)'
  BY <1>1, ExchangesAssumption, RecsKept, RecsInTurnKept DEF ExchangeIInv
<1>4. part = "recordsOrdered" => RecsIInv(Setting.recordsOrdered)' /\ RecsInTurn(Setting.recordsOrdered)'
                                 /\ RecsOrdered(Setting.recordsOrdered)'
  <2>0. part = "recordsOrdered" =>
          /\ \/ Records(Setting.recordsOrdered, FALSE, TRUE)!Exchanges
             \/ Records(Setting.recordsOrdered, FALSE, TRUE)!Webhooks
          /\ UNCHANGED <<dedicated, unlabelled>>
    BY <1>1 DEF Records!NothingDeleted, Records!fixed
  <2>1. CASE part = "recordsOrdered" /\ Records(Setting.recordsOrdered, FALSE, TRUE)!Exchanges
    BY <2>0, <2>1, ExchangesAssumption, RecExchangesKept, RecExchangesInTurn, RecsOrderedKept DEF ExchangeIInv
  <2>2. CASE part = "recordsOrdered" /\ Records(Setting.recordsOrdered, FALSE, TRUE)!Webhooks
    BY <2>0, <2>2, ExchangesAssumption, RecWebhooksKept, RecWebhooksInTurn, RecsOrderedKept DEF ExchangeIInv
  <2> QED BY <2>0, <2>1, <2>2
<1>5. part = "redirects" => RedirectsIInv'
  BY <1>1, ExchangesAssumption, RedirectsKept DEF ExchangeIInv
<1>6. part = "emails" => MailsIInv'
  BY <1>1, ExchangesAssumption, MailsKept DEF ExchangeIInv
<1>7. part = "schemas" => SchemasIInv(Setting.schemas, TRUE)'
  BY <1>1, ExchangesAssumption, SchemasKept DEF ExchangeIInv
<1>8. part = "schemasInTurn" => SchemasIInv(Setting.schemasInTurn, FALSE)' /\ SchemasInTurn(Setting.schemasInTurn, FALSE)'
  BY <1>1, ExchangesAssumption, SchemasKept, SchemasInTurnKept DEF ExchangeIInv
<1> QED BY <1>p, <1>2, <1>3, <1>4, <1>5, <1>6, <1>7, <1>8 DEF ExchangeIInv

LEMMA ExchangesRest ==
  ASSUME ExchangeIInv, UNCHANGED vars
  PROVE  ExchangeIInv'
<1>p. UNCHANGED <<part, recordVars, proofVars, ledgerVars, pend, started, faults>>
  BY DEF vars
<1>1. \A s : RecsIInv(s) => RecsIInv(s)'
  BY <1>p DEF recordVars, RecsIInv
<1>2. \A s : RecsInTurn(s) => RecsInTurn(s)'
  BY <1>p DEF recordVars, RecsInTurn
<1>3. \A s : RecsOrdered(s) => RecsOrdered(s)'
  BY <1>p DEF recordVars, RecsOrdered, RecsPosts, RecsHandled, RecsFollow, RecsRecorded, RecLabelled
<1>4. RedirectsIInv => RedirectsIInv'
  BY <1>p DEF proofVars, RedirectsIInv
<1>5. MailsIInv => MailsIInv'
  BY <1>p DEF proofVars, MailsIInv
<1>6. \A s, o : SchemasIInv(s, o) => SchemasIInv(s, o)'
  BY <1>p DEF ledgerVars, SchemasIInv
<1>7. \A s, o : SchemasInTurn(s, o) => SchemasInTurn(s, o)'
  BY <1>p DEF ledgerVars, SchemasInTurn, SchemasCalm, SchemaTurn
<1> QED BY <1>p, <1>1, <1>2, <1>3, <1>4, <1>5, <1>6, <1>7 DEF ExchangeIInv

(* ExchangeInv, for every set of connections, exchanges, label lengths,    *)
(* paths, addresses, organizations, DIDs, names and tags and every number  *)
(* of requests and faults: whatever overlaps and is lost, a record finds   *)
(* its connection, a proof session returns only below a registered URI,    *)
(* and what the ledger service lists is registered; one request at a time, *)
(* connections go last, a tenant without a wallet has no records, a        *)
(* third of a label is masked, an e-mail carries its addressee's request,  *)
(* addresses are saved when all were sent, live names are distinct and no  *)
(* live schema is of a deleted wallet's DID; and posts in order leave      *)
(* every record in the state of its exchange, unless its connection has no *)
(* label.                                                                  *)
THEOREM ExchangesStaySafe == Spec => []ExchangeInv
<1>1. Init => ExchangeIInv
  BY ExchangesBegin
<1>2. ExchangeIInv /\ [Next]_vars => ExchangeIInv'
  BY ExchangesMove, ExchangesRest
<1>3. ExchangeIInv => ExchangeInv
  <2> SUFFICES ASSUME ExchangeIInv
               PROVE  ExchangeInv
    OBVIOUS
  <2>1. part = "records" => Records(Setting.records, TRUE, FALSE)!TypeOK
    BY ExchangesAssumption, RecsSafe DEF ExchangeIInv
  <2>2. part = "recordsInTurn" =>
          /\ Records(Setting.recordsInTurn, FALSE, FALSE)!TypeOK
          /\ Records(Setting.recordsInTurn, FALSE, FALSE)!LabelMasked
          /\ Records(Setting.recordsInTurn, FALSE, FALSE)!ConnectionsGoLast
          /\ Records(Setting.recordsInTurn, FALSE, FALSE)!NoRecordsWithoutWallet
    BY ExchangesAssumption, RecsSafe, RecsInTurnSafe DEF ExchangeIInv
  <2>3. part = "recordsOrdered" =>
          /\ Records(Setting.recordsOrdered, FALSE, TRUE)!TypeOK
          /\ Records(Setting.recordsOrdered, FALSE, TRUE)!RecordsFollowAgent
    BY ExchangesAssumption, RecsSafe, RecsOrderedSafe DEF ExchangeIInv
  <2>4. part = "redirects" => Redirects!TypeOK /\ Redirects!RedirectsRegistered
    BY ExchangesAssumption, RedirectsSafe DEF ExchangeIInv
  <2>5. part = "emails" => Emails!TypeOK /\ Emails!MailsReachAddresseeAlone /\ Emails!SavedWereSent
    BY MailsSafe DEF ExchangeIInv
  <2>6. part = "schemas" => Schemas(Setting.schemas, TRUE)!TypeOK /\ Schemas(Setting.schemas, TRUE)!RowsRegistered
    BY SchemasSafe DEF ExchangeIInv
  <2>7. part = "schemasInTurn" =>
          /\ Schemas(Setting.schemasInTurn, FALSE)!TypeOK
          /\ Schemas(Setting.schemasInTurn, FALSE)!NamesDistinct
          /\ Schemas(Setting.schemasInTurn, FALSE)!LostDidArchived
    BY SchemasSafe, SchemasInTurnSafe DEF ExchangeIInv
  <2> QED BY <2>1, <2>2, <2>3, <2>4, <2>5, <2>6, <2>7 DEF ExchangeInv
<1> QED BY <1>1, <1>2, <1>3, PTL DEF Spec

(* SchemaIdKept, for every set of connections and exchanges: no post that  *)
(* comes late, twice or out of order and no handler that overlaps it takes *)
(* a recorded schema id away (saveIssuedCredentialDetails,                 *)
(* updateSchemaIdByThreadId).                                              *)
THEOREM SchemaIdStaysKept == Spec => SchemaIdKept
<1> DEFINE Kept == /\ part = "records" => Records(Setting.records, TRUE, FALSE)!SchemaIdKept
                   /\ part = "recordsInTurn" => Records(Setting.recordsInTurn, FALSE, FALSE)!SchemaIdKept
<1>1. Init => ExchangeIInv
  BY ExchangesBegin
<1>2. ExchangeIInv /\ [Next]_vars => ExchangeIInv'
  BY ExchangesMove, ExchangesRest
<1>3. ExchangeIInv /\ [Next]_vars => [Kept]_vars
  <2> SUFFICES ASSUME ExchangeIInv, Next
               PROVE  Kept
    OBVIOUS
  <2>1. /\ part = "records" => Records(Setting.records, TRUE, FALSE)!Next
        /\ part = "recordsInTurn" => Records(Setting.recordsInTurn, FALSE, FALSE)!Next
    BY DEF Next
  <2>2. part = "records" => Records(Setting.records, TRUE, FALSE)!SchemaIdKept
    BY <2>1, ExchangesAssumption, RecsSchemaKept DEF ExchangeIInv
  <2>3. part = "recordsInTurn" => Records(Setting.recordsInTurn, FALSE, FALSE)!SchemaIdKept
    BY <2>1, ExchangesAssumption, RecsSchemaKept DEF ExchangeIInv
  <2> QED BY <2>2, <2>3
<1> QED BY <1>1, <1>2, <1>3, PTL DEF Spec, SchemaIdKept

-----------------------------------------------------------------------------
(* cloud-wallet: the slots of an endpoint, counted as a set.               *)

CloudBase(s) == [ep : s.endpoint, active : BOOLEAN, use : Nat, max : s.cap, top : s.cap]
(* The base rows of endpoint e among B, their slots, the rows S of sub     *)
(* wallets there, and the requests P that have a slot there to fill or to  *)
(* give back.                                                              *)
BaseAt(B, e) == {b \in DOMAIN B : B[b].ep = e}
SlotsAt(B, e) == UNION {{b} \X (1..B[b].use) : b \in BaseAt(B, e)}
SubsAt(s, S, e) == {u \in s.user : S[u].id # 0 /\ S[u].ep = e}
HoldOps == {"tenant", "store", "release", "decrement"}
HoldsAt(P, e) == {r \in P : r.op \in HoldOps /\ r.ep = e}
Wallets(s) == [id : 1..s.requests, ep : s.endpoint]
SubRows(s) == [s.user -> Wallets(s) \cup {[id |-> 0]}]

LEMMA SlotMember ==
  ASSUME NEW B, NEW e, NEW p
  PROVE  p \in SlotsAt(B, e) <=> \E b \in BaseAt(B, e) : \E k \in 1..B[b].use : p = <<b, k>>
BY DEF SlotsAt

(* Rows that agree on endpoint and counter have the same slots.            *)
LEMMA SlotsEqual ==
  ASSUME NEW B, NEW C, NEW e, BaseAt(C, e) = BaseAt(B, e), \A b \in BaseAt(B, e) : C[b].use = B[b].use
  PROVE  SlotsAt(C, e) = SlotsAt(B, e)
BY DEF SlotsAt

(* The counter of row b goes up, or down.                                  *)
LEMMA SlotsRise ==
  ASSUME NEW B, NEW C, NEW b \in DOMAIN B, B[b].use \in Nat, DOMAIN C = DOMAIN B, C[b].ep = B[b].ep, C[b].use = B[b].use + 1,
         \A a \in DOMAIN B : a # b => C[a] = B[a], NEW e
  PROVE  /\ BaseAt(C, e) = BaseAt(B, e)
         /\ B[b].ep # e => SlotsAt(C, e) = SlotsAt(B, e)
         /\ B[b].ep = e => /\ SlotsAt(C, e) = SlotsAt(B, e) \cup {<<b, B[b].use + 1>>}
                           /\ <<b, B[b].use + 1>> \notin SlotsAt(B, e)
<1>1. BaseAt(C, e) = BaseAt(B, e)
  BY DEF BaseAt
<1>2. ASSUME B[b].ep # e
      PROVE  SlotsAt(C, e) = SlotsAt(B, e)
  <2>1. \A a \in BaseAt(B, e) : C[a].use = B[a].use
    BY <1>2 DEF BaseAt
  <2> QED BY <1>1, <2>1, SlotsEqual
<1>3. ASSUME B[b].ep = e
      PROVE  /\ SlotsAt(C, e) = SlotsAt(B, e) \cup {<<b, B[b].use + 1>>}
             /\ <<b, B[b].use + 1>> \notin SlotsAt(B, e)
  <2> DEFINE k == B[b].use
  <2>0. k \in Nat /\ b \in BaseAt(B, e)
    BY <1>3 DEF BaseAt
  <2>1. 1..k + 1 = (1..k) \cup {k + 1} /\ k + 1 \notin 1..k
    <3> HIDE DEF k
    <3> QED BY <2>0
  <2>2. <<b, k + 1>> \notin SlotsAt(B, e)
    <3>1. ASSUME NEW a \in BaseAt(B, e), NEW j \in 1..B[a].use, <<b, k + 1>> = <<a, j>>
          PROVE  FALSE
      <4>1. a = b /\ j = k + 1
        BY <3>1
      <4>2. j \in 1..k
        BY <3>1, <4>1
      <4> QED BY <2>1, <4>1, <4>2
    <3> QED BY <3>1, SlotMember
  <2>3. ASSUME NEW p
        PROVE  p \in SlotsAt(C, e) <=> p \in SlotsAt(B, e) \/ p = <<b, k + 1>>
    <3>1. ASSUME NEW a \in BaseAt(B, e), NEW j \in 1..C[a].use, p = <<a, j>>
          PROVE  p \in SlotsAt(B, e) \/ p = <<b, k + 1>>
      <4>1. CASE a = b
        <5>1. j \in 1..k \/ j = k + 1
          BY <2>1, <3>1, <4>1
        <5> QED BY <3>1, <4>1, <5>1, SlotMember
      <4>2. CASE a # b
        <5>1. C[a].use = B[a].use
          BY <4>2 DEF BaseAt
        <5> QED BY <3>1, <5>1, SlotMember
      <4> QED BY <4>1, <4>2
    <3>2. ASSUME NEW a \in BaseAt(B, e), NEW j \in 1..B[a].use, p = <<a, j>>
          PROVE  p \in SlotsAt(C, e)
      <4>1. j \in 1..C[a].use
        <5>1. CASE a = b
          BY <2>1, <3>2, <5>1
        <5>2. CASE a # b
          BY <3>2, <5>2 DEF BaseAt
        <5> QED BY <5>1, <5>2
      <4> QED BY <1>1, <3>2, <4>1, SlotMember
    <3>3. <<b, k + 1>> \in SlotsAt(C, e)
      <4>1. k + 1 \in 1..C[b].use
        BY <2>1
      <4> QED BY <1>1, <2>0, <4>1, SlotMember
    <3> QED BY <1>1, <3>1, <3>2, <3>3, SlotMember
  <2> QED BY <2>2, <2>3
<1> QED BY <1>1, <1>2, <1>3

LEMMA SlotsFall ==
  ASSUME NEW B, NEW C, NEW b \in DOMAIN B, C[b].use \in Nat, DOMAIN C = DOMAIN B, C[b].ep = B[b].ep, B[b].use = C[b].use + 1,
         \A a \in DOMAIN B : a # b => C[a] = B[a], NEW e
  PROVE  /\ BaseAt(C, e) = BaseAt(B, e)
         /\ B[b].ep # e => SlotsAt(C, e) = SlotsAt(B, e)
         /\ B[b].ep = e => /\ SlotsAt(B, e) = SlotsAt(C, e) \cup {<<b, B[b].use>>}
                           /\ <<b, B[b].use>> \notin SlotsAt(C, e)
<1>1. b \in DOMAIN C /\ DOMAIN B = DOMAIN C /\ \A a \in DOMAIN C : a # b => B[a] = C[a]
  OBVIOUS
<1>2. /\ BaseAt(B, e) = BaseAt(C, e)
      /\ C[b].ep # e => SlotsAt(B, e) = SlotsAt(C, e)
      /\ C[b].ep = e => /\ SlotsAt(B, e) = SlotsAt(C, e) \cup {<<b, C[b].use + 1>>}
                        /\ <<b, C[b].use + 1>> \notin SlotsAt(C, e)
  BY <1>1, SlotsRise
<1> QED BY <1>2

-----------------------------------------------------------------------------
(* Every sub wallet and every request with a slot has a slot of its        *)
(* endpoint; none is left over at an endpoint with one row, as long as     *)
(* nothing failed.                                                         *)
Covered(s, B, S, P, e) ==
  /\ IsFiniteSet(SlotsAt(B, e))
  /\ Cardinality(SubsAt(s, S, e)) + Cardinality(HoldsAt(P, e)) <= Cardinality(SlotsAt(B, e))
Exact(s, B, S, P, e) ==
  (\A a, b \in BaseAt(B, e) : a = b) =>
    Cardinality(SubsAt(s, S, e)) + Cardinality(HoldsAt(P, e)) = Cardinality(SlotsAt(B, e))

LEMMA CountsFinite ==
  ASSUME NEW s, IsFiniteSet(s.user), NEW S, NEW P, IsFiniteSet(P), NEW e
  PROVE  /\ IsFiniteSet(SubsAt(s, S, e)) /\ Cardinality(SubsAt(s, S, e)) \in Nat
         /\ IsFiniteSet(HoldsAt(P, e)) /\ Cardinality(HoldsAt(P, e)) \in Nat
<1>1. SubsAt(s, S, e) \subseteq s.user /\ HoldsAt(P, e) \subseteq P
  BY DEF SubsAt, HoldsAt
<1>2. IsFiniteSet(SubsAt(s, S, e)) /\ IsFiniteSet(HoldsAt(P, e))
  BY <1>1, FS_Subset
<1> QED BY <1>2, FS_CardinalityType

(* One element more or less.                                               *)
LEMMA OneMore ==
  ASSUME NEW X, IsFiniteSet(X), NEW x, x \notin X
  PROVE  IsFiniteSet(X \cup {x}) /\ Cardinality(X \cup {x}) = Cardinality(X) + 1 /\ Cardinality(X) \in Nat
BY FS_AddElement, FS_CardinalityType

LEMMA OneLess ==
  ASSUME NEW X, IsFiniteSet(X), NEW x \in X
  PROVE  IsFiniteSet(X \ {x}) /\ Cardinality(X) = Cardinality(X \ {x}) + 1 /\ Cardinality(X \ {x}) \in Nat
<1>1. IsFiniteSet(X \ {x}) /\ x \notin X \ {x} /\ X = (X \ {x}) \cup {x}
  BY FS_Subset
<1> QED BY <1>1, OneMore

-----------------------------------------------------------------------------
(* The requests of cloud-wallet, by the fields they carry.                 *)
AdminOps == {"register", "storeBase"}
BeginOps == {"exist", "avail"}
ClaimOps == {"claim", "tenant", "store", "release"}
DropOps == {"dropTenant", "dropRow"}
BaseOps == ClaimOps \cup DropOps \cup {"decrement"}
CloudRequest(s, r) ==
  /\ r.op \in AdminOps \cup BeginOps \cup BaseOps \cup {"find", "deleteUser", "call"}
  /\ r.op \in AdminOps => r \in [op : {r.op}, n : {r.n}, ep : s.endpoint, max : s.cap]
  /\ r.op \in BeginOps => r \in [op : {r.op}, n : {r.n}, user : s.user]
  /\ r.op \in ClaimOps => r \in [op : {r.op}, user : s.user, n : {r.n}, b : {r.b}, ep : s.endpoint, max : s.cap]
  /\ r.op = "find" => r \in [op : {r.op}, n : {r.n}, user : s.user, holder : {r.holder}]
  /\ r.op \in DropOps \cup {"decrement"} =>
       r \in [op : {r.op}, user : s.user, n : {r.n}, holder : {r.holder}, id : {r.id}, ep : s.endpoint, b : {r.b}]
  /\ r.op = "deleteUser" => r \in [op : {r.op}, user : s.user, n : {r.n}]

(* The requests P after n were made: each has a number of its own, which   *)
(* no wallet has that is being deleted.                                    *)
CloudAsked(s, n, P) ==
  /\ IsFiniteSet(P)
  /\ \A r \in P : CloudRequest(s, r) /\ r.n \in 1..n /\ (r.op \in DropOps => r.id \in 1..n)
  /\ \A q, r \in P : (q.n = r.n => q = r) /\ (r.op \in DropOps => r.id # q.n)

(* What a request knows of the rows B and S and of the tenants T.          *)
CloudFits(s, B, S, T, r) ==
  /\ r.op \in BaseOps => r.b \in BaseAt(B, r.ep)
  /\ r.op = "claim" => r.max <= B[r.b].top
  /\ r.op \in DropOps => \A u \in s.user : S[u].id = r.id => S[u].ep = r.ep
  /\ r.op = "dropRow" => \A t \in T : t.id # r.id
  /\ \A t \in T : t.id = r.n => r.op \in {"store", "release"}
  /\ \A u \in s.user : S[u].id # r.n

(* The rows S of sub wallets of the users U: each has a number of its own  *)
(* and a base wallet at its endpoint.                                      *)
CloudSubs(s, U, B, S, n) ==
  /\ S \in SubRows(s)
  /\ \A u \in s.user : S[u].id <= n /\ (S[u].id # 0 => u \in U /\ BaseAt(B, S[u].ep) # {})
  /\ \A u, v \in s.user : S[u].id = S[v].id /\ S[u].id # 0 => u = v
(* No row of B is used beyond the highest capacity it had.                 *)
CloudBases(s, B) == B \in Seq(CloudBase(s)) /\ \A b \in DOMAIN B : B[b].use <= B[b].top /\ B[b].max <= B[b].top
(* The tenant t belongs to a row, or to a creation that is about to write  *)
(* it, or is left over from one that failed.                               *)
Accounted(s, S, O, P, t) == \/ \E u \in s.user : S[u].id = t.id
                            \/ \E r \in P : r.op = "store" /\ r.n = t.id
                            \/ t.id \in O
CloudTenants(s, S, T, O, P, n) ==
  /\ T \subseteq Wallets(s) /\ \A t \in T : t.id <= n
  /\ \A t \in T : Accounted(s, S, O, P, t)
CloudCounts(s, U, B, S, P, f) ==
  /\ \A e \in s.endpoint : Covered(s, B, S, P, e)
  /\ f = 0 /\ U = s.user => \A e \in s.endpoint : Exact(s, B, S, P, e)

CloudIInv(s) ==
  /\ users \subseteq s.user /\ started \in 0..s.requests /\ faults \in 0..s.faults
  /\ CloudBases(s, base) /\ CloudSubs(s, users, base, sub, started)
  /\ CloudTenants(s, sub, tenants, orphans, pend, started)
  /\ CloudAsked(s, started, pend) /\ \A r \in pend : CloudFits(s, base, sub, tenants, r)
  /\ CloudCounts(s, users, base, sub, pend, faults)

-----------------------------------------------------------------------------
LEMMA CloudFinite == \A s, o, S : /\ Cloud(s, o)!Cardinality(S) = Cardinality(S)
                                  /\ Cloud(s, o)!IsFiniteSet(S) <=> IsFiniteSet(S)
BY DEF Cloud!Cardinality, Cardinality, Cloud!IsFiniteSet, IsFiniteSet

LEMMA CloudUnfolded ==
  ASSUME NEW s, NEW o, Cloud(s, o)!CloudWalletAssumption
  PROVE  /\ IsFiniteSet(s.user) /\ s.cap \subseteq Nat /\ s.requests \in Nat /\ s.faults \in Nat
         /\ \A e : Cloud(s, o)!At(e) = BaseAt(base, e)
         /\ \A u : Cloud(s, o)!Has(u) <=> sub[u] # [id |-> 0]
BY CloudFinite DEF Cloud!CloudWalletAssumption, Cloud!At, BaseAt, Cloud!Has, Cloud!None

(* The newest row of an endpoint.                                          *)
LEMMA CloudNewest ==
  ASSUME NEW s, NEW o, Cloud(s, o)!CloudWalletAssumption, CloudIInv(s), NEW e
  PROVE  LET b == Cloud(s, o)!GetBaseWalletByAgentEndpoint(e)
         IN  (b # 0 => b \in BaseAt(base, e)) /\ (BaseAt(base, e) # {} => b # 0)
<1> DEFINE C == {0} \cup BaseAt(base, e)
           b == Cloud(s, o)!GetBaseWalletByAgentEndpoint(e)
<1>1. base \in Seq(CloudBase(s)) /\ DOMAIN base = 1..Len(base) /\ Len(base) \in Nat
  BY DEF CloudIInv, CloudBases
<1>2. C \in SUBSET (0..Len(base)) /\ C # {} /\ 0 \notin BaseAt(base, e)
  BY <1>1 DEF BaseAt
<1>3. PICK i \in C : \A j \in C : j <= i
  BY <1>1, <1>2, GreatestExists
<1>4. b = CHOOSE x \in C : \A y \in C : x >= y
  BY CloudUnfolded DEF Cloud!GetBaseWalletByAgentEndpoint, Cloud!Max
<1>5. \A y \in C : i >= y
  BY <1>1, <1>2, <1>3
<1>6. b \in C /\ \A y \in C : b >= y
  BY <1>3, <1>4, <1>5
<1>7. ASSUME NEW y \in BaseAt(base, e)
      PROVE  b # 0
  BY <1>1, <1>6 DEF BaseAt
<1> QED BY <1>6, <1>7

(* A request begins, moves on or ends.                                     *)
LEMMA CloudAskedBegins ==
  ASSUME NEW s, NEW n \in Nat, NEW P, CloudAsked(s, n, P), NEW z, CloudRequest(s, z), z.n = n + 1, z.op \notin DropOps
  PROVE  CloudAsked(s, n + 1, P \cup {z})
<1> DEFINE Q == P \cup {z}
<1>1. IsFiniteSet(Q)
  BY FS_AddElement DEF CloudAsked
<1>2. \A r \in Q : CloudRequest(s, r) /\ r.n \in 1..n + 1 /\ (r.op \in DropOps => r.id \in 1..n + 1)
  BY DEF CloudAsked
<1>3. \A q, r \in Q : (q.n = r.n => q = r) /\ (r.op \in DropOps => r.id # q.n)
  BY DEF CloudAsked
<1> QED BY <1>1, <1>2, <1>3 DEF CloudAsked

LEMMA CloudAskedTurns ==
  ASSUME NEW s, NEW n \in Nat, NEW P, CloudAsked(s, n, P), NEW r \in P, NEW z, CloudRequest(s, z), z.n = r.n,
         z.op \in DropOps => z.id \in 1..n /\ \A q \in P : z.id # q.n
  PROVE  CloudAsked(s, n, (P \ {r}) \cup {z}) /\ z \notin P \ {r}
<1> DEFINE Q == (P \ {r}) \cup {z}
<1>1. IsFiniteSet(Q)
  <2>1. IsFiniteSet(P \ {r})
    BY FS_RemoveElement DEF CloudAsked
  <2> QED BY <2>1, FS_AddElement
<1>2. \A q \in Q : CloudRequest(s, q) /\ q.n \in 1..n /\ (q.op \in DropOps => q.id \in 1..n)
  BY DEF CloudAsked
<1>3. \A p, q \in Q : (p.n = q.n => p = q) /\ (q.op \in DropOps => q.id # p.n)
  BY DEF CloudAsked
<1>4. z \notin P \ {r}
  BY DEF CloudAsked
<1> QED BY <1>1, <1>2, <1>3, <1>4 DEF CloudAsked

LEMMA CloudAskedEnds ==
  ASSUME NEW s, NEW n, NEW P, CloudAsked(s, n, P), NEW r
  PROVE  CloudAsked(s, n, P \ {r})
<1>1. IsFiniteSet(P \ {r})
  BY FS_Subset DEF CloudAsked
<1> QED BY <1>1 DEF CloudAsked

(* A request that takes its next step.                                     *)
LEMMA CloudGoes ==
  ASSUME NEW s, NEW r, CloudRequest(s, r), NEW k,
         \/ r.op \in AdminOps /\ k \in AdminOps
         \/ r.op \in BeginOps /\ k \in BeginOps
  PROVE  LET z == [r EXCEPT !.op = k] IN CloudRequest(s, z) /\ z.op = k /\ z.n = r.n
BY DEF CloudRequest, AdminOps, BeginOps, ClaimOps, DropOps, BaseOps

LEMMA CloudClaimGoes ==
  ASSUME NEW s, NEW r, CloudRequest(s, r), NEW k, r.op \in ClaimOps, k \in ClaimOps
  PROVE  LET z == [r EXCEPT !.op = k]
         IN  /\ CloudRequest(s, z) /\ z.op = k /\ z.n = r.n /\ z.b = r.b /\ z.ep = r.ep /\ z.user = r.user
             /\ z.ep \in s.endpoint /\ z.user \in s.user
BY DEF CloudRequest, AdminOps, BeginOps, ClaimOps, DropOps, BaseOps

LEMMA CloudDropGoes ==
  ASSUME NEW s, NEW r, CloudRequest(s, r), NEW k, r.op \in DropOps, k \in DropOps \cup {"decrement"}
  PROVE  LET z == [r EXCEPT !.op = k]
         IN  /\ CloudRequest(s, z) /\ z.op = k /\ z.n = r.n /\ z.b = r.b /\ z.ep = r.ep /\ z.id = r.id
             /\ z.ep \in s.endpoint
BY DEF CloudRequest, AdminOps, BeginOps, ClaimOps, DropOps, BaseOps

(* The parts that a step leaves alone but for the requests.                *)
LEMMA CloudTenantsRest ==
  ASSUME NEW s, NEW S, NEW T, NEW O, NEW P, NEW n \in Nat, NEW Q, NEW m \in Nat, s.requests \in Nat,
         CloudTenants(s, S, T, O, P, n), n <= m, \A r \in P : r.op = "store" => r \in Q
  PROVE  CloudTenants(s, S, T, O, Q, m)
<1>1. \A t \in T : t.id \in Nat /\ t.id <= m
  BY DEF CloudTenants, Wallets
<1>2. \A t \in T : Accounted(s, S, O, Q, t)
  BY DEF CloudTenants, Accounted
<1> QED BY <1>1, <1>2 DEF CloudTenants

LEMMA CloudSubsRest ==
  ASSUME NEW s, NEW U, NEW B, NEW S, NEW n \in Nat, NEW m \in Nat, s.requests \in Nat, CloudSubs(s, U, B, S, n), n <= m
  PROVE  CloudSubs(s, U, B, S, m)
<1>1. \A u \in s.user : S[u].id \in Nat
  BY DEF CloudSubs, SubRows, Wallets
<1> QED BY <1>1 DEF CloudSubs

LEMMA CloudCountsRest ==
  ASSUME NEW s, NEW U, NEW B, NEW S, NEW P, NEW f, NEW Q, NEW g, CloudCounts(s, U, B, S, P, f), g = 0 => f = 0,
         \A e : HoldsAt(Q, e) = HoldsAt(P, e)
  PROVE  CloudCounts(s, U, B, S, Q, g)
BY DEF CloudCounts, Covered, Exact

(* A request that begins, ends or moves on and changes nothing else.       *)
LEMMA CloudBegins ==
  ASSUME NEW s, NEW o, Cloud(s, o)!CloudWalletAssumption, CloudIInv(s), NEW z, CloudRequest(s, z), z.n = started + 1,
         Cloud(s, o)!Request(z), z.op \in {"register", "exist", "find", "call"},
         UNCHANGED <<users, base, sub, tenants, orphans, faults>>
  PROVE  CloudIInv(s)'
<1>1. /\ started' = started + 1 /\ pend' = pend \cup {z} /\ started' \in 0..s.requests /\ started \in Nat /\ s.requests \in Nat
      /\ users' = users /\ base' = base /\ sub' = sub /\ tenants' = tenants /\ orphans' = orphans /\ faults' = faults
  BY CloudUnfolded DEF Cloud!Request, CloudIInv
<1>2. z.op \notin BaseOps /\ z.op \notin DropOps /\ z.op \notin HoldOps /\ z.op \notin {"store", "release", "dropRow", "claim"}
  BY DEF BaseOps, DropOps, ClaimOps, HoldOps
<1>3. CloudAsked(s, started', pend')
  BY <1>1, <1>2, CloudAskedBegins DEF CloudIInv
<1>4. CloudFits(s, base, sub, tenants, z)
  <2>1. \A t \in tenants : t.id \in Nat /\ t.id # started + 1
    BY <1>1 DEF CloudIInv, CloudTenants, Wallets
  <2>2. \A u \in s.user : sub[u].id \in Nat /\ sub[u].id # started + 1
    BY <1>1 DEF CloudIInv, CloudSubs, SubRows, Wallets
  <2> QED BY <1>2, <2>1, <2>2 DEF CloudFits
<1>5. CloudTenants(s, sub, tenants, orphans, pend', started')
  BY <1>1, CloudTenantsRest DEF CloudIInv
<1>6. CloudSubs(s, users, base, sub, started')
  BY <1>1, CloudSubsRest DEF CloudIInv
<1>7. \A e : HoldsAt(pend', e) = HoldsAt(pend, e)
  BY <1>1, <1>2 DEF HoldsAt
<1>8. CloudCounts(s, users, base, sub, pend', faults')
  BY <1>1, <1>7, CloudCountsRest DEF CloudIInv
<1>9. \A r \in pend' : CloudFits(s, base, sub, tenants, r)
  BY <1>1, <1>4 DEF CloudIInv
<1> QED BY <1>1, <1>3, <1>5, <1>6, <1>8, <1>9 DEF CloudIInv

LEMMA CloudTurns ==
  ASSUME NEW s, NEW o, Cloud(s, o)!CloudWalletAssumption, CloudIInv(s), NEW r \in pend, NEW z, CloudRequest(s, z), z.n = r.n,
         Cloud(s, o)!Turn(r, z), r.op \notin HoldOps, z.op \notin HoldOps, CloudFits(s, base, sub, tenants, z),
         z.op \in DropOps => z.id \in 1..started /\ \A q \in pend : z.id # q.n,
         UNCHANGED <<users, base, sub, tenants, orphans, faults>>
  PROVE  CloudIInv(s)'
<1>1. /\ started' = started /\ pend' = (pend \ {r}) \cup {z} /\ started \in Nat /\ s.requests \in Nat
      /\ users' = users /\ base' = base /\ sub' = sub /\ tenants' = tenants /\ orphans' = orphans /\ faults' = faults
  BY CloudUnfolded DEF Cloud!Turn, CloudIInv
<1>3. CloudAsked(s, started', pend')
  BY <1>1, CloudAskedTurns DEF CloudIInv
<1>5. CloudTenants(s, sub, tenants, orphans, pend', started')
  BY <1>1, CloudTenantsRest DEF CloudIInv, HoldOps
<1>7. \A e : HoldsAt(pend', e) = HoldsAt(pend, e)
  BY <1>1 DEF HoldsAt
<1>8. CloudCounts(s, users, base, sub, pend', faults')
  BY <1>1, <1>7, CloudCountsRest DEF CloudIInv
<1>9. \A q \in pend' : CloudFits(s, base, sub, tenants, q)
  BY <1>1 DEF CloudIInv
<1> QED BY <1>1, <1>3, <1>5, <1>8, <1>9 DEF CloudIInv

LEMMA CloudEnds ==
  ASSUME NEW s, NEW o, Cloud(s, o)!CloudWalletAssumption, CloudIInv(s), NEW r \in pend, Cloud(s, o)!End(r), r.op \notin HoldOps,
         faults' \in 0..s.faults, faults' = 0 => faults = 0, UNCHANGED <<users, base, sub, tenants, orphans>>
  PROVE  CloudIInv(s)'
<1>1. /\ started' = started /\ pend' = pend \ {r} /\ started \in Nat /\ s.requests \in Nat
      /\ users' = users /\ base' = base /\ sub' = sub /\ tenants' = tenants /\ orphans' = orphans
  BY CloudUnfolded DEF Cloud!End, CloudIInv
<1>3. CloudAsked(s, started', pend')
  BY <1>1, CloudAskedEnds DEF CloudIInv
<1>5. CloudTenants(s, sub, tenants, orphans, pend', started')
  BY <1>1, CloudTenantsRest DEF CloudIInv, HoldOps
<1>7. \A e : HoldsAt(pend', e) = HoldsAt(pend, e)
  BY <1>1 DEF HoldsAt
<1>8. CloudCounts(s, users, base, sub, pend', faults')
  BY <1>1, <1>7, CloudCountsRest DEF CloudIInv
<1>9. \A q \in pend' : CloudFits(s, base, sub, tenants, q)
  BY <1>1 DEF CloudIInv
<1> QED BY <1>1, <1>3, <1>5, <1>8, <1>9 DEF CloudIInv

(* A request that keeps its number and carries no row fits.                *)
LEMMA CloudSameFits ==
  ASSUME NEW s, NEW B, NEW S, NEW T, NEW r, CloudFits(s, B, S, T, r), NEW z, z.n = r.n, z.op \notin BaseOps,
         r.op \notin {"store", "release"}
  PROVE  CloudFits(s, B, S, T, z)
BY DEF CloudFits, BaseOps, ClaimOps, DropOps

LEMMA CloudFaultCounts ==
  ASSUME NEW s, NEW o, Cloud(s, o)!CloudWalletAssumption, CloudIInv(s), UNCHANGED faults \/ Cloud(s, o)!Fault
  PROVE  faults' \in 0..s.faults /\ (faults' = 0 => faults = 0)
BY CloudUnfolded DEF Cloud!Fault, CloudIInv

(* The handlers' steps that change no row and no tenant.                   *)
LEMMA CloudRequests ==
  ASSUME NEW s, NEW o, Cloud(s, o)!CloudWalletAssumption, CloudIInv(s),
         \/ \E e \in s.endpoint, max \in s.cap : Cloud(s, o)!ConfigureBaseWallet(e, max)
         \/ \E u \in users : Cloud(s, o)!CreateCloudWallet(u)
         \/ \E u \in users, holder \in BOOLEAN : Cloud(s, o)!DeleteCloudWallet(u, holder)
         \/ \E u \in s.user : \E effect : Cloud(s, o)!CommonCloudWalletInfo(u, effect)
  PROVE  CloudIInv(s)'
<1>0. users \subseteq s.user
  BY DEF CloudIInv
<1>1. ASSUME NEW e \in s.endpoint, NEW max \in s.cap, Cloud(s, o)!ConfigureBaseWallet(e, max)
      PROVE  CloudIInv(s)'
  <2> DEFINE z == [op |-> "register", n |-> started + 1, ep |-> e, max |-> max]
  <2>1. Cloud(s, o)!Request(z) /\ UNCHANGED <<users, base, sub, tenants, orphans, faults>>
    BY <1>1 DEF Cloud!ConfigureBaseWallet, Cloud!rows, Cloud!agent
  <2>2. CloudRequest(s, z) /\ z.n = started + 1 /\ z.op = "register"
    BY DEF CloudRequest, AdminOps, BeginOps, ClaimOps, DropOps, BaseOps
  <2> HIDE DEF z
  <2> QED BY <2>1, <2>2, CloudBegins
<1>2. ASSUME NEW u \in users, Cloud(s, o)!CreateCloudWallet(u)
      PROVE  CloudIInv(s)'
  <2> DEFINE z == [op |-> "exist", n |-> started + 1, user |-> u]
  <2>1. Cloud(s, o)!Request(z) /\ UNCHANGED <<users, base, sub, tenants, orphans, faults>>
    BY <1>2 DEF Cloud!CreateCloudWallet, Cloud!rows, Cloud!agent
  <2>2. CloudRequest(s, z) /\ z.n = started + 1 /\ z.op = "exist"
    BY <1>0 DEF CloudRequest, AdminOps, BeginOps, ClaimOps, DropOps, BaseOps
  <2> HIDE DEF z
  <2> QED BY <2>1, <2>2, CloudBegins
<1>3. ASSUME NEW u \in users, NEW holder \in BOOLEAN, Cloud(s, o)!DeleteCloudWallet(u, holder)
      PROVE  CloudIInv(s)'
  <2> DEFINE z == [op |-> "find", n |-> started + 1, user |-> u, holder |-> holder]
  <2>1. Cloud(s, o)!Request(z) /\ UNCHANGED <<users, base, sub, tenants, orphans, faults>>
    BY <1>3 DEF Cloud!DeleteCloudWallet, Cloud!rows, Cloud!agent
  <2>2. CloudRequest(s, z) /\ z.n = started + 1 /\ z.op = "find"
    BY <1>0 DEF CloudRequest, AdminOps, BeginOps, ClaimOps, DropOps, BaseOps
  <2> HIDE DEF z
  <2> QED BY <2>1, <2>2, CloudBegins
<1>4. ASSUME NEW u \in s.user, NEW effect, Cloud(s, o)!CommonCloudWalletInfo(u, effect)
      PROVE  CloudIInv(s)'
  <2> DEFINE z == [op |-> "call", n |-> started + 1, user |-> u, id |-> sub[u].id, effect |-> effect]
  <2>1. Cloud(s, o)!Request(z) /\ UNCHANGED <<users, base, sub, tenants, orphans, faults>>
    BY <1>4 DEF Cloud!CommonCloudWalletInfo, Cloud!rows, Cloud!agent
  <2>2. CloudRequest(s, z) /\ z.n = started + 1 /\ z.op = "call"
    BY DEF CloudRequest, AdminOps, BeginOps, ClaimOps, DropOps, BaseOps
  <2> HIDE DEF z
  <2> QED BY <2>1, <2>2, CloudBegins
<1> QED BY <1>1, <1>2, <1>3, <1>4

(* The least number of a set, as FiniteSetsExt chooses it.                 *)
LEMMA CloudLeast ==
  ASSUME NEW s, NEW o, NEW C \in SUBSET Nat, C # {}
  PROVE  Cloud(s, o)!Min(C) \in C
<1>1. PICK i \in C : \A j \in C : i <= j
  BY LeastExists
<1>2. Cloud(s, o)!Min(C) = CHOOSE x \in C : \A y \in C : x =< y
  BY DEF Cloud!Min
<1> QED BY <1>1, <1>2

LEMMA CloudStepsOn ==
  ASSUME NEW s, NEW o, Cloud(s, o)!CloudWalletAssumption, CloudIInv(s), NEW r \in pend, NEW k, Cloud(s, o)!Go(r, k),
         (r.op = "register" /\ k = "storeBase") \/ (r.op = "exist" /\ k = "avail"),
         UNCHANGED <<users, base, sub, tenants, orphans, faults>>
  PROVE  CloudIInv(s)'
<1>0. CloudRequest(s, r) /\ CloudFits(s, base, sub, tenants, r)
  BY DEF CloudIInv, CloudAsked
<1> DEFINE z == [r EXCEPT !.op = k]
<1>1. CloudRequest(s, z) /\ z.op = k /\ z.n = r.n
  BY <1>0, CloudGoes DEF AdminOps, BeginOps
<1>2. Cloud(s, o)!Turn(r, z)
  BY DEF Cloud!Go
<1> HIDE DEF z
<1>3. /\ z.op \notin BaseOps /\ z.op \notin HoldOps /\ z.op \notin DropOps /\ r.op \notin HoldOps
      /\ r.op \notin {"store", "release"}
  BY <1>1 DEF BaseOps, HoldOps, ClaimOps, DropOps
<1>4. CloudFits(s, base, sub, tenants, z)
  BY <1>0, <1>1, <1>3, CloudSameFits
<1> QED BY <1>1, <1>2, <1>3, <1>4, CloudTurns

LEMMA CloudChecks ==
  ASSUME NEW s, NEW o, Cloud(s, o)!CloudWalletAssumption, CloudIInv(s), NEW r \in pend,
         \/ Cloud(s, o)!CheckEndpoint(r) \/ Cloud(s, o)!CheckUserExist(r) \/ Cloud(s, o)!GetAvailableBaseWallet(r)
  PROVE  CloudIInv(s)'
<1>0. CloudRequest(s, r) /\ CloudFits(s, base, sub, tenants, r) /\ faults \in 0..s.faults
  BY DEF CloudIInv, CloudAsked
<1>1. /\ UNCHANGED <<users, base, sub, tenants, orphans, faults>>
      /\ r.op \in {"register", "exist", "avail"} /\ r.op \notin HoldOps /\ r.op \notin {"store", "release"}
  BY DEF Cloud!CheckEndpoint, Cloud!CheckUserExist, Cloud!GetAvailableBaseWallet, Cloud!rows, Cloud!agent, HoldOps
<1>2. CASE Cloud(s, o)!End(r)
  BY <1>0, <1>1, <1>2, CloudEnds
<1>4. ASSUME Cloud(s, o)!GetAvailableBaseWallet(r), ~Cloud(s, o)!End(r)
      PROVE  CloudIInv(s)'
  <2> DEFINE free == {b \in DOMAIN base : base[b].active /\ base[b].use < base[b].max}
  <2>1. PICK m : m = Cloud(s, o)!Min(free)
    OBVIOUS
  <2> DEFINE z == [op |-> "claim", user |-> r.user, n |-> r.n, b |-> m, ep |-> base[m].ep, max |-> base[m].max]
  <2>2. free # {} /\ Cloud(s, o)!Turn(r, z)
    BY <1>4, <2>1 DEF Cloud!GetAvailableBaseWallet
  <2>3. base \in Seq(CloudBase(s)) /\ DOMAIN base = 1..Len(base) /\ Len(base) \in Nat
    BY DEF CloudIInv, CloudBases
  <2>4. m \in DOMAIN base
    <3>1. free \in SUBSET Nat
      BY <2>3
    <3>2. m \in free
      BY <2>1, <2>2, <3>1, CloudLeast
    <3> QED BY <3>2
  <2>5. base[m] \in CloudBase(s)
    BY <2>3, <2>4
  <2>6. base[m].ep \in s.endpoint /\ base[m].max \in s.cap
    BY <2>5 DEF CloudBase
  <2>9. base[m].max <= base[m].top
    BY <2>4 DEF CloudIInv, CloudBases
  <2>7. r.user \in s.user
    <3>1. r.op = "avail"
      BY <1>4 DEF Cloud!GetAvailableBaseWallet
    <3> QED BY <1>0, <3>1 DEF CloudRequest, BeginOps
  <2>8. /\ CloudRequest(s, z) /\ z.n = r.n /\ z.op = "claim" /\ z.b \in BaseAt(base, z.ep) /\ z.max <= base[z.b].top
        /\ z.op \notin HoldOps /\ z.op \notin DropOps
    BY <2>4, <2>6, <2>7, <2>9 DEF CloudRequest, AdminOps, BeginOps, ClaimOps, DropOps, BaseOps, BaseAt, HoldOps
  <2>10. Cloud(s, o)!Turn(r, z)
    BY <2>2
  <2> HIDE DEF z, free
  <2>11. CloudFits(s, base, sub, tenants, z)
    BY <1>0, <1>1, <2>8 DEF CloudFits
  <2>12. CloudRequest(s, z) /\ z.n = r.n /\ z.op \notin HoldOps /\ z.op \notin DropOps
    BY <2>8
  <2> QED BY <1>1, <2>10, <2>11, <2>12, CloudTurns
<1>5. CASE Cloud(s, o)!CheckEndpoint(r)
  <2>1. r.op = "register" /\ (Cloud(s, o)!End(r) \/ Cloud(s, o)!Go(r, "storeBase"))
    BY <1>5 DEF Cloud!CheckEndpoint
  <2>2. CASE Cloud(s, o)!Go(r, "storeBase")
    BY <1>1, <2>1, <2>2, CloudStepsOn
  <2> QED BY <1>2, <2>1, <2>2
<1>6. CASE Cloud(s, o)!CheckUserExist(r)
  <2>1. r.op = "exist" /\ (Cloud(s, o)!End(r) \/ Cloud(s, o)!Go(r, "avail"))
    BY <1>6 DEF Cloud!CheckUserExist
  <2>2. CASE Cloud(s, o)!Go(r, "avail")
    BY <1>1, <2>1, <2>2, CloudStepsOn
  <2> QED BY <1>2, <2>1, <2>2
<1> QED BY <1>2, <1>4, <1>5, <1>6

(* What follows a deletion: the deletion of the user, or nothing.          *)
LEMMA CloudAfter ==
  ASSUME NEW s, NEW o, Cloud(s, o)!CloudWalletAssumption, CloudIInv(s), NEW r \in pend, r.op = "find",
         Cloud(s, o)!After(r) \/ Cloud(s, o)!End(r), UNCHANGED <<users, base, sub, tenants, orphans, faults>>
  PROVE  CloudIInv(s)'
<1>0. CloudRequest(s, r) /\ CloudFits(s, base, sub, tenants, r) /\ faults \in 0..s.faults /\ r.op \notin HoldOps
  BY DEF CloudIInv, CloudAsked, HoldOps
<1>1. CASE Cloud(s, o)!End(r)
  BY <1>0, <1>1, CloudEnds
<1> DEFINE z == [op |-> "deleteUser", user |-> r.user, n |-> r.n]
<1>2. CASE Cloud(s, o)!Turn(r, z)
  <2>1. r.user \in s.user
    BY <1>0 DEF CloudRequest
  <2>2. CloudRequest(s, z) /\ z.n = r.n /\ z.op \notin BaseOps /\ z.op \notin HoldOps /\ z.op \notin DropOps
    BY <2>1 DEF CloudRequest, AdminOps, BeginOps, ClaimOps, DropOps, BaseOps, HoldOps
  <2> HIDE DEF z
  <2>3. CloudFits(s, base, sub, tenants, z)
    BY <1>0, <2>2, CloudSameFits
  <2> QED BY <1>0, <1>2, <2>2, <2>3, CloudTurns
<1> QED BY <1>1, <1>2 DEF Cloud!After

LEMMA CloudFinds ==
  ASSUME NEW s, NEW o, Cloud(s, o)!CloudWalletAssumption, CloudIInv(s), NEW r \in pend, Cloud(s, o)!FindWallet(r)
  PROVE  CloudIInv(s)'
<1>0. /\ CloudRequest(s, r) /\ CloudFits(s, base, sub, tenants, r) /\ faults \in 0..s.faults /\ r.op = "find" /\ r.op \notin HoldOps
      /\ UNCHANGED <<users, base, sub, tenants, orphans, faults>>
  BY DEF CloudIInv, CloudAsked, HoldOps, Cloud!FindWallet, Cloud!rows, Cloud!agent
<1>1. CASE Cloud(s, o)!After(r) \/ Cloud(s, o)!End(r)
  BY <1>0, <1>1, CloudAfter
<1> DEFINE u == r.user
           w == sub[r.user]
           b == Cloud(s, o)!GetBaseWalletByAgentEndpoint(w.ep)
           z == [op |-> "dropTenant", user |-> r.user, n |-> r.n, holder |-> r.holder, id |-> w.id, ep |-> w.ep, b |-> b]
<1>2. CASE sub[r.user] # [id |-> 0] /\ b # 0 /\ Cloud(s, o)!Turn(r, z)
  <2>1. u \in s.user
    BY <1>0 DEF CloudRequest
  <2>2. sub \in SubRows(s) /\ s.requests \in Nat /\ started \in Nat
    BY CloudUnfolded DEF CloudIInv, CloudSubs
  <2>3. w \in Wallets(s)
    BY <1>2, <2>1, <2>2 DEF SubRows
  <2>4. w.id \in 1..s.requests /\ w.ep \in s.endpoint
    BY <2>3 DEF Wallets
  <2>5. w.id \in 1..started
    BY <2>1, <2>2, <2>4 DEF CloudIInv, CloudSubs
  <2>6. b \in BaseAt(base, w.ep)
    BY <1>2, CloudNewest
  <2>7. \A q \in pend : w.id # q.n
    BY <2>1 DEF CloudIInv, CloudFits
  <2>8. \A v \in s.user : sub[v].id = w.id => sub[v].ep = w.ep
    BY <2>1, <2>2, <2>5 DEF CloudIInv, CloudSubs
  <2> HIDE DEF b, w
  <2>9. /\ CloudRequest(s, z) /\ z.n = r.n /\ z.op = "dropTenant" /\ z.op \notin HoldOps
        /\ z.id = w.id /\ z.ep = w.ep /\ z.b = b
    BY <2>1, <2>4 DEF CloudRequest, AdminOps, BeginOps, ClaimOps, DropOps, BaseOps, HoldOps
  <2> HIDE DEF z
  <2>10. CloudFits(s, base, sub, tenants, z)
    BY <1>0, <2>6, <2>8, <2>9 DEF CloudFits
  <2>11. z.id \in 1..started /\ \A q \in pend : z.id # q.n
    BY <2>5, <2>7, <2>9
  <2>12. Cloud(s, o)!Turn(r, z)
    BY <1>2
  <2> QED BY <1>0, <2>9, <2>10, <2>11, <2>12, CloudTurns
<1>3. Cloud(s, o)!After(r) \/ Cloud(s, o)!End(r) \/ (sub[r.user] # [id |-> 0] /\ b # 0 /\ Cloud(s, o)!Turn(r, z))
  BY CloudUnfolded DEF Cloud!FindWallet
<1> QED BY <1>1, <1>2, <1>3

LEMMA CloudLeaves ==
  ASSUME NEW s, NEW o, Cloud(s, o)!CloudWalletAssumption, CloudIInv(s), NEW r \in pend,
         \/ Cloud(s, o)!CallAgent(r)
         \/ r.op \in {"storeBase", "find", "dropRow", "deleteUser"} /\ Cloud(s, o)!Fails(r)
  PROVE  CloudIInv(s)'
<1>1. Cloud(s, o)!End(r) /\ r.op \notin HoldOps /\ UNCHANGED <<users, base, sub, tenants, orphans>>
  BY DEF Cloud!CallAgent, Cloud!Fails, Cloud!rows, Cloud!agent, HoldOps
<1>2. UNCHANGED faults \/ Cloud(s, o)!Fault
  BY DEF Cloud!CallAgent, Cloud!Fails
<1> QED BY <1>1, <1>2, CloudEnds, CloudFaultCounts

-----------------------------------------------------------------------------
(* How the counts of an endpoint change.                                   *)
LEMMA HoldsSwap ==
  ASSUME NEW P, IsFiniteSet(P), NEW r \in P, NEW z, z \notin P \ {r}, r.op \in HoldOps, z.op \in HoldOps, z.ep = r.ep, NEW e
  PROVE  Cardinality(HoldsAt((P \ {r}) \cup {z}, e)) = Cardinality(HoldsAt(P, e))
<1> DEFINE Q == (P \ {r}) \cup {z}
           X == HoldsAt(P, e) \ {r}
<1>0. IsFiniteSet(HoldsAt(P, e))
  BY FS_Subset DEF HoldsAt
<1>1. CASE r.ep = e
  <2>1. r \in HoldsAt(P, e) /\ z \notin X /\ HoldsAt(Q, e) = X \cup {z}
    BY <1>1 DEF HoldsAt
  <2>2. IsFiniteSet(X) /\ Cardinality(HoldsAt(P, e)) = Cardinality(X) + 1
    BY <1>0, <2>1, OneLess
  <2>3. Cardinality(HoldsAt(Q, e)) = Cardinality(X) + 1
    BY <2>1, <2>2, OneMore
  <2> QED BY <2>2, <2>3
<1>2. CASE r.ep # e
  <2>1. HoldsAt(Q, e) = HoldsAt(P, e)
    BY <1>2 DEF HoldsAt
  <2> QED BY <2>1
<1> QED BY <1>1, <1>2

LEMMA HoldsGain ==
  ASSUME NEW P, IsFiniteSet(P), NEW r \in P, NEW z, z \notin P \ {r}, r.op \notin HoldOps, z.op \in HoldOps, NEW e
  PROVE  /\ z.ep = e => Cardinality(HoldsAt((P \ {r}) \cup {z}, e)) = Cardinality(HoldsAt(P, e)) + 1
         /\ z.ep # e => HoldsAt((P \ {r}) \cup {z}, e) = HoldsAt(P, e)
<1> DEFINE Q == (P \ {r}) \cup {z}
<1>0. IsFiniteSet(HoldsAt(P, e))
  BY FS_Subset DEF HoldsAt
<1>1. ASSUME z.ep = e
      PROVE  Cardinality(HoldsAt(Q, e)) = Cardinality(HoldsAt(P, e)) + 1
  <2>1. z \notin HoldsAt(P, e) /\ HoldsAt(Q, e) = HoldsAt(P, e) \cup {z}
    BY <1>1 DEF HoldsAt
  <2> QED BY <1>0, <2>1, OneMore
<1>2. ASSUME z.ep # e
      PROVE  HoldsAt(Q, e) = HoldsAt(P, e)
  BY <1>2 DEF HoldsAt
<1> QED BY <1>1, <1>2

LEMMA HoldsLose ==
  ASSUME NEW P, IsFiniteSet(P), NEW r \in P, r.op \in HoldOps, NEW Q, P \ {r} \subseteq Q,
         \A z \in Q : z \in P \ {r} \/ z.op \notin HoldOps, NEW e
  PROVE  /\ r.ep = e => Cardinality(HoldsAt(P, e)) = Cardinality(HoldsAt(Q, e)) + 1 /\ Cardinality(HoldsAt(Q, e)) \in Nat
         /\ r.ep # e => HoldsAt(Q, e) = HoldsAt(P, e)
<1>0. IsFiniteSet(HoldsAt(P, e))
  BY FS_Subset DEF HoldsAt
<1>1. ASSUME r.ep = e
      PROVE  Cardinality(HoldsAt(P, e)) = Cardinality(HoldsAt(Q, e)) + 1 /\ Cardinality(HoldsAt(Q, e)) \in Nat
  <2>1. r \in HoldsAt(P, e) /\ HoldsAt(Q, e) = HoldsAt(P, e) \ {r}
    BY <1>1 DEF HoldsAt
  <2> QED BY <1>0, <2>1, OneLess
<1>2. ASSUME r.ep # e
      PROVE  HoldsAt(Q, e) = HoldsAt(P, e)
  BY <1>2 DEF HoldsAt
<1> QED BY <1>1, <1>2

(* The row of user u appears in S, giving R.                               *)
LEMMA SubsGain ==
  ASSUME NEW s, IsFiniteSet(s.user), NEW S, NEW R, NEW u \in s.user, S[u].id = 0, R[u].id # 0,
         \A v \in s.user : v # u => R[v] = S[v], NEW e
  PROVE  /\ R[u].ep = e => Cardinality(SubsAt(s, R, e)) = Cardinality(SubsAt(s, S, e)) + 1 /\ Cardinality(SubsAt(s, S, e)) \in Nat
         /\ R[u].ep # e => SubsAt(s, R, e) = SubsAt(s, S, e)
<1>0. IsFiniteSet(SubsAt(s, S, e))
  BY FS_Subset DEF SubsAt
<1>1. ASSUME R[u].ep = e
      PROVE  Cardinality(SubsAt(s, R, e)) = Cardinality(SubsAt(s, S, e)) + 1 /\ Cardinality(SubsAt(s, S, e)) \in Nat
  <2>1. u \notin SubsAt(s, S, e) /\ SubsAt(s, R, e) = SubsAt(s, S, e) \cup {u}
    BY <1>1 DEF SubsAt
  <2> QED BY <1>0, <2>1, OneMore
<1>2. ASSUME R[u].ep # e
      PROVE  SubsAt(s, R, e) = SubsAt(s, S, e)
  BY <1>2 DEF SubsAt
<1> QED BY <1>1, <1>2

LEMMA CloudCountsSame ==
  ASSUME NEW s, NEW U, NEW B, NEW S, NEW P, NEW f, NEW Q, NEW g, CloudCounts(s, U, B, S, P, f), g = 0 => f = 0,
         \A e : Cardinality(HoldsAt(Q, e)) = Cardinality(HoldsAt(P, e))
  PROVE  CloudCounts(s, U, B, S, Q, g)
BY DEF CloudCounts, Covered, Exact

(* What the requests of a state have.                                      *)
LEMMA CloudClaimFields ==
  ASSUME NEW s, CloudIInv(s), s.requests \in Nat, NEW r \in pend
  PROVE  /\ CloudRequest(s, r) /\ CloudFits(s, base, sub, tenants, r) /\ r.n \in 1..started /\ r.n \in 1..s.requests
         /\ started \in Nat /\ IsFiniteSet(pend)
         /\ \A q \in pend : (q.n = r.n => q = r) /\ (q.op \in DropOps => q.id # r.n)
         /\ r.op \in ClaimOps => r.ep \in s.endpoint /\ r.user \in s.user /\ r.max \in s.cap
         /\ r.op \in DropOps \cup {"decrement"} => r.ep \in s.endpoint /\ r.user \in s.user
         /\ r.op = "deleteUser" => r.user \in s.user
         /\ r.op \in AdminOps => r.ep \in s.endpoint /\ r.max \in s.cap
<1>1. /\ CloudRequest(s, r) /\ CloudFits(s, base, sub, tenants, r) /\ r.n \in 1..started /\ started \in 0..s.requests
      /\ IsFiniteSet(pend) /\ \A q \in pend : (q.n = r.n => q = r) /\ (q.op \in DropOps => q.id # r.n)
  BY DEF CloudIInv, CloudAsked
<1>2. r.op \in ClaimOps => r.ep \in s.endpoint /\ r.user \in s.user /\ r.max \in s.cap
  BY <1>1 DEF CloudRequest
<1>3. r.op \in DropOps \cup {"decrement"} => r.ep \in s.endpoint /\ r.user \in s.user
  BY <1>1 DEF CloudRequest
<1>4. r.op = "deleteUser" => r.user \in s.user
  BY <1>1 DEF CloudRequest
<1>5. r.op \in AdminOps => r.ep \in s.endpoint /\ r.max \in s.cap
  BY <1>1 DEF CloudRequest
<1> QED BY <1>1, <1>2, <1>3, <1>4, <1>5

(* A tenant appears under the number of the request that asks for it.      *)
LEMMA CloudTenantMade ==
  ASSUME NEW s, NEW o, Cloud(s, o)!CloudWalletAssumption, CloudIInv(s), NEW r \in pend, Cloud(s, o)!CreateTenant(r)
  PROVE  CloudIInv(s)'
<1>0. s.requests \in Nat /\ r.op = "tenant" /\ r.op \in ClaimOps /\ r.op \in HoldOps
  BY CloudUnfolded DEF Cloud!CreateTenant, ClaimOps, HoldOps
<1> DEFINE t == [id |-> r.n, ep |-> r.ep]
<1>1. PICK k \in {"store", "release"} :
         /\ Cloud(s, o)!Go(r, k) /\ users' = users /\ base' = base /\ sub' = sub
         /\ tenants' = tenants \cup {t} \/ (k = "release" /\ tenants' = tenants)
         /\ orphans' = orphans \/ orphans' = orphans \cup {r.n}
         /\ k = "store" \/ tenants' = tenants \/ r.n \in orphans'
         /\ UNCHANGED faults \/ Cloud(s, o)!Fault
  BY DEF Cloud!CreateTenant, Cloud!rows
<1>2. /\ CloudRequest(s, r) /\ CloudFits(s, base, sub, tenants, r) /\ r.n \in 1..started /\ r.n \in 1..s.requests
      /\ started \in Nat /\ IsFiniteSet(pend) /\ r.ep \in s.endpoint
      /\ \A q \in pend : (q.n = r.n => q = r) /\ (q.op \in DropOps => q.id # r.n)
  BY <1>0, CloudClaimFields
<1> DEFINE z == [r EXCEPT !.op = k]
<1>3. CloudRequest(s, z) /\ z.op = k /\ z.n = r.n /\ z.b = r.b /\ z.ep = r.ep /\ z.op \in HoldOps /\ z.op \notin DropOps
  BY <1>0, <1>2, CloudClaimGoes DEF ClaimOps, HoldOps, DropOps
<1>4. pend' = (pend \ {r}) \cup {z} /\ started' = started
  BY <1>1 DEF Cloud!Go, Cloud!Turn
<1> HIDE DEF z
<1>5. CloudAsked(s, started', pend') /\ z \notin pend \ {r}
  BY <1>2, <1>3, <1>4, CloudAskedTurns DEF CloudIInv
<1>6. faults' \in 0..s.faults /\ (faults' = 0 => faults = 0)
  BY <1>1, CloudFaultCounts
<1>7. CloudCounts(s, users, base, sub, pend', faults')
  <2>1. \A e : Cardinality(HoldsAt(pend', e)) = Cardinality(HoldsAt(pend, e))
    BY <1>0, <1>2, <1>3, <1>4, <1>5, HoldsSwap
  <2> QED BY <1>6, <2>1, CloudCountsSame DEF CloudIInv
<1>8. t \in Wallets(s) /\ t.id = r.n
  BY <1>2 DEF Wallets
<1> HIDE DEF t
<1>9. \A q \in pend' : CloudFits(s, base, sub, tenants', q)
  <2>1. \A x \in tenants' : x \in tenants \/ x.id = r.n
    BY <1>1, <1>8
  <2>2. CloudFits(s, base, sub, tenants', z)
    BY <1>0, <1>1, <1>2, <1>3, <2>1 DEF CloudFits, BaseOps, ClaimOps
  <2>3. ASSUME NEW q \in pend, q # r
        PROVE  CloudFits(s, base, sub, tenants', q)
    <3>1. CloudFits(s, base, sub, tenants, q) /\ q.n # r.n /\ (q.op = "dropRow" => q.id # r.n)
      BY <1>2, <2>3 DEF CloudIInv, DropOps
    <3> QED BY <2>1, <3>1 DEF CloudFits
  <2> QED BY <1>4, <2>2, <2>3
<1>10. CloudTenants(s, sub, tenants', orphans', pend', started')
  <2>1. tenants' \subseteq Wallets(s) /\ \A x \in tenants' : x.id <= started'
    BY <1>1, <1>2, <1>4, <1>8 DEF CloudIInv, CloudTenants
  <2>2. ASSUME NEW x \in tenants
        PROVE  Accounted(s, sub, orphans', pend', x)
    BY <1>0, <1>1, <1>4 DEF CloudIInv, CloudTenants, Accounted
  <2>3. tenants' = tenants \/ Accounted(s, sub, orphans', pend', t)
    BY <1>1, <1>3, <1>4, <1>8 DEF Accounted
  <2>4. tenants' = tenants \/ tenants' = tenants \cup {t}
    BY <1>1
  <2> QED BY <2>1, <2>2, <2>3, <2>4 DEF CloudTenants
<1> QED BY <1>1, <1>4, <1>5, <1>6, <1>7, <1>9, <1>10 DEF CloudIInv

(* The row of a wallet: written, or refused.                               *)
LEMMA CloudRowStored ==
  ASSUME NEW s, NEW o, Cloud(s, o)!CloudWalletAssumption, CloudIInv(s), NEW r \in pend, r.op = "store", r.user \in users,
         sub[r.user] = [id |-> 0], sub' = [sub EXCEPT ![r.user] = [id |-> r.n, ep |-> r.ep]],
         Cloud(s, o)!End(r), UNCHANGED <<users, base, tenants, orphans, faults>>
  PROVE  CloudIInv(s)'
<1>0. s.requests \in Nat /\ r.op \in ClaimOps /\ r.op \in HoldOps /\ IsFiniteSet(s.user)
  BY CloudUnfolded DEF ClaimOps, HoldOps
<1>2. /\ CloudRequest(s, r) /\ CloudFits(s, base, sub, tenants, r) /\ r.n \in 1..started /\ r.n \in 1..s.requests
      /\ started \in Nat /\ IsFiniteSet(pend) /\ r.ep \in s.endpoint /\ r.user \in s.user
      /\ \A q \in pend : (q.n = r.n => q = r) /\ (q.op \in DropOps => q.id # r.n)
  BY <1>0, CloudClaimFields
<1>4. pend' = pend \ {r} /\ started' = started
  BY DEF Cloud!End
<1>5. CloudAsked(s, started', pend')
  BY <1>4, CloudAskedEnds DEF CloudIInv
<1> DEFINE u == r.user
           w == [id |-> r.n, ep |-> r.ep]
<1>6. w \in Wallets(s) /\ w.id = r.n /\ w.ep = r.ep
  BY <1>2 DEF Wallets
<1>7. sub \in SubRows(s)
  BY DEF CloudIInv, CloudSubs
<1>8. /\ sub' \in SubRows(s) /\ sub'[u] = w /\ sub'[u].id # 0 /\ sub[u].id = 0
      /\ \A v \in s.user : v # u => sub'[v] = sub[v]
  BY <1>2, <1>6, <1>7 DEF SubRows
<1> HIDE DEF w
<1>9. CloudSubs(s, users, base, sub', started')
  <2>1. \A v \in s.user : sub'[v].id <= started /\ (sub'[v].id # 0 => v \in users /\ BaseAt(base, sub'[v].ep) # {})
    <3>1. r.b \in BaseAt(base, r.ep)
      BY <1>0, <1>2 DEF CloudFits, BaseOps
    <3> QED BY <1>2, <1>6, <1>8, <3>1 DEF CloudIInv, CloudSubs
  <2>2. \A v, x \in s.user : sub'[v].id = sub'[x].id /\ sub'[v].id # 0 => v = x
    <3>1. \A v \in s.user : sub[v].id # r.n
      BY <1>2 DEF CloudFits
    <3> QED BY <1>6, <1>8, <3>1 DEF CloudIInv, CloudSubs
  <2> QED BY <1>4, <1>8, <2>1, <2>2 DEF CloudSubs
<1>10. \A q \in pend' : CloudFits(s, base, sub', tenants, q)
  <2>1. ASSUME NEW q \in pend, q # r
        PROVE  CloudFits(s, base, sub', tenants, q)
    <3>1. CloudFits(s, base, sub, tenants, q) /\ q.n # r.n /\ (q.op \in DropOps => q.id # r.n)
      BY <1>2, <2>1 DEF CloudIInv
    <3> QED BY <1>6, <1>8, <3>1 DEF CloudFits
  <2> QED BY <1>4, <2>1
<1>11. CloudTenants(s, sub', tenants, orphans, pend', started')
  <2>1. ASSUME NEW t \in tenants
        PROVE  Accounted(s, sub', orphans, pend', t)
    <3>1. Accounted(s, sub, orphans, pend, t) /\ t.id # 0
      BY <1>0, <2>1 DEF CloudIInv, CloudTenants, Wallets
    <3>2. CASE \E v \in s.user : sub[v].id = t.id
      BY <1>8, <3>1, <3>2 DEF Accounted
    <3>3. CASE \E q \in pend : q.op = "store" /\ q.n = t.id
      BY <1>2, <1>4, <1>6, <1>8, <3>3 DEF Accounted
    <3>4. CASE t.id \in orphans
      BY <3>4 DEF Accounted
    <3> QED BY <3>1, <3>2, <3>3, <3>4 DEF Accounted
  <2> QED BY <1>4, <2>1 DEF CloudIInv, CloudTenants
<1>12. CloudCounts(s, users, base, sub', pend', faults)
  <2>1. ASSUME NEW e \in s.endpoint
        PROVE  Cardinality(SubsAt(s, sub', e)) + Cardinality(HoldsAt(pend', e))
                 = Cardinality(SubsAt(s, sub, e)) + Cardinality(HoldsAt(pend, e))
    <3>1. /\ r.ep = e => Cardinality(HoldsAt(pend, e)) = Cardinality(HoldsAt(pend', e)) + 1 /\ Cardinality(HoldsAt(pend', e)) \in Nat
          /\ r.ep # e => HoldsAt(pend', e) = HoldsAt(pend, e)
      BY <1>0, <1>2, <1>4, HoldsLose
    <3>2. /\ r.ep = e => /\ Cardinality(SubsAt(s, sub', e)) = Cardinality(SubsAt(s, sub, e)) + 1
                         /\ Cardinality(SubsAt(s, sub, e)) \in Nat
          /\ r.ep # e => SubsAt(s, sub', e) = SubsAt(s, sub, e)
      <4>1. PICK S, R, v : S = sub /\ R = sub' /\ v = r.user /\ v \in s.user
        BY <1>2
      <4>2. S[v].id = 0 /\ R[v].id # 0 /\ R[v].ep = r.ep /\ \A x \in s.user : x # v => R[x] = S[x]
        BY <1>6, <1>8, <4>1
      <4>3. /\ R[v].ep = e => /\ Cardinality(SubsAt(s, R, e)) = Cardinality(SubsAt(s, S, e)) + 1
                              /\ Cardinality(SubsAt(s, S, e)) \in Nat
            /\ R[v].ep # e => SubsAt(s, R, e) = SubsAt(s, S, e)
        <5>1. v \in s.user /\ IsFiniteSet(s.user)
          BY <1>0, <4>1
        <5> QED BY <4>2, <5>1, SubsGain
      <4> QED BY <4>1, <4>2, <4>3
    <3> QED BY <3>1, <3>2
  <2> QED BY <2>1 DEF CloudIInv, CloudCounts, Covered, Exact
<1> QED BY <1>4, <1>5, <1>9, <1>10, <1>11, <1>12 DEF CloudIInv

LEMMA CloudRowRefused ==
  ASSUME NEW s, NEW o, Cloud(s, o)!CloudWalletAssumption, CloudIInv(s), NEW r \in pend, r.op = "store",
         Cloud(s, o)!Go(r, "release"), orphans' = orphans \cup {r.n}, UNCHANGED <<users, base, sub, tenants>>,
         UNCHANGED faults \/ Cloud(s, o)!Fault
  PROVE  CloudIInv(s)'
<1>0. s.requests \in Nat /\ r.op \in ClaimOps /\ r.op \in HoldOps
  BY CloudUnfolded DEF ClaimOps, HoldOps
<1>2. /\ CloudRequest(s, r) /\ CloudFits(s, base, sub, tenants, r) /\ r.n \in 1..started
      /\ started \in Nat /\ IsFiniteSet(pend)
  BY <1>0, CloudClaimFields
<1>z. PICK k : k = "release"
  OBVIOUS
<1> DEFINE z == [r EXCEPT !.op = k]
<1>3. CloudRequest(s, z) /\ z.op = k /\ z.n = r.n /\ z.b = r.b /\ z.ep = r.ep /\ z.op \in HoldOps /\ z.op \notin DropOps
  BY <1>0, <1>z, <1>2, CloudClaimGoes DEF ClaimOps, HoldOps, DropOps
<1>4. pend' = (pend \ {r}) \cup {z} /\ started' = started
  BY <1>z DEF Cloud!Go, Cloud!Turn
<1> HIDE DEF z
<1>5. CloudAsked(s, started', pend') /\ z \notin pend \ {r}
  BY <1>2, <1>3, <1>4, CloudAskedTurns DEF CloudIInv
<1>6. faults' \in 0..s.faults /\ (faults' = 0 => faults = 0)
  BY CloudFaultCounts
<1>7. CloudCounts(s, users, base, sub, pend', faults')
  <2>1. \A e : Cardinality(HoldsAt(pend', e)) = Cardinality(HoldsAt(pend, e))
    BY <1>0, <1>2, <1>3, <1>4, <1>5, HoldsSwap
  <2> QED BY <1>6, <2>1, CloudCountsSame DEF CloudIInv
<1>8. \A q \in pend' : CloudFits(s, base, sub, tenants, q)
  <2>1. CloudFits(s, base, sub, tenants, z)
    BY <1>0, <1>z, <1>2, <1>3 DEF CloudFits, BaseOps, DropOps
  <2> QED BY <1>4, <2>1 DEF CloudIInv
<1>9. CloudTenants(s, sub, tenants, orphans', pend', started')
  <2>1. \A x \in tenants : Accounted(s, sub, orphans', pend', x)
    BY <1>4 DEF CloudIInv, CloudTenants, Accounted
  <2> QED BY <1>4, <2>1 DEF CloudIInv, CloudTenants
<1> QED BY <1>4, <1>5, <1>6, <1>7, <1>8, <1>9 DEF CloudIInv

LEMMA CloudDetailsStored ==
  ASSUME NEW s, NEW o, Cloud(s, o)!CloudWalletAssumption, CloudIInv(s), NEW r \in pend, Cloud(s, o)!StoreCloudWalletDetails(r)
  PROVE  CloudIInv(s)'
<1>1. r.op = "store" /\ UNCHANGED <<users, base, tenants>>
  BY DEF Cloud!StoreCloudWalletDetails
<1>2. CASE /\ r.user \in users /\ ~Cloud(s, o)!Has(r.user)
           /\ sub' = [sub EXCEPT ![r.user] = [id |-> r.n, ep |-> r.ep]]
           /\ Cloud(s, o)!End(r) /\ UNCHANGED <<orphans, faults>>
  <2>1. sub[r.user] = [id |-> 0]
    BY <1>2, CloudUnfolded
  <2> QED BY <1>1, <1>2, <2>1, CloudRowStored
<1>3. CASE /\ Cloud(s, o)!Go(r, "release") /\ orphans' = orphans \cup {r.n} /\ UNCHANGED sub
           /\ UNCHANGED faults \/ Cloud(s, o)!Fault
  BY <1>1, <1>3, CloudRowRefused
<1> QED BY <1>2, <1>3 DEF Cloud!StoreCloudWalletDetails

-----------------------------------------------------------------------------
(* Rows of base wallets are added and change, but keep their endpoint, and *)
(* the highest capacity they had never falls.                              *)
BasesKept(B, C) == DOMAIN B \subseteq DOMAIN C /\ \A b \in DOMAIN B : C[b].ep = B[b].ep /\ B[b].top <= C[b].top

LEMMA CloudTops ==
  ASSUME NEW s, s.cap \subseteq Nat, NEW B, CloudBases(s, B)
  PROVE  /\ DOMAIN B = 1..Len(B) /\ Len(B) \in Nat
         /\ \A b \in DOMAIN B : /\ B[b] \in CloudBase(s) /\ B[b].top \in Nat /\ B[b].max \in Nat /\ B[b].use \in Nat
                                /\ B[b].use <= B[b].top /\ B[b].max <= B[b].top /\ B[b].ep \in s.endpoint
<1>1. B \in Seq(CloudBase(s)) /\ DOMAIN B = 1..Len(B) /\ Len(B) \in Nat
  BY DEF CloudBases
<1>2. ASSUME NEW b \in DOMAIN B
      PROVE  B[b] \in CloudBase(s) /\ B[b].top \in Nat /\ B[b].max \in Nat /\ B[b].use \in Nat /\ B[b].ep \in s.endpoint
  <2>1. B[b] \in CloudBase(s)
    BY <1>1
  <2> QED BY <2>1 DEF CloudBase
<1> QED BY <1>1, <1>2 DEF CloudBases

LEMMA CloudBasesKept ==
  ASSUME NEW s, s.cap \subseteq Nat, NEW B, NEW C, CloudBases(s, B), CloudBases(s, C), BasesKept(B, C)
  PROVE  /\ \A e : BaseAt(B, e) \subseteq BaseAt(C, e)
         /\ \A U, S, n : CloudSubs(s, U, B, S, n) => CloudSubs(s, U, C, S, n)
         /\ \A S, T, r : CloudRequest(s, r) /\ CloudFits(s, B, S, T, r) => CloudFits(s, C, S, T, r)
<1>1. \A e : BaseAt(B, e) \subseteq BaseAt(C, e)
  BY DEF BasesKept, BaseAt
<1>2. ASSUME NEW U, NEW S, NEW n, CloudSubs(s, U, B, S, n)
      PROVE  CloudSubs(s, U, C, S, n)
  <2>1. \A u \in s.user : S[u].id # 0 => BaseAt(C, S[u].ep) # {}
    BY <1>1, <1>2 DEF CloudSubs
  <2> QED BY <1>2, <2>1 DEF CloudSubs
<1>3. ASSUME NEW S, NEW T, NEW r, CloudRequest(s, r), CloudFits(s, B, S, T, r)
      PROVE  CloudFits(s, C, S, T, r)
  <2>1. r.op \in BaseOps => r.b \in BaseAt(C, r.ep)
    BY <1>1, <1>3 DEF CloudFits
  <2>2. ASSUME r.op = "claim"
        PROVE  r.max <= C[r.b].top
    <3>1. r.max \in Nat
      BY <1>3, <2>2 DEF CloudRequest, ClaimOps
    <3>2. r.b \in DOMAIN B /\ r.max <= B[r.b].top
      BY <1>3, <2>2 DEF CloudFits, BaseOps, ClaimOps, BaseAt
    <3>3. B[r.b].top \in Nat /\ C[r.b].top \in Nat /\ B[r.b].top <= C[r.b].top
      BY <3>2, CloudTops DEF BasesKept
    <3> QED BY <3>1, <3>2, <3>3
  <2> QED BY <1>3, <2>1, <2>2 DEF CloudFits
<1> QED BY <1>1, <1>2, <1>3

(* The counter of row b of B set to k.                                     *)
CountSet(B, b, k) == [B EXCEPT ![b].use = k]
LEMMA CloudCountSet ==
  ASSUME NEW s, s.cap \subseteq Nat, NEW B, CloudBases(s, B), NEW b \in DOMAIN B, NEW k \in Nat, k <= B[b].top
  PROVE  LET C == CountSet(B, b, k)
         IN  /\ CloudBases(s, C) /\ BasesKept(B, C) /\ DOMAIN C = DOMAIN B
             /\ C[b].use = k /\ C[b].ep = B[b].ep /\ \A a \in DOMAIN B : a # b => C[a] = B[a]
<1> DEFINE C == CountSet(B, b, k)
           x == [B[b] EXCEPT !.use = k]
<1>1. /\ DOMAIN B = 1..Len(B) /\ Len(B) \in Nat
      /\ \A a \in DOMAIN B : B[a] \in CloudBase(s) /\ B[a].top \in Nat /\ B[a].use <= B[a].top /\ B[a].max <= B[a].top
  BY CloudTops
<1>2. x \in CloudBase(s) /\ x.use = k /\ x.ep = B[b].ep /\ x.top = B[b].top /\ x.max = B[b].max
  BY <1>1 DEF CloudBase
<1>3. B \in Seq(CloudBase(s))
  BY DEF CloudBases
<1>4. C = [B EXCEPT ![b] = x]
  BY DEF CountSet
<1> HIDE DEF x, C
<1>5. C \in Seq(CloudBase(s)) /\ DOMAIN C = DOMAIN B /\ C[b] = x /\ \A a \in DOMAIN B : a # b => C[a] = B[a]
  BY <1>1, <1>2, <1>3, <1>4
<1>6. CloudBases(s, C)
  BY <1>1, <1>2, <1>5 DEF CloudBases
<1>7. BasesKept(B, C)
  BY <1>1, <1>2, <1>5 DEF BasesKept
<1> QED BY <1>2, <1>5, <1>6, <1>7 DEF C

LEMMA OneMoreOf ==
  ASSUME NEW X, NEW Y, NEW x, IsFiniteSet(X), Y = X \cup {x}, x \notin X
  PROVE  IsFiniteSet(Y) /\ Cardinality(Y) = Cardinality(X) + 1 /\ Cardinality(X) \in Nat
BY OneMore

(* A slot is claimed.                                                      *)
LEMMA CloudCountsClaim ==
  ASSUME NEW s, NEW U, NEW B, NEW C, NEW S, NEW P, NEW Q, NEW f, NEW b \in DOMAIN B, NEW x,
         IsFiniteSet(s.user), IsFiniteSet(P), B[b].use \in Nat, B[b].ep = x, DOMAIN C = DOMAIN B,
         C[b].ep = B[b].ep, C[b].use = B[b].use + 1,
         \A a \in DOMAIN B : a # b => C[a] = B[a],
         \A e : /\ x = e => Cardinality(HoldsAt(Q, e)) = Cardinality(HoldsAt(P, e)) + 1
                /\ x # e => HoldsAt(Q, e) = HoldsAt(P, e),
         CloudCounts(s, U, B, S, P, f)
  PROVE  CloudCounts(s, U, C, S, Q, f)
<1>1. ASSUME NEW e \in s.endpoint
      PROVE  Covered(s, C, S, Q, e) /\ (Exact(s, B, S, P, e) => Exact(s, C, S, Q, e))
  <2>0. Covered(s, B, S, P, e)
    BY DEF CloudCounts
  <2>1. /\ Cardinality(SubsAt(s, S, e)) \in Nat /\ Cardinality(HoldsAt(P, e)) \in Nat
    BY CountsFinite
  <2>2. /\ BaseAt(C, e) = BaseAt(B, e)
        /\ x # e => SlotsAt(C, e) = SlotsAt(B, e)
        /\ x = e => /\ SlotsAt(C, e) = SlotsAt(B, e) \cup {<<b, B[b].use + 1>>}
                    /\ <<b, B[b].use + 1>> \notin SlotsAt(B, e)
    BY SlotsRise
  <2>3. CASE x # e
    BY <2>0, <2>2, <2>3 DEF Covered, Exact
  <2>4. CASE x = e
    <3>1. /\ IsFiniteSet(SlotsAt(C, e)) /\ Cardinality(SlotsAt(C, e)) = Cardinality(SlotsAt(B, e)) + 1
          /\ Cardinality(SlotsAt(B, e)) \in Nat
      <4>1. IsFiniteSet(SlotsAt(B, e))
        BY <2>0 DEF Covered
      <4> DEFINE p == <<b, B[b].use + 1>>
      <4>2. SlotsAt(C, e) = SlotsAt(B, e) \cup {p} /\ p \notin SlotsAt(B, e)
        BY <2>2, <2>4
      <4> HIDE DEF p
      <4> QED BY <4>1, <4>2, OneMoreOf
    <3>2. Cardinality(HoldsAt(Q, e)) = Cardinality(HoldsAt(P, e)) + 1
      BY <2>4
    <3>3. Cardinality(SubsAt(s, S, e)) + Cardinality(HoldsAt(P, e)) <= Cardinality(SlotsAt(B, e))
      BY <2>0 DEF Covered
    <3>4. Covered(s, C, S, Q, e)
      BY <2>1, <3>1, <3>2, <3>3 DEF Covered
    <3>5. Exact(s, B, S, P, e) => Exact(s, C, S, Q, e)
      BY <2>1, <2>2, <3>1, <3>2 DEF Exact
    <3> QED BY <3>4, <3>5
  <2> QED BY <2>3, <2>4
<1> QED BY <1>1 DEF CloudCounts

(* A slot is given back, if the row has one left, or the decrement fails.  *)
LEMMA CloudCountsReturn ==
  ASSUME NEW s, NEW U, NEW B, NEW C, NEW S, NEW P, NEW Q, NEW f, NEW g, NEW b \in DOMAIN B, NEW x,
         IsFiniteSet(s.user), IsFiniteSet(P), B[b].use \in Nat, B[b].ep = x,
         \A e : /\ x = e => Cardinality(HoldsAt(P, e)) = Cardinality(HoldsAt(Q, e)) + 1 /\ Cardinality(HoldsAt(Q, e)) \in Nat
                /\ x # e => HoldsAt(Q, e) = HoldsAt(P, e),
         \/ C = B /\ (g # 0 \/ B[b].use = 0)
         \/ /\ DOMAIN C = DOMAIN B /\ C[b].ep = B[b].ep /\ C[b].use \in Nat /\ B[b].use = C[b].use + 1
            /\ \A a \in DOMAIN B : a # b => C[a] = B[a],
         g = 0 => f = 0, CloudCounts(s, U, B, S, P, f)
  PROVE  CloudCounts(s, U, C, S, Q, g)
<1>1. ASSUME NEW e \in s.endpoint
      PROVE  Covered(s, C, S, Q, e) /\ (g = 0 /\ Exact(s, B, S, P, e) => Exact(s, C, S, Q, e))
  <2>0. Covered(s, B, S, P, e)
    BY DEF CloudCounts
  <2>1. /\ Cardinality(SubsAt(s, S, e)) \in Nat /\ Cardinality(HoldsAt(P, e)) \in Nat
    BY CountsFinite
  <2>2. Cardinality(SubsAt(s, S, e)) + Cardinality(HoldsAt(P, e)) <= Cardinality(SlotsAt(B, e)) /\ IsFiniteSet(SlotsAt(B, e))
    BY <2>0 DEF Covered
  <2>3. Cardinality(SlotsAt(B, e)) \in Nat
    BY <2>2, FS_CardinalityType
  <2>4. CASE C = B /\ x # e
    BY <2>0, <2>4 DEF Covered, Exact
  <2>5. CASE C = B /\ x = e /\ (g # 0 \/ B[b].use = 0)
    <3>1. Cardinality(HoldsAt(P, e)) = Cardinality(HoldsAt(Q, e)) + 1 /\ Cardinality(HoldsAt(Q, e)) \in Nat
      BY <2>5
    <3>2. Covered(s, C, S, Q, e)
      BY <2>1, <2>2, <2>3, <2>5, <3>1 DEF Covered
    <3>3. ASSUME g = 0, \A a, c \in BaseAt(B, e) : a = c
          PROVE  FALSE
      <4>1. b \in BaseAt(B, e)
        BY <2>5 DEF BaseAt
      <4>2. SlotsAt(B, e) = {}
        <5>1. ASSUME NEW a \in BaseAt(B, e), NEW k \in 1..B[a].use
              PROVE  FALSE
          BY <2>5, <3>3, <4>1, <5>1
        <5> QED BY <5>1, SlotMember
      <4>3. Cardinality(SlotsAt(B, e)) = 0
        BY <4>2, FS_EmptySet
      <4> QED BY <2>1, <2>2, <3>1, <4>3
    <3> QED BY <2>5, <3>2, <3>3 DEF Exact
  <2>6. ASSUME DOMAIN C = DOMAIN B, C[b].ep = B[b].ep, C[b].use \in Nat, B[b].use = C[b].use + 1,
               \A a \in DOMAIN B : a # b => C[a] = B[a]
        PROVE  Covered(s, C, S, Q, e) /\ (g = 0 /\ Exact(s, B, S, P, e) => Exact(s, C, S, Q, e))
    <3>1. /\ BaseAt(C, e) = BaseAt(B, e)
          /\ x # e => SlotsAt(C, e) = SlotsAt(B, e)
          /\ x = e => /\ SlotsAt(B, e) = SlotsAt(C, e) \cup {<<b, B[b].use>>}
                      /\ <<b, B[b].use>> \notin SlotsAt(C, e)
      BY <2>6, SlotsFall
    <3>2. CASE x # e
      BY <2>0, <3>1, <3>2 DEF Covered, Exact
    <3>3. CASE x = e
      <4>1. IsFiniteSet(SlotsAt(C, e))
        BY <2>2, <3>1, <3>3, FS_Subset
      <4>2. Cardinality(SlotsAt(B, e)) = Cardinality(SlotsAt(C, e)) + 1 /\ Cardinality(SlotsAt(C, e)) \in Nat
        BY <3>1, <3>3, <4>1, OneMore
      <4>3. Cardinality(HoldsAt(P, e)) = Cardinality(HoldsAt(Q, e)) + 1 /\ Cardinality(HoldsAt(Q, e)) \in Nat
        BY <3>3
      <4>4. Covered(s, C, S, Q, e)
        BY <2>1, <2>2, <4>1, <4>2, <4>3 DEF Covered
      <4>5. Exact(s, B, S, P, e) => Exact(s, C, S, Q, e)
        BY <2>1, <3>1, <4>2, <4>3 DEF Exact
      <4> QED BY <4>4, <4>5
    <3> QED BY <3>2, <3>3
  <2> QED BY <2>4, <2>5, <2>6
<1> QED BY <1>1 DEF CloudCounts

(* A new row has no slots taken.                                           *)
LEMMA CloudRowAdded ==
  ASSUME NEW s, NEW o, Cloud(s, o)!CloudWalletAssumption, CloudIInv(s), NEW r \in pend, Cloud(s, o)!StoreCloudWalletInfo(r)
  PROVE  CloudIInv(s)'
<1>0. /\ s.requests \in Nat /\ s.cap \subseteq Nat /\ r.op = "storeBase" /\ r.op \in AdminOps /\ r.op \notin HoldOps /\ r.op # "store"
      /\ users' = users /\ sub' = sub /\ tenants' = tenants /\ orphans' = orphans /\ faults' = faults
      /\ pend' = pend \ {r} /\ started' = started /\ started \in Nat
  BY CloudUnfolded DEF Cloud!StoreCloudWalletInfo, Cloud!agent, Cloud!End, AdminOps, HoldOps, CloudIInv
<1> DEFINE x == [ep |-> r.ep, active |-> TRUE, use |-> 0, max |-> r.max, top |-> r.max]
<1>1. base' = Append(base, x)
  BY DEF Cloud!StoreCloudWalletInfo, Cloud!BaseRow
<1>2. x \in CloudBase(s) /\ x.use = 0 /\ x.top \in Nat /\ x.max <= x.top /\ x.use <= x.top /\ x.ep = r.ep
  <2>1. r.ep \in s.endpoint /\ r.max \in s.cap /\ r.max \in Nat
    BY <1>0, CloudClaimFields
  <2> QED BY <2>1 DEF CloudBase
<1> HIDE DEF x
<1>3. base \in Seq(CloudBase(s)) /\ CloudBases(s, base)
  BY DEF CloudIInv, CloudBases
<1>4. /\ base' \in Seq(CloudBase(s)) /\ DOMAIN base = 1..Len(base) /\ DOMAIN base' = 1..Len(base) + 1 /\ Len(base) \in Nat
      /\ \A b \in 1..Len(base) : base'[b] = base[b]
      /\ base'[Len(base) + 1] = x
  BY <1>1, <1>2, <1>3
<1>5. CloudBases(s, base')
  <2>1. ASSUME NEW b \in DOMAIN base'
        PROVE  base'[b].use <= base'[b].top /\ base'[b].max <= base'[b].top
    <3>1. b \in DOMAIN base \/ b = Len(base) + 1
      BY <1>4
    <3> QED BY <1>2, <1>3, <1>4, <3>1 DEF CloudBases
  <2> QED BY <1>4, <2>1 DEF CloudBases
<1>6. BasesKept(base, base')
  <2>1. \A b \in DOMAIN base : base[b].top \in Nat
    BY <1>0, <1>3, CloudTops
  <2> QED BY <1>4, <2>1 DEF BasesKept
<1>7. CloudSubs(s, users, base', sub, started') /\ \A q \in pend : CloudFits(s, base', sub, tenants, q)
  BY <1>0, <1>3, <1>5, <1>6, CloudBasesKept DEF CloudIInv, CloudAsked
<1>8. ASSUME NEW e
      PROVE  SlotsAt(base', e) = SlotsAt(base, e) /\ BaseAt(base, e) \subseteq BaseAt(base', e)
  <2>1. BaseAt(base, e) \subseteq BaseAt(base', e)
    BY <1>0, <1>3, <1>5, <1>6, CloudBasesKept
  <2>2. \A b \in BaseAt(base', e) : (b \in BaseAt(base, e) /\ base'[b] = base[b]) \/ base'[b].use = 0
    <3>1. ASSUME NEW b \in BaseAt(base', e)
          PROVE  (b \in BaseAt(base, e) /\ base'[b] = base[b]) \/ base'[b].use = 0
      <4>1. b \in DOMAIN base \/ b = Len(base) + 1
        BY <1>4 DEF BaseAt
      <4> QED BY <1>2, <1>4, <4>1 DEF BaseAt
    <3> QED BY <3>1
  <2>3. \A b \in BaseAt(base, e) : base'[b] = base[b]
    BY <1>4 DEF BaseAt
  <2>4. ASSUME NEW p
        PROVE  p \in SlotsAt(base', e) <=> p \in SlotsAt(base, e)
    <3>1. ASSUME NEW b \in BaseAt(base', e), NEW k \in 1..base'[b].use, p = <<b, k>>
          PROVE  \E a \in BaseAt(base, e) : \E j \in 1..base[a].use : p = <<a, j>>
      <4>1. base'[b].use # 0
        BY <3>1
      <4>2. b \in BaseAt(base, e) /\ base'[b] = base[b]
        BY <2>2, <4>1
      <4> QED BY <3>1, <4>2
    <3>2. ASSUME NEW b \in BaseAt(base, e), NEW k \in 1..base[b].use, p = <<b, k>>
          PROVE  \E a \in BaseAt(base', e) : \E j \in 1..base'[a].use : p = <<a, j>>
      <4>1. b \in BaseAt(base', e) /\ base'[b] = base[b]
        BY <2>1, <2>3
      <4> QED BY <3>2, <4>1
    <3> QED BY <3>1, <3>2, SlotMember
  <2> QED BY <2>1, <2>4
<1>9. CloudCounts(s, users, base', sub, pend', faults')
  <2>1. \A e : HoldsAt(pend', e) = HoldsAt(pend, e)
    BY <1>0 DEF HoldsAt
  <2>2. CloudCounts(s, users, base, sub, pend, faults)
    BY DEF CloudIInv
  <2> QED BY <1>0, <1>8, <2>1, <2>2 DEF CloudCounts, Covered, Exact
<1>10. CloudAsked(s, started', pend')
  BY <1>0, CloudAskedEnds DEF CloudIInv
<1>11. CloudTenants(s, sub, tenants, orphans, pend', started')
  BY <1>0, CloudTenantsRest DEF CloudIInv
<1> QED BY <1>0, <1>5, <1>7, <1>9, <1>10, <1>11 DEF CloudIInv

LEMMA CloudAskedOn ==
  ASSUME NEW s, NEW n \in Nat, NEW P, CloudAsked(s, n, P)
  PROVE  CloudAsked(s, n + 1, P)
BY DEF CloudAsked

LEMMA SlotsSame ==
  ASSUME NEW B, NEW C, DOMAIN C = DOMAIN B, \A c \in DOMAIN B : C[c].ep = B[c].ep /\ C[c].use = B[c].use, NEW e
  PROVE  BaseAt(C, e) = BaseAt(B, e) /\ SlotsAt(C, e) = SlotsAt(B, e)
<1>1. BaseAt(C, e) = BaseAt(B, e) /\ \A c \in BaseAt(B, e) : C[c].use = B[c].use
  BY DEF BaseAt
<1> QED BY <1>1, SlotsEqual

(* Row b of B replaced by x, of the same endpoint and with the same slots. *)
LEMMA CloudRowReplaced ==
  ASSUME NEW s, s.cap \subseteq Nat, NEW B, CloudBases(s, B), NEW b \in DOMAIN B, NEW x \in CloudBase(s), NEW C,
         C = [c \in DOMAIN B |-> IF c = b THEN x ELSE B[c]], x.ep = B[b].ep, x.use = B[b].use, B[b].top <= x.top, x.max <= x.top
  PROVE  CloudBases(s, C) /\ BasesKept(B, C) /\ \A e : BaseAt(C, e) = BaseAt(B, e) /\ SlotsAt(C, e) = SlotsAt(B, e)
<1>1. /\ DOMAIN B = 1..Len(B) /\ Len(B) \in Nat
      /\ \A c \in DOMAIN B : /\ B[c] \in CloudBase(s) /\ B[c].top \in Nat /\ B[c].use \in Nat
                             /\ B[c].use <= B[c].top /\ B[c].max <= B[c].top
  BY CloudTops
<1>2. x.top \in Nat
  BY DEF CloudBase
<1>3. C[b] = x /\ DOMAIN C = DOMAIN B /\ \A c \in DOMAIN B : c # b => C[c] = B[c]
  OBVIOUS
<1>4. C \in Seq(CloudBase(s))
  BY <1>1
<1>5. \A c \in DOMAIN C : C[c].use <= C[c].top /\ C[c].max <= C[c].top
  BY <1>1, <1>2, <1>3
<1>6. BasesKept(B, C)
  BY <1>1, <1>3 DEF BasesKept
<1>7. \A c \in DOMAIN B : C[c].ep = B[c].ep /\ C[c].use = B[c].use
  BY <1>3
<1>8. \A e : BaseAt(C, e) = BaseAt(B, e) /\ SlotsAt(C, e) = SlotsAt(B, e)
  BY <1>3, <1>7, SlotsSame
<1> QED BY <1>4, <1>5, <1>6, <1>8 DEF CloudBases

RowUpdated(B, b, a, m) == [B EXCEPT ![b].active = a, ![b].max = m, ![b].top = IF m > @ THEN m ELSE @]
LEMMA CloudRowUpdated ==
  ASSUME NEW s, s.cap \subseteq Nat, NEW B, CloudBases(s, B), NEW b \in DOMAIN B, NEW a \in BOOLEAN, NEW m \in s.cap
  PROVE  LET C == RowUpdated(B, b, a, m)
         IN  CloudBases(s, C) /\ BasesKept(B, C) /\ \A e : BaseAt(C, e) = BaseAt(B, e) /\ SlotsAt(C, e) = SlotsAt(B, e)
<1> DEFINE h == IF m > B[b].top THEN m ELSE B[b].top
           x == [ep |-> B[b].ep, active |-> a, use |-> B[b].use, max |-> m, top |-> h]
           C == RowUpdated(B, b, a, m)
<1>1. B[b] \in CloudBase(s) /\ B[b].top \in Nat
  BY CloudTops
<1>2. B[b].top \in s.cap
  BY <1>1 DEF CloudBase
<1>3. h \in s.cap /\ B[b].top <= h /\ m <= h
  BY <1>1, <1>2
<1>4. DOMAIN C = DOMAIN B /\ \A c \in DOMAIN B : c # b => C[c] = B[c]
  BY DEF RowUpdated
<1>5. C[b] = x
  BY <1>1 DEF CloudBase, RowUpdated
<1>6. C = [c \in DOMAIN B |-> C[c]]
  BY DEF RowUpdated
<1> HIDE DEF h, C
<1>7. x \in CloudBase(s) /\ x.ep = B[b].ep /\ x.use = B[b].use /\ x.max = m /\ x.top = h
  BY <1>1, <1>3 DEF CloudBase
<1> HIDE DEF x
<1>8. C = [c \in DOMAIN B |-> IF c = b THEN x ELSE B[c]]
  BY <1>4, <1>5, <1>6
<1>9. CloudBases(s, C) /\ BasesKept(B, C) /\ \A e : BaseAt(C, e) = BaseAt(B, e) /\ SlotsAt(C, e) = SlotsAt(B, e)
  <2>1. PICK y, D : y = x /\ D = C
    OBVIOUS
  <2>2. /\ y \in CloudBase(s) /\ y.ep = B[b].ep /\ y.use = B[b].use /\ B[b].top <= y.top /\ y.max <= y.top
        /\ D = [c \in DOMAIN B |-> IF c = b THEN y ELSE B[c]]
    BY <1>3, <1>7, <1>8, <2>1
  <2>3. CloudBases(s, D) /\ BasesKept(B, D) /\ \A e : BaseAt(D, e) = BaseAt(B, e) /\ SlotsAt(D, e) = SlotsAt(B, e)
    BY <2>2, CloudRowReplaced
  <2> QED BY <2>1, <2>3
<1> QED BY <1>9 DEF C

LEMMA CloudUpdates ==
  ASSUME NEW s, NEW o, Cloud(s, o)!CloudWalletAssumption, CloudIInv(s),
         NEW b \in DOMAIN base, NEW a \in BOOLEAN, NEW m \in s.cap, Cloud(s, o)!UpdateBaseWallet(b, a, m)
  PROVE  CloudIInv(s)'
<1>0. /\ s.requests \in Nat /\ s.cap \subseteq Nat /\ started \in Nat /\ started' = started + 1 /\ started' \in 0..s.requests
      /\ users' = users /\ sub' = sub /\ tenants' = tenants /\ orphans' = orphans /\ faults' = faults /\ pend' = pend
      /\ CloudBases(s, base)
  <2>1. /\ started < s.requests /\ started' = started + 1
        /\ users' = users /\ sub' = sub /\ tenants' = tenants /\ orphans' = orphans /\ faults' = faults /\ pend' = pend
    BY Zenon DEF Cloud!UpdateBaseWallet, Cloud!agent
  <2>2. s.requests \in Nat /\ s.cap \subseteq Nat
    BY Zenon, CloudUnfolded
  <2>3. started \in 0..s.requests /\ CloudBases(s, base)
    BY Zenon DEF CloudIInv
  <2> QED BY <2>1, <2>2, <2>3
<1>1. CloudBases(s, base') /\ BasesKept(base, base')
      /\ \A e : BaseAt(base', e) = BaseAt(base, e) /\ SlotsAt(base', e) = SlotsAt(base, e)
  <2>1. PICK B, C : B = base /\ C = base'
    OBVIOUS
  <2>2. C = RowUpdated(B, b, a, m) /\ b \in DOMAIN B /\ CloudBases(s, B)
    BY <1>0, <2>1 DEF Cloud!UpdateBaseWallet, RowUpdated
  <2>3. CloudBases(s, C) /\ BasesKept(B, C) /\ \A e : BaseAt(C, e) = BaseAt(B, e) /\ SlotsAt(C, e) = SlotsAt(B, e)
    BY <1>0, <2>2, CloudRowUpdated
  <2> QED BY <2>1, <2>3
<1>2. CloudSubs(s, users, base', sub, started) /\ \A q \in pend : CloudFits(s, base', sub, tenants, q)
  BY <1>0, <1>1, CloudBasesKept DEF CloudIInv, CloudAsked
<1>3. CloudSubs(s, users, base', sub, started')
  BY <1>0, <1>2, CloudSubsRest
<1>4. CloudAsked(s, started', pend')
  BY <1>0, CloudAskedOn DEF CloudIInv
<1>5. CloudTenants(s, sub, tenants, orphans, pend', started')
  BY <1>0, CloudTenantsRest DEF CloudIInv
<1>6. CloudCounts(s, users, base', sub, pend', faults')
  <2>1. CloudCounts(s, users, base, sub, pend, faults)
    BY DEF CloudIInv
  <2> QED BY <1>0, <1>1, <2>1 DEF CloudCounts, Covered, Exact
<1> QED BY <1>0, <1>1, <1>2, <1>3, <1>4, <1>5, <1>6 DEF CloudIInv

LEMMA CloudClaimed ==
  ASSUME NEW s, NEW o, Cloud(s, o)!CloudWalletAssumption, CloudIInv(s), NEW r \in pend, Cloud(s, o)!ClaimBaseWalletCapacity(r)
  PROVE  CloudIInv(s)'
<1>0. /\ r.op = "claim" /\ r.op \in ClaimOps /\ r.op \notin HoldOps
      /\ users' = users /\ sub' = sub /\ tenants' = tenants /\ orphans' = orphans /\ faults' = faults
      /\ s.requests \in Nat /\ s.cap \subseteq Nat /\ IsFiniteSet(s.user) /\ faults \in 0..s.faults
      /\ CloudBases(s, base) /\ CloudCounts(s, users, base, sub, pend, faults)
  BY CloudUnfolded DEF Cloud!ClaimBaseWalletCapacity, Cloud!agent, ClaimOps, HoldOps, CloudIInv
<1>1. CASE Cloud(s, o)!End(r) /\ base' = base
  BY <1>0, <1>1, CloudEnds
<1>z. PICK k : k = "tenant"
  OBVIOUS
<1>2. CASE base[r.b].use < r.max /\ base' = [base EXCEPT ![r.b].use = @ + 1] /\ Cloud(s, o)!Go(r, "tenant")
  <2>1. /\ CloudRequest(s, r) /\ CloudFits(s, base, sub, tenants, r) /\ r.n \in 1..started
        /\ started \in Nat /\ IsFiniteSet(pend) /\ r.ep \in s.endpoint /\ r.max \in Nat
    BY <1>0, CloudClaimFields
  <2> DEFINE z == [r EXCEPT !.op = k]
  <2>2. CloudRequest(s, z) /\ z.op = k /\ z.n = r.n /\ z.b = r.b /\ z.ep = r.ep /\ z.op \in HoldOps /\ z.op \notin DropOps
    BY <1>0, <1>z, <2>1, CloudClaimGoes DEF ClaimOps, HoldOps, DropOps
  <2>3. pend' = (pend \ {r}) \cup {z} /\ started' = started
    BY <1>z, <1>2 DEF Cloud!Go, Cloud!Turn
  <2> HIDE DEF z
  <2>4. CloudAsked(s, started', pend') /\ z \notin pend \ {r}
    BY <2>1, <2>2, <2>3, CloudAskedTurns DEF CloudIInv
  <2>5. r.b \in DOMAIN base /\ base[r.b].ep = r.ep /\ r.max <= base[r.b].top
    BY <1>0, <2>1 DEF CloudFits, BaseOps, ClaimOps, BaseAt
  <2>6. base[r.b].use \in Nat /\ base[r.b].top \in Nat
    BY <1>0, <2>5, CloudTops
  <2>7. PICK B, C, b, j : B = base /\ C = base' /\ b = r.b /\ j = base[r.b].use + 1
    OBVIOUS
  <2>8. b \in DOMAIN B /\ CloudBases(s, B) /\ j \in Nat /\ j <= B[b].top /\ C = CountSet(B, b, j)
    BY <1>0, <1>2, <2>1, <2>5, <2>6, <2>7 DEF CountSet
  <2>9. /\ CloudBases(s, C) /\ BasesKept(B, C) /\ DOMAIN C = DOMAIN B
        /\ C[b].use = j /\ C[b].ep = B[b].ep /\ \A a \in DOMAIN B : a # b => C[a] = B[a]
    BY <1>0, <2>8, CloudCountSet
  <2>10. CloudSubs(s, users, base', sub, started) /\ \A q \in pend : CloudFits(s, base', sub, tenants, q)
    <3>1. CloudBases(s, base') /\ BasesKept(base, base')
      BY <2>7, <2>9
    <3> QED BY <1>0, <3>1, CloudBasesKept DEF CloudIInv, CloudAsked
  <2>11. CloudFits(s, base', sub, tenants, z)
    BY <1>0, <1>z, <2>2, <2>10 DEF CloudFits, BaseOps, DropOps, ClaimOps
  <2>12. CloudCounts(s, users, base', sub, pend', faults')
    <3>1. PICK P, Q : P = pend /\ Q = pend'
      OBVIOUS
    <3>2. \A e : /\ r.ep = e => Cardinality(HoldsAt(Q, e)) = Cardinality(HoldsAt(P, e)) + 1
                 /\ r.ep # e => HoldsAt(Q, e) = HoldsAt(P, e)
      BY <1>0, <2>1, <2>2, <2>3, <2>4, <3>1, HoldsGain
    <3>3. /\ IsFiniteSet(s.user) /\ IsFiniteSet(P) /\ B[b].use \in Nat /\ B[b].ep = r.ep /\ C[b].use = B[b].use + 1
          /\ CloudCounts(s, users, B, sub, P, faults)
      BY <1>0, <2>1, <2>5, <2>6, <2>7, <2>9, <3>1
    <3>4. CloudCounts(s, users, C, sub, Q, faults)
      BY <2>8, <2>9, <3>2, <3>3, CloudCountsClaim
    <3> QED BY <1>0, <2>7, <3>1, <3>4
  <2>13. CloudTenants(s, sub, tenants, orphans, pend', started')
    BY <1>0, <2>1, <2>3, CloudTenantsRest DEF CloudIInv
  <2>14. \A q \in pend' : CloudFits(s, base', sub, tenants, q)
    BY <2>3, <2>10, <2>11
  <2>15. CloudBases(s, base')
    BY <2>7, <2>9
  <2> QED BY <1>0, <2>3, <2>4, <2>10, <2>12, <2>13, <2>14, <2>15 DEF CloudIInv
<1> QED BY <1>1, <1>2 DEF Cloud!ClaimBaseWalletCapacity

(* A slot is given back by a request that ends or goes on to delete the    *)
(* user.                                                                   *)
LEMMA CloudReturned ==
  ASSUME NEW s, NEW o, Cloud(s, o)!CloudWalletAssumption, CloudIInv(s), NEW r \in pend, r.op \in {"release", "decrement"},
         \/ base' = [base EXCEPT ![r.b].use = IF @ > 0 THEN @ - 1 ELSE 0] /\ faults' = faults
         \/ Cloud(s, o)!Fault /\ base' = base,
         CloudAsked(s, started', pend'), \A q \in pend' : CloudFits(s, base, sub, tenants, q), started' = started,
         pend \ {r} \subseteq pend', \A z \in pend' : z \in pend \ {r} \/ z.op \notin HoldOps,
         UNCHANGED <<users, sub, tenants, orphans>>
  PROVE  CloudIInv(s)'
<1>0. /\ users' = users /\ sub' = sub /\ tenants' = tenants /\ orphans' = orphans
      /\ s.requests \in Nat /\ s.cap \subseteq Nat /\ IsFiniteSet(s.user)
      /\ CloudBases(s, base) /\ CloudCounts(s, users, base, sub, pend, faults)
  BY CloudUnfolded DEF CloudIInv
<1>1. /\ CloudFits(s, base, sub, tenants, r) /\ started \in Nat /\ IsFiniteSet(pend)
  BY <1>0, CloudClaimFields
<1>2. r.op \in BaseOps /\ r.op \in HoldOps /\ r.op # "store"
  BY DEF BaseOps, ClaimOps, HoldOps
<1>3. r.b \in DOMAIN base /\ base[r.b].ep = r.ep
  BY <1>1, <1>2 DEF CloudFits, BaseAt
<1>4. base[r.b].use \in Nat /\ base[r.b].top \in Nat /\ base[r.b].use <= base[r.b].top
  BY <1>0, <1>3, CloudTops
<1>5. faults' \in 0..s.faults /\ (faults' = 0 => faults = 0)
  BY CloudFaultCounts
<1>6. PICK B, C, b, j, P, Q, f, g : /\ B = base /\ C = base' /\ b = r.b /\ P = pend /\ Q = pend' /\ f = faults /\ g = faults'
                                    /\ j = IF base[r.b].use > 0 THEN base[r.b].use - 1 ELSE 0
  OBVIOUS
<1>7. b \in DOMAIN B /\ CloudBases(s, B) /\ B[b].use \in Nat /\ B[b].top \in Nat /\ B[b].use <= B[b].top /\ B[b].ep = r.ep
  BY <1>0, <1>3, <1>4, <1>6
<1>8. /\ \A e : /\ r.ep = e => Cardinality(HoldsAt(P, e)) = Cardinality(HoldsAt(Q, e)) + 1 /\ Cardinality(HoldsAt(Q, e)) \in Nat
                /\ r.ep # e => HoldsAt(Q, e) = HoldsAt(P, e)
      /\ g = 0 => f = 0
      /\ CloudCounts(s, users, B, sub, P, f) /\ IsFiniteSet(P) /\ IsFiniteSet(s.user)
  BY <1>0, <1>1, <1>2, <1>5, <1>6, HoldsLose
<1>9. CloudBases(s, C) /\ BasesKept(B, C) /\ CloudCounts(s, users, C, sub, Q, g)
  <2>0. BasesKept(B, B)
    BY <1>0, <1>7, CloudTops DEF BasesKept
  <2>1. CASE C = B /\ g # 0
    <3>1. CloudCounts(s, users, C, sub, Q, g)
      BY <1>7, <1>8, <2>1, CloudCountsReturn
    <3> QED BY <1>7, <2>0, <2>1, <3>1
  <2>2. CASE C = CountSet(B, b, j)
    <3>1. j \in Nat /\ j <= B[b].top /\ ((B[b].use = 0 /\ j = 0) \/ B[b].use = j + 1)
      BY <1>6, <1>7
    <3>2. /\ CloudBases(s, C) /\ BasesKept(B, C) /\ DOMAIN C = DOMAIN B
          /\ C[b].use = j /\ C[b].ep = B[b].ep /\ \A a \in DOMAIN B : a # b => C[a] = B[a]
      BY <1>0, <1>7, <2>2, <3>1, CloudCountSet
    <3>3. CASE B[b].use = 0
      <4>1. B[b].use = j
        BY <3>1, <3>3
      <4>2. B \in Seq(CloudBase(s)) /\ B[b] \in CloudBase(s)
        BY <1>0, <1>7, CloudTops DEF CloudBases
      <4>3. [B[b] EXCEPT !.use = j] = B[b]
        BY <4>1, <4>2 DEF CloudBase
      <4>4. C = B
        BY <1>7, <2>2, <4>2, <4>3 DEF CountSet
      <4>5. CloudCounts(s, users, C, sub, Q, g)
        BY <1>7, <1>8, <3>3, <4>4, CloudCountsReturn
      <4> QED BY <3>2, <4>5
    <3>4. CASE B[b].use = j + 1
      <4>1. CloudCounts(s, users, C, sub, Q, g)
        BY <1>7, <1>8, <3>1, <3>2, <3>4, CloudCountsReturn
      <4> QED BY <3>2, <4>1
    <3> QED BY <3>1, <3>3, <3>4
  <2>3. (C = B /\ g # 0) \/ C = CountSet(B, b, j)
    <3>1. CASE Cloud(s, o)!Fault /\ base' = base
      BY <1>6, <3>1 DEF Cloud!Fault, CloudIInv
    <3>2. CASE base' = [base EXCEPT ![r.b].use = IF @ > 0 THEN @ - 1 ELSE 0]
      BY <1>6, <3>2 DEF CountSet
    <3> QED BY <3>1, <3>2
  <2> QED BY <2>1, <2>2, <2>3
<1>10. CloudBases(s, base') /\ BasesKept(base, base') /\ CloudCounts(s, users, base', sub, pend', faults')
  BY <1>6, <1>9
<1>11. CloudSubs(s, users, base', sub, started) /\ \A q \in pend' : CloudFits(s, base', sub, tenants, q)
  BY <1>0, <1>10, CloudBasesKept DEF CloudIInv, CloudAsked
<1>12. CloudTenants(s, sub, tenants, orphans, pend', started')
  BY <1>0, <1>1, <1>2, CloudTenantsRest DEF CloudIInv
<1> QED BY <1>0, <1>5, <1>10, <1>11, <1>12 DEF CloudIInv

LEMMA CloudReleased ==
  ASSUME NEW s, NEW o, Cloud(s, o)!CloudWalletAssumption, CloudIInv(s), NEW r \in pend, Cloud(s, o)!Release(r)
  PROVE  CloudIInv(s)'
<1>1. /\ r.op = "release" /\ UNCHANGED <<users, sub, tenants, orphans>> /\ pend' = pend \ {r} /\ started' = started
      /\ \/ base' = [base EXCEPT ![r.b].use = IF @ > 0 THEN @ - 1 ELSE 0] /\ faults' = faults
         \/ Cloud(s, o)!Fault /\ base' = base
  BY DEF Cloud!Release, Cloud!End, Cloud!agent
<1>2. CloudAsked(s, started', pend')
  BY <1>1, CloudAskedEnds DEF CloudIInv
<1>3. \A q \in pend' : CloudFits(s, base, sub, tenants, q)
  BY <1>1 DEF CloudIInv
<1> QED BY <1>1, <1>2, <1>3, CloudReturned

LEMMA CloudDecremented ==
  ASSUME NEW s, NEW o, Cloud(s, o)!CloudWalletAssumption, CloudIInv(s), NEW r \in pend,
         Cloud(s, o)!DecrementBaseWalletUseCount(r)
  PROVE  CloudIInv(s)'
<1>1. /\ r.op = "decrement" /\ UNCHANGED <<users, sub, tenants, orphans>> /\ Cloud(s, o)!After(r)
      /\ \/ base' = [base EXCEPT ![r.b].use = IF @ > 0 THEN @ - 1 ELSE 0] /\ faults' = faults
         \/ Cloud(s, o)!Fault /\ base' = base
  BY DEF Cloud!DecrementBaseWalletUseCount, Cloud!agent
<1>2. CASE Cloud(s, o)!End(r)
  <2>1. pend' = pend \ {r} /\ started' = started
    BY <1>2 DEF Cloud!End
  <2>2. CloudAsked(s, started', pend')
    BY <2>1, CloudAskedEnds DEF CloudIInv
  <2>3. \A q \in pend' : CloudFits(s, base, sub, tenants, q)
    BY <2>1 DEF CloudIInv
  <2> QED BY <1>1, <2>1, <2>2, <2>3, CloudReturned
<1> DEFINE z == [op |-> "deleteUser", user |-> r.user, n |-> r.n]
<1>3. CASE Cloud(s, o)!Turn(r, z)
  <2>0. s.requests \in Nat
    BY CloudUnfolded
  <2>1. CloudRequest(s, r) /\ CloudFits(s, base, sub, tenants, r) /\ r.user \in s.user /\ started \in Nat
    BY <1>1, <2>0, CloudClaimFields
  <2>2. CloudRequest(s, z) /\ z.n = r.n /\ z.op \notin BaseOps /\ z.op \notin HoldOps /\ z.op \notin DropOps
    BY <2>1 DEF CloudRequest, AdminOps, BeginOps, ClaimOps, DropOps, BaseOps, HoldOps
  <2>3. pend' = (pend \ {r}) \cup {z} /\ started' = started
    BY <1>3 DEF Cloud!Turn
  <2> HIDE DEF z
  <2>4. CloudAsked(s, started', pend')
    BY <2>1, <2>2, <2>3, CloudAskedTurns DEF CloudIInv
  <2>5. CloudFits(s, base, sub, tenants, z)
    <3>1. r.op \notin {"store", "release"}
      BY <1>1
    <3> QED BY <2>1, <2>2, <3>1, CloudSameFits
  <2>6. \A q \in pend' : CloudFits(s, base, sub, tenants, q)
    BY <2>3, <2>5 DEF CloudIInv
  <2>7. pend \ {r} \subseteq pend' /\ \A q \in pend' : q \in pend \ {r} \/ q.op \notin HoldOps
    BY <2>2, <2>3
  <2> QED BY <1>1, <2>3, <2>4, <2>6, <2>7, CloudReturned
<1> QED BY <1>1, <1>2, <1>3 DEF Cloud!After

-----------------------------------------------------------------------------
(* Deletion: the tenant, the row, the user.                                *)
LEMMA CloudTenantDropped ==
  ASSUME NEW s, NEW o, Cloud(s, o)!CloudWalletAssumption, CloudIInv(s), NEW r \in pend, Cloud(s, o)!DeleteTenant(r)
  PROVE  CloudIInv(s)'
<1>0. /\ r.op = "dropTenant" /\ r.op \in DropOps /\ r.op \notin HoldOps
      /\ users' = users /\ base' = base /\ sub' = sub /\ orphans' = orphans
      /\ tenants' = tenants \/ tenants' = {t \in tenants : t.id # r.id}
      /\ \/ Cloud(s, o)!Go(r, "dropRow") /\ tenants' = {t \in tenants : t.id # r.id}
         \/ Cloud(s, o)!End(r)
      /\ UNCHANGED faults \/ Cloud(s, o)!Fault
  BY DEF Cloud!DeleteTenant, Cloud!rows, DropOps, HoldOps
<1>1. s.requests \in Nat /\ tenants' \subseteq tenants
  BY <1>0, CloudUnfolded
<1>2. CloudRequest(s, r) /\ CloudFits(s, base, sub, tenants, r) /\ started \in Nat
  BY <1>1, CloudClaimFields
<1>3. faults' \in 0..s.faults /\ (faults' = 0 => faults = 0)
  BY <1>0, CloudFaultCounts
<1>4. \A q : CloudFits(s, base, sub, tenants, q) => CloudFits(s, base, sub, tenants', q)
  BY <1>1 DEF CloudFits
<1>5. ASSUME started' = started, CloudAsked(s, started', pend'), \A q \in pend' : CloudFits(s, base, sub, tenants', q),
             pend \ {r} \subseteq pend', \A e : HoldsAt(pend', e) = HoldsAt(pend, e)
      PROVE  CloudIInv(s)'
  <2>1. CloudTenants(s, sub, tenants', orphans, pend', started')
    <3>1. CloudTenants(s, sub, tenants, orphans, pend', started')
      BY <1>0, <1>1, <1>2, <1>5, CloudTenantsRest DEF CloudIInv
    <3> QED BY <1>1, <3>1 DEF CloudTenants
  <2>2. CloudCounts(s, users, base, sub, pend', faults')
    BY <1>3, <1>5, CloudCountsRest DEF CloudIInv
  <2> QED BY <1>0, <1>3, <1>5, <2>1, <2>2 DEF CloudIInv
<1>6. CASE Cloud(s, o)!End(r)
  <2>1. pend' = pend \ {r} /\ started' = started
    BY <1>6 DEF Cloud!End
  <2>2. CloudAsked(s, started', pend')
    BY <2>1, CloudAskedEnds DEF CloudIInv
  <2>3. \A q \in pend' : CloudFits(s, base, sub, tenants', q)
    BY <1>4, <2>1 DEF CloudIInv
  <2>4. \A e : HoldsAt(pend', e) = HoldsAt(pend, e)
    BY <1>0, <2>1 DEF HoldsAt
  <2> QED BY <1>5, <2>1, <2>2, <2>3, <2>4
<1>7. CASE Cloud(s, o)!Go(r, "dropRow") /\ tenants' = {t \in tenants : t.id # r.id}
  <2>z. PICK k : k = "dropRow"
    OBVIOUS
  <2> DEFINE z == [r EXCEPT !.op = k]
  <2>1. CloudRequest(s, z) /\ z.op = k /\ z.n = r.n /\ z.b = r.b /\ z.ep = r.ep /\ z.id = r.id /\ z.op \notin HoldOps
    BY <1>0, <1>2, <2>z, CloudDropGoes DEF DropOps, HoldOps
  <2>2. pend' = (pend \ {r}) \cup {z} /\ started' = started
    BY <1>7, <2>z DEF Cloud!Go, Cloud!Turn
  <2> HIDE DEF z
  <2>3. z.id \in 1..started /\ \A q \in pend : z.id # q.n
    BY <1>0, <2>1 DEF CloudIInv, CloudAsked
  <2>4. CloudAsked(s, started', pend')
    BY <1>2, <2>1, <2>2, <2>3, CloudAskedTurns DEF CloudIInv
  <2>5. CloudFits(s, base, sub, tenants', z)
    <3>1. CloudFits(s, base, sub, tenants', r)
      BY <1>2, <1>4
    <3>2. \A t \in tenants' : t.id # z.id /\ t.id # z.n
      BY <1>0, <1>7, <2>1, <3>1 DEF CloudFits
    <3> QED BY <1>0, <2>z, <2>1, <3>1, <3>2 DEF CloudFits, BaseOps, DropOps, ClaimOps
  <2>6. \A q \in pend' : CloudFits(s, base, sub, tenants', q)
    BY <1>4, <2>2, <2>5 DEF CloudIInv
  <2>7. \A e : HoldsAt(pend', e) = HoldsAt(pend, e)
    BY <1>0, <2>1, <2>2 DEF HoldsAt
  <2> QED BY <1>5, <2>2, <2>4, <2>6, <2>7
<1> QED BY <1>0, <1>6, <1>7

(* The row of user u goes.                                                 *)
LEMMA CloudRowGone ==
  ASSUME NEW s, NEW o, Cloud(s, o)!CloudWalletAssumption, CloudIInv(s), NEW u \in s.user, NEW R,
         R \in [s.user -> Wallets(s) \cup {[id |-> 0]}], R[u] = [id |-> 0], \A v \in s.user : v # u => R[v] = sub[v]
  PROVE  /\ \A U : (\A v \in users : v # u => v \in U) => CloudSubs(s, U, base, R, started)
         /\ \A T, r : CloudFits(s, base, sub, T, r) /\ r.n \in 1..started /\ (r.op \in DropOps => r.id \in 1..started)
                         => CloudFits(s, base, R, T, r)
<1>0. started \in Nat /\ R \in SubRows(s) /\ R[u].id = 0 /\ s.requests \in Nat
  BY CloudUnfolded DEF CloudIInv, SubRows
<1>1. ASSUME NEW U, \A v \in users : v # u => v \in U
      PROVE  CloudSubs(s, U, base, R, started)
  <2>1. \A v \in s.user : R[v].id <= started /\ (R[v].id # 0 => v \in U /\ BaseAt(base, R[v].ep) # {})
    BY <1>0, <1>1 DEF CloudIInv, CloudSubs
  <2>2. \A v, w \in s.user : R[v].id = R[w].id /\ R[v].id # 0 => v = w
    BY <1>0 DEF CloudIInv, CloudSubs
  <2> QED BY <1>0, <2>1, <2>2 DEF CloudSubs
<1>2. ASSUME NEW T, NEW r, CloudFits(s, base, sub, T, r), r.n \in 1..started, r.op \in DropOps => r.id \in 1..started
      PROVE  CloudFits(s, base, R, T, r)
  <2>1. \A v \in s.user : R[v].id # r.n
    BY <1>0, <1>2 DEF CloudFits
  <2>2. r.op \in DropOps => \A v \in s.user : R[v].id = r.id => R[v].ep = r.ep
    BY <1>0, <1>2 DEF CloudFits
  <2> QED BY <1>2, <2>1, <2>2 DEF CloudFits
<1> QED BY <1>1, <1>2

LEMMA CloudRowDropped ==
  ASSUME NEW s, NEW o, Cloud(s, o)!CloudWalletAssumption, CloudIInv(s), NEW r \in pend, Cloud(s, o)!DeleteCloudWalletDetails(r)
  PROVE  CloudIInv(s)'
<1>0. /\ r.op = "dropRow" /\ r.op \in DropOps /\ r.op \notin HoldOps
      /\ users' = users /\ base' = base /\ tenants' = tenants /\ orphans' = orphans /\ faults' = faults
      /\ s.requests \in Nat /\ IsFiniteSet(s.user) /\ faults \in 0..s.faults
  BY CloudUnfolded DEF Cloud!DeleteCloudWalletDetails, Cloud!agent, DropOps, HoldOps, CloudIInv
<1>1. CASE Cloud(s, o)!End(r) /\ sub' = sub
  BY <1>0, <1>1, CloudEnds
<1>2. CASE /\ \E u \in s.user : sub[u].id = r.id
           /\ Cloud(s, o)!Go(r, "decrement") /\ sub' = [u \in s.user |-> IF sub[u].id = r.id THEN [id |-> 0] ELSE sub[u]]
  <2>1. /\ CloudRequest(s, r) /\ CloudFits(s, base, sub, tenants, r) /\ r.n \in 1..started
        /\ started \in Nat /\ IsFiniteSet(pend) /\ r.ep \in s.endpoint
    BY <1>0, CloudClaimFields
  <2>2. r.id \in 1..started /\ \A q \in pend : q.n # r.id
    BY <1>0 DEF CloudIInv, CloudAsked
  <2>3. PICK u \in s.user : sub[u].id = r.id
    BY <1>2
  <2>4. sub[u].ep = r.ep /\ \A t \in tenants : t.id # r.id
    BY <1>0, <2>1, <2>3 DEF CloudFits
  <2>5. \A v \in s.user : v # u => sub[v].id # r.id
    BY <2>2, <2>3 DEF CloudIInv, CloudSubs
  <2>6. sub \in SubRows(s)
    BY DEF CloudIInv, CloudSubs
  <2>7. PICK S, R : S = sub /\ R = sub'
    OBVIOUS
  <2>8. /\ R \in [s.user -> Wallets(s) \cup {[id |-> 0]}] /\ R[u] = [id |-> 0] /\ \A v \in s.user : v # u => R[v] = sub[v]
        /\ S[u].id # 0 /\ R[u].id = 0 /\ S[u].ep = r.ep /\ \A v \in s.user : v # u => S[v] = R[v]
    BY <1>2, <2>2, <2>3, <2>4, <2>5, <2>6, <2>7 DEF SubRows
  <2>z. PICK k : k = "decrement"
    OBVIOUS
  <2> DEFINE z == [r EXCEPT !.op = k]
  <2>9. CloudRequest(s, z) /\ z.op = k /\ z.n = r.n /\ z.b = r.b /\ z.ep = r.ep /\ z.op \in HoldOps /\ z.op \notin DropOps
    BY <1>0, <2>1, <2>z, CloudDropGoes DEF DropOps, HoldOps
  <2>10. pend' = (pend \ {r}) \cup {z} /\ started' = started
    BY <1>2, <2>z DEF Cloud!Go, Cloud!Turn
  <2> HIDE DEF z
  <2>11. CloudAsked(s, started', pend') /\ z \notin pend \ {r}
    BY <2>1, <2>9, <2>10, CloudAskedTurns DEF CloudIInv
  <2>12. CloudSubs(s, users, base, sub', started')
    BY <2>7, <2>8, <2>10, CloudRowGone
  <2>13. CloudFits(s, base, sub, tenants, z)
    BY <1>0, <2>z, <2>1, <2>9 DEF CloudFits, BaseOps, ClaimOps
  <2>14. \A q \in pend' : CloudFits(s, base, sub', tenants, q)
    <3>1. \A q \in pend' : CloudFits(s, base, sub, tenants, q)
      BY <2>10, <2>13 DEF CloudIInv
    <3>2. \A q \in pend' : q.n \in 1..started /\ (q.op \in DropOps => q.id \in 1..started)
      BY <2>10, <2>11 DEF CloudAsked
    <3> QED BY <2>7, <2>8, <3>1, <3>2, CloudRowGone
  <2>15. CloudTenants(s, sub', tenants, orphans, pend', started')
    <3>1. ASSUME NEW t \in tenants
          PROVE  Accounted(s, sub', orphans, pend', t)
      <4>1. Accounted(s, sub, orphans, pend, t) /\ t.id # sub[u].id
        BY <2>3, <2>4 DEF CloudIInv, CloudTenants
      <4>2. CASE \E v \in s.user : sub[v].id = t.id
        BY <2>7, <2>8, <4>1, <4>2 DEF Accounted
      <4>3. CASE \E q \in pend : q.op = "store" /\ q.n = t.id
        BY <1>0, <2>10, <4>3 DEF Accounted
      <4>4. CASE t.id \in orphans
        BY <4>4 DEF Accounted
      <4> QED BY <4>1, <4>2, <4>3, <4>4 DEF Accounted
    <3> QED BY <2>10, <3>1 DEF CloudIInv, CloudTenants
  <2>16. CloudCounts(s, users, base, sub', pend', faults)
    <3>1. ASSUME NEW e \in s.endpoint
          PROVE  Cardinality(SubsAt(s, sub', e)) + Cardinality(HoldsAt(pend', e))
                   = Cardinality(SubsAt(s, sub, e)) + Cardinality(HoldsAt(pend, e))
      <4>1. /\ z.ep = e => Cardinality(HoldsAt(pend', e)) = Cardinality(HoldsAt(pend, e)) + 1
            /\ z.ep # e => HoldsAt(pend', e) = HoldsAt(pend, e)
        BY <1>0, <2>1, <2>9, <2>10, <2>11, HoldsGain
      <4>2. /\ r.ep = e => /\ Cardinality(SubsAt(s, S, e)) = Cardinality(SubsAt(s, R, e)) + 1
                           /\ Cardinality(SubsAt(s, R, e)) \in Nat
            /\ r.ep # e => SubsAt(s, S, e) = SubsAt(s, R, e)
        <5>1. IsFiniteSet(s.user)
          BY <1>0
        <5>2. R[u].id = 0 /\ S[u].id # 0 /\ \A v \in s.user : v # u => S[v] = R[v]
          BY <2>8
        <5>3. /\ S[u].ep = e => /\ Cardinality(SubsAt(s, S, e)) = Cardinality(SubsAt(s, R, e)) + 1
                                /\ Cardinality(SubsAt(s, R, e)) \in Nat
              /\ S[u].ep # e => SubsAt(s, S, e) = SubsAt(s, R, e)
          BY <5>1, <5>2, SubsGain
        <5> QED BY <2>8, <5>3
      <4>3. Cardinality(HoldsAt(pend, e)) \in Nat
        BY <1>0, <2>1, CountsFinite
      <4> QED BY <2>7, <2>9, <4>1, <4>2, <4>3
    <3> QED BY <3>1 DEF CloudIInv, CloudCounts, Covered, Exact
  <2> QED BY <1>0, <2>10, <2>11, <2>12, <2>14, <2>15, <2>16 DEF CloudIInv
<1> QED BY <1>1, <1>2 DEF Cloud!DeleteCloudWalletDetails, Cloud!None

LEMMA CloudUserDeleted ==
  ASSUME NEW s, NEW o, Cloud(s, o)!CloudWalletAssumption, CloudIInv(s), NEW r \in pend, Cloud(s, o)!DeleteUser(r)
  PROVE  CloudIInv(s)'
<1>0. /\ r.op = "deleteUser" /\ r.op \notin HoldOps /\ r.op # "store" /\ pend' = pend \ {r} /\ started' = started
      /\ users' = users \ {r.user} /\ base' = base /\ tenants' = tenants /\ faults' = faults
      /\ sub' = [sub EXCEPT ![r.user] = [id |-> 0]] /\ orphans' = orphans \cup ({sub[r.user].id} \ {0})
      /\ s.requests \in Nat /\ IsFiniteSet(s.user)
  BY CloudUnfolded DEF Cloud!DeleteUser, Cloud!End, Cloud!None, HoldOps
<1>1. r.user \in s.user /\ started \in Nat /\ IsFiniteSet(pend)
  BY <1>0, CloudClaimFields
<1>2. PICK u, S, R, U : u = r.user /\ S = sub /\ R = sub' /\ U = users' /\ u \in s.user
  BY <1>1
<1>3. sub \in SubRows(s)
  BY DEF CloudIInv, CloudSubs
<1>4. /\ R \in [s.user -> Wallets(s) \cup {[id |-> 0]}] /\ R[u] = [id |-> 0] /\ \A v \in s.user : v # u => R[v] = sub[v]
      /\ \A v \in users : v # u => v \in U
  BY <1>0, <1>1, <1>2, <1>3 DEF SubRows
<1>5. CloudSubs(s, users', base, sub', started')
  BY <1>0, <1>2, <1>4, CloudRowGone
<1>6. CloudAsked(s, started', pend')
  BY <1>0, CloudAskedEnds DEF CloudIInv
<1>7. \A q \in pend' : CloudFits(s, base, sub', tenants, q)
  <2>1. \A q \in pend : CloudFits(s, base, sub, tenants, q) /\ q.n \in 1..started /\ (q.op \in DropOps => q.id \in 1..started)
    BY DEF CloudIInv, CloudAsked
  <2> QED BY <1>0, <1>2, <1>4, <2>1, CloudRowGone
<1>8. CloudTenants(s, sub', tenants, orphans', pend', started')
  <2>1. ASSUME NEW t \in tenants
        PROVE  Accounted(s, sub', orphans', pend', t)
    <3>1. Accounted(s, sub, orphans, pend, t) /\ t.id # 0
      BY <1>0 DEF CloudIInv, CloudTenants, Wallets
    <3>2. CASE \E v \in s.user : sub[v].id = t.id
      <4>1. PICK v \in s.user : sub[v].id = t.id
        BY <3>2
      <4>2. CASE v = u
        BY <1>0, <1>2, <3>1, <4>1, <4>2 DEF Accounted
      <4>3. CASE v # u
        BY <1>2, <1>4, <4>1, <4>3 DEF Accounted
      <4> QED BY <4>2, <4>3
    <3>3. CASE \E q \in pend : q.op = "store" /\ q.n = t.id
      BY <1>0, <3>3 DEF Accounted
    <3>4. CASE t.id \in orphans
      BY <1>0, <3>4 DEF Accounted
    <3> QED BY <3>1, <3>2, <3>3, <3>4 DEF Accounted
  <2> QED BY <1>0, <2>1 DEF CloudIInv, CloudTenants
<1>9. CloudCounts(s, users', base, sub', pend', faults')
  <2>1. users' # s.user
    BY <1>0, <1>1
  <2>2. ASSUME NEW e \in s.endpoint
        PROVE  Covered(s, base, sub', pend', e)
    <3>1. Covered(s, base, sub, pend, e)
      BY DEF CloudIInv, CloudCounts
    <3>2. HoldsAt(pend', e) = HoldsAt(pend, e)
      BY <1>0 DEF HoldsAt
    <3>3. SubsAt(s, R, e) \subseteq SubsAt(s, S, e)
      BY <1>2, <1>4 DEF SubsAt
    <3>4. /\ IsFiniteSet(SubsAt(s, S, e)) /\ Cardinality(SubsAt(s, S, e)) \in Nat
          /\ Cardinality(SubsAt(s, R, e)) \in Nat /\ Cardinality(HoldsAt(pend, e)) \in Nat
      BY <1>0, <1>1, CountsFinite
    <3>5. Cardinality(SubsAt(s, R, e)) <= Cardinality(SubsAt(s, S, e))
      BY <3>3, <3>4, FS_Subset
    <3>6. Cardinality(SlotsAt(base, e)) \in Nat
      BY <3>1, FS_CardinalityType DEF Covered
    <3> QED BY <1>2, <3>1, <3>2, <3>4, <3>5, <3>6 DEF Covered
  <2> QED BY <2>1, <2>2 DEF CloudCounts
<1>10. users' \subseteq s.user
  BY <1>0 DEF CloudIInv
<1> QED BY <1>0, <1>5, <1>6, <1>7, <1>8, <1>9, <1>10 DEF CloudIInv

LEMMA CloudKept ==
  ASSUME NEW s, NEW o, Cloud(s, o)!CloudWalletAssumption, CloudIInv(s), Cloud(s, o)!Next
  PROVE  CloudIInv(s)'
<1>1. CASE Cloud(s, o)!Administer
  <2>1. CASE \E e \in s.endpoint, max \in s.cap : Cloud(s, o)!ConfigureBaseWallet(e, max)
    BY <2>1, CloudRequests
  <2>2. CASE \E b \in DOMAIN base, active \in BOOLEAN, max \in s.cap : Cloud(s, o)!UpdateBaseWallet(b, active, max)
    BY <2>2, CloudUpdates
  <2>3. CASE \E r \in pend : Cloud(s, o)!CheckEndpoint(r) \/ Cloud(s, o)!StoreCloudWalletInfo(r)
    BY <2>3, CloudChecks, CloudRowAdded
  <2> QED BY <1>1, <2>1, <2>2, <2>3 DEF Cloud!Administer
<1>2. CASE Cloud(s, o)!Provision
  <2>1. CASE \E u \in users : Cloud(s, o)!CreateCloudWallet(u)
    BY <2>1, CloudRequests
  <2>2. CASE \E r \in pend : \/ Cloud(s, o)!CheckUserExist(r) \/ Cloud(s, o)!GetAvailableBaseWallet(r)
                             \/ Cloud(s, o)!ClaimBaseWalletCapacity(r) \/ Cloud(s, o)!CreateTenant(r)
                             \/ Cloud(s, o)!StoreCloudWalletDetails(r) \/ Cloud(s, o)!Release(r)
    BY <2>2, CloudChecks, CloudClaimed, CloudTenantMade, CloudDetailsStored, CloudReleased
  <2> QED BY <1>2, <2>1, <2>2 DEF Cloud!Provision
<1>3. CASE Cloud(s, o)!Delete
  <2>1. CASE \E u \in users, holder \in BOOLEAN : Cloud(s, o)!DeleteCloudWallet(u, holder)
    BY <2>1, CloudRequests
  <2>2. CASE \E r \in pend : \/ Cloud(s, o)!FindWallet(r) \/ Cloud(s, o)!DeleteTenant(r) \/ Cloud(s, o)!DeleteCloudWalletDetails(r)
                             \/ Cloud(s, o)!DecrementBaseWalletUseCount(r) \/ Cloud(s, o)!DeleteUser(r)
    BY <2>2, CloudFinds, CloudTenantDropped, CloudRowDropped, CloudDecremented, CloudUserDeleted
  <2> QED BY <1>3, <2>1, <2>2 DEF Cloud!Delete
<1>4. CASE Cloud(s, o)!Call
  <2>1. CASE \E u \in s.user : \E effect : Cloud(s, o)!CommonCloudWalletInfo(u, effect)
    BY <2>1, CloudRequests
  <2>2. CASE \E r \in pend : Cloud(s, o)!CallAgent(r)
    BY <2>2, CloudLeaves
  <2> QED BY <1>4, <2>1, <2>2 DEF Cloud!Call
<1>5. CASE Cloud(s, o)!Fail
  BY <1>5, CloudLeaves DEF Cloud!Fail
<1> QED BY <1>1, <1>2, <1>3, <1>4, <1>5 DEF Cloud!Next

LEMMA CloudFirst ==
  ASSUME NEW s, NEW o, Cloud(s, o)!CloudWalletAssumption, Cloud(s, o)!Init
  PROVE  CloudIInv(s)
<1>0. IsFiniteSet(s.user) /\ s.cap \subseteq Nat /\ s.requests \in Nat /\ s.faults \in Nat
  BY CloudUnfolded
<1>1. users = s.user /\ tenants = {} /\ orphans = {} /\ pend = {} /\ started = 0 /\ faults = 0 /\ sub = [u \in s.user |-> [id |-> 0]]
  BY DEF Cloud!Init, Cloud!None
<1>2. PICK e0 \in s.endpoint, m \in s.cap : base = <<[ep |-> e0, active |-> TRUE, use |-> 0, max |-> m, top |-> m]>>
  BY DEF Cloud!Init, Cloud!BaseRow
<1> DEFINE x == [ep |-> e0, active |-> TRUE, use |-> 0, max |-> m, top |-> m]
<1>3. x \in CloudBase(s) /\ x.use = 0 /\ x.max <= x.top /\ x.use <= x.top
  BY <1>0 DEF CloudBase
<1>4. base = <<x>>
  BY <1>2
<1> HIDE DEF x
<1>5. base \in Seq(CloudBase(s)) /\ DOMAIN base = {1} /\ base[1] = x
  BY <1>3, <1>4
<1>6. CloudBases(s, base)
  BY <1>3, <1>5 DEF CloudBases
<1>7. sub \in SubRows(s) /\ \A u \in s.user : sub[u].id = 0
  BY <1>1 DEF SubRows
<1>8. CloudSubs(s, users, base, sub, started)
  BY <1>1, <1>7 DEF CloudSubs
<1>9. CloudTenants(s, sub, tenants, orphans, pend, started)
  BY <1>1 DEF CloudTenants
<1>10. CloudAsked(s, started, pend)
  BY <1>1, FS_EmptySet DEF CloudAsked
<1>11. ASSUME NEW e
       PROVE  SlotsAt(base, e) = {} /\ SubsAt(s, sub, e) = {} /\ HoldsAt(pend, e) = {}
  <2>1. SubsAt(s, sub, e) = {} /\ HoldsAt(pend, e) = {}
    BY <1>1, <1>7 DEF SubsAt, HoldsAt
  <2>2. \A b \in BaseAt(base, e) : base[b].use = 0
    BY <1>3, <1>5 DEF BaseAt
  <2>3. ASSUME NEW p \in SlotsAt(base, e)
        PROVE  FALSE
    <3>1. PICK b \in BaseAt(base, e) : \E k \in 1..base[b].use : p = <<b, k>>
      BY <2>3, SlotMember
    <3>2. base[b].use = 0
      BY <2>2
    <3> QED BY <3>1, <3>2
  <2> QED BY <2>1, <2>3
<1>12. CloudCounts(s, users, base, sub, pend, faults)
  BY <1>11, FS_EmptySet DEF CloudCounts, Covered, Exact
<1> QED BY <1>0, <1>1, <1>6, <1>8, <1>9, <1>10, <1>12 DEF CloudIInv

LEMMA CloudSafe ==
  ASSUME NEW s, NEW o, Cloud(s, o)!CloudWalletAssumption, CloudIInv(s)
  PROVE  /\ Cloud(s, o)!TypeOK /\ Cloud(s, o)!WithinCapacity /\ Cloud(s, o)!SlotsReturned
         /\ Cloud(s, o)!DeletionLeavesNoTenant /\ Cloud(s, o)!WalletsStayReachable
<1>0. /\ IsFiniteSet(s.user) /\ s.cap \subseteq Nat /\ s.requests \in Nat /\ s.faults \in Nat /\ started \in Nat
      /\ \A e : Cloud(s, o)!At(e) = BaseAt(base, e)
      /\ \A u : Cloud(s, o)!Has(u) <=> sub[u] # [id |-> 0]
  BY CloudUnfolded DEF CloudIInv
<1>1. /\ DOMAIN base = 1..Len(base) /\ Len(base) \in Nat
      /\ \A b \in DOMAIN base : base[b] \in CloudBase(s) /\ base[b].use <= base[b].top
  BY <1>0, CloudTops DEF CloudIInv
<1>2. sub \in SubRows(s)
  BY DEF CloudIInv, CloudSubs
<1>3. ASSUME NEW u \in s.user
      PROVE  Cloud(s, o)!Has(u) <=> sub[u].id # 0
  <2>1. CASE sub[u] \in Wallets(s)
    <3>1. sub[u].id # 0
      BY <1>0, <2>1 DEF Wallets
    <3>2. sub[u] # [id |-> 0]
      BY <3>1
    <3> QED BY <1>0, <3>1, <3>2
  <2>2. CASE sub[u] = [id |-> 0]
    BY <1>0, <2>2
  <2> QED BY <1>2, <2>1, <2>2 DEF SubRows
<1>4. Cloud(s, o)!TypeOK
  <2>1. \A b \in DOMAIN base : base[b] \in [ep : s.endpoint, active : BOOLEAN, use : Nat, max : s.cap, top : s.cap]
    BY <1>1 DEF CloudBase
  <2>2. sub \in [s.user -> [id : 1..s.requests, ep : s.endpoint] \cup {[id |-> 0]}]
    BY <1>2 DEF SubRows, Wallets
  <2>3. \A u, v \in s.user : Cloud(s, o)!Has(u) /\ sub[u] = sub[v] => u = v
    BY <1>3 DEF CloudIInv, CloudSubs
  <2>4. \A u \in s.user : Cloud(s, o)!Has(u) => u \in users
    BY <1>3 DEF CloudIInv, CloudSubs
  <2>5. tenants \subseteq [id : 1..s.requests, ep : s.endpoint]
    BY DEF CloudIInv, CloudTenants, Wallets
  <2>6. users \subseteq s.user /\ started \in 0..s.requests /\ faults \in 0..s.faults
    BY DEF CloudIInv
  <2> QED BY <2>1, <2>2, <2>3, <2>4, <2>5, <2>6 DEF Cloud!TypeOK, Cloud!Id, Cloud!None
<1>5. ASSUME NEW e \in s.endpoint
      PROVE  /\ Cloud(s, o)!RowsAt(e) = SubsAt(s, sub, e)
             /\ Cloud(s, o)!Slots(e) = SlotsAt(base, e)
             /\ Cloud(s, o)!ClaimsAt(e) \subseteq HoldsAt(pend, e)
             /\ Cloud(s, o)!Uses(e) = Cardinality(SlotsAt(base, e))
             /\ Covered(s, base, sub, pend, e)
  <2>1. Cloud(s, o)!RowsAt(e) = SubsAt(s, sub, e)
    BY <1>3 DEF Cloud!RowsAt, SubsAt
  <2>2. Cloud(s, o)!Slots(e) = SlotsAt(base, e)
    BY <1>0 DEF Cloud!Slots, SlotsAt
  <2>3. Cloud(s, o)!ClaimsAt(e) \subseteq HoldsAt(pend, e)
    BY DEF Cloud!ClaimsAt, HoldsAt, Cloud!Claimed, HoldOps
  <2>4. Covered(s, base, sub, pend, e)
    BY DEF CloudIInv, CloudCounts
  <2> QED BY <2>1, <2>2, <2>3, <2>4, CloudFinite DEF Cloud!Uses
<1>6. IsFiniteSet(pend)
  BY DEF CloudIInv, CloudAsked
<1>7. Cloud(s, o)!WithinCapacity
  <2>1. ASSUME NEW e \in s.endpoint
        PROVE  Cardinality(SubsAt(s, sub, e)) + Cardinality(Cloud(s, o)!ClaimsAt(e)) <= Cardinality(SlotsAt(base, e))
    <3>1. /\ Cardinality(SubsAt(s, sub, e)) \in Nat /\ Cardinality(HoldsAt(pend, e)) \in Nat /\ IsFiniteSet(HoldsAt(pend, e))
      BY <1>0, <1>6, CountsFinite
    <3>2. /\ IsFiniteSet(Cloud(s, o)!ClaimsAt(e)) /\ Cardinality(Cloud(s, o)!ClaimsAt(e)) <= Cardinality(HoldsAt(pend, e))
      BY <1>5, <3>1, FS_Subset
    <3>3. Cardinality(Cloud(s, o)!ClaimsAt(e)) \in Nat /\ Cardinality(SlotsAt(base, e)) \in Nat
      BY <1>5, <3>2, FS_CardinalityType DEF Covered
    <3>4. Cardinality(SubsAt(s, sub, e)) + Cardinality(HoldsAt(pend, e)) <= Cardinality(SlotsAt(base, e))
      BY <1>5 DEF Covered
    <3> QED BY <3>1, <3>2, <3>3, <3>4
  <2>2. \A e \in s.endpoint : \A b \in Cloud(s, o)!At(e) : base[b].use <= base[b].top
    BY <1>0, <1>1 DEF BaseAt
  <2>3. \A e \in s.endpoint : Cloud(s, o)!Cardinality(Cloud(s, o)!RowsAt(e)) + Cloud(s, o)!Cardinality(Cloud(s, o)!ClaimsAt(e))
                                <= Cloud(s, o)!Uses(e)
    BY <1>5, <2>1, CloudFinite
  <2> QED BY <2>2, <2>3 DEF Cloud!WithinCapacity
<1>8. Cloud(s, o)!SlotsReturned
  <2>1. ASSUME pend = {}, faults = 0, users = s.user, NEW e \in s.endpoint, Cardinality(BaseAt(base, e)) = 1
        PROVE  Cardinality(SlotsAt(base, e)) = Cardinality(SubsAt(s, sub, e))
    <3>1. Exact(s, base, sub, pend, e)
      BY <2>1 DEF CloudIInv, CloudCounts
    <3>2. IsFiniteSet(BaseAt(base, e))
      <4>1. BaseAt(base, e) \subseteq 1..Len(base) /\ IsFiniteSet(1..Len(base))
        BY <1>1, FS_Interval DEF BaseAt
      <4> QED BY <4>1, FS_Subset
    <3>3. PICK b : BaseAt(base, e) = {b}
      BY <2>1, <3>2, FS_Singleton
    <3>4. HoldsAt(pend, e) = {} /\ Cardinality(HoldsAt(pend, e)) = 0
      BY <2>1, FS_EmptySet DEF HoldsAt
    <3>5. Cardinality(SubsAt(s, sub, e)) \in Nat
      BY <1>0, <1>6, CountsFinite
    <3> QED BY <3>1, <3>3, <3>4, <3>5 DEF Exact
  <2> QED BY <1>0, <1>5, <2>1, CloudFinite DEF Cloud!SlotsReturned
<1>9. Cloud(s, o)!DeletionLeavesNoTenant
  BY DEF CloudIInv, CloudTenants, Accounted, Cloud!DeletionLeavesNoTenant, Cloud!Claimed
<1>10. Cloud(s, o)!WalletsStayReachable
  <2>1. ASSUME NEW u \in s.user, Cloud(s, o)!Has(u)
        PROVE  Cloud(s, o)!GetBaseWalletByAgentEndpoint(sub[u].ep) # 0
    <3>1. BaseAt(base, sub[u].ep) # {}
      BY <1>3, <2>1 DEF CloudIInv, CloudSubs
    <3> QED BY <3>1, CloudNewest
  <2> QED BY <2>1 DEF Cloud!WalletsStayReachable
<1> QED BY <1>4, <1>7, <1>8, <1>9, <1>10

-----------------------------------------------------------------------------
(* Both settings of cloud-wallet.                                          *)
CloudWalletsIInv ==
  /\ part = "cloud" => CloudIInv(Setting.cloud)
  /\ part = "cloudManaged" => CloudIInv(Setting.cloudManaged)

(* CloudWalletInv, for every set of users, endpoints and capacities and    *)
(* every number of requests and faults: however creations, deletions,      *)
(* registrations and their failures overlap, no endpoint carries more sub  *)
(* wallets than its counters cover and no counter passes the highest       *)
(* capacity of its row (claimBaseWalletCapacity); when nothing failed, no  *)
(* slot is lost; deleteCloudWallet leaves no tenant behind; and every sub  *)
(* wallet finds a base wallet (getBaseWalletByAgentEndpoint).              *)
THEOREM CloudWalletsStaySafe == Spec => []CloudWalletInv
<1>1. Init => CloudWalletsIInv
  <2> SUFFICES ASSUME Init
               PROVE  CloudWalletsIInv
    OBVIOUS
  <2>1. /\ part = "cloud" => Cloud(Setting.cloud, FALSE)!Init
        /\ part = "cloudManaged" => Cloud(Setting.cloudManaged, TRUE)!Init
    BY DEF Init
  <2> QED BY <2>1, ExchangesAssumption, CloudFirst DEF CloudWalletsIInv
<1>2. CloudWalletsIInv /\ [Next]_vars => CloudWalletsIInv'
  <2>1. ASSUME CloudWalletsIInv, Next
        PROVE  CloudWalletsIInv'
    <3>1. /\ part = "cloud" => Cloud(Setting.cloud, FALSE)!Next
          /\ part = "cloudManaged" => Cloud(Setting.cloudManaged, TRUE)!Next
          /\ part' = part
      BY <2>1 DEF Next
    <3> QED BY <2>1, <3>1, ExchangesAssumption, CloudKept DEF CloudWalletsIInv
  <2>2. ASSUME CloudWalletsIInv, UNCHANGED vars
        PROVE  CloudWalletsIInv'
    <3>1. UNCHANGED <<part, cloudVars, pend, started, faults>>
      BY <2>2 DEF vars
    <3>2. \A s : CloudIInv(s) => CloudIInv(s)'
      BY <3>1 DEF cloudVars, CloudIInv
    <3> QED BY <2>2, <3>1, <3>2 DEF CloudWalletsIInv
  <2> QED BY <2>1, <2>2
<1>3. CloudWalletsIInv => CloudWalletInv
  BY ExchangesAssumption, CloudSafe DEF CloudWalletsIInv, CloudWalletInv
<1> QED BY <1>1, <1>2, <1>3, PTL DEF Spec

=============================================================================

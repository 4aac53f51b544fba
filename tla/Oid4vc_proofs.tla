---------------------------- MODULE Oid4vc_proofs ----------------------------
(***************************************************************************)
(* For every set of issuers, templates, offers, keys and verifiers and     *)
(* every number of requests and faults: the invariants of the parts of     *)
(* Exchanges that belong to OpenID4VC.                                     *)
(***************************************************************************)
EXTENDS Exchanges, FiniteSets, Sequences, FiniteSetTheorems, WellFoundedInduction, TLAPS

-----------------------------------------------------------------------------
(* oid4vc-issuance: issuers and templates.                                 *)

NoTmpl == [version |-> 0]
TmplRow(s) == [version : 1..s.requests, issuer : s.issuer, name : s.name]

(* What a handler does about a refused configuration, and the requests.    *)
TmplUndo(s) ==
  [op : {"none"}] \cup [op : {"create"}, template : s.template]
    \cup [op : {"update"}, template : s.template, row : TmplRow(s)]
IssuerRequest(s) ==
  [op : {"build"}, issuer : s.issuer, undo : TmplUndo(s)]
    \cup [op : {"push"}, issuer : s.issuer, undo : TmplUndo(s), config : SUBSET (s.template \X (1..s.requests))]
    \cup [op : {"undo"}, undo : TmplUndo(s)]
    \cup [op : {"createIssuer", "addIssuer"}, issuer : s.issuer, primary : BOOLEAN]
    \cup [op : {"deleteTemplates", "deleteIssuer", "deleteAtAgent"}, issuer : s.issuer]
    \cup [op : {"createTemplate"}, template : s.template, issuer : s.issuer, name : s.name, version : 1..s.requests]
    \cup [op : {"updateTemplate"}, template : s.template, row : TmplRow(s), new : TmplRow(s)]

(* An issuer that is about to get its row, and one that is about to leave  *)
(* the agent, are at the agent and have none; nobody is about to do both,  *)
(* and one handler only is about to write the row.                         *)
IssuersOnTheirWay ==
  /\ \A r \in pend : r.op \in {"addIssuer", "deleteAtAgent"} => r.issuer \in agentIssuers /\ issuer[r.issuer] = "none"
  /\ \A r, q \in pend : r.op \in {"addIssuer", "deleteAtAgent"} /\ q.op \in {"addIssuer", "deleteAtAgent"}
                        /\ r.issuer = q.issuer => r = q

IssuersIInv(s, o) ==
  /\ Issuers(s, o)!TypeOK /\ cfg \in [s.issuer -> SUBSET (s.template \X (1..s.requests))]
  /\ pend \subseteq IssuerRequest(s)
  /\ Issuers(s, o)!AgentHasIssuer /\ IssuersOnTheirWay

LEMMA IssuersUnfolded ==
  ASSUME NEW s, NEW o \in BOOLEAN, Issuers(s, o)!IssuerAssumption
  PROVE  /\ s.requests \in Nat /\ s.faults \in Nat
         /\ \A x \in TmplRow(s) : x # NoTmpl
         /\ Issuers(s, o)!NoTemplate = NoTmpl /\ Issuers(s, o)!TemplateRow = TmplRow(s)
         /\ Issuers(s, o)!Stored = {t \in s.template : tmpl[t] # NoTmpl}
         /\ Issuers(s, o)!TypeOK <=>
              /\ issuer \in [s.issuer -> {"none", "primary", "other"}]
              /\ tmpl \in [s.template -> TmplRow(s) \cup {NoTmpl}]
              /\ \A t \in s.template : tmpl[t] # NoTmpl => issuer[tmpl[t].issuer] # "none"
              /\ agentIssuers \subseteq s.issuer
              /\ \A i \in s.issuer : cfg[i] \subseteq (s.template \X (1..s.requests))
              /\ broken \subseteq s.template /\ started \in 0..s.requests /\ faults \in 0..s.faults
<1>1. s.requests \in Nat /\ s.faults \in Nat
  BY DEF Issuers!IssuerAssumption
<1>2. \A x \in TmplRow(s) : x # NoTmpl
  <2> SUFFICES ASSUME NEW x \in TmplRow(s), x = NoTmpl
               PROVE  FALSE
    OBVIOUS
  <2>1. x.version \in 1..s.requests /\ x.version = 0
    BY DEF TmplRow, NoTmpl
  <2> QED BY <1>1, <2>1
<1> QED BY <1>1, <1>2 DEF Issuers!TypeOK, Issuers!NoTemplate, NoTmpl, Issuers!TemplateRow, TmplRow, Issuers!Stored, Issuers!RowExists

LEMMA IssuerRequestFields ==
  ASSUME NEW s, NEW r \in IssuerRequest(s)
  PROVE  /\ r.op = "build" => r.issuer \in s.issuer /\ r.undo \in TmplUndo(s)
         /\ r.op = "push" => /\ r.issuer \in s.issuer /\ r.undo \in TmplUndo(s)
                             /\ r.config \in SUBSET (s.template \X (1..s.requests))
         /\ r.op = "undo" => r.undo \in TmplUndo(s)
         /\ r.op \in {"createIssuer", "addIssuer"} => r.issuer \in s.issuer /\ r.primary \in BOOLEAN
         /\ r.op \in {"deleteTemplates", "deleteIssuer", "deleteAtAgent"} => r.issuer \in s.issuer
         /\ r.op = "deleteAtAgent" => r = [op |-> "deleteAtAgent", issuer |-> r.issuer]
         /\ r.op = "createTemplate" => /\ r.template \in s.template /\ r.issuer \in s.issuer
                                       /\ r.name \in s.name /\ r.version \in 1..s.requests
         /\ r.op = "updateTemplate" => r.template \in s.template /\ r.row \in TmplRow(s) /\ r.new \in TmplRow(s)
BY DEF IssuerRequest

LEMMA TmplUndoFields ==
  ASSUME NEW s, NEW u \in TmplUndo(s)
  PROVE  /\ u.op \in {"none", "create", "update"}
         /\ u.op \in {"create", "update"} => u.template \in s.template
         /\ u.op = "update" => u.row \in TmplRow(s)
BY DEF TmplUndo

(* What an instance's TypeOK says of the primed state. *)
LEMMA IssuersUnfoldedNext ==
  ASSUME NEW s, NEW o \in BOOLEAN, Issuers(s, o)!IssuerAssumption
  PROVE  /\ Issuers(s, o)!TypeOK' <=>
              /\ issuer' \in [s.issuer -> {"none", "primary", "other"}]
              /\ tmpl' \in [s.template -> TmplRow(s) \cup {NoTmpl}]
              /\ \A t \in s.template : tmpl'[t] # NoTmpl => issuer'[tmpl'[t].issuer] # "none"
              /\ agentIssuers' \subseteq s.issuer
              /\ \A i \in s.issuer : cfg'[i] \subseteq (s.template \X (1..s.requests))
              /\ broken' \subseteq s.template /\ started' \in 0..s.requests /\ faults' \in 0..s.faults
BY DEF Issuers!TypeOK, Issuers!NoTemplate, NoTmpl, Issuers!TemplateRow, TmplRow, Issuers!Stored, Issuers!RowExists

(* A step that leaves issuers where they are: it takes a request to        *)
(* another step, begins or ends one.                                       *)
LEMMA IssuersQuiet ==
  ASSUME NEW s, NEW o \in BOOLEAN, Issuers(s, o)!IssuerAssumption, IssuersIInv(s, o),
         pend' \subseteq IssuerRequest(s),
         \A r \in pend' : r.op \in {"addIssuer", "deleteAtAgent"} => r \in pend,
         agentIssuers' = agentIssuers, issuer' \in [s.issuer -> {"none", "primary", "other"}],
         \A i \in s.issuer : issuer'[i] = "none" <=> issuer[i] = "none",
         tmpl' \in [s.template -> TmplRow(s) \cup {NoTmpl}],
         \A t \in s.template : tmpl'[t] # NoTmpl => issuer[tmpl'[t].issuer] # "none",
         cfg' \in [s.issuer -> SUBSET (s.template \X (1..s.requests))],
         broken' \subseteq s.template, started' \in 0..s.requests, faults' \in 0..s.faults
  PROVE  IssuersIInv(s, o)'
<1>t. /\ issuer \in [s.issuer -> {"none", "primary", "other"}] /\ pend \subseteq IssuerRequest(s)
      /\ Issuers(s, o)!AgentHasIssuer /\ IssuersOnTheirWay /\ agentIssuers \subseteq s.issuer
  BY IssuersUnfolded DEF IssuersIInv
<1>1. Issuers(s, o)!AgentHasIssuer'
  BY <1>t DEF Issuers!AgentHasIssuer, Issuers!RowExists
<1>2. IssuersOnTheirWay'
  BY <1>t, IssuerRequestFields DEF IssuersOnTheirWay
<1>3. \A t \in s.template : tmpl'[t] # NoTmpl => tmpl'[t].issuer \in s.issuer
  BY DEF TmplRow
<1>4. Issuers(s, o)!TypeOK'
  BY <1>3, <1>t, IssuersUnfoldedNext
<1> QED BY <1>1, <1>2, <1>4 DEF IssuersIInv

(* The clock of requests, and what a request that goes on or ends does to  *)
(* the set of requests.                                                    *)
LEMMA IssuersTurn ==
  ASSUME NEW s, NEW o \in BOOLEAN, Issuers(s, o)!IssuerAssumption, IssuersIInv(s, o), NEW r, NEW q \in IssuerRequest(s)
  PROVE  /\ Issuers(s, o)!Go(r, q) => pend' \subseteq IssuerRequest(s) /\ pend' \subseteq pend \cup {q}
         /\ Issuers(s, o)!Begin(q) => /\ pend' \subseteq IssuerRequest(s) /\ pend' \subseteq pend \cup {q}
                                      /\ started' \in 0..s.requests
BY IssuersUnfolded DEF IssuersIInv, Issuers!Go, Issuers!Begin

LEMMA IssuersEnd ==
  ASSUME NEW s, NEW o \in BOOLEAN, IssuersIInv(s, o), NEW r, Issuers(s, o)!End(r)
  PROVE  pend' \subseteq IssuerRequest(s) /\ pend' \subseteq pend /\ started' = started
BY DEF IssuersIInv, Issuers!End

LEMMA IssuersChanged ==
  ASSUME NEW s, NEW o, NEW u \in TmplUndo(s)
  PROVE  Issuers(s, o)!Changed(u) \subseteq s.template
BY TmplUndoFields DEF Issuers!Changed

(* A configuration on its way. *)
LEMMA ConfigKept ==
  ASSUME NEW s, NEW o \in BOOLEAN, Issuers(s, o)!IssuerAssumption, IssuersIInv(s, o), NEW req \in pend,
         \/ Issuers(s, o)!BuildConfig(req) \/ Issuers(s, o)!CreateOIDCTemplate(req) \/ Issuers(s, o)!Undo(req)
         \/ Issuers(s, o)!WriteFails(req)
  PROVE  IssuersIInv(s, o)'
<1>t. /\ issuer \in [s.issuer -> {"none", "primary", "other"}] /\ tmpl \in [s.template -> TmplRow(s) \cup {NoTmpl}]
      /\ \A t \in s.template : tmpl[t] # NoTmpl => issuer[tmpl[t].issuer] # "none"
      /\ cfg \in [s.issuer -> SUBSET (s.template \X (1..s.requests))]
      /\ broken \subseteq s.template /\ started \in 0..s.requests /\ faults \in 0..s.faults /\ s.faults \in Nat
      /\ req \in IssuerRequest(s)
  BY IssuersUnfolded DEF IssuersIInv
<1>1. CASE Issuers(s, o)!BuildConfig(req)
  <2>1. req.issuer \in s.issuer /\ req.undo \in TmplUndo(s)
    BY <1>1, <1>t, IssuerRequestFields DEF Issuers!BuildConfig
  <2>2. PICK c : c = Issuers(s, o)!BuildOidcIssuerConfig(req.issuer)
    OBVIOUS
  <2>3. c \in SUBSET (s.template \X (1..s.requests))
    BY <1>t, <2>2, IssuersUnfolded DEF Issuers!BuildOidcIssuerConfig, Issuers!TemplatesOf, TmplRow
  <2>4. /\ [op |-> "push", issuer |-> req.issuer, undo |-> req.undo, config |-> c] \in IssuerRequest(s)
        /\ [op |-> "undo", undo |-> req.undo] \in IssuerRequest(s)
    BY <2>1, <2>3 DEF IssuerRequest
  <2>5. /\ pend' \subseteq IssuerRequest(s)
        /\ \A r \in pend' : r.op \in {"addIssuer", "deleteAtAgent"} => r \in pend
    BY <1>1, <2>2, <2>4, IssuersTurn DEF Issuers!BuildConfig
  <2>6. UNCHANGED <<issuer, tmpl, agentIssuers, cfg, broken, started>> /\ faults' \in 0..s.faults
    BY <1>1, <1>t DEF Issuers!BuildConfig, Issuers!Go, Issuers!Fault
  <2> QED BY <1>t, <2>5, <2>6, IssuersQuiet
<1>2. CASE Issuers(s, o)!CreateOIDCTemplate(req)
  <2>1. /\ req.issuer \in s.issuer /\ req.undo \in TmplUndo(s)
        /\ req.config \in SUBSET (s.template \X (1..s.requests))
    BY <1>2, <1>t, IssuerRequestFields DEF Issuers!CreateOIDCTemplate
  <2>2. [op |-> "undo", undo |-> req.undo] \in IssuerRequest(s)
    BY <2>1 DEF IssuerRequest
  <2>3. /\ pend' \subseteq IssuerRequest(s)
        /\ \A r \in pend' : r.op \in {"addIssuer", "deleteAtAgent"} => r \in pend
    BY <1>2, <2>2, IssuersTurn, IssuersEnd DEF Issuers!CreateOIDCTemplate
  <2>4. /\ UNCHANGED <<issuer, tmpl, agentIssuers, started>>
        /\ cfg' = cfg \/ cfg' = [cfg EXCEPT ![req.issuer] = req.config]
        /\ faults' \in 0..s.faults
    BY <1>2, <1>t DEF Issuers!CreateOIDCTemplate, Issuers!Go, Issuers!End, Issuers!Fault
  <2>6. broken' \subseteq s.template
    BY <1>2, <1>t, <2>1, IssuersChanged DEF Issuers!CreateOIDCTemplate
  <2>5. cfg' \in [s.issuer -> SUBSET (s.template \X (1..s.requests))]
    BY <1>t, <2>1, <2>4
  <2> QED BY <1>t, <2>3, <2>4, <2>5, <2>6, IssuersQuiet
<1>3. CASE Issuers(s, o)!Undo(req)
  <2>1. req.undo \in TmplUndo(s)
    BY <1>3, <1>t, IssuerRequestFields DEF Issuers!Undo
  <2>2. /\ pend' \subseteq IssuerRequest(s) /\ pend' \subseteq pend
        /\ UNCHANGED <<issuer, agentIssuers, cfg, started>> /\ faults' \in 0..s.faults
    BY <1>3, <1>t, IssuersEnd DEF Issuers!Undo, Issuers!Fault
  <2>5. broken' \subseteq s.template
    BY <1>3, <1>t, <2>1, IssuersChanged DEF Issuers!Undo
  <2>3. \/ tmpl' = tmpl
        \/ req.undo.op = "create" /\ tmpl' = [tmpl EXCEPT ![req.undo.template] = NoTmpl]
        \/ /\ req.undo.op = "update" /\ issuer[req.undo.row.issuer] # "none"
           /\ tmpl' = [tmpl EXCEPT ![req.undo.template] = req.undo.row]
    BY <1>3, IssuersUnfolded DEF Issuers!Undo, Issuers!RowExists
  <2>4. /\ tmpl' \in [s.template -> TmplRow(s) \cup {NoTmpl}]
        /\ \A t \in s.template : tmpl'[t] # NoTmpl => issuer[tmpl'[t].issuer] # "none"
    BY <1>t, <2>1, <2>3, TmplUndoFields
  <2> QED BY <1>t, <2>2, <2>4, <2>5, IssuersQuiet
<1>4. CASE Issuers(s, o)!WriteFails(req)
  <2>1. /\ Issuers(s, o)!End(req) /\ UNCHANGED <<issuer, tmpl, agentIssuers, cfg, broken>>
        /\ faults' \in 0..s.faults
    BY <1>4, <1>t DEF Issuers!WriteFails, Issuers!Fault
  <2> QED BY <1>t, <2>1, IssuersEnd, IssuersQuiet
<1> QED BY <1>1, <1>2, <1>3, <1>4

(* The rows of issuers, and their records at the agent. *)
LEMMA IssuerStepsKept ==
  ASSUME NEW s, NEW o \in BOOLEAN, Issuers(s, o)!IssuerAssumption, IssuersIInv(s, o), NEW req \in pend,
         \/ Issuers(s, o)!OidcIssuerAtAgent(req) \/ Issuers(s, o)!AddOidcIssuerDetails(req)
         \/ Issuers(s, o)!DeleteTemplatesByIssuerId(req)
         \/ Issuers(s, o)!DeleteIssuerRow(req) \/ Issuers(s, o)!DeleteIssuerAtAgent(req)
  PROVE  IssuersIInv(s, o)'
<1>t. /\ issuer \in [s.issuer -> {"none", "primary", "other"}] /\ tmpl \in [s.template -> TmplRow(s) \cup {NoTmpl}]
      /\ \A t \in s.template : tmpl[t] # NoTmpl => tmpl[t].issuer \in s.issuer /\ issuer[tmpl[t].issuer] # "none"
      /\ agentIssuers \subseteq s.issuer /\ cfg \in [s.issuer -> SUBSET (s.template \X (1..s.requests))]
      /\ broken \subseteq s.template /\ started \in 0..s.requests /\ faults \in 0..s.faults /\ s.faults \in Nat
      /\ req \in IssuerRequest(s) /\ pend \subseteq IssuerRequest(s)
      /\ \A i \in s.issuer : issuer[i] # "none" => i \in agentIssuers
      /\ IssuersOnTheirWay
  BY IssuersUnfolded DEF IssuersIInv, TmplRow, Issuers!AgentHasIssuer, Issuers!RowExists
<1>1. CASE Issuers(s, o)!OidcIssuerAtAgent(req)
  <2>0. req.issuer \in s.issuer /\ req.primary \in BOOLEAN
    BY <1>1, <1>t, IssuerRequestFields DEF Issuers!OidcIssuerAtAgent
  <2> DEFINE q == [op |-> "addIssuer", issuer |-> req.issuer, primary |-> req.primary]
  <2>1. CASE Issuers(s, o)!End(req) /\ UNCHANGED <<agentIssuers, cfg>>
    <3>1. UNCHANGED <<issuer, tmpl, broken>> /\ faults' \in 0..s.faults
      BY <1>1, <1>t DEF Issuers!OidcIssuerAtAgent, Issuers!Fault
    <3> QED BY <1>t, <2>1, <3>1, IssuersEnd, IssuersQuiet
  <2>2. CASE /\ req.issuer \notin agentIssuers
             /\ agentIssuers' = agentIssuers \cup {req.issuer} /\ cfg' = [cfg EXCEPT ![req.issuer] = {}]
             /\ Issuers(s, o)!Go(req, q) \/ Issuers(s, o)!End(req)
    <3>1. UNCHANGED <<issuer, tmpl, broken>> /\ faults' \in 0..s.faults
      BY <1>1, <1>t DEF Issuers!OidcIssuerAtAgent, Issuers!Fault
    <3>2. q \in IssuerRequest(s) /\ q.issuer = req.issuer
      BY <2>0 DEF IssuerRequest
    <3> HIDE DEF q
    <3>3. pend' \subseteq IssuerRequest(s) /\ pend' \subseteq pend \cup {q} /\ started' = started
      BY <2>2, <3>2, IssuersTurn, IssuersEnd DEF Issuers!Go
    <3>4. cfg' \in [s.issuer -> SUBSET (s.template \X (1..s.requests))]
      BY <1>t, <2>0, <2>2
    <3>5. issuer[req.issuer] = "none"
      BY <1>t, <2>0, <2>2
    <3>6. IssuersOnTheirWay'
      BY <1>t, <2>2, <3>1, <3>2, <3>3, <3>5 DEF IssuersOnTheirWay
    <3>7. Issuers(s, o)!AgentHasIssuer'
      BY <1>t, <2>2, <3>1 DEF Issuers!AgentHasIssuer, Issuers!RowExists
    <3>8. Issuers(s, o)!TypeOK'
      BY <1>t, <2>0, <2>2, <3>1, <3>3, <3>4, IssuersUnfoldedNext
    <3> QED BY <3>3, <3>4, <3>6, <3>7, <3>8 DEF IssuersIInv
  <2> QED BY <1>1, <2>1, <2>2 DEF Issuers!OidcIssuerAtAgent
<1>2. CASE Issuers(s, o)!AddOidcIssuerDetails(req)
  <2>0. req.issuer \in s.issuer /\ req.op = "addIssuer"
    BY <1>2, <1>t, IssuerRequestFields DEF Issuers!AddOidcIssuerDetails
  <2>1. /\ pend' = pend \ {req} /\ UNCHANGED <<tmpl, agentIssuers, cfg, broken, faults, started>>
        /\ \E k \in {"primary", "other"} : issuer' = [issuer EXCEPT ![req.issuer] = k]
    BY <1>2 DEF Issuers!AddOidcIssuerDetails, Issuers!End
  <2>2. /\ issuer' \in [s.issuer -> {"none", "primary", "other"}] /\ issuer'[req.issuer] # "none"
        /\ \A i \in s.issuer : i # req.issuer => issuer'[i] = issuer[i]
    BY <1>t, <2>0, <2>1
  <2>3. IssuersOnTheirWay'
    BY <1>t, <2>0, <2>1, <2>2, IssuerRequestFields DEF IssuersOnTheirWay
  <2>4. Issuers(s, o)!AgentHasIssuer'
    BY <1>t, <2>0, <2>1, <2>2 DEF Issuers!AgentHasIssuer, Issuers!RowExists, IssuersOnTheirWay
  <2>5. Issuers(s, o)!TypeOK'
    BY <1>t, <2>0, <2>1, <2>2, IssuersUnfoldedNext
  <2> QED BY <1>t, <2>1, <2>3, <2>4, <2>5 DEF IssuersIInv
<1>3. CASE Issuers(s, o)!DeleteTemplatesByIssuerId(req)
  <2>1. [op |-> "deleteIssuer", issuer |-> req.issuer] \in IssuerRequest(s)
    BY <1>3, <1>t, IssuerRequestFields DEF Issuers!DeleteTemplatesByIssuerId, IssuerRequest
  <2>2. /\ pend' \subseteq IssuerRequest(s)
        /\ \A r \in pend' : r.op \in {"addIssuer", "deleteAtAgent"} => r \in pend
        /\ UNCHANGED <<issuer, agentIssuers, cfg, broken, faults, started>>
    BY <1>3, <2>1, IssuersTurn DEF Issuers!DeleteTemplatesByIssuerId, Issuers!Go
  <2>3. tmpl' = [t \in s.template |-> IF t \in Issuers(s, o)!TemplatesOf(req.issuer) THEN NoTmpl ELSE tmpl[t]]
    BY <1>3, IssuersUnfolded DEF Issuers!DeleteTemplatesByIssuerId
  <2>4. /\ tmpl' \in [s.template -> TmplRow(s) \cup {NoTmpl}]
        /\ \A t \in s.template : tmpl'[t] # NoTmpl => issuer[tmpl'[t].issuer] # "none"
    BY <1>t, <2>3
  <2> QED BY <1>t, <2>2, <2>4, IssuersQuiet
<1>4. CASE Issuers(s, o)!DeleteIssuerRow(req)
  <2>0. req.issuer \in s.issuer
    BY <1>4, <1>t, IssuerRequestFields DEF Issuers!DeleteIssuerRow
  <2>1. CASE issuer[req.issuer] # "none" /\ Issuers(s, o)!TemplatesOf(req.issuer) = {}
    <3> DEFINE q == [op |-> "deleteAtAgent", issuer |-> req.issuer]
    <3>1. /\ issuer' = [issuer EXCEPT ![req.issuer] = "none"] /\ Issuers(s, o)!Go(req, q)
          /\ UNCHANGED <<tmpl, agentIssuers, cfg, broken, faults>>
      BY <1>4, <2>1 DEF Issuers!DeleteIssuerRow, Issuers!RowExists
    <3>2. q \in IssuerRequest(s) /\ q.issuer = req.issuer
      BY <2>0 DEF IssuerRequest
    <3> HIDE DEF q
    <3>3. pend' \subseteq IssuerRequest(s) /\ pend' \subseteq pend \cup {q} /\ started' = started
      BY <3>1, <3>2, IssuersTurn DEF Issuers!Go
    <3>4. /\ issuer' \in [s.issuer -> {"none", "primary", "other"}] /\ issuer'[req.issuer] = "none"
          /\ \A i \in s.issuer : i # req.issuer => issuer'[i] = issuer[i]
      BY <1>t, <2>0, <3>1
    <3>5. IssuersOnTheirWay'
      BY <1>t, <2>0, <2>1, <3>1, <3>2, <3>3, <3>4, IssuerRequestFields DEF IssuersOnTheirWay
    <3>6. Issuers(s, o)!AgentHasIssuer'
      BY <1>t, <3>1, <3>4 DEF Issuers!AgentHasIssuer, Issuers!RowExists
    <3>7. \A t \in s.template : tmpl[t] # NoTmpl => tmpl[t].issuer # req.issuer
      BY <2>1, IssuersUnfolded DEF Issuers!TemplatesOf
    <3>8. Issuers(s, o)!TypeOK'
      BY <1>t, <3>1, <3>3, <3>4, <3>7, IssuersUnfoldedNext
    <3> QED BY <1>t, <3>1, <3>3, <3>5, <3>6, <3>8 DEF IssuersIInv
  <2>2. CASE ~(issuer[req.issuer] # "none" /\ Issuers(s, o)!TemplatesOf(req.issuer) = {})
    <3>1. Issuers(s, o)!End(req) /\ UNCHANGED <<issuer, tmpl, agentIssuers, cfg, broken, faults>>
      BY <1>4, <2>2 DEF Issuers!DeleteIssuerRow, Issuers!RowExists
    <3> QED BY <1>t, <3>1, IssuersEnd, IssuersQuiet
  <2> QED BY <2>1, <2>2
<1>5. CASE Issuers(s, o)!DeleteIssuerAtAgent(req)
  <2>0. req.issuer \in s.issuer /\ req.op = "deleteAtAgent"
    BY <1>5, <1>t, IssuerRequestFields DEF Issuers!DeleteIssuerAtAgent
  <2>1. /\ pend' = pend \ {req} /\ UNCHANGED <<issuer, tmpl, cfg, broken, started>> /\ faults' \in 0..s.faults
        /\ agentIssuers' = agentIssuers \ {req.issuer} \/ agentIssuers' = agentIssuers
    BY <1>5, <1>t DEF Issuers!DeleteIssuerAtAgent, Issuers!End, Issuers!Fault
  <2>2. IssuersOnTheirWay'
    BY <1>t, <2>0, <2>1, IssuerRequestFields DEF IssuersOnTheirWay
  <2>3. Issuers(s, o)!AgentHasIssuer'
    BY <1>t, <2>0, <2>1 DEF Issuers!AgentHasIssuer, Issuers!RowExists, IssuersOnTheirWay
  <2>4. Issuers(s, o)!TypeOK'
    BY <1>t, <2>1, IssuersUnfoldedNext
  <2> QED BY <1>t, <2>1, <2>2, <2>3, <2>4 DEF IssuersIInv
<1> QED BY <1>1, <1>2, <1>3, <1>4, <1>5

(* Templates. *)
LEMMA TemplateStepsKept ==
  ASSUME NEW s, NEW o \in BOOLEAN, Issuers(s, o)!IssuerAssumption, IssuersIInv(s, o), NEW req \in pend,
         Issuers(s, o)!CreateTemplate(req) \/ Issuers(s, o)!UpdateTemplate(req)
  PROVE  IssuersIInv(s, o)'
<1>t. /\ issuer \in [s.issuer -> {"none", "primary", "other"}] /\ tmpl \in [s.template -> TmplRow(s) \cup {NoTmpl}]
      /\ \A t \in s.template : tmpl[t] # NoTmpl => issuer[tmpl[t].issuer] # "none"
      /\ cfg \in [s.issuer -> SUBSET (s.template \X (1..s.requests))]
      /\ broken \subseteq s.template /\ started \in 0..s.requests /\ faults \in 0..s.faults
      /\ req \in IssuerRequest(s)
  BY IssuersUnfolded DEF IssuersIInv
<1>0. ASSUME Issuers(s, o)!End(req), UNCHANGED <<issuer, tmpl, agentIssuers, cfg, broken, faults>>
      PROVE  IssuersIInv(s, o)'
  BY <1>0, <1>t, IssuersEnd, IssuersQuiet
<1>1. ASSUME NEW t \in s.template, NEW x \in TmplRow(s), NEW q \in IssuerRequest(s), q.op = "build",
             issuer[x.issuer] # "none", tmpl' = [tmpl EXCEPT ![t] = x], Issuers(s, o)!Go(req, q),
             UNCHANGED <<issuer, agentIssuers, cfg, broken, faults>>
      PROVE  IssuersIInv(s, o)'
  <2>1. /\ tmpl' \in [s.template -> TmplRow(s) \cup {NoTmpl}]
        /\ \A k \in s.template : tmpl'[k] # NoTmpl => issuer[tmpl'[k].issuer] # "none"
    BY <1>1, <1>t
  <2>2. /\ pend' \subseteq IssuerRequest(s) /\ started' = started
        /\ \A r \in pend' : r.op \in {"addIssuer", "deleteAtAgent"} => r \in pend
    BY <1>1, IssuersTurn DEF Issuers!Go
  <2> QED BY <1>1, <1>t, <2>1, <2>2, IssuersQuiet
<1>2. CASE Issuers(s, o)!CreateTemplate(req)
  <2> DEFINE x == [version |-> req.version, issuer |-> req.issuer, name |-> req.name]
             q == [op |-> "build", issuer |-> req.issuer, undo |-> [op |-> "create", template |-> req.template]]
  <2>1. /\ req.template \in s.template /\ x \in TmplRow(s) /\ x.issuer = req.issuer
        /\ q \in IssuerRequest(s) /\ q.op = "build"
    BY <1>2, <1>t, IssuerRequestFields DEF Issuers!CreateTemplate, TmplRow, IssuerRequest, TmplUndo
  <2>2. \/ /\ issuer[req.issuer] # "none" /\ tmpl' = [tmpl EXCEPT ![req.template] = x] /\ Issuers(s, o)!Go(req, q)
           /\ UNCHANGED <<issuer, agentIssuers, cfg, broken, faults>>
        \/ Issuers(s, o)!End(req) /\ UNCHANGED <<issuer, tmpl, agentIssuers, cfg, broken, faults>>
    BY <1>2 DEF Issuers!CreateTemplate, Issuers!RowExists
  <2> QED BY <1>0, <1>1, <2>1, <2>2
<1>3. CASE Issuers(s, o)!UpdateTemplate(req)
  <2> DEFINE q == [op |-> "build", issuer |-> req.new.issuer,
                   undo |-> [op |-> "update", template |-> req.template, row |-> req.row]]
  <2>1. req.template \in s.template /\ req.new \in TmplRow(s) /\ req.row \in TmplRow(s)
    BY <1>3, <1>t, IssuerRequestFields DEF Issuers!UpdateTemplate
  <2>2. q \in IssuerRequest(s) /\ q.op = "build"
    BY <2>1 DEF TmplRow, IssuerRequest, TmplUndo
  <2>3. \/ /\ issuer[req.new.issuer] # "none" /\ tmpl' = [tmpl EXCEPT ![req.template] = req.new]
           /\ Issuers(s, o)!Go(req, q) /\ UNCHANGED <<issuer, agentIssuers, cfg, broken, faults>>
        \/ Issuers(s, o)!End(req) /\ UNCHANGED <<issuer, tmpl, agentIssuers, cfg, broken, faults>>
    BY <1>3 DEF Issuers!UpdateTemplate, Issuers!RowExists
  <2> QED BY <1>0, <1>1, <2>1, <2>2, <2>3
<1> QED BY <1>2, <1>3

(* A request that begins. *)
LEMMA IssuersBegun ==
  ASSUME NEW s, NEW o \in BOOLEAN, Issuers(s, o)!IssuerAssumption, IssuersIInv(s, o),
         NEW q \in IssuerRequest(s), q.op \notin {"addIssuer", "deleteAtAgent"}, Issuers(s, o)!Begin(q),
         UNCHANGED <<agentIssuers, cfg, broken, faults>>,
         \/ UNCHANGED <<issuer, tmpl>>
         \/ \E t \in s.template : tmpl' = [tmpl EXCEPT ![t] = NoTmpl] /\ UNCHANGED issuer
         \/ /\ issuer' \in [s.issuer -> {"none", "primary", "other"}] /\ UNCHANGED tmpl
            /\ \A i \in s.issuer : issuer'[i] = "none" <=> issuer[i] = "none"
  PROVE  IssuersIInv(s, o)'
<1>t. /\ issuer \in [s.issuer -> {"none", "primary", "other"}] /\ tmpl \in [s.template -> TmplRow(s) \cup {NoTmpl}]
      /\ \A t \in s.template : tmpl[t] # NoTmpl => issuer[tmpl[t].issuer] # "none"
      /\ cfg \in [s.issuer -> SUBSET (s.template \X (1..s.requests))] /\ faults \in 0..s.faults
      /\ broken \subseteq s.template
  BY IssuersUnfolded DEF IssuersIInv
<1>1. /\ pend' \subseteq IssuerRequest(s) /\ started' \in 0..s.requests
      /\ \A r \in pend' : r.op \in {"addIssuer", "deleteAtAgent"} => r \in pend
  BY IssuersTurn
<1>2. /\ tmpl' \in [s.template -> TmplRow(s) \cup {NoTmpl}]
      /\ \A k \in s.template : tmpl'[k] # NoTmpl => issuer[tmpl'[k].issuer] # "none"
  BY <1>t
<1>3. /\ issuer' \in [s.issuer -> {"none", "primary", "other"}]
      /\ \A i \in s.issuer : issuer'[i] = "none" <=> issuer[i] = "none"
  BY <1>t
<1> QED BY <1>t, <1>1, <1>2, <1>3, IssuersQuiet

LEMMA IssuerRequestsKept ==
  ASSUME NEW s, NEW o \in BOOLEAN, Issuers(s, o)!IssuerAssumption, IssuersIInv(s, o), NEW i \in s.issuer
  PROVE  /\ Issuers(s, o)!OidcIssuerCreate(i) => IssuersIInv(s, o)'
         /\ Issuers(s, o)!DeleteOidcIssuer(i) => IssuersIInv(s, o)'
         /\ \A p \in {"yes", "no", "absent"} : Issuers(s, o)!OidcIssuerUpdate(i, p) => IssuersIInv(s, o)'
<1>t. issuer \in [s.issuer -> {"none", "primary", "other"}]
  BY IssuersUnfolded DEF IssuersIInv
<1>1. ASSUME Issuers(s, o)!OidcIssuerCreate(i)
      PROVE  IssuersIInv(s, o)'
  <2>1. PICK p \in BOOLEAN : p = (Issuers(s, o)!Primaries = {})
    OBVIOUS
  <2> DEFINE q == [op |-> "createIssuer", issuer |-> i, primary |-> p]
  <2>2. q \in IssuerRequest(s) /\ q.op \notin {"addIssuer", "deleteAtAgent"}
    BY DEF IssuerRequest
  <2>3. Issuers(s, o)!Begin(q) /\ UNCHANGED <<issuer, tmpl, agentIssuers, cfg, broken, faults>>
    BY <1>1, <2>1 DEF Issuers!OidcIssuerCreate
  <2> QED BY <2>2, <2>3, IssuersBegun
<1>2. ASSUME Issuers(s, o)!DeleteOidcIssuer(i)
      PROVE  IssuersIInv(s, o)'
  <2> DEFINE q == [op |-> "deleteTemplates", issuer |-> i]
  <2>2. q \in IssuerRequest(s) /\ q.op \notin {"addIssuer", "deleteAtAgent"}
    BY DEF IssuerRequest
  <2>3. Issuers(s, o)!Begin(q) /\ UNCHANGED <<issuer, tmpl, agentIssuers, cfg, broken, faults>>
    BY <1>2 DEF Issuers!DeleteOidcIssuer
  <2> QED BY <2>2, <2>3, IssuersBegun
<1>3. ASSUME NEW p \in {"yes", "no", "absent"}, Issuers(s, o)!OidcIssuerUpdate(i, p)
      PROVE  IssuersIInv(s, o)'
  <2> DEFINE q == [op |-> "build", issuer |-> i, undo |-> [op |-> "none"]]
  <2>2. q \in IssuerRequest(s) /\ q.op \notin {"addIssuer", "deleteAtAgent"}
    BY DEF IssuerRequest, TmplUndo
  <2>3. Issuers(s, o)!Begin(q) /\ UNCHANGED <<tmpl, agentIssuers, cfg, broken, faults>>
    BY <1>3 DEF Issuers!OidcIssuerUpdate
  <2>4. issuer[i] # "none" /\ Issuers(s, o)!UpdateOidcIssuerDetails(i, p)
    BY <1>3 DEF Issuers!OidcIssuerUpdate, Issuers!RowExists
  <2>5. /\ issuer' \in [s.issuer -> {"none", "primary", "other"}]
        /\ \A k \in s.issuer : issuer'[k] = "none" <=> issuer[k] = "none"
    BY <1>t, <2>4 DEF Issuers!UpdateOidcIssuerDetails
  <2> QED BY <2>2, <2>3, <2>5, IssuersBegun
<1> QED BY <1>1, <1>2, <1>3

LEMMA TemplateRequestsKept ==
  ASSUME NEW s, NEW o \in BOOLEAN, Issuers(s, o)!IssuerAssumption, IssuersIInv(s, o),
         NEW t \in s.template, NEW i \in s.issuer, NEW n \in s.name
  PROVE  /\ Issuers(s, o)!CreateTemplateCheck(t, i, n) => IssuersIInv(s, o)'
         /\ Issuers(s, o)!UpdateTemplateCheck(t, i, n) => IssuersIInv(s, o)'
<1>t. /\ tmpl \in [s.template -> TmplRow(s) \cup {NoTmpl}] /\ started \in 0..s.requests /\ s.requests \in Nat
      /\ Issuers(s, o)!Stored = {k \in s.template : tmpl[k] # NoTmpl}
  BY IssuersUnfolded DEF IssuersIInv
<1>0. PICK v : v = started + 1
  OBVIOUS
<1>1. ASSUME Issuers(s, o)!CreateTemplateCheck(t, i, n)
      PROVE  IssuersIInv(s, o)'
  <2> DEFINE q == [op |-> "createTemplate", template |-> t, issuer |-> i, name |-> n, version |-> v]
  <2>1. Issuers(s, o)!Begin(q) /\ UNCHANGED <<issuer, tmpl, agentIssuers, cfg, broken, faults>>
    BY <1>0, <1>1 DEF Issuers!CreateTemplateCheck
  <2>2. v \in 1..s.requests
    BY <1>0, <1>t, <2>1 DEF Issuers!Begin
  <2>3. q \in IssuerRequest(s) /\ q.op \notin {"addIssuer", "deleteAtAgent"}
    BY <2>2 DEF IssuerRequest
  <2> QED BY <2>1, <2>3, IssuersBegun
<1>2. ASSUME Issuers(s, o)!UpdateTemplateCheck(t, i, n)
      PROVE  IssuersIInv(s, o)'
  <2>0. PICK x : x = tmpl[t]
    OBVIOUS
  <2> DEFINE y == [version |-> v, issuer |-> i, name |-> n]
             q == [op |-> "updateTemplate", template |-> t, row |-> x, new |-> y]
  <2>1. Issuers(s, o)!Begin(q) /\ UNCHANGED <<issuer, tmpl, agentIssuers, cfg, broken, faults>> /\ tmpl[t] # NoTmpl
    BY <1>0, <1>2, <1>t, <2>0 DEF Issuers!UpdateTemplateCheck
  <2>2. v \in 1..s.requests
    BY <1>0, <1>t, <2>1 DEF Issuers!Begin
  <2>3. x \in TmplRow(s) /\ y \in TmplRow(s)
    BY <1>t, <2>0, <2>1, <2>2 DEF TmplRow
  <2>4. q \in IssuerRequest(s) /\ q.op \notin {"addIssuer", "deleteAtAgent"}
    BY <2>3 DEF IssuerRequest
  <2> QED BY <2>1, <2>4, IssuersBegun
<1> QED BY <1>1, <1>2

LEMMA DeleteTemplateKept ==
  ASSUME NEW s, NEW o \in BOOLEAN, Issuers(s, o)!IssuerAssumption, IssuersIInv(s, o),
         NEW t \in s.template, NEW i \in s.issuer, Issuers(s, o)!DeleteTemplate(t, i)
  PROVE  IssuersIInv(s, o)'
<1>t. /\ tmpl \in [s.template -> TmplRow(s) \cup {NoTmpl}] /\ Issuers(s, o)!NoTemplate = NoTmpl
      /\ Issuers(s, o)!Stored = {k \in s.template : tmpl[k] # NoTmpl}
  BY IssuersUnfolded DEF IssuersIInv
<1> DEFINE q == [op |-> "build", issuer |-> i, undo |-> [op |-> "none"]]
<1>2. q \in IssuerRequest(s) /\ q.op \notin {"addIssuer", "deleteAtAgent"}
  BY DEF IssuerRequest, TmplUndo
<1>3. /\ Issuers(s, o)!Begin(q) /\ tmpl' = [tmpl EXCEPT ![t] = NoTmpl]
      /\ UNCHANGED <<issuer, agentIssuers, cfg, broken, faults>>
  BY <1>t DEF Issuers!DeleteTemplate
<1> QED BY <1>2, <1>3, IssuersBegun

LEMMA IssuersKept ==
  ASSUME NEW s, NEW o \in BOOLEAN, Issuers(s, o)!IssuerAssumption, IssuersIInv(s, o), Issuers(s, o)!Next
  PROVE  IssuersIInv(s, o)'
<1>1. ASSUME NEW req \in pend, Issuers(s, o)!Steps(req)
      PROVE  IssuersIInv(s, o)'
  BY <1>1, ConfigKept, IssuerStepsKept, TemplateStepsKept DEF Issuers!Steps
<1> QED BY <1>1, IssuerRequestsKept, TemplateRequestsKept, DeleteTemplateKept DEF Issuers!Next

LEMMA IssuersBegin ==
  ASSUME NEW s, NEW o \in BOOLEAN, Issuers(s, o)!IssuerAssumption, Issuers(s, o)!Init
  PROVE  IssuersIInv(s, o)
<1>1. /\ issuer = [i \in s.issuer |-> "none"] /\ tmpl = [t \in s.template |-> NoTmpl]
      /\ agentIssuers = {} /\ cfg = [i \in s.issuer |-> {}] /\ broken = {} /\ pend = {} /\ started = 0 /\ faults = 0
  BY DEF Issuers!Init, Issuers!NoTemplate, NoTmpl
<1>2. Issuers(s, o)!TypeOK
  BY <1>1, IssuersUnfolded
<1> QED BY <1>1, <1>2 DEF IssuersIInv, Issuers!AgentHasIssuer, Issuers!RowExists, IssuersOnTheirWay

(* One request at a time: a template that the agent is not configured with *)
(* is the one the running handler is about to push or to undo, or one that *)
(* a failed undo or a lost answer left behind.                             *)
TmplGood(t) == t \in broken \/ <<t, tmpl[t].version>> \in cfg[tmpl[t].issuer]
TmplChanging(r, t) == r.op \in {"build", "push", "undo"} /\ r.undo.op \in {"create", "update"} /\ r.undo.template = t
TmplReady(s, r) ==
  /\ r.op = "push" => \A t \in s.template : tmpl[t] # NoTmpl /\ tmpl[t].issuer = r.issuer => <<t, tmpl[t].version>> \in r.config
  /\ r.op = "push" => \A t \in s.template, v \in 1..s.requests :
                        <<t, v>> \in r.config => tmpl[t] # NoTmpl /\ tmpl[t].issuer = r.issuer
  /\ r.op \in {"build", "push"} /\ r.undo.op \in {"create", "update"} =>
       tmpl[r.undo.template] # NoTmpl /\ tmpl[r.undo.template].issuer = r.issuer
  /\ r.op \in {"build", "push", "undo"} /\ r.undo.op = "update" =>
       /\ tmpl[r.undo.template] # NoTmpl /\ issuer[r.undo.row.issuer] # "none"
       /\ r.undo.template \in broken \/ <<r.undo.template, r.undo.row.version>> \in cfg[r.undo.row.issuer]
  /\ r.op = "updateTemplate" => tmpl[r.template] = r.row
IssuersInTurn(s) ==
  /\ \A r, q \in pend : r = q
  /\ \A t \in s.template : tmpl[t] # NoTmpl => TmplGood(t) \/ \E r \in pend : TmplChanging(r, t)
  /\ \A r \in pend : TmplReady(s, r)

(* What is known of the running handler's request. *)
LEMMA IssuersAlone ==
  ASSUME NEW s, Issuers(s, FALSE)!IssuerAssumption, IssuersIInv(s, FALSE), IssuersInTurn(s), NEW req \in pend
  PROVE  /\ pend = {req} /\ req \in IssuerRequest(s) /\ TmplReady(s, req)
         /\ \A t \in s.template : tmpl[t] # NoTmpl => TmplGood(t) \/ TmplChanging(req, t)
         /\ issuer \in [s.issuer -> {"none", "primary", "other"}]
         /\ tmpl \in [s.template -> TmplRow(s) \cup {NoTmpl}]
         /\ cfg \in [s.issuer -> SUBSET (s.template \X (1..s.requests))]
         /\ \A t \in s.template : tmpl[t] # NoTmpl => tmpl[t].issuer \in s.issuer /\ issuer[tmpl[t].issuer] # "none"
         /\ \A i \in s.issuer : issuer[i] # "none" => i \in agentIssuers
         /\ \A x \in TmplRow(s) : x # NoTmpl
         /\ Issuers(s, FALSE)!NoTemplate = NoTmpl
         /\ Issuers(s, FALSE)!Stored = {t \in s.template : tmpl[t] # NoTmpl}
         /\ \A q : Issuers(s, FALSE)!Go(req, q) => pend' = {q}
         /\ Issuers(s, FALSE)!End(req) => pend' = {}
<1>1. pend = {req}
  BY DEF IssuersInTurn
<1>2. /\ \A q : Issuers(s, FALSE)!Go(req, q) => pend' = {q}
      /\ Issuers(s, FALSE)!End(req) => pend' = {}
  BY <1>1 DEF Issuers!Go, Issuers!End
<1>3. /\ req \in IssuerRequest(s) /\ TmplReady(s, req)
      /\ \A t \in s.template : tmpl[t] # NoTmpl => TmplGood(t) \/ TmplChanging(req, t)
  BY <1>1 DEF IssuersInTurn, IssuersIInv
<1>4. /\ issuer \in [s.issuer -> {"none", "primary", "other"}]
      /\ tmpl \in [s.template -> TmplRow(s) \cup {NoTmpl}]
      /\ cfg \in [s.issuer -> SUBSET (s.template \X (1..s.requests))]
      /\ \A x \in TmplRow(s) : x # NoTmpl
      /\ Issuers(s, FALSE)!NoTemplate = NoTmpl
      /\ Issuers(s, FALSE)!Stored = {t \in s.template : tmpl[t] # NoTmpl}
      /\ \A t \in s.template : tmpl[t] # NoTmpl => issuer[tmpl[t].issuer] # "none"
  BY IssuersUnfolded DEF IssuersIInv
<1>5. \A i \in s.issuer : issuer[i] # "none" => i \in agentIssuers
  BY DEF IssuersIInv, Issuers!AgentHasIssuer, Issuers!RowExists
<1>6. \A t \in s.template : tmpl[t] # NoTmpl => tmpl[t].issuer \in s.issuer
  BY <1>4 DEF TmplRow
<1> QED BY <1>1, <1>2, <1>3, <1>4, <1>5, <1>6

LEMMA ConfigInTurn ==
  ASSUME NEW s, Issuers(s, FALSE)!IssuerAssumption, IssuersIInv(s, FALSE), IssuersInTurn(s), NEW req \in pend,
         \/ Issuers(s, FALSE)!BuildConfig(req) \/ Issuers(s, FALSE)!CreateOIDCTemplate(req) \/ Issuers(s, FALSE)!Undo(req)
         \/ Issuers(s, FALSE)!WriteFails(req)
  PROVE  IssuersInTurn(s)'
<1>t. /\ pend = {req} /\ req \in IssuerRequest(s) /\ TmplReady(s, req)
      /\ \A t \in s.template : tmpl[t] # NoTmpl => TmplGood(t) \/ TmplChanging(req, t)
      /\ issuer \in [s.issuer -> {"none", "primary", "other"}]
      /\ tmpl \in [s.template -> TmplRow(s) \cup {NoTmpl}]
      /\ cfg \in [s.issuer -> SUBSET (s.template \X (1..s.requests))]
      /\ \A t \in s.template : tmpl[t] # NoTmpl => tmpl[t].issuer \in s.issuer
      /\ \A x \in TmplRow(s) : x # NoTmpl
      /\ Issuers(s, FALSE)!NoTemplate = NoTmpl
      /\ Issuers(s, FALSE)!Stored = {t \in s.template : tmpl[t] # NoTmpl}
      /\ \A t \in s.template : tmpl[t] # NoTmpl => issuer[tmpl[t].issuer] # "none"
      /\ \A q : Issuers(s, FALSE)!Go(req, q) => pend' = {q}
      /\ Issuers(s, FALSE)!End(req) => pend' = {}
  BY IssuersAlone
<1>1. CASE Issuers(s, FALSE)!BuildConfig(req)
  <2>0. req.op = "build" /\ req.issuer \in s.issuer /\ req.undo \in TmplUndo(s) /\ UNCHANGED <<issuer, tmpl, cfg, broken>>
    BY <1>1, <1>t, IssuerRequestFields DEF Issuers!BuildConfig
  <2>1. PICK c : c = Issuers(s, FALSE)!BuildOidcIssuerConfig(req.issuer)
    OBVIOUS
  <2>2. \A t \in s.template : tmpl[t] # NoTmpl /\ tmpl[t].issuer = req.issuer => <<t, tmpl[t].version>> \in c
    BY <1>t, <2>1 DEF Issuers!BuildOidcIssuerConfig, Issuers!TemplatesOf
  <2>7. \A t \in s.template, v \in 1..s.requests : <<t, v>> \in c => tmpl[t] # NoTmpl /\ tmpl[t].issuer = req.issuer
    BY <1>t, <2>1 DEF Issuers!BuildOidcIssuerConfig, Issuers!TemplatesOf
  <2> DEFINE q == [op |-> "push", issuer |-> req.issuer, undo |-> req.undo, config |-> c]
             u == [op |-> "undo", undo |-> req.undo]
  <2>3. pend' = {q} \/ pend' = {u}
    BY <1>1, <1>t, <2>1 DEF Issuers!BuildConfig
  <2>4. /\ q.op = "push" /\ q.issuer = req.issuer /\ q.undo = req.undo /\ q.config = c
        /\ u.op = "undo" /\ u.undo = req.undo
    OBVIOUS
  <2> HIDE DEF q, u
  <2>5. TmplReady(s, q)' /\ TmplReady(s, u)'
    BY <1>t, <2>0, <2>2, <2>4, <2>7 DEF TmplReady
  <2>6. \A t \in s.template : TmplChanging(req, t) => TmplChanging(q, t) /\ TmplChanging(u, t)
    BY <2>0, <2>4 DEF TmplChanging
  <2>8. \A t \in s.template : tmpl'[t] # NoTmpl => TmplGood(t)' \/ TmplChanging(req, t)
    BY <1>t, <2>0 DEF TmplGood
  <2> QED BY <2>3, <2>5, <2>6, <2>8 DEF IssuersInTurn
<1>2. CASE Issuers(s, FALSE)!CreateOIDCTemplate(req)
  <2>0. req.op = "push" /\ req.issuer \in s.issuer /\ req.undo \in TmplUndo(s) /\ UNCHANGED <<issuer, tmpl>>
    BY <1>2, <1>t, IssuerRequestFields DEF Issuers!CreateOIDCTemplate
  <2> DEFINE u == [op |-> "undo", undo |-> req.undo]
  <2>u. u.op = "undo" /\ u.undo = req.undo
    OBVIOUS
  <2>c. \A t \in s.template : TmplChanging(req, t) <=> TmplChanging(u, t)
    BY <2>0, <2>u DEF TmplChanging
  <2>1. CASE /\ cfg' = [cfg EXCEPT ![req.issuer] = req.config] /\ Issuers(s, FALSE)!End(req)
             /\ broken' = {t \in broken : \A v \in 1..s.requests : <<t, v>> \notin req.config}
    <3>1. \A t \in s.template : tmpl'[t] # NoTmpl => TmplGood(t)'
      BY <1>t, <2>0, <2>1 DEF TmplGood, TmplReady, TmplChanging
    <3> QED BY <1>t, <2>1, <3>1 DEF IssuersInTurn
  <2>2. CASE UNCHANGED <<cfg, broken>> /\ Issuers(s, FALSE)!Go(req, u)
    <3>1. pend' = {u}
      BY <1>t, <2>2
    <3> HIDE DEF u
    <3>2. TmplReady(s, u)'
      BY <1>t, <2>0, <2>2, <2>u DEF TmplReady
    <3>4. \A t \in s.template : tmpl'[t] # NoTmpl => TmplGood(t)' \/ TmplChanging(req, t)
      BY <1>t, <2>0, <2>2 DEF TmplGood
    <3> QED BY <3>1, <3>2, <2>c, <3>4 DEF IssuersInTurn
  <2>3. CASE /\ cfg' = [cfg EXCEPT ![req.issuer] = req.config] /\ Issuers(s, FALSE)!Go(req, u)
             /\ broken' = broken \cup Issuers(s, FALSE)!Changed(req.undo)
    <3>1. pend' = {u}
      BY <1>t, <2>3
    <3> HIDE DEF u
    <3>2. req.undo.op = "update" => req.undo.template \in broken'
      BY <2>3 DEF Issuers!Changed
    <3>3. TmplReady(s, u)'
      BY <1>t, <2>0, <2>u, <3>2 DEF TmplReady
    <3>4. \A t \in s.template : tmpl'[t] # NoTmpl => TmplGood(t)' \/ TmplChanging(req, t)
      BY <1>t, <2>0, <2>3 DEF TmplGood, TmplReady
    <3> QED BY <3>1, <3>3, <2>c, <3>4 DEF IssuersInTurn
  <2> QED BY <1>2, <2>1, <2>2, <2>3 DEF Issuers!CreateOIDCTemplate
<1>3. CASE Issuers(s, FALSE)!Undo(req)
  <2>0. req.op = "undo" /\ req.undo \in TmplUndo(s) /\ UNCHANGED <<issuer, cfg>> /\ pend' = {}
    BY <1>3, <1>t, IssuerRequestFields DEF Issuers!Undo
  <2>1. /\ req.undo.op \in {"none", "create", "update"}
        /\ req.undo.op \in {"create", "update"} => req.undo.template \in s.template
        /\ req.undo.op = "update" => req.undo.row \in TmplRow(s)
    BY <2>0, TmplUndoFields
  <2>2. CASE UNCHANGED broken
    <3>1. \/ req.undo.op = "none" /\ tmpl' = tmpl
          \/ req.undo.op = "create" /\ tmpl' = [tmpl EXCEPT ![req.undo.template] = NoTmpl]
          \/ req.undo.op = "update" /\ tmpl' = [tmpl EXCEPT ![req.undo.template] = req.undo.row]
          \/ req.undo.op # "none" /\ tmpl' = tmpl /\ req.undo.template \in broken
      BY <1>3, <1>t, <2>0, <2>1, <2>2 DEF Issuers!Undo, Issuers!RowExists, Issuers!Changed, TmplReady
    <3>2. \A t \in s.template : tmpl'[t] # NoTmpl => TmplGood(t)'
      BY <1>t, <2>0, <2>1, <2>2, <3>1 DEF TmplGood, TmplReady, TmplChanging
    <3> QED BY <2>0, <3>2 DEF IssuersInTurn
  <2>3. CASE tmpl' = tmpl /\ req.undo.op # "none" /\ broken' = broken \cup {req.undo.template}
    <3>1. \A t \in s.template : tmpl'[t] # NoTmpl => TmplGood(t)'
      BY <1>t, <2>0, <2>1, <2>3 DEF TmplGood, TmplChanging
    <3> QED BY <2>0, <3>1 DEF IssuersInTurn
  <2> QED BY <1>3, <2>2, <2>3 DEF Issuers!Undo, Issuers!Changed
<1>4. CASE Issuers(s, FALSE)!WriteFails(req)
  <2>1. req.op \notin {"build", "push", "undo"} /\ pend' = {} /\ UNCHANGED <<tmpl, cfg, broken>>
    BY <1>4, <1>t DEF Issuers!WriteFails
  <2> QED BY <1>t, <2>1 DEF IssuersInTurn, TmplGood, TmplChanging
<1> QED BY <1>1, <1>2, <1>3, <1>4

LEMMA StepsInTurn ==
  ASSUME NEW s, Issuers(s, FALSE)!IssuerAssumption, IssuersIInv(s, FALSE), IssuersInTurn(s), NEW req \in pend,
         \/ Issuers(s, FALSE)!OidcIssuerAtAgent(req) \/ Issuers(s, FALSE)!AddOidcIssuerDetails(req)
         \/ Issuers(s, FALSE)!DeleteTemplatesByIssuerId(req)
         \/ Issuers(s, FALSE)!DeleteIssuerRow(req) \/ Issuers(s, FALSE)!DeleteIssuerAtAgent(req)
  PROVE  IssuersInTurn(s)'
<1>t. /\ pend = {req} /\ req \in IssuerRequest(s)
      /\ \A t \in s.template : tmpl[t] # NoTmpl => TmplGood(t) \/ TmplChanging(req, t)
      /\ issuer \in [s.issuer -> {"none", "primary", "other"}]
      /\ tmpl \in [s.template -> TmplRow(s) \cup {NoTmpl}]
      /\ cfg \in [s.issuer -> SUBSET (s.template \X (1..s.requests))]
      /\ \A t \in s.template : tmpl[t] # NoTmpl => tmpl[t].issuer \in s.issuer /\ issuer[tmpl[t].issuer] # "none"
      /\ \A i \in s.issuer : issuer[i] # "none" => i \in agentIssuers
      /\ Issuers(s, FALSE)!NoTemplate = NoTmpl
      /\ Issuers(s, FALSE)!Stored = {t \in s.template : tmpl[t] # NoTmpl}
      /\ \A q : Issuers(s, FALSE)!Go(req, q) => pend' = {q}
      /\ Issuers(s, FALSE)!End(req) => pend' = {}
  BY IssuersAlone
<1>0. req.op \notin {"build", "push", "undo"}
  BY DEF Issuers!OidcIssuerAtAgent, Issuers!AddOidcIssuerDetails, Issuers!DeleteTemplatesByIssuerId,
         Issuers!DeleteIssuerRow, Issuers!DeleteIssuerAtAgent
<1>1. \A t \in s.template : tmpl[t] # NoTmpl => TmplGood(t)
  BY <1>0, <1>t DEF TmplChanging
<1>2. \A t \in s.template : tmpl'[t] # NoTmpl => TmplGood(t)'
  <2>1. CASE Issuers(s, FALSE)!OidcIssuerAtAgent(req)
    <3>1. req.issuer \in s.issuer
      BY <1>t, <2>1, IssuerRequestFields DEF Issuers!OidcIssuerAtAgent
    <3> QED BY <1>1, <1>t, <2>1, <3>1 DEF Issuers!OidcIssuerAtAgent, TmplGood
  <2>2. CASE Issuers(s, FALSE)!DeleteTemplatesByIssuerId(req)
    <3>1. \A t \in s.template : tmpl'[t] = NoTmpl \/ tmpl'[t] = tmpl[t]
      BY <1>t, <2>2 DEF Issuers!DeleteTemplatesByIssuerId
    <3>2. UNCHANGED <<cfg, broken>>
      BY <2>2 DEF Issuers!DeleteTemplatesByIssuerId
    <3> QED BY <1>1, <3>1, <3>2 DEF TmplGood
  <2>3. CASE ~Issuers(s, FALSE)!OidcIssuerAtAgent(req) /\ ~Issuers(s, FALSE)!DeleteTemplatesByIssuerId(req)
    <3>1. UNCHANGED <<tmpl, cfg, broken>>
      BY <2>3 DEF Issuers!AddOidcIssuerDetails, Issuers!DeleteIssuerRow, Issuers!DeleteIssuerAtAgent
    <3> QED BY <1>1, <3>1 DEF TmplGood
  <2> QED BY <2>1, <2>2, <2>3
<1>3. \/ pend' = {}
      \/ \E q : pend' = {q} /\ q.op \in {"addIssuer", "deleteIssuer", "deleteAtAgent"}
  <2> DEFINE q1 == [op |-> "addIssuer", issuer |-> req.issuer, primary |-> req.primary]
             q2 == [op |-> "deleteIssuer", issuer |-> req.issuer]
             q3 == [op |-> "deleteAtAgent", issuer |-> req.issuer]
  <2>1. q1.op = "addIssuer" /\ q2.op = "deleteIssuer" /\ q3.op = "deleteAtAgent"
    OBVIOUS
  <2>2. \/ Issuers(s, FALSE)!End(req) \/ Issuers(s, FALSE)!Go(req, q1)
        \/ Issuers(s, FALSE)!Go(req, q2) \/ Issuers(s, FALSE)!Go(req, q3)
    BY DEF Issuers!OidcIssuerAtAgent, Issuers!AddOidcIssuerDetails, Issuers!DeleteTemplatesByIssuerId,
           Issuers!DeleteIssuerRow, Issuers!DeleteIssuerAtAgent
  <2> HIDE DEF q1, q2, q3
  <2> QED BY <1>t, <2>1, <2>2
<1>4. \A r \in pend' : TmplReady(s, r)'
  BY <1>3 DEF TmplReady
<1> QED BY <1>2, <1>3, <1>4 DEF IssuersInTurn

LEMMA TemplatesInTurn ==
  ASSUME NEW s, Issuers(s, FALSE)!IssuerAssumption, IssuersIInv(s, FALSE), IssuersInTurn(s), NEW req \in pend,
         Issuers(s, FALSE)!CreateTemplate(req) \/ Issuers(s, FALSE)!UpdateTemplate(req)
  PROVE  IssuersInTurn(s)'
<1>t. /\ pend = {req} /\ req \in IssuerRequest(s) /\ TmplReady(s, req)
      /\ \A t \in s.template : tmpl[t] # NoTmpl => TmplGood(t) \/ TmplChanging(req, t)
      /\ tmpl \in [s.template -> TmplRow(s) \cup {NoTmpl}]
      /\ \A t \in s.template : tmpl[t] # NoTmpl => issuer[tmpl[t].issuer] # "none"
      /\ \A x \in TmplRow(s) : x # NoTmpl
      /\ \A q : Issuers(s, FALSE)!Go(req, q) => pend' = {q}
      /\ Issuers(s, FALSE)!End(req) => pend' = {}
  BY IssuersAlone
<1>1. req.op \notin {"build", "push", "undo"} /\ UNCHANGED <<issuer, cfg, broken>>
  BY DEF Issuers!CreateTemplate, Issuers!UpdateTemplate
<1>2. \A t \in s.template : tmpl[t] # NoTmpl => TmplGood(t)
  BY <1>1, <1>t DEF TmplChanging
<1>3. ASSUME Issuers(s, FALSE)!End(req), UNCHANGED tmpl
      PROVE  IssuersInTurn(s)'
  BY <1>1, <1>2, <1>3, <1>t DEF IssuersInTurn, TmplGood
<1>4. ASSUME NEW k \in s.template, NEW x \in TmplRow(s), NEW q, q.op = "build", q.issuer = x.issuer,
             q.undo.op \in {"create", "update"}, q.undo.template = k,
             q.undo.op = "update" => tmpl[k] = q.undo.row /\ q.undo.row # NoTmpl,
             tmpl' = [tmpl EXCEPT ![k] = x], pend' = {q}
      PROVE  IssuersInTurn(s)'
  <2>1. \A t \in s.template : tmpl'[t] # NoTmpl => TmplGood(t)' \/ TmplChanging(q, t)
    BY <1>1, <1>2, <1>4, <1>t DEF TmplGood, TmplChanging
  <2>2. TmplReady(s, q)'
    BY <1>1, <1>2, <1>4, <1>t DEF TmplGood, TmplReady
  <2> QED BY <1>4, <2>1, <2>2 DEF IssuersInTurn
<1>5. CASE Issuers(s, FALSE)!CreateTemplate(req)
  <2> DEFINE x == [version |-> req.version, issuer |-> req.issuer, name |-> req.name]
             q == [op |-> "build", issuer |-> req.issuer, undo |-> [op |-> "create", template |-> req.template]]
  <2>1. req.template \in s.template /\ x \in TmplRow(s)
    BY <1>5, <1>t, IssuerRequestFields DEF Issuers!CreateTemplate, TmplRow
  <2>2. /\ q.op = "build" /\ q.issuer = x.issuer /\ q.undo.op = "create" /\ q.undo.template = req.template
    OBVIOUS
  <2>3. \/ tmpl' = [tmpl EXCEPT ![req.template] = x] /\ pend' = {q}
        \/ Issuers(s, FALSE)!End(req) /\ UNCHANGED tmpl
    BY <1>5, <1>t DEF Issuers!CreateTemplate
  <2> HIDE DEF x, q
  <2> QED BY <1>3, <1>4, <2>1, <2>2, <2>3
<1>6. CASE Issuers(s, FALSE)!UpdateTemplate(req)
  <2> DEFINE q == [op |-> "build", issuer |-> req.new.issuer,
                   undo |-> [op |-> "update", template |-> req.template, row |-> req.row]]
  <2>1. /\ req.template \in s.template /\ req.new \in TmplRow(s) /\ req.row # NoTmpl
        /\ tmpl[req.template] = req.row
    BY <1>6, <1>t, IssuerRequestFields DEF Issuers!UpdateTemplate, TmplReady
  <2>2. /\ q.op = "build" /\ q.issuer = req.new.issuer /\ q.undo.op = "update" /\ q.undo.template = req.template
        /\ q.undo.row = req.row
    OBVIOUS
  <2>3. \/ tmpl' = [tmpl EXCEPT ![req.template] = req.new] /\ pend' = {q}
        \/ Issuers(s, FALSE)!End(req) /\ UNCHANGED tmpl
    BY <1>6, <1>t DEF Issuers!UpdateTemplate
  <2> HIDE DEF q
  <2>4. CASE tmpl' = [tmpl EXCEPT ![req.template] = req.new] /\ pend' = {q}
    <3>1. q.undo.op \in {"create", "update"} /\ (q.undo.op = "update" => tmpl[req.template] = q.undo.row /\ q.undo.row # NoTmpl)
      BY <2>1, <2>2
    <3> QED BY <1>4, <2>1, <2>2, <2>4, <3>1
  <2> QED BY <1>3, <2>3, <2>4
<1> QED BY <1>5, <1>6

(* Requests begin when no handler runs: all templates are configured. *)
LEMMA BegunInTurn ==
  ASSUME NEW s, Issuers(s, FALSE)!IssuerAssumption, IssuersIInv(s, FALSE), IssuersInTurn(s),
         \/ \E i \in s.issuer : \/ Issuers(s, FALSE)!OidcIssuerCreate(i) \/ Issuers(s, FALSE)!DeleteOidcIssuer(i)
                                \/ \E p \in {"yes", "no", "absent"} : Issuers(s, FALSE)!OidcIssuerUpdate(i, p)
                                \/ \E t \in s.template, n \in s.name :
                                     \/ Issuers(s, FALSE)!CreateTemplateCheck(t, i, n)
                                     \/ Issuers(s, FALSE)!UpdateTemplateCheck(t, i, n)
                                \/ \E t \in s.template : Issuers(s, FALSE)!DeleteTemplate(t, i)
  PROVE  IssuersInTurn(s)'
<1>t. /\ tmpl \in [s.template -> TmplRow(s) \cup {NoTmpl}] /\ Issuers(s, FALSE)!NoTemplate = NoTmpl
  BY IssuersUnfolded DEF IssuersIInv
<1>1. ASSUME NEW q, Issuers(s, FALSE)!Begin(q), UNCHANGED <<cfg, broken>>,
             \A t \in s.template : tmpl'[t] = NoTmpl \/ tmpl'[t] = tmpl[t],
             \/ q.op \in {"createIssuer", "deleteTemplates", "createTemplate"}
             \/ q.op = "build" /\ q.undo.op = "none"
             \/ q.op = "updateTemplate" /\ tmpl'[q.template] = q.row
      PROVE  IssuersInTurn(s)'
  <2>1. pend = {} /\ pend' = {q}
    BY <1>1 DEF Issuers!Begin
  <2>2. \A t \in s.template : tmpl'[t] # NoTmpl => TmplGood(t)'
    BY <1>1, <2>1 DEF IssuersInTurn, TmplGood
  <2>3. TmplReady(s, q)'
    BY <1>1 DEF TmplReady
  <2> QED BY <2>1, <2>2, <2>3 DEF IssuersInTurn
<1>2. ASSUME NEW i \in s.issuer,
             \/ Issuers(s, FALSE)!OidcIssuerCreate(i) \/ Issuers(s, FALSE)!DeleteOidcIssuer(i)
             \/ \E p \in {"yes", "no", "absent"} : Issuers(s, FALSE)!OidcIssuerUpdate(i, p)
      PROVE  IssuersInTurn(s)'
  <2>1. UNCHANGED <<tmpl, cfg, broken>>
    BY <1>2 DEF Issuers!OidcIssuerCreate, Issuers!DeleteOidcIssuer, Issuers!OidcIssuerUpdate
  <2>2. \E q : /\ Issuers(s, FALSE)!Begin(q)
               /\ \/ q.op \in {"createIssuer", "deleteTemplates"}
                  \/ q.op = "build" /\ q.undo.op = "none"
    <3> DEFINE q1 == [op |-> "createIssuer", issuer |-> i, primary |-> Issuers(s, FALSE)!Primaries = {}]
               q2 == [op |-> "deleteTemplates", issuer |-> i]
               q3 == [op |-> "build", issuer |-> i, undo |-> [op |-> "none"]]
    <3>1. q1.op = "createIssuer" /\ q2.op = "deleteTemplates" /\ q3.op = "build" /\ q3.undo.op = "none"
      OBVIOUS
    <3>2. Issuers(s, FALSE)!Begin(q1) \/ Issuers(s, FALSE)!Begin(q2) \/ Issuers(s, FALSE)!Begin(q3)
      BY <1>2 DEF Issuers!OidcIssuerCreate, Issuers!DeleteOidcIssuer, Issuers!OidcIssuerUpdate
    <3> HIDE DEF q1, q2, q3
    <3> QED BY <3>1, <3>2
  <2> QED BY <1>1, <2>1, <2>2
<1>3. ASSUME NEW t \in s.template, NEW i \in s.issuer, NEW n \in s.name,
             Issuers(s, FALSE)!CreateTemplateCheck(t, i, n) \/ Issuers(s, FALSE)!UpdateTemplateCheck(t, i, n)
      PROVE  IssuersInTurn(s)'
  <2>1. UNCHANGED <<tmpl, cfg, broken>>
    BY <1>3 DEF Issuers!CreateTemplateCheck, Issuers!UpdateTemplateCheck
  <2>2. \E q : /\ Issuers(s, FALSE)!Begin(q)
               /\ \/ q.op = "createTemplate"
                  \/ q.op = "updateTemplate" /\ tmpl[q.template] = q.row
    <3> DEFINE q1 == [op |-> "createTemplate", template |-> t, issuer |-> i, name |-> n, version |-> started + 1]
               q2 == [op |-> "updateTemplate", template |-> t, row |-> tmpl[t],
                      new |-> [version |-> started + 1, issuer |-> i, name |-> n]]
    <3>1. q1.op = "createTemplate" /\ q2.op = "updateTemplate" /\ q2.template = t /\ q2.row = tmpl[t]
      OBVIOUS
    <3>2. Issuers(s, FALSE)!Begin(q1) \/ Issuers(s, FALSE)!Begin(q2)
      BY <1>3 DEF Issuers!CreateTemplateCheck, Issuers!UpdateTemplateCheck
    <3> HIDE DEF q1, q2
    <3> QED BY <3>1, <3>2
  <2> QED BY <1>1, <2>1, <2>2
<1>4. ASSUME NEW t \in s.template, NEW i \in s.issuer, Issuers(s, FALSE)!DeleteTemplate(t, i)
      PROVE  IssuersInTurn(s)'
  <2>1. UNCHANGED <<cfg, broken>> /\ \A k \in s.template : tmpl'[k] = NoTmpl \/ tmpl'[k] = tmpl[k]
    BY <1>4, <1>t DEF Issuers!DeleteTemplate
  <2>2. \E q : Issuers(s, FALSE)!Begin(q) /\ q.op = "build" /\ q.undo.op = "none"
    <3> DEFINE q1 == [op |-> "build", issuer |-> i, undo |-> [op |-> "none"]]
    <3>1. q1.op = "build" /\ q1.undo.op = "none"
      OBVIOUS
    <3>2. Issuers(s, FALSE)!Begin(q1)
      BY <1>4 DEF Issuers!DeleteTemplate
    <3> HIDE DEF q1
    <3> QED BY <3>1, <3>2
  <2> QED BY <1>1, <2>1, <2>2
<1> QED BY <1>2, <1>3, <1>4

LEMMA IssuersInTurnKept ==
  ASSUME NEW s, Issuers(s, FALSE)!IssuerAssumption, IssuersIInv(s, FALSE), IssuersInTurn(s), Issuers(s, FALSE)!Next
  PROVE  IssuersInTurn(s)'
<1>1. ASSUME NEW req \in pend, Issuers(s, FALSE)!Steps(req)
      PROVE  IssuersInTurn(s)'
  BY <1>1, ConfigInTurn, StepsInTurn, TemplatesInTurn DEF Issuers!Steps
<1> QED BY <1>1, BegunInTurn DEF Issuers!Next

LEMMA IssuersInTurnBegin ==
  ASSUME NEW s, Issuers(s, FALSE)!IssuerAssumption, Issuers(s, FALSE)!Init
  PROVE  IssuersInTurn(s)
BY IssuersUnfolded DEF Issuers!Init, IssuersInTurn

LEMMA InTurnConfigured ==
  ASSUME NEW s, Issuers(s, FALSE)!IssuerAssumption, IssuersInTurn(s)
  PROVE  Issuers(s, FALSE)!TemplatesConfigured
<1>1. Issuers(s, FALSE)!Stored = {t \in s.template : tmpl[t] # NoTmpl}
  BY IssuersUnfolded
<1> QED BY <1>1 DEF Issuers!TemplatesConfigured, IssuersInTurn, TmplGood

-----------------------------------------------------------------------------
(* oid4vc-issuance: offers and status lists.                               *)

ListIndex(s) == 0..s.listSize - 1
ListSlot(s) == (1..s.lists) \X ListIndex(s)
ListRow(s) == [active : BOOLEAN, bits : SUBSET ListIndex(s), count : Nat, exists : BOOLEAN]
OfferStep == {"idle", "alloc", "save", "done", "unnamed", "undo", "failed"}
OfferState(s) ==
  [step : OfferStep, need : Int, details : Seq(ListSlot(s)), allocs : Seq(ListSlot(s)), kept : Nat,
   snap : 0..s.lists, full : 0..s.lists, bits : SUBSET ListIndex(s)]

(* A transaction belongs to a handler that allocates or releases, and the  *)
(* list it takes out of use is not the one it writes; the credentials that *)
(* were saved have rows, and an offer that was answered has one for each.  *)
KeptRows(x, u, rows) ==
  /\ u.kept <= Len(u.details)
  /\ \A k \in 1..u.kept : <<x, u.details[k][1], u.details[k][2]>> \in rows
  /\ u.step = "done" => u.kept = Len(u.details)
OfferReady(x, u) ==
  /\ u.snap = 0 => u.full = 0
  /\ u.snap # 0 => u.full # u.snap
  /\ u.snap # 0 => (u.step = "alloc" /\ u.need > 0) \/ (u.step = "undo" /\ u.allocs # <<>>)
  /\ KeptRows(x, u, allocations)

ListsIInv(s) ==
  /\ lists \in [1..s.lists -> ListRow(s)]
  /\ \A l \in 1..s.lists : lists[l].count = Cardinality(lists[l].bits) /\ (lists[l].active => lists[l].exists)
  /\ offer \in [s.offer -> OfferState(s)]
  /\ allocations \subseteq (s.offer \X (1..s.lists) \X ListIndex(s))
  /\ atAgent \subseteq s.offer /\ revoked \subseteq ListSlot(s)
  /\ \A x \in s.offer : OfferReady(x, offer[x])

(* The cardinality the module uses is the one used here. *)
LEMMA ListsCardinality ==
  ASSUME NEW s, NEW o \in BOOLEAN
  PROVE  \A S : Lists(s, o)!Cardinality(S) = Cardinality(S)
BY DEF Lists!Cardinality, Cardinality, Lists!IsFiniteSet, IsFiniteSet

LEMMA ListsUnfolded ==
  ASSUME NEW s, NEW o \in BOOLEAN, Lists(s, o)!StatusListAssumption
  PROVE  /\ s.listSize \in Nat \ {0} /\ s.lists \in Nat /\ s.credentials \in Nat
         /\ Lists(s, o)!Index = ListIndex(s) /\ Lists(s, o)!List = 1..s.lists /\ Lists(s, o)!Slot = ListSlot(s)
         /\ Lists(s, o)!NoList = [active |-> FALSE, bits |-> {}, count |-> 0, exists |-> FALSE]
BY DEF Lists!StatusListAssumption, Lists!Index, Lists!List, Lists!Slot, Lists!NoList, Lists!Idle, ListIndex, ListSlot

(* Sets of indexes are finite, and one with fewer members than the list    *)
(* has positions leaves one free.                                          *)
LEMMA IndexesFinite ==
  ASSUME NEW s, s.listSize \in Nat \ {0}, NEW b \in SUBSET ListIndex(s)
  PROVE  /\ IsFiniteSet(b) /\ Cardinality(b) \in Nat
         /\ Cardinality(b) < s.listSize => ListIndex(s) \ b # {}
<1>1. IsFiniteSet(ListIndex(s)) /\ Cardinality(ListIndex(s)) = s.listSize
  <2>1. 0 \in Int /\ s.listSize - 1 \in Int /\ ~(0 > s.listSize - 1) /\ s.listSize - 1 - 0 + 1 = s.listSize
    OBVIOUS
  <2> QED BY <2>1, FS_Interval DEF ListIndex
<1>2. IsFiniteSet(b) /\ Cardinality(b) \in Nat
  BY <1>1, FS_Subset, FS_CardinalityType
<1>3. ASSUME ListIndex(s) \ b = {}
      PROVE  Cardinality(b) = s.listSize
  <2>1. b = ListIndex(s)
    BY <1>3
  <2> QED BY <1>1, <2>1
<1> QED BY <1>2, <1>3

(* A step of one handler. *)
LEMMA ListsMoved ==
  ASSUME NEW s, ListsIInv(s), NEW x \in s.offer, NEW u \in OfferState(s), offer' = [offer EXCEPT ![x] = u],
         OfferReady(x, u)',
         lists' \in [1..s.lists -> ListRow(s)], 
         \A l \in 1..s.lists : lists'[l].count = Cardinality(lists'[l].bits) /\ (lists'[l].active => lists'[l].exists),
         allocations \subseteq allocations', allocations' \subseteq (s.offer \X (1..s.lists) \X ListIndex(s)),
         atAgent' \subseteq s.offer, revoked' \subseteq ListSlot(s)
  PROVE  ListsIInv(s)'
<1>1. offer \in [s.offer -> OfferState(s)] /\ \A y \in s.offer : OfferReady(y, offer[y])
  BY DEF ListsIInv
<1>2. offer' \in [s.offer -> OfferState(s)] /\ offer'[x] = u /\ \A y \in s.offer : y # x => offer'[y] = offer[y]
  BY <1>1
<1>3. \A y \in s.offer : OfferReady(y, offer[y])'
  <2> SUFFICES ASSUME NEW y \in s.offer
               PROVE  OfferReady(y, offer[y])'
    OBVIOUS
  <2>1. CASE y = x
    BY <1>2, <2>1 DEF OfferReady
  <2>2. CASE y # x
    <3>1. OfferReady(y, offer[y]) /\ offer'[y] = offer[y]
      BY <1>1, <1>2, <2>2
    <3> QED BY <3>1 DEF OfferReady, KeptRows
  <2> QED BY <2>1, <2>2
<1> QED BY <1>2, <1>3 DEF ListsIInv, OfferReady, KeptRows

(* What is known of the state before a step. *)
LEMMA ListsTyped ==
  ASSUME NEW s, ListsIInv(s), NEW x \in s.offer
  PROVE  /\ lists \in [1..s.lists -> ListRow(s)]
         /\ \A l \in 1..s.lists : lists[l].count = Cardinality(lists[l].bits) /\ (lists[l].active => lists[l].exists)
         /\ allocations \subseteq (s.offer \X (1..s.lists) \X ListIndex(s))
         /\ atAgent \subseteq s.offer /\ revoked \subseteq ListSlot(s)
         /\ OfferReady(x, offer[x]) /\ offer \in [s.offer -> OfferState(s)] /\ offer[x] \in OfferState(s)
BY DEF ListsIInv

(* A handler that ends a transaction or begins to undo starts from an idle *)
(* record with its credentials and allocations.                            *)
IdleOffer == [step |-> "idle", need |-> 0, details |-> <<>>, allocs |-> <<>>, kept |-> 0,
              snap |-> 0, full |-> 0, bits |-> {}]
OfferFresh(st, d, a) == [IdleOffer EXCEPT !.step = st, !.details = d, !.allocs = a]
OfferFreshNeed(st, n, d, a) == [IdleOffer EXCEPT !.step = st, !.need = n, !.details = d, !.allocs = a]

LEMMA OfferFreshFields ==
  ASSUME NEW s, s.lists \in Nat, NEW d \in Seq(ListSlot(s)), NEW a \in Seq(ListSlot(s)), NEW st \in OfferStep
  PROVE  /\ OfferFresh(st, d, a) \in OfferState(s)
         /\ OfferFresh(st, d, a).step = st /\ OfferFresh(st, d, a).snap = 0 /\ OfferFresh(st, d, a).full = 0
         /\ OfferFresh(st, d, a).details = d /\ OfferFresh(st, d, a).allocs = a
         /\ OfferFresh(st, d, a).kept = 0 /\ OfferFresh(st, d, a).bits = {}
<1>0. PICK u : u = OfferFresh(st, d, a)
  OBVIOUS
<1> DEFINE A == OfferStep
           C == Seq(ListSlot(s))
           D == 0..s.lists
           F == SUBSET ListIndex(s)
<1>1. /\ IdleOffer \in [step : A, need : Int, details : C, allocs : C, kept : Nat, snap : D, full : D, bits : F]
      /\ st \in A /\ a \in C /\ d \in C
      /\ IdleOffer.bits = {} /\ IdleOffer.snap = 0 /\ IdleOffer.full = 0 /\ IdleOffer.kept = 0
  BY DEF OfferStep, IdleOffer
<1>2. OfferState(s) = [step : A, need : Int, details : C, allocs : C, kept : Nat, snap : D, full : D, bits : F]
  BY DEF OfferState
<1> HIDE DEF A, C, D, F
<1>3. /\ u \in [step : A, need : Int, details : C, allocs : C, kept : Nat, snap : D, full : D, bits : F]
      /\ u.step = st /\ u.details = d /\ u.allocs = a /\ u.kept = IdleOffer.kept
      /\ u.snap = IdleOffer.snap /\ u.full = IdleOffer.full /\ u.bits = IdleOffer.bits
  BY <1>0, <1>1 DEF OfferFresh
<1> QED BY <1>0, <1>1, <1>2, <1>3

LEMMA OfferFreshNeedFields ==
  ASSUME NEW s, s.lists \in Nat, NEW n \in Int, NEW d \in Seq(ListSlot(s)), NEW a \in Seq(ListSlot(s)), NEW st \in OfferStep
  PROVE  /\ OfferFreshNeed(st, n, d, a) \in OfferState(s)
         /\ OfferFreshNeed(st, n, d, a).step = st /\ OfferFreshNeed(st, n, d, a).snap = 0 /\ OfferFreshNeed(st, n, d, a).full = 0
         /\ OfferFreshNeed(st, n, d, a).details = d /\ OfferFreshNeed(st, n, d, a).allocs = a
         /\ OfferFreshNeed(st, n, d, a).kept = 0 /\ OfferFreshNeed(st, n, d, a).bits = {}
<1>0. PICK u : u = OfferFreshNeed(st, n, d, a)
  OBVIOUS
<1> DEFINE A == OfferStep
           C == Seq(ListSlot(s))
           D == 0..s.lists
           F == SUBSET ListIndex(s)
<1>1. /\ IdleOffer \in [step : A, need : Int, details : C, allocs : C, kept : Nat, snap : D, full : D, bits : F]
      /\ st \in A /\ a \in C /\ d \in C
      /\ IdleOffer.bits = {} /\ IdleOffer.snap = 0 /\ IdleOffer.full = 0 /\ IdleOffer.kept = 0
  BY DEF OfferStep, IdleOffer
<1>2. OfferState(s) = [step : A, need : Int, details : C, allocs : C, kept : Nat, snap : D, full : D, bits : F]
  BY DEF OfferState
<1> HIDE DEF A, C, D, F
<1>3. /\ u \in [step : A, need : Int, details : C, allocs : C, kept : Nat, snap : D, full : D, bits : F]
      /\ u.step = st /\ u.details = d /\ u.allocs = a /\ u.kept = IdleOffer.kept
      /\ u.snap = IdleOffer.snap /\ u.full = IdleOffer.full /\ u.bits = IdleOffer.bits
  BY <1>0, <1>1 DEF OfferFreshNeed
<1> QED BY <1>0, <1>1, <1>2, <1>3

(* A handler that has saved nothing. *)
LEMMA NothingKept ==
  ASSUME NEW s, NEW x, NEW u, NEW rows, u.details \in Seq(ListSlot(s)), u.kept = 0, u.step # "done"
  PROVE  KeptRows(x, u, rows)
<1>1. Len(u.details) \in Nat /\ 1..0 = {}
  OBVIOUS
<1> QED BY <1>1 DEF KeptRows

(* allocate() and release(): a row is written. *)
LEMMA ListWritten ==
  ASSUME NEW s, s.listSize \in Nat \ {0}, NEW w \in ListRow(s), NEW b \in SUBSET ListIndex(s), NEW o \in BOOLEAN
  PROVE  /\ Lists(s, o)!Exported(w, b) \in ListRow(s)
         /\ Lists(s, o)!Exported(w, b).bits = b /\ Lists(s, o)!Exported(w, b).count = Cardinality(b)
         /\ Lists(s, o)!Exported(w, b).exists = w.exists
<1>1. Cardinality(b) \in Nat
  BY IndexesFinite
<1> QED BY <1>1, ListsCardinality DEF Lists!Exported, ListRow

OfferSet(x, u) == offer' = [offer EXCEPT ![x] = u]
OfferReading(r, l, f, b) == [r EXCEPT !.snap = l, !.full = f, !.bits = b]

LEMMA OfferReads ==
  ASSUME NEW s, s.lists \in Nat, NEW r \in OfferState(s),
         NEW l \in 1..s.lists, NEW f \in 0..s.lists, NEW b \in SUBSET ListIndex(s)
  PROVE  /\ OfferReading(r, l, f, b) \in OfferState(s)
         /\ OfferReading(r, l, f, b).step = r.step /\ OfferReading(r, l, f, b).need = r.need
         /\ OfferReading(r, l, f, b).details = r.details /\ OfferReading(r, l, f, b).allocs = r.allocs
         /\ OfferReading(r, l, f, b).kept = r.kept
         /\ OfferReading(r, l, f, b).snap = l /\ OfferReading(r, l, f, b).full = f /\ OfferReading(r, l, f, b).bits = b
<1>0. PICK u : u = OfferReading(r, l, f, b)
  OBVIOUS
<1>1. ASSUME NEW A, NEW B, NEW C, NEW N, NEW D, NEW E, NEW F, l \in D, f \in E, b \in F,
             r \in [step : A, need : B, details : C, allocs : C, kept : N, snap : D, full : E, bits : F]
      PROVE  /\ u \in [step : A, need : B, details : C, allocs : C, kept : N, snap : D, full : E, bits : F]
             /\ u.step = r.step /\ u.need = r.need /\ u.details = r.details /\ u.allocs = r.allocs
             /\ u.kept = r.kept /\ u.snap = l
             /\ u.full = f /\ u.bits = b
  BY <1>0, <1>1 DEF OfferReading
<1>2. l \in 0..s.lists
  OBVIOUS
<1>3. /\ u \in OfferState(s) /\ u.step = r.step /\ u.need = r.need /\ u.allocs = r.allocs
      /\ u.details = r.details /\ u.kept = r.kept /\ u.snap = l /\ u.full = f /\ u.bits = b
  <2> DEFINE A == OfferStep
             C == Seq(ListSlot(s))
             D == 0..s.lists
             F == SUBSET ListIndex(s)
  <2>1. r \in [step : A, need : Int, details : C, allocs : C, kept : Nat, snap : D, full : D, bits : F] /\ l \in D /\ f \in D /\ b \in F
    BY <1>2 DEF OfferState
  <2>2. OfferState(s) = [step : A, need : Int, details : C, allocs : C, kept : Nat, snap : D, full : D, bits : F]
    BY DEF OfferState
  <2> HIDE DEF A, C, D, F
  <2> QED BY <1>1, <2>1, <2>2
<1> QED BY <1>0, <1>3

LEMMA ListReadKept ==
  ASSUME NEW s, NEW o \in BOOLEAN, Lists(s, o)!StatusListAssumption, ListsIInv(s), NEW x \in s.offer,
         Lists(s, o)!AllocateRead(x) \/ Lists(s, o)!ReleaseRead(x)
  PROVE  ListsIInv(s)'
<1>t. /\ OfferReady(x, offer[x]) /\ offer \in [s.offer -> OfferState(s)] /\ offer[x] \in OfferState(s)
      /\ lists \in [1..s.lists -> ListRow(s)]
  BY ListsTyped
<1>u. s.lists \in Nat /\ Lists(s, o)!List = 1..s.lists
  BY ListsUnfolded
<1>1. UNCHANGED <<lists, allocations, atAgent, revoked>>
  BY DEF Lists!AllocateRead, Lists!ReleaseRead
<1>2. ASSUME NEW l \in 1..s.lists, NEW f \in 0..s.lists, NEW b \in SUBSET ListIndex(s),
             OfferSet(x, OfferReading(offer[x], l, f, b)), f # l,
             \/ offer[x].step = "alloc" /\ offer[x].need > 0
             \/ offer[x].step = "undo" /\ offer[x].allocs # <<>>
      PROVE  ListsIInv(s)'
  <2>r. PICK r \in OfferState(s) : r = offer[x]
    BY <1>t
  <2>0. PICK u : u = OfferReading(r, l, f, b)
    OBVIOUS
  <2>s. /\ u \in OfferState(s) /\ u.step = r.step /\ u.need = r.need /\ u.allocs = r.allocs /\ u.snap = l /\ u.full = f
        /\ u.details = r.details /\ u.kept = r.kept
    BY <1>u, <1>2, <2>0, OfferReads
  <2>1. /\ u \in OfferState(s) /\ u.step = offer[x].step /\ u.need = offer[x].need /\ u.allocs = offer[x].allocs
        /\ u.details = offer[x].details /\ u.kept = offer[x].kept
    BY <2>r, <2>s
  <2>k. KeptRows(x, u, allocations)'
    BY <1>1, <1>t, <2>1 DEF OfferReady, KeptRows
  <2>2. OfferReady(x, u)'
    BY <1>2, <2>1, <2>k, <2>s DEF OfferReady
  <2>3. offer' = [offer EXCEPT ![x] = u]
    BY <1>2, <2>0, <2>r DEF OfferSet
  <2> QED BY <1>1, <1>t, <2>1, <2>2, <2>3, ListsMoved DEF ListsIInv
<1>3. offer[x].full \in 0..s.lists /\ offer[x].bits \in SUBSET ListIndex(s)
  BY <1>t DEF OfferState
<1>z. offer[x].full = 0
  BY <1>t DEF Lists!AllocateRead, Lists!ReleaseRead, Lists!InTransaction, OfferReady
<1>4. CASE Lists(s, o)!AllocateRead(x)
  <2>a. offer[x].step = "alloc" /\ offer[x].need > 0
    BY <1>4 DEF Lists!AllocateRead
  <2>0. \A l \in 1..s.lists : lists[l].active => lists[l].exists
    BY DEF ListsIInv
  <2>1. ASSUME NEW l \in Lists(s, o)!Active, offer' = [offer EXCEPT ![x].snap = l, ![x].bits = lists[l].bits]
        PROVE  ListsIInv(s)'
    <3>1. l \in 1..s.lists /\ lists[l].bits \in SUBSET ListIndex(s) /\ offer[x].full # l
      BY <1>t, <1>u, <1>z, <2>1 DEF Lists!Active, ListRow
    <3>2. OfferSet(x, OfferReading(offer[x], l, offer[x].full, lists[l].bits))
      BY <1>t, <2>1 DEF OfferState, OfferSet, OfferReading
    <3> QED BY <1>2, <1>3, <2>a, <3>1, <3>2
  <2>2. ASSUME NEW l \in Lists(s, o)!Unused, NEW f \in {0} \cup Lists(s, o)!Active,
               offer' = [offer EXCEPT ![x].snap = l, ![x].full = f]
        PROVE  ListsIInv(s)'
    <3>1. l \in 1..s.lists /\ f \in 0..s.lists /\ f # l
      BY <1>u, <2>0, <2>2 DEF Lists!Active, Lists!Unused, Lists!Taken
    <3>2. OfferSet(x, OfferReading(offer[x], l, f, offer[x].bits))
      BY <1>t, <2>2 DEF OfferState, OfferSet, OfferReading
    <3> QED BY <1>2, <1>3, <2>a, <3>1, <3>2
  <2> QED BY <1>4, <2>1, <2>2 DEF Lists!AllocateRead
<1>5. CASE Lists(s, o)!ReleaseRead(x)
  <2>1. PICK l : l = Head(offer[x].allocs)[1]
    OBVIOUS
  <2>2. l \in 1..s.lists /\ offer[x].full # l
    BY <1>5, <1>t, <1>z, <2>1 DEF Lists!ReleaseRead, OfferState, ListSlot
  <2>3. lists[l].bits \in SUBSET ListIndex(s)
    BY <1>t, <2>2 DEF ListRow
  <2>a. offer[x].step = "undo" /\ offer[x].allocs # <<>>
    BY <1>5 DEF Lists!ReleaseRead
  <2>4. OfferSet(x, OfferReading(offer[x], l, offer[x].full, lists[l].bits))
    BY <1>5, <1>t, <2>1 DEF Lists!ReleaseRead, OfferState, OfferSet, OfferReading
  <2> QED BY <1>2, <1>3, <2>2, <2>3, <2>4, <2>a
<1> QED BY <1>4, <1>5

OfferStepping(r, st, n) == [r EXCEPT !.step = st, !.need = n]

LEMMA OfferSteps ==
  ASSUME NEW s, NEW r \in OfferState(s), NEW n \in Int,
         NEW st \in OfferStep
  PROVE  /\ OfferStepping(r, st, n) \in OfferState(s)
         /\ OfferStepping(r, st, n).step = st
         /\ OfferStepping(r, st, n).details = r.details /\ OfferStepping(r, st, n).allocs = r.allocs
         /\ OfferStepping(r, st, n).kept = r.kept
         /\ OfferStepping(r, st, n).snap = r.snap /\ OfferStepping(r, st, n).bits = r.bits
         /\ OfferStepping(r, st, n).full = r.full
<1>0. PICK u : u = OfferStepping(r, st, n)
  OBVIOUS
<1> DEFINE A == OfferStep
           C == Seq(ListSlot(s))
           D == 0..s.lists
           F == SUBSET ListIndex(s)
<1>1. r \in [step : A, need : Int, details : C, allocs : C, kept : Nat, snap : D, full : D, bits : F] /\ st \in A
  BY DEF OfferState
<1>2. OfferState(s) = [step : A, need : Int, details : C, allocs : C, kept : Nat, snap : D, full : D, bits : F]
  BY DEF OfferState
<1> HIDE DEF A, C, D, F
<1>3. /\ u \in [step : A, need : Int, details : C, allocs : C, kept : Nat, snap : D, full : D, bits : F]
      /\ u.step = st /\ u.details = r.details /\ u.allocs = r.allocs /\ u.kept = r.kept
      /\ u.snap = r.snap /\ u.bits = r.bits /\ u.full = r.full
  BY <1>0, <1>1 DEF OfferStepping
<1> QED BY <1>0, <1>2, <1>3

(* A saved credential is counted. *)
OfferKeeping(r, k) == [r EXCEPT !.kept = k]

LEMMA OfferKeeps ==
  ASSUME NEW s, NEW r \in OfferState(s), NEW k \in Nat
  PROVE  /\ OfferKeeping(r, k) \in OfferState(s)
         /\ OfferKeeping(r, k).step = r.step /\ OfferKeeping(r, k).need = r.need
         /\ OfferKeeping(r, k).details = r.details /\ OfferKeeping(r, k).allocs = r.allocs
         /\ OfferKeeping(r, k).kept = k
         /\ OfferKeeping(r, k).snap = r.snap /\ OfferKeeping(r, k).bits = r.bits
         /\ OfferKeeping(r, k).full = r.full
<1>0. PICK u : u = OfferKeeping(r, k)
  OBVIOUS
<1> DEFINE A == OfferStep
           C == Seq(ListSlot(s))
           D == 0..s.lists
           F == SUBSET ListIndex(s)
<1>1. r \in [step : A, need : Int, details : C, allocs : C, kept : Nat, snap : D, full : D, bits : F]
  BY DEF OfferState
<1>2. OfferState(s) = [step : A, need : Int, details : C, allocs : C, kept : Nat, snap : D, full : D, bits : F]
  BY DEF OfferState
<1> HIDE DEF A, C, D, F
<1>3. /\ u \in [step : A, need : Int, details : C, allocs : C, kept : Nat, snap : D, full : D, bits : F]
      /\ u.step = r.step /\ u.need = r.need /\ u.details = r.details /\ u.allocs = r.allocs /\ u.kept = k
      /\ u.snap = r.snap /\ u.bits = r.bits /\ u.full = r.full
  BY <1>0, <1>1 DEF OfferKeeping
<1> QED BY <1>0, <1>2, <1>3

(* The steps of a handler between its transactions. *)
OfferMove(s, x, u) ==
  /\ offer' = [offer EXCEPT ![x] = u]
  /\ u.snap = 0 /\ u.full = 0
  /\ KeptRows(x, u, allocations')

LEMMA OfferMoveKept ==
  ASSUME NEW s, ListsIInv(s), NEW x \in s.offer, NEW u \in OfferState(s), OfferMove(s, x, u),
         UNCHANGED <<lists, allocations, revoked>>, atAgent' \subseteq s.offer
  PROVE  ListsIInv(s)'
<1>1. OfferReady(x, u)'
  BY DEF OfferMove, OfferReady, KeptRows
<1>2. /\ lists \in [1..s.lists -> ListRow(s)] 
      /\ \A l \in 1..s.lists : lists[l].count = Cardinality(lists[l].bits) /\ (lists[l].active => lists[l].exists)
      /\ allocations \subseteq (s.offer \X (1..s.lists) \X ListIndex(s)) /\ revoked \subseteq ListSlot(s)
  BY DEF ListsIInv
<1>3. offer' = [offer EXCEPT ![x] = u]
  BY DEF OfferMove
<1> QED BY <1>1, <1>2, <1>3, ListsMoved

LEMMA OfferStepKept ==
  ASSUME NEW s, NEW o \in BOOLEAN, Lists(s, o)!StatusListAssumption, ListsIInv(s), NEW x \in s.offer,
         \/ \E n \in 0..s.credentials : Lists(s, o)!CreateOffer(x, n) \/ Lists(s, o)!CreateOfferD2A(x, n)
         \/ Lists(s, o)!AllocationFails(x) \/ Lists(s, o)!OfferAtAgent(x)
         \/ Lists(s, o)!Undone(x) \/ Lists(s, o)!ReleaseFails(x)
  PROVE  /\ \E u \in OfferState(s) : /\ OfferMove(s, x, u) /\ (u.bits = {} \/ (u.bits = offer[x].bits /\ offer[x].snap = 0))
                                     /\ \/ u.allocs = offer[x].allocs
                                        \/ offer[x].allocs # <<>> /\ u.allocs = Tail(offer[x].allocs)
         /\ UNCHANGED <<lists, allocations, revoked>> /\ atAgent' \subseteq s.offer
<1>t. /\ OfferReady(x, offer[x]) /\ offer \in [s.offer -> OfferState(s)] /\ offer[x] \in OfferState(s)
      /\ atAgent \subseteq s.offer
  BY ListsTyped
<1>u. s.lists \in Nat /\ s.credentials \in Nat
  BY ListsUnfolded
<1>i. Lists(s, o)!Idle = IdleOffer
  BY DEF Lists!Idle, IdleOffer
<1>r. PICK r \in OfferState(s) : r = offer[x]
  BY <1>t
<1>a. r.details \in Seq(ListSlot(s)) /\ r.allocs \in Seq(ListSlot(s)) /\ r.need \in Int
  BY DEF OfferState
<1>n. /\ "alloc" \in OfferStep /\ "save" \in OfferStep /\ "unnamed" \in OfferStep
      /\ "undo" \in OfferStep /\ "failed" \in OfferStep
  BY DEF OfferStep
<1>0. UNCHANGED <<lists, allocations, revoked>> /\ atAgent' \subseteq s.offer
  BY <1>t DEF Lists!CreateOffer, Lists!CreateOfferD2A, Lists!AllocationFails, Lists!OfferAtAgent, Lists!Undone,
              Lists!ReleaseFails
<1>s. ASSUME NEW st \in OfferStep, NEW n \in Int, st # "done", r.snap = 0,
             offer' = [offer EXCEPT ![x] = OfferStepping(r, st, n)]
      PROVE  \E u \in OfferState(s) : /\ OfferMove(s, x, u) /\ u.bits = offer[x].bits /\ offer[x].snap = 0
                                       /\ u.allocs = offer[x].allocs
  <2>1. PICK u : u = OfferStepping(r, st, n)
    OBVIOUS
  <2>2. /\ u \in OfferState(s) /\ u.step = st /\ u.allocs = r.allocs /\ u.snap = r.snap /\ u.bits = r.bits
        /\ u.full = r.full /\ u.details = r.details /\ u.kept = r.kept
    BY <1>s, <2>1, OfferSteps
  <2>3. u.full = 0
    BY <1>r, <1>s, <1>t, <2>2 DEF OfferReady
  <2>k. KeptRows(x, u, allocations')
    BY <1>0, <1>r, <1>s, <1>t, <2>2 DEF OfferReady, KeptRows
  <2>4. OfferMove(s, x, u)
    BY <1>s, <2>1, <2>2, <2>3, <2>k DEF OfferMove
  <2> QED BY <1>r, <1>s, <2>2, <2>4
<1>f. ASSUME NEW a \in Seq(ListSlot(s)), OfferSet(x, OfferFresh("undo", r.details, a))
      PROVE  \E u \in OfferState(s) : OfferMove(s, x, u) /\ u.bits = {} /\ u.allocs = a
  <2>1. PICK u : u = OfferFresh("undo", r.details, a)
    OBVIOUS
  <2>2. /\ u \in OfferState(s) /\ u.step = "undo" /\ u.snap = 0 /\ u.full = 0 /\ u.allocs = a /\ u.bits = {}
        /\ u.details = r.details /\ u.kept = 0
    BY <1>a, <1>n, <1>u, <2>1, OfferFreshFields
  <2>k. KeptRows(x, u, allocations')
    BY <1>a, <2>2, NothingKept
  <2>3. OfferMove(s, x, u)
    BY <1>f, <2>1, <2>2, <2>k DEF OfferMove, OfferSet
  <2> QED BY <2>2, <2>3
<1>1. ASSUME NEW n \in 0..s.credentials, Lists(s, o)!CreateOffer(x, n) \/ Lists(s, o)!CreateOfferD2A(x, n)
      PROVE  /\ n \in Int /\ r.snap = 0 /\ offer' = [offer EXCEPT ![x] = OfferStepping(r, "alloc", n)]
  <2>1. r.step = "idle" /\ offer' = [offer EXCEPT ![x].step = "alloc", ![x].need = n]
    BY <1>1, <1>r DEF Lists!CreateOffer, Lists!CreateOfferD2A
  <2>2. offer' = [offer EXCEPT ![x] = OfferStepping(r, "alloc", n)]
    BY <1>r, <1>t, <2>1 DEF OfferStepping, OfferState
  <2>3. r.snap = 0
    BY <1>r, <1>t, <2>1 DEF OfferReady
  <2> QED BY <1>u, <2>2, <2>3
<1>2. ASSUME Lists(s, o)!Fail(x)
      PROVE  OfferSet(x, OfferFresh("undo", r.details, r.allocs))
  BY <1>2, <1>i, <1>r DEF Lists!Fail, Lists!Undoing, OfferFresh, OfferSet
<1>3. ASSUME Lists(s, o)!OfferAtAgent(x), ~Lists(s, o)!Fail(x)
      PROVE  r.snap = 0 /\ \E st \in {"save", "unnamed"} : offer' = [offer EXCEPT ![x] = OfferStepping(r, st, r.need)]
  <2>1. r.step = "alloc" /\ r.need = 0 /\ \E st \in {"save", "unnamed"} : offer' = [offer EXCEPT ![x].step = st]
    BY <1>3, <1>r DEF Lists!OfferAtAgent
  <2>2. \E st \in {"save", "unnamed"} : offer' = [offer EXCEPT ![x] = OfferStepping(r, st, r.need)]
    BY <1>r, <1>t, <2>1 DEF OfferStepping, OfferState
  <2>3. r.snap = 0
    BY <1>r, <1>t, <2>1 DEF OfferReady
  <2> QED BY <2>2, <2>3
<1>4. ASSUME Lists(s, o)!Undone(x)
      PROVE  r.snap = 0 /\ offer' = [offer EXCEPT ![x] = OfferStepping(r, "failed", r.need)]
  <2>1. r.snap = 0 /\ offer' = [offer EXCEPT ![x].step = "failed"]
    BY <1>4, <1>r DEF Lists!Undone, Lists!InTransaction
  <2>2. offer' = [offer EXCEPT ![x] = OfferStepping(r, "failed", r.need)]
    BY <1>r, <1>t, <2>1 DEF OfferStepping, OfferState
  <2> QED BY <2>1, <2>2
<1>5. ASSUME Lists(s, o)!ReleaseFails(x)
      PROVE  /\ r.allocs # <<>> /\ Tail(r.allocs) \in Seq(ListSlot(s))
             /\ OfferSet(x, OfferFresh("undo", r.details, Tail(r.allocs)))
  <2>1. r.allocs # <<>>
    BY <1>5, <1>r, <1>t DEF Lists!ReleaseFails, Lists!InTransaction, OfferReady
  <2>2. Tail(r.allocs) \in Seq(ListSlot(s))
    BY <1>a, <2>1
  <2>3. OfferSet(x, OfferFresh("undo", r.details, Tail(r.allocs)))
    BY <1>5, <1>i, <1>r DEF Lists!ReleaseFails, Lists!Undoing, OfferFresh, OfferSet
  <2> QED BY <2>1, <2>2, <2>3
<1>6. CASE \E n \in 0..s.credentials : Lists(s, o)!CreateOffer(x, n) \/ Lists(s, o)!CreateOfferD2A(x, n)
  BY <1>0, <1>1, <1>6, <1>n, <1>s
<1>7. CASE Lists(s, o)!Fail(x)
  <2>1. PICK u \in OfferState(s) : OfferMove(s, x, u) /\ u.bits = {} /\ u.allocs = r.allocs
    BY <1>2, <1>7, <1>a, <1>f
  <2> QED BY <1>0, <1>r, <2>1
<1>8. CASE Lists(s, o)!OfferAtAgent(x) /\ ~Lists(s, o)!Fail(x)
  BY <1>0, <1>3, <1>8, <1>a, <1>n, <1>s
<1>9. CASE Lists(s, o)!Undone(x)
  BY <1>0, <1>4, <1>9, <1>a, <1>n, <1>s
<1>10. CASE Lists(s, o)!ReleaseFails(x)
  <2>1. PICK u \in OfferState(s) : OfferMove(s, x, u) /\ u.bits = {} /\ u.allocs = Tail(r.allocs)
    BY <1>5, <1>10, <1>f
  <2> QED BY <1>0, <1>5, <1>10, <1>r, <2>1
<1> QED BY <1>6, <1>7, <1>8, <1>9, <1>10 DEF Lists!AllocationFails

(* A list is written by the handler that has read it: the bitmap it had    *)
(* read, with its own change.                                              *)
ListWriting(s, l, b) ==
  /\ lists' \in [1..s.lists -> ListRow(s)]
  /\ lists'[l].bits = b /\ lists'[l].count = Cardinality(b)
  /\ lists'[l].active => lists'[l].exists
  /\ lists[l].exists => lists'[l].exists
  /\ \A k \in 1..s.lists : k # l => /\ lists'[k].bits = lists[k].bits /\ lists'[k].count = lists[k].count
                                    /\ lists'[k].exists = lists[k].exists
                                    /\ lists'[k].active => lists[k].active

LEMMA AllocateWritten ==
  ASSUME NEW s, NEW o \in BOOLEAN, Lists(s, o)!StatusListAssumption, ListsIInv(s), NEW x \in s.offer,
         Lists(s, o)!AllocateWrite(x)
  PROVE  /\ \E l \in 1..s.lists, i \in ListIndex(s) \ offer[x].bits, u \in OfferState(s) :
              /\ l = offer[x].snap /\ OfferMove(s, x, u) /\ u.bits = {}
              /\ u.step = "alloc" /\ u.kept = 0 /\ u.details = Append(offer[x].details, <<l, i>>)
              /\ u.allocs = Append(offer[x].allocs, <<l, i>>)
              /\ ListWriting(s, l, offer[x].bits \cup {i}) /\ lists'[l].exists
         /\ UNCHANGED <<allocations, atAgent, revoked>>
<1>t. /\ OfferReady(x, offer[x]) /\ offer \in [s.offer -> OfferState(s)] /\ offer[x] \in OfferState(s)
      /\ lists \in [1..s.lists -> ListRow(s)]
      /\ \A l \in 1..s.lists : lists[l].count = Cardinality(lists[l].bits) /\ (lists[l].active => lists[l].exists)
  BY ListsTyped
<1>u. s.lists \in Nat /\ s.listSize \in Nat \ {0} /\ Lists(s, o)!List = 1..s.lists /\ Lists(s, o)!Index = ListIndex(s)
  BY ListsUnfolded
<1>i. Lists(s, o)!Idle = IdleOffer
  BY DEF Lists!Idle, IdleOffer
<1>r. PICK r \in OfferState(s) : r = offer[x]
  BY <1>t
<1>a. /\ r.details \in Seq(ListSlot(s)) /\ r.allocs \in Seq(ListSlot(s)) /\ r.need \in Int
      /\ r.bits \in SUBSET ListIndex(s) /\ r.snap \in 0..s.lists
  BY DEF OfferState
<1>l. PICK l \in 1..s.lists : l = r.snap
  BY <1>a, <1>r, <1>u DEF Lists!AllocateWrite, Lists!InTransaction
<1>f. r.full # l
  BY <1>l, <1>r, <1>t DEF OfferReady
<1>w. PICK w : w = IF lists[l].exists THEN lists[l] ELSE [Lists(s, o)!NoList EXCEPT !.exists = TRUE, !.active = TRUE]
  OBVIOUS
<1>1. w \in ListRow(s) /\ w.exists
  <2>1. CASE lists[l].exists
    BY <1>t, <1>w, <2>1 DEF ListRow
  <2>2. CASE ~lists[l].exists
    <3>1. Lists(s, o)!NoList \in ListRow(s)
      BY DEF Lists!NoList, ListRow
    <3> QED BY <1>w, <2>2, <3>1 DEF ListRow
  <2> QED BY <2>1, <2>2
<1>2. PICK i \in ListIndex(s) \ r.bits :
        /\ lists' = [k \in 1..s.lists |-> CASE k = l -> Lists(s, o)!Exported(w, r.bits \cup {i})
                                            [] k = r.full -> [lists[k] EXCEPT !.active = FALSE]
                                            [] OTHER -> lists[k]]
        /\ OfferSet(x, OfferFreshNeed("alloc", r.need - 1, Append(r.details, <<l, i>>), Append(r.allocs, <<l, i>>)))
  <2>1. PICK i \in Lists(s, o)!FreeIndexes(offer[x].bits) :
          /\ lists' = [k \in Lists(s, o)!List |->
                         CASE k = offer[x].snap -> Lists(s, o)!Exported(
                                IF lists[offer[x].snap].exists THEN lists[offer[x].snap]
                                ELSE [Lists(s, o)!NoList EXCEPT !.exists = TRUE, !.active = TRUE], offer[x].bits \cup {i})
                           [] k = offer[x].full -> [lists[k] EXCEPT !.active = FALSE]
                           [] OTHER -> lists[k]]
          /\ offer' = [offer EXCEPT ![x] = [Lists(s, o)!Idle EXCEPT !.step = "alloc", !.need = offer[x].need - 1,
                                             !.details = Append(offer[x].details, <<offer[x].snap, i>>),
                                             !.allocs = Append(offer[x].allocs, <<offer[x].snap, i>>)]]
    BY ZenonT(60) DEF Lists!AllocateWrite
  <2>2. i \in ListIndex(s) \ r.bits
    BY <1>r, <1>u DEF Lists!FreeIndexes
  <2>3. OfferSet(x, OfferFreshNeed("alloc", r.need - 1, Append(r.details, <<l, i>>), Append(r.allocs, <<l, i>>)))
    BY <1>i, <1>l, <1>r, <2>1 DEF OfferSet, OfferFreshNeed
  <2>4. lists' = [k \in 1..s.lists |-> CASE k = l -> Lists(s, o)!Exported(w, r.bits \cup {i})
                                         [] k = r.full -> [lists[k] EXCEPT !.active = FALSE]
                                         [] OTHER -> lists[k]]
    BY <1>l, <1>r, <1>u, <1>w, <2>1
  <2> QED BY <2>2, <2>3, <2>4
<1>3. PICK e \in ListRow(s) : /\ e = Lists(s, o)!Exported(w, r.bits \cup {i})
                              /\ e.bits = r.bits \cup {i} /\ e.count = Cardinality(r.bits \cup {i}) /\ e.exists
  <2>1. PICK b \in SUBSET ListIndex(s) : b = r.bits \cup {i}
    BY <1>2, <1>a
  <2>2. PICK e : e = Lists(s, o)!Exported(w, b)
    OBVIOUS
  <2>3. e \in ListRow(s) /\ e.bits = b /\ e.count = Cardinality(b) /\ e.exists
    BY <1>1, <1>u, <2>2, ListWritten
  <2> QED BY <2>1, <2>2, <2>3
<1>4. ListWriting(s, l, r.bits \cup {i}) /\ lists'[l].exists
  <2>1. lists'[l] = e
    BY <1>2, <1>3, <1>f
  <2>2. \A k \in 1..s.lists : k # l => lists'[k] = lists[k] \/ lists'[k] = [lists[k] EXCEPT !.active = FALSE]
    BY <1>2
  <2>3. \A k \in 1..s.lists : /\ [lists[k] EXCEPT !.active = FALSE] \in ListRow(s)
                              /\ [lists[k] EXCEPT !.active = FALSE].bits = lists[k].bits
                              /\ [lists[k] EXCEPT !.active = FALSE].count = lists[k].count
                              /\ [lists[k] EXCEPT !.active = FALSE].exists = lists[k].exists
                              /\ [lists[k] EXCEPT !.active = FALSE].active = FALSE
    <3> SUFFICES ASSUME NEW k \in 1..s.lists, NEW y, y = [lists[k] EXCEPT !.active = FALSE]
                 PROVE  /\ y \in ListRow(s) /\ y.bits = lists[k].bits /\ y.count = lists[k].count
                        /\ y.exists = lists[k].exists /\ y.active = FALSE
      OBVIOUS
    <3>1. lists[k] \in ListRow(s)
      BY <1>t
    <3> QED BY <3>1 DEF ListRow
  <2>4. \A k \in 1..s.lists : lists'[k] \in ListRow(s)
    BY <1>3, <1>t, <2>1, <2>2, <2>3
  <2>5. lists' \in [1..s.lists -> ListRow(s)]
    BY <1>2, <2>4
  <2>6. \A k \in 1..s.lists : k # l => /\ lists'[k].bits = lists[k].bits /\ lists'[k].count = lists[k].count
                                       /\ lists'[k].exists = lists[k].exists
                                       /\ lists'[k].active => lists[k].active
    BY <2>2, <2>3
  <2> QED BY <1>3, <2>1, <2>5, <2>6 DEF ListWriting
<1>5. PICK u : u = OfferFreshNeed("alloc", r.need - 1, Append(r.details, <<l, i>>), Append(r.allocs, <<l, i>>))
  OBVIOUS
<1>6. /\ u \in OfferState(s) /\ u.step = "alloc" /\ u.snap = 0 /\ u.full = 0 /\ u.allocs = Append(r.allocs, <<l, i>>)
      /\ u.bits = {} /\ u.details = Append(r.details, <<l, i>>) /\ u.kept = 0
  <2>p. <<l, i>> \in ListSlot(s)
    BY DEF ListSlot
  <2>0. Append(r.allocs, <<l, i>>) \in Seq(ListSlot(s)) /\ Append(r.details, <<l, i>>) \in Seq(ListSlot(s))
    BY <1>a, <2>p
  <2>1. PICK a \in Seq(ListSlot(s)) : a = Append(r.allocs, <<l, i>>)
    BY <2>0
  <2>d. PICK d \in Seq(ListSlot(s)) : d = Append(r.details, <<l, i>>)
    BY <2>0
  <2>2. PICK n \in Int : n = r.need - 1
    BY <1>a
  <2>3. "alloc" \in OfferStep
    BY DEF OfferStep
  <2>4. u = OfferFreshNeed("alloc", n, d, a)
    BY <1>5, <2>1, <2>2, <2>d
  <2>5. /\ u \in OfferState(s) /\ u.step = "alloc" /\ u.snap = 0 /\ u.full = 0 /\ u.allocs = a /\ u.bits = {}
        /\ u.details = d /\ u.kept = 0
    BY <1>u, <2>3, <2>4, OfferFreshNeedFields
  <2> QED BY <2>1, <2>5, <2>d
<1>k. KeptRows(x, u, allocations')
  <2>1. u.details \in Seq(ListSlot(s))
    BY <1>6 DEF OfferState
  <2> QED BY <1>6, <2>1, NothingKept
<1>7. OfferMove(s, x, u)
  BY <1>2, <1>5, <1>6, <1>k DEF OfferMove, OfferSet
<1>8. UNCHANGED <<allocations, atAgent, revoked>>
  BY DEF Lists!AllocateWrite
<1> QED BY <1>4, <1>6, <1>7, <1>8, <1>l, <1>r

LEMMA ReleaseWritten ==
  ASSUME NEW s, NEW o \in BOOLEAN, Lists(s, o)!StatusListAssumption, ListsIInv(s), NEW x \in s.offer,
         Lists(s, o)!ReleaseWrite(x)
  PROVE  /\ offer[x].allocs # <<>> /\ offer[x].step = "undo" /\ offer[x].snap # 0
         /\ \E slot \in ListSlot(s), u \in OfferState(s) :
              /\ slot = Head(offer[x].allocs) /\ OfferMove(s, x, u) /\ u.bits = {}
              /\ u.step = "undo" /\ u.kept = 0 /\ u.details = offer[x].details
              /\ u.allocs = Tail(offer[x].allocs)
              /\ ListWriting(s, slot[1], offer[x].bits \ {slot[2]})
              /\ lists'[slot[1]].exists = lists[slot[1]].exists
         /\ UNCHANGED <<allocations, atAgent, revoked>>
<1>t. /\ OfferReady(x, offer[x]) /\ offer \in [s.offer -> OfferState(s)] /\ offer[x] \in OfferState(s)
      /\ lists \in [1..s.lists -> ListRow(s)]
      /\ \A l \in 1..s.lists : lists[l].count = Cardinality(lists[l].bits) /\ (lists[l].active => lists[l].exists)
  BY ListsTyped
<1>u. s.lists \in Nat /\ s.listSize \in Nat \ {0}
  BY ListsUnfolded
<1>i. Lists(s, o)!Idle = IdleOffer
  BY DEF Lists!Idle, IdleOffer
<1>r. PICK r \in OfferState(s) : r = offer[x]
  BY <1>t
<1>a. r.details \in Seq(ListSlot(s)) /\ r.allocs \in Seq(ListSlot(s)) /\ r.bits \in SUBSET ListIndex(s)
  BY DEF OfferState
<1>1. r.allocs # <<>> /\ r.step = "undo" /\ r.snap # 0
  BY <1>r, <1>t DEF Lists!ReleaseWrite, Lists!InTransaction, OfferReady
<1>2. PICK slot \in ListSlot(s) : slot = Head(r.allocs)
  BY <1>1, <1>a
<1>3. slot[1] \in 1..s.lists /\ lists[slot[1]] \in ListRow(s) /\ r.bits \ {slot[2]} \in SUBSET ListIndex(s)
  BY <1>a, <1>t DEF ListSlot
<1>w. PICK w \in ListRow(s) : w = lists[slot[1]]
  BY <1>3
<1>e. PICK e \in ListRow(s) : /\ e = Lists(s, o)!Exported(w, r.bits \ {slot[2]})
                              /\ e.bits = r.bits \ {slot[2]} /\ e.count = Cardinality(r.bits \ {slot[2]})
                              /\ e.exists = w.exists /\ e.active = w.active
  <2>0. PICK b \in SUBSET ListIndex(s) : b = r.bits \ {slot[2]}
    BY <1>3
  <2>1. PICK y : y = Lists(s, o)!Exported(w, b)
    OBVIOUS
  <2>2. y.active = w.active
    BY <2>1 DEF Lists!Exported, ListRow
  <2>3. y \in ListRow(s) /\ y.bits = b /\ y.count = Cardinality(b) /\ y.exists = w.exists
    BY <1>u, <2>1, ListWritten
  <2> QED BY <2>0, <2>1, <2>2, <2>3
<1>4. lists' = [lists EXCEPT ![slot[1]] = e]
  <2>1. lists' = [lists EXCEPT ![Head(r.allocs)[1]] = Lists(s, o)!Exported(@, r.bits \ {Head(r.allocs)[2]})]
    BY <1>r DEF Lists!ReleaseWrite
  <2> QED BY <1>2, <1>3, <1>e, <1>t, <1>w, <2>1
<1>5. ListWriting(s, slot[1], r.bits \ {slot[2]}) /\ lists'[slot[1]].exists = lists[slot[1]].exists
  <2>1. lists'[slot[1]] = e /\ lists' \in [1..s.lists -> ListRow(s)] /\ \A k \in 1..s.lists : k # slot[1] => lists'[k] = lists[k]
    BY <1>3, <1>4, <1>t
  <2> QED BY <1>3, <1>e, <1>t, <1>w, <2>1 DEF ListWriting
<1>6. PICK u : u = OfferFresh("undo", r.details, Tail(r.allocs))
  OBVIOUS
<1>7. /\ u \in OfferState(s) /\ u.step = "undo" /\ u.snap = 0 /\ u.full = 0 /\ u.allocs = Tail(r.allocs) /\ u.bits = {}
      /\ u.details = r.details /\ u.kept = 0
  <2>0. Tail(r.allocs) \in Seq(ListSlot(s))
    BY <1>1, <1>a
  <2>1. PICK a \in Seq(ListSlot(s)) : a = Tail(r.allocs)
    BY <2>0
  <2>d. PICK d \in Seq(ListSlot(s)) : d = r.details
    BY <1>a
  <2>2. u = OfferFresh("undo", d, a) /\ "undo" \in OfferStep
    BY <1>6, <2>1, <2>d DEF OfferStep
  <2>3. /\ u \in OfferState(s) /\ u.step = "undo" /\ u.snap = 0 /\ u.full = 0 /\ u.allocs = a /\ u.bits = {}
        /\ u.details = d /\ u.kept = 0
    BY <1>u, <2>2, OfferFreshFields
  <2> QED BY <2>1, <2>3, <2>d
<1>8. OfferMove(s, x, u)
  <2>1. KeptRows(x, u, allocations')
    BY <1>7, <1>a, NothingKept
  <2>2. offer' = [offer EXCEPT ![x] = u]
    BY <1>6, <1>i, <1>r DEF Lists!ReleaseWrite, Lists!Undoing, OfferFresh
  <2> QED BY <1>7, <2>1, <2>2 DEF OfferMove
<1>9. UNCHANGED <<allocations, atAgent, revoked>>
  BY DEF Lists!ReleaseWrite
<1> QED BY <1>1, <1>2, <1>5, <1>7, <1>8, <1>9, <1>r

LEMMA WritingKept ==
  ASSUME NEW s, ListsIInv(s), NEW x \in s.offer, NEW u \in OfferState(s), OfferMove(s, x, u),
         NEW l \in 1..s.lists, NEW b, ListWriting(s, l, b), UNCHANGED <<allocations, atAgent, revoked>>
  PROVE  ListsIInv(s)'
<1>1. OfferReady(x, u)' /\ offer' = [offer EXCEPT ![x] = u]
  BY DEF OfferMove, OfferReady, KeptRows
<1>2. /\ \A k \in 1..s.lists : lists[k].count = Cardinality(lists[k].bits) /\ (lists[k].active => lists[k].exists)
      /\ allocations \subseteq (s.offer \X (1..s.lists) \X ListIndex(s)) /\ revoked \subseteq ListSlot(s)
      /\ atAgent \subseteq s.offer
  BY DEF ListsIInv
<1>3. /\ lists' \in [1..s.lists -> ListRow(s)]
      /\ \A k \in 1..s.lists : lists'[k].count = Cardinality(lists'[k].bits) /\ (lists'[k].active => lists'[k].exists)
  <2> SUFFICES ASSUME NEW k \in 1..s.lists
               PROVE  lists'[k].count = Cardinality(lists'[k].bits) /\ (lists'[k].active => lists'[k].exists)
    BY DEF ListWriting
  <2>1. CASE k = l
    BY <2>1 DEF ListWriting
  <2>2. CASE k # l
    <3>1. /\ lists'[k].bits = lists[k].bits /\ lists'[k].count = lists[k].count
          /\ lists'[k].exists = lists[k].exists /\ (lists'[k].active => lists[k].active)
      BY <2>2 DEF ListWriting
    <3> QED BY <1>2, <3>1
  <2> QED BY <2>1, <2>2
<1> QED BY <1>1, <1>2, <1>3, ListsMoved

(* saveCredentialAllocation(). *)
LEMMA SaveMoves ==
  ASSUME NEW s, NEW o \in BOOLEAN, Lists(s, o)!StatusListAssumption, ListsIInv(s), NEW x \in s.offer,
         Lists(s, o)!SaveCredentialAllocation(x)
  PROVE  /\ \E u \in OfferState(s) : /\ OfferMove(s, x, u) /\ u.allocs = offer[x].allocs
                                     /\ (u.bits = {} \/ (u.bits = offer[x].bits /\ offer[x].snap = 0))
         /\ allocations \subseteq allocations' /\ allocations' \subseteq (s.offer \X (1..s.lists) \X ListIndex(s))
         /\ UNCHANGED <<lists, atAgent, revoked>>
<1>t. /\ OfferReady(x, offer[x]) /\ offer \in [s.offer -> OfferState(s)] /\ offer[x] \in OfferState(s)
      /\ allocations \subseteq (s.offer \X (1..s.lists) \X ListIndex(s))
  BY ListsTyped
<1>u. s.lists \in Nat
  BY ListsUnfolded
<1>i. Lists(s, o)!Idle = IdleOffer
  BY DEF Lists!Idle, IdleOffer
<1>r. PICK r \in OfferState(s) : r = offer[x]
  BY <1>t
<1>a. r.details \in Seq(ListSlot(s)) /\ r.allocs \in Seq(ListSlot(s)) /\ r.need \in Int /\ r.kept \in Nat
      /\ Len(r.details) \in Nat
  BY DEF OfferState
<1>0. r.step = "save" /\ r.snap = 0 /\ r.full = 0 /\ UNCHANGED <<lists, atAgent, revoked>>
  BY <1>r, <1>t DEF Lists!SaveCredentialAllocation, OfferReady
<1>k. KeptRows(x, r, allocations)
  BY <1>r, <1>t DEF OfferReady
<1>1. CASE r.kept + 1 > Len(r.details) /\ offer' = [offer EXCEPT ![x].step = "done"] /\ UNCHANGED allocations
  <2>1. PICK u : u = OfferStepping(r, "done", r.need)
    OBVIOUS
  <2>2. "done" \in OfferStep
    BY DEF OfferStep
  <2>a. /\ u \in OfferState(s) /\ u.step = "done" /\ u.allocs = r.allocs
        /\ u.snap = r.snap /\ u.full = r.full /\ u.bits = r.bits /\ u.details = r.details /\ u.kept = r.kept
    BY <1>a, <2>1, <2>2, OfferSteps
  <2>3. /\ u \in OfferState(s) /\ u.step = "done" /\ u.allocs = r.allocs /\ u.snap = 0 /\ u.full = 0 /\ u.bits = r.bits
    BY <1>0, <2>a
  <2>4. offer' = [offer EXCEPT ![x] = u]
    BY <1>1, <1>r, <1>t, <2>1 DEF OfferStepping, OfferState
  <2>5. KeptRows(x, u, allocations')
    BY <1>1, <1>a, <1>k, <2>a DEF KeptRows
  <2>6. OfferMove(s, x, u)
    BY <2>3, <2>4, <2>5 DEF OfferMove
  <2> QED BY <1>0, <1>1, <1>r, <1>t, <2>3, <2>6
<1>2. CASE /\ r.kept + 1 <= Len(r.details) /\ offer' = [offer EXCEPT ![x].kept = r.kept + 1]
           /\ allocations' = allocations \cup {<<x, r.details[r.kept + 1][1], r.details[r.kept + 1][2]>>}
  <2>1. PICK k \in 1..Len(r.details) : k = r.kept + 1
    BY <1>2, <1>a
  <2>2. r.details[k] \in ListSlot(s)
    BY <1>a
  <2>3. <<x, r.details[k][1], r.details[k][2]>> \in s.offer \X (1..s.lists) \X ListIndex(s)
    BY <2>2 DEF ListSlot
  <2>4. PICK u : u = OfferKeeping(r, k)
    OBVIOUS
  <2>n. k \in Nat
    BY <1>a
  <2>5. /\ u \in OfferState(s) /\ u.step = r.step /\ u.details = r.details /\ u.allocs = r.allocs /\ u.kept = k
        /\ u.snap = r.snap /\ u.full = r.full /\ u.bits = r.bits
    BY <2>4, <2>n, OfferKeeps
  <2>6. offer' = [offer EXCEPT ![x] = u]
    BY <1>2, <1>r, <1>t, <2>1, <2>4 DEF OfferKeeping, OfferState
  <2>7. KeptRows(x, u, allocations')
    <3> SUFFICES ASSUME NEW j \in 1..k
                 PROVE  <<x, r.details[j][1], r.details[j][2]>> \in allocations'
      BY <1>0, <2>1, <2>5 DEF KeptRows
    <3>1. CASE j = k
      BY <1>2, <2>1, <3>1
    <3>2. CASE j # k
      <4>1. j \in 1..r.kept
        BY <1>a, <2>1, <3>2
      <4> QED BY <1>2, <1>k, <4>1 DEF KeptRows
    <3> QED BY <3>1, <3>2
  <2>8. OfferMove(s, x, u)
    BY <1>0, <2>5, <2>6, <2>7 DEF OfferMove
  <2>9. allocations' = allocations \cup {<<x, r.details[k][1], r.details[k][2]>>}
    BY <1>2, <2>1
  <2> QED BY <1>0, <1>r, <1>t, <2>3, <2>5, <2>8, <2>9
<1>3. CASE Lists(s, o)!Fail(x) /\ UNCHANGED allocations
  <2>1. PICK u : u = OfferFresh("undo", r.details, r.allocs)
    OBVIOUS
  <2>2. "undo" \in OfferStep
    BY DEF OfferStep
  <2>3. /\ u \in OfferState(s) /\ u.step = "undo" /\ u.snap = 0 /\ u.full = 0 /\ u.allocs = r.allocs /\ u.bits = {}
        /\ u.details = r.details /\ u.kept = 0
    BY <1>a, <1>u, <2>1, <2>2, OfferFreshFields
  <2>4. offer' = [offer EXCEPT ![x] = u]
    BY <1>3, <1>i, <1>r, <2>1 DEF Lists!Fail, Lists!Undoing, OfferFresh
  <2>k. KeptRows(x, u, allocations')
    BY <1>a, <2>3, NothingKept
  <2>5. OfferMove(s, x, u)
    BY <2>3, <2>4, <2>k DEF OfferMove
  <2> QED BY <1>0, <1>3, <1>r, <1>t, <2>3, <2>5
<1> QED BY <1>1, <1>2, <1>3, <1>r DEF Lists!SaveCredentialAllocation

LEMMA SaveKept ==
  ASSUME NEW s, ListsIInv(s), NEW x \in s.offer, NEW u \in OfferState(s), OfferMove(s, x, u),
         allocations \subseteq allocations', allocations' \subseteq (s.offer \X (1..s.lists) \X ListIndex(s)),
         UNCHANGED <<lists, atAgent, revoked>>
  PROVE  ListsIInv(s)'
<1>1. OfferReady(x, u)' /\ offer' = [offer EXCEPT ![x] = u]
  BY DEF OfferMove, OfferReady, KeptRows
<1>2. /\ lists \in [1..s.lists -> ListRow(s)] /\ revoked \subseteq ListSlot(s) /\ atAgent \subseteq s.offer
      /\ \A l \in 1..s.lists : lists[l].count = Cardinality(lists[l].bits) /\ (lists[l].active => lists[l].exists)
  BY DEF ListsIInv
<1> QED BY <1>1, <1>2, ListsMoved

(* deleteCredentialOffers(), revokeCredential(). *)
LEMMA OfferUseKept ==
  ASSUME NEW s, NEW o \in BOOLEAN, ListsIInv(s), NEW x \in s.offer,
         Lists(s, o)!DeleteCredentialOffer(x) \/ Lists(s, o)!RevokeCredential(x)
  PROVE  ListsIInv(s)' /\ UNCHANGED <<lists, offer>>
<1>1. /\ UNCHANGED <<lists, offer, allocations>> /\ atAgent' \subseteq atAgent
      /\ revoked' \subseteq revoked \cup Lists(s, o)!Allocated(x)
  BY DEF Lists!DeleteCredentialOffer, Lists!RevokeCredential
<1>2. offer[x] \in OfferState(s)
  BY DEF ListsIInv
<1>3. offer[x].details \in Seq(ListSlot(s))
  BY <1>2 DEF OfferState
<1>4. Lists(s, o)!Allocated(x) \subseteq ListSlot(s)
  BY <1>3 DEF Lists!Allocated
<1> QED BY <1>1, <1>4 DEF ListsIInv, OfferReady, KeptRows

LEMMA ListsKept ==
  ASSUME NEW s, NEW o \in BOOLEAN, Lists(s, o)!StatusListAssumption, ListsIInv(s), Lists(s, o)!Next
  PROVE  ListsIInv(s)'
<1> SUFFICES ASSUME NEW x \in s.offer,
               \/ \E n \in 0..s.credentials : Lists(s, o)!CreateOffer(x, n) \/ Lists(s, o)!CreateOfferD2A(x, n)
               \/ Lists(s, o)!AllocateRead(x) \/ Lists(s, o)!AllocateWrite(x) \/ Lists(s, o)!AllocationFails(x)
               \/ Lists(s, o)!OfferAtAgent(x) \/ Lists(s, o)!SaveCredentialAllocation(x)
               \/ Lists(s, o)!ReleaseRead(x) \/ Lists(s, o)!ReleaseWrite(x) \/ Lists(s, o)!ReleaseFails(x)
               \/ Lists(s, o)!Undone(x)
               \/ Lists(s, o)!DeleteCredentialOffer(x) \/ Lists(s, o)!RevokeCredential(x)
             PROVE  ListsIInv(s)'
  BY DEF Lists!Next
<1>1. CASE Lists(s, o)!AllocateRead(x) \/ Lists(s, o)!ReleaseRead(x)
  BY <1>1, ListReadKept
<1>2. CASE Lists(s, o)!AllocateWrite(x)
  <2>1. PICK l \in 1..s.lists, i \in ListIndex(s) \ offer[x].bits, u \in OfferState(s) :
          OfferMove(s, x, u) /\ ListWriting(s, l, offer[x].bits \cup {i})
    <3>1. PICK l \in 1..s.lists, i \in ListIndex(s) \ offer[x].bits, u \in OfferState(s) :
            /\ l = offer[x].snap /\ OfferMove(s, x, u) /\ u.bits = {}
            /\ u.step = "alloc" /\ u.kept = 0 /\ u.details = Append(offer[x].details, <<l, i>>)
            /\ u.allocs = Append(offer[x].allocs, <<l, i>>)
            /\ ListWriting(s, l, offer[x].bits \cup {i}) /\ lists'[l].exists
      BY <1>2, AllocateWritten, ZenonT(60)
    <3> QED BY <3>1
  <2>2. UNCHANGED <<allocations, atAgent, revoked>>
    BY <1>2, AllocateWritten
  <2>3. PICK b : b = offer[x].bits \cup {i}
    OBVIOUS
  <2> QED BY <2>1, <2>2, <2>3, WritingKept
<1>3. CASE Lists(s, o)!ReleaseWrite(x)
  <2>1. PICK slot \in ListSlot(s), u \in OfferState(s) :
          OfferMove(s, x, u) /\ ListWriting(s, slot[1], offer[x].bits \ {slot[2]})
    BY <1>3, ReleaseWritten
  <2>2. UNCHANGED <<allocations, atAgent, revoked>>
    BY <1>3, ReleaseWritten
  <2>3. PICK b : b = offer[x].bits \ {slot[2]}
    OBVIOUS
  <2>4. PICK l \in 1..s.lists : l = slot[1]
    BY DEF ListSlot
  <2> QED BY <2>1, <2>2, <2>3, <2>4, WritingKept
<1>4. CASE Lists(s, o)!SaveCredentialAllocation(x)
  BY <1>4, SaveMoves, SaveKept
<1>5. CASE Lists(s, o)!DeleteCredentialOffer(x) \/ Lists(s, o)!RevokeCredential(x)
  BY <1>5, OfferUseKept
<1>6. CASE \/ \E n \in 0..s.credentials : Lists(s, o)!CreateOffer(x, n) \/ Lists(s, o)!CreateOfferD2A(x, n)
           \/ Lists(s, o)!AllocationFails(x) \/ Lists(s, o)!OfferAtAgent(x)
           \/ Lists(s, o)!Undone(x) \/ Lists(s, o)!ReleaseFails(x)
  BY <1>6, OfferStepKept, OfferMoveKept
<1> QED BY <1>1, <1>2, <1>3, <1>4, <1>5, <1>6

LEMMA ListsBegin ==
  ASSUME NEW s, NEW o \in BOOLEAN, Lists(s, o)!StatusListAssumption, Lists(s, o)!Init
  PROVE  ListsIInv(s)
<1>1. /\ lists = [l \in 1..s.lists |-> [active |-> FALSE, bits |-> {}, count |-> 0, exists |-> FALSE]]
      /\ offer = [x \in s.offer |-> IdleOffer] /\ allocations = {} /\ atAgent = {} /\ revoked = {} /\ s.lists \in Nat
  BY ListsUnfolded DEF Lists!Init, Lists!Idle, IdleOffer
<1>2. Cardinality({}) = 0
  BY FS_EmptySet
<1>3. /\ [active |-> FALSE, bits |-> {}, count |-> 0, exists |-> FALSE] \in ListRow(s)
      /\ [active |-> FALSE, bits |-> {}, count |-> 0, exists |-> FALSE].bits = {}
  BY DEF ListRow
<1>4. IdleOffer \in OfferState(s) /\ IdleOffer.snap = 0 /\ IdleOffer.full = 0 /\ IdleOffer.step # "done" /\ IdleOffer.kept = 0
  BY <1>1 DEF IdleOffer, OfferState, OfferStep
<1>5. IdleOffer.details \in Seq(ListSlot(s))
  BY DEF IdleOffer
<1>6. \A x \in s.offer : KeptRows(x, IdleOffer, allocations)
  BY <1>4, <1>5, NothingKept
<1> QED BY <1>1, <1>2, <1>3, <1>4, <1>6 DEF ListsIInv, OfferReady

LEMMA ListsSafe ==
  ASSUME NEW s, NEW o \in BOOLEAN, Lists(s, o)!StatusListAssumption, ListsIInv(s)
  PROVE  Lists(s, o)!TypeOK /\ Lists(s, o)!CountMatchesBitmap /\ Lists(s, o)!SuccessIsRevocable
<1>u. /\ s.listSize \in Nat \ {0} /\ s.lists \in Nat
      /\ Lists(s, o)!Index = ListIndex(s) /\ Lists(s, o)!List = 1..s.lists /\ Lists(s, o)!Slot = ListSlot(s)
  BY ListsUnfolded
<1>t. /\ lists \in [1..s.lists -> ListRow(s)]
      /\ \A l \in 1..s.lists : lists[l].count = Cardinality(lists[l].bits)
      /\ \A x \in s.offer : offer[x] \in OfferState(s) /\ OfferReady(x, offer[x])
      /\ allocations \subseteq (s.offer \X (1..s.lists) \X ListIndex(s))
      /\ atAgent \subseteq s.offer /\ revoked \subseteq ListSlot(s)
  BY DEF ListsIInv
<1>a. \A x \in s.offer : /\ offer[x].details \in Seq(ListSlot(s)) /\ offer[x].bits \subseteq ListIndex(s)
                         /\ offer[x].step \in {"idle", "alloc", "save", "done", "unnamed", "undo", "failed"}
  BY <1>t DEF OfferState, OfferStep
<1>b. \A x \in s.offer : Lists(s, o)!Allocated(x) \subseteq ListSlot(s)
  BY <1>a DEF Lists!Allocated
<1>1. Lists(s, o)!TypeOK
  BY <1>a, <1>b, <1>t, <1>u DEF Lists!TypeOK, ListRow
<1>2. Lists(s, o)!CountMatchesBitmap
  <2> SUFFICES ASSUME NEW l \in 1..s.lists
               PROVE  /\ lists[l].count = Cardinality(lists[l].bits)
                      /\ lists[l].count < s.listSize => ListIndex(s) \ lists[l].bits # {}
    BY <1>u, ListsCardinality DEF Lists!CountMatchesBitmap, Lists!FreeIndexes
  <2>1. PICK b \in SUBSET ListIndex(s) : b = lists[l].bits
    BY <1>t DEF ListRow
  <2> QED BY <1>t, <1>u, <2>1, IndexesFinite
<1>3. Lists(s, o)!SuccessIsRevocable
  <2> SUFFICES ASSUME NEW x \in s.offer, offer[x].step = "done", NEW a \in Lists(s, o)!Allocated(x)
               PROVE  <<x, a[1], a[2]>> \in allocations
    BY DEF Lists!SuccessIsRevocable
  <2>1. PICK k \in 1..Len(offer[x].details) : a = offer[x].details[k]
    BY <1>a DEF Lists!Allocated
  <2> QED BY <1>t, <2>1 DEF OfferReady, KeptRows
<1> QED BY <1>1, <1>2, <1>3

(* Transactions that do not overlap: the running one knows the bitmap it   *)
(* will overwrite, and the slots of all offers are distinct and set.       *)
SnapshotCurrent(u) ==
  /\ u.snap = 0 => u.bits = {}
  /\ u.snap # 0 => u.bits = lists[u.snap].bits /\ (u.step = "undo" => u.snap = Head(u.allocs)[1])
SlotsSet(u) == \A k \in 1..Len(u.allocs) : u.allocs[k][2] \in lists[u.allocs[k][1]].bits
SlotsDistinct(s) ==
  \A x, y \in s.offer : \A k \in 1..Len(offer[x].allocs), j \in 1..Len(offer[y].allocs) :
    offer[x].allocs[k] = offer[y].allocs[j] => x = y /\ k = j
ListsInTurn(s) ==
  /\ \A x, y \in s.offer : offer[x].snap # 0 /\ offer[y].snap # 0 => x = y
  /\ \A x \in s.offer : SnapshotCurrent(offer[x]) /\ SlotsSet(offer[x])
  /\ \A l \in 1..s.lists : ~lists[l].exists => lists[l].bits = {}
  /\ SlotsDistinct(s)

(* A step between transactions, or one that gives up a transaction. *)
LEMMA MoveInTurn ==
  ASSUME NEW s, ListsIInv(s), ListsInTurn(s), NEW x \in s.offer, NEW u \in OfferState(s), OfferMove(s, x, u),
         u.bits = {} \/ (u.bits = offer[x].bits /\ offer[x].snap = 0),
         u.allocs = offer[x].allocs \/ (offer[x].allocs # <<>> /\ u.allocs = Tail(offer[x].allocs)),
         UNCHANGED lists
  PROVE  ListsInTurn(s)'
<1>t. offer \in [s.offer -> OfferState(s)] /\ \A y \in s.offer : offer[y].allocs \in Seq(ListSlot(s))
  BY DEF ListsIInv, OfferState
<1>1. u.snap = 0 /\ offer'[x] = u /\ \A y \in s.offer : y # x => offer'[y] = offer[y]
  BY <1>t DEF OfferMove
<1>2. u.allocs \in Seq(ListSlot(s))
  BY DEF OfferState
<1>3. PICK d \in {0, 1} : \A k \in 1..Len(u.allocs) : k + d \in 1..Len(offer[x].allocs) /\ u.allocs[k] = offer[x].allocs[k + d]
  <2>1. PICK a \in Seq(ListSlot(s)) : a = offer[x].allocs
    BY <1>t
  <2>2. PICK b \in Seq(ListSlot(s)) : b = u.allocs
    BY <1>2
  <2>3. CASE b = a
    <3>1. \A k \in 1..Len(b) : k + 0 \in 1..Len(a) /\ b[k] = a[k + 0]
      BY <2>3
    <3> QED BY <2>1, <2>2, <3>1
  <2>4. CASE a # <<>> /\ b = Tail(a)
    <3>1. \A k \in 1..Len(b) : k + 1 \in 1..Len(a) /\ b[k] = a[k + 1]
      BY <2>4
    <3> QED BY <2>1, <2>2, <3>1
  <2> QED BY <2>1, <2>2, <2>3, <2>4
<1>l. \A y \in s.offer : Len(offer[y].allocs) \in Nat
  BY <1>t
<1>4. u.bits = {}
  BY DEF ListsInTurn, SnapshotCurrent
<1>5. SnapshotCurrent(u)' /\ SlotsSet(u)'
  <2>1. SlotsSet(offer[x])
    BY DEF ListsInTurn
  <2>2. SlotsSet(u)'
    BY <1>3, <2>1 DEF SlotsSet
  <2> QED BY <1>1, <1>4, <2>2 DEF SnapshotCurrent
<1>6. \A y \in s.offer : SnapshotCurrent(offer[y])' /\ SlotsSet(offer[y])'
  <2> SUFFICES ASSUME NEW y \in s.offer
               PROVE  SnapshotCurrent(offer[y])' /\ SlotsSet(offer[y])'
    OBVIOUS
  <2>1. CASE y = x
    BY <1>1, <1>5, <2>1 DEF SnapshotCurrent, SlotsSet
  <2>2. CASE y # x
    BY <1>1, <2>2 DEF SnapshotCurrent, SlotsSet, ListsInTurn
  <2> QED BY <2>1, <2>2
<1>7. \A y, z \in s.offer : offer'[y].snap # 0 /\ offer'[z].snap # 0 => y = z
  BY <1>1 DEF ListsInTurn
<1>8. SlotsDistinct(s)'
  <2> SUFFICES ASSUME NEW y \in s.offer, NEW z \in s.offer,
                      NEW k \in 1..Len(offer'[y].allocs), NEW j \in 1..Len(offer'[z].allocs),
                      offer'[y].allocs[k] = offer'[z].allocs[j]
               PROVE  y = z /\ k = j
    BY DEF SlotsDistinct
  <2>1. PICK e \in {0, 1} : /\ k + e \in 1..Len(offer[y].allocs) /\ offer'[y].allocs[k] = offer[y].allocs[k + e]
                            /\ y = x => e = d
                            /\ y # x => e = 0
    <3>1. CASE y = x
      <4>1. k + d \in 1..Len(offer[y].allocs) /\ offer'[y].allocs[k] = offer[y].allocs[k + d]
        BY <1>1, <1>3, <3>1
      <4> QED BY <3>1, <4>1
    <3>2. CASE y # x
      <4>1. k + 0 = k /\ offer'[y].allocs = offer[y].allocs
        BY <1>1, <3>2
      <4>2. k + 0 \in 1..Len(offer[y].allocs) /\ offer'[y].allocs[k] = offer[y].allocs[k + 0]
        BY <4>1
      <4> QED BY <3>2, <4>2
    <3> QED BY <3>1, <3>2
  <2>2. PICK f \in {0, 1} : /\ j + f \in 1..Len(offer[z].allocs) /\ offer'[z].allocs[j] = offer[z].allocs[j + f]
                            /\ z = x => f = d
                            /\ z # x => f = 0
    <3>1. CASE z = x
      <4>1. j + d \in 1..Len(offer[z].allocs) /\ offer'[z].allocs[j] = offer[z].allocs[j + d]
        BY <1>1, <1>3, <3>1
      <4> QED BY <3>1, <4>1
    <3>2. CASE z # x
      <4>1. j + 0 = j /\ offer'[z].allocs = offer[z].allocs
        BY <1>1, <3>2
      <4>2. j + 0 \in 1..Len(offer[z].allocs) /\ offer'[z].allocs[j] = offer[z].allocs[j + 0]
        BY <4>1
      <4> QED BY <3>2, <4>2
    <3> QED BY <3>1, <3>2
  <2>3. y = z /\ k + e = j + f
    <3>1. PICK p \in 1..Len(offer[y].allocs) : p = k + e
      BY <2>1
    <3>2. PICK q \in 1..Len(offer[z].allocs) : q = j + f
      BY <2>2
    <3>3. offer[y].allocs[p] = offer[z].allocs[q]
      BY <2>1, <2>2, <3>1, <3>2
    <3>4. y = z /\ p = q
      BY <3>3 DEF ListsInTurn, SlotsDistinct
    <3> QED BY <3>1, <3>2, <3>4
  <2>4. e = f
    BY <2>1, <2>2, <2>3
  <2>5. k \in Int /\ j \in Int
    OBVIOUS
  <2> QED BY <2>3, <2>4, <2>5
<1> QED BY <1>6, <1>7, <1>8 DEF ListsInTurn

(* A handler begins a transaction: nobody else is in one. *)
LEMMA ReadInTurn ==
  ASSUME NEW s, Lists(s, FALSE)!StatusListAssumption, ListsIInv(s), ListsInTurn(s), NEW x \in s.offer,
         Lists(s, FALSE)!AllocateRead(x) \/ Lists(s, FALSE)!ReleaseRead(x)
  PROVE  ListsInTurn(s)'
<1>t. /\ offer \in [s.offer -> OfferState(s)] /\ offer[x] \in OfferState(s) /\ lists \in [1..s.lists -> ListRow(s)]
      /\ s.lists \in Nat /\ Lists(s, FALSE)!List = 1..s.lists
  BY ListsTyped, ListsUnfolded
<1>1. UNCHANGED lists /\ \A y \in s.offer : offer[y].snap = 0
  BY DEF Lists!AllocateRead, Lists!ReleaseRead, Lists!MayBegin, Lists!InTransaction
<1>r. PICK r \in OfferState(s) : r = offer[x]
  BY <1>t
<1>2. ASSUME NEW l \in 1..s.lists, NEW f \in 0..s.lists, NEW b \in SUBSET ListIndex(s), b = lists[l].bits,
             r.step = "undo" => l = Head(r.allocs)[1],
             OfferSet(x, OfferReading(r, l, f, b))
      PROVE  ListsInTurn(s)'
  <2>1. PICK u : u = OfferReading(r, l, f, b)
    OBVIOUS
  <2>2. u \in OfferState(s) /\ u.step = r.step /\ u.allocs = r.allocs /\ u.snap = l /\ u.bits = b
    BY <1>t, <2>1, OfferReads
  <2>3. offer'[x] = u /\ \A y \in s.offer : y # x => offer'[y] = offer[y]
    BY <1>2, <1>t, <2>1 DEF OfferSet
  <2>4. \A y \in s.offer : offer'[y].allocs = offer[y].allocs
    BY <1>r, <2>2, <2>3
  <2>5. SlotsDistinct(s)'
    BY <2>4 DEF ListsInTurn, SlotsDistinct
  <2>6. \A y \in s.offer : SlotsSet(offer[y])'
    BY <1>1, <2>4 DEF ListsInTurn, SlotsSet
  <2>7. \A y \in s.offer : SnapshotCurrent(offer[y])'
    BY <1>1, <1>2, <2>2, <2>3 DEF ListsInTurn, SnapshotCurrent
  <2>8. \A y, z \in s.offer : offer'[y].snap # 0 /\ offer'[z].snap # 0 => y = z
    BY <1>1, <2>3
  <2> QED BY <1>1, <2>5, <2>6, <2>7, <2>8 DEF ListsInTurn
<1>3. r.full \in 0..s.lists /\ r.bits = {} /\ r.snap = 0
  BY <1>1, <1>r DEF OfferState, ListsInTurn, SnapshotCurrent
<1>4. \A l \in 1..s.lists : lists[l].bits \in SUBSET ListIndex(s)
  BY <1>t DEF ListRow
<1>5. CASE Lists(s, FALSE)!AllocateRead(x)
  <2>1. ASSUME NEW l \in Lists(s, FALSE)!Active, offer' = [offer EXCEPT ![x].snap = l, ![x].bits = lists[l].bits]
        PROVE  ListsInTurn(s)'
    <3>1. PICK b : b = lists[l].bits
      OBVIOUS
    <3>2. l \in 1..s.lists /\ b \in SUBSET ListIndex(s)
      BY <1>4, <1>t, <3>1 DEF Lists!Active
    <3>3. OfferSet(x, OfferReading(r, l, r.full, b))
      BY <1>r, <1>t, <2>1, <3>1 DEF OfferState, OfferSet, OfferReading
    <3>4. r.step # "undo"
      BY <1>5, <1>r DEF Lists!AllocateRead
    <3> QED BY <1>2, <1>3, <3>1, <3>2, <3>3, <3>4
  <2>2. ASSUME NEW l \in Lists(s, FALSE)!Unused, NEW f \in {0} \cup Lists(s, FALSE)!Active,
               offer' = [offer EXCEPT ![x].snap = l, ![x].full = f]
        PROVE  ListsInTurn(s)'
    <3>1. l \in 1..s.lists /\ f \in 0..s.lists /\ ~lists[l].exists
      <4>0. l \in Lists(s, FALSE)!List /\ ~Lists(s, FALSE)!Taken(l)
        BY <2>2 DEF Lists!Unused
      <4>1. l \in 1..s.lists /\ ~lists[l].exists
        BY <1>t, <4>0 DEF Lists!Taken
      <4>2. Lists(s, FALSE)!Active \subseteq 1..s.lists
        BY <1>t DEF Lists!Active
      <4>3. f \in 0..s.lists
        <5>1. f = 0 \/ f \in Lists(s, FALSE)!Active
          OBVIOUS
        <5>2. f = 0 \/ f \in 1..s.lists
          BY <4>2, <5>1
        <5>3. s.lists \in Nat
          BY <1>t
        <5> QED BY <5>2, <5>3
      <4> QED BY <4>1, <4>3
    <3>2. lists[l].bits = {} /\ {} \in SUBSET ListIndex(s)
      BY <3>1 DEF ListsInTurn
    <3>3. OfferSet(x, OfferReading(r, l, f, r.bits))
      BY <1>r, <1>t, <2>2 DEF OfferState, OfferSet, OfferReading
    <3>4. r.step # "undo" /\ r.bits \in SUBSET ListIndex(s) /\ r.bits = lists[l].bits
      BY <1>3, <1>5, <1>r, <3>2 DEF Lists!AllocateRead
    <3> QED BY <1>2, <3>1, <3>3, <3>4
  <2> QED BY <1>5, <2>1, <2>2 DEF Lists!AllocateRead
<1>6. CASE Lists(s, FALSE)!ReleaseRead(x)
  <2>1. PICK l : l = Head(r.allocs)[1]
    OBVIOUS
  <2>2. l \in 1..s.lists
    BY <1>6, <1>r, <1>t, <2>1 DEF Lists!ReleaseRead, OfferState, ListSlot
  <2>3. PICK b \in SUBSET ListIndex(s) : b = lists[l].bits
    BY <1>4, <2>2
  <2>4. OfferSet(x, OfferReading(r, l, r.full, b))
    BY <1>6, <1>r, <1>t, <2>1, <2>3 DEF Lists!ReleaseRead, OfferState, OfferSet, OfferReading
  <2> QED BY <1>2, <1>3, <2>1, <2>2, <2>3, <2>4
<1> QED BY <1>5, <1>6

(* allocate() writes: an index that was free in the current bitmap. *)
LEMMA AllocateInTurn ==
  ASSUME NEW s, Lists(s, FALSE)!StatusListAssumption, ListsIInv(s), ListsInTurn(s), NEW x \in s.offer,
         Lists(s, FALSE)!AllocateWrite(x)
  PROVE  ListsInTurn(s)'
<1>t. /\ offer \in [s.offer -> OfferState(s)] /\ s.lists \in Nat
      /\ \A y \in s.offer : offer[y].allocs \in Seq(ListSlot(s)) /\ Len(offer[y].allocs) \in Nat
  <2>1. offer \in [s.offer -> OfferState(s)]
    BY DEF ListsIInv
  <2>2. \A y \in s.offer : offer[y].allocs \in Seq(ListSlot(s))
    BY <2>1 DEF OfferState
  <2>3. \A y \in s.offer : Len(offer[y].allocs) \in Nat
    BY <2>2
  <2> QED BY <2>1, <2>2, <2>3, ListsUnfolded
<1>1. PICK l \in 1..s.lists, i \in ListIndex(s) \ offer[x].bits, u \in OfferState(s) :
        /\ l = offer[x].snap /\ OfferMove(s, x, u) /\ u.bits = {}
        /\ u.allocs = Append(offer[x].allocs, <<l, i>>)
        /\ ListWriting(s, l, offer[x].bits \cup {i}) /\ lists'[l].exists
  BY AllocateWritten
<1>2. u.snap = 0 /\ offer'[x] = u /\ \A y \in s.offer : y # x => offer'[y] = offer[y] /\ offer'[y].snap = 0
  BY <1>1, <1>t DEF OfferMove, ListsInTurn
<1>3. /\ lists'[l].bits = lists[l].bits \cup {i} /\ i \notin lists[l].bits
      /\ \A k \in 1..s.lists : k # l => lists'[k].bits = lists[k].bits /\ lists'[k].exists = lists[k].exists
  BY <1>1 DEF ListsInTurn, SnapshotCurrent, ListWriting
<1>4. \A k \in 1..s.lists : lists[k].bits \subseteq lists'[k].bits
  BY <1>3
<1>5. PICK n \in Nat : n = Len(offer[x].allocs)
  BY <1>t
<1>6. /\ Len(u.allocs) = n + 1 /\ u.allocs[n + 1] = <<l, i>>
      /\ \A k \in 1..n : u.allocs[k] = offer[x].allocs[k]
  BY <1>1, <1>5, <1>t
<1>7. \A y \in s.offer : \A k \in 1..Len(offer[y].allocs) :
        /\ offer[y].allocs[k][1] \in 1..s.lists /\ offer[y].allocs[k] # <<l, i>>
        /\ offer[y].allocs[k][2] \in lists'[offer[y].allocs[k][1]].bits
  <2> SUFFICES ASSUME NEW y \in s.offer, NEW k \in 1..Len(offer[y].allocs)
               PROVE  /\ offer[y].allocs[k][1] \in 1..s.lists /\ offer[y].allocs[k] # <<l, i>>
                      /\ offer[y].allocs[k][2] \in lists'[offer[y].allocs[k][1]].bits
    OBVIOUS
  <2>1. PICK e \in ListSlot(s) : e = offer[y].allocs[k]
    BY <1>t
  <2>2. e[1] \in 1..s.lists /\ e[2] \in lists[e[1]].bits
    BY <2>1 DEF ListSlot, ListsInTurn, SlotsSet
  <2>3. e # <<l, i>>
    BY <1>3, <2>2
  <2> QED BY <1>4, <2>1, <2>2, <2>3
<1>8. \A y \in s.offer : SlotsSet(offer[y])'
  <2> SUFFICES ASSUME NEW y \in s.offer, NEW k \in 1..Len(offer'[y].allocs)
               PROVE  offer'[y].allocs[k][2] \in lists'[offer'[y].allocs[k][1]].bits
    BY DEF SlotsSet
  <2>1. CASE y # x
    BY <1>2, <1>7, <2>1
  <2>2. CASE y = x /\ k \in 1..n
    BY <1>2, <1>5, <1>6, <1>7, <2>2
  <2>3. CASE y = x /\ k = n + 1
    BY <1>2, <1>3, <1>6, <2>3
  <2> QED BY <1>2, <1>5, <1>6, <2>1, <2>2, <2>3
<1>9. SlotsDistinct(s)'
  <2> SUFFICES ASSUME NEW y \in s.offer, NEW z \in s.offer,
                      NEW k \in 1..Len(offer'[y].allocs), NEW j \in 1..Len(offer'[z].allocs),
                      offer'[y].allocs[k] = offer'[z].allocs[j]
               PROVE  y = z /\ k = j
    BY DEF SlotsDistinct
  <2>1. \/ y = x /\ k = n + 1 /\ offer'[y].allocs[k] = <<l, i>>
        \/ k \in 1..Len(offer[y].allocs) /\ offer'[y].allocs[k] = offer[y].allocs[k]
    <3>1. CASE y # x
      BY <1>2, <3>1
    <3>2. CASE y = x /\ k = n + 1
      BY <1>2, <1>6, <3>2
    <3>3. CASE y = x /\ k \in 1..n
      BY <1>2, <1>5, <1>6, <3>3
    <3>4. y = x => k \in 1..(n + 1)
      BY <1>2, <1>6
    <3>5. y = x => k = n + 1 \/ k \in 1..n
      BY <3>4
    <3> QED BY <3>1, <3>2, <3>3, <3>5
  <2>2. \/ z = x /\ j = n + 1 /\ offer'[z].allocs[j] = <<l, i>>
        \/ j \in 1..Len(offer[z].allocs) /\ offer'[z].allocs[j] = offer[z].allocs[j]
    <3>1. CASE z # x
      BY <1>2, <3>1
    <3>2. CASE z = x /\ j = n + 1
      BY <1>2, <1>6, <3>2
    <3>3. CASE z = x /\ j \in 1..n
      BY <1>2, <1>5, <1>6, <3>3
    <3>4. z = x => j \in 1..(n + 1)
      BY <1>2, <1>6
    <3>5. z = x => j = n + 1 \/ j \in 1..n
      BY <3>4
    <3> QED BY <3>1, <3>2, <3>3, <3>5
  <2>3. SlotsDistinct(s)
    BY DEF ListsInTurn
  <2>4. CASE y = x /\ k = n + 1 /\ offer'[y].allocs[k] = <<l, i>>
    <3>1. ~(j \in 1..Len(offer[z].allocs) /\ offer'[z].allocs[j] = offer[z].allocs[j])
      BY <1>7, <2>4
    <3> QED BY <2>2, <2>4, <3>1
  <2>5. CASE k \in 1..Len(offer[y].allocs) /\ offer'[y].allocs[k] = offer[y].allocs[k]
    <3>1. offer'[z].allocs[j] # <<l, i>>
      BY <1>7, <2>5
    <3>2. j \in 1..Len(offer[z].allocs) /\ offer'[z].allocs[j] = offer[z].allocs[j]
      BY <2>2, <3>1
    <3>3. offer[y].allocs[k] = offer[z].allocs[j]
      BY <2>5, <3>2
    <3> QED BY <2>3, <2>5, <3>2, <3>3 DEF SlotsDistinct
  <2> QED BY <2>1, <2>4, <2>5
<1>10. \A y \in s.offer : SnapshotCurrent(offer[y])'
  <2>1. \A y \in s.offer : offer'[y].snap = 0 /\ offer'[y].bits = {}
    BY <1>1, <1>2 DEF ListsInTurn, SnapshotCurrent
  <2> QED BY <2>1 DEF SnapshotCurrent
<1>11. \A k \in 1..s.lists : ~lists'[k].exists => lists'[k].bits = {}
  BY <1>1, <1>3 DEF ListsInTurn
<1>12. \A y, z \in s.offer : offer'[y].snap # 0 /\ offer'[z].snap # 0 => y = z
  BY <1>2
<1> QED BY <1>8, <1>9, <1>10, <1>11, <1>12 DEF ListsInTurn

(* release() writes: the index of the first slot is cleared, and no other  *)
(* slot has it.                                                            *)
LEMMA ReleaseInTurn ==
  ASSUME NEW s, Lists(s, FALSE)!StatusListAssumption, ListsIInv(s), ListsInTurn(s), NEW x \in s.offer,
         Lists(s, FALSE)!ReleaseWrite(x)
  PROVE  ListsInTurn(s)'
<1>t. /\ offer \in [s.offer -> OfferState(s)]
      /\ \A y \in s.offer : offer[y].allocs \in Seq(ListSlot(s)) /\ Len(offer[y].allocs) \in Nat
  <2>1. offer \in [s.offer -> OfferState(s)]
    BY DEF ListsIInv
  <2>2. \A y \in s.offer : offer[y].allocs \in Seq(ListSlot(s))
    BY <2>1 DEF OfferState
  <2>3. \A y \in s.offer : Len(offer[y].allocs) \in Nat
    BY <2>2
  <2> QED BY <2>1, <2>2, <2>3
<1>0. offer[x].allocs # <<>> /\ offer[x].step = "undo" /\ offer[x].snap # 0
  BY ReleaseWritten
<1>1. PICK slot \in ListSlot(s), u \in OfferState(s) :
        /\ slot = Head(offer[x].allocs) /\ OfferMove(s, x, u) /\ u.bits = {}
        /\ u.allocs = Tail(offer[x].allocs)
        /\ ListWriting(s, slot[1], offer[x].bits \ {slot[2]})
        /\ lists'[slot[1]].exists = lists[slot[1]].exists
  BY ReleaseWritten
<1>2. u.snap = 0 /\ offer'[x] = u /\ \A y \in s.offer : y # x => offer'[y] = offer[y] /\ offer'[y].snap = 0
  BY <1>0, <1>1, <1>t DEF OfferMove, ListsInTurn
<1>3. /\ slot[1] \in 1..s.lists /\ lists'[slot[1]].bits = lists[slot[1]].bits \ {slot[2]}
      /\ \A k \in 1..s.lists : k # slot[1] => lists'[k].bits = lists[k].bits /\ lists'[k].exists = lists[k].exists
  <2>1. slot[1] \in 1..s.lists
    BY DEF ListSlot
  <2>2. SnapshotCurrent(offer[x])
    BY DEF ListsInTurn
  <2>3. offer[x].bits = lists[slot[1]].bits
    BY <1>0, <1>1, <2>2 DEF SnapshotCurrent
  <2>4. PICK b : b = offer[x].bits \ {slot[2]}
    OBVIOUS
  <2>5. ListWriting(s, slot[1], b)
    BY <1>1, <2>4
  <2> QED BY <2>1, <2>3, <2>4, <2>5 DEF ListWriting
<1>4. \A y \in s.offer : \E d \in {0, 1} :
        /\ y # x => d = 0
        /\ y = x => d = 1
        /\ \A k \in 1..Len(offer'[y].allocs) :
             k + d \in 1..Len(offer[y].allocs) /\ offer'[y].allocs[k] = offer[y].allocs[k + d]
  <2> SUFFICES ASSUME NEW y \in s.offer
               PROVE  \E d \in {0, 1} :
                        /\ y # x => d = 0
                        /\ y = x => d = 1
                        /\ \A k \in 1..Len(offer'[y].allocs) :
                             k + d \in 1..Len(offer[y].allocs) /\ offer'[y].allocs[k] = offer[y].allocs[k + d]
    OBVIOUS
  <2>1. CASE y = x
    <3>1. PICK a \in Seq(ListSlot(s)) : a = offer[x].allocs /\ a # <<>>
      BY <1>0, <1>t
    <3>2. \A k \in 1..Len(Tail(a)) : k + 1 \in 1..Len(a) /\ Tail(a)[k] = a[k + 1]
      OBVIOUS
    <3>3. offer'[y].allocs = Tail(a) /\ offer[y].allocs = a
      BY <1>1, <1>2, <2>1, <3>1
    <3> QED BY <2>1, <3>2, <3>3
  <2>2. CASE y # x
    <3>1. offer'[y].allocs = offer[y].allocs
      BY <1>2, <2>2
    <3>2. \A k \in 1..Len(offer'[y].allocs) :
             k + 0 \in 1..Len(offer[y].allocs) /\ offer'[y].allocs[k] = offer[y].allocs[k + 0]
      BY <3>1
    <3> QED BY <2>2, <3>2
  <2> QED BY <2>1, <2>2
<1>5. 1 \in 1..Len(offer[x].allocs) /\ offer[x].allocs[1] = slot
  <2>1. PICK a \in Seq(ListSlot(s)) : a = offer[x].allocs /\ a # <<>>
    BY <1>0, <1>t
  <2>2. 1 \in 1..Len(a) /\ a[1] = Head(a)
    BY <2>1
  <2> QED BY <1>1, <2>1, <2>2
<1>6. ASSUME NEW y \in s.offer, NEW p \in 1..Len(offer[y].allocs), y # x \/ p # 1
      PROVE  offer[y].allocs[p][2] \in lists'[offer[y].allocs[p][1]].bits
  <2>1. offer[y].allocs[p] # slot
    BY <1>5, <1>6 DEF ListsInTurn, SlotsDistinct
  <2>2. PICK e \in ListSlot(s) : e = offer[y].allocs[p]
    BY <1>t
  <2>3. e[1] \in 1..s.lists /\ e[2] \in lists[e[1]].bits
    BY <2>2 DEF ListSlot, ListsInTurn, SlotsSet
  <2>4. e[1] # slot[1] \/ e[2] # slot[2]
    BY <2>1, <2>2 DEF ListSlot
  <2>5. e[2] \in lists'[e[1]].bits
    BY <1>3, <2>3, <2>4
  <2> QED BY <2>2, <2>5
<1>7. \A y \in s.offer : SlotsSet(offer[y])'
  <2> SUFFICES ASSUME NEW y \in s.offer, NEW k \in 1..Len(offer'[y].allocs)
               PROVE  offer'[y].allocs[k][2] \in lists'[offer'[y].allocs[k][1]].bits
    BY DEF SlotsSet
  <2>1. PICK d \in {0, 1} : /\ y # x => d = 0
                            /\ y = x => d = 1
                            /\ k + d \in 1..Len(offer[y].allocs) /\ offer'[y].allocs[k] = offer[y].allocs[k + d]
    BY <1>4
  <2>2. PICK p \in 1..Len(offer[y].allocs) : p = k + d
    BY <2>1
  <2>3. y # x \/ p # 1
    BY <2>1, <2>2
  <2> QED BY <1>6, <2>1, <2>2, <2>3
<1>8. SlotsDistinct(s)'
  <2> SUFFICES ASSUME NEW y \in s.offer, NEW z \in s.offer,
                      NEW k \in 1..Len(offer'[y].allocs), NEW j \in 1..Len(offer'[z].allocs),
                      offer'[y].allocs[k] = offer'[z].allocs[j]
               PROVE  y = z /\ k = j
    BY DEF SlotsDistinct
  <2>1. PICK d \in {0, 1} : /\ y # x => d = 0
                            /\ y = x => d = 1
                            /\ k + d \in 1..Len(offer[y].allocs) /\ offer'[y].allocs[k] = offer[y].allocs[k + d]
    BY <1>4
  <2>2. PICK e \in {0, 1} : /\ z # x => e = 0
                            /\ z = x => e = 1
                            /\ j + e \in 1..Len(offer[z].allocs) /\ offer'[z].allocs[j] = offer[z].allocs[j + e]
    BY <1>4
  <2>3. PICK p \in 1..Len(offer[y].allocs) : p = k + d
    BY <2>1
  <2>4. PICK q \in 1..Len(offer[z].allocs) : q = j + e
    BY <2>2
  <2>5. offer[y].allocs[p] = offer[z].allocs[q]
    BY <2>1, <2>2, <2>3, <2>4
  <2>6. y = z /\ p = q
    BY <2>5 DEF ListsInTurn, SlotsDistinct
  <2>7. d = e /\ k \in Int /\ j \in Int
    BY <2>1, <2>2, <2>6
  <2> QED BY <2>3, <2>4, <2>6, <2>7
<1>9. \A y \in s.offer : SnapshotCurrent(offer[y])'
  <2>1. \A y \in s.offer : offer'[y].snap = 0 /\ offer'[y].bits = {}
    BY <1>1, <1>2 DEF ListsInTurn, SnapshotCurrent
  <2> QED BY <2>1 DEF SnapshotCurrent
<1>10. \A k \in 1..s.lists : ~lists'[k].exists => lists'[k].bits = {}
  BY <1>1, <1>3 DEF ListsInTurn
<1>11. \A y, z \in s.offer : offer'[y].snap # 0 /\ offer'[z].snap # 0 => y = z
  BY <1>2
<1> QED BY <1>7, <1>8, <1>9, <1>10, <1>11 DEF ListsInTurn

LEMMA ListsInTurnKept ==
  ASSUME NEW s, Lists(s, FALSE)!StatusListAssumption, ListsIInv(s), ListsInTurn(s), Lists(s, FALSE)!Next
  PROVE  ListsInTurn(s)'
<1> SUFFICES ASSUME NEW x \in s.offer,
               \/ \E n \in 0..s.credentials : Lists(s, FALSE)!CreateOffer(x, n) \/ Lists(s, FALSE)!CreateOfferD2A(x, n)
               \/ Lists(s, FALSE)!AllocateRead(x) \/ Lists(s, FALSE)!AllocateWrite(x) \/ Lists(s, FALSE)!AllocationFails(x)
               \/ Lists(s, FALSE)!OfferAtAgent(x) \/ Lists(s, FALSE)!SaveCredentialAllocation(x)
               \/ Lists(s, FALSE)!ReleaseRead(x) \/ Lists(s, FALSE)!ReleaseWrite(x) \/ Lists(s, FALSE)!ReleaseFails(x)
               \/ Lists(s, FALSE)!Undone(x)
               \/ Lists(s, FALSE)!DeleteCredentialOffer(x) \/ Lists(s, FALSE)!RevokeCredential(x)
             PROVE  ListsInTurn(s)'
  BY DEF Lists!Next
<1>1. CASE Lists(s, FALSE)!AllocateRead(x) \/ Lists(s, FALSE)!ReleaseRead(x)
  BY <1>1, ReadInTurn
<1>2. CASE Lists(s, FALSE)!AllocateWrite(x) \/ Lists(s, FALSE)!ReleaseWrite(x)
  BY <1>2, AllocateInTurn, ReleaseInTurn
<1>3. CASE Lists(s, FALSE)!SaveCredentialAllocation(x)
  <2>1. PICK u \in OfferState(s) : /\ OfferMove(s, x, u) /\ u.allocs = offer[x].allocs
                                   /\ (u.bits = {} \/ (u.bits = offer[x].bits /\ offer[x].snap = 0))
    BY <1>3, SaveMoves
  <2>2. UNCHANGED lists
    BY <1>3, SaveMoves
  <2> QED BY <2>1, <2>2, MoveInTurn
<1>4. CASE Lists(s, FALSE)!DeleteCredentialOffer(x) \/ Lists(s, FALSE)!RevokeCredential(x)
  <2>1. UNCHANGED <<lists, offer>>
    BY <1>4, OfferUseKept
  <2> QED BY <2>1 DEF ListsInTurn, SlotsDistinct, SlotsSet, SnapshotCurrent
<1>5. CASE \/ \E n \in 0..s.credentials : Lists(s, FALSE)!CreateOffer(x, n) \/ Lists(s, FALSE)!CreateOfferD2A(x, n)
           \/ Lists(s, FALSE)!AllocationFails(x) \/ Lists(s, FALSE)!OfferAtAgent(x)
           \/ Lists(s, FALSE)!Undone(x) \/ Lists(s, FALSE)!ReleaseFails(x)
  <2>1. PICK u \in OfferState(s) : /\ OfferMove(s, x, u) /\ (u.bits = {} \/ (u.bits = offer[x].bits /\ offer[x].snap = 0))
                                   /\ \/ u.allocs = offer[x].allocs
                                      \/ offer[x].allocs # <<>> /\ u.allocs = Tail(offer[x].allocs)
    BY <1>5, OfferStepKept
  <2>2. UNCHANGED lists
    BY <1>5, OfferStepKept
  <2> QED BY <2>1, <2>2, MoveInTurn
<1> QED BY <1>1, <1>2, <1>3, <1>4, <1>5

LEMMA ListsInTurnBegin ==
  ASSUME NEW s, Lists(s, FALSE)!StatusListAssumption, Lists(s, FALSE)!Init
  PROVE  ListsInTurn(s)
<1>1. /\ lists = [l \in 1..s.lists |-> [active |-> FALSE, bits |-> {}, count |-> 0, exists |-> FALSE]]
      /\ offer = [x \in s.offer |-> IdleOffer]
  BY ListsUnfolded DEF Lists!Init, Lists!Idle, IdleOffer
<1>2. IdleOffer.snap = 0 /\ IdleOffer.bits = {} /\ Len(IdleOffer.allocs) = 0
  BY DEF IdleOffer
<1> HIDE DEF IdleOffer
<1>3. \A x \in s.offer : offer[x] = IdleOffer
  BY <1>1
<1>4. \A l \in 1..s.lists : lists[l].bits = {}
  BY <1>1
<1>5. 1..0 = {}
  OBVIOUS
<1> QED BY <1>2, <1>3, <1>4, <1>5 DEF ListsInTurn, SlotsDistinct, SlotsSet, SnapshotCurrent

(* Without lost answers an offer that the agent has is undone only when it *)
(* crossed a rotation; otherwise the handler holds what the offer carries. *)
OfferCrossed(d) == \E j, k \in DOMAIN d : j < k /\ d[j][2] = d[k][2]
HeldInTurn(x, u) ==
  /\ u.step \notin {"undo", "failed"} => u.details = u.allocs
  /\ u.step \in {"idle", "alloc"} => u.kept = 0 /\ x \notin atAgent
  /\ x \in atAgent /\ u.step \in {"undo", "failed"} => OfferCrossed(u.details)
  /\ u.step \in {"idle", "alloc", "save"} =>
       \A w \in allocations : w[1] = x => \E k \in 1..u.kept : w[3] = u.details[k][2]
  /\ \A k, j \in 1..Len(u.details) : u.details[k] = u.details[j] => k = j
ListsHeld(s) == \A x \in s.offer : HeldInTurn(x, offer[x])

(* A step of one handler. *)
LEMMA HeldMoved ==
  ASSUME NEW s, ListsHeld(s), NEW x \in s.offer, NEW u, offer'[x] = u, HeldInTurn(x, u)',
         \A y \in s.offer : y # x => offer'[y] = offer[y],
         \A w \in allocations' : w[1] # x => w \in allocations,
         \A y \in atAgent' : y # x => y \in atAgent
  PROVE  ListsHeld(s)'
<1> SUFFICES ASSUME NEW y \in s.offer
             PROVE  HeldInTurn(y, offer[y])'
  BY DEF ListsHeld
<1>1. CASE y = x
  BY <1>1 DEF HeldInTurn
<1>2. CASE y # x
  <2>1. HeldInTurn(y, offer[y]) /\ offer'[y] = offer[y] /\ (y \in atAgent' => y \in atAgent)
    BY <1>2 DEF ListsHeld
  <2>2. \A w \in allocations' : w[1] = y => w \in allocations
    BY <1>2
  <2> QED BY <2>1, <2>2 DEF HeldInTurn
<1> QED BY <1>1, <1>2

(* A handler that goes on with what it has. *)
LEMMA HeldGoesOn ==
  ASSUME NEW s, ListsHeld(s), NEW x \in s.offer, NEW u, offer'[x] = u,
         \A y \in s.offer : y # x => offer'[y] = offer[y], UNCHANGED <<allocations, atAgent>>,
         u.step = offer[x].step, u.details = offer[x].details, u.allocs = offer[x].allocs, u.kept = offer[x].kept
  PROVE  ListsHeld(s)'
<1>1. HeldInTurn(x, offer[x])
  BY DEF ListsHeld
<1>2. HeldInTurn(x, u)'
  BY <1>1 DEF HeldInTurn
<1> QED BY <1>2, HeldMoved

(* A handler that undoes: what the offer carries stays. *)
LEMMA HeldUndone ==
  ASSUME NEW s, ListsHeld(s), NEW x \in s.offer, NEW u, offer'[x] = u,
         \A y \in s.offer : y # x => offer'[y] = offer[y], UNCHANGED <<allocations, atAgent>>,
         u.step \in {"undo", "failed"}, u.details = offer[x].details,
         x \in atAgent => offer[x].step \in {"undo", "failed"} \/ OfferCrossed(offer[x].details)
  PROVE  ListsHeld(s)'
<1>1. HeldInTurn(x, offer[x])
  BY DEF ListsHeld
<1>2. HeldInTurn(x, u)'
  <2>1. /\ u.step \notin {"idle", "alloc", "save"} /\ u.step \notin {"idle", "alloc"}
        /\ x \in atAgent' => OfferCrossed(u.details)
        /\ \A k, j \in 1..Len(u.details) : u.details[k] = u.details[j] => k = j
    BY <1>1 DEF HeldInTurn
  <2> QED BY <2>1 DEF HeldInTurn
<1> QED BY <1>2, HeldMoved

LEMMA HeldReads ==
  ASSUME NEW s, Lists(s, FALSE)!StatusListAssumption, ListsIInv(s), ListsHeld(s), NEW x \in s.offer,
         Lists(s, FALSE)!AllocateRead(x) \/ Lists(s, FALSE)!ReleaseRead(x)
  PROVE  ListsHeld(s)'
<1>t. offer \in [s.offer -> OfferState(s)]
  BY ListsTyped
<1>r. PICK r \in OfferState(s) : r = offer[x]
  BY <1>t
<1>6. UNCHANGED <<allocations, atAgent>>
  BY DEF Lists!AllocateRead, Lists!ReleaseRead
<1>1. ASSUME NEW l, NEW b, offer' = [offer EXCEPT ![x].snap = l, ![x].bits = b]
      PROVE  ListsHeld(s)'
  <2>1. PICK u : u = [r EXCEPT !.snap = l, !.bits = b]
    OBVIOUS
  <2>2. offer'[x] = u /\ \A y \in s.offer : y # x => offer'[y] = offer[y]
    BY <1>1, <1>r, <1>t, <2>1
  <2>3. u.step = r.step /\ u.details = r.details /\ u.allocs = r.allocs /\ u.kept = r.kept
    BY <2>1 DEF OfferState
  <2> QED BY <1>6, <1>r, <2>2, <2>3, HeldGoesOn
<1>2. ASSUME NEW l, NEW f, offer' = [offer EXCEPT ![x].snap = l, ![x].full = f]
      PROVE  ListsHeld(s)'
  <2>1. PICK u : u = [r EXCEPT !.snap = l, !.full = f]
    OBVIOUS
  <2>2. offer'[x] = u /\ \A y \in s.offer : y # x => offer'[y] = offer[y]
    BY <1>2, <1>r, <1>t, <2>1
  <2>3. u.step = r.step /\ u.details = r.details /\ u.allocs = r.allocs /\ u.kept = r.kept
    BY <2>1 DEF OfferState
  <2> QED BY <1>6, <1>r, <2>2, <2>3, HeldGoesOn
<1> QED BY <1>1, <1>2 DEF Lists!AllocateRead, Lists!ReleaseRead

LEMMA HeldAllocates ==
  ASSUME NEW s, Lists(s, FALSE)!StatusListAssumption, ListsIInv(s), ListsInTurn(s)', ListsHeld(s), NEW x \in s.offer,
         Lists(s, FALSE)!AllocateWrite(x)
  PROVE  ListsHeld(s)'
<1>t. offer \in [s.offer -> OfferState(s)]
  BY ListsTyped
<1>1. PICK l \in 1..s.lists, i \in ListIndex(s) \ offer[x].bits, u \in OfferState(s) :
        /\ l = offer[x].snap /\ OfferMove(s, x, u) /\ u.bits = {}
        /\ u.step = "alloc" /\ u.kept = 0 /\ u.details = Append(offer[x].details, <<l, i>>)
        /\ u.allocs = Append(offer[x].allocs, <<l, i>>)
        /\ ListWriting(s, l, offer[x].bits \cup {i}) /\ lists'[l].exists
  BY AllocateWritten
<1>2. offer'[x] = u /\ \A y \in s.offer : y # x => offer'[y] = offer[y]
  BY <1>1, <1>t DEF OfferMove
<1>3. offer[x].step = "alloc" /\ UNCHANGED <<allocations, atAgent>>
  BY DEF Lists!AllocateWrite
<1>4. HeldInTurn(x, offer[x])
  BY DEF ListsHeld
<1>5. u.details = u.allocs /\ x \notin atAgent' /\ offer[x].kept = 0
  BY <1>1, <1>3, <1>4 DEF HeldInTurn
<1>6. \A k, j \in 1..Len(u.details) : u.details[k] = u.details[j] => k = j
  BY <1>2, <1>5 DEF ListsInTurn, SlotsDistinct
<1>7. \A w \in allocations' : w[1] # x
  <2> SUFFICES ASSUME NEW w \in allocations, w[1] = x
               PROVE  FALSE
    BY <1>3
  <2>1. \E k \in 1..offer[x].kept : w[3] = offer[x].details[k][2]
    BY <1>3, <1>4 DEF HeldInTurn
  <2>2. 1..0 = {}
    OBVIOUS
  <2> QED BY <1>5, <2>1, <2>2
<1>8. HeldInTurn(x, u)'
  BY <1>1, <1>5, <1>6, <1>7 DEF HeldInTurn
<1> QED BY <1>2, <1>3, <1>8, HeldMoved

LEMMA HeldReleases ==
  ASSUME NEW s, Lists(s, FALSE)!StatusListAssumption, ListsIInv(s), ListsHeld(s), NEW x \in s.offer,
         \/ Lists(s, FALSE)!ReleaseWrite(x) \/ Lists(s, FALSE)!ReleaseFails(x)
         \/ Lists(s, FALSE)!Undone(x) \/ Lists(s, FALSE)!AllocationFails(x)
  PROVE  ListsHeld(s)'
<1>t. offer \in [s.offer -> OfferState(s)]
  BY ListsTyped
<1>i. Lists(s, FALSE)!Idle = IdleOffer
  BY DEF Lists!Idle, IdleOffer
<1>r. PICK r \in OfferState(s) : r = offer[x]
  BY <1>t
<1>0. UNCHANGED <<allocations, atAgent>>
  BY DEF Lists!ReleaseWrite, Lists!ReleaseFails, Lists!Undone, Lists!AllocationFails
<1>h. HeldInTurn(x, offer[x])
  BY DEF ListsHeld
<1>1. x \in atAgent => offer[x].step \in {"undo", "failed"}
  BY <1>h DEF Lists!ReleaseWrite, Lists!ReleaseFails, Lists!Undone, Lists!AllocationFails, HeldInTurn
<1>2. \E u : /\ offer' = [offer EXCEPT ![x] = u] /\ u.step \in {"undo", "failed"} /\ u.details = r.details
  <2>1. ASSUME NEW a, Lists(s, FALSE)!Undoing(x, a)
        PROVE  \E u : offer' = [offer EXCEPT ![x] = u] /\ u.step \in {"undo", "failed"} /\ u.details = r.details
    <3>1. offer' = [offer EXCEPT ![x] = OfferFresh("undo", r.details, a)]
      BY <1>i, <1>r, <2>1 DEF Lists!Undoing, OfferFresh
    <3>2. OfferFresh("undo", r.details, a).step = "undo" /\ OfferFresh("undo", r.details, a).details = r.details
      BY DEF OfferFresh, IdleOffer
    <3> QED BY <3>1, <3>2
  <2>2. CASE Lists(s, FALSE)!Undone(x)
    <3>1. PICK u : u = [r EXCEPT !.step = "failed"]
      OBVIOUS
    <3>2. u.step = "failed" /\ u.details = r.details
      BY <3>1 DEF OfferState
    <3>3. offer' = [offer EXCEPT ![x] = u]
      BY <1>r, <2>2, <3>1 DEF Lists!Undone
    <3> QED BY <3>2, <3>3
  <2> QED BY <2>1, <2>2 DEF Lists!ReleaseWrite, Lists!ReleaseFails, Lists!AllocationFails, Lists!Fail
<1>3. PICK u : offer' = [offer EXCEPT ![x] = u] /\ u.step \in {"undo", "failed"} /\ u.details = r.details
  BY <1>2
<1>4. offer'[x] = u /\ \A y \in s.offer : y # x => offer'[y] = offer[y]
  BY <1>3, <1>t
<1> QED BY <1>0, <1>1, <1>3, <1>4, <1>r, HeldUndone

LEMMA HeldOffers ==
  ASSUME NEW s, Lists(s, FALSE)!StatusListAssumption, ListsIInv(s), ListsHeld(s), NEW x \in s.offer,
         \/ \E n \in 0..s.credentials : Lists(s, FALSE)!CreateOffer(x, n) \/ Lists(s, FALSE)!CreateOfferD2A(x, n)
         \/ Lists(s, FALSE)!OfferAtAgent(x)
  PROVE  ListsHeld(s)'
<1>t. offer \in [s.offer -> OfferState(s)]
  BY ListsTyped
<1>i. Lists(s, FALSE)!Idle = IdleOffer
  BY DEF Lists!Idle, IdleOffer
<1>r. PICK r \in OfferState(s) : r = offer[x]
  BY <1>t
<1>0. UNCHANGED allocations
  BY DEF Lists!CreateOffer, Lists!CreateOfferD2A, Lists!OfferAtAgent
<1>h. HeldInTurn(x, r)
  BY <1>r DEF ListsHeld
<1>1. ASSUME NEW n, Lists(s, FALSE)!CreateOffer(x, n) \/ Lists(s, FALSE)!CreateOfferD2A(x, n)
      PROVE  ListsHeld(s)'
  <2>1. r.step = "idle" /\ offer' = [offer EXCEPT ![x].step = "alloc", ![x].need = n] /\ UNCHANGED atAgent
    BY <1>1, <1>r DEF Lists!CreateOffer, Lists!CreateOfferD2A
  <2>2. PICK u : u = [r EXCEPT !.step = "alloc", !.need = n]
    OBVIOUS
  <2>3. u.step = "alloc" /\ u.details = r.details /\ u.allocs = r.allocs /\ u.kept = r.kept
    BY <2>2 DEF OfferState
  <2>4. offer'[x] = u /\ \A y \in s.offer : y # x => offer'[y] = offer[y]
    BY <1>r, <1>t, <2>1, <2>2
  <2>5. HeldInTurn(x, u)'
    BY <1>0, <1>h, <2>1, <2>3 DEF HeldInTurn
  <2> QED BY <1>0, <2>1, <2>4, <2>5, HeldMoved
<1>2. CASE Lists(s, FALSE)!OfferAtAgent(x)
  <2>0. r.step = "alloc"
    BY <1>2, <1>r DEF Lists!OfferAtAgent
  <2>1. CASE UNCHANGED atAgent /\ Lists(s, FALSE)!Fail(x)
    <3>1. PICK u : u = OfferFresh("undo", r.details, r.allocs)
      OBVIOUS
    <3>2. offer' = [offer EXCEPT ![x] = u]
      BY <1>i, <1>r, <2>1, <3>1 DEF Lists!Fail, Lists!Undoing, OfferFresh
    <3>3. u.step = "undo" /\ u.details = r.details
      BY <3>1 DEF OfferFresh, IdleOffer
    <3>4. offer'[x] = u /\ \A y \in s.offer : y # x => offer'[y] = offer[y]
      BY <1>t, <3>2
    <3>5. x \notin atAgent
      BY <1>h, <2>0 DEF HeldInTurn
    <3> QED BY <1>0, <1>r, <2>1, <3>3, <3>4, <3>5, HeldUndone
  <2>2. ASSUME NEW st \in {"save", "unnamed"}, offer' = [offer EXCEPT ![x].step = st], atAgent' = atAgent \cup {x}
        PROVE  ListsHeld(s)'
    <3>1. PICK u : u = [r EXCEPT !.step = st]
      OBVIOUS
    <3>2. u.step = st /\ u.details = r.details /\ u.allocs = r.allocs /\ u.kept = r.kept
      BY <3>1 DEF OfferState
    <3>3. offer'[x] = u /\ \A y \in s.offer : y # x => offer'[y] = offer[y]
      BY <1>r, <1>t, <2>2, <3>1
    <3>4. HeldInTurn(x, u)'
      BY <1>0, <1>h, <2>0, <2>2, <3>2 DEF HeldInTurn
    <3> QED BY <1>0, <2>2, <3>3, <3>4, HeldMoved
  <2> QED BY <1>2, <2>1, <2>2 DEF Lists!OfferAtAgent
<1> QED BY <1>1, <1>2

(* A save is refused only when another credential of the offer has the     *)
(* index in another list.                                                  *)
LEMMA HeldSaves ==
  ASSUME NEW s, Lists(s, FALSE)!StatusListAssumption, ListsIInv(s), ListsHeld(s), NEW x \in s.offer,
         Lists(s, FALSE)!SaveCredentialAllocation(x)
  PROVE  ListsHeld(s)'
<1>t. offer \in [s.offer -> OfferState(s)] /\ OfferReady(x, offer[x])
  BY ListsTyped
<1>i. Lists(s, FALSE)!Idle = IdleOffer
  BY DEF Lists!Idle, IdleOffer
<1>r. PICK r \in OfferState(s) : r = offer[x]
  BY <1>t
<1>a. r.details \in Seq(ListSlot(s)) /\ r.kept \in Nat /\ Len(r.details) \in Nat
  BY DEF OfferState
<1>h. HeldInTurn(x, r)
  BY <1>r DEF ListsHeld
<1>0. r.step = "save" /\ UNCHANGED atAgent
  BY <1>r DEF Lists!SaveCredentialAllocation
<1>1. CASE offer' = [offer EXCEPT ![x].step = "done"] /\ UNCHANGED allocations
  <2>1. PICK u : u = [r EXCEPT !.step = "done"]
    OBVIOUS
  <2>2. u.step = "done" /\ u.details = r.details /\ u.allocs = r.allocs /\ u.kept = r.kept
    BY <2>1 DEF OfferState
  <2>3. offer'[x] = u /\ \A y \in s.offer : y # x => offer'[y] = offer[y]
    BY <1>1, <1>r, <1>t, <2>1
  <2>4. HeldInTurn(x, u)'
    BY <1>0, <1>1, <1>h, <2>2 DEF HeldInTurn
  <2> QED BY <1>0, <1>1, <2>3, <2>4, HeldMoved
<1>2. CASE /\ r.kept + 1 <= Len(r.details) /\ offer' = [offer EXCEPT ![x].kept = r.kept + 1]
           /\ allocations' = allocations \cup {<<x, r.details[r.kept + 1][1], r.details[r.kept + 1][2]>>}
  <2>k. PICK k \in Nat : k = r.kept + 1
    BY <1>a
  <2>1. PICK u : u = OfferKeeping(r, k)
    OBVIOUS
  <2>2. u.step = "save" /\ u.details = r.details /\ u.allocs = r.allocs /\ u.kept = k
    BY <1>0, <2>1, OfferKeeps
  <2>3. offer'[x] = u /\ \A y \in s.offer : y # x => offer'[y] = offer[y]
    BY <1>2, <1>r, <1>t, <2>1, <2>k DEF OfferKeeping
  <2>w. PICK v : v = <<x, r.details[k][1], r.details[k][2]>>
    OBVIOUS
  <2>4. v[1] = x /\ v[3] = r.details[k][2] /\ allocations' = allocations \cup {v}
    BY <1>2, <2>k, <2>w
  <2>5. \A w \in allocations' : w[1] = x => \E j \in 1..k : w[3] = r.details[j][2]
    <3> SUFFICES ASSUME NEW w \in allocations', w[1] = x
                 PROVE  \E j \in 1..k : w[3] = r.details[j][2]
      OBVIOUS
    <3>1. CASE w = v
      <4>1. k \in 1..k
        BY <2>k, <1>a
      <4> QED BY <2>4, <3>1, <4>1
    <3>2. CASE w \in allocations
      <4>1. PICK j \in 1..r.kept : w[3] = r.details[j][2]
        BY <1>0, <1>h, <3>2 DEF HeldInTurn
      <4>2. j \in 1..k
        BY <1>a, <2>k
      <4> QED BY <4>1, <4>2
    <3> QED BY <2>4, <3>1, <3>2
  <2>6. HeldInTurn(x, u)'
    BY <1>0, <1>h, <2>2, <2>5 DEF HeldInTurn
  <2> QED BY <1>0, <2>3, <2>4, <2>6, HeldMoved
<1>3. CASE /\ r.kept + 1 <= Len(r.details) /\ Lists(s, FALSE)!CredentialIdTaken(x, r.details[r.kept + 1][2])
           /\ Lists(s, FALSE)!Fail(x) /\ UNCHANGED allocations
  <2>k. PICK k \in 1..Len(r.details) : k = r.kept + 1
    BY <1>3, <1>a
  <2>1. PICK w \in allocations : w[1] = x /\ w[3] = r.details[k][2]
    BY <1>3, <2>k DEF Lists!CredentialIdTaken
  <2>2. PICK j \in 1..r.kept : w[3] = r.details[j][2]
    BY <1>0, <1>h, <2>1 DEF HeldInTurn
  <2>3. j \in DOMAIN r.details /\ k \in DOMAIN r.details /\ j < k
    BY <1>a, <2>k
  <2>4. OfferCrossed(r.details)
    BY <2>1, <2>2, <2>3 DEF OfferCrossed
  <2>5. PICK u : u = OfferFresh("undo", r.details, r.allocs)
    OBVIOUS
  <2>6. offer' = [offer EXCEPT ![x] = u]
    BY <1>3, <1>i, <1>r, <2>5 DEF Lists!Fail, Lists!Undoing, OfferFresh
  <2>7. u.step = "undo" /\ u.details = r.details
    BY <2>5 DEF OfferFresh, IdleOffer
  <2>8. offer'[x] = u /\ \A y \in s.offer : y # x => offer'[y] = offer[y]
    BY <1>t, <2>6
  <2> QED BY <1>0, <1>3, <1>r, <2>4, <2>7, <2>8, HeldUndone
<1> QED BY <1>1, <1>2, <1>3, <1>r DEF Lists!SaveCredentialAllocation

LEMMA ListsHeldKept ==
  ASSUME NEW s, Lists(s, FALSE)!StatusListAssumption, ListsIInv(s), ListsInTurn(s)', ListsHeld(s), Lists(s, FALSE)!Next
  PROVE  ListsHeld(s)'
<1> SUFFICES ASSUME NEW x \in s.offer,
               \/ \E n \in 0..s.credentials : Lists(s, FALSE)!CreateOffer(x, n) \/ Lists(s, FALSE)!CreateOfferD2A(x, n)
               \/ Lists(s, FALSE)!AllocateRead(x) \/ Lists(s, FALSE)!AllocateWrite(x) \/ Lists(s, FALSE)!AllocationFails(x)
               \/ Lists(s, FALSE)!OfferAtAgent(x) \/ Lists(s, FALSE)!SaveCredentialAllocation(x)
               \/ Lists(s, FALSE)!ReleaseRead(x) \/ Lists(s, FALSE)!ReleaseWrite(x) \/ Lists(s, FALSE)!ReleaseFails(x)
               \/ Lists(s, FALSE)!Undone(x)
               \/ Lists(s, FALSE)!DeleteCredentialOffer(x) \/ Lists(s, FALSE)!RevokeCredential(x)
             PROVE  ListsHeld(s)'
  BY DEF Lists!Next
<1>1. CASE Lists(s, FALSE)!AllocateRead(x) \/ Lists(s, FALSE)!ReleaseRead(x)
  BY <1>1, HeldReads
<1>2. CASE Lists(s, FALSE)!AllocateWrite(x)
  BY <1>2, HeldAllocates
<1>3. CASE \/ Lists(s, FALSE)!ReleaseWrite(x) \/ Lists(s, FALSE)!ReleaseFails(x)
           \/ Lists(s, FALSE)!Undone(x) \/ Lists(s, FALSE)!AllocationFails(x)
  BY <1>3, HeldReleases
<1>4. CASE \/ \E n \in 0..s.credentials : Lists(s, FALSE)!CreateOffer(x, n) \/ Lists(s, FALSE)!CreateOfferD2A(x, n)
           \/ Lists(s, FALSE)!OfferAtAgent(x)
  BY <1>4, HeldOffers
<1>5. CASE Lists(s, FALSE)!SaveCredentialAllocation(x)
  BY <1>5, HeldSaves
<1>6. CASE Lists(s, FALSE)!DeleteCredentialOffer(x) \/ Lists(s, FALSE)!RevokeCredential(x)
  <2>1. UNCHANGED <<offer, allocations>> /\ atAgent' \subseteq atAgent
    BY <1>6 DEF Lists!DeleteCredentialOffer, Lists!RevokeCredential
  <2> QED BY <2>1 DEF ListsHeld, HeldInTurn
<1> QED BY <1>1, <1>2, <1>3, <1>4, <1>5, <1>6

LEMMA ListsHeldBegin ==
  ASSUME NEW s, Lists(s, FALSE)!StatusListAssumption, Lists(s, FALSE)!Init
  PROVE  ListsHeld(s)
<1>1. offer = [x \in s.offer |-> IdleOffer] /\ allocations = {} /\ atAgent = {}
  BY DEF Lists!Init, Lists!Idle, IdleOffer
<1>2. IdleOffer.details = IdleOffer.allocs /\ IdleOffer.kept = 0 /\ Len(IdleOffer.details) = 0 /\ IdleOffer.step = "idle"
  BY DEF IdleOffer
<1> HIDE DEF IdleOffer
<1>3. 1..0 = {} /\ \A x \in s.offer : offer[x] = IdleOffer
  BY <1>1
<1> QED BY <1>1, <1>2, <1>3 DEF ListsHeld, HeldInTurn

LEMMA InTurnUnique ==
  ASSUME NEW s, Lists(s, FALSE)!StatusListAssumption, ListsIInv(s), ListsInTurn(s), ListsHeld(s)
  PROVE  Lists(s, FALSE)!IndexUnique
<1>t. \A y \in s.offer : offer[y].details \in Seq(ListSlot(s)) /\ offer[y].allocs \in Seq(ListSlot(s))
  <2>1. offer \in [s.offer -> OfferState(s)]
    BY DEF ListsIInv
  <2> QED BY <2>1 DEF OfferState
<1>d. \A y \in s.offer : DOMAIN offer[y].details = 1..Len(offer[y].details)
  BY <1>t
<1>0. \A y \in s.offer : \A a \in Lists(s, FALSE)!Allocated(y) : \E k \in 1..Len(offer[y].details) : a = offer[y].details[k]
  BY <1>d DEF Lists!Allocated
<1>l. ASSUME NEW y \in s.offer, Lists(s, FALSE)!Live(y), ~Lists(s, FALSE)!Crossed(y)
      PROVE  offer[y].details = offer[y].allocs
  <2>1. HeldInTurn(y, offer[y])
    BY DEF ListsHeld
  <2>2. ~OfferCrossed(offer[y].details)
    BY <1>l DEF OfferCrossed, Lists!Crossed
  <2> QED BY <1>l, <2>1, <2>2 DEF HeldInTurn, Lists!Live
<1>1. ASSUME NEW y \in s.offer, NEW z \in s.offer, y # z, Lists(s, FALSE)!Live(y), Lists(s, FALSE)!Live(z),
             ~Lists(s, FALSE)!Crossed(y), ~Lists(s, FALSE)!Crossed(z)
      PROVE  Lists(s, FALSE)!Allocated(y) \cap Lists(s, FALSE)!Allocated(z) = {}
  <2> SUFFICES ASSUME NEW a, a \in Lists(s, FALSE)!Allocated(y), a \in Lists(s, FALSE)!Allocated(z)
               PROVE  FALSE
    OBVIOUS
  <2>0. offer[y].details = offer[y].allocs /\ offer[z].details = offer[z].allocs
    BY <1>1, <1>l
  <2>1. PICK k \in 1..Len(offer[y].allocs) : a = offer[y].allocs[k]
    <3>1. PICK k \in 1..Len(offer[y].details) : a = offer[y].details[k]
      BY <1>0
    <3> QED BY <2>0, <3>1
  <2>2. PICK j \in 1..Len(offer[z].allocs) : a = offer[z].allocs[j]
    <3>1. PICK j \in 1..Len(offer[z].details) : a = offer[z].details[j]
      BY <1>0
    <3> QED BY <2>0, <3>1
  <2> QED BY <1>1, <2>1, <2>2 DEF ListsInTurn, SlotsDistinct
<1>2. ASSUME NEW y \in s.offer, Lists(s, FALSE)!Live(y), ~Lists(s, FALSE)!Crossed(y), NEW a \in Lists(s, FALSE)!Allocated(y)
      PROVE  a[2] \in lists[a[1]].bits
  <2>0. offer[y].details = offer[y].allocs
    BY <1>2, <1>l
  <2>1. PICK k \in 1..Len(offer[y].allocs) : a = offer[y].allocs[k]
    <3>1. PICK k \in 1..Len(offer[y].details) : a = offer[y].details[k]
      BY <1>0
    <3> QED BY <2>0, <3>1
  <2>2. SlotsSet(offer[y])
    BY DEF ListsInTurn
  <2> QED BY <2>1, <2>2 DEF SlotsSet
<1>3. \A y \in s.offer : Cardinality(Lists(s, FALSE)!Allocated(y)) = Len(offer[y].details)
  <2> SUFFICES ASSUME NEW y \in s.offer
               PROVE  Cardinality(Lists(s, FALSE)!Allocated(y)) = Len(offer[y].details)
    OBVIOUS
  <2>1. PICK a \in Seq(ListSlot(s)) : a = offer[y].details
    BY <1>t
  <2>2. PICK n \in Nat : n = Len(a)
    OBVIOUS
  <2>3. PICK T : T = Lists(s, FALSE)!Allocated(y)
    OBVIOUS
  <2>d. DOMAIN a = 1..n
    BY <2>2
  <2>4. T = {a[k] : k \in 1..n}
    BY <2>1, <2>d, <2>3 DEF Lists!Allocated
  <2>5. a \in [1..n -> T] /\ \A t \in T : \E k \in 1..n : a[k] = t
    BY <2>2, <2>4
  <2>6. \A k, j \in 1..n : a[k] = a[j] => k = j
    BY <2>1, <2>2 DEF ListsHeld, HeldInTurn
  <2>7. a \in Surjection(1..n, T) /\ a \in Injection(1..n, T)
    BY <2>5, <2>6 DEF Surjection, Injection, IsInjective
  <2>8. IsFiniteSet(1..n) /\ Cardinality(1..n) = n
    BY FS_Interval
  <2>9. Cardinality(T) = Cardinality(1..n)
    BY <2>7, <2>8, FS_Surjection
  <2> QED BY <2>1, <2>2, <2>3, <2>8, <2>9
<1> QED BY <1>1, <1>2, <1>3, ListsCardinality DEF Lists!IndexUnique

-----------------------------------------------------------------------------
(* x509: certificates of an organization.                                  *)

CertTime(s) == 0..s.time
CertStatus == {"Active", "PendingActivation", "InActive"}
CertRow(s) == [cert : 1..s.requests, key : s.key, from : CertTime(s), to : CertTime(s), status : CertStatus]
CertSession(s) == [cert : 1..s.requests, key : s.key, at : CertTime(s)]

(* A row can stand for a session of the key type k that chose the          *)
(* certificate c at t: rows are never removed, and keep their period.      *)
CertListed(c, k, t) ==
  \E i \in 1..Len(certs) : certs[i].cert = c /\ certs[i].key = k /\ certs[i].from <= t /\ t <= certs[i].to

CertRequest(s, r) ==
  /\ r.op \in {"decode", "pending", "agent", "insert", "update", "session"}
  /\ r.op \in {"decode", "pending", "agent", "insert"} => r.row \in CertRow(s)
  /\ r.op = "decode" => r.row.status = "Active"
  /\ r.op = "insert" => r.row.cert \in keys
  /\ r.op = "update" => r.row \in 1..Len(certs) /\ r.status \in CertStatus
  /\ r.op = "session" => r.cert \in 1..s.requests /\ r.key \in s.key /\ r.at \in CertTime(s) /\ CertListed(r.cert, r.key, r.at)

CertsIInv(s) ==
  /\ certs \in Seq(CertRow(s)) /\ keys \subseteq 1..s.requests /\ now \in CertTime(s)
  /\ signed \subseteq CertSession(s)
  /\ started \in 0..s.requests /\ faults \in 0..s.faults
  /\ \A i \in 1..Len(certs) : certs[i].cert \in keys
  /\ \A x \in signed : CertListed(x.cert, x.key, x.at)
  /\ \A r \in pend : CertRequest(s, r)

LEMMA CertsUnfolded ==
  ASSUME NEW s, NEW o \in BOOLEAN, Certs(s, o)!CertificatesAssumption
  PROVE  /\ s.time \in Nat /\ s.requests \in Nat /\ s.faults \in Nat
         /\ Certs(s, o)!Time = CertTime(s) /\ Certs(s, o)!Status = CertStatus /\ Certs(s, o)!Row = CertRow(s)
BY DEF Certs!CertificatesAssumption, Certs!Time, Certs!Status, Certs!Row, CertTime, CertStatus, CertRow

LEMMA CertsTyped ==
  ASSUME NEW s, CertsIInv(s)
  PROVE  /\ certs \in Seq(CertRow(s)) /\ Len(certs) \in Nat /\ DOMAIN certs = 1..Len(certs)
         /\ \A i \in 1..Len(certs) :
              /\ certs[i] \in CertRow(s) /\ certs[i].cert \in 1..s.requests /\ certs[i].key \in s.key
              /\ certs[i].from \in CertTime(s) /\ certs[i].to \in CertTime(s) /\ certs[i].status \in CertStatus
<1>1. certs \in Seq(CertRow(s))
  BY DEF CertsIInv
<1>2. Len(certs) \in Nat /\ DOMAIN certs = 1..Len(certs) /\ \A i \in 1..Len(certs) : certs[i] \in CertRow(s)
  BY <1>1
<1> QED BY <1>1, <1>2 DEF CertRow

(* A row is added; the status of a row changes.                            *)
LEMMA CertAppended ==
  ASSUME NEW s, NEW c \in Seq(CertRow(s)), NEW r \in CertRow(s), NEW d, d = Append(c, r)
  PROVE  /\ d \in Seq(CertRow(s)) /\ Len(c) \in Nat /\ Len(d) = Len(c) + 1 /\ d[Len(d)] = r
         /\ \A i \in 1..Len(c) : i \in 1..Len(d) /\ d[i] = c[i]
         /\ \A i \in 1..Len(d) : i = Len(d) \/ i \in 1..Len(c)
OBVIOUS

LEMMA CertUpdated ==
  ASSUME NEW s, NEW c \in Seq(CertRow(s)), NEW n \in 1..Len(c), NEW t \in CertStatus,
         NEW d, d = [c EXCEPT ![n].status = t]
  PROVE  /\ d \in Seq(CertRow(s)) /\ Len(d) = Len(c)
         /\ \A i \in 1..Len(c) :
              /\ d[i].cert = c[i].cert /\ d[i].key = c[i].key /\ d[i].from = c[i].from /\ d[i].to = c[i].to
              /\ i # n => d[i] = c[i]
         /\ d[n].status = t
<1>1. PICK r \in CertRow(s) : r = c[n]
  OBVIOUS
<1>2. PICK u : u = [r EXCEPT !.status = t]
  OBVIOUS
<1>3. u \in CertRow(s) /\ u.cert = r.cert /\ u.key = r.key /\ u.from = r.from /\ u.to = r.to /\ u.status = t
  <2> DEFINE A == 1..s.requests
             B == CertTime(s)
  <2>1. r \in [cert : A, key : s.key, from : B, to : B, status : CertStatus]
    BY DEF CertRow
  <2> HIDE DEF A, B
  <2>2. u \in [cert : A, key : s.key, from : B, to : B, status : CertStatus]
    BY <1>2, <2>1
  <2>3. u \in CertRow(s)
    BY <2>2 DEF A, B, CertRow
  <2> QED BY <1>2, <2>1, <2>3
<1>4. d = [c EXCEPT ![n] = u]
  BY <1>1, <1>2
<1>5. d \in Seq(CertRow(s)) /\ Len(d) = Len(c) /\ d[n] = u /\ \A i \in 1..Len(c) : i # n => d[i] = c[i]
  BY <1>3, <1>4
<1> QED BY <1>1, <1>3, <1>5

(* A session stays accounted for while rows only come.                     *)
LEMMA CertsListedStill ==
  ASSUME NEW s, CertsIInv(s), Len(certs') \in Nat, Len(certs) <= Len(certs'),
         \A i \in 1..Len(certs) : /\ certs'[i].cert = certs[i].cert /\ certs'[i].key = certs[i].key
                                  /\ certs'[i].from = certs[i].from /\ certs'[i].to = certs[i].to,
         NEW c, NEW k, NEW t, CertListed(c, k, t)
  PROVE  \E i \in 1..Len(certs') :
           certs'[i].cert = c /\ certs'[i].key = k /\ certs'[i].from <= t /\ t <= certs'[i].to
<1>1. PICK i \in 1..Len(certs) : certs[i].cert = c /\ certs[i].key = k /\ certs[i].from <= t /\ t <= certs[i].to
  BY DEF CertListed
<1>2. i \in 1..Len(certs')
  BY CertsTyped
<1> QED BY <1>1, <1>2

(* Of some rows one is the newest.                                         *)
LEMMA NewestExists ==
  ASSUME NEW n \in Nat, NEW C \in SUBSET (1..n), C # {}
  PROVE  \E i \in C : \A j \in C : j <= i
<1> DEFINE D == {m \in Nat : n - m \in C}
<1>1. D \subseteq Nat /\ D # {}
  <2>1. PICK i \in C : TRUE
    OBVIOUS
  <2>2. n - i \in Nat /\ n - (n - i) = i
    OBVIOUS
  <2> QED BY <2>2
<1>2. PICK x \in D : \A y \in D : ~(<<y, x>> \in OpToRel(<, Nat))
  BY <1>1, NatLessThanWellFounded, WFMin
<1>3. \A y \in D : ~(y < x)
  BY <1>2 DEF OpToRel
<1>4. ASSUME NEW j \in C
      PROVE  j <= n - x
  <2>1. n - j \in Nat /\ n - (n - j) = j
    OBVIOUS
  <2>2. n - j \in D
    BY <2>1
  <2> QED BY <1>3, <2>1, <2>2
<1> QED BY <1>4

LEMMA CertsMoved ==
  ASSUME NEW s, s.time \in Nat, CertsIInv(s),
         certs' \in Seq(CertRow(s)), Len(certs) <= Len(certs'),
         \A i \in 1..Len(certs) : /\ certs'[i].cert = certs[i].cert /\ certs'[i].key = certs[i].key
                                  /\ certs'[i].from = certs[i].from /\ certs'[i].to = certs[i].to,
         keys \subseteq keys', keys' \subseteq 1..s.requests, now' \in CertTime(s), now <= now',
         signed' \subseteq CertSession(s), started' \in 0..s.requests, faults' \in 0..s.faults,
         \A i \in 1..Len(certs') : certs'[i].cert \in keys',
         \A x \in signed' : x \in signed \/ CertListed(x.cert, x.key, x.at)',
         \A r \in pend' : r \in pend \/ CertRequest(s, r)'
  PROVE  CertsIInv(s)'
<1>t. Len(certs') \in Nat /\ Len(certs) \in Nat /\ now \in Nat /\ now' \in Nat
  BY CertsTyped DEF CertTime, CertsIInv
<1>1. \A x \in signed' : CertListed(x.cert, x.key, x.at)'
  <2> SUFFICES ASSUME NEW x \in signed', x \in signed
               PROVE  CertListed(x.cert, x.key, x.at)'
    OBVIOUS
  <2>1. PICK c, k, t : c = x.cert /\ k = x.key /\ t = x.at
    OBVIOUS
  <2>2. CertListed(c, k, t)
    BY <2>1 DEF CertsIInv
  <2>3. \E i \in 1..Len(certs') :
          certs'[i].cert = c /\ certs'[i].key = k /\ certs'[i].from <= t /\ t <= certs'[i].to
    BY <1>t, <2>2, CertsListedStill
  <2> QED BY <2>1, <2>3 DEF CertListed
<1>2. \A r \in pend' : CertRequest(s, r)'
  <2> SUFFICES ASSUME NEW r \in pend', r \in pend
               PROVE  CertRequest(s, r)'
    OBVIOUS
  <2>1. CertRequest(s, r)
    BY DEF CertsIInv
  <2>2. PICK c, k, t : c = r.cert /\ k = r.key /\ t = r.at
    OBVIOUS
  <2>3. CertListed(c, k, t) => CertListed(c, k, t)'
    <3>1. CertListed(c, k, t) => \E i \in 1..Len(certs') :
            certs'[i].cert = c /\ certs'[i].key = k /\ certs'[i].from <= t /\ t <= certs'[i].to
      BY <1>t, CertsListedStill
    <3> QED BY <3>1 DEF CertListed
  <2>4. \A i \in 1..Len(certs) : i \in 1..Len(certs')
    BY <1>t
  <2> QED BY <2>1, <2>2, <2>3, <2>4 DEF CertRequest
<1> QED BY <1>1, <1>2 DEF CertsIInv

(* The rows, the keys, the time and the sessions stay.                     *)
LEMMA CertsWaiting ==
  ASSUME NEW s, s.time \in Nat, CertsIInv(s), UNCHANGED <<certs, keys, now, signed>>,
         started' \in 0..s.requests, faults' \in 0..s.faults,
         \A r \in pend' : r \in pend \/ CertRequest(s, r)
  PROVE  CertsIInv(s)'
<1>1. \A r \in pend' : r \in pend \/ CertRequest(s, r)'
  BY DEF CertRequest, CertListed
<1>2. /\ certs' \in Seq(CertRow(s)) /\ keys' \subseteq 1..s.requests /\ now' \in CertTime(s) /\ now <= now'
      /\ signed' \subseteq CertSession(s) /\ \A i \in 1..Len(certs') : certs'[i].cert \in keys'
  BY DEF CertsIInv, CertTime
<1> QED BY <1>1, <1>2, CertsTyped, CertsMoved

LEMMA CertsFaulted ==
  ASSUME NEW s, NEW o \in BOOLEAN, Certs(s, o)!CertificatesAssumption, CertsIInv(s),
         UNCHANGED faults \/ Certs(s, o)!Fault
  PROVE  faults' \in 0..s.faults
BY CertsUnfolded DEF Certs!Fault, CertsIInv

LEMMA CertsStarted ==
  ASSUME NEW s, NEW o \in BOOLEAN, Certs(s, o)!CertificatesAssumption, CertsIInv(s), NEW q, Certs(s, o)!Begin(q)
  PROVE  started + 1 \in 1..s.requests /\ started' \in 0..s.requests /\ pend' = pend \cup {q}
BY CertsUnfolded DEF Certs!Begin, CertsIInv

(* Handlers that begin.                                                    *)
LEMMA CertsBeginKept ==
  ASSUME NEW s, NEW o \in BOOLEAN, Certs(s, o)!CertificatesAssumption, CertsIInv(s), NEW q, Certs(s, o)!Begin(q),
         UNCHANGED <<certs, keys, now, signed, faults>>, CertRequest(s, q)
  PROVE  CertsIInv(s)'
<1>1. faults' \in 0..s.faults
  BY DEF CertsIInv
<1> QED BY <1>1, CertsStarted, CertsUnfolded, CertsWaiting

LEMMA CertNew ==
  ASSUME NEW s, NEW o \in BOOLEAN, Certs(s, o)!CertificatesAssumption, started + 1 \in 1..s.requests,
         NEW k \in s.key, NEW f \in CertTime(s), NEW t \in CertTime(s)
  PROVE  Certs(s, o)!New(k, f, t) \in CertRow(s) /\ Certs(s, o)!New(k, f, t).status = "Active"
BY DEF Certs!New, CertRow, CertStatus

(* createCertificate and importCertificate compare the period with those   *)
(* of the active rows.                                                     *)
LEMMA CertChecked ==
  ASSUME NEW s, NEW o \in BOOLEAN, CertsIInv(s), NEW w \in CertRow(s)
  PROVE  /\ CertRequest(s, Certs(s, o)!Checked(w)) /\ Certs(s, o)!Checked(w).row = w
         /\ \/ /\ Certs(s, o)!Checked(w).op = "agent"
               /\ Certs(s, o)!Collisions("Active", w.key, w.from, w.to, 0) = {}
            \/ Certs(s, o)!Checked(w).op = "pending"
<1> DEFINE A == Certs(s, o)!Collisions("Active", w.key, w.from, w.to, 0) = {}
           q == [op |-> IF A THEN "agent" ELSE "pending", row |-> w]
<1>1. Certs(s, o)!Checked(w) = q
  BY DEF Certs!Checked
<1>2. q.row = w /\ ((A /\ q.op = "agent") \/ q.op = "pending")
  OBVIOUS
<1> HIDE DEF A, q
<1>3. CertRequest(s, q)
  BY <1>2 DEF CertRequest
<1> QED BY <1>1, <1>2, <1>3 DEF A

LEMMA CertsRequested ==
  ASSUME NEW s, NEW o \in BOOLEAN, Certs(s, o)!CertificatesAssumption, CertsIInv(s), NEW k \in s.key,
         \/ \E f, t \in CertTime(s) : Certs(s, o)!CreateCertificate(k, f, t) \/ Certs(s, o)!ImportCertificate(k, f, t)
         \/ Certs(s, o)!CreateVerificationSession(k)
  PROVE  CertsIInv(s)'
<1>1. ASSUME NEW f \in CertTime(s), NEW t \in CertTime(s), Certs(s, o)!CreateCertificate(k, f, t)
      PROVE  CertsIInv(s)'
  <2>1. PICK w : w = Certs(s, o)!New(k, f, t)
    OBVIOUS
  <2>2. /\ Certs(s, o)!Begin(Certs(s, o)!Checked(w)) /\ UNCHANGED <<certs, keys, now, signed, faults>>
    BY <1>1, <2>1 DEF Certs!CreateCertificate
  <2>3. w \in CertRow(s)
    BY <2>1, <2>2, CertsStarted, CertNew
  <2> QED BY <2>2, <2>3, CertChecked, CertsBeginKept
<1>2. ASSUME NEW f \in CertTime(s), NEW t \in CertTime(s), Certs(s, o)!ImportCertificate(k, f, t)
      PROVE  CertsIInv(s)'
  <2>1. PICK w : w = Certs(s, o)!New(k, f, t)
    OBVIOUS
  <2> DEFINE q == [op |-> "decode", row |-> w]
  <2>2. /\ Certs(s, o)!Begin(q) /\ UNCHANGED <<certs, keys, now, signed, faults>>
    BY <1>2, <2>1 DEF Certs!ImportCertificate
  <2>3. w \in CertRow(s) /\ w.status = "Active"
    BY <2>1, <2>2, CertsStarted, CertNew
  <2>4. CertRequest(s, q)
    BY <2>3 DEF CertRequest
  <2> QED BY <2>2, <2>4, CertsBeginKept
<1>3. ASSUME Certs(s, o)!CreateVerificationSession(k)
      PROVE  CertsIInv(s)'
  <2> DEFINE C == Certs(s, o)!CurrentActiveCertificates(k)
  <2>0. PICK n : n = CHOOSE i \in C : \A j \in C : j <= i
    OBVIOUS
  <2>1. PICK c, t : c = certs[n].cert /\ t = now
    OBVIOUS
  <2> DEFINE q == [op |-> "session", cert |-> c, key |-> k, at |-> t]
  <2>2. C # {} /\ Certs(s, o)!Begin(q) /\ UNCHANGED <<certs, keys, now, signed, faults>>
    BY <1>3, <2>0, <2>1 DEF Certs!CreateVerificationSession
  <2>3. n \in C
    <3>1. C \in SUBSET (1..Len(certs)) /\ Len(certs) \in Nat
      BY CertsTyped DEF Certs!CurrentActiveCertificates
    <3> HIDE DEF C
    <3>2. \E i \in C : \A j \in C : j <= i
      BY <2>2, <3>1, NewestExists
    <3> QED BY <2>0, <3>2
  <2>4. /\ n \in 1..Len(certs) /\ certs[n].key = k /\ certs[n].from <= t /\ t <= certs[n].to
        /\ certs[n].cert \in 1..s.requests /\ t \in CertTime(s)
    BY <2>1, <2>3, CertsTyped DEF CertsIInv, Certs!CurrentActiveCertificates
  <2>5. CertRequest(s, q)
    BY <2>1, <2>4 DEF CertRequest, CertListed
  <2> QED BY <2>2, <2>5, CertsBeginKept
<1> QED BY <1>1, <1>2, <1>3

LEMMA CertsAsked ==
  ASSUME NEW s, NEW o \in BOOLEAN, Certs(s, o)!CertificatesAssumption, CertsIInv(s), NEW i \in DOMAIN certs,
         Certs(s, o)!ActivateCertificate(i) \/ Certs(s, o)!DeActivateCertificate(i)
  PROVE  CertsIInv(s)'
<1>1. PICK t \in {"Active", "InActive"} :
        /\ Certs(s, o)!Begin([op |-> "update", row |-> i, status |-> t])
        /\ UNCHANGED <<certs, keys, now, signed, faults>>
  BY DEF Certs!ActivateCertificate, Certs!DeActivateCertificate
<1> DEFINE q == [op |-> "update", row |-> i, status |-> t]
<1>2. i \in 1..Len(certs)
  BY CertsTyped
<1>3. CertRequest(s, q)
  BY <1>2 DEF CertRequest, CertStatus
<1> QED BY <1>1, <1>3, CertsBeginKept

(* Handlers that go on.                                                    *)
LEMMA CertsStepKept ==
  ASSUME NEW s, NEW o \in BOOLEAN, Certs(s, o)!CertificatesAssumption, CertsIInv(s), NEW r \in pend,
         \/ Certs(s, o)!Decode(r) \/ Certs(s, o)!CheckPending(r) \/ Certs(s, o)!CertificateAtAgent(r)
         \/ Certs(s, o)!Create(r) \/ Certs(s, o)!UpdateStatus(r) \/ Certs(s, o)!SessionAtAgent(r)
  PROVE  CertsIInv(s)'
<1>u. s.time \in Nat /\ s.requests \in Nat /\ s.faults \in Nat
  BY CertsUnfolded
<1>r. CertRequest(s, r)
  BY DEF CertsIInv
<1>n. started \in 0..s.requests /\ faults \in 0..s.faults
  BY DEF CertsIInv
<1>1. CASE Certs(s, o)!Decode(r)
  <2>1. r.row \in CertRow(s)
    BY <1>1, <1>r DEF Certs!Decode, CertRequest
  <2>2. CertRequest(s, Certs(s, o)!Checked(r.row))
    BY <2>1, CertChecked
  <2>3. pend' \subseteq pend \cup {Certs(s, o)!Checked(r.row)} /\ UNCHANGED <<certs, keys, now, signed, started>>
        /\ (UNCHANGED faults \/ Certs(s, o)!Fault)
    BY <1>1 DEF Certs!Decode, Certs!Go, Certs!End
  <2> QED BY <1>n, <1>u, <2>2, <2>3, CertsFaulted, CertsWaiting
<1>2. CASE Certs(s, o)!CheckPending(r)
  <2>1. PICK w \in CertRow(s) : w = r.row
    BY <1>2, <1>r DEF Certs!CheckPending, CertRequest
  <2>2. PICK u : u = [w EXCEPT !.status = "PendingActivation"]
    OBVIOUS
  <2>3. u \in CertRow(s)
    <3> DEFINE A == 1..s.requests
               B == CertTime(s)
    <3>1. w \in [cert : A, key : s.key, from : B, to : B, status : CertStatus]
      BY DEF CertRow
    <3>2. "PendingActivation" \in CertStatus
      BY DEF CertStatus
    <3> HIDE DEF A, B
    <3>3. u \in [cert : A, key : s.key, from : B, to : B, status : CertStatus]
      BY <2>2, <3>1, <3>2
    <3> QED BY <3>3 DEF A, B, CertRow
  <2> DEFINE q == [op |-> "agent", row |-> u]
  <2>4. CertRequest(s, q)
    BY <2>3 DEF CertRequest
  <2>5. pend' \subseteq pend \cup {q} /\ UNCHANGED <<certs, keys, now, signed, started, faults>>
    BY <1>2, <2>1, <2>2 DEF Certs!CheckPending, Certs!Go, Certs!End
  <2> QED BY <1>n, <1>u, <2>4, <2>5, CertsWaiting
<1>3. CASE Certs(s, o)!CertificateAtAgent(r)
  <2>1. PICK w \in CertRow(s) : w = r.row
    BY <1>3, <1>r DEF Certs!CertificateAtAgent, CertRequest
  <2>2. w.cert \in 1..s.requests
    BY DEF CertRow
  <2> DEFINE q == [op |-> "insert", row |-> w]
  <2>3. \/ keys' = keys \cup {w.cert} /\ pend' = (pend \ {r}) \cup {q}
        \/ keys' \in {keys, keys \cup {w.cert}} /\ pend' = pend \ {r}
    BY <1>3, <2>1 DEF Certs!CertificateAtAgent, Certs!Go, Certs!End
  <2>4. UNCHANGED <<certs, now, signed, started>> /\ (UNCHANGED faults \/ Certs(s, o)!Fault)
    BY <1>3 DEF Certs!CertificateAtAgent, Certs!Go, Certs!End
  <2>5. w.cert \in keys' => CertRequest(s, q)'
    BY DEF CertRequest
  <2>6. /\ keys \subseteq keys' /\ keys' \subseteq 1..s.requests
        /\ \A y \in pend' : y \in pend \/ CertRequest(s, y)'
    BY <2>2, <2>3, <2>5 DEF CertsIInv
  <2>7. /\ certs' \in Seq(CertRow(s)) /\ Len(certs) <= Len(certs') /\ now' \in CertTime(s) /\ now <= now'
        /\ signed' \subseteq CertSession(s) /\ \A i \in 1..Len(certs') : certs'[i].cert \in keys'
    BY <2>4, <2>6, CertsTyped DEF CertsIInv, CertTime
  <2> QED BY <1>n, <1>u, <2>4, <2>6, <2>7, CertsFaulted, CertsMoved
<1>4. CASE Certs(s, o)!Create(r)
  <2>1. PICK w \in CertRow(s) : w = r.row /\ w.cert \in keys
    BY <1>4, <1>r DEF Certs!Create, CertRequest
  <2>2. /\ pend' = pend \ {r} /\ UNCHANGED <<keys, now, signed, started>> /\ (UNCHANGED faults \/ Certs(s, o)!Fault)
        /\ (certs' = Append(certs, w) \/ UNCHANGED certs)
    BY <1>4, <2>1 DEF Certs!Create, Certs!End
  <2>3. CASE UNCHANGED certs
    BY <1>n, <1>u, <2>2, <2>3, CertsFaulted, CertsWaiting
  <2>4. CASE certs' = Append(certs, w)
    <3>1. PICK d : d = certs'
      OBVIOUS
    <3>2. certs \in Seq(CertRow(s))
      BY CertsTyped
    <3>3. /\ d \in Seq(CertRow(s)) /\ Len(certs) \in Nat /\ Len(d) = Len(certs) + 1 /\ d[Len(d)] = w
          /\ \A i \in 1..Len(certs) : i \in 1..Len(d) /\ d[i] = certs[i]
          /\ \A i \in 1..Len(d) : i = Len(d) \/ i \in 1..Len(certs)
      BY <2>4, <3>1, <3>2, CertAppended
    <3>4. \A i \in 1..Len(certs') : certs'[i].cert \in keys'
      BY <2>1, <2>2, <3>1, <3>3 DEF CertsIInv
    <3>5. /\ now' \in CertTime(s) /\ now <= now' /\ keys \subseteq keys' /\ keys' \subseteq 1..s.requests
          /\ signed' \subseteq CertSession(s)
      BY <2>2 DEF CertsIInv, CertTime
    <3>6. Len(certs) <= Len(certs') /\ certs' \in Seq(CertRow(s)) /\ \A i \in 1..Len(certs) : certs'[i] = certs[i]
      BY <3>1, <3>3
    <3> QED BY <1>n, <1>u, <2>2, <3>4, <3>5, <3>6, CertsFaulted, CertsMoved
  <2> QED BY <2>2, <2>3, <2>4
<1>5. CASE Certs(s, o)!UpdateStatus(r)
  <2>1. PICK n \in 1..Len(certs), t \in CertStatus : n = r.row /\ t = r.status
    BY <1>5, <1>r DEF Certs!UpdateStatus, CertRequest
  <2>2. /\ pend' = pend \ {r} /\ UNCHANGED <<keys, now, signed, started, faults>>
        /\ certs' = [certs EXCEPT ![n].status = t]
    BY <1>5, <2>1 DEF Certs!UpdateStatus, Certs!End
  <2>3. PICK d : d = certs'
    OBVIOUS
  <2>4. certs \in Seq(CertRow(s))
    BY CertsTyped
  <2>5. /\ d \in Seq(CertRow(s)) /\ Len(d) = Len(certs)
        /\ \A i \in 1..Len(certs) :
             /\ d[i].cert = certs[i].cert /\ d[i].key = certs[i].key
             /\ d[i].from = certs[i].from /\ d[i].to = certs[i].to
    BY <2>2, <2>3, <2>4, CertUpdated
  <2>6. \A i \in 1..Len(certs') : certs'[i].cert \in keys'
    BY <2>2, <2>3, <2>5 DEF CertsIInv
  <2>7. /\ now' \in CertTime(s) /\ now <= now' /\ keys \subseteq keys' /\ keys' \subseteq 1..s.requests
        /\ signed' \subseteq CertSession(s)
    BY <2>2 DEF CertsIInv, CertTime
  <2>8. Len(certs) <= Len(certs') /\ certs' \in Seq(CertRow(s))
    BY <2>3, <2>5, CertsTyped
  <2> QED BY <1>n, <1>u, <2>2, <2>3, <2>5, <2>6, <2>7, <2>8, CertsMoved
<1>6. CASE Certs(s, o)!SessionAtAgent(r)
  <2>1. PICK c \in 1..s.requests, k \in s.key, t \in CertTime(s) :
          c = r.cert /\ k = r.key /\ t = r.at /\ CertListed(c, k, t)
    BY <1>6, <1>r DEF Certs!SessionAtAgent, CertRequest
  <2> DEFINE x == [cert |-> c, key |-> k, at |-> t]
  <2>3. /\ pend' = pend \ {r} /\ UNCHANGED <<certs, keys, now, started, faults>>
        /\ (signed' = signed \cup {x} \/ UNCHANGED signed)
    BY <1>6, <2>1 DEF Certs!SessionAtAgent, Certs!End
  <2>4. x \in CertSession(s) /\ x.cert = c /\ x.key = k /\ x.at = t
    BY DEF CertSession
  <2> HIDE DEF x
  <2>5. CertListed(x.cert, x.key, x.at)'
    BY <2>1, <2>3, <2>4 DEF CertListed
  <2>6. signed' \subseteq CertSession(s) /\ \A y \in signed' : y \in signed \/ CertListed(y.cert, y.key, y.at)'
    BY <2>3, <2>4, <2>5 DEF CertsIInv
  <2>7. /\ now' \in CertTime(s) /\ now <= now' /\ keys \subseteq keys' /\ keys' \subseteq 1..s.requests
        /\ certs' \in Seq(CertRow(s)) /\ Len(certs) <= Len(certs') /\ \A i \in 1..Len(certs') : certs'[i].cert \in keys'
    BY <2>3, CertsTyped DEF CertsIInv, CertTime
  <2> QED BY <1>n, <1>u, <2>3, <2>6, <2>7, CertsMoved
<1> QED BY <1>1, <1>2, <1>3, <1>4, <1>5, <1>6

LEMMA CertsKept ==
  ASSUME NEW s, NEW o \in BOOLEAN, Certs(s, o)!CertificatesAssumption, CertsIInv(s), Certs(s, o)!Next
  PROVE  CertsIInv(s)'
<1>1. CASE Certs(s, o)!Tick
  <2>1. now \in 0..s.time /\ s.time \in Nat /\ Len(certs) \in Nat
    BY CertsUnfolded, CertsTyped DEF CertsIInv, CertTime
  <2>2. now' \in CertTime(s) /\ now <= now' /\ UNCHANGED <<certs, keys, signed, pend, started, faults>>
    BY <1>1, <2>1 DEF Certs!Tick, CertTime
  <2>3. /\ certs' \in Seq(CertRow(s)) /\ keys' \subseteq 1..s.requests /\ signed' \subseteq CertSession(s)
        /\ started' \in 0..s.requests /\ faults' \in 0..s.faults /\ \A i \in 1..Len(certs') : certs'[i].cert \in keys'
        /\ Len(certs) <= Len(certs')
    BY <2>1, <2>2 DEF CertsIInv
  <2> QED BY <2>1, <2>2, <2>3, CertsMoved
<1> QED BY <1>1, CertsUnfolded, CertsRequested, CertsAsked, CertsStepKept DEF Certs!Next

LEMMA CertsBegin ==
  ASSUME NEW s, NEW o \in BOOLEAN, Certs(s, o)!CertificatesAssumption, Certs(s, o)!Init
  PROVE  CertsIInv(s)
<1>1. /\ certs = <<>> /\ keys = {} /\ now = 0 /\ signed = {} /\ pend = {} /\ started = 0 /\ faults = 0
      /\ s.time \in Nat /\ s.requests \in Nat /\ s.faults \in Nat
  BY CertsUnfolded DEF Certs!Init
<1>2. certs \in Seq(CertRow(s)) /\ 1..Len(certs) = {}
  BY <1>1
<1> QED BY <1>1, <1>2 DEF CertsIInv, CertTime

LEMMA CertsSafe ==
  ASSUME NEW s, NEW o \in BOOLEAN, Certs(s, o)!CertificatesAssumption, CertsIInv(s)
  PROVE  Certs(s, o)!TypeOK /\ Certs(s, o)!RowsInWallet /\ Certs(s, o)!SignedInPeriod
<1>1. Certs(s, o)!TypeOK
  BY CertsUnfolded DEF CertsIInv, CertSession, Certs!TypeOK
<1>2. Certs(s, o)!Rows = {certs[i] : i \in 1..Len(certs)}
  BY CertsTyped DEF Certs!Rows
<1>3. Certs(s, o)!RowsInWallet
  BY <1>2 DEF CertsIInv, Certs!RowsInWallet
<1>4. Certs(s, o)!SignedInPeriod
  BY <1>2 DEF CertsIInv, CertListed, Certs!SignedInPeriod
<1> QED BY <1>1, <1>3, <1>4

(* One request at a time: no two rows of a key type and a status that      *)
(* counts have an instant in common, and what a handler is about to write  *)
(* keeps it so.                                                            *)
CertMeet(a, b) == a.key = b.key /\ a.from <= b.to /\ a.to >= b.from
CertClear(r) ==
  /\ r.op \in {"agent", "insert"} => \A i \in 1..Len(certs) : ~(certs[i].status = r.row.status /\ CertMeet(certs[i], r.row))
  /\ r.op = "update" =>
       \/ r.status = "InActive"
       \/ /\ r.status = "Active"
          /\ \A i \in 1..Len(certs) : i # r.row => ~(certs[i].status = "Active" /\ CertMeet(certs[i], certs[r.row]))
CertsDisjoint ==
  \A i, j \in 1..Len(certs) : i # j /\ certs[i].status = certs[j].status /\ certs[i].status # "InActive"
                              => ~CertMeet(certs[i], certs[j])
CertsInTurn ==
  /\ \A r, q \in pend : r = q
  /\ \A r \in pend : CertClear(r)
  /\ CertsDisjoint

(* The rows stay; the handler that runs begins, goes on or ends.           *)
LEMMA CertsWaitInTurn ==
  ASSUME CertsInTurn, UNCHANGED certs, \A r, q \in pend' : r = q, \A r \in pend' : r \in pend \/ CertClear(r)
  PROVE  CertsInTurn'
BY DEF CertsInTurn, CertClear, CertsDisjoint

LEMMA CertsBeginInTurn ==
  ASSUME NEW s, CertsInTurn, NEW q, Certs(s, FALSE)!Begin(q), UNCHANGED certs, CertClear(q)
  PROVE  CertsInTurn'
<1>1. pend' = {q}
  BY DEF Certs!Begin
<1> QED BY <1>1, CertsWaitInTurn

(* The checks answer for every row.                                        *)
LEMMA CertsUncollided ==
  ASSUME NEW s, CertsIInv(s), NEW t, NEW w, NEW n,
         Certs(s, FALSE)!Collisions(t, w.key, w.from, w.to, n) = {}, NEW i \in 1..Len(certs), i # n
  PROVE  ~(certs[i].status = t /\ CertMeet(certs[i], w))
<1>1. i \in DOMAIN certs \ {n}
  BY CertsTyped
<1> QED BY <1>1 DEF Certs!Collisions, CertMeet

LEMMA CertCheckedClear ==
  ASSUME NEW s, CertsIInv(s), NEW w \in CertRow(s), w.status = "Active"
  PROVE  CertClear(Certs(s, FALSE)!Checked(w))
<1>1. PICK q : q = Certs(s, FALSE)!Checked(w)
  OBVIOUS
<1>2. /\ q.row = w
      /\ \/ q.op = "agent" /\ Certs(s, FALSE)!Collisions("Active", w.key, w.from, w.to, 0) = {}
         \/ q.op = "pending"
  BY <1>1, CertChecked
<1>3. \A i \in 1..Len(certs) : i # 0
  BY CertsTyped
<1>4. q.op = "agent" => \A i \in 1..Len(certs) : ~(certs[i].status = "Active" /\ CertMeet(certs[i], w))
  BY <1>2, <1>3, CertsUncollided
<1>5. CertClear(q)
  BY <1>2, <1>4 DEF CertClear
<1> QED BY <1>1, <1>5

LEMMA CertsRequestedInTurn ==
  ASSUME NEW s, Certs(s, FALSE)!CertificatesAssumption, CertsIInv(s), CertsInTurn,
         \/ \E k \in s.key : \/ \E f, t \in CertTime(s) : \/ Certs(s, FALSE)!CreateCertificate(k, f, t)
                                                          \/ Certs(s, FALSE)!ImportCertificate(k, f, t)
                             \/ Certs(s, FALSE)!CreateVerificationSession(k)
         \/ \E i \in DOMAIN certs : Certs(s, FALSE)!ActivateCertificate(i) \/ Certs(s, FALSE)!DeActivateCertificate(i)
  PROVE  CertsInTurn'
<1>1. ASSUME NEW k \in s.key, NEW f \in CertTime(s), NEW t \in CertTime(s), Certs(s, FALSE)!CreateCertificate(k, f, t)
      PROVE  CertsInTurn'
  <2>1. PICK w : w = Certs(s, FALSE)!New(k, f, t)
    OBVIOUS
  <2>2. Certs(s, FALSE)!Begin(Certs(s, FALSE)!Checked(w)) /\ UNCHANGED certs
    BY <1>1, <2>1 DEF Certs!CreateCertificate
  <2>3. w \in CertRow(s) /\ w.status = "Active"
    BY <2>1, <2>2, CertsStarted, CertNew
  <2> QED BY <2>2, <2>3, CertCheckedClear, CertsBeginInTurn
<1>2. ASSUME NEW k \in s.key, NEW f \in CertTime(s), NEW t \in CertTime(s), Certs(s, FALSE)!ImportCertificate(k, f, t)
      PROVE  CertsInTurn'
  <2>1. PICK w : w = Certs(s, FALSE)!New(k, f, t)
    OBVIOUS
  <2> DEFINE q == [op |-> "decode", row |-> w]
  <2>2. Certs(s, FALSE)!Begin(q) /\ UNCHANGED certs
    BY <1>2, <2>1 DEF Certs!ImportCertificate
  <2>3. CertClear(q)
    BY DEF CertClear
  <2> QED BY <2>2, <2>3, CertsBeginInTurn
<1>3. ASSUME NEW k \in s.key, Certs(s, FALSE)!CreateVerificationSession(k)
      PROVE  CertsInTurn'
  <2>1. PICK c, t : Certs(s, FALSE)!Begin([op |-> "session", cert |-> c, key |-> k, at |-> t]) /\ UNCHANGED certs
    BY <1>3 DEF Certs!CreateVerificationSession
  <2> DEFINE q == [op |-> "session", cert |-> c, key |-> k, at |-> t]
  <2>2. CertClear(q)
    BY DEF CertClear
  <2> QED BY <2>1, <2>2, CertsBeginInTurn
<1>4. ASSUME NEW i \in DOMAIN certs, Certs(s, FALSE)!ActivateCertificate(i)
      PROVE  CertsInTurn'
  <2> DEFINE q == [op |-> "update", row |-> i, status |-> "Active"]
  <2>1. PICK w : w = certs[i]
    OBVIOUS
  <2>2. /\ Certs(s, FALSE)!Begin(q) /\ UNCHANGED certs
        /\ Certs(s, FALSE)!Collisions("Active", w.key, w.from, w.to, i) = {}
    BY <1>4, <2>1 DEF Certs!ActivateCertificate
  <2>3. \A j \in 1..Len(certs) : j # i => ~(certs[j].status = "Active" /\ CertMeet(certs[j], w))
    BY <2>2, CertsUncollided
  <2>4. CertClear(q)
    BY <2>1, <2>3 DEF CertClear
  <2> QED BY <2>2, <2>4, CertsBeginInTurn
<1>5. ASSUME NEW i \in DOMAIN certs, Certs(s, FALSE)!DeActivateCertificate(i)
      PROVE  CertsInTurn'
  <2> DEFINE q == [op |-> "update", row |-> i, status |-> "InActive"]
  <2>1. Certs(s, FALSE)!Begin(q) /\ UNCHANGED certs
    BY <1>5 DEF Certs!DeActivateCertificate
  <2>2. CertClear(q)
    BY DEF CertClear
  <2> QED BY <2>1, <2>2, CertsBeginInTurn
<1> QED BY <1>1, <1>2, <1>3, <1>4, <1>5

(* A row is written; the handler ends.                                     *)
LEMMA CertsCreatedInTurn ==
  ASSUME NEW s, CertsIInv(s), CertsInTurn, NEW r \in pend, r.op = "insert", NEW w \in CertRow(s), w = r.row,
         pend' = {}, certs' = Append(certs, w)
  PROVE  CertsInTurn'
<1>1. PICK d : d = certs'
  OBVIOUS
<1>2. certs \in Seq(CertRow(s))
  BY CertsTyped
<1>3. /\ Len(certs) \in Nat /\ Len(d) = Len(certs) + 1 /\ d[Len(d)] = w
      /\ \A i \in 1..Len(certs) : i \in 1..Len(d) /\ d[i] = certs[i]
      /\ \A i \in 1..Len(d) : i = Len(d) \/ i \in 1..Len(certs)
  BY <1>1, <1>2, CertAppended
<1>4. \A i \in 1..Len(certs) : ~(certs[i].status = w.status /\ CertMeet(certs[i], w))
  BY DEF CertsInTurn, CertClear
<1>5. ASSUME NEW i \in 1..Len(d), NEW j \in 1..Len(d), i # j, d[i].status = d[j].status, d[i].status # "InActive",
             CertMeet(d[i], d[j])
      PROVE  FALSE
  <2>1. CASE i \in 1..Len(certs) /\ j \in 1..Len(certs)
    BY <1>3, <1>5, <2>1 DEF CertsInTurn, CertsDisjoint
  <2>2. CASE i \in 1..Len(certs) /\ j = Len(d)
    BY <1>3, <1>4, <1>5, <2>2
  <2>3. CASE i = Len(d) /\ j \in 1..Len(certs)
    <3>1. d[i] = w /\ d[j] = certs[j]
      BY <1>3, <2>3
    <3>2. w.from \in Int /\ w.to \in Int /\ certs[j].from \in Int /\ certs[j].to \in Int
      <4>1. w.from \in CertTime(s) /\ w.to \in CertTime(s)
        BY DEF CertRow
      <4>2. certs[j].from \in CertTime(s) /\ certs[j].to \in CertTime(s)
        BY <2>3, CertsTyped
      <4> QED BY <4>1, <4>2 DEF CertTime
    <3>3. CertMeet(certs[j], w)
      BY <1>5, <3>1, <3>2 DEF CertMeet
    <3> QED BY <1>4, <1>5, <2>3, <3>1, <3>3
  <2> QED BY <1>3, <1>5, <2>1, <2>2, <2>3
<1> QED BY <1>1, <1>5 DEF CertsInTurn, CertsDisjoint

LEMMA CertsUpdatedInTurn ==
  ASSUME NEW s, CertsIInv(s), CertsInTurn, NEW r \in pend, r.op = "update", NEW n \in 1..Len(certs), n = r.row,
         NEW t \in CertStatus, t = r.status, pend' = {}, certs' = [certs EXCEPT ![n].status = t]
  PROVE  CertsInTurn'
<1>1. PICK d : d = certs'
  OBVIOUS
<1>2. certs \in Seq(CertRow(s))
  BY CertsTyped
<1>3. /\ Len(d) = Len(certs) /\ d[n].status = t
      /\ \A i \in 1..Len(certs) :
           /\ d[i].cert = certs[i].cert /\ d[i].key = certs[i].key /\ d[i].from = certs[i].from /\ d[i].to = certs[i].to
           /\ i # n => d[i] = certs[i]
  BY <1>1, <1>2, CertUpdated
<1>4. /\ t = "InActive" \/ t = "Active"
      /\ t = "Active" => \A i \in 1..Len(certs) : i # n => ~(certs[i].status = "Active" /\ CertMeet(certs[i], certs[n]))
  BY DEF CertsInTurn, CertClear
<1>5. ASSUME NEW i \in 1..Len(d), NEW j \in 1..Len(d), i # j, d[i].status = d[j].status, d[i].status # "InActive",
             CertMeet(d[i], d[j])
      PROVE  FALSE
  <2>1. CertMeet(certs[i], certs[j])
    BY <1>3, <1>5 DEF CertMeet
  <2>2. CASE i # n /\ j # n
    BY <1>3, <1>5, <2>1, <2>2 DEF CertsInTurn, CertsDisjoint
  <2>3. CASE i # n /\ j = n
    BY <1>3, <1>4, <1>5, <2>1, <2>3
  <2>4. CASE i = n /\ j # n
    <3>1. certs[i].from \in Int /\ certs[i].to \in Int /\ certs[j].from \in Int /\ certs[j].to \in Int
      BY <1>3, CertsTyped DEF CertTime
    <3>2. CertMeet(certs[j], certs[i])
      BY <2>1, <3>1 DEF CertMeet
    <3> QED BY <1>3, <1>4, <1>5, <2>4, <3>2
  <2> QED BY <1>5, <2>2, <2>3, <2>4
<1> QED BY <1>1, <1>5 DEF CertsInTurn, CertsDisjoint

LEMMA CertsStepInTurn ==
  ASSUME NEW s, Certs(s, FALSE)!CertificatesAssumption, CertsIInv(s), CertsInTurn, NEW r \in pend,
         \/ Certs(s, FALSE)!Decode(r) \/ Certs(s, FALSE)!CheckPending(r) \/ Certs(s, FALSE)!CertificateAtAgent(r)
         \/ Certs(s, FALSE)!Create(r) \/ Certs(s, FALSE)!UpdateStatus(r) \/ Certs(s, FALSE)!SessionAtAgent(r)
  PROVE  CertsInTurn'
<1>r. CertRequest(s, r) /\ CertClear(r)
  BY DEF CertsIInv, CertsInTurn
<1>p. pend = {r}
  BY DEF CertsInTurn
<1>e. ASSUME UNCHANGED certs, pend' = {}
      PROVE  CertsInTurn'
  BY <1>e, CertsWaitInTurn
<1>g. ASSUME UNCHANGED certs, NEW q, pend' = {q}, CertClear(q)
      PROVE  CertsInTurn'
  BY <1>g, CertsWaitInTurn
<1>1. CASE Certs(s, FALSE)!Decode(r)
  <2>1. r.row \in CertRow(s) /\ r.row.status = "Active"
    BY <1>1, <1>r DEF Certs!Decode, CertRequest
  <2>2. CertClear(Certs(s, FALSE)!Checked(r.row))
    BY <2>1, CertCheckedClear
  <2>3. UNCHANGED certs /\ (pend' = {Certs(s, FALSE)!Checked(r.row)} \/ pend' = {})
    BY <1>1, <1>p DEF Certs!Decode, Certs!Go, Certs!End
  <2> QED BY <1>e, <1>g, <2>2, <2>3
<1>2. CASE Certs(s, FALSE)!CheckPending(r)
  <2>1. PICK w \in CertRow(s) : w = r.row
    BY <1>2, <1>r DEF Certs!CheckPending, CertRequest
  <2>2. PICK u : u = [w EXCEPT !.status = "PendingActivation"]
    OBVIOUS
  <2>3. u.key = w.key /\ u.from = w.from /\ u.to = w.to /\ u.status = "PendingActivation"
    BY <2>2 DEF CertRow
  <2> DEFINE q == [op |-> "agent", row |-> u]
  <2>4. UNCHANGED certs /\ (\/ pend' = {}
                            \/ /\ pend' = {q}
                               /\ Certs(s, FALSE)!Collisions("PendingActivation", w.key, w.from, w.to, 0) = {})
    BY <1>2, <1>p, <2>1, <2>2 DEF Certs!CheckPending, Certs!Go, Certs!End
  <2>5. CASE Certs(s, FALSE)!Collisions("PendingActivation", w.key, w.from, w.to, 0) = {}
    <3>1. \A i \in 1..Len(certs) : i # 0
      BY CertsTyped
    <3>2. \A i \in 1..Len(certs) : ~(certs[i].status = "PendingActivation" /\ CertMeet(certs[i], w))
      BY <2>5, <3>1, CertsUncollided
    <3>3. CertClear(q)
      BY <2>3, <3>2 DEF CertClear, CertMeet
    <3> QED BY <1>e, <1>g, <2>4, <3>3
  <2> QED BY <1>e, <2>4, <2>5
<1>3. CASE Certs(s, FALSE)!CertificateAtAgent(r)
  <2>1. PICK w : w = r.row
    OBVIOUS
  <2> DEFINE q == [op |-> "insert", row |-> w]
  <2>2. UNCHANGED certs /\ (pend' = {q} \/ pend' = {}) /\ r.op = "agent"
    BY <1>3, <1>p, <2>1 DEF Certs!CertificateAtAgent, Certs!Go, Certs!End
  <2>3. CertClear(q)
    BY <1>r, <2>1, <2>2 DEF CertClear
  <2> QED BY <1>e, <1>g, <2>2, <2>3
<1>4. CASE Certs(s, FALSE)!Create(r)
  <2>1. PICK w \in CertRow(s) : w = r.row
    BY <1>4, <1>r DEF Certs!Create, CertRequest
  <2>2. r.op = "insert" /\ pend' = {} /\ (certs' = Append(certs, w) \/ UNCHANGED certs)
    BY <1>4, <1>p, <2>1 DEF Certs!Create, Certs!End
  <2> QED BY <1>e, <2>1, <2>2, CertsCreatedInTurn
<1>5. CASE Certs(s, FALSE)!UpdateStatus(r)
  <2>1. PICK n \in 1..Len(certs), t \in CertStatus : n = r.row /\ t = r.status
    BY <1>5, <1>r DEF Certs!UpdateStatus, CertRequest
  <2>2. r.op = "update" /\ pend' = {} /\ certs' = [certs EXCEPT ![n].status = t]
    BY <1>5, <1>p, <2>1 DEF Certs!UpdateStatus, Certs!End
  <2> QED BY <2>1, <2>2, CertsUpdatedInTurn
<1>6. CASE Certs(s, FALSE)!SessionAtAgent(r)
  <2>1. UNCHANGED certs /\ pend' = {}
    BY <1>6, <1>p DEF Certs!SessionAtAgent, Certs!End
  <2> QED BY <1>e, <2>1
<1> QED BY <1>1, <1>2, <1>3, <1>4, <1>5, <1>6

LEMMA CertsInTurnKept ==
  ASSUME NEW s, Certs(s, FALSE)!CertificatesAssumption, CertsIInv(s), CertsInTurn, Certs(s, FALSE)!Next
  PROVE  CertsInTurn'
<1>1. CASE Certs(s, FALSE)!Tick
  BY <1>1 DEF Certs!Tick, CertsInTurn, CertClear, CertsDisjoint
<1> QED BY <1>1, CertsUnfolded, CertsRequestedInTurn, CertsStepInTurn DEF Certs!Next

LEMMA CertsInTurnBegin ==
  ASSUME NEW s, Certs(s, FALSE)!CertificatesAssumption, Certs(s, FALSE)!Init
  PROVE  CertsInTurn
<1>1. pend = {} /\ 1..Len(certs) = {}
  BY DEF Certs!Init
<1> QED BY <1>1 DEF CertsInTurn, CertsDisjoint

LEMMA CertsCardinality == \A s, S : Certs(s, FALSE)!Cardinality(S) = Cardinality(S)
BY DEF Certs!Cardinality, Cardinality, Certs!IsFiniteSet, IsFiniteSet

(* Rows whose periods have an instant in common are one row.               *)
LEMMA InTurnUnambiguous ==
  ASSUME NEW s, Certs(s, FALSE)!CertificatesAssumption, CertsIInv(s), CertsInTurn
  PROVE  Certs(s, FALSE)!SignerUnambiguous
<1> SUFFICES ASSUME NEW k \in s.key, NEW t \in Certs(s, FALSE)!Time, NEW a \in {"Active", "PendingActivation"}
             PROVE  Certs(s, FALSE)!Cardinality({i \in DOMAIN certs :
                      /\ certs[i].key = k /\ certs[i].status = a
                      /\ certs[i].from <= t /\ t <= certs[i].to}) <= 1
  BY DEF Certs!SignerUnambiguous
<1> DEFINE T == {i \in DOMAIN certs : /\ certs[i].key = k /\ certs[i].status = a
                                      /\ certs[i].from <= t /\ t <= certs[i].to}
<1>1. ASSUME NEW i \in T, NEW j \in T
      PROVE  i = j
  <2>1. /\ i \in 1..Len(certs) /\ j \in 1..Len(certs) /\ t \in Int
        /\ certs[i].from \in Int /\ certs[i].to \in Int /\ certs[j].from \in Int /\ certs[j].to \in Int
    <3>1. t \in CertTime(s)
      BY CertsUnfolded
    <3>2. i \in 1..Len(certs) /\ j \in 1..Len(certs)
      BY CertsTyped
    <3> QED BY <3>1, <3>2, CertsTyped DEF CertTime
  <2>2. CertMeet(certs[i], certs[j])
    BY <2>1 DEF CertMeet
  <2> QED BY <2>1, <2>2 DEF CertsInTurn, CertsDisjoint
<1> HIDE DEF T
<1>2. T = {} \/ \E i \in T : T = {i}
  BY <1>1
<1>3. Cardinality(T) <= 1
  <2>1. CASE T = {}
    BY <2>1, FS_EmptySet
  <2>2. ASSUME NEW i \in T, T = {i}
        PROVE  Cardinality(T) = 1
    BY <2>2, FS_Singleton
  <2> QED BY <1>2, <2>1, <2>2
<1> QED BY <1>3, CertsCardinality DEF T

-----------------------------------------------------------------------------
(* oid4vc-verification: verifiers and presentations.                       *)

VerRow(s) == [id : 1..s.requests, public : s.public, org : s.org, metadata : 1..s.requests]
VerExchange(s) == [id : 1..s.requests, public : s.public, org : s.org, stage : 1..3]
VerIdsUnique(S) == \A v, w \in S : v.id = w.id => v = w

(* Rows and records have ids that were given out.                          *)
VersRows(s) ==
  /\ verifiers \subseteq VerRow(s) /\ agentVerifiers \subseteq VerRow(s)
  /\ VerIdsUnique(verifiers) /\ VerIdsUnique(agentVerifiers)
  /\ (\A v \in verifiers : v.id <= started) /\ (\A v \in agentVerifiers : v.id <= started)

(* A post or a row follows its session.                                    *)
VerFollows(r) == \E e \in exchanges : e.id = r.id /\ e.org = r.org /\ e.public = r.public /\ r.stage <= e.stage
VersSessions(s) ==
  /\ exchanges \subseteq VerExchange(s) /\ events \subseteq VerExchange(s) /\ presentations \subseteq VerExchange(s)
  /\ VerIdsUnique(exchanges) /\ VerIdsUnique(presentations) /\ (\A e \in exchanges : e.id <= started)
  /\ (\A f \in events : VerFollows(f)) /\ (\A r \in presentations : VerFollows(r))

(* What a handler is about to add has an id nobody else has.               *)
VerRequest(s, r) ==
  /\ r.op \in {"create", "save", "update", "write", "delete", "remove", "session"}
  /\ r.verifier \in VerRow(s)
  /\ r.op \in {"update", "write"} => r \in [op : {"update", "write"}, verifier : VerRow(s), metadata : 1..s.requests]
  /\ r.op \in {"delete", "remove"} => r \in [op : {"delete", "remove"}, verifier : VerRow(s)]
  /\ r.op \in {"create", "save"} => r.verifier.id <= started /\ \A v \in verifiers : v.id # r.verifier.id
  /\ r.op = "create" => \A v \in agentVerifiers : v.id # r.verifier.id
  /\ r.op = "session" => r.id \in 1..s.requests /\ r.id <= started /\ \A e \in exchanges : e.id # r.id
VerDistinct(r, q) ==
  /\ r.op \in {"create", "save"} /\ q.op \in {"create", "save"} /\ r.verifier.id = q.verifier.id => r = q
  /\ r.op = "session" /\ q.op = "session" /\ r.id = q.id => r = q
VersPend(s) == (\A r \in pend : VerRequest(s, r)) /\ \A r, q \in pend : VerDistinct(r, q)

VersIInv(s) ==
  /\ started \in 0..s.requests /\ faults \in 0..s.faults
  /\ VersRows(s) /\ VersSessions(s) /\ VersPend(s)

LEMMA VersUnfolded ==
  ASSUME NEW s, NEW o \in BOOLEAN, Verifiers(s, o)!VerifiersAssumption
  PROVE  /\ s.requests \in Nat /\ s.faults \in Nat /\ s.shared \subseteq s.org
         /\ Verifiers(s, o)!Verifier = VerRow(s) /\ Verifiers(s, o)!Exchange = VerExchange(s)
BY DEF Verifiers!VerifiersAssumption, Verifiers!Verifier, Verifiers!Exchange, Verifiers!Stage, VerRow, VerExchange

(* Handlers that begin.                                                    *)
LEMMA VersBeginKept ==
  ASSUME NEW s, NEW o \in BOOLEAN, Verifiers(s, o)!VerifiersAssumption, VersIInv(s), NEW q, Verifiers(s, o)!Begin(q),
         UNCHANGED <<verifiers, agentVerifiers, exchanges, events, presentations, faults>>,
         q.op \in {"create", "update", "delete", "session"}, q.verifier \in VerRow(s),
         q.op = "update" => q \in [op : {"update", "write"}, verifier : VerRow(s), metadata : 1..s.requests],
         q.op = "delete" => q \in [op : {"delete", "remove"}, verifier : VerRow(s)],
         q.op = "create" => q.verifier.id = started + 1, q.op = "session" => q.id = started + 1
  PROVE  VersIInv(s)'
<1>1. /\ started \in 0..s.requests /\ started' = started + 1 /\ started' \in 0..s.requests /\ pend' = pend \cup {q}
      /\ started + 1 \in 1..s.requests /\ s.requests \in Nat
  BY VersUnfolded DEF Verifiers!Begin, VersIInv
<1>2. VersRows(s)'
  <2>1. (\A v \in verifiers : v.id \in Int) /\ \A v \in agentVerifiers : v.id \in Int
    BY DEF VersIInv, VersRows, VerRow
  <2> QED BY <1>1, <2>1 DEF VersIInv, VersRows, VerIdsUnique
<1>3. VersSessions(s)'
  <2>1. \A e \in exchanges : e.id \in Int
    BY DEF VersIInv, VersSessions, VerExchange
  <2> QED BY <1>1, <2>1 DEF VersIInv, VersSessions, VerIdsUnique, VerFollows
<1>4. VerRequest(s, q)'
  <2>1. /\ (\A v \in verifiers : v.id \in Int /\ v.id <= started) /\ (\A v \in agentVerifiers : v.id \in Int /\ v.id <= started)
        /\ \A e \in exchanges : e.id \in Int /\ e.id <= started
    BY DEF VersIInv, VersRows, VerRow, VersSessions, VerExchange
  <2>2. /\ \A v \in verifiers : v.id # started + 1
        /\ \A v \in agentVerifiers : v.id # started + 1
        /\ \A e \in exchanges : e.id # started + 1
    BY <1>1, <2>1
  <2> QED BY <1>1, <2>2 DEF VerRequest
<1>5. \A r \in pend : VerRequest(s, r)' /\ VerDistinct(r, q) /\ VerDistinct(q, r)
  <2> SUFFICES ASSUME NEW r \in pend
               PROVE  VerRequest(s, r)' /\ VerDistinct(r, q) /\ VerDistinct(q, r)
    OBVIOUS
  <2>1. VerRequest(s, r)
    BY DEF VersIInv, VersPend
  <2>2. r.op \in {"create", "save"} => r.verifier.id \in Int
    BY <2>1 DEF VerRequest, VerRow
  <2>3. VerRequest(s, r)'
    BY <1>1, <2>1, <2>2 DEF VerRequest
  <2>4. /\ r.op \in {"create", "save"} => r.verifier.id # started + 1
        /\ r.op = "session" => r.id # started + 1
    BY <1>1, <2>1, <2>2 DEF VerRequest
  <2>5. VerDistinct(r, q) /\ VerDistinct(q, r)
    BY <2>4 DEF VerDistinct
  <2> QED BY <2>3, <2>5
<1>6. VersPend(s)'
  <2>1. VerDistinct(q, q)
    BY DEF VerDistinct
  <2> QED BY <1>1, <1>4, <1>5, <2>1 DEF VersIInv, VersPend, VerDistinct
<1> QED BY <1>1, <1>2, <1>3, <1>6 DEF VersIInv

(* Handlers that go on or end: the others stay apart from what was added.  *)
LEMMA VersPendKept ==
  ASSUME NEW s, VersPend(s), started' = started, NEW r \in pend, NEW q, pend' \subseteq (pend \ {r}) \cup {q},
         q \in pend' => /\ VerRequest(s, q)' /\ q.op # "session"
                        /\ q.op \in {"create", "save"} =>
                             r.op \in {"create", "save"} /\ q.verifier.id = r.verifier.id,
         \A v \in agentVerifiers' : (\E w \in agentVerifiers : w.id = v.id) \/ (r.op = "create" /\ v.id = r.verifier.id),
         \A v \in verifiers' : (\E w \in verifiers : w.id = v.id) \/ (r.op = "save" /\ v.id = r.verifier.id),
         \A e \in exchanges' : (\E f \in exchanges : f.id = e.id) \/ (r.op = "session" /\ e.id = r.id)
  PROVE  VersPend(s)'
<1>1. ASSUME NEW x \in pend, x # r
      PROVE  VerRequest(s, x)'
  <2>1. VerRequest(s, x) /\ VerDistinct(x, r)
    BY DEF VersPend
  <2>2. /\ x.op \in {"create", "save"} => \A v \in verifiers' : v.id # x.verifier.id
        /\ x.op = "create" => \A v \in agentVerifiers' : v.id # x.verifier.id
        /\ x.op = "session" => \A e \in exchanges' : e.id # x.id
    BY <1>1, <2>1 DEF VerRequest, VerDistinct
  <2> QED BY <2>1, <2>2 DEF VerRequest
<1>2. ASSUME NEW x \in pend, x # r, q \in pend'
      PROVE  VerDistinct(x, q) /\ VerDistinct(q, x)
  BY <1>2 DEF VersPend, VerDistinct
<1>3. \A x \in pend' : VerRequest(s, x)'
  BY <1>1
<1>4. \A x, y \in pend' : VerDistinct(x, y)
  <2> SUFFICES ASSUME NEW x \in pend', NEW y \in pend'
               PROVE  VerDistinct(x, y)
    OBVIOUS
  <2>1. CASE x \in pend /\ y \in pend
    BY <2>1 DEF VersPend
  <2>2. CASE x = y
    BY <2>2 DEF VerDistinct
  <2>3. CASE x \in pend \ {r} /\ y = q
    BY <1>2, <2>3
  <2>4. CASE y \in pend \ {r} /\ x = q
    BY <1>2, <2>4
  <2> QED BY <2>1, <2>2, <2>3, <2>4
<1> QED BY <1>3, <1>4 DEF VersPend, VerDistinct

(* Changing the metadata of some rows.                                     *)
VerChange(v, X, m) == IF v \in X THEN [v EXCEPT !.metadata = m] ELSE v
LEMMA VerChanged ==
  ASSUME NEW s, NEW v \in VerRow(s), NEW X, NEW m \in 1..s.requests
  PROVE  /\ VerChange(v, X, m) \in VerRow(s) /\ VerChange(v, X, m).id = v.id
         /\ VerChange(v, X, m).public = v.public /\ VerChange(v, X, m).org = v.org
<1> DEFINE N == 1..s.requests
<1>1. v \in [id : N, public : s.public, org : s.org, metadata : N] /\ m \in N
  BY DEF VerRow
<1> HIDE DEF N
<1>2. /\ VerChange(v, X, m) \in [id : N, public : s.public, org : s.org, metadata : N] /\ VerChange(v, X, m).id = v.id
      /\ VerChange(v, X, m).public = v.public /\ VerChange(v, X, m).org = v.org
  BY <1>1 DEF VerChange
<1> QED BY <1>2 DEF N, VerRow

LEMMA VersChanged ==
  ASSUME NEW s, NEW S \in SUBSET VerRow(s), NEW X, NEW m \in 1..s.requests, VerIdsUnique(S),
         NEW T, T = {VerChange(v, X, m) : v \in S}
  PROVE  /\ T \subseteq VerRow(s) /\ VerIdsUnique(T)
         /\ \A t \in T : \E v \in S : t.id = v.id /\ t.public = v.public /\ t = VerChange(v, X, m)
<1>1. \A v \in S : /\ VerChange(v, X, m) \in VerRow(s) /\ VerChange(v, X, m).id = v.id
                   /\ VerChange(v, X, m).public = v.public
  BY VerChanged
<1> QED BY <1>1 DEF VerIdsUnique

(* A call the agent refuses, or that finds nothing.                        *)
LEMMA VersEndKept ==
  ASSUME NEW s, VersIInv(s), UNCHANGED <<verifiers, agentVerifiers, exchanges, events, presentations, started>>,
         NEW r \in pend, pend' = pend \ {r}, faults' \in 0..s.faults
  PROVE  VersIInv(s)'
<1>1. VersPend(s)'
  <2>1. VersPend(s) /\ pend' \subseteq (pend \ {r}) \cup {r} /\ r \notin pend'
    BY DEF VersIInv
  <2> QED BY <2>1, VersPendKept
<1> QED BY <1>1 DEF VersIInv, VersRows, VersSessions, VerIdsUnique, VerFollows

LEMMA VersRefused ==
  ASSUME NEW s, NEW o \in BOOLEAN, Verifiers(s, o)!VerifiersAssumption, VersIInv(s), NEW r, Verifiers(s, o)!Refused(r)
  PROVE  r \in pend /\ pend' = pend \ {r} /\ UNCHANGED started /\ faults' \in 0..s.faults
BY VersUnfolded DEF Verifiers!Refused, Verifiers!End, VersIInv

LEMMA VersCreatedKept ==
  ASSUME NEW s, NEW o \in BOOLEAN, Verifiers(s, o)!VerifiersAssumption, VersIInv(s), NEW r \in pend,
         Verifiers(s, o)!CreateAtAgent(r) \/ Verifiers(s, o)!SaveVerifier(r)
  PROVE  VersIInv(s)'
<1>f. faults \in 0..s.faults /\ VersPend(s)
  BY DEF VersIInv
<1>r. VerRequest(s, r)
  BY DEF VersIInv, VersPend
<1>n. PICK v \in VerRow(s) : v = r.verifier
  BY <1>r DEF VerRequest
<1>1. CASE Verifiers(s, o)!SaveVerifier(r)
  <2>1. /\ r.op = "save" /\ pend' = pend \ {r} /\ verifiers' = verifiers \cup {v}
        /\ UNCHANGED <<agentVerifiers, exchanges, events, presentations, faults, started>>
    BY <1>1, <1>n DEF Verifiers!SaveVerifier, Verifiers!End
  <2>2. v.id <= started /\ \A w \in verifiers : w.id # v.id
    BY <1>n, <1>r, <2>1 DEF VerRequest
  <2>3. VersRows(s)'
    BY <2>1, <2>2 DEF VersIInv, VersRows, VerIdsUnique
  <2>4. VersSessions(s)'
    BY <2>1 DEF VersIInv, VersSessions, VerIdsUnique, VerFollows
  <2>5. pend' \subseteq (pend \ {r}) \cup {r} /\ r \notin pend'
    BY <2>1
  <2>6. /\ \A w \in verifiers' : (\E x \in verifiers : x.id = w.id) \/ (r.op = "save" /\ w.id = r.verifier.id)
        /\ \A w \in agentVerifiers' : \E x \in agentVerifiers : x.id = w.id
        /\ \A e \in exchanges' : \E f \in exchanges : f.id = e.id
    BY <1>n, <2>1
  <2>7. VersPend(s)'
    BY <1>f, <2>1, <2>5, <2>6, VersPendKept
  <2> QED BY <2>1, <2>3, <2>4, <2>7 DEF VersIInv
<1>2. CASE Verifiers(s, o)!CreateAtAgent(r)
  <2> DEFINE q == [op |-> "save", verifier |-> v]
  <2>1. CASE /\ agentVerifiers' = agentVerifiers \cup {v} /\ pend' = (pend \ {r}) \cup {q} /\ r.op = "create"
             /\ UNCHANGED <<verifiers, exchanges, events, presentations, faults, started>>
    <3>1. v.id <= started /\ (\A w \in verifiers : w.id # v.id) /\ \A w \in agentVerifiers : w.id # v.id
      BY <1>n, <1>r, <2>1 DEF VerRequest
    <3>2. VersRows(s)'
      BY <2>1, <3>1 DEF VersIInv, VersRows, VerIdsUnique
    <3>3. VersSessions(s)'
      BY <2>1 DEF VersIInv, VersSessions, VerIdsUnique, VerFollows
    <3>4. q.op = "save" /\ q.verifier = v
      OBVIOUS
    <3> HIDE DEF q
    <3>5. VerRequest(s, q)' /\ q.op # "session"
      BY <2>1, <3>1, <3>4 DEF VerRequest
    <3>6. /\ \A w \in agentVerifiers' : (\E x \in agentVerifiers : x.id = w.id) \/ (r.op = "create" /\ w.id = r.verifier.id)
          /\ \A w \in verifiers' : \E x \in verifiers : x.id = w.id
          /\ \A e \in exchanges' : \E f \in exchanges : f.id = e.id
      BY <1>n, <2>1
    <3>7. VersPend(s)'
      BY <1>f, <1>n, <2>1, <3>4, <3>5, <3>6, VersPendKept
    <3> QED BY <2>1, <3>2, <3>3, <3>7 DEF VersIInv
  <2>2. CASE /\ UNCHANGED <<verifiers, agentVerifiers, exchanges, events, presentations>>
             /\ (Verifiers(s, o)!End(r) /\ UNCHANGED faults) \/ Verifiers(s, o)!Refused(r)
    BY <1>f, <2>2, VersRefused, VersEndKept DEF Verifiers!End
  <2> QED BY <1>2, <1>n, <2>1, <2>2 DEF Verifiers!CreateAtAgent, Verifiers!Go
<1> QED BY <1>1, <1>2

(* Handlers that change or remove a row: the ids that are left were there. *)
LEMMA VersRowsKept ==
  ASSUME NEW s, VersIInv(s), NEW r \in pend, NEW q, pend' \subseteq (pend \ {r}) \cup {q},
         UNCHANGED <<exchanges, events, presentations, faults, started>>,
         q \in pend' => VerRequest(s, q)' /\ q.op \notin {"create", "save", "session"},
         verifiers' \subseteq VerRow(s), agentVerifiers' \subseteq VerRow(s),
         VerIdsUnique(verifiers'), VerIdsUnique(agentVerifiers'),
         \A v \in verifiers' : \E w \in verifiers : w.id = v.id,
         \A v \in agentVerifiers' : \E w \in agentVerifiers : w.id = v.id
  PROVE  VersIInv(s)'
<1>1. VersPend(s)'
  <2>1. VersPend(s)
    BY DEF VersIInv
  <2>2. \A e \in exchanges' : \E f \in exchanges : f.id = e.id
    OBVIOUS
  <2> QED BY <2>1, <2>2, VersPendKept
<1>2. VersRows(s)'
  BY DEF VersIInv, VersRows, VerIdsUnique
<1>3. VersSessions(s)'
  BY DEF VersIInv, VersSessions, VerIdsUnique, VerFollows
<1> QED BY <1>1, <1>2, <1>3 DEF VersIInv

(* A handler of an update or a deletion goes on.                           *)
LEMMA VersGoOn ==
  ASSUME NEW s, NEW r, VerRequest(s, r), NEW q,
         \/ r.op = "update" /\ q = [r EXCEPT !.op = "write"]
         \/ r.op = "delete" /\ q = [r EXCEPT !.op = "remove"]
  PROVE  /\ VerRequest(s, q)' /\ q.verifier = r.verifier /\ r.verifier \in VerRow(s)
         /\ r.op = "update" => q.op = "write" /\ q.metadata = r.metadata
         /\ r.op = "delete" => q.op = "remove"
<1>1. CASE r.op = "update" /\ q = [r EXCEPT !.op = "write"]
  <2> DEFINE U == {"update", "write"}
             N == 1..s.requests
  <2>1. r \in [op : U, verifier : VerRow(s), metadata : N] /\ "write" \in U
    BY <1>1 DEF VerRequest
  <2> HIDE DEF U, N
  <2>2. /\ q \in [op : U, verifier : VerRow(s), metadata : N] /\ q.op = "write" /\ q.verifier = r.verifier
        /\ q.metadata = r.metadata
    BY <1>1, <2>1
  <2>3. VerRequest(s, q)'
    BY <2>2 DEF VerRequest, U, N
  <2>4. r.verifier \in VerRow(s)
    BY <2>1
  <2> QED BY <1>1, <2>2, <2>3, <2>4
<1>2. CASE r.op = "delete" /\ q = [r EXCEPT !.op = "remove"]
  <2> DEFINE U == {"delete", "remove"}
  <2>1. r \in [op : U, verifier : VerRow(s)] /\ "remove" \in U
    BY <1>2 DEF VerRequest
  <2> HIDE DEF U
  <2>2. q \in [op : U, verifier : VerRow(s)] /\ q.op = "remove" /\ q.verifier = r.verifier
    BY <1>2, <2>1
  <2>3. VerRequest(s, q)'
    BY <2>2 DEF VerRequest, U
  <2>4. r.verifier \in VerRow(s)
    BY <2>1
  <2> QED BY <1>2, <2>2, <2>3, <2>4
<1> QED BY <1>1, <1>2

(* The rows that an update or the write after it changes.                  *)
LEMMA VersUpdates ==
  ASSUME NEW s, NEW o \in BOOLEAN, VersIInv(s), NEW r \in pend
  PROVE  /\ Verifiers(s, o)!UpdateAtAgent(r) /\ agentVerifiers' # agentVerifiers =>
              agentVerifiers' = {VerChange(v, Verifiers(s, o)!AtAgent(r.verifier.org, r.verifier.public), r.metadata)
                                   : v \in agentVerifiers}
         /\ Verifiers(s, o)!WriteVerifier(r) =>
              verifiers' = {VerChange(v, {w \in verifiers : w.id = r.verifier.id}, r.metadata) : v \in verifiers}
<1>1. ASSUME Verifiers(s, o)!UpdateAtAgent(r), agentVerifiers' # agentVerifiers
      PROVE  agentVerifiers' = {VerChange(v, Verifiers(s, o)!AtAgent(r.verifier.org, r.verifier.public), r.metadata)
                                  : v \in agentVerifiers}
  BY <1>1 DEF Verifiers!UpdateAtAgent, VerChange
<1>2. ASSUME Verifiers(s, o)!WriteVerifier(r)
      PROVE  verifiers' = {VerChange(v, {w \in verifiers : w.id = r.verifier.id}, r.metadata) : v \in verifiers}
  <2>0. PICK X : X = {w \in verifiers : w.id = r.verifier.id}
    OBVIOUS
  <2>1. \A v \in verifiers : VerChange(v, X, r.metadata)
                             = IF v.id = r.verifier.id THEN [v EXCEPT !.metadata = r.metadata] ELSE v
    BY <2>0 DEF VerChange
  <2>2. verifiers' = {IF v.id = r.verifier.id THEN [v EXCEPT !.metadata = r.metadata] ELSE v : v \in verifiers}
    BY <1>2 DEF Verifiers!WriteVerifier
  <2>3. ASSUME NEW t
        PROVE  t \in verifiers' <=> t \in {VerChange(v, X, r.metadata) : v \in verifiers}
    <3>1. t \in verifiers' <=> \E v \in verifiers : t = VerChange(v, X, r.metadata)
      BY <2>1, <2>2
    <3> QED BY <3>1
  <2>4. verifiers' = {VerChange(v, X, r.metadata) : v \in verifiers}
    BY <2>3
  <2> QED BY <2>0, <2>4
<1> QED BY <1>1, <1>2

LEMMA VersChangeKept ==
  ASSUME NEW s, NEW o \in BOOLEAN, Verifiers(s, o)!VerifiersAssumption, VersIInv(s), NEW r \in pend,
         \/ Verifiers(s, o)!UpdateAtAgent(r) \/ Verifiers(s, o)!WriteVerifier(r)
         \/ Verifiers(s, o)!DeleteAtAgent(r) \/ Verifiers(s, o)!RemoveVerifier(r)
  PROVE  VersIInv(s)'
<1>f. faults \in 0..s.faults
  BY DEF VersIInv
<1>r. VerRequest(s, r)
  BY DEF VersIInv, VersPend
<1>t. /\ verifiers \in SUBSET VerRow(s) /\ agentVerifiers \in SUBSET VerRow(s)
      /\ VerIdsUnique(verifiers) /\ VerIdsUnique(agentVerifiers)
  BY DEF VersIInv, VersRows
<1>e. ASSUME UNCHANGED <<verifiers, agentVerifiers, exchanges, events, presentations>>,
             (Verifiers(s, o)!End(r) /\ UNCHANGED faults) \/ Verifiers(s, o)!Refused(r)
      PROVE  VersIInv(s)'
  BY <1>f, <1>e, VersRefused, VersEndKept DEF Verifiers!End
<1>1. CASE Verifiers(s, o)!UpdateAtAgent(r)
  <2>1. PICK q : q = [r EXCEPT !.op = "write"]
    OBVIOUS
  <2>2. CASE /\ r.op = "update" /\ pend' = (pend \ {r}) \cup {q}
             /\ UNCHANGED <<verifiers, exchanges, events, presentations, faults, started>>
    <3>1. VerRequest(s, q)' /\ q.op = "write"
      BY <1>r, <2>1, <2>2, VersGoOn
    <3>x. PICK X : X = Verifiers(s, o)!AtAgent(r.verifier.org, r.verifier.public)
      OBVIOUS
    <3>2. PICK m \in 1..s.requests : m = r.metadata
      BY <1>r, <2>2 DEF VerRequest
    <3>3. PICK T : T = agentVerifiers'
      OBVIOUS
    <3>4. T = agentVerifiers \/ T = {VerChange(v, X, m) : v \in agentVerifiers}
      BY <1>1, <3>x, <3>2, <3>3, VersUpdates
    <3>5. T \subseteq VerRow(s) /\ VerIdsUnique(T) /\ \A v \in T : \E w \in agentVerifiers : w.id = v.id
      BY <1>t, <3>4, VersChanged
    <3>6. /\ agentVerifiers' \subseteq VerRow(s) /\ VerIdsUnique(agentVerifiers')
          /\ \A v \in agentVerifiers' : \E w \in agentVerifiers : w.id = v.id
          /\ verifiers' \subseteq VerRow(s) /\ VerIdsUnique(verifiers') /\ \A v \in verifiers' : \E w \in verifiers : w.id = v.id
      BY <1>t, <2>2, <3>3, <3>5
    <3> QED BY <2>2, <3>1, <3>6, VersRowsKept
  <2> QED BY <1>1, <1>e, <2>1, <2>2 DEF Verifiers!UpdateAtAgent, Verifiers!Go
<1>2. CASE Verifiers(s, o)!WriteVerifier(r)
  <2>1. /\ r.op = "write" /\ pend' = pend \ {r}
        /\ UNCHANGED <<agentVerifiers, exchanges, events, presentations, faults, started>>
    BY <1>2 DEF Verifiers!WriteVerifier, Verifiers!End
  <2>x. PICK X : X = {w \in verifiers : w.id = r.verifier.id}
    OBVIOUS
  <2>2. PICK m \in 1..s.requests : m = r.metadata
    BY <1>r, <2>1 DEF VerRequest
  <2>3. PICK T : T = verifiers'
    OBVIOUS
  <2>4. T = {VerChange(v, X, m) : v \in verifiers}
    <3>1. verifiers' = {VerChange(v, {w \in verifiers : w.id = r.verifier.id}, r.metadata) : v \in verifiers}
      BY <1>2, VersUpdates
    <3> QED BY <2>x, <2>2, <2>3, <3>1
  <2>5. T \subseteq VerRow(s) /\ VerIdsUnique(T) /\ \A v \in T : \E w \in verifiers : w.id = v.id
    <3>1. PICK S \in SUBSET VerRow(s) : S = verifiers /\ VerIdsUnique(S)
      BY <1>t
    <3>2. T = {VerChange(v, X, m) : v \in S}
      BY <2>4, <3>1
    <3>3. T \subseteq VerRow(s) /\ VerIdsUnique(T) /\ \A v \in T : \E w \in S : v.id = w.id
      <4>1. \A v \in S : VerChange(v, X, m) \in VerRow(s) /\ VerChange(v, X, m).id = v.id
        BY <2>2, <3>1, VerChanged
      <4> QED BY <3>1, <3>2, <4>1 DEF VerIdsUnique
    <3> QED BY <3>1, <3>3
  <2>6. /\ agentVerifiers' \subseteq VerRow(s) /\ VerIdsUnique(agentVerifiers')
        /\ \A v \in agentVerifiers' : \E w \in agentVerifiers : w.id = v.id
        /\ verifiers' \subseteq VerRow(s) /\ VerIdsUnique(verifiers') /\ \A v \in verifiers' : \E w \in verifiers : w.id = v.id
        /\ pend' \subseteq (pend \ {r}) \cup {r} /\ r \notin pend'
    BY <1>t, <2>1, <2>3, <2>5
  <2> QED BY <2>1, <2>6, VersRowsKept
<1>3. CASE Verifiers(s, o)!DeleteAtAgent(r)
  <2>1. PICK q : q = [r EXCEPT !.op = "remove"]
    OBVIOUS
  <2>2. CASE /\ r.op = "delete" /\ pend' = (pend \ {r}) \cup {q} /\ agentVerifiers' \subseteq agentVerifiers
             /\ UNCHANGED <<verifiers, exchanges, events, presentations, faults, started>>
    <3>1. VerRequest(s, q)' /\ q.op = "remove"
      BY <1>r, <2>1, <2>2, VersGoOn
    <3>2. /\ agentVerifiers' \subseteq VerRow(s) /\ VerIdsUnique(agentVerifiers')
          /\ \A v \in agentVerifiers' : \E w \in agentVerifiers : w.id = v.id
          /\ verifiers' \subseteq VerRow(s) /\ VerIdsUnique(verifiers') /\ \A v \in verifiers' : \E w \in verifiers : w.id = v.id
      BY <1>t, <2>2 DEF VerIdsUnique
    <3> QED BY <2>2, <3>1, <3>2, VersRowsKept
  <2> QED BY <1>3, <1>e, <2>1, <2>2 DEF Verifiers!DeleteAtAgent, Verifiers!Go
<1>4. CASE Verifiers(s, o)!RemoveVerifier(r)
  <2>1. /\ pend' = pend \ {r} /\ verifiers' \subseteq verifiers
        /\ UNCHANGED <<agentVerifiers, exchanges, events, presentations, faults, started>>
    BY <1>4 DEF Verifiers!RemoveVerifier, Verifiers!End
  <2>2. /\ agentVerifiers' \subseteq VerRow(s) /\ VerIdsUnique(agentVerifiers')
        /\ \A v \in agentVerifiers' : \E w \in agentVerifiers : w.id = v.id
        /\ verifiers' \subseteq VerRow(s) /\ VerIdsUnique(verifiers') /\ \A v \in verifiers' : \E w \in verifiers : w.id = v.id
        /\ pend' \subseteq (pend \ {r}) \cup {r} /\ r \notin pend'
    BY <1>t, <2>1 DEF VerIdsUnique
  <2> QED BY <2>1, <2>2, VersRowsKept
<1> QED BY <1>1, <1>2, <1>3, <1>4

LEMMA VersLeftKept ==
  ASSUME NEW s, NEW o \in BOOLEAN, Verifiers(s, o)!VerifiersAssumption, VersIInv(s), NEW r \in pend,
         Verifiers(s, o)!RowLeftBehind(r)
  PROVE  VersIInv(s)'
<1>1. /\ UNCHANGED <<verifiers, agentVerifiers, exchanges, events, presentations, started>>
      /\ pend' = pend \ {r} /\ faults' \in 0..s.faults
  BY VersRefused DEF Verifiers!RowLeftBehind
<1> QED BY <1>1, VersEndKept

(* A session begins at the agent; the holder goes on; a post arrives.      *)
LEMMA VersSessionKept ==
  ASSUME NEW s, NEW o \in BOOLEAN, Verifiers(s, o)!VerifiersAssumption, VersIInv(s), NEW r \in pend,
         Verifiers(s, o)!SessionAtAgent(r)
  PROVE  VersIInv(s)'
<1>f. faults \in 0..s.faults /\ VersPend(s)
  BY DEF VersIInv
<1>r. VerRequest(s, r) /\ r.op = "session"
  BY DEF VersIInv, VersPend, Verifiers!SessionAtAgent
<1>n. PICK v \in VerRow(s), i \in 1..s.requests : v = r.verifier /\ i = r.id
  BY <1>r DEF VerRequest
<1> DEFINE e == [id |-> i, public |-> v.public, org |-> v.org, stage |-> 1]
<1>1. e \in VerExchange(s) /\ e.id = i /\ e.stage = 1
  BY DEF VerExchange, VerRow
<1>2. CASE /\ exchanges' = exchanges \cup {e} /\ events' = events \cup {e} /\ pend' = pend \ {r}
           /\ UNCHANGED <<verifiers, agentVerifiers, presentations, faults, started>>
  <2> HIDE DEF e
  <2>1. i <= started /\ \A f \in exchanges : f.id # i
    BY <1>n, <1>r DEF VerRequest
  <2>2. \A f : VerFollows(f) => VerFollows(f)'
    BY <1>2 DEF VerFollows
  <2>3. VerFollows(e)'
    BY <1>1, <1>2 DEF VerFollows
  <2>4. VersSessions(s)'
    <3>1. /\ exchanges' \subseteq VerExchange(s) /\ events' \subseteq VerExchange(s) /\ presentations' \subseteq VerExchange(s)
      BY <1>1, <1>2 DEF VersIInv, VersSessions
    <3>2. VerIdsUnique(exchanges)' /\ VerIdsUnique(presentations)' /\ \A f \in exchanges' : f.id <= started'
      BY <1>1, <1>2, <2>1 DEF VersIInv, VersSessions, VerIdsUnique
    <3>3. (\A f \in events' : VerFollows(f)') /\ \A p \in presentations' : VerFollows(p)'
      BY <1>2, <2>2, <2>3 DEF VersIInv, VersSessions
    <3> QED BY <3>1, <3>2, <3>3 DEF VersSessions
  <2>5. VersRows(s)'
    BY <1>2 DEF VersIInv, VersRows, VerIdsUnique
  <2>6. /\ \A w \in agentVerifiers' : \E x \in agentVerifiers : x.id = w.id
        /\ \A w \in verifiers' : \E x \in verifiers : x.id = w.id
        /\ \A f \in exchanges' : (\E g \in exchanges : g.id = f.id) \/ (r.op = "session" /\ f.id = r.id)
        /\ pend' \subseteq (pend \ {r}) \cup {r} /\ r \notin pend'
    BY <1>1, <1>2, <1>n, <1>r
  <2>7. VersPend(s)'
    BY <1>2, <1>f, <2>6, VersPendKept
  <2> QED BY <1>2, <2>4, <2>5, <2>7 DEF VersIInv
<1>3. CASE /\ UNCHANGED <<verifiers, agentVerifiers, exchanges, events, presentations>>
           /\ (Verifiers(s, o)!End(r) /\ UNCHANGED faults) \/ Verifiers(s, o)!Refused(r)
  BY <1>f, <1>3, VersRefused, VersEndKept DEF Verifiers!End
<1> QED BY <1>2, <1>3, <1>n DEF Verifiers!SessionAtAgent, Verifiers!End

LEMMA VersAdvanceKept ==
  ASSUME NEW s, NEW o \in BOOLEAN, Verifiers(s, o)!VerifiersAssumption, VersIInv(s), NEW e \in exchanges,
         Verifiers(s, o)!Advance(e)
  PROVE  VersIInv(s)'
<1>1. e \in VerExchange(s) /\ VerIdsUnique(exchanges)
  BY DEF VersIInv, VersSessions
<1>2. PICK g : g = [e EXCEPT !.stage = e.stage + 1]
  OBVIOUS
<1>3. /\ e.stage < 3 /\ exchanges' = (exchanges \ {e}) \cup {g} /\ events' = events \cup {g}
      /\ UNCHANGED <<verifiers, agentVerifiers, presentations, pend, started, faults>>
  BY <1>2 DEF Verifiers!Advance
<1>4. /\ g \in VerExchange(s) /\ g.id = e.id /\ g.org = e.org /\ g.public = e.public
      /\ e.stage \in Int /\ g.stage = e.stage + 1
  <2> DEFINE N == 1..s.requests
             M == 1..3
  <2>1. e \in [id : N, public : s.public, org : s.org, stage : M]
    BY <1>1 DEF VerExchange
  <2>2. e.stage \in M /\ e.stage + 1 \in M /\ e.stage \in Int
    BY <1>3, <2>1
  <2> HIDE DEF N, M
  <2>3. /\ g \in [id : N, public : s.public, org : s.org, stage : M] /\ g.id = e.id /\ g.org = e.org
        /\ g.public = e.public /\ g.stage = e.stage + 1
    BY <1>2, <2>1, <2>2
  <2> QED BY <2>2, <2>3 DEF N, M, VerExchange
<1>5. ASSUME NEW f, f.stage \in Int, VerFollows(f)
      PROVE  VerFollows(f)'
  <2>1. PICK x \in exchanges : x.id = f.id /\ x.org = f.org /\ x.public = f.public /\ f.stage <= x.stage
    BY <1>5 DEF VerFollows
  <2>2. CASE x = e
    <3>1. g \in exchanges' /\ g.id = f.id /\ g.org = f.org /\ g.public = f.public /\ f.stage <= g.stage
      BY <1>3, <1>4, <1>5, <2>1, <2>2
    <3> QED BY <3>1 DEF VerFollows
  <2>3. CASE x # e
    BY <1>3, <2>1, <2>3 DEF VerFollows
  <2> QED BY <2>2, <2>3
<1>6. VersSessions(s)'
  <2>1. exchanges' \subseteq VerExchange(s) /\ events' \subseteq VerExchange(s) /\ presentations' \subseteq VerExchange(s)
    BY <1>3, <1>4 DEF VersIInv, VersSessions
  <2>2. VerIdsUnique(exchanges)' /\ VerIdsUnique(presentations)' /\ \A f \in exchanges' : f.id <= started'
    BY <1>3, <1>4 DEF VersIInv, VersSessions, VerIdsUnique
  <2>3. g.stage \in Int /\ VerFollows(g)'
    BY <1>3, <1>4 DEF VerFollows
  <2>4. (\A f \in events : f.stage \in Int /\ VerFollows(f)) /\ \A p \in presentations : p.stage \in Int /\ VerFollows(p)
    BY DEF VersIInv, VersSessions, VerExchange
  <2>5. (\A f \in events' : VerFollows(f)') /\ \A p \in presentations' : VerFollows(p)'
    BY <1>3, <1>5, <2>3, <2>4
  <2> QED BY <2>1, <2>2, <2>5 DEF VersSessions
<1>7. VersRows(s)'
  BY <1>3 DEF VersIInv, VersRows, VerIdsUnique
<1>8. VersPend(s)'
  <2>1. \A x \in exchanges' : \E y \in exchanges : y.id = x.id
    BY <1>3, <1>4
  <2>2. \A r \in pend : VerRequest(s, r)'
    <3> SUFFICES ASSUME NEW r \in pend
                 PROVE  VerRequest(s, r)'
      OBVIOUS
    <3>1. VerRequest(s, r)
      BY DEF VersIInv, VersPend
    <3> QED BY <1>3, <2>1, <3>1 DEF VerRequest
  <2> QED BY <1>3, <2>2 DEF VersIInv, VersPend, VerDistinct
<1> QED BY <1>3, <1>6, <1>7, <1>8 DEF VersIInv

(* oid4vpPresentationWebhook: the owner of the row is the organization of  *)
(* the session.                                                            *)
VerStage(r, n) == [r EXCEPT !.stage = n]
LEMMA VerStaged ==
  ASSUME NEW s, NEW r \in VerExchange(s), NEW n \in 1..3
  PROVE  /\ VerStage(r, n) \in VerExchange(s) /\ VerStage(r, n).id = r.id /\ VerStage(r, n).org = r.org
         /\ VerStage(r, n).public = r.public /\ VerStage(r, n).stage = n
<1> DEFINE N == 1..s.requests
           M == 1..3
<1>1. r \in [id : N, public : s.public, org : s.org, stage : M] /\ n \in M
  BY DEF VerExchange
<1> HIDE DEF N, M
<1>2. /\ VerStage(r, n) \in [id : N, public : s.public, org : s.org, stage : M]
      /\ VerStage(r, n).id = r.id /\ VerStage(r, n).org = r.org
      /\ VerStage(r, n).public = r.public /\ VerStage(r, n).stage = n
  BY <1>1 DEF VerStage
<1> QED BY <1>2 DEF N, M, VerExchange

(* The rows after a post: the row of the session is the post, the others   *)
(* are as they were.                                                       *)
LEMMA VersStored ==
  ASSUME NEW s, NEW o \in BOOLEAN, Verifiers(s, o)!VerifiersAssumption, VersIInv(s),
         NEW e \in events, NEW path \in s.org, Verifiers(s, o)!Webhook(e, path)
  PROVE  /\ e \in VerExchange(s) /\ events' = events \ {e} /\ e \in presentations'
         /\ UNCHANGED <<verifiers, agentVerifiers, exchanges, torn, pend, started, faults>>
         /\ \A p \in presentations' : p = e \/ (p \in presentations /\ p.id # e.id)
         /\ \A p \in presentations : p.id # e.id => p \in presentations'
<1>1. e \in VerExchange(s) /\ VerFollows(e) /\ presentations \subseteq VerExchange(s) /\ VerIdsUnique(exchanges)
      /\ VerIdsUnique(presentations)
  BY DEF VersIInv, VersSessions
<1>2. PICK n \in 1..3 : n = e.stage
  BY <1>1 DEF VerExchange
<1>3. Verifiers(s, o)!Owner(e, path) = e.org
  BY DEF Verifiers!Owner, Verifiers!Webhook
<1>4. [e EXCEPT !.org = e.org] = e
  BY <1>1 DEF VerExchange
<1>5. /\ events' = events \ {e} /\ UNCHANGED <<verifiers, agentVerifiers, exchanges, torn, pend, started, faults>>
      /\ presentations' = IF \E r \in presentations : r.id = e.id
                          THEN {IF r.id = e.id THEN VerStage(r, n) ELSE r : r \in presentations}
                          ELSE presentations \cup {e}
  BY <1>2, <1>3, <1>4 DEF Verifiers!Webhook, Verifiers!Stored, VerStage
<1>6. ASSUME NEW r \in presentations, r.id = e.id
      PROVE  VerStage(r, n) = e
  <2>1. r \in VerExchange(s) /\ VerFollows(r)
    BY DEF VersIInv, VersSessions
  <2>2. r.org = e.org /\ r.public = e.public
    BY <1>1, <1>6, <2>1 DEF VerFollows, VerIdsUnique
  <2>3. /\ VerStage(r, n) \in VerExchange(s) /\ VerStage(r, n).id = e.id /\ VerStage(r, n).org = e.org
        /\ VerStage(r, n).public = e.public /\ VerStage(r, n).stage = e.stage
    BY <1>2, <1>6, <2>1, <2>2, VerStaged
  <2> QED BY <1>1, <2>3 DEF VerExchange
<1>7. CASE \E r \in presentations : r.id = e.id
  <2>1. presentations' = {IF r.id = e.id THEN VerStage(r, n) ELSE r : r \in presentations}
    BY <1>5, <1>7
  <2>2. \A p : p \in presentations' <=> \E r \in presentations : p = IF r.id = e.id THEN e ELSE r
    BY <1>6, <2>1
  <2> QED BY <1>1, <1>5, <1>7, <2>2
<1>8. CASE ~\E r \in presentations : r.id = e.id
  BY <1>1, <1>5, <1>8
<1> QED BY <1>7, <1>8

LEMMA VersWebhookKept ==
  ASSUME NEW s, NEW o \in BOOLEAN, Verifiers(s, o)!VerifiersAssumption, VersIInv(s),
         NEW e \in events, NEW path \in s.org, Verifiers(s, o)!Webhook(e, path)
  PROVE  VersIInv(s)'
<1>1. /\ e \in VerExchange(s) /\ events' = events \ {e}
      /\ UNCHANGED <<verifiers, agentVerifiers, exchanges, pend, started, faults>>
      /\ \A p \in presentations' : p = e \/ (p \in presentations /\ p.id # e.id)
  BY VersStored
<1>2. VersSessions(s)'
  <2>1. \A f : VerFollows(f) => VerFollows(f)'
    BY <1>1 DEF VerFollows
  <2>2. VerIdsUnique(presentations)' /\ presentations' \subseteq VerExchange(s)
    BY <1>1 DEF VersIInv, VersSessions, VerIdsUnique
  <2>3. (\A f \in events' : VerFollows(f)') /\ \A p \in presentations' : VerFollows(p)'
    BY <1>1, <2>1 DEF VersIInv, VersSessions
  <2> QED BY <1>1, <2>2, <2>3 DEF VersIInv, VersSessions, VerIdsUnique
<1>3. VersRows(s)'
  BY <1>1 DEF VersIInv, VersRows, VerIdsUnique
<1>4. VersPend(s)'
  BY <1>1 DEF VersIInv, VersPend, VerRequest, VerDistinct
<1> QED BY <1>1, <1>2, <1>3, <1>4 DEF VersIInv

LEMMA VersKept ==
  ASSUME NEW s, NEW o \in BOOLEAN, Verifiers(s, o)!VerifiersAssumption, VersIInv(s), Verifiers(s, o)!Next
  PROVE  VersIInv(s)'
<1>u. s.requests \in Nat /\ started \in 0..s.requests /\ verifiers \subseteq VerRow(s)
  BY VersUnfolded DEF VersIInv, VersRows
<1>1. ASSUME NEW a \in s.org, NEW p \in s.public, Verifiers(s, o)!CreateVerifier(a, p)
      PROVE  VersIInv(s)'
  <2>1. PICK n : n = started + 1
    OBVIOUS
  <2>2. n \in 1..s.requests
    BY <1>1, <1>u, <2>1 DEF Verifiers!CreateVerifier, Verifiers!Begin
  <2> DEFINE v == [id |-> n, public |-> p, org |-> a, metadata |-> n]
             q == [op |-> "create", verifier |-> v]
  <2>3. /\ Verifiers(s, o)!Begin(q)
        /\ UNCHANGED <<verifiers, agentVerifiers, exchanges, events, presentations, faults>>
    BY <1>1, <2>1 DEF Verifiers!CreateVerifier
  <2>4. v \in VerRow(s) /\ v.id = started + 1
    BY <2>1, <2>2 DEF VerRow
  <2> HIDE DEF v
  <2>5. q.op = "create" /\ q.verifier = v
    OBVIOUS
  <2> HIDE DEF q
  <2> QED BY <2>3, <2>4, <2>5, VersBeginKept
<1>2. ASSUME NEW v \in verifiers, Verifiers(s, o)!UpdateVerifier(v)
      PROVE  VersIInv(s)'
  <2>1. PICK n : n = started + 1
    OBVIOUS
  <2>2. n \in 1..s.requests
    BY <1>2, <1>u, <2>1 DEF Verifiers!UpdateVerifier, Verifiers!Begin
  <2> DEFINE q == [op |-> "update", verifier |-> v, metadata |-> n]
  <2>3. /\ Verifiers(s, o)!Begin(q)
        /\ UNCHANGED <<verifiers, agentVerifiers, exchanges, events, presentations, faults>>
    BY <1>2, <2>1 DEF Verifiers!UpdateVerifier
  <2>4. /\ q.op = "update" /\ q.verifier \in VerRow(s)
        /\ q \in [op : {"update", "write"}, verifier : VerRow(s), metadata : 1..s.requests]
    BY <1>u, <2>2
  <2> HIDE DEF q
  <2> QED BY <2>3, <2>4, VersBeginKept
<1>3. ASSUME NEW v \in verifiers, Verifiers(s, o)!DeleteVerifier(v)
      PROVE  VersIInv(s)'
  <2> DEFINE q == [op |-> "delete", verifier |-> v]
  <2>1. /\ Verifiers(s, o)!Begin(q)
        /\ UNCHANGED <<verifiers, agentVerifiers, exchanges, events, presentations, faults>>
    BY <1>3 DEF Verifiers!DeleteVerifier
  <2>2. q.op = "delete" /\ q.verifier \in VerRow(s) /\ q \in [op : {"delete", "remove"}, verifier : VerRow(s)]
    BY <1>u
  <2> HIDE DEF q
  <2> QED BY <2>1, <2>2, VersBeginKept
<1>4. ASSUME NEW v \in verifiers, Verifiers(s, o)!CreateSession(v)
      PROVE  VersIInv(s)'
  <2>1. PICK n : n = started + 1
    OBVIOUS
  <2> DEFINE q == [op |-> "session", id |-> n, verifier |-> v]
  <2>2. /\ Verifiers(s, o)!Begin(q)
        /\ UNCHANGED <<verifiers, agentVerifiers, exchanges, events, presentations, faults>>
    BY <1>4, <2>1 DEF Verifiers!CreateSession
  <2>3. q.op = "session" /\ q.id = started + 1 /\ q.verifier \in VerRow(s)
    BY <1>u, <2>1
  <2> HIDE DEF q
  <2> QED BY <2>2, <2>3, VersBeginKept
<1>5. ASSUME NEW r \in pend, Verifiers(s, o)!Steps(r)
      PROVE  VersIInv(s)'
  BY <1>5, VersCreatedKept, VersChangeKept, VersLeftKept, VersSessionKept DEF Verifiers!Steps
<1> QED BY <1>1, <1>2, <1>3, <1>4, <1>5, VersAdvanceKept, VersWebhookKept DEF Verifiers!Next

LEMMA VersBegin ==
  ASSUME NEW s, NEW o \in BOOLEAN, Verifiers(s, o)!VerifiersAssumption, Verifiers(s, o)!Init
  PROVE  VersIInv(s)
BY VersUnfolded DEF Verifiers!Init, VersIInv, VersRows, VersSessions, VersPend, VerIdsUnique

(* The handlers that may leave a row behind know the verifier.             *)
VersTorn(s) == torn \subseteq 1..s.requests
LEMMA VersTornKept ==
  ASSUME NEW s, NEW o \in BOOLEAN, VersIInv(s), VersTorn(s), Verifiers(s, o)!Next
  PROVE  VersTorn(s)'
<1>1. ASSUME NEW r \in pend, Verifiers(s, o)!RowLeftBehind(r)
      PROVE  VersTorn(s)'
  <2>1. r.verifier \in VerRow(s)
    BY DEF VersIInv, VersPend, VerRequest
  <2>2. r.verifier.id \in 1..s.requests
    BY <2>1 DEF VerRow
  <2> QED BY <1>1, <2>2 DEF Verifiers!RowLeftBehind, VersTorn
<1>2. ASSUME NEW r \in pend, Verifiers(s, o)!Steps(r)
      PROVE  VersTorn(s)'
  <2>1. CASE Verifiers(s, o)!RowLeftBehind(r)
    BY <1>1, <2>1
  <2>2. CASE ~Verifiers(s, o)!RowLeftBehind(r)
    <3>1. UNCHANGED torn
      BY <1>2, <2>2 DEF Verifiers!Steps, Verifiers!CreateAtAgent, Verifiers!SaveVerifier, Verifiers!UpdateAtAgent,
           Verifiers!WriteVerifier, Verifiers!DeleteAtAgent, Verifiers!RemoveVerifier, Verifiers!SessionAtAgent
    <3> QED BY <3>1 DEF VersTorn
  <2> QED BY <2>1, <2>2
<1>3. ASSUME ~\E r \in pend : Verifiers(s, o)!Steps(r)
      PROVE  VersTorn(s)'
  <2>1. UNCHANGED torn
    BY <1>3 DEF Verifiers!Next, Verifiers!CreateVerifier, Verifiers!UpdateVerifier, Verifiers!DeleteVerifier,
         Verifiers!CreateSession, Verifiers!Advance, Verifiers!Webhook
  <2> QED BY <2>1 DEF VersTorn
<1> QED BY <1>2, <1>3

LEMMA VersSafe ==
  ASSUME NEW s, NEW o \in BOOLEAN, Verifiers(s, o)!VerifiersAssumption, VersIInv(s), VersTorn(s)
  PROVE  Verifiers(s, o)!TypeOK /\ Verifiers(s, o)!PresentationOfSession
<1>1. Verifiers(s, o)!TypeOK
  BY VersUnfolded DEF Verifiers!TypeOK, VersIInv, VersTorn, VersRows, VersSessions, VerIdsUnique
<1>2. Verifiers(s, o)!PresentationOfSession
  BY DEF Verifiers!PresentationOfSession, VersIInv, VersSessions, VerFollows
<1> QED BY <1>1, <1>2

(* One request at a time and posts in order: rows that were not left       *)
(* behind and their records differ by what the handler is about to write,  *)
(* public ids are distinct, and the newest post of a session is on its way *)
(* or was stored last.                                                     *)
VerSameBut(S, T, X) == \A v : v.id \notin X => (v \in S <=> v \in T)
VerSame(S, T) == VerSameBut(S, T, torn)
VerAgree(r) ==
  /\ r.op \in {"create", "update", "delete", "session"} => VerSame(verifiers, agentVerifiers)
  /\ r.op \in {"create", "save"} => \A v \in verifiers : v.public # r.verifier.public
  /\ r.op = "update" => r.verifier \in verifiers
  /\ r.op = "save" => VerSame(verifiers \cup {r.verifier}, agentVerifiers)
  /\ r.op = "write" => VerSame({VerChange(v, {w \in verifiers : w.id = r.verifier.id}, r.metadata) : v \in verifiers},
                              agentVerifiers)
  /\ r.op = "remove" => VerSame({v \in verifiers : v.id # r.verifier.id}, agentVerifiers)
VerPublicsUnique == \A v, w \in verifiers : v.public = w.public => v = w
VersSettled ==
  \A e \in exchanges : e \in events \/ (e \in presentations /\ \A f \in events : f.id # e.id)
VersInTurn ==
  /\ \A r, q \in pend : r = q
  /\ pend = {} => VerSame(verifiers, agentVerifiers)
  /\ \A r \in pend : VerAgree(r)
  /\ VerPublicsUnique
  /\ VersSettled

LEMMA VersAgreeStill ==
  ASSUME UNCHANGED <<verifiers, agentVerifiers, torn>>
  PROVE  /\ VerSame(verifiers, agentVerifiers) => VerSame(verifiers, agentVerifiers)'
         /\ \A r : VerAgree(r) => VerAgree(r)'
<1>1. ASSUME NEW r, VerAgree(r)
      PROVE  VerAgree(r)'
  <2>1. {VerChange(v, {w \in verifiers : w.id = r.verifier.id}, r.metadata) : v \in verifiers}
        = {VerChange(v, {w \in verifiers' : w.id = r.verifier.id}, r.metadata) : v \in verifiers'}
    OBVIOUS
  <2>2. {v \in verifiers : v.id # r.verifier.id} = {v \in verifiers' : v.id # r.verifier.id}
    OBVIOUS
  <2> QED BY <1>1, <2>1, <2>2 DEF VerAgree, VerSame
<1> QED BY <1>1 DEF VerSame

LEMMA VersBeginInTurn ==
  ASSUME NEW s, VersInTurn, NEW q, Verifiers(s, FALSE)!Begin(q),
         UNCHANGED <<verifiers, agentVerifiers, exchanges, events, presentations, torn>>, q.op \notin {"save", "write", "remove"},
         VerSame(verifiers, agentVerifiers) => VerAgree(q)
  PROVE  VersInTurn'
<1>1. pend = {} /\ pend' = {q} /\ VerSame(verifiers, agentVerifiers)
  BY DEF Verifiers!Begin, VersInTurn
<1>2. VerAgree(q)'
  BY <1>1 DEF VerAgree, VerSame, VerSameBut
<1> QED BY <1>1, <1>2 DEF VersInTurn, VerPublicsUnique, VersSettled

LEMMA VersRequestedInTurn ==
  ASSUME NEW s, Verifiers(s, FALSE)!VerifiersAssumption, VersInTurn,
         \/ \E a \in s.org, p \in s.public : Verifiers(s, FALSE)!CreateVerifier(a, p)
         \/ \E v \in verifiers : \/ Verifiers(s, FALSE)!UpdateVerifier(v) \/ Verifiers(s, FALSE)!DeleteVerifier(v)
                                 \/ Verifiers(s, FALSE)!CreateSession(v)
  PROVE  VersInTurn'
<1>1. ASSUME NEW a \in s.org, NEW p \in s.public, Verifiers(s, FALSE)!CreateVerifier(a, p)
      PROVE  VersInTurn'
  <2>1. PICK v : v = [id |-> started + 1, public |-> p, org |-> a, metadata |-> started + 1]
    OBVIOUS
  <2> DEFINE q == [op |-> "create", verifier |-> v]
  <2>2. /\ Verifiers(s, FALSE)!Begin(q) /\ UNCHANGED <<verifiers, agentVerifiers, exchanges, events, presentations, torn>>
        /\ \A w \in verifiers : w.public # p
    BY <1>1, <2>1 DEF Verifiers!CreateVerifier
  <2>3. q.op = "create" /\ q.verifier = v /\ v.public = p
    BY <2>1
  <2> HIDE DEF q
  <2>4. VerSame(verifiers, agentVerifiers) => VerAgree(q)
    BY <2>2, <2>3 DEF VerAgree
  <2> QED BY <2>2, <2>3, <2>4, VersBeginInTurn
<1>2. ASSUME NEW v \in verifiers, Verifiers(s, FALSE)!UpdateVerifier(v)
      PROVE  VersInTurn'
  <2>1. PICK n : n = started + 1
    OBVIOUS
  <2> DEFINE q == [op |-> "update", verifier |-> v, metadata |-> n]
  <2>2. Verifiers(s, FALSE)!Begin(q) /\ UNCHANGED <<verifiers, agentVerifiers, exchanges, events, presentations, torn>>
    BY <1>2, <2>1 DEF Verifiers!UpdateVerifier
  <2>3. q.op = "update" /\ q.verifier = v
    OBVIOUS
  <2> HIDE DEF q
  <2>4. VerSame(verifiers, agentVerifiers) => VerAgree(q)
    BY <2>3 DEF VerAgree
  <2> QED BY <2>2, <2>3, <2>4, VersBeginInTurn
<1>3. ASSUME NEW v \in verifiers, Verifiers(s, FALSE)!DeleteVerifier(v)
      PROVE  VersInTurn'
  <2> DEFINE q == [op |-> "delete", verifier |-> v]
  <2>2. Verifiers(s, FALSE)!Begin(q) /\ UNCHANGED <<verifiers, agentVerifiers, exchanges, events, presentations, torn>>
    BY <1>3 DEF Verifiers!DeleteVerifier
  <2>3. q.op = "delete"
    OBVIOUS
  <2> HIDE DEF q
  <2>4. VerSame(verifiers, agentVerifiers) => VerAgree(q)
    BY <2>3 DEF VerAgree
  <2> QED BY <2>2, <2>3, <2>4, VersBeginInTurn
<1>4. ASSUME NEW v \in verifiers, Verifiers(s, FALSE)!CreateSession(v)
      PROVE  VersInTurn'
  <2>1. PICK n : n = started + 1
    OBVIOUS
  <2> DEFINE q == [op |-> "session", id |-> n, verifier |-> v]
  <2>2. Verifiers(s, FALSE)!Begin(q) /\ UNCHANGED <<verifiers, agentVerifiers, exchanges, events, presentations, torn>>
    BY <1>4, <2>1 DEF Verifiers!CreateSession
  <2>3. q.op = "session"
    OBVIOUS
  <2> HIDE DEF q
  <2>4. VerSame(verifiers, agentVerifiers) => VerAgree(q)
    BY <2>3 DEF VerAgree
  <2> QED BY <2>2, <2>3, <2>4, VersBeginInTurn
<1> QED BY <1>1, <1>2, <1>3, <1>4

(* The handler goes on or ends, and the sessions stay.                     *)
LEMMA VersGoInTurn ==
  ASSUME VersInTurn, UNCHANGED <<exchanges, events, presentations, torn>>, NEW q,
         \/ pend' = {} /\ VerSame(verifiers, agentVerifiers)'
         \/ pend' = {q} /\ VerAgree(q)',
         VerPublicsUnique'
  PROVE  VersInTurn'
BY DEF VersInTurn, VersSettled

LEMMA VersCreateInTurn ==
  ASSUME NEW s, Verifiers(s, FALSE)!VerifiersAssumption, VersIInv(s), VersInTurn, NEW r \in pend,
         Verifiers(s, FALSE)!CreateAtAgent(r) \/ Verifiers(s, FALSE)!SaveVerifier(r)
  PROVE  VersInTurn'
<1>p. pend = {r} /\ VerAgree(r) /\ VerPublicsUnique
  BY DEF VersInTurn
<1>v. PICK v : v = r.verifier
  OBVIOUS
<1>1. CASE Verifiers(s, FALSE)!SaveVerifier(r)
  <2>1. /\ r.op = "save" /\ pend' = {} /\ verifiers' = verifiers \cup {v}
        /\ UNCHANGED <<agentVerifiers, exchanges, events, presentations, torn>>
    BY <1>1, <1>p, <1>v DEF Verifiers!SaveVerifier, Verifiers!End
  <2>2. VerSame(verifiers \cup {v}, agentVerifiers) /\ \A w \in verifiers : w.public # v.public
    BY <1>p, <1>v, <2>1 DEF VerAgree
  <2>4. VerSame(verifiers, agentVerifiers)'
    BY <2>1, <2>2 DEF VerSame, VerSameBut
  <2>3. VerPublicsUnique'
    BY <1>p, <2>1, <2>2 DEF VerPublicsUnique
  <2> QED BY <2>1, <2>3, <2>4, VersGoInTurn
<1>2. CASE Verifiers(s, FALSE)!CreateAtAgent(r)
  <2> DEFINE q == [op |-> "save", verifier |-> v]
  <2>1. /\ r.op = "create" /\ UNCHANGED <<verifiers, exchanges, events, presentations, torn>>
        /\ \/ agentVerifiers' = agentVerifiers \cup {v} /\ pend' = {q}
           \/ agentVerifiers' = agentVerifiers /\ pend' = {}
    BY <1>2, <1>p, <1>v DEF Verifiers!CreateAtAgent, Verifiers!Go, Verifiers!End, Verifiers!Refused
  <2>2. q.op = "save" /\ q.verifier = v
    OBVIOUS
  <2> HIDE DEF q
  <2>3. VerSame(verifiers, agentVerifiers) /\ \A w \in verifiers : w.public # v.public
    BY <1>p, <1>v, <2>1 DEF VerAgree
  <2>4. VerPublicsUnique'
    BY <1>p, <2>1 DEF VerPublicsUnique
  <2>5. CASE agentVerifiers' = agentVerifiers \cup {v} /\ pend' = {q}
    <3>1. VerAgree(q)'
      BY <2>1, <2>2, <2>3, <2>5 DEF VerAgree, VerSame, VerSameBut
    <3> QED BY <2>1, <2>4, <2>5, <3>1, VersGoInTurn
  <2>6. CASE agentVerifiers' = agentVerifiers /\ pend' = {}
    <3>1. VerSame(verifiers, agentVerifiers)'
      BY <2>1, <2>3, <2>6 DEF VerSame, VerSameBut
    <3> QED BY <2>1, <2>4, <2>6, <3>1, VersGoInTurn
  <2> QED BY <2>1, <2>5, <2>6
<1> QED BY <1>1, <1>2

LEMMA VersChangeInTurn ==
  ASSUME NEW s, Verifiers(s, FALSE)!VerifiersAssumption, VersIInv(s), VersInTurn, NEW r \in pend,
         \/ Verifiers(s, FALSE)!UpdateAtAgent(r) \/ Verifiers(s, FALSE)!WriteVerifier(r)
         \/ Verifiers(s, FALSE)!DeleteAtAgent(r) \/ Verifiers(s, FALSE)!RemoveVerifier(r)
  PROVE  VersInTurn'
<1>p. pend = {r} /\ VerAgree(r) /\ VerPublicsUnique
  BY DEF VersInTurn
<1>r. VerRequest(s, r)
  BY DEF VersIInv, VersPend
<1>t. verifiers \in SUBSET VerRow(s) /\ agentVerifiers \in SUBSET VerRow(s) /\ VerIdsUnique(verifiers)
  BY DEF VersIInv, VersRows
<1>1. CASE Verifiers(s, FALSE)!UpdateAtAgent(r)
  <2>1. PICK q : q = [r EXCEPT !.op = "write"]
    OBVIOUS
  <2>2. PICK X : X = Verifiers(s, FALSE)!AtAgent(r.verifier.org, r.verifier.public)
    OBVIOUS
  <2>3. /\ r.op = "update" /\ UNCHANGED <<verifiers, exchanges, events, presentations, torn>>
        /\ \/ agentVerifiers' = {VerChange(v, X, r.metadata) : v \in agentVerifiers} /\ pend' = {q}
           \/ agentVerifiers' = agentVerifiers /\ pend' = {}
    <3>1. /\ r.op = "update" /\ UNCHANGED <<verifiers, exchanges, events, presentations, torn>>
          /\ \/ /\ agentVerifiers' = {IF v \in X THEN [v EXCEPT !.metadata = r.metadata] ELSE v : v \in agentVerifiers}
                /\ Verifiers(s, FALSE)!Go(r, q)
             \/ agentVerifiers' = agentVerifiers /\ Verifiers(s, FALSE)!End(r)
      BY <1>1, <2>1, <2>2 DEF Verifiers!UpdateAtAgent, Verifiers!Refused
    <3>2. Verifiers(s, FALSE)!Go(r, q) => pend' = {q}
      BY <1>p DEF Verifiers!Go
    <3>3. Verifiers(s, FALSE)!End(r) => pend' = {}
      BY <1>p DEF Verifiers!End
    <3>4. {IF v \in X THEN [v EXCEPT !.metadata = r.metadata] ELSE v : v \in agentVerifiers}
          = {VerChange(v, X, r.metadata) : v \in agentVerifiers}
      BY DEF VerChange
    <3> QED BY <3>1, <3>2, <3>3, <3>4
  <2>4. VerSame(verifiers, agentVerifiers) /\ r.verifier \in verifiers
    BY <1>p, <2>3 DEF VerAgree
  <2>5. \A w \in agentVerifiers : w.id \notin torn => (w \in X <=> w \in {v \in verifiers : v.id = r.verifier.id})
    BY <1>p, <1>t, <2>2, <2>4 DEF Verifiers!AtAgent, VerPublicsUnique, VerIdsUnique, VerSame, VerSameBut
  <2>6. VerPublicsUnique'
    BY <1>p, <2>3 DEF VerPublicsUnique
  <2>7. CASE agentVerifiers' = {VerChange(v, X, r.metadata) : v \in agentVerifiers} /\ pend' = {q}
    <3>1. q.op = "write" /\ q.verifier = r.verifier /\ q.metadata = r.metadata
      BY <1>r, <2>1, <2>3, VersGoOn
    <3>2. VerSame({VerChange(v, {w \in verifiers : w.id = q.verifier.id}, q.metadata) : v \in verifiers}, agentVerifiers)'
      <4>1. PICK m \in 1..s.requests : m = r.metadata
        BY <1>r, <2>3 DEF VerRequest
      <4>2. PICK Y : Y = {w \in verifiers : w.id = r.verifier.id}
        OBVIOUS
      <4>3. \A v \in VerRow(s) : VerChange(v, X, m).id = v.id /\ VerChange(v, Y, m).id = v.id
        BY <4>1, VerChanged
      <4>4. \A v \in agentVerifiers : v.id \notin torn => VerChange(v, X, m) = VerChange(v, Y, m)
        BY <2>5, <4>2 DEF VerChange
      <4>5. VerSame({VerChange(v, Y, m) : v \in verifiers}, {VerChange(v, X, m) : v \in agentVerifiers})
        BY <1>t, <2>4, <4>3, <4>4 DEF VerSame, VerSameBut
      <4>6. /\ {VerChange(v, {w \in verifiers' : w.id = q.verifier.id}, q.metadata) : v \in verifiers'}
               = {VerChange(v, Y, m) : v \in verifiers}
            /\ agentVerifiers' = {VerChange(v, X, m) : v \in agentVerifiers}
        BY <2>3, <2>7, <3>1, <4>1, <4>2
      <4> QED BY <2>3, <4>5, <4>6 DEF VerSame, VerSameBut
    <3>3. VerAgree(q)'
      BY <3>1, <3>2 DEF VerAgree
    <3> QED BY <2>3, <2>6, <2>7, <3>3, VersGoInTurn
  <2>8. CASE agentVerifiers' = agentVerifiers /\ pend' = {}
    <3>1. VerSame(verifiers, agentVerifiers)'
      BY <2>3, <2>4, <2>8 DEF VerSame, VerSameBut
    <3> QED BY <2>3, <2>6, <2>8, <3>1, VersGoInTurn
  <2> QED BY <2>3, <2>7, <2>8
<1>2. CASE Verifiers(s, FALSE)!WriteVerifier(r)
  <2>1. r.op = "write" /\ pend' = {} /\ UNCHANGED <<agentVerifiers, exchanges, events, presentations, torn>>
    BY <1>2, <1>p DEF Verifiers!WriteVerifier, Verifiers!End
  <2>2. PICK X : X = {w \in verifiers : w.id = r.verifier.id}
    OBVIOUS
  <2>3. PICK m \in 1..s.requests : m = r.metadata
    BY <1>r, <2>1 DEF VerRequest
  <2>4. verifiers' = {VerChange(v, {w \in verifiers : w.id = r.verifier.id}, r.metadata) : v \in verifiers}
    BY <1>2, VersUpdates
  <2>5. VerSame({VerChange(v, {w \in verifiers : w.id = r.verifier.id}, r.metadata) : v \in verifiers}, agentVerifiers)
    BY <1>p, <2>1 DEF VerAgree
  <2>9. VerSame(verifiers, agentVerifiers)'
    BY <2>1, <2>4, <2>5 DEF VerSame, VerSameBut
  <2>6. verifiers' = {VerChange(v, X, m) : v \in verifiers}
    BY <2>2, <2>3, <2>4
  <2>7. \A v \in verifiers : VerChange(v, X, m).public = v.public
    BY <1>t, <2>3, VerChanged
  <2>8. VerPublicsUnique'
    BY <1>p, <2>6, <2>7 DEF VerPublicsUnique
  <2> QED BY <2>1, <2>8, <2>9, VersGoInTurn
<1>3. CASE Verifiers(s, FALSE)!DeleteAtAgent(r)
  <2>1. PICK q : q = [r EXCEPT !.op = "remove"]
    OBVIOUS
  <2>2. /\ r.op = "delete" /\ UNCHANGED <<verifiers, exchanges, events, presentations, torn>>
        /\ \/ agentVerifiers' = {v \in agentVerifiers : v.id # r.verifier.id} /\ pend' = {q}
           \/ agentVerifiers' = agentVerifiers /\ pend' = {}
    BY <1>3, <1>p, <2>1 DEF Verifiers!DeleteAtAgent, Verifiers!Go, Verifiers!End, Verifiers!Refused
  <2>3. VerSame(verifiers, agentVerifiers)
    BY <1>p, <2>2 DEF VerAgree
  <2>4. q.op = "remove" /\ q.verifier = r.verifier
    BY <1>r, <2>1, <2>2, VersGoOn
  <2>5. VerPublicsUnique'
    BY <1>p, <2>2 DEF VerPublicsUnique
  <2>6. CASE agentVerifiers' = {v \in agentVerifiers : v.id # r.verifier.id} /\ pend' = {q}
    <3>1. VerAgree(q)'
      BY <2>2, <2>3, <2>4, <2>6 DEF VerAgree, VerSame, VerSameBut
    <3> QED BY <2>2, <2>5, <2>6, <3>1, VersGoInTurn
  <2>7. CASE agentVerifiers' = agentVerifiers /\ pend' = {}
    <3>1. VerSame(verifiers, agentVerifiers)'
      BY <2>2, <2>3, <2>7 DEF VerSame, VerSameBut
    <3> QED BY <2>2, <2>5, <2>7, <3>1, VersGoInTurn
  <2> QED BY <2>2, <2>6, <2>7
<1>4. CASE Verifiers(s, FALSE)!RemoveVerifier(r)
  <2>1. /\ r.op = "remove" /\ pend' = {} /\ verifiers' = {v \in verifiers : v.id # r.verifier.id}
        /\ UNCHANGED <<agentVerifiers, exchanges, events, presentations, torn>>
    BY <1>4, <1>p DEF Verifiers!RemoveVerifier, Verifiers!End
  <2>2. VerSame({v \in verifiers : v.id # r.verifier.id}, agentVerifiers)
    BY <1>p, <2>1 DEF VerAgree
  <2>4. VerSame(verifiers, agentVerifiers)'
    BY <2>1, <2>2 DEF VerSame, VerSameBut
  <2>3. VerPublicsUnique'
    BY <1>p, <2>1 DEF VerPublicsUnique
  <2> QED BY <2>1, <2>3, <2>4, VersGoInTurn
<1> QED BY <1>1, <1>2, <1>3, <1>4

(* A row that is left behind is the only one that differs.                 *)
LEMMA VersLeftInTurn ==
  ASSUME NEW s, Verifiers(s, FALSE)!VerifiersAssumption, VersIInv(s), VersInTurn, NEW r \in pend,
         Verifiers(s, FALSE)!RowLeftBehind(r)
  PROVE  VersInTurn'
<1>p. pend = {r} /\ VerAgree(r) /\ VersSettled /\ VerPublicsUnique /\ VerRequest(s, r)
  BY DEF VersInTurn, VersIInv, VersPend
<1>t. verifiers \in SUBSET VerRow(s)
  BY DEF VersIInv, VersRows
<1>v. PICK v : v = r.verifier
  OBVIOUS
<1>1. /\ r.op \in {"save", "write", "remove"} /\ pend' = {} /\ torn' = torn \cup {v.id}
      /\ UNCHANGED <<verifiers, agentVerifiers, exchanges, events, presentations>>
  BY <1>p, <1>v DEF Verifiers!RowLeftBehind, Verifiers!Refused, Verifiers!End
<1>2. VerSame(verifiers, agentVerifiers)'
  <2>1. CASE r.op = "save"
    <3>1. VerSame(verifiers \cup {v}, agentVerifiers)
      BY <1>p, <1>v, <2>1 DEF VerAgree
    <3> QED BY <1>1, <3>1 DEF VerSame, VerSameBut
  <2>2. CASE r.op = "write"
    <3>1. PICK m \in 1..s.requests : m = r.metadata
      BY <1>p, <2>2 DEF VerRequest
    <3>2. PICK Y : Y = {w \in verifiers : w.id = v.id}
      OBVIOUS
    <3>3. VerSame({VerChange(w, Y, m) : w \in verifiers}, agentVerifiers)
      BY <1>p, <1>v, <2>2, <3>1, <3>2 DEF VerAgree
    <3>4. \A w \in verifiers : VerChange(w, Y, m).id = w.id /\ (w.id # v.id => VerChange(w, Y, m) = w)
      <4>1. \A w \in verifiers : VerChange(w, Y, m).id = w.id
        BY <1>t, <3>1, VerChanged
      <4>2. \A w \in verifiers : w.id # v.id => VerChange(w, Y, m) = w
        BY <3>2 DEF VerChange
      <4> QED BY <4>1, <4>2
    <3> QED BY <1>1, <3>3, <3>4 DEF VerSame, VerSameBut
  <2>3. CASE r.op = "remove"
    <3>1. VerSame({w \in verifiers : w.id # v.id}, agentVerifiers)
      BY <1>p, <1>v, <2>3 DEF VerAgree
    <3> QED BY <1>1, <3>1 DEF VerSame, VerSameBut
  <2> QED BY <1>1, <2>1, <2>2, <2>3
<1> QED BY <1>1, <1>2, <1>p DEF VersInTurn, VersSettled, VerPublicsUnique

(* The sessions move, and the rows and the records stay.                   *)
LEMMA VersSessionInTurn ==
  ASSUME NEW s, Verifiers(s, FALSE)!VerifiersAssumption, VersIInv(s), VersInTurn, NEW r \in pend,
         Verifiers(s, FALSE)!SessionAtAgent(r)
  PROVE  VersInTurn'
<1>p. pend = {r} /\ VerAgree(r) /\ VerPublicsUnique /\ VersSettled /\ VerRequest(s, r)
  BY DEF VersInTurn, VersIInv, VersPend
<1>e. PICK e : e = [id |-> r.id, public |-> r.verifier.public, org |-> r.verifier.org, stage |-> 1]
  OBVIOUS
<1>1. /\ r.op = "session" /\ pend' = {} /\ UNCHANGED <<verifiers, agentVerifiers, presentations, torn>>
      /\ \/ exchanges' = exchanges \cup {e} /\ events' = events \cup {e}
         \/ exchanges' = exchanges /\ events' = events
  BY <1>e, <1>p DEF Verifiers!SessionAtAgent, Verifiers!End, Verifiers!Refused
<1>2. VerSame(verifiers, agentVerifiers) /\ e.id = r.id /\ \A x \in exchanges : x.id # r.id
  BY <1>1, <1>e, <1>p DEF VerAgree, VerRequest
<1>3. VersSettled'
  BY <1>1, <1>2, <1>p DEF VersSettled
<1> QED BY <1>1, <1>2, <1>3, <1>p DEF VersInTurn, VerPublicsUnique, VerSame, VerSameBut

LEMMA VersAdvanceInTurn ==
  ASSUME NEW s, Verifiers(s, FALSE)!VerifiersAssumption, VersIInv(s), VersInTurn, NEW e \in exchanges,
         Verifiers(s, FALSE)!Advance(e)
  PROVE  VersInTurn'
<1>1. e \in VerExchange(s) /\ VerIdsUnique(exchanges)
  BY DEF VersIInv, VersSessions
<1>2. PICK g : g = [e EXCEPT !.stage = e.stage + 1]
  OBVIOUS
<1>3. /\ exchanges' = (exchanges \ {e}) \cup {g} /\ events' = events \cup {g} /\ g.id = e.id
      /\ UNCHANGED <<verifiers, agentVerifiers, presentations, torn, pend>>
  BY <1>1, <1>2 DEF Verifiers!Advance, VerExchange
<1>4. VersSettled'
  BY <1>1, <1>3 DEF VersInTurn, VersSettled, VerIdsUnique
<1> QED BY <1>3, <1>4, VersAgreeStill DEF VersInTurn, VerPublicsUnique

(* Posts in order: the newest post of a session is the last to come.       *)
LEMMA VersWebhookInTurn ==
  ASSUME NEW s, Verifiers(s, FALSE)!VerifiersAssumption, VersIInv(s), VersInTurn,
         NEW e \in events, NEW path \in s.org, Verifiers(s, FALSE)!Webhook(e, path)
  PROVE  VersInTurn'
<1>1. /\ events' = events \ {e} /\ e \in presentations'
      /\ UNCHANGED <<verifiers, agentVerifiers, exchanges, torn, pend>>
      /\ \A p \in presentations : p.id # e.id => p \in presentations'
  BY VersStored
<1>2. \A f \in events : f.id = e.id => f.stage >= e.stage
  BY DEF Verifiers!Webhook
<1>3. \A f \in events : f \in VerExchange(s) /\ VerFollows(f)
  BY DEF VersIInv, VersSessions
<1>4. VersSettled'
  <2> SUFFICES ASSUME NEW x \in exchanges
               PROVE  x \in events' \/ (x \in presentations' /\ \A f \in events' : f.id # x.id)
    BY <1>1 DEF VersSettled
  <2>x. VerIdsUnique(exchanges) /\ x \in VerExchange(s)
    BY DEF VersIInv, VersSessions
  <2>1. CASE x.id # e.id
    BY <1>1, <2>1 DEF VersInTurn, VersSettled
  <2>2. CASE x.id = e.id /\ x # e
    BY <1>1, <2>2 DEF VersInTurn, VersSettled
  <2>3. CASE x = e
    <3>1. ASSUME NEW f \in events, f.id = e.id
          PROVE  f = e
      <4>1. f.org = x.org /\ f.public = x.public /\ f.stage <= x.stage
        BY <1>3, <2>3, <2>x, <3>1 DEF VerFollows, VerIdsUnique
      <4>2. f.stage >= e.stage /\ f.stage \in Int /\ x.stage \in Int
        BY <1>2, <1>3, <2>x, <3>1 DEF VerExchange
      <4>3. f.stage = x.stage
        BY <2>3, <4>1, <4>2
      <4> QED BY <1>3, <2>3, <2>x, <3>1, <4>1, <4>3 DEF VerExchange
    <3> QED BY <1>1, <2>3, <3>1
  <2> QED BY <2>1, <2>2, <2>3
<1> QED BY <1>1, <1>4, VersAgreeStill DEF VersInTurn, VerPublicsUnique

LEMMA VersInTurnKept ==
  ASSUME NEW s, Verifiers(s, FALSE)!VerifiersAssumption, VersIInv(s), VersInTurn, Verifiers(s, FALSE)!Next
  PROVE  VersInTurn'
<1>1. ASSUME NEW r \in pend, Verifiers(s, FALSE)!Steps(r)
      PROVE  VersInTurn'
  BY <1>1, VersCreateInTurn, VersChangeInTurn, VersLeftInTurn, VersSessionInTurn DEF Verifiers!Steps
<1>2. ASSUME \/ \E a \in s.org, p \in s.public : Verifiers(s, FALSE)!CreateVerifier(a, p)
             \/ \E v \in verifiers : \/ Verifiers(s, FALSE)!UpdateVerifier(v) \/ Verifiers(s, FALSE)!DeleteVerifier(v)
                                     \/ Verifiers(s, FALSE)!CreateSession(v)
      PROVE  VersInTurn'
  BY <1>2, VersRequestedInTurn
<1> QED BY <1>1, <1>2, VersAdvanceInTurn, VersWebhookInTurn DEF Verifiers!Next

LEMMA VersInTurnBegin ==
  ASSUME NEW s, Verifiers(s, FALSE)!VerifiersAssumption, Verifiers(s, FALSE)!Init
  PROVE  VersInTurn
BY DEF Verifiers!Init, VersInTurn, VerPublicsUnique, VersSettled, VerSame, VerSameBut

LEMMA VersInTurnSafe ==
  ASSUME NEW s, VersInTurn
  PROVE  /\ Verifiers(s, FALSE)!VerifiersMatchAgent /\ Verifiers(s, FALSE)!PublicIdUnique
         /\ Verifiers(s, FALSE)!PresentationSettled
<1>1. Verifiers(s, FALSE)!PresentationSettled
  BY DEF Verifiers!PresentationSettled, VersInTurn, VersSettled
<1>2. Verifiers(s, FALSE)!VerifiersMatchAgent
  BY DEF VersInTurn, VerSame, VerSameBut, Verifiers!VerifiersMatchAgent, Verifiers!Whole
<1> QED BY <1>1, <1>2 DEF VersInTurn, VerPublicsUnique, Verifiers!PublicIdUnique

-----------------------------------------------------------------------------
(* The parts together.                                                     *)

Oid4vcIInv ==
  /\ part = "issuers" => IssuersIInv(Setting.issuers, TRUE)
  /\ part = "issuersInTurn" => IssuersIInv(Setting.issuersInTurn, FALSE) /\ IssuersInTurn(Setting.issuersInTurn)
  /\ part = "lists" => ListsIInv(Setting.lists)
  /\ part = "listsInTurn" => /\ ListsIInv(Setting.listsInTurn) /\ ListsInTurn(Setting.listsInTurn)
                             /\ ListsHeld(Setting.listsInTurn)
  /\ part = "certs" => CertsIInv(Setting.certs)
  /\ part = "certsInTurn" => CertsIInv(Setting.certsInTurn) /\ CertsInTurn
  /\ part = "verifiers" => VersIInv(Setting.verifiers) /\ VersTorn(Setting.verifiers)
  /\ part = "verifiersInTurn" => /\ VersIInv(Setting.verifiersInTurn) /\ VersTorn(Setting.verifiersInTurn)
                                 /\ VersInTurn

LEMMA Oid4vcBegin == Init => Oid4vcIInv
<1> SUFFICES ASSUME Init
             PROVE  Oid4vcIInv
  OBVIOUS
<1>1. /\ part = "issuers" => Issuers(Setting.issuers, TRUE)!Init
      /\ part = "issuersInTurn" => Issuers(Setting.issuersInTurn, FALSE)!Init
      /\ part = "lists" => Lists(Setting.lists, TRUE)!Init
      /\ part = "listsInTurn" => Lists(Setting.listsInTurn, FALSE)!Init
      /\ part = "certs" => Certs(Setting.certs, TRUE)!Init
      /\ part = "certsInTurn" => Certs(Setting.certsInTurn, FALSE)!Init
      /\ part = "verifiers" => Verifiers(Setting.verifiers, TRUE)!Init
      /\ part = "verifiersInTurn" => Verifiers(Setting.verifiersInTurn, FALSE)!Init
  BY DEF Init
<1>2. part = "issuers" => IssuersIInv(Setting.issuers, TRUE)
  BY <1>1, ExchangesAssumption, IssuersBegin
<1>3. part = "issuersInTurn" => IssuersIInv(Setting.issuersInTurn, FALSE) /\ IssuersInTurn(Setting.issuersInTurn)
  BY <1>1, ExchangesAssumption, IssuersBegin, IssuersInTurnBegin
<1>4. part = "lists" => ListsIInv(Setting.lists)
  BY <1>1, ExchangesAssumption, ListsBegin
<1>5. part = "listsInTurn" => /\ ListsIInv(Setting.listsInTurn) /\ ListsInTurn(Setting.listsInTurn)
                              /\ ListsHeld(Setting.listsInTurn)
  BY <1>1, ExchangesAssumption, ListsBegin, ListsInTurnBegin, ListsHeldBegin
<1>6. part = "certs" => CertsIInv(Setting.certs)
  BY <1>1, ExchangesAssumption, CertsBegin
<1>7. part = "certsInTurn" => CertsIInv(Setting.certsInTurn) /\ CertsInTurn
  BY <1>1, ExchangesAssumption, CertsBegin, CertsInTurnBegin
<1>8. part = "verifiers" => VersIInv(Setting.verifiers) /\ VersTorn(Setting.verifiers)
  BY <1>1, ExchangesAssumption, VersBegin DEF Verifiers!Init, VersTorn
<1>9. part = "verifiersInTurn" => /\ VersIInv(Setting.verifiersInTurn) /\ VersTorn(Setting.verifiersInTurn)
                                  /\ VersInTurn
  BY <1>1, ExchangesAssumption, VersBegin, VersInTurnBegin DEF Verifiers!Init, VersTorn
<1> QED BY <1>2, <1>3, <1>4, <1>5, <1>6, <1>7, <1>8, <1>9 DEF Oid4vcIInv

LEMMA Oid4vcMoves ==
  ASSUME Oid4vcIInv, Next
  PROVE  Oid4vcIInv'
<1>1. /\ part = "issuers" => Issuers(Setting.issuers, TRUE)!Next
      /\ part = "issuersInTurn" => Issuers(Setting.issuersInTurn, FALSE)!Next
      /\ part = "lists" => Lists(Setting.lists, TRUE)!Next
      /\ part = "listsInTurn" => Lists(Setting.listsInTurn, FALSE)!Next
      /\ part = "certs" => Certs(Setting.certs, TRUE)!Next
      /\ part = "certsInTurn" => Certs(Setting.certsInTurn, FALSE)!Next
      /\ part = "verifiers" => Verifiers(Setting.verifiers, TRUE)!Next
      /\ part = "verifiersInTurn" => Verifiers(Setting.verifiersInTurn, FALSE)!Next
  BY DEF Next
<1>p. part' = part
  BY DEF Next
<1>2. part = "issuers" => IssuersIInv(Setting.issuers, TRUE)'
  BY <1>1, ExchangesAssumption, IssuersKept DEF Oid4vcIInv
<1>3. part = "issuersInTurn" => IssuersIInv(Setting.issuersInTurn, FALSE)' /\ IssuersInTurn(Setting.issuersInTurn)'
  BY <1>1, ExchangesAssumption, IssuersKept, IssuersInTurnKept DEF Oid4vcIInv
<1>4. part = "lists" => ListsIInv(Setting.lists)'
  BY <1>1, ExchangesAssumption, ListsKept DEF Oid4vcIInv
<1>5. part = "listsInTurn" => /\ ListsIInv(Setting.listsInTurn)' /\ ListsInTurn(Setting.listsInTurn)'
                              /\ ListsHeld(Setting.listsInTurn)'
  BY <1>1, ExchangesAssumption, ListsKept, ListsInTurnKept, ListsHeldKept DEF Oid4vcIInv
<1>6. part = "certs" => CertsIInv(Setting.certs)'
  BY <1>1, ExchangesAssumption, CertsKept DEF Oid4vcIInv
<1>7. part = "certsInTurn" => CertsIInv(Setting.certsInTurn)' /\ CertsInTurn'
  BY <1>1, ExchangesAssumption, CertsKept, CertsInTurnKept DEF Oid4vcIInv
<1>8. part = "verifiers" => VersIInv(Setting.verifiers)' /\ VersTorn(Setting.verifiers)'
  BY <1>1, ExchangesAssumption, VersKept, VersTornKept DEF Oid4vcIInv
<1>9. part = "verifiersInTurn" => /\ VersIInv(Setting.verifiersInTurn)' /\ VersTorn(Setting.verifiersInTurn)'
                                  /\ VersInTurn'
  BY <1>1, ExchangesAssumption, VersKept, VersTornKept, VersInTurnKept DEF Oid4vcIInv
<1> QED BY <1>p, <1>2, <1>3, <1>4, <1>5, <1>6, <1>7, <1>8, <1>9 DEF Oid4vcIInv

LEMMA Oid4vcRests ==
  ASSUME Oid4vcIInv, UNCHANGED vars
  PROVE  Oid4vcIInv'
<1>p. UNCHANGED <<part, issuerVars, listVars, certVars, verifierVars, pend, started, faults>>
  BY DEF vars
<1>1. \A s : \A o \in BOOLEAN : IssuersIInv(s, o) => IssuersIInv(s, o)'
  BY <1>p DEF issuerVars, IssuersIInv, Issuers!TypeOK, Issuers!AgentHasIssuer, Issuers!Stored, Issuers!RowExists,
              IssuersOnTheirWay
<1>2. \A s : IssuersInTurn(s) => IssuersInTurn(s)'
  BY <1>p DEF issuerVars, IssuersInTurn, TmplGood, TmplChanging, TmplReady
<1>3. \A s : ListsIInv(s) => ListsIInv(s)'
  BY <1>p DEF listVars, ListsIInv, OfferReady, KeptRows
<1>4. \A s : (ListsInTurn(s) => ListsInTurn(s)') /\ (ListsHeld(s) => ListsHeld(s)')
  BY <1>p DEF listVars, ListsInTurn, SnapshotCurrent, SlotsSet, SlotsDistinct, ListsHeld, HeldInTurn
<1>5. \A s : CertsIInv(s) => CertsIInv(s)'
  BY <1>p DEF certVars, CertsIInv, CertListed, CertRequest
<1>6. CertsInTurn => CertsInTurn'
  BY <1>p DEF certVars, CertsInTurn, CertClear, CertsDisjoint
<1>7. \A s : (VersIInv(s) => VersIInv(s)') /\ (VersTorn(s) => VersTorn(s)')
  BY <1>p DEF verifierVars, VersIInv, VersTorn, VersRows, VersSessions, VersPend, VerRequest, VerFollows
<1>8. VersInTurn => VersInTurn'
  BY <1>p, VersAgreeStill DEF verifierVars, VersInTurn, VerPublicsUnique, VersSettled
<1>9. /\ part = "issuers" => IssuersIInv(Setting.issuers, TRUE)'
      /\ part = "issuersInTurn" => IssuersIInv(Setting.issuersInTurn, FALSE)' /\ IssuersInTurn(Setting.issuersInTurn)'
  BY <1>1, <1>2 DEF Oid4vcIInv
<1>10. /\ part = "lists" => ListsIInv(Setting.lists)'
       /\ part = "listsInTurn" => /\ ListsIInv(Setting.listsInTurn)' /\ ListsInTurn(Setting.listsInTurn)'
                                  /\ ListsHeld(Setting.listsInTurn)'
  BY <1>3, <1>4 DEF Oid4vcIInv
<1>11. /\ part = "certs" => CertsIInv(Setting.certs)'
       /\ part = "certsInTurn" => CertsIInv(Setting.certsInTurn)' /\ CertsInTurn'
  BY <1>5, <1>6 DEF Oid4vcIInv
<1>12. /\ part = "verifiers" => VersIInv(Setting.verifiers)' /\ VersTorn(Setting.verifiers)'
       /\ part = "verifiersInTurn" => /\ VersIInv(Setting.verifiersInTurn)' /\ VersTorn(Setting.verifiersInTurn)'
                                      /\ VersInTurn'
  BY <1>7, <1>8 DEF Oid4vcIInv
<1> QED BY <1>p, <1>9, <1>10, <1>11, <1>12 DEF Oid4vcIInv

(* Oid4vcInv, for every set of issuers, templates, offers, list sizes,     *)
(* keys, periods and verifiers and every number of requests and faults:    *)
(* whatever overlaps and fails, a listed issuer is at the agent, the count *)
(* of a status list is that of its bitmap, an offer answered with a        *)
(* session can be revoked, a listed certificate has its key, a session is  *)
(* signed with a certificate that was in its period when it was read, and  *)
(* a presentation is kept for the organization of its session; one request *)
(* at a time, stored templates are configured but for those whose undo     *)
(* failed or came after an accepted configuration, indexes are not shared  *)
(* by offers whose own indexes differ, one certificate can sign at any     *)
(* instant, verifiers are what the wallets have but for those whose row    *)
(* was left behind, and posts in order leave a presentation in the state   *)
(* of its session.                                                         *)
THEOREM Oid4vcStaysSafe == Spec => []Oid4vcInv
<1>1. Init => Oid4vcIInv
  BY Oid4vcBegin
<1>2. Oid4vcIInv /\ [Next]_vars => Oid4vcIInv'
  BY Oid4vcMoves, Oid4vcRests
<1>3. Oid4vcIInv => Oid4vcInv
  <2> SUFFICES ASSUME Oid4vcIInv
               PROVE  Oid4vcInv
    OBVIOUS
  <2>1. part = "issuers" => Issuers(Setting.issuers, TRUE)!TypeOK /\ Issuers(Setting.issuers, TRUE)!AgentHasIssuer
    BY DEF Oid4vcIInv, IssuersIInv
  <2>2. part = "issuersInTurn" =>
          /\ Issuers(Setting.issuersInTurn, FALSE)!TypeOK /\ Issuers(Setting.issuersInTurn, FALSE)!AgentHasIssuer
          /\ Issuers(Setting.issuersInTurn, FALSE)!TemplatesConfigured
    BY ExchangesAssumption, InTurnConfigured DEF Oid4vcIInv, IssuersIInv
  <2>3. part = "lists" => /\ Lists(Setting.lists, TRUE)!TypeOK /\ Lists(Setting.lists, TRUE)!CountMatchesBitmap
                          /\ Lists(Setting.lists, TRUE)!SuccessIsRevocable
    BY ExchangesAssumption, ListsSafe DEF Oid4vcIInv
  <2>4. part = "listsInTurn" =>
          /\ Lists(Setting.listsInTurn, FALSE)!TypeOK /\ Lists(Setting.listsInTurn, FALSE)!CountMatchesBitmap
          /\ Lists(Setting.listsInTurn, FALSE)!SuccessIsRevocable /\ Lists(Setting.listsInTurn, FALSE)!IndexUnique
    BY ExchangesAssumption, ListsSafe, InTurnUnique DEF Oid4vcIInv
  <2>5. part = "certs" => /\ Certs(Setting.certs, TRUE)!TypeOK /\ Certs(Setting.certs, TRUE)!RowsInWallet
                          /\ Certs(Setting.certs, TRUE)!SignedInPeriod
    BY ExchangesAssumption, CertsSafe DEF Oid4vcIInv
  <2>6. part = "certsInTurn" =>
          /\ Certs(Setting.certsInTurn, FALSE)!TypeOK /\ Certs(Setting.certsInTurn, FALSE)!SignerUnambiguous
          /\ Certs(Setting.certsInTurn, FALSE)!SignedInPeriod
    BY ExchangesAssumption, CertsSafe, InTurnUnambiguous DEF Oid4vcIInv
  <2>7. part = "verifiers" => /\ Verifiers(Setting.verifiers, TRUE)!TypeOK
                              /\ Verifiers(Setting.verifiers, TRUE)!PresentationOfSession
    BY ExchangesAssumption, VersSafe DEF Oid4vcIInv
  <2>8. part = "verifiersInTurn" =>
          /\ Verifiers(Setting.verifiersInTurn, FALSE)!TypeOK
          /\ Verifiers(Setting.verifiersInTurn, FALSE)!VerifiersMatchAgent
          /\ Verifiers(Setting.verifiersInTurn, FALSE)!PublicIdUnique
          /\ Verifiers(Setting.verifiersInTurn, FALSE)!PresentationSettled
    BY ExchangesAssumption, VersSafe, VersInTurnSafe DEF Oid4vcIInv
  <2> QED BY <2>1, <2>2, <2>3, <2>4, <2>5, <2>6, <2>7, <2>8 DEF Oid4vcInv
<1> QED BY <1>1, <1>2, <1>3, PTL DEF Spec
=============================================================================

----------------------------- MODULE Oid4vcIssuers -----------------------------
(***************************************************************************)
(* OpenID4VCI issuers and credential templates of one organization.  The   *)
(* database has the rows; the agent has the issuers and, for each, the     *)
(* configuration built from its templates, which offers are made from.     *)
(* Every change of a template is a write to the database, a new            *)
(* configuration read from it, and a call of the agent; a call that fails  *)
(* is undone by hand, in the database only.                                *)
(***************************************************************************)
EXTENDS Naturals, FiniteSets

CONSTANTS Issuer, Template, Name,
          Overlap,       \* handlers may interleave
          MaxRequests,   \* bound: handlers that start
          MaxFaults      \* bound: calls of the agent or the database that fail

IssuerAssumption ==
  /\ \A S \in {Issuer, Template, Name} : IsFiniteSet(S)
  /\ Overlap \in BOOLEAN /\ MaxRequests \in Nat /\ MaxFaults \in Nat

VARIABLES issuer,    \* rows of oidc_issuer: none, primary or other
          tmpl,      \* rows of credential_templates
          agentIssuers, cfg,   \* at the agent
          broken,    \* history: templates whose undo failed, or whose
                     \* configuration was accepted and undone; a later
                     \* configuration mends them
          pend, started, faults

vars == <<issuer, tmpl, agentIssuers, cfg, broken, pend, started, faults>>

NoTemplate == [version |-> 0]
TemplateRow == [version : 1..MaxRequests, issuer : Issuer, name : Name]
Stored == {t \in Template : tmpl[t] # NoTemplate}
TemplatesOf(i) == {t \in Stored : tmpl[t].issuer = i}
RowExists(i) == issuer[i] # "none"
Primaries == {i \in Issuer : issuer[i] = "primary"}

(* The shape of the state: a template has its issuer (the foreign key).    *)
TypeOK ==
  /\ issuer \in [Issuer -> {"none", "primary", "other"}]
  /\ tmpl \in [Template -> TemplateRow \cup {NoTemplate}]
  /\ \A t \in Stored : RowExists(tmpl[t].issuer)
  /\ agentIssuers \subseteq Issuer
  /\ \A i \in Issuer : cfg[i] \subseteq (Template \X (1..MaxRequests))
  /\ broken \subseteq Template
  /\ started \in 0..MaxRequests /\ faults \in 0..MaxFaults

Init ==
  /\ issuer = [i \in Issuer |-> "none"] /\ tmpl = [t \in Template |-> NoTemplate]
  /\ agentIssuers = {} /\ cfg = [i \in Issuer |-> {}] /\ broken = {}
  /\ pend = {} /\ started = 0 /\ faults = 0

Begin(req) == /\ Overlap \/ pend = {}
              /\ started < MaxRequests /\ started' = started + 1
              /\ pend' = pend \cup {req}
Go(req, next) == req \in pend /\ pend' = (pend \ {req}) \cup {next} /\ UNCHANGED started
End(req) == req \in pend /\ pend' = pend \ {req} /\ UNCHANGED started
Fault == faults < MaxFaults /\ faults' = faults + 1

-----------------------------------------------------------------------------
(* buildOidcIssuerConfig(): what the database says now.                    *)
BuildOidcIssuerConfig(i) == {<<t, tmpl[t].version>> : t \in TemplatesOf(i)}
(* getTemplateByNameForIssuer().                                           *)
NameTaken(n, i, self) == \E t \in TemplatesOf(i) \ {self} : tmpl[t].name = n

(* A configuration on its way: built, then accepted or refused by the      *)
(* agent, or accepted with the answer lost, and what the handler does      *)
(* about a failure.                                                        *)
BuildConfig(req) ==
  /\ req.op = "build"
  /\ \/ /\ RowExists(req.issuer) /\ UNCHANGED faults
        /\ Go(req, [op |-> "push", issuer |-> req.issuer, undo |-> req.undo,
                    config |-> BuildOidcIssuerConfig(req.issuer)])
     \/ /\ (~RowExists(req.issuer) /\ UNCHANGED faults) \/ Fault
        /\ Go(req, [op |-> "undo", undo |-> req.undo])
  /\ UNCHANGED <<issuer, tmpl, agentIssuers, cfg, broken>>
Changed(undo) == IF undo.op = "none" THEN {} ELSE {undo.template}
CreateOIDCTemplate(req) ==
  /\ req.op = "push"
  /\ \/ /\ req.issuer \in agentIssuers /\ cfg' = [cfg EXCEPT ![req.issuer] = req.config]
        /\ \/ /\ End(req) /\ UNCHANGED faults
              /\ broken' = {t \in broken : \A v \in 1..MaxRequests : <<t, v>> \notin req.config}
           \/ /\ Fault /\ Go(req, [op |-> "undo", undo |-> req.undo])
              /\ broken' = broken \cup Changed(req.undo)
     \/ /\ (req.issuer \notin agentIssuers /\ UNCHANGED faults) \/ Fault
        /\ Go(req, [op |-> "undo", undo |-> req.undo]) /\ UNCHANGED <<cfg, broken>>
  /\ UNCHANGED <<issuer, tmpl, agentIssuers>>
(* Mutant: a refused update keeps the new row.                             *)
UndoCreateOnly(req) ==
  /\ req.op = "undo" /\ End(req)
  /\ tmpl' = IF req.undo.op = "create" THEN [tmpl EXCEPT ![req.undo.template] = NoTemplate] ELSE tmpl
  /\ UNCHANGED <<issuer, agentIssuers, cfg, broken, faults>>
(* createTemplate() deletes its row, updateTemplate() writes the row it    *)
(* had read back, and both only log that this failed; deleteTemplate() and *)
(* oidcIssuerUpdate() do nothing.                                          *)
Undo(req) ==
  /\ req.op = "undo" /\ End(req)
  /\ \/ /\ tmpl' = CASE req.undo.op = "create" -> [tmpl EXCEPT ![req.undo.template] = NoTemplate]
                     [] req.undo.op = "update" /\ req.undo.template \in Stored
                        /\ RowExists(req.undo.row.issuer) -> [tmpl EXCEPT ![req.undo.template] = req.undo.row]
                     [] OTHER -> tmpl
        /\ UNCHANGED <<broken, faults>>
     \/ /\ req.undo.op # "none" /\ Fault
        /\ broken' = broken \cup Changed(req.undo) /\ UNCHANGED tmpl
  /\ UNCHANGED <<issuer, agentIssuers, cfg>>

(* Any other write to the database that fails ends its handler.            *)
WriteFails(req) ==
  /\ req.op \in {"addIssuer", "deleteTemplates", "deleteIssuer", "createTemplate", "updateTemplate"}
  /\ Fault /\ End(req)
  /\ UNCHANGED <<issuer, tmpl, agentIssuers, cfg, broken>>

-----------------------------------------------------------------------------
(* oidcIssuerCreate(): whether there is a primary issuer is read first,    *)
(* then the agent creates the issuer, then the row.                        *)
OidcIssuerCreate(i) ==
  /\ Begin([op |-> "createIssuer", issuer |-> i, primary |-> Primaries = {}])
  /\ UNCHANGED <<issuer, tmpl, agentIssuers, cfg, broken, faults>>
OidcIssuerAtAgent(req) ==
  /\ req.op = "createIssuer"
  /\ \/ /\ req.issuer \notin agentIssuers
        /\ agentIssuers' = agentIssuers \cup {req.issuer}
        /\ cfg' = [cfg EXCEPT ![req.issuer] = {}]
        /\ \/ /\ Go(req, [op |-> "addIssuer", issuer |-> req.issuer, primary |-> req.primary])
              /\ UNCHANGED faults
           \/ Fault /\ End(req)                                       \* the answer is lost
     \/ /\ (req.issuer \in agentIssuers /\ UNCHANGED faults) \/ Fault     \* 409
        /\ End(req) /\ UNCHANGED <<agentIssuers, cfg>>
  /\ UNCHANGED <<issuer, tmpl, broken>>
AddOidcIssuerDetails(req) ==
  /\ req.op = "addIssuer" /\ End(req)
  /\ issuer' = [issuer EXCEPT ![req.issuer] = IF req.primary THEN "primary" ELSE "other"]
  /\ UNCHANGED <<tmpl, agentIssuers, cfg, broken, faults>>

(* updateOidcIssuerDetails(): isPrimary that is not given leaves the flag  *)
(* and is refused like FALSE.                                              *)
UpdateOidcIssuerDetails(i, primary) ==
  \/ primary = "yes" /\ issuer' = [k \in Issuer |-> CASE k = i -> "primary"
                                                     [] issuer[k] = "none" -> "none"
                                                     [] OTHER -> "other"]
  \/ /\ primary # "yes" /\ Primaries \ {i} # {}
     /\ issuer' = IF primary = "no" THEN [issuer EXCEPT ![i] = "other"] ELSE issuer
(* oidcIssuerUpdate(): that transaction, then the configuration.           *)
OidcIssuerUpdate(i, primary) ==
  /\ RowExists(i)
  /\ UpdateOidcIssuerDetails(i, primary)
  /\ Begin([op |-> "build", issuer |-> i, undo |-> [op |-> "none"]])
  /\ UNCHANGED <<tmpl, agentIssuers, cfg, broken, faults>>

(* deleteOidcIssuer(): the agent must know the issuer; then its templates, *)
(* its row and the agent's record go, in that order.                       *)
DeleteOidcIssuer(i) ==
  /\ RowExists(i) /\ i \in agentIssuers
  /\ Begin([op |-> "deleteTemplates", issuer |-> i])
  /\ UNCHANGED <<issuer, tmpl, agentIssuers, cfg, broken, faults>>
DeleteTemplatesByIssuerId(req) ==
  /\ req.op = "deleteTemplates"
  /\ tmpl' = [t \in Template |-> IF t \in TemplatesOf(req.issuer) THEN NoTemplate ELSE tmpl[t]]
  /\ Go(req, [op |-> "deleteIssuer", issuer |-> req.issuer])
  /\ UNCHANGED <<issuer, agentIssuers, cfg, broken, faults>>
(* Mutant: the agent deletes first.                                        *)
DeleteIssuerAgentFirst(req) ==
  /\ req.op = "deleteIssuer" /\ End(req)
  /\ agentIssuers' = agentIssuers \ {req.issuer}
  /\ issuer' = IF TemplatesOf(req.issuer) = {} THEN [issuer EXCEPT ![req.issuer] = "none"] ELSE issuer
  /\ UNCHANGED <<tmpl, cfg, broken, faults>>
DeleteIssuerRow(req) ==
  /\ req.op = "deleteIssuer"
  /\ \/ /\ RowExists(req.issuer) /\ TemplatesOf(req.issuer) = {}
        /\ issuer' = [issuer EXCEPT ![req.issuer] = "none"]
        /\ Go(req, [op |-> "deleteAtAgent", issuer |-> req.issuer])
     \/ /\ ~RowExists(req.issuer) \/ TemplatesOf(req.issuer) # {}
        /\ End(req) /\ UNCHANGED issuer
  /\ UNCHANGED <<tmpl, agentIssuers, cfg, broken, faults>>
DeleteIssuerAtAgent(req) ==
  /\ req.op = "deleteAtAgent" /\ End(req)
  /\ \/ agentIssuers' = agentIssuers \ {req.issuer} /\ UNCHANGED faults
     \/ Fault /\ agentIssuers' \in {agentIssuers, agentIssuers \ {req.issuer}}
  /\ UNCHANGED <<issuer, tmpl, cfg, broken>>

-----------------------------------------------------------------------------
(* createTemplate().                                                       *)
CreateTemplateCheck(t, i, n) ==
  /\ t \notin Stored /\ ~NameTaken(n, i, t)
  /\ Begin([op |-> "createTemplate", template |-> t, issuer |-> i, name |-> n, version |-> started + 1])
  /\ UNCHANGED <<issuer, tmpl, agentIssuers, cfg, broken, faults>>
CreateTemplate(req) ==
  /\ req.op = "createTemplate"
  /\ \/ /\ RowExists(req.issuer) /\ req.template \notin Stored
        /\ tmpl' = [tmpl EXCEPT ![req.template] = [version |-> req.version, issuer |-> req.issuer,
                                                   name |-> req.name]]
        /\ Go(req, [op |-> "build", issuer |-> req.issuer,
                    undo |-> [op |-> "create", template |-> req.template]])
     \/ ~RowExists(req.issuer) /\ End(req) /\ UNCHANGED tmpl
  /\ UNCHANGED <<issuer, agentIssuers, cfg, broken, faults>>

(* updateTemplate(): the row as it was is kept for the rollback; n is the  *)
(* new name or the old one, which is not checked.  The issuer of the       *)
(* request replaces the template's.                                        *)
UpdateTemplateCheck(t, i, n) ==
  /\ t \in Stored
  /\ n # tmpl[t].name => ~NameTaken(n, i, t)
  /\ Begin([op |-> "updateTemplate", template |-> t, row |-> tmpl[t],
            new |-> [version |-> started + 1, issuer |-> i, name |-> n]])
  /\ UNCHANGED <<issuer, tmpl, agentIssuers, cfg, broken, faults>>
UpdateTemplate(req) ==
  /\ req.op = "updateTemplate"
  /\ \/ /\ req.template \in Stored /\ RowExists(req.new.issuer)
        /\ tmpl' = [tmpl EXCEPT ![req.template] = req.new]
        /\ Go(req, [op |-> "build", issuer |-> req.new.issuer,
                    undo |-> [op |-> "update", template |-> req.template, row |-> req.row]])
     \/ /\ ~(req.template \in Stored /\ RowExists(req.new.issuer))
        /\ End(req) /\ UNCHANGED tmpl
  /\ UNCHANGED <<issuer, agentIssuers, cfg, broken, faults>>

(* deleteTemplate(): the row goes first and stays away; the configuration  *)
(* is that of the issuer the request names.                                *)
DeleteTemplate(t, i) ==
  /\ t \in Stored
  /\ tmpl' = [tmpl EXCEPT ![t] = NoTemplate]
  /\ Begin([op |-> "build", issuer |-> i, undo |-> [op |-> "none"]])
  /\ UNCHANGED <<issuer, agentIssuers, cfg, broken, faults>>

Steps(req) ==
  \/ BuildConfig(req) \/ CreateOIDCTemplate(req) \/ Undo(req) \/ WriteFails(req)
  \/ OidcIssuerAtAgent(req) \/ AddOidcIssuerDetails(req)
  \/ DeleteTemplatesByIssuerId(req) \/ DeleteIssuerRow(req) \/ DeleteIssuerAtAgent(req)
  \/ CreateTemplate(req) \/ UpdateTemplate(req)
Next ==
  \/ \E i \in Issuer : \/ OidcIssuerCreate(i) \/ DeleteOidcIssuer(i)
                       \/ \E p \in {"yes", "no", "absent"} : OidcIssuerUpdate(i, p)
                       \/ \E t \in Template, n \in Name : CreateTemplateCheck(t, i, n) \/ UpdateTemplateCheck(t, i, n)
                       \/ \E t \in Template : DeleteTemplate(t, i)
  \/ \E req \in pend : Steps(req)

Spec == Init /\ [][Next]_vars

-----------------------------------------------------------------------------
(* An issuer the database lists exists at the agent, whatever handlers     *)
(* overlap and fail: creation asks the agent first, deletion last.         *)
AgentHasIssuer == \A i \in Issuer : RowExists(i) => i \in agentIssuers

(* Once a handler has ended, the agent is configured with every template   *)
(* of the database in its stored version, because a refused change is      *)
(* undone.  Only a template whose undo failed, or whose configuration the  *)
(* agent took although its answer was lost, may differ, and only until the *)
(* next configuration of its issuer.                                       *)
TemplatesConfigured ==
  pend = {} => \A t \in Stored \ broken : <<t, tmpl[t].version>> \in cfg[tmpl[t].issuer]
=============================================================================

---------------------------- MODULE EcosystemIntents ----------------------------
(***************************************************************************)
(* Intents of ecosystems, the verification templates assigned to them, for *)
(* one organization or for all, and their notices.  Handlers check and then*)
(* write; the database refuses what its keys and indexes forbid.           *)
(***************************************************************************)
EXTENDS Naturals, FiniteSets

CONSTANTS Ecosystem, Name, Org, Template,
          Overlap,       \* handlers may interleave
          MaxRequests    \* bound: requests

All == "all"         \* orgId null: for every organization

IntentsAssumption ==
  /\ \A S \in {Ecosystem, Name, Org, Template} : IsFiniteSet(S)
  /\ All \notin Org /\ Overlap \in BOOLEAN /\ MaxRequests \in Nat

VARIABLES intents,    \* rows of intents
          templates,  \* rows of intent_templates
          notices,    \* rows of intent_notices
          member,     \* organizations of each ecosystem: their status
          organisations,       \* rows of organisation
          pend, started

vars == <<intents, templates, notices, member, organisations, pend, started>>

Id == 1..MaxRequests
(* under: not a column, the ecosystem that the writer of the name named    *)
Intent == [id : Id, eco : Ecosystem, name : Name, under : Ecosystem]
Assignment == [id : Id, intent : Id, org : Org \cup {All}, template : Template]
Notice == [id : Id, intent : Id, org : Org \cup {All}]
Known(i) == \E r \in intents : r.id = i
EcosystemOf(i) == (CHOOSE r \in intents : r.id = i).eco

(* The shape of the state; references exist, and the two unique indexes on *)
(* intent_templates.                                                       *)
TypeOK ==
  /\ intents \subseteq Intent /\ templates \subseteq Assignment /\ notices \subseteq Notice
  /\ member \in [Ecosystem -> [Org -> {"none", "ACTIVE", "SUSPENDED"}]] /\ organisations \subseteq Org
  /\ \A r \in templates \cup notices : Known(r.intent) /\ r.org \in organisations \cup {All}
  /\ \A t, s \in templates : t.intent = s.intent /\ t.org = s.org /\ t.template = s.template => t = s
  /\ \A e \in Ecosystem, o \in Org : member[e][o] # "none" => o \in organisations
  /\ started \in 0..MaxRequests

Init == /\ intents = {} /\ templates = {} /\ notices = {} /\ pend = {} /\ started = 0
        /\ member = [e \in Ecosystem |-> [o \in Org |-> "ACTIVE"]] /\ organisations = Org

Free == (Overlap \/ pend = {}) /\ started < MaxRequests /\ started' = started + 1
Request(req) == Free /\ pend' = pend \cup {req} /\ UNCHANGED <<intents, templates, notices, member, organisations>>
End(req) == req \in pend /\ pend' = pend \ {req} /\ UNCHANGED started

-----------------------------------------------------------------------------
(* createIntent(), updateIntent(): no other intent of the ecosystem has    *)
(* the name (checkIntentExist).  An update writes by id, whichever         *)
(* ecosystem the intent is in.                                             *)
NameFree(e, n, i) == \A r \in intents : ~(r.eco = e /\ r.name = n /\ r.id # i)
CreateIntent(e, n) ==
  /\ NameFree(e, n, 0) /\ Request([op |-> "createIntent", id |-> started + 1, eco |-> e, name |-> n])
(* Mutant: an update does not look for the name.                           *)
UpdateIntentUnchecked(e, i, n) ==
  /\ Known(i) /\ Request([op |-> "updateIntent", id |-> i, eco |-> e, name |-> n])
UpdateIntent(e, i, n) ==
  /\ Known(i) /\ NameFree(e, n, i) /\ Request([op |-> "updateIntent", id |-> i, eco |-> e, name |-> n])
WriteIntent(req) ==
  /\ req.op \in {"createIntent", "updateIntent"} /\ End(req)
  /\ intents' = IF req.op = "createIntent"
                THEN intents \cup {[id |-> req.id, eco |-> req.eco, name |-> req.name, under |-> req.eco]}
                ELSE {IF r.id = req.id THEN [r EXCEPT !.name = req.name, !.under = req.eco] ELSE r : r \in intents}
  /\ UNCHANGED <<templates, notices, member, organisations>>
(* deleteIntent(): refused while anything refers to the intent.            *)
DeleteIntent(e, i) ==
  /\ \E r \in intents : r.id = i /\ r.eco = e
  /\ \A r \in templates \cup notices : r.intent # i
  /\ Free /\ intents' = {r \in intents : r.id # i}
  /\ UNCHANGED <<templates, notices, member, organisations, pend>>

-----------------------------------------------------------------------------
(* createIntentTemplate(): for an active member, or for all.               *)
Assigned(i, o, t) == {r \in templates : r.intent = i /\ r.org = o /\ r.template = t}
CreateIntentTemplate(i, o, t) ==
  /\ Known(i) /\ (o # All => member[EcosystemOf(i)][o] = "ACTIVE") /\ Assigned(i, o, t) = {}
  /\ Request([op |-> "template", id |-> started + 1, intent |-> i, org |-> o, template |-> t])
(* updateIntentTemplate(): membership is not asked for.                    *)
UpdateIntentTemplate(id, i, o, t) ==
  /\ \E r \in templates : r.id = id
  /\ Assigned(i, o, t) \subseteq {r \in templates : r.id = id}
  /\ Request([op |-> "template", id |-> id, intent |-> i, org |-> o, template |-> t])
(* The intent and the organization must exist, and the indexes             *)
(* intent_templates_unique_org and intent_templates_unique_no_org refuse a *)
(* second assignment.  (An update of a deleted row writes nothing; it is   *)
(* left out, as its id would be taken for a new one.)                      *)
WriteTemplate(req) ==
  /\ req.op = "template" /\ End(req)
  /\ IF /\ Known(req.intent) /\ req.org \in organisations \cup {All}
        /\ \A r \in Assigned(req.intent, req.org, req.template) : r.id = req.id
     THEN templates' = {r \in templates : r.id # req.id}
                 \cup {[id |-> req.id, intent |-> req.intent, org |-> req.org, template |-> req.template]}
     ELSE UNCHANGED templates
  /\ UNCHANGED <<intents, notices, member, organisations>>
DeleteIntentTemplate(id) ==
  /\ \E r \in templates : r.id = id
  /\ \A req \in pend : req.op = "template" => req.id # id
  /\ Free /\ templates' = {r \in templates : r.id # id}
  /\ UNCHANGED <<intents, notices, member, organisations, pend>>

(* Mutant: the assignment for all is found next to that of the             *)
(* organization.                                                           *)
ResolvedBoth(n, o, e) ==
  {r \in templates : r.org \in {o, All} /\ \E i \in intents : i.id = r.intent /\ i.name = n /\ i.eco = e}
(* getIntentTemplateByIntentAndOrg(): the assignment of the organization   *)
(* before the one for all.                                                 *)
Resolved(n, o, e) ==
  LET of(x) == {r \in templates : r.org = x /\ \E i \in intents : i.id = r.intent /\ i.name = n /\ i.eco = e}
  IN  IF of(o) # {} THEN of(o) ELSE of(All)

(* createIntentNotice(): the URL answers, the organization is in the       *)
(* ecosystem, and there is no notice for it yet.                           *)
CreateIntentNotice(i, o) ==
  /\ Known(i) /\ (o # All => member[EcosystemOf(i)][o] # "none")
  /\ \A r \in notices : ~(r.intent = i /\ r.org = o)
  /\ Request([op |-> "notice", id |-> started + 1, intent |-> i, org |-> o])
WriteNotice(req) ==
  /\ req.op = "notice" /\ End(req)
  /\ IF Known(req.intent) /\ req.org \in organisations \cup {All}
     THEN notices' = notices \cup {[id |-> req.id, intent |-> req.intent, org |-> req.org]}
     ELSE UNCHANGED notices
  /\ UNCHANGED <<intents, templates, member, organisations>>
DeleteIntentNotice(id) ==
  /\ \E r \in notices : r.id = id
  /\ Free /\ notices' = {r \in notices : r.id # id}
  /\ UNCHANGED <<intents, templates, member, organisations, pend>>

-----------------------------------------------------------------------------
(* updateEcosystemOrgStatus(), deleteOrgsFromEcosystem(): what was         *)
(* assigned stays.                                                         *)
MemberChanges(e, o, s) ==
  /\ member[e][o] # "none" /\ member[e][o] # s
  /\ Free /\ member' = [member EXCEPT ![e][o] = s]
  /\ UNCHANGED <<intents, templates, notices, organisations, pend>>
(* deleteOrg(): an organization that is in no ecosystem; the foreign keys  *)
(* of templates and notices are set to null, unless that breaks the index. *)
DeleteOrg(o) ==
  /\ o \in organisations /\ \A e \in Ecosystem : member[e][o] = "none"
  /\ Free /\ organisations' = organisations \ {o}
  /\ \A r \in templates : r.org = o => Assigned(r.intent, All, r.template) = {}
  /\ templates' = {IF r.org = o THEN [r EXCEPT !.org = All] ELSE r : r \in templates}
  /\ notices' = {IF r.org = o THEN [r EXCEPT !.org = All] ELSE r : r \in notices}
  /\ UNCHANGED <<intents, member, pend>>

Next ==
  \/ \E req \in pend : WriteIntent(req) \/ WriteTemplate(req) \/ WriteNotice(req)
  \/ \E e \in Ecosystem, n \in Name : CreateIntent(e, n) \/ \E i \in Id : UpdateIntent(e, i, n)
  \/ \E e \in Ecosystem, i \in Id : DeleteIntent(e, i)
  \/ \E i \in Id, o \in Org \cup {All}, t \in Template :
       CreateIntentTemplate(i, o, t) \/ \E id \in Id : UpdateIntentTemplate(id, i, o, t)
  \/ \E i \in Id, o \in Org \cup {All} : CreateIntentNotice(i, o)
  \/ \E id \in Id : DeleteIntentTemplate(id) \/ DeleteIntentNotice(id)
  \/ \E e \in Ecosystem, o \in Org, s \in {"none", "ACTIVE", "SUSPENDED"} : MemberChanges(e, o, s)
  \/ \E o \in Org : DeleteOrg(o)

Spec == Init /\ [][Next]_vars

-----------------------------------------------------------------------------
(* While requests come one after the other, intents that got their names   *)
(* from requests for their own ecosystem do not share one there            *)
(* (createIntent, updateIntent).  updateIntent() does not ask whether the  *)
(* intent is in the ecosystem of its request, and looks for the name in    *)
(* that one.                                                               *)
Own(r) == r.under = r.eco
IntentNameUnique == \A r, s \in intents : Own(r) /\ Own(s) /\ r.eco = s.eco /\ r.name = s.name => r = s

(* At most one template of a kind answers a lookup by such a name: the     *)
(* assignment for the organization hides the one for all                   *)
(* (getIntentTemplateByIntentAndOrg).                                      *)
LookupUnambiguous ==
  \A n \in Name, o \in Org, e \in Ecosystem, t \in Template :
    (\A r \in intents : r.eco = e /\ r.name = n => Own(r))
      => Cardinality({r \in Resolved(n, o, e) : r.template = t}) <= 1

================================================================================

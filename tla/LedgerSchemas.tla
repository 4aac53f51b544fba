----------------------------- MODULE LedgerSchemas -----------------------------
(***************************************************************************)
(* Schemas and credential definitions (apps/ledger).  A schema is          *)
(* registered with the ledger or the schema file server, through the       *)
(* agent, before the platform writes its row; nothing takes a registration *)
(* back.  Whether a name is free is asked of the rows before the           *)
(* registration and again before the write.                                *)
(***************************************************************************)
EXTENDS Naturals, Sequences, FiniteSets, FiniteSetsExt

CONSTANTS Org, Did,
          HomeOf,        \* the organization a DID belongs to
          Name,          \* names as they are entered: sequences of letters
          Tag,           \* the same for tags
          Overlap,       \* handlers may interleave
          MaxRequests,   \* bound: handlers that start
          MaxFaults      \* bound: calls that fail

LedgerAssumption ==
  /\ IsFiniteSet(Name) /\ IsFiniteSet(Tag) /\ HomeOf \in [Did -> Org]
  /\ \A n \in Name \cup Tag : n \in Seq(STRING) /\ \E i \in DOMAIN n : n[i] # "blank"
  /\ Overlap \in BOOLEAN /\ MaxRequests \in Nat /\ MaxFaults \in Nat

VARIABLES did,        \* orgDid of the organization's wallet, or none
          schemas,    \* rows of schema
          credDefs,   \* rows of credential_definition
          ledger,     \* what is registered
          lost,       \* orgDids of deleted wallets
          pend, started, faults

vars == <<did, schemas, credDefs, ledger, lost, pend, started, faults>>

-----------------------------------------------------------------------------
(* Names, compared without case; "blank" stands for any blank.  The version is *)
(* compared like the name, and all schemas have the same one here.         *)
Trim(n) == LET ink == {i \in DOMAIN n : n[i] # "blank"} IN SubSeq(n, Min(ink), Max(ink))
Lower(n) == [i \in DOMAIN n |-> IF n[i] = "A" THEN "a" ELSE n[i]]
Contains(s, t) == \E i \in 0..(Len(s) - Len(t)) : SubSeq(Lower(s), i + 1, i + Len(t)) = Lower(t)

Live == {r \in schemas : ~r.archived}
(* schemaExists(): part of the name of an Indy schema is enough.           *)
SchemaExists(n) == \E r \in Live : r.type = "indy" /\ Contains(r.name, n)
(* Mutant: case matters.                                                   *)
W3cSchemaExistsCaseSensitive(n, o) == \E r \in Live : r.type = "w3c" /\ r.org = o /\ r.name = n
(* w3cSchemaExists(): the whole name, in one organization.                 *)
W3cSchemaExists(n, o) == \E r \in Live : r.type = "w3c" /\ r.org = o /\ Lower(r.name) = Lower(n)
(* Mutant: case matters.                                                   *)
GetByAttributeCaseSensitive(id, tag) == \E c \in credDefs : c.schema = id /\ c.tag = tag
(* getByAttribute().                                                       *)
GetByAttribute(id, tag) == \E c \in credDefs : c.schema = id /\ Contains(c.tag, tag)

(* The shape of the state: a definition has the row of its schema, and a   *)
(* stored Indy name has no blanks around it.                               *)
TypeOK ==
  /\ did \in [Org -> Did \cup {"none"}] /\ lost \subseteq Did
  /\ \A r \in schemas : r.type \in {"indy", "w3c", "migrated"} /\ r.org \in Org /\ r.issuer \in Did
  /\ \A r \in schemas : r.type = "indy" => r.name = Trim(r.name)
  /\ \A c \in credDefs : \E r \in schemas : r.id = c.schema
  /\ started \in 0..MaxRequests /\ faults \in 0..MaxFaults

Init ==
  /\ did \in [Org -> Did] /\ \A o \in Org : HomeOf[did[o]] = o
  /\ schemas = {} /\ credDefs = {} /\ ledger = {} /\ lost = {}
  /\ pend = {} /\ started = 0 /\ faults = 0

Begin(req) == /\ Overlap \/ pend = {}
              /\ started < MaxRequests /\ started' = started + 1
              /\ pend' = pend \cup {req}
Go(req, next) == req \in pend /\ pend' = (pend \ {req}) \cup {next} /\ UNCHANGED started
End(req) == req \in pend /\ pend' = pend \ {req} /\ UNCHANGED started
Fails(req) == faults < MaxFaults /\ faults' = faults + 1 /\ End(req)

-----------------------------------------------------------------------------
(* createSchema() of an Indy schema: the name is looked up as it was       *)
(* entered and registered without the blanks.  The request may name        *)
(* another DID of the wallet.                                              *)
CreateSchema(o, d, n) ==
  /\ did[o] # "none" /\ HomeOf[d] = o /\ d \notin lost
  /\ ~SchemaExists(n)
  /\ Begin([op |-> "register", row |-> [id |-> <<"indy", d, Trim(n)>>, name |-> Trim(n), type |-> "indy",
                                        org |-> o, issuer |-> d, archived |-> FALSE]])
  /\ UNCHANGED <<did, schemas, credDefs, ledger, lost, faults>>
(* createW3CSchema(): the resource gets an id of its own and the name      *)
(* stays as it is.                                                         *)
CreateW3CSchema(o, n) ==
  /\ did[o] # "none"
  /\ ~W3cSchemaExists(n, o)
  /\ Begin([op |-> "register", row |-> [id |-> <<"w3c", started + 1>>, name |-> n, type |-> "w3c",
                                        org |-> o, issuer |-> did[o], archived |-> FALSE]])
  /\ UNCHANGED <<did, schemas, credDefs, ledger, lost, faults>>
(* Mutant: a state other than finished counts as success.                  *)
RegisterUnfinished(req) ==
  /\ req.op = "register" /\ Go(req, [req EXCEPT !.op = "recheck"])
  /\ \/ ledger' = ledger \cup {req.row.id} /\ UNCHANGED faults
     \/ faults < MaxFaults /\ faults' = faults + 1 /\ UNCHANGED ledger
  /\ UNCHANGED <<did, schemas, credDefs, lost>>
(* _createSchema(), _createW3CSchema(), _createW3CledgerAgnostic(): an     *)
(* error, and a state other than finished, end the request.                *)
Register(req) ==
  /\ req.op = "register"
  /\ \/ /\ ledger' = ledger \cup {req.row.id}
        /\ Go(req, [req EXCEPT !.op = "recheck"]) /\ UNCHANGED faults
     \/ Fails(req) /\ UNCHANGED ledger
  /\ UNCHANGED <<did, schemas, credDefs, lost>>
(* Mutant: the name that was free is still free.                           *)
RecheckSkipped(req) ==
  /\ req.op = "recheck" /\ Go(req, [req EXCEPT !.op = "insert"])
  /\ UNCHANGED <<did, schemas, credDefs, ledger, lost, faults>>
(* saveSchema(): the name that was registered is looked up among the Indy  *)
(* schemas, for a W3C schema too.                                          *)
Recheck(req) ==
  /\ req.op = "recheck"
  /\ IF SchemaExists(req.row.name) THEN End(req) ELSE Go(req, [req EXCEPT !.op = "insert"])
  /\ UNCHANGED <<did, schemas, credDefs, ledger, lost, faults>>
(* An unknown network and a failed write leave the registration behind.    *)
SaveSchema(req) ==
  /\ req.op = "insert"
  /\ \/ schemas' = schemas \cup {req.row} /\ End(req) /\ UNCHANGED faults
     \/ Fails(req) /\ UNCHANGED schemas
  /\ UNCHANGED <<did, credDefs, ledger, lost>>

(* migrateW3CSchema(): the row, found by its URL and whatever its type,    *)
(* gets the wallet's DID and the type of the target.                       *)
MigrateW3CSchema(o, r) ==
  /\ did[o] # "none" /\ r.org = o /\ r.type # "indy"
  /\ Begin([op |-> "migrate", id |-> r.id, issuer |-> did[o]])
  /\ UNCHANGED <<did, schemas, credDefs, ledger, lost, faults>>
UpdateSchemaLedgerDetails(req) ==
  /\ req.op = "migrate"
  /\ \/ /\ schemas' = {IF r.id = req.id THEN [r EXCEPT !.issuer = req.issuer, !.type = "migrated"] ELSE r
                       : r \in schemas}
        /\ End(req) /\ UNCHANGED faults
     \/ Fails(req) /\ UNCHANGED schemas
  /\ UNCHANGED <<did, credDefs, ledger, lost>>

(* deleteWallet() of agent-service archives the schemas of orgDid first;   *)
(* when that fails the wallet stays.                                       *)
DeleteWallet(o) ==
  /\ did[o] # "none"
  /\ Begin([op |-> "archive", org |-> o, issuer |-> did[o]])
  /\ UNCHANGED <<did, schemas, credDefs, ledger, lost, faults>>
(* Mutant: archives what the organization has published in W3C form.       *)
ArchiveW3cOnly(req) ==
  /\ req.op = "archive"
  /\ schemas' = {IF r.issuer = req.issuer /\ r.type = "w3c" THEN [r EXCEPT !.archived = TRUE] ELSE r : r \in schemas}
  /\ Go(req, [req EXCEPT !.op = "remove"])
  /\ UNCHANGED <<did, credDefs, ledger, lost, faults>>
ArchiveSchemas(req) ==
  /\ req.op = "archive"
  /\ \/ /\ schemas' = {IF r.issuer = req.issuer THEN [r EXCEPT !.archived = TRUE] ELSE r : r \in schemas}
        /\ Go(req, [req EXCEPT !.op = "remove"]) /\ UNCHANGED faults
     \/ Fails(req) /\ UNCHANGED schemas
  /\ UNCHANGED <<did, credDefs, ledger, lost>>
(* An agent that refuses takes the deletion of the rows back, not the      *)
(* archiving.                                                              *)
RemoveWallet(req) ==
  /\ req.op = "remove"
  /\ \/ /\ did' = [did EXCEPT ![req.org] = "none"] /\ lost' = lost \cup ({did[req.org]} \ {"none"})
        /\ End(req) /\ UNCHANGED faults
     \/ Fails(req) /\ UNCHANGED <<did, lost>>
  /\ UNCHANGED <<schemas, credDefs, ledger>>
(* A new wallet, from a DID that was not deleted (OrgWallet).              *)
CreateWallet(o, d) ==
  /\ did[o] = "none" /\ HomeOf[d] = o /\ d \notin lost /\ (Overlap \/ pend = {})
  /\ did' = [did EXCEPT ![o] = d]
  /\ UNCHANGED <<schemas, credDefs, ledger, lost, pend, started, faults>>

-----------------------------------------------------------------------------
(* createCredentialDefinition(): the tag is trimmed before it is looked    *)
(* up; any schema of the ledger will do, its row is looked for after the   *)
(* registration.                                                           *)
CreateCredentialDefinition(o, d, id, tag) ==
  /\ did[o] # "none" /\ HomeOf[d] = o /\ d \notin lost
  /\ ~GetByAttribute(id, Trim(tag))
  /\ Begin([op |-> "define", def |-> [id |-> <<"def", d, id, Trim(tag)>>, schema |-> id, tag |-> Trim(tag),
                                      org |-> o]])
  /\ UNCHANGED <<did, schemas, credDefs, ledger, lost, faults>>
RegisterDefinition(req) ==
  /\ req.op = "define"
  /\ \/ /\ req.def.schema \in ledger
        /\ ledger' = ledger \cup {req.def.id}
        /\ Go(req, [req EXCEPT !.op = "find"]) /\ UNCHANGED faults
     \/ Fails(req) /\ UNCHANGED ledger
  /\ UNCHANGED <<did, schemas, credDefs, lost>>
(* getSchemaById() and getByAttribute() of saveCredentialDefinition().     *)
FindSchema(req) ==
  /\ req.op = "find"
  /\ IF (\E r \in schemas : r.id = req.def.schema) /\ ~GetByAttribute(req.def.schema, req.def.tag)
     THEN Go(req, [req EXCEPT !.op = "saveDef"]) ELSE End(req)
  /\ UNCHANGED <<did, schemas, credDefs, ledger, lost, faults>>
SaveCredentialDefinition(req) ==
  /\ req.op = "saveDef" /\ End(req)
  /\ credDefs' = credDefs \cup {req.def}
  /\ UNCHANGED <<did, schemas, ledger, lost, faults>>

Steps(req) ==
  \/ Register(req) \/ Recheck(req) \/ SaveSchema(req) \/ UpdateSchemaLedgerDetails(req)
  \/ ArchiveSchemas(req) \/ RemoveWallet(req)
  \/ RegisterDefinition(req) \/ FindSchema(req) \/ SaveCredentialDefinition(req)
Next ==
  \/ \E o \in Org : \/ DeleteWallet(o)
                    \/ \E n \in Name : CreateW3CSchema(o, n) \/ \E d \in Did : CreateSchema(o, d, n)
                    \/ \E r \in schemas : MigrateW3CSchema(o, r)
                    \/ \E d \in Did : CreateWallet(o, d)
                    \/ \E d \in Did, id \in ledger, tag \in Tag :
                         id[1] = "indy" /\ CreateCredentialDefinition(o, d, id, tag)
  \/ \E req \in pend : Steps(req)

Spec == Init /\ [][Next]_vars

-----------------------------------------------------------------------------
(* A schema or definition that is listed is registered, whatever overlaps  *)
(* and fails (createSchema, createW3CSchema, createCredentialDefinition).  *)
RowsRegistered == \A r \in schemas \cup credDefs : r.id \in ledger

(* One request at a time, two live Indy schemas differ in more than case   *)
(* and blanks, two live W3C schemas of an organization in more than case,  *)
(* two definitions of a schema in more than case: the lookup before the    *)
(* registration takes the name as it was entered, the one before the write *)
(* catches the rest (schemaExists, w3cSchemaExists, getByAttribute).       *)
NamesDistinct ==
  /\ \A r, s \in Live : r # s /\ r.type = s.type /\ r.type # "migrated" /\ (r.type = "indy" \/ r.org = s.org)
                        => Lower(r.name) # Lower(s.name)
  /\ \A c, d \in credDefs : c # d /\ c.schema = d.schema => Lower(c.tag) # Lower(d.tag)

(* One request at a time, no live schema is left of the DID of a deleted   *)
(* wallet: credentials of it could not be issued any more (deleteWallet,   *)
(* archiveSchemas).                                                        *)
LostDidArchived == pend = {} => \A r \in Live : r.issuer \notin lost
=============================================================================

------------------------------ MODULE Exchanges ------------------------------
(* Credentials, proofs and the wallets of holders: exchange records, proof *)
(* requests, schemas and definitions, cloud wallets, OID4VC issuers and    *)
(* verifiers, status lists and certificates.  Each part is checked on its  *)
(* own: the first state chooses a part and an instance of it, and only     *)
(* that part moves.  Parts that name a value alike share the variable.     *)
EXTENDS Naturals

CONSTANT Setting   \* a record: for each part a record of its sets and bounds

VARIABLES part,
          dedicated, unlabelled, wallet, agent, posts, sent, row, files,
          allow, targets, emailData, mails, saved,
          users, base, sub, tenants, records, orphans,
          issuer, tmpl, agentIssuers, cfg, broken,
          lists, offer, allocations, atAgent, revoked,
          certs, keys, now, signed,
          verifiers, agentVerifiers, exchanges, events, presentations, torn,
          did, schemas, credDefs, ledger, lost,
          pend, started, faults

recordVars == <<dedicated, unlabelled, wallet, agent, posts, sent, row, files>>
proofVars  == <<allow, targets, emailData, mails, saved>>
cloudVars  == <<users, base, sub, tenants, records, orphans>>
issuerVars == <<issuer, tmpl, agentIssuers, cfg, broken>>
listVars   == <<lists, offer, allocations, atAgent, revoked>>
certVars   == <<certs, keys, now, signed>>
verifierVars == <<verifiers, agentVerifiers, exchanges, events, presentations, torn>>
ledgerVars == <<did, schemas, credDefs, ledger, lost>>
vars == <<part, recordVars, proofVars, cloudVars, issuerVars, listVars, certVars, verifierVars, ledgerVars,
          pend, started, faults>>

-----------------------------------------------------------------------------
(* Each module with the sets and bounds s of a part.  Handlers interleave   *)
(* or one request runs at a time; posts arrive in order or not; the agent   *)
(* may leave a call without an answer or not; base wallets are managed by   *)
(* users or not.                                                            *)
Records(s, overlap, ordered) == INSTANCE ExchangeRecords WITH
  Conn <- s.conn, Cred <- s.cred, Pres <- s.pres, Oob <- s.oob, Length <- s.length,
  Ordered <- ordered, Overlap <- overlap, MaxRequests <- s.requests, MaxFaults <- s.faults
Redirects == INSTANCE ProofRequests WITH
  Origin <- Setting.redirects.origin, Plain <- Setting.redirects.plain, Letter <- Setting.redirects.letter,
  PathLength <- Setting.redirects.pathLength, AllowHttp <- Setting.redirects.http, Email <- Setting.redirects.email,
  Overlap <- TRUE, MaxRequests <- Setting.redirects.requests, MaxFaults <- Setting.redirects.faults
Emails == INSTANCE ProofRequests WITH
  Origin <- Setting.emails.origin, Plain <- Setting.emails.plain, Letter <- Setting.emails.letter,
  PathLength <- Setting.emails.pathLength, AllowHttp <- Setting.emails.http, Email <- Setting.emails.email,
  Overlap <- FALSE, MaxRequests <- Setting.emails.requests, MaxFaults <- Setting.emails.faults
Cloud(s, managed) == INSTANCE CloudWallet WITH
  User <- s.user, Endpoint <- s.endpoint, Cap <- s.cap, Overlap <- TRUE, Managed <- managed, Called <- managed,
  MaxRequests <- s.requests, MaxFaults <- s.faults
Issuers(s, overlap) == INSTANCE Oid4vcIssuers WITH
  Issuer <- s.issuer, Template <- s.template, Name <- s.name,
  Overlap <- overlap, MaxRequests <- s.requests, MaxFaults <- s.faults
Lists(s, overlap) == INSTANCE StatusLists WITH
  saved <- allocations, Offer <- s.offer, ListSize <- s.listSize, MaxLists <- s.lists,
  MaxCredentials <- s.credentials, Overlap <- overlap, LostReplies <- overlap
Certs(s, overlap) == INSTANCE Certificates WITH
  Key <- s.key, MaxTime <- s.time, Overlap <- overlap, MaxRequests <- s.requests, MaxFaults <- s.faults
Verifiers(s, overlap) == INSTANCE Oid4vpVerifiers WITH
  Org <- s.org, PublicId <- s.public, Shared <- s.shared, Overlap <- overlap, Ordered <- ~overlap,
  MaxRequests <- s.requests, MaxFaults <- s.faults
Schemas(s, overlap) == INSTANCE LedgerSchemas WITH
  Org <- s.org, Did <- s.did, HomeOf <- s.home, Name <- s.name, Tag <- s.tag,
  Overlap <- overlap, MaxRequests <- s.requests, MaxFaults <- s.faults

ASSUME ExchangesAssumption ==
       /\ Records(Setting.records, TRUE, FALSE)!RecordsAssumption
       /\ Records(Setting.recordsInTurn, FALSE, FALSE)!RecordsAssumption
       /\ Records(Setting.recordsOrdered, FALSE, TRUE)!RecordsAssumption
       /\ Redirects!ProofRequestsAssumption
       /\ Emails!ProofRequestsAssumption
       /\ Cloud(Setting.cloud, FALSE)!CloudWalletAssumption
       /\ Cloud(Setting.cloudManaged, TRUE)!CloudWalletAssumption
       /\ Issuers(Setting.issuers, TRUE)!IssuerAssumption
       /\ Issuers(Setting.issuersInTurn, FALSE)!IssuerAssumption
       /\ Lists(Setting.lists, TRUE)!StatusListAssumption
       /\ Lists(Setting.listsInTurn, FALSE)!StatusListAssumption
       /\ Certs(Setting.certs, TRUE)!CertificatesAssumption
       /\ Certs(Setting.certsInTurn, FALSE)!CertificatesAssumption
       /\ Verifiers(Setting.verifiers, TRUE)!VerifiersAssumption
       /\ Verifiers(Setting.verifiersInTurn, FALSE)!VerifiersAssumption
       /\ Schemas(Setting.schemas, TRUE)!LedgerAssumption
       /\ Schemas(Setting.schemasInTurn, FALSE)!LedgerAssumption

-----------------------------------------------------------------------------
(* The variables of a part that is not the chosen one.                     *)
NoRecords == dedicated = {} /\ unlabelled = {} /\ wallet = {} /\ agent = {} /\ posts = {} /\ sent = {} /\ row = {} /\ files = {}
NoProofs  == allow = {} /\ targets = {} /\ emailData = {} /\ mails = {} /\ saved = {}
NoCloud   == users = {} /\ base = {} /\ sub = {} /\ tenants = {} /\ records = {} /\ orphans = {}
NoIssuers == issuer = {} /\ tmpl = {} /\ agentIssuers = {} /\ cfg = {} /\ broken = {}
NoLists   == lists = {} /\ offer = {} /\ allocations = {} /\ atAgent = {} /\ revoked = {}
NoCerts   == certs = {} /\ keys = {} /\ now = 0 /\ signed = {}
NoVerifiers == verifiers = {} /\ agentVerifiers = {} /\ exchanges = {} /\ events = {} /\ presentations = {} /\ torn = {}
NoLedger  == did = {} /\ schemas = {} /\ credDefs = {} /\ ledger = {} /\ lost = {}

Init ==
  \/ /\ \/ part = "records" /\ Records(Setting.records, TRUE, FALSE)!Init
        \/ part = "recordsInTurn" /\ Records(Setting.recordsInTurn, FALSE, FALSE)!Init
        \/ part = "recordsOrdered" /\ Records(Setting.recordsOrdered, FALSE, TRUE)!Init
     /\ NoProofs /\ NoCloud /\ NoIssuers /\ NoLists /\ NoCerts /\ NoVerifiers /\ NoLedger
  \/ /\ \/ part = "redirects" /\ Redirects!Init
        \/ part = "emails" /\ Emails!Init
     /\ NoRecords /\ NoCloud /\ NoIssuers /\ NoLists /\ NoCerts /\ NoVerifiers /\ NoLedger
  \/ /\ \/ part = "cloud" /\ Cloud(Setting.cloud, FALSE)!Init
        \/ part = "cloudManaged" /\ Cloud(Setting.cloudManaged, TRUE)!Init
     /\ NoRecords /\ NoProofs /\ NoIssuers /\ NoLists /\ NoCerts /\ NoVerifiers /\ NoLedger
  \/ /\ \/ part = "issuers" /\ Issuers(Setting.issuers, TRUE)!Init
        \/ part = "issuersInTurn" /\ Issuers(Setting.issuersInTurn, FALSE)!Init
     /\ NoRecords /\ NoProofs /\ NoCloud /\ NoLists /\ NoCerts /\ NoVerifiers /\ NoLedger
  \/ /\ \/ part = "lists" /\ Lists(Setting.lists, TRUE)!Init
        \/ part = "listsInTurn" /\ Lists(Setting.listsInTurn, FALSE)!Init
     /\ pend = {} /\ started = 0 /\ faults = 0
     /\ NoRecords /\ NoProofs /\ NoCloud /\ NoIssuers /\ NoCerts /\ NoVerifiers /\ NoLedger
  \/ /\ \/ part = "certs" /\ Certs(Setting.certs, TRUE)!Init
        \/ part = "certsInTurn" /\ Certs(Setting.certsInTurn, FALSE)!Init
     /\ NoRecords /\ NoProofs /\ NoCloud /\ NoIssuers /\ NoLists /\ NoVerifiers /\ NoLedger
  \/ /\ \/ part = "verifiers" /\ Verifiers(Setting.verifiers, TRUE)!Init
        \/ part = "verifiersInTurn" /\ Verifiers(Setting.verifiersInTurn, FALSE)!Init
     /\ NoRecords /\ NoProofs /\ NoCloud /\ NoIssuers /\ NoLists /\ NoCerts /\ NoLedger
  \/ /\ \/ part = "schemas" /\ Schemas(Setting.schemas, TRUE)!Init
        \/ part = "schemasInTurn" /\ Schemas(Setting.schemasInTurn, FALSE)!Init
     /\ NoRecords /\ NoProofs /\ NoCloud /\ NoIssuers /\ NoLists /\ NoCerts /\ NoVerifiers

Next ==
  \/ /\ \/ part = "records" /\ Records(Setting.records, TRUE, FALSE)!Next
        \/ part = "recordsInTurn" /\ Records(Setting.recordsInTurn, FALSE, FALSE)!Next
        \/ part = "recordsOrdered" /\ Records(Setting.recordsOrdered, FALSE, TRUE)!NothingDeleted
     /\ UNCHANGED <<part, proofVars, cloudVars, issuerVars, listVars, certVars, verifierVars, ledgerVars>>
  \/ /\ \/ part = "redirects" /\ Redirects!Redirects
        \/ part = "emails" /\ Emails!Emails
     /\ UNCHANGED <<part, recordVars, cloudVars, issuerVars, listVars, certVars, verifierVars, ledgerVars>>
  \/ /\ \/ part = "cloud" /\ Cloud(Setting.cloud, FALSE)!Next
        \/ part = "cloudManaged" /\ Cloud(Setting.cloudManaged, TRUE)!Next
     /\ UNCHANGED <<part, recordVars, proofVars, issuerVars, listVars, certVars, verifierVars, ledgerVars>>
  \/ /\ \/ part = "issuers" /\ Issuers(Setting.issuers, TRUE)!Next
        \/ part = "issuersInTurn" /\ Issuers(Setting.issuersInTurn, FALSE)!Next
     /\ UNCHANGED <<part, recordVars, proofVars, cloudVars, listVars, certVars, verifierVars, ledgerVars>>
  \/ /\ \/ part = "lists" /\ Lists(Setting.lists, TRUE)!Next
        \/ part = "listsInTurn" /\ Lists(Setting.listsInTurn, FALSE)!Next
     /\ UNCHANGED <<part, recordVars, proofVars, cloudVars, issuerVars, certVars, verifierVars, ledgerVars,
                    pend, started, faults>>
  \/ /\ \/ part = "certs" /\ Certs(Setting.certs, TRUE)!Next
        \/ part = "certsInTurn" /\ Certs(Setting.certsInTurn, FALSE)!Next
     /\ UNCHANGED <<part, recordVars, proofVars, cloudVars, issuerVars, listVars, verifierVars, ledgerVars>>
  \/ /\ \/ part = "verifiers" /\ Verifiers(Setting.verifiers, TRUE)!Next
        \/ part = "verifiersInTurn" /\ Verifiers(Setting.verifiersInTurn, FALSE)!Next
     /\ UNCHANGED <<part, recordVars, proofVars, cloudVars, issuerVars, listVars, certVars, ledgerVars>>
  \/ /\ \/ part = "schemas" /\ Schemas(Setting.schemas, TRUE)!Next
        \/ part = "schemasInTurn" /\ Schemas(Setting.schemasInTurn, FALSE)!Next
     /\ UNCHANGED <<part, recordVars, proofVars, cloudVars, issuerVars, listVars, certVars, verifierVars>>

Spec == Init /\ [][Next]_vars

-----------------------------------------------------------------------------
(* connection, issuance, verification: a record that names a connection    *)
(* finds it.  One request at a time, connections are deleted after the     *)
(* records that name them, a tenant whose wallet is gone has no records    *)
(* although its agent's posts come late, and a third of a label is masked. *)
(* Posts that come in order and are not lost leave every record in the     *)
(* state of its exchange, unless its connection has no label               *)
(* (saveConnectionWebhook, saveIssuedCredentialDetails,                    *)
(* storeProofPresentation).  A proof session returns only below a          *)
(* registered URI, by whole path segments and over https                   *)
(* (isRedirectUriAllowed); one request at a time, an e-mail carries the    *)
(* request made for its addressee, and addresses are saved only when all   *)
(* e-mails went out (sendOutOfBandProofRequest).  ledger: what is listed   *)
(* is registered; one request at a time, live names and tags are distinct  *)
(* and no live schema is left of a deleted wallet's DID.                   *)
ExchangeInv ==
  /\ part = "records" => Records(Setting.records, TRUE, FALSE)!TypeOK
  /\ part = "recordsInTurn" =>
     /\ Records(Setting.recordsInTurn, FALSE, FALSE)!TypeOK
     /\ Records(Setting.recordsInTurn, FALSE, FALSE)!LabelMasked
     /\ Records(Setting.recordsInTurn, FALSE, FALSE)!ConnectionsGoLast
     /\ Records(Setting.recordsInTurn, FALSE, FALSE)!NoRecordsWithoutWallet
  /\ part = "recordsOrdered" =>
     /\ Records(Setting.recordsOrdered, FALSE, TRUE)!TypeOK
     /\ Records(Setting.recordsOrdered, FALSE, TRUE)!RecordsFollowAgent
  /\ part = "redirects" =>
     /\ Redirects!TypeOK
     /\ Redirects!RedirectsRegistered
  /\ part = "emails" =>
     /\ Emails!TypeOK
     /\ Emails!MailsReachAddresseeAlone
     /\ Emails!SavedWereSent
  /\ part = "schemas" =>
     /\ Schemas(Setting.schemas, TRUE)!TypeOK
     /\ Schemas(Setting.schemas, TRUE)!RowsRegistered
  /\ part = "schemasInTurn" =>
     /\ Schemas(Setting.schemasInTurn, FALSE)!TypeOK
     /\ Schemas(Setting.schemasInTurn, FALSE)!NamesDistinct
     /\ Schemas(Setting.schemasInTurn, FALSE)!LostDidArchived

(* issuance: a recorded schema id survives posts that come in any order    *)
(* (saveIssuedCredentialDetails, updateSchemaIdByThreadId).                *)
SchemaIdKept ==
  [][/\ part = "records" => Records(Setting.records, TRUE, FALSE)!SchemaIdKept
     /\ part = "recordsInTurn" => Records(Setting.recordsInTurn, FALSE, FALSE)!SchemaIdKept]_vars

(* cloud-wallet: the counters cover wallets made and being made and never  *)
(* pass the configured number; no slot is lost by handlers that end well;  *)
(* a deletion, failed or not, leaves no tenant without a row; a sub wallet *)
(* finds its base wallet, an inactive one too (createCloudWallet,          *)
(* deleteCloudWallet, getBaseWalletByAgentEndpoint).                       *)
CloudWalletInv ==
  /\ part = "cloud" =>
     /\ Cloud(Setting.cloud, FALSE)!TypeOK
     /\ Cloud(Setting.cloud, FALSE)!WithinCapacity
     /\ Cloud(Setting.cloud, FALSE)!SlotsReturned
     /\ Cloud(Setting.cloud, FALSE)!DeletionLeavesNoTenant
  /\ part = "cloudManaged" =>
     /\ Cloud(Setting.cloudManaged, TRUE)!TypeOK
     /\ Cloud(Setting.cloudManaged, TRUE)!WithinCapacity
     /\ Cloud(Setting.cloudManaged, TRUE)!SlotsReturned
     /\ Cloud(Setting.cloudManaged, TRUE)!WalletsStayReachable

(* oid4vc-issuance: an issuer that is listed exists at the agent, and one  *)
(* request at a time the agent is configured with every stored template,   *)
(* refused changes being undone, unless the undo failed or an accepted     *)
(* configuration was undone (deleteOidcIssuer, updateTemplate).  The count *)
(* that decides about rotation is that of the bitmap, an offer that was    *)
(* answered with a session can be revoked, and transactions that do not    *)
(* overlap give every credential an index of its own, in offers without    *)
(* one index in two lists (allocate, release, saveCredentialAllocation).   *)
(* x509: a listed certificate has its key, a session is signed with one    *)
(* that was in its period when it was read, and one request at a time a    *)
(* single one can sign at any instant (hasDateCollision,                   *)
(* getCurrentActiveCertificate).  oid4vc-verification: a presentation is   *)
(* kept for the organization of its session; one request at a time         *)
(* verifiers are what the wallets have, except where the agent's answer or *)
(* the write after it was lost, public ids name one of them, and posts in  *)
(* order leave the row in the session's state.                             *)
Oid4vcInv ==
  /\ part = "issuers" =>
     /\ Issuers(Setting.issuers, TRUE)!TypeOK
     /\ Issuers(Setting.issuers, TRUE)!AgentHasIssuer
  /\ part = "issuersInTurn" =>
     /\ Issuers(Setting.issuersInTurn, FALSE)!TypeOK
     /\ Issuers(Setting.issuersInTurn, FALSE)!AgentHasIssuer
     /\ Issuers(Setting.issuersInTurn, FALSE)!TemplatesConfigured
  /\ part = "lists" =>
     /\ Lists(Setting.lists, TRUE)!TypeOK
     /\ Lists(Setting.lists, TRUE)!CountMatchesBitmap
     /\ Lists(Setting.lists, TRUE)!SuccessIsRevocable
  /\ part = "listsInTurn" =>
     /\ Lists(Setting.listsInTurn, FALSE)!TypeOK
     /\ Lists(Setting.listsInTurn, FALSE)!CountMatchesBitmap
     /\ Lists(Setting.listsInTurn, FALSE)!SuccessIsRevocable
     /\ Lists(Setting.listsInTurn, FALSE)!IndexUnique
  /\ part = "certs" =>
     /\ Certs(Setting.certs, TRUE)!TypeOK
     /\ Certs(Setting.certs, TRUE)!RowsInWallet
     /\ Certs(Setting.certs, TRUE)!SignedInPeriod
  /\ part = "certsInTurn" =>
     /\ Certs(Setting.certsInTurn, FALSE)!TypeOK
     /\ Certs(Setting.certsInTurn, FALSE)!SignerUnambiguous
     /\ Certs(Setting.certsInTurn, FALSE)!SignedInPeriod
  /\ part = "verifiers" =>
     /\ Verifiers(Setting.verifiers, TRUE)!TypeOK
     /\ Verifiers(Setting.verifiers, TRUE)!PresentationOfSession
  /\ part = "verifiersInTurn" =>
     /\ Verifiers(Setting.verifiersInTurn, FALSE)!TypeOK
     /\ Verifiers(Setting.verifiersInTurn, FALSE)!VerifiersMatchAgent
     /\ Verifiers(Setting.verifiersInTurn, FALSE)!PublicIdUnique
     /\ Verifiers(Setting.verifiersInTurn, FALSE)!PresentationSettled
=============================================================================

------------------------------ MODULE UserSessions ------------------------------
(***************************************************************************)
(* Sessions of users: login by e-mail, username or as the client of an     *)
(* organization, refresh of tokens, logout, deletion of a session or of    *)
(* the user, and the check of the session on every request of the gateway. *)
(* The session of a user is named by the sid of Keycloak, which its token  *)
(* carries; the row of a client has an id of its own that no token names.  *)
(***************************************************************************)
EXTENDS Naturals, FiniteSets

CONSTANTS User,
          SessionsLimit,   \* SESSIONS_LIMIT
          Overlap,         \* handlers may interleave
          MaxRequests,     \* bound: requests
          MaxFaults        \* bound: calls that fail

SessionsAssumption ==
  IsFiniteSet(User) /\ Overlap \in BOOLEAN /\ {SessionsLimit, MaxRequests, MaxFaults} \subseteq Nat

VARIABLES users,     \* rows of user
          accounts,  \* users with a row of account
          session,   \* rows of session, by sid
          renewed,   \* sessions whose refresh token was replaced: older ones are still about
          gone,      \* sids whose row was deleted
          clients,   \* sessions of clients: their tokens name no session
          pend, started, faults

vars == <<users, accounts, session, renewed, gone, clients, pend, started, faults>>

Sid == 1..MaxRequests
None == [user |-> "none"]
Live(s) == session[s] # None /\ ~session[s].expired
Of(u) == {s \in Sid : session[s] # None /\ session[s].user = u}

(* The shape of the state; the rows of account and session belong to a     *)
(* user that exists, and a session has an account.                         *)
TypeOK ==
  /\ users \subseteq User /\ accounts \subseteq users
  /\ session \in [Sid -> [user : User, expired : BOOLEAN, refreshable : BOOLEAN] \cup {None}]
  /\ \A s \in Sid : session[s] # None => session[s].user \in accounts
  /\ renewed \subseteq Sid /\ gone \subseteq Sid /\ clients \subseteq Sid
  /\ started \in 0..MaxRequests /\ faults \in 0..MaxFaults

Init == /\ users = User /\ accounts = {} /\ session = [s \in Sid |-> None]
        /\ renewed = {} /\ gone = {} /\ clients = {} /\ pend = {} /\ started = 0 /\ faults = 0

Request(reqs) == (Overlap \/ pend = {}) /\ started < MaxRequests /\ started' = started + 1 /\ pend' = pend \cup reqs
Go(req, next) == req \in pend /\ pend' = (pend \ {req}) \cup {[req EXCEPT !.op = next]} /\ UNCHANGED started
End(req) == req \in pend /\ pend' = pend \ {req} /\ UNCHANGED started
Fails(req) == /\ faults < MaxFaults /\ faults' = faults + 1 /\ End(req)
              /\ UNCHANGED <<users, accounts, session, renewed, gone, clients>>
Remove(S) == /\ session' = [s \in Sid |-> IF s \in S THEN None ELSE session[s]]
             /\ gone' = gone \cup {s \in S : session[s] # None}

-----------------------------------------------------------------------------
(* login(), usernameLogin(), clientLoginCredentails(): the deletion of     *)
(* expired sessions is started and not awaited.  A client has no refresh   *)
(* token.                                                                  *)
Login(u, client) ==
  /\ u \in users
  /\ Request({[op |-> "fetch", sid |-> started + 1, user |-> u, client |-> client],
              [op |-> "cleanup", sid |-> started + 1, user |-> u]})
  /\ UNCHANGED <<users, accounts, session, renewed, gone, clients, faults>>
(* Mutant: the sessions of the user are deleted, expired or not.           *)
DeleteAllSessions(req) ==
  /\ req.op = "cleanup" /\ End(req) /\ Remove(Of(req.user))
  /\ UNCHANGED <<users, accounts, renewed, clients, faults>>
DeleteInactiveSessions(req) ==
  /\ req.op = "cleanup" /\ End(req)
  /\ Remove({s \in Of(req.user) : session[s].expired})
  /\ UNCHANGED <<users, accounts, renewed, clients, faults>>
FetchUserSessions(req) ==
  /\ req.op = "fetch"
  /\ IF SessionsLimit <= Cardinality(Of(req.user)) THEN End(req) ELSE Go(req, "token")
  /\ UNCHANGED <<users, accounts, session, renewed, gone, clients, faults>>
(* generateToken(), then checkAccountDetails().                            *)
GenerateToken(req) ==
  /\ req.op = "token"
  /\ Go(req, IF req.user \in accounts THEN "session" ELSE "addAccount")
  /\ UNCHANGED <<users, accounts, session, renewed, gone, clients, faults>>
(* The account of a user is unique.                                        *)
AddAccountDetails(req) ==
  /\ req.op = "addAccount"
  /\ IF req.user \in users \ accounts THEN accounts' = accounts \cup {req.user} /\ Go(req, "session")
     ELSE End(req) /\ UNCHANGED accounts
  /\ UNCHANGED <<users, session, renewed, gone, clients, faults>>
CreateSession(req) ==
  /\ req.op = "session" /\ End(req)
  /\ IF req.user \in accounts
     THEN /\ session' = [session EXCEPT ![req.sid] = [user |-> req.user, expired |-> FALSE, refreshable |-> ~req.client]]
          /\ clients' = IF req.client THEN clients \cup {req.sid} ELSE clients
     ELSE UNCHANGED <<session, clients>>
  /\ UNCHANGED <<users, accounts, renewed, gone, faults>>
(* expiresAt passes.                                                       *)
Expire(s) == /\ Live(s) /\ session' = [session EXCEPT ![s].expired = TRUE]
             /\ UNCHANGED <<users, accounts, renewed, gone, clients, pend, started, faults>>

-----------------------------------------------------------------------------
(* refreshTokenDetails() with a token that is valid, whether the row is    *)
(* still there or not; with one that expired, perhaps replaced long ago,   *)
(* the row of its sid is deleted.                                          *)
RefreshTokenDetails(s) ==
  /\ (Live(s) /\ session[s].refreshable) \/ s \in gone \ clients
  /\ \E u \in users : Request({[op |-> "exchange", sid |-> s, user |-> u]}) /\ (session[s] # None => u = session[s].user)
  /\ UNCHANGED <<users, accounts, session, renewed, gone, clients, faults>>
RefreshWithExpired(s) ==
  /\ session[s] # None /\ session[s].refreshable /\ (session[s].expired \/ s \in renewed)
  /\ Request({}) /\ Remove({s})
  /\ UNCHANGED <<users, accounts, renewed, clients, faults>>
(* getAccessToken(), then checkAccountDetails().                           *)
GetAccessToken(req) ==
  /\ req.op = "exchange"
  /\ IF req.user \in accounts THEN Go(req, "getSession") ELSE End(req)
  /\ UNCHANGED <<users, accounts, session, renewed, gone, clients, faults>>
GetSession(req) ==
  /\ req.op = "getSession"
  /\ IF session[req.sid] # None THEN Go(req, "update") ELSE End(req)
  /\ UNCHANGED <<users, accounts, session, renewed, gone, clients, faults>>
(* Mutant: a row that is not there is written again.                       *)
UpsertSessionToken(req) ==
  /\ req.op = "update" /\ End(req)
  /\ IF req.user \in accounts
     THEN /\ session' = [session EXCEPT ![req.sid] = [user |-> req.user, expired |-> FALSE, refreshable |-> TRUE]]
          /\ renewed' = renewed \cup {req.sid}
     ELSE UNCHANGED <<session, renewed>>
  /\ UNCHANGED <<users, accounts, gone, clients, faults>>
(* updateSessionToken(): fails when the row is gone.                       *)
UpdateSessionToken(req) ==
  /\ req.op = "update" /\ End(req)
  /\ IF session[req.sid] # None
     THEN session' = [session EXCEPT ![req.sid].expired = FALSE] /\ renewed' = renewed \cup {req.sid}
     ELSE UNCHANGED <<session, renewed>>
  /\ UNCHANGED <<users, accounts, gone, clients, faults>>

-----------------------------------------------------------------------------
(* logout() deletes the sessions it is given, deleteSession() one of the   *)
(* user.                                                                   *)
Logout(S) == /\ S # {} /\ \A s \in S : session[s] # None
             /\ Request({}) /\ Remove(S)
             /\ UNCHANGED <<users, accounts, renewed, clients, faults>>
(* deleteUser(): sessions, account and user in one transaction.            *)
DeleteUser(u) ==
  /\ u \in users /\ Request({}) /\ Remove(Of(u))
  /\ accounts' = accounts \ {u} /\ users' = users \ {u}
  /\ UNCHANGED <<renewed, clients, faults>>

(* JwtStrategy.validate(): checkSession(), only for a token with a sid,    *)
(* then findUserinKeycloak(); the token of a client goes to                *)
(* findOrganizationOwner().  The token of a session outlives its row.      *)
Validate(s) ==
  /\ session[s] # None \/ s \in gone
  /\ Request({[op |-> IF s \in clients THEN "findOwner" ELSE "checkSession",
               sid |-> s, revoked |-> s \in gone]})
  /\ UNCHANGED <<users, accounts, session, renewed, gone, clients, faults>>
(* Mutant: a session that is not found is not an error.                    *)
CheckSessionLogsOnly(req) ==
  /\ req.op = "checkSession" /\ Go(req, "findUser")
  /\ UNCHANGED <<users, accounts, session, renewed, gone, clients, faults>>
CheckSession(req) ==
  /\ req.op = "checkSession"
  /\ IF session[req.sid] # None THEN Go(req, "findUser") ELSE End(req)
  /\ UNCHANGED <<users, accounts, session, renewed, gone, clients, faults>>
FindUserInKeycloak(req) ==
  /\ req.op = "findUser" /\ End(req)
  /\ UNCHANGED <<users, accounts, session, renewed, gone, clients, faults>>

FindOrganizationOwner(req) ==
  /\ req.op = "findOwner" /\ End(req)
  /\ UNCHANGED <<users, accounts, session, renewed, gone, clients, faults>>

-----------------------------------------------------------------------------
Handler(req) ==
  \/ DeleteInactiveSessions(req) \/ FetchUserSessions(req) \/ GenerateToken(req) \/ AddAccountDetails(req)
  \/ CreateSession(req) \/ GetAccessToken(req) \/ GetSession(req) \/ UpdateSessionToken(req)
  \/ CheckSession(req) \/ FindUserInKeycloak(req) \/ FindOrganizationOwner(req) \/ Fails(req)

Next ==
  \/ \E req \in pend : Handler(req)
  \/ \E u \in User : DeleteUser(u) \/ \E client \in BOOLEAN : Login(u, client)
  \/ \E s \in Sid : Expire(s) \/ RefreshTokenDetails(s) \/ RefreshWithExpired(s) \/ Validate(s)
  \/ \E S \in SUBSET Sid : Logout(S)

Spec == Init /\ [][Next]_vars

-----------------------------------------------------------------------------
(* A session that was deleted does not come back, whatever login, refresh  *)
(* or cleanup is under way (updateSessionToken, createSession).            *)
DeletedStaysDeleted == \A s \in gone : session[s] = None

(* A request that starts after the logout of the session its token names   *)
(* is never let through to the lookup of its user (JwtStrategy.validate).  *)
(* The token of a client names none: deleting its row refuses nothing.     *)
RevokedIsRefused == \A req \in pend : req.op = "findUser" => ~req.revoked

(* The deletion that a login starts and does not wait for never ends a     *)
(* session that is still valid, one renewed meanwhile included.            *)
CleanupSparesLive ==
  \A req \in pend \ pend' : req.op = "cleanup" => \A s \in Sid : Live(s) => session'[s] # None

================================================================================

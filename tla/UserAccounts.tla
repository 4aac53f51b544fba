------------------------------ MODULE UserAccounts ------------------------------
(***************************************************************************)
(* Accounts of users: sign-up by e-mail or username, verification, reset of*)
(* a password, passkeys and deletion.  A user is a row of the database and *)
(* an account of the same name in Keycloak; every handler changes both, one*)
(* call after the other.  A row that is deleted and created again has      *)
(* another id (gen), but the same name.                                    *)
(***************************************************************************)
EXTENDS Naturals, FiniteSets

CONSTANTS Mail, Username,   \* names: e-mail addresses, and usernames of accounts without one
          Password,
          Overlap,          \* handlers may interleave
          MaxRequests,      \* bound: requests
          MaxFaults         \* bound: calls that fail

None == "none"
NoPassword == "nopassword"

AccountAssumption ==
  /\ \A S \in {Mail, Username, Password} : IsFiniteSet(S)
  /\ Mail \cap Username = {} /\ Password \cap {None, NoPassword} = {}
  /\ Overlap \in BOOLEAN /\ MaxRequests \in Nat /\ MaxFaults \in Nat

VARIABLES user,      \* rows of user, with user_role_mapping and account
          keycloak,  \* accounts of Keycloak: no account, no password yet, or a password
          tokens,    \* rows of token: <<name, gen>>
          mailed,    \* verification codes that were sent: <<name, code>>
          deleted,   \* names whose row was deleted
          pend, started, faults

vars == <<user, keycloak, tokens, mailed, deleted, pend, started, faults>>

Name == Mail \cup Username
NoUser == [gen |-> 0]
Row == [gen : 1..MaxRequests, code : 0..MaxRequests, verified : BOOLEAN, linked : BOOLEAN,
        stored : Password \cup {None}, fido : BOOLEAN, holder : BOOLEAN, account : BOOLEAN]
Rows == {n \in Name : user[n] # NoUser}

(* The shape of the state; a token belongs to a row that exists.           *)
TypeOK ==
  /\ user \in [Name -> Row \cup {NoUser}]
  /\ keycloak \in [Name -> Password \cup {None, NoPassword}]
  /\ \A t \in tokens : t[1] \in Rows /\ user[t[1]].gen = t[2]
  /\ mailed \subseteq (Mail \X (1..MaxRequests)) /\ deleted \subseteq Name
  /\ started \in 0..MaxRequests /\ faults \in 0..MaxFaults

Init ==
  /\ user = [n \in Name |-> NoUser] /\ keycloak = [n \in Name |-> None]
  /\ tokens = {} /\ mailed = {} /\ deleted = {} /\ pend = {} /\ started = 0 /\ faults = 0

Request(req) == (Overlap \/ pend = {}) /\ started < MaxRequests /\ started' = started + 1 /\ pend' = pend \cup {req}
Go(req, next) == req \in pend /\ pend' = (pend \ {req}) \cup {[req EXCEPT !.op = next]} /\ UNCHANGED started
End(req) == req \in pend /\ pend' = pend \ {req} /\ UNCHANGED started
Same(req) == user[req.name] # NoUser /\ user[req.name].gen = req.gen       \* the row with this id
Change(n, r) == user' = [user EXCEPT ![n] = r]
Fails(req) == /\ faults < MaxFaults /\ faults' = faults + 1 /\ End(req)
              /\ UNCHANGED <<user, keycloak, tokens, mailed, deleted>>

-----------------------------------------------------------------------------
(* sendVerificationMail(): only for a name without a row; an invited user  *)
(* gets no mail, the others get it before the row.                         *)
SendVerificationMail(n, invited) ==
  /\ user[n] = NoUser
  /\ Request([op |-> IF invited THEN "createUser" ELSE "mail", name |-> n, code |-> started + 1, invited |-> invited])
  /\ UNCHANGED <<user, keycloak, tokens, mailed, deleted, faults>>
SendEmailForVerification(req) ==
  /\ req.op = "mail" /\ Go(req, "createUser")
  /\ mailed' = mailed \cup {<<req.name, req.code>>}
  /\ UNCHANGED <<user, keycloak, tokens, deleted, faults>>
(* createUser(): an upsert; a row that is there only gets the new code.    *)
CreateUser(req) ==
  /\ req.op = "createUser" /\ End(req)
  /\ Change(req.name, IF user[req.name] = NoUser
                      THEN [gen |-> req.code, code |-> req.code, verified |-> req.invited, linked |-> FALSE,
                            stored |-> None, fido |-> FALSE, holder |-> FALSE, account |-> FALSE]
                      ELSE [user[req.name] EXCEPT !.code = req.code])
  /\ UNCHANGED <<keycloak, tokens, mailed, deleted, faults>>
(* verifyEmail(): checks the code of the row, then writes by e-mail.       *)
VerifyEmail(n, code) ==
  /\ <<n, code>> \in mailed /\ user[n] # NoUser /\ user[n].code = code /\ ~user[n].verified
  /\ Request([op |-> "verifyUser", name |-> n])
  /\ UNCHANGED <<user, keycloak, tokens, mailed, deleted, faults>>
VerifyUser(req) ==
  /\ req.op = "verifyUser" /\ End(req)
  /\ IF req.name \in Rows THEN Change(req.name, [user[req.name] EXCEPT !.verified = TRUE]) ELSE UNCHANGED user
  /\ UNCHANGED <<keycloak, tokens, mailed, deleted, faults>>

-----------------------------------------------------------------------------
(* createUserForToken(): the row is verified and not linked.               *)
CreateUserForToken(n, p, passkey) ==
  /\ n \in Mail /\ user[n] # NoUser /\ ~user[n].linked /\ user[n].verified
  /\ Request([op |-> IF passkey THEN "info" ELSE "keycloakUser", name |-> n, gen |-> user[n].gen, password |-> p,
              passkey |-> passkey, kind |-> "signup"])
  /\ UNCHANGED <<user, keycloak, tokens, mailed, deleted, faults>>
(* updateUserInfo(), addUserPassword(): by e-mail.                         *)
UpdateUserInfo(req) ==
  /\ req.op = "info"
  /\ IF req.name \in Rows
     THEN Change(req.name, [user[req.name] EXCEPT !.stored = req.password]) /\ Go(req, "keycloakUser")
     ELSE End(req) /\ UNCHANGED user
  /\ UNCHANGED <<keycloak, tokens, mailed, deleted, faults>>
(* createUserForUsernameToken(): no row yet.                               *)
CreateUserForUsernameToken(n, p, passkey) ==
  /\ n \in Username /\ user[n] = NoUser
  /\ Request([op |-> "keycloakUser", name |-> n, gen |-> started + 1, password |-> p, passkey |-> passkey,
              kind |-> "username"])
  /\ UNCHANGED <<user, keycloak, tokens, mailed, deleted, faults>>
(* Mutant: sign-up goes on once the account is there, without a password.  *)
CreateKeycloakUserOnly(req) ==
  /\ req.op = "keycloakUser"
  /\ IF keycloak[req.name] = None
     THEN /\ keycloak' = [keycloak EXCEPT ![req.name] = NoPassword]
          /\ Go(req, IF req.kind = "username" THEN "createRow" ELSE "link")
     ELSE End(req) /\ UNCHANGED keycloak
  /\ UNCHANGED <<user, tokens, mailed, deleted, faults>>
(* ClientRegistrationService.createUser(), createUserByUsername(): create, *)
(* look up by name, set the password.  Keycloak refuses a name it has.     *)
CreateKeycloakUser(req) ==
  /\ req.op = "keycloakUser"
  /\ IF keycloak[req.name] = None
     THEN keycloak' = [keycloak EXCEPT ![req.name] = NoPassword] /\ Go(req, "keycloakPassword")
     ELSE End(req) /\ UNCHANGED keycloak
  /\ UNCHANGED <<user, tokens, mailed, deleted, faults>>
ResetPasswordOfKeycloakUser(req) ==
  /\ req.op = "keycloakPassword"
  /\ keycloak' = [keycloak EXCEPT ![req.name] = req.password]
  /\ Go(req, CASE req.kind = "username" -> "createRow" [] req.kind = "signup" -> "link"
               [] req.kind = "reset" -> IF user[req.name] # NoUser /\ req.linked THEN "store" ELSE "link")
  /\ UNCHANGED <<user, tokens, mailed, deleted, faults>>
(* Mutant: the row is not linked when a passkey is used.                   *)
UpdateUserDetailsNoPasskey(req) ==
  /\ req.op = "link"
  /\ IF Same(req)
     THEN /\ Change(req.name, [user[req.name] EXCEPT !.linked = ~req.passkey, !.verified = TRUE])
          /\ Go(req, IF req.kind = "signup" THEN "holder" ELSE "store")
     ELSE End(req) /\ UNCHANGED user
  /\ UNCHANGED <<keycloak, tokens, mailed, deleted, faults>>
(* updateUserDetails(): by id.                                             *)
UpdateUserDetails(req) ==
  /\ req.op = "link"
  /\ IF Same(req)
     THEN /\ Change(req.name, [user[req.name] EXCEPT !.linked = TRUE, !.verified = TRUE])
          /\ Go(req, IF req.kind = "signup" THEN "holder" ELSE "store")
     ELSE End(req) /\ UNCHANGED user
  /\ UNCHANGED <<keycloak, tokens, mailed, deleted, faults>>
(* UserRepository.createUserByUsername(): a name that was taken conflicts. *)
CreateUserByUsername(req) ==
  /\ req.op = "createRow"
  /\ IF user[req.name] = NoUser
     THEN /\ Change(req.name, [gen |-> req.gen, code |-> 0, verified |-> FALSE, linked |-> TRUE,
                               stored |-> IF req.passkey THEN req.password ELSE None, fido |-> FALSE,
                               holder |-> FALSE, account |-> FALSE])
          /\ Go(req, "holder")
     ELSE End(req) /\ UNCHANGED user
  /\ UNCHANGED <<keycloak, tokens, mailed, deleted, faults>>
(* storeUserRole(), createUserHolderRole(), createUserOrgRole().           *)
StoreUserRole(req) ==
  /\ req.op = "holder"
  /\ IF Same(req) THEN Change(req.name, [user[req.name] EXCEPT !.holder = TRUE]) /\ Go(req, "account")
     ELSE End(req) /\ UNCHANGED user
  /\ UNCHANGED <<keycloak, tokens, mailed, deleted, faults>>
AddAccountDetails(req) ==
  /\ req.op = "account" /\ End(req)
  /\ IF Same(req) THEN Change(req.name, [user[req.name] EXCEPT !.account = TRUE]) ELSE UNCHANGED user
  /\ UNCHANGED <<keycloak, tokens, mailed, deleted, faults>>

-----------------------------------------------------------------------------
(* forgotPassword().                                                       *)
ForgotPassword(n) ==
  /\ n \in Rows /\ user[n].verified /\ started < MaxRequests /\ (Overlap \/ pend = {})
  /\ tokens' = tokens \cup {<<n, user[n].gen>>} /\ started' = started + 1
  /\ UNCHANGED <<user, keycloak, mailed, deleted, pend, faults>>
TokenExpires(t) == /\ tokens' = tokens \ {t}
                   /\ UNCHANGED <<user, keycloak, mailed, deleted, pend, started, faults>>
(* resetTokenPassword() with a token, resetPassword() with the old         *)
(* password; both go by the row they read.                                 *)
ResetPassword(n, p, byToken) ==
  /\ n \in Rows /\ user[n].verified
  /\ \/ byToken /\ <<n, user[n].gen>> \in tokens
     \/ ~byToken /\ keycloak[n] \in Password \ {p} /\ user[n].linked
  /\ Request([op |-> IF user[n].linked THEN "keycloakPassword" ELSE "keycloakUser", name |-> n, gen |-> user[n].gen,
              password |-> p, passkey |-> FALSE, kind |-> "reset", linked |-> user[n].linked, fido |-> user[n].fido,
              token |-> byToken])
  /\ UNCHANGED <<user, keycloak, tokens, mailed, deleted, faults>>
(* Mutant: the stored password is left alone.                              *)
UpdateFidoVerifiedUserNever(req) ==
  /\ req.op = "store"
  /\ IF req.token THEN Go(req, "spend") ELSE End(req)
  /\ UNCHANGED <<user, keycloak, tokens, mailed, deleted, faults>>
(* updateFidoVerifiedUser(): the password a passkey login will use.        *)
UpdateFidoVerifiedUser(req) ==
  /\ req.op = "store"
  /\ IF req.fido /\ req.name \in Rows THEN Change(req.name, [user[req.name] EXCEPT !.stored = req.password])
     ELSE UNCHANGED user
  /\ IF req.token THEN Go(req, "spend") ELSE End(req)
  /\ UNCHANGED <<keycloak, tokens, mailed, deleted, faults>>
DeleteResetPasswordToken(req) ==
  /\ req.op = "spend" /\ End(req)
  /\ tokens' = tokens \ {<<req.name, req.gen>>}
  /\ UNCHANGED <<user, keycloak, mailed, deleted, faults>>

(* addPasskey(): Keycloak takes the password, then it is stored by e-mail; *)
(* verifyRegistration() of the FIDO server makes the passkey usable.       *)
AddPasskey(n, p) ==
  /\ n \in Rows /\ user[n].linked /\ user[n].verified /\ keycloak[n] = p
  /\ Request([op |-> "addUserPassword", name |-> n, password |-> p])
  /\ UNCHANGED <<user, keycloak, tokens, mailed, deleted, faults>>
AddUserPassword(req) ==
  /\ req.op = "addUserPassword" /\ End(req)
  /\ IF req.name \in Rows THEN Change(req.name, [user[req.name] EXCEPT !.stored = req.password]) ELSE UNCHANGED user
  /\ UNCHANGED <<keycloak, tokens, mailed, deleted, faults>>
VerifyRegistration(n) ==
  /\ n \in Rows /\ ~user[n].fido /\ (Overlap \/ pend = {})
  /\ Change(n, [user[n] EXCEPT !.fido = TRUE])
  /\ UNCHANGED <<keycloak, tokens, mailed, deleted, pend, started, faults>>

(* deleteUser(): one transaction over the rows of the user; Keycloak keeps *)
(* its account.                                                            *)
DeleteUser(n) ==
  /\ n \in Rows /\ started < MaxRequests /\ (Overlap \/ pend = {})
  /\ Change(n, NoUser) /\ tokens' = {t \in tokens : t[1] # n}
  /\ deleted' = deleted \cup {n} /\ started' = started + 1
  /\ UNCHANGED <<keycloak, mailed, pend, faults>>

-----------------------------------------------------------------------------
Handler(req) ==
  \/ SendEmailForVerification(req) \/ CreateUser(req) \/ VerifyUser(req) \/ UpdateUserInfo(req)
  \/ CreateKeycloakUser(req) \/ ResetPasswordOfKeycloakUser(req) \/ UpdateUserDetails(req)
  \/ CreateUserByUsername(req) \/ StoreUserRole(req) \/ AddAccountDetails(req)
  \/ UpdateFidoVerifiedUser(req) \/ DeleteResetPasswordToken(req) \/ AddUserPassword(req)
  \/ Fails(req)

Next ==
  \/ \E req \in pend : Handler(req)
  \/ \E n \in Mail, invited \in BOOLEAN : SendVerificationMail(n, invited)
  \/ \E m \in mailed : VerifyEmail(m[1], m[2])
  \/ \E n \in Name, p \in Password : \/ \E passkey \in BOOLEAN : \/ CreateUserForToken(n, p, passkey)
                                                                 \/ CreateUserForUsernameToken(n, p, passkey)
                                     \/ \E byToken \in BOOLEAN : ResetPassword(n, p, byToken)
                                     \/ AddPasskey(n, p)
  \/ \E n \in Name : ForgotPassword(n) \/ VerifyRegistration(n) \/ DeleteUser(n)
  \/ \E t \in tokens : TokenExpires(t)

Spec == Init /\ [][Next]_vars

-----------------------------------------------------------------------------
(* The Keycloak account a row is linked to has a password: nobody is       *)
(* registered who could not log in (createUser, updateUserDetails).        *)
LinkedHasPassword == \A n \in Rows : user[n].linked => keycloak[n] \in Password

(* Without faults and deletions, no sign-up leaves an account in Keycloak  *)
(* that no row is linked to, whichever sign-ups and resets overlap: the    *)
(* name could never be registered again.                                   *)
NoOrphanIdentity ==
  pend = {} /\ faults = 0 => \A n \in Name \ deleted : keycloak[n] # None => n \in Rows /\ user[n].linked

(* When the reset of a password ends, a user with a passkey has the        *)
(* password of Keycloak stored (updateFidoVerifiedUser).                   *)
PasskeyFollowsReset ==
  \A req \in pend \ pend' :
       req.op \in {"store", "spend"} /\ faults' = faults /\ req.name \in Rows /\ user'[req.name].fido
         => user'[req.name].stored = keycloak'[req.name]

================================================================================

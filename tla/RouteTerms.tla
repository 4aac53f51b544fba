----------------------------- MODULE RouteTerms -----------------------------
(* What the routes of the gateway are described with: the roles of users   *)
(* in organizations, in ecosystems and on the platform (libs/org-roles),   *)
(* alone and in the groups that @Roles names, and where the id of the      *)
(* organization comes from: a path parameter, or whatever query or body    *)
(* hold.                                                                   *)

OWNER == "owner"
ADMIN == "admin"
ISSUER == "issuer"
VERIFIER == "verifier"
MEMBER == "member"
HOLDER == "holder"
SUPER_ADMIN == "super_admin"
PLATFORM_ADMIN == "platform_admin"
ECOSYSTEM_LEAD == "Ecosystem Lead"
ECOSYSTEM_MEMBER == "Ecosystem Member"

Admins == {OWNER, ADMIN}
Issuers == Admins \cup {ISSUER}
Verifiers == Admins \cup {VERIFIER}
Staff == Admins \cup {ISSUER, VERIFIER}
Members == Staff \cup {MEMBER}

Path == "path"
Free == "free"
=============================================================================

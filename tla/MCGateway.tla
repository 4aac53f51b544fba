------------------------------ MODULE MCGateway ------------------------------
(* Instances of Gateways.  For access, routes differ only by their guards  *)
(* and required roles, so one route of each kind is offered.               *)
EXTENDS Gateways, TLC

-----------------------------------------------------------------------------
(* The routes the clients of an instance use.                              *)
Kind(r) == [guards |-> r.guards, roles |-> r.roles, where |-> r.where]
OneOfEach(R) == {CHOOSE r \in R : Kind(r) = k : k \in {Kind(r) : r \in R}}
Behind(r, gs) == \E i \in DOMAIN r.guards : r.guards[i] \in gs

(* Organization routes with few required roles; the user, holder, client   *)
(* and service routes.                                                     *)
AccessRoutes ==
  OneOfEach({r \in Routes : /\ ~Behind(r, {"feature", "entitlement", "subscription", "ecosystem"})
                            /\ \/ Behind(r, {"person", "holder", "client", "trust"})
                               \/ r.roles \in {{OWNER}, Verifiers}})
EcosystemRoutes == OneOfEach({r \in Routes : Behind(r, {"feature", "ecosystem"})})
MarketRoutes == {r \in Routes : Behind(r, {"entitlement", "subscription"})}

(* Two accounts, the second a holder; the first verifies for one of two    *)
(* organizations, or owns the only one and administers the platform.       *)
Accounts == {"u1", "h1"}
VerifierRoles == [u \in Accounts |-> [o \in {"o1", "o2"} |-> IF u = "u1" /\ o = "o1" THEN {VERIFIER} ELSE {}]]
AdminRoles == [u \in Accounts |-> [o \in {"o1"} |-> IF u = "u1" THEN {OWNER, PLATFORM_ADMIN} ELSE {}]]
NoEco == [u \in Accounts |-> {}]
EveryEco == [u \in Accounts |-> {ECOSYSTEM_LEAD, ECOSYSTEM_MEMBER}]

Base == [users |-> Accounts, holders |-> {"h1"}, platformAdmin |-> "u1", included |-> 1,
         initialEco |-> NoEco, roleChanges |-> {{}, {OWNER}},
         marketplaceEnabled |-> TRUE, marketplaceRequired |-> TRUE,
         maxTokens |-> 1, maxRequests |-> 1, maxAtOnce |-> 1, maxChanges |-> 2, maxFaults |-> 1]
Verifying == [orgs |-> {"o1", "o2"}, initialRoles |-> VerifierRoles]
Administering == [orgs |-> {"o1"}, initialRoles |-> AdminRoles]

(* Every route is offered to an account that is let through everywhere     *)
(* (wiring).                                                               *)
Instances ==
  [access    |-> [claimForms |-> {TRUE, FALSE}, offered |-> AccessRoutes] @@ Verifying @@ Base,
   ecosystem |-> [claimForms |-> {TRUE, FALSE}, offered |-> EcosystemRoutes] @@ Administering @@ Base,
   required  |-> [claimForms |-> {FALSE}, offered |-> MarketRoutes] @@ Verifying @@ Base,
   optional  |-> [claimForms |-> {FALSE}, offered |-> MarketRoutes, marketplaceRequired |-> FALSE] @@ Verifying @@ Base,
   wiring    |-> [claimForms |-> {FALSE}, offered |-> Routes, initialEco |-> EveryEco, roleChanges |-> {},
                  maxChanges |-> 0] @@ Administering @@ Base]
=============================================================================

------------------------------ MODULE Gateways ------------------------------
(* The gateway with its tables of routes and commands, for any number of   *)
(* instances: Gates is a function from the name of an instance to the      *)
(* record of its constants.  The first state chooses one.                  *)
EXTENDS GatewayRoutes

CONSTANT Gates

VARIABLES part, orgRoles, eco, sessions, tokens, enabled, plan, marketUp, used, reqs, unanswered, count

gatewayVars == <<part, orgRoles, eco, sessions, tokens, enabled, plan, marketUp, used, reqs, unanswered, count>>

Gate(c) == INSTANCE Gateway WITH
  Users <- c.users, Holders <- c.holders, PlatformAdmin <- c.platformAdmin, Orgs <- c.orgs,
  InitialRoles <- c.initialRoles, InitialEco <- c.initialEco, RoleChanges <- c.roleChanges,
  Offered <- c.offered, ClaimForms <- c.claimForms,
  MarketplaceEnabled <- c.marketplaceEnabled, MarketplaceRequired <- c.marketplaceRequired,
  Included <- c.included, MaxTokens <- c.maxTokens, MaxRequests <- c.maxRequests,
  MaxAtOnce <- c.maxAtOnce, MaxChanges <- c.maxChanges, MaxFaults <- c.maxFaults

(* Clients use routes the gateway has, no others.                          *)
ASSUME GatewaysAssumption ==
       \A p \in DOMAIN Gates : Gate(Gates[p])!GatewayAssumption /\ Gates[p].offered \subseteq Routes

GatewayInit == \E p \in DOMAIN Gates : part = p /\ Gate(Gates[p])!Init
GatewayNext == /\ \E p \in DOMAIN Gates : part = p /\ Gate(Gates[p])!Next
               /\ UNCHANGED part
GatewaySpec == GatewayInit /\ [][GatewayNext]_gatewayVars

-----------------------------------------------------------------------------
(* A request that reached its handler had a session when it arrived,       *)
(* however long its token is valid (JwtStrategy.validate); a holder        *)
(* account reaches no organization or user route and only holders reach    *)
(* wallet routes, whatever userRole claim the token carries; a user had a  *)
(* required role in that very organization when the token was issued or    *)
(* since (OrgRolesGuard); the ecosystem feature was on at some moment      *)
(* (EcosystemFeatureGuard); and with a mandatory marketplace the plan      *)
(* allowed the feature, an outage included (MarketplaceEntitlementGuard).  *)
(* Every command a handler sends has a service that listens for it.        *)
GatewayInv ==
  \A p \in DOMAIN Gates : part = p =>
    /\ Gate(Gates[p])!TypeOK /\ Gate(Gates[p])!SignedOutRefused /\ Gate(Gates[p])!HoldersKeptApart
    /\ Gate(Gates[p])!RevokedRoleRefused /\ Gate(Gates[p])!FeatureOffRefused
    /\ Gate(Gates[p])!EntitledWhenRequired /\ Gate(Gates[p])!CommandsAnswered

(* While the marketplace does not answer and is optional, its guard turns  *)
(* nobody away (MarketplaceEntitlementGuard).                              *)
OutageServes == [][\A p \in DOMAIN Gates : part = p => Gate(Gates[p])!OutageServes]_gatewayVars
=============================================================================

------------------------------ MODULE MCTenancy ------------------------------
EXTENDS Tenancy

OrgCreatorOf == "o1" :> "u1" @@ "o2" :> "u2"
RequestsOf == [members |-> 4, wallet |-> 4, accounts |-> 3, accountsInTurn |-> 5, sessions |-> 3,
               ecosystems |-> 4, ecosystemsInTurn |-> 5, intents |-> 3, intentsInTurn |-> 4]

(* Onboarding; two subscriptions that want one organization; webhooks.     *)
SalesOf ==
  [onboarding |-> [subs |-> {"s1"}, sessions |-> {"x1", "x2"}, orgs |-> {"o1", "o2"}, users |-> {"u1", "u2"},
                   plans |-> {"p1"}, operations |-> {"m1"}, owner |-> "o1" :> "u1" @@ "o2" :> "u2",
                   buyers |-> "s1" :> {"u1"}, actions |-> {"Suspend"}, start |-> "unknown",
                   reconciles |-> FALSE, requests |-> 5, faults |-> 1],
   links |-> [subs |-> {"s1", "s2"}, sessions |-> {"x1", "x2"}, orgs |-> {"o1"}, users |-> {"u1", "u2"},
              plans |-> {"p1"}, operations |-> {"m1"}, owner |-> "o1" :> "u1",
              buyers |-> "s1" :> {"u1"} @@ "s2" :> {"u1"}, actions |-> {"Unsubscribe"}, start |-> "linked",
              reconciles |-> FALSE, requests |-> 2, faults |-> 0],
   webhooks |-> [subs |-> {"s1"}, sessions |-> {"x1"}, orgs |-> {"o1"}, users |-> {"u1", "u2"},
                 plans |-> {"p1", "p2"}, operations |-> {"m1", "m2"}, owner |-> "o1" :> "u1",
                 buyers |-> "s1" :> {"u1"}, start |-> "used",
                 actions |-> {"ChangePlan", "ChangeQuantity", "Reinstate", "Renew", "Suspend", "Unsubscribe"},
                 reconciles |-> FALSE, requests |-> 0, faults |-> 1]]
QuantityOf == "a" :> 2 @@ "b" :> 1
=============================================================================

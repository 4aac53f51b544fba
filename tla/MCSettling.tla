----------------------------- MODULE MCSettling -----------------------------
(* What must eventually happen: marketplace rows converge, webhooks are    *)
(* answered, usage is settled, offers with a status list end.  Each part   *)
(* is checked on its own, as in MCTenancy and MCExchanges.  Marketplace    *)
(* and metering share the fault counter.                                   *)
EXTENDS Naturals, TLC

VARIABLES part,
          ms, ops, row, session, ack, fee, pend, started,
          now, admitted, events, usage, billed, job, subscribed,
          lists, offer, saved, atAgent, revoked,
          faults

marketVars == <<ms, ops, row, session, ack, fee, pend, started>>
meterVars  == <<now, admitted, events, usage, billed, job, subscribed>>
listVars   == <<lists, offer, saved, atAgent, revoked>>
vars == <<part, marketVars, meterVars, listVars, faults>>

-----------------------------------------------------------------------------
Operations == {"m1"}
Market == INSTANCE MarketplaceSubscription WITH
  Sub <- {"s1"}, Session <- {"x1"}, Org <- {"o1"}, User <- {"u1", "u2"}, Plan <- {"p1", "p2"},
  Operation <- Operations, Owner <- "o1" :> "u1", Buyers <- "s1" :> {"u1"},
  Actions <- {"ChangePlan", "ChangeQuantity", "Reinstate", "Renew", "Suspend", "Unsubscribe"},
  Overlap <- TRUE, Start <- "used", ReconciliationEnabled <- TRUE, MaxRequests <- 1, MaxFaults <- 1

Runs == {"j1"}
Metering == INSTANCE MarketplaceMetering WITH
  Source <- {"a", "b"}, Quantity <- "a" :> 2 @@ "b" :> 1, Included <- 1, Window <- 1, Batch <- 1,
  Jobs <- Runs, MaxHour <- 3, MaxFaults <- 1

Offers == {"o1", "o2"}
Lists == INSTANCE StatusLists WITH
  Offer <- Offers, ListSize <- 2, MaxLists <- 2, MaxCredentials <- 1, Overlap <- TRUE, LostReplies <- TRUE

ASSUME Market!MarketplaceAssumption /\ Metering!MeteringAssumption /\ Lists!StatusListAssumption

-----------------------------------------------------------------------------
(* The variables of a part that is not the chosen one.                     *)
NoMarket   == /\ ms = {} /\ ops = {} /\ row = {} /\ session = {} /\ ack = {} /\ fee = {}
              /\ pend = {} /\ started = {}
NoMetering == /\ now = {} /\ admitted = {} /\ events = {} /\ usage = {} /\ billed = {} /\ job = {}
              /\ subscribed = {}
NoLists    == lists = {} /\ offer = {} /\ saved = {} /\ atAgent = {} /\ revoked = {}

Init == \/ part = "market" /\ Market!Init /\ NoMetering /\ NoLists
        \/ part = "metering" /\ Metering!Init /\ NoMarket /\ NoLists
        \/ part = "lists" /\ Lists!Init /\ faults = 0 /\ NoMarket /\ NoMetering

OfMarket(A)   == part = "market" /\ A /\ UNCHANGED <<part, meterVars, listVars>>
OfMetering(A) == part = "metering" /\ A /\ UNCHANGED <<part, marketVars, listVars>>
OfLists(A)    == part = "lists" /\ A /\ UNCHANGED <<part, marketVars, meterVars, faults>>

Next == OfMarket(Market!Next) \/ OfMetering(Metering!Next) \/ OfLists(Lists!Next)

(* The fairness of each part, in the steps of this module.  Calls to       *)
(* Microsoft go over axios without a timeout; they are taken to be         *)
(* answered or to fail.  Of the agent, AgentAnswers assumes as much below. *)
Fairness ==
  /\ WF_vars(OfMarket(\E req \in pend : Market!Handler(req)))
  /\ WF_vars(OfMarket(Market!ReconcileSubscriptions))
  /\ \A o \in Operations : /\ WF_vars(OfMarket(Market!ProcessWebhook(o)))
                           /\ WF_vars(OfMarket(Market!HandlesWebhook(o)))
  /\ WF_vars(OfMetering(Metering!HourPasses))
  /\ \A j \in Runs : WF_vars(OfMetering(Metering!Metering(j)))
  /\ \A o \in Offers : WF_vars(OfLists(Lists!Handler(o)))

Spec == Init /\ [][Next]_vars /\ Fairness

-----------------------------------------------------------------------------
(* The agent answers the offers it is sent.                                *)
AgentAnswers == \A o \in Offers : []<>~(part = "lists" /\ Lists!AwaitsAgent(o))

(* marketplace: when Microsoft stops changing them, the rows become what   *)
(* Microsoft has, whatever stale reads were written                        *)
(* (reconcileSubscriptions); every webhook is answered and every operation *)
(* that waits for the platform ends (applyWebhookAction, the swallowed     *)
(* 400).  Every usage row ends accepted, duplicate or expired: rows that   *)
(* keep failing do not hold up the batch (submitPendingUsage).             *)
(* oid4vc-issuance: while the agent answers every request in the end, an   *)
(* offer that began to allocate indexes ends answered or undone            *)
(* (createOidcCredentialOffer).                                            *)
Settles ==
  /\ <>[](part = "market" => Market!RowsAgree)
  /\ \A o \in Operations : (part = "market" /\ Market!Asked(o)) ~> (part = "market" /\ Market!Answered(o))
  /\ \A h \in 1..3 : (part = "metering" /\ h \in Metering!Open) ~> (part = "metering" /\ h \notin Metering!Open)
  /\ AgentAnswers => \A o \in Offers : (part = "lists" /\ Lists!Allocating(o)) ~> (part = "lists" /\ Lists!Settled(o))
=============================================================================

-------------------------- MODULE MarketplaceMetering --------------------------
(***************************************************************************)
(* Usage of one subscribed organization: the entitlement guard admits an   *)
(* operation, its completion is recorded once as a billing event, every ten*)
(* minutes the events beyond the included quota are summed per hour into   *)
(* usage rows, and pending rows are submitted to Microsoft, which accepts  *)
(* one quantity per hour and answers Duplicate afterwards.                 *)
(***************************************************************************)
EXTENDS Naturals, FiniteSets

CONSTANTS Source,      \* credentials, proofs or schemas that are counted
          Quantity,    \* the quantity of an event
          Included,    \* the plan's included quota
          Window,      \* hours Microsoft takes a usage event
          Batch,       \* rows one submission lists
          Jobs,        \* runs that may overlap: the cron and submitMetering()
          MaxHour,     \* bound: hours
          MaxFaults    \* bound: submissions that fail or lose their answer

MeteringAssumption ==
  /\ IsFiniteSet(Source) /\ Quantity \in [Source -> Nat \ {0}] /\ Included \in Nat
  /\ Window \in Nat /\ Batch \in Nat \ {0} /\ MaxHour \in Nat \ {0} /\ MaxFaults \in Nat

VARIABLES now, admitted, \* operations the guard let through, with their hour
          events,        \* billing_usage_event: source -> hour, or none
          usage,         \* marketplace_usage_event: hour -> row
          billed,        \* at Microsoft: hour -> quantity
          job,           \* the metering runs
          subscribed, faults

vars == <<now, admitted, events, usage, billed, job, subscribed, faults>>

Hour == 1..MaxHour
NoHour == 0
NoUsage == [status |-> "none", quantity |-> 0]
Idle == [step |-> "idle"]
Recorded == {s \in Source : events[s] # NoHour}
(* Quantities are added up as sets of units, each with its number.         *)
Units(f, S) == UNION {{x} \X (1..f[x]) : x \in S}
Total(S) == Cardinality(Units(Quantity, S))
Rows == {h \in Hour : usage[h] # NoUsage}
Open == {h \in Rows : usage[h].status \in {"pending", "failed"}}
Submitted == {"accepted", "duplicate"}

(* The shape of the state.                                                 *)
TypeOK ==
  /\ now \in Hour /\ admitted \subseteq Source /\ Recorded \subseteq admitted
  /\ events \in [Source -> Hour \cup {NoHour}]
  /\ \A h \in Rows : usage[h].quantity \in 1..Total(Source)
                     /\ usage[h].status \in {"pending", "failed", "expired"} \cup Submitted
  /\ billed \in [Hour -> 0..Total(Source)]
  /\ subscribed \in BOOLEAN /\ faults \in 0..MaxFaults

Init ==
  /\ now = 1 /\ admitted = {} /\ events = [s \in Source |-> NoHour]
  /\ usage = [h \in Hour |-> NoUsage] /\ billed = [h \in Hour |-> 0]
  /\ job = [j \in Jobs |-> Idle] /\ subscribed = TRUE /\ faults = 0

-----------------------------------------------------------------------------
(* MarketplaceEntitlementGuard.canActivate(), isUsageLimitReached() on the *)
(* usage getUsage() sums: what was recorded, not what is under way.        *)
CanActivate(s) ==
  /\ s \notin admitted /\ subscribed /\ Total(Recorded) < Included
  /\ admitted' = admitted \cup {s}
  /\ UNCHANGED <<now, events, usage, billed, job, subscribed, faults>>
(* The guard passes a platform administrator, an exempt organization, and  *)
(* everybody while entitlements are not required and cannot be read.       *)
Bypass(s) ==
  /\ s \notin admitted
  /\ admitted' = admitted \cup {s}
  /\ UNCHANGED <<now, events, usage, billed, job, subscribed, faults>>
(* recordUsageEvent(): occurredAt is the time of the agent's event, which  *)
(* may arrive late; a second one for the source changes nothing.           *)
RecordUsageEvent(s, h) ==
  /\ s \in admitted /\ h <= now
  /\ events' = [events EXCEPT ![s] = IF @ = NoHour THEN h ELSE @]
  /\ UNCHANGED <<now, admitted, usage, billed, job, subscribed, faults>>

-----------------------------------------------------------------------------
(* aggregateSubscriptionUsage(): events in order of occurredAt; what runs  *)
(* over the quota in an hour is the overage of that hour.                  *)
Before(h) == Total({s \in Recorded : events[s] < h})
UpTo(h) == Total({s \in Recorded : events[s] <= h})
Beyond(n) == IF n > Included THEN n - Included ELSE 0
(* Mutant: the whole of the event that crosses the quota is billed.        *)
OverageWhole(h) == IF UpTo(h) > Included THEN UpTo(h) - Before(h) ELSE 0
Overage(h) == Beyond(UpTo(h)) - Beyond(Before(h))

Enter(j, next) == job' = [job EXCEPT ![j] = next]
(* aggregateUsage(): the events are read in one query, and each hour's row *)
(* is written in another.                                                  *)
AggregateUsage(j) ==
  /\ job[j] = Idle
  /\ Enter(j, IF subscribed THEN [step |-> "write", todo |-> {<<h, Overage(h)>> : h \in {k \in Hour : Overage(k) > 0}}]
              ELSE [step |-> "list"])
  /\ UNCHANGED <<now, admitted, events, usage, billed, subscribed, faults>>
(* createOrUpdateUsageEvent(): quantity is replaced, status stays.         *)
CreateOrUpdateUsageEvent(j) ==
  /\ job[j].step = "write"
  /\ \/ /\ job[j].todo # {}
        /\ \E t \in job[j].todo :
             /\ usage' = [usage EXCEPT ![t[1]] = [status |-> IF @ = NoUsage THEN "pending" ELSE @.status,
                                                  quantity |-> t[2]]]
             /\ Enter(j, [job[j] EXCEPT !.todo = @ \ {t}])
     \/ job[j].todo = {} /\ Enter(j, [step |-> "list"]) /\ UNCHANGED usage
  /\ UNCHANGED <<now, admitted, events, billed, subscribed, faults>>

(* submitPendingUsage(): the oldest rows that are open, at most Batch.     *)
Oldest == {h \in Open : Cardinality({k \in Open : k < h}) < Batch}
(* Mutant: rows beyond the window are left as they are.                    *)
ListNeverExpires(j) ==
  /\ job[j].step = "list"
  /\ Enter(j, [step |-> "submit", expired |-> {},
               batch |-> {<<h, usage[h].quantity>> : h \in {k \in Oldest : now - k <= Window}}])
  /\ UNCHANGED <<now, admitted, events, usage, billed, subscribed, faults>>
ListPendingUsageEvents(j) ==
  /\ job[j].step = "list"
  /\ Enter(j, [step |-> "submit", expired |-> {h \in Oldest : now - h > Window},
               batch |-> {<<h, usage[h].quantity>> : h \in {k \in Oldest : now - k <= Window}}])
  /\ UNCHANGED <<now, admitted, events, usage, billed, subscribed, faults>>
Expire(j) ==
  /\ job[j].step = "submit" /\ job[j].expired # {}
  /\ \E h \in job[j].expired : /\ usage' = [usage EXCEPT ![h].status = "expired"]
                               /\ Enter(j, [job[j] EXCEPT !.expired = @ \ {h}])
  /\ UNCHANGED <<now, admitted, events, billed, subscribed, faults>>
(* Microsoft takes the first quantity of an hour (external).  The call may *)
(* fail, before or after it took effect: the run ends.                     *)
Answer(h) == IF billed[h] = 0 THEN "accepted" ELSE "duplicate"
AtMicrosoft(batch) == [h \in Hour |-> IF billed[h] = 0 /\ \E t \in batch : t[1] = h
                                      THEN (CHOOSE t \in batch : t[1] = h)[2] ELSE billed[h]]
SubmitBatchUsageEvents(j) ==
  /\ job[j].step = "submit" /\ job[j].expired = {}
  /\ \/ job[j].batch = {} /\ Enter(j, Idle) /\ UNCHANGED <<billed, faults>>
     \/ /\ job[j].batch # {}
        /\ billed' = AtMicrosoft(job[j].batch) /\ UNCHANGED faults
        /\ Enter(j, [step |-> "results", results |-> {<<t[1], Answer(t[1])>> : t \in job[j].batch}])
     \/ /\ job[j].batch # {} /\ faults < MaxFaults /\ faults' = faults + 1
        /\ \/ billed' = AtMicrosoft(job[j].batch) /\ Enter(j, Idle)
           \/ UNCHANGED billed /\ Enter(j, Idle)
           \/ UNCHANGED billed /\ Enter(j, [step |-> "results", results |-> {<<t[1], "failed">> : t \in job[j].batch}])
  /\ UNCHANGED <<now, admitted, events, usage, subscribed>>
(* Mutant: a missing result counts as accepted.                            *)
UpdateStatusAccepted(j) ==
  /\ job[j].step = "results"
  /\ \/ \E r \in job[j].results :
          /\ usage' = [usage EXCEPT ![r[1]].status = IF r[2] = "failed" THEN "accepted" ELSE r[2]]
          /\ Enter(j, [job[j] EXCEPT !.results = @ \ {r}])
     \/ job[j].results = {} /\ Enter(j, Idle) /\ UNCHANGED usage
  /\ UNCHANGED <<now, admitted, events, billed, subscribed, faults>>
(* updateUsageEventStatus(), one row after the other.                      *)
UpdateUsageEventStatus(j) ==
  /\ job[j].step = "results"
  /\ \/ \E r \in job[j].results :
          /\ usage' = [usage EXCEPT ![r[1]].status = r[2]]
          /\ Enter(j, [job[j] EXCEPT !.results = @ \ {r}])
     \/ job[j].results = {} /\ Enter(j, Idle) /\ UNCHANGED usage
  /\ UNCHANGED <<now, admitted, events, billed, subscribed, faults>>

-----------------------------------------------------------------------------
HourPasses == /\ now < MaxHour /\ now' = now + 1
              /\ UNCHANGED <<admitted, events, usage, billed, job, subscribed, faults>>
SubscriptionChanges == /\ subscribed' = ~subscribed
                       /\ UNCHANGED <<now, admitted, events, usage, billed, job, faults>>
Metering(j) ==
  \/ AggregateUsage(j) \/ CreateOrUpdateUsageEvent(j) \/ ListPendingUsageEvents(j)
  \/ Expire(j) \/ SubmitBatchUsageEvents(j) \/ UpdateUsageEventStatus(j)

Next ==
  \/ \E s \in Source : CanActivate(s) \/ Bypass(s) \/ \E h \in Hour : RecordUsageEvent(s, h)
  \/ \E j \in Jobs : Metering(j)
  \/ HourPasses \/ SubscriptionChanges

Spec == Init /\ [][Next]_vars
(* The cron runs again and again, and hours pass.                          *)
FairSpec == Spec /\ WF_vars(HourPasses) /\ \A j \in Jobs : WF_vars(Metering(j))

-----------------------------------------------------------------------------
(* Microsoft never bills more than the events of an hour that are beyond   *)
(* the quota, nor more in all than usage beyond it, however runs overlap,  *)
(* answers get lost and events come late (aggregateSubscriptionUsage).     *)
NeverOverbilled ==
  /\ \A h \in Hour : billed[h] <= Overage(h)
  /\ Cardinality(Units(billed, Hour)) <= Beyond(Total(Recorded))

(* A row Microsoft accepted was billed there (updateUsageEventStatus).     *)
AcceptedWasBilled == \A h \in Rows : usage[h].status \in Submitted => billed[h] > 0

================================================================================

---------------------- MODULE IssuanceWorkCoordinator ----------------------
(***************************************************************************)
(* Dispatch of credential offers under the Redis budget shared by all the  *)
(* replicas of the issuance service                                        *)
(* (apps/issuance/src/issuance-work.coordinator.ts, interactive(), offer(), *)
(* withPermit(), acquireAndRun(), releasePermit() and the Lua scripts).    *)
(*                                                                         *)
(* A call of offer() runs in one process, either for a bulk row or for a   *)
(* recipient of an interactive request.  It queues locally (the promise of *)
(* AdmissionSlots, which IssuanceAdmissionQueue implements), then polls    *)
(* Redis for a reservation, activates it, dispatches, and releases in a    *)
(* finally block.  A script is sent in one step and takes effect in a      *)
(* later one, atomically; its reply may be lost, in which case the client  *)
(* either sends the script again or gives up with an error.                *)
(***************************************************************************)
EXTENDS Integers, FiniteSets

CONSTANTS
    Call,              \* calls of offer(); each draws a fresh owner UUID
    Process,           \* the replicas of the issuance service
    Home,              \* the process a call runs in
    Request,           \* the interactive requests
    Bulk,              \* stands in for the request of a bulk row's call
    RequestOf,         \* the request a call belongs to, or Bulk
    Capacity,          \* ISSUANCE_GLOBAL_CONCURRENCY of each process
    WorkerConcurrency, \* ISSUANCE_WORKER_CONCURRENCY
    WaitMs,            \* ISSUANCE_CAPACITY_WAIT_MS
    InteractiveMs,     \* ISSUANCE_INTERACTIVE_QUEUE_MS
    AdmissionMs,       \* ISSUANCE_ADMISSION_MS
    ReservationMs,     \* RESERVATION_MS
    MaxNow             \* bound on the clock

ASSUME CallAssumption == IsFiniteSet(Call)
ASSUME HomeAssumption == Home \in [Call -> Process]
ASSUME BulkAssumption == Bulk \notin Request
ASSUME RequestOfAssumption == RequestOf \in [Call -> Request \cup {Bulk}]
ASSUME ContextAssumption ==   \* a request's context lives in one process
    \A c, d \in Call : RequestOf[c] = RequestOf[d] /\ RequestOf[c] # Bulk => Home[c] = Home[d]
ASSUME CapacityAssumption == Capacity \in [Process -> Nat \ {0}]
ASSUME TimesAssumption ==
    {WorkerConcurrency, WaitMs, InteractiveMs, AdmissionMs, ReservationMs, MaxNow} \subseteq Nat \ {0}

VARIABLES
    now,         \* the clock: performance.now(), Date.now() and Redis TIME
    capacity,    \* field 'capacity' of the Redis hash, 0 if the key is absent
    permit,      \* field <owner> of the hash: absent, 'r:<until>' or 'active:<ms>'
    admission,   \* deadline of a request's context, 0 before interactive()
    dispatched,  \* the `dispatched` flag of a request's context
    pc,          \* where each call is
    deadline,    \* the deadline of a call's admission
    attempt      \* failed attempts of releasePermit()

redis == <<capacity, permit>>
vars == <<now, capacity, permit, admission, dispatched, pc, deadline, attempt>>

Budget == [c \in Call |-> Capacity[Home[c]]]

NoPermit == [kind |-> "none", until |-> 0]
Reservation(t) == [kind |-> "reserved", until |-> t]
Active == [kind |-> "active", until |-> 0]

Minimum(a, b) == IF a <= b THEN a ELSE b

(* Calls that occupy one of the process's offer slots. *)
Admitted == {"acquire", "acquireSent", "reserved", "activateSent", "activated",
             "dispatched", "releasing"}
Final == {"done", "rejected", "failed", "crashed", "lost"}
State == {"idle", "queued"} \cup Admitted \cup Final

Init ==
    /\ now = 0
    /\ capacity = 0
    /\ permit = [c \in Call |-> NoPermit]
    /\ admission = [r \in Request |-> 0]
    /\ dispatched = [r \in Request |-> FALSE]
    /\ pc = [c \in Call |-> "idle"]
    /\ deadline = [c \in Call |-> 0]
    /\ attempt = [c \in Call |-> 0]

Goto(c, s) == pc' = [pc EXCEPT ![c] = s]

-----------------------------------------------------------------------------
(* Admission. *)

(* interactive(): the gateway's deadline (header present, and in the future) *)
(* admits the request; it cannot extend the local maximum.  A request whose  *)
(* deadline is expired or malformed is refused and never makes a call.       *)
Interactive(r) ==
    /\ admission[r] = 0
    /\ \E header \in (now + 1)..MaxNow :
        admission' = [admission EXCEPT ![r] = Minimum(header, now + AdmissionMs)]
    /\ UNCHANGED <<now, redis, dispatched, pc, deadline, attempt>>

(* Mutant: the request's own deadline is forgotten. *)
WaitOnly(c) == now + (IF RequestOf[c] = Bulk THEN WaitMs ELSE Minimum(WaitMs, InteractiveMs))

(* The wait a call of withPermit() is given.  The request's own deadline   *)
(* counts only until one of its offers has been dispatched.                *)
AdmissionDeadline(c) ==
    LET r == RequestOf[c]
        wait == IF r = Bulk THEN WaitMs ELSE Minimum(WaitMs, InteractiveMs)
    IN  IF r # Bulk /\ ~dispatched[r] THEN Minimum(now + wait, admission[r]) ELSE now + wait

(* offer() calls withPermit(), which queues the call locally.  The guard on *)
(* MaxNow keeps every deadline within the modelled time.                    *)
Offer(c) ==
    /\ pc[c] = "idle"
    /\ RequestOf[c] # Bulk => admission[RequestOf[c]] # 0
    /\ AdmissionDeadline(c) <= MaxNow
    /\ deadline' = [deadline EXCEPT ![c] = AdmissionDeadline(c)]
    /\ Goto(c, "queued")
    /\ UNCHANGED <<now, redis, admission, dispatched, attempt>>

LocalSlots(p) == Minimum(WorkerConcurrency, Capacity[p])
SlotsTaken(p) == {c \in Call : Home[c] = p /\ pc[c] \in Admitted}

(* The local queue admits the call, times it out, or was full. *)
Admit(c) ==
    /\ pc[c] = "queued"
    /\ \/ /\ now < deadline[c]
          /\ Cardinality(SlotsTaken(Home[c])) < LocalSlots(Home[c])
          /\ Goto(c, "acquire")
       \/ /\ now >= deadline[c] \/ Cardinality(SlotsTaken(Home[c])) >= LocalSlots(Home[c])
          /\ Goto(c, "rejected")
    /\ UNCHANGED <<now, redis, admission, dispatched, deadline, attempt>>

-----------------------------------------------------------------------------
(* The scripts.  Each takes effect atomically at the Redis server. *)

Held == {c \in Call : permit[c].kind # "none"}
Reserved(c) == permit[c].kind = "reserved" /\ permit[c].until > now

(* Mutant: expired reservations are not dropped. *)
NeverExpires(c) == permit[c].kind # "none"

(* The owners that survive the clean-up at the start of ACQUIRE. *)
Live(c) == permit[c].kind = "active" \/ Reserved(c)

(* Mutant: ACQUIRE does not compare its budget with the recorded one. *)
AcquireAnyBudget(c, result) ==
    LET kept == {d \in Call : Live(d)}
        purged == [d \in Call |-> IF d \in kept THEN permit[d] ELSE NoPermit]
    IN  \/ /\ c \in kept \/ Cardinality(kept) >= Budget[c]
           /\ result = IF c \in kept THEN 1 ELSE 0
           /\ permit' = purged
           /\ capacity' = IF kept = {} THEN 0 ELSE capacity
        \/ /\ c \notin kept /\ Cardinality(kept) < Budget[c]
           /\ result = 1
           /\ permit' = [purged EXCEPT ![c] = Reservation(now + ReservationMs)]
           /\ capacity' = Budget[c]

(* ACQUIRE: expired reservations are dropped, an empty hash is deleted (and *)
(* with it the recorded capacity), then the owner is added if it fits.      *)
AcquireScript(c, result) ==
    LET kept == {d \in Call : Live(d)}
        recorded == IF kept = {} THEN 0 ELSE capacity
        purged == [d \in Call |-> IF d \in kept THEN permit[d] ELSE NoPermit]
        mine == Budget[c]
    IN  \/ /\ recorded \notin {0, mine}
           /\ result = -1
           /\ permit' = purged
           /\ capacity' = recorded
        \/ /\ recorded \in {0, mine}
           /\ c \in kept
           /\ result = 1
           /\ permit' = purged
           /\ capacity' = recorded
        \/ /\ recorded \in {0, mine}
           /\ c \notin kept
           /\ Cardinality(kept) >= mine
           /\ result = 0
           /\ permit' = purged
           /\ capacity' = recorded
        \/ /\ recorded \in {0, mine}
           /\ c \notin kept
           /\ Cardinality(kept) < mine
           /\ result = 1
           /\ permit' = [purged EXCEPT ![c] = Reservation(now + ReservationMs)]
           /\ capacity' = mine

(* Mutant: ACTIVATE does not look at what the owner holds. *)
ActivateUnchecked(c, result) ==
    /\ result = 1
    /\ permit' = [permit EXCEPT ![c] = Active]
    /\ UNCHANGED capacity

(* ACTIVATE: only an unexpired reservation of the same owner is pinned. *)
ActivateScript(c, result) ==
    \/ /\ Reserved(c)
       /\ result = 1
       /\ permit' = [permit EXCEPT ![c] = Active]
       /\ UNCHANGED capacity
    \/ /\ ~Reserved(c)
       /\ result = 0
       /\ UNCHANGED redis

(* Mutant: RELEASE deletes the key whoever else holds a permit. *)
ReleaseDropsKey(c) ==
    /\ permit' = [d \in Call |-> NoPermit]
    /\ capacity' = 0

(* RELEASE: the owner's field, and the key with its last owner. *)
ReleaseScript(c) ==
    /\ permit' = [permit EXCEPT ![c] = NoPermit]
    /\ capacity' = IF Held \subseteq {c} THEN 0 ELSE capacity

-----------------------------------------------------------------------------
(* acquireAndRun(). *)

(* Mutant: the polling loop has no deadline. *)
AcquireForever(c) ==
    /\ pc[c] = "acquire"
    /\ Goto(c, "acquireSent")
    /\ UNCHANGED <<now, redis, admission, dispatched, deadline, attempt>>

(* checkWaiting() at the top of the loop, then the script is sent. *)
AcquireSend(c) ==
    /\ pc[c] = "acquire"
    /\ \/ now < deadline[c] /\ Goto(c, "acquireSent")
       \/ now >= deadline[c] /\ Goto(c, "releasing")
    /\ UNCHANGED <<now, redis, admission, dispatched, deadline, attempt>>

(* The reply: reserved, full (back off and poll again), or inconsistent    *)
(* configuration, which throws.                                            *)
AcquireReply(c) ==
    /\ pc[c] = "acquireSent"
    /\ \/ AcquireScript(c, 1) /\ Goto(c, "reserved")
       \/ AcquireScript(c, 0) /\ Goto(c, "acquire")
       \/ AcquireScript(c, -1) /\ Goto(c, "releasing")
    /\ UNCHANGED <<now, admission, dispatched, deadline, attempt>>

(* The script ran but its reply was lost with the connection; the client   *)
(* sends it again, so it runs more than once.                              *)
Resend(c) ==
    /\ \/ pc[c] = "acquireSent" /\ \E result \in {-1, 0, 1} : AcquireScript(c, result)
       \/ pc[c] = "activateSent" /\ \E result \in {0, 1} : ActivateScript(c, result)
    /\ UNCHANGED <<now, admission, dispatched, pc, deadline, attempt>>

(* eval() rejects, and the finally block runs: whether the script ran is    *)
(* not known (a lost reply is a Resend before this step).                   *)
EvalError(c) ==
    /\ pc[c] \in {"acquireSent", "activateSent"}
    /\ Goto(c, "releasing")
    /\ UNCHANGED <<now, redis, admission, dispatched, deadline, attempt>>

ActivateSend(c) ==
    /\ pc[c] = "reserved"
    /\ \/ now < deadline[c] /\ Goto(c, "activateSent")
       \/ now >= deadline[c] /\ Goto(c, "releasing")
    /\ UNCHANGED <<now, redis, admission, dispatched, deadline, attempt>>

ActivateReply(c) ==
    /\ pc[c] = "activateSent"
    /\ \/ ActivateScript(c, 1) /\ Goto(c, "activated")
       \/ ActivateScript(c, 0) /\ Goto(c, "releasing")
    /\ UNCHANGED <<now, admission, dispatched, deadline, attempt>>

(* The last checkWaiting(), then operation(): offer() marks the request and *)
(* sends the offer to the agent.                                            *)
Dispatch(c) ==
    /\ pc[c] = "activated"
    /\ \/ /\ now < deadline[c]
          /\ Goto(c, "dispatched")
          /\ dispatched' = [r \in Request |-> dispatched[r] \/ r = RequestOf[c]]
       \/ /\ now >= deadline[c]
          /\ Goto(c, "releasing")
          /\ UNCHANGED dispatched
    /\ UNCHANGED <<now, redis, admission, deadline, attempt>>

(* The agent's answer, or its failure, settles the operation. *)
Settle(c) ==
    /\ pc[c] = "dispatched"
    /\ Goto(c, "releasing")
    /\ UNCHANGED <<now, redis, admission, dispatched, deadline, attempt>>

(* releasePermit(): three attempts.  An attempt that fails may have run the *)
(* script all the same.                                                     *)
ReleaseReply(c) ==
    /\ pc[c] = "releasing"
    /\ ReleaseScript(c)
    /\ Goto(c, "done")
    /\ UNCHANGED <<now, admission, dispatched, deadline, attempt>>

(* Mutant: a failed release is retried without limit. *)
ReleaseUnlimited(c) ==
    /\ pc[c] = "releasing"
    /\ ReleaseScript(c) \/ UNCHANGED redis
    /\ attempt' = [attempt EXCEPT ![c] = @ + 1]
    /\ UNCHANGED <<now, admission, dispatched, pc, deadline>>

ReleaseError(c) ==
    /\ pc[c] = "releasing"
    /\ ReleaseScript(c) \/ UNCHANGED redis
    /\ \/ attempt[c] = 2 /\ Goto(c, "failed") /\ UNCHANGED attempt
       \/ attempt[c] # 2 /\ attempt' = [attempt EXCEPT ![c] = @ + 1] /\ UNCHANGED pc
    /\ UNCHANGED <<now, admission, dispatched, deadline>>

-----------------------------------------------------------------------------
(* A process is killed; it may start again and make other calls.  The offer *)
(* of a dispatched call may still be executing at the agent.                *)
Crash(p) ==
    /\ \E c \in Call : Home[c] = p /\ pc[c] \in Admitted \cup {"queued"}
    /\ pc' = [c \in Call |->
                IF Home[c] # p \/ pc[c] \notin Admitted \cup {"queued"} THEN pc[c]
                ELSE IF pc[c] = "dispatched" THEN "lost"
                ELSE "crashed"]
    /\ UNCHANGED <<now, redis, admission, dispatched, deadline, attempt>>

Tick ==
    /\ now < MaxNow
    /\ now' = now + 1
    /\ UNCHANGED <<redis, admission, dispatched, pc, deadline, attempt>>

CallStep(c) ==
    \/ Admit(c) \/ AcquireSend(c) \/ AcquireReply(c) \/ ActivateSend(c) \/ ActivateReply(c)
    \/ Dispatch(c) \/ ReleaseReply(c)

Next ==
    \/ Tick
    \/ \E r \in Request : Interactive(r)
    \/ \E p \in Process : Crash(p)
    \/ \E c \in Call : Offer(c) \/ CallStep(c) \/ Settle(c) \/ Resend(c) \/ EvalError(c) \/ ReleaseError(c)

(* Time passes, the event loop runs every continuation and Redis answers.    *)
(* Nothing makes clients call, processes crash or the agent answer an offer. *)
Fairness ==
    /\ WF_vars(Tick)
    /\ \A c \in Call : WF_vars(CallStep(c))

Spec == Init /\ [][Next]_vars /\ Fairness
-----------------------------------------------------------------------------
(* Types of the state. *)
TypeOK ==
    /\ now \in 0..MaxNow
    /\ capacity \in Nat
    /\ permit \in [Call -> [kind : {"none", "reserved", "active"}, until : Nat]]
    /\ admission \in [Request -> Nat]
    /\ dispatched \in [Request -> BOOLEAN]
    /\ pc \in [Call -> State]
    /\ deadline \in [Call -> Nat]
    /\ attempt \in [Call -> 0..2]

(* Offers that the agents may be working on: dispatched and not settled,   *)
(* those of dead workers included.                                         *)
Outstanding == {c \in Call : pc[c] \in {"dispatched", "lost"}}

(* However calls, expiries, lost replies and crashes interleave, no more   *)
(* offers are outstanding than the budget of any process that dispatched   *)
(* one of them: replicas with different settings never add up.             *)
OffersWithinBudget == \A c \in Outstanding : Cardinality(Outstanding) <= Budget[c]

(* The coordinator implements the budget it promises. *)
Promise == INSTANCE OfferBudget WITH outstanding <- Outstanding
ImplementsBudget == Promise!Spec

(* A request whose gateway deadline passed before its first offer went out *)
(* never sends one later, whatever it was waiting for in the meantime.     *)
ExpiredRequestNeverDispatches ==
    [][\A r \in Request : dispatched'[r] /\ ~dispatched[r] => now < admission[r]]_vars

(* Every call that was admitted locally dispatches or gives up: it does not *)
(* keep its local slot polling a budget that is exhausted for good, nor once *)
(* its operation has settled.                                                *)
CallsEnd == \A c \in Call : pc[c] \in Admitted \ {"dispatched"} ~> pc[c] \in Final \cup {"dispatched"}

(* An offer the agent has not answered, or a permit that its worker could  *)
(* not give back: it died with it, or three releases failed.               *)
Stranded(c) ==
    /\ permit[c].kind = "active"
    /\ pc[c] \in {"dispatched", "lost", "crashed"} \/ (pc[c] = "failed" /\ attempt[c] = 2)

(* Capacity that a call takes from the others comes back: its field stops  *)
(* counting, by release or by expiry, whatever replies are lost and        *)
(* whichever worker stalls or dies before it activates; only an activated  *)
(* permit can stay (ACQUIRE, ACTIVATE, releasePermit).                     *)
CapacityReturns ==
    \A c \in Call : Live(c) /\ permit[c].until <= MaxNow ~> ~Live(c) \/ Stranded(c)
=============================================================================

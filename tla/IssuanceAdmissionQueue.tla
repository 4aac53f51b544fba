----------------------- MODULE IssuanceAdmissionQueue -----------------------
(***************************************************************************)
(* The in-process admission queue of the issuance service                  *)
(* (apps/issuance/src/issuance-admission.queue.ts).  IssuanceWorkCoordinator *)
(* owns two of them: `offers` bounds the contenders for Redis permits and  *)
(* `rows` bounds whole-row processing.                                     *)
(*                                                                         *)
(* A call of run(operation, deadline) passes through                       *)
(*   idle -> waiting -> granted -> running -> done                         *)
(* and may end in timedOut or full instead.  "granted" is the gap between  *)
(* the promise of acquire() being resolved and run() resuming: the event   *)
(* loop may run other callbacks, and time may pass, in between.            *)
(***************************************************************************)
EXTENDS Naturals, Sequences, FiniteSets

CONSTANTS
    Call,        \* the calls of run() made on this queue
    Capacity,    \* constructor parameter `capacity`
    MaxPending,  \* constructor parameter `maxPending`
    MaxNow       \* bound on performance.now(), and the latest deadline

ASSUME CallAssumption == IsFiniteSet(Call)
ASSUME CapacityAssumption == Capacity \in Nat \ {0}
ASSUME MaxPendingAssumption == MaxPending \in Nat \ {0}
ASSUME MaxNowAssumption == MaxNow \in Nat

VARIABLES
    active,    \* number of occupied slots
    pending,   \* the Set of waiters, in insertion order
    deadline,  \* the deadline each call was made with
    pc,        \* where each call of run() is
    now        \* performance.now()

vars == <<active, pending, deadline, pc, now>>

Waiters == {pending[i] : i \in 1..Len(pending)}
Holding == {"granted", "running"}
Holders == {c \in Call : pc[c] \in Holding}

Init ==
    /\ active = 0
    /\ pending = <<>>
    /\ deadline = [c \in Call |-> 0]
    /\ pc = [c \in Call |-> "idle"]
    /\ now = 0

Expired(c) == now >= deadline[c]

-----------------------------------------------------------------------------
(* run() calls acquire(deadline), which runs to its first await at once. *)
Acquire(c) ==
    /\ pc[c] = "idle"
    /\ \E d \in 0..MaxNow :
        /\ deadline' = [deadline EXCEPT ![c] = d]
        /\ \/ /\ now >= d
              /\ pc' = [pc EXCEPT ![c] = "timedOut"]
              /\ UNCHANGED <<active, pending>>
           \/ /\ now < d
              /\ active < Capacity
              /\ active' = active + 1
              /\ pc' = [pc EXCEPT ![c] = "granted"]
              /\ UNCHANGED pending
           \/ /\ now < d
              /\ active >= Capacity
              /\ Len(pending) >= MaxPending
              /\ pc' = [pc EXCEPT ![c] = "full"]
              /\ UNCHANGED <<active, pending>>
           \/ /\ now < d
              /\ active >= Capacity
              /\ Len(pending) < MaxPending
              /\ pending' = Append(pending, c)
              /\ pc' = [pc EXCEPT ![c] = "waiting"]
              /\ UNCHANGED active
    /\ UNCHANGED now

(* Mutant of Release: the slot is counted free although a waiter takes it over. *)
ReleaseForgetsHandover(c, end) ==
    /\ active' = active - 1
    /\ \/ \E k \in 1..Len(pending) :
            /\ ~Expired(pending[k])
            /\ \A i \in 1..(k-1) : Expired(pending[i])
            /\ pending' = SubSeq(pending, k+1, Len(pending))
            /\ pc' = [x \in Call |-> IF x = c THEN end
                                     ELSE IF x = pending[k] THEN "granted"
                                     ELSE IF \E i \in 1..(k-1) : x = pending[i] THEN "timedOut"
                                     ELSE pc[x]]
       \/ /\ \A i \in 1..Len(pending) : Expired(pending[i])
          /\ pending' = <<>>
          /\ pc' = [x \in Call |-> IF x = c THEN end
                                   ELSE IF x \in Waiters THEN "timedOut"
                                   ELSE pc[x]]

(* Mutant of Release: it looks at the first waiter only and gives the slot   *)
(* back when that one has expired.                                           *)
ReleaseTriesOneWaiter(c, end) ==
    \/ /\ pending = <<>>
       /\ active' = active - 1
       /\ pc' = [pc EXCEPT ![c] = end]
       /\ UNCHANGED pending
    \/ /\ pending # <<>>
       /\ pending' = Tail(pending)
       /\ pc' = [pc EXCEPT ![c] = end,
                            ![Head(pending)] = IF Expired(Head(pending)) THEN "timedOut" ELSE "granted"]
       /\ active' = IF Expired(Head(pending)) THEN active - 1 ELSE active

(* release(), which ends call c in state `end`: waiters whose deadline has *)
(* passed are rejected on the way to the first live one, which takes over  *)
(* the slot; if there is none the slot is given back.                      *)
Release(c, end) ==
    \/ \E k \in 1..Len(pending) :
        /\ ~Expired(pending[k])
        /\ \A i \in 1..(k-1) : Expired(pending[i])
        /\ pending' = SubSeq(pending, k+1, Len(pending))
        /\ pc' = [x \in Call |-> IF x = c THEN end
                                 ELSE IF x = pending[k] THEN "granted"
                                 ELSE IF \E i \in 1..(k-1) : x = pending[i] THEN "timedOut"
                                 ELSE pc[x]]
        /\ UNCHANGED active
    \/ /\ \A i \in 1..Len(pending) : Expired(pending[i])
       /\ pending' = <<>>
       /\ pc' = [x \in Call |-> IF x = c THEN end
                                ELSE IF x \in Waiters THEN "timedOut"
                                ELSE pc[x]]
       /\ active' = active - 1

(* run() resumes after acquire(): it either starts the operation or, when  *)
(* the deadline passed meanwhile, throws through its finally block.        *)
Resume(c) ==
    /\ pc[c] = "granted"
    /\ \/ /\ ~Expired(c)
          /\ pc' = [pc EXCEPT ![c] = "running"]
          /\ UNCHANGED <<active, pending>>
       \/ /\ Expired(c)
          /\ Release(c, "timedOut")
    /\ UNCHANGED <<deadline, now>>

(* The operation settles, either way; the finally block releases. *)
Settle(c) ==
    /\ pc[c] = "running"
    /\ Release(c, "done")
    /\ UNCHANGED <<deadline, now>>

(* Mutant of TimerFires: the timer rejects the waiter but leaves it in the list. *)
TimerKeepsWaiter(c) ==
    /\ c \in Waiters
    /\ Expired(c)
    /\ pc' = [pc EXCEPT ![c] = "timedOut"]
    /\ UNCHANGED <<active, pending, deadline, now>>

(* Mutant of TimerFires: no timer is armed. *)
TimerNeverFires(c) == c \notin Call /\ UNCHANGED vars

(* The timer a waiter set for its own deadline. *)
TimerFires(c) ==
    /\ \E i \in 1..Len(pending) :
        /\ pending[i] = c
        /\ Expired(c)
        /\ pending' = SubSeq(pending, 1, i-1) \o SubSeq(pending, i+1, Len(pending))
    /\ pc' = [pc EXCEPT ![c] = "timedOut"]
    /\ UNCHANGED <<active, deadline, now>>

(* Time passes; the model's clock stops at MaxNow, when every deadline has passed. *)
Tick ==
    /\ now < MaxNow
    /\ now' = now + 1
    /\ UNCHANGED <<active, pending, deadline, pc>>

Next ==
    \/ Tick
    \/ \E c \in Call : Acquire(c) \/ Resume(c) \/ Settle(c) \/ TimerFires(c)

(* Promise continuations and timers are run by the event loop; nothing makes *)
(* an operation settle, and nothing makes a caller call.                     *)
Fairness ==
    /\ WF_vars(Tick)
    /\ \A c \in Call : WF_vars(Resume(c)) /\ WF_vars(TimerFires(c))

Spec == Init /\ [][Next]_vars /\ Fairness
-----------------------------------------------------------------------------
(* Types of the state the queue and its callers keep. *)
TypeOK ==
    /\ active \in Nat
    /\ pending \in Seq(Call)
    /\ deadline \in [Call -> 0..MaxNow]
    /\ pc \in [Call -> {"idle", "waiting", "granted", "running", "timedOut", "full", "done"}]
    /\ now \in 0..MaxNow

(* `active` counts exactly the calls that hold a slot: a slot handed from a  *)
(* leaving call to a waiter is neither counted twice nor forgotten, on the   *)
(* timeout path of run() as well as on the normal one.                       *)
SlotsAccounted == active = Cardinality(Holders)

(* At most `capacity` operations are inside the queue at any time. *)
WithinCapacity == Cardinality(Holders) <= Capacity

(* The waiting list never exceeds maxPending, holds no call twice, and holds *)
(* exactly the calls whose promise is still unsettled: no waiter is dropped  *)
(* without an answer, and none is answered twice by its timer and release(). *)
WaitersListed ==
    /\ Len(pending) <= MaxPending
    /\ \A i, j \in 1..Len(pending) : pending[i] = pending[j] => i = j
    /\ Waiters = {c \in Call : pc[c] = "waiting"}

(* No lost wakeup: somebody waits only while every slot is taken, so a call  *)
(* that arrives later can never overtake a waiter.                           *)
NoIdleSlot == pending # <<>> => active = Capacity

(* The queue implements the slots it promises. *)
Slots == INSTANCE AdmissionSlots WITH inside <- Holders, asking <- Waiters
ImplementsSlots == Slots!Spec

(* Every waiter is answered by its deadline, even if no admitted operation   *)
(* ever settles and gives its slot back.                                     *)
WaitersSettle == \A c \in Call : pc[c] = "waiting" ~> pc[c] # "waiting"

=============================================================================

------------------- MODULE IssuanceWorkCoordinator_proofs -------------------
(***************************************************************************)
(* For every set of calls, processes, budgets and timings: the offers that *)
(* are outstanding stay within the budget, and the coordinator implements  *)
(* OfferBudget.                                                            *)
(***************************************************************************)
EXTENDS IssuanceWorkCoordinator, FiniteSetTheorems, TLAPS

(* A call may only be past its activation with an active permit. *)
Pinned == \A c \in Call : pc[c] \in {"activated", "dispatched", "lost"} => permit[c].kind = "active"

(* The hash records the budget of all its owners, and holds no more of them. *)
HashConsistent ==
    /\ \A c \in Held : capacity = Budget[c]
    /\ Held # {} => Cardinality(Held) <= capacity

(* The inductive invariant: what is outstanding is pinned in the hash, and   *)
(* the hash is within the one budget it records.                             *)
IInv == TypeOK /\ Pinned /\ HashConsistent

LEMMA BudgetType == Budget \in [Call -> Nat \ {0}]
BY HomeAssumption, CapacityAssumption DEF Budget

(* A set of calls is finite and has a cardinality. *)
LEMMA CallsFinite == \A S : S \subseteq Call => IsFiniteSet(S) /\ Cardinality(S) \in Nat
BY CallAssumption, FS_Subset, FS_CardinalityType

-----------------------------------------------------------------------------
(* What the scripts do to the hash.  ACQUIRE keeps every active permit. *)
LEMMA AcquireKeeps ==
    ASSUME IInv, NEW c \in Call, NEW result \in {-1, 0, 1}, AcquireScript(c, result)
    PROVE  /\ permit' \in [Call -> [kind : {"none", "reserved", "active"}, until : Nat]]
           /\ capacity' \in Nat
           /\ \A d \in Call : permit[d].kind = "active" => permit'[d].kind = "active"
           /\ HashConsistent'
<1> DEFINE kept == {d \in Call : Live(d)}
           recorded == IF kept = {} THEN 0 ELSE capacity
           purged == [d \in Call |-> IF d \in kept THEN permit[d] ELSE NoPermit]
<1> USE DEF IInv, TypeOK
<1>1. /\ now \in Nat /\ ReservationMs \in Nat
      /\ Budget[c] \in Nat \ {0}
      /\ \A n \in Nat : Reservation(n) \in [kind : {"none", "reserved", "active"}, until : Nat]
      /\ NoPermit \in [kind : {"none", "reserved", "active"}, until : Nat]
  BY BudgetType, TimesAssumption DEF Reservation, NoPermit
<1>2. /\ kept \subseteq Held
      /\ \A d \in Call : permit[d].kind = "active" => d \in kept
  BY DEF Live, Reserved, Held
<1>3. /\ Held \subseteq Call
      /\ IsFiniteSet(kept) /\ IsFiniteSet(Held)
      /\ Cardinality(kept) \in Nat /\ Cardinality(Held) \in Nat
      /\ Cardinality(kept) <= Cardinality(Held)
  BY <1>2, CallsFinite, FS_Subset DEF Held
<1>4. /\ purged \in [Call -> [kind : {"none", "reserved", "active"}, until : Nat]]
      /\ \A d \in Call : permit[d].kind = "active" => purged[d].kind = "active"
      /\ \A d \in Call : purged[d].kind # "none" <=> d \in kept
  BY <1>1, <1>2 DEF NoPermit, Held
<1>5. recorded \in Nat
  BY <1>1
<1>6. CASE permit' = purged /\ capacity' = recorded
  <2>1. Held' = kept
    BY <1>4, <1>6 DEF Held
  <2>2. \A d \in kept : capacity' = Budget[d]
    BY <1>2, <1>6 DEF HashConsistent
  <2>3. kept # {} => Cardinality(kept) <= capacity'
    BY <1>2, <1>3, <1>6 DEF HashConsistent
  <2>4. HashConsistent'
    BY <2>1, <2>2, <2>3, BudgetType DEF HashConsistent, Budget
  <2> QED BY <1>4, <1>5, <1>6, <2>4
<1>7. CASE /\ recorded \in {0, Budget[c]}
           /\ c \notin kept
           /\ Cardinality(kept) < Budget[c]
           /\ permit' = [purged EXCEPT ![c] = Reservation(now + ReservationMs)]
           /\ capacity' = Budget[c]
  <2>1. now + ReservationMs \in Nat
    BY <1>1
  <2>2. /\ permit' \in [Call -> [kind : {"none", "reserved", "active"}, until : Nat]]
        /\ permit'[c].kind = "reserved"
        /\ \A d \in Call \ {c} : permit'[d] = purged[d]
    BY <1>1, <1>4, <1>7, <2>1 DEF Reservation
  <2>3. Held' = kept \cup {c}
    BY <1>4, <2>2 DEF Held
  <2>4. Cardinality(kept \cup {c}) = Cardinality(kept) + 1
    BY <1>3, <1>7, FS_AddElement
  <2>5. \A d \in kept : Budget[d] = Budget[c]
    BY <1>1, <1>2, <1>7, BudgetType DEF HashConsistent, Held
  <2>6. \A d \in kept \cup {c} : capacity' = Budget[d]
    BY <1>7, <2>5
  <2>7. Cardinality(kept \cup {c}) <= capacity'
    BY <1>1, <1>3, <1>7, <2>4
  <2>8. HashConsistent'
    BY <2>3, <2>6, <2>7 DEF HashConsistent, Budget
  <2>9. \A d \in Call : permit[d].kind = "active" => permit'[d].kind = "active"
    BY <1>2, <1>4, <1>7, <2>2
  <2> QED BY <1>1, <1>7, <2>2, <2>8, <2>9
<1> QED BY <1>6, <1>7 DEF AcquireScript

(* ACTIVATE only turns a reservation into an active permit. *)
LEMMA ActivateKeeps ==
    ASSUME IInv, NEW c \in Call, NEW result \in {0, 1}, ActivateScript(c, result)
    PROVE  /\ permit' \in [Call -> [kind : {"none", "reserved", "active"}, until : Nat]]
           /\ capacity' \in Nat
           /\ \A d \in Call : permit[d].kind = "active" => permit'[d].kind = "active"
           /\ result = 1 => permit'[c].kind = "active"
           /\ HashConsistent'
<1> USE DEF IInv, TypeOK
<1>1. CASE Reserved(c) /\ permit' = [permit EXCEPT ![c] = Active] /\ UNCHANGED capacity
  <2>1. /\ permit' \in [Call -> [kind : {"none", "reserved", "active"}, until : Nat]]
        /\ permit'[c].kind = "active"
        /\ \A d \in Call : permit[d].kind = "active" => permit'[d].kind = "active"
    BY <1>1 DEF Active
  <2>2. Held' = Held
    BY <1>1 DEF Held, Reserved, Active
  <2>3. HashConsistent'
    BY <1>1, <2>2 DEF HashConsistent, Budget
  <2> QED BY <1>1, <2>1, <2>3
<1>2. CASE result = 0 /\ UNCHANGED redis
  BY <1>2 DEF redis, HashConsistent, Held, Budget
<1> QED BY <1>1, <1>2 DEF ActivateScript

(* RELEASE removes the permit of its owner and no other. *)
LEMMA ReleaseKeeps ==
    ASSUME IInv, NEW c \in Call, ReleaseScript(c)
    PROVE  /\ permit' \in [Call -> [kind : {"none", "reserved", "active"}, until : Nat]]
           /\ capacity' \in Nat
           /\ \A d \in Call \ {c} : permit'[d] = permit[d]
           /\ HashConsistent'
<1> USE DEF IInv, TypeOK
<1>1. /\ permit' \in [Call -> [kind : {"none", "reserved", "active"}, until : Nat]]
      /\ permit'[c].kind = "none"
      /\ \A d \in Call \ {c} : permit'[d] = permit[d]
  BY DEF ReleaseScript, NoPermit
<1>2. capacity' \in Nat
  BY DEF ReleaseScript
<1>3. Held' = Held \ {c}
  BY <1>1 DEF Held
<1>4. /\ Cardinality(Held \ {c}) <= Cardinality(Held)
      /\ Cardinality(Held \ {c}) \in Nat /\ Cardinality(Held) \in Nat
  BY CallsFinite, FS_Subset DEF Held
<1>5. Held \ {c} # {} => capacity' = capacity /\ Held # {}
  BY DEF ReleaseScript
<1>6. HashConsistent'
  <2>1. \A d \in Held \ {c} : capacity' = Budget[d]
    BY <1>5 DEF HashConsistent
  <2>2. Held \ {c} # {} => Cardinality(Held \ {c}) <= capacity'
    BY <1>4, <1>5 DEF HashConsistent
  <2> QED BY <1>3, <2>1, <2>2 DEF HashConsistent, Budget
<1> QED BY <1>1, <1>2, <1>6

-----------------------------------------------------------------------------
LEMMA Initial == Init => IInv
<1> SUFFICES ASSUME Init
             PROVE  IInv
  OBVIOUS
<1>1. TypeOK
  BY TimesAssumption DEF Init, TypeOK, NoPermit, State
<1>2. Held = {}
  BY DEF Init, Held, NoPermit
<1> QED BY <1>1, <1>2 DEF Init, IInv, Pinned, HashConsistent

(* A step that leaves the hash alone and brings no call past its activation  *)
(* keeps what the invariant says of the hash.                                *)
LEMMA HashUntouched ==
    ASSUME IInv, UNCHANGED redis, pc' \in [Call -> State],
           \A c \in Call : pc'[c] \in {"activated", "dispatched", "lost"} =>
                             pc[c] \in {"activated", "dispatched", "lost"}
    PROVE  Pinned' /\ HashConsistent'
BY DEF IInv, redis, Pinned, HashConsistent, Held, Budget

(* Moving one call to another state. *)
LEMMA GotoType ==
    ASSUME TypeOK, NEW c \in Call, NEW s \in State, Goto(c, s)
    PROVE  /\ pc' \in [Call -> State]
           /\ pc'[c] = s
           /\ \A d \in Call \ {c} : pc'[d] = pc[d]
BY DEF TypeOK, Goto

(* Every step of the coordinator preserves the inductive invariant. *)
LEMMA Inductive == IInv /\ [Next]_vars => IInv'
<1> SUFFICES ASSUME IInv, [Next]_vars
             PROVE  IInv'
  OBVIOUS
<1> USE DEF IInv
<1>0. TypeOK
  OBVIOUS
<1>1. CASE Tick
  <2>1. TypeOK' /\ UNCHANGED redis /\ UNCHANGED pc
    BY <1>1, TimesAssumption DEF Tick, TypeOK, redis
  <2> QED BY <2>1, HashUntouched DEF TypeOK
<1>2. ASSUME NEW r \in Request, Interactive(r)
      PROVE  IInv'
  <2>1. PICK header \in (now + 1)..MaxNow :
          admission' = [admission EXCEPT ![r] = Minimum(header, now + AdmissionMs)]
    BY <1>2 DEF Interactive
  <2>2. Minimum(header, now + AdmissionMs) \in Nat
    BY TimesAssumption DEF Minimum, TypeOK
  <2>3. TypeOK' /\ UNCHANGED redis /\ UNCHANGED pc
    BY <1>2, <2>1, <2>2 DEF Interactive, TypeOK, redis
  <2> QED BY <2>3, HashUntouched DEF TypeOK
<1>3. ASSUME NEW p \in Process, Crash(p)
      PROVE  IInv'
  <2>1. pc' \in [Call -> State]
    BY <1>3 DEF Crash, TypeOK, State, Final, Admitted
  <2>2. \A c \in Call : pc'[c] \in {"activated", "dispatched", "lost"} =>
                          pc[c] \in {"activated", "dispatched", "lost"}
    BY <1>3 DEF Crash, TypeOK
  <2>3. TypeOK' /\ UNCHANGED redis
    BY <1>3, <2>1 DEF Crash, TypeOK, redis
  <2> QED BY <2>1, <2>2, <2>3, HashUntouched
<1>4. ASSUME NEW c \in Call, Offer(c)
      PROVE  IInv'
  <2>1. AdmissionDeadline(c) \in Nat
    BY TimesAssumption, RequestOfAssumption DEF AdmissionDeadline, Minimum, TypeOK
  <2>2. "queued" \in State /\ Goto(c, "queued")
    BY <1>4 DEF Offer, State
  <2>3. TypeOK' /\ UNCHANGED redis
    BY <1>4, <2>1, <2>2, GotoType DEF Offer, TypeOK, redis
  <2> QED BY <2>2, <2>3, GotoType, HashUntouched
<1>5. ASSUME NEW c \in Call,
             Admit(c) \/ AcquireSend(c) \/ EvalError(c) \/ ActivateSend(c) \/ Settle(c)
      PROVE  IInv'
  <2>1. PICK s \in {"acquire", "rejected", "acquireSent", "releasing", "activateSent"} : Goto(c, s)
    BY <1>5 DEF Admit, AcquireSend, EvalError, ActivateSend, Settle
  <2>2. s \in State /\ s \notin {"activated", "dispatched", "lost"}
    BY DEF State, Admitted, Final
  <2>3. UNCHANGED <<now, redis, admission, dispatched, deadline, attempt>>
    BY <1>5 DEF Admit, AcquireSend, EvalError, ActivateSend, Settle
  <2>4. TypeOK'
    BY <2>1, <2>2, <2>3, GotoType DEF TypeOK, redis
  <2> QED BY <2>1, <2>2, <2>3, <2>4, GotoType, HashUntouched
<1>6. ASSUME NEW c \in Call, AcquireReply(c)
      PROVE  IInv'
  <2>1. PICK result \in {-1, 0, 1}, s \in {"reserved", "acquire", "releasing"} :
          AcquireScript(c, result) /\ Goto(c, s)
    BY <1>6 DEF AcquireReply
  <2>2. s \in State /\ s \notin {"activated", "dispatched", "lost"}
    BY DEF State, Admitted, Final
  <2>3. TypeOK'
    BY <1>6, <2>1, <2>2, AcquireKeeps, GotoType DEF AcquireReply, TypeOK
  <2>4. Pinned'
    BY <2>1, <2>2, AcquireKeeps, GotoType DEF Pinned
  <2> QED BY <2>1, <2>3, <2>4, AcquireKeeps
<1>7. ASSUME NEW c \in Call, Resend(c)
      PROVE  IInv'
  <2>1. UNCHANGED <<now, admission, dispatched, pc, deadline, attempt>>
    BY <1>7 DEF Resend
  <2>2. CASE \E result \in {-1, 0, 1} : AcquireScript(c, result)
    BY <2>1, <2>2, AcquireKeeps DEF TypeOK, Pinned
  <2>3. CASE \E result \in {0, 1} : ActivateScript(c, result)
    BY <2>1, <2>3, ActivateKeeps DEF TypeOK, Pinned
  <2> QED BY <1>7, <2>2, <2>3 DEF Resend
<1>8. ASSUME NEW c \in Call, ActivateReply(c)
      PROVE  IInv'
  <2>1. PICK result \in {0, 1}, s \in {"activated", "releasing"} :
          ActivateScript(c, result) /\ Goto(c, s) /\ (s = "activated" => result = 1)
    BY <1>8 DEF ActivateReply
  <2>2. s \in State /\ s \notin {"dispatched", "lost"}
    BY DEF State, Admitted, Final
  <2>3. TypeOK'
    BY <1>8, <2>1, <2>2, ActivateKeeps, GotoType DEF ActivateReply, TypeOK
  <2>4. Pinned'
    BY <2>1, <2>2, ActivateKeeps, GotoType DEF Pinned
  <2> QED BY <2>1, <2>3, <2>4, ActivateKeeps
<1>9. ASSUME NEW c \in Call, Dispatch(c)
      PROVE  IInv'
  <2>1. PICK s \in {"dispatched", "releasing"} : Goto(c, s)
    BY <1>9 DEF Dispatch
  <2>2. s \in State
    BY DEF State, Admitted
  <2>3. UNCHANGED redis /\ pc[c] = "activated"
    BY <1>9 DEF Dispatch
  <2>4. dispatched' \in [Request -> BOOLEAN]
    BY <1>9 DEF Dispatch, TypeOK
  <2>5. TypeOK'
    BY <1>9, <2>1, <2>2, <2>4, GotoType DEF Dispatch, TypeOK, redis
  <2> QED BY <2>1, <2>2, <2>3, <2>5, GotoType, HashUntouched
<1>10. ASSUME NEW c \in Call, ReleaseReply(c)
      PROVE  IInv'
  <2>1. ReleaseScript(c) /\ Goto(c, "done") /\ "done" \in State
    BY <1>10 DEF ReleaseReply, State, Final
  <2>2. TypeOK'
    BY <1>10, <2>1, ReleaseKeeps, GotoType DEF ReleaseReply, TypeOK
  <2>3. Pinned'
    BY <2>1, ReleaseKeeps, GotoType DEF Pinned
  <2> QED BY <2>1, <2>2, <2>3, ReleaseKeeps
<1>11. ASSUME NEW c \in Call, ReleaseError(c)
      PROVE  IInv'
  <2>1. /\ pc[c] = "releasing"
        /\ pc' \in [Call -> State]
        /\ pc'[c] \in {"releasing", "failed"}
        /\ \A d \in Call \ {c} : pc'[d] = pc[d]
    BY <1>11 DEF ReleaseError, Goto, TypeOK, State, Final
  <2>2. attempt' \in [Call -> 0..2]
    BY <1>11 DEF ReleaseError, TypeOK
  <2>3. CASE ReleaseScript(c)
    <3>1. TypeOK'
      BY <1>11, <2>1, <2>2, <2>3, ReleaseKeeps DEF ReleaseError, TypeOK
    <3>2. Pinned'
      BY <2>1, <2>3, ReleaseKeeps DEF Pinned
    <3> QED BY <2>3, <3>1, <3>2, ReleaseKeeps
  <2>4. CASE UNCHANGED redis
    <3>1. TypeOK'
      BY <1>11, <2>1, <2>2, <2>4 DEF ReleaseError, TypeOK, redis
    <3> QED BY <2>1, <2>4, <3>1, HashUntouched
  <2> QED BY <1>11, <2>3, <2>4 DEF ReleaseError
<1>12. CASE UNCHANGED vars
  <2>1. TypeOK' /\ UNCHANGED redis /\ UNCHANGED pc
    BY <1>12 DEF vars, TypeOK, redis
  <2> QED BY <2>1, HashUntouched DEF TypeOK
<1> QED BY <1>1, <1>2, <1>3, <1>4, <1>5, <1>6, <1>7, <1>8, <1>9, <1>10, <1>11, <1>12
        DEF Next, CallStep

-----------------------------------------------------------------------------
(* The state keeps its types. *)
THEOREM TypeCorrect == Spec => []TypeOK
<1>1. IInv => TypeOK
  BY DEF IInv
<1> QED BY Initial, Inductive, <1>1, PTL DEF Spec

(* What is outstanding is held in the hash, under the budget it records. *)
LEMMA OutstandingHeld ==
    ASSUME IInv
    PROVE  /\ Outstanding \subseteq Held
           /\ IsFiniteSet(Held) /\ IsFiniteSet(Outstanding)
           /\ Cardinality(Outstanding) \in Nat /\ Cardinality(Held) \in Nat
           /\ Cardinality(Outstanding) <= Cardinality(Held)
<1>1. Outstanding \subseteq Held /\ Held \subseteq Call
  BY DEF IInv, Pinned, Outstanding, Held
<1> QED BY <1>1, CallsFinite, FS_Subset

(* The offers outstanding at any time, those of crashed workers included,    *)
(* are within the budget of every process that dispatched one of them.       *)
THEOREM BudgetRespected == Spec => []OffersWithinBudget
<1>1. IInv => OffersWithinBudget
  <2> SUFFICES ASSUME IInv, NEW c \in Outstanding
               PROVE  Cardinality(Outstanding) <= Budget[c]
    BY DEF OffersWithinBudget
  <2>1. c \in Held /\ Held # {}
    BY OutstandingHeld
  <2>2. capacity = Budget[c] /\ Cardinality(Held) <= capacity /\ capacity \in Nat
    BY <2>1 DEF IInv, HashConsistent, TypeOK
  <2> QED BY <2>2, OutstandingHeld
<1> QED BY Initial, Inductive, <1>1, PTL DEF Spec

(* The cardinality the abstract module uses is the one used here. *)
LEMMA PromiseCardinality == \A S : Promise!Cardinality(S) = Cardinality(S)
BY DEF Promise!Cardinality, Cardinality

(* A call that is past its activation but not dispatched still counts in the *)
(* hash, so a dispatch finds fewer offers outstanding than the budget.       *)
LEMMA DispatchBegins ==
    ASSUME IInv, NEW c \in Call, pc[c] = "activated", Goto(c, "dispatched")
    PROVE  Promise!Begin(c)
<1>1. c \notin Outstanding /\ c \in Held
  BY DEF Outstanding, IInv, Pinned, Held
<1>2. Outstanding' = Outstanding \cup {c}
  BY DEF Outstanding, Goto, IInv, TypeOK
<1>3. \A d \in Outstanding : Budget[d] = Budget[c]
  BY <1>1, OutstandingHeld DEF IInv, HashConsistent
<1>4. Cardinality(Outstanding) < Budget[c]
  <2>1. /\ IsFiniteSet(Held \ {c})
        /\ Cardinality(Held \ {c}) = Cardinality(Held) - 1
    BY <1>1, OutstandingHeld, FS_RemoveElement
  <2>2. Cardinality(Outstanding) <= Cardinality(Held \ {c})
    BY <1>1, <2>1, OutstandingHeld, FS_Subset
  <2>3. Cardinality(Held) <= Budget[c] /\ Budget[c] \in Nat
    BY <1>1, BudgetType DEF IInv, HashConsistent
  <2> QED BY <2>1, <2>2, <2>3, OutstandingHeld
<1> QED BY <1>1, <1>2, <1>3, <1>4, PromiseCardinality DEF Promise!Begin

(* The coordinator implements OfferBudget. *)
THEOREM CoordinatorImplementsBudget == Spec => ImplementsBudget
<1>1. Init => Promise!Init
  BY DEF Init, Promise!Init, Outstanding
<1>2. IInv /\ [Next]_vars => [Promise!Next]_Outstanding
  <2> SUFFICES ASSUME IInv, [Next]_vars
               PROVE  [Promise!Next]_Outstanding
    OBVIOUS
  <2>t. TypeOK
    BY DEF IInv
  <2>1. ASSUME UNCHANGED pc
        PROVE  UNCHANGED Outstanding
    BY <2>1 DEF Outstanding
  <2>2. ASSUME NEW c \in Call, NEW s \in State, Goto(c, s),
               pc[c] \notin {"dispatched", "lost"}, s \notin {"dispatched", "lost"}
        PROVE  UNCHANGED Outstanding
    BY <2>t, <2>2, GotoType DEF Outstanding
  <2>3. ASSUME NEW p \in Process, Crash(p)
        PROVE  UNCHANGED Outstanding
    <3>1. \A c \in Call : pc'[c] \in {"dispatched", "lost"} <=> pc[c] \in {"dispatched", "lost"}
      <4> SUFFICES ASSUME NEW c \in Call
                   PROVE  pc'[c] \in {"dispatched", "lost"} <=> pc[c] \in {"dispatched", "lost"}
        OBVIOUS
      <4>1. "lost" \notin Admitted \cup {"queued"} /\ "dispatched" \in Admitted
        BY DEF Admitted
      <4>2. pc'[c] = IF Home[c] # p \/ pc[c] \notin Admitted \cup {"queued"} THEN pc[c]
                     ELSE IF pc[c] = "dispatched" THEN "lost"
                     ELSE "crashed"
        BY <2>3 DEF Crash
      <4> QED BY <4>1, <4>2
    <3> QED BY <3>1 DEF Outstanding
  <2>4. ASSUME NEW c \in Call, Offer(c)
        PROVE  UNCHANGED Outstanding
    BY <2>2, <2>4 DEF Offer, State
  <2>5. ASSUME NEW c \in Call, Admit(c) \/ AcquireSend(c) \/ EvalError(c) \/ ActivateSend(c)
        PROVE  UNCHANGED Outstanding
    <3>1. PICK s \in {"acquire", "rejected", "acquireSent", "releasing", "activateSent"} : Goto(c, s)
      BY <2>5 DEF Admit, AcquireSend, EvalError, ActivateSend
    <3>2. s \in State /\ pc[c] \notin {"dispatched", "lost"}
      BY <2>5 DEF State, Admitted, Final, Admit, AcquireSend, EvalError, ActivateSend
    <3> QED BY <2>2, <3>1, <3>2
  <2>6. ASSUME NEW c \in Call, AcquireReply(c) \/ ActivateReply(c)
        PROVE  UNCHANGED Outstanding
    <3>1. PICK s \in {"reserved", "acquire", "releasing", "activated"} : Goto(c, s)
      BY <2>6 DEF AcquireReply, ActivateReply
    <3>2. s \in State /\ pc[c] \notin {"dispatched", "lost"}
      BY <2>6 DEF State, Admitted, Final, AcquireReply, ActivateReply
    <3> QED BY <2>2, <3>1, <3>2
  <2>7. ASSUME NEW c \in Call, Dispatch(c)
        PROVE  [Promise!Next]_Outstanding
    <3>1. CASE Goto(c, "dispatched")
      <4>1. Promise!Begin(c)
        BY <2>7, <3>1, DispatchBegins DEF Dispatch
      <4> QED BY <4>1 DEF Promise!Next
    <3>2. CASE Goto(c, "releasing")
      BY <2>2, <2>7, <3>2 DEF Dispatch, State, Admitted
    <3> QED BY <2>7, <3>1, <3>2 DEF Dispatch
  <2>8. ASSUME NEW c \in Call, Settle(c)
        PROVE  [Promise!Next]_Outstanding
    <3>1. Outstanding' = Outstanding \ {c} /\ c \in Outstanding
      BY <2>8, <2>t DEF Settle, Goto, Outstanding, TypeOK
    <3>2. Promise!End(c)
      BY <3>1 DEF Promise!End
    <3> QED BY <3>2 DEF Promise!Next
  <2>9. ASSUME NEW c \in Call, ReleaseReply(c) \/ ReleaseError(c)
        PROVE  UNCHANGED Outstanding
    <3>1. CASE UNCHANGED pc
      BY <2>1, <3>1
    <3>2. CASE \E s \in {"done", "failed"} : Goto(c, s)
      BY <2>2, <2>9, <3>2 DEF ReleaseReply, ReleaseError, State, Final
    <3> QED BY <2>9, <3>1, <3>2 DEF ReleaseReply, ReleaseError
  <2>10. CASE UNCHANGED vars
    BY <2>1, <2>10 DEF vars
  <2>11. CASE Tick \/ \E r \in Request : Interactive(r)
    BY <2>1, <2>11 DEF Tick, Interactive
  <2>12. ASSUME NEW c \in Call, Resend(c)
         PROVE  UNCHANGED Outstanding
    BY <2>1, <2>12 DEF Resend
  <2> QED BY <2>3, <2>4, <2>5, <2>6, <2>7, <2>8, <2>9, <2>10, <2>11, <2>12 DEF Next, CallStep
<1> QED BY Initial, Inductive, <1>1, <1>2, PTL DEF Spec, ImplementsBudget, Promise!Spec

-----------------------------------------------------------------------------
(* The call that is about to dispatch the first offer of a request was given  *)
(* a wait that ends no later than the request's own deadline.  It is this     *)
(* fact, with the last checkWaiting() of acquireAndRun(), that keeps an       *)
(* expired request from sending an offer.                                     *)
WaitsWithinRequest ==
    \A c \in Call : /\ RequestOf[c] # Bulk
                    /\ pc[c] # "idle"
                    /\ ~dispatched[RequestOf[c]]
                    => deadline[c] <= admission[RequestOf[c]]

(* A request is admitted once: its deadline does not move.  *)
AdmittedFirst ==
    \A c \in Call : RequestOf[c] # Bulk /\ pc[c] # "idle" => admission[RequestOf[c]] # 0

WInv == IInv /\ AdmittedFirst /\ WaitsWithinRequest

(* Only interactive(), offer() and the dispatch touch what WInv is about. *)
LEMMA AdmissionUntouched ==
    ASSUME IInv, [Next]_vars,
           ~ \E r \in Request : Interactive(r),
           ~ \E c \in Call : Offer(c) \/ Dispatch(c)
    PROVE  /\ UNCHANGED <<admission, dispatched, deadline>>
           /\ \A c \in Call : pc[c] = "idle" => pc'[c] = "idle"
<1> USE DEF IInv, TypeOK
<1>1. CASE Tick \/ UNCHANGED vars
  BY <1>1 DEF Tick, vars
<1>2. ASSUME NEW p \in Process, Crash(p)
      PROVE  /\ UNCHANGED <<admission, dispatched, deadline>>
             /\ \A c \in Call : pc[c] = "idle" => pc'[c] = "idle"
  BY <1>2 DEF Crash, Admitted
<1>3. ASSUME NEW c \in Call, CallStep(c) \/ Settle(c) \/ Resend(c) \/ EvalError(c) \/ ReleaseError(c)
      PROVE  /\ UNCHANGED <<admission, dispatched, deadline>>
             /\ \A d \in Call : pc[d] = "idle" => pc'[d] = "idle"
  <2>1. UNCHANGED <<admission, dispatched, deadline>>
    BY <1>3 DEF CallStep, Admit, AcquireSend, AcquireReply, ActivateSend, ActivateReply, ReleaseReply,
                Settle, Resend, EvalError, ReleaseError
  <2>2. pc[c] # "idle"
    BY <1>3 DEF CallStep, Admit, AcquireSend, AcquireReply, ActivateSend, ActivateReply, ReleaseReply,
                Settle, Resend, EvalError, ReleaseError
  <2>3. pc' = pc \/ \E s \in State : Goto(c, s)
    BY <1>3 DEF CallStep, Admit, AcquireSend, AcquireReply, ActivateSend, ActivateReply, ReleaseReply,
                Settle, Resend, EvalError, ReleaseError, State, Admitted, Final
  <2> QED BY <2>1, <2>2, <2>3, GotoType
<1> QED BY <1>1, <1>2, <1>3 DEF Next

(* Every step keeps a waiting call within the deadline of its request. *)
LEMMA WaitsInductive == WInv /\ [Next]_vars => WInv'
<1> SUFFICES ASSUME WInv, [Next]_vars
             PROVE  WInv'
  OBVIOUS
<1> USE DEF WInv
<1>0. IInv' /\ TypeOK
  BY Inductive DEF IInv
<1>1. ASSUME NEW r \in Request, Interactive(r)
      PROVE  WInv'
  <2>1. /\ admission[r] = 0
        /\ UNCHANGED <<dispatched, pc, deadline>>
        /\ \A q \in Request \ {r} : admission'[q] = admission[q]
    BY <1>0, <1>1 DEF Interactive, TypeOK
  <2>2. \A c \in Call : RequestOf[c] # Bulk /\ pc[c] # "idle" => RequestOf[c] \in Request \ {r}
    BY <2>1, RequestOfAssumption DEF AdmittedFirst
  <2> QED BY <1>0, <2>1, <2>2 DEF AdmittedFirst, WaitsWithinRequest
<1>2. ASSUME NEW c \in Call, Offer(c)
      PROVE  WInv'
  <2>1. /\ RequestOf[c] # Bulk => admission[RequestOf[c]] # 0
        /\ deadline' = [deadline EXCEPT ![c] = AdmissionDeadline(c)]
        /\ Goto(c, "queued")
        /\ UNCHANGED <<admission, dispatched>>
    BY <1>2 DEF Offer
  <2>2. RequestOf[c] # Bulk /\ ~dispatched[RequestOf[c]] =>
          AdmissionDeadline(c) <= admission[RequestOf[c]]
    BY <1>0, TimesAssumption, RequestOfAssumption DEF AdmissionDeadline, Minimum, TypeOK
  <2>3. \A d \in Call \ {c} : pc'[d] = pc[d] /\ deadline'[d] = deadline[d]
    BY <1>0, <2>1 DEF Goto, TypeOK
  <2>4. deadline'[c] = AdmissionDeadline(c)
    BY <1>0, <2>1 DEF TypeOK
  <2> QED BY <1>0, <2>1, <2>2, <2>3, <2>4 DEF AdmittedFirst, WaitsWithinRequest
<1>3. ASSUME NEW c \in Call, Dispatch(c)
      PROVE  WInv'
  <2>1. /\ pc[c] = "activated"
        /\ UNCHANGED <<admission, deadline>>
        /\ \A d \in Call \ {c} : pc'[d] = pc[d]
        /\ \A r \in Request : dispatched[r] => dispatched'[r]
    BY <1>0, <1>3 DEF Dispatch, Goto, TypeOK
  <2> QED BY <1>0, <2>1, RequestOfAssumption DEF AdmittedFirst, WaitsWithinRequest
<1>4. CASE ~ (\E r \in Request : Interactive(r)) /\ ~ (\E c \in Call : Offer(c) \/ Dispatch(c))
  BY <1>0, <1>4, AdmissionUntouched DEF AdmittedFirst, WaitsWithinRequest
<1> QED BY <1>1, <1>2, <1>3, <1>4

(* A request whose gateway deadline passed before its first offer went out   *)
(* never sends one later: offer() waits no longer than interactive() allows  *)
(* and acquireAndRun() looks at the clock once more before the dispatch.     *)
THEOREM ExpiredNeverDispatches == Spec => ExpiredRequestNeverDispatches
<1>1. Init => WInv
  BY Initial DEF Init, WInv, AdmittedFirst, WaitsWithinRequest
<1>2. WInv /\ [Next]_vars =>
        [\A r \in Request : dispatched'[r] /\ ~dispatched[r] => now < admission[r]]_vars
  <2> SUFFICES ASSUME WInv, Next, NEW r \in Request, dispatched'[r], ~dispatched[r]
               PROVE  now < admission[r]
    OBVIOUS
  <2>1. TypeOK
    BY DEF WInv, IInv
  <2>2. PICK c \in Call : Dispatch(c)
    <3>1. CASE \E q \in Request : Interactive(q)
      BY <3>1 DEF Interactive
    <3>2. CASE \E c \in Call : Offer(c)
      BY <3>2 DEF Offer
    <3> QED BY <3>1, <3>2, AdmissionUntouched DEF WInv
  <2>3. now < deadline[c] /\ r = RequestOf[c] /\ pc[c] = "activated"
    BY <2>2 DEF Dispatch
  <2>4. deadline[c] <= admission[r]
    BY <2>3, BulkAssumption DEF WInv, WaitsWithinRequest
  <2>5. now \in Nat /\ deadline[c] \in Nat /\ admission[r] \in Nat
    BY <2>1, TimesAssumption DEF TypeOK
  <2> QED BY <2>3, <2>4, <2>5
<1> QED BY WaitsInductive, <1>1, <1>2, PTL DEF Spec, ExpiredRequestNeverDispatches
=============================================================================

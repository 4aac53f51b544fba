------------------- MODULE IssuanceAdmissionQueue_proofs -------------------
(***************************************************************************)
(* For every number of calls, capacity, pending limit and clock bound: the *)
(* invariants of the admission queue, and that it implements               *)
(* AdmissionSlots.                                                         *)
(***************************************************************************)
EXTENDS IssuanceAdmissionQueue, FiniteSetTheorems, SequenceTheorems, TLAPS

(* The inductive invariant.  None of its parts is inductive alone: `active`  *)
(* stays natural because it counts the holders, it counts the holders        *)
(* because a waiter is never a holder (WaitersListed), and it stays within   *)
(* the capacity because it is only raised below it.                          *)
IInv ==
    /\ TypeOK
    /\ SlotsAccounted
    /\ WithinCapacity
    /\ WaitersListed
    /\ NoIdleSlot

-----------------------------------------------------------------------------
(* A suffix of a sequence. *)
LEMMA Suffix ==
    ASSUME NEW S, NEW s \in Seq(S), NEW k \in 1..Len(s)
    PROVE  LET t == SubSeq(s, k+1, Len(s))
           IN  /\ t \in Seq(S)
               /\ Len(t) = Len(s) - k
               /\ \A i \in 1..Len(t) : t[i] = s[k+i]
<1>1. \A i \in (k+1)..Len(s) : s[i] \in S
  OBVIOUS
<1> QED BY <1>1, SubSeqProperties

(* A sequence without its i-th element. *)
LEMMA Without ==
    ASSUME NEW S, NEW s \in Seq(S), NEW i \in 1..Len(s)
    PROVE  LET t == SubSeq(s, 1, i-1) \o SubSeq(s, i+1, Len(s))
           IN  /\ t \in Seq(S)
               /\ Len(t) = Len(s) - 1
               /\ \A j \in 1..Len(t) : t[j] = IF j < i THEN s[j] ELSE s[j+1]
<1> DEFINE a == SubSeq(s, 1, i-1)
           b == SubSeq(s, i+1, Len(s))
<1>1. /\ a \in Seq(S)
      /\ Len(a) = i - 1
      /\ \A j \in 1..(i-1) : a[j] = s[j]
  BY SubSeqProperties
<1>2. /\ b \in Seq(S)
      /\ Len(b) = Len(s) - i
      /\ \A j \in 1..Len(b) : b[j] = s[i+j]
  BY Suffix
<1> HIDE DEF a, b
<1>3. /\ a \o b \in Seq(S)
      /\ Len(a \o b) = Len(s) - 1
      /\ \A j \in 1..Len(a \o b) : (a \o b)[j] = IF j < i THEN s[j] ELSE s[j+1]
  <2>1. /\ a \o b \in Seq(S)
        /\ Len(a \o b) = Len(a) + Len(b)
        /\ \A j \in 1..(Len(a) + Len(b)) : (a \o b)[j] = IF j <= Len(a) THEN a[j] ELSE b[j - Len(a)]
    BY <1>1, <1>2, ConcatProperties
  <2> QED BY <1>1, <1>2, <2>1
<1> QED BY <1>3 DEF a, b

(* The set of holders is finite, as the set of calls is. *)
LEMMA HoldersFinite == IsFiniteSet(Holders)
BY CallAssumption, FS_Subset DEF Holders

-----------------------------------------------------------------------------
(* What release() does to the slots: it hands the slot of c to a waiter d,   *)
(* rejecting the expired waiters in front of d, or gives it back.            *)
LEMMA ReleaseEffect ==
    ASSUME IInv, NEW c \in Call, pc[c] \in Holding,
           NEW end \in {"timedOut", "done"}, Release(c, end)
    PROVE  /\ pending' \in Seq(Call)
           /\ pc' \in [Call -> {"idle", "waiting", "granted", "running", "timedOut", "full", "done"}]
           /\ Len(pending') <= Len(pending)
           /\ \A i, j \in 1..Len(pending') : pending'[i] = pending'[j] => i = j
           /\ Waiters' = {x \in Call : pc'[x] = "waiting"}
           /\ \/ \E gone \in SUBSET Waiters, d \in Waiters :
                  /\ d \notin gone
                  /\ Holders' = (Holders \ {c}) \cup {d}
                  /\ Waiters' = Waiters \ (gone \cup {d})
                  /\ active' = active
              \/ /\ Holders' = Holders \ {c}
                 /\ Waiters' = {}
                 /\ pending' = <<>>
                 /\ active' = active - 1
<1> USE DEF IInv, TypeOK, WaitersListed, Holding
<1>c. c \notin Waiters
  OBVIOUS
<1>1. CASE \E k \in 1..Len(pending) :
             /\ ~Expired(pending[k])
             /\ \A i \in 1..(k-1) : Expired(pending[i])
             /\ pending' = SubSeq(pending, k+1, Len(pending))
             /\ pc' = [x \in Call |-> IF x = c THEN end
                                      ELSE IF x = pending[k] THEN "granted"
                                      ELSE IF \E i \in 1..(k-1) : x = pending[i] THEN "timedOut"
                                      ELSE pc[x]]
             /\ UNCHANGED active
  <2>1. PICK k \in 1..Len(pending) :
             /\ pending' = SubSeq(pending, k+1, Len(pending))
             /\ pc' = [x \in Call |-> IF x = c THEN end
                                      ELSE IF x = pending[k] THEN "granted"
                                      ELSE IF \E i \in 1..(k-1) : x = pending[i] THEN "timedOut"
                                      ELSE pc[x]]
             /\ UNCHANGED active
    BY <1>1
  <2> DEFINE d == pending[k]
             gone == {pending[i] : i \in 1..(k-1)}
  <2>2. /\ pending' \in Seq(Call)
        /\ Len(pending') = Len(pending) - k
        /\ \A i \in 1..Len(pending') : pending'[i] = pending[k+i]
    BY <2>1, Suffix
  <2>3. /\ d \in Waiters
        /\ gone \in SUBSET Waiters
        /\ d \notin gone
    BY DEF Waiters
  <2>4. \A x : x \in Waiters' <=> \E i \in (k+1)..Len(pending) : x = pending[i]
    <3>1. \A x : x \in Waiters' <=> \E i \in 1..Len(pending') : x = pending'[i]
      BY DEF Waiters
    <3>2. ASSUME NEW x, x \in Waiters'
          PROVE  \E i \in (k+1)..Len(pending) : x = pending[i]
      <4>1. PICK i \in 1..Len(pending') : x = pending'[i]
        BY <3>1, <3>2
      <4>2. k+i \in (k+1)..Len(pending)
        BY <2>2
      <4>3. x = pending[k+i]
        BY <2>2, <4>1
      <4> QED BY <4>2, <4>3
    <3>3. ASSUME NEW x, NEW j \in (k+1)..Len(pending), x = pending[j]
          PROVE  x \in Waiters'
      <4>1. j-k \in 1..Len(pending') /\ k+(j-k) = j
        BY <2>2
      <4>2. pending'[j-k] = pending[k+(j-k)]
        BY <2>2, <4>1
      <4> QED BY <4>1, <4>2, <3>1, <3>3
    <3> QED BY <3>2, <3>3
  <2>5. Waiters' = Waiters \ (gone \cup {d})
    <3>1. ASSUME NEW x \in Waiters'
          PROVE  x \in Waiters \ (gone \cup {d})
      <4>1. PICK i \in (k+1)..Len(pending) : x = pending[i]
        BY <2>4
      <4> QED BY <4>1 DEF Waiters
    <3>2. ASSUME NEW x \in Waiters \ (gone \cup {d})
          PROVE  x \in Waiters'
      <4>1. PICK i \in 1..Len(pending) : x = pending[i]
        BY DEF Waiters
      <4>2. i \in (k+1)..Len(pending)
        BY <4>1
      <4> QED BY <4>1, <4>2, <2>4
    <3> QED BY <3>1, <3>2
  <2>6. \A x \in Call : pc'[x] = IF x = c THEN end
                                 ELSE IF x = d THEN "granted"
                                 ELSE IF x \in gone THEN "timedOut"
                                 ELSE pc[x]
    BY <2>1
  <2>7. pc' \in [Call -> {"idle", "waiting", "granted", "running", "timedOut", "full", "done"}]
    BY <2>1
  <2>8. Waiters' = {x \in Call : pc'[x] = "waiting"}
    BY <2>5, <2>6, <2>3, <1>c
  <2>9. Holders' = (Holders \ {c}) \cup {d}
    BY <2>6, <2>3, <1>c DEF Holders
  <2>10. \A i, j \in 1..Len(pending') : pending'[i] = pending'[j] => i = j
    <3> SUFFICES ASSUME NEW i \in 1..Len(pending'), NEW j \in 1..Len(pending'),
                        pending'[i] = pending'[j]
                 PROVE  i = j
      OBVIOUS
    <3>1. k+i \in 1..Len(pending) /\ k+j \in 1..Len(pending)
      BY <2>2
    <3>2. pending[k+i] = pending[k+j]
      BY <2>2
    <3>3. k+i = k+j
      BY <3>1, <3>2
    <3> QED BY <3>3, <2>2
  <2>11. \E g \in SUBSET Waiters, e \in Waiters :
            /\ e \notin g
            /\ Holders' = (Holders \ {c}) \cup {e}
            /\ Waiters' = Waiters \ (g \cup {e})
            /\ active' = active
    <3> HIDE DEF d, gone
    <3>1. active' = active
      BY <2>1
    <3> QED BY <2>3, <2>5, <2>9, <3>1
  <2>12. Len(pending') <= Len(pending)
    BY <2>2
  <2> QED BY <2>2, <2>7, <2>8, <2>10, <2>11, <2>12
<1>2. CASE /\ pending' = <<>>
           /\ pc' = [x \in Call |-> IF x = c THEN end
                                    ELSE IF x \in Waiters THEN "timedOut"
                                    ELSE pc[x]]
           /\ active' = active - 1
  <2>1. Waiters' = {}
    BY <1>2 DEF Waiters
  <2>2. pc' \in [Call -> {"idle", "waiting", "granted", "running", "timedOut", "full", "done"}]
    BY <1>2
  <2>3. /\ Waiters' = {x \in Call : pc'[x] = "waiting"}
        /\ Holders' = Holders \ {c}
    BY <1>2, <2>1, <1>c DEF Holders
  <2> QED BY <1>2, <2>1, <2>2, <2>3
<1> QED BY <1>1, <1>2 DEF Release

(* release() preserves the inductive invariant. *)
LEMMA ReleaseKeepsIInv ==
    ASSUME IInv, NEW c \in Call, pc[c] \in Holding,
           NEW end \in {"timedOut", "done"}, Release(c, end), UNCHANGED <<deadline, now>>
    PROVE  IInv'
<1> USE DEF IInv
<1>1. c \in Holders
  BY DEF Holders
<1>2. IsFiniteSet(Holders) /\ Cardinality(Holders) \in Nat
  BY HoldersFinite, FS_CardinalityType
<1>3. /\ IsFiniteSet(Holders \ {c})
      /\ Cardinality(Holders \ {c}) = Cardinality(Holders) - 1
  BY <1>1, <1>2, FS_RemoveElement
<1>4. /\ pending' \in Seq(Call)
      /\ pc' \in [Call -> {"idle", "waiting", "granted", "running", "timedOut", "full", "done"}]
      /\ deadline' \in [Call -> 0..MaxNow] /\ now' \in 0..MaxNow
  BY ReleaseEffect DEF TypeOK
<1>5. WaitersListed'
  BY ReleaseEffect, MaxPendingAssumption DEF WaitersListed, TypeOK
<1>6. CASE \E gone \in SUBSET Waiters, d \in Waiters :
             /\ d \notin gone
             /\ Holders' = (Holders \ {c}) \cup {d}
             /\ Waiters' = Waiters \ (gone \cup {d})
             /\ active' = active
  <2>1. PICK d \in Waiters : /\ Holders' = (Holders \ {c}) \cup {d}
                             /\ active' = active
    BY <1>6
  <2>2. d \notin Holders \ {c}
    BY DEF WaitersListed, Holders, Holding
  <2>3. Cardinality(Holders') = Cardinality(Holders)
    <3>1. Cardinality((Holders \ {c}) \cup {d}) = Cardinality(Holders \ {c}) + 1
      BY <1>3, <2>2, FS_AddElement
    <3> QED BY <1>2, <1>3, <2>1, <3>1
  <2>4. pending # <<>>
    BY DEF Waiters
  <2> QED BY <1>4, <1>5, <2>1, <2>3, <2>4
          DEF TypeOK, SlotsAccounted, WithinCapacity, NoIdleSlot
<1>7. CASE /\ Holders' = Holders \ {c}
           /\ pending' = <<>>
           /\ active' = active - 1
  <2>1. active' = Cardinality(Holders') /\ active' \in Nat
    BY <1>2, <1>3, <1>7, FS_CardinalityType DEF SlotsAccounted
  <2>2. Cardinality(Holders') <= Capacity
    BY <1>2, <1>3, <1>7, CapacityAssumption DEF WithinCapacity
  <2> QED BY <1>4, <1>5, <1>7, <2>1, <2>2
          DEF TypeOK, SlotsAccounted, WithinCapacity, NoIdleSlot
<1> QED BY <1>6, <1>7, ReleaseEffect

(* Every step of the queue preserves the inductive invariant. *)
LEMMA Inductive == IInv /\ [Next]_vars => IInv'
<1> SUFFICES ASSUME IInv, [Next]_vars
             PROVE  IInv'
  OBVIOUS
<1> USE CapacityAssumption, MaxPendingAssumption, MaxNowAssumption DEF IInv
<1>f. IsFiniteSet(Holders) /\ Cardinality(Holders) \in Nat
  BY HoldersFinite, FS_CardinalityType
<1>1. CASE Tick
  BY <1>1 DEF Tick, TypeOK, SlotsAccounted, WithinCapacity, WaitersListed, NoIdleSlot,
              Waiters, Holders
<1>2. ASSUME NEW c \in Call, Acquire(c)
      PROVE  IInv'
  <2> USE DEF TypeOK
  <2>1. PICK d \in 0..MaxNow :
          /\ deadline' = [deadline EXCEPT ![c] = d]
          /\ \/ /\ pc' = [pc EXCEPT ![c] = "timedOut"]
                /\ UNCHANGED <<active, pending>>
             \/ /\ active < Capacity
                /\ active' = active + 1
                /\ pc' = [pc EXCEPT ![c] = "granted"]
                /\ UNCHANGED pending
             \/ /\ pc' = [pc EXCEPT ![c] = "full"]
                /\ UNCHANGED <<active, pending>>
             \/ /\ active >= Capacity
                /\ Len(pending) < MaxPending
                /\ pending' = Append(pending, c)
                /\ pc' = [pc EXCEPT ![c] = "waiting"]
                /\ UNCHANGED active
    BY <1>2 DEF Acquire
  <2>2. pc[c] = "idle" /\ UNCHANGED now
    BY <1>2 DEF Acquire
  <2>3. c \notin Holders /\ c \notin Waiters
    BY <2>2 DEF Holders, Holding, WaitersListed
  <2>4. CASE \E end \in {"timedOut", "full"} :
               /\ pc' = [pc EXCEPT ![c] = end]
               /\ UNCHANGED <<active, pending>>
    <3>1. Holders' = Holders
      BY <2>2, <2>4 DEF Holders, Holding
    <3>2. WaitersListed'
      BY <2>2, <2>4 DEF WaitersListed, Waiters
    <3> QED BY <2>1, <2>2, <2>4, <3>1, <3>2 DEF SlotsAccounted, WithinCapacity, NoIdleSlot
  <2>5. CASE /\ active < Capacity
             /\ active' = active + 1
             /\ pc' = [pc EXCEPT ![c] = "granted"]
             /\ UNCHANGED pending
    <3>1. Holders' = Holders \cup {c}
      BY <2>5 DEF Holders, Holding
    <3>2. Cardinality(Holders') = Cardinality(Holders) + 1
      BY <1>f, <2>3, <3>1, FS_AddElement
    <3>3. WaitersListed'
      BY <2>2, <2>5 DEF WaitersListed, Waiters
    <3>4. pending' = <<>>
      BY <2>5 DEF NoIdleSlot
    <3> QED BY <2>1, <2>2, <2>5, <3>2, <3>3, <3>4 DEF SlotsAccounted, WithinCapacity, NoIdleSlot
  <2>6. CASE /\ active >= Capacity
             /\ Len(pending) < MaxPending
             /\ pending' = Append(pending, c)
             /\ pc' = [pc EXCEPT ![c] = "waiting"]
             /\ UNCHANGED active
    <3>1. Holders' = Holders
      BY <2>2, <2>6 DEF Holders, Holding
    <3>2. /\ pending' \in Seq(Call)
          /\ Len(pending') = Len(pending) + 1
          /\ \A i \in 1..Len(pending) : pending'[i] = pending[i]
          /\ pending'[Len(pending) + 1] = c
      BY <2>6, AppendProperties
    <3>3. Waiters' = Waiters \cup {c}
      <4>1. \A x : x \in Waiters' <=> \E i \in 1..Len(pending') : x = pending'[i]
        BY DEF Waiters
      <4>2. \A i : i \in 1..Len(pending') <=> i \in 1..Len(pending) \/ i = Len(pending) + 1
        BY <3>2
      <4>3. \A x : x \in Waiters <=> \E i \in 1..Len(pending) : x = pending[i]
        BY DEF Waiters
      <4>4. \A x : x \in Waiters' <=> x \in Waiters \/ x = c
        <5>1. ASSUME NEW x, x \in Waiters
              PROVE  x \in Waiters'
          <6>1. PICK i \in 1..Len(pending) : x = pending[i]
            BY <4>3, <5>1
          <6> QED BY <3>2, <4>1, <4>2, <6>1
        <5>2. c \in Waiters'
          BY <3>2, <4>1
        <5>3. ASSUME NEW x, x \in Waiters'
              PROVE  x \in Waiters \/ x = c
          <6>1. PICK i \in 1..Len(pending') : x = pending'[i]
            BY <4>1, <5>3
          <6> QED BY <3>2, <4>2, <4>3, <6>1
        <5> QED BY <5>1, <5>2, <5>3
      <4> QED BY <4>4
    <3>4. Waiters' = {x \in Call : pc'[x] = "waiting"}
      BY <2>6, <3>3 DEF WaitersListed
    <3>5. \A i, j \in 1..Len(pending') : pending'[i] = pending'[j] => i = j
      <4> SUFFICES ASSUME NEW i \in 1..Len(pending'), NEW j \in 1..Len(pending'),
                          pending'[i] = pending'[j]
                   PROVE  i = j
        OBVIOUS
      <4>1. \A n \in 1..Len(pending) : pending[n] # c
        BY <2>3 DEF Waiters
      <4>2. /\ i \in 1..Len(pending) \/ i = Len(pending) + 1
            /\ j \in 1..Len(pending) \/ j = Len(pending) + 1
        BY <3>2
      <4>3. CASE i \in 1..Len(pending) /\ j \in 1..Len(pending)
        <5>1. pending[i] = pending[j]
          BY <3>2, <4>3
        <5> QED BY <4>3, <5>1 DEF WaitersListed
      <4> QED BY <3>2, <4>1, <4>2, <4>3
    <3>6. active = Capacity
      BY <2>6 DEF SlotsAccounted, WithinCapacity
    <3> QED BY <2>1, <2>2, <2>6, <3>1, <3>2, <3>4, <3>5, <3>6
            DEF SlotsAccounted, WithinCapacity, NoIdleSlot, WaitersListed
  <2> QED BY <2>1, <2>4, <2>5, <2>6
<1>3. ASSUME NEW c \in Call, Resume(c)
      PROVE  IInv'
  <2>1. CASE Release(c, "timedOut")
    BY <1>3, <2>1, ReleaseKeepsIInv DEF Resume, Holding
  <2>2. CASE /\ pc' = [pc EXCEPT ![c] = "running"]
             /\ UNCHANGED <<active, pending, deadline, now>>
    <3>1. Holders' = Holders
      BY <1>3, <2>2 DEF Resume, Holders, Holding, TypeOK
    <3>2. WaitersListed'
      BY <1>3, <2>2 DEF Resume, WaitersListed, Waiters, TypeOK
    <3> QED BY <2>2, <3>1, <3>2 DEF TypeOK, SlotsAccounted, WithinCapacity, NoIdleSlot
  <2> QED BY <1>3, <2>1, <2>2 DEF Resume
<1>4. ASSUME NEW c \in Call, Settle(c)
      PROVE  IInv'
  BY <1>4, ReleaseKeepsIInv DEF Settle, Holding
<1>5. ASSUME NEW c \in Call, TimerFires(c)
      PROVE  IInv'
  <2>1. PICK i \in 1..Len(pending) :
          /\ pending[i] = c
          /\ pending' = SubSeq(pending, 1, i-1) \o SubSeq(pending, i+1, Len(pending))
    BY <1>5 DEF TimerFires
  <2>2. /\ pc' = [pc EXCEPT ![c] = "timedOut"]
        /\ UNCHANGED <<active, deadline, now>>
    BY <1>5 DEF TimerFires
  <2>3. /\ pending' \in Seq(Call)
        /\ Len(pending') = Len(pending) - 1
        /\ \A j \in 1..Len(pending') : pending'[j] = IF j < i THEN pending[j] ELSE pending[j+1]
    BY <2>1, Without DEF TypeOK
  <2>4. pc[c] = "waiting"
    BY <2>1 DEF WaitersListed, Waiters
  <2>5. Holders' = Holders
    BY <2>2, <2>4 DEF Holders, Holding, TypeOK
  <2>6. Waiters' = Waiters \ {c}
    <3>1. ASSUME NEW x \in Waiters'
          PROVE  x \in Waiters \ {c}
      <4>1. PICK j \in 1..Len(pending') : x = pending'[j]
        BY DEF Waiters
      <4>2. CASE j < i
        <5>1. j \in 1..Len(pending) /\ j # i
          BY <4>2 DEF TypeOK
        <5>2. x = pending[j]
          BY <2>3, <4>1, <4>2
        <5> QED BY <2>1, <5>1, <5>2 DEF WaitersListed, Waiters
      <4>3. CASE j >= i
        <5>1. j+1 \in 1..Len(pending) /\ j+1 # i
          BY <2>3, <4>3 DEF TypeOK
        <5>2. x = pending[j+1]
          BY <2>3, <4>1, <4>3
        <5> QED BY <2>1, <5>1, <5>2 DEF WaitersListed, Waiters
      <4> QED BY <4>2, <4>3, <2>3
    <3>2. ASSUME NEW x \in Waiters \ {c}
          PROVE  x \in Waiters'
      <4>1. PICK j \in 1..Len(pending) : x = pending[j]
        BY DEF Waiters
      <4>2. CASE j < i
        <5>1. j \in 1..Len(pending') /\ pending'[j] = pending[j]
          BY <2>3, <4>2 DEF TypeOK
        <5> QED BY <4>1, <5>1 DEF Waiters
      <4>3. CASE j > i
        <5>1. j-1 \in 1..Len(pending')
          BY <2>3, <4>3 DEF TypeOK
        <5>2. pending'[j-1] = pending[j]
          BY <2>3, <4>3, <5>1
        <5> QED BY <4>1, <5>1, <5>2 DEF Waiters
      <4> QED BY <2>1, <4>1, <4>2, <4>3
    <3> QED BY <3>1, <3>2
  <2>7. Waiters' = {x \in Call : pc'[x] = "waiting"}
    BY <2>2, <2>6 DEF WaitersListed, TypeOK
  <2>8. \A j, k \in 1..Len(pending') : pending'[j] = pending'[k] => j = k
    <3> SUFFICES ASSUME NEW j \in 1..Len(pending'), NEW k \in 1..Len(pending'),
                        pending'[j] = pending'[k]
                 PROVE  j = k
      OBVIOUS
    <3> DEFINE up(n) == IF n < i THEN n ELSE n+1
    <3>1. up(j) \in 1..Len(pending) /\ up(k) \in 1..Len(pending)
      <4>1. Len(pending) \in Nat
        BY DEF TypeOK
      <4> QED BY <2>3, <4>1
    <3>2. pending'[j] = pending[up(j)] /\ pending'[k] = pending[up(k)]
      BY <2>3
    <3>3. up(j) = up(k)
      BY <3>1, <3>2 DEF WaitersListed
    <3> QED BY <3>3, <2>3
  <2>9. pending # <<>>
    BY <2>1
  <2>10. Len(pending') <= MaxPending
    BY <2>3 DEF WaitersListed, TypeOK
  <2> QED BY <2>2, <2>3, <2>5, <2>7, <2>8, <2>9, <2>10
          DEF TypeOK, SlotsAccounted, WithinCapacity, NoIdleSlot, WaitersListed
<1>6. CASE UNCHANGED vars
  BY <1>6 DEF vars, TypeOK, SlotsAccounted, WithinCapacity, WaitersListed, NoIdleSlot,
              Waiters, Holders
<1> QED BY <1>1, <1>2, <1>3, <1>4, <1>5, <1>6 DEF Next

LEMMA Initial == Init => IInv
<1> SUFFICES ASSUME Init
             PROVE  IInv
  OBVIOUS
<1>1. Holders = {} /\ Waiters = {}
  BY DEF Init, Holders, Holding, Waiters
<1> QED BY <1>1, FS_EmptySet, CapacityAssumption, MaxPendingAssumption, MaxNowAssumption
        DEF Init, IInv, TypeOK, SlotsAccounted, WithinCapacity, WaitersListed, NoIdleSlot

(* In every behaviour of the queue the slot counter counts the calls that   *)
(* hold a slot: release() neither loses a slot nor hands out one twice.      *)
THEOREM SlotsStayAccounted == Spec => []SlotsAccounted
<1>1. IInv => SlotsAccounted
  BY DEF IInv
<1> QED BY Initial, Inductive, <1>1, PTL DEF Spec

(* At most `capacity` operations are inside the queue. *)
THEOREM CapacityRespected == Spec => []WithinCapacity
<1>1. IInv => WithinCapacity
  BY DEF IInv
<1> QED BY Initial, Inductive, <1>1, PTL DEF Spec

(* The waiting list is bounded and holds each unanswered waiter once: a timer *)
(* and release() never both answer one, and none is dropped.                  *)
THEOREM WaitersStayListed == Spec => []WaitersListed
<1>1. IInv => WaitersListed
  BY DEF IInv
<1> QED BY Initial, Inductive, <1>1, PTL DEF Spec

(* No wakeup is lost: somebody waits only while all the slots are taken. *)
THEOREM NoLostWakeup == Spec => []NoIdleSlot
<1>1. IInv => NoIdleSlot
  BY DEF IInv
<1> QED BY Initial, Inductive, <1>1, PTL DEF Spec

(* The queue's state keeps its types. *)
THEOREM TypeCorrect == Spec => []TypeOK
<1>1. IInv => TypeOK
  BY DEF IInv
<1> QED BY Initial, Inductive, <1>1, PTL DEF Spec

(* The cardinality the abstract module uses is the one used here. *)
LEMMA SlotsCardinality == \A S : Slots!Cardinality(S) = Cardinality(S)
BY DEF Slots!Cardinality, Cardinality, Slots!IsFiniteSet, IsFiniteSet

(* The queue implements AdmissionSlots: a slot freed while somebody waits is *)
(* handed over, and nobody is made to wait, or overtaken, while one is free. *)
THEOREM QueueImplementsSlots == Spec => ImplementsSlots
<1>1. Init => Slots!Init
  BY DEF Init, Slots!Init, Holders, Holding, Waiters
<1>2. IInv /\ IInv' /\ [Next]_vars => [Slots!Next]_<<Holders, Waiters>>
  <2> SUFFICES ASSUME IInv, IInv', [Next]_vars
               PROVE  [Slots!Next]_<<Holders, Waiters>>
    OBVIOUS
  <2> USE DEF IInv
  <2>a. Waiters = {x \in Call : pc[x] = "waiting"} /\ Waiters' = {x \in Call : pc'[x] = "waiting"}
    BY DEF WaitersListed
  <2>1. CASE Tick
    BY <2>1 DEF Tick, Holders, Waiters
  <2>2. ASSUME NEW c \in Call, Acquire(c)
        PROVE  [Slots!Next]_<<Holders, Waiters>>
    <3>1. /\ pc[c] = "idle"
          /\ c \notin Holders \cup Waiters
      BY <2>2, <2>a DEF Acquire, Holders, Holding
    <3>2. CASE \E end \in {"timedOut", "full"} : pc' = [pc EXCEPT ![c] = end]
      <4>1. Holders' = Holders /\ Waiters' = Waiters
        BY <2>a, <3>1, <3>2 DEF Holders, Holding, TypeOK
      <4> QED BY <4>1
    <3>3. CASE active < Capacity /\ pc' = [pc EXCEPT ![c] = "granted"]
      <4>1. Holders' = Holders \cup {c} /\ Waiters' = Waiters
        BY <2>a, <3>1, <3>3 DEF Holders, Holding, TypeOK
      <4>2. Waiters = {}
        BY <3>3, CapacityAssumption DEF NoIdleSlot, Waiters, TypeOK
      <4>3. Cardinality(Holders) < Capacity
        BY <3>3 DEF SlotsAccounted
      <4>4. Slots!Enter(c)
        BY <3>1, <4>1, <4>2, <4>3, SlotsCardinality DEF Slots!Enter
      <4> QED BY <4>4 DEF Slots!Next
    <3>4. CASE active >= Capacity /\ pc' = [pc EXCEPT ![c] = "waiting"]
      <4>1. Holders' = Holders /\ Waiters' = Waiters \cup {c}
        BY <2>a, <3>1, <3>4 DEF Holders, Holding, TypeOK
      <4>2. Cardinality(Holders) = Capacity
        BY <3>4, CapacityAssumption DEF SlotsAccounted, WithinCapacity, TypeOK
      <4>3. Slots!Ask(c)
        BY <3>1, <4>1, <4>2, SlotsCardinality DEF Slots!Ask
      <4> QED BY <4>3 DEF Slots!Next
    <3> QED BY <2>2, <3>2, <3>3, <3>4 DEF Acquire
  <2>3. ASSUME NEW c \in Call, NEW end \in {"timedOut", "done"},
               pc[c] \in Holding, Release(c, end)
        PROVE  [Slots!Next]_<<Holders, Waiters>>
    <3>1. c \in Holders
      BY <2>3 DEF Holders
    <3>2. Slots!HandOver(c) \/ Slots!Leave(c)
      BY <2>3, <3>1, ReleaseEffect DEF Slots!HandOver, Slots!Leave
    <3> QED BY <3>2 DEF Slots!Next
  <2>4. ASSUME NEW c \in Call, Resume(c)
        PROVE  [Slots!Next]_<<Holders, Waiters>>
    <3>1. CASE Release(c, "timedOut")
      BY <2>3, <2>4, <3>1 DEF Resume, Holding
    <3>2. CASE pc' = [pc EXCEPT ![c] = "running"]
      BY <2>4, <2>a, <3>2 DEF Resume, Holders, Holding, TypeOK
    <3> QED BY <2>4, <3>1, <3>2 DEF Resume
  <2>5. ASSUME NEW c \in Call, Settle(c)
        PROVE  [Slots!Next]_<<Holders, Waiters>>
    BY <2>3, <2>5 DEF Settle, Holding
  <2>6. ASSUME NEW c \in Call, TimerFires(c)
        PROVE  [Slots!Next]_<<Holders, Waiters>>
    <3>1. c \in Waiters /\ pc' = [pc EXCEPT ![c] = "timedOut"]
      BY <2>6 DEF TimerFires, Waiters
    <3>2. Holders' = Holders /\ Waiters' = Waiters \ {c}
      BY <2>a, <3>1 DEF Holders, Holding, TypeOK
    <3>3. Slots!GiveUp(c)
      BY <3>1, <3>2 DEF Slots!GiveUp
    <3> QED BY <3>3 DEF Slots!Next
  <2>7. CASE UNCHANGED vars
    BY <2>7 DEF vars, Holders, Waiters
  <2> QED BY <2>1, <2>2, <2>4, <2>5, <2>6, <2>7 DEF Next
<1> QED BY Initial, Inductive, <1>1, <1>2, PTL DEF Spec, ImplementsSlots, Slots!Spec
=============================================================================

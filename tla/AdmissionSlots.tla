--------------------------- MODULE AdmissionSlots ---------------------------
(***************************************************************************)
(* What an admission queue promises, without clocks, order or timers: at   *)
(* most Capacity calls are inside; a call is made to wait only when every  *)
(* slot is taken; and a slot that is given up while somebody waits goes to *)
(* a waiter, unless all the waiters give up at that same moment.           *)
(***************************************************************************)
EXTENDS Naturals, FiniteSets

CONSTANTS Call, Capacity

VARIABLES inside,  \* the calls that hold a slot
          asking   \* the calls that wait for one

Init == inside = {} /\ asking = {}

Enter(c) ==
    /\ c \notin inside \cup asking
    /\ asking = {}
    /\ Cardinality(inside) < Capacity
    /\ inside' = inside \cup {c}
    /\ UNCHANGED asking

Ask(c) ==
    /\ c \notin inside \cup asking
    /\ Cardinality(inside) = Capacity
    /\ asking' = asking \cup {c}
    /\ UNCHANGED inside

GiveUp(c) ==
    /\ c \in asking
    /\ asking' = asking \ {c}
    /\ UNCHANGED inside

(* c hands its slot to a waiter; the waiters in `gone` give up on the way. *)
HandOver(c) ==
    /\ c \in inside
    /\ \E gone \in SUBSET asking, d \in asking :
        /\ d \notin gone
        /\ inside' = (inside \ {c}) \cup {d}
        /\ asking' = asking \ (gone \cup {d})

Leave(c) ==
    /\ c \in inside
    /\ inside' = inside \ {c}
    /\ asking' = {}

Next == \E c \in Call : Enter(c) \/ Ask(c) \/ GiveUp(c) \/ HandOver(c) \/ Leave(c)

Spec == Init /\ [][Next]_<<inside, asking>>
=============================================================================

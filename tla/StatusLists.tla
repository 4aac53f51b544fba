------------------------------ MODULE StatusLists ------------------------------
(***************************************************************************)
(* Revocable OpenID4VCI offers and the status lists that give each SD-JWT  *)
(* credential its index.  The allocator keeps a bitmap per list in a row   *)
(* of status_list_allocation.  Its transactions run at the database's      *)
(* default isolation: a row is read, changed in memory and written back,   *)
(* and what another transaction wrote in between is lost.                  *)
(***************************************************************************)
EXTENDS Naturals, FiniteSets, Sequences

CONSTANTS Offer, ListSize,
          MaxLists,       \* bound: lists
          MaxCredentials, \* bound: credentials of an offer
          Overlap,        \* transactions of the allocator may overlap
          LostReplies     \* answers of the agent and saves may be lost

StatusListAssumption ==
  /\ IsFiniteSet(Offer) /\ ListSize \in Nat \ {0} /\ MaxLists \in Nat /\ MaxCredentials \in Nat
  /\ Overlap \in BOOLEAN /\ LostReplies \in BOOLEAN

VARIABLES lists,     \* rows of status_list_allocation
          offer,     \* handlers of createOidcCredentialOffer and their offers
          saved,     \* rows of issued_oid4vc_credentials: <<offer, list, index>>
          atAgent,   \* offers the agent holds
          revoked    \* status bits the agent has set

vars == <<lists, offer, saved, atAgent, revoked>>

Index == 0..ListSize - 1
List == 1..MaxLists
NoList == [active |-> FALSE, bits |-> {}, count |-> 0, exists |-> FALSE]
Slot == List \X Index
(* A handler: details are the statusListDetails of its credentials, which  *)
(* the offer carries; allocs is newlyAllocatedIndices, less what the catch *)
(* has gone through; kept counts the saved credentials.                    *)
Idle == [step |-> "idle", need |-> 0, details |-> <<>>, allocs |-> <<>>, kept |-> 0,
         snap |-> 0, full |-> 0, bits |-> {}]
Allocated(o) == {offer[o].details[k] : k \in DOMAIN offer[o].details}
InTransaction(o) == offer[o].snap # 0

(* The shape of the state.                                                 *)
TypeOK ==
  /\ lists \in [List -> [active : BOOLEAN, bits : SUBSET Index, count : Nat, exists : BOOLEAN]]
  /\ \A o \in Offer : /\ offer[o].step \in {"idle", "alloc", "save", "done", "unnamed", "undo", "failed"}
                      /\ Allocated(o) \subseteq Slot
                      /\ offer[o].bits \subseteq Index
  /\ saved \subseteq (Offer \X List \X Index)
  /\ atAgent \subseteq Offer /\ revoked \subseteq Slot

Init ==
  /\ lists = [l \in List |-> NoList]
  /\ offer = [o \in Offer |-> Idle]
  /\ saved = {} /\ atAgent = {} /\ revoked = {}

-----------------------------------------------------------------------------
(* RandomBitmapIndexAllocator: random attempts, then a scan, find any      *)
(* index that is not set; the count is taken from the bitmap.              *)
FreeIndexes(bits) == Index \ bits
Exported(row, bits) == [row EXCEPT !.bits = bits, !.count = Cardinality(bits)]

(* allocate(), first half: an active list, or a new one in place of one    *)
(* that is full or missing.  A new list is its transaction's own until it  *)
(* commits.                                                                *)
MayBegin == Overlap \/ \A o \in Offer : ~InTransaction(o)
Active == {l \in List : lists[l].active}
Taken(l) == lists[l].exists \/ \E o \in Offer : offer[o].snap = l
Unused == {l \in List : ~Taken(l) /\ \A k \in 1..l - 1 : Taken(k)}     \* the next new list
AllocateRead(o) ==
  /\ offer[o].step = "alloc" /\ offer[o].need > 0 /\ ~InTransaction(o) /\ MayBegin
  /\ \/ \E l \in Active : /\ lists[l].count < ListSize
                          /\ offer' = [offer EXCEPT ![o].snap = l, ![o].bits = lists[l].bits]
     \/ \E l \in Unused, f \in IF Active = {} THEN {0} ELSE {a \in Active : lists[a].count >= ListSize} :
          offer' = [offer EXCEPT ![o].snap = l, ![o].full = f]
  /\ UNCHANGED <<lists, saved, atAgent, revoked>>

(* Mutant: the count is incremented in the database.                       *)
AllocateWriteCounting(o) ==
  LET l == offer[o].snap
      row == IF lists[l].exists THEN lists[l] ELSE [NoList EXCEPT !.exists = TRUE, !.active = TRUE] IN
  /\ offer[o].step = "alloc" /\ InTransaction(o)
  /\ \E i \in FreeIndexes(offer[o].bits) :
       /\ lists' = [lists EXCEPT ![l] = [row EXCEPT !.bits = offer[o].bits \cup {i}, !.count = @ + 1]]
       /\ offer' = [offer EXCEPT ![o] = [Idle EXCEPT !.step = "alloc", !.need = offer[o].need - 1,
                                                     !.details = Append(offer[o].details, <<l, i>>),
                                                     !.allocs = Append(offer[o].allocs, <<l, i>>)]]
  /\ UNCHANGED <<saved, atAgent, revoked>>

(* Second half: an index that was free in the bitmap that was read.        *)
AllocateWrite(o) ==
  LET l == offer[o].snap
      row == IF lists[l].exists THEN lists[l] ELSE [NoList EXCEPT !.exists = TRUE, !.active = TRUE] IN
  /\ offer[o].step = "alloc" /\ InTransaction(o)
  /\ \E i \in FreeIndexes(offer[o].bits) :
       /\ lists' = [k \in List |-> CASE k = l -> Exported(row, offer[o].bits \cup {i})
                                     [] k = offer[o].full -> [lists[k] EXCEPT !.active = FALSE]
                                     [] OTHER -> lists[k]]
       /\ offer' = [offer EXCEPT ![o] = [Idle EXCEPT !.step = "alloc", !.need = offer[o].need - 1,
                                                     !.details = Append(offer[o].details, <<l, i>>),
                                                     !.allocs = Append(offer[o].allocs, <<l, i>>)]]
  /\ UNCHANGED <<saved, atAgent, revoked>>

(* The catch goes through the indexes; what the credentials carry stays.   *)
Undoing(o, allocs) ==
  offer' = [offer EXCEPT ![o] = [Idle EXCEPT !.step = "undo", !.details = offer[o].details, !.allocs = allocs]]

(* release(), in two halves again.                                         *)
ReleaseRead(o) ==
  /\ offer[o].step = "undo" /\ ~InTransaction(o) /\ offer[o].allocs # <<>> /\ MayBegin
  /\ LET l == Head(offer[o].allocs)[1] IN offer' = [offer EXCEPT ![o].snap = l, ![o].bits = lists[l].bits]
  /\ UNCHANGED <<lists, saved, atAgent, revoked>>
(* Mutant: a released index stays on the handler's list.                   *)
ReleaseWriteAgain(o) ==
  /\ offer[o].step = "undo" /\ InTransaction(o)
  /\ LET slot == Head(offer[o].allocs) IN
     lists' = [lists EXCEPT ![slot[1]] = Exported(@, offer[o].bits \ {slot[2]})]
  /\ Undoing(o, offer[o].allocs)
  /\ UNCHANGED <<saved, atAgent, revoked>>
ReleaseWrite(o) ==
  /\ offer[o].step = "undo" /\ InTransaction(o)
  /\ LET slot == Head(offer[o].allocs) IN
     lists' = [lists EXCEPT ![slot[1]] = Exported(@, offer[o].bits \ {slot[2]})]
  /\ Undoing(o, Tail(offer[o].allocs))
  /\ UNCHANGED <<saved, atAgent, revoked>>
ReleaseFails(o) ==                                        \* logged; the next one is tried
  /\ offer[o].step = "undo" /\ InTransaction(o)
  /\ Undoing(o, Tail(offer[o].allocs))
  /\ UNCHANGED <<lists, saved, atAgent, revoked>>

-----------------------------------------------------------------------------
(* createOidcCredentialOffer(): need is the number of SD-JWT credentials   *)
(* of a revocable offer.  createOidcCredentialOfferD2A() takes the         *)
(* credentials as they are and goes through the same steps.                *)
CreateOffer(o, need) ==
  /\ offer[o].step = "idle"
  /\ offer' = [offer EXCEPT ![o].step = "alloc", ![o].need = need]
  /\ UNCHANGED <<lists, saved, atAgent, revoked>>
CreateOfferD2A(o, need) == CreateOffer(o, need)
Fail(o) == Undoing(o, offer[o].allocs)
AllocationFails(o) ==
  /\ offer[o].step = "alloc" /\ InTransaction(o)
  /\ Fail(o) /\ UNCHANGED <<lists, saved, atAgent, revoked>>
(* Mutant: the indexes are given back before the agent answers.            *)
OfferAtAgentReleased(o) ==
  /\ offer[o].step = "alloc" /\ offer[o].need = 0
  /\ atAgent' = atAgent \cup {o} /\ offer' = [offer EXCEPT ![o].step = "save"]
  /\ lists' = [l \in List |-> Exported(lists[l], lists[l].bits \ {i \in Index : <<l, i>> \in Allocated(o)})]
  /\ UNCHANGED <<saved, revoked>>
(* The agent makes the offer, refuses it, or makes it and is not heard.  A *)
(* response that names no session is passed on, and nothing is saved.      *)
OfferAtAgent(o) ==
  /\ offer[o].step = "alloc" /\ offer[o].need = 0
  /\ \/ \E st \in {"save", "unnamed"} : atAgent' = atAgent \cup {o} /\ offer' = [offer EXCEPT ![o].step = st]
     \/ UNCHANGED atAgent /\ Fail(o)
     \/ LostReplies /\ atAgent' = atAgent \cup {o} /\ Fail(o)
  /\ UNCHANGED <<lists, saved, revoked>>
(* Mutant: one allocation per session is saved.                            *)
SaveOneAllocation(o) ==
  /\ offer[o].step = "save"
  /\ \/ /\ \E a \in Allocated(o) : saved' = saved \cup {<<o, a[1], a[2]>>}
        /\ offer' = [offer EXCEPT ![o].step = "done"]
     \/ Allocated(o) = {} /\ offer' = [offer EXCEPT ![o].step = "done"] /\ UNCHANGED saved
  /\ UNCHANGED <<lists, atAgent, revoked>>

(* saveCredentialAllocation() for each credential in turn.  credentialId   *)
(* is the session and the index, without the list, and is unique.          *)
CredentialIdTaken(o, i) == \E s \in saved : s[1] = o /\ s[3] = i
SaveCredentialAllocation(o) ==
  LET k == offer[o].kept + 1
      d == offer[o].details[k] IN
  /\ offer[o].step = "save"
  /\ \/ k > Len(offer[o].details) /\ offer' = [offer EXCEPT ![o].step = "done"] /\ UNCHANGED saved
     \/ /\ k <= Len(offer[o].details) /\ ~CredentialIdTaken(o, d[2])
        /\ saved' = saved \cup {<<o, d[1], d[2]>>} /\ offer' = [offer EXCEPT ![o].kept = k]
     \/ /\ k <= Len(offer[o].details) /\ (LostReplies \/ CredentialIdTaken(o, d[2]))
        /\ Fail(o) /\ UNCHANGED saved
  /\ UNCHANGED <<lists, atAgent, revoked>>
Undone(o) ==
  /\ offer[o].step = "undo" /\ offer[o].allocs = <<>> /\ ~InTransaction(o)
  /\ offer' = [offer EXCEPT ![o].step = "failed"]
  /\ UNCHANGED <<lists, saved, atAgent, revoked>>

(* deleteCredentialOffers(): the index stays allocated.                    *)
DeleteCredentialOffer(o) ==
  /\ o \in atAgent
  /\ atAgent' = atAgent \ {o}
  /\ UNCHANGED <<lists, offer, saved, revoked>>
(* revokeCredential(): refused without a saved allocation.                 *)
RevokeCredential(o) ==
  /\ o \in atAgent
  /\ \E s \in saved : s[1] = o
  /\ revoked' = revoked \cup Allocated(o)
  /\ UNCHANGED <<lists, offer, saved, atAgent>>

Next == \E o \in Offer :
  \/ \E n \in 0..MaxCredentials : CreateOffer(o, n) \/ CreateOfferD2A(o, n)
  \/ AllocateRead(o) \/ AllocateWrite(o) \/ AllocationFails(o)
  \/ OfferAtAgent(o) \/ SaveCredentialAllocation(o)
  \/ ReleaseRead(o) \/ ReleaseWrite(o) \/ ReleaseFails(o) \/ Undone(o)
  \/ DeleteCredentialOffer(o) \/ RevokeCredential(o)

(* The handler's own steps and those of the database.  natsCall() waits    *)
(* for the agent without a timeout: OfferAtAgent is not among them.        *)
Handler(o) == AllocateRead(o) \/ AllocateWrite(o) \/ SaveCredentialAllocation(o)
              \/ ReleaseRead(o) \/ ReleaseWrite(o) \/ Undone(o)
Spec == Init /\ [][Next]_vars
FairSpec == Spec /\ \A o \in Offer : WF_vars(Handler(o))

-----------------------------------------------------------------------------
(* The count that decides about rotation is that of the bitmap in every    *)
(* row, whatever overlapping transactions overwrote: an active list that   *)
(* reports room has a free index.                                          *)
CountMatchesBitmap ==
  \A l \in List : /\ lists[l].count = Cardinality(lists[l].bits)
                  /\ lists[l].active /\ lists[l].count < ListSize => FreeIndexes(lists[l].bits) # {}

(* An offer that was answered with a session can be revoked: an allocation *)
(* is saved for each of its credentials.                                   *)
SuccessIsRevocable ==
  \A o \in Offer : offer[o].step = "done" => \A a \in Allocated(o) : <<o, a[1], a[2]>> \in saved

(* While the allocator's transactions do not overlap and no answer is      *)
(* lost, no two credentials share an index, and revoking one offer revokes *)
(* no other: returning the indexes of a refused offer is safe.  Not so for *)
(* an offer that has one index in two lists: it crossed a rotation, its    *)
(* second save fails and the agent keeps it.                               *)
Live(o) == o \in atAgent \/ offer[o].step \in {"done", "unnamed"}
Crossed(o) == \E j, k \in DOMAIN offer[o].details : j < k /\ offer[o].details[j][2] = offer[o].details[k][2]
IndexUnique ==
  /\ \A o, p \in Offer : o # p /\ Live(o) /\ Live(p) /\ ~Crossed(o) /\ ~Crossed(p)
                         => Allocated(o) \cap Allocated(p) = {}
  /\ \A o \in Offer : Cardinality(Allocated(o)) = Len(offer[o].details)
  /\ \A o \in Offer : Live(o) /\ ~Crossed(o) => \A a \in Allocated(o) : a[2] \in lists[a[1]].bits

(* A handler began; it waits for the agent; it has answered.               *)
Allocating(o) == offer[o].step = "alloc"
AwaitsAgent(o) == offer[o].step = "alloc" /\ offer[o].need = 0
Settled(o) == offer[o].step \in {"done", "unnamed", "failed"}
=============================================================================

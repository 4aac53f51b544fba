---------------------------- MODULE Edge_proofs -----------------------------
(***************************************************************************)
(* Proofs about what the platform shows its callers.                       *)
(*                                                                         *)
(* ProofResponseCode: for any numbers of webhook calls, pages and failures *)
(* and any settings, a response_code is single-use, its answers agree, and *)
(* its session is findable and short-lived.                                *)
(*                                                                         *)
(* Gateways: for any users, organizations, roles and routes and any numbers*)
(* of requests, changes and faults, a request that reaches its handler was *)
(* let through by everything its route requires, and every command that is *)
(* sent has a listener.                                                    *)
(***************************************************************************)
EXTENDS ProofResponseCode, Gateways, Integers, Sequences, TLAPS

(* Nothing has happened before the request was answered. *)
Fresh ==
    request = "new" =>
        /\ session = "none" /\ verdict = "none" /\ delivered = 0
        /\ \A h \in Handler : handler[h] = "idle"
        /\ \A p \in Poller : poller[p] = "idle" /\ answer[p] = "none"

(* The session and the verdict agree; a pending session has no verdict yet. *)
Verdict ==
    /\ session = "pending" => verdict = "none"
    /\ session \in Terminal => session = verdict

(* What webhook calls and pages carry from one step to the next. *)
Carried ==
    /\ \A h \in Handler : handler[h] = "mark" => read[h] = "pending"
    /\ \A h \in Handler : handler[h] \in {"index", "token", "mark"} => reports[h] \in Terminal
    /\ \A p \in Poller :
         poller[p] = "consume" => request = "redirect" /\ found[p] \in Terminal /\ found[p] =
            verdict

(* A result that was handed out is gone, and was handed out once. *)
Used == delivered \in {0, 1} /\ (delivered = 1 => session = "none")

(* The times to live of the two keys. *)
Expiry ==
    /\ session = "pending" => until = createdAt + pendingTtl /\ index /\ indexUntil = until
    /\ session \in Terminal => until < createdAt + pendingTtl + resultTtl

(* Why a session is gone. *)
Gone == request = "redirect" /\ session = "none" => delivered = 1 \/ lost \/ now >= until

(* The inductive invariant. *)
IInv ==
    /\ TypeOK /\ Fresh /\ Verdict /\ Carried /\ Used /\ Expiry /\ Gone
    /\ AnswersAgree /\ ExpiredIsTrue
-----------------------------------------------------------------------------
LEMMA Ttls == pendingTtl \in Nat \ {0} /\ resultTtl \in Nat \ {0}
BY SettingAssumption, TtlAssumption DEF pendingTtl, resultTtl, ResolveTtl

LEMMA Initial == Init => IInv
<1> SUFFICES ASSUME Init PROVE IInv
  OBVIOUS
<1>1. TypeOK
  <2>1. /\ failures \in 0..MaxFailures
        /\ now \in Nat /\ createdAt \in Nat /\ until \in Nat /\ indexUntil \in Nat
    BY BoundAssumption DEF Init
  <2>2. lost \in BOOLEAN /\ index \in BOOLEAN
    BY DEF Init
  <2> QED
    BY <2>1, <2>2 DEF Init, TypeOK, Status
<1>2. Fresh /\ Carried /\ AnswersAgree /\ ExpiredIsTrue
  BY DEF Init, Fresh, Carried, AnswersAgree, ExpiredIsTrue, Terminal
<1>3. Verdict /\ Used /\ Expiry /\ Gone
  BY DEF Init, Verdict, Used, Expiry, Gone, Terminal
<1> QED
  BY <1>1, <1>2, <1>3 DEF IInv

LEMMA AttachRedirectInductive ==
ASSUME IInv, AttachRedirect
PROVE  IInv'
<1> USE Ttls DEF IInv, Terminal
<1>1. TypeOK'
  <2>1. failures' \in 0..MaxFailures
    BY BoundAssumption DEF TypeOK, AttachRedirect, Fail, NoFail
  <2>2. now + pendingTtl \in Nat
    BY DEF TypeOK
  <2>3. CASE SetSession
    BY <2>1, <2>2, <2>3 DEF TypeOK, Status, AttachRedirect, SetSession, handlerVars, pollerVars,
       historyVars
  <2>4. CASE UNCHANGED <<redisVars, createdAt>>
    BY <2>1, <2>4 DEF TypeOK, AttachRedirect, redisVars, handlerVars, pollerVars, historyVars
  <2> QED
    BY <2>3, <2>4 DEF AttachRedirect
<1>2. Fresh'
  BY DEF Fresh, AttachRedirect, SetSession
<1>3. Verdict'
  BY DEF Verdict, Carried, Fresh, Status, AttachRedirect, SetSession, redisVars, historyVars
<1>4. Carried'
  BY DEF Verdict, Carried, Status, AttachRedirect, SetSession, handlerVars, pollerVars
<1>5. Used'
  BY DEF Used, Carried, Fresh, Status, AttachRedirect, SetSession, historyVars
<1>6. Expiry'
  BY DEF Expiry, Carried, Status, AttachRedirect, SetSession, redisVars
<1>7. Gone'
  BY DEF Gone, Carried, Used, AttachRedirect, SetSession
<1>8. AnswersAgree'
  BY DEF AnswersAgree, Verdict, Carried, Used, Fresh, AttachRedirect, SetSession, pollerVars
<1>9. ExpiredIsTrue'
  BY DEF ExpiredIsTrue, Gone, Verdict, Carried, Used, Fresh, AttachRedirect, SetSession, pollerVars
<1> QED
  BY <1>1, <1>2, <1>3, <1>4, <1>5, <1>6, <1>7, <1>8, <1>9

LEMMA WebhookInductive ==
ASSUME IInv, NEW h \in Handler, Webhook(h)
PROVE  IInv'
<1> USE Ttls DEF IInv, Terminal
<1>1. TypeOK'
  BY BoundAssumption DEF TypeOK, Status, Webhook, TerminalStatus, Fail, NoFail, clockVars,
     redisVars, pollerVars, historyVars
<1>2. Fresh'
  BY DEF Fresh, Webhook, TerminalStatus
<1>3. Verdict'
  BY DEF Verdict, Carried, Status, Webhook, TerminalStatus, redisVars, historyVars
<1>4. Carried'
  BY DEF TypeOK, Verdict, Carried, Status, Webhook, TerminalStatus, pollerVars, historyVars
<1>5. Used'
  BY DEF Used, Carried, Status, Webhook, TerminalStatus, redisVars, historyVars
<1>6. Expiry'
  BY DEF Expiry, Carried, Status, Webhook, TerminalStatus, clockVars, redisVars
<1>7. Gone'
  BY DEF Gone, Carried, Used, Webhook, TerminalStatus, clockVars, redisVars, historyVars
<1>8. AnswersAgree'
  BY DEF AnswersAgree, Verdict, Carried, Used, Webhook, TerminalStatus, pollerVars, historyVars
<1>9. ExpiredIsTrue'
  BY DEF ExpiredIsTrue, Gone, Verdict, Carried, Used, Webhook, TerminalStatus, clockVars, redisVars,
     pollerVars, historyVars
<1> QED
  BY <1>1, <1>2, <1>3, <1>4, <1>5, <1>6, <1>7, <1>8, <1>9

LEMMA ReadIndexInductive ==
ASSUME IInv, NEW h \in Handler, ReadIndex(h)
PROVE  IInv'
<1> USE Ttls DEF IInv, Terminal
<1>1. TypeOK'
  BY BoundAssumption DEF TypeOK, Status, ReadIndex, Indexed, Fail, NoFail, clockVars, redisVars,
     pollerVars, historyVars
<1>2. Fresh'
  BY DEF Fresh, ReadIndex, Indexed
<1>3. Verdict'
  BY DEF Verdict, Carried, Status, ReadIndex, Indexed, redisVars, historyVars
<1>4. Carried'
  BY DEF TypeOK, Verdict, Carried, Status, ReadIndex, Indexed, pollerVars, historyVars
<1>5. Used'
  BY DEF Used, Carried, Status, ReadIndex, Indexed, redisVars, historyVars
<1>6. Expiry'
  BY DEF Expiry, Carried, Status, ReadIndex, Indexed, clockVars, redisVars
<1>7. Gone'
  BY DEF Gone, Carried, Used, ReadIndex, Indexed, clockVars, redisVars, historyVars
<1>8. AnswersAgree'
  BY DEF AnswersAgree, Verdict, Carried, Used, ReadIndex, Indexed, pollerVars, historyVars
<1>9. ExpiredIsTrue'
  BY DEF ExpiredIsTrue, Gone, Verdict, Carried, Used, ReadIndex, Indexed, clockVars, redisVars,
     pollerVars, historyVars
<1> QED
  BY <1>1, <1>2, <1>3, <1>4, <1>5, <1>6, <1>7, <1>8, <1>9

LEMMA ReadTokenInductive ==
ASSUME IInv, NEW h \in Handler, ReadToken(h)
PROVE  IInv'
<1> USE Ttls DEF IInv, Terminal
<1>1. TypeOK'
  BY BoundAssumption DEF TypeOK, Status, ReadToken, MayMark, Token, Fail, NoFail, clockVars,
     redisVars, pollerVars, historyVars
<1>2. Fresh'
  BY DEF Fresh, ReadToken, MayMark, Token
<1>3. Verdict'
  BY DEF Verdict, Carried, Status, ReadToken, MayMark, Token, redisVars, historyVars
<1>4. Carried'
  BY DEF TypeOK, Verdict, Carried, Status, ReadToken, MayMark, Token, pollerVars, historyVars
<1>5. Used'
  BY DEF Used, Carried, Status, ReadToken, MayMark, Token, redisVars, historyVars
<1>6. Expiry'
  BY DEF Expiry, Carried, Status, ReadToken, MayMark, Token, clockVars, redisVars
<1>7. Gone'
  BY DEF Gone, Carried, Used, ReadToken, MayMark, Token, clockVars, redisVars, historyVars
<1>8. AnswersAgree'
  BY DEF AnswersAgree, Verdict, Carried, Used, ReadToken, MayMark, Token, pollerVars, historyVars
<1>9. ExpiredIsTrue'
  BY DEF ExpiredIsTrue, Gone, Verdict, Carried, Used, ReadToken, MayMark, Token, clockVars,
     redisVars, pollerVars, historyVars
<1> QED
  BY <1>1, <1>2, <1>3, <1>4, <1>5, <1>6, <1>7, <1>8, <1>9

LEMMA MarkTerminalInductive ==
ASSUME IInv, NEW h \in Handler, MarkTerminal(h)
PROVE  IInv'
<1> USE Ttls DEF IInv, Terminal
<1>1. TypeOK'
  <2>1. failures' \in 0..MaxFailures
    BY BoundAssumption DEF TypeOK, MarkTerminal, Fail, NoFail
  <2>2. now + resultTtl \in Nat /\ reports[h] \in Terminal
    BY DEF TypeOK, Carried, MarkTerminal
  <2>3. handler' \in [Handler -> {"idle", "index", "token", "mark", "end"}]
    BY DEF TypeOK, MarkTerminal
  <2>4. session' \in Status /\ until' \in Nat /\ indexUntil' \in Nat /\ verdict' \in {"none"} \cup
     Terminal
    BY <2>2 DEF TypeOK, Status, MarkTerminal, MarkTerminalScript, redisVars
  <2>5. index' \in BOOLEAN
    <3>1. index' = Indexed \/ index' = index
      BY DEF MarkTerminal, MarkTerminalScript, redisVars
    <3> QED
      BY <3>1 DEF TypeOK, Indexed
  <2> QED
    BY <2>1, <2>3, <2>4, <2>5 DEF TypeOK, MarkTerminal, clockVars, pollerVars
<1>2. Fresh'
  BY DEF Fresh, MarkTerminal, MarkTerminalScript, Token, Indexed
<1>3. Verdict'
  BY DEF Verdict, Carried, Status, MarkTerminal, MarkTerminalScript, Token, Indexed, redisVars
<1>4. Carried'
  BY DEF Verdict, Carried, Status, MarkTerminal, MarkTerminalScript, Token, Indexed, pollerVars
<1>5. Used'
  BY DEF Used, Carried, Status, MarkTerminal, MarkTerminalScript, Token, Indexed, redisVars
<1>6. Expiry'
  BY DEF TypeOK, Expiry, Carried, Status, MarkTerminal, MarkTerminalScript, Token, Indexed,
     clockVars, redisVars
<1>7. Gone'
  BY DEF Gone, Carried, Used, MarkTerminal, MarkTerminalScript, Token, Indexed, clockVars, redisVars
<1>8. AnswersAgree'
  BY DEF AnswersAgree, Verdict, Carried, Used, MarkTerminal, MarkTerminalScript, Token, Indexed,
     pollerVars
<1>9. ExpiredIsTrue'
  BY DEF TypeOK, ExpiredIsTrue, Gone, Verdict, Carried, Used, MarkTerminal, MarkTerminalScript,
     Token, Indexed, clockVars, redisVars, pollerVars
<1> QED
  BY <1>1, <1>2, <1>3, <1>4, <1>5, <1>6, <1>7, <1>8, <1>9

LEMMA PollInductive ==
ASSUME IInv, NEW p \in Poller, Poll(p)
PROVE  IInv'
<1> USE Ttls DEF IInv, Terminal
<1>1. TypeOK'
  BY BoundAssumption DEF TypeOK, Status, Poll, Answer, Unavailable, Token, Fail, NoFail, clockVars,
     redisVars, handlerVars, historyVars
<1>2. Fresh'
  BY DEF Fresh, Poll, Answer, Unavailable, Token
<1>3. Verdict'
  BY DEF Verdict, Carried, Status, Poll, Answer, Unavailable, Token, redisVars, historyVars
<1>4. Carried'
  BY DEF TypeOK, Verdict, Carried, Status, Poll, Answer, Unavailable, Token, handlerVars,
     historyVars
<1>5. Used'
  BY DEF Used, Carried, Status, Poll, Answer, Unavailable, Token, redisVars, historyVars
<1>6. Expiry'
  BY DEF Expiry, Carried, Status, Poll, Answer, Unavailable, Token, clockVars, redisVars
<1>7. Gone'
  BY DEF Gone, Carried, Used, Poll, Answer, Unavailable, Token, clockVars, redisVars, historyVars
<1>8. AnswersAgree'
  BY DEF TypeOK, AnswersAgree, Verdict, Carried, Used, Poll, Answer, Unavailable, Token, historyVars
<1>9. ExpiredIsTrue'
  BY DEF TypeOK, ExpiredIsTrue, Gone, Verdict, Carried, Used, Poll, Answer, Unavailable, Token,
     clockVars, redisVars, historyVars
<1> QED
  BY <1>1, <1>2, <1>3, <1>4, <1>5, <1>6, <1>7, <1>8, <1>9

LEMMA ConsumeInductive ==
ASSUME IInv, NEW p \in Poller, Consume(p)
PROVE  IInv'
<1> USE Ttls DEF IInv, Terminal
<1>a. ASSUME ~UNCHANGED lost PROVE lost' = TRUE /\ failures' = failures + 1
  <2>1. lost' = (lost \/ Deleted)
    BY <1>a DEF Consume
  <2>2. lost \in BOOLEAN /\ Deleted \in BOOLEAN
    BY DEF TypeOK, Deleted
  <2>3. lost' \in BOOLEAN /\ lost' # lost
    BY <1>a, <2>1, <2>2
  <2> QED
    BY <1>a, <2>1, <2>2, <2>3 DEF Consume, Fail
<1>b. UNCHANGED redisVars \/ DeleteSession
  BY DEF Consume
<1>1. TypeOK'
  <2>1. failures' \in 0..MaxFailures
    BY BoundAssumption DEF TypeOK, Consume, Fail, NoFail
  <2>2. session' \in Status /\ until' \in Nat /\ index' \in BOOLEAN /\ indexUntil' \in Nat
    BY <1>b DEF TypeOK, Status, DeleteSession, redisVars
  <2>3. lost' \in BOOLEAN
    BY <1>a DEF TypeOK
  <2>4. poller' \in [Poller -> {"idle", "consume"}] /\ found' \in [Poller -> {"none"} \cup Terminal]
    BY DEF TypeOK, Consume, Answer, Unavailable
  <2>5. answer' \in [Poller -> Status \cup {"expired", "unavailable"}] /\ delivered' \in Nat
    BY DEF TypeOK, Status, Carried, Consume, Answer, Unavailable
  <2> QED
    BY <2>1, <2>2, <2>3, <2>4, <2>5 DEF TypeOK, Consume, clockVars, handlerVars
<1>2. Fresh'
  BY DEF Fresh, Consume, Answer, Unavailable, Deleted, DeleteSession, Token
<1>3. Verdict'
  BY DEF Verdict, Carried, Status, Consume, Answer, Unavailable, Deleted, DeleteSession, Token,
     redisVars
<1>4. Carried'
  BY DEF TypeOK, Verdict, Carried, Status, Consume, Answer, Unavailable, Deleted, DeleteSession,
     Token, handlerVars
<1>5. Used'
  BY DEF Used, Carried, Status, Consume, Answer, Unavailable, Deleted, DeleteSession, Token,
     redisVars
<1>6. Expiry'
  BY DEF Expiry, Carried, Status, Consume, Answer, Unavailable, Deleted, DeleteSession, Token,
     clockVars, redisVars
<1>c. session # "none" /\ session' = "none" => delivered' = 1 \/ lost' \/ now >= until
  <2> SUFFICES ASSUME session # "none", session' = "none", now < until
               PROVE  delivered' = 1 \/ lost'
    BY DEF TypeOK
  <2>1. Deleted
    BY DEF Deleted, Token
  <2>2. delivered' = delivered + 1 \/ lost' = (lost \/ Deleted)
    BY <2>1 DEF Consume, redisVars
  <2>3. delivered = 0
    BY DEF Used
  <2>4. CASE delivered' = delivered + 1
    BY <2>3, <2>4
  <2>5. CASE lost' = (lost \/ Deleted)
    <3>1. lost \/ Deleted
      BY <2>1
    <3> QED
      BY <2>5, <3>1, Zenon
  <2> QED
    BY <2>2, <2>4, <2>5
<1>d. (lost => lost') /\ (delivered = 1 => delivered' = 1)
  <2>1. lost => lost'
    BY <1>a
  <2>2. delivered = 1 => delivered' = 1
    BY DEF Used, Consume, Deleted, Token
  <2> QED
    BY <2>1, <2>2
<1>7. Gone'
  BY <1>c, <1>d, <1>b DEF Gone, Consume, DeleteSession, clockVars, redisVars
<1>8. AnswersAgree'
  BY DEF TypeOK, AnswersAgree, Verdict, Carried, Used, Consume, Answer, Unavailable, Deleted,
     DeleteSession, Token
<1>9. ExpiredIsTrue'
  <2> SUFFICES ASSUME NEW q \in Poller, answer'[q] = "expired"
               PROVE  delivered' = 1 \/ lost' \/ now' >= until'
    BY DEF ExpiredIsTrue
  <2>1. until' = until /\ now' = now
    BY <1>b DEF Consume, DeleteSession, clockVars, redisVars
  <2>2. CASE answer[q] = "expired"
    BY <2>1, <2>2, <1>d DEF ExpiredIsTrue
  <2>3. CASE answer[q] # "expired"
    <3>1. session' = "none"
      BY <2>3 DEF TypeOK, Consume, DeleteSession, Answer, Unavailable
    <3>2. request = "redirect" /\ request' = request
      BY DEF Consume, Carried
    <3> QED
      BY <3>1, <3>2, <1>7, <2>1 DEF Gone
  <2> QED
    BY <2>2, <2>3
<1> QED
  BY <1>1, <1>2, <1>3, <1>4, <1>5, <1>6, <1>7, <1>8, <1>9

LEMMA TickInductive ==
ASSUME IInv, Tick
PROVE  IInv'
<1> USE Ttls DEF IInv, Terminal
<1>1. TypeOK'
  BY BoundAssumption DEF TypeOK, Status, Tick, redisVars, handlerVars, pollerVars, historyVars
<1>2. Fresh'
  BY DEF Fresh, Tick, redisVars, handlerVars, pollerVars, historyVars
<1>3. Verdict'
  BY DEF Verdict, Carried, Status, Tick, redisVars, historyVars
<1>4. Carried'
  BY DEF Verdict, Carried, Status, Tick, handlerVars, pollerVars, historyVars
<1>5. Used'
  BY DEF Used, Carried, Status, Tick, redisVars, historyVars
<1>6. Expiry'
  BY DEF Expiry, Carried, Status, Tick, redisVars
<1>7. Gone'
  BY DEF TypeOK, Gone, Carried, Used, Tick, redisVars, historyVars
<1>8. AnswersAgree'
  BY DEF AnswersAgree, Verdict, Carried, Used, Tick, pollerVars, historyVars
<1>9. ExpiredIsTrue'
  BY DEF TypeOK, ExpiredIsTrue, Gone, Verdict, Carried, Used, Tick, redisVars, pollerVars,
     historyVars
<1> QED
  BY <1>1, <1>2, <1>3, <1>4, <1>5, <1>6, <1>7, <1>8, <1>9

LEMMA Unmoved == IInv /\ UNCHANGED vars => IInv'
<1> SUFFICES ASSUME IInv, UNCHANGED vars PROVE IInv'
  OBVIOUS
<1> USE DEF IInv, vars, clockVars, redisVars, handlerVars, pollerVars, historyVars
<1>1. TypeOK'
  BY DEF TypeOK
<1>2. Fresh' /\ Carried' /\ AnswersAgree' /\ ExpiredIsTrue'
  BY DEF Fresh, Carried, AnswersAgree, ExpiredIsTrue
<1>3. Verdict' /\ Used' /\ Expiry' /\ Gone'
  BY DEF Verdict, Used, Expiry, Gone
<1> QED
  BY <1>1, <1>2, <1>3

LEMMA Inductive == IInv /\ [Next]_vars => IInv'
BY AttachRedirectInductive, WebhookInductive, ReadIndexInductive, ReadTokenInductive,
   MarkTerminalInductive, PollInductive, ConsumeInductive, TickInductive, Unmoved DEF Next

LEMMA Invariance == Spec => []IInv
BY Initial, Inductive, PTL DEF Spec
-----------------------------------------------------------------------------
(* The state stays within its types, for any settings and any numbers of     *)
(* webhook calls and pages.                                                  *)
THEOREM TypeCorrect == Spec => []TypeOK
<1>1. IInv => TypeOK
  BY DEF IInv
<1> QED
  BY <1>1, Invariance, PTL

(* consume() hands the result to one page at most, and MARK_TERMINAL_SCRIPT  *)
(* never brings a consumed session back.                                     *)
THEOREM CodeIsSingleUse == Spec => []SingleUse
<1>1. IInv => SingleUse
  BY DEF IInv, Used, SingleUse, Token
<1> QED
  BY <1>1, Invariance, PTL

(* Every terminal answer of getProofCallbackResult() is the verdict of the   *)
(* one webhook that markTerminalByThreadId() applied.                        *)
THEOREM FirstVerdictCounts == Spec => []AnswersAgree
<1>1. IInv => AnswersAgree
  BY DEF IInv
<1> QED
  BY <1>1, Invariance, PTL

(* Whatever the two settings are, a session outlives its creation by less    *)
(* than the sum of both times to live.                                       *)
THEOREM LifetimeIsBounded == Spec => []LifetimeBounded
<1>1. IInv => LifetimeBounded
  BY Ttls DEF IInv, TypeOK, Expiry, LifetimeBounded, Token, Status
<1> QED
  BY <1>1, Invariance, PTL

(* Whatever the two settings are, the index key lives as long as a pending   *)
(* session.                                                                  *)
THEOREM PendingCanBeMarked == Spec => []PendingIsFindable
<1>1. IInv => PendingIsFindable
  BY DEF IInv, Expiry, PendingIsFindable, Token, Indexed
<1> QED
  BY <1>1, Invariance, PTL

(* getProofCallbackResult() says "expired" only of a result that is gone.    *)
THEOREM ExpiredIsNeverPremature == Spec => []ExpiredIsTrue
<1>1. IInv => ExpiredIsTrue
  BY DEF IInv
<1> QED
  BY <1>1, Invariance, PTL

-----------------------------------------------------------------------------
(***************************************************************************)
(* The tables of the gateway.  Orders are the sequences of guards routes   *)
(* have; a set of routes fits a set of methods when its routes have one of *)
(* these and call these methods only.  That every route of every           *)
(* controller does, and that every method sends a command some service     *)
(* listens for, is read off the tables one controller and one service at a *)
(* time.                                                                   *)
(***************************************************************************)
Orders ==
  {<<>>, <<"cookie">>, Jwt, Jwt \o <<"holder">>, Jwt \o <<"person">>, Jwt \o <<"client">>, Jwt \o <<"trust">>,
   Jwt \o <<"person", "subscription">>, Jwt \o <<"org">>, Jwt \o <<"org", "person">>, Jwt \o <<"org", "feature">>,
   Jwt \o <<"org", "entitlement">>, <<"feature">> \o Jwt \o <<"ecosystem">>, <<"feature">> \o Jwt,
   Jwt \o <<"ecosystem">>}

Fit(R, M) ==
  \A r \in R : /\ r.guards \in Orders /\ r.calls \in Seq(M)
              /\ r = [guards |-> r.guards, roles |-> r.roles, where |-> r.where, feature |-> r.feature,
                      calls |-> r.calls]

LEMMA RouteFits ==
  ASSUME NEW gs \in Orders, NEW roles, NEW where, NEW feature, NEW M, NEW calls \in SUBSET Seq(M)
  PROVE Fit(Route(gs, roles, where, feature, calls), M)
BY DEF Fit, Route

LEMMA KindsFit ==
  ASSUME NEW M, NEW calls \in SUBSET Seq(M)
  PROVE /\ Fit(Open(calls), M) /\ Fit(ByCookie(calls), M) /\ Fit(SignedIn(calls), M) /\ Fit(HolderOnly(calls), M)
        /\ Fit(UserOnly(calls), M) /\ Fit(ClientOnly(calls), M) /\ Fit(TrustService(calls), M)
        /\ Fit(Subscribed(calls), M) /\ Fit(EcoSignedIn(calls), M)
        /\ \A roles, where : /\ Fit(Org(roles, where, calls), M) /\ Fit(OrgUser(roles, where, calls), M)
                             /\ Fit(OrgFeature(roles, where, calls), M) /\ Fit(Eco(roles, where, calls), M)
                             /\ Fit(EcoAlways(roles, where, calls), M)
        /\ \A roles, where, feature : Fit(Entitled(roles, where, feature, calls), M)
BY RouteFits DEF Open, ByCookie, SignedIn, HolderOnly, UserOnly, ClientOnly, TrustService, Subscribed, EcoSignedIn,
   Org, OrgUser, OrgFeature, Eco, EcoAlways, Entitled, Orders

LEMMA EachInSeq == ASSUME NEW M, NEW S \in SUBSET M PROVE Each(S) \in SUBSET Seq(M)
<1>1. \A m \in S : <<m>> \in Seq(M)
  OBVIOUS
<1> QED BY <1>1 DEF Each

(* A route that calls one method of M fits, whatever its guards.           *)
LEMMA EachFits ==
  ASSUME NEW M, NEW S \in SUBSET M
  PROVE /\ Fit(Open(Each(S)), M) /\ Fit(ByCookie(Each(S)), M) /\ Fit(SignedIn(Each(S)), M)
        /\ Fit(HolderOnly(Each(S)), M) /\ Fit(UserOnly(Each(S)), M) /\ Fit(ClientOnly(Each(S)), M)
        /\ Fit(TrustService(Each(S)), M) /\ Fit(Subscribed(Each(S)), M) /\ Fit(EcoSignedIn(Each(S)), M)
        /\ \A roles, where : /\ Fit(Org(roles, where, Each(S)), M) /\ Fit(OrgUser(roles, where, Each(S)), M)
                             /\ Fit(OrgFeature(roles, where, Each(S)), M) /\ Fit(Eco(roles, where, Each(S)), M)
                             /\ Fit(EcoAlways(roles, where, Each(S)), M)
        /\ \A roles, where, feature : Fit(Entitled(roles, where, feature, Each(S)), M)
BY EachInSeq, KindsFit

(* The methods of each gateway service, and that each sends a command with *)
(* a listener.                                                             *)
AgentServiceMethods == {"agentSpinup", "createTenant", "createDid", "generateWebDid", "createWallet",
    "getAgentHealth", "signData", "verifysignature", "getLedgerConfig", "createSecp256k1KeyPair",
    "createEthKeyPair", "agentConfigure", "setDedicatedAgentToken", "deleteWallet"}
LEMMA AgentServiceAnswered ==
  DOMAIN AgentServiceCommands = AgentServiceMethods /\ \A m \in AgentServiceMethods : AgentServiceCommands[m] \in Handled
<1>1. DOMAIN AgentServiceCommands = AgentServiceMethods
  BY DEF AgentServiceMethods, AgentServiceCommands
<1>2. \A m \in AgentServiceMethods : AgentServiceCommands[m] \in AgentServiceHandles1 \cup
        AgentServiceHandles2 \cup AgentServiceHandles3
  BY DEF AgentServiceMethods, AgentServiceCommands, AgentServiceHandles1, AgentServiceHandles2,
     AgentServiceHandles3
<1> QED  BY <1>1, <1>2 DEF Handled

AuthzMethods == {"getClientAlias", "sendVerificationMail", "verifyEmail", "login", "getSession",
    "checkSession", "resetPassword", "forgotPassword", "resetNewPassword", "refreshToken", "userSessions",
    "deleteSession", "addUserDetails", "logout", "addUserDetailsUsernameBased", "usernameLogin"}
(* One command of the authz service has no listener; no route calls its    *)
(* method.                                                                 *)
LEMMA AuthzAnswered ==
  DOMAIN AuthzCommands = AuthzMethods \cup {"getUserByKeycloakUserId"} /\ \A m \in AuthzMethods : AuthzCommands[m] \in Handled
<1>1. DOMAIN AuthzCommands = AuthzMethods \cup {"getUserByKeycloakUserId"}
  BY DEF AuthzMethods, AuthzCommands
<1>2. \A m \in AuthzMethods : AuthzCommands[m] \in UserHandles1 \cup UserHandles2
  BY DEF AuthzMethods, AuthzCommands, UserHandles1, UserHandles2
<1> QED  BY <1>1, <1>2 DEF Handled

CloudWalletMethods1 == {"configureBaseWallet", "checkCloudWalletStatus", "createConnection",
    "acceptProofRequest", "declineProofRequest", "getProofById", "submitProofWithCred",
    "getCredentialsForRequest", "getProofPresentation", "createCloudWallet", "deleteCloudWallet",
    "deleteUser", "getBaseWalletDetails", "updateBaseWalletDetails", "receiveInvitationByUrl", "acceptOffer",
    "createDid", "exportWallet", "getExportWalletStatus", "importWallet", "getImportWalletStatus",
    "getDidList"}
LEMMA CloudWalletAnswered1 ==
  DOMAIN CloudWalletCommands1 = CloudWalletMethods1 /\ \A m \in CloudWalletMethods1 : CloudWalletCommands1[m] \in Handled
<1>1. DOMAIN CloudWalletCommands1 = CloudWalletMethods1
  BY DEF CloudWalletMethods1, CloudWalletCommands1
<1>2. \A m \in CloudWalletMethods1 : CloudWalletCommands1[m] \in CloudWalletHandles1 \cup UserHandles2 \cup
        CloudWalletHandles2
  BY DEF CloudWalletMethods1, CloudWalletCommands1, CloudWalletHandles1, UserHandles2, CloudWalletHandles2
<1> QED  BY <1>1, <1>2 DEF Handled

CloudWalletMethods2 == {"getconnectionById", "getAllconnectionById", "getCredentialList",
    "getAllW3cCredentials", "getW3cCredentialByCredentialRecordId", "getCredentialByCredentialRecordId",
    "getCredentialFormatDataByCredentialRecordId", "getProofFormatDataByProofRecordId",
    "deleteCredentialByCredentialRecordId", "deleteW3cCredentialByCredentialRecordId",
    "getBasicMessageByConnectionId", "sendBasicMessage", "createSelfAttestedW3cCredential"}
LEMMA CloudWalletAnswered2 ==
  DOMAIN CloudWalletCommands2 = CloudWalletMethods2 /\ \A m \in CloudWalletMethods2 : CloudWalletCommands2[m] \in Handled
<1>1. DOMAIN CloudWalletCommands2 = CloudWalletMethods2
  BY DEF CloudWalletMethods2, CloudWalletCommands2
<1>2. \A m \in CloudWalletMethods2 : CloudWalletCommands2[m] \in CloudWalletHandles1 \cup CloudWalletHandles2
  BY DEF CloudWalletMethods2, CloudWalletCommands2, CloudWalletHandles1, CloudWalletHandles2
<1> QED  BY <1>1, <1>2 DEF Handled

ConnectionMethods == {"sendQuestion", "sendBasicMessage", "getConnectionWebhook", "getUrl", "getConnections",
    "getConnectionListFromAgent", "getConnectionsById", "getQuestionAnswersRecord", "receiveInvitationUrl",
    "receiveInvitation", "_getWebhookUrl", "_postWebhookResponse", "createConnectionInvitation",
    "deleteConnectionRecords"}
LEMMA ConnectionAnswered ==
  DOMAIN ConnectionCommands = ConnectionMethods /\ \A m \in ConnectionMethods : ConnectionCommands[m] \in Handled
<1>1. DOMAIN ConnectionCommands = ConnectionMethods
  BY DEF ConnectionMethods, ConnectionCommands
<1>2. \A m \in ConnectionMethods : ConnectionCommands[m] \in ConnectionHandles \cup WebhookHandles
  BY DEF ConnectionMethods, ConnectionCommands, ConnectionHandles, WebhookHandles
<1> QED  BY <1>1, <1>2 DEF Handled

CredDefMethods == {"createCredentialDefinition", "getCredentialDefinitionById", "getAllCredDefs",
    "getCredentialDefinitionBySchemaId"}
LEMMA CredDefAnswered ==
  DOMAIN CredDefCommands = CredDefMethods /\ \A m \in CredDefMethods : CredDefCommands[m] \in Handled
<1>1. DOMAIN CredDefCommands = CredDefMethods
  BY DEF CredDefMethods, CredDefCommands
<1>2. \A m \in CredDefMethods : CredDefCommands[m] \in CredDefHandles
  BY DEF CredDefMethods, CredDefCommands, CredDefHandles
<1> QED  BY <1>1, <1>2 DEF Handled

EcosystemMethods1 == {"createEcosystem", "getEcosystems", "getEcosystemDashboard", "inviteMemberToEcosystem",
    "updateEcosystemInvitationStatus", "deleteEcosystemOrgs", "updateEcosystemOrgStatus",
    "getAllEcosystemOrgsByEcosystemId", "getEcosystemMemberInvitations", "getUserByKeycloakId",
    "getEcosystemDetailsByUserId", "getEcosystemOrgDetailsByUserId", "createIntentTemplate",
    "getIntentTemplateById", "getIntentTemplatesByIntentId", "updateIntentTemplate", "deleteIntentTemplate",
    "getIntentTemplatesByOrgId", "createIntent"}
LEMMA EcosystemAnswered1 ==
  DOMAIN EcosystemCommands1 = EcosystemMethods1 /\ \A m \in EcosystemMethods1 : EcosystemCommands1[m] \in Handled
<1>1. DOMAIN EcosystemCommands1 = EcosystemMethods1
  BY DEF EcosystemMethods1, EcosystemCommands1
<1>2. \A m \in EcosystemMethods1 : EcosystemCommands1[m] \in EcosystemHandles1 \cup EcosystemHandles2
  BY DEF EcosystemMethods1, EcosystemCommands1, EcosystemHandles1, EcosystemHandles2
<1> QED  BY <1>1, <1>2 DEF Handled

EcosystemMethods2 == {"getIntents", "getVerificationTemplates", "getIntentTemplateByIntentAndOrg",
    "getAllIntentTemplatesByQuery", "updateIntent", "deleteIntent", "getDashboardCountEcosystem",
    "getEcosystemOrgs", "getCreateEcosystemInvitationStatus", "createIntentNotice", "getIntentNotices",
    "getIntentNoticesByEcosystemId", "updateIntentNotice", "deleteIntentNotice"}
LEMMA EcosystemAnswered2 ==
  DOMAIN EcosystemCommands2 = EcosystemMethods2 /\ \A m \in EcosystemMethods2 : EcosystemCommands2[m] \in Handled
<1>1. DOMAIN EcosystemCommands2 = EcosystemMethods2
  BY DEF EcosystemMethods2, EcosystemCommands2
<1>2. \A m \in EcosystemMethods2 : EcosystemCommands2[m] \in EcosystemHandles2 \cup EcosystemHandles3
  BY DEF EcosystemMethods2, EcosystemCommands2, EcosystemHandles2, EcosystemHandles3
<1> QED  BY <1>1, <1>2 DEF Handled

FidoMethods == {"generateRegistrationOption", "verifyRegistration", "generateAuthenticationOption",
    "verifyAuthentication", "updateFidoUser", "fetchFidoUserDetails", "deleteFidoUserDevice",
    "updateFidoUserDeviceName"}
LEMMA FidoAnswered ==
  DOMAIN FidoCommands = FidoMethods /\ \A m \in FidoMethods : FidoCommands[m] \in Handled
<1>1. DOMAIN FidoCommands = FidoMethods
  BY DEF FidoMethods, FidoCommands
<1>2. \A m \in FidoMethods : FidoCommands[m] \in FidoHandles
  BY DEF FidoMethods, FidoCommands, FidoHandles
<1> QED  BY <1>1, <1>2 DEF Handled

GeoMethods == {"getAllCountries", "getStatesByCountryId", "getCitiesByStateAndCountry"}
LEMMA GeoAnswered ==
  DOMAIN GeoCommands = GeoMethods /\ \A m \in GeoMethods : GeoCommands[m] \in Handled
<1>1. DOMAIN GeoCommands = GeoMethods
  BY DEF GeoMethods, GeoCommands
<1>2. \A m \in GeoMethods : GeoCommands[m] \in GeoLocationHandles
  BY DEF GeoMethods, GeoCommands, GeoLocationHandles
<1> QED  BY <1>1, <1>2 DEF Handled

IssuanceMethods1 == {"sendCredentialCreateOffer", "sendCredentialOutOfBand", "getIssueCredentials",
    "getIssueCredentialsbyCredentialRecordId", "getIssueCredentialWebhook", "outOfBandCredentialOffer",
    "getAllCredentialTemplates", "downloadBulkIssuanceCSVTemplate", "uploadCSVTemplate", "previewCSVDetails"}
LEMMA IssuanceAnswered1 ==
  DOMAIN IssuanceCommands1 = IssuanceMethods1 /\ \A m \in IssuanceMethods1 : IssuanceCommands1[m] \in Handled
<1>1. DOMAIN IssuanceCommands1 = IssuanceMethods1
  BY DEF IssuanceMethods1, IssuanceCommands1
<1>2. \A m \in IssuanceMethods1 : IssuanceCommands1[m] \in IssuanceHandles \cup CredDefHandles
  BY DEF IssuanceMethods1, IssuanceCommands1, IssuanceHandles, CredDefHandles
<1> QED  BY <1>1, <1>2 DEF Handled

IssuanceMethods2 == {"issuedFileDetails", "getFileDetailsByFileId", "issueBulkCredential",
    "retryBulkCredential", "_getWebhookUrl", "_postWebhookResponse", "deleteIssuanceRecords",
    "getFileDetailsAndFileDataByFileId"}
LEMMA IssuanceAnswered2 ==
  DOMAIN IssuanceCommands2 = IssuanceMethods2 /\ \A m \in IssuanceMethods2 : IssuanceCommands2[m] \in Handled
<1>1. DOMAIN IssuanceCommands2 = IssuanceMethods2
  BY DEF IssuanceMethods2, IssuanceCommands2
<1>2. \A m \in IssuanceMethods2 : IssuanceCommands2[m] \in IssuanceHandles \cup WebhookHandles
  BY DEF IssuanceMethods2, IssuanceCommands2, IssuanceHandles, WebhookHandles
<1> QED  BY <1>1, <1>2 DEF Handled

MarketplaceMethods == {"resolveSubscription", "getOnboardingSession", "linkAccount", "linkOrganization",
    "activateSubscription", "getSubscription", "refreshSubscription", "processWebhook", "getEntitlements",
    "getUsageSummary", "getMeteringEvents", "recordUsageEvent"}
LEMMA MarketplaceAnswered ==
  DOMAIN MarketplaceCommands = MarketplaceMethods /\ \A m \in MarketplaceMethods : MarketplaceCommands[m] \in Handled
<1>1. DOMAIN MarketplaceCommands = MarketplaceMethods
  BY DEF MarketplaceMethods, MarketplaceCommands
<1>2. \A m \in MarketplaceMethods : MarketplaceCommands[m] \in MarketplaceHandles
  BY DEF MarketplaceMethods, MarketplaceCommands, MarketplaceHandles
<1> QED  BY <1>1, <1>2 DEF Handled

NotificationMethods == {"registerOrgWebhookEndpoint", "sendNotification", "registerHolderNotification"}
LEMMA NotificationAnswered ==
  DOMAIN NotificationCommands = NotificationMethods /\ \A m \in NotificationMethods : NotificationCommands[m] \in Handled
<1>1. DOMAIN NotificationCommands = NotificationMethods
  BY DEF NotificationMethods, NotificationCommands
<1>2. \A m \in NotificationMethods : NotificationCommands[m] \in NotificationHandles
  BY DEF NotificationMethods, NotificationCommands, NotificationHandles
<1> QED  BY <1>1, <1>2 DEF Handled

Oid4vcIssuanceMethods == {"oidcIssuerCreate", "oidcIssuerUpdate", "oidcGetIssuerById", "oidcGetIssuers",
    "oidcDeleteIssuer", "deleteTemplate", "updateTemplate", "findByIdTemplate", "findAllTemplate",
    "createTemplate", "createOidcCredentialOffer", "createOidcCredentialOfferD2A",
    "updateOidcCredentialOffer", "getCredentialOfferDetailsById", "getAllCredentialOffers",
    "deleteCredentialOffers", "revokeCredential", "oidcIssueCredentialWebhook", "_getWebhookUrl",
    "_postWebhookResponse"}
LEMMA Oid4vcIssuanceAnswered ==
  DOMAIN Oid4vcIssuanceCommands = Oid4vcIssuanceMethods /\ \A m \in Oid4vcIssuanceMethods : Oid4vcIssuanceCommands[m] \in Handled
<1>1. DOMAIN Oid4vcIssuanceCommands = Oid4vcIssuanceMethods
  BY DEF Oid4vcIssuanceMethods, Oid4vcIssuanceCommands
<1>2. \A m \in Oid4vcIssuanceMethods : Oid4vcIssuanceCommands[m] \in Oid4vcIssuanceHandles1 \cup
        Oid4vcIssuanceHandles2 \cup WebhookHandles
  BY DEF Oid4vcIssuanceMethods, Oid4vcIssuanceCommands, Oid4vcIssuanceHandles1, Oid4vcIssuanceHandles2,
     WebhookHandles
<1> QED  BY <1>1, <1>2 DEF Handled

Oid4vpMethods1 == {"createIntentBasedVerificationPresentation", "oid4vpCreateVerifier",
    "oid4vpUpdateVerifier", "oid4vpGetVerifier", "oid4vpDeleteVerifier", "oid4vpGetVerifierSession",
    "getVerificationSessionResponse", "oid4vpCreateVerificationSession", "oid4vpPresentationWebhook",
    "_getWebhookUrl", "_postWebhookResponse", "createVerificationTemplate", "getVerificationTemplates"}
LEMMA Oid4vpAnswered1 ==
  DOMAIN Oid4vpCommands1 = Oid4vpMethods1 /\ \A m \in Oid4vpMethods1 : Oid4vpCommands1[m] \in Handled
<1>1. DOMAIN Oid4vpCommands1 = Oid4vpMethods1
  BY DEF Oid4vpMethods1, Oid4vpCommands1
<1>2. \A m \in Oid4vpMethods1 : Oid4vpCommands1[m] \in Oid4vcVerificationHandles1 \cup WebhookHandles
  BY DEF Oid4vpMethods1, Oid4vpCommands1, Oid4vcVerificationHandles1, WebhookHandles
<1> QED  BY <1>1, <1>2 DEF Handled

Oid4vpMethods2 == {"updateVerificationTemplate", "deleteVerificationTemplate", "verifyAuthorizationResponse"}
LEMMA Oid4vpAnswered2 ==
  DOMAIN Oid4vpCommands2 = Oid4vpMethods2 /\ \A m \in Oid4vpMethods2 : Oid4vpCommands2[m] \in Handled
<1>1. DOMAIN Oid4vpCommands2 = Oid4vpMethods2
  BY DEF Oid4vpMethods2, Oid4vpCommands2
<1>2. \A m \in Oid4vpMethods2 : Oid4vpCommands2[m] \in Oid4vcVerificationHandles2
  BY DEF Oid4vpMethods2, Oid4vpCommands2, Oid4vcVerificationHandles2
<1> QED  BY <1>1, <1>2 DEF Handled

OrganizationMethods1 == {"createOrganization", "setPrimaryDid", "createOrgCredentials", "updateOrganization",
    "findOrganizationOwner", "getOrganizations", "getPublicOrganizations", "getPublicProfile",
    "getOrganization", "fetchOrgCredentials", "getInvitationsByOrgId", "getOrganizationDashboard",
    "getOrganizationActivityCount", "getOrgRoles", "createInvitation", "verifyInvitationPending",
    "registerOrgsMapUsers"}
LEMMA OrganizationAnswered1 ==
  DOMAIN OrganizationCommands1 = OrganizationMethods1 /\ \A m \in OrganizationMethods1 : OrganizationCommands1[m] \in Handled
<1>1. DOMAIN OrganizationCommands1 = OrganizationMethods1
  BY DEF OrganizationMethods1, OrganizationCommands1
<1>2. \A m \in OrganizationMethods1 : OrganizationCommands1[m] \in OrganizationHandles1 \cup
        OrganizationHandles2
  BY DEF OrganizationMethods1, OrganizationCommands1, OrganizationHandles1, OrganizationHandles2
<1> QED  BY <1>1, <1>2 DEF Handled

OrganizationMethods2 == {"updateUserRoles", "getOrgUsers", "getDidList", "getOrgPofile", "deleteOrganization",
    "deleteOrgClientCredentials", "deleteOrganizationInvitation", "clientLoginCredentials",
    "generateClientApiToken", "getEcosystemIdsByTenantId", "getAllOrganizations"}
LEMMA OrganizationAnswered2 ==
  DOMAIN OrganizationCommands2 = OrganizationMethods2 /\ \A m \in OrganizationMethods2 : OrganizationCommands2[m] \in Handled
<1>1. DOMAIN OrganizationCommands2 = OrganizationMethods2
  BY DEF OrganizationMethods2, OrganizationCommands2
<1>2. \A m \in OrganizationMethods2 : OrganizationCommands2[m] \in OrganizationHandles2 \cup UserHandles1 \cup
        OrganizationHandles1
  BY DEF OrganizationMethods2, OrganizationCommands2, OrganizationHandles2, UserHandles1, OrganizationHandles1
<1> QED  BY <1>1, <1>2 DEF Handled

PlatformMethods == {"getAllSchema", "getAllPlatformCredDefs", "getAllLedgers", "getNetworkUrl",
    "getShorteningUrlById", "inviteUserToCreateEcosystem", "getInvitationsByUserId", "updateEcosystemConfig",
    "getEcosystemEnableStatus", "getDashboardCountEcosystem"}
LEMMA PlatformAnswered ==
  DOMAIN PlatformCommands = PlatformMethods /\ \A m \in PlatformMethods : PlatformCommands[m] \in Handled
<1>1. DOMAIN PlatformCommands = PlatformMethods
  BY DEF PlatformMethods, PlatformCommands
<1>2. \A m \in PlatformMethods : PlatformCommands[m] \in SchemaHandles \cup CredDefHandles \cup LedgerHandles
        \cup UtilityHandles \cup EcosystemHandles1 \cup EcosystemHandles3
  BY DEF PlatformMethods, PlatformCommands, SchemaHandles, CredDefHandles, LedgerHandles, UtilityHandles,
     EcosystemHandles1, EcosystemHandles3
<1> QED  BY <1>1, <1>2 DEF Handled

SchemaMethods == {"createSchema", "migrateSchema", "getSchemaById", "getSchemas", "getcredDefListBySchemaId",
    "updateSchema"}
LEMMA SchemaAnswered ==
  DOMAIN SchemaCommands = SchemaMethods /\ \A m \in SchemaMethods : SchemaCommands[m] \in Handled
<1>1. DOMAIN SchemaCommands = SchemaMethods
  BY DEF SchemaMethods, SchemaCommands
<1>2. \A m \in SchemaMethods : SchemaCommands[m] \in SchemaHandles
  BY DEF SchemaMethods, SchemaCommands, SchemaHandles
<1> QED  BY <1>1, <1>2 DEF Handled

UserMethods == {"getProfile", "getPublicProfile", "updateUserProfile", "findUserinSupabase",
    "findUserinKeycloak", "invitations", "acceptRejectInvitaion", "get", "checkUserExist",
    "getUserActivities", "addPasskey", "updatePlatformSettings", "getPlatformSettings",
    "getUserByUserIdInKeycloak", "getUserByUsernameInKeycloak"}
LEMMA UserAnswered ==
  DOMAIN UserCommands = UserMethods /\ \A m \in UserMethods : UserCommands[m] \in Handled
<1>1. DOMAIN UserCommands = UserMethods
  BY DEF UserMethods, UserCommands
<1>2. \A m \in UserMethods : UserCommands[m] \in UserHandles1 \cup UserHandles2
  BY DEF UserMethods, UserCommands, UserHandles1, UserHandles2
<1> QED  BY <1>1, <1>2 DEF Handled

UtilitiesMethods == {"createShorteningUrl", "storeObject", "getAllIntentTemplatesByQuery",
    "getIntentTemplateByIntentAndOrg"}
LEMMA UtilitiesAnswered ==
  DOMAIN UtilitiesCommands = UtilitiesMethods /\ \A m \in UtilitiesMethods : UtilitiesCommands[m] \in Handled
<1>1. DOMAIN UtilitiesCommands = UtilitiesMethods
  BY DEF UtilitiesMethods, UtilitiesCommands
<1>2. \A m \in UtilitiesMethods : UtilitiesCommands[m] \in UtilityHandles \cup EcosystemHandles2
  BY DEF UtilitiesMethods, UtilitiesCommands, UtilityHandles, EcosystemHandles2
<1> QED  BY <1>1, <1>2 DEF Handled

VerificationMethods == {"getProofPresentations", "getProofPresentationById",
    "getPresentationDetailsByIssuerId", "sendProofRequest", "verifyPresentation", "webhookProofPresentation",
    "sendOutOfBandPresentationRequest", "getVerifiedProofDetails", "_getWebhookUrl", "_postWebhookResponse",
    "getProofPresentationByThreadId", "getProofCallbackResult", "setRedirectUris", "getRedirectUris",
    "deleteVerificationRecords"}
LEMMA VerificationAnswered ==
  DOMAIN VerificationCommands = VerificationMethods /\ \A m \in VerificationMethods : VerificationCommands[m] \in Handled
<1>1. DOMAIN VerificationCommands = VerificationMethods
  BY DEF VerificationMethods, VerificationCommands
<1>2. \A m \in VerificationMethods : VerificationCommands[m] \in VerificationHandles \cup WebhookHandles
  BY DEF VerificationMethods, VerificationCommands, VerificationHandles, WebhookHandles
<1> QED  BY <1>1, <1>2 DEF Handled

WebhookMethods == {"getWebhookUrl", "registerWebhook", "updateWebhook"}
LEMMA WebhookAnswered ==
  DOMAIN WebhookCommands = WebhookMethods /\ \A m \in WebhookMethods : WebhookCommands[m] \in Handled
<1>1. DOMAIN WebhookCommands = WebhookMethods
  BY DEF WebhookMethods, WebhookCommands
<1>2. \A m \in WebhookMethods : WebhookCommands[m] \in WebhookHandles
  BY DEF WebhookMethods, WebhookCommands, WebhookHandles
<1> QED  BY <1>1, <1>2 DEF Handled

X509Methods == {"createX509", "activateX509", "deActivateX509", "getX509CertificatesByOrgId",
    "getX509Certificate", "importX509"}
LEMMA X509Answered ==
  DOMAIN X509Commands = X509Methods /\ \A m \in X509Methods : X509Commands[m] \in Handled
<1>1. DOMAIN X509Commands = X509Methods
  BY DEF X509Methods, X509Commands
<1>2. \A m \in X509Methods : X509Commands[m] \in X509Handles
  BY DEF X509Methods, X509Commands, X509Handles
<1> QED  BY <1>1, <1>2 DEF Handled

(* The routes of each controller call methods of the services it injects.  *)
LEMMA AgentServiceRoutesFit ==
  Fit(AgentServiceRoutes1 \cup AgentServiceRoutes2 \cup AgentServiceRoutes3 \cup AgentServiceRoutes4,
      AgentServiceMethods)
<1> DEFINE M == AgentServiceMethods
<1>1. Fit(AgentServiceRoutes1, M)
  <2>1. /\ Fit(Org(Members \cup {HOLDER, SUPER_ADMIN}, Path, Each({"getAgentHealth", "signData"})), M)
        /\ Fit(Open(Each({"verifysignature"})), M)
        /\ Fit(SignedIn(Each({"getLedgerConfig"})), M)
    BY EachFits DEF AgentServiceMethods
  <2> QED  BY <2>1 DEF AgentServiceRoutes1, Fit
<1>2. Fit(AgentServiceRoutes2, M)
  <2>1. /\ Fit(Org(Admins, Path, Each({"agentSpinup", "createTenant", "createWallet"})), M)
        /\ Fit(Org(Issuers, Path, Each({"createDid"})), M)
    BY EachFits DEF AgentServiceMethods
  <2> QED  BY <2>1 DEF AgentServiceRoutes2, Fit
<1>3. Fit(AgentServiceRoutes3, M)
  <2>1. /\ Fit(Org(Admins, Path, Each({"generateWebDid", "agentConfigure"})), M)
        /\ Fit(Org(Staff \cup {PLATFORM_ADMIN}, Path, Each({"createSecp256k1KeyPair", "createEthKeyPair"})), M)
        /\ Fit(Org({PLATFORM_ADMIN}, Free, Each({"setDedicatedAgentToken"})), M)
    BY EachFits DEF AgentServiceMethods
  <2> QED  BY <2>1 DEF AgentServiceRoutes3, Fit
<1>4. Fit(AgentServiceRoutes4, M)
  <2>1. Fit(Org({OWNER}, Path, Each({"deleteWallet"})), M)
    BY EachFits DEF AgentServiceMethods
  <2> QED  BY <2>1 DEF AgentServiceRoutes4, Fit
<1> QED  BY <1>1, <1>2, <1>3, <1>4 DEF Fit

LEMMA AuthzRoutesFit ==
  Fit(AuthzRoutes1 \cup AuthzRoutes2 \cup AuthzRoutes3 \cup AuthzRoutes4, AuthzMethods \cup
      OrganizationMethods1 \cup OrganizationMethods2)
<1> DEFINE M == AuthzMethods \cup OrganizationMethods1 \cup OrganizationMethods2
<1>1. Fit(AuthzRoutes1, M)
  <2>2. <<"verifyInvitationPending", "sendVerificationMail">> \in Seq(M)
    BY DEF AuthzMethods, OrganizationMethods1
  <2>3. Each({"getClientAlias", "verifyEmail", "addUserDetails"}) \in SUBSET Seq(M)
    BY EachInSeq DEF AuthzMethods, OrganizationMethods1
  <2>4. Each({"getClientAlias", "verifyEmail", "addUserDetails"}) \cup {<<"verifyInvitationPending",
        "sendVerificationMail">>} \in SUBSET Seq(M)
    BY <2>2, <2>3
  <2>5. Fit(Open(Each({"getClientAlias", "verifyEmail", "addUserDetails"}) \cup {<<"verifyInvitationPending",
        "sendVerificationMail">>}), M)
    BY <2>4, KindsFit
  <2> QED  BY <2>5 DEF AuthzRoutes1, Fit
<1>2. Fit(AuthzRoutes2, M)
  <2>1. /\ Fit(Open(Each({"login", "resetPassword", "forgotPassword", "resetNewPassword"})), M)
        /\ Fit(ByCookie(Each({"getSession"})), M)
    BY EachFits DEF AuthzMethods
  <2> QED  BY <2>1 DEF AuthzRoutes2, Fit
<1>3. Fit(AuthzRoutes3, M)
  <2>1. /\ Fit(Open(Each({"refreshToken", "addUserDetailsUsernameBased"})), M)
        /\ Fit(SignedIn(Each({"logout", "userSessions", "deleteSession"})), M)
    BY EachFits DEF AuthzMethods
  <2> QED  BY <2>1 DEF AuthzRoutes3, Fit
<1>4. Fit(AuthzRoutes4, M)
  <2>1. Fit(Open(Each({"usernameLogin"})), M)
    BY EachFits DEF AuthzMethods
  <2> QED  BY <2>1 DEF AuthzRoutes4, Fit
<1> QED  BY <1>1, <1>2, <1>3, <1>4 DEF Fit

LEMMA CloudWalletRoutesFit ==
  Fit(CloudWalletRoutes1 \cup CloudWalletRoutes2 \cup CloudWalletRoutes3 \cup CloudWalletRoutes4 \cup
      CloudWalletRoutes5 \cup CloudWalletRoutes6 \cup CloudWalletRoutes7 \cup CloudWalletRoutes8,
      CloudWalletMethods1 \cup CloudWalletMethods2)
<1> DEFINE M == CloudWalletMethods1 \cup CloudWalletMethods2
<1>1. Fit(CloudWalletRoutes1, M)
  <2>1. /\ Fit(SignedIn(Each({"configureBaseWallet"})), M)
        /\ Fit(Org({PLATFORM_ADMIN}, Free, Each({"getBaseWalletDetails"})), M)
    BY EachFits DEF CloudWalletMethods1
  <2>2. <<"deleteCloudWallet", "deleteUser">> \in Seq(M)
    BY DEF CloudWalletMethods1
  <2>3. Each({"createCloudWallet", "checkCloudWalletStatus"}) \in SUBSET Seq(M)
    BY EachInSeq DEF CloudWalletMethods1
  <2>4. Each({"createCloudWallet", "checkCloudWalletStatus"}) \cup {<<"deleteCloudWallet", "deleteUser">>} \in
        SUBSET Seq(M)
    BY <2>2, <2>3
  <2>5. Fit(HolderOnly(Each({"createCloudWallet", "checkCloudWalletStatus"}) \cup {<<"deleteCloudWallet",
        "deleteUser">>}), M)
    BY <2>4, KindsFit
  <2> QED  BY <2>1, <2>5 DEF CloudWalletRoutes1, Fit
<1>2. Fit(CloudWalletRoutes2, M)
  <2>1. /\ Fit(Org({PLATFORM_ADMIN}, Free, Each({"updateBaseWalletDetails"})), M)
        /\ Fit(HolderOnly(Each({"acceptProofRequest", "declineProofRequest", "submitProofWithCred"})), M)
    BY EachFits DEF CloudWalletMethods1
  <2> QED  BY <2>1 DEF CloudWalletRoutes2, Fit
<1>3. Fit(CloudWalletRoutes3, M)
  <2>1. Fit(HolderOnly(Each({"getProofById", "getCredentialsForRequest", "getProofPresentation",
        "getCredentialFormatDataByCredentialRecordId"})), M)
    BY EachFits DEF CloudWalletMethods1, CloudWalletMethods2
  <2> QED  BY <2>1 DEF CloudWalletRoutes3, Fit
<1>4. Fit(CloudWalletRoutes4, M)
  <2>1. Fit(HolderOnly(Each({"receiveInvitationByUrl", "acceptOffer", "createDid", "exportWallet"})), M)
    BY EachFits DEF CloudWalletMethods1
  <2> QED  BY <2>1 DEF CloudWalletRoutes4, Fit
<1>5. Fit(CloudWalletRoutes5, M)
  <2>1. Fit(HolderOnly(Each({"getExportWalletStatus", "importWallet", "getImportWalletStatus",
        "getDidList"})), M)
    BY EachFits DEF CloudWalletMethods1
  <2> QED  BY <2>1 DEF CloudWalletRoutes5, Fit
<1>6. Fit(CloudWalletRoutes6, M)
  <2>1. Fit(HolderOnly(Each({"createConnection", "getconnectionById", "getAllconnectionById",
        "createSelfAttestedW3cCredential", "getCredentialList"})), M)
    BY EachFits DEF CloudWalletMethods1, CloudWalletMethods2
  <2> QED  BY <2>1 DEF CloudWalletRoutes6, Fit
<1>7. Fit(CloudWalletRoutes7, M)
  <2>1. Fit(HolderOnly(Each({"getAllW3cCredentials", "getCredentialByCredentialRecordId",
        "getW3cCredentialByCredentialRecordId", "getProofFormatDataByProofRecordId"})), M)
    BY EachFits DEF CloudWalletMethods2
  <2> QED  BY <2>1 DEF CloudWalletRoutes7, Fit
<1>8. Fit(CloudWalletRoutes8, M)
  <2>1. Fit(HolderOnly(Each({"deleteCredentialByCredentialRecordId",
        "deleteW3cCredentialByCredentialRecordId", "getBasicMessageByConnectionId", "sendBasicMessage"})), M)
    BY EachFits DEF CloudWalletMethods2
  <2> QED  BY <2>1 DEF CloudWalletRoutes8, Fit
<1> QED  BY <1>1, <1>2, <1>3, <1>4, <1>5, <1>6, <1>7, <1>8 DEF Fit

LEMMA ConnectionRoutesFit ==
  Fit(ConnectionRoutes1 \cup ConnectionRoutes2 \cup ConnectionRoutes3 \cup ConnectionRoutes4,
      ConnectionMethods)
<1> DEFINE M == ConnectionMethods
<1>1. Fit(ConnectionRoutes1, M)
  <2>1. /\ Fit(Org(Members, Path, Each({"getConnectionsById", "getConnections", "getConnectionListFromAgent"})), M)
        /\ Fit(Org(Members \cup {HOLDER, SUPER_ADMIN, PLATFORM_ADMIN}, Path, Each({"getQuestionAnswersRecord"})), M)
    BY EachFits DEF ConnectionMethods
  <2> QED  BY <2>1 DEF ConnectionRoutes1, Fit
<1>2. Fit(ConnectionRoutes2, M)
  <2>1. /\ Fit(Org(Members, Path, Each({"createConnectionInvitation"})), M)
        /\ Fit(Org(Members \cup {HOLDER, SUPER_ADMIN, PLATFORM_ADMIN}, Path, Each({"sendQuestion"})), M)
        /\ Fit(Org(Admins, Path, Each({"receiveInvitationUrl", "receiveInvitation"})), M)
    BY EachFits DEF ConnectionMethods
  <2> QED  BY <2>1 DEF ConnectionRoutes2, Fit
<1>3. Fit(ConnectionRoutes3, M)
  <2>1. Fit(Org({OWNER}, Path, Each({"deleteConnectionRecords"})), M)
    BY EachFits DEF ConnectionMethods
  <2>2. /\ <<"getConnectionWebhook", "_getWebhookUrl", "_postWebhookResponse">> \in Seq(M)
        /\ <<"_getWebhookUrl", "_postWebhookResponse">> \in Seq(M)
    BY DEF ConnectionMethods
  <2>4. {<<"getConnectionWebhook", "_getWebhookUrl", "_postWebhookResponse">>, <<"_getWebhookUrl",
        "_postWebhookResponse">>} \in SUBSET Seq(M)
    BY <2>2
  <2>5. Fit(Open({<<"getConnectionWebhook", "_getWebhookUrl", "_postWebhookResponse">>, <<"_getWebhookUrl",
        "_postWebhookResponse">>}), M)
    BY <2>4, KindsFit
  <2> QED  BY <2>1, <2>5 DEF ConnectionRoutes3, Fit
<1>4. Fit(ConnectionRoutes4, M)
  <2>1. Fit(Org(Members \cup {HOLDER, SUPER_ADMIN, PLATFORM_ADMIN}, Path, Each({"sendBasicMessage"})), M)
    BY EachFits DEF ConnectionMethods
  <2> QED  BY <2>1 DEF ConnectionRoutes4, Fit
<1> QED  BY <1>1, <1>2, <1>3, <1>4 DEF Fit

LEMMA CredDefRoutesFit ==
  Fit(CredDefRoutes, CredDefMethods)
<1> DEFINE M == CredDefMethods
<1>1. Fit(CredDefRoutes, M)
  <2>1. /\ Fit(Org(Members, Path, Each({"getCredentialDefinitionById", "getAllCredDefs"})), M)
        /\ Fit(SignedIn(Each({"getCredentialDefinitionBySchemaId"})), M)
        /\ Fit(Entitled(Admins, Path, "credentialDefinitionCreate", Each({"createCredentialDefinition"})), M)
    BY EachFits DEF CredDefMethods
  <2> QED  BY <2>1 DEF CredDefRoutes, Fit
<1> QED  BY <1>1 DEF Fit

LEMMA EcosystemRoutesFit ==
  Fit(EcosystemRoutes1 \cup EcosystemRoutes2 \cup EcosystemRoutes3 \cup EcosystemRoutes4, EcosystemMethods1
      \cup EcosystemMethods2)
<1> DEFINE M == EcosystemMethods1 \cup EcosystemMethods2
<1>1. Fit(EcosystemRoutes1, M)
  <2>1. /\ Fit(Eco({ECOSYSTEM_LEAD}, Free, Each({"inviteMemberToEcosystem"})), M)
        /\ Fit(EcoSignedIn(Each({"updateEcosystemInvitationStatus"})), M)
        /\ Fit(Eco({OWNER}, Free, Each({"createEcosystem"})), M)
    BY EachFits DEF EcosystemMethods1
  <2> QED  BY <2>1 DEF EcosystemRoutes1, Fit
<1>2. Fit(EcosystemRoutes2, M)
  <2>1. /\ Fit(Eco({ECOSYSTEM_LEAD, ECOSYSTEM_MEMBER, PLATFORM_ADMIN}, Free, Each({"getEcosystemOrgs"})), M)
        /\ Fit(Eco(Admins \cup {PLATFORM_ADMIN}, Path, Each({"getEcosystemDashboard"})), M)
        /\ Fit(Eco({ECOSYSTEM_LEAD}, Free, Each({"deleteEcosystemOrgs"})), M)
    BY EachFits DEF EcosystemMethods1, EcosystemMethods2
  <2> QED  BY <2>1 DEF EcosystemRoutes2, Fit
<1>3. Fit(EcosystemRoutes3, M)
  <2>1. /\ Fit(Eco({ECOSYSTEM_LEAD}, Free, Each({"updateEcosystemOrgStatus", "getAllEcosystemOrgsByEcosystemId"})), M)
        /\ Fit(Eco({OWNER}, Free, Each({"getEcosystemMemberInvitations"})), M)
    BY EachFits DEF EcosystemMethods1
  <2> QED  BY <2>1 DEF EcosystemRoutes3, Fit
<1>4. Fit(EcosystemRoutes4, M)
  <2>1. Fit(EcoSignedIn(Each({"getCreateEcosystemInvitationStatus"})), M)
    BY EachFits DEF EcosystemMethods2
  <2> QED  BY <2>1 DEF EcosystemRoutes4, Fit
<1> QED  BY <1>1, <1>2, <1>3, <1>4 DEF Fit

LEMMA IntentRoutesFit ==
  Fit(IntentRoutes1 \cup IntentRoutes2 \cup IntentRoutes3 \cup IntentRoutes4 \cup IntentRoutes5 \cup
      IntentRoutes6, EcosystemMethods1 \cup EcosystemMethods2)
<1> DEFINE M == EcosystemMethods1 \cup EcosystemMethods2
<1>1. Fit(IntentRoutes1, M)
  <2>1. Fit(Eco({ECOSYSTEM_LEAD}, Free, Each({"createIntent", "getIntents"})), M)
    BY EachFits DEF EcosystemMethods1, EcosystemMethods2
  <2> QED  BY <2>1 DEF IntentRoutes1, Fit
<1>2. Fit(IntentRoutes2, M)
  <2>1. Fit(Eco({ECOSYSTEM_LEAD}, Free, Each({"updateIntent", "deleteIntent"})), M)
    BY EachFits DEF EcosystemMethods2
  <2> QED  BY <2>1 DEF IntentRoutes2, Fit
<1>3. Fit(IntentRoutes3, M)
  <2>1. /\ Fit(Eco({ECOSYSTEM_LEAD, OWNER}, Free, Each({"getVerificationTemplates"})), M)
        /\ Fit(Eco({ECOSYSTEM_LEAD}, Free, Each({"createIntentTemplate", "getAllIntentTemplatesByQuery"})), M)
        /\ Fit(Eco({ECOSYSTEM_LEAD}, Path, Each({"getIntentTemplateByIntentAndOrg"})), M)
    BY EachFits DEF EcosystemMethods1, EcosystemMethods2
  <2> QED  BY <2>1 DEF IntentRoutes3, Fit
<1>4. Fit(IntentRoutes4, M)
  <2>1. /\ Fit(Eco({ECOSYSTEM_LEAD}, Free, Each({"getIntentTemplatesByIntentId", "getIntentTemplateById",
           "updateIntentTemplate"})), M)
        /\ Fit(Eco({ECOSYSTEM_LEAD, OWNER}, Path, Each({"getIntentTemplatesByOrgId"})), M)
    BY EachFits DEF EcosystemMethods1
  <2> QED  BY <2>1 DEF IntentRoutes4, Fit
<1>5. Fit(IntentRoutes5, M)
  <2>1. /\ Fit(Eco({ECOSYSTEM_LEAD}, Free, Each({"deleteIntentTemplate", "createIntentNotice"})), M)
        /\ Fit(Eco({ECOSYSTEM_LEAD, ECOSYSTEM_MEMBER}, Free, Each({"getIntentNotices",
           "getIntentNoticesByEcosystemId"})), M)
    BY EachFits DEF EcosystemMethods1, EcosystemMethods2
  <2> QED  BY <2>1 DEF IntentRoutes5, Fit
<1>6. Fit(IntentRoutes6, M)
  <2>1. Fit(Eco({ECOSYSTEM_LEAD}, Free, Each({"updateIntentNotice", "deleteIntentNotice"})), M)
    BY EachFits DEF EcosystemMethods2
  <2> QED  BY <2>1 DEF IntentRoutes6, Fit
<1> QED  BY <1>1, <1>2, <1>3, <1>4, <1>5, <1>6 DEF Fit

LEMMA FidoRoutesFit ==
  Fit(FidoRoutes1 \cup FidoRoutes2, FidoMethods)
<1> DEFINE M == FidoMethods
<1>1. Fit(FidoRoutes1, M)
  <2>1. Fit(Open(Each({"fetchFidoUserDetails", "generateRegistrationOption", "verifyRegistration",
        "generateAuthenticationOption", "verifyAuthentication"})), M)
    BY EachFits DEF FidoMethods
  <2> QED  BY <2>1 DEF FidoRoutes1, Fit
<1>2. Fit(FidoRoutes2, M)
  <2>1. Fit(Open(Each({"updateFidoUser", "updateFidoUserDeviceName", "deleteFidoUserDevice"})), M)
    BY EachFits DEF FidoMethods
  <2> QED  BY <2>1 DEF FidoRoutes2, Fit
<1> QED  BY <1>1, <1>2 DEF Fit

LEMMA GeoRoutesFit ==
  Fit(GeoRoutes, GeoMethods)
<1> DEFINE M == GeoMethods
<1>1. Fit(GeoRoutes, M)
  <2>1. Fit(Open(Each({"getAllCountries", "getStatesByCountryId", "getCitiesByStateAndCountry"})), M)
    BY EachFits DEF GeoMethods
  <2> QED  BY <2>1 DEF GeoRoutes, Fit
<1> QED  BY <1>1 DEF Fit

LEMMA IssuanceRoutesFit ==
  Fit(IssuanceRoutes1 \cup IssuanceRoutes2 \cup IssuanceRoutes3 \cup IssuanceRoutes4 \cup IssuanceRoutes5 \cup
      IssuanceRoutes6 \cup IssuanceRoutes7, IssuanceMethods1 \cup IssuanceMethods2 \cup MarketplaceMethods)
<1> DEFINE M == IssuanceMethods1 \cup IssuanceMethods2 \cup MarketplaceMethods
<1>1. Fit(IssuanceRoutes1, M)
  <2>1. /\ Fit(Org(Members \cup {HOLDER}, Path, Each({"getIssueCredentials",
           "getIssueCredentialsbyCredentialRecordId"})), M)
        /\ Fit(Org(Staff, Path, Each({"getAllCredentialTemplates"})), M)
    BY EachFits DEF IssuanceMethods1
  <2> QED  BY <2>1 DEF IssuanceRoutes1, Fit
<1>2. Fit(IssuanceRoutes2, M)
  <2>1. /\ Fit(Org(Staff, Path, Each({"downloadBulkIssuanceCSVTemplate"})), M)
        /\ Fit(Entitled(Staff, Path, "bulkIssuance", Each({"uploadCSVTemplate"})), M)
    BY EachFits DEF IssuanceMethods1
  <2> QED  BY <2>1 DEF IssuanceRoutes2, Fit
<1>3. Fit(IssuanceRoutes3, M)
  <2>1. /\ Fit(Org(Staff, Path, Each({"previewCSVDetails"})), M)
        /\ Fit(Entitled(Staff, Path, "bulkIssuance", Each({"issueBulkCredential"})), M)
    BY EachFits DEF IssuanceMethods1, IssuanceMethods2
  <2> QED  BY <2>1 DEF IssuanceRoutes3, Fit
<1>4. Fit(IssuanceRoutes4, M)
  <2>1. Fit(Org(Staff, Path, Each({"issuedFileDetails", "getFileDetailsByFileId",
        "getFileDetailsAndFileDataByFileId"})), M)
    BY EachFits DEF IssuanceMethods2
  <2> QED  BY <2>1 DEF IssuanceRoutes4, Fit
<1>5. Fit(IssuanceRoutes5, M)
  <2>1. /\ Fit(Entitled(Staff, Path, "bulkIssuance", Each({"retryBulkCredential"})), M)
        /\ Fit(Entitled(Issuers, Path, "issuance", Each({"sendCredentialCreateOffer"})), M)
    BY EachFits DEF IssuanceMethods1, IssuanceMethods2
  <2> QED  BY <2>1 DEF IssuanceRoutes5, Fit
<1>6. Fit(IssuanceRoutes6, M)
  <2>1. Fit(Entitled(Issuers, Path, "issuance", Each({"outOfBandCredentialOffer",
        "sendCredentialOutOfBand"})), M)
    BY EachFits DEF IssuanceMethods1
  <2> QED  BY <2>1 DEF IssuanceRoutes6, Fit
<1>7. Fit(IssuanceRoutes7, M)
  <2>1. Fit(Org({OWNER}, Path, Each({"deleteIssuanceRecords"})), M)
    BY EachFits DEF IssuanceMethods1, IssuanceMethods2, MarketplaceMethods
  <2>2. <<"getIssueCredentialWebhook", "recordUsageEvent", "_getWebhookUrl", "_postWebhookResponse">> \in
        Seq(M)
    BY DEF IssuanceMethods1, IssuanceMethods2, MarketplaceMethods
  <2>4. {<<"getIssueCredentialWebhook", "recordUsageEvent", "_getWebhookUrl", "_postWebhookResponse">>} \in
        SUBSET Seq(M)
    BY <2>2
  <2>5. Fit(Open({<<"getIssueCredentialWebhook", "recordUsageEvent", "_getWebhookUrl",
        "_postWebhookResponse">>}), M)
    BY <2>4, KindsFit
  <2> QED  BY <2>1, <2>5 DEF IssuanceRoutes7, Fit
<1> QED  BY <1>1, <1>2, <1>3, <1>4, <1>5, <1>6, <1>7 DEF Fit

LEMMA MarketplaceRoutesFit ==
  Fit(MarketplaceRoutes, MarketplaceMethods)
<1> DEFINE M == MarketplaceMethods
<1>1. Fit(MarketplaceRoutes, M)
  <2>1. /\ Fit(Open(Each({"resolveSubscription", "processWebhook"})), M)
        /\ Fit(SignedIn(Each({"getOnboardingSession", "linkAccount", "linkOrganization", "activateSubscription",
           "getSubscription", "refreshSubscription", "getEntitlements", "getUsageSummary", "getMeteringEvents"})), M)
    BY EachFits DEF MarketplaceMethods
  <2> QED  BY <2>1 DEF MarketplaceRoutes, Fit
<1> QED  BY <1>1 DEF Fit

LEMMA NotificationRoutesFit ==
  Fit(NotificationRoutes, NotificationMethods)
<1> DEFINE M == NotificationMethods
<1>1. Fit(NotificationRoutes, M)
  <2>1. /\ Fit(Open(Each({"registerOrgWebhookEndpoint", "sendNotification"})), M)
        /\ Fit(ClientOnly(Each({"registerHolderNotification"})), M)
    BY EachFits DEF NotificationMethods
  <2> QED  BY <2>1 DEF NotificationRoutes, Fit
<1> QED  BY <1>1 DEF Fit

LEMMA Oid4vcIssuanceRoutesFit ==
  Fit(Oid4vcIssuanceRoutes1 \cup Oid4vcIssuanceRoutes2 \cup Oid4vcIssuanceRoutes3 \cup Oid4vcIssuanceRoutes4
      \cup Oid4vcIssuanceRoutes5, Oid4vcIssuanceMethods)
<1> DEFINE M == Oid4vcIssuanceMethods
<1>1. Fit(Oid4vcIssuanceRoutes1, M)
  <2>1. Fit(Org({OWNER}, Path, Each({"oidcIssuerCreate", "oidcIssuerUpdate", "oidcGetIssuerById",
        "oidcGetIssuers"})), M)
    BY EachFits DEF Oid4vcIssuanceMethods
  <2> QED  BY <2>1 DEF Oid4vcIssuanceRoutes1, Fit
<1>2. Fit(Oid4vcIssuanceRoutes2, M)
  <2>1. Fit(Org({OWNER}, Path, Each({"oidcDeleteIssuer", "createTemplate", "findAllTemplate",
        "findByIdTemplate"})), M)
    BY EachFits DEF Oid4vcIssuanceMethods
  <2> QED  BY <2>1 DEF Oid4vcIssuanceRoutes2, Fit
<1>3. Fit(Oid4vcIssuanceRoutes3, M)
  <2>1. Fit(Org({OWNER}, Path, Each({"updateTemplate", "deleteTemplate", "createOidcCredentialOffer"})), M)
    BY EachFits DEF Oid4vcIssuanceMethods
  <2> QED  BY <2>1 DEF Oid4vcIssuanceRoutes3, Fit
<1>4. Fit(Oid4vcIssuanceRoutes4, M)
  <2>1. Fit(Org({OWNER}, Path, Each({"updateOidcCredentialOffer", "getCredentialOfferDetailsById",
        "getAllCredentialOffers", "deleteCredentialOffers", "createOidcCredentialOfferD2A"})), M)
    BY EachFits DEF Oid4vcIssuanceMethods
  <2> QED  BY <2>1 DEF Oid4vcIssuanceRoutes4, Fit
<1>5. Fit(Oid4vcIssuanceRoutes5, M)
  <2>1. Fit(Org({OWNER}, Path, Each({"revokeCredential"})), M)
    BY EachFits DEF Oid4vcIssuanceMethods
  <2>2. <<"oidcIssueCredentialWebhook", "_getWebhookUrl", "_postWebhookResponse">> \in Seq(M)
    BY DEF Oid4vcIssuanceMethods
  <2>4. {<<"oidcIssueCredentialWebhook", "_getWebhookUrl", "_postWebhookResponse">>} \in SUBSET Seq(M)
    BY <2>2
  <2>5. Fit(Open({<<"oidcIssueCredentialWebhook", "_getWebhookUrl", "_postWebhookResponse">>}), M)
    BY <2>4, KindsFit
  <2> QED  BY <2>1, <2>5 DEF Oid4vcIssuanceRoutes5, Fit
<1> QED  BY <1>1, <1>2, <1>3, <1>4, <1>5 DEF Fit

LEMMA Oid4vpRoutesFit ==
  Fit(Oid4vpRoutes1 \cup Oid4vpRoutes2 \cup Oid4vpRoutes3 \cup Oid4vpRoutes4 \cup Oid4vpRoutes5 \cup
      Oid4vpRoutes6, Oid4vpMethods1 \cup Oid4vpMethods2)
<1> DEFINE M == Oid4vpMethods1 \cup Oid4vpMethods2
<1>1. Fit(Oid4vpRoutes1, M)
  <2>1. Fit(Org({OWNER}, Path, Each({"oid4vpCreateVerifier", "oid4vpUpdateVerifier", "oid4vpGetVerifier"})),
        M)
    BY EachFits DEF Oid4vpMethods1
  <2> QED  BY <2>1 DEF Oid4vpRoutes1, Fit
<1>2. Fit(Oid4vpRoutes2, M)
  <2>1. Fit(Org({OWNER}, Path, Each({"oid4vpDeleteVerifier", "oid4vpCreateVerificationSession"})), M)
    BY EachFits DEF Oid4vpMethods1
  <2> QED  BY <2>1 DEF Oid4vpRoutes2, Fit
<1>3. Fit(Oid4vpRoutes3, M)
  <2>1. Fit(Org({OWNER}, Path, Each({"createIntentBasedVerificationPresentation",
        "oid4vpGetVerifierSession"})), M)
    BY EachFits DEF Oid4vpMethods1
  <2> QED  BY <2>1 DEF Oid4vpRoutes3, Fit
<1>4. Fit(Oid4vpRoutes4, M)
  <2>1. Fit(Org({OWNER}, Path, Each({"getVerificationSessionResponse"})), M)
    BY EachFits DEF Oid4vpMethods1
  <2>2. <<"oid4vpPresentationWebhook", "_getWebhookUrl", "_postWebhookResponse">> \in Seq(M)
    BY DEF Oid4vpMethods1
  <2>4. {<<"oid4vpPresentationWebhook", "_getWebhookUrl", "_postWebhookResponse">>} \in SUBSET Seq(M)
    BY <2>2
  <2>5. Fit(Open({<<"oid4vpPresentationWebhook", "_getWebhookUrl", "_postWebhookResponse">>}), M)
    BY <2>4, KindsFit
  <2> QED  BY <2>1, <2>5 DEF Oid4vpRoutes4, Fit
<1>5. Fit(Oid4vpRoutes5, M)
  <2>1. Fit(Org({OWNER}, Path, Each({"createVerificationTemplate", "getVerificationTemplates"})), M)
    BY EachFits DEF Oid4vpMethods1
  <2> QED  BY <2>1 DEF Oid4vpRoutes5, Fit
<1>6. Fit(Oid4vpRoutes6, M)
  <2>1. Fit(Org({OWNER}, Path, Each({"updateVerificationTemplate", "deleteVerificationTemplate",
        "verifyAuthorizationResponse"})), M)
    BY EachFits DEF Oid4vpMethods2
  <2> QED  BY <2>1 DEF Oid4vpRoutes6, Fit
<1> QED  BY <1>1, <1>2, <1>3, <1>4, <1>5, <1>6 DEF Fit

(* Five groups of routes that fit, together.                               *)
LEMMA FiveFit ==
  ASSUME NEW M, NEW A, NEW B, NEW C, NEW D, NEW E,
         Fit(A, M) /\ Fit(B, M) /\ Fit(C, M) /\ Fit(D, M) /\ Fit(E, M)
  PROVE  Fit(UNION {A, B, C, D, E}, M)
BY DEF Fit

LEMMA OrganizationRoutesFit ==
  Fit(OrganizationRoutes1 \cup OrganizationRoutes2 \cup OrganizationRoutes3 \cup OrganizationRoutes4 \cup
      OrganizationRoutes5 \cup OrganizationRoutes6, OrganizationMethods1 \cup OrganizationMethods2)
<1> DEFINE M == OrganizationMethods1 \cup OrganizationMethods2
<1>1. Fit(OrganizationRoutes1, M)
  <2>1. /\ Fit(Open(Each({"getOrgPofile", "getPublicOrganizations", "getPublicProfile"})), M)
        /\ Fit(Org(Admins, Path, Each({"getOrgRoles"})), M)
        /\ Fit(Org(Members \cup {SUPER_ADMIN}, Path, Each({"getOrganizationDashboard"})), M)
    BY EachFits DEF OrganizationMethods1, OrganizationMethods2
  <2> QED  BY <2>1 DEF OrganizationRoutes1, Fit
<1>2. Fit(OrganizationRoutes2, M)
  <2>1. /\ Fit(Org({OWNER}, Path, Each({"getOrganizationActivityCount"})), M)
        /\ Fit(Open(Each({"verifyInvitationPending"})), M)
        /\ Fit(Org(Members \cup {SUPER_ADMIN}, Path, Each({"getInvitationsByOrgId"})), M)
        /\ Fit(UserOnly(Each({"getOrganizations"})), M)
        /\ Fit(TrustService(Each({"getEcosystemIdsByTenantId"})), M)
    BY EachFits DEF OrganizationMethods1, OrganizationMethods2
  <2> QED  BY <2>1 DEF OrganizationRoutes2, Fit
<1>3. Fit(OrganizationRoutes3, M)
  <2>1. /\ Fit(Org(Members, Path, Each({"getOrganization", "fetchOrgCredentials"})), M)
        /\ Fit(Org((Members \ {VERIFIER}) \cup {HOLDER, SUPER_ADMIN}, Path, Each({"getOrgUsers"})), M)
        /\ Fit(Org(Members \ {VERIFIER}, Path, Each({"getDidList"})), M)
        /\ Fit(Subscribed(Each({"createOrganization"})), M)
    BY EachFits DEF OrganizationMethods1, OrganizationMethods2
  <2> QED  BY <2>1 DEF OrganizationRoutes3, Fit
<1>4. Fit(OrganizationRoutes4, M)
  <2>1. /\ Fit(Org(Members, Path, Each({"setPrimaryDid"})), M)
        /\ Fit(OrgUser({OWNER}, Path, Each({"createOrgCredentials"})), M)
        /\ Fit(Open(Each({"clientLoginCredentials"})), M)
        /\ Fit(Org({PLATFORM_ADMIN}, Free, Each({"registerOrgsMapUsers"})), M)
        /\ Fit(Org(Admins \cup {SUPER_ADMIN}, Path, Each({"createInvitation"})), M)
    BY EachFits DEF OrganizationMethods1, OrganizationMethods2
  <2> QED  BY <2>1, FiveFit, Zenon DEF OrganizationRoutes4
<1>5. Fit(OrganizationRoutes5, M)
  <2>1. /\ Fit(Org(Admins, Path, Each({"updateUserRoles"})), M)
        /\ Fit(OrgUser(Admins, Path, Each({"updateOrganization"})), M)
        /\ Fit(Org({OWNER}, Path, Each({"deleteOrganization"})), M)
        /\ Fit(SignedIn(Each({"deleteOrgClientCredentials"})), M)
    BY EachFits DEF OrganizationMethods1, OrganizationMethods2
  <2> QED  BY <2>1 DEF OrganizationRoutes5, Fit
<1>6. Fit(OrganizationRoutes6, M)
  <2>1. /\ Fit(Org(Admins, Path, Each({"deleteOrganizationInvitation"})), M)
        /\ Fit(Open(Each({"generateClientApiToken"})), M)
        /\ Fit(EcoAlways({ECOSYSTEM_LEAD, PLATFORM_ADMIN}, Path, Each({"getAllOrganizations"})), M)
    BY EachFits DEF OrganizationMethods2
  <2> QED  BY <2>1 DEF OrganizationRoutes6, Fit
<1> QED  BY <1>1, <1>2, <1>3, <1>4, <1>5, <1>6 DEF Fit

LEMMA PlatformRoutesFit ==
  Fit(PlatformRoutes1 \cup PlatformRoutes2 \cup PlatformRoutes3, PlatformMethods)
<1> DEFINE M == PlatformMethods
<1>1. Fit(PlatformRoutes1, M)
  <2>1. /\ Fit(SignedIn(Each({"getAllSchema", "getAllPlatformCredDefs", "getAllLedgers", "getNetworkUrl"})), M)
        /\ Fit(Open(Each({"getShorteningUrlById"})), M)
    BY EachFits DEF PlatformMethods
  <2> QED  BY <2>1 DEF PlatformRoutes1, Fit
<1>2. Fit(PlatformRoutes2, M)
  <2>1. /\ Fit(OrgFeature({PLATFORM_ADMIN}, Free, Each({"inviteUserToCreateEcosystem"})), M)
        /\ Fit(Org({PLATFORM_ADMIN}, Free, Each({"getInvitationsByUserId", "updateEcosystemConfig"})), M)
        /\ Fit(EcoAlways({}, Free, Each({"getEcosystemEnableStatus"})), M)
    BY EachFits DEF PlatformMethods
  <2>2. <<>> \in Seq(M)
    BY DEF PlatformMethods
  <2>4. {<<>>} \in SUBSET Seq(M)
    BY <2>2
  <2>5. Fit(Open({<<>>}), M)
    BY <2>4, KindsFit
  <2> QED  BY <2>1, <2>5 DEF PlatformRoutes2, Fit
<1>3. Fit(PlatformRoutes3, M)
  <2>1. Fit(EcoAlways({PLATFORM_ADMIN}, Free, Each({"getDashboardCountEcosystem"})), M)
    BY EachFits DEF PlatformMethods
  <2> QED  BY <2>1 DEF PlatformRoutes3, Fit
<1> QED  BY <1>1, <1>2, <1>3 DEF Fit

LEMMA SchemaRoutesFit ==
  Fit(SchemaRoutes1 \cup SchemaRoutes2, SchemaMethods \cup MarketplaceMethods)
<1> DEFINE M == SchemaMethods \cup MarketplaceMethods
<1>1. Fit(SchemaRoutes1, M)
  <2>1. Fit(Org(Members, Path, Each({"getSchemaById", "getcredDefListBySchemaId", "getSchemas"})), M)
    BY EachFits DEF SchemaMethods
  <2> QED  BY <2>1 DEF SchemaRoutes1, Fit
<1>2. Fit(SchemaRoutes2, M)
  <2>1. /\ Fit(SignedIn(Each({"updateSchema"})), M)
        /\ Fit(Org(Admins, Path, Each({"migrateSchema"})), M)
    BY EachFits DEF SchemaMethods, MarketplaceMethods
  <2>2. <<"createSchema", "recordUsageEvent">> \in Seq(M)
    BY DEF SchemaMethods, MarketplaceMethods
  <2>4. {<<"createSchema", "recordUsageEvent">>} \in SUBSET Seq(M)
    BY <2>2
  <2>5. Fit(Entitled(Admins, Path, "schemaCreate", {<<"createSchema", "recordUsageEvent">>}), M)
    BY <2>4, KindsFit
  <2> QED  BY <2>1, <2>5 DEF SchemaRoutes2, Fit
<1> QED  BY <1>1, <1>2 DEF Fit

LEMMA UserRoutesFit ==
  Fit(UserRoutes1 \cup UserRoutes2 \cup UserRoutes3, UserMethods)
<1> DEFINE M == UserMethods
<1>1. Fit(UserRoutes1, M)
  <2>1. /\ Fit(Open(Each({"get", "getPublicProfile"})), M)
        /\ Fit(UserOnly(Each({"getProfile", "getUserActivities"})), M)
        /\ Fit(OrgUser({PLATFORM_ADMIN}, Free, Each({"getPlatformSettings"})), M)
    BY EachFits DEF UserMethods
  <2> QED  BY <2>1 DEF UserRoutes1, Fit
<1>2. Fit(UserRoutes2, M)
  <2>1. /\ Fit(UserOnly(Each({"invitations", "acceptRejectInvitaion", "updateUserProfile"})), M)
        /\ Fit(Open(Each({"checkUserExist"})), M)
    BY EachFits DEF UserMethods
  <2> QED  BY <2>1 DEF UserRoutes2, Fit
<1>3. Fit(UserRoutes3, M)
  <2>1. /\ Fit(UserOnly(Each({"addPasskey"})), M)
        /\ Fit(OrgUser({PLATFORM_ADMIN}, Free, Each({"updatePlatformSettings"})), M)
    BY EachFits DEF UserMethods
  <2> QED  BY <2>1 DEF UserRoutes3, Fit
<1> QED  BY <1>1, <1>2, <1>3 DEF Fit

LEMMA UtilitiesRoutesFit ==
  Fit(UtilitiesRoutes, UtilitiesMethods)
<1> DEFINE M == UtilitiesMethods
<1>1. Fit(UtilitiesRoutes, M)
  <2>1. /\ Fit(Open(Each({"createShorteningUrl"})), M)
        /\ Fit(SignedIn(Each({"storeObject"})), M)
    BY EachFits DEF UtilitiesMethods
  <2> QED  BY <2>1 DEF UtilitiesRoutes, Fit
<1> QED  BY <1>1 DEF Fit

LEMMA VerificationRoutesFit ==
  Fit(VerificationRoutes1 \cup VerificationRoutes2 \cup VerificationRoutes3 \cup VerificationRoutes4 \cup
      VerificationRoutes5, VerificationMethods \cup MarketplaceMethods)
<1> DEFINE M == VerificationMethods \cup MarketplaceMethods
<1>1. Fit(VerificationRoutes1, M)
  <2>1. /\ Fit(Org(Members \cup {HOLDER}, Path, Each({"getVerifiedProofDetails", "getProofPresentationById"})), M)
        /\ Fit(Org(Verifiers, Path, Each({"getProofPresentationByThreadId"})), M)
        /\ Fit(SignedIn(Each({"getPresentationDetailsByIssuerId"})), M)
    BY EachFits DEF VerificationMethods
  <2> QED  BY <2>1 DEF VerificationRoutes1, Fit
<1>2. Fit(VerificationRoutes2, M)
  <2>1. /\ Fit(Org(Members \cup {HOLDER}, Path, Each({"getProofPresentations"})), M)
        /\ Fit(Entitled(Verifiers, Path, "verification", Each({"sendProofRequest"})), M)
    BY EachFits DEF VerificationMethods
  <2> QED  BY <2>1 DEF VerificationRoutes2, Fit
<1>3. Fit(VerificationRoutes3, M)
  <2>1. /\ Fit(Org(Verifiers, Path, Each({"sendProofRequest"})), M)
        /\ Fit(Entitled(Verifiers, Path, "verification", Each({"verifyPresentation",
           "sendOutOfBandPresentationRequest"})), M)
    BY EachFits DEF VerificationMethods
  <2> QED  BY <2>1 DEF VerificationRoutes3, Fit
<1>4. Fit(VerificationRoutes4, M)
  <2>1. Fit(Org(Admins, Path, Each({"setRedirectUris"})), M)
    BY EachFits DEF VerificationMethods, MarketplaceMethods
  <2>2. <<"webhookProofPresentation", "recordUsageEvent", "_getWebhookUrl", "_postWebhookResponse">> \in
        Seq(M)
    BY DEF VerificationMethods, MarketplaceMethods
  <2>4. {<<"webhookProofPresentation", "recordUsageEvent", "_getWebhookUrl", "_postWebhookResponse">>} \in
        SUBSET Seq(M)
    BY <2>2
  <2>5. Fit(Open({<<"webhookProofPresentation", "recordUsageEvent", "_getWebhookUrl",
        "_postWebhookResponse">>}), M)
    BY <2>4, KindsFit
  <2> QED  BY <2>1, <2>5 DEF VerificationRoutes4, Fit
<1>5. Fit(VerificationRoutes5, M)
  <2>1. /\ Fit(Org(Admins, Path, Each({"setRedirectUris"})), M)
        /\ Fit(Org(Verifiers, Path, Each({"getRedirectUris"})), M)
        /\ Fit(Open(Each({"getProofCallbackResult"})), M)
        /\ Fit(Org({OWNER}, Path, Each({"deleteVerificationRecords"})), M)
    BY EachFits DEF VerificationMethods
  <2> QED  BY <2>1 DEF VerificationRoutes5, Fit
<1> QED  BY <1>1, <1>2, <1>3, <1>4, <1>5 DEF Fit

LEMMA WebhookRoutesFit ==
  Fit(WebhookRoutes, WebhookMethods)
<1> DEFINE M == WebhookMethods
<1>1. Fit(WebhookRoutes, M)
  <2>1. /\ Fit(Org(Admins, Path, Each({"registerWebhook", "updateWebhook"})), M)
        /\ Fit(Org(Staff, Free, Each({"getWebhookUrl"})), M)
    BY EachFits DEF WebhookMethods
  <2> QED  BY <2>1 DEF WebhookRoutes, Fit
<1> QED  BY <1>1 DEF Fit

LEMMA X509RoutesFit ==
  Fit(X509Routes1 \cup X509Routes2, X509Methods)
<1> DEFINE M == X509Methods
<1>1. Fit(X509Routes1, M)
  <2>1. Fit(Org(Admins, Path, Each({"createX509", "activateX509", "deActivateX509",
        "getX509CertificatesByOrgId"})), M)
    BY EachFits DEF X509Methods
  <2> QED  BY <2>1 DEF X509Routes1, Fit
<1>2. Fit(X509Routes2, M)
  <2>1. Fit(Org(Admins, Path, Each({"getX509Certificate", "importX509"})), M)
    BY EachFits DEF X509Methods
  <2> QED  BY <2>1 DEF X509Routes2, Fit
<1> QED  BY <1>1, <1>2 DEF Fit

(* A method has one command, wherever its service is found among those of  *)
(* a controller.                                                           *)
LEMMA CommandHandled ==
  ASSUME NEW S, NEW m, \E t \in S : m \in DOMAIN t,
         \A t \in S : m \in DOMAIN t => t[m] \in Handled
  PROVE Command(S, m) \in Handled
<1> DEFINE t == CHOOSE t \in S : m \in DOMAIN t
<1>1. t \in S /\ m \in DOMAIN t
  OBVIOUS
<1> QED  BY <1>1 DEF Command

(* Routes whose methods are all answered send commands with a listener     *)
(* only.                                                                   *)
LEMMA InFits ==
  ASSUME NEW S, NEW R, NEW M, Fit(R, M),
         \A m \in M : \E t \in S : m \in DOMAIN t,
         \A t \in S : \A m \in M : m \in DOMAIN t => t[m] \in Handled
  PROVE Fit(In(S, R), Handled)
<1>1. \A m \in M : Command(S, m) \in Handled
  BY CommandHandled
<1>2. SUFFICES ASSUME NEW r \in R, NEW n, n = [r EXCEPT !.calls = [i \in DOMAIN r.calls |-> Command(S, r.calls[i])]]
               PROVE /\ n.guards \in Orders /\ n.calls \in Seq(Handled)
                     /\ n = [guards |-> n.guards, roles |-> n.roles, where |-> n.where, feature |-> n.feature,
                             calls |-> n.calls]
  BY DEF In, Fit
<1> DEFINE cs == [i \in DOMAIN r.calls |-> Command(S, r.calls[i])]
<1>3. /\ r.guards \in Orders /\ r.calls \in Seq(M)
      /\ r = [guards |-> r.guards, roles |-> r.roles, where |-> r.where, feature |-> r.feature, calls |-> r.calls]
  BY DEF Fit
<1>4. cs \in Seq(Handled)
  BY <1>1, <1>3
<1> HIDE DEF cs
<1>5. n = [guards |-> r.guards, roles |-> r.roles, where |-> r.where, feature |-> r.feature, calls |-> cs]
  BY <1>2, <1>3 DEF cs
<1> QED  BY <1>3, <1>4, <1>5

(* Every route of the gateway has its guards in one of the orders, and     *)
(* sends only commands some service listens for.                           *)
LEMMA RoutesFit == Fit(Routes, Handled)
<1> DEFINE R1 == In({AgentServiceCommands}, AgentServiceRoutes1 \cup AgentServiceRoutes2 \cup
        AgentServiceRoutes3 \cup AgentServiceRoutes4)
<1> DEFINE R2 == In({AuthzCommands, OrganizationCommands1, OrganizationCommands2}, AuthzRoutes1 \cup
        AuthzRoutes2 \cup AuthzRoutes3 \cup AuthzRoutes4)
<1> DEFINE R3 == In({CloudWalletCommands1, CloudWalletCommands2}, CloudWalletRoutes1 \cup CloudWalletRoutes2
        \cup CloudWalletRoutes3 \cup CloudWalletRoutes4 \cup CloudWalletRoutes5 \cup CloudWalletRoutes6 \cup
        CloudWalletRoutes7 \cup CloudWalletRoutes8)
<1> DEFINE R4 == In({ConnectionCommands}, ConnectionRoutes1 \cup ConnectionRoutes2 \cup ConnectionRoutes3
        \cup ConnectionRoutes4)
<1> DEFINE R5 == In({CredDefCommands}, CredDefRoutes)
<1> DEFINE R6 == In({EcosystemCommands1, EcosystemCommands2}, EcosystemRoutes1 \cup EcosystemRoutes2 \cup
        EcosystemRoutes3 \cup EcosystemRoutes4)
<1> DEFINE R7 == In({EcosystemCommands1, EcosystemCommands2}, IntentRoutes1 \cup IntentRoutes2 \cup
        IntentRoutes3 \cup IntentRoutes4 \cup IntentRoutes5 \cup IntentRoutes6)
<1> DEFINE R8 == In({FidoCommands}, FidoRoutes1 \cup FidoRoutes2)
<1> DEFINE R9 == In({GeoCommands}, GeoRoutes)
<1> DEFINE R10 == In({IssuanceCommands1, IssuanceCommands2, MarketplaceCommands}, IssuanceRoutes1 \cup
        IssuanceRoutes2 \cup IssuanceRoutes3 \cup IssuanceRoutes4 \cup IssuanceRoutes5 \cup IssuanceRoutes6
        \cup IssuanceRoutes7)
<1> DEFINE R11 == In({MarketplaceCommands}, MarketplaceRoutes)
<1> DEFINE R12 == In({NotificationCommands}, NotificationRoutes)
<1> DEFINE R13 == In({Oid4vcIssuanceCommands}, Oid4vcIssuanceRoutes1 \cup Oid4vcIssuanceRoutes2 \cup
        Oid4vcIssuanceRoutes3 \cup Oid4vcIssuanceRoutes4 \cup Oid4vcIssuanceRoutes5)
<1> DEFINE R14 == In({Oid4vpCommands1, Oid4vpCommands2}, Oid4vpRoutes1 \cup Oid4vpRoutes2 \cup Oid4vpRoutes3
        \cup Oid4vpRoutes4 \cup Oid4vpRoutes5 \cup Oid4vpRoutes6)
<1> DEFINE R15 == In({OrganizationCommands1, OrganizationCommands2}, OrganizationRoutes1 \cup
        OrganizationRoutes2 \cup OrganizationRoutes3 \cup OrganizationRoutes4 \cup OrganizationRoutes5 \cup
        OrganizationRoutes6)
<1> DEFINE R16 == In({PlatformCommands}, PlatformRoutes1 \cup PlatformRoutes2 \cup PlatformRoutes3)
<1> DEFINE R17 == In({SchemaCommands, MarketplaceCommands}, SchemaRoutes1 \cup SchemaRoutes2)
<1> DEFINE R18 == In({UserCommands}, UserRoutes1 \cup UserRoutes2 \cup UserRoutes3)
<1> DEFINE R19 == In({UtilitiesCommands}, UtilitiesRoutes)
<1> DEFINE R20 == In({VerificationCommands, MarketplaceCommands}, VerificationRoutes1 \cup
        VerificationRoutes2 \cup VerificationRoutes3 \cup VerificationRoutes4 \cup VerificationRoutes5)
<1> DEFINE R21 == In({WebhookCommands}, WebhookRoutes)
<1> DEFINE R22 == In({X509Commands}, X509Routes1 \cup X509Routes2)
<1>1. Fit(R1, Handled)
  BY AgentServiceRoutesFit, AgentServiceAnswered, InFits
<1>2. Fit(R2, Handled)
  <2>1. "getUserByKeycloakUserId" \notin AuthzMethods \cup OrganizationMethods1 \cup OrganizationMethods2
    BY DEF AuthzMethods, OrganizationMethods1, OrganizationMethods2
  <2> QED  BY <2>1, AuthzRoutesFit, AuthzAnswered, OrganizationAnswered1, OrganizationAnswered2, InFits
<1>3. Fit(R3, Handled)
  BY CloudWalletRoutesFit, CloudWalletAnswered1, CloudWalletAnswered2, InFits
<1>4. Fit(R4, Handled)
  BY ConnectionRoutesFit, ConnectionAnswered, InFits
<1>5. Fit(R5, Handled)
  BY CredDefRoutesFit, CredDefAnswered, InFits
<1>6. Fit(R6, Handled)
  BY EcosystemRoutesFit, EcosystemAnswered1, EcosystemAnswered2, InFits
<1>7. Fit(R7, Handled)
  BY IntentRoutesFit, EcosystemAnswered1, EcosystemAnswered2, InFits
<1>8. Fit(R8, Handled)
  BY FidoRoutesFit, FidoAnswered, InFits
<1>9. Fit(R9, Handled)
  BY GeoRoutesFit, GeoAnswered, InFits
<1>10. Fit(R10, Handled)
  BY IssuanceRoutesFit, IssuanceAnswered1, IssuanceAnswered2, MarketplaceAnswered, InFits
<1>11. Fit(R11, Handled)
  BY MarketplaceRoutesFit, MarketplaceAnswered, InFits
<1>12. Fit(R12, Handled)
  BY NotificationRoutesFit, NotificationAnswered, InFits
<1>13. Fit(R13, Handled)
  BY Oid4vcIssuanceRoutesFit, Oid4vcIssuanceAnswered, InFits
<1>14. Fit(R14, Handled)
  BY Oid4vpRoutesFit, Oid4vpAnswered1, Oid4vpAnswered2, InFits
<1>15. Fit(R15, Handled)
  BY OrganizationRoutesFit, OrganizationAnswered1, OrganizationAnswered2, InFits
<1>16. Fit(R16, Handled)
  BY PlatformRoutesFit, PlatformAnswered, InFits
<1>17. Fit(R17, Handled)
  BY SchemaRoutesFit, SchemaAnswered, MarketplaceAnswered, InFits
<1>18. Fit(R18, Handled)
  BY UserRoutesFit, UserAnswered, InFits
<1>19. Fit(R19, Handled)
  BY UtilitiesRoutesFit, UtilitiesAnswered, InFits
<1>20. Fit(R20, Handled)
  BY VerificationRoutesFit, VerificationAnswered, MarketplaceAnswered, InFits
<1>21. Fit(R21, Handled)
  BY WebhookRoutesFit, WebhookAnswered, InFits
<1>22. Fit(R22, Handled)
  BY X509RoutesFit, X509Answered, InFits
<1>23. Routes = R1 \cup R2 \cup R3 \cup R4 \cup R5 \cup R6 \cup R7 \cup R8 \cup R9 \cup R10 \cup R11 \cup
        R12 \cup R13 \cup R14 \cup R15 \cup R16 \cup R17 \cup R18 \cup R19 \cup R20 \cup R21 \cup R22
  BY DEF Routes
<1> HIDE DEF R1, R2, R3, R4, R5, R6, R7, R8, R9, R10, R11, R12, R13, R14, R15, R16, R17, R18, R19, R20, R21,
         R22
<1> QED  BY <1>1, <1>2, <1>3, <1>4, <1>5, <1>6, <1>7, <1>8, <1>9, <1>10, <1>11, <1>12, <1>13, <1>14, <1>15,
        <1>16, <1>17, <1>18, <1>19, <1>20, <1>21, <1>22, <1>23 DEF Fit

(* The order of the guards. Roles are looked at only once the user behind  *)
(* the token is known, that lookup comes before everything that rests on   *)
(* it, and entitlements are looked at only once the role is known.         *)
GuardNames == {"cookie", "session", "user", "org", "ecosystem", "person", "holder", "client", "trust", "feature",
               "subscription", "entitlement"}
Ordered(gs) ==
  /\ gs \in Seq(GuardNames)
  /\ \A i \in 1..Len(gs) :
       /\ gs[i] \in {"org", "person"} => \E j \in 1..(i - 1) : gs[j] = "user"
       /\ gs[i] = "user" => \A j \in 1..(i - 1) : gs[j] \notin {"org", "entitlement"}
       /\ gs[i] = "entitlement" => \E j \in 1..(i - 1) : gs[j] = "org"

LEMMA Tuples ==
  ASSUME NEW S
  PROVE /\ \A x \in S : <<x>> \in Seq(S) /\ Len(<<x>>) = 1 /\ <<x>>[1] = x
        /\ \A x, y \in S : <<x, y>> \in Seq(S) /\ Len(<<x, y>>) = 2 /\ <<x, y>>[1] = x /\ <<x, y>>[2] = y
OBVIOUS

LEMMA Appended ==
  ASSUME NEW S, NEW s \in Seq(S), NEW t \in Seq(S)
  PROVE  /\ s \o t \in Seq(S) /\ Len(s \o t) = Len(s) + Len(t)
         /\ \A i \in 1..Len(s) : (s \o t)[i] = s[i]
         /\ \A i \in 1..Len(t) : (s \o t)[Len(s) + i] = t[i]
OBVIOUS

LEMMA JwtPart ==
  Jwt \in Seq(GuardNames) /\ Len(Jwt) = 2 /\ Jwt[1] = "session" /\ Jwt[2] = "user"
<1>1. "session" \in GuardNames /\ "user" \in GuardNames
  BY DEF GuardNames
<1> QED BY <1>1, Tuples DEF Jwt

LEMMA OrderedJwt ==
  ASSUME NEW s \in Seq(GuardNames), Len(s) <= 2,
         Len(s) > 0 => s[1] \notin {"user", "entitlement"},
         Len(s) > 1 => s[2] # "user" /\ (s[2] = "entitlement" => s[1] = "org")
  PROVE Ordered(Jwt \o s)
<1> DEFINE gs == Jwt \o s
<1>1. gs \in Seq(GuardNames) /\ Len(gs) = 2 + Len(s) /\ gs[1] = "session" /\ gs[2] = "user"
      /\ \A i \in 1..Len(s) : gs[2 + i] = s[i]
  BY JwtPart, Appended
<1>2. /\ Len(gs) > 2 => gs[3] \notin {"user", "entitlement"}
      /\ Len(gs) > 3 => gs[4] # "user" /\ (gs[4] = "entitlement" => gs[3] = "org")
  BY <1>1
<1> HIDE DEF gs
<1>3. \A i \in 1..Len(gs) : i \in {1, 2, 3, 4}
  BY <1>1
<1>4. ASSUME NEW i \in 1..Len(gs)
      PROVE  /\ gs[i] \in {"org", "person"} => \E j \in 1..(i - 1) : gs[j] = "user"
             /\ gs[i] = "user" => \A j \in 1..(i - 1) : gs[j] \notin {"org", "entitlement"}
             /\ gs[i] = "entitlement" => \E j \in 1..(i - 1) : gs[j] = "org"
  <2>1. gs[i] \in {"org", "person"} => i > 2
    BY <1>1, <1>3
  <2>2. gs[i] = "user" => i = 2
    BY <1>1, <1>2, <1>3
  <2>3. gs[i] = "entitlement" => i = 4
    BY <1>1, <1>2, <1>3
  <2>4. i > 2 => 2 \in 1..(i - 1)
    OBVIOUS
  <2>5. i = 2 => \A j \in 1..(i - 1) : j = 1
    OBVIOUS
  <2>6. i = 4 => 3 \in 1..(i - 1)
    OBVIOUS
  <2> QED BY <1>1, <1>2, <2>1, <2>2, <2>3, <2>4, <2>5, <2>6
<1> QED BY <1>1, <1>4 DEF Ordered, gs

LEMMA OrderedFeature ==
  ASSUME NEW f \in Seq(GuardNames), Len(f) = 1, f[1] = "feature",
         NEW s \in Seq(GuardNames), Len(s) <= 1, Len(s) = 1 => s[1] = "ecosystem"
  PROVE  Ordered(f \o Jwt \o s)
<1> DEFINE fs == f \o Jwt
           gs == fs \o s
<1>1. /\ fs \in Seq(GuardNames) /\ Len(fs) = 3 /\ fs[1] = "feature" /\ fs[2] = "session" /\ fs[3] = "user"
  <2>1. Len(fs) = Len(f) + Len(Jwt) /\ fs \in Seq(GuardNames)
    BY JwtPart, Appended
  <2>2. \A i \in 1..Len(f) : fs[i] = f[i]
    BY JwtPart, Appended
  <2>3. \A i \in 1..Len(Jwt) : fs[Len(f) + i] = Jwt[i]
    BY JwtPart, Appended
  <2> HIDE DEF fs
  <2>4. fs[1] = f[1] /\ fs[1 + 1] = Jwt[1] /\ fs[1 + 2] = Jwt[2]
    BY <2>2, <2>3, JwtPart
  <2> QED  BY <2>1, <2>4, JwtPart
<1> HIDE DEF fs
<1>2. /\ gs \in Seq(GuardNames) /\ Len(gs) = 3 + Len(s) /\ gs[1] = "feature" /\ gs[2] = "session" /\ gs[3] = "user"
      /\ Len(s) = 1 => gs[4] = "ecosystem"
  <2>1. Len(gs) = Len(fs) + Len(s) /\ gs \in Seq(GuardNames)
    BY <1>1, Appended
  <2>0. fs \in Seq(GuardNames)
    BY <1>1
  <2>2. \A i \in 1..Len(fs) : gs[i] = fs[i]
    BY <2>0, Appended, Zenon
  <2>3. \A i \in 1..Len(s) : gs[Len(fs) + i] = s[i]
    BY <2>0, Appended
  <2> HIDE DEF gs
  <2>4. gs[1] = fs[1] /\ gs[2] = fs[2] /\ gs[3] = fs[3] /\ (Len(s) = 1 => gs[3 + 1] = s[1])
    BY <1>1, <2>2, <2>3
  <2> QED  BY <1>1, <2>1, <2>4
<1> HIDE DEF gs
<1>3. \A i \in 1..Len(gs) : i \in {1, 2, 3, 4} /\ (i = 4 => Len(s) = 1)
  BY <1>2
<1>4. \A i \in 1..Len(gs) : gs[i] \notin {"org", "person", "entitlement"}
  BY <1>2, <1>3
<1>5. \A i \in 1..Len(gs) : \A j \in 1..(i - 1) : j \in 1..Len(gs)
  BY <1>2
<1> QED  BY <1>2, <1>4, <1>5 DEF Ordered, gs, fs

(* Every sequence of guards the routes have is ordered so.                 *)
LEMMA GuardsOrdered == \A gs \in Orders : Ordered(gs)
<1>1. Ordered(<<>>)
  BY DEF Ordered
<1>2. Ordered(<<"cookie">>)
  <2>1. "cookie" \in GuardNames
    BY DEF GuardNames
  <2>2. <<"cookie">> \in Seq(GuardNames) /\ Len(<<"cookie">>) = 1 /\ <<"cookie">>[1] = "cookie"
    BY <2>1, Tuples
  <2> QED  BY <2>2 DEF Ordered
<1> DEFINE none == <<>>
<1>3. none \in Seq(GuardNames) /\ Len(none) = 0
  OBVIOUS
<1>4. ASSUME NEW x \in GuardNames, x \notin {"user", "entitlement"}
      PROVE  Ordered(Jwt \o <<x>>)
  <2> DEFINE s == <<x>>
  <2>1. s \in Seq(GuardNames) /\ Len(s) = 1 /\ s[1] = x
    BY Tuples
  <2> HIDE DEF s
  <2>2. Len(s) <= 2 /\ (Len(s) > 0 => s[1] \notin {"user", "entitlement"}) /\ ~(Len(s) > 1)
    BY <1>4, <2>1
  <2>3. Ordered(Jwt \o s)
    BY <2>1, <2>2, OrderedJwt
  <2> QED  BY <2>3 DEF s
<1>5. ASSUME NEW x \in GuardNames, x \notin {"user", "entitlement"}, NEW y \in GuardNames, y # "user",
             y = "entitlement" => x = "org"
      PROVE  Ordered(Jwt \o <<x, y>>)
  <2> DEFINE s == <<x, y>>
  <2>1. s \in Seq(GuardNames) /\ Len(s) = 2 /\ s[1] = x /\ s[2] = y
    BY Tuples
  <2> HIDE DEF s
  <2>2. /\ Len(s) <= 2 /\ s[1] \notin {"user", "entitlement"} /\ s[2] # "user"
        /\ s[2] = "entitlement" => s[1] = "org"
    BY <1>5, <2>1
  <2>3. Ordered(Jwt \o s)
    BY <2>1, <2>2, OrderedJwt
  <2> QED  BY <2>3 DEF s
<1>6. Ordered(Jwt)
  <2>1. Jwt \o none = Jwt
    BY JwtPart
  <2> HIDE DEF none
  <2>2. Len(none) <= 2 /\ ~(Len(none) > 0) /\ ~(Len(none) > 1)
    BY <1>3
  <2>3. Ordered(Jwt \o none)
    BY <1>3, <2>2, OrderedJwt
  <2> QED  BY <2>1, <2>3
<1>7. Ordered(<<"feature">> \o Jwt) /\ Ordered(<<"feature">> \o Jwt \o <<"ecosystem">>)
  <2> DEFINE f == <<"feature">>
             s == <<"ecosystem">>
  <2>1. "ecosystem" \in GuardNames /\ "feature" \in GuardNames
    BY DEF GuardNames
  <2>2. f \in Seq(GuardNames) /\ Len(f) = 1 /\ f[1] = "feature"
    BY <2>1, Tuples
  <2>3. s \in Seq(GuardNames) /\ Len(s) = 1 /\ s[1] = "ecosystem"
    BY <2>1, Tuples
  <2> HIDE DEF f, s
  <2>4. f \o Jwt \in Seq(GuardNames)
    BY <2>2, JwtPart
  <2>5. (f \o Jwt) \o none = f \o Jwt
    BY <2>4
  <2> HIDE DEF none
  <2>6. Len(none) <= 1 /\ Len(none) # 1 /\ Len(s) <= 1
    BY <1>3, <2>3
  <2>7. Ordered(f \o Jwt \o none) /\ Ordered(f \o Jwt \o s)
    BY <1>3, <2>2, <2>3, <2>6, OrderedFeature
  <2> QED  BY <2>5, <2>7 DEF f, s
<1>8. /\ Ordered(Jwt \o <<"holder">>) /\ Ordered(Jwt \o <<"person">>) /\ Ordered(Jwt \o <<"client">>)
      /\ Ordered(Jwt \o <<"trust">>) /\ Ordered(Jwt \o <<"org">>) /\ Ordered(Jwt \o <<"ecosystem">>)
  BY <1>4 DEF GuardNames
<1>9. /\ Ordered(Jwt \o <<"person", "subscription">>) /\ Ordered(Jwt \o <<"org", "person">>)
      /\ Ordered(Jwt \o <<"org", "feature">>) /\ Ordered(Jwt \o <<"org", "entitlement">>)
  BY <1>5 DEF GuardNames
<1> QED  BY <1>1, <1>2, <1>6, <1>7, <1>8, <1>9 DEF Orders

-----------------------------------------------------------------------------
(***************************************************************************)
(* Requests. A request passes the guards of its route one by one while     *)
(* sessions, roles, the switch and the plans change. The inductive         *)
(* invariant says of every request what the guards passed so far made sure *)
(* of, and that nothing that holds now is news to it.                      *)
(***************************************************************************)
AllRoles == Members \cup {PLATFORM_ADMIN}
Caller(t) == IF t.kind = "user" THEN t.sub ELSE "no org"
RolesHeld(c, rs, q) == IF Caller(q.tok) \in c.users /\ q.org \in c.orgs THEN rs[Caller(q.tok)][q.org] ELSE {}
Administers(c, q) == \E o \in c.orgs : PLATFORM_ADMIN \in q.who.roles[o]

(* A request has these fields, of these types.                             *)
WholeRequest(q) ==
  q = [id |-> q.id, tok |-> q.tok, route |-> q.route, org |-> q.org, todo |-> q.todo, calls |-> q.calls,
       who |-> q.who, ever |-> q.ever, on |-> q.on, allowed |-> q.allowed, live |-> q.live]

RequestOf(c, q) ==
  /\ WholeRequest(q)
  /\ q.id \in Nat /\ q.route \in c.offered /\ q.org \in c.orgs \cup {"no org"}
  /\ q.tok.kind = "user" => q.tok.sub \in c.users /\ q.tok.sid \in Nat
  /\ q.todo \in Seq(GuardNames) /\ q.calls \in Seq(Handled)
  /\ q.who.holder \in BOOLEAN /\ q.on \in BOOLEAN /\ q.live \in BOOLEAN
  /\ q.ever \subseteq AllRoles

(* What is left to do of the guards is the end of the route's guards; what *)
(* came before has been passed.                                            *)
Done(q) == Len(q.route.guards) - Len(q.todo)
Past(q, g) == \E i \in 1..Done(q) : q.route.guards[i] = g
Rest(q) == Done(q) \in Nat /\ \A i \in 1..Len(q.todo) : q.todo[i] = q.route.guards[Done(q) + i]

(* What the guards that were passed made sure of. It depends on the        *)
(* request alone.                                                          *)
Passed(c, q) ==
  /\ q.who.holder => Caller(q.tok) \in c.holders
  /\ q.tok.kind = "user" /\ q.org \in c.orgs =>
       q.tok.claims[q.org] \subseteq q.tok.held[q.org] /\ q.who.roles[q.org] \subseteq q.ever
  /\ Past(q, "session") => q.live
  /\ Past(q, "user") => (q.who.holder <=> Caller(q.tok) \in c.holders)
  /\ Past(q, "org") \/ Past(q, "person") => Caller(q.tok) \notin c.holders
  /\ Past(q, "holder") => Caller(q.tok) \in c.holders
  /\ Past(q, "org") /\ q.org \in c.orgs /\ q.tok.kind = "user" =>
       q.route.roles \cap (q.ever \cup q.tok.held[q.org]) # {}
  /\ Past(q, "org") /\ q.org \notin c.orgs => Administers(c, q)
  /\ Past(q, "feature") => q.on
  /\ Past(q, "entitlement") /\ c.marketplaceEnabled /\ c.marketplaceRequired /\ ~Administers(c, q) =>
       q.route.feature \in q.allowed

(* What relates a request to this moment: everything true now of its       *)
(* subject, of the plan and of the switch is recorded in it, and a session *)
(* that had ended when it arrived has not come back.                       *)
Current(c, q) ==
  /\ RolesHeld(c, orgRoles, q) \subseteq q.ever
  /\ enabled => q.on
  /\ q.org \in c.orgs => plan[q.org] \subseteq q.allowed
  /\ IF q.tok.kind = "user" THEN q.tok.sid < count.tokens /\ (q.live \/ q.tok.sid \notin sessions) ELSE q.live
  /\ q.id < count.requests

Fine(c, q) == RequestOf(c, q) /\ Rest(q) /\ Passed(c, q) /\ Current(c, q)
(* Tokens: no session number is used twice, and the roles a token claims   *)
(* were held when it was issued.                                           *)
TokenOf(c, t) ==
  /\ t.kind \in {"user", "client", "service"}
  /\ t.kind = "user" => t.sub \in c.users /\ t.sid \in Nat /\ t.sid < count.tokens
  /\ \A o \in c.orgs : t.claims[o] \subseteq t.held[o]

GateTypes(c) ==
  /\ orgRoles \in [c.users -> [c.orgs -> SUBSET AllRoles]]
  /\ eco \in [c.users -> SUBSET {ECOSYSTEM_LEAD, ECOSYSTEM_MEMBER}] /\ sessions \subseteq 0..c.maxTokens
  /\ enabled \in BOOLEAN /\ marketUp \in BOOLEAN
  /\ plan \in [c.orgs -> {Gate(c)!Features, {}}]
  /\ used \in [c.orgs -> [Gate(c)!Dimensions -> Nat]]
  /\ count \in [tokens : Nat, requests : Nat, changes : Nat, faults : Nat]

(* The inductive invariant of an instance.                                 *)
GateIInv(c) ==
  /\ GateTypes(c) /\ unanswered = {}
  /\ \A t \in tokens : TokenOf(c, t)
  /\ \A q \in reqs : Fine(c, q)
  /\ \A q, p \in reqs : q.id = p.id => q = p

(* What the operators of an instance stand for.                            *)
LEMMA GateUnfolded ==
  ASSUME NEW c
  PROVE /\ Gate(c)!Members \cup {Gate(c)!PLATFORM_ADMIN} = AllRoles
        /\ Gate(c)!NoOrg = "no org" /\ Gate(c)!NoToken = [kind |-> "none"]
        /\ \A t : Gate(c)!Subject(t) = Caller(t)
        /\ \A rs, q : Gate(c)!Has(rs, q) = RolesHeld(c, rs, q)
        /\ \A q : Gate(c)!IsPlatformAdmin(q) <=> Administers(c, q)
BY DEF Gate!Members, Gate!Staff, Gate!Admins, Gate!PLATFORM_ADMIN, Gate!OWNER, Gate!ADMIN, Gate!ISSUER, Gate!VERIFIER,
   Gate!MEMBER, Members, Staff, Admins, PLATFORM_ADMIN, OWNER, ADMIN, ISSUER, VERIFIER, MEMBER, AllRoles,
   Gate!NoOrg, Gate!NoToken, Gate!Subject, Caller, Gate!Has, RolesHeld, Gate!IsPlatformAdmin, Administers

(* The tail of a suffix is a suffix that starts one place later.           *)
LEMMA SuffixTail ==
  ASSUME NEW S, NEW gs \in Seq(S), NEW s \in Seq(S), s # <<>>, Len(gs) - Len(s) \in Nat,
         \A i \in 1..Len(s) : s[i] = gs[Len(gs) - Len(s) + i]
  PROVE  /\ Tail(s) \in Seq(S) /\ Len(gs) - Len(Tail(s)) = (Len(gs) - Len(s)) + 1
         /\ (Len(gs) - Len(s)) + 1 \in 1..Len(gs) /\ Head(s) = gs[(Len(gs) - Len(s)) + 1]
         /\ \A i \in 1..Len(Tail(s)) : Tail(s)[i] = gs[((Len(gs) - Len(s)) + 1) + i]
<1>1. Tail(s) \in Seq(S) /\ Len(Tail(s)) = Len(s) - 1 /\ Len(s) \in Nat /\ Len(s) >= 1 /\ Len(gs) \in Nat
      /\ \A i \in 1..Len(Tail(s)) : Tail(s)[i] = s[i + 1]
  OBVIOUS
<1>2. Head(s) = s[1]
  OBVIOUS
<1>3. ASSUME NEW i \in 1..Len(Tail(s))
      PROVE  Tail(s)[i] = gs[((Len(gs) - Len(s)) + 1) + i]
  <2>1. i + 1 \in 1..Len(s) /\ (Len(gs) - Len(s)) + (i + 1) = ((Len(gs) - Len(s)) + 1) + i
    BY <1>1
  <2>2. Tail(s)[i] = s[i + 1]
    BY <1>1
  <2> QED  BY <2>1, <2>2
<1>4. 1 \in 1..Len(s) /\ (Len(gs) - Len(s)) + 1 \in 1..Len(gs)
  BY <1>1
<1> QED  BY <1>1, <1>2, <1>3, <1>4

LEMMA Upto == \A d \in Nat : \A i : i \in 1..(d + 1) <=> i \in 1..d \/ i = d + 1
OBVIOUS

(* Passing a guard adds that guard, and no other, to those passed.         *)
LEMMA GuardPassed ==
  ASSUME NEW q, q.todo \in Seq(GuardNames), q.route.guards \in Seq(GuardNames), Rest(q), q.todo # <<>>,
         NEW n, n.route = q.route, n.todo = Tail(q.todo)
  PROVE  /\ n.todo \in Seq(GuardNames) /\ Rest(n)
         /\ Done(q) + 1 \in 1..Len(q.route.guards) /\ Head(q.todo) = q.route.guards[Done(q) + 1]
         /\ \A h : Past(n, h) <=> Past(q, h) \/ h = Head(q.todo)
<1> DEFINE s == q.todo
           gs == q.route.guards
           d == Len(gs) - Len(s)
<1>1. /\ s \in Seq(GuardNames) /\ gs \in Seq(GuardNames) /\ s # <<>> /\ d \in Nat
      /\ \A i \in 1..Len(s) : s[i] = gs[d + i]
  BY DEF Done, Rest
<1>2. Done(q) = d /\ n.todo = Tail(s) /\ n.route.guards = gs
  BY DEF Done
<1> HIDE DEF s, gs
<1>3. /\ Tail(s) \in Seq(GuardNames) /\ Len(gs) - Len(Tail(s)) = d + 1
      /\ d + 1 \in 1..Len(gs) /\ Head(s) = gs[d + 1]
      /\ \A i \in 1..Len(Tail(s)) : Tail(s)[i] = gs[(d + 1) + i]
  BY <1>1, SuffixTail
<1> HIDE DEF d
<1>4. Done(n) = Done(q) + 1 /\ Done(q) \in Nat
  BY <1>1, <1>2, <1>3 DEF Done
<1>5. \A i \in 1..Len(n.todo) : n.todo[i] = q.route.guards[(Done(q) + 1) + i]
  BY <1>2, <1>3 DEF s, gs
<1>6. /\ n.todo \in Seq(GuardNames)
      /\ Done(q) + 1 \in 1..Len(q.route.guards) /\ Head(q.todo) = q.route.guards[Done(q) + 1]
  BY <1>2, <1>3 DEF s, gs
<1>7. ASSUME NEW h PROVE Past(n, h) <=> Past(q, h) \/ h = Head(q.todo)
  <2>1. \A i : i \in 1..(Done(q) + 1) <=> i \in 1..Done(q) \/ i = Done(q) + 1
    BY <1>4, Upto
  <2> QED  BY <1>4, <1>6, <2>1 DEF Past
<1>8. Rest(n)
  <2>1. Done(n) \in Nat
    BY <1>4
  <2> QED  BY <1>4, <1>5, <2>1 DEF Rest
<1> QED  BY <1>6, <1>7, <1>8

(* What a guard that lets a request pass has seen.                         *)
LEMMA GuardsUnfolded ==
  ASSUME NEW c, NEW q, NEW g, Gate(c)!Passes(g, q)
  PROVE  /\ g = "session" => q.tok.kind # "none" /\ (q.tok.kind = "user" => q.tok.sid \in sessions)
         /\ g = "org" => /\ ~q.who.holder
                         /\ IF q.org \in c.orgs
                            THEN q.route.roles \cap (IF q.tok.claims[q.org] # {} THEN q.tok.claims[q.org]
                                                     ELSE q.who.roles[q.org]) # {}
                            ELSE Administers(c, q)
         /\ g = "person" => ~q.who.holder
         /\ g = "holder" => q.who.holder
         /\ g = "feature" => enabled
         /\ g = "entitlement" => \/ ~c.marketplaceEnabled \/ ~c.marketplaceRequired \/ Administers(c, q)
                                 \/ q.org \notin c.orgs \/ q.route.feature \in plan[q.org]
<1>1. CASE g = "session"
  BY <1>1 DEF Gate!Passes, Gate!CheckSession
<1>2. CASE g = "org"
  BY <1>2, GateUnfolded DEF Gate!Passes, Gate!OrgRolesGuard, Gate!RolesInOrg
<1>3. CASE g = "person"
  BY <1>3 DEF Gate!Passes, Gate!UserAccessGuard
<1>4. CASE g = "holder"
  BY <1>4 DEF Gate!Passes, Gate!UserRoleGuard
<1>5. CASE g = "feature"
  BY <1>5 DEF Gate!Passes, Gate!EcosystemFeatureGuard
<1>6. CASE g = "entitlement"
  BY <1>6, GateUnfolded DEF Gate!Passes, Gate!MarketplaceEntitlementGuard, Gate!Entitlements
<1> QED  BY <1>1, <1>2, <1>3, <1>4, <1>5, <1>6

(* What is assumed of an instance.                                         *)
GateOf(c) == Gate(c)!GatewayAssumption /\ c.offered \subseteq Routes

LEMMA GateUsers ==
  ASSUME NEW c, GateOf(c)
  PROVE  c.holders \subseteq c.users /\ "no org" \notin c.users /\ "no org" \notin c.orgs
BY GateUnfolded DEF GateOf, Gate!GatewayAssumption

(* What was passed before the guard whose turn it is.                      *)
LEMMA GuardInOrder ==
  ASSUME NEW c, GateOf(c), NEW q, RequestOf(c, q), Rest(q), q.todo # <<>>
  PROVE  /\ q.route.guards \in Seq(GuardNames)
         /\ Head(q.todo) \in {"org", "person"} => Past(q, "user")
         /\ Head(q.todo) = "user" => ~Past(q, "org") /\ ~Past(q, "entitlement")
         /\ Head(q.todo) = "entitlement" => Past(q, "org")
<1>1. q.route.guards \in Orders
  BY RoutesFit DEF GateOf, RequestOf, Fit
<1>2. Ordered(q.route.guards)
  BY <1>1, GuardsOrdered
<1>3. q.route.guards \in Seq(GuardNames)
  BY <1>2 DEF Ordered
<1> DEFINE k == Done(q) + 1
<1>4. k \in 1..Len(q.route.guards) /\ Head(q.todo) = q.route.guards[k]
  <2> DEFINE n == [route |-> q.route, todo |-> Tail(q.todo)]
  <2>1. n.route = q.route /\ n.todo = Tail(q.todo)
    OBVIOUS
  <2> HIDE DEF n
  <2> QED  BY <1>3, <2>1, GuardPassed DEF RequestOf
<1>5. 1..(k - 1) = 1..Done(q)
  <2>1. Done(q) \in Nat
    BY DEF Rest
  <2> QED  BY <2>1
<1> HIDE DEF k
<1> QED  BY <1>2, <1>3, <1>4, <1>5 DEF Ordered, Past

(* The user lookup takes the holder marker and the roles from the          *)
(* database.                                                               *)
LEMMA ValidateUnfolded ==
  ASSUME NEW c, GateOf(c), NEW q, NEW w, w = Gate(c)!Validate(q)
  PROVE  /\ w.holder \in BOOLEAN
         /\ w.holder <=> Caller(q.tok) \in c.holders
         /\ q.tok.kind = "user" => w.roles = orgRoles[q.tok.sub]
<1>1. CASE q.tok.kind = "user"
  <2> DEFINE b == q.tok.sub \in c.holders
  <2>1. w = [known |-> TRUE, holder |-> b, roles |-> orgRoles[q.tok.sub]]
    BY <1>1, Zenon DEF Gate!Validate
  <2>0. b \in BOOLEAN
    OBVIOUS
  <2>2. Caller(q.tok) \in c.holders <=> b
    BY <1>1, Zenon DEF Caller
  <2> HIDE DEF b
  <2>3. w.holder = b /\ w.roles = orgRoles[q.tok.sub]
    BY <2>1
  <2> QED  BY <1>1, <2>0, <2>2, <2>3, Zenon
<1>2. CASE q.tok.kind # "user"
  <2>1. w.holder = FALSE
    BY <1>2 DEF Gate!Validate
  <2> QED  BY <1>2, <2>1, GateUsers DEF Caller
<1> QED  BY <1>1, <1>2

(* A request that passes a guard keeps what the guards make sure of: the   *)
(* guard has seen what the clause about it says, in a state every part of  *)
(* which the request has recorded.                                         *)
LEMMA CheckKeeps ==
  ASSUME NEW c, GateOf(c), NEW q, Fine(c, q), q.todo # <<>>, Gate(c)!Passes(Head(q.todo), q), NEW w,
         w = IF Head(q.todo) = "user" THEN Gate(c)!Validate(q) ELSE q.who,
         NEW n, n = [q EXCEPT !.todo = Tail(q.todo), !.who = w]
  PROVE  Fine(c, n)
<1> DEFINE g == Head(q.todo)
<1>1. /\ n.id = q.id /\ n.tok = q.tok /\ n.route = q.route /\ n.org = q.org /\ n.todo = Tail(q.todo) /\ n.calls = q.calls
      /\ n.who = w /\ n.ever = q.ever /\ n.on = q.on /\ n.allowed = q.allowed /\ n.live = q.live
      /\ WholeRequest(n)
  BY DEF Fine, RequestOf, WholeRequest
<1>2. /\ n.todo \in Seq(GuardNames) /\ Rest(n)
      /\ \A h : Past(n, h) <=> Past(q, h) \/ h = g
  <2>1. q.todo \in Seq(GuardNames) /\ q.route.guards \in Seq(GuardNames) /\ Rest(q)
    BY GuardInOrder DEF Fine, RequestOf
  <2> QED  BY <1>1, <2>1, GuardPassed
<1>3. /\ g \in {"org", "person"} => Past(q, "user")
      /\ g = "user" => ~Past(q, "org") /\ ~Past(q, "entitlement")
      /\ g = "entitlement" => Past(q, "org")
  BY GuardInOrder DEF Fine
<1>4. /\ g = "user" => /\ w.holder \in BOOLEAN
                       /\ w.holder <=> Caller(q.tok) \in c.holders
                       /\ q.tok.kind = "user" => w.roles = orgRoles[q.tok.sub]
  BY ValidateUnfolded
<1>5. RequestOf(c, n)
  BY <1>1, <1>2, <1>4 DEF RequestOf, Fine
<1>6. Current(c, n)
  BY <1>1 DEF Current, Fine, RolesHeld
<1>7. Passed(c, n)
  <2>0. RequestOf(c, q) /\ Passed(c, q) /\ Current(c, q)
    BY DEF Fine
  <2>1. n.who.holder => Caller(n.tok) \in c.holders
    BY <1>1, <1>4, <2>0 DEF Passed
  <2>2. n.tok.kind = "user" /\ n.org \in c.orgs =>
          n.tok.claims[n.org] \subseteq n.tok.held[n.org] /\ n.who.roles[n.org] \subseteq n.ever
    <3>1. CASE g = "user"
      BY <1>1, <1>4, <2>0, <3>1 DEF Passed, Current, RolesHeld, Caller, RequestOf
    <3>2. CASE g # "user"
      BY <1>1, <2>0, <3>2 DEF Passed
    <3> QED  BY <3>1, <3>2
  <2>3. Past(n, "session") => n.live
    BY <1>1, <1>2, <2>0, GuardsUnfolded DEF Passed, Current
  <2>4. Past(n, "user") => (n.who.holder <=> Caller(n.tok) \in c.holders)
    BY <1>1, <1>2, <1>4, <2>0 DEF Passed
  <2>5. Past(n, "org") \/ Past(n, "person") => Caller(n.tok) \notin c.holders
    BY <1>1, <1>2, <1>3, <2>0, GuardsUnfolded DEF Passed
  <2>6. Past(n, "holder") => Caller(n.tok) \in c.holders
    BY <1>1, <1>2, <2>0, GuardsUnfolded DEF Passed
  <2>7. Past(n, "org") /\ n.org \in c.orgs /\ n.tok.kind = "user" =>
          n.route.roles \cap (n.ever \cup n.tok.held[n.org]) # {}
    <3>1. CASE g = "org"
      BY <1>1, <2>0, <3>1, GuardsUnfolded DEF Passed
    <3>2. CASE g # "org"
      BY <1>1, <1>2, <2>0, <3>2 DEF Passed
    <3> QED  BY <3>1, <3>2
  <2>8. Past(n, "org") /\ n.org \notin c.orgs => Administers(c, n)
    <3>1. CASE g = "user"
      BY <1>2, <1>3, <3>1
    <3>2. CASE g # "user"
      BY <1>1, <1>2, <2>0, <3>2, GuardsUnfolded DEF Passed, Administers
    <3> QED  BY <3>1, <3>2
  <2>9. Past(n, "feature") => n.on
    BY <1>1, <1>2, <2>0, GuardsUnfolded DEF Passed, Current
  <2>10. Past(n, "entitlement") /\ c.marketplaceEnabled /\ c.marketplaceRequired /\ ~Administers(c, n) =>
           n.route.feature \in n.allowed
    <3>1. CASE g = "user"
      BY <1>2, <1>3, <3>1
    <3>2. CASE g # "user"
      <4>1. Administers(c, n) <=> Administers(c, q)
        BY <1>1, <3>2 DEF Administers
      <4>2. CASE g = "entitlement"
        BY <1>1, <1>3, <2>0, <4>1, <4>2, GuardsUnfolded DEF Passed, Current
      <4>3. CASE g # "entitlement"
        BY <1>1, <1>2, <2>0, <4>1, <4>3 DEF Passed
      <4> QED  BY <4>2, <4>3
    <3> QED  BY <3>1, <3>2
  <2> QED  BY <2>1, <2>2, <2>3, <2>4, <2>5, <2>6, <2>7, <2>8, <2>9, <2>10 DEF Passed
<1> QED  BY <1>2, <1>5, <1>6, <1>7 DEF Fine

(* What happens to other requests, sign-ins and sign-outs leave a request  *)
(* as it is.                                                               *)
LEMMA QuietKeeps ==
  ASSUME NEW c, NEW q, Fine(c, q), UNCHANGED <<orgRoles, enabled, plan>>,
         count \in [tokens : Nat, requests : Nat, changes : Nat, faults : Nat],
         count' \in [tokens : Nat, requests : Nat, changes : Nat, faults : Nat],
         count.tokens <= count'.tokens, count.requests <= count'.requests,
         \A s \in sessions' : s \in sessions \/ s = count.tokens
  PROVE  Fine(c, q)'
<1>1. RequestOf(c, q)' /\ Rest(q)' /\ Passed(c, q)'
  BY DEF Fine, RequestOf, WholeRequest, Rest, Done, Passed, Past, Caller, Administers, AllRoles
<1>2. q.tok.kind = "user" => q.tok.sid \in Nat
  BY DEF Fine, RequestOf
<1>3. q.id \in Nat
  BY DEF Fine, RequestOf
<1>4. Current(c, q)'
  <2>0. Current(c, q)
    BY DEF Fine
  <2>1. {count.tokens, count'.tokens, count.requests, count'.requests} \subseteq Nat
    OBVIOUS
  <2>2. q.id < count'.requests
    BY <1>3, <2>0, <2>1 DEF Current
  <2>3. q.tok.kind = "user" => q.tok.sid < count'.tokens /\ q.tok.sid # count.tokens
    BY <1>2, <2>0, <2>1 DEF Current
  <2>4. IF q.tok.kind = "user" THEN q.tok.sid < count'.tokens /\ (q.live \/ q.tok.sid \notin sessions') ELSE q.live
    BY <2>0, <2>3 DEF Current
  <2>5. /\ RolesHeld(c, orgRoles', q) \subseteq q.ever
        /\ enabled' => q.on
        /\ q.org \in c.orgs => plan'[q.org] \subseteq q.allowed
    BY <2>0 DEF Current
  <2> QED  BY <2>2, <2>4, <2>5 DEF Current, RolesHeld, Caller
<1> QED  BY <1>1, <1>4 DEF Fine

LEMMA TailInSeq == ASSUME NEW S, NEW s \in Seq(S), s # <<>> PROVE Tail(s) \in Seq(S) /\ Head(s) \in S
OBVIOUS

(* Sending a command changes nothing the guards made sure of.              *)
LEMMA CallsKeep ==
  ASSUME NEW c, NEW q, Fine(c, q), q.calls # <<>>, NEW n, n = [q EXCEPT !.calls = Tail(q.calls)]
  PROVE  Fine(c, n) /\ n.id = q.id
<1>1. /\ n.id = q.id /\ n.tok = q.tok /\ n.route = q.route /\ n.org = q.org /\ n.todo = q.todo
      /\ n.calls = Tail(q.calls) /\ n.who = q.who /\ n.ever = q.ever /\ n.on = q.on /\ n.allowed = q.allowed
      /\ n.live = q.live /\ WholeRequest(n)
  BY DEF Fine, RequestOf, WholeRequest
<1>2. n.calls \in Seq(Handled)
  <2>1. q.calls \in Seq(Handled)
    BY DEF Fine, RequestOf
  <2> QED  BY <1>1, <2>1, TailInSeq
<1>3. RequestOf(c, n)
  BY <1>1, <1>2 DEF Fine, RequestOf
<1>4. Rest(n) /\ \A h : Past(n, h) <=> Past(q, h)
  BY <1>1 DEF Fine, Rest, Done, Past
<1>5. Passed(c, n)
  BY <1>1, <1>4 DEF Fine, Passed, Administers
<1>6. Current(c, n)
  BY <1>1 DEF Fine, Current, RolesHeld
<1> QED  BY <1>1, <1>3, <1>4, <1>5, <1>6 DEF Fine

(* Neither does what a request records of a change.                        *)
LEMMA SeenKeeps ==
  ASSUME NEW c, NEW q, Fine(c, q), NEW n, WholeRequest(n),
         n.id = q.id, n.tok = q.tok, n.route = q.route, n.org = q.org, n.todo = q.todo, n.calls = q.calls,
         n.who = q.who, n.live = q.live, q.ever \subseteq n.ever, n.ever \subseteq AllRoles,
         n.on \in BOOLEAN, q.on => n.on, q.allowed \subseteq n.allowed
  PROVE  RequestOf(c, n) /\ Rest(n) /\ Passed(c, n)
<1>1. RequestOf(c, n)
  BY DEF Fine, RequestOf
<1>2. Rest(n) /\ \A h : Past(n, h) <=> Past(q, h)
  BY DEF Fine, Rest, Done, Past
<1>3. Passed(c, n)
  BY <1>2 DEF Fine, Passed, Administers
<1> QED  BY <1>1, <1>2, <1>3

LEMMA TokensStay ==
  ASSUME NEW c, NEW t, TokenOf(c, t), count.tokens \in Nat, count'.tokens \in Nat, count.tokens <= count'.tokens
  PROVE  TokenOf(c, t)'
<1>1. t.kind = "user" => t.sid < count'.tokens
  BY DEF TokenOf
<1> QED  BY <1>1 DEF TokenOf

(* Steps that leave the requests alone.                                    *)
LEMMA RequestsWait ==
  ASSUME NEW c, GateIInv(c), GateTypes(c)', UNCHANGED <<orgRoles, enabled, plan, reqs, unanswered>>,
         count.tokens <= count'.tokens, count.requests <= count'.requests,
         \A s \in sessions' : s \in sessions \/ s = count.tokens,
         \A t \in tokens' : t \in tokens \/ TokenOf(c, t)'
  PROVE  GateIInv(c)'
<1>1. count \in [tokens : Nat, requests : Nat, changes : Nat, faults : Nat]
      /\ count' \in [tokens : Nat, requests : Nat, changes : Nat, faults : Nat]
  BY DEF GateIInv, GateTypes
<1>2. count.tokens \in Nat /\ count'.tokens \in Nat
  BY <1>1
<1>3. \A q \in reqs : Fine(c, q)'
  BY <1>1, QuietKeeps DEF GateIInv
<1>4. \A t \in tokens' : TokenOf(c, t)'
  BY <1>2, TokensStay DEF GateIInv
<1> QED  BY <1>3, <1>4 DEF GateIInv

(* Steps of one request: it is gone, or it goes on under its number.       *)
LEMMA RequestMoves ==
  ASSUME NEW c, GateIInv(c), GateTypes(c)', UNCHANGED <<orgRoles, enabled, plan, sessions, tokens, unanswered>>,
         count.tokens = count'.tokens, count.requests = count'.requests, NEW q \in reqs,
         \/ reqs' = reqs \ {q}
         \/ \E n : Fine(c, n) /\ n.id = q.id /\ reqs' = (reqs \ {q}) \cup {n}
  PROVE  GateIInv(c)'
<1>1. count \in [tokens : Nat, requests : Nat, changes : Nat, faults : Nat]
      /\ count' \in [tokens : Nat, requests : Nat, changes : Nat, faults : Nat]
  BY DEF GateIInv, GateTypes
<1>2. /\ count.tokens \in Nat /\ count'.tokens \in Nat /\ count.requests \in Nat
      /\ count.tokens <= count'.tokens /\ count.requests <= count'.requests
  BY <1>1
<1>3. \A r : Fine(c, r) => Fine(c, r)'
  BY <1>1, <1>2, QuietKeeps
<1>4. \A t \in tokens' : TokenOf(c, t)'
  BY <1>2, TokensStay DEF GateIInv
<1>5. \A r \in reqs' : Fine(c, r)'
  BY <1>3 DEF GateIInv
<1>6. \A r, p \in reqs' : r.id = p.id => r = p
  BY DEF GateIInv
<1> QED  BY <1>4, <1>5, <1>6 DEF GateIInv

(* Changes of roles, switch and plans: every request records what now      *)
(* holds.                                                                  *)
LEMMA RequestsSee ==
  ASSUME NEW c, GateIInv(c), GateTypes(c)', UNCHANGED <<sessions, tokens, unanswered>>,
         count.tokens = count'.tokens, count.requests = count'.requests, Gate(c)!Seen(orgRoles', enabled', plan')
  PROVE  /\ GateIInv(c)'
         /\ \A q \in reqs : \E n \in reqs' : n.id = q.id
<1>1. \A n : n \in reqs' <=> \E q \in reqs :
        n = [q EXCEPT !.ever = q.ever \cup Gate(c)!Has(orgRoles', q), !.on = q.on \/ enabled',
                      !.allowed = q.allowed \cup (IF q.org \in c.orgs THEN plan'[q.org] ELSE {})]
  BY DEF Gate!Seen
<1>2. enabled' \in BOOLEAN
  BY DEF GateTypes
<1>3. ASSUME NEW q \in reqs, NEW n,
             n = [q EXCEPT !.ever = q.ever \cup Gate(c)!Has(orgRoles', q), !.on = q.on \/ enabled',
                           !.allowed = q.allowed \cup (IF q.org \in c.orgs THEN plan'[q.org] ELSE {})]
      PROVE  Fine(c, n)' /\ n.id = q.id
  <2>1. Fine(c, q)
    BY DEF GateIInv
  <2>2. PICK A : A = Gate(c)!Has(orgRoles', q)
    OBVIOUS
  <2>3. PICK P : P = IF q.org \in c.orgs THEN plan'[q.org] ELSE {}
    OBVIOUS
  <2>4. PICK o : o = (q.on \/ enabled')
    OBVIOUS
  <2>5. A = RolesHeld(c, orgRoles', q)
    BY <2>2, GateUnfolded
  <2>6. A \in SUBSET AllRoles
    BY <2>5 DEF GateTypes, RolesHeld
  <2>7. n = [q EXCEPT !.ever = q.ever \cup A, !.on = o, !.allowed = q.allowed \cup P]
    BY <1>3, <2>2, <2>3, <2>4, Zenon
  <2>8. o \in BOOLEAN /\ (q.on => o) /\ (enabled' => o)
    BY <1>2, <2>4, Zenon
  <2>9. /\ WholeRequest(n) /\ n.id = q.id /\ n.tok = q.tok /\ n.route = q.route /\ n.org = q.org /\ n.todo = q.todo
        /\ n.calls = q.calls /\ n.who = q.who /\ n.live = q.live
        /\ n.ever = q.ever \cup A /\ n.on = o /\ n.allowed = q.allowed \cup P
    BY <2>1, <2>7 DEF Fine, RequestOf, WholeRequest
  <2>12. RequestOf(c, n) /\ Rest(n) /\ Passed(c, n)
    <3>1. q.ever \subseteq AllRoles
      BY <2>1 DEF Fine, RequestOf
    <3>2. q.ever \subseteq n.ever /\ n.ever \subseteq AllRoles /\ q.allowed \subseteq n.allowed
      BY <2>6, <2>9, <3>1
    <3>3. n.on \in BOOLEAN /\ (q.on => n.on)
      BY <2>8, <2>9
    <3> QED  BY <2>1, <2>9, <3>2, <3>3, SeenKeeps
  <2>10. RequestOf(c, n)' /\ Rest(n)' /\ Passed(c, n)'
    BY <2>12 DEF RequestOf, WholeRequest, Rest, Done, Passed, Past, Caller, Administers, AllRoles
  <2>11. Current(c, n)'
    <3>1. RolesHeld(c, orgRoles', n) \subseteq n.ever
      BY <2>5, <2>9 DEF RolesHeld
    <3>2. n.org \in c.orgs => plan'[n.org] \subseteq n.allowed
      BY <2>3, <2>9
    <3>3. IF n.tok.kind = "user" THEN n.tok.sid < count'.tokens /\ (n.live \/ n.tok.sid \notin sessions') ELSE n.live
      BY <2>1, <2>9 DEF Fine, Current
    <3>4. n.id < count'.requests
      BY <2>1, <2>9 DEF Fine, Current
    <3>5. enabled' => n.on
      BY <2>8, <2>9
    <3> QED  BY <3>1, <3>2, <3>3, <3>4, <3>5 DEF Current, RolesHeld, Caller
  <2> QED  BY <2>9, <2>10, <2>11 DEF Fine
<1>4. count \in [tokens : Nat, requests : Nat, changes : Nat, faults : Nat]
  BY DEF GateIInv, GateTypes
<1>5. \A t \in tokens' : TokenOf(c, t)'
  <2>1. count.tokens \in Nat /\ count'.tokens \in Nat /\ count.tokens <= count'.tokens
    BY <1>4
  <2> QED  BY <2>1, TokensStay DEF GateIInv
<1>6. \A r \in reqs' : Fine(c, r)'
  BY <1>1, <1>3, Zenon
<1>7. \A q \in reqs : \E n \in reqs' : n.id = q.id
  BY <1>1, <1>3, Zenon
<1>8. \A r, p \in reqs' : r.id = p.id => r = p
  <2> SUFFICES ASSUME NEW r \in reqs', NEW p \in reqs', r.id = p.id
               PROVE  r = p
    OBVIOUS
  <2>1. PICK q \in reqs : r = [q EXCEPT !.ever = q.ever \cup Gate(c)!Has(orgRoles', q), !.on = q.on \/ enabled',
                      !.allowed = q.allowed \cup (IF q.org \in c.orgs THEN plan'[q.org] ELSE {})]
    BY <1>1, Zenon
  <2>2. PICK s \in reqs : p = [s EXCEPT !.ever = s.ever \cup Gate(c)!Has(orgRoles', s), !.on = s.on \/ enabled',
                      !.allowed = s.allowed \cup (IF s.org \in c.orgs THEN plan'[s.org] ELSE {})]
    BY <1>1, Zenon
  <2>3. r.id = q.id /\ p.id = s.id
    BY <1>3, <2>1, <2>2, Zenon
  <2>4. q = s
    BY <2>3 DEF GateIInv
  <2> QED  BY <2>1, <2>2, <2>4, Zenon
<1> QED  BY <1>5, <1>6, <1>7, <1>8 DEF GateIInv

(* Every request is still there after the step.                            *)
Kept == \A q \in reqs : \E n \in reqs' : n.id = q.id

(* The initial states.                                                     *)
LEMMA GateBegins ==
  ASSUME NEW c, GateOf(c), Gate(c)!Init
  PROVE  GateIInv(c)
<1>1. /\ orgRoles \in [c.users -> [c.orgs -> SUBSET AllRoles]]
      /\ eco \in [c.users -> SUBSET {ECOSYSTEM_LEAD, ECOSYSTEM_MEMBER}]
  BY GateUnfolded DEF GateOf, Gate!GatewayAssumption, Gate!Init, Gate!ECOSYSTEM_LEAD, Gate!ECOSYSTEM_MEMBER,
     ECOSYSTEM_LEAD, ECOSYSTEM_MEMBER
<1>2. /\ sessions = {} /\ tokens = {} /\ reqs = {} /\ unanswered = {} /\ enabled = TRUE /\ marketUp = TRUE
      /\ plan = [o \in c.orgs |-> Gate(c)!Features]
      /\ used = [o \in c.orgs |-> [d \in Gate(c)!Dimensions |-> 0]]
      /\ count = [tokens |-> 0, requests |-> 0, changes |-> 0, faults |-> 0]
  BY DEF Gate!Init
<1>3. plan \in [c.orgs -> {Gate(c)!Features, {}}]
  BY <1>2
<1>4. used \in [c.orgs -> [Gate(c)!Dimensions -> Nat]]
  BY <1>2
<1>5. count \in [tokens : Nat, requests : Nat, changes : Nat, faults : Nat]
  BY <1>2
<1>6. sessions \subseteq 0..c.maxTokens /\ enabled \in BOOLEAN /\ marketUp \in BOOLEAN
  BY <1>2
<1>7. GateTypes(c)
  BY <1>1, <1>3, <1>4, <1>5, <1>6 DEF GateTypes
<1> QED  BY <1>2, <1>7 DEF GateIInv

LEMMA CountsBounded ==
  ASSUME NEW c, GateOf(c)
  PROVE  {c.maxTokens, c.maxRequests, c.maxChanges, c.maxFaults} \subseteq Nat
BY DEF GateOf, Gate!GatewayAssumption

(* Sign-ins of users, clients and services.                                *)
LEMMA LoginsKeep ==
  ASSUME NEW c, GateOf(c), GateIInv(c),
         \/ \E u \in c.users : Gate(c)!Login(u)
         \/ \E o \in c.orgs : Gate(c)!ClientLogin(o)
         \/ Gate(c)!ServiceLogin
  PROVE  GateIInv(c)' /\ Kept
<1>0. GateTypes(c) /\ count \in [tokens : Nat, requests : Nat, changes : Nat, faults : Nat]
  BY DEF GateIInv, GateTypes
<1>1. PICK t : Gate(c)!Issue(t) /\ TokenOf(c, t)' /\ (sessions' = sessions \cup {count.tokens} \/ sessions' = sessions)
  <2>1. ASSUME NEW u \in c.users, Gate(c)!Login(u)
        PROVE  \E t : Gate(c)!Issue(t) /\ TokenOf(c, t)' /\ sessions' = sessions \cup {count.tokens}
    <3>1. PICK claims \in c.claimForms, marker \in BOOLEAN :
            Gate(c)!Issue([kind |-> "user", sub |-> u, sid |-> count.tokens, held |-> orgRoles[u],
                  claims |-> IF claims THEN orgRoles[u] ELSE Gate(c)!NoRoles,
                  eco |-> eco[u], marker |-> marker]) /\ sessions' = sessions \cup {count.tokens}
      BY <2>1 DEF Gate!Login
    <3> DEFINE t == [kind |-> "user", sub |-> u, sid |-> count.tokens, held |-> orgRoles[u],
                  claims |-> IF claims THEN orgRoles[u] ELSE Gate(c)!NoRoles,
                  eco |-> eco[u], marker |-> marker]
    <3>2. t.kind = "user" /\ t.sub = u /\ t.sid = count.tokens
          /\ \A o \in c.orgs : t.claims[o] \subseteq t.held[o]
      BY DEF Gate!NoRoles
    <3>3. PICK z : z = t
      OBVIOUS
    <3>4. Gate(c)!Issue(z)
      BY <3>1, <3>3
    <3>5. z.kind = "user" /\ z.sub = u /\ z.sid = count.tokens /\ \A o \in c.orgs : z.claims[o] \subseteq z.held[o]
      BY <3>2, <3>3
    <3>6. count.tokens \in Nat /\ count.tokens < count'.tokens
      BY <1>0, <3>4 DEF Gate!Issue
    <3>7. TokenOf(c, z)'
      BY <3>5, <3>6 DEF TokenOf
    <3> QED  BY <3>1, <3>4, <3>7
  <2>2. ASSUME NEW o \in c.orgs, Gate(c)!ClientLogin(o)
        PROVE  \E t : Gate(c)!Issue(t) /\ TokenOf(c, t)' /\ sessions' = sessions
    <3>1. PICK z : z = [kind |-> "client", sub |-> o, held |-> Gate(c)!NoRoles, claims |-> Gate(c)!NoRoles,
                        eco |-> {}, marker |-> FALSE]
      OBVIOUS
    <3>2. Gate(c)!Issue(z) /\ sessions' = sessions
      BY <2>2, <3>1 DEF Gate!ClientLogin
    <3>3. TokenOf(c, z)'
      BY <3>1 DEF TokenOf
    <3> QED  BY <3>2, <3>3
  <2>3. ASSUME Gate(c)!ServiceLogin
        PROVE  \E t : Gate(c)!Issue(t) /\ TokenOf(c, t)' /\ sessions' = sessions
    <3>1. PICK z : z = [kind |-> "service", held |-> Gate(c)!NoRoles, claims |-> Gate(c)!NoRoles,
                        eco |-> {}, marker |-> FALSE]
      OBVIOUS
    <3>2. Gate(c)!Issue(z) /\ sessions' = sessions
      BY <2>3, <3>1 DEF Gate!ServiceLogin
    <3>3. TokenOf(c, z)'
      BY <3>1 DEF TokenOf
    <3> QED  BY <3>2, <3>3
  <2> QED  BY <2>1, <2>2, <2>3
<1>2. /\ count.tokens < c.maxTokens /\ tokens' = tokens \cup {t} /\ count' = [count EXCEPT !.tokens = @ + 1]
      /\ UNCHANGED <<orgRoles, eco, enabled, plan, marketUp, used, reqs, unanswered>>
  BY <1>1 DEF Gate!Issue
<1>3. /\ count' \in [tokens : Nat, requests : Nat, changes : Nat, faults : Nat]
      /\ count.tokens <= count'.tokens /\ count.requests <= count'.requests
      /\ count.tokens \in 0..c.maxTokens
  BY <1>0, <1>2, CountsBounded
<1>4. GateTypes(c)'
  BY <1>0, <1>1, <1>2, <1>3 DEF GateTypes, AllRoles, ECOSYSTEM_LEAD, ECOSYSTEM_MEMBER, Gate!Features, Gate!Dimensions
<1>5. GateIInv(c)'
  BY <1>1, <1>2, <1>3, <1>4, RequestsWait
<1> QED  BY <1>2, <1>5 DEF Kept

LEMMA ChangeCounts ==
  ASSUME NEW c, GateIInv(c), Gate(c)!Change
  PROVE  /\ count' \in [tokens : Nat, requests : Nat, changes : Nat, faults : Nat]
         /\ count.tokens = count'.tokens /\ count.requests = count'.requests
         /\ count.tokens <= count'.tokens /\ count.requests <= count'.requests
         /\ UNCHANGED <<tokens, used, unanswered>>
<1>1. count \in [tokens : Nat, requests : Nat, changes : Nat, faults : Nat]
  BY DEF GateIInv, GateTypes
<1> QED  BY <1>1 DEF Gate!Change

(* Changes no request records.                                             *)
LEMMA QuietChangesKeep ==
  ASSUME NEW c, GateOf(c), GateIInv(c),
         \/ \E u \in c.users : Gate(c)!ChangeEcosystemRole(u)
         \/ \E s \in sessions : Gate(c)!EndSession(s)
         \/ Gate(c)!MarketSwitch
  PROVE  GateIInv(c)' /\ Kept
<1>1. Gate(c)!Change /\ UNCHANGED <<orgRoles, enabled, plan, reqs>> /\ sessions' \subseteq sessions
  BY DEF Gate!ChangeEcosystemRole, Gate!EndSession, Gate!MarketSwitch
<1>2. GateTypes(c)
  BY DEF GateIInv
<1>3. eco' \in [c.users -> SUBSET {ECOSYSTEM_LEAD, ECOSYSTEM_MEMBER}]
  <2>1. ASSUME NEW u \in c.users, Gate(c)!ChangeEcosystemRole(u)
        PROVE  eco' \in [c.users -> SUBSET {ECOSYSTEM_LEAD, ECOSYSTEM_MEMBER}]
    <3>1. PICK R : /\ R \in {{}, {Gate(c)!ECOSYSTEM_LEAD}, {Gate(c)!ECOSYSTEM_MEMBER}}
                   /\ eco' = [eco EXCEPT ![u] = R]
      BY <2>1 DEF Gate!ChangeEcosystemRole
    <3>2. R \in SUBSET {ECOSYSTEM_LEAD, ECOSYSTEM_MEMBER}
      BY <3>1 DEF Gate!ECOSYSTEM_LEAD, Gate!ECOSYSTEM_MEMBER, ECOSYSTEM_LEAD, ECOSYSTEM_MEMBER
    <3> QED  BY <1>2, <3>1, <3>2 DEF GateTypes
  <2> QED  BY <1>2, <2>1 DEF GateTypes, Gate!EndSession, Gate!MarketSwitch
<1>4. marketUp' \in BOOLEAN
  BY <1>2 DEF GateTypes, Gate!ChangeEcosystemRole, Gate!EndSession, Gate!MarketSwitch
<1>5. GateTypes(c)'
  BY <1>1, <1>2, <1>3, <1>4, ChangeCounts DEF GateTypes, AllRoles, ECOSYSTEM_LEAD, ECOSYSTEM_MEMBER, Gate!Features,
     Gate!Dimensions
<1>6. GateIInv(c)'
  BY <1>1, <1>5, ChangeCounts, RequestsWait
<1> QED  BY <1>1, <1>6 DEF Kept

(* Changes every request records.                                          *)
LEMMA SeenChangesKeep ==
  ASSUME NEW c, GateOf(c), GateIInv(c),
         \/ \E u \in c.users, o \in c.orgs : Gate(c)!ChangeRoles(u, o)
         \/ \E o \in c.orgs : Gate(c)!ChangePlan(o)
         \/ Gate(c)!SwitchEcosystem
  PROVE  GateIInv(c)' /\ Kept
<1>1. Gate(c)!Change /\ UNCHANGED <<eco, sessions, marketUp>>
  BY DEF Gate!ChangeRoles, Gate!ChangePlan, Gate!SwitchEcosystem
<1>2. GateTypes(c)
  BY DEF GateIInv
<1>3. /\ orgRoles' \in [c.users -> [c.orgs -> SUBSET AllRoles]] /\ enabled' \in BOOLEAN
      /\ plan' \in [c.orgs -> {Gate(c)!Features, {}}]
      /\ Gate(c)!Seen(orgRoles', enabled', plan')
  <2>1. ASSUME NEW u \in c.users, NEW o \in c.orgs, Gate(c)!ChangeRoles(u, o)
        PROVE  /\ orgRoles' \in [c.users -> [c.orgs -> SUBSET AllRoles]] /\ enabled' \in BOOLEAN
               /\ plan' \in [c.orgs -> {Gate(c)!Features, {}}]
               /\ Gate(c)!Seen(orgRoles', enabled', plan')
    <3>1. PICK R \in c.roleChanges : orgRoles' = [orgRoles EXCEPT ![u][o] = R]
      BY <2>1 DEF Gate!ChangeRoles
    <3>2. R \in SUBSET AllRoles
      BY GateUnfolded DEF GateOf, Gate!GatewayAssumption
    <3>3. orgRoles' \in [c.users -> [c.orgs -> SUBSET AllRoles]]
      BY <1>2, <3>1, <3>2 DEF GateTypes
    <3>4. Gate(c)!Seen(orgRoles', enabled, plan) /\ enabled' = enabled /\ plan' = plan
      BY <2>1 DEF Gate!ChangeRoles
    <3>5. Gate(c)!Seen(orgRoles', enabled', plan')
      BY <3>4
    <3> QED  BY <1>2, <3>3, <3>4, <3>5 DEF GateTypes
  <2>2. ASSUME NEW o \in c.orgs, Gate(c)!ChangePlan(o)
        PROVE  /\ orgRoles' \in [c.users -> [c.orgs -> SUBSET AllRoles]] /\ enabled' \in BOOLEAN
               /\ plan' \in [c.orgs -> {Gate(c)!Features, {}}]
               /\ Gate(c)!Seen(orgRoles', enabled', plan')
    <3>1. Gate(c)!Seen(orgRoles, enabled, plan') /\ enabled' = enabled /\ orgRoles' = orgRoles
          /\ plan' = [plan EXCEPT ![o] = IF @ = {} THEN Gate(c)!Features ELSE {}]
      BY <2>2 DEF Gate!ChangePlan
    <3>2. Gate(c)!Seen(orgRoles', enabled', plan')
      BY <3>1
    <3>3. plan' \in [c.orgs -> {Gate(c)!Features, {}}]
      BY <1>2, <3>1 DEF GateTypes
    <3> QED  BY <1>2, <3>1, <3>2, <3>3 DEF GateTypes
  <2>3. ASSUME Gate(c)!SwitchEcosystem
        PROVE  /\ orgRoles' \in [c.users -> [c.orgs -> SUBSET AllRoles]] /\ enabled' \in BOOLEAN
               /\ plan' \in [c.orgs -> {Gate(c)!Features, {}}]
               /\ Gate(c)!Seen(orgRoles', enabled', plan')
    <3>1. Gate(c)!Seen(orgRoles, enabled', plan) /\ enabled' = ~enabled /\ orgRoles' = orgRoles /\ plan' = plan
      BY <2>3 DEF Gate!SwitchEcosystem
    <3>2. Gate(c)!Seen(orgRoles', enabled', plan')
      BY <3>1
    <3>3. enabled' \in BOOLEAN
      BY <3>1
    <3> QED  BY <1>2, <3>1, <3>2, <3>3 DEF GateTypes
  <2> QED  BY <2>1, <2>2, <2>3
<1>4. GateTypes(c)'
  BY <1>1, <1>2, <1>3, ChangeCounts DEF GateTypes, AllRoles, ECOSYSTEM_LEAD, ECOSYSTEM_MEMBER, Gate!Features,
     Gate!Dimensions
<1> QED  BY <1>1, <1>3, <1>4, ChangeCounts, RequestsSee DEF Kept

(* A request that arrives has passed nothing.                              *)
LEMMA NothingPassed ==
  ASSUME NEW n, n.todo \in Seq(GuardNames), n.todo = n.route.guards
  PROVE  Rest(n) /\ \A h : ~Past(n, h)
<1>1. Len(n.todo) \in Nat
  OBVIOUS
<1>2. Done(n) = 0
  BY <1>1 DEF Done
<1>3. \A i \in 1..Len(n.todo) : 0 + i = i
  BY <1>1
<1>4. 1..0 = {}
  OBVIOUS
<1> QED  BY <1>2, <1>3, <1>4 DEF Rest, Past

LEMMA ArrivalFine ==
  ASSUME NEW c, GateOf(c), NEW n, WholeRequest(n), n.id \in Nat, n.route \in c.offered,
         n.org \in c.orgs \cup {"no org"}, n.todo = n.route.guards, n.calls = n.route.calls,
         n.tok.kind = "user" => n.tok.sub \in c.users /\ n.tok.sid \in Nat,
         n.tok.kind = "user" => \A o \in c.orgs : n.tok.claims[o] \subseteq n.tok.held[o],
         n.who.holder \in BOOLEAN, ~n.who.holder, \A o \in c.orgs : n.who.roles[o] = {},
         n.on \in BOOLEAN, n.live \in BOOLEAN, n.ever \subseteq AllRoles
  PROVE  RequestOf(c, n) /\ Rest(n) /\ Passed(c, n)
<1>1. n.route.guards \in Orders /\ n.route.calls \in Seq(Handled)
  BY RoutesFit DEF GateOf, Fit
<1>2. n.todo \in Seq(GuardNames)
  BY <1>1, GuardsOrdered DEF Ordered
<1>3. RequestOf(c, n)
  BY <1>1, <1>2 DEF RequestOf
<1>6. Rest(n) /\ \A h : ~Past(n, h)
  BY <1>2, NothingPassed
<1>7. Passed(c, n)
  BY <1>6 DEF Passed
<1> QED  BY <1>3, <1>6, <1>7

(* A request arrives.                                                      *)
LEMMA ReceiveKeeps ==
  ASSUME NEW c, GateOf(c), GateIInv(c), Gate(c)!Receive
  PROVE  GateIInv(c)' /\ Kept
<1>0. GateTypes(c) /\ count \in [tokens : Nat, requests : Nat, changes : Nat, faults : Nat]
  BY DEF GateIInv, GateTypes
<1>1. PICK t \in tokens \cup {Gate(c)!NoToken}, r \in c.offered, o \in c.orgs \cup {Gate(c)!NoOrg} :
        Gate(c)!Arrive(t, r, o)
  BY DEF Gate!Receive
<1> DEFINE q == [id |-> count.requests, tok |-> t, route |-> r, org |-> o, todo |-> r.guards,
                 calls |-> r.calls, who |-> Gate(c)!Nobody, ever |-> {}, on |-> enabled,
                 allowed |-> IF o \in c.orgs THEN plan[o] ELSE {},
                 live |-> t.kind # "user" \/ t.sid \in sessions]
<1>2. PICK n : n = [q EXCEPT !.ever = Gate(c)!Has(orgRoles, q)]
  OBVIOUS
<1>3. /\ reqs' = reqs \cup {n} /\ count' = [count EXCEPT !.requests = @ + 1]
      /\ UNCHANGED <<orgRoles, eco, sessions, tokens, enabled, plan, marketUp, used, unanswered>>
  BY <1>1, <1>2 DEF Gate!Arrive, Gate!env
<1>4. PICK l : l = (t.kind # "user" \/ t.sid \in sessions)
  OBVIOUS
<1>5. l \in BOOLEAN /\ (t.kind # "user" => l) /\ (l \/ (t.kind = "user" /\ t.sid \notin sessions))
  BY <1>4, Zenon
<1>6. PICK E : E = Gate(c)!Has(orgRoles, q)
  OBVIOUS
<1>7. PICK s : s = q
  OBVIOUS
<1>8. s = [id |-> count.requests, tok |-> t, route |-> r, org |-> o, todo |-> r.guards,
           calls |-> r.calls, who |-> Gate(c)!Nobody, ever |-> {}, on |-> enabled,
           allowed |-> IF o \in c.orgs THEN plan[o] ELSE {}, live |-> l]
  BY <1>4, <1>7, Zenon
<1>9. n = [s EXCEPT !.ever = E] /\ E = Gate(c)!Has(orgRoles, s)
  BY <1>2, <1>6, <1>7, Zenon
<1> HIDE DEF q
<1>10. /\ WholeRequest(n) /\ n.id = count.requests /\ n.tok = t /\ n.route = r /\ n.org = o /\ n.todo = r.guards
       /\ n.calls = r.calls /\ n.who = Gate(c)!Nobody /\ n.ever = E /\ n.on = enabled
       /\ n.allowed = (IF o \in c.orgs THEN plan[o] ELSE {}) /\ n.live = l
  BY <1>8, <1>9 DEF WholeRequest
<1>11. E = RolesHeld(c, orgRoles, n)
  BY <1>8, <1>9, <1>10, GateUnfolded DEF RolesHeld
<1>12. E \subseteq AllRoles
  BY <1>0, <1>11 DEF GateTypes, RolesHeld
<1>13. /\ n.who.holder \in BOOLEAN /\ ~n.who.holder /\ \A x \in c.orgs : n.who.roles[x] = {}
  BY <1>10 DEF Gate!Nobody, Gate!NoRoles
<1>14. t.kind = "user" => TokenOf(c, t)
  <2>1. CASE t \in tokens
    BY <2>1 DEF GateIInv
  <2>2. CASE t = Gate(c)!NoToken
    BY <2>2 DEF Gate!NoToken
  <2> QED  BY <2>1, <2>2
<1>15. RequestOf(c, n) /\ Rest(n) /\ Passed(c, n)
  <2>1. n.id \in Nat /\ n.route \in c.offered /\ n.org \in c.orgs \cup {"no org"} /\ n.todo = n.route.guards
        /\ n.calls = n.route.calls
    BY <1>0, <1>1, <1>10, GateUnfolded
  <2>2. /\ n.tok.kind = "user" => n.tok.sub \in c.users /\ n.tok.sid \in Nat
        /\ n.tok.kind = "user" => \A x \in c.orgs : n.tok.claims[x] \subseteq n.tok.held[x]
    BY <1>10, <1>14 DEF TokenOf
  <2>3. n.on \in BOOLEAN /\ n.live \in BOOLEAN
    BY <1>0, <1>5, <1>10 DEF GateTypes
  <2> QED  BY <1>10, <1>12, <1>13, <2>1, <2>2, <2>3, ArrivalFine
<1>16. /\ count' \in [tokens : Nat, requests : Nat, changes : Nat, faults : Nat]
       /\ count.tokens = count'.tokens /\ count.requests < count'.requests /\ count.requests \in Nat
       /\ count.tokens \in Nat /\ count.tokens <= count'.tokens /\ count.requests <= count'.requests
  BY <1>0, <1>3
<1>17. Current(c, n)'
  <2>1. RolesHeld(c, orgRoles', n) \subseteq n.ever
    BY <1>3, <1>10, <1>11
  <2>2. IF n.tok.kind = "user" THEN n.tok.sid < count'.tokens /\ (n.live \/ n.tok.sid \notin sessions') ELSE n.live
    BY <1>3, <1>5, <1>10, <1>14, <1>16 DEF TokenOf
  <2>3. n.id < count'.requests /\ (enabled' => n.on) /\ (n.org \in c.orgs => plan'[n.org] \subseteq n.allowed)
    BY <1>3, <1>10, <1>16
  <2> QED  BY <2>1, <2>2, <2>3 DEF Current, RolesHeld, Caller
<1>18. Fine(c, n)'
  <2>1. RequestOf(c, n)' /\ Rest(n)' /\ Passed(c, n)'
    BY <1>15 DEF RequestOf, WholeRequest, Rest, Done, Passed, Past, Caller, Administers, AllRoles
  <2> QED  BY <1>17, <2>1 DEF Fine
<1>19. \A p \in reqs : Fine(c, p)'
  BY <1>0, <1>3, <1>16, QuietKeeps DEF GateIInv
<1>20. \A p \in reqs : p.id # n.id
  <2>1. \A p \in reqs : p.id \in Nat /\ p.id < count.requests
    BY DEF GateIInv, Fine, RequestOf, Current
  <2> QED  BY <1>10, <1>16, <2>1
<1>21. \A x, y \in reqs' : x.id = y.id => x = y
  BY <1>3, <1>20 DEF GateIInv
<1>22. GateTypes(c)'
  BY <1>0, <1>3, <1>16 DEF GateTypes, AllRoles, ECOSYSTEM_LEAD, ECOSYSTEM_MEMBER, Gate!Features, Gate!Dimensions
<1>23. \A x \in tokens' : TokenOf(c, x)'
  BY <1>3, <1>16, TokensStay DEF GateIInv
<1>24. GateIInv(c)'
  BY <1>3, <1>18, <1>19, <1>21, <1>22, <1>23 DEF GateIInv
<1> QED  BY <1>3, <1>24 DEF Kept

(* A request whose turn at the entitlement guard comes during an outage of *)
(* an optional marketplace.                                                *)
Waits(c, r) == r.todo # <<>> /\ Head(r.todo) = "entitlement" /\ ~marketUp /\ ~c.marketplaceRequired

LEMMA FaultCounts ==
  ASSUME NEW c, GateIInv(c), UNCHANGED count \/ count' = [count EXCEPT !.faults = @ + 1]
  PROVE  /\ count' \in [tokens : Nat, requests : Nat, changes : Nat, faults : Nat]
         /\ count.tokens = count'.tokens /\ count.requests = count'.requests
<1>1. count \in [tokens : Nat, requests : Nat, changes : Nat, faults : Nat]
  BY DEF GateIInv, GateTypes
<1> QED  BY <1>1

LEMMA MovesKeep ==
  ASSUME NEW c, GateOf(c), GateIInv(c), NEW q \in reqs,
         UNCHANGED <<orgRoles, eco, sessions, tokens, enabled, plan, marketUp, unanswered>>,
         used' \in [c.orgs -> [Gate(c)!Dimensions -> Nat]],
         UNCHANGED count \/ count' = [count EXCEPT !.faults = @ + 1],
         \/ reqs' = reqs \ {q} /\ ~Waits(c, q)
         \/ \E n : Fine(c, n) /\ n.id = q.id /\ reqs' = (reqs \ {q}) \cup {n}
  PROVE  GateIInv(c)' /\ \A r \in reqs : Waits(c, r) => \E n \in reqs' : n.id = r.id
<1>1. GateTypes(c)'
  BY FaultCounts DEF GateIInv, GateTypes, AllRoles, ECOSYSTEM_LEAD, ECOSYSTEM_MEMBER, Gate!Features, Gate!Dimensions
<1>2. GateIInv(c)'
  BY <1>1, FaultCounts, RequestMoves
<1> QED  BY <1>2

LEMMA OneMore ==
  ASSUME NEW A, NEW B, NEW f \in [A -> [B -> Nat]], NEW a, NEW b
  PROVE  [f EXCEPT ![a][b] = @ + 1] \in [A -> [B -> Nat]]
<1> DEFINE g == [f EXCEPT ![a][b] = @ + 1]
<1>1. DOMAIN g = A
  OBVIOUS
<1>2. ASSUME NEW x \in A
      PROVE  g[x] \in [B -> Nat]
  <2>1. CASE x # a
    BY <2>1
  <2>2. CASE x = a
    <3>1. f[a] \in [B -> Nat] /\ g[x] = [f[a] EXCEPT ![b] = f[a][b] + 1]
      BY <2>2
    <3>2. b \in B => f[a][b] + 1 \in Nat
      BY <3>1
    <3> QED  BY <3>1, <3>2
  <2> QED  BY <2>1, <2>2
<1> QED  BY <1>1, <1>2

(* The steps of a request: guards, failing lookups, answers and commands.  *)
LEMMA StepsKeep ==
  ASSUME NEW c, GateOf(c), GateIInv(c), NEW q \in reqs, Gate(c)!Step(q)
  PROVE  GateIInv(c)' /\ \A r \in reqs : Waits(c, r) => \E n \in reqs' : n.id = r.id
<1>0. Fine(c, q) /\ q.calls \in Seq(Handled) /\ used \in [c.orgs -> [Gate(c)!Dimensions -> Nat]]
  BY DEF GateIInv, Fine, RequestOf, GateTypes
<1>1. ASSUME Gate(c)!Check(q)
      PROVE  GateIInv(c)' /\ \A r \in reqs : Waits(c, r) => \E n \in reqs' : n.id = r.id
  <2>1. PICK w : w = IF Head(q.todo) = "user" THEN Gate(c)!Validate(q) ELSE q.who
    OBVIOUS
  <2>2. PICK n : n = [q EXCEPT !.todo = Tail(q.todo), !.who = w]
    OBVIOUS
  <2>3. /\ q.todo # <<>>
        /\ IF Gate(c)!Passes(Head(q.todo), q) THEN reqs' = (reqs \ {q}) \cup {n} ELSE reqs' = reqs \ {q}
        /\ UNCHANGED <<orgRoles, eco, sessions, tokens, enabled, plan, marketUp, used, unanswered, count>>
    BY <1>1, <2>1, <2>2 DEF Gate!Check, Gate!Next1, Gate!Drop, Gate!env
  <2>4. CASE Gate(c)!Passes(Head(q.todo), q)
    <3>1. Fine(c, n)
      BY <1>0, <2>1, <2>2, <2>3, <2>4, CheckKeeps
    <3>2. n.id = q.id
      BY <1>0, <2>2 DEF Fine, RequestOf, WholeRequest
    <3> QED  BY <1>0, <2>3, <2>4, <3>1, <3>2, MovesKeep
  <2>5. CASE ~Gate(c)!Passes(Head(q.todo), q)
    <3>1. ~Waits(c, q)
      BY <2>5 DEF Waits, Gate!Passes, Gate!MarketplaceEntitlementGuard
    <3> QED  BY <1>0, <2>3, <2>5, <3>1, MovesKeep
  <2> QED  BY <2>4, <2>5
<1>2. ASSUME Gate(c)!LookupFails(q)
      PROVE  GateIInv(c)' /\ \A r \in reqs : Waits(c, r) => \E n \in reqs' : n.id = r.id
  <2>1. /\ reqs' = reqs \ {q} /\ ~Waits(c, q)
        /\ count' = [count EXCEPT !.faults = @ + 1]
        /\ UNCHANGED <<orgRoles, eco, sessions, tokens, enabled, plan, marketUp, used, unanswered>>
    BY <1>2 DEF Gate!LookupFails, Gate!Drop, Gate!env, Waits
  <2> QED  BY <1>0, <2>1, MovesKeep
<1>3. ASSUME Gate(c)!Answer(q)
      PROVE  GateIInv(c)' /\ \A r \in reqs : Waits(c, r) => \E n \in reqs' : n.id = r.id
  <2>1. /\ reqs' = reqs \ {q} /\ ~Waits(c, q)
        /\ UNCHANGED <<orgRoles, eco, sessions, tokens, enabled, plan, marketUp, used, unanswered, count>>
    BY <1>3 DEF Gate!Answer, Gate!Drop, Gate!env, Waits
  <2> QED  BY <1>0, <2>1, MovesKeep
<1>4. PICK m : m = [q EXCEPT !.calls = Tail(q.calls)]
  OBVIOUS
<1>5. q.calls # <<>> => Fine(c, m) /\ m.id = q.id /\ Head(q.calls) \in Handled
  BY <1>0, <1>4, CallsKeep, TailInSeq
<1>6. ASSUME Gate(c)!Skip(q)
      PROVE  GateIInv(c)' /\ \A r \in reqs : Waits(c, r) => \E n \in reqs' : n.id = r.id
  <2>1. /\ q.calls # <<>> /\ reqs' = (reqs \ {q}) \cup {m}
        /\ UNCHANGED <<orgRoles, eco, sessions, tokens, enabled, plan, marketUp, used, unanswered, count>>
    BY <1>4, <1>6 DEF Gate!Skip, Gate!Next1, Gate!env
  <2> QED  BY <1>0, <1>5, <2>1, MovesKeep
<1>7. ASSUME Gate(c)!Send(q)
      PROVE  GateIInv(c)' /\ \A r \in reqs : Waits(c, r) => \E n \in reqs' : n.id = r.id
  <2>1. /\ q.calls # <<>> /\ reqs' = (reqs \ {q}) \cup {m} /\ Gate(c)!Effects(Head(q.calls), q)
        /\ UNCHANGED <<unanswered, count>>
    BY <1>4, <1>5, <1>7 DEF Gate!Send, Gate!Next1
  <2>2. UNCHANGED <<orgRoles, eco, sessions, tokens, enabled, plan, marketUp>>
    BY <2>1 DEF Gate!Effects
  <2>3. used' \in [c.orgs -> [Gate(c)!Dimensions -> Nat]]
    <3>1. UNCHANGED used \/ \E e : used' = [used EXCEPT ![e[1]][e[2]] = @ + 1]
      BY <2>1 DEF Gate!Effects
    <3>2. CASE UNCHANGED used
      BY <1>0, <3>2
    <3>3. ASSUME NEW e, used' = [used EXCEPT ![e[1]][e[2]] = @ + 1]
          PROVE  used' \in [c.orgs -> [Gate(c)!Dimensions -> Nat]]
      <4>1. PICK D, a, b : D = Gate(c)!Dimensions /\ a = e[1] /\ b = e[2]
        OBVIOUS
      <4>2. used \in [c.orgs -> [D -> Nat]] /\ used' = [used EXCEPT ![a][b] = @ + 1]
        BY <1>0, <3>3, <4>1
      <4>3. used' \in [c.orgs -> [D -> Nat]]
        BY <4>2, OneMore
      <4> QED  BY <4>1, <4>3
    <3> QED  BY <3>1, <3>2, <3>3
  <2> QED  BY <1>0, <1>5, <2>1, <2>2, <2>3, MovesKeep
<1>8. ASSUME Gate(c)!CallFails(q)
      PROVE  GateIInv(c)' /\ \A r \in reqs : Waits(c, r) => \E n \in reqs' : n.id = r.id
  <2>1. /\ q.calls # <<>> /\ ~Waits(c, q) /\ (reqs' = (reqs \ {q}) \cup {m} \/ reqs' = reqs \ {q})
        /\ count' = [count EXCEPT !.faults = @ + 1]
        /\ UNCHANGED <<orgRoles, eco, sessions, tokens, enabled, plan, marketUp, used, unanswered>>
    BY <1>4, <1>8 DEF Gate!CallFails, Gate!Next1, Gate!Drop, Gate!env, Waits
  <2> QED  BY <1>0, <1>5, <2>1, MovesKeep
<1> QED  BY <1>1, <1>2, <1>3, <1>6, <1>7, <1>8 DEF Gate!Step

LEMMA GateKept ==
  ASSUME NEW c, GateOf(c), GateIInv(c), Gate(c)!Next
  PROVE  GateIInv(c)' /\ Gate(c)!OutageServes
<1>1. ASSUME Gate(c)!Environment \/ Gate(c)!Receive
      PROVE  GateIInv(c)' /\ Kept
  BY <1>1, LoginsKeep, QuietChangesKeep, SeenChangesKeep, ReceiveKeeps DEF Gate!Environment
<1>2. ASSUME NEW q \in reqs, Gate(c)!Step(q)
      PROVE  GateIInv(c)' /\ \A r \in reqs : Waits(c, r) => \E n \in reqs' : n.id = r.id
  BY <1>2, StepsKeep
<1>3. (Kept \/ \A r \in reqs : Waits(c, r) => \E n \in reqs' : n.id = r.id) => Gate(c)!OutageServes
  BY DEF Kept, Waits, Gate!OutageServes
<1> QED  BY <1>1, <1>2, <1>3 DEF Gate!Next

(* The invariant implies what is promised of the gateway: a request that   *)
(* reached its handler has passed every guard of its route.                *)
LEMMA GateSafe ==
  ASSUME NEW c, GateOf(c), GateIInv(c)
  PROVE  /\ Gate(c)!TypeOK /\ Gate(c)!SignedOutRefused /\ Gate(c)!HoldersKeptApart
         /\ Gate(c)!RevokedRoleRefused /\ Gate(c)!FeatureOffRefused
         /\ Gate(c)!EntitledWhenRequired /\ Gate(c)!CommandsAnswered
<1>1. \A q \in reqs : Fine(c, q)
  BY DEF GateIInv
<1>2. ASSUME NEW q \in reqs, q.todo = <<>>, NEW g, Gate(c)!Guarded(q, g)
      PROVE  Past(q, g)
  <2>1. q.route.guards \in Seq(GuardNames)
    <3>1. q.route.guards \in Orders
      BY <1>1, RoutesFit DEF GateOf, Fine, RequestOf, Fit
    <3> QED  BY <3>1, GuardsOrdered DEF Ordered
  <2>2. DOMAIN q.route.guards = 1..Len(q.route.guards) /\ Len(q.route.guards) \in Nat
    BY <2>1
  <2>3. Done(q) = Len(q.route.guards)
    <3>1. Len(<<>>) = 0
      OBVIOUS
    <3> QED  BY <1>2, <2>2, <3>1 DEF Done
  <2> QED  BY <1>2, <2>2, <2>3 DEF Past, Gate!Guarded
<1>3. Gate(c)!TypeOK
  <2>1. \A q \in reqs : q.route \in c.offered /\ q.org \in c.orgs \cup {"no org"} /\ q.ever \subseteq AllRoles
    BY <1>1 DEF Fine, RequestOf
  <2> QED  BY <2>1, GateUnfolded DEF GateIInv, GateTypes, Gate!TypeOK, Gate!ECOSYSTEM_LEAD, Gate!ECOSYSTEM_MEMBER,
              ECOSYSTEM_LEAD, ECOSYSTEM_MEMBER
<1>4. Gate(c)!SignedOutRefused
  BY <1>1, <1>2 DEF Gate!SignedOutRefused, Gate!Admitted, Fine, Passed
<1>5. Gate(c)!HoldersKeptApart
  BY <1>1, <1>2, GateUnfolded DEF Gate!HoldersKeptApart, Gate!Admitted, Fine, Passed
<1>6. Gate(c)!RevokedRoleRefused
  BY <1>1, <1>2 DEF Gate!RevokedRoleRefused, Gate!Admitted, Fine, Passed
<1>7. Gate(c)!FeatureOffRefused
  BY <1>1, <1>2 DEF Gate!FeatureOffRefused, Gate!Admitted, Fine, Passed
<1>8. Gate(c)!EntitledWhenRequired
  BY <1>1, <1>2, GateUnfolded DEF Gate!EntitledWhenRequired, Gate!Admitted, Fine, Passed
<1>9. Gate(c)!CommandsAnswered
  BY DEF GateIInv, Gate!CommandsAnswered
<1> QED  BY <1>3, <1>4, <1>5, <1>6, <1>7, <1>8, <1>9

GatesIInv == \A p \in DOMAIN Gates : part = p => GateIInv(Gates[p])

LEMMA GatesGiven == \A p \in DOMAIN Gates : GateOf(Gates[p])
BY GatewaysAssumption DEF GateOf

LEMMA GatesBegin == GatewayInit => GatesIInv
BY GatesGiven, GateBegins DEF GatewayInit, GatesIInv

LEMMA GatesKept ==
  ASSUME GatesIInv, GatewayNext
  PROVE  GatesIInv' /\ \A p \in DOMAIN Gates : part = p => Gate(Gates[p])!OutageServes
<1>1. PICK p \in DOMAIN Gates : part = p /\ part' = p /\ Gate(Gates[p])!Next
  BY DEF GatewayNext
<1>2. GateIInv(Gates[p])
  BY <1>1 DEF GatesIInv
<1>3. GateIInv(Gates[p])' /\ Gate(Gates[p])!OutageServes
  BY <1>1, <1>2, GatesGiven, GateKept
<1> QED  BY <1>1, <1>3 DEF GatesIInv

LEMMA GatesRest ==
  ASSUME GatesIInv, UNCHANGED gatewayVars
  PROVE  GatesIInv'
<1>1. UNCHANGED <<part, orgRoles, eco, sessions, tokens, enabled, plan, marketUp, used, reqs, unanswered, count>>
  BY DEF gatewayVars
<1>2. ASSUME NEW c, GateIInv(c)
      PROVE  GateIInv(c)'
  <2>1. count \in [tokens : Nat, requests : Nat, changes : Nat, faults : Nat]
    BY <1>2 DEF GateIInv, GateTypes
  <2>2. count.tokens \in Nat /\ count.requests \in Nat
    BY <2>1
  <2>3. count.tokens <= count'.tokens /\ count.requests <= count'.requests
    BY <1>1, <2>2
  <2>4. GateTypes(c)'
    BY <1>1, <1>2 DEF GateIInv, GateTypes, AllRoles, ECOSYSTEM_LEAD, ECOSYSTEM_MEMBER, Gate!Features, Gate!Dimensions
  <2> QED  BY <1>1, <1>2, <2>3, <2>4, RequestsWait
<1> QED  BY <1>1, <1>2 DEF GatesIInv

(* For every set of users, organizations, routes and roles and every       *)
(* number of requests, changes and faults: a request that reached its      *)
(* handler had a live session when it arrived, a role in that very         *)
(* organization, no holder account where none is allowed, the feature on   *)
(* and the plan allowing it, as its route requires; and every command sent *)
(* has a listener.                                                         *)
THEOREM GatewayStaysSafe == GatewaySpec => []GatewayInv
<1>1. GatesIInv /\ [GatewayNext]_gatewayVars => GatesIInv'
  BY GatesKept, GatesRest
<1>2. GatesIInv => GatewayInv
  BY GatesGiven, GateSafe DEF GatesIInv, GatewayInv
<1> QED  BY <1>1, <1>2, GatesBegin, PTL DEF GatewaySpec

(* No step turns away a request that waits at the entitlement guard while  *)
(* an optional marketplace does not answer.                                *)
THEOREM OutagesServe == GatewaySpec => OutageServes
<1>1. GatesIInv /\ [GatewayNext]_gatewayVars => GatesIInv'
  BY GatesKept, GatesRest
<1>2. GatesIInv /\ [GatewayNext]_gatewayVars =>
        [\A p \in DOMAIN Gates : part = p => Gate(Gates[p])!OutageServes]_gatewayVars
  BY GatesKept
<1> QED  BY <1>1, <1>2, GatesBegin, PTL DEF GatewaySpec, OutageServes

=============================================================================

------------------------- MODULE ProofResponseCode -------------------------
(***************************************************************************)
(* The single-use response_code of a same-device proof request:            *)
(* ProofResponseCodeService and its callers in the verification service,   *)
(* attachRedirect(), webhookProofPresentation() and                        *)
(* getProofCallbackResult(), for one proof request (one thread and token). *)
(*                                                                         *)
(* Redis holds the session under the token's key and the token under the   *)
(* thread's index key; both expire.  Webhooks of the agent, which may      *)
(* repeat or contradict each other, and polls of the verifier's page run   *)
(* on any replica; each of their awaits is a step.  A Redis command may    *)
(* fail before or after it took effect.                                    *)
(***************************************************************************)
EXTENDS Integers

CONSTANTS
    Handler,        \* webhook calls for the thread
    Poller,         \* pages that ask for the result
    PendingSetting, \* PROOF_RESPONSE_CODE_PENDING_TTL_SECONDS
    ResultSetting,  \* PROOF_RESPONSE_CODE_RESULT_TTL_SECONDS
    DefaultPending, \* DEFAULT_PENDING_TTL_SECONDS
    DefaultResult,  \* DEFAULT_RESULT_TTL_SECONDS
    MaxTtl,         \* MAX_TTL_SECONDS
    MaxTime,        \* bound: the clock stops here
    MaxFailures     \* bound: failing Redis and database calls

ASSUME SettingAssumption == PendingSetting \in Int /\ ResultSetting \in Int
ASSUME TtlAssumption == MaxTtl \in Nat /\ DefaultPending \in 1..MaxTtl /\ DefaultResult \in 1..MaxTtl
ASSUME BoundAssumption == MaxTime \in Nat /\ MaxFailures \in Nat

ResolveTtl(value, fallback) == IF value \in 1..MaxTtl THEN value ELSE fallback
pendingTtl == ResolveTtl(PendingSetting, DefaultPending)
resultTtl == ResolveTtl(ResultSetting, DefaultResult)

VARIABLES
    now,       \* seconds
    request,   \* where the proof request is: "new", "plain" or "redirect" once answered
    session,   \* the value of the token's key: a status
    until,     \* when that key expires
    index,     \* whether the thread's index key is set
    indexUntil,\* when that key expires
    createdAt, \* when the session was created
    verdict,   \* the terminal status the session took (history)
    handler,   \* where each webhook call is
    reports,   \* the terminal status a webhook call reports
    read,      \* the session value it compares with
    poller,    \* where each page is
    found,     \* the status a page has read
    answer,    \* the last answer a page got
    delivered, \* how many times the result was handed out (history)
    lost,      \* whether a consuming transaction took effect without an answer (history)
    failures

clockVars == <<now, createdAt>>
redisVars == <<session, until, index, indexUntil>>
handlerVars == <<handler, reports, read>>
pollerVars == <<poller, found, answer>>
historyVars == <<verdict, delivered, lost>>
vars == <<clockVars, request, redisVars, handlerVars, pollerVars, historyVars, failures>>

Terminal == {"completed", "failed"}
Status == {"none", "pending"} \cup Terminal

(* What GET returns: an expired key is gone. *)
Token == IF now < until THEN session ELSE "none"
Indexed == index /\ now < indexUntil

Init ==
    /\ now = 0 /\ createdAt = 0
    /\ request = "new"
    /\ session = "none" /\ until = 0
    /\ index = FALSE /\ indexUntil = 0
    /\ handler = [h \in Handler |-> "idle"]
    /\ reports = [h \in Handler |-> "none"]
    /\ read = [h \in Handler |-> "none"]
    /\ poller = [p \in Poller |-> "idle"]
    /\ found = [p \in Poller |-> "none"]
    /\ answer = [p \in Poller |-> "none"]
    /\ verdict = "none" /\ delivered = 0 /\ lost = FALSE
    /\ failures = 0

Fail == failures < MaxFailures /\ failures' = failures + 1
NoFail == UNCHANGED failures

-----------------------------------------------------------------------------
(* createSession(): one transaction sets both keys. *)
IndexForResult ==
    /\ session' = "pending" /\ until' = now + pendingTtl
    /\ index' = TRUE /\ indexUntil' = now + resultTtl
    /\ createdAt' = now

SetSession ==
    /\ session' = "pending" /\ until' = now + pendingTtl
    /\ index' = TRUE /\ indexUntil' = now + pendingTtl
    /\ createdAt' = now

(* attachRedirect(): the invitation is answered with the code, or without   *)
(* one if the agent named no thread or the store failed.                    *)
AttachRedirect ==
    /\ request = "new"
    /\ \/ NoFail /\ SetSession /\ request' = "redirect"
       \/ NoFail /\ UNCHANGED <<redisVars, createdAt>> /\ request' = "plain"
       \/ Fail /\ SetSession /\ request' = "plain"
    /\ UNCHANGED <<now, handlerVars, pollerVars, historyVars>>

-----------------------------------------------------------------------------
(* A webhook call.  The wallet can act once the invitation was answered.    *)

(* toTerminalResponseCodeStatus(), over the states of a presentation.       *)
RawState(state, isVerified) == state

TerminalStatus(state, isVerified) ==
    CASE state = "done" /\ isVerified -> "completed"
      [] state = "done" /\ ~isVerified -> "failed"
      [] state \in {"declined", "abandoned"} -> "failed"
      [] OTHER -> "none"

States == {"presentation-received", "done", "declined", "abandoned"}

(* webhookProofPresentation() stores the presentation, then goes on if the  *)
(* state is terminal; a failing store ends the call.                        *)
Webhook(h) ==
    /\ handler[h] = "idle" /\ request # "new"
    /\ \E state \in States, isVerified \in BOOLEAN :
         LET s == TerminalStatus(state, isVerified)
         IN  \/ /\ NoFail
                /\ reports' = [reports EXCEPT ![h] = s]
                /\ handler' = [handler EXCEPT ![h] = IF s = "none" THEN "end" ELSE "index"]
             \/ /\ Fail
                /\ handler' = [handler EXCEPT ![h] = "end"]
                /\ UNCHANGED reports
    /\ UNCHANGED <<clockVars, request, redisVars, read, pollerVars, historyVars>>

(* markTerminalByThreadId(): GET the token by the thread ... *)
ReadIndex(h) ==
    /\ handler[h] = "index"
    /\ \/ NoFail /\ handler' = [handler EXCEPT ![h] = IF Indexed THEN "token" ELSE "end"]
       \/ Fail /\ handler' = [handler EXCEPT ![h] = "end"]
    /\ UNCHANGED <<clockVars, request, redisVars, reports, read, pollerVars, historyVars>>

(* ... GET the session, and stop if it is gone or no longer pending ... *)
AnyStatus(s) == s # "none"

MayMark(s) == s = "pending"

ReadToken(h) ==
    /\ handler[h] = "token"
    /\ \/ NoFail /\ handler' = [handler EXCEPT ![h] = IF MayMark(Token) THEN "mark" ELSE "end"]
       \/ Fail /\ handler' = [handler EXCEPT ![h] = "end"]
    /\ read' = [read EXCEPT ![h] = Token]
    /\ UNCHANGED <<clockVars, request, redisVars, reports, pollerVars, historyVars>>

(* ... and MARK_TERMINAL_SCRIPT sets it, if it still has the value read, and *)
(* gives both keys the result's time to live.                                *)
MarkAlways(h) ==
    /\ session' = reports[h] /\ until' = now + resultTtl
    /\ index' = Indexed /\ indexUntil' = now + resultTtl
    /\ verdict' = reports[h]

MarkTerminalScript(h) ==
    IF Token = read[h]
    THEN /\ session' = reports[h] /\ until' = now + resultTtl
         /\ index' = Indexed /\ indexUntil' = now + resultTtl
         /\ verdict' = reports[h]
    ELSE UNCHANGED <<redisVars, verdict>>

MarkTerminal(h) ==
    /\ handler[h] = "mark"
    /\ \/ NoFail /\ MarkTerminalScript(h)
       \/ Fail /\ MarkTerminalScript(h)
       \/ Fail /\ UNCHANGED <<redisVars, verdict>>
    /\ handler' = [handler EXCEPT ![h] = "end"]
    /\ UNCHANGED <<clockVars, request, reports, read, pollerVars, delivered, lost>>

-----------------------------------------------------------------------------
(* A page that has the code polls getProofCallbackResult(): GET ... *)
Answer(p, a) == poller' = [poller EXCEPT ![p] = "idle"] /\ answer' = [answer EXCEPT ![p] = a]

(* A store that cannot be reached is not reported as an expired code. *)
AsExpired(p) == Answer(p, "expired")

Unavailable(p) == Answer(p, "unavailable")

Poll(p) ==
    /\ poller[p] = "idle" /\ request = "redirect"
    /\ \/ /\ NoFail /\ Token = "none"
          /\ Answer(p, "expired") /\ UNCHANGED found
       \/ /\ NoFail /\ Token = "pending"
          /\ Answer(p, "pending") /\ UNCHANGED found
       \/ /\ NoFail /\ Token \in Terminal
          /\ poller' = [poller EXCEPT ![p] = "consume"]
          /\ found' = [found EXCEPT ![p] = Token]
          /\ UNCHANGED answer
       \/ /\ Fail
          /\ Unavailable(p) /\ UNCHANGED found
    /\ UNCHANGED <<clockVars, request, redisVars, handlerVars, historyVars>>

(* ... then consume(): one transaction deletes both keys, and the number of *)
(* tokens it deleted tells whether this page is the one to answer.  A lost  *)
(* answer is reported, or the client sends the transaction again and finds  *)
(* nothing to delete.                                                       *)
DeleteSession == session' = "none" /\ index' = FALSE /\ UNCHANGED <<until, indexUntil>>

DeletedAny == TRUE
Deleted == Token # "none"

Consume(p) ==
    /\ poller[p] = "consume"
    /\ \/ /\ NoFail
          /\ DeleteSession
          /\ \/ Deleted /\ Answer(p, found[p]) /\ delivered' = delivered + 1
             \/ ~Deleted /\ Answer(p, "expired") /\ UNCHANGED delivered
          /\ UNCHANGED lost
       \/ /\ Fail
          /\ \/ /\ DeleteSession /\ lost' = (lost \/ Deleted)
                /\ Unavailable(p) \/ Answer(p, "expired")
             \/ UNCHANGED <<redisVars, lost>> /\ Unavailable(p)
          /\ UNCHANGED delivered
    /\ found' = [found EXCEPT ![p] = "none"]
    /\ UNCHANGED <<clockVars, request, handlerVars, verdict>>

Tick ==
    /\ now < MaxTime
    /\ now' = now + 1
    /\ UNCHANGED <<createdAt, request, redisVars, handlerVars, pollerVars, historyVars, failures>>

Next ==
    \/ AttachRedirect
    \/ \E h \in Handler : Webhook(h) \/ ReadIndex(h) \/ ReadToken(h) \/ MarkTerminal(h)
    \/ \E p \in Poller : Poll(p) \/ Consume(p)
    \/ Tick

Spec == Init /\ [][Next]_vars
-----------------------------------------------------------------------------
(* Types of the state. *)
TypeOK ==
    /\ now \in Nat /\ createdAt \in Nat
    /\ request \in {"new", "plain", "redirect"}
    /\ session \in Status /\ until \in Nat
    /\ index \in BOOLEAN /\ indexUntil \in Nat
    /\ handler \in [Handler -> {"idle", "index", "token", "mark", "end"}]
    /\ reports \in [Handler -> {"none"} \cup Terminal]
    /\ read \in [Handler -> Status]
    /\ poller \in [Poller -> {"idle", "consume"}]
    /\ found \in [Poller -> {"none"} \cup Terminal]
    /\ answer \in [Poller -> Status \cup {"expired", "unavailable"}]
    /\ verdict \in {"none"} \cup Terminal
    /\ delivered \in Nat
    /\ lost \in BOOLEAN
    /\ failures \in 0..MaxFailures

(* The result is handed out once, whichever pages of whichever replicas     *)
(* consume() it at the same time, and then the session is gone for good: no *)
(* webhook that was between its reads and its script brings it back.        *)
SingleUse == delivered <= 1 /\ (delivered = 1 => Token = "none")

(* What a page is told is the verdict of the first webhook that was applied: *)
(* a later one changes neither the session nor what was read from it.        *)
AnswersAgree == \A p \in Poller : answer[p] \in Terminal => answer[p] = verdict

(* A session lives at most for both times to live: it is never extended      *)
(* twice, by webhooks that repeat.                                           *)
LifetimeBounded == Token # "none" => now < createdAt + pendingTtl + resultTtl

(* A session that waits for its verdict can be found by its thread, so a     *)
(* webhook never misses it.                                                  *)
PendingIsFindable == Token = "pending" => Indexed

(* A page is told "expired" only if the result was handed out, was lost with *)
(* the answer of a transaction, or ran out of time.                          *)
ExpiredIsTrue ==
    \A p \in Poller : answer[p] = "expired" => delivered = 1 \/ lost \/ now >= until
=============================================================================

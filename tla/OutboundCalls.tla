---------------------------- MODULE OutboundCalls ----------------------------
(***************************************************************************)
(* One call to Telegram: TelegramApiClient on top of OutboundHttpClient.   *)
(* A query (getUpdates) may be sent again after any passing failure, a     *)
(* mutation (sendMessage, editMessageText and the like) only after an      *)
(* answer that says it was turned away for its rate.                       *)
(*                                                                         *)
(* Telegram and the network are external: a request may be lost, its       *)
(* answer may be lost, and it may be carried out long after the client     *)
(* gave up on it.  The timer covers an attempt until the headers of its    *)
(* answer are there; nothing covers the body.                              *)
(***************************************************************************)
EXTENDS Naturals, FiniteSets, FiniteSetsExt

CONSTANTS
    Retries,    \* the values of maxRetries that callers choose
    DelayCap,   \* MAX_OUTBOUND_RETRY_DELAY_MS, in steps of a clock
    Delays,     \* what Telegram may ask to wait
    NoDelay     \* nothing asked, or nothing that can be read

ASSUME OutboundAssumption ==
    /\ Retries \subseteq 0..3
    /\ DelayCap \in Nat /\ Delays \subseteq Nat /\ NoDelay \notin Nat

VARIABLES
    call,      \* [kind, retries, stage, attempt, wait, result]
    cut,       \* [timer: whether it fired, abort: whether the caller aborted, sent: the
               \*  attempts that went out, before: those that did before the abort]
    wire,      \* attempts that Telegram has not dealt with
    answer,    \* what has come back for the attempt under way
    effects,   \* how often Telegram carried the call out
    asked      \* how long the answer that came still asks to be left alone

outboundVars == <<call, cut, wire, answer, effects, asked>>

NoAnswer == [status |-> "none", body |-> NoDelay, header |-> NoDelay]
Idle == [kind |-> "query", retries |-> 0, stage |-> "idle", attempt |-> 0, wait |-> 0, result |-> "none"]

\* Definite refusals, a refusal for the rate, and the failures that pass.
Statuses == {"ok", "unreadable", "refused", "limited", "failed"}

Reaches(stage) == call' = [call EXCEPT !.stage = stage]
Throws(result) == call' = [call EXCEPT !.stage = "ended", !.result = result]

MaximumAttempts == call.retries + 1
Last == call.attempt >= MaximumAttempts

\* A slip: a mutation is also sent again after an answer that says it failed.
RetryableFailed(status) == status \in {"limited", "failed"}

\* isRetryableResponse: "rate-limit-only" for mutations, "safe" for queries.
Retryable(status) ==
    IF call.kind = "mutation" THEN status = "limited" ELSE status \in {"limited", "failed"}

\* The same question when no answer came.
RetryableError(kind) == call.kind = "query" /\ kind # "ABORTED"

Backoff(attempt) == Min({2 ^ (attempt - 1), 8})

\* Several hints are lower bounds, each of its own.
RetryDelay(response) ==
    LET hints == {response.body, response.header} \ {NoDelay}
    IN IF hints = {} THEN Backoff(call.attempt) ELSE Max(hints)

\* The longest that an answer asks to wait; a limit without a hint asks for nothing.
Asks(response) == Max({0} \cup ({response.body, response.header} \ {NoDelay}))

-----------------------------------------------------------------------------
(* The client *)

\* What TelegramService asks for; the rest is getUpdates.
Mutations == {"sendMessage", "answerCallbackQuery", "editMessageText", "editMessageReplyMarkup"}

\* TelegramApiClient.call: a call with a body is a mutation.
Kind(method) == IF method \in Mutations THEN "mutation" ELSE "query"

BeginCall(kind, retries) ==
    /\ call.stage = "idle"
    /\ call' = [Idle EXCEPT !.kind = kind, !.retries = retries, !.stage = "attempting", !.attempt = 1]
    /\ UNCHANGED <<cut, wire, answer, effects, asked>>

\* The head of the loop, up to the request that goes out.
Attempt ==
    /\ call.stage = "attempting"
    /\ IF cut.abort
       THEN Throws("ABORTED") /\ UNCHANGED <<cut, wire, answer>>
       ELSE /\ Reaches("awaiting")
            /\ wire' = wire \cup {call.attempt}
            /\ answer' = NoAnswer
            /\ cut' = [cut EXCEPT !.timer = FALSE, !.sent = @ + 1]
    /\ UNCHANGED <<effects, asked>>

TimerFires ==
    /\ call.stage = "awaiting" /\ ~cut.timer
    /\ cut' = [cut EXCEPT !.timer = TRUE]
    /\ UNCHANGED <<call, wire, answer, effects, asked>>

\* The caller's signal, at any moment.
Abort ==
    /\ call.stage \notin {"idle", "ended"} /\ ~cut.abort
    /\ cut' = [cut EXCEPT !.abort = TRUE, !.before = cut.sent]
    /\ UNCHANGED <<call, wire, answer, effects, asked>>

\* fetch answers; the timer and the caller's signal are let go before the body is read.
Respond ==
    /\ call.stage = "awaiting" /\ answer # NoAnswer /\ ~cut.timer
    /\ CASE answer.status \in {"ok", "unreadable"} -> Reaches("reading")
         [] Retryable(answer.status) -> Reaches("hints")
         [] OTHER -> Throws(answer.status)
    /\ asked' = Asks(answer)
    /\ UNCHANGED <<cut, wire, answer, effects>>

\* retryDelay reads the body for a hint; the call waits, or gives up.
ReadHints ==
    /\ call.stage = "hints"
    /\ IF ~Last /\ RetryDelay(answer) <= DelayCap
       THEN IF cut.abort THEN Throws("ABORTED")
            ELSE call' = [call EXCEPT !.stage = "waiting", !.wait = RetryDelay(answer)]
       ELSE Throws(answer.status)
    /\ UNCHANGED <<cut, wire, answer, effects, asked>>

\* fetch fails: the timer fired, the caller aborted, or the connection broke.
Fail ==
    /\ call.stage = "awaiting"
    /\ LET kind == IF cut.timer THEN "TIMEOUT" ELSE IF cut.abort THEN "ABORTED" ELSE "NETWORK"
       IN IF RetryableError(kind) /\ ~Last
          THEN IF cut.abort THEN Throws("ABORTED")
               ELSE call' = [call EXCEPT !.stage = "waiting", !.wait = Backoff(call.attempt)]
          ELSE Throws(kind)
    /\ UNCHANGED <<cut, wire, answer, effects, asked>>

\* An abort ends the waiting; else it lasts as long as it should.
EndWait ==
    /\ call.stage = "waiting"
    /\ \/ cut.abort /\ Throws("ABORTED")
       \/ ~cut.abort /\ call.wait = 0 /\ call' = [call EXCEPT !.stage = "attempting", !.attempt = @ + 1]
    /\ UNCHANGED <<cut, wire, answer, effects, asked>>

\* A good status needs a good body.
ReadBody ==
    /\ call.stage = "reading"
    /\ Throws(IF answer.status = "ok" THEN "ok" ELSE "TELEGRAM")
    /\ UNCHANGED <<cut, wire, answer, effects, asked>>

-----------------------------------------------------------------------------
(* Telegram *)

Responses(status) ==
    LET hints == IF status \in {"limited", "failed"} THEN Delays \cup {NoDelay} ELSE {NoDelay}
    IN [status: {status}, body: hints, header: hints]

\* A request that is limited or refused was not carried out; after a failure, or without a
\* good answer, it may have been.
Carried(status) ==
    CASE status = "ok" -> {1}
      [] status \in {"unreadable", "failed"} -> {0, 1}
      [] OTHER -> {0}

\* The answer reaches the client only while it waits for that attempt.
Serve(a) ==
    /\ a \in wire
    /\ wire' = wire \ {a}
    /\ \E status \in Statuses:
          /\ \E n \in Carried(status): effects' = effects + n
          /\ \/ UNCHANGED answer
             \/ /\ call.stage = "awaiting" /\ call.attempt = a
                /\ \E response \in Responses(status): answer' = response
    /\ UNCHANGED <<call, cut, asked>>

RequestLost(a) ==
    /\ a \in wire
    /\ wire' = wire \ {a}
    /\ UNCHANGED <<call, cut, answer, effects, asked>>

\* What is waited for, on both sides.
OutboundTick ==
    /\ asked > 0 \/ (call.stage = "waiting" /\ call.wait > 0)
    /\ asked' = Max({0, asked - 1})
    /\ call' = [call EXCEPT !.wait = Max({0, @ - 1})]
    /\ UNCHANGED <<cut, wire, answer, effects>>

-----------------------------------------------------------------------------
OutboundInit ==
    /\ call = Idle /\ cut = [timer |-> FALSE, abort |-> FALSE, sent |-> 0, before |-> 0]
    /\ wire = {} /\ answer = NoAnswer /\ effects = 0 /\ asked = 0

OutboundNext ==
    \/ \E method \in Mutations \cup {"getUpdates"}, retries \in Retries: BeginCall(Kind(method), retries)
    \/ Attempt \/ TimerFires \/ Abort \/ Respond \/ ReadHints \/ Fail \/ EndWait \/ ReadBody
    \/ \E a \in wire: Serve(a) \/ RequestLost(a)
    \/ OutboundTick

OutboundSpec == OutboundInit /\ [][OutboundNext]_outboundVars

-----------------------------------------------------------------------------
\* However often a message is tried, it is not sent twice.
CarriedOutOnce == call.kind = "mutation" => effects <= 1

\* What the call says happened did happen; a message that was refused is not on its way.
AnswersHold ==
    /\ call.result = "ok" => effects >= 1
    /\ call.kind = "mutation" /\ call.result \in {"refused", "limited"} => effects = 0 /\ wire = {}

\* Telegram is left alone for as long as it asked, by either of the two hints.
Patient ==
    /\ call.stage = "waiting" => call.wait >= asked
    /\ call.stage = "attempting" => asked = 0

\* Nothing goes out after the caller aborted.
AbortHeeded == cut.abort => cut.sent = cut.before

\* outbound-http-client.ts, telegram.service.ts: retries, hints, timeouts and aborts.
OutboundInv == CarriedOutOnce /\ AnswersHold /\ Patient /\ AbortHeeded

-----------------------------------------------------------------------------
(* The inductive invariant behind it *)

CallResults == {"none", "ABORTED", "TIMEOUT", "NETWORK", "TELEGRAM"} \cup Statuses
CallStages == {"idle", "attempting", "awaiting", "hints", "waiting", "reading", "ended"}

CallRecords ==
    [kind: {"query", "mutation"}, retries: 0..3, stage: CallStages, attempt: 0..4, wait: Nat, result: CallResults]
Answers == [status: Statuses \cup {"none"}, body: Delays \cup {NoDelay}, header: Delays \cup {NoDelay}]

OutboundTypeOK ==
    /\ call \in CallRecords
    /\ cut \in [timer: BOOLEAN, abort: BOOLEAN, sent: Nat, before: Nat]
    /\ wire \in SUBSET (1..4) /\ answer \in Answers
    /\ effects \in Nat /\ asked \in Nat

\* An attempt is under way from the start of the call, and never more than were allowed.
AttemptsAllowed ==
    IF call.stage = "idle" THEN wire = {} /\ effects = 0 /\ asked = 0
    ELSE /\ call.attempt \in 1..(call.retries + 1)
         /\ call.stage = "waiting" => call.attempt <= call.retries

\* A message is on its way, or it was dealt with, or it waits to be tried once more:
\* never two of these, since it is tried again only if it was turned away.
OneOfAMessage ==
    /\ call.kind = "mutation" =>
          /\ (wire = {} /\ effects <= 1) \/ (wire = {call.attempt} /\ effects = 0)
          /\ call.stage \in {"attempting", "hints", "waiting"} => effects = 0 /\ wire = {}
          /\ call.stage = "awaiting" /\ answer # NoAnswer => wire = {}
          /\ call.stage = "hints" => answer.status = "limited"

\* What an answer says is so.
AnswersMeant ==
    /\ answer.status = "none" => answer = NoAnswer
    /\ call.stage \in {"awaiting", "reading"} /\ answer.status = "ok" => effects >= 1
    /\ call.stage = "awaiting" /\ call.kind = "mutation" /\ answer.status \in {"refused", "limited"}
          => effects = 0
    /\ call.stage = "reading" => answer.status \in {"ok", "unreadable"}
    /\ call.stage = "hints" => answer.status \in {"limited", "failed"}
    /\ call.result = "none" <=> call.stage # "ended"

\* What Telegram asks for counts from the answer on.
AskedFor ==
    /\ call.stage \in {"attempting", "awaiting"} => asked = 0
    /\ call.stage = "hints" => asked <= Asks(answer)

OutboundIndInv ==
    /\ OutboundTypeOK /\ AttemptsAllowed /\ OneOfAMessage /\ AnswersMeant /\ AskedFor
    /\ OutboundInv
=============================================================================

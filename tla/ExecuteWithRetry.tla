--------------------------- MODULE ExecuteWithRetry ---------------------------
(***************************************************************************)
(* One call of execute_with_retry (transport.py): the attempt loop, the    *)
(* back-off between attempts, the service_tier fallback after the loop and *)
(* the error the caller finally sees.  The server, and the network, answer *)
(* each request with any Answer of RetryPolicy, and the task may be        *)
(* cancelled at every await.                                               *)
(*                                                                         *)
(* A step runs to the next await, except that leaving the loop and acting  *)
(* on it (FlexSend, GiveUp) are two steps: nothing else runs between them. *)
(***************************************************************************)
EXTENDS RetryPolicy, Sequences

CONSTANTS
    RetryChoices,   \* values of max_retries a caller may ask for
    TimeoutSet      \* does the caller pass options.timeout?

ASSUME RetryChoicesAssumption == RetryChoices \subseteq Int
ASSUME TimeoutAssumption == TimeoutSet \in BOOLEAN

VARIABLES
    call,       \* the call's arguments: max_retries, service_tier in the body
    pc,         \* where the call is suspended
    attempt,    \* the loop counter
    last_error, \* last_error of the code
    delay,      \* what asyncio.sleep was last given
    result,     \* what the call returned or raised
    requests,   \* history: every request put on the wire
    answers     \* history: how the exchanges ended

vars == <<call, pc, attempt, last_error, delay, result, requests, answers>>

Call == [max_retries: RetryChoices, service_tier: BOOLEAN]
Request == [tier: BOOLEAN, waited: 0..MaxBackoff]
Result == [kind: {"none", "response", "auth", "provider", "exhausted", "too_large",
                  "unhandled", "hook", "cancelled"},
           error: Error]
Pending == [kind |-> "none", error |-> NoError]

Init ==
    /\ call \in Call
    /\ pc = "ready"
    /\ attempt = 0
    /\ last_error = NoError
    /\ delay = 0
    /\ result = Pending
    /\ requests = <<>>
    /\ answers = <<>>

Settle(kind, e) ==
    /\ pc' = "done"
    /\ result' = [kind |-> kind, error |-> e]
-----------------------------------------------------------------------------
(* Loop head: one log line, then the request.                              *)
Send ==
    /\ pc = "ready"
    /\ attempt <= call.max_retries
    /\ requests' = Append(requests, [tier |-> call.service_tier, waited |-> delay])
    /\ pc' = "waiting"
    /\ UNCHANGED <<call, attempt, last_error, delay, result, answers>>

(* A slip: a loop that never notices its range is used up.                 *)
SlipSpin == pc = "ready" /\ attempt > call.max_retries /\ UNCHANGED vars

(* range(max_retries + 1) is empty when max_retries is negative.           *)
EmptyLoop ==
    /\ pc = "ready"
    /\ attempt > call.max_retries
    /\ pc' = "left_loop"
    /\ UNCHANGED <<call, attempt, last_error, delay, result, requests, answers>>

(* A 2xx response: the size cap is enforced after the try block, so its    *)
(* error is not caught by the retry handlers.                              *)
ReceiveSuccess(a) ==
    /\ pc = "waiting"
    /\ a \in Success
    /\ IF a.oversize THEN Settle("too_large", RaisedBy(a)) ELSE Settle("response", NoError)
    /\ answers' = Append(answers, a)
    /\ UNCHANGED <<call, attempt, last_error, delay, requests>>

(* 401/403 and exceptions no handler names leave the call at once.         *)
ReceiveFatal(a) ==
    /\ pc = "waiting"
    /\ a \in Refusal \cup Broken
    /\ RaisedBy(a).kind \in {"auth", "unhandled"}
    /\ Settle(RaisedBy(a).kind, RaisedBy(a))
    /\ answers' = Append(answers, a)
    /\ UNCHANGED <<call, attempt, last_error, delay, requests>>

(* Provider and connection errors: retry after a delay, or leave the loop. *)
(* The on_retry callback runs before the sleep and may itself raise.       *)
ReceiveError(a) ==
    /\ pc = "waiting"
    /\ a \in Refusal \cup Broken
    /\ RaisedBy(a).kind \in {"provider", "transport"}
    /\ last_error' = RaisedBy(a)
    /\ answers' = Append(answers, a)
    /\ IF should_retry(call.max_retries, RaisedBy(a), attempt)
       THEN \/ /\ delay' \in RetrySleep(RaisedBy(a), attempt)
               /\ pc' = "backoff"
               /\ UNCHANGED result
            \/ /\ Settle("hook", NoError)
               /\ UNCHANGED delay
       ELSE /\ pc' = "left_loop"
            /\ UNCHANGED <<delay, result>>
    /\ UNCHANGED <<call, attempt, requests>>

Wake ==
    /\ pc = "backoff"
    /\ attempt' = attempt + 1
    /\ pc' = "ready"
    /\ UNCHANGED <<call, last_error, delay, result, requests, answers>>
-----------------------------------------------------------------------------
fallback_eligible ==
    /\ call.max_retries > 0
    /\ call.service_tier
    /\ Transient(last_error)

(* One more request with service_tier removed from the body.  This send    *)
(* has no delay.                                                           *)
FlexSend ==
    /\ pc = "left_loop"
    /\ fallback_eligible
    /\ requests' = Append(requests, [tier |-> FALSE, waited |-> 0])
    /\ pc' = "flex_waiting"
    /\ UNCHANGED <<call, attempt, last_error, delay, result, answers>>

(* A slip: every failure is reported as exhausted retries.                 *)
SlipWrapAll(final_error) == Settle("exhausted", final_error)

(* The tail of the function: a provider error that was never retryable (or *)
(* max_retries = 0) is raised as it is, anything else is wrapped.          *)
RaiseFinal(final_error) ==
    IF last_error.kind = "provider" /\ ~should_retry(call.max_retries, last_error, 0)
    THEN Settle("provider", last_error)
    ELSE Settle("exhausted", final_error)

GiveUp ==
    /\ pc = "left_loop"
    /\ ~fallback_eligible
    /\ RaiseFinal(last_error)
    /\ UNCHANGED <<call, attempt, last_error, delay, requests, answers>>

(* `except Exception` around the fallback takes every failure, 401/403 and *)
(* the size cap included, as fallback_error.                               *)
FlexReceive(a) ==
    /\ pc = "flex_waiting"
    /\ a \in Answer
    /\ IF Failed(a) THEN RaiseFinal(RaisedBy(a)) ELSE Settle("response", NoError)
    /\ answers' = Append(answers, a)
    /\ UNCHANGED <<call, attempt, last_error, delay, requests>>

(* CancelledError is not an Exception: no handler keeps the call alive.    *)
Cancel ==
    /\ pc \in {"waiting", "backoff", "flex_waiting"}
    /\ Settle("cancelled", NoError)
    /\ UNCHANGED <<call, attempt, last_error, delay, requests, answers>>

Receive(a) ==
    ReceiveSuccess(a) \/ ReceiveFatal(a) \/ ReceiveError(a) \/ FlexReceive(a)

Terminated == pc = "done" /\ UNCHANGED vars

Next ==
    \/ Send \/ EmptyLoop \/ Wake \/ FlexSend \/ GiveUp \/ Cancel
    \/ \E a \in Answer : Receive(a)
    \/ Terminated

Spec == Init /\ [][Next]_vars

(***************************************************************************)
(* Scheduling: the event loop runs a ready task and a sleep ends.  httpx   *)
(* gives up on a silent server only when the request carries a timeout;    *)
(* execute_with_retry passes timeout=None otherwise, which switches the    *)
(* client's own timeout off.                                               *)
(***************************************************************************)
Own == Send \/ EmptyLoop \/ Wake \/ FlexSend \/ GiveUp
FairSpec ==
    /\ Spec
    /\ WF_vars(Own)
    /\ TimeoutSet => WF_vars(\E a \in Answer : Receive(a))
-----------------------------------------------------------------------------
TypeOK ==
    /\ call \in Call
    /\ pc \in {"ready", "waiting", "backoff", "left_loop", "flex_waiting", "done"}
    /\ attempt \in Nat
    /\ last_error \in Error
    /\ delay \in 0..MaxBackoff
    /\ result \in Result
    /\ requests \in Seq(Request)
    /\ answers \in Seq(Answer)

InFlight == pc \in {"waiting", "flex_waiting"}
TransientAnswer(a) == Failed(a) /\ Transient(RaisedBy(a))
Attempts == call.max_retries + 1

(* A request that drops the caller's service_tier is the fallback.         *)
IsFallback(i) == call.service_tier /\ ~requests[i].tier

(***************************************************************************)
(* The wire sees at most max_retries + 1 requests, and one more only when  *)
(* the body carried a service_tier: max_retries = 0 means exactly one      *)
(* request whatever happens (transport.py:884-887).                        *)
(***************************************************************************)
RequestBudget ==
    \/ Len(requests) = 0
    \/ Len(requests) <= Attempts
    \/ /\ Len(requests) = Attempts + 1
       /\ call.service_tier
       /\ call.max_retries > 0

(***************************************************************************)
(* Nothing is sent after an answer that settles the call: every exchange   *)
(* but the last one on the wire ended in a failure worth retrying.  A      *)
(* second request after a success, a 401 or a 400 would bill or lock out   *)
(* the caller twice.                                                       *)
(***************************************************************************)
OnlyTransientIsRepeated ==
    \A i \in 1..Len(answers) : i < Len(requests) => TransientAnswer(answers[i])

(***************************************************************************)
(* The tier is given up only when the caller's attempts with it are used   *)
(* up, and then once (transport.py:868-872).                               *)
(***************************************************************************)
FallbackLast ==
    \A i \in 1..Len(requests) :
        IsFallback(i) => /\ i = Len(requests)
                         /\ i = Attempts + 1

(***************************************************************************)
(* The n-th retry waits as long as the failure before it demands: the      *)
(* server's Retry-After up to the cap when there is one, else a jittered   *)
(* delay within the exponential bound (transport.py:685-693).  The         *)
(* fallback is sent at once.                                               *)
(***************************************************************************)
Honours(waited, a, n) ==
    LET hint == RaisedBy(a).retry_after IN
    IF hint >= 0
    THEN waited = IF hint <= MaxBackoff THEN hint ELSE MaxBackoff
    ELSE waited <= MaxBackoff /\ waited <= BackoffBase * 2^n

DelayHonoured ==
    \A i \in 2..Len(requests) :
        ~IsFallback(i) => Honours(requests[i].waited, answers[i - 1], i - 2)

(***************************************************************************)
(* The caller can trust what it is told: a response is the last answer,    *)
(* "exhausted" means that every allowed request was made and failed, and   *)
(* it carries the failure of the very last exchange, a provider error is   *)
(* raised bare only when no retry was allowed for it.                      *)
(***************************************************************************)
LastAnswer == answers[Len(answers)]

OutcomeJustified ==
    pc = "done" =>
        CASE result.kind = "response" -> answers # <<>> /\ ~Failed(LastAnswer)
          [] result.kind \in {"auth", "too_large", "unhandled"} ->
                /\ answers # <<>>
                /\ result.error = RaisedBy(LastAnswer)
                /\ Len(requests) <= Attempts
          [] result.kind = "provider" ->
                /\ answers # <<>>
                /\ result.error = RaisedBy(LastAnswer)
                /\ Transient(result.error) => call.max_retries = 0
          [] result.kind = "exhausted" ->
                \/ call.max_retries < 0 /\ requests = <<>>
                \/ /\ answers # <<>>
                   /\ result.error = RaisedBy(LastAnswer)
                   /\ Len(requests) = IF call.service_tier /\ call.max_retries > 0
                                      THEN Attempts + 1 ELSE Attempts
          [] OTHER -> TRUE

(* The loop uses up its attempts and the call ends: no failure sequence    *)
(* keeps it sending or sleeping for ever, if every request gets an answer  *)
(* or times out.                                                           *)
CallEnds == <>(pc = "done")
-----------------------------------------------------------------------------
(***************************************************************************)
(* The inductive invariant: for each place the call can be suspended at,   *)
(* how many requests and answers lie behind it and what they were.         *)
(***************************************************************************)
AllTransient == \A i \in 1..Len(answers) : TransientAnswer(answers[i])

AtLoopHead ==
    pc = "ready" =>
        /\ Len(requests) = attempt
        /\ Len(answers) = attempt
        /\ AllTransient
        /\ attempt = 0 => last_error = NoError
        /\ attempt > 0 =>
            /\ attempt <= call.max_retries
            /\ Honours(delay, LastAnswer, attempt - 1)

AtRequest ==
    pc = "waiting" =>
        /\ attempt <= call.max_retries
        /\ Len(requests) = attempt + 1
        /\ Len(answers) = attempt
        /\ AllTransient

AtBackoff ==
    pc = "backoff" =>
        /\ attempt < call.max_retries
        /\ Len(requests) = attempt + 1
        /\ Len(answers) = attempt + 1
        /\ AllTransient
        /\ Honours(delay, LastAnswer, attempt)

AfterLoop ==
    pc = "left_loop" =>
        \/ /\ call.max_retries < 0
           /\ requests = <<>>
           /\ answers = <<>>
           /\ last_error = NoError
        \/ /\ 0 <= call.max_retries
           /\ attempt <= call.max_retries
           /\ Len(requests) = attempt + 1
           /\ Len(answers) = attempt + 1
           /\ \A i \in 1..attempt : TransientAnswer(answers[i])
           /\ Failed(LastAnswer)
           /\ last_error = RaisedBy(LastAnswer)
           /\ last_error.kind \in {"provider", "transport"}
           /\ Transient(last_error) => attempt = call.max_retries

AtFallback ==
    pc = "flex_waiting" =>
        /\ call.service_tier
        /\ call.max_retries > 0
        /\ Len(requests) = Attempts + 1
        /\ Len(answers) = Attempts
        /\ AllTransient
        /\ Transient(last_error)

Undecided == pc # "done" => result = Pending

IInv ==
    /\ TypeOK
    /\ AtLoopHead /\ AtRequest /\ AtBackoff /\ AfterLoop /\ AtFallback
    /\ Undecided
    /\ RequestBudget /\ OnlyTransientIsRepeated /\ FallbackLast
    /\ DelayHonoured /\ OutcomeJustified
-----------------------------------------------------------------------------
(***************************************************************************)
(* The call implements BoundedCall: the loop's attempts and the fallback   *)
(* are its budget, an answer is transient when the retry policy says so.   *)
(***************************************************************************)
Budget ==
    (IF call.max_retries >= 0 THEN Attempts ELSE 0)
        + (IF call.service_tier /\ call.max_retries > 0 THEN 1 ELSE 0)

Verdict ==
    IF answers = <<>> \/ Len(answers) < Len(requests) THEN "none"
    ELSE IF ~Failed(LastAnswer) THEN "good"
    ELSE IF TransientAnswer(LastAnswer) THEN "transient"
    ELSE "fatal"

Phase == IF pc = "done" THEN "settled" ELSE IF InFlight THEN "inflight" ELSE "ready"

Outcome ==
    IF result.kind = "none" THEN "none"
    ELSE IF result.kind = "response" THEN "value"
    ELSE IF result.kind = "cancelled" THEN "cancelled"
    ELSE "error"

Contract == INSTANCE BoundedCall WITH
    budget <- Budget, phase <- Phase, sent <- Len(requests),
    verdict <- Verdict, outcome <- Outcome

(* Every behaviour of the code is one the contract allows.                 *)
ImplementsContract == Contract!Spec
=============================================================================

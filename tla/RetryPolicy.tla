----------------------------- MODULE RetryPolicy -----------------------------
(***************************************************************************)
(* The retry decision shared by the blocking and the streaming call paths: *)
(* which failures of one HTTP exchange are worth another attempt, and how  *)
(* long to wait before it.  Translated from transport.py (RetryPolicy,     *)
(* raise_for_status, _compute_retry_sleep) and errors.py.                  *)
(*                                                                         *)
(* Time is counted in whole units; a jittered float in [0, x] becomes any  *)
(* whole number of units in 0..x.                                          *)
(***************************************************************************)
EXTENDS Integers

CONSTANTS
    ErrorStatus,   \* HTTP statuses outside 2xx the server may answer with
    Hints,         \* delays a Retry-After header may carry
    BackoffBase,   \* RetryPolicy.backoff_base
    MaxBackoff     \* RetryPolicy.max_backoff

ASSUME StatusAssumption == ErrorStatus \subseteq Nat \ 200..299
ASSUME HintsAssumption == Hints \subseteq Nat
ASSUME BackoffAssumption == BackoffBase \in Nat /\ MaxBackoff \in Nat

RetryableStatus == {429, 500, 502, 503, 504}
AuthStatus == {401, 403}
NoHint == -1       \* Retry-After absent or unparsable: retry_after is None
-----------------------------------------------------------------------------
(***************************************************************************)
(* How one exchange can end.  "response": the server answered (oversize is *)
(* the verdict of _enforce_response_size).  "connection": httpx raised     *)
(* ConnectError, ConnectTimeout or ReadTimeout.  "unhandled": any other    *)
(* exception of the exchange (RemoteProtocolError, ReadError, PoolTimeout, *)
(* an error body raise_for_status cannot read): no handler names it.       *)
(***************************************************************************)
Success == [type: {"response"}, status: {200}, retry_after: {NoHint},
            oversize: BOOLEAN]
Refusal == [type: {"response"}, status: ErrorStatus,
            retry_after: Hints \cup {NoHint}, oversize: {FALSE}]
Broken == [type: {"connection", "unhandled"}, status: {0},
           retry_after: {NoHint}, oversize: {FALSE}]
Answer == Success \cup Refusal \cup Broken

(* "transport": KaosLLMTransportError; "interrupted": its subclass for a   *)
(* stream cut short; "httpx": a bare ConnectError, ConnectTimeout or       *)
(* ReadTimeout, which the blocking path wraps and the streaming one not.   *)
Error == [kind: {"auth", "provider", "transport", "interrupted", "httpx",
                 "too_large", "unhandled", "none"},
          status: ErrorStatus \cup {0}, retry_after: Hints \cup {NoHint}]
NoError == [kind |-> "none", status |-> 0, retry_after |-> NoHint]

(* The exception a failed exchange becomes.  401/403 drop the server's     *)
(* Retry-After; connection errors carry no headers at all.                 *)
RaisedBy(a) ==
    [kind |-> CASE a.type = "connection" -> "transport"
                [] a.type = "unhandled" -> "unhandled"
                [] a.type = "response" /\ a.status = 200 -> "too_large"
                [] a.type = "response" /\ a.status \in AuthStatus -> "auth"
                [] OTHER -> "provider",
     status |-> IF a.type = "response" /\ a.status # 200 THEN a.status ELSE 0,
     retry_after |-> IF a.status \in AuthStatus THEN NoHint ELSE a.retry_after]

Failed(a) == ~(a.type = "response" /\ a.status = 200 /\ ~a.oversize)
-----------------------------------------------------------------------------
(* An error that is worth another attempt while attempts are left.         *)
Transient(e) ==
    \/ e.kind = "provider" /\ e.status \in RetryableStatus
    \/ e.kind \in {"transport", "interrupted", "httpx"}

(* Slips the properties must catch: an off-by-one, a missing status test,  *)
(* a delay without its cap, a header nobody reads.                         *)
SlipOneShort(max_retries, e, attempt) == attempt < max_retries - 1 /\ Transient(e)
SlipAnyStatus(max_retries, e, attempt) ==
    attempt < max_retries /\ e.kind \in {"auth", "provider", "transport"}

should_retry(max_retries, e, attempt) == attempt < max_retries /\ Transient(e)

(* Full jitter: any delay up to min(max_backoff, backoff_base * 2^attempt). *)
Jitter(attempt) == {d \in 0..MaxBackoff : d <= BackoffBase * 2^attempt}

SlipHintUnread(e, attempt) == Jitter(attempt)

(* A Retry-After hint is honoured verbatim, capped by max_backoff.         *)
RetrySleep(e, attempt) ==
    IF e.retry_after >= 0
    THEN {IF e.retry_after <= MaxBackoff THEN e.retry_after ELSE MaxBackoff}
    ELSE Jitter(attempt)
=============================================================================

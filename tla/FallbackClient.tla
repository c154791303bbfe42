---------------------------- MODULE FallbackClient ----------------------------
(***************************************************************************)
(* One call of a FallbackClient (providers/fallback.py): the clients are   *)
(* tried in order; a failure in fallback_on passes the call on, anything   *)
(* else, and any failure once a chunk was handed over, goes to the caller. *)
(* A client's own call (retries included, see ExecuteWithRetry and         *)
(* StreamRequest) is what it yields and how it ends.                       *)
(***************************************************************************)
EXTENDS Integers, Sequences

CONSTANTS
    N,             \* number of clients
    FallbackOn,    \* kinds of exception that pass the call on
    MaxChunks      \* bound: chunks one client's stream yields

ASSUME NAssumption == N \in Nat \ {0}
ASSUME MaxChunksAssumption == MaxChunks \in Nat

(* How a client's call fails: the classes of errors.py, a bare httpx       *)
(* exception (streams only), any other Exception, a cancellation.          *)
Failure == {"provider", "transport", "exhausted", "auth", "httpx", "other", "cancelled"}
ASSUME FallbackOnAssumption == FallbackOn \subseteq Failure
DefaultFallbackOn == {"provider", "transport", "exhausted"}

VARIABLES
    mode,       \* "request" or "stream"
    pc,
    current,    \* index of the client being tried
    yielded,    \* yielded of the code
    last_error, \* last_error of the code
    outcome,    \* how the call ended
    delivered,  \* history: for each chunk the caller got, the client it came from
    failures    \* history: how each client tried so far failed

chainVars == <<mode, pc, current, yielded, last_error, outcome, delivered, failures>>

ChainInit ==
    /\ mode \in {"request", "stream"}
    /\ pc = "loop"
    /\ current = 1
    /\ yielded = FALSE
    /\ last_error = "unreachable"
    /\ outcome = "none"
    /\ delivered = <<>>
    /\ failures = <<>>

Settle(o) == pc' = "done" /\ outcome' = o
-----------------------------------------------------------------------------
Try ==
    /\ pc = "loop"
    /\ current <= N
    /\ pc' = "trying"
    /\ yielded' = FALSE
    /\ UNCHANGED <<mode, current, last_error, outcome, delivered, failures>>

(* The client's request returns, or its stream ends.                       *)
Succeed ==
    /\ pc = "trying"
    /\ Settle("value")
    /\ UNCHANGED <<mode, current, yielded, last_error, delivered, failures>>

Yield ==
    /\ pc = "trying"
    /\ mode = "stream"
    /\ Len(delivered) < MaxChunks
    /\ delivered' = Append(delivered, current)
    /\ yielded' = TRUE
    /\ pc' = "yielded"
    /\ UNCHANGED <<mode, current, last_error, outcome, failures>>

Resume ==
    /\ pc = "yielded"
    /\ pc' = "trying"
    /\ UNCHANGED <<mode, current, yielded, last_error, outcome, delivered, failures>>

(* A slip: the yielded test is missing.                                    *)
SlipSwitchLate(kind) ==
    /\ pc = "trying"
    /\ failures' = Append(failures, kind)
    /\ IF kind \notin FallbackOn THEN Settle(kind) /\ UNCHANGED <<current, last_error>>
       ELSE /\ last_error' = kind
            /\ current' = current + 1
            /\ pc' = "loop"
            /\ UNCHANGED outcome
    /\ UNCHANGED <<mode, yielded, delivered>>

(* A slip: fallback_on is not looked at.                                   *)
SlipAnyFailure(kind) ==
    /\ pc = "trying"
    /\ failures' = Append(failures, kind)
    /\ IF yielded THEN Settle(kind) /\ UNCHANGED <<current, last_error>>
       ELSE /\ last_error' = kind
            /\ current' = current + 1
            /\ pc' = "loop"
            /\ UNCHANGED outcome
    /\ UNCHANGED <<mode, yielded, delivered>>

(* The client's call raises: `except BaseException`.  A blocking call      *)
(* never raises a bare httpx exception of the kinds it retries.            *)
Fail(kind) ==
    /\ pc = "trying"
    /\ kind = "httpx" => mode = "stream"
    /\ failures' = Append(failures, kind)
    /\ IF yielded \/ kind \notin FallbackOn
       THEN Settle(kind) /\ UNCHANGED <<current, last_error>>
       ELSE /\ last_error' = kind
            /\ current' = current + 1
            /\ pc' = "loop"
            /\ UNCHANGED outcome
    /\ UNCHANGED <<mode, yielded, delivered>>

(* A slip: the first failure is reported, not the last.                    *)
SlipFirstError ==
    /\ pc = "loop"
    /\ current > N
    /\ Settle(failures[1])
    /\ UNCHANGED <<mode, current, yielded, last_error, delivered, failures>>

Exhausted ==
    /\ pc = "loop"
    /\ current > N
    /\ Settle(last_error)
    /\ UNCHANGED <<mode, current, yielded, last_error, delivered, failures>>

(* GeneratorExit at the yield: yielded is set, so it propagates.           *)
Close ==
    /\ pc = "yielded"
    /\ Settle("closed")
    /\ UNCHANGED <<mode, current, yielded, last_error, delivered, failures>>

ChainEnded == pc = "done" /\ UNCHANGED chainVars

ChainNext ==
    \/ Try \/ Succeed \/ Yield \/ Resume \/ Exhausted \/ Close
    \/ \E kind \in Failure : Fail(kind)
    \/ ChainEnded

ChainSpec == ChainInit /\ [][ChainNext]_chainVars
-----------------------------------------------------------------------------
ChainTypeOK ==
    /\ mode \in {"request", "stream"}
    /\ pc \in {"loop", "trying", "yielded", "done"}
    /\ current \in 1..N + 1
    /\ yielded \in BOOLEAN
    /\ last_error \in Failure \cup {"unreachable"}
    /\ outcome \in Failure \cup {"none", "value", "closed"}
    /\ delivered \in Seq(1..N)
    /\ failures \in Seq(Failure)

(***************************************************************************)
(* The caller never gets a mixture: all chunks come from one client, the   *)
(* one the call ends with (fallback.py:124-127).                           *)
(***************************************************************************)
SingleSource == \A i \in 1..Len(delivered) : delivered[i] = current

(***************************************************************************)
(* A later client is only spent when every earlier one failed in a way     *)
(* fallback_on names; a client is asked once.                              *)
(***************************************************************************)
FailoverJustified ==
    /\ \A i \in 1..current - 1 : i <= Len(failures) /\ failures[i] \in FallbackOn
    /\ Len(failures) <= current

(***************************************************************************)
(* The caller hears what decided the call: the value of the first client   *)
(* that did not pass it on, or its failure, and when all passed it on the  *)
(* last failure, never the "unreachable" placeholder.                      *)
(***************************************************************************)
Decided ==
    outcome \in Failure =>
        /\ failures # <<>>
        /\ outcome = failures[Len(failures)]
        /\ outcome \in FallbackOn /\ delivered = <<>> => Len(failures) = N

(* The inductive invariant: where the loop stands, and what lies behind it.*)
AtClient ==
    pc # "done" =>
        /\ Len(failures) = current - 1
        /\ outcome = "none"
        /\ current = 1 \/ last_error = failures[current - 1]
        /\ pc = "loop" => delivered = <<>>
        /\ pc # "loop" => current <= N /\ yielded = (delivered # <<>>)

ChainInv == ChainTypeOK /\ AtClient /\ SingleSource /\ FailoverJustified /\ Decided
-----------------------------------------------------------------------------
(***************************************************************************)
(* The chain implements BoundedCall: its clients are the budget, and a     *)
(* failure is transient when the caller lost nothing by the switch: it is  *)
(* one of fallback_on and no chunk was handed over.                        *)
(***************************************************************************)
Spent == IF pc = "loop" \/ current > N THEN current - 1 ELSE current

Verdict ==
    IF Len(failures) < Spent THEN IF outcome = "value" THEN "good" ELSE "none"
    ELSE IF failures = <<>> THEN "none"
    ELSE IF failures[Len(failures)] \in FallbackOn /\ delivered = <<>> THEN "transient"
    ELSE "fatal"

Phase ==
    IF pc = "done" THEN "settled" ELSE IF pc = "loop" THEN "ready" ELSE "inflight"

Outcome ==
    IF outcome \in {"none", "value"} THEN outcome
    ELSE IF outcome = "closed" THEN "cancelled"
    ELSE "error"

Contract == INSTANCE BoundedCall WITH
    budget <- N, phase <- Phase, sent <- Spent, verdict <- Verdict, outcome <- Outcome

(* Every behaviour of the chain is one the contract allows.                *)
ImplementsContract == Contract!Spec
=============================================================================

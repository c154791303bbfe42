----------------------------- MODULE BoundedCall -----------------------------
(***************************************************************************)
(* What a provider call promises its caller, whatever path runs it: it     *)
(* spends a bounded number of requests, one at a time; it sends again only *)
(* after a transient failure; a good answer is returned, never repeated;   *)
(* and it settles once.  ExecuteWithRetry, StreamRequest, FallbackClient   *)
(* and ValidationLoop implement it, each with requests of its own size.    *)
(***************************************************************************)
EXTENDS Integers

VARIABLES
    budget,   \* requests this call may spend
    phase,    \* "ready" to act, a request "inflight", or "settled"
    sent,     \* requests spent
    verdict,  \* what the latest answer was worth
    outcome   \* what the caller got

vars == <<budget, phase, sent, verdict, outcome>>

Init ==
    /\ budget \in Nat
    /\ phase = "ready"
    /\ sent = 0
    /\ verdict = "none"
    /\ outcome = "none"

Send ==
    /\ phase = "ready"
    /\ verdict \in {"none", "transient"}
    /\ sent < budget
    /\ phase' = "inflight"
    /\ sent' = sent + 1
    /\ verdict' = "none"
    /\ UNCHANGED <<budget, outcome>>

(* A good answer is the call's value.                                      *)
Accept ==
    /\ phase = "inflight"
    /\ verdict' = "good"
    /\ phase' = "settled"
    /\ outcome' = "value"
    /\ UNCHANGED <<budget, sent>>

(* A bad answer settles the call, or leaves it ready to act on it.         *)
Refuse(v) ==
    /\ phase = "inflight"
    /\ verdict' = v
    /\ \/ phase' = "ready" /\ UNCHANGED outcome
       \/ phase' = "settled" /\ outcome' = "error"
    /\ UNCHANGED <<budget, sent>>

GiveUp ==
    /\ phase = "ready"
    /\ phase' = "settled"
    /\ outcome' = "error"
    /\ UNCHANGED <<budget, sent, verdict>>

Cancel ==
    /\ phase # "settled"
    /\ phase' = "settled"
    /\ outcome' = "cancelled"
    /\ UNCHANGED <<budget, sent, verdict>>

Next ==
    \/ Send \/ Accept \/ GiveUp \/ Cancel
    \/ \E v \in {"transient", "fatal"} : Refuse(v)

Spec == Init /\ [][Next]_vars
=============================================================================

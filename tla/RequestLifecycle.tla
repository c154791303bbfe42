--------------------------- MODULE RequestLifecycle ---------------------------
(***************************************************************************)
(* BaseProviderClient.request_async (providers/base.py) around the cache:  *)
(* the hooks, the cache lookup, the exchange with the provider (a          *)
(* BoundedCall, see ExecuteWithRetry), the parse and the cache entry, as   *)
(* run by several processes that share one cache directory.  Each process  *)
(* makes a few calls, one after the other.                                 *)
(***************************************************************************)
EXTENDS FileCache, Sequences

CONSTANT MaxCalls     \* bound: calls one process makes

ASSUME MaxCallsAssumption == MaxCalls \in Nat

VARIABLES
    enabled,   \* per process: settings.cache_enabled (FileCache, else NullCache)
    call,      \* per process: its current or latest call
    started,   \* per process: number of calls started
    metrics,   \* per process: cache_hits and cache_misses
    answered   \* history, per key: provider answers that a call accepted

vars == <<cacheVars, enabled, call, started, metrics, answered>>

Policies == {"default", "skip", "force"}
Call == [pc: {"idle", "lookup", "executing", "storing", "ended"},
         key: Keys,
         policy: Policies,
         value: Piece,
         source: {"none", "cache", "provider"},
         result: {"none", "value", "hook", "unreadable", "error", "bad_body", "cancelled", "lost"},
         hooks: Seq({"request", "response", "error"}),
         put: BOOLEAN]     \* history: handed to a cache that stores
NoCall == [pc |-> "idle", key |-> IdleIo.key, policy |-> "default", value |-> Hole,
           source |-> "none", result |-> "none", hooks |-> <<>>, put |-> FALSE]

Init ==
    /\ CacheInit
    /\ enabled \in [Procs -> BOOLEAN]
    /\ call = [p \in Procs |-> NoCall]
    /\ started = [p \in Procs |-> 0]
    /\ metrics = [p \in Procs |-> [hits |-> 0, misses |-> 0]]
    /\ answered = [k \in Keys |-> {}]

Become(p, c) == call' = [call EXCEPT ![p] = c]
Ended(c, result) == [c EXCEPT !.pc = "ended", !.result = result]
-----------------------------------------------------------------------------
resolve_cache_policy(p, policy) ==
    IF policy # "default" THEN policy ELSE IF enabled[p] THEN "force" ELSE "skip"

(* on_request, which may raise, then the lookup unless the policy is SKIP. *)
Start(p, k, policy) ==
    /\ call[p].pc \in {"idle", "ended"}
    /\ started[p] < MaxCalls
    /\ started' = [started EXCEPT ![p] = @ + 1]
    /\ LET c == [NoCall EXCEPT !.key = k, !.policy = resolve_cache_policy(p, policy),
                               !.hooks = <<"request">>] IN
       \/ Become(p, [c EXCEPT !.pc = IF c.policy = "skip" THEN "executing" ELSE "lookup"])
       \/ Become(p, Ended(c, "hook"))
    /\ UNCHANGED <<cacheVars, enabled, metrics, answered>>

Miss(p) ==
    /\ metrics' = [metrics EXCEPT ![p].misses = @ + 1]
    /\ Become(p, [call[p] EXCEPT !.pc = "executing"])

(* NullCache.get is None; so is a key with no file.                        *)
LookupMiss(p) ==
    /\ call[p].pc = "lookup"
    /\ io[p].op = "idle"
    /\ enabled[p] => GetAbsent(p, call[p].key)
    /\ Miss(p)
    /\ UNCHANGED <<cacheVars, enabled, started, answered>>

LookupFound(p) ==
    /\ call[p].pc = "lookup"
    /\ enabled[p]
    /\ GetFound(p, call[p].key)
    /\ UNCHANGED <<enabled, call, started, metrics, answered>>

(* A hit ends the call: no on_response, no request.  An exception out of   *)
(* get ends it too, outside every handler.                                 *)
LookupRead(p, answer) ==
    /\ Get(p, answer)
    /\ CASE answer = NoValue -> Miss(p)
         [] answer = Broken -> /\ Become(p, Ended(call[p], "unreadable"))
                               /\ UNCHANGED metrics
         [] OTHER -> /\ metrics' = [metrics EXCEPT ![p].hits = @ + 1]
                     /\ Become(p, [Ended(call[p], "value") EXCEPT !.value = answer,
                                                                  !.source = "cache"])
    /\ UNCHANGED <<enabled, started, answered>>
-----------------------------------------------------------------------------
(* execute_with_retry raises: on_error first, which may raise instead.     *)
ExecuteFails(p) ==
    /\ call[p].pc = "executing"
    /\ \E result \in {"error", "hook"} :
          Become(p, [Ended(call[p], result) EXCEPT !.hooks = Append(@, "error")])
    /\ UNCHANGED <<cacheVars, enabled, started, metrics, answered>>

(* A slip: the try block reaches over the parse.                           *)
SlipWideTry(p) ==
    /\ call[p].pc = "executing"
    /\ Become(p, [Ended(call[p], "bad_body") EXCEPT !.hooks = Append(@, "error")])
    /\ UNCHANGED <<cacheVars, enabled, started, metrics, answered>>

(* response.json() or _parse_response raises: no handler, no hook.  A      *)
(* cancellation during the exchange passes the same way.                   *)
ExecuteAborts(p) ==
    /\ call[p].pc = "executing"
    /\ \E result \in {"bad_body", "cancelled"} : Become(p, Ended(call[p], result))
    /\ UNCHANGED <<cacheVars, enabled, started, metrics, answered>>

(* A slip: the answer is put into the cache before on_response sees it.    *)
SlipStoreFirst(p) ==
    /\ call[p].pc = "executing"
    /\ enabled[p]
    /\ \E v \in Values : PutBegin(p, call[p].key, v)
    /\ Become(p, [Ended(call[p], "hook") EXCEPT !.hooks = Append(@, "response")])
    /\ UNCHANGED <<enabled, started, metrics, answered>>

ResponseHookFails(p) ==
    /\ call[p].pc = "executing"
    /\ Become(p, [Ended(call[p], "hook") EXCEPT !.hooks = Append(@, "response")])
    /\ UNCHANGED <<cacheVars, enabled, started, metrics, answered>>

(* A good answer: on_response, then the put unless the policy is SKIP.     *)
(* NullCache.put does nothing.                                             *)
Answer(p, v) ==
    /\ call[p].pc = "executing"
    /\ answered' = [answered EXCEPT ![call[p].key] = @ \cup {v}]
    /\ LET c == [call[p] EXCEPT !.value = v, !.source = "provider",
                                !.hooks = Append(@, "response")] IN
       IF c.policy # "skip" /\ enabled[p]
       THEN /\ PutBegin(p, c.key, v)
            /\ Become(p, [c EXCEPT !.pc = "storing", !.put = TRUE])
       ELSE /\ Become(p, Ended(c, "value"))
            /\ UNCHANGED cacheVars
    /\ UNCHANGED <<enabled, started, metrics>>

StoreStep(p) ==
    /\ PutOpen(p) \/ PutHead(p)
    /\ UNCHANGED <<enabled, call, started, metrics, answered>>

StoreEnds(p) ==
    /\ PutTail(p) \/ PutFails(p)
    /\ Become(p, Ended(call[p], "value"))
    /\ UNCHANGED <<enabled, started, metrics, answered>>

(* The process dies and is started again with fresh counters.              *)
Crash(p) ==
    /\ call[p].pc \notin {"idle", "ended"}
    /\ Die(p)
    /\ Become(p, Ended(call[p], "lost"))
    /\ metrics' = [metrics EXCEPT ![p] = [hits |-> 0, misses |-> 0]]
    /\ UNCHANGED <<enabled, started, answered>>

(* Some process runs clear().                                              *)
Clear(k) ==
    /\ Unlink(k)
    /\ UNCHANGED <<enabled, call, started, metrics, answered>>

Terminated ==
    /\ \A p \in Procs : call[p].pc = "ended" /\ started[p] = MaxCalls
    /\ UNCHANGED vars

Step(p) ==
    \/ LookupMiss(p) \/ LookupFound(p) \/ (\E a \in Values \cup {NoValue, Broken} : LookupRead(p, a))
    \/ ExecuteFails(p) \/ ExecuteAborts(p) \/ ResponseHookFails(p) \/ (\E v \in Values : Answer(p, v))
    \/ StoreStep(p) \/ StoreEnds(p)

Next ==
    \/ \E p \in Procs : Step(p) \/ Crash(p) \/ (\E k \in Keys, policy \in Policies : Start(p, k, policy))
    \/ \E k \in Keys : Clear(k)
    \/ Terminated

Spec == Init /\ [][Next]_vars

(* Every process keeps running; the exchange ends (CallEnds of             *)
(* ExecuteWithRetry).                                                      *)
FairSpec == Spec /\ \A p \in Procs : WF_vars(Step(p))
-----------------------------------------------------------------------------
TypeOK ==
    /\ CacheTypeOK
    /\ enabled \in [Procs -> BOOLEAN]
    /\ call \in [Procs -> Call]
    /\ started \in [Procs -> 0..MaxCalls]
    /\ metrics \in [Procs -> [hits: Nat, misses: Nat]]
    /\ answered \in [Keys -> SUBSET Values]

(***************************************************************************)
(* An answer served from the cache is one a provider gave to a call with   *)
(* the same key that was accepted by on_response, whatever other writers,  *)
(* crashes, failed writes and clears did to the file in between.           *)
(***************************************************************************)
HitIsAnAnswer ==
    \A p \in Procs : call[p].source = "cache" => call[p].value \in answered[call[p].key]

(***************************************************************************)
(* What is on disk, torn or whole, and what is on its way there, was       *)
(* accepted for that very key: a failed, cancelled or unparsable call      *)
(* never leaves a byte.                                                    *)
(***************************************************************************)
OnlyAnswersStored ==
    /\ \A k \in Keys : {file[k].head, file[k].tail} \subseteq answered[k] \cup {Hole}
    /\ \A p \in Procs : io[p].value # Hole => io[p].value \in answered[io[p].key]

(***************************************************************************)
(* How many hooks a call fires depends only on how it ends: a hit is       *)
(* silent after on_request, on_error marks a failed exchange and nothing   *)
(* else, on_response comes exactly with a provider answer.                 *)
(***************************************************************************)
HooksAsEnded ==
    \A p \in Procs :
        LET c == call[p] IN
        /\ c.result = "value" /\ c.source = "provider" => c.hooks = <<"request", "response">>
        /\ c.source = "cache" => c.hooks = <<"request">>
        /\ c.result = "error" => c.hooks = <<"request", "error">>
        /\ c.result \in {"bad_body", "cancelled", "unreadable"} => c.hooks = <<"request">>

(***************************************************************************)
(* SKIP means that the directory is left alone in both directions: no      *)
(* lookup, no served answer, no entry.                                     *)
(***************************************************************************)
SkipBypasses ==
    \A p \in Procs :
        call[p].policy = "skip" => io[p] = IdleIo /\ call[p].source # "cache" /\ ~call[p].put

(***************************************************************************)
(* The inductive invariant: what a process is doing in the cache matches   *)
(* where its call stands, and what the call has done so far.               *)
(***************************************************************************)
Putting == {"putting", "opened", "head_written"}

InStep ==
    \A p \in Procs :
        /\ io[p].op = "idle" => io[p] = IdleIo
        /\ io[p].op = "reading" => /\ call[p].pc = "lookup"
                                  /\ io[p].key = call[p].key
                                  /\ io[p].value = Hole
        /\ io[p].op \in Putting <=> call[p].pc = "storing"

Underway ==
    \A p \in Procs :
        LET c == call[p] IN
        /\ c.pc \in {"lookup", "executing"} =>
              c.hooks = <<"request">> /\ c.source = "none" /\ c.result = "none" /\ ~c.put
        /\ c.pc = "storing" =>
              c.hooks = <<"request", "response">> /\ c.source = "provider" /\ c.result = "none"
        /\ c.policy = "skip" => c.pc \notin {"lookup", "storing"}
        /\ c.pc = "idle" => c = NoCall

IInv ==
    /\ TypeOK
    /\ InStep /\ Underway
    /\ HitIsAnAnswer /\ OnlyAnswersStored /\ HooksAsEnded /\ SkipBypasses

(* Every call ends, however the other processes and clear interfere.       *)
CallsEnd == \A p \in Procs : (call[p].pc # "idle") ~> (call[p].pc = "ended")
=============================================================================

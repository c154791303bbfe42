----------------------------- MODULE ClientProofs -----------------------------
(***************************************************************************)
(* Proofs about the two clients a caller meets: one provider's client      *)
(* (RequestLifecycle), for any number of processes, keys, answers and      *)
(* calls, with or without faults, and the chain of them (FallbackClient),  *)
(* for any number of clients and any fallback_on; and about the list of    *)
(* messages a caller sends with them (Conversation), for any number of     *)
(* messages, replies and cache points.                                     *)
(***************************************************************************)
EXTENDS RequestLifecycle, FallbackClient, Conversation, SequenceTheorems, FiniteSetTheorems,
        WellFoundedInduction, TLAPS

(* The invariant is about one process, what it is doing in the cache and   *)
(* the answers accepted so far, and about the files.                       *)
One(c, i, ans) ==
    /\ i.op = "idle" => i = IdleIo
    /\ i.op = "reading" => c.pc = "lookup" /\ i.key = c.key /\ i.value = Hole
    /\ i.op \in Putting <=> c.pc = "storing"
    /\ c.pc \in {"lookup", "executing"} =>
          c.hooks = <<"request">> /\ c.source = "none" /\ c.result = "none" /\ ~c.put
    /\ c.pc = "storing" =>
          c.hooks = <<"request", "response">> /\ c.source = "provider" /\ c.result = "none"
    /\ c.pc = "idle" => c = NoCall
    /\ c.source = "cache" => c.value \in ans[c.key]
    /\ i.value # Hole => i.value \in ans[i.key]
    /\ c.result = "value" /\ c.source = "provider" => c.hooks = <<"request", "response">>
    /\ c.result = "error" => c.hooks = <<"request", "error">>
    /\ c.result \in {"bad_body", "cancelled", "unreadable"} => c.hooks = <<"request">>
    /\ c.source = "cache" => c.hooks = <<"request">>
    /\ c.policy = "skip" =>
          /\ c.pc \notin {"lookup", "storing"}
          /\ i = IdleIo
          /\ c.source # "cache"
          /\ ~c.put

FilesOK == \A k \in Keys : {file[k].head, file[k].tail} \subseteq answered[k] \cup {Hole}

Hook == {"request", "response", "error"}

LEMMA Extended ==
    ASSUME NEW S, NEW s \in Seq(S), NEW h \in S, NEW t \in Seq(S), Len(s) = 1,
           Len(t) = 2, t[1] = s[1], t[2] = h
    PROVE  Append(s, h) = t
<1> SUFFICES ASSUME NEW u, u = Append(s, h) PROVE u = t
  OBVIOUS
<1>1. u \in Seq(S) /\ Len(u) = Len(s) + 1
  BY AppendProperties
<1>2. (\A i \in 1..Len(s) : u[i] = s[i]) /\ u[Len(s) + 1] = h
  BY AppendProperties
<1>3. Len(u) = 2 /\ u[1] = t[1] /\ u[2] = t[2]
  BY <1>1, <1>2
<1>4. \A i \in 1..2 : u[i] = t[i]
  BY <1>3
<1>5. QED
  BY <1>1, <1>3, <1>4, SeqEqual

LEMMA OneMoreHook ==
    ASSUME NEW h \in Hook
    PROVE  /\ <<"request", h>> \in Seq(Hook)
           /\ Append(<<"request">>, h) = <<"request", h>>
<1>1. <<"request">> \in Seq(Hook) /\ Len(<<"request">>) = 1 /\ <<"request">>[1] = "request"
  BY DEF Hook
<1>2. /\ <<"request", h>> \in Seq(Hook) /\ Len(<<"request", h>>) = 2
      /\ <<"request", h>>[1] = "request" /\ <<"request", h>>[2] = h
  BY DEF Hook
<1>3. QED
  BY <1>1, <1>2, Extended

LEMMA HookSequences ==
    /\ <<>> \in Seq(Hook)
    /\ <<"request">> \in Seq(Hook)
    /\ <<"request", "response">> \in Seq(Hook)
    /\ <<"request", "error">> \in Seq(Hook)
    /\ Append(<<"request">>, "response") = <<"request", "response">>
    /\ Append(<<"request">>, "error") = <<"request", "error">>
<1>1. <<>> \in Seq(Hook) /\ <<"request">> \in Seq(Hook)
  BY DEF Hook
<1>2. "response" \in Hook /\ "error" \in Hook
  BY DEF Hook
<1>3. QED
  BY <1>1, <1>2, OneMoreHook

LEMMA IdleType == IdleIo \in Io /\ NoCall \in Call
<1>1. IdleIo.key \in Keys
  BY KeysAssumption DEF IdleIo
<1>2. Hole \in Piece
  BY DEF Piece
<1>3. QED
  BY <1>1, <1>2, HookSequences DEF IdleIo, Io, NoCall, Call, Policies, Hook

LEMMA IdleFields ==
    /\ IdleIo.op = "idle" /\ IdleIo.value = Hole
    /\ NoCall.pc = "idle" /\ NoCall.source = "none" /\ NoCall.result = "none"
    /\ NoCall.policy = "default" /\ NoCall.hooks = <<>> /\ NoCall.put = FALSE
    /\ Absent.head = Hole /\ Absent.tail = Hole
BY DEF IdleIo, NoCall, Absent

LEMMA Decompose ==
    IInv => TypeOK /\ (\A p \in Procs : One(call[p], io[p], answered)) /\ FilesOK
<1> SUFFICES ASSUME IInv PROVE TypeOK /\ (\A p \in Procs : One(call[p], io[p], answered)) /\ FilesOK
  OBVIOUS
<1>1. TypeOK /\ InStep /\ Underway /\ HitIsAnAnswer /\ OnlyAnswersStored /\ HooksAsEnded /\ SkipBypasses
  BY DEF IInv
<1>2. FilesOK
  BY <1>1 DEF OnlyAnswersStored, FilesOK
<1>3. ASSUME NEW p \in Procs PROVE One(call[p], io[p], answered)
  BY <1>1 DEF One, InStep, Underway, HitIsAnAnswer, OnlyAnswersStored, HooksAsEnded, SkipBypasses
<1>4. QED
  BY <1>1, <1>2, <1>3

(* A step of process p: it is enough to look at p, if answers only grow.   *)
LEMMA LocalStep ==
    ASSUME IInv, NEW p \in Procs, NEW c \in Call, NEW i \in Io,
           call' = [call EXCEPT ![p] = c],
           io' = [io EXCEPT ![p] = i],
           answered' \in [Keys -> SUBSET Values],
           \A k \in Keys : answered[k] \subseteq answered'[k],
           One(c, i, answered'),
           file' \in [Keys -> Entry], FilesOK',
           (enabled \in [Procs -> BOOLEAN])',
           (started \in [Procs -> 0..MaxCalls])',
           (metrics \in [Procs -> [hits: Nat, misses: Nat]])'
    PROVE  IInv'
<1>1. TypeOK
  BY DEF IInv
<1>2. TypeOK'
  BY <1>1 DEF TypeOK, CacheTypeOK
<1>3. ASSUME NEW q \in Procs PROVE One(call'[q], io'[q], answered')
  <2>1. CASE q = p
    BY <2>1, <1>1 DEF TypeOK, CacheTypeOK
  <2>2. CASE q # p
    <3>1. call'[q] = call[q] /\ io'[q] = io[q] /\ call[q].key \in Keys /\ io[q].key \in Keys
      BY <2>2, <1>1 DEF TypeOK, CacheTypeOK, Call, Io
    <3>2. One(call[q], io[q], answered)
      BY <1>1, Decompose
    <3>3. QED
      BY <3>1, <3>2 DEF One
  <2>3. QED
    BY <2>1, <2>2
<1>4. (InStep /\ Underway)'
  BY <1>3 DEF One, InStep, Underway
<1>5. (HitIsAnAnswer /\ OnlyAnswersStored)'
  BY <1>3 DEF One, HitIsAnAnswer, OnlyAnswersStored, FilesOK
<1>6. (HooksAsEnded /\ SkipBypasses)'
  BY <1>3 DEF One, HooksAsEnded, SkipBypasses
<1>7. QED
  BY <1>2, <1>4, <1>5, <1>6 DEF IInv

LEMMA InitInv == Init => IInv
<1> SUFFICES ASSUME Init PROVE IInv
  OBVIOUS
<1>1. TypeOK
  <2>1. file \in [Keys -> Entry] /\ io \in [Procs -> Io]
    <3>1. Absent \in Entry
      BY DEF Absent, Entry, Piece
    <3>2. QED
      BY <3>1, IdleType DEF Init, CacheInit
  <2>2. call \in [Procs -> Call]
    BY IdleType DEF Init
  <2>3. started \in [Procs -> 0..MaxCalls] /\ metrics \in [Procs -> [hits: Nat, misses: Nat]]
    BY MaxCallsAssumption DEF Init
  <2>4. QED
    BY <2>1, <2>2, <2>3 DEF Init, TypeOK, CacheTypeOK
<1>2. \A p \in Procs : io[p] = IdleIo /\ call[p] = NoCall
  BY DEF Init, CacheInit
<1>3. InStep /\ Underway
  BY <1>2, IdleFields DEF InStep, Underway, Putting
<1>4. HitIsAnAnswer
  BY <1>2, IdleFields DEF HitIsAnAnswer
<1>5. OnlyAnswersStored
  <2>1. \A k \in Keys : file[k] = Absent
    BY DEF Init, CacheInit
  <2>2. QED
    BY <1>2, <2>1, IdleFields DEF OnlyAnswersStored
<1>6. HooksAsEnded /\ SkipBypasses
  BY <1>2, IdleFields DEF HooksAsEnded, SkipBypasses
<1>7. QED
  BY <1>1, <1>3, <1>4, <1>5, <1>6 DEF IInv

LEMMA StartStep ==
    ASSUME IInv, NEW p \in Procs, NEW k \in Keys, NEW policy \in Policies, Start(p, k, policy)
    PROVE  IInv'
<1> DEFINE eff == resolve_cache_policy(p, policy)
           begun == [NoCall EXCEPT !.key = k, !.policy = eff, !.hooks = <<"request">>]
           goes == [begun EXCEPT !.pc = IF begun.policy = "skip" THEN "executing" ELSE "lookup"]
<1>1. /\ TypeOK /\ One(call[p], io[p], answered) /\ FilesOK
      /\ UNCHANGED <<file, io, enabled, metrics, answered>>
      /\ started' = [started EXCEPT ![p] = @ + 1] /\ started[p] < MaxCalls
      /\ call[p].pc \in {"idle", "ended"}
  BY Decompose DEF Start, cacheVars
<1>2. PICK c \in {goes, Ended(begun, "hook")} : call' = [call EXCEPT ![p] = c]
  BY DEF Start, Become
<1>3. eff \in Policies
  BY DEF resolve_cache_policy, Policies
<1>4. c \in Call
  BY <1>2, <1>3, IdleType, HookSequences DEF Ended, Call, NoCall, Hook
<1>5. io[p] = IdleIo
  BY <1>1 DEF One, TypeOK, CacheTypeOK, Io, Putting
<1>6. One(c, IdleIo, answered')
  BY <1>2 DEF One, Ended, NoCall, IdleIo, Putting
<1>7. io' = [io EXCEPT ![p] = IdleIo]
  BY <1>1, <1>5 DEF TypeOK, CacheTypeOK
<1>8. started' \in [Procs -> 0..MaxCalls]
  BY <1>1, MaxCallsAssumption DEF TypeOK
<1>9. QED
  BY <1>1, <1>2, <1>4, <1>6, <1>7, <1>8, IdleType, LocalStep DEF TypeOK, CacheTypeOK, FilesOK

-----------------------------------------------------------------------------
(* What every step of a process p starts from.                             *)
LEMMA Before ==
    ASSUME IInv, NEW p \in Procs
    PROVE  /\ TypeOK /\ FilesOK /\ One(call[p], io[p], answered)
           /\ call[p] \in Call /\ io[p] \in Io
           /\ call[p].key \in Keys /\ io[p].key \in Keys
           /\ (io[p].op = "idle" => io[p] = IdleIo)
           /\ (call[p].pc \notin {"lookup", "storing"} => io[p] = IdleIo)
<1>1. TypeOK /\ FilesOK /\ One(call[p], io[p], answered)
  BY Decompose
<1>2. call[p] \in Call /\ io[p] \in Io
  BY <1>1 DEF TypeOK, CacheTypeOK
<1>3. call[p].key \in Keys /\ io[p].key \in Keys
  BY <1>2 DEF Call, Io
<1>4. io[p].op \in {"idle", "reading", "putting", "opened", "head_written"}
  BY <1>2 DEF Io
<1>5. QED
  BY <1>1, <1>2, <1>3, <1>4 DEF One, Putting

(* A step of p that leaves the cache alone.                                *)
LEMMA CallOnly ==
    ASSUME IInv, NEW p \in Procs, NEW c \in Call,
           call' = [call EXCEPT ![p] = c],
           UNCHANGED <<file, io, enabled, started, answered>>,
           (metrics \in [Procs -> [hits: Nat, misses: Nat]])',
           One(c, io[p], answered)
    PROVE  IInv'
<1>1. TypeOK /\ FilesOK /\ io[p] \in Io
  BY Before
<1>2. io' = [io EXCEPT ![p] = io[p]]
  BY <1>1 DEF TypeOK, CacheTypeOK
<1>3. QED
  BY <1>1, <1>2, LocalStep DEF TypeOK, CacheTypeOK, FilesOK

LEMMA MissType ==
    ASSUME TypeOK, NEW p \in Procs,
           metrics' = [metrics EXCEPT ![p].misses = @ + 1]
    PROVE  metrics' \in [Procs -> [hits: Nat, misses: Nat]]
BY DEF TypeOK

LEMMA LookupMissStep == ASSUME IInv, NEW p \in Procs, LookupMiss(p) PROVE IInv'
<1> DEFINE c == [call[p] EXCEPT !.pc = "executing"]
<1>1. /\ call[p].pc = "lookup"
      /\ call' = [call EXCEPT ![p] = c]
      /\ metrics' = [metrics EXCEPT ![p].misses = @ + 1]
      /\ UNCHANGED <<file, io, enabled, started, answered>>
  BY DEF LookupMiss, Miss, Become, cacheVars
<1>2. TypeOK /\ call[p] \in Call /\ One(call[p], io[p], answered)
  BY Before
<1>3. c \in Call
  BY <1>2 DEF Call
<1>4. metrics' \in [Procs -> [hits: Nat, misses: Nat]]
  BY <1>1, <1>2, MissType
<1>5. io[p] = IdleIo
  BY Before DEF LookupMiss
<1>6. One(c, io[p], answered)
  BY <1>1, <1>2, <1>5, IdleFields DEF One, Call, Putting
<1>7. QED
  BY <1>1, <1>3, <1>4, <1>6, CallOnly

LEMMA LookupFoundStep == ASSUME IInv, NEW p \in Procs, LookupFound(p) PROVE IInv'
<1> DEFINE i == [io[p] EXCEPT !.op = "reading", !.key = call[p].key]
<1>1. /\ call[p].pc = "lookup" /\ io[p].op = "idle"
      /\ io' = [io EXCEPT ![p] = i]
      /\ UNCHANGED <<file, enabled, call, started, metrics, answered>>
  BY Before DEF LookupFound, GetFound, TypeOK, CacheTypeOK
<1>2. /\ TypeOK /\ FilesOK /\ call[p] \in Call /\ io[p] = IdleIo /\ call[p].key \in Keys
      /\ One(call[p], io[p], answered)
  BY <1>1, Before
<1>3. i \in Io /\ i.op = "reading" /\ i.key = call[p].key /\ i.value = Hole
  BY <1>2, IdleType, IdleFields DEF Io
<1>4. One(call[p], i, answered)
  BY <1>1, <1>2, <1>3 DEF One, Putting
<1>5. call' = [call EXCEPT ![p] = call[p]]
  BY <1>1, <1>2 DEF TypeOK
<1>6. QED
  BY <1>1, <1>2, <1>3, <1>4, <1>5, LocalStep DEF TypeOK, CacheTypeOK, FilesOK

(* gzip's checks: an answer that decodes is all of the file.               *)
LEMMA DecodedAnswer ==
    ASSUME NEW e, NEW a \in Decoded(e), a \notin {NoValue, Broken}
    PROVE  a = e.head
BY DEF Decoded

LEMMA LookupReadStep ==
    ASSUME IInv, NEW p \in Procs, NEW a \in Values \cup {NoValue, Broken}, LookupRead(p, a)
    PROVE  IInv'
<1> DEFINE missed == [call[p] EXCEPT !.pc = "executing"]
           failed == Ended(call[p], "unreadable")
           hit == [Ended(call[p], "value") EXCEPT !.value = a, !.source = "cache"]
<1>1. /\ TypeOK /\ FilesOK /\ call[p] \in Call /\ call[p].key \in Keys
      /\ One(call[p], io[p], answered)
  BY Before
<1>2. /\ io[p].op = "reading" /\ a \in Decoded(file[io[p].key])
      /\ io' = [io EXCEPT ![p] = IdleIo]
      /\ UNCHANGED <<file, enabled, started, answered>>
  BY DEF LookupRead, Get, Release
<1>3. /\ call[p].pc = "lookup" /\ io[p].key = call[p].key /\ call[p].policy # "skip"
      /\ call[p].hooks = <<"request">> /\ call[p].source = "none" /\ call[p].result = "none"
      /\ call[p].put = FALSE
  BY <1>1, <1>2 DEF One, Call
<1>4. PICK c \in {missed, failed, hit} :
        /\ call' = [call EXCEPT ![p] = c]
        /\ c = hit => a \notin {NoValue, Broken}
        /\ metrics' \in [Procs -> [hits: Nat, misses: Nat]]
  <2>1. CASE a = NoValue
    <3>1. call' = [call EXCEPT ![p] = missed] /\ metrics' = [metrics EXCEPT ![p].misses = @ + 1]
      BY <2>1 DEF LookupRead, Miss, Become, NoValue, Broken
    <3>2. missed # hit
      BY <1>1 DEF Ended, Call
    <3>3. QED
      BY <1>1, <3>1, <3>2, MissType
  <2>2. CASE a = Broken
    <3>1. call' = [call EXCEPT ![p] = failed] /\ metrics' = metrics
      BY <2>2 DEF LookupRead, Become, NoValue, Broken
    <3>2. failed # hit
      BY <1>1 DEF Ended, Call
    <3>3. QED
      BY <1>1, <3>1, <3>2 DEF TypeOK
  <2>3. CASE a \notin {NoValue, Broken}
    <3>1. call' = [call EXCEPT ![p] = hit] /\ metrics' = [metrics EXCEPT ![p].hits = @ + 1]
      BY <2>3 DEF LookupRead, Become
    <3>2. metrics' \in [Procs -> [hits: Nat, misses: Nat]]
      BY <1>1, <3>1 DEF TypeOK
    <3>3. QED
      BY <2>3, <3>1, <3>2
  <2>4. QED
    BY <2>1, <2>2, <2>3
<1>5. ASSUME c = hit PROVE a \in Values /\ a \in answered[call[p].key]
  <2>1. a = file[call[p].key].head
    BY <1>2, <1>3, <1>4, <1>5, DecodedAnswer
  <2>2. a \in answered[call[p].key] \cup {Hole}
    BY <1>1, <2>1 DEF FilesOK
  <2>3. a \in Values
    BY <1>4, <1>5
  <2>4. QED
    BY <2>2, <2>3, ValuesAssumption
<1>6. c \in Call
  <2>1. missed \in Call /\ failed \in Call
    BY <1>1 DEF Call, Ended
  <2>2. CASE c = hit
    BY <1>1, <1>5, <2>2 DEF Call, Ended, Piece
  <2>3. QED
    BY <1>4, <2>1, <2>2
<1>7. One(c, IdleIo, answered)
  <2>1. CASE c = missed
    BY <1>1, <1>3, <2>1, IdleFields DEF One, Call, Putting
  <2>2. CASE c = failed
    BY <1>1, <1>3, <2>2, IdleFields DEF One, Call, Putting, Ended
  <2>3. CASE c = hit
    BY <1>1, <1>3, <1>5, <2>3, IdleFields DEF One, Call, Putting, Ended
  <2>4. QED
    BY <1>4, <2>1, <2>2, <2>3
<1>8. QED
  BY <1>1, <1>2, <1>4, <1>6, <1>7, IdleType, LocalStep DEF TypeOK, CacheTypeOK, FilesOK

-----------------------------------------------------------------------------
(* A call that ends during the exchange.                                   *)
LEMMA EndStep ==
    ASSUME IInv, NEW p \in Procs, call[p].pc = "executing",
           NEW hooks \in Seq(Hook), NEW result \in {"error", "hook", "bad_body", "cancelled"},
           call' = [call EXCEPT ![p] = [Ended(call[p], result) EXCEPT !.hooks = hooks]],
           result = "error" => hooks = <<"request", "error">>,
           result \in {"bad_body", "cancelled"} => hooks = <<"request">>,
           UNCHANGED <<cacheVars, enabled, started, metrics, answered>>
    PROVE  IInv'
<1> DEFINE c == [Ended(call[p], result) EXCEPT !.hooks = hooks]
<1>1. /\ TypeOK /\ call[p] \in Call /\ One(call[p], io[p], answered) /\ io[p] = IdleIo
  BY Before
<1>2. c \in Call
  BY <1>1 DEF Call, Ended, Hook
<1>3. call[p].source = "none" /\ call[p].put = FALSE
  BY <1>1 DEF One, Call
<1>4. One(c, io[p], answered)
  BY <1>1, <1>3, IdleFields DEF One, Call, Ended, Putting
<1>5. QED
  BY <1>1, <1>2, <1>4, CallOnly DEF cacheVars, TypeOK

LEMMA Exchange ==
    ASSUME IInv, NEW p \in Procs, call[p].pc = "executing"
    PROVE  /\ call[p].hooks = <<"request">>
           /\ call[p] \in Call
BY Before DEF One

LEMMA ExecuteFailsStep == ASSUME IInv, NEW p \in Procs, ExecuteFails(p) PROVE IInv'
<1>1. call[p].pc = "executing" /\ UNCHANGED <<cacheVars, enabled, started, metrics, answered>>
  BY DEF ExecuteFails
<1>2. PICK result \in {"error", "hook"} :
        call' = [call EXCEPT ![p] = [Ended(call[p], result) EXCEPT !.hooks = Append(@, "error")]]
  BY DEF ExecuteFails, Become
<1>3. Ended(call[p], result).hooks = <<"request">>
  BY <1>1, Exchange DEF Ended, Call
<1>4. call' = [call EXCEPT ![p] = [Ended(call[p], result) EXCEPT !.hooks = <<"request", "error">>]]
  BY <1>2, <1>3, HookSequences
<1>5. QED
  BY <1>1, <1>4, HookSequences, EndStep

LEMMA ExecuteAbortsStep == ASSUME IInv, NEW p \in Procs, ExecuteAborts(p) PROVE IInv'
<1>1. call[p].pc = "executing" /\ UNCHANGED <<cacheVars, enabled, started, metrics, answered>>
  BY DEF ExecuteAborts
<1>2. PICK result \in {"bad_body", "cancelled"} :
        call' = [call EXCEPT ![p] = Ended(call[p], result)]
  BY DEF ExecuteAborts, Become
<1>3. Ended(call[p], result) = [Ended(call[p], result) EXCEPT !.hooks = <<"request">>]
  BY <1>1, Exchange DEF Ended, Call
<1>4. call' = [call EXCEPT ![p] = [Ended(call[p], result) EXCEPT !.hooks = <<"request">>]]
  BY <1>2, <1>3
<1>5. QED
  BY <1>1, <1>4, HookSequences, EndStep

LEMMA ResponseHookFailsStep == ASSUME IInv, NEW p \in Procs, ResponseHookFails(p) PROVE IInv'
<1>1. call[p].pc = "executing" /\ UNCHANGED <<cacheVars, enabled, started, metrics, answered>>
  BY DEF ResponseHookFails
<1>2. call' = [call EXCEPT ![p] = [Ended(call[p], "hook") EXCEPT !.hooks = Append(@, "response")]]
  BY DEF ResponseHookFails, Become
<1>3. Ended(call[p], "hook").hooks = <<"request">>
  BY <1>1, Exchange DEF Ended, Call
<1>4. call' = [call EXCEPT ![p] = [Ended(call[p], "hook") EXCEPT !.hooks = <<"request", "response">>]]
  BY <1>2, <1>3, HookSequences
<1>5. QED
  BY <1>1, <1>4, HookSequences, EndStep

LEMMA AnswerStep == ASSUME IInv, NEW p \in Procs, NEW v \in Values, Answer(p, v) PROVE IInv'
<1> DEFINE c == [call[p] EXCEPT !.value = v, !.source = "provider",
                                !.hooks = <<"request", "response">>]
           storing == [c EXCEPT !.pc = "storing", !.put = TRUE]
           i == [op |-> "putting", key |-> c.key, value |-> v, detached |-> FALSE]
<1>1. /\ TypeOK /\ FilesOK /\ call[p] \in Call /\ call[p].key \in Keys /\ io[p] = IdleIo
      /\ One(call[p], io[p], answered)
      /\ call[p].pc = "executing" /\ call[p].hooks = <<"request">> /\ call[p].put = FALSE
      /\ call[p].result = "none"
  <2>1. call[p].pc = "executing"
    BY DEF Answer
  <2>2. QED
    BY <2>1, Before DEF One, Call
<1>2. /\ answered' = [answered EXCEPT ![call[p].key] = @ \cup {v}]
      /\ UNCHANGED <<enabled, started, metrics>>
  BY DEF Answer
<1>3. /\ answered' \in [Keys -> SUBSET Values]
      /\ \A k \in Keys : answered[k] \subseteq answered'[k]
      /\ v \in answered'[call[p].key]
  BY <1>1, <1>2 DEF TypeOK
<1>4. [call[p] EXCEPT !.value = v, !.source = "provider", !.hooks = Append(@, "response")] = c
  BY <1>1, HookSequences
<1>5. c \in Call /\ c.key = call[p].key
  BY <1>1, HookSequences DEF Call, Piece, Hook
<1>6. CASE c.policy # "skip" /\ enabled[p]
  <2>1. io' = [io EXCEPT ![p] = i] /\ file' = file /\ call' = [call EXCEPT ![p] = storing]
    BY <1>4, <1>6 DEF Answer, PutBegin, Become
  <2>2. i \in Io /\ storing \in Call
    BY <1>1, <1>5 DEF Io, Piece, Call
  <2>3. One(storing, i, answered')
    BY <1>1, <1>3, <1>5, <1>6 DEF One, Putting, Call
  <2>4. FilesOK'
    BY <1>1, <1>3, <2>1 DEF FilesOK
  <2>5. QED
    BY <1>1, <1>2, <1>3, <2>1, <2>2, <2>3, <2>4, LocalStep DEF TypeOK, CacheTypeOK
<1>7. CASE ~(c.policy # "skip" /\ enabled[p])
  <2>1. UNCHANGED cacheVars /\ call' = [call EXCEPT ![p] = Ended(c, "value")]
    BY <1>4, <1>7 DEF Answer, Become
  <2>2. Ended(c, "value") \in Call
    BY <1>5 DEF Call, Ended
  <2>3. One(Ended(c, "value"), IdleIo, answered')
    BY <1>1, <1>5, IdleFields DEF One, Putting, Call, Ended
  <2>4. FilesOK' /\ io' = [io EXCEPT ![p] = IdleIo]
    BY <1>1, <1>3, <2>1 DEF FilesOK, cacheVars, TypeOK, CacheTypeOK
  <2>5. QED
    BY <1>1, <1>2, <1>3, <2>1, <2>2, <2>3, <2>4, IdleType, LocalStep DEF cacheVars, TypeOK, CacheTypeOK
<1>8. QED
  BY <1>6, <1>7

-----------------------------------------------------------------------------
(* One entry changes, and holds nothing that was not accepted for its key. *)
LEMMA EntryStep ==
    ASSUME TypeOK, FilesOK, NEW k \in Keys, NEW e \in Entry,
           {e.head, e.tail} \subseteq answered[k] \cup {Hole},
           file' = [file EXCEPT ![k] = e], answered' = answered
    PROVE  file' \in [Keys -> Entry] /\ FilesOK'
<1>1. file' \in [Keys -> Entry]
  BY DEF TypeOK, CacheTypeOK
<1>2. \A j \in Keys : file'[j] = IF j = k THEN e ELSE file[j]
  BY DEF TypeOK, CacheTypeOK
<1>3. FilesOK'
  BY <1>2 DEF FilesOK
<1>4. QED
  BY <1>1, <1>3

(* What a write leaves in the file of its key.                             *)
Written(i, e, piece) ==
    IF i.detached THEN e
    ELSE IF piece = "head" THEN [e EXCEPT !.head = i.value]
    ELSE [e EXCEPT !.tail = i.value]

LEMMA WriteStep ==
    ASSUME IInv, NEW p \in Procs, NEW piece,
           file' = [file EXCEPT ![io[p].key] = Written(io[p], file[io[p].key], piece)],
           answered' = answered
    PROVE  file' \in [Keys -> Entry] /\ FilesOK'
<1> DEFINE k == io[p].key
           e == Written(io[p], file[k], piece)
<1>1. TypeOK /\ FilesOK /\ k \in Keys /\ io[p] \in Io /\ One(call[p], io[p], answered)
  BY Before
<1>2. file[k] \in Entry /\ io[p].value \in Piece
  BY <1>1 DEF TypeOK, CacheTypeOK, Io
<1>3. io[p].value \in answered[k] \cup {Hole} /\ {file[k].head, file[k].tail} \subseteq answered[k] \cup {Hole}
  BY <1>1 DEF One, FilesOK
<1>4. e \in Entry
  BY <1>2 DEF Written, Entry
<1>5. {e.head, e.tail} \subseteq answered[k] \cup {Hole}
  BY <1>2, <1>3 DEF Written, Entry
<1>6. QED
  BY <1>1, <1>4, <1>5, EntryStep

(* Between two system calls of put only the operation moves on.            *)
LEMMA OnwardStep ==
    ASSUME IInv, NEW p \in Procs, NEW op \in Putting,
           io[p].op \in Putting,
           io' = [io EXCEPT ![p].op = op],
           file' \in [Keys -> Entry], FilesOK',
           UNCHANGED <<enabled, call, started, metrics, answered>>
    PROVE  IInv'
<1> DEFINE i == [io[p] EXCEPT !.op = op]
<1>1. /\ TypeOK /\ call[p] \in Call /\ io[p] \in Io /\ One(call[p], io[p], answered)
  BY Before
<1>2. io' = [io EXCEPT ![p] = i] /\ call' = [call EXCEPT ![p] = call[p]]
  BY <1>1 DEF TypeOK, CacheTypeOK
<1>3. i \in Io
  BY <1>1 DEF Io, Putting
<1>4. call[p].pc = "storing" /\ call[p].policy # "skip"
  BY <1>1 DEF One
<1>5. i.op = op /\ i.key = io[p].key /\ i.value = io[p].value
  BY <1>1 DEF Io
<1>6. op # "idle" /\ op # "reading"
  BY DEF Putting
<1>7. One(call[p], i, answered)
  BY <1>1, <1>4, <1>5, <1>6 DEF One
<1>8. QED
  BY <1>1, <1>2, <1>3, <1>7, LocalStep DEF TypeOK, CacheTypeOK

LEMMA StoreStepStep == ASSUME IInv, NEW p \in Procs, StoreStep(p) PROVE IInv'
<1>1. UNCHANGED <<enabled, call, started, metrics, answered>>
  BY DEF StoreStep
<1>2. TypeOK /\ FilesOK /\ io[p].key \in Keys
  BY Before
<1>3. CASE PutOpen(p)
  <2>1. /\ io[p].op = "putting" /\ io' = [io EXCEPT ![p].op = "opened"]
        /\ file' = [file EXCEPT ![io[p].key] = Empty]
    BY <1>3 DEF PutOpen, Set
  <2>2. Empty \in Entry /\ Empty.head = Hole /\ Empty.tail = Hole
    BY DEF Empty, Entry, Piece
  <2>3. file' \in [Keys -> Entry] /\ FilesOK'
    BY <1>1, <1>2, <2>1, <2>2, EntryStep
  <2>4. QED
    BY <1>1, <2>1, <2>3, OnwardStep DEF Putting
<1>4. CASE PutHead(p)
  <2>1. io[p].op = "opened" /\ io' = [io EXCEPT ![p].op = "head_written"]
    BY <1>4 DEF PutHead, Write, Set
  <2>2. file' = [file EXCEPT ![io[p].key] = Written(io[p], file[io[p].key], "head")]
    BY <1>2, <1>4 DEF PutHead, Write, Written, TypeOK, CacheTypeOK
  <2>3. file' \in [Keys -> Entry] /\ FilesOK'
    BY <1>1, <2>2, WriteStep
  <2>4. QED
    BY <1>1, <2>1, <2>3, OnwardStep DEF Putting
<1>5. QED
  BY <1>3, <1>4 DEF StoreStep

(* A call that was under way ends, and the process is idle in the cache.   *)
LEMMA DropStep ==
    ASSUME IInv, NEW p \in Procs, NEW result \in {"value", "lost"},
           call[p].pc \in {"lookup", "executing", "storing"},
           result = "value" => call[p].pc = "storing",
           call' = [call EXCEPT ![p] = Ended(call[p], result)],
           io' = [io EXCEPT ![p] = IdleIo],
           file' \in [Keys -> Entry], FilesOK',
           (metrics \in [Procs -> [hits: Nat, misses: Nat]])',
           UNCHANGED <<enabled, started, answered>>
    PROVE  IInv'
<1> DEFINE c == Ended(call[p], result)
<1>1. TypeOK /\ call[p] \in Call /\ One(call[p], io[p], answered)
  BY Before
<1>2. c \in Call /\ c.pc = "ended" /\ c.result = result
  BY <1>1 DEF Call, Ended
<1>3. /\ c.hooks = call[p].hooks /\ c.source = call[p].source /\ c.put = call[p].put
      /\ c.policy = call[p].policy /\ c.value = call[p].value /\ c.key = call[p].key
  BY <1>1 DEF Call, Ended
<1>4. /\ call[p].source # "cache"
      /\ call[p].pc = "storing" => call[p].hooks = <<"request", "response">>
      /\ call[p].pc # "storing" => call[p].source = "none"
  BY <1>1 DEF One
<1>5. call[p].policy = "skip" => call[p].put = FALSE
  BY <1>1 DEF One, Call
<1>6. One(c, IdleIo, answered)
  BY <1>2, <1>3, <1>4, <1>5, IdleFields DEF One, Putting
<1>7. QED
  BY <1>1, <1>2, <1>6, IdleType, LocalStep DEF TypeOK

LEMMA StoreEndsStep == ASSUME IInv, NEW p \in Procs, StoreEnds(p) PROVE IInv'
<1>1. /\ call' = [call EXCEPT ![p] = Ended(call[p], "value")]
      /\ UNCHANGED <<enabled, started, metrics, answered>>
  BY DEF StoreEnds, Become
<1>2. TypeOK /\ FilesOK /\ One(call[p], io[p], answered)
  BY Before
<1>3. io[p].op \in Putting /\ io' = [io EXCEPT ![p] = IdleIo]
  <2>1. CASE PutTail(p)
    BY <2>1 DEF PutTail, Write, Release, Putting
  <2>2. CASE PutFails(p)
    BY <2>2 DEF PutFails, Release, Putting
  <2>3. QED
    BY <2>1, <2>2 DEF StoreEnds
<1>4. file' \in [Keys -> Entry] /\ FilesOK'
  <2>1. CASE PutTail(p)
    <3>1. file' = [file EXCEPT ![io[p].key] = Written(io[p], file[io[p].key], "tail")]
      BY <1>2, <2>1 DEF PutTail, Write, Written, TypeOK, CacheTypeOK
    <3>2. QED
      BY <1>1, <3>1, WriteStep
  <2>2. CASE PutFails(p)
    BY <1>1, <1>2, <2>2 DEF PutFails, TypeOK, CacheTypeOK, FilesOK
  <2>3. QED
    BY <2>1, <2>2 DEF StoreEnds
<1>5. call[p].pc = "storing"
  BY <1>2, <1>3 DEF One
<1>6. QED
  BY <1>1, <1>2, <1>3, <1>4, <1>5, DropStep DEF TypeOK

LEMMA CrashStep == ASSUME IInv, NEW p \in Procs, Crash(p) PROVE IInv'
<1>1. /\ call' = [call EXCEPT ![p] = Ended(call[p], "lost")]
      /\ metrics' = [metrics EXCEPT ![p] = [hits |-> 0, misses |-> 0]]
      /\ io' = [io EXCEPT ![p] = IdleIo]
      /\ UNCHANGED <<file, enabled, started, answered>>
      /\ call[p].pc \notin {"idle", "ended"}
  BY DEF Crash, Die, Release, Become
<1>2. TypeOK /\ FilesOK /\ call[p] \in Call
  BY Before
<1>3. call[p].pc \in {"lookup", "executing", "storing"}
  BY <1>1, <1>2 DEF Call
<1>4. metrics' \in [Procs -> [hits: Nat, misses: Nat]]
  BY <1>1, <1>2 DEF TypeOK
<1>5. file' \in [Keys -> Entry] /\ FilesOK'
  BY <1>1, <1>2 DEF TypeOK, CacheTypeOK, FilesOK
<1>6. QED
  BY <1>1, <1>3, <1>4, <1>5, DropStep

(* Unlinking detaches writers, which changes nothing else about them.      *)
LEMMA ClearStep == ASSUME IInv, NEW k \in Keys, Clear(k) PROVE IInv'
<1>1. /\ file' = [file EXCEPT ![k] = Absent]
      /\ io' = [p \in Procs |->
                  IF io[p].key = k /\ io[p].op \in {"opened", "head_written"}
                  THEN [io[p] EXCEPT !.detached = TRUE] ELSE io[p]]
      /\ UNCHANGED <<enabled, call, started, metrics, answered>>
  BY DEF Clear, Unlink
<1>2. TypeOK /\ FilesOK /\ \A p \in Procs : One(call[p], io[p], answered)
  BY Decompose
<1>3. file' \in [Keys -> Entry] /\ FilesOK'
  <2>1. Absent \in Entry /\ Absent.head = Hole /\ Absent.tail = Hole
    BY DEF Absent, Entry, Piece
  <2>2. QED
    BY <1>1, <1>2, <2>1, EntryStep
<1>4. ASSUME NEW p \in Procs
      PROVE  /\ io'[p] \in Io
             /\ io'[p].op = io[p].op /\ io'[p].key = io[p].key /\ io'[p].value = io[p].value
             /\ io[p].op = "idle" => io'[p] = io[p]
  <2>1. io[p] \in Io
    BY <1>2 DEF TypeOK, CacheTypeOK
  <2>2. CASE io[p].key = k /\ io[p].op \in {"opened", "head_written"}
    <3>1. io'[p] = [io[p] EXCEPT !.detached = TRUE]
      BY <1>1, <2>2
    <3>2. QED
      BY <2>1, <2>2, <3>1 DEF Io
  <2>3. CASE ~(io[p].key = k /\ io[p].op \in {"opened", "head_written"})
    BY <1>1, <2>1, <2>3
  <2>4. QED
    BY <2>2, <2>3
<1>5. TypeOK'
  <2>1. io' \in [Procs -> Io]
    BY <1>1, <1>4
  <2>2. QED
    BY <1>1, <1>2, <1>3, <2>1 DEF TypeOK, CacheTypeOK
<1>6. ASSUME NEW p \in Procs PROVE One(call[p], io'[p], answered)
  <2>1. One(call[p], io[p], answered)
    BY <1>2
  <2>2. io[p] = IdleIo => io'[p] = IdleIo
    BY <1>4, IdleFields
  <2>3. QED
    BY <1>4, <2>1, <2>2 DEF One
<1>7. (InStep /\ Underway)'
  BY <1>1, <1>6 DEF One, InStep, Underway
<1>8. (HitIsAnAnswer /\ OnlyAnswersStored)'
  BY <1>1, <1>3, <1>6 DEF One, HitIsAnAnswer, OnlyAnswersStored, FilesOK
<1>9. (HooksAsEnded /\ SkipBypasses)'
  BY <1>1, <1>6 DEF One, HooksAsEnded, SkipBypasses
<1>10. QED
  BY <1>5, <1>7, <1>8, <1>9 DEF IInv

LEMMA StutterStep == ASSUME IInv, UNCHANGED vars PROVE IInv'
<1>1. UNCHANGED <<file, io, enabled, call, started, metrics, answered>>
  BY DEF vars, cacheVars
<1>2. QED
  BY <1>1 DEF IInv, TypeOK, CacheTypeOK, InStep, Underway, HitIsAnAnswer, OnlyAnswersStored,
              HooksAsEnded, SkipBypasses

-----------------------------------------------------------------------------
(***************************************************************************)
(* The invariant holds in every state of request_async and the shared      *)
(* directory, whatever the processes, crashes and clears do.               *)
(***************************************************************************)
THEOREM Invariance == Spec => []IInv
<1>1. IInv /\ [Next]_vars => IInv'
  <2> SUFFICES ASSUME IInv, [Next]_vars PROVE IInv'
    OBVIOUS
  <2>1. ASSUME NEW p \in Procs, Step(p) PROVE IInv'
    BY <2>1, LookupMissStep, LookupFoundStep, LookupReadStep, ExecuteFailsStep, ExecuteAbortsStep,
       ResponseHookFailsStep, AnswerStep, StoreStepStep, StoreEndsStep DEF Step
  <2>2. ASSUME NEW p \in Procs, Crash(p) PROVE IInv'
    BY <2>2, CrashStep
  <2>3. ASSUME NEW p \in Procs, NEW k \in Keys, NEW policy \in Policies, Start(p, k, policy)
        PROVE  IInv'
    BY <2>3, StartStep
  <2>4. ASSUME NEW k \in Keys, Clear(k) PROVE IInv'
    BY <2>4, ClearStep
  <2>5. CASE Terminated
    BY <2>5, StutterStep DEF Terminated
  <2>6. CASE UNCHANGED vars
    BY <2>6, StutterStep
  <2>7. QED
    BY <2>1, <2>2, <2>3, <2>4, <2>5, <2>6 DEF Next
<1>2. QED
  BY <1>1, InitInv, PTL DEF Spec

(* Every variable keeps its type.                                          *)
THEOREM TypeCorrect == Spec => []TypeOK
<1>1. IInv => TypeOK
  BY DEF IInv
<1>2. QED
  BY <1>1, Invariance, PTL

(***************************************************************************)
(* An answer get returns was accepted for that key.                        *)
(***************************************************************************)
THEOREM CacheSound == Spec => []HitIsAnAnswer
<1>1. IInv => HitIsAnAnswer
  BY DEF IInv
<1>2. QED
  BY <1>1, Invariance, PTL

(***************************************************************************)
(* No byte of a failed, cancelled or unparsable call is ever on disk.      *)
(***************************************************************************)
THEOREM DiskHoldsAnswers == Spec => []OnlyAnswersStored
<1>1. IInv => OnlyAnswersStored
  BY DEF IInv
<1>2. QED
  BY <1>1, Invariance, PTL

(***************************************************************************)
(* The hooks a call fired are those its ending calls for.                  *)
(***************************************************************************)
THEOREM HooksJustified == Spec => []HooksAsEnded
<1>1. IInv => HooksAsEnded
  BY DEF IInv
<1>2. QED
  BY <1>1, Invariance, PTL

(***************************************************************************)
(* A call with CachePolicy.SKIP neither reads nor writes the directory.    *)
(***************************************************************************)
THEOREM SkipSound == Spec => []SkipBypasses
<1>1. IInv => SkipBypasses
  BY DEF IInv
<1>2. QED
  BY <1>1, Invariance, PTL

(***************************************************************************)
(* The chain of clients.                                                   *)
(***************************************************************************)
(* What appending to one of the two histories does.                        *)
LEMMA Appended ==
    ASSUME NEW S, NEW s \in Seq(S), NEW x \in S, NEW t, t = Append(s, x)
    PROVE  /\ t \in Seq(S)
           /\ Len(s) \in Nat
           /\ Len(t) = Len(s) + 1
           /\ \A i \in 1..Len(s) : t[i] = s[i]
           /\ t[Len(s) + 1] = x
           /\ t # <<>>
BY AppendProperties, LenProperties

LEMMA ChainInitInv == ChainInit => ChainInv
<1> SUFFICES ASSUME ChainInit PROVE ChainInv
  OBVIOUS
<1> USE DEF ChainInit
<1>1. ChainTypeOK
  <2>1. current \in 1..N + 1
    BY NAssumption
  <2>2. delivered \in Seq(1..N) /\ failures \in Seq(Failure)
    BY EmptySeq
  <2>3. last_error \in Failure \cup {"unreachable"} /\ outcome \in Failure \cup {"none", "value", "closed"}
    OBVIOUS
  <2>4. QED
    BY <2>1, <2>2, <2>3 DEF ChainTypeOK
<1>2. AtClient
  BY NAssumption DEF AtClient
<1>3. SingleSource /\ FailoverJustified /\ Decided
  BY DEF SingleSource, FailoverJustified, Decided, Failure
<1>4. QED
  BY <1>1, <1>2, <1>3 DEF ChainInv

LEMMA TryStep == ChainInv /\ Try => ChainInv'
BY DEF ChainInv, ChainTypeOK, AtClient, SingleSource, FailoverJustified, Decided, Try

LEMMA SucceedStep == ChainInv /\ Succeed => ChainInv'
BY DEF ChainInv, ChainTypeOK, AtClient, SingleSource, FailoverJustified, Decided, Succeed, Settle, Failure

LEMMA ResumeStep == ChainInv /\ Resume => ChainInv'
BY DEF ChainInv, ChainTypeOK, AtClient, SingleSource, FailoverJustified, Decided, Resume

LEMMA CloseStep == ChainInv /\ Close => ChainInv'
BY DEF ChainInv, ChainTypeOK, AtClient, SingleSource, FailoverJustified, Decided, Close, Settle, Failure

LEMMA YieldStep == ChainInv /\ Yield => ChainInv'
<1> SUFFICES ASSUME ChainInv, Yield PROVE ChainInv'
  OBVIOUS
<1>1. /\ current \in 1..N /\ delivered \in Seq(1..N) /\ delivered' = Append(delivered, current)
      /\ UNCHANGED <<mode, current, last_error, outcome, failures>>
      /\ pc' = "yielded" /\ yielded'
  BY NAssumption DEF ChainInv, ChainTypeOK, AtClient, Yield
<1>2. /\ delivered' \in Seq(1..N)
      /\ Len(delivered) \in Nat
      /\ Len(delivered') = Len(delivered) + 1
      /\ \A i \in 1..Len(delivered) : delivered'[i] = delivered[i]
      /\ delivered'[Len(delivered) + 1] = current
      /\ delivered' # <<>>
  BY <1>1, Appended
<1>3. SingleSource'
  BY <1>1, <1>2 DEF ChainInv, SingleSource
<1>4. QED
  BY <1>1, <1>2, <1>3 DEF ChainInv, ChainTypeOK, AtClient, FailoverJustified, Decided, Yield, Failure

LEMMA FailStep == ASSUME NEW kind \in Failure, ChainInv, Fail(kind) PROVE ChainInv'
<1>1. /\ pc = "trying" /\ current \in 1..N /\ failures \in Seq(Failure)
      /\ failures' = Append(failures, kind)
      /\ Len(failures) = current - 1 /\ yielded = (delivered # <<>>)
      /\ UNCHANGED <<mode, yielded, delivered>>
  BY NAssumption DEF ChainInv, ChainTypeOK, AtClient, Fail
<1>2. /\ failures' \in Seq(Failure)
      /\ Len(failures) \in Nat
      /\ Len(failures') = Len(failures) + 1
      /\ \A i \in 1..Len(failures) : failures'[i] = failures[i]
      /\ failures'[Len(failures) + 1] = kind
      /\ failures' # <<>>
  BY <1>1, Appended
<1>3. CASE yielded \/ kind \notin FallbackOn
  <2>1. pc' = "done" /\ outcome' = kind /\ UNCHANGED <<current, last_error>>
    BY <1>3 DEF Fail, Settle
  <2>2. Decided'
    BY <1>1, <1>2, <1>3, <2>1 DEF Decided
  <2>3. FailoverJustified'
    BY <1>1, <1>2, <2>1 DEF ChainInv, FailoverJustified
  <2>4. QED
    BY <1>1, <1>2, <2>1, <2>2, <2>3 DEF ChainInv, ChainTypeOK, AtClient, SingleSource
<1>4. CASE ~(yielded \/ kind \notin FallbackOn)
  <2>1. /\ last_error' = kind /\ current' = current + 1 /\ pc' = "loop"
        /\ outcome' = outcome /\ outcome = "none" /\ delivered = <<>>
    BY <1>1, <1>4 DEF Fail, ChainInv, AtClient
  <2>2. FailoverJustified'
    BY <1>1, <1>2, <1>4, <2>1 DEF ChainInv, FailoverJustified
  <2>3. Decided' /\ SingleSource'
    BY <1>1, <2>1 DEF Decided, SingleSource, Failure
  <2>4. ChainTypeOK'
    BY <1>1, <1>2, <2>1, NAssumption DEF ChainInv, ChainTypeOK
  <2>5. AtClient'
    BY <1>1, <1>2, <2>1 DEF AtClient
  <2>6. QED
    BY <2>2, <2>3, <2>4, <2>5 DEF ChainInv
<1>5. QED
  BY <1>3, <1>4

LEMMA ExhaustedStep == ChainInv /\ Exhausted => ChainInv'
<1> SUFFICES ASSUME ChainInv, Exhausted PROVE ChainInv'
  OBVIOUS
<1>1. /\ current = N + 1 /\ Len(failures) = N /\ last_error = failures[N]
      /\ outcome' = last_error /\ pc' = "done" /\ last_error \in Failure
      /\ UNCHANGED <<mode, current, yielded, last_error, delivered, failures>>
  <2>1. current = N + 1 /\ Len(failures) = N /\ last_error = failures[N]
    BY NAssumption DEF ChainInv, ChainTypeOK, AtClient, Exhausted
  <2>2. failures[N] \in Failure
    BY <2>1, NAssumption, ElementOfSeq DEF ChainInv, ChainTypeOK
  <2>3. QED
    BY <2>1, <2>2 DEF Exhausted, Settle
<1>2. Decided'
  BY <1>1, NAssumption DEF Decided
<1>3. QED
  BY <1>1, <1>2 DEF ChainInv, ChainTypeOK, AtClient, SingleSource, FailoverJustified

(* Whatever the clients do, however many there are and whatever            *)
(* fallback_on says, chunks come from one client, clients are spent in     *)
(* order and only for cause, and the caller hears what decided the call.   *)
THEOREM ChainInvariance == ChainSpec => []ChainInv
<1>1. ChainInv /\ [ChainNext]_chainVars => ChainInv'
  <2> SUFFICES ASSUME ChainInv, [ChainNext]_chainVars PROVE ChainInv'
    OBVIOUS
  <2>1. ASSUME NEW kind \in Failure, Fail(kind) PROVE ChainInv'
    BY <2>1, FailStep
  <2>2. CASE UNCHANGED chainVars
    BY <2>2 DEF chainVars, ChainInv, ChainTypeOK, AtClient, SingleSource, FailoverJustified, Decided
  <2>3. QED
    BY <2>1, <2>2, TryStep, SucceedStep, ResumeStep, CloseStep, YieldStep, ExhaustedStep
    DEF ChainNext, ChainEnded
<1>2. QED
  BY <1>1, ChainInitInv, PTL DEF ChainSpec

(* Chunks of two providers are never mixed.                                *)
THEOREM OneSource == ChainSpec => []SingleSource
<1>1. ChainInv => SingleSource
  BY DEF ChainInv
<1>2. QED
  BY <1>1, ChainInvariance, PTL

(* No client is spent while an earlier one could still answer.             *)
THEOREM FailsOverForCause == ChainSpec => []FailoverJustified
<1>1. ChainInv => FailoverJustified
  BY DEF ChainInv
<1>2. QED
  BY <1>1, ChainInvariance, PTL

(* The failure reported is the one that decided the call.                  *)
THEOREM FailureDecided == ChainSpec => []Decided
<1>1. ChainInv => Decided
  BY DEF ChainInv
<1>2. QED
  BY <1>1, ChainInvariance, PTL
-----------------------------------------------------------------------------
(* Refinement.  Before the call is settled as many clients failed as are   *)
(* behind the one being tried.                                             *)
LEMMA WhileRunning ==
    ASSUME ChainInv, pc # "done"
    PROVE  /\ Len(failures) = current - 1 /\ current \in 1..N + 1
           /\ failures \in Seq(Failure) /\ Len(failures) \in Nat
           /\ Outcome = "none"
           /\ pc = "loop" => Spent = current - 1 /\ delivered = <<>>
           /\ pc # "loop" => Spent = current /\ current <= N /\ Verdict = "none"
<1>1. /\ Len(failures) = current - 1 /\ current \in 1..N + 1 /\ current \in Int
      /\ failures \in Seq(Failure) /\ Len(failures) \in Nat /\ outcome = "none"
      /\ pc = "loop" => delivered = <<>>
      /\ pc # "loop" => current <= N
  BY NAssumption, LenProperties DEF ChainInv, ChainTypeOK, AtClient
<1>2. pc = "loop" => Spent = current - 1
  BY DEF Spent
<1>3. pc # "loop" => Spent = current
  BY <1>1, NAssumption DEF Spent
<1>4. QED
  BY <1>1, <1>2, <1>3 DEF Verdict, Outcome

LEMMA ChainInitRefines == ChainInit => Contract!Init
<1> SUFFICES ASSUME ChainInit PROVE Contract!Init
  OBVIOUS
<1>1. Spent = 0 /\ Verdict = "none" /\ Phase = "ready" /\ Outcome = "none"
  BY DEF ChainInit, Spent, Verdict, Phase, Outcome
<1>2. QED
  BY <1>1, NAssumption DEF Contract!Init

LEMMA TryRefines == ChainInv /\ Try => Contract!Send
<1> SUFFICES ASSUME ChainInv, Try PROVE Contract!Send
  OBVIOUS
<1>1. /\ pc = "loop" /\ pc' = "trying" /\ current \in 1..N
      /\ UNCHANGED <<current, outcome, delivered, failures>>
  BY NAssumption DEF Try, ChainInv, ChainTypeOK
<1>2. /\ Len(failures) = current - 1 /\ Len(failures) \in Nat /\ failures \in Seq(Failure)
      /\ outcome = "none" /\ Spent = current - 1 /\ delivered = <<>>
  BY <1>1, WhileRunning DEF ChainInv, AtClient
<1>3. Spent' = Spent + 1 /\ Spent < N
  BY <1>1, <1>2, NAssumption DEF Spent
<1>4. Verdict' = "none"
  BY <1>1, <1>2, <1>3 DEF Verdict
<1>5. Verdict \in {"none", "transient"}
  <2>1. CASE failures = <<>>
    BY <1>2, <2>1 DEF Verdict
  <2>2. CASE failures # <<>>
    <3>1. current - 1 \in 1..current - 1 /\ Len(failures) = current - 1
      BY <1>1, <1>2, <2>2, EmptySeq
    <3>2. failures[Len(failures)] \in FallbackOn
      BY <3>1 DEF ChainInv, FailoverJustified
    <3>3. ~(Len(failures) < Spent)
      BY <1>2
    <3>4. QED
      BY <1>2, <2>2, <3>2, <3>3 DEF Verdict
  <2>3. QED
    BY <2>1, <2>2
<1>6. Phase = "ready" /\ Phase' = "inflight" /\ Outcome' = Outcome
  BY <1>1 DEF Phase, Outcome
<1>7. QED
  BY <1>3, <1>4, <1>5, <1>6 DEF Contract!Send

LEMMA SucceedRefines == ChainInv /\ Succeed => Contract!Accept
<1> SUFFICES ASSUME ChainInv, Succeed PROVE Contract!Accept
  OBVIOUS
<1>1. /\ pc = "trying" /\ pc' = "done" /\ outcome' = "value"
      /\ UNCHANGED <<current, failures>>
  BY DEF Succeed, Settle
<1>2. Len(failures) = current - 1 /\ current \in 1..N /\ Spent = current
  BY <1>1, WhileRunning
<1>3. Spent' = Spent
  BY <1>1 DEF Spent
<1>4. Verdict' = "good"
  BY <1>1, <1>2, <1>3 DEF Verdict
<1>5. Phase = "inflight" /\ Phase' = "settled" /\ Outcome' = "value"
  BY <1>1 DEF Phase, Outcome
<1>6. QED
  BY <1>3, <1>4, <1>5 DEF Contract!Accept

(* A failure is transient exactly when the chain goes on.                  *)
LEMMA FailRefines == ASSUME NEW kind \in Failure, ChainInv, Fail(kind) PROVE Contract!Next
<1>1. /\ pc = "trying" /\ failures' = Append(failures, kind)
      /\ yielded = (delivered # <<>>) /\ delivered' = delivered
  BY DEF Fail, ChainInv, AtClient
<1>2. /\ Len(failures) = current - 1 /\ current \in 1..N /\ Spent = current
      /\ failures \in Seq(Failure) /\ Outcome = "none"
  BY <1>1, WhileRunning
<1>3. /\ Len(failures') = current /\ failures'[Len(failures')] = kind /\ failures' # <<>>
  BY <1>1, <1>2, Appended
<1>4. Phase = "inflight"
  BY <1>1 DEF Phase
<1>5. CASE yielded \/ kind \notin FallbackOn
  <2>1. pc' = "done" /\ outcome' = kind /\ current' = current
    BY <1>5 DEF Fail, Settle
  <2>2. Spent' = Spent
    BY <1>1, <2>1 DEF Spent
  <2>3. Verdict' = "fatal"
    <3>1. ~(failures'[Len(failures')] \in FallbackOn /\ delivered' = <<>>)
      BY <1>1, <1>3, <1>5
    <3>2. ~(Len(failures') < Spent')
      BY <1>2, <1>3, <2>2
    <3>3. QED
      BY <1>3, <3>1, <3>2 DEF Verdict
  <2>4. Phase' = "settled" /\ Outcome' = "error"
    BY <2>1 DEF Phase, Outcome, Failure
  <2>5. Contract!Refuse("fatal")
    BY <1>4, <2>2, <2>3, <2>4 DEF Contract!Refuse
  <2>6. QED
    BY <2>5 DEF Contract!Next
<1>6. CASE ~(yielded \/ kind \notin FallbackOn)
  <2>1. pc' = "loop" /\ outcome' = outcome /\ current' = current + 1
    BY <1>6 DEF Fail
  <2>2. Spent' = Spent
    BY <1>2, <2>1 DEF Spent
  <2>3. Verdict' = "transient"
    <3>1. failures'[Len(failures')] \in FallbackOn /\ delivered' = <<>>
      BY <1>1, <1>3, <1>6
    <3>2. ~(Len(failures') < Spent')
      BY <1>2, <1>3, <2>2
    <3>3. QED
      BY <1>3, <3>1, <3>2 DEF Verdict
  <2>4. Phase' = "ready" /\ Outcome' = Outcome
    BY <2>1 DEF Phase, Outcome
  <2>5. Contract!Refuse("transient")
    BY <1>4, <2>2, <2>3, <2>4 DEF Contract!Refuse
  <2>6. QED
    BY <2>5 DEF Contract!Next
<1>7. QED
  BY <1>5, <1>6

LEMMA ExhaustedRefines == ChainInv /\ Exhausted => Contract!GiveUp
<1> SUFFICES ASSUME ChainInv, Exhausted PROVE Contract!GiveUp
  OBVIOUS
<1>1. /\ pc = "loop" /\ pc' = "done" /\ current > N /\ outcome' = last_error
      /\ UNCHANGED <<current, delivered, failures>>
  BY DEF Exhausted, Settle
<1>2. last_error \in Failure
  <2>1. current = N + 1 /\ Len(failures) = N /\ last_error = failures[N]
    BY <1>1, NAssumption DEF ChainInv, ChainTypeOK, AtClient
  <2>2. QED
    BY <2>1, NAssumption, ElementOfSeq DEF ChainInv, ChainTypeOK
<1>3. Outcome' = "error" /\ Phase = "ready" /\ Phase' = "settled"
  BY <1>1, <1>2 DEF Outcome, Phase, Failure
<1>4. Spent' = Spent /\ Spent = Len(failures)
  BY <1>1, WhileRunning DEF Spent
<1>5. Verdict' = Verdict
  <2>1. ~(Len(failures) < Spent) /\ ~(Len(failures') < Spent')
    BY <1>1, <1>4, WhileRunning
  <2>2. QED
    BY <1>1, <2>1 DEF Verdict
<1>6. QED
  BY <1>3, <1>4, <1>5 DEF Contract!GiveUp

LEMMA CloseRefines == ChainInv /\ Close => Contract!Cancel
<1> SUFFICES ASSUME ChainInv, Close PROVE Contract!Cancel
  OBVIOUS
<1>1. /\ pc = "yielded" /\ pc' = "done" /\ outcome' = "closed"
      /\ UNCHANGED <<current, delivered, failures>>
  BY DEF Close, Settle
<1>2. Len(failures) = current - 1 /\ current \in 1..N /\ Spent = current /\ Verdict = "none"
  BY <1>1, WhileRunning
<1>3. Spent' = Spent
  BY <1>1 DEF Spent
<1>4. Verdict' = "none"
  BY <1>1, <1>2, <1>3 DEF Verdict
<1>5. Phase # "settled" /\ Phase' = "settled" /\ Outcome' = "cancelled"
  BY <1>1 DEF Phase, Outcome
<1>6. QED
  BY <1>2, <1>3, <1>4, <1>5 DEF Contract!Cancel

(* Chunks handed over, and a call that is done, are no step of the         *)
(* contract.                                                               *)
LEMMA QuietRefines ==
    ASSUME ChainInv, Yield \/ Resume \/ UNCHANGED chainVars
    PROVE  UNCHANGED Contract!vars
<1>1. CASE UNCHANGED chainVars
  BY <1>1 DEF chainVars, Contract!vars, Phase, Spent, Verdict, Outcome
<1>2. CASE Yield \/ Resume
  <2>1. /\ pc \in {"trying", "yielded"} /\ pc' \in {"trying", "yielded"}
        /\ UNCHANGED <<current, outcome, failures>>
    BY <1>2 DEF Yield, Resume
  <2>2. ChainInv'
    BY <1>2, YieldStep, ResumeStep
  <2>3. Verdict = "none" /\ Len(failures) < Spent /\ outcome = "none"
    BY <2>1, WhileRunning DEF ChainInv, AtClient
  <2>4. Phase' = Phase /\ Outcome' = Outcome /\ Spent' = Spent
    BY <2>1 DEF Phase, Outcome, Spent
  <2>5. Verdict' = "none"
    BY <2>1, <2>3, <2>4 DEF Verdict
  <2>6. QED
    BY <2>3, <2>4, <2>5 DEF Contract!vars
<1>3. QED
  BY <1>1, <1>2

(* The chain implements the contract of a bounded call: it spends at most  *)
(* its clients, the next one only after a failure that cost the caller     *)
(* nothing, and it settles once.                                           *)
THEOREM Refinement == ChainSpec => ImplementsContract
<1>1. ChainInv /\ [ChainNext]_chainVars => [Contract!Next]_Contract!vars
  <2> SUFFICES ASSUME ChainInv, [ChainNext]_chainVars PROVE [Contract!Next]_Contract!vars
    OBVIOUS
  <2>1. ASSUME NEW kind \in Failure, Fail(kind) PROVE Contract!Next
    BY <2>1, FailRefines
  <2>2. CASE Try \/ Succeed \/ Exhausted \/ Close
    BY <2>2, TryRefines, SucceedRefines, ExhaustedRefines, CloseRefines DEF Contract!Next
  <2>3. CASE Yield \/ Resume \/ ChainEnded \/ UNCHANGED chainVars
    BY <2>3, QuietRefines DEF ChainEnded
  <2>4. QED
    BY <2>1, <2>2, <2>3 DEF ChainNext
<1>2. QED
  BY <1>1, ChainInitRefines, ChainInvariance, PTL DEF ChainSpec, ImplementsContract, Contract!Spec
(***************************************************************************)
(* Induction on numbers, from the least counterexample.                    *)
(***************************************************************************)
LEMMA Least == ASSUME NEW T \in SUBSET Nat, T # {} PROVE \E x \in T : \A y \in T : ~(y < x)
<1> DEFINE R == OpToRel(<, Nat)
<1>1. IsWellFoundedOn(R, Nat)
  BY NatLessThanWellFounded
<1>2. \E x \in T : \A y \in T : ~(<<y, x>> \in R)
  <2> HIDE DEF R
  <2>1. QED
    BY <1>1, WFMin
<1>3. \A x, y \in Nat : y < x => <<y, x>> \in R
  BY DEF OpToRel
<1>4. QED
  BY <1>2, <1>3

LEMMA Reach ==
    ASSUME NEW S, 0 \in S, \A n \in Nat : n \in S => n + 1 \in S
    PROVE  Nat \subseteq S
<1> DEFINE T == Nat \ S
<1>1. SUFFICES ASSUME T # {} PROVE FALSE
  OBVIOUS
<1>2. PICK x \in T : \A y \in T : ~(y < x)
  BY <1>1, Least
<1>3. x # 0
  OBVIOUS
<1>4. x - 1 \in Nat /\ x - 1 < x
  BY <1>3
<1>5. x - 1 \in S
  BY <1>2, <1>4
<1>6. QED
  BY <1>4, <1>5
-----------------------------------------------------------------------------
(***************************************************************************)
(* Selections.  g lists the places P of a list in their order.             *)
(***************************************************************************)
Lists(g, n, P) ==
    /\ n \in Nat /\ g \in [1..n -> P]
    /\ \A i, j \in 1..n : i < j => g[i] < g[j]
    /\ \A x \in P : \E i \in 1..n : g[i] = x

Rank(P, i) == Cardinality({j \in P : j <= i})

LEMMA RankGrows ==
    ASSUME NEW P, P \subseteq Nat, IsFiniteSet(P), NEW i \in P, NEW j \in P, i < j
    PROVE  Rank(P, i) < Rank(P, j)
<1> DEFINE A == {k \in P : k <= i}
           B == {k \in P : k <= j}
<1>1. A \subseteq B /\ j \in B /\ j \notin A /\ B \subseteq P
  <2>1. i \in Nat /\ j \in Nat /\ \A k \in P : k \in Nat
    OBVIOUS
  <2>2. \A k \in P : k <= i => k <= j
    BY <2>1
  <2>3. j \notin A /\ j \in B
    BY <2>1
  <2>4. QED
    BY <2>2, <2>3
<1>2. IsFiniteSet(B)
  BY <1>1, FS_Subset
<1>3. IsFiniteSet(A) /\ Cardinality(A) <= Cardinality(B) /\ Cardinality(A) # Cardinality(B)
  <2> HIDE DEF A, B
  <2>1. A \in SUBSET B
    BY <1>1
  <2>2. A # B
    BY <1>1
  <2>3. QED
    BY <1>2, <2>1, <2>2, FS_Subset
<1>4. Cardinality(A) \in Nat /\ Cardinality(B) \in Nat
  BY <1>2, <1>3, FS_CardinalityType
<1>5. QED
  BY <1>3, <1>4 DEF Rank

LEMMA RankIn ==
    ASSUME NEW P, P \subseteq Nat, IsFiniteSet(P), NEW i \in P
    PROVE  Rank(P, i) \in 1..Cardinality(P)
<1> DEFINE A == {k \in P : k <= i}
<1>1. A \in SUBSET P /\ i \in A
  OBVIOUS
<1>2. IsFiniteSet(A) /\ Cardinality(A) <= Cardinality(P)
  <2> HIDE DEF A
  <2>1. QED
    BY <1>1, FS_Subset
<1>3. Cardinality(A) # 0
  BY <1>1, <1>2, FS_EmptySet
<1>4. Cardinality(A) \in Nat /\ Cardinality(P) \in Nat
  BY <1>2, FS_CardinalityType
<1>5. QED
  BY <1>2, <1>3, <1>4 DEF Rank

LEMMA NthLists ==
    ASSUME NEW P, P \subseteq Nat, IsFiniteSet(P)
    PROVE  Lists([k \in 1..Cardinality(P) |-> Nth(P, k)], Cardinality(P), P)
<1> DEFINE n == Cardinality(P)
           f == [i \in P |-> Rank(P, i)]
           g == [k \in 1..n |-> Nth(P, k)]
<1>1. n \in Nat
  BY FS_CardinalityType
<1>2. f \in [P -> 1..n]
  BY RankIn
<1>3. \A i, j \in P : f[i] = f[j] => i = j
  <2>1. ASSUME NEW i \in P, NEW j \in P, i # j PROVE f[i] # f[j]
    <3>1. Rank(P, i) \in 1..n /\ Rank(P, j) \in 1..n
      BY RankIn
    <3>2. i < j \/ j < i
      BY <2>1
    <3>3. Rank(P, i) < Rank(P, j) \/ Rank(P, j) < Rank(P, i)
      BY <3>2, RankGrows
    <3>4. QED
      BY <3>1, <3>3
  <2>2. QED
    BY <2>1
<1>4. f \in Injection(P, 1..n)
  <2> HIDE DEF f, n
  <2>1. QED
    BY <1>2, <1>3 DEF Injection, IsInjective
<1>5. IsFiniteSet(1..n) /\ Cardinality(1..n) = n
  <2> HIDE DEF n
  <2>1. 1 \in Int /\ n \in Int
    BY <1>1
  <2>2. QED
    BY <1>1, <2>1, FS_Interval
<1>6. f \in Surjection(P, 1..n)
  <2> HIDE DEF f
  <2>1. QED
    BY <1>4, <1>5, FS_Injection
<1>7. \A k \in 1..n : \E i \in P : Rank(P, i) = k
  BY <1>6 DEF Surjection
<1>8. ASSUME NEW k \in 1..n PROVE Nth(P, k) \in P /\ Rank(P, Nth(P, k)) = k
  BY <1>7, <1>8 DEF Nth, Rank
<1>9. g \in [1..n -> P]
  BY <1>8
<1>10. ASSUME NEW i \in 1..n, NEW j \in 1..n, i < j PROVE g[i] < g[j]
  <2>1. g[i] \in P /\ g[j] \in P /\ Rank(P, g[i]) = i /\ Rank(P, g[j]) = j
    BY <1>8
  <2>2. ~(g[j] < g[i]) /\ g[i] # g[j]
    <3>1. g[j] < g[i] => j < i
      BY <2>1, RankGrows
    <3>2. QED
      BY <1>1, <1>10, <2>1, <3>1
  <2>3. g[i] \in Nat /\ g[j] \in Nat
    BY <2>1
  <2> HIDE DEF g, f
  <2>4. QED
    BY <2>2, <2>3
<1>11. ASSUME NEW x \in P PROVE \E i \in 1..n : g[i] = x
  <2>1. PICK k \in 1..n : k = Rank(P, x)
    BY RankIn
  <2>2. g[k] \in P /\ Rank(P, g[k]) = k
    BY <1>8
  <2>3. g[k] = x
    BY <1>3, <2>1, <2>2
  <2>4. QED
    BY <2>3
<1>12. QED
  <2> HIDE DEF f, g, n
  <2>1. Lists(g, n, P)
    BY <1>1, <1>9, <1>10, <1>11 DEF Lists
  <2>2. QED
    BY <2>1 DEF g, n

LEMMA ListsOrder ==
    ASSUME NEW P \in SUBSET Nat, NEW g, NEW n, Lists(g, n, P), NEW i \in 1..n, NEW j \in 1..n
    PROVE  /\ g[i] < g[j] <=> i < j
           /\ g[i] = g[j] <=> i = j
           /\ g[i] \in P
<1>1. g[i] \in Nat /\ g[j] \in Nat /\ g[i] \in P /\ n \in Nat
  BY DEF Lists
<1>2. i < j => g[i] < g[j]
  BY DEF Lists
<1>3. j < i => g[j] < g[i]
  BY DEF Lists
<1>4. i < j \/ j < i \/ i = j
  BY <1>1
<1>5. QED
  BY <1>1, <1>2, <1>3, <1>4

(* The place that follows in P follows in the list.                        *)
LEMMA ListsNext ==
    ASSUME NEW P \in SUBSET Nat, NEW g, NEW n, Lists(g, n, P), NEW k \in 1..n,
           NEW x \in P, g[k] < x, \A y \in P : ~(g[k] < y /\ y < x)
    PROVE  k + 1 \in 1..n /\ g[k + 1] = x
<1>1. PICK i \in 1..n : g[i] = x
  BY DEF Lists
<1>2. k < i /\ n \in Nat
  BY <1>1, ListsOrder DEF Lists
<1>3. k + 1 \in 1..n
  BY <1>2
<1>4. g[k] < g[k + 1] /\ g[k + 1] \in P
  <2>1. k < k + 1
    BY <1>2
  <2>2. QED
    BY <1>3, <2>1, ListsOrder
<1>5. ~(g[k + 1] < x)
  BY <1>4
<1>6. ~(k + 1 < i)
  BY <1>1, <1>3, <1>5, ListsOrder
<1>7. k + 1 = i
  BY <1>2, <1>6
<1>8. QED
  BY <1>1, <1>3, <1>7

(* L is s, listed at the places P.                                         *)
Picks(L, s, g, n, P) == Lists(g, n, P) /\ L = [k \in 1..n |-> s[g[k]]]

LEMMA ChosenPicks ==
    ASSUME NEW S, NEW s \in Seq(S), NEW P \in SUBSET DOMAIN s
    PROVE  /\ IsFiniteSet(P) /\ P \in SUBSET Nat
           /\ \E g, n : Picks(Chosen(s, P), s, g, n, P)
<1>1. DOMAIN s = 1..Len(s) /\ Len(s) \in Nat
  OBVIOUS
<1>2. IsFiniteSet(1..Len(s))
  BY <1>1, FS_Interval
<1>3. IsFiniteSet(P)
  BY <1>1, <1>2, FS_Subset
<1>4. P \subseteq Nat
  BY <1>1
<1> DEFINE n == Cardinality(P)
           g == [k \in 1..n |-> Nth(P, k)]
<1>5. Lists(g, n, P)
  BY <1>3, <1>4, NthLists
<1>6. Chosen(s, P) = [k \in 1..n |-> s[g[k]]]
  BY DEF Chosen
<1> HIDE DEF g, n
<1>7. QED
  BY <1>3, <1>4, <1>5, <1>6 DEF Picks

LEMMA PicksType ==
    ASSUME NEW S, NEW s \in Seq(S), NEW P \in SUBSET DOMAIN s, NEW L, NEW g, NEW n, Picks(L, s, g, n, P)
    PROVE  /\ L \in Seq(S) /\ Len(L) = n /\ DOMAIN L = 1..n /\ n \in Nat
           /\ \A k \in 1..n : L[k] = s[g[k]] /\ g[k] \in P /\ g[k] \in DOMAIN s
<1>1. n \in Nat /\ \A k \in 1..n : g[k] \in P
  BY DEF Picks, Lists
<1>2. \A k \in 1..n : g[k] \in DOMAIN s
  BY <1>1
<1>3. \A k \in 1..n : s[g[k]] \in S
  BY <1>2
<1>4. L = [k \in 1..n |-> s[g[k]]]
  BY DEF Picks
<1>5. L \in [1..n -> S]
  BY <1>3, <1>4
<1>6. L \in Seq(S)
  BY <1>1, <1>5
<1>7. DOMAIN L = 1..n /\ \A k \in 1..n : L[k] = s[g[k]]
  BY <1>4
<1>8. Len(L) = n
  BY <1>1, <1>6, <1>7
<1>9. QED
  BY <1>1, <1>2, <1>6, <1>7, <1>8

(* A selection of a selection.                                             *)
LEMMA PicksTwice ==
    ASSUME NEW S, NEW s \in Seq(S), NEW P \in SUBSET DOMAIN s, NEW W, NEW g, NEW n, Picks(W, s, g, n, P),
           NEW Q \in SUBSET 1..n, NEW L, NEW h, NEW m, Picks(L, W, h, m, Q)
    PROVE  \E f : Picks(L, s, f, m, {g[k] : k \in Q})
<1> DEFINE f == [k \in 1..m |-> g[h[k]]]
           R == {g[k] : k \in Q}
<1>1. /\ W \in Seq(S) /\ Len(W) = n /\ DOMAIN W = 1..n /\ n \in Nat
      /\ \A k \in 1..n : W[k] = s[g[k]] /\ g[k] \in P /\ g[k] \in DOMAIN s
  BY PicksType
<1>2. Q \in SUBSET DOMAIN W
  BY <1>1
<1>3. /\ m \in Nat /\ DOMAIN L = 1..m
      /\ \A k \in 1..m : L[k] = W[h[k]] /\ h[k] \in Q
  <2> HIDE DEF f, R
  <2>1. W \in Seq(S)
    BY <1>1
  <2>2. /\ L \in Seq(S) /\ Len(L) = m /\ DOMAIN L = 1..m /\ m \in Nat
        /\ \A k \in 1..m : L[k] = W[h[k]] /\ h[k] \in Q /\ h[k] \in DOMAIN W
    BY <1>2, <2>1, PicksType
  <2>3. QED
    BY <2>2
<1>4. P \in SUBSET Nat /\ Q \in SUBSET Nat
  <2>1. DOMAIN s = 1..Len(s)
    OBVIOUS
  <2>2. QED
    BY <2>1
<1>5. Lists(g, n, P) /\ Lists(h, m, Q)
  BY DEF Picks
<1>6. f \in [1..m -> R]
  BY <1>3
<1>7. ASSUME NEW i \in 1..m, NEW j \in 1..m, i < j PROVE f[i] < f[j]
  <2>1. h[i] < h[j] /\ h[i] \in 1..n /\ h[j] \in 1..n
    BY <1>3, <1>4, <1>5, <1>7, ListsOrder
  <2>2. g[h[i]] < g[h[j]]
    BY <1>4, <1>5, <2>1, ListsOrder
  <2>3. QED
    BY <2>2
<1>8. ASSUME NEW x \in R PROVE \E i \in 1..m : f[i] = x
  <2>1. PICK k \in Q : x = g[k]
    OBVIOUS
  <2>2. PICK i \in 1..m : h[i] = k
    BY <1>5 DEF Lists
  <2>3. QED
    BY <2>1, <2>2
<1>9. Lists(f, m, R)
  <2> HIDE DEF f, R
  <2>1. QED
    BY <1>3, <1>6, <1>7, <1>8 DEF Lists
<1>10. L = [k \in 1..m |-> s[f[k]]]
  <2>1. L = [k \in 1..m |-> W[h[k]]]
    BY DEF Picks
  <2>2. \A k \in 1..m : W[h[k]] = s[f[k]]
    BY <1>1, <1>3
  <2>3. QED
    BY <2>1, <2>2
<1>11. QED
  <2> HIDE DEF f, R
  <2>1. Picks(L, s, f, m, R)
    BY <1>9, <1>10 DEF Picks
  <2>2. QED
    BY <2>1 DEF R

(***************************************************************************)
(* What messages and replies are made of.                                  *)
(***************************************************************************)
PartTypes == {"thinking", "text", "tool_use"}
BlockTypes == PartTypes \cup {"thought", "plain", "functionCall", "output_text", "function_call", "image_url"}
BlockType == [type : BlockTypes, of : Nat, cached : BOOLEAN]
PartType == [type : PartTypes, of : Nat, cached : {FALSE}]
MessageType == [role : {"system", "user", "assistant", "tool", "cache_point"}, shape : {"none", "string", "list"},
                blocks : Seq(BlockType), tool_calls : Seq(Nat), id : Nat]

(* The same, but for the annotations.                                      *)
Like(m, n) ==
    /\ m.role = n.role /\ m.id = n.id /\ m.tool_calls = n.tool_calls
    /\ Len(m.blocks) = Len(n.blocks)
    /\ \A i \in 1..Len(n.blocks) : m.blocks[i].type = n.blocks[i].type /\ m.blocks[i].of = n.blocks[i].of

CallsIn(parts) == {parts[i].of : i \in {j \in DOMAIN parts : parts[j].type = "tool_use"}}
Numbered(r, parts) == \A i \in DOMAIN parts : \E k \in 1..9 : parts[i].of = CallId(r, k)

LEMMA BlockFacts ==
    ASSUME NEW type, NEW of
    PROVE  /\ Block(type, of).type = type /\ Block(type, of).of = of /\ Block(type, of).cached = FALSE
           /\ type \in BlockTypes /\ of \in Nat => Block(type, of) \in BlockType
           /\ type \in PartTypes /\ of \in Nat => Block(type, of) \in PartType
BY DEF Block, BlockType, PartType

LEMMA PartFacts ==
    ASSUME NEW b \in PartType
    PROVE  /\ b \in BlockType /\ b = Block(b.type, b.of)
           /\ b.type \in PartTypes /\ b.of \in Nat /\ b.cached = FALSE
<1>1. PICK t \in PartTypes, o \in Nat : b = [type |-> t, of |-> o, cached |-> FALSE]
  BY DEF PartType
<1>2. t \in BlockTypes
  BY DEF BlockTypes
<1>3. QED
  BY <1>1, <1>2 DEF BlockType, Block

LEMMA Part ==
    ASSUME NEW s \in Seq(PartType), NEW i \in DOMAIN s
    PROVE  /\ s[i] \in PartType /\ s[i] \in BlockType /\ s[i] = Block(s[i].type, s[i].of)
           /\ s[i].type \in PartTypes /\ s[i].of \in Nat /\ s[i].cached = FALSE
<1>1. s[i] \in PartType
  OBVIOUS
<1>2. QED
  BY <1>1, PartFacts

LEMMA OnePart ==
    ASSUME NEW a \in PartType
    PROVE  /\ <<a>> \in Seq(PartType) /\ DOMAIN <<a>> = 1..1 /\ <<a>>[1] = a
OBVIOUS

LEMMA TwoParts ==
    ASSUME NEW a \in PartType, NEW b \in PartType
    PROVE  /\ <<a, b>> \in Seq(PartType) /\ DOMAIN <<a, b>> = 1..2 /\ <<a, b>>[1] = a /\ <<a, b>>[2] = b
OBVIOUS

LEMMA ThreeParts ==
    ASSUME NEW a \in PartType, NEW b \in PartType, NEW c \in PartType
    PROVE  /\ <<a, b, c>> \in Seq(PartType) /\ DOMAIN <<a, b, c>> = 1..3
           /\ <<a, b, c>>[1] = a /\ <<a, b, c>>[2] = b /\ <<a, b, c>>[3] = c
OBVIOUS

LEMMA FourParts ==
    ASSUME NEW a \in PartType, NEW b \in PartType, NEW c \in PartType, NEW d \in PartType
    PROVE  /\ <<a, b, c, d>> \in Seq(PartType) /\ DOMAIN <<a, b, c, d>> = 1..4
           /\ <<a, b, c, d>>[1] = a /\ <<a, b, c, d>>[2] = b /\ <<a, b, c, d>>[3] = c /\ <<a, b, c, d>>[4] = d
OBVIOUS

LEMMA PartsType ==
    ASSUME NEW r \in Nat, NEW parts \in Parts(r)
    PROVE  parts \in Seq(PartType) /\ Numbered(r, parts)
<1> DEFINE Of(b) == b \in PartType /\ \E k \in 1..9 : b.of = CallId(r, k)
<1>1. PICK thinking, text, one, two :
          /\ thinking = Block("thinking", CallId(r, 9)) /\ text = Block("text", CallId(r, 8))
          /\ one = Block("tool_use", CallId(r, 1)) /\ two = Block("tool_use", CallId(r, 2))
  OBVIOUS
<1>2. \A k \in 1..9 : CallId(r, k) \in Nat
  BY DEF CallId
<1>3. Of(thinking) /\ Of(text) /\ Of(one) /\ Of(two)
  <2>1. CallId(r, 9) \in Nat /\ CallId(r, 8) \in Nat /\ CallId(r, 1) \in Nat /\ CallId(r, 2) \in Nat
    BY <1>2
  <2>2. "thinking" \in PartTypes /\ "text" \in PartTypes /\ "tool_use" \in PartTypes
    BY DEF PartTypes
  <2>3. thinking \in PartType /\ text \in PartType /\ one \in PartType /\ two \in PartType
    BY <1>1, <2>1, <2>2, BlockFacts
  <2>4. thinking.of = CallId(r, 9) /\ text.of = CallId(r, 8) /\ one.of = CallId(r, 1) /\ two.of = CallId(r, 2)
    BY <1>1, BlockFacts
  <2>5. 9 \in 1..9 /\ 8 \in 1..9 /\ 1 \in 1..9 /\ 2 \in 1..9
    OBVIOUS
  <2>6. QED
    BY <2>3, <2>4, <2>5
<1>4. parts \in {<<text>>, <<thinking, text>>, <<one>>, <<text, one>>, <<thinking, one, two>>,
                 <<thinking, text, one, two>>}
  BY <1>1 DEF Parts
<1> DEFINE Good(p) == p \in Seq(PartType) /\ \A i \in DOMAIN p : Of(p[i])
<1>5. Good(<<text>>) /\ Good(<<one>>)
  <2>1. \A a : Of(a) => Good(<<a>>)
    BY OnePart
  <2> HIDE DEF Of, Good
  <2>2. QED
    BY <1>3, <2>1
<1>6. Good(<<thinking, text>>) /\ Good(<<text, one>>)
  <2>1. ASSUME NEW a, NEW b, Of(a), Of(b) PROVE Good(<<a, b>>)
    <3>1. DOMAIN <<a, b>> = 1..2 /\ <<a, b>>[1] = a /\ <<a, b>>[2] = b /\ <<a, b>> \in Seq(PartType)
      BY <2>1, TwoParts
    <3>2. \A i \in 1..2 : i = 1 \/ i = 2
      OBVIOUS
    <3> HIDE DEF Of
    <3>3. QED
      BY <2>1, <3>1, <3>2
  <2> HIDE DEF Of, Good
  <2>2. QED
    BY <1>3, <2>1
<1>7. Good(<<thinking, one, two>>)
  <2>1. /\ DOMAIN <<thinking, one, two>> = 1..3 /\ <<thinking, one, two>>[1] = thinking
        /\ <<thinking, one, two>>[2] = one /\ <<thinking, one, two>>[3] = two
        /\ <<thinking, one, two>> \in Seq(PartType)
    BY <1>3, ThreeParts
  <2>2. \A i \in 1..3 : i = 1 \/ i = 2 \/ i = 3
    OBVIOUS
  <2> HIDE DEF Of
  <2>3. QED
    BY <1>3, <2>1, <2>2
<1>8. Good(<<thinking, text, one, two>>)
  <2>1. /\ DOMAIN <<thinking, text, one, two>> = 1..4 /\ <<thinking, text, one, two>>[1] = thinking
        /\ <<thinking, text, one, two>>[2] = text /\ <<thinking, text, one, two>>[3] = one
        /\ <<thinking, text, one, two>>[4] = two /\ <<thinking, text, one, two>> \in Seq(PartType)
    BY <1>3, FourParts
  <2>2. \A i \in 1..4 : i = 1 \/ i = 2 \/ i = 3 \/ i = 4
    OBVIOUS
  <2> HIDE DEF Of
  <2>3. QED
    BY <1>3, <2>1, <2>2
<1>9. Good(parts)
  <2> HIDE DEF Good
  <2>1. QED
    BY <1>4, <1>5, <1>6, <1>7, <1>8
<1>10. QED
  BY <1>9 DEF Numbered

LEMMA ChosenType ==
    ASSUME NEW S, NEW s \in Seq(S), NEW P \in SUBSET DOMAIN s
    PROVE  /\ Chosen(s, P) \in Seq(S) /\ Len(Chosen(s, P)) = Cardinality(P)
           /\ \A x : (\E k \in DOMAIN Chosen(s, P) : Chosen(s, P)[k] = x) <=> \E i \in P : s[i] = x
<1>1. PICK g, n : Picks(Chosen(s, P), s, g, n, P)
  BY ChosenPicks
<1>2. PICK L : L = Chosen(s, P)
  OBVIOUS
<1>3. /\ L \in Seq(S) /\ Len(L) = n /\ DOMAIN L = 1..n /\ n \in Nat
      /\ \A k \in 1..n : L[k] = s[g[k]] /\ g[k] \in P /\ g[k] \in DOMAIN s
  <2>1. Picks(L, s, g, n, P)
    BY <1>1, <1>2
  <2>2. QED
    BY <2>1, PicksType
<1>4. \A i \in P : \E k \in 1..n : g[k] = i
  BY <1>1 DEF Picks, Lists
<1>5. ASSUME NEW x PROVE (\E k \in DOMAIN L : L[k] = x) <=> \E i \in P : s[i] = x
  <2>1. ASSUME NEW k \in DOMAIN L, L[k] = x PROVE \E i \in P : s[i] = x
    BY <1>3, <2>1
  <2>2. ASSUME NEW i \in P, s[i] = x PROVE \E k \in DOMAIN L : L[k] = x
    <3>1. PICK k \in 1..n : g[k] = i
      BY <1>4
    <3>2. QED
      BY <1>3, <2>2, <3>1
  <2>3. QED
    BY <2>1, <2>2
<1>6. Len(L) = Cardinality(P)
  <2>1. IsFiniteSet(P)
    BY ChosenPicks
  <2>2. Cardinality(P) \in Nat
    BY <2>1, FS_CardinalityType
  <2>3. L = [k \in 1..Cardinality(P) |-> s[Nth(P, k)]]
    BY <1>2 DEF Chosen
  <2>4. 1..n = 1..Cardinality(P)
    BY <1>3, <2>3
  <2>5. QED
    BY <1>3, <2>2, <2>4
<1>7. QED
  BY <1>2, <1>3, <1>5, <1>6

LEMMA OfTypeIn ==
    ASSUME NEW S, NEW s \in Seq(S), NEW types
    PROVE  /\ OfType(s, types) \in Seq(S)
           /\ Len(OfType(s, types)) = Cardinality({i \in DOMAIN s : s[i].type \in types})
           /\ \A x : (\E k \in DOMAIN OfType(s, types) : OfType(s, types)[k] = x)
                         <=> \E i \in DOMAIN s : s[i] = x /\ x.type \in types
<1> DEFINE P == {i \in DOMAIN s : s[i].type \in types}
<1>1. P \in SUBSET DOMAIN s /\ OfType(s, types) = Chosen(s, P)
  BY DEF OfType
<1>2. \A x : (\E i \in P : s[i] = x) <=> \E i \in DOMAIN s : s[i] = x /\ x.type \in types
  OBVIOUS
<1> HIDE DEF P
<1>3. /\ Chosen(s, P) \in Seq(S) /\ Len(Chosen(s, P)) = Cardinality(P)
      /\ \A x : (\E k \in DOMAIN Chosen(s, P) : Chosen(s, P)[k] = x) <=> \E i \in P : s[i] = x
  BY <1>1, ChosenType
<1>4. QED
  BY <1>1, <1>2, <1>3 DEF P

Texts(parts) == OfType(parts, {"text"})
CallParts(parts) == OfType(parts, {"tool_use"})

LEMMA ReplyIn ==
    ASSUME NEW blocks \in Seq(BlockType), NEW shape \in {"none", "string", "list"}, NEW calls \in Seq(Nat),
           NEW m, m = [role |-> "assistant", shape |-> shape, blocks |-> blocks, tool_calls |-> calls, id |-> 0]
    PROVE  m \in MessageType /\ m.role = "assistant" /\ m.id = 0 /\ m.blocks = blocks /\ m.tool_calls = calls
BY DEF MessageType

LEMMA ListReply ==
    ASSUME NEW blocks \in Seq(BlockType),
           NEW m, m = [role |-> "assistant", shape |-> "list", blocks |-> blocks, tool_calls |-> <<>>, id |-> 0]
    PROVE  m \in MessageType /\ m.role = "assistant" /\ m.id = 0 /\ m.blocks = blocks /\ m.tool_calls = <<>>
BY DEF MessageType

LEMMA RenamedIn ==
    ASSUME NEW parts \in Seq(PartType), NEW names, \A i \in DOMAIN parts : names[parts[i].type] \in BlockTypes
    PROVE  /\ Renamed(parts, names) \in Seq(BlockType)
           /\ Len(Renamed(parts, names)) = Len(parts)
           /\ \A i \in 1..Len(parts) : Renamed(parts, names)[i] = Block(names[parts[i].type], parts[i].of)
<1>1. DOMAIN parts = 1..Len(parts) /\ Len(parts) \in Nat
  OBVIOUS
<1>2. \A i \in 1..Len(parts) : parts[i].of \in Nat
  BY <1>1, Part
<1>3. \A i \in 1..Len(parts) : Block(names[parts[i].type], parts[i].of) \in BlockType
  BY <1>1, <1>2, BlockFacts
<1>4. Renamed(parts, names) = [i \in 1..Len(parts) |-> Block(names[parts[i].type], parts[i].of)]
  BY <1>1 DEF Renamed, Each
<1>5. QED
  BY <1>1, <1>3, <1>4

LEMMA from_responseOther ==
    ASSUME NEW p, p \notin {"anthropic", "google", "openai-responses"}, NEW parts \in Seq(PartType),
           NEW m, m = from_response(p, parts)
    PROVE  /\ m \in MessageType /\ m.role = "assistant" /\ m.id = 0
           /\ m.blocks = Texts(parts)
           /\ m.tool_calls = [i \in DOMAIN CallParts(parts) |-> CallParts(parts)[i].of]
           /\ m.tool_calls \in Seq(Nat)
<1>1. PICK texts, calls : texts = OfType(parts, {"text"}) /\ calls = OfType(parts, {"tool_use"})
  OBVIOUS
<1>2. texts \in Seq(PartType) /\ calls \in Seq(PartType)
  BY <1>1, OfTypeIn
<1>3. PICK ids : ids = [i \in DOMAIN calls |-> calls[i].of]
  OBVIOUS
<1>4. ids \in Seq(Nat)
  <2>1. DOMAIN calls = 1..Len(calls) /\ Len(calls) \in Nat
    BY <1>2
  <2>2. \A i \in 1..Len(calls) : calls[i].of \in Nat
    BY <1>2, <2>1, Part
  <2>3. QED
    BY <1>3, <2>1, <2>2
<1>5. texts \in Seq(BlockType)
  <2>1. DOMAIN texts = 1..Len(texts) /\ Len(texts) \in Nat
    BY <1>2
  <2>2. \A i \in 1..Len(texts) : texts[i] \in BlockType
    BY <1>2, <2>1, Part
  <2>3. QED
    BY <1>2, <2>1, <2>2
<1>6. PICK shape \in {"none", "string", "list"} : shape = IF texts = <<>> THEN "none" ELSE "string"
  OBVIOUS
<1>7. m = [role |-> "assistant", shape |-> shape, blocks |-> texts, tool_calls |-> ids, id |-> 0]
  BY <1>1, <1>3, <1>6 DEF from_response, Message, Each, NoId
<1>8. m \in MessageType /\ m.role = "assistant" /\ m.id = 0 /\ m.blocks = texts /\ m.tool_calls = ids
  BY <1>4, <1>5, <1>7, ReplyIn
<1>9. QED
  BY <1>1, <1>3, <1>4, <1>8 DEF Texts, CallParts

LEMMA from_responseGoogle ==
    ASSUME NEW parts \in Seq(PartType), NEW m, m = from_response("google", parts)
    PROVE  /\ m \in MessageType /\ m.role = "assistant" /\ m.id = 0 /\ m.tool_calls = <<>>
           /\ Len(m.blocks) = Len(parts)
           /\ \A i \in 1..Len(parts) : m.blocks[i] = Block(Google[parts[i].type], parts[i].of)
<1>1. m = [role |-> "assistant", shape |-> "list", blocks |-> Renamed(parts, Google), tool_calls |-> <<>>, id |-> 0]
  BY DEF from_response, Message, NoId
<1>2. \A i \in DOMAIN parts : Google[parts[i].type] \in BlockTypes
  <2>1. \A t \in PartTypes : Google[t] \in BlockTypes
    BY DEF Google, PartTypes, BlockTypes
  <2>2. QED
    BY <2>1, Part
<1>3. /\ Renamed(parts, Google) \in Seq(BlockType)
      /\ Len(Renamed(parts, Google)) = Len(parts)
      /\ \A i \in 1..Len(parts) : Renamed(parts, Google)[i] = Block(Google[parts[i].type], parts[i].of)
  BY <1>2, RenamedIn
<1>4. m \in MessageType /\ m.role = "assistant" /\ m.id = 0 /\ m.blocks = Renamed(parts, Google) /\ m.tool_calls = <<>>
  BY <1>1, <1>3, ListReply
<1>5. QED
  BY <1>3, <1>4

LEMMA from_responseAnthropic ==
    ASSUME NEW parts \in Seq(PartType), NEW m, m = from_response("anthropic", parts)
    PROVE  /\ m \in MessageType /\ m.role = "assistant" /\ m.id = 0 /\ m.tool_calls = <<>>
           /\ Len(m.blocks) = Len(parts)
           /\ \A i \in 1..Len(parts) : m.blocks[i] = parts[i]
<1>1. m = [role |-> "assistant", shape |-> "list", blocks |-> Renamed(parts, Anthropic), tool_calls |-> <<>>, id |-> 0]
  BY DEF from_response, Message, NoId
<1>2. \A i \in DOMAIN parts : Anthropic[parts[i].type] = parts[i].type
  <2>1. \A t \in PartTypes : Anthropic[t] = t
    BY DEF Anthropic, PartTypes
  <2>2. QED
    BY <2>1, Part
<1>3. \A i \in DOMAIN parts : Anthropic[parts[i].type] \in BlockTypes
  BY <1>2, Part DEF BlockTypes
<1>4. /\ Renamed(parts, Anthropic) \in Seq(BlockType)
      /\ Len(Renamed(parts, Anthropic)) = Len(parts)
      /\ \A i \in 1..Len(parts) : Renamed(parts, Anthropic)[i] = Block(Anthropic[parts[i].type], parts[i].of)
  BY <1>3, RenamedIn
<1>5. m \in MessageType /\ m.role = "assistant" /\ m.id = 0 /\ m.blocks = Renamed(parts, Anthropic) /\ m.tool_calls = <<>>
  BY <1>1, <1>4, ListReply
<1>6. \A i \in 1..Len(parts) : i \in DOMAIN parts /\ parts[i] = Block(parts[i].type, parts[i].of)
  <2>1. \A i \in DOMAIN parts : parts[i] = Block(parts[i].type, parts[i].of)
    BY Part
  <2>2. QED
    BY <2>1
<1>7. QED
  BY <1>2, <1>4, <1>5, <1>6

LEMMA from_responseResponses ==
    ASSUME NEW parts \in Seq(PartType), NEW m, m = from_response("openai-responses", parts)
    PROVE  /\ m \in MessageType /\ m.role = "assistant" /\ m.id = 0 /\ m.tool_calls = <<>>
           /\ Len(m.blocks) = Len(Texts(parts) \o CallParts(parts))
           /\ \A i \in 1..Len(m.blocks) : m.blocks[i] = Block(Responses[(Texts(parts) \o CallParts(parts))[i].type],
                                                              (Texts(parts) \o CallParts(parts))[i].of)
<1>1. PICK texts, calls, both :
          texts = OfType(parts, {"text"}) /\ calls = OfType(parts, {"tool_use"}) /\ both = texts \o calls
  OBVIOUS
<1>2. texts \in Seq(PartType) /\ calls \in Seq(PartType)
  BY <1>1, OfTypeIn
<1>3. both \in Seq(PartType)
  BY <1>1, <1>2, ConcatProperties
<1>4. /\ \A k \in DOMAIN texts : texts[k].type \in {"text"}
      /\ \A k \in DOMAIN calls : calls[k].type \in {"tool_use"}
  BY <1>1, OfTypeIn
<1>5. \A i \in DOMAIN both : both[i].type \in {"text", "tool_use"}
  <2>1. /\ Len(texts) \in Nat /\ Len(calls) \in Nat /\ DOMAIN texts = 1..Len(texts) /\ DOMAIN calls = 1..Len(calls)
        /\ DOMAIN both = 1..Len(texts) + Len(calls)
        /\ \A i \in 1..Len(texts) + Len(calls) : both[i] = IF i <= Len(texts) THEN texts[i] ELSE calls[i - Len(texts)]
    BY <1>1, <1>2, ConcatProperties, LenProperties
  <2>2. \A i \in 1..Len(texts) + Len(calls) : i <= Len(texts) => i \in DOMAIN texts
    BY <2>1
  <2>3. \A i \in 1..Len(texts) + Len(calls) : ~(i <= Len(texts)) => i - Len(texts) \in DOMAIN calls
    BY <2>1
  <2>4. QED
    BY <1>4, <2>1, <2>2, <2>3
<1>6. \A i \in DOMAIN both : Responses[both[i].type] \in BlockTypes
  BY <1>5 DEF Responses, BlockTypes
<1>7. /\ Renamed(both, Responses) \in Seq(BlockType)
      /\ Len(Renamed(both, Responses)) = Len(both)
      /\ \A i \in 1..Len(both) : Renamed(both, Responses)[i] = Block(Responses[both[i].type], both[i].of)
  BY <1>3, <1>6, RenamedIn
<1>8. m = [role |-> "assistant", shape |-> "list", blocks |-> Renamed(both, Responses), tool_calls |-> <<>>, id |-> 0]
  BY <1>1 DEF from_response, Message, NoId
<1>9. m \in MessageType /\ m.role = "assistant" /\ m.id = 0 /\ m.blocks = Renamed(both, Responses) /\ m.tool_calls = <<>>
  BY <1>7, <1>8, ListReply
<1>10. QED
  BY <1>1, <1>7, <1>9 DEF Texts, CallParts

-----------------------------------------------------------------------------
(***************************************************************************)
(* Annotations.  A message is before a point when the next one is a point. *)
(***************************************************************************)
LEMMA NextIsPoint ==
    ASSUME NEW S, NEW s \in Seq(S), NEW i \in DOMAIN s
    PROVE  BeforePoint(s, i) <=> /\ s[i].role # "cache_point"
                                 /\ i + 1 \in DOMAIN s /\ s[i + 1].role = "cache_point"
<1>1. DOMAIN s = 1..Len(s) /\ Len(s) \in Nat /\ i \in Nat
  OBVIOUS
<1>2. ASSUME BeforePoint(s, i) PROVE i + 1 \in DOMAIN s /\ s[i + 1].role = "cache_point"
  <2>1. PICK j \in DOMAIN s : j > i /\ s[j].role = "cache_point" /\ \A k \in i + 1..j - 1 : s[k].role = "cache_point"
    BY <1>2 DEF BeforePoint
  <2>2. CASE j = i + 1
    BY <2>1, <2>2
  <2>3. CASE j # i + 1
    <3>1. i + 1 \in i + 1..j - 1 /\ i + 1 \in DOMAIN s
      BY <1>1, <2>1, <2>3
    <3>2. QED
      BY <2>1, <3>1
  <2>4. QED
    BY <2>2, <2>3
<1>3. ASSUME s[i].role # "cache_point", i + 1 \in DOMAIN s, s[i + 1].role = "cache_point" PROVE BeforePoint(s, i)
  <2>1. i + 1 > i /\ \A k \in i + 1..(i + 1) - 1 : s[k].role = "cache_point"
    BY <1>1
  <2>2. QED
    BY <1>3, <2>1 DEF BeforePoint
<1>4. QED
  BY <1>2, <1>3 DEF BeforePoint

LEMMA AnnotatedBlock ==
    ASSUME NEW b \in BlockType, NEW c, c = [b EXCEPT !.cached = TRUE]
    PROVE  c \in BlockType /\ c.type = b.type /\ c.of = b.of /\ c.cached = TRUE
BY DEF BlockType

LEMMA MessageFields ==
    ASSUME NEW m \in MessageType
    PROVE  /\ m.blocks \in Seq(BlockType) /\ Len(m.blocks) \in Nat /\ DOMAIN m.blocks = 1..Len(m.blocks)
           /\ m.tool_calls \in Seq(Nat) /\ m.id \in Nat
           /\ m.role \in {"system", "user", "assistant", "tool", "cache_point"}
BY DEF MessageType

LEMMA AnnotatedFacts ==
    ASSUME NEW m \in MessageType, NEW a, a = Annotated(m)
    PROVE  /\ a \in MessageType /\ Like(a, m)
           /\ \A k \in 1..Len(m.blocks) : a.blocks[k].cached <=> (k = Len(m.blocks) \/ m.blocks[k].cached)
<1>1. m.blocks \in Seq(BlockType) /\ Len(m.blocks) \in Nat /\ DOMAIN m.blocks = 1..Len(m.blocks)
  BY MessageFields
<1>2. CASE m.blocks = <<>>
  <2>1. a = m /\ Len(m.blocks) = 0
    BY <1>2 DEF Annotated
  <2>2. QED
    BY <2>1 DEF Like
<1>3. CASE m.blocks # <<>>
  <2>1. PICK n, c : n = Len(m.blocks) /\ c = [m.blocks[n] EXCEPT !.cached = TRUE]
    OBVIOUS
  <2>2. n \in 1..Len(m.blocks) /\ n \in Nat
    BY <1>1, <1>3, <2>1
  <2>3. c \in BlockType /\ c.type = m.blocks[n].type /\ c.of = m.blocks[n].of /\ c.cached = TRUE
    <3>1. PICK b \in BlockType : b = m.blocks[n]
      BY <1>1, <2>2
    <3>2. c = [b EXCEPT !.cached = TRUE]
      BY <2>1, <3>1
    <3>3. c \in BlockType /\ c.type = b.type /\ c.of = b.of /\ c.cached = TRUE
      BY <3>2, AnnotatedBlock
    <3>4. QED
      BY <3>1, <3>3
  <2>4. PICK bs : bs = [m.blocks EXCEPT ![n] = c]
    OBVIOUS
  <2>5. /\ bs \in Seq(BlockType) /\ Len(bs) = Len(m.blocks)
        /\ \A k \in 1..Len(m.blocks) : bs[k] = IF k = n THEN c ELSE m.blocks[k]
    BY <1>1, <2>2, <2>3, <2>4
  <2>6. a = [m EXCEPT !.shape = "list", !.blocks = bs]
    BY <1>3, <2>1, <2>4 DEF Annotated, MessageType
  <2>7. a \in MessageType /\ a.role = m.role /\ a.id = m.id /\ a.tool_calls = m.tool_calls /\ a.blocks = bs
    <3>1. bs \in Seq(BlockType)
      BY <2>5
    <3>2. QED
      BY <2>6, <3>1 DEF MessageType
  <2>8. Like(a, m)
    BY <2>3, <2>5, <2>7 DEF Like
  <2>9. ASSUME NEW k \in 1..Len(m.blocks)
        PROVE  a.blocks[k].cached <=> (k = Len(m.blocks) \/ m.blocks[k].cached)
    <3>1. CASE k = n
      BY <2>1, <2>3, <2>5, <2>7, <3>1
    <3>2. CASE k # n
      BY <2>1, <2>5, <2>7, <3>2
    <3>3. QED
      BY <3>1, <3>2
  <2>10. QED
    BY <2>7, <2>8, <2>9
<1>4. QED
  BY <1>2, <1>3

LEMMA LikeSame == ASSUME NEW m PROVE Like(m, m)
BY DEF Like

LEMMA LikeLike == ASSUME NEW l, NEW m, NEW n, Like(l, m), Like(m, n) PROVE Like(l, n)
BY DEF Like

LEMMA TouchedFacts ==
    ASSUME NEW s \in Seq(MessageType), NEW p, NEW t, t = Touched(p, s)
    PROVE  /\ t \in Seq(MessageType) /\ DOMAIN t = DOMAIN s /\ Len(t) = Len(s)
           /\ \A i \in DOMAIN s : Like(t[i], s[i])
           /\ \A i \in DOMAIN s : \A k \in 1..Len(s[i].blocks) :
                 t[i].blocks[k].cached <=> \/ s[i].blocks[k].cached
                                           \/ p = "anthropic" /\ BeforePoint(s, i) /\ k = Len(s[i].blocks)
<1>1. DOMAIN s = 1..Len(s) /\ Len(s) \in Nat /\ \A i \in DOMAIN s : s[i] \in MessageType
  OBVIOUS
<1>2. CASE p # "anthropic"
  <2>1. t = s
    BY <1>2 DEF Touched
  <2>2. QED
    BY <1>2, <2>1, LikeSame
<1>3. CASE p = "anthropic"
  <2>1. t = [i \in DOMAIN s |-> IF BeforePoint(s, i) THEN Annotated(s[i]) ELSE s[i]]
    BY <1>3 DEF Touched
  <2>2. \A i \in DOMAIN s : t[i] = IF BeforePoint(s, i) THEN Annotated(s[i]) ELSE s[i]
    BY <2>1
  <2>3. ASSUME NEW i \in DOMAIN s
        PROVE  /\ t[i] \in MessageType /\ Like(t[i], s[i])
               /\ \A k \in 1..Len(s[i].blocks) :
                     t[i].blocks[k].cached <=> s[i].blocks[k].cached \/ (BeforePoint(s, i) /\ k = Len(s[i].blocks))
    <3>1. CASE BeforePoint(s, i)
      <4>1. t[i] = Annotated(s[i]) /\ s[i] \in MessageType
        BY <2>2, <3>1
      <4>2. /\ t[i] \in MessageType /\ Like(t[i], s[i])
            /\ \A k \in 1..Len(s[i].blocks) : t[i].blocks[k].cached <=> (k = Len(s[i].blocks) \/ s[i].blocks[k].cached)
        BY <4>1, AnnotatedFacts
      <4>3. QED
        BY <3>1, <4>2
    <3>2. CASE ~BeforePoint(s, i)
      BY <1>1, <2>2, <3>2, LikeSame
    <3>3. QED
      BY <3>1, <3>2
  <2>4. DOMAIN t = 1..Len(s)
    BY <1>1, <2>1
  <2>5. t \in Seq(MessageType) /\ Len(t) = Len(s)
    <3>1. t \in [1..Len(s) -> MessageType]
      BY <1>1, <2>1, <2>2, <2>3
    <3>2. QED
      BY <1>1, <3>1
  <2>6. QED
    BY <1>1, <1>3, <2>3, <2>4, <2>5
<1>4. QED
  BY <1>2, <1>3

-----------------------------------------------------------------------------
(***************************************************************************)
(* The list of messages.  q gives the place of each reply in the list ms;  *)
(* rs are the replies.  A result stands after the reply that has its call, *)
(* with nothing but other results and points between them.                 *)
(***************************************************************************)
ReplyType == [by : Providers, parts : Seq(PartType)]
Assistants(ms) == {i \in DOMAIN ms : ms[i].role = "assistant"}
Results(ms) == {i \in DOMAIN ms : ms[i].role = "tool"}

Said(q, ms, rs) ==
    /\ Lists(q, Len(rs), Assistants(ms))
    /\ \A r \in 1..Len(rs) : Like(ms[q[r]], from_response(rs[r].by, rs[r].parts))
Answers(q, ms, rs, r, i) ==
    /\ ms[i].id \in CallsIn(rs[r].parts)
    /\ q[r] < i
    /\ \A k \in q[r] + 1..i : ms[k].role \in {"tool", "cache_point"}
Answering(q, ms, rs) ==
    \A i \in Results(ms) : \E r \in 1..Len(rs) : Answers(q, ms, rs, r, i)
AnsweredOnce(ms) == \A i, j \in Results(ms) : ms[i].id = ms[j].id => i = j
AnsweredUpTo(ms, rs, n) ==
    \A r \in 1..n : \A id \in CallsIn(rs[r].parts) : \E i \in Results(ms) : ms[i].id = id

Follows(q, ms, rs, n) ==
    Said(q, ms, rs) /\ Answering(q, ms, rs) /\ AnsweredOnce(ms) /\ AnsweredUpTo(ms, rs, n)

(* What the caller adds.                                                   *)
Plain(m) ==
    m.role # "assistant" =>
        /\ m.tool_calls = <<>>
        /\ \A k \in 1..Len(m.blocks) : m.blocks[k].type \in {"text", "image_url"}
        /\ m.role = "tool" => Len(m.blocks) = 1 /\ m.blocks[1].of = m.id

RepliesOK(rs) == rs \in Seq(ReplyType) /\ \A r \in 1..Len(rs) : Numbered(r, rs[r].parts)
ListOK(ms) == ms \in Seq(MessageType) /\ \A i \in 1..Len(ms) : Plain(ms[i])
(* Only the last block of a message is annotated, and only before a point. *)
Marked(ms) ==
    \A i \in 1..Len(ms) : \A k \in 1..Len(ms[i].blocks) :
        ms[i].blocks[k].cached => k = Len(ms[i].blocks) /\ BeforePoint(ms, i)
AllMarked(ms) ==
    \A i \in 1..Len(ms) : BeforePoint(ms, i) /\ Len(ms[i].blocks) > 0 => ms[i].blocks[Len(ms[i].blocks)].cached

(* While results are awaited nothing else comes after the last reply.      *)
Awaiting(q, ms, rs) ==
    /\ Len(rs) > 0
    /\ \A k \in q[Len(rs)] + 1..Len(ms) : ms[k].role \in {"tool", "cache_point"}
Settling(q, ms, rs, st) ==
    IF st = "tools" THEN Follows(q, ms, rs, Len(rs) - 1) /\ Awaiting(q, ms, rs) ELSE Follows(q, ms, rs, Len(rs))
OnWire ==
    stage = "sent" => /\ at \in Providers
                      /\ body = build_request(at, WithoutPoints(messages))
                      /\ at = "anthropic" => AllMarked(messages)

TalkInv ==
    /\ stage \in {"caller", "sent", "tools"}
    /\ ListOK(messages) /\ RepliesOK(replies)
    /\ \E q : Settling(q, messages, replies, stage)
    /\ Marked(messages)
    /\ OnWire

LEMMA PlainLike == ASSUME NEW m, NEW n, Like(m, n), Plain(n) PROVE Plain(m)
BY DEF Like, Plain

LEMMA TalkInitInv == TalkInit => TalkInv
<1>1. SUFFICES ASSUME TalkInit PROVE TalkInv
  OBVIOUS
<1>2. messages = <<>> /\ replies = <<>> /\ stage = "caller"
  BY <1>1 DEF TalkInit
<1>3. Len(messages) = 0 /\ Len(replies) = 0 /\ DOMAIN messages = {} /\ 1..0 = {}
  BY <1>2
<1>4. ListOK(messages) /\ RepliesOK(replies) /\ Marked(messages)
  BY <1>2, <1>3 DEF ListOK, RepliesOK, Marked
<1>5. Assistants(messages) = {} /\ Results(messages) = {}
  BY <1>3 DEF Assistants, Results
<1>6. PICK q : q = [k \in {} |-> 0]
  OBVIOUS
<1>7. Lists(q, 0, {})
  BY <1>3, <1>6 DEF Lists
<1>8. Follows(q, messages, replies, Len(replies))
  BY <1>3, <1>5, <1>7 DEF Follows, Said, Answering, AnsweredOnce, AnsweredUpTo
<1>9. Settling(q, messages, replies, stage)
  BY <1>2, <1>8 DEF Settling
<1>10. QED
  BY <1>2, <1>4, <1>9 DEF TalkInv, OnWire

(* A longer list.                                                          *)
LEMMA Longer ==
    ASSUME NEW ms \in Seq(MessageType), NEW m \in MessageType, NEW u, u = Append(ms, m), NEW l, l = Len(ms)
    PROVE  /\ u \in Seq(MessageType) /\ Len(u) = l + 1 /\ l \in Nat /\ l + 1 \in 1..l + 1
           /\ DOMAIN ms = 1..l /\ DOMAIN u = 1..l + 1
           /\ u[l + 1] = m
           /\ \A i \in 1..l : u[i] = ms[i] /\ i \in 1..l + 1 /\ ms[i] \in MessageType
           /\ \A i \in 1..l + 1 : i \in 1..l \/ i = l + 1
<1>1. l \in Nat /\ DOMAIN ms = 1..l
  OBVIOUS
<1>2. /\ u \in Seq(MessageType) /\ Len(u) = l + 1
      /\ \A i \in 1..l + 1 : u[i] = IF i = l + 1 THEN m ELSE ms[i]
  BY AppendProperties
<1>3. \A i \in 1..l : i # l + 1 /\ i \in 1..l + 1
  BY <1>1
<1>4. \A i \in 1..l + 1 : i \in 1..l \/ i = l + 1
  BY <1>1
<1>5. l + 1 \in 1..l + 1
  BY <1>1
<1>6. DOMAIN u = 1..l + 1 /\ \A i \in 1..l : ms[i] \in MessageType
  BY <1>1, <1>2
<1>7. QED
  BY <1>1, <1>2, <1>3, <1>4, <1>5, <1>6

LEMMA LongerOK ==
    ASSUME NEW ms, ListOK(ms), NEW m \in MessageType, Plain(m), NEW u, u = Append(ms, m)
    PROVE  ListOK(u)
<1>1. PICK l : l = Len(ms)
  OBVIOUS
<1>2. ms \in Seq(MessageType)
  BY DEF ListOK
<1>3. /\ u \in Seq(MessageType) /\ Len(u) = l + 1 /\ l \in Nat /\ l + 1 \in 1..l + 1
      /\ DOMAIN ms = 1..l /\ DOMAIN u = 1..l + 1
      /\ u[l + 1] = m
      /\ \A i \in 1..l : u[i] = ms[i] /\ i \in 1..l + 1 /\ ms[i] \in MessageType
      /\ \A i \in 1..l + 1 : i \in 1..l \/ i = l + 1
  BY <1>1, <1>2, Longer
<1>4. \A i \in 1..l : Plain(ms[i])
  BY <1>1 DEF ListOK
<1>5. \A i \in 1..l + 1 : Plain(u[i])
  BY <1>3, <1>4
<1>6. QED
  BY <1>3, <1>5 DEF ListOK

LEMMA LongerMarked ==
    ASSUME NEW ms, ListOK(ms), Marked(ms), NEW m \in MessageType, \A k \in 1..Len(m.blocks) : ~m.blocks[k].cached,
           NEW u, u = Append(ms, m)
    PROVE  Marked(u)
<1>1. PICK l : l = Len(ms)
  OBVIOUS
<1>2. ms \in Seq(MessageType)
  BY DEF ListOK
<1>3. /\ u \in Seq(MessageType) /\ Len(u) = l + 1 /\ l \in Nat /\ l + 1 \in 1..l + 1
      /\ DOMAIN ms = 1..l /\ DOMAIN u = 1..l + 1
      /\ u[l + 1] = m
      /\ \A i \in 1..l : u[i] = ms[i] /\ i \in 1..l + 1 /\ ms[i] \in MessageType
      /\ \A i \in 1..l + 1 : i \in 1..l \/ i = l + 1
  BY <1>1, <1>2, Longer
<1>4. ASSUME NEW i \in 1..l, BeforePoint(ms, i) PROVE BeforePoint(u, i)
  <2>1. ms[i].role # "cache_point" /\ i + 1 \in 1..l /\ ms[i + 1].role = "cache_point"
    BY <1>2, <1>3, <1>4, NextIsPoint
  <2>2. i \in DOMAIN u /\ u[i].role # "cache_point" /\ i + 1 \in DOMAIN u /\ u[i + 1].role = "cache_point"
    BY <1>3, <2>1
  <2>3. QED
    BY <1>3, <2>2, NextIsPoint
<1>5. SUFFICES ASSUME NEW i \in 1..l + 1, NEW k \in 1..Len(u[i].blocks), u[i].blocks[k].cached
               PROVE  k = Len(u[i].blocks) /\ BeforePoint(u, i)
  BY <1>3 DEF Marked
<1>6. i \in 1..l /\ u[i] = ms[i]
  BY <1>3, <1>5
<1>7. k = Len(ms[i].blocks) /\ BeforePoint(ms, i)
  BY <1>1, <1>5, <1>6 DEF Marked
<1>8. QED
  BY <1>4, <1>6, <1>7

(* Adding anything but a reply or a result leaves the order as it is.      *)
LEMMA AddKept ==
    ASSUME NEW ms, ListOK(ms), NEW rs, NEW q, NEW n, NEW m \in MessageType, m.role \notin {"assistant", "tool"},
           NEW u, u = Append(ms, m), Follows(q, ms, rs, n)
    PROVE  /\ Follows(q, u, rs, n)
           /\ m.role = "cache_point" /\ Len(rs) \in Nat /\ Awaiting(q, ms, rs) => Awaiting(q, u, rs)
<1>1. PICK l : l = Len(ms)
  OBVIOUS
<1>2. ms \in Seq(MessageType)
  BY DEF ListOK
<1>3. /\ u \in Seq(MessageType) /\ Len(u) = l + 1 /\ l \in Nat /\ l + 1 \in 1..l + 1
      /\ DOMAIN ms = 1..l /\ DOMAIN u = 1..l + 1
      /\ u[l + 1] = m
      /\ \A i \in 1..l : u[i] = ms[i] /\ i \in 1..l + 1 /\ ms[i] \in MessageType
      /\ \A i \in 1..l + 1 : i \in 1..l \/ i = l + 1
  BY <1>1, <1>2, Longer
<1>4. Assistants(u) = Assistants(ms) /\ Results(u) = Results(ms)
  <2>1. \A i : i \in Assistants(u) <=> i \in Assistants(ms)
    BY <1>3 DEF Assistants
  <2>2. \A i : i \in Results(u) <=> i \in Results(ms)
    BY <1>3 DEF Results
  <2>3. QED
    BY <2>1, <2>2
<1>5. \A i \in Results(ms) : i \in 1..l /\ u[i] = ms[i]
  BY <1>3 DEF Results
<1>6. \A r \in 1..Len(rs) : q[r] \in 1..l
  BY <1>3 DEF Follows, Said, Lists, Assistants
<1>7. Said(q, u, rs)
  BY <1>3, <1>4, <1>6 DEF Follows, Said
<1>8. Answering(q, u, rs)
  <2>1. SUFFICES ASSUME NEW i \in Results(ms) PROVE \E r \in 1..Len(rs) : Answers(q, u, rs, r, i)
    BY <1>4 DEF Answering
  <2>2. PICK r \in 1..Len(rs) : Answers(q, ms, rs, r, i)
    BY DEF Follows, Answering
  <2>3. \A k \in q[r] + 1..i : k \in 1..l
    BY <1>3, <1>5, <1>6
  <2>4. Answers(q, u, rs, r, i)
    BY <1>3, <1>5, <2>2, <2>3 DEF Answers
  <2>5. QED
    BY <2>4
<1>9. AnsweredOnce(u)
  BY <1>4, <1>5 DEF Follows, AnsweredOnce
<1>10. AnsweredUpTo(u, rs, n)
  BY <1>4, <1>5 DEF Follows, AnsweredUpTo
<1>11. ASSUME m.role = "cache_point", Len(rs) \in Nat, Awaiting(q, ms, rs) PROVE Awaiting(q, u, rs)
  <2>1. Len(rs) \in 1..Len(rs)
    BY <1>11 DEF Awaiting
  <2>2. q[Len(rs)] \in 1..l
    BY <1>6, <2>1
  <2>3. SUFFICES ASSUME NEW k \in q[Len(rs)] + 1..l + 1 PROVE u[k].role \in {"tool", "cache_point"}
    BY <1>3, <1>11 DEF Awaiting
  <2>4. k = l + 1 \/ k \in q[Len(rs)] + 1..l
    BY <1>3, <2>2
  <2>5. CASE k = l + 1
    BY <1>3, <1>11, <2>5
  <2>6. CASE k \in q[Len(rs)] + 1..l
    <3>1. k \in 1..l
      BY <1>3, <2>2, <2>6
    <3>2. ms[k].role \in {"tool", "cache_point"}
      BY <1>1, <1>11, <2>6 DEF Awaiting
    <3>3. QED
      BY <1>3, <3>1, <3>2
  <2>7. QED
    BY <2>4, <2>5, <2>6
<1>12. QED
  BY <1>7, <1>8, <1>9, <1>10, <1>11 DEF Follows

(* A message of the caller's own.                                          *)
LEMMA AddOwn ==
    ASSUME TalkInv, NEW m \in MessageType, Plain(m), m.role \notin {"assistant", "tool"},
           \A k \in 1..Len(m.blocks) : ~m.blocks[k].cached,
           messages' = Append(messages, m), UNCHANGED <<stage, at, body, replies>>, stage # "sent",
           stage = "tools" => m.role = "cache_point"
    PROVE  TalkInv'
<1>1. ListOK(messages) /\ RepliesOK(replies) /\ Marked(messages)
  BY DEF TalkInv
<1>2. ListOK(messages') /\ Marked(messages')
  BY <1>1, LongerOK, LongerMarked
<1>3. PICK q : Settling(q, messages, replies, stage)
  BY DEF TalkInv
<1>4. Len(replies) \in Nat
  BY <1>1 DEF RepliesOK
<1>5. Settling(q, messages', replies, stage)
  <2>1. CASE stage = "tools"
    <3>1. Follows(q, messages, replies, Len(replies) - 1) /\ Awaiting(q, messages, replies)
      BY <1>3, <2>1 DEF Settling
    <3>2. Follows(q, messages', replies, Len(replies) - 1) /\ Awaiting(q, messages', replies)
      BY <1>1, <1>4, <2>1, <3>1, AddKept
    <3>3. QED
      BY <2>1, <3>2 DEF Settling
  <2>2. CASE stage # "tools"
    <3>1. Follows(q, messages, replies, Len(replies))
      BY <1>3, <2>2 DEF Settling
    <3>2. Follows(q, messages', replies, Len(replies))
      BY <1>1, <3>1, AddKept
    <3>3. QED
      BY <2>2, <3>2 DEF Settling
  <2>3. QED
    BY <2>1, <2>2
<1>6. stage' = stage /\ replies' = replies
  OBVIOUS
<1>7. OnWire'
  BY <1>6 DEF OnWire
<1>8. (\E z : Settling(z, messages, replies, stage))'
  BY <1>5, <1>6
<1>9. stage' \in {"caller", "sent", "tools"} /\ RepliesOK(replies')
  BY <1>1, <1>6 DEF TalkInv
<1>10. QED
  BY <1>2, <1>7, <1>8, <1>9 DEF TalkInv

LEMMA TextMessage ==
    ASSUME NEW role \in {"system", "user", "tool"}, NEW of \in Nat, NEW m, m = Text(role, of)
    PROVE  /\ m \in MessageType /\ m.role = role /\ m.tool_calls = <<>> /\ Len(m.blocks) = 1 /\ m.id = 0
           /\ m.blocks[1].type = "text" /\ m.blocks[1].of = of /\ ~m.blocks[1].cached
<1>1. PICK b : b = Block("text", of)
  OBVIOUS
<1>2. b \in BlockType /\ b.type = "text" /\ b.of = of /\ b.cached = FALSE
  BY <1>1, BlockFacts DEF BlockTypes, PartTypes
<1>3. m = [role |-> role, shape |-> "string", blocks |-> <<b>>, tool_calls |-> <<>>, id |-> 0]
  BY <1>1 DEF Text, Message, NoId
<1>4. <<b>> \in Seq(BlockType) /\ Len(<<b>>) = 1 /\ <<b>>[1] = b /\ <<>> \in Seq(Nat)
  BY <1>2
<1>5. QED
  BY <1>2, <1>3, <1>4 DEF MessageType

LEMMA AddSystemStep == TalkInv /\ AddSystem => TalkInv'
<1>1. SUFFICES ASSUME TalkInv, AddSystem PROVE TalkInv'
  OBVIOUS
<1>2. PICK m : m = Text("system", Len(messages) + 1)
  OBVIOUS
<1>3. Len(messages) + 1 \in Nat
  BY <1>1 DEF TalkInv, ListOK
<1>4. /\ m \in MessageType /\ m.role = "system" /\ m.tool_calls = <<>> /\ Len(m.blocks) = 1 /\ m.id = 0
      /\ m.blocks[1].type = "text" /\ m.blocks[1].of = Len(messages) + 1 /\ ~m.blocks[1].cached
  BY <1>2, <1>3, TextMessage
<1>5. \A k \in 1..Len(m.blocks) : k = 1
  BY <1>4
<1>6. Plain(m) /\ \A k \in 1..Len(m.blocks) : ~m.blocks[k].cached
  BY <1>4, <1>5 DEF Plain
<1>7. messages' = Append(messages, m) /\ UNCHANGED <<stage, at, body, replies>> /\ stage = "caller"
  BY <1>1, <1>2 DEF AddSystem, Add, SystemMessage
<1>8. QED
  BY <1>1, <1>4, <1>6, <1>7, AddOwn

LEMMA AddUserStep == TalkInv /\ AddUser => TalkInv'
<1>1. SUFFICES ASSUME TalkInv, AddUser PROVE TalkInv'
  OBVIOUS
<1>2. PICK shape, m : /\ shape \in {"string", "list"} /\ m = UserMessage(Len(messages) + 1, shape)
                      /\ messages' = Append(messages, m)
  BY <1>1 DEF AddUser, Add
<1>3. Len(messages) + 1 \in Nat
  BY <1>1 DEF TalkInv, ListOK
<1>4. m \in MessageType /\ m.role = "user" /\ Plain(m) /\ \A k \in 1..Len(m.blocks) : ~m.blocks[k].cached
  <2>1. CASE shape = "string"
    <3>1. m = Text("user", Len(messages) + 1)
      BY <1>2, <2>1 DEF UserMessage
    <3>2. /\ m \in MessageType /\ m.role = "user" /\ m.tool_calls = <<>> /\ Len(m.blocks) = 1 /\ m.id = 0
          /\ m.blocks[1].type = "text" /\ m.blocks[1].of = Len(messages) + 1 /\ ~m.blocks[1].cached
      BY <1>3, <3>1, TextMessage
    <3>3. \A k \in 1..Len(m.blocks) : k = 1
      BY <3>2
    <3>4. QED
      BY <3>2, <3>3 DEF Plain
  <2>2. CASE shape = "list"
    <3>1. PICK b, c : b = Block("text", Len(messages) + 1) /\ c = Block("image_url", Len(messages) + 1)
      OBVIOUS
    <3>2. /\ b \in BlockType /\ b.type = "text" /\ b.cached = FALSE
          /\ c \in BlockType /\ c.type = "image_url" /\ c.cached = FALSE
      BY <1>3, <3>1, BlockFacts DEF BlockTypes, PartTypes
    <3>3. m = [role |-> "user", shape |-> "list", blocks |-> <<b, c>>, tool_calls |-> <<>>, id |-> 0]
      BY <1>2, <2>2, <3>1 DEF UserMessage, Message, NoId
    <3>4. /\ <<b, c>> \in Seq(BlockType) /\ Len(<<b, c>>) = 2 /\ <<b, c>>[1] = b /\ <<b, c>>[2] = c
          /\ <<>> \in Seq(Nat)
      BY <3>2
    <3>5. m \in MessageType /\ m.role = "user" /\ m.blocks = <<b, c>> /\ m.tool_calls = <<>>
      BY <3>3, <3>4 DEF MessageType
    <3>6. \A k \in 1..2 : k = 1 \/ k = 2
      OBVIOUS
    <3>7. \A k \in 1..Len(m.blocks) : m.blocks[k].type \in {"text", "image_url"} /\ ~m.blocks[k].cached
      BY <3>2, <3>4, <3>5, <3>6
    <3>8. QED
      BY <3>5, <3>7 DEF Plain
  <2>3. QED
    BY <1>2, <2>1, <2>2
<1>5. UNCHANGED <<stage, at, body, replies>> /\ stage = "caller"
  BY <1>1 DEF AddUser
<1>6. QED
  BY <1>1, <1>2, <1>4, <1>5, AddOwn

LEMMA AddCachePointStep == TalkInv /\ AddCachePoint => TalkInv'
<1>1. SUFFICES ASSUME TalkInv, AddCachePoint PROVE TalkInv'
  OBVIOUS
<1>2. PICK m : m = CachePoint
  OBVIOUS
<1>3. m = [role |-> "cache_point", shape |-> "none", blocks |-> <<>>, tool_calls |-> <<>>, id |-> 0]
  BY <1>2 DEF CachePoint, Message, NoId
<1>4. m \in MessageType /\ m.role = "cache_point" /\ m.blocks = <<>> /\ m.tool_calls = <<>>
  BY <1>3 DEF MessageType
<1>5. Plain(m) /\ \A k \in 1..Len(m.blocks) : ~m.blocks[k].cached
  BY <1>4 DEF Plain
<1>6. messages' = Append(messages, m) /\ UNCHANGED <<stage, at, body, replies>> /\ stage \in {"caller", "tools"}
  BY <1>1, <1>2 DEF AddCachePoint, Add
<1>7. QED
  BY <1>1, <1>4, <1>5, <1>6, AddOwn

(***************************************************************************)
(* Results and replies.                                                    *)
(***************************************************************************)
LEMMA CallsListed ==
    ASSUME NEW parts \in Seq(PartType)
    PROVE  /\ ToSet(CallIds(parts)) = CallsIn(parts)
           /\ CallsIn(parts) \in SUBSET Nat
           /\ OfType(parts, {"tool_use"}) = <<>> => CallsIn(parts) = {}
<1>1. PICK c : c = OfType(parts, {"tool_use"})
  OBVIOUS
<1>2. /\ c \in Seq(PartType)
      /\ \A x : (\E k \in DOMAIN c : c[k] = x) <=> \E i \in DOMAIN parts : parts[i] = x /\ x.type \in {"tool_use"}
  <2>1. /\ OfType(parts, {"tool_use"}) \in Seq(PartType)
        /\ Len(OfType(parts, {"tool_use"})) = Cardinality({i \in DOMAIN parts : parts[i].type \in {"tool_use"}})
        /\ \A x : (\E k \in DOMAIN OfType(parts, {"tool_use"}) : OfType(parts, {"tool_use"})[k] = x)
                     <=> \E i \in DOMAIN parts : parts[i] = x /\ x.type \in {"tool_use"}
    BY OfTypeIn
  <2>2. QED
    BY <1>1, <2>1
<1>3. CallIds(parts) = [k \in DOMAIN c |-> c[k].of]
  BY <1>1 DEF CallIds, Each
<1>4. ASSUME NEW id PROVE id \in ToSet(CallIds(parts)) <=> id \in CallsIn(parts)
  <2>1. ASSUME id \in ToSet(CallIds(parts)) PROVE id \in CallsIn(parts)
    <3>1. PICK k \in DOMAIN c : id = c[k].of
      BY <1>3, <2>1 DEF ToSet
    <3>2. PICK i \in DOMAIN parts : parts[i] = c[k] /\ c[k].type \in {"tool_use"}
      BY <1>2
    <3>3. QED
      BY <3>1, <3>2 DEF CallsIn
  <2>2. ASSUME id \in CallsIn(parts) PROVE id \in ToSet(CallIds(parts))
    <3>1. PICK i \in DOMAIN parts : parts[i].type = "tool_use" /\ parts[i].of = id
      BY <2>2 DEF CallsIn
    <3>2. PICK k \in DOMAIN c : c[k] = parts[i]
      BY <1>2, <3>1
    <3>3. QED
      BY <1>3, <3>1, <3>2 DEF ToSet
  <2>3. QED
    BY <2>1, <2>2
<1>5. CallsIn(parts) \in SUBSET Nat
  <2>1. \A i \in DOMAIN parts : parts[i].of \in Nat
    BY Part
  <2>2. QED
    BY <2>1 DEF CallsIn
<1>6. ASSUME c = <<>> PROVE CallsIn(parts) = {}
  <2>1. DOMAIN c = {}
    BY <1>6
  <2>2. \A i \in DOMAIN parts : parts[i].type # "tool_use"
    BY <1>2, <2>1
  <2>3. QED
    BY <2>2 DEF CallsIn
<1>7. QED
  BY <1>1, <1>4, <1>5, <1>6

LEMMA ReplyFacts ==
    ASSUME NEW rs, RepliesOK(rs)
    PROVE  /\ Len(rs) \in Nat /\ DOMAIN rs = 1..Len(rs)
           /\ \A r \in 1..Len(rs) : /\ rs[r].by \in Providers /\ rs[r].parts \in Seq(PartType)
                                    /\ Numbered(r, rs[r].parts)
<1>1. rs \in Seq(ReplyType)
  BY DEF RepliesOK
<1>2. \A r \in 1..Len(rs) : rs[r] \in ReplyType
  BY <1>1
<1>3. QED
  BY <1>1, <1>2 DEF RepliesOK, ReplyType

LEMMA UnansweredAre ==
    ASSUME RepliesOK(replies), NEW id, id \in Unanswered
    PROVE  /\ Len(replies) > 0
           /\ id \in CallsIn(replies[Len(replies)].parts)
           /\ \A i \in Results(messages) : messages[i].id # id
           /\ Unanswered = {id} => \A x \in CallsIn(replies[Len(replies)].parts) :
                                      x = id \/ \E i \in Results(messages) : messages[i].id = x
<1>1. replies # <<>>
  BY DEF Unanswered
<1>2. /\ Len(replies) \in Nat /\ DOMAIN replies = 1..Len(replies)
      /\ \A r \in 1..Len(replies) : /\ replies[r].by \in Providers /\ replies[r].parts \in Seq(PartType)
                                    /\ Numbered(r, replies[r].parts)
  BY ReplyFacts
<1>3. Len(replies) > 0
  <2>1. replies \in Seq(ReplyType)
    BY DEF RepliesOK
  <2>2. QED
    BY <1>1, <2>1
<1>4. PICK parts \in Seq(PartType) : parts = replies[Len(replies)].parts
  BY <1>2, <1>3
<1>5. Unanswered = CallsIn(parts) \ Answered
  <2>1. Last(replies).parts = parts
    BY <1>4 DEF Last
  <2>2. ToSet(CallIds(parts)) = CallsIn(parts)
    BY CallsListed
  <2>3. QED
    BY <1>1, <2>1, <2>2 DEF Unanswered
<1>6. Answered = {messages[i].id : i \in Results(messages)}
  BY DEF Answered, Results
<1>7. QED
  BY <1>3, <1>4, <1>5, <1>6

LEMMA AddToolResultStep == TalkInv /\ AddToolResult => TalkInv'
<1>1. SUFFICES ASSUME TalkInv, AddToolResult PROVE TalkInv'
  OBVIOUS
<1>2. PICK id \in Unanswered : /\ messages' = Append(messages, ToolResultMessage(id))
                               /\ stage' = IF Unanswered = {id} THEN "caller" ELSE "tools"
  BY <1>1 DEF AddToolResult, Add
<1>3. stage = "tools" /\ UNCHANGED <<at, body, replies>>
  BY <1>1 DEF AddToolResult
<1>4. ListOK(messages) /\ RepliesOK(replies) /\ Marked(messages)
  BY <1>1 DEF TalkInv
<1>5. PICK n, l : n = Len(replies) /\ l = Len(messages)
  OBVIOUS
<1>6. /\ n > 0 /\ n \in Nat
      /\ id \in CallsIn(replies[n].parts)
      /\ \A i \in Results(messages) : messages[i].id # id
      /\ Unanswered = {id} => \A x \in CallsIn(replies[n].parts) :
                                 x = id \/ \E i \in Results(messages) : messages[i].id = x
  BY <1>4, <1>5, UnansweredAre, ReplyFacts
<1>7. id \in Nat
  <2>1. replies[n].parts \in Seq(PartType)
    BY <1>4, <1>5, <1>6, ReplyFacts
  <2>2. CallsIn(replies[n].parts) \in SUBSET Nat
    BY <2>1, CallsListed
  <2>3. QED
    BY <1>6, <2>2
<1>8. PICK m : m = ToolResultMessage(id)
  OBVIOUS
<1>9. /\ m \in MessageType /\ m.role = "tool" /\ m.id = id /\ Plain(m)
      /\ \A k \in 1..Len(m.blocks) : ~m.blocks[k].cached
  <2>1. PICK t : t = Text("tool", id)
    OBVIOUS
  <2>2. /\ t \in MessageType /\ t.role = "tool" /\ t.tool_calls = <<>> /\ Len(t.blocks) = 1 /\ t.id = 0
        /\ t.blocks[1].type = "text" /\ t.blocks[1].of = id /\ ~t.blocks[1].cached
    BY <1>7, <2>1, TextMessage
  <2>3. m = [t EXCEPT !.id = id]
    BY <1>8, <2>1 DEF ToolResultMessage
  <2>4. m \in MessageType /\ m.role = "tool" /\ m.id = id /\ m.tool_calls = <<>> /\ m.blocks = t.blocks
    BY <1>7, <2>2, <2>3 DEF MessageType
  <2>5. Len(m.blocks) = 1 /\ m.blocks[1].type = "text" /\ m.blocks[1].of = id /\ ~m.blocks[1].cached
    BY <2>2, <2>4
  <2>6. \A k \in 1..Len(m.blocks) : k = 1
    BY <2>5
  <2>7. QED
    BY <2>4, <2>5, <2>6 DEF Plain
<1>10. PICK u : u = messages'
  OBVIOUS
<1>11. u = Append(messages, m)
  BY <1>2, <1>8, <1>10
<1>12. ListOK(u) /\ Marked(u)
  BY <1>4, <1>9, <1>11, LongerOK, LongerMarked
<1>13. messages \in Seq(MessageType)
  BY <1>4 DEF ListOK
<1>14. /\ u \in Seq(MessageType) /\ Len(u) = l + 1 /\ l \in Nat /\ l + 1 \in 1..l + 1
       /\ DOMAIN messages = 1..l /\ DOMAIN u = 1..l + 1
       /\ u[l + 1] = m
       /\ \A i \in 1..l : u[i] = messages[i] /\ i \in 1..l + 1 /\ messages[i] \in MessageType
       /\ \A i \in 1..l + 1 : i \in 1..l \/ i = l + 1
  BY <1>5, <1>9, <1>11, <1>13, Longer
<1>15. PICK q : Follows(q, messages, replies, n - 1) /\ Awaiting(q, messages, replies)
  BY <1>1, <1>3, <1>5 DEF TalkInv, Settling
<1>16. Assistants(u) = Assistants(messages)
  <2>1. \A i : i \in Assistants(u) <=> i \in Assistants(messages)
    BY <1>9, <1>14 DEF Assistants
  <2>2. QED
    BY <2>1
<1>17. Results(u) = Results(messages) \cup {l + 1}
  <2>1. \A i : i \in Results(u) <=> i \in Results(messages) \cup {l + 1}
    BY <1>9, <1>14 DEF Results
  <2>2. QED
    BY <2>1
<1>18. \A i \in Results(messages) : i \in 1..l /\ u[i] = messages[i] /\ u[i].id # id
  BY <1>6, <1>14 DEF Results
<1>19. \A r \in 1..n : q[r] \in 1..l
  BY <1>5, <1>14, <1>15 DEF Follows, Said, Lists, Assistants
<1>20. Said(q, u, replies)
  BY <1>5, <1>14, <1>15, <1>16, <1>19 DEF Follows, Said
<1>21. \A k \in q[n] + 1..l + 1 : u[k].role \in {"tool", "cache_point"}
  <2>1. SUFFICES ASSUME NEW k \in q[n] + 1..l + 1 PROVE u[k].role \in {"tool", "cache_point"}
    OBVIOUS
  <2>2. n \in 1..n
    BY <1>6
  <2>3. q[n] \in 1..l
    BY <1>19, <2>2
  <2>4. k = l + 1 \/ (k \in q[n] + 1..l /\ k \in 1..l)
    BY <1>14, <2>3
  <2>5. CASE k = l + 1
    BY <1>9, <1>14, <2>5
  <2>6. CASE k \in q[n] + 1..l /\ k \in 1..l
    BY <1>5, <1>14, <1>15, <2>6 DEF Awaiting
  <2>7. QED
    BY <2>4, <2>5, <2>6
<1>22. Answering(q, u, replies)
  <2>1. ASSUME NEW i \in Results(messages) PROVE \E r \in 1..n : Answers(q, u, replies, r, i)
    <3>1. PICK r \in 1..n : Answers(q, messages, replies, r, i)
      BY <1>5, <1>15 DEF Follows, Answering
    <3>2. \A k \in q[r] + 1..i : k \in 1..l
      BY <1>14, <1>18, <1>19
    <3>3. Answers(q, u, replies, r, i)
      BY <1>14, <1>18, <3>1, <3>2 DEF Answers
    <3>4. QED
      BY <3>3
  <2>2. Answers(q, u, replies, n, l + 1)
    <3>1. n \in 1..n
      BY <1>6
    <3>2. q[n] < l + 1
      BY <1>14, <1>19, <3>1
    <3>3. u[l + 1].id \in CallsIn(replies[n].parts)
      BY <1>6, <1>9, <1>14
    <3>4. QED
      BY <1>21, <3>2, <3>3 DEF Answers
  <2>3. n \in 1..n
    BY <1>6
  <2>4. QED
    BY <1>5, <1>17, <2>1, <2>2, <2>3 DEF Answering
<1>23. AnsweredOnce(u)
  <2>1. SUFFICES ASSUME NEW i \in Results(u), NEW j \in Results(u), u[i].id = u[j].id PROVE i = j
    BY DEF AnsweredOnce
  <2>2. u[l + 1].id = id
    BY <1>9, <1>14
  <2>3. CASE i \in Results(messages) /\ j \in Results(messages)
    BY <1>15, <1>18, <2>1, <2>3 DEF Follows, AnsweredOnce
  <2>4. QED
    BY <1>17, <1>18, <2>1, <2>2, <2>3
<1>24. AnsweredUpTo(u, replies, n - 1)
  BY <1>15, <1>17, <1>18 DEF Follows, AnsweredUpTo
<1>25. CASE Unanswered = {id}
  <2>1. stage' = "caller"
    BY <1>2, <1>25
  <2>2. ASSUME NEW x \in CallsIn(replies[n].parts) PROVE \E i \in Results(u) : u[i].id = x
    <3>1. x = id \/ \E i \in Results(messages) : messages[i].id = x
      BY <1>6, <1>25
    <3>2. CASE x = id
      BY <1>9, <1>14, <1>17, <3>2
    <3>3. CASE \E i \in Results(messages) : messages[i].id = x
      BY <1>17, <1>18, <3>3
    <3>4. QED
      BY <3>1, <3>2, <3>3
  <2>3. \A r \in 1..n : r \in 1..n - 1 \/ r = n
    BY <1>6
  <2>4. AnsweredUpTo(u, replies, n)
    BY <1>24, <2>2, <2>3 DEF AnsweredUpTo
  <2>5. Settling(q, u, replies, stage')
    BY <1>5, <1>20, <1>22, <1>23, <2>1, <2>4 DEF Settling, Follows
  <2>6. QED
    BY <1>3, <1>4, <1>10, <1>12, <2>1, <2>5 DEF TalkInv, OnWire
<1>26. CASE Unanswered # {id}
  <2>1. stage' = "tools"
    BY <1>2, <1>26
  <2>2. Awaiting(q, u, replies)
    BY <1>5, <1>6, <1>14, <1>21 DEF Awaiting
  <2>3. Settling(q, u, replies, stage')
    BY <1>5, <1>20, <1>22, <1>23, <1>24, <2>1, <2>2 DEF Settling, Follows
  <2>4. QED
    BY <1>3, <1>4, <1>10, <1>12, <2>1, <2>3 DEF TalkInv, OnWire
<1>27. QED
  BY <1>25, <1>26

LEMMA FollowsLike ==
    ASSUME NEW s \in Seq(MessageType), NEW t \in Seq(MessageType), DOMAIN t = DOMAIN s,
           \A i \in DOMAIN s : Like(t[i], s[i]), NEW q, NEW rs, NEW n, Follows(q, s, rs, n)
    PROVE  Follows(q, t, rs, n)
<1>1. \A i \in DOMAIN s : t[i].role = s[i].role /\ t[i].id = s[i].id
  BY DEF Like
<1>2. Assistants(t) = Assistants(s) /\ Results(t) = Results(s)
  BY <1>1 DEF Assistants, Results
<1>3. \A i \in Results(s) : i \in DOMAIN s
  BY DEF Results
<1>4. \A r \in 1..Len(rs) : q[r] \in DOMAIN s
  BY DEF Follows, Said, Lists, Assistants
<1>5. Said(q, t, rs)
  <2>1. \A r \in 1..Len(rs) : Like(t[q[r]], from_response(rs[r].by, rs[r].parts))
    BY <1>4, LikeLike DEF Follows, Said
  <2>2. QED
    BY <1>2, <2>1 DEF Follows, Said
<1>6. Answering(q, t, rs)
  <2>1. SUFFICES ASSUME NEW i \in Results(s) PROVE \E r \in 1..Len(rs) : Answers(q, t, rs, r, i)
    BY <1>2 DEF Answering
  <2>2. PICK r \in 1..Len(rs) : Answers(q, s, rs, r, i)
    BY DEF Follows, Answering
  <2>3. \A k \in q[r] + 1..i : k \in DOMAIN s
    <3>1. DOMAIN s = 1..Len(s) /\ Len(s) \in Nat
      OBVIOUS
    <3>2. q[r] \in 1..Len(s) /\ i \in 1..Len(s)
      BY <1>3, <1>4, <3>1
    <3>3. QED
      BY <3>1, <3>2
  <2>4. Answers(q, t, rs, r, i)
    BY <1>1, <1>3, <2>2, <2>3 DEF Answers
  <2>5. QED
    BY <2>4
<1>7. AnsweredOnce(t)
  BY <1>1, <1>2, <1>3 DEF Follows, AnsweredOnce
<1>8. AnsweredUpTo(t, rs, n)
  BY <1>1, <1>2, <1>3 DEF Follows, AnsweredUpTo
<1>9. QED
  BY <1>5, <1>6, <1>7, <1>8 DEF Follows

LEMMA SendStep == ASSUME TalkInv, NEW p \in Providers, Send(p) PROVE TalkInv'
<1>1. /\ stage = "caller" /\ stage' = "sent" /\ at' = p /\ messages' = Touched(p, messages)
      /\ body' = build_request(p, WithoutPoints(messages')) /\ replies' = replies
  BY DEF Send
<1>2. ListOK(messages) /\ RepliesOK(replies) /\ Marked(messages)
  BY DEF TalkInv
<1>3. PICK s, t : s = messages /\ t = messages'
  OBVIOUS
<1>4. s \in Seq(MessageType) /\ t = Touched(p, s)
  BY <1>1, <1>2, <1>3 DEF ListOK
<1>5. /\ t \in Seq(MessageType) /\ DOMAIN t = DOMAIN s /\ Len(t) = Len(s)
      /\ \A i \in DOMAIN s : Like(t[i], s[i])
      /\ \A i \in DOMAIN s : \A k \in 1..Len(s[i].blocks) :
            t[i].blocks[k].cached <=> \/ s[i].blocks[k].cached
                                      \/ p = "anthropic" /\ BeforePoint(s, i) /\ k = Len(s[i].blocks)
  BY <1>4, TouchedFacts
<1>6. DOMAIN s = 1..Len(s) /\ Len(s) \in Nat
  BY <1>4
<1>7. ListOK(t)
  BY <1>2, <1>3, <1>5, <1>6, PlainLike DEF ListOK
<1>8. \A i \in DOMAIN s : Len(t[i].blocks) = Len(s[i].blocks) /\ t[i].role = s[i].role
  BY <1>5 DEF Like
<1>9. \A i \in DOMAIN s : BeforePoint(t, i) <=> BeforePoint(s, i)
  <2>1. SUFFICES ASSUME NEW i \in DOMAIN s PROVE BeforePoint(t, i) <=> BeforePoint(s, i)
    OBVIOUS
  <2>2. BeforePoint(s, i) <=> /\ s[i].role # "cache_point"
                              /\ i + 1 \in DOMAIN s /\ s[i + 1].role = "cache_point"
    BY <1>4, NextIsPoint
  <2>3. BeforePoint(t, i) <=> /\ t[i].role # "cache_point"
                              /\ i + 1 \in DOMAIN t /\ t[i + 1].role = "cache_point"
    BY <1>5, NextIsPoint
  <2>4. QED
    BY <1>5, <1>8, <2>2, <2>3
<1>10. Marked(t)
  <2>1. SUFFICES ASSUME NEW i \in 1..Len(t), NEW k \in 1..Len(t[i].blocks), t[i].blocks[k].cached
                 PROVE  k = Len(t[i].blocks) /\ BeforePoint(t, i)
    BY DEF Marked
  <2>2. i \in DOMAIN s /\ i \in 1..Len(s) /\ k \in 1..Len(s[i].blocks)
    BY <1>5, <1>6, <1>8, <2>1
  <2>3. k = Len(s[i].blocks) /\ BeforePoint(s, i)
    BY <1>2, <1>3, <1>5, <2>1, <2>2 DEF Marked
  <2>4. QED
    BY <1>8, <1>9, <2>2, <2>3
<1>11. p = "anthropic" => AllMarked(t)
  <2>1. SUFFICES ASSUME p = "anthropic", NEW i \in 1..Len(t), BeforePoint(t, i), Len(t[i].blocks) > 0
                 PROVE  t[i].blocks[Len(t[i].blocks)].cached
    BY DEF AllMarked
  <2>2. i \in DOMAIN s /\ BeforePoint(s, i) /\ s[i] \in MessageType
    BY <1>4, <1>5, <1>6, <1>9, <2>1
  <2>3. Len(t[i].blocks) \in 1..Len(s[i].blocks) /\ Len(t[i].blocks) = Len(s[i].blocks)
    BY <1>8, <2>1, <2>2, MessageFields
  <2>4. QED
    BY <1>5, <2>1, <2>2, <2>3
<1>12. PICK q : Follows(q, s, replies, Len(replies))
  BY <1>1, <1>3 DEF TalkInv, Settling
<1>13. Follows(q, t, replies, Len(replies))
  BY <1>4, <1>5, <1>12, FollowsLike
<1>14. Settling(q, t, replies, stage')
  BY <1>1, <1>13 DEF Settling
<1>15. OnWire'
  BY <1>1, <1>3, <1>11 DEF OnWire
<1>16. stage' \in {"caller", "sent", "tools"} /\ RepliesOK(replies')
  BY <1>1, <1>2
<1>17. QED
  BY <1>1, <1>3, <1>7, <1>10, <1>14, <1>15, <1>16 DEF TalkInv

LEMMA RaiseStep == TalkInv /\ Raise => TalkInv'
<1>1. SUFFICES ASSUME TalkInv, Raise PROVE TalkInv'
  OBVIOUS
<1>2. stage = "sent" /\ stage' = "caller" /\ messages' = messages /\ replies' = replies
  BY <1>1 DEF Raise
<1>3. PICK q : Settling(q, messages, replies, stage)
  BY <1>1 DEF TalkInv
<1>4. Settling(q, messages, replies, stage')
  BY <1>2, <1>3 DEF Settling
<1>5. QED
  BY <1>1, <1>2, <1>4 DEF TalkInv, OnWire

(* The message a reply becomes, whoever replied.                           *)
LEMMA ReplyMessage ==
    ASSUME NEW p \in Providers, NEW parts \in Seq(PartType), NEW m, m = from_response(p, parts)
    PROVE  m \in MessageType /\ m.role = "assistant" /\ m.id = 0 /\ \A k \in 1..Len(m.blocks) : ~m.blocks[k].cached
<1>1. CASE p = "anthropic"
  <2>1. /\ m \in MessageType /\ m.role = "assistant" /\ m.id = 0 /\ m.tool_calls = <<>>
        /\ Len(m.blocks) = Len(parts)
        /\ \A i \in 1..Len(parts) : m.blocks[i] = parts[i]
    BY <1>1, from_responseAnthropic
  <2>2. \A i \in 1..Len(parts) : i \in DOMAIN parts
    OBVIOUS
  <2>3. \A i \in 1..Len(parts) : parts[i].cached = FALSE
    BY <2>2, Part
  <2>4. QED
    BY <2>1, <2>3
<1>2. CASE p = "google"
  <2>1. /\ m \in MessageType /\ m.role = "assistant" /\ m.id = 0 /\ m.tool_calls = <<>>
        /\ Len(m.blocks) = Len(parts)
        /\ \A i \in 1..Len(parts) : m.blocks[i] = Block(Google[parts[i].type], parts[i].of)
    BY <1>2, from_responseGoogle
  <2>2. \A type, of : Block(type, of).cached = FALSE
    BY BlockFacts
  <2>3. \A k \in 1..Len(m.blocks) : m.blocks[k].cached = FALSE
    BY <2>1, <2>2
  <2>4. QED
    BY <2>1, <2>3
<1>3. CASE p = "openai-responses"
  <2>1. /\ m \in MessageType /\ m.role = "assistant" /\ m.id = 0 /\ m.tool_calls = <<>>
        /\ Len(m.blocks) = Len(Texts(parts) \o CallParts(parts))
        /\ \A i \in 1..Len(m.blocks) : m.blocks[i] = Block(Responses[(Texts(parts) \o CallParts(parts))[i].type],
                                                           (Texts(parts) \o CallParts(parts))[i].of)
    BY <1>3, from_responseResponses
  <2>2. \A type, of : Block(type, of).cached = FALSE
    BY BlockFacts
  <2>3. \A k \in 1..Len(m.blocks) : m.blocks[k].cached = FALSE
    BY <2>1, <2>2
  <2>4. QED
    BY <2>1, <2>3
<1>4. CASE p \notin {"anthropic", "google", "openai-responses"}
  <2>1. /\ m \in MessageType /\ m.role = "assistant" /\ m.id = 0
        /\ m.blocks = Texts(parts)
        /\ m.tool_calls = [i \in DOMAIN CallParts(parts) |-> CallParts(parts)[i].of]
        /\ m.tool_calls \in Seq(Nat)
    BY <1>4, from_responseOther
  <2>2. Texts(parts) \in Seq(PartType)
    BY OfTypeIn DEF Texts
  <2>3. \A i \in 1..Len(m.blocks) : i \in DOMAIN Texts(parts)
    BY <2>1, <2>2
  <2>4. \A i \in 1..Len(m.blocks) : m.blocks[i].cached = FALSE
    BY <2>1, <2>2, <2>3, Part
  <2>5. QED
    BY <2>1, <2>4
<1>5. QED
  BY <1>1, <1>2, <1>3, <1>4

LEMMA ReplyStep == TalkInv /\ Reply => TalkInv'
<1>1. SUFFICES ASSUME TalkInv, Reply PROVE TalkInv'
  OBVIOUS
<1>2. PICK n, l : n = Len(replies) /\ l = Len(messages)
  OBVIOUS
<1>3. ListOK(messages) /\ RepliesOK(replies) /\ Marked(messages) /\ stage = "sent" /\ at \in Providers
  BY <1>1 DEF TalkInv, Reply, OnWire
<1>4. n \in Nat /\ replies \in Seq(ReplyType)
  BY <1>2, <1>3, ReplyFacts DEF RepliesOK
<1>5. PICK parts \in Parts(n + 1) :
          /\ messages' = Append(messages, from_response(at, parts))
          /\ replies' = Append(replies, [by |-> at, parts |-> parts])
          /\ stage' = IF OfType(parts, {"tool_use"}) = <<>> THEN "caller" ELSE "tools"
  BY <1>1, <1>2 DEF Reply, Add
<1>6. parts \in Seq(PartType) /\ Numbered(n + 1, parts)
  <2>1. n + 1 \in Nat
    BY <1>4
  <2>2. QED
    BY <2>1, PartsType
<1>7. PICK m : m = from_response(at, parts)
  OBVIOUS
<1>8. m \in MessageType /\ m.role = "assistant" /\ m.id = 0 /\ \A k \in 1..Len(m.blocks) : ~m.blocks[k].cached
  BY <1>3, <1>6, <1>7, ReplyMessage
<1>9. PICK u, w, e : u = messages' /\ w = replies' /\ e = [by |-> at, parts |-> parts]
  OBVIOUS
<1>10. u = Append(messages, m) /\ w = Append(replies, e) /\ e \in ReplyType /\ e.by = at /\ e.parts = parts
  BY <1>3, <1>5, <1>6, <1>7, <1>9 DEF ReplyType
<1>11. ListOK(u) /\ Marked(u)
  <2>1. Plain(m)
    BY <1>8 DEF Plain
  <2>2. QED
    BY <1>3, <1>8, <1>10, <2>1, LongerOK, LongerMarked
<1>12. messages \in Seq(MessageType)
  BY <1>3 DEF ListOK
<1>13. /\ u \in Seq(MessageType) /\ Len(u) = l + 1 /\ l \in Nat /\ l + 1 \in 1..l + 1
       /\ DOMAIN messages = 1..l /\ DOMAIN u = 1..l + 1
       /\ u[l + 1] = m
       /\ \A i \in 1..l : u[i] = messages[i] /\ i \in 1..l + 1 /\ messages[i] \in MessageType
       /\ \A i \in 1..l + 1 : i \in 1..l \/ i = l + 1
  BY <1>2, <1>8, <1>10, <1>12, Longer
<1>14. /\ w \in Seq(ReplyType) /\ Len(w) = n + 1 /\ w[n + 1] = e
       /\ \A r \in 1..n : w[r] = replies[r]
       /\ \A r \in 1..n + 1 : r \in 1..n \/ r = n + 1
  <2>1. /\ w \in Seq(ReplyType) /\ Len(w) = n + 1
        /\ \A i \in 1..n + 1 : w[i] = IF i = n + 1 THEN e ELSE replies[i]
    BY <1>2, <1>4, <1>10, AppendProperties
  <2>2. n + 1 \in 1..n + 1 /\ \A r \in 1..n : r \in 1..n + 1 /\ r # n + 1
    BY <1>4
  <2>3. \A r \in 1..n + 1 : r \in 1..n \/ r = n + 1
    BY <1>4
  <2>4. QED
    BY <2>1, <2>2, <2>3
<1>15. RepliesOK(w)
  <2>1. \A r \in 1..n : Numbered(r, replies[r].parts)
    BY <1>2, <1>3 DEF RepliesOK
  <2>2. \A r \in 1..n + 1 : Numbered(r, w[r].parts)
    BY <1>6, <1>10, <1>14, <2>1
  <2>3. QED
    BY <1>14, <2>2 DEF RepliesOK
<1>16. PICK q : Follows(q, messages, replies, n)
  BY <1>1, <1>2, <1>3 DEF TalkInv, Settling
<1>17. Lists(q, n, Assistants(messages)) /\ \A r \in 1..n : Like(messages[q[r]], from_response(replies[r].by, replies[r].parts))
  BY <1>2, <1>16 DEF Follows, Said
<1>18. PICK z : z = [r \in 1..n + 1 |-> IF r = n + 1 THEN l + 1 ELSE q[r]]
  OBVIOUS
<1>19. /\ \A r \in 1..n : z[r] = q[r] /\ q[r] \in Assistants(messages) /\ q[r] \in 1..l
       /\ z[n + 1] = l + 1
  <2>1. \A r \in 1..n : r \in 1..n + 1 /\ r # n + 1
    BY <1>4
  <2>2. n + 1 \in 1..n + 1
    BY <1>4
  <2>3. \A r \in 1..n : q[r] \in Assistants(messages)
    BY <1>17 DEF Lists
  <2>4. \A x \in Assistants(messages) : x \in 1..l
    BY <1>13 DEF Assistants
  <2>5. QED
    BY <1>18, <2>1, <2>2, <2>3, <2>4
<1>20. Assistants(u) = Assistants(messages) \cup {l + 1}
  <2>1. \A i : i \in Assistants(u) <=> i \in Assistants(messages) \cup {l + 1}
    BY <1>8, <1>13 DEF Assistants
  <2>2. QED
    BY <2>1
<1>21. Results(u) = Results(messages)
  <2>1. \A i : i \in Results(u) <=> i \in Results(messages)
    BY <1>8, <1>13 DEF Results
  <2>2. QED
    BY <2>1
<1>22. \A i \in Results(messages) : i \in 1..l /\ u[i] = messages[i]
  BY <1>13 DEF Results
<1>23. Lists(z, n + 1, Assistants(u))
  <2>1. z \in [1..n + 1 -> Assistants(u)]
    <3>1. \A r \in 1..n + 1 : z[r] \in Assistants(u)
      BY <1>14, <1>19, <1>20
    <3>2. DOMAIN z = 1..n + 1 /\ z = [r \in 1..n + 1 |-> z[r]]
      BY <1>18
    <3>3. QED
      BY <3>1, <3>2
  <2>2. ASSUME NEW i \in 1..n + 1, NEW j \in 1..n + 1, i < j PROVE z[i] < z[j]
    <3>1. i \in 1..n
      BY <1>4, <2>2
    <3>2. CASE j \in 1..n
      <4>1. q[i] < q[j]
        BY <1>17, <2>2, <3>1, <3>2 DEF Lists
      <4>2. QED
        BY <1>19, <3>1, <3>2, <4>1
    <3>3. CASE j = n + 1
      BY <1>13, <1>19, <3>1, <3>3
    <3>4. QED
      BY <1>14, <3>2, <3>3
  <2>3. ASSUME NEW x \in Assistants(u) PROVE \E i \in 1..n + 1 : z[i] = x
    <3>1. CASE x = l + 1
      <4>1. n + 1 \in 1..n + 1
        BY <1>4
      <4>2. QED
        BY <1>19, <3>1, <4>1
    <3>2. CASE x \in Assistants(messages)
      <4>1. PICK i \in 1..n : q[i] = x
        BY <1>17, <3>2 DEF Lists
      <4>2. i \in 1..n + 1
        BY <1>4
      <4>3. QED
        BY <1>19, <4>1, <4>2
    <3>3. QED
      BY <1>20, <3>1, <3>2
  <2>4. n + 1 \in Nat
    BY <1>4
  <2>5. QED
    BY <2>1, <2>2, <2>3, <2>4 DEF Lists
<1>24. Said(z, u, w)
  <2>1. ASSUME NEW r \in 1..n + 1 PROVE Like(u[z[r]], from_response(w[r].by, w[r].parts))
    <3>1. CASE r \in 1..n
      BY <1>13, <1>14, <1>17, <1>19, <3>1
    <3>2. CASE r = n + 1
      BY <1>7, <1>10, <1>13, <1>14, <1>19, <3>2, LikeSame
    <3>3. QED
      BY <1>14, <3>1, <3>2
  <2>2. QED
    BY <1>14, <1>23, <2>1 DEF Said
<1>25. Answering(z, u, w)
  <2>1. SUFFICES ASSUME NEW i \in Results(messages) PROVE \E r \in 1..n + 1 : Answers(z, u, w, r, i)
    BY <1>14, <1>21 DEF Answering
  <2>2. PICK r \in 1..n : Answers(q, messages, replies, r, i)
    BY <1>2, <1>16 DEF Follows, Answering
  <2>3. \A k \in q[r] + 1..i : k \in 1..l
    BY <1>13, <1>19, <1>22
  <2>4. Answers(z, u, w, r, i)
    BY <1>13, <1>14, <1>19, <1>22, <2>2, <2>3 DEF Answers
  <2>5. r \in 1..n + 1
    BY <1>4
  <2>6. QED
    BY <2>4, <2>5
<1>26. AnsweredOnce(u) /\ AnsweredUpTo(u, w, n)
  <2>1. AnsweredOnce(u)
    BY <1>16, <1>21, <1>22 DEF Follows, AnsweredOnce
  <2>2. AnsweredUpTo(u, w, n)
    BY <1>14, <1>16, <1>21, <1>22 DEF Follows, AnsweredUpTo
  <2>3. QED
    BY <2>1, <2>2
<1>27. CASE OfType(parts, {"tool_use"}) = <<>>
  <2>1. stage' = "caller" /\ CallsIn(parts) = {}
    BY <1>5, <1>6, <1>27, CallsListed
  <2>2. AnsweredUpTo(u, w, n + 1)
    BY <1>10, <1>14, <1>26, <2>1 DEF AnsweredUpTo
  <2>3. Settling(z, u, w, stage')
    BY <1>14, <1>24, <1>25, <1>26, <2>1, <2>2 DEF Settling, Follows
  <2>4. QED
    BY <1>9, <1>11, <1>15, <2>1, <2>3 DEF TalkInv, OnWire
<1>28. CASE OfType(parts, {"tool_use"}) # <<>>
  <2>1. stage' = "tools"
    BY <1>5, <1>28
  <2>2. Awaiting(z, u, w)
    <3>1. \A k \in l + 1 + 1..l + 1 : FALSE
      BY <1>13
    <3>2. n + 1 > 0
      BY <1>4
    <3>3. QED
      BY <1>13, <1>14, <1>19, <3>1, <3>2 DEF Awaiting
  <2>3. Len(w) - 1 = n
    BY <1>4, <1>14
  <2>4. Settling(z, u, w, stage')
    BY <1>24, <1>25, <1>26, <2>1, <2>2, <2>3 DEF Settling, Follows
  <2>5. QED
    BY <1>9, <1>11, <1>15, <2>1, <2>4 DEF TalkInv, OnWire
<1>29. QED
  BY <1>27, <1>28

LEMMA TalkNextInv == TalkInv /\ [TalkNext]_talkVars => TalkInv'
<1>1. SUFFICES ASSUME TalkInv, [TalkNext]_talkVars PROVE TalkInv'
  OBVIOUS
<1>2. CASE AddSystem \/ AddUser \/ AddCachePoint
  BY <1>1, <1>2, AddSystemStep, AddUserStep, AddCachePointStep
<1>3. CASE AddToolResult
  BY <1>1, <1>3, AddToolResultStep
<1>4. CASE \E p \in Providers : Send(p)
  BY <1>1, <1>4, SendStep
<1>5. CASE Reply
  BY <1>1, <1>5, ReplyStep
<1>6. CASE Raise
  BY <1>1, <1>6, RaiseStep
<1>7. CASE UNCHANGED talkVars
  BY <1>1, <1>7 DEF talkVars, TalkInv, OnWire
<1>8. QED
  BY <1>1, <1>2, <1>3, <1>4, <1>5, <1>6, <1>7 DEF TalkNext

(* The invariant of a conversation: the replies stand in the list as they  *)
(* were made and in their order, results after their calls, annotations    *)
(* only before cache points, and a body under way is made of that list.    *)
THEOREM TalkInvariance == TalkSpec => []TalkInv
<1>1. QED
  BY TalkInitInv, TalkNextInv, PTL DEF TalkSpec

-----------------------------------------------------------------------------
(***************************************************************************)
(* What is read of the list.  L picks the places P of the list ms, replies *)
(* and results among them: the order of both is kept.                      *)
(***************************************************************************)
LEMMA FollowsPicked ==
    ASSUME NEW ms, ListOK(ms), NEW rs, RepliesOK(rs), NEW q, Follows(q, ms, rs, Len(rs)),
           NEW P \in SUBSET DOMAIN ms, Assistants(ms) \subseteq P, Results(ms) \subseteq P,
           NEW L, NEW g, NEW n, Picks(L, ms, g, n, P)
    PROVE  \E z : Follows(z, L, rs, Len(rs)) /\ \A r \in 1..Len(rs) : z[r] \in 1..n /\ g[z[r]] = q[r]
<1>1. ms \in Seq(MessageType)
  BY DEF ListOK
<1>2. DOMAIN ms = 1..Len(ms) /\ Len(ms) \in Nat
  BY <1>1
<1>3. P \in SUBSET Nat
  BY <1>2
<1>4. /\ L \in Seq(MessageType) /\ Len(L) = n /\ DOMAIN L = 1..n /\ n \in Nat
      /\ \A k \in 1..n : L[k] = ms[g[k]] /\ g[k] \in P /\ g[k] \in DOMAIN ms
  BY <1>1, PicksType
<1>5. Lists(g, n, P) /\ \A x \in P : \E k \in 1..n : g[k] = x
  BY DEF Picks, Lists
<1>6. ASSUME NEW i \in 1..n, NEW j \in 1..n
      PROVE  (g[i] < g[j] <=> i < j) /\ (g[i] = g[j] <=> i = j) /\ g[i] \in Nat
  <2>1. /\ g[i] < g[j] <=> i < j
        /\ g[i] = g[j] <=> i = j
        /\ g[i] \in P
    BY <1>3, <1>5, ListsOrder
  <2>2. QED
    BY <1>3, <2>1
<1>7. PICK m : m = Len(rs)
  OBVIOUS
<1>8. m \in Nat
  BY <1>7, ReplyFacts
<1>9. Lists(q, m, Assistants(ms)) /\ \A r \in 1..m : Like(ms[q[r]], from_response(rs[r].by, rs[r].parts))
  BY <1>7 DEF Follows, Said
<1>10. \A r \in 1..m : q[r] \in Assistants(ms) /\ q[r] \in Nat
  BY <1>2, <1>9 DEF Lists, Assistants
<1>11. PICK z : z = [r \in 1..m |-> CHOOSE k \in 1..n : g[k] = q[r]]
  OBVIOUS
<1>12. \A r \in 1..m : z[r] \in 1..n /\ g[z[r]] = q[r]
  BY <1>5, <1>10, <1>11
<1>13. \A k \in 1..n : k \in Assistants(L) <=> g[k] \in Assistants(ms)
  BY <1>4 DEF Assistants
<1>14. \A k \in 1..n : k \in Results(L) <=> g[k] \in Results(ms)
  BY <1>4 DEF Results
<1>15. Lists(z, m, Assistants(L))
  <2>1. \A r \in 1..m : z[r] \in Assistants(L)
    BY <1>10, <1>12, <1>13
  <2>2. z \in [1..m -> Assistants(L)]
    <3>1. DOMAIN z = 1..m /\ z = [r \in 1..m |-> z[r]]
      BY <1>11
    <3>2. QED
      BY <2>1, <3>1
  <2>3. ASSUME NEW i \in 1..m, NEW j \in 1..m, i < j PROVE z[i] < z[j]
    <3>1. q[i] < q[j]
      BY <1>9, <2>3 DEF Lists
    <3>2. QED
      BY <1>6, <1>12, <3>1
  <2>4. ASSUME NEW x \in Assistants(L) PROVE \E r \in 1..m : z[r] = x
    <3>1. x \in 1..n
      BY <1>4 DEF Assistants
    <3>2. PICK r \in 1..m : q[r] = g[x]
      BY <1>9, <1>13, <3>1 DEF Lists
    <3>3. z[r] = x
      BY <1>6, <1>12, <3>1, <3>2
    <3>4. QED
      BY <3>3
  <2>5. QED
    BY <1>8, <2>2, <2>3, <2>4 DEF Lists
<1>16. Said(z, L, rs)
  <2>1. \A r \in 1..m : Like(L[z[r]], from_response(rs[r].by, rs[r].parts))
    BY <1>4, <1>9, <1>12
  <2>2. QED
    BY <1>7, <1>15, <2>1 DEF Said
<1>17. \A i \in Results(L) : i \in 1..n
  BY <1>4 DEF Results
<1>18. Answering(z, L, rs)
  <2>1. SUFFICES ASSUME NEW i \in Results(L) PROVE \E r \in 1..m : Answers(z, L, rs, r, i)
    BY <1>7 DEF Answering
  <2>2. i \in 1..n /\ g[i] \in Results(ms)
    BY <1>14, <1>17
  <2>3. PICK r \in 1..m : Answers(q, ms, rs, r, g[i])
    BY <1>7, <2>2 DEF Follows, Answering
  <2>4. z[r] < i
    BY <1>6, <1>12, <2>2, <2>3 DEF Answers
  <2>5. ASSUME NEW k \in z[r] + 1..i PROVE L[k].role \in {"tool", "cache_point"}
    <3>1. k \in 1..n /\ z[r] < k /\ (k < i \/ k = i)
      BY <1>4, <1>12, <2>2
    <3>2. q[r] < g[k] /\ (g[k] < g[i] \/ g[k] = g[i]) /\ g[k] \in Nat /\ g[i] \in Nat
      BY <1>6, <1>12, <2>2, <3>1
    <3>3. g[k] \in q[r] + 1..g[i]
      BY <1>10, <3>2
    <3>4. ms[g[k]].role \in {"tool", "cache_point"}
      BY <2>3, <3>3 DEF Answers
    <3>5. QED
      BY <1>4, <3>1, <3>4
  <2>6. L[i].id \in CallsIn(rs[r].parts)
    BY <1>4, <2>2, <2>3 DEF Answers
  <2>7. Answers(z, L, rs, r, i)
    BY <2>4, <2>5, <2>6 DEF Answers
  <2>8. QED
    BY <2>7
<1>19. AnsweredOnce(L)
  <2>1. SUFFICES ASSUME NEW i \in Results(L), NEW j \in Results(L), L[i].id = L[j].id PROVE i = j
    BY DEF AnsweredOnce
  <2>2. i \in 1..n /\ j \in 1..n /\ g[i] \in Results(ms) /\ g[j] \in Results(ms)
    BY <1>14, <1>17
  <2>3. g[i] = g[j]
    BY <1>4, <2>1, <2>2 DEF Follows, AnsweredOnce
  <2>4. QED
    BY <1>6, <2>2, <2>3
<1>20. AnsweredUpTo(L, rs, m)
  <2>1. SUFFICES ASSUME NEW r \in 1..m, NEW id \in CallsIn(rs[r].parts) PROVE \E i \in Results(L) : L[i].id = id
    BY DEF AnsweredUpTo
  <2>2. PICK x \in Results(ms) : ms[x].id = id
    BY <1>7 DEF Follows, AnsweredUpTo
  <2>3. PICK k \in 1..n : g[k] = x
    BY <1>5, <2>2
  <2>4. QED
    BY <1>4, <1>14, <2>2, <2>3
<1>21. Follows(z, L, rs, m)
  BY <1>16, <1>18, <1>19, <1>20 DEF Follows
<1>22. QED
  BY <1>7, <1>12, <1>21

(* Replies have calls of their own.                                        *)
LEMMA CallsApart ==
    ASSUME NEW rs, RepliesOK(rs), NEW r \in 1..Len(rs), NEW t \in 1..Len(rs),
           NEW id \in CallsIn(rs[r].parts), id \in CallsIn(rs[t].parts)
    PROVE  r = t
<1>1. Numbered(r, rs[r].parts) /\ Numbered(t, rs[t].parts)
  BY DEF RepliesOK
<1>2. \E k \in 1..9 : id = CallId(r, k)
  BY <1>1 DEF CallsIn, Numbered
<1>3. \E k \in 1..9 : id = CallId(t, k)
  BY <1>1 DEF CallsIn, Numbered
<1>4. PICK k \in 1..9, j \in 1..9 : CallId(r, k) = CallId(t, j)
  BY <1>2, <1>3
<1>5. r \in Nat /\ t \in Nat
  BY ReplyFacts
<1>6. 100 * r + k = 100 * t + j
  BY <1>4 DEF CallId
<1>7. QED
  BY <1>5, <1>6

(* Without points, the results right after a reply are to its calls.      *)
LEMMA RunOwner ==
    ASSUME NEW L, ListOK(L), \A k \in 1..Len(L) : L[k].role # "cache_point",
           NEW rs, RepliesOK(rs), NEW z, Follows(z, L, rs, Len(rs)), NEW r \in 1..Len(rs),
           NEW i \in 1..Len(L), z[r] < i, \A k \in z[r] + 1..i : L[k].role = "tool"
    PROVE  i \in Results(L) /\ L[i].id \in CallsIn(rs[r].parts)
<1>1. DOMAIN L = 1..Len(L) /\ Len(L) \in Nat
  BY DEF ListOK
<1>2. PICK n, m, a : n = Len(L) /\ m = Len(rs) /\ a = z[r]
  OBVIOUS
<1>3. Lists(z, m, Assistants(L))
  BY <1>2 DEF Follows, Said
<1>4. \A t \in 1..m : z[t] \in 1..n /\ L[z[t]].role = "assistant"
  BY <1>1, <1>2, <1>3 DEF Lists, Assistants
<1>5. \A t, v \in 1..m : t < v => z[t] < z[v]
  BY <1>3 DEF Lists
<1>6. i \in a + 1..i /\ a \in 1..n /\ a \in Nat /\ n \in Nat /\ i \in 1..n
  BY <1>1, <1>2, <1>4
<1>7. i \in Results(L)
  BY <1>1, <1>2, <1>6 DEF Results
<1>8. PICK t \in 1..m : Answers(z, L, rs, t, i)
  BY <1>2, <1>7 DEF Follows, Answering
<1>9. t \in Nat /\ r \in Nat /\ m \in Nat
  BY <1>2, ReplyFacts
<1>10. ~(t < r)
  <2>1. SUFFICES ASSUME t < r PROVE FALSE
    OBVIOUS
  <2>2. z[t] < a /\ z[t] \in 1..n
    BY <1>2, <1>4, <1>5, <2>1
  <2>3. a \in z[t] + 1..i
    BY <1>2, <1>6, <2>2
  <2>4. L[a].role \in {"tool", "cache_point"}
    BY <1>8, <2>3 DEF Answers
  <2>5. QED
    BY <1>2, <1>4, <2>4
<1>11. ~(r < t)
  <2>1. SUFFICES ASSUME r < t PROVE FALSE
    OBVIOUS
  <2>2. a < z[t] /\ z[t] \in 1..n /\ z[t] < i
    BY <1>2, <1>4, <1>5, <1>8, <2>1 DEF Answers
  <2>3. z[t] \in a + 1..i
    BY <1>6, <2>2
  <2>4. L[z[t]].role = "tool"
    BY <1>2, <2>3
  <2>5. QED
    BY <1>4, <2>4
<1>12. t = r
  BY <1>9, <1>10, <1>11
<1>13. QED
  BY <1>7, <1>8, <1>12 DEF Answers

(* Without points, the results of a reply come right after it, as many as  *)
(* it has calls.                                                           *)
ResultsOf(L, calls) == {i \in Results(L) : L[i].id \in calls}

Run(L, a, calls) ==
    /\ IsFiniteSet(calls) /\ Cardinality(calls) \in Nat
    /\ ResultsOf(L, calls) = a + 1..a + Cardinality(calls)
    /\ \A id : id \in calls <=> \E i \in ResultsOf(L, calls) : L[i].id = id
    /\ a \in 1..Len(L)

LEMMA ResultsRun ==
    ASSUME NEW L, ListOK(L), \A k \in 1..Len(L) : L[k].role # "cache_point",
           NEW rs, RepliesOK(rs), NEW z, Follows(z, L, rs, Len(rs)), NEW r \in 1..Len(rs),
           NEW calls, calls = CallsIn(rs[r].parts)
    PROVE  Run(L, z[r], calls)
<1>1. DOMAIN L = 1..Len(L) /\ Len(L) \in Nat
  BY DEF ListOK
<1>2. PICK n, m : n = Len(L) /\ m = Len(rs)
  OBVIOUS
<1>3. Lists(z, m, Assistants(L))
  BY <1>2 DEF Follows, Said
<1>4. \A t \in 1..m : z[t] \in 1..n /\ L[z[t]].role = "assistant"
  BY <1>1, <1>2, <1>3 DEF Lists, Assistants
<1>5. \A t, v \in 1..m : t < v => z[t] < z[v]
  BY <1>3 DEF Lists
<1>6. PICK A, a : A = ResultsOf(L, calls) /\ a = z[r]
  OBVIOUS
<1>7. A \in SUBSET (1..n) /\ a \in 1..n /\ a \in Nat /\ n \in Nat
  BY <1>1, <1>2, <1>4, <1>6 DEF ResultsOf, Results
<1>8. \A i \in A : Answers(z, L, rs, r, i)
  <2>1. SUFFICES ASSUME NEW i \in A PROVE Answers(z, L, rs, r, i)
    OBVIOUS
  <2>2. i \in Results(L) /\ L[i].id \in calls
    BY <1>6 DEF ResultsOf
  <2>3. PICK t \in 1..m : Answers(z, L, rs, t, i)
    BY <1>2, <2>2 DEF Follows, Answering
  <2>4. t = r
    BY <1>2, <2>2, <2>3, CallsApart DEF Answers
  <2>5. QED
    BY <2>3, <2>4
<1>9. ASSUME NEW i \in A, NEW k \in a + 1..i PROVE k \in A
  <2>1. Answers(z, L, rs, r, i) /\ k \in 1..n /\ i \in 1..n
    BY <1>7, <1>8, <1>9
  <2>2. \A j \in a + 1..k : j \in a + 1..i /\ j \in 1..n
    BY <1>7, <1>9, <2>1
  <2>3. \A j \in a + 1..k : L[j].role = "tool"
    BY <1>2, <1>6, <2>1, <2>2 DEF Answers
  <2>4. z[r] < k /\ k \in 1..Len(L) /\ \A j \in z[r] + 1..k : L[j].role = "tool"
    BY <1>2, <1>6, <1>7, <1>9, <2>1, <2>3
  <2>5. k \in Results(L) /\ L[k].id \in CallsIn(rs[r].parts)
    BY <2>4, RunOwner
  <2>6. QED
    BY <1>6, <2>5 DEF ResultsOf
<1>10. IsFiniteSet(A)
  <2>1. IsFiniteSet(1..n)
    BY <1>7, FS_Interval
  <2>2. QED
    BY <1>7, <2>1, FS_Subset
<1>11. {L[i].id : i \in A} = calls
  <2>1. \A i \in A : L[i].id \in calls
    BY <1>6 DEF ResultsOf
  <2>2. ASSUME NEW id \in calls PROVE \E i \in A : L[i].id = id
    <3>1. PICK i \in Results(L) : L[i].id = id
      BY <2>2 DEF Follows, AnsweredUpTo
    <3>2. i \in A
      BY <1>6, <2>2, <3>1 DEF ResultsOf
    <3>3. QED
      BY <3>1, <3>2
  <2>3. QED
    BY <2>1, <2>2
<1>12. IsFiniteSet(calls) /\ Cardinality(calls) = Cardinality(A)
  <2>1. PICK f : f = [i \in A |-> L[i].id]
    OBVIOUS
  <2>2. f \in [A -> calls]
    BY <1>11, <2>1
  <2>3. \A i, j \in A : f[i] = f[j] => i = j
    <3>1. \A i \in A : i \in Results(L)
      BY <1>6 DEF ResultsOf
    <3>2. QED
      BY <2>1, <3>1 DEF Follows, AnsweredOnce
  <2>4. \A id \in calls : \E i \in A : f[i] = id
    BY <1>11, <2>1
  <2>5. f \in Bijection(A, calls)
    BY <2>2, <2>3, <2>4 DEF Bijection, Injection, Surjection, IsInjective
  <2>6. ExistsBijection(A, calls)
    BY <2>5 DEF ExistsBijection
  <2>7. QED
    BY <1>10, <2>6, FS_Bijection
<1>13. PICK c : c = Cardinality(A)
  OBVIOUS
<1>14. c \in Nat
  BY <1>10, <1>13, FS_CardinalityType
<1>15. PICK B : B = a + 1..a + c
  OBVIOUS
<1>16. IsFiniteSet(B) /\ Cardinality(B) = c
  <2>1. a + 1 \in Int /\ a + c \in Int
    BY <1>7, <1>14
  <2>2. IsFiniteSet(B) /\ Cardinality(B) = IF a + 1 > a + c THEN 0 ELSE (a + c) - (a + 1) + 1
    BY <1>15, <2>1, FS_Interval
  <2>3. QED
    BY <1>7, <1>14, <2>2
<1>17. A \in SUBSET B
  <2>1. SUFFICES ASSUME NEW i \in A PROVE i \in B
    OBVIOUS
  <2>2. i \in Nat /\ a < i
    BY <1>6, <1>7, <1>8 DEF Answers
  <2>3. a + 1..i \in SUBSET A
    BY <1>9
  <2>4. Cardinality(a + 1..i) <= c
    BY <1>10, <1>13, <2>3, FS_Subset
  <2>5. Cardinality(a + 1..i) = i - a
    <3>1. a + 1 \in Int /\ i \in Int
      BY <1>7, <2>2
    <3>2. Cardinality(a + 1..i) = IF a + 1 > i THEN 0 ELSE i - (a + 1) + 1
      BY <3>1, FS_Interval
    <3>3. QED
      BY <1>7, <2>2, <3>2
  <2>6. QED
    BY <1>7, <1>14, <1>15, <2>2, <2>4, <2>5
<1>18. A = B
  BY <1>13, <1>16, <1>17, FS_Subset
<1>19. QED
  <2>1. IsFiniteSet(calls) /\ Cardinality(calls) \in Nat
    BY <1>12, <1>13, <1>14
  <2>2. ResultsOf(L, calls) = a + 1..a + Cardinality(calls)
    BY <1>6, <1>12, <1>13, <1>15, <1>18
  <2>3. \A id : id \in calls <=> \E i \in ResultsOf(L, calls) : L[i].id = id
    <3>1. \A id : id \in calls <=> \E i \in A : L[i].id = id
      BY <1>11
    <3>2. QED
      BY <1>6, <3>1
  <2>4. a \in 1..Len(L)
    BY <1>2, <1>7
  <2>5. Run(L, a, calls)
    BY <2>1, <2>2, <2>3, <2>4 DEF Run
  <2>6. QED
    BY <1>6, <2>5

-----------------------------------------------------------------------------
(***************************************************************************)
(* Results follow calls.  First where each message is a turn of its own.   *)
(***************************************************************************)
Has(blocks, types, id) == \E i \in DOMAIN blocks : blocks[i].type \in types /\ blocks[i].of = id
Without(blocks, types) == \A i \in DOMAIN blocks : blocks[i].type \notin types

LEMMA HasCat ==
    ASSUME NEW S, NEW s \in Seq(S), NEW t \in Seq(S), NEW types, NEW id
    PROVE  Has(s \o t, types, id) <=> Has(s, types, id) \/ Has(t, types, id)
<1>1. /\ Len(s) \in Nat /\ Len(t) \in Nat /\ DOMAIN s = 1..Len(s) /\ DOMAIN t = 1..Len(t)
      /\ s \o t \in Seq(S) /\ Len(s \o t) = Len(s) + Len(t)
      /\ \A i \in 1..Len(s) + Len(t) : (s \o t)[i] = IF i <= Len(s) THEN s[i] ELSE t[i - Len(s)]
  BY ConcatProperties, LenProperties
<1>2. PICK u, k, l : u = s \o t /\ k = Len(s) /\ l = Len(t)
  OBVIOUS
<1>3. DOMAIN u = 1..k + l /\ k \in Nat /\ l \in Nat /\ DOMAIN s = 1..k /\ DOMAIN t = 1..l
  BY <1>1, <1>2, LenProperties
<1>4. \A i \in 1..k + l : u[i] = IF i <= k THEN s[i] ELSE t[i - k]
  BY <1>1, <1>2
<1>5. ASSUME Has(u, types, id) PROVE Has(s, types, id) \/ Has(t, types, id)
  <2>1. PICK i \in 1..k + l : u[i].type \in types /\ u[i].of = id
    BY <1>3, <1>5 DEF Has
  <2>2. CASE i <= k
    <3>1. i \in DOMAIN s /\ u[i] = s[i]
      BY <1>3, <1>4, <2>2
    <3>2. QED
      BY <2>1, <3>1 DEF Has
  <2>3. CASE ~(i <= k)
    <3>1. i - k \in DOMAIN t /\ u[i] = t[i - k]
      BY <1>3, <1>4, <2>3
    <3>2. QED
      BY <2>1, <3>1 DEF Has
  <2>4. QED
    BY <2>2, <2>3
<1>6. ASSUME Has(s, types, id) PROVE Has(u, types, id)
  <2>1. PICK i \in 1..k : s[i].type \in types /\ s[i].of = id
    BY <1>3, <1>6 DEF Has
  <2>2. i \in DOMAIN u /\ u[i] = s[i]
    BY <1>3, <1>4
  <2>3. QED
    BY <2>1, <2>2 DEF Has
<1>7. ASSUME Has(t, types, id) PROVE Has(u, types, id)
  <2>1. PICK i \in 1..l : t[i].type \in types /\ t[i].of = id
    BY <1>3, <1>7 DEF Has
  <2>2. i + k \in 1..k + l /\ ~(i + k <= k) /\ (i + k) - k = i
    BY <1>3
  <2>3. i + k \in DOMAIN u /\ u[i + k] = t[i]
    BY <1>3, <1>4, <2>2
  <2>4. QED
    BY <2>1, <2>3 DEF Has
<1>8. QED
  BY <1>2, <1>5, <1>6, <1>7

LEMMA HasNone == ASSUME NEW blocks, NEW types, NEW id, Without(blocks, types) PROVE ~Has(blocks, types, id)
BY DEF Has, Without

LEMMA IdsOfHas ==
    ASSUME NEW turn, NEW types, NEW id
    PROVE  id \in IdsOf(turn, types) <=> Has(turn.blocks, types, id)
<1>1. ASSUME id \in IdsOf(turn, types) PROVE Has(turn.blocks, types, id)
  BY <1>1 DEF IdsOf, Has
<1>2. ASSUME Has(turn.blocks, types, id) PROVE id \in IdsOf(turn, types)
  BY <1>2 DEF IdsOf, Has
<1>3. QED
  BY <1>1, <1>2

LEMMA IdsOfNone == ASSUME NEW turn, NEW types, Without(turn.blocks, types) PROVE IdsOf(turn, types) = {}
<1>1. \A id : id \notin IdsOf(turn, types)
  BY IdsOfHas, HasNone
<1>2. QED
  BY <1>1

LEMMA CallsInHas == ASSUME NEW parts, NEW id PROVE id \in CallsIn(parts) <=> Has(parts, {"tool_use"}, id)
<1>1. ASSUME id \in CallsIn(parts) PROVE Has(parts, {"tool_use"}, id)
  BY <1>1 DEF CallsIn, Has
<1>2. ASSUME Has(parts, {"tool_use"}, id) PROVE id \in CallsIn(parts)
  BY <1>2 DEF CallsIn, Has
<1>3. QED
  BY <1>1, <1>2

(* A turn with one block.                                                  *)
LEMMA OutputFacts ==
    ASSUME NEW m, NEW type, NEW b, b = ToolOutput(type, m)
    PROVE  b.type = type /\ b.of = m.id /\ b.cached = m.blocks[1].cached
<1>1. PICK o, c : o = m.id /\ c = m.blocks[1].cached
  OBVIOUS
<1>2. b = [type |-> type, of |-> o, cached |-> c]
  BY <1>1 DEF ToolOutput, Block
<1>3. QED
  BY <1>1, <1>2

LEMMA ResultTurn ==
    ASSUME NEW type \in ResultTypes, NEW m, NEW turn, turn.blocks = <<ToolOutput(type, m)>>
    PROVE  IdsOf(turn, ResultTypes) = {m.id} /\ IdsOf(turn, CallTypes) = {}
<1>1. PICK b, id : b = ToolOutput(type, m) /\ id = m.id
  OBVIOUS
<1>2. b.type = type /\ b.of = id
  BY <1>1, OutputFacts
<1>3. PICK s : s = <<b>>
  OBVIOUS
<1>4. DOMAIN s = {1} /\ s[1] = b
  <2>1. DOMAIN s = 1..1 /\ s[1] = b
    BY <1>3
  <2>2. QED
    BY <2>1
<1>5. turn.blocks = s
  BY <1>1, <1>3
<1>6. \A x : Has(s, ResultTypes, x) <=> x = id
  BY <1>2, <1>4 DEF Has
<1>7. \A x : x \in IdsOf(turn, ResultTypes) <=> x = id
  BY <1>5, <1>6, IdsOfHas
<1>8. type \notin CallTypes
  BY DEF ResultTypes, CallTypes
<1>9. Without(s, CallTypes)
  BY <1>2, <1>4, <1>8 DEF Without
<1>10. IdsOf(turn, CallTypes) = {}
  BY <1>5, <1>9, IdsOfNone
<1>11. IdsOf(turn, ResultTypes) = {id}
  <2> DEFINE S == IdsOf(turn, ResultTypes)
  <2>1. \A x : x \in S <=> x = id
    BY <1>7
  <2> HIDE DEF S
  <2>2. S = {id}
    BY <2>1
  <2> QED
    BY <2>2 DEF S
<1>12. QED
  BY <1>1, <1>10, <1>11

LEMMA CallsBlocks ==
    ASSUME NEW m \in MessageType, NEW type \in BlockTypes, NEW bs, bs = Calls(m, type)
    PROVE  /\ bs \in Seq(BlockType) /\ DOMAIN bs = DOMAIN m.tool_calls
           /\ \A i \in DOMAIN bs : bs[i].type = type /\ bs[i].of = m.tool_calls[i]
<1>1. m.tool_calls \in Seq(Nat)
  BY MessageFields
<1>2. PICK l : l = Len(m.tool_calls)
  OBVIOUS
<1>3. DOMAIN m.tool_calls = 1..l /\ l \in Nat /\ \A i \in 1..l : m.tool_calls[i] \in Nat
  BY <1>1, <1>2
<1>4. bs = [i \in 1..l |-> Block(type, m.tool_calls[i])]
  BY <1>3 DEF Calls, Each
<1>5. ASSUME NEW i \in 1..l
      PROVE  bs[i] \in BlockType /\ bs[i].type = type /\ bs[i].of = m.tool_calls[i]
  <2>1. PICK c : c = m.tool_calls[i]
    OBVIOUS
  <2>2. bs[i] = Block(type, c) /\ c \in Nat
    BY <1>3, <1>4, <2>1
  <2>3. Block(type, c) \in BlockType
    BY <2>2, BlockFacts
  <2>4. Block(type, c).type = type /\ Block(type, c).of = c
    BY BlockFacts
  <2>5. QED
    BY <2>1, <2>2, <2>3, <2>4
<1>6. bs \in [1..l -> BlockType]
  BY <1>4, <1>5
<1>7. QED
  BY <1>3, <1>4, <1>5, <1>6

(* What turns made of the list L hold of results and calls.                *)
TurnByTurn(turns, L, z, rs) ==
    /\ DOMAIN turns = 1..Len(L) /\ Len(turns) = Len(L)
    /\ \A k \in 1..Len(L) : IdsOf(turns[k], ResultTypes) = IF L[k].role = "tool" THEN {L[k].id} ELSE {}
    /\ \A r \in 1..Len(rs) : IdsOf(turns[z[r]], CallTypes) = CallsIn(rs[r].parts)
    /\ \A k \in 1..Len(L) : L[k].role # "assistant" => IdsOf(turns[k], CallTypes) = {}

InPlace(turns) ==
    /\ \A i \in DOMAIN turns : \A id \in IdsOf(turns[i], ResultTypes) :
          \E j \in 1..i - 1 : id \in IdsOf(turns[j], CallTypes)
    /\ \A j \in DOMAIN turns :
          IdsOf(turns[j], CallTypes) # {} =>
            /\ j + Cardinality(IdsOf(turns[j], CallTypes)) <= Len(turns)
            /\ UNION {IdsOf(turns[i], ResultTypes) : i \in j + 1..j + Cardinality(IdsOf(turns[j], CallTypes))}
                 = IdsOf(turns[j], CallTypes)

LEMMA TurnsInPlace ==
    ASSUME NEW L, ListOK(L), \A k \in 1..Len(L) : L[k].role # "cache_point",
           NEW rs, RepliesOK(rs), NEW z, Follows(z, L, rs, Len(rs)),
           NEW turns, TurnByTurn(turns, L, z, rs)
    PROVE  InPlace(turns)
<1>1. PICK n, m : n = Len(L) /\ m = Len(rs)
  OBVIOUS
<1>2. DOMAIN L = 1..n /\ n \in Nat
  BY <1>1 DEF ListOK
<1>3. /\ DOMAIN turns = 1..n /\ Len(turns) = n
      /\ \A k \in 1..n : IdsOf(turns[k], ResultTypes) = IF L[k].role = "tool" THEN {L[k].id} ELSE {}
      /\ \A r \in 1..m : IdsOf(turns[z[r]], CallTypes) = CallsIn(rs[r].parts)
      /\ \A k \in 1..n : L[k].role # "assistant" => IdsOf(turns[k], CallTypes) = {}
  BY <1>1 DEF TurnByTurn
<1>4. Lists(z, m, Assistants(L))
  BY <1>1 DEF Follows, Said
<1>5. \A r \in 1..m : z[r] \in 1..n
  BY <1>2, <1>4 DEF Lists, Assistants
<1>6. ASSUME NEW i \in DOMAIN turns, NEW id \in IdsOf(turns[i], ResultTypes)
      PROVE  \E j \in 1..i - 1 : id \in IdsOf(turns[j], CallTypes)
  <2>1. i \in 1..n
    BY <1>3
  <2>2. L[i].role = "tool" /\ id = L[i].id
    BY <1>3, <1>6, <2>1
  <2>3. i \in Results(L)
    BY <1>2, <2>1, <2>2 DEF Results
  <2>4. PICK r \in 1..m : Answers(z, L, rs, r, i)
    BY <1>1, <2>3 DEF Follows, Answering
  <2>5. z[r] < i /\ id \in CallsIn(rs[r].parts)
    BY <2>2, <2>4 DEF Answers
  <2>6. z[r] \in 1..i - 1
    BY <1>2, <1>5, <2>1, <2>5
  <2>7. QED
    BY <1>3, <2>5, <2>6
<1>7. ASSUME NEW j \in DOMAIN turns, NEW calls, calls = IdsOf(turns[j], CallTypes), calls # {}
      PROVE  /\ j + Cardinality(calls) <= Len(turns)
             /\ UNION {IdsOf(turns[i], ResultTypes) : i \in j + 1..j + Cardinality(calls)} = calls
  <2>1. j \in 1..n /\ j \in Assistants(L)
    BY <1>2, <1>3, <1>7 DEF Assistants
  <2>2. PICK r \in 1..m : z[r] = j
    BY <1>4, <2>1 DEF Lists
  <2>3. calls = CallsIn(rs[r].parts)
    BY <1>3, <1>7, <2>2
  <2>4. PICK c, R : c = Cardinality(calls) /\ R = ResultsOf(L, calls)
    OBVIOUS
  <2>5. Run(L, j, calls)
    <3>1. r \in 1..Len(rs)
      BY <1>1
    <3>2. Run(L, z[r], calls)
      BY <2>3, <3>1, ResultsRun
    <3>3. QED
      BY <2>2, <3>2
  <2>6. R = j + 1..j + c /\ c \in Nat /\ {L[i].id : i \in R} = calls /\ j \in Nat
    <3>1. R = j + 1..j + c /\ c \in Nat /\ j \in Nat
      BY <1>2, <2>1, <2>4, <2>5 DEF Run
    <3>2. \A id : id \in calls <=> \E i \in ResultsOf(L, calls) : L[i].id = id
      BY <2>5 DEF Run
    <3>3. \A id : id \in calls <=> \E i \in R : L[i].id = id
      BY <2>4, <3>2
    <3>4. {L[i].id : i \in R} = calls
      BY <3>3
    <3>5. QED
      BY <3>1, <3>4
  <2>7. R \in SUBSET (1..n) /\ \A i \in R : L[i].role = "tool"
    BY <1>2, <2>4 DEF ResultsOf, Results
  <2>8. R # {}
    BY <1>7, <2>6
  <2>9. j + c <= n
    <3>1. j + c \in R
      BY <2>6, <2>8
    <3>2. QED
      BY <1>2, <2>6, <2>7, <3>1
  <2>10. \A i \in R : IdsOf(turns[i], ResultTypes) = {L[i].id}
    BY <1>3, <2>7
  <2>11. UNION {IdsOf(turns[i], ResultTypes) : i \in R} = {L[i].id : i \in R}
    <3>1. \A x : x \in UNION {IdsOf(turns[i], ResultTypes) : i \in R}
                      <=> \E i \in R : x \in IdsOf(turns[i], ResultTypes)
      OBVIOUS
    <3>2. \A x : x \in {L[i].id : i \in R} <=> \E i \in R : x = L[i].id
      OBVIOUS
    <3>3. \A x : \A i \in R : x \in IdsOf(turns[i], ResultTypes) <=> x = L[i].id
      BY <2>10
    <3>4. PICK U, V : U = UNION {IdsOf(turns[i], ResultTypes) : i \in R} /\ V = {L[i].id : i \in R}
      OBVIOUS
    <3>5. \A x : x \in U <=> x \in V
      BY <3>1, <3>2, <3>3, <3>4
    <3>6. U = V
      BY <3>5
    <3>7. QED
      BY <3>4, <3>6
  <2>12. QED
    BY <1>3, <2>4, <2>6, <2>9, <2>11
<1>8. ASSUME NEW j \in DOMAIN turns, IdsOf(turns[j], CallTypes) # {}
      PROVE  /\ j + Cardinality(IdsOf(turns[j], CallTypes)) <= Len(turns)
             /\ UNION {IdsOf(turns[i], ResultTypes) : i \in j + 1..j + Cardinality(IdsOf(turns[j], CallTypes))}
                  = IdsOf(turns[j], CallTypes)
  BY <1>7, <1>8
<1>9. QED
  BY <1>6, <1>8 DEF InPlace

(* Plain content holds neither calls nor results.                          *)
LEMMA PlainWithout ==
    ASSUME NEW m \in MessageType, Plain(m), m.role # "assistant"
    PROVE  m.tool_calls = <<>> /\ Without(m.blocks, ResultTypes) /\ Without(m.blocks, CallTypes)
<1>1. DOMAIN m.blocks = 1..Len(m.blocks)
  BY MessageFields
<1>2. \A k \in DOMAIN m.blocks : m.blocks[k].type \in {"text", "image_url"}
  BY <1>1 DEF Plain
<1>3. QED
  BY <1>2 DEF Plain, Without, ResultTypes, CallTypes

(* OpenAI.                                                                 *)
ChatTurn(m) ==
    Turn(m.role, IF m.role = "tool" THEN <<ToolOutput("tool_result", m)>> ELSE m.blocks \o Calls(m, "tool_use"))

LEMMA ChatTurns ==
    ASSUME NEW L \in Seq(MessageType), NEW turns, turns = ChatBody(L).turns
    PROVE  DOMAIN turns = 1..Len(L) /\ Len(turns) = Len(L) /\ \A k \in 1..Len(L) : turns[k] = ChatTurn(L[k])
<1>1. DOMAIN L = 1..Len(L) /\ Len(L) \in Nat
  OBVIOUS
<1>2. turns = [k \in DOMAIN L |-> ChatTurn(L[k])]
  BY DEF ChatBody, Body, Each, ChatTurn
<1>3. turns = [k \in 1..Len(L) |-> ChatTurn(L[k])]
  BY <1>1, <1>2
<1>4. QED
  BY <1>1, <1>3, LenProperties

LEMMA ChatTurnIds ==
    ASSUME NEW m \in MessageType, Plain(m), NEW turn, turn = ChatTurn(m)
    PROVE  /\ m.role = "tool" => IdsOf(turn, ResultTypes) = {m.id} /\ IdsOf(turn, CallTypes) = {}
           /\ m.role \notin {"tool", "assistant"} => IdsOf(turn, ResultTypes) = {} /\ IdsOf(turn, CallTypes) = {}
<1>1. CASE m.role = "tool"
  <2>1. turn.blocks = <<ToolOutput("tool_result", m)>>
    BY <1>1 DEF ChatTurn, Turn
  <2>2. "tool_result" \in ResultTypes
    BY DEF ResultTypes
  <2>3. IdsOf(turn, ResultTypes) = {m.id} /\ IdsOf(turn, CallTypes) = {}
    BY <2>1, <2>2, ResultTurn
  <2>4. QED
    BY <1>1, <2>3
<1>2. CASE m.role \notin {"tool", "assistant"}
  <2>1. PICK bs, cs : bs = m.blocks /\ cs = Calls(m, "tool_use")
    OBVIOUS
  <2>2. turn.blocks = bs \o cs
    BY <1>2, <2>1 DEF ChatTurn, Turn
  <2>3. m.tool_calls = <<>> /\ Without(bs, ResultTypes) /\ Without(bs, CallTypes)
    BY <1>2, <2>1, PlainWithout
  <2>4. DOMAIN m.tool_calls = {}
    BY <2>3
  <2>5. "tool_use" \in BlockTypes
    BY DEF BlockTypes, PartTypes
  <2>6. /\ cs \in Seq(BlockType) /\ DOMAIN cs = DOMAIN m.tool_calls
        /\ \A i \in DOMAIN cs : cs[i].type = "tool_use" /\ cs[i].of = m.tool_calls[i]
    BY <2>1, <2>5, CallsBlocks
  <2>7. Without(cs, ResultTypes) /\ Without(cs, CallTypes)
    BY <2>4, <2>6 DEF Without
  <2>8. bs \in Seq(BlockType)
    BY <2>1, MessageFields
  <2>9. ASSUME NEW types \in {ResultTypes, CallTypes} PROVE IdsOf(turn, types) = {}
    <3>1. \A id : Has(bs \o cs, types, id) <=> Has(bs, types, id) \/ Has(cs, types, id)
      BY <2>6, <2>8, HasCat
    <3>2. \A id : ~Has(bs, types, id) /\ ~Has(cs, types, id)
      BY <2>3, <2>7, HasNone
    <3>3. \A id : id \notin IdsOf(turn, types)
      BY <2>2, <3>1, <3>2, IdsOfHas
    <3>4. QED
      BY <3>3
  <2>10. QED
    BY <1>2, <2>9
<1>3. CASE m.role = "assistant"
  BY <1>3
<1>4. QED
  BY <1>1, <1>2, <1>3

LEMMA ChatReplyIds ==
    ASSUME NEW parts \in Seq(PartType), NEW m \in MessageType, Like(m, from_response("openai", parts)),
           NEW turn, turn = ChatTurn(m)
    PROVE  IdsOf(turn, ResultTypes) = {} /\ IdsOf(turn, CallTypes) = CallsIn(parts)
<1>1. PICK f : f = from_response("openai", parts)
  OBVIOUS
<1>2. /\ f \in MessageType /\ f.role = "assistant" /\ f.id = 0
      /\ f.blocks = Texts(parts)
      /\ f.tool_calls = [i \in DOMAIN CallParts(parts) |-> CallParts(parts)[i].of]
      /\ f.tool_calls \in Seq(Nat)
  <2>1. "openai" \notin {"anthropic", "google", "openai-responses"}
    OBVIOUS
  <2>2. QED
    BY <1>1, <2>1, from_responseOther
<1>3. PICK calls, bs, cs : calls = CallParts(parts) /\ bs = m.blocks /\ cs = Calls(m, "tool_use")
  OBVIOUS
<1>4. m.role = "assistant" /\ m.tool_calls = [i \in DOMAIN calls |-> calls[i].of]
  BY <1>1, <1>2, <1>3 DEF Like
<1>5. turn.blocks = bs \o cs
  BY <1>3, <1>4 DEF ChatTurn, Turn
<1>6. bs \in Seq(BlockType) /\ DOMAIN bs = 1..Len(bs)
  BY <1>3, MessageFields
<1>7. \A i \in DOMAIN bs : bs[i].type = "text"
  <2>1. PICK texts : texts = Texts(parts)
    OBVIOUS
  <2>2. texts \in Seq(PartType) /\ \A k \in DOMAIN texts : texts[k].type \in {"text"}
    BY <2>1, OfTypeIn DEF Texts
  <2>3. DOMAIN texts = 1..Len(texts)
    BY <2>2
  <2>4. Len(bs) = Len(texts) /\ \A i \in 1..Len(texts) : bs[i].type = texts[i].type
    BY <1>1, <1>2, <1>3, <2>1 DEF Like
  <2>5. QED
    BY <1>6, <2>2, <2>3, <2>4
<1>8. Without(bs, ResultTypes) /\ Without(bs, CallTypes)
  BY <1>7 DEF Without, ResultTypes, CallTypes
<1>9. "tool_use" \in BlockTypes
  BY DEF BlockTypes, PartTypes
<1>10. /\ cs \in Seq(BlockType) /\ DOMAIN cs = DOMAIN m.tool_calls
       /\ \A i \in DOMAIN cs : cs[i].type = "tool_use" /\ cs[i].of = m.tool_calls[i]
  BY <1>3, <1>9, CallsBlocks
<1>11. DOMAIN cs = DOMAIN calls /\ \A i \in DOMAIN cs : cs[i].of = calls[i].of
  BY <1>4, <1>10
<1>12. Without(cs, ResultTypes)
  BY <1>10 DEF Without, ResultTypes
<1>13. \A id : Has(cs, CallTypes, id) <=> \E i \in DOMAIN calls : calls[i].of = id
  BY <1>10, <1>11 DEF Has, CallTypes
<1>14. \A id : (\E i \in DOMAIN calls : calls[i].of = id) <=> id \in CallsIn(parts)
  <2>1. \A x : (\E k \in DOMAIN calls : calls[k] = x) <=> \E i \in DOMAIN parts : parts[i] = x /\ x.type \in {"tool_use"}
    <3>1. \A x : (\E k \in DOMAIN OfType(parts, {"tool_use"}) : OfType(parts, {"tool_use"})[k] = x)
                      <=> \E i \in DOMAIN parts : parts[i] = x /\ x.type \in {"tool_use"}
      BY OfTypeIn
    <3>2. calls = OfType(parts, {"tool_use"})
      BY <1>3 DEF CallParts
    <3>3. QED
      BY <3>1, <3>2
  <2>2. ASSUME NEW id PROVE (\E i \in DOMAIN calls : calls[i].of = id) <=> Has(parts, {"tool_use"}, id)
    BY <2>1 DEF Has
  <2>3. QED
    BY <2>2, CallsInHas
<1>15. \A types, id : Has(bs \o cs, types, id) <=> Has(bs, types, id) \/ Has(cs, types, id)
  BY <1>6, <1>10, HasCat
<1>16. \A id : id \notin IdsOf(turn, ResultTypes)
  BY <1>5, <1>8, <1>12, <1>15, HasNone, IdsOfHas
<1>17. \A id : id \in IdsOf(turn, CallTypes) <=> id \in CallsIn(parts)
  <2>1. SUFFICES ASSUME NEW id PROVE id \in IdsOf(turn, CallTypes) <=> id \in CallsIn(parts)
    OBVIOUS
  <2>2. id \in IdsOf(turn, CallTypes) <=> Has(bs \o cs, CallTypes, id)
    BY <1>5, IdsOfHas
  <2>3. ~Has(bs, CallTypes, id)
    BY <1>8, HasNone
  <2>4. QED
    BY <1>13, <1>14, <1>15, <2>2, <2>3
<1>18. QED
  BY <1>16, <1>17

(* A list from which replies can be read: each is where z says it is.      *)
RepliesIn(L, z, rs) ==
    /\ \A r \in 1..Len(rs) : /\ z[r] \in 1..Len(L) /\ L[z[r]] \in MessageType /\ L[z[r]].role = "assistant"
                             /\ rs[r].parts \in Seq(PartType)
                             /\ Like(L[z[r]], from_response(rs[r].by, rs[r].parts))
    /\ \A k \in 1..Len(L) : L[k] \in MessageType /\ Plain(L[k])
    /\ \A k \in 1..Len(L) : L[k].role = "assistant" => \E r \in 1..Len(rs) : z[r] = k

LEMMA RepliesAt ==
    ASSUME NEW L, ListOK(L), NEW rs, RepliesOK(rs), NEW z, Follows(z, L, rs, Len(rs))
    PROVE  RepliesIn(L, z, rs)
<1>1. L \in Seq(MessageType) /\ DOMAIN L = 1..Len(L) /\ \A k \in 1..Len(L) : Plain(L[k])
  BY DEF ListOK
<1>2. \A k \in 1..Len(L) : L[k] \in MessageType
  BY <1>1
<1>3. Lists(z, Len(rs), Assistants(L))
  BY DEF Follows, Said
<1>4. \A r \in 1..Len(rs) : z[r] \in Assistants(L)
  BY <1>3 DEF Lists
<1>5. \A r \in 1..Len(rs) : z[r] \in 1..Len(L) /\ L[z[r]].role = "assistant"
  BY <1>1, <1>4 DEF Assistants
<1>6. \A k \in 1..Len(L) : L[k].role = "assistant" => k \in Assistants(L)
  BY <1>1 DEF Assistants
<1>7. \A k \in 1..Len(L) : L[k].role = "assistant" => \E r \in 1..Len(rs) : z[r] = k
  BY <1>3, <1>6 DEF Lists
<1>8. \A r \in 1..Len(rs) : rs[r].parts \in Seq(PartType)
  BY ReplyFacts
<1>9. \A r \in 1..Len(rs) : Like(L[z[r]], from_response(rs[r].by, rs[r].parts))
  BY DEF Follows, Said
<1>10. QED
  BY <1>1, <1>2, <1>5, <1>7, <1>8, <1>9 DEF RepliesIn

LEMMA ChatTurnByTurn ==
    ASSUME NEW L, ListOK(L), NEW rs, RepliesOK(rs), NEW z, Follows(z, L, rs, Len(rs)),
           \A r \in 1..Len(rs) : rs[r].by = "openai", NEW turns, turns = ChatBody(L).turns
    PROVE  TurnByTurn(turns, L, z, rs)
<1>1. /\ \A r \in 1..Len(rs) : /\ z[r] \in 1..Len(L) /\ L[z[r]] \in MessageType /\ L[z[r]].role = "assistant"
                               /\ rs[r].parts \in Seq(PartType)
                               /\ Like(L[z[r]], from_response(rs[r].by, rs[r].parts))
      /\ \A k \in 1..Len(L) : L[k] \in MessageType /\ Plain(L[k])
      /\ \A k \in 1..Len(L) : L[k].role = "assistant" => \E r \in 1..Len(rs) : z[r] = k
  <2>1. RepliesIn(L, z, rs)
    BY RepliesAt
  <2>2. QED
    BY <2>1 DEF RepliesIn
<1>2. L \in Seq(MessageType)
  BY DEF ListOK
<1>3. DOMAIN turns = 1..Len(L) /\ Len(turns) = Len(L) /\ \A k \in 1..Len(L) : turns[k] = ChatTurn(L[k])
  BY <1>2, ChatTurns
<1>4. ASSUME NEW r \in 1..Len(rs)
      PROVE  IdsOf(turns[z[r]], ResultTypes) = {} /\ IdsOf(turns[z[r]], CallTypes) = CallsIn(rs[r].parts)
  <2>1. PICK m, p, t : m = L[z[r]] /\ p = rs[r].parts /\ t = turns[z[r]]
    OBVIOUS
  <2>2. /\ m \in MessageType /\ p \in Seq(PartType) /\ t = ChatTurn(m) /\ rs[r].by = "openai"
        /\ Like(m, from_response(rs[r].by, p))
    BY <1>1, <1>3, <2>1
  <2>3. Like(m, from_response("openai", p))
    BY <2>2
  <2>4. IdsOf(t, ResultTypes) = {} /\ IdsOf(t, CallTypes) = CallsIn(p)
    BY <2>2, <2>3, ChatReplyIds
  <2>5. QED
    BY <2>1, <2>4
<1>5. ASSUME NEW k \in 1..Len(L)
      PROVE  /\ IdsOf(turns[k], ResultTypes) = IF L[k].role = "tool" THEN {L[k].id} ELSE {}
             /\ L[k].role # "assistant" => IdsOf(turns[k], CallTypes) = {}
  <2>1. PICK m, t : m = L[k] /\ t = turns[k]
    OBVIOUS
  <2>2. m \in MessageType /\ Plain(m) /\ t = ChatTurn(m)
    BY <1>1, <1>3, <2>1
  <2>3. /\ m.role = "tool" => IdsOf(t, ResultTypes) = {m.id} /\ IdsOf(t, CallTypes) = {}
        /\ m.role \notin {"tool", "assistant"} => IdsOf(t, ResultTypes) = {} /\ IdsOf(t, CallTypes) = {}
    BY <2>2, ChatTurnIds
  <2>4. CASE m.role = "assistant"
    <3>1. PICK r \in 1..Len(rs) : z[r] = k
      BY <1>1, <2>1, <2>4
    <3>2. IdsOf(t, ResultTypes) = {}
      BY <1>4, <2>1, <3>1
    <3>3. QED
      BY <2>1, <2>4, <3>2
  <2>5. CASE m.role # "assistant"
    BY <2>1, <2>3, <2>5
  <2>6. QED
    BY <2>4, <2>5
<1>6. QED
  BY <1>3, <1>4, <1>5 DEF TurnByTurn

(* Google.                                                                 *)
WireBlockTypes == BlockTypes \cup {"inline_data", "printed", "tool_result"}
PartLike == [type : WireBlockTypes, of : Nat, cached : BOOLEAN]

LEMMA PartLikeBlock ==
    ASSUME NEW type \in WireBlockTypes, NEW of \in Nat, NEW c, c = Block(type, of)
    PROVE  c \in PartLike /\ c.type = type /\ c.of = of
BY DEF Block, PartLike

LEMMA GooglePart ==
    ASSUME NEW b \in BlockType, NEW c, c = ConvertContentToParts(b)
    PROVE  /\ c \in PartLike /\ c.of = b.of
           /\ c.type = CASE b.type = "text" -> "text"
                         [] b.type = "image_url" -> "inline_data"
                         [] b.type \in {"functionCall", "thought"} -> b.type
                         [] OTHER -> "printed"
<1>1. b.type \in WireBlockTypes /\ b.of \in Nat /\ b \in PartLike
  <2>1. PICK type \in BlockTypes, of \in Nat, cached \in BOOLEAN : b = [type |-> type, of |-> of, cached |-> cached]
    BY DEF BlockType
  <2>2. type \in WireBlockTypes
    BY DEF WireBlockTypes
  <2>3. QED
    BY <2>1, <2>2 DEF PartLike
<1>2. PICK t, o : t = b.type /\ o = b.of
  OBVIOUS
<1>3. CASE t = "text"
  <2>1. c = Block("text", o)
    BY <1>2, <1>3 DEF ConvertContentToParts
  <2>2. "text" \in WireBlockTypes /\ o \in Nat
    BY <1>1, <1>2 DEF WireBlockTypes, BlockTypes, PartTypes
  <2>3. c \in PartLike /\ c.type = "text" /\ c.of = o
    BY <2>1, <2>2, PartLikeBlock
  <2>4. QED
    BY <1>2, <1>3, <2>3
<1>4. CASE t = "image_url"
  <2>1. c = Block("inline_data", o)
    BY <1>2, <1>4 DEF ConvertContentToParts
  <2>2. "inline_data" \in WireBlockTypes /\ o \in Nat
    BY <1>1, <1>2 DEF WireBlockTypes, BlockTypes, PartTypes
  <2>3. c \in PartLike /\ c.type = "inline_data" /\ c.of = o
    BY <2>1, <2>2, PartLikeBlock
  <2>4. QED
    BY <1>2, <1>4, <2>3
<1>5. CASE t \in {"functionCall", "thought"}
  <2>1. c = b
    BY <1>2, <1>5 DEF ConvertContentToParts
  <2>2. QED
    BY <1>1, <1>2, <1>5, <2>1
<1>6. CASE t \notin {"text", "image_url", "functionCall", "thought"}
  <2>1. c = [b EXCEPT !.type = "printed"]
    BY <1>2, <1>6 DEF ConvertContentToParts
  <2>2. "printed" \in WireBlockTypes
    BY DEF WireBlockTypes
  <2>3. c \in PartLike /\ c.type = "printed" /\ c.of = o
    BY <1>1, <1>2, <2>1, <2>2 DEF PartLike
  <2>4. QED
    BY <1>2, <1>6, <2>3
<1>7. QED
  BY <1>3, <1>4, <1>5, <1>6

LEMMA GoogleTurnBlocks ==
    ASSUME NEW m \in MessageType, m.role # "tool", m.tool_calls = <<>>, NEW turn, turn = GoogleTurn(m)
    PROVE  /\ DOMAIN turn.blocks = 1..Len(m.blocks) /\ Len(turn.blocks) = Len(m.blocks)
           /\ turn.blocks \in Seq(PartLike)
           /\ \A i \in 1..Len(m.blocks) : turn.blocks[i] = ConvertContentToParts(m.blocks[i])
<1>1. m.blocks \in Seq(BlockType) /\ Len(m.blocks) \in Nat /\ DOMAIN m.blocks = 1..Len(m.blocks)
  BY MessageFields
<1>2. PICK l, bs, cs : /\ l = Len(m.blocks) /\ bs = [i \in 1..l |-> ConvertContentToParts(m.blocks[i])]
                       /\ cs = Each(m.tool_calls, LAMBDA id : Block("functionCall", NoId))
  OBVIOUS
<1>3. turn.blocks = bs \o cs
  BY <1>1, <1>2 DEF GoogleTurn, Turn, Each
<1>4. cs = <<>>
  BY <1>2 DEF Each
<1>5. \A i \in 1..l : m.blocks[i] \in BlockType
  BY <1>1, <1>2
<1>6. \A i \in 1..l : ConvertContentToParts(m.blocks[i]) \in PartLike
  BY <1>5, GooglePart
<1>7. bs \in Seq(PartLike) /\ Len(bs) = l
  BY <1>1, <1>2, <1>6
<1>8. turn.blocks = bs
  BY <1>3, <1>4, <1>7
<1>9. QED
  BY <1>1, <1>2, <1>7, <1>8

(* A turn that has the parts of a reply, renamed.                          *)
LEMMA ReplyTurnIds ==
    ASSUME NEW parts, NEW turn, DOMAIN turn.blocks = DOMAIN parts,
           \A i \in DOMAIN parts : /\ turn.blocks[i].of = parts[i].of
                                   /\ turn.blocks[i].type \in CallTypes <=> parts[i].type = "tool_use"
                                   /\ turn.blocks[i].type \notin ResultTypes
    PROVE  IdsOf(turn, ResultTypes) = {} /\ IdsOf(turn, CallTypes) = CallsIn(parts)
<1>1. PICK bs : bs = turn.blocks
  OBVIOUS
<1>2. Without(bs, ResultTypes)
  BY <1>1 DEF Without
<1>3. \A id : Has(bs, CallTypes, id) <=> Has(parts, {"tool_use"}, id)
  BY <1>1 DEF Has
<1>4. \A id : id \in IdsOf(turn, CallTypes) <=> id \in CallsIn(parts)
  <2>1. SUFFICES ASSUME NEW id PROVE id \in IdsOf(turn, CallTypes) <=> id \in CallsIn(parts)
    OBVIOUS
  <2>2. id \in IdsOf(turn, CallTypes) <=> Has(bs, CallTypes, id)
    BY <1>1, IdsOfHas
  <2>3. id \in CallsIn(parts) <=> Has(parts, {"tool_use"}, id)
    BY CallsInHas
  <2>4. QED
    BY <1>3, <2>2, <2>3
<1>5. IdsOf(turn, ResultTypes) = {}
  BY <1>1, <1>2, IdsOfNone
<1>6. QED
  BY <1>4, <1>5

LEMMA GoogleTurns ==
    ASSUME NEW L \in Seq(MessageType), NEW turns, turns = Each(L, GoogleTurn)
    PROVE  DOMAIN turns = 1..Len(L) /\ Len(turns) = Len(L) /\ \A k \in 1..Len(L) : turns[k] = GoogleTurn(L[k])
<1>1. DOMAIN L = 1..Len(L) /\ Len(L) \in Nat
  OBVIOUS
<1>2. turns = [k \in 1..Len(L) |-> GoogleTurn(L[k])]
  BY <1>1 DEF Each
<1>3. QED
  BY <1>1, <1>2, LenProperties

LEMMA GoogleTurnIds ==
    ASSUME NEW m \in MessageType, Plain(m), NEW turn, turn = GoogleTurn(m)
    PROVE  /\ m.role = "tool" => IdsOf(turn, ResultTypes) = {m.id} /\ IdsOf(turn, CallTypes) = {}
           /\ m.role \notin {"tool", "assistant"} => IdsOf(turn, ResultTypes) = {} /\ IdsOf(turn, CallTypes) = {}
<1>1. CASE m.role = "tool"
  <2>1. turn.blocks = <<ToolOutput("functionResponse", m)>>
    BY <1>1 DEF GoogleTurn, Turn
  <2>2. "functionResponse" \in ResultTypes
    BY DEF ResultTypes
  <2>3. IdsOf(turn, ResultTypes) = {m.id} /\ IdsOf(turn, CallTypes) = {}
    BY <2>1, <2>2, ResultTurn
  <2>4. QED
    BY <1>1, <2>3
<1>2. CASE m.role \notin {"tool", "assistant"}
  <2>1. m.role # "tool" /\ m.tool_calls = <<>>
    BY <1>2, PlainWithout
  <2>2. PICK bs : bs = turn.blocks
    OBVIOUS
  <2>3. DOMAIN bs = 1..Len(m.blocks) /\ \A i \in 1..Len(m.blocks) : bs[i] = ConvertContentToParts(m.blocks[i])
    <3>1. /\ DOMAIN turn.blocks = 1..Len(m.blocks) /\ Len(turn.blocks) = Len(m.blocks)
          /\ turn.blocks \in Seq(PartLike)
          /\ \A i \in 1..Len(m.blocks) : turn.blocks[i] = ConvertContentToParts(m.blocks[i])
      BY <2>1, GoogleTurnBlocks
    <3>2. QED
      BY <2>2, <3>1
  <2>4. \A i \in 1..Len(m.blocks) : bs[i].type \in {"text", "inline_data"}
    <3>1. SUFFICES ASSUME NEW i \in 1..Len(m.blocks) PROVE bs[i].type \in {"text", "inline_data"}
      OBVIOUS
    <3>2. PICK b : b = m.blocks[i]
      OBVIOUS
    <3>3. b \in BlockType /\ b.type \in {"text", "image_url"}
      BY <1>2, <3>2, MessageFields DEF Plain
    <3>4. bs[i] = ConvertContentToParts(b)
      BY <2>3, <3>2
    <3>5. /\ bs[i] \in PartLike /\ bs[i].of = b.of
          /\ bs[i].type = CASE b.type = "text" -> "text"
                            [] b.type = "image_url" -> "inline_data"
                            [] b.type \in {"functionCall", "thought"} -> b.type
                            [] OTHER -> "printed"
      BY <3>3, <3>4, GooglePart
    <3>6. QED
      BY <3>3, <3>5
  <2>5. Without(bs, ResultTypes) /\ Without(bs, CallTypes)
    BY <2>3, <2>4 DEF Without, ResultTypes, CallTypes
  <2>6. QED
    BY <1>2, <2>2, <2>5, IdsOfNone
<1>3. CASE m.role = "assistant"
  BY <1>3
<1>4. QED
  BY <1>1, <1>2, <1>3

(* The blocks of a reply on the wire.                                      *)
LEMMA GoogleReply ==
    ASSUME NEW parts \in Seq(PartType), NEW m \in MessageType, Like(m, from_response("google", parts)),
           NEW turn, turn = GoogleTurn(m)
    PROVE  /\ turn.role = "model"
           /\ turn.blocks \in Seq(PartLike) /\ Len(turn.blocks) = Len(parts)
           /\ DOMAIN turn.blocks = DOMAIN parts
           /\ \A i \in DOMAIN parts : /\ turn.blocks[i].of = parts[i].of
                                      /\ turn.blocks[i].type = CASE parts[i].type = "text" -> "printed"
                                                                 [] parts[i].type = "thinking" -> "thought"
                                                                 [] OTHER -> "functionCall"
<1>1. PICK f : f = from_response("google", parts)
  OBVIOUS
<1>2. /\ f \in MessageType /\ f.role = "assistant" /\ f.id = 0 /\ f.tool_calls = <<>>
      /\ Len(f.blocks) = Len(parts)
      /\ \A i \in 1..Len(parts) : f.blocks[i] = Block(Google[parts[i].type], parts[i].of)
  BY <1>1, from_responseGoogle
<1>3. m.role = "assistant" /\ m.tool_calls = <<>> /\ Len(m.blocks) = Len(parts)
  BY <1>1, <1>2 DEF Like
<1>4. turn.role = "model"
  BY <1>3 DEF GoogleTurn, Turn
<1>5. DOMAIN parts = 1..Len(parts)
  OBVIOUS
<1>6. PICK bs : bs = turn.blocks
  OBVIOUS
<1>7. /\ DOMAIN bs = 1..Len(parts) /\ Len(bs) = Len(parts) /\ bs \in Seq(PartLike)
      /\ \A i \in 1..Len(parts) : bs[i] = ConvertContentToParts(m.blocks[i])
  <2>1. m.role # "tool"
    BY <1>3
  <2>2. /\ DOMAIN turn.blocks = 1..Len(m.blocks) /\ Len(turn.blocks) = Len(m.blocks)
        /\ turn.blocks \in Seq(PartLike)
        /\ \A i \in 1..Len(m.blocks) : turn.blocks[i] = ConvertContentToParts(m.blocks[i])
    BY <1>3, <2>1, GoogleTurnBlocks
  <2>3. QED
    BY <1>3, <1>6, <2>2
<1>8. ASSUME NEW i \in 1..Len(parts)
      PROVE  /\ bs[i].of = parts[i].of
             /\ bs[i].type = CASE parts[i].type = "text" -> "printed"
                               [] parts[i].type = "thinking" -> "thought"
                               [] OTHER -> "functionCall"
  <2>1. PICK b, t, o : b = m.blocks[i] /\ t = parts[i].type /\ o = parts[i].of
    OBVIOUS
  <2>2. PICK n : n = Google[t]
    OBVIOUS
  <2>3. f.blocks[i] = Block(n, o)
    BY <1>2, <2>1, <2>2
  <2>4. Block(n, o).type = n /\ Block(n, o).of = o
    BY BlockFacts
  <2>5. b.type = n /\ b.of = o
    BY <1>1, <1>2, <2>1, <2>3, <2>4 DEF Like
  <2>6. t \in PartTypes
    BY <1>5, <2>1, Part
  <2>7. n = CASE t = "text" -> "plain" [] t = "thinking" -> "thought" [] OTHER -> "functionCall"
    BY <2>2, <2>6 DEF Google, PartTypes
  <2>8. b \in BlockType
    BY <1>3, <2>1, MessageFields
  <2>9. /\ bs[i] \in PartLike /\ bs[i].of = b.of
        /\ bs[i].type = CASE b.type = "text" -> "text"
                          [] b.type = "image_url" -> "inline_data"
                          [] b.type \in {"functionCall", "thought"} -> b.type
                          [] OTHER -> "printed"
    BY <1>7, <2>1, <2>8, GooglePart
  <2>10. bs[i].of = o /\ bs[i].type = CASE t = "text" -> "printed" [] t = "thinking" -> "thought" [] OTHER -> "functionCall"
    BY <2>5, <2>6, <2>7, <2>9 DEF PartTypes
  <2>11. QED
    BY <2>1, <2>10
<1>9. QED
  BY <1>4, <1>5, <1>6, <1>7, <1>8

LEMMA GoogleReplyIds ==
    ASSUME NEW parts \in Seq(PartType), NEW m \in MessageType, Like(m, from_response("google", parts)),
           NEW turn, turn = GoogleTurn(m)
    PROVE  IdsOf(turn, ResultTypes) = {} /\ IdsOf(turn, CallTypes) = CallsIn(parts)
<1>1. PICK bs : bs = turn.blocks
  OBVIOUS
<1>2. /\ DOMAIN bs = DOMAIN parts
      /\ \A i \in DOMAIN parts : /\ bs[i].of = parts[i].of
                                 /\ bs[i].type = CASE parts[i].type = "text" -> "printed"
                                                   [] parts[i].type = "thinking" -> "thought"
                                                   [] OTHER -> "functionCall"
  BY <1>1, GoogleReply
<1>3. \A i \in DOMAIN parts : parts[i].type \in PartTypes
  BY Part
<1>4. \A i \in DOMAIN parts : /\ bs[i].type \in CallTypes <=> parts[i].type = "tool_use"
                              /\ bs[i].type \notin ResultTypes
  BY <1>2, <1>3 DEF PartTypes, CallTypes, ResultTypes
<1>5. DOMAIN turn.blocks = DOMAIN parts
  BY <1>1, <1>2
<1>6. \A i \in DOMAIN parts : /\ turn.blocks[i].of = parts[i].of
                              /\ turn.blocks[i].type \in CallTypes <=> parts[i].type = "tool_use"
                              /\ turn.blocks[i].type \notin ResultTypes
  BY <1>1, <1>2, <1>4
<1>7. QED
  BY <1>5, <1>6, ReplyTurnIds

LEMMA GoogleTurnByTurn ==
    ASSUME NEW L, ListOK(L), NEW rs, RepliesOK(rs), NEW z, Follows(z, L, rs, Len(rs)),
           \A r \in 1..Len(rs) : rs[r].by = "google", NEW turns, turns = Each(L, GoogleTurn)
    PROVE  TurnByTurn(turns, L, z, rs)
<1>1. /\ \A r \in 1..Len(rs) : /\ z[r] \in 1..Len(L) /\ L[z[r]] \in MessageType /\ L[z[r]].role = "assistant"
                               /\ rs[r].parts \in Seq(PartType)
                               /\ Like(L[z[r]], from_response(rs[r].by, rs[r].parts))
      /\ \A k \in 1..Len(L) : L[k] \in MessageType /\ Plain(L[k])
      /\ \A k \in 1..Len(L) : L[k].role = "assistant" => \E r \in 1..Len(rs) : z[r] = k
  <2>1. RepliesIn(L, z, rs)
    BY RepliesAt
  <2>2. QED
    BY <2>1 DEF RepliesIn
<1>2. L \in Seq(MessageType)
  BY DEF ListOK
<1>3. DOMAIN turns = 1..Len(L) /\ Len(turns) = Len(L) /\ \A k \in 1..Len(L) : turns[k] = GoogleTurn(L[k])
  BY <1>2, GoogleTurns
<1>4. ASSUME NEW r \in 1..Len(rs)
      PROVE  IdsOf(turns[z[r]], ResultTypes) = {} /\ IdsOf(turns[z[r]], CallTypes) = CallsIn(rs[r].parts)
  <2>1. PICK m, p, t : m = L[z[r]] /\ p = rs[r].parts /\ t = turns[z[r]]
    OBVIOUS
  <2>2. /\ m \in MessageType /\ p \in Seq(PartType) /\ t = GoogleTurn(m) /\ rs[r].by = "google"
        /\ Like(m, from_response(rs[r].by, p))
    BY <1>1, <1>3, <2>1
  <2>3. Like(m, from_response("google", p))
    BY <2>2
  <2>4. IdsOf(t, ResultTypes) = {} /\ IdsOf(t, CallTypes) = CallsIn(p)
    BY <2>2, <2>3, GoogleReplyIds
  <2>5. QED
    BY <2>1, <2>4
<1>5. ASSUME NEW k \in 1..Len(L)
      PROVE  /\ IdsOf(turns[k], ResultTypes) = IF L[k].role = "tool" THEN {L[k].id} ELSE {}
             /\ L[k].role # "assistant" => IdsOf(turns[k], CallTypes) = {}
  <2>1. PICK m, t : m = L[k] /\ t = turns[k]
    OBVIOUS
  <2>2. m \in MessageType /\ Plain(m) /\ t = GoogleTurn(m)
    BY <1>1, <1>3, <2>1
  <2>3. /\ m.role = "tool" => IdsOf(t, ResultTypes) = {m.id} /\ IdsOf(t, CallTypes) = {}
        /\ m.role \notin {"tool", "assistant"} => IdsOf(t, ResultTypes) = {} /\ IdsOf(t, CallTypes) = {}
    BY <2>2, GoogleTurnIds
  <2>4. CASE m.role = "assistant"
    <3>1. PICK r \in 1..Len(rs) : z[r] = k
      BY <1>1, <2>1, <2>4
    <3>2. IdsOf(t, ResultTypes) = {}
      BY <1>4, <2>1, <3>1
    <3>3. QED
      BY <2>1, <2>4, <3>2
  <2>5. CASE m.role # "assistant"
    BY <2>1, <2>3, <2>5
  <2>6. QED
    BY <2>4, <2>5
<1>6. QED
  BY <1>3, <1>4, <1>5 DEF TurnByTurn

(* The list without the messages of a role.                                *)
LEMMA BesidesPicks ==
    ASSUME NEW ms \in Seq(MessageType), NEW role, NEW L, L = BesidesRole(ms, role)
    PROVE  \E P \in SUBSET DOMAIN ms : /\ \A i \in DOMAIN ms : i \in P <=> ms[i].role # role
                                       /\ \E g, n : Picks(L, ms, g, n, P)
<1> DEFINE P == {i \in DOMAIN ms : ms[i].role # role}
<1>1. P \in SUBSET DOMAIN ms /\ L = Chosen(ms, P) /\ \A i \in DOMAIN ms : i \in P <=> ms[i].role # role
  BY DEF BesidesRole
<1> HIDE DEF P
<1>2. \E g, n : Picks(L, ms, g, n, P)
  BY <1>1, ChosenPicks
<1>3. QED
  BY <1>1, <1>2

Taken(L, ms, g, n, role) ==
    /\ L \in Seq(MessageType) /\ Len(L) = n /\ DOMAIN L = 1..n /\ n \in Nat
    /\ \A k \in 1..n : L[k] = ms[g[k]] /\ g[k] \in DOMAIN ms /\ L[k].role # role

LEMMA PicksBesides ==
    ASSUME NEW ms \in Seq(MessageType), NEW role,
           NEW P \in SUBSET DOMAIN ms, \A i \in P : ms[i].role # role,
           NEW L, NEW g, NEW n, Picks(L, ms, g, n, P)
    PROVE  Taken(L, ms, g, n, role)
<1>1. /\ L \in Seq(MessageType) /\ Len(L) = n /\ DOMAIN L = 1..n /\ n \in Nat
      /\ \A k \in 1..n : L[k] = ms[g[k]] /\ g[k] \in P /\ g[k] \in DOMAIN ms
  BY PicksType
<1>2. \A k \in 1..n : L[k].role # role
  BY <1>1
<1>3. QED
  BY <1>1, <1>2 DEF Taken

Readable(L, rs, roles) ==
    /\ ListOK(L)
    /\ \A k \in 1..Len(L) : L[k].role \in roles
    /\ \E z : Follows(z, L, rs, Len(rs))

LEMMA Besides ==
    ASSUME NEW ms, NEW rs, RepliesOK(rs), NEW roles, Readable(ms, rs, roles),
           NEW role \in {"system", "cache_point"}, NEW L, L = BesidesRole(ms, role)
    PROVE  Readable(L, rs, roles \ {role})
<1>1. ms \in Seq(MessageType) /\ DOMAIN ms = 1..Len(ms) /\ \A i \in DOMAIN ms : Plain(ms[i])
  BY DEF ListOK, Readable
<1>2. PICK P \in SUBSET DOMAIN ms : /\ \A i \in DOMAIN ms : i \in P <=> ms[i].role # role
                                    /\ \E g, n : Picks(L, ms, g, n, P)
  BY <1>1, BesidesPicks
<1>3. PICK g, n : Picks(L, ms, g, n, P)
  BY <1>2
<1>4. /\ L \in Seq(MessageType) /\ Len(L) = n /\ DOMAIN L = 1..n /\ n \in Nat
      /\ \A k \in 1..n : L[k] = ms[g[k]] /\ g[k] \in DOMAIN ms /\ L[k].role # role
  <2>1. ms \in Seq(MessageType)
    BY <1>1
  <2>2. \A i \in P : ms[i].role # role
    BY <1>2
  <2>3. Taken(L, ms, g, n, role)
    BY <1>3, <2>1, <2>2, PicksBesides
  <2>4. QED
    BY <2>3 DEF Taken
<1>5. ListOK(L)
  BY <1>1, <1>4 DEF ListOK
<1>6. \A k \in 1..Len(L) : L[k].role \in roles \ {role}
  BY <1>1, <1>4 DEF Readable
<1>7. Assistants(ms) \subseteq P /\ Results(ms) \subseteq P
  BY <1>2 DEF Assistants, Results
<1>8. \E z : Follows(z, L, rs, Len(rs))
  <2>1. PICK q : Follows(q, ms, rs, Len(rs))
    BY DEF Readable
  <2>2. ListOK(ms)
    BY DEF Readable
  <2>3. \E z : Follows(z, L, rs, Len(rs)) /\ \A r \in 1..Len(rs) : z[r] \in 1..n /\ g[z[r]] = q[r]
    BY <1>3, <1>7, <2>1, <2>2, FollowsPicked
  <2>4. QED
    BY <2>3
<1>9. QED
  BY <1>5, <1>6, <1>8 DEF Readable

Roles == {"system", "user", "assistant", "tool", "cache_point"}

(* What a request is built from.                                           *)
LEMMA SentReadable ==
    ASSUME TalkInv, Sent, NEW W, W = WithoutPoints(messages)
    PROVE  /\ Readable(messages, replies, Roles)
           /\ Readable(W, replies, Roles \ {"cache_point"})
           /\ Readable(BesidesRole(W, "system"), replies, (Roles \ {"cache_point"}) \ {"system"})
           /\ at \in Providers /\ body = build_request(at, W) /\ RepliesOK(replies)
<1>1. stage = "sent" /\ ListOK(messages) /\ RepliesOK(replies)
  BY DEF TalkInv, Sent
<1>2. at \in Providers /\ body = build_request(at, W)
  BY <1>1 DEF TalkInv, OnWire
<1>3. \E q : Follows(q, messages, replies, Len(replies))
  BY <1>1 DEF TalkInv, Settling
<1>4. \A i \in 1..Len(messages) : messages[i].role \in Roles
  <2>1. \A i \in 1..Len(messages) : messages[i] \in MessageType
    BY <1>1 DEF ListOK
  <2>2. QED
    BY <2>1, MessageFields DEF Roles
<1>5. Readable(messages, replies, Roles)
  BY <1>1, <1>3, <1>4 DEF Readable
<1>6. W = BesidesRole(messages, "cache_point")
  BY DEF WithoutPoints
<1>7. Readable(W, replies, Roles \ {"cache_point"})
  BY <1>1, <1>5, <1>6, Besides
<1>8. PICK L : L = BesidesRole(W, "system")
  OBVIOUS
<1>9. Readable(L, replies, (Roles \ {"cache_point"}) \ {"system"})
  BY <1>1, <1>7, <1>8, Besides
<1>10. QED
  BY <1>1, <1>2, <1>5, <1>7, <1>8, <1>9

LEMMA OpenaiInPlace == ASSUME TalkInv, Sent, Native, at = "openai" PROVE InPlace(body.turns)
<1>1. PICK W, turns, rs : W = WithoutPoints(messages) /\ turns = body.turns /\ rs = replies
  OBVIOUS
<1>2. /\ Readable(W, rs, Roles \ {"cache_point"})
      /\ body = build_request(at, W) /\ RepliesOK(rs)
  BY <1>1, SentReadable
<1>3. body = ChatBody(W)
  BY <1>2 DEF build_request
<1>4. ListOK(W) /\ \A k \in 1..Len(W) : W[k].role # "cache_point"
  BY <1>2 DEF Readable
<1>5. PICK z : Follows(z, W, rs, Len(rs))
  BY <1>2 DEF Readable
<1>6. \A r \in 1..Len(rs) : rs[r].by = "openai"
  BY <1>1, <1>2, ReplyFacts DEF Native
<1>7. turns = ChatBody(W).turns
  BY <1>1, <1>3
<1>8. TurnByTurn(turns, W, z, rs)
  BY <1>2, <1>4, <1>5, <1>6, <1>7, ChatTurnByTurn
<1>9. InPlace(turns)
  BY <1>2, <1>4, <1>5, <1>8, TurnsInPlace
<1>10. QED
  BY <1>1, <1>9

LEMMA GoogleInPlace == ASSUME TalkInv, Sent, Native, at = "google" PROVE InPlace(body.turns)
<1>1. PICK W, L, turns, rs : /\ W = WithoutPoints(messages) /\ L = BesidesRole(W, "system")
                             /\ turns = body.turns /\ rs = replies
  OBVIOUS
<1>2. /\ Readable(L, rs, (Roles \ {"cache_point"}) \ {"system"})
      /\ body = build_request(at, W) /\ RepliesOK(rs)
  BY <1>1, SentReadable
<1>3. body = GoogleBody(W)
  BY <1>2 DEF build_request
<1>4. ListOK(L) /\ \A k \in 1..Len(L) : L[k].role # "cache_point"
  BY <1>2 DEF Readable
<1>5. PICK z : Follows(z, L, rs, Len(rs))
  BY <1>2 DEF Readable
<1>6. \A r \in 1..Len(rs) : rs[r].by = "google"
  BY <1>1, <1>2, ReplyFacts DEF Native
<1>7. turns = Each(L, GoogleTurn)
  BY <1>1, <1>3 DEF GoogleBody, Body
<1>8. TurnByTurn(turns, L, z, rs)
  BY <1>2, <1>4, <1>5, <1>6, <1>7, GoogleTurnByTurn
<1>9. InPlace(turns)
  BY <1>2, <1>4, <1>5, <1>8, TurnsInPlace
<1>10. QED
  BY <1>1, <1>9

-----------------------------------------------------------------------------
(***************************************************************************)
(* Anthropic.  The turns are folded from the list: one element of the      *)
(* fold, and a table of the fold over subsets.                             *)
(***************************************************************************)
FoldOf(it, q, L) == IF q = {} THEN <<>> ELSE AnthropicTurns(it[q \ {Max(q)}], L[Max(q)])
FoldTable(it, n, L) == it = [q \in SUBSET (1..n) |-> FoldOf(it, q, L)]

LEMMA MaxUpTo == ASSUME NEW n \in Nat, NEW q, q \subseteq 1..n + 1, n + 1 \in q PROVE Max(q) = n + 1
<1>1. \A y \in q : y \in Int /\ n + 1 >= y
  OBVIOUS
<1>2. \A x \in q : (\A y \in q : x >= y) => x = n + 1
  BY <1>1
<1>3. QED
  BY <1>1, <1>2 DEF Max

LEMMA MaxIn == ASSUME NEW n \in Nat, NEW q, q \subseteq 1..n, q # {} PROVE Max(q) \in q
<1> DEFINE T == {m \in Nat : n - m \in q}
<1>1. T # {}
  <2>1. PICK z : z \in q
    OBVIOUS
  <2>2. n - z \in Nat /\ n - (n - z) = z
    BY <2>1
  <2>3. QED
    BY <2>1, <2>2
<1>2. PICK y \in T : \A z \in T : ~(z < y)
  BY <1>1, Least
<1>3. PICK x \in q : x = n - y
  BY <1>2
<1>4. \A z \in q : x >= z
  <2>1. SUFFICES ASSUME NEW z \in q PROVE x >= z
    OBVIOUS
  <2>2. z \in Int /\ n - z \in Nat /\ n - (n - z) = z
    OBVIOUS
  <2>3. n - z \in T
    BY <2>2
  <2>4. ~(n - z < y) /\ y \in Nat
    BY <1>2, <2>3
  <2>5. QED
    BY <1>3, <2>2, <2>4
<1>5. QED
  BY <1>4 DEF Max

LEMMA TableGrows ==
    ASSUME NEW L, NEW n \in Nat, NEW it, FoldTable(it, n, L)
    PROVE  \E it2 : FoldTable(it2, n + 1, L)
<1> DEFINE h(q) == IF n + 1 \in q THEN AnthropicTurns(it[q \ {n + 1}], L[n + 1]) ELSE it[q]
           g == [q \in SUBSET (1..n + 1) |-> h(q)]
<1>1. \A q \in SUBSET (1..n) : q \in SUBSET (1..n + 1) /\ n + 1 \notin q
  OBVIOUS
<1>2. \A q \in SUBSET (1..n) : g[q] = it[q]
  BY <1>1
<1>3. \A q \in SUBSET (1..n) : it[q] = FoldOf(it, q, L)
  BY Zenon DEF FoldTable
<1>4. \A q \in SUBSET (1..n + 1) : h(q) = FoldOf(g, q, L)
  <2>1. SUFFICES ASSUME NEW q \in SUBSET (1..n + 1) PROVE h(q) = FoldOf(g, q, L)
    OBVIOUS
  <2>2. CASE n + 1 \in q
    <3>1. Max(q) = n + 1
      BY <2>2, MaxUpTo
    <3>2. q \ {n + 1} \in SUBSET (1..n)
      OBVIOUS
    <3>3. g[q \ {n + 1}] = it[q \ {n + 1}]
      BY <1>2, <3>2, Zenon
    <3>4. q # {}
      BY <2>2
    <3> HIDE DEF g
    <3>5. QED
      BY <2>2, <3>1, <3>3, <3>4, Zenon DEF FoldOf
  <2>3. CASE n + 1 \notin q
    <3>1. q \in SUBSET (1..n)
      BY <2>3
    <3>2. q \ {Max(q)} \in SUBSET (1..n)
      BY <3>1
    <3>3. g[q \ {Max(q)}] = it[q \ {Max(q)}]
      BY <1>2, <3>2, Zenon
    <3>4. h(q) = it[q]
      BY <2>3
    <3> HIDE DEF g, h
    <3>5. QED
      BY <1>3, <3>1, <3>3, <3>4, Zenon DEF FoldOf
  <2>4. QED
    BY <2>2, <2>3
<1>5. FoldTable(g, n + 1, L)
  <2> HIDE DEF h
  <2>1. g = [q \in SUBSET (1..n + 1) |-> FoldOf(g, q, L)]
    BY <1>4
  <2> HIDE DEF g
  <2>2. QED
    BY <2>1 DEF FoldTable
<1>6. QED
  BY <1>5

LEMMA Tables == ASSUME NEW L PROVE \A n \in Nat : \E it : FoldTable(it, n, L)
<1> DEFINE S == {n \in Nat : \E it : FoldTable(it, n, L)}
<1>1. 0 \in S
  <2>1. 1..0 = {} /\ SUBSET {} = {{}}
    OBVIOUS
  <2>2. PICK g : g = [q \in SUBSET {} |-> <<>>]
    OBVIOUS
  <2>3. g = [q \in SUBSET {} |-> FoldOf(g, q, L)]
    BY <2>1, <2>2 DEF FoldOf
  <2>4. FoldTable(g, 0, L)
    BY <2>1, <2>3 DEF FoldTable
  <2>5. QED
    BY <2>4
<1>2. \A n \in Nat : n \in S => n + 1 \in S
  BY TableGrows
<1>3. Nat \subseteq S
  <2> HIDE DEF S
  <2>1. QED
    BY <1>1, <1>2, Reach
<1>4. QED
  BY <1>3

LEMMA UpToNext ==
    ASSUME NEW n \in Nat, NEW k \in Nat, k < n
    PROVE  1..k + 1 \in SUBSET (1..n) /\ 1..k + 1 # {} /\ k + 1 \in 1..k + 1 /\ (1..k + 1) \ {k + 1} = 1..k
<1>1. k + 1 \in 1..k + 1
  OBVIOUS
<1>2. \A x : x \in (1..k + 1) \ {k + 1} <=> x \in 1..k
  OBVIOUS
<1>3. \A x \in 1..k + 1 : x \in 1..n
  OBVIOUS
<1>4. QED
  BY <1>1, <1>2, <1>3

(* The fold, step by step.                                                 *)
FoldStep(I, L, k) == I[1..k + 1] = AnthropicTurns(I[1..k], L[k + 1])

LEMMA TurnsFolded ==
    ASSUME NEW L \in Seq(MessageType)
    PROVE  \E I : /\ FoldLeft(AnthropicTurns, <<>>, L) = I[1..Len(L)] /\ I[1..0] = <<>>
                  /\ \A k \in Nat : k < Len(L) => FoldStep(I, L, k)
<1>1. PICK n : n = Len(L)
  OBVIOUS
<1>2. DOMAIN L = 1..n /\ n \in Nat
  BY <1>1
<1> DEFINE H(it, q) == IF q = {} THEN <<>> ELSE AnthropicTurns(it[q \ {Max(q)}], L[Max(q)])
           G(it) == [q \in SUBSET DOMAIN L |-> H(it, q)]
           J == CHOOSE it : it = G(it)
<1>3. FoldLeft(AnthropicTurns, <<>>, L) = J[DOMAIN L]
  BY DEF FoldLeft, MapThenFoldSet
<1>4. \A it : \A q \in SUBSET (1..n) : H(it, q) = FoldOf(it, q, L)
  BY DEF FoldOf
<1>5. \E it : it = G(it)
  <2>1. PICK it : FoldTable(it, n, L)
    BY <1>2, Tables
  <2>2. it = [q \in SUBSET (1..n) |-> FoldOf(it, q, L)]
    BY <2>1 DEF FoldTable
  <2> HIDE DEF H
  <2>3. it = [q \in SUBSET (1..n) |-> H(it, q)]
    BY <1>4, <2>2
  <2>4. QED
    BY <1>2, <2>3
<1>6. J = G(J)
  BY <1>5
<1>7. \A q \in SUBSET (1..n) : J[q] = FoldOf(J, q, L)
  <2> HIDE DEF J, H
  <2>1. J = [q \in SUBSET (1..n) |-> H(J, q)]
    BY <1>2, <1>6
  <2>2. \A q \in SUBSET (1..n) : J[q] = H(J, q)
    BY <2>1
  <2>3. QED
    BY <1>4, <2>2
<1> HIDE DEF J
<1>8. J[1..0] = <<>>
  <2>1. 1..0 = {} /\ 1..0 \in SUBSET (1..n)
    BY <1>2
  <2>2. QED
    BY <1>7, <2>1 DEF FoldOf
<1>9. ASSUME NEW k \in Nat, k < n PROVE FoldStep(J, L, k)
  <2>1. PICK q : q = 1..k + 1
    OBVIOUS
  <2>2. q \in SUBSET (1..n) /\ q # {} /\ k + 1 \in q /\ q \ {k + 1} = 1..k
    BY <1>2, <1>9, <2>1, UpToNext
  <2>3. Max(q) = k + 1
    BY <2>1, <2>2, MaxUpTo
  <2>4. J[q] = FoldOf(J, q, L)
    BY <1>7, <2>2
  <2>5. J[q] = AnthropicTurns(J[1..k], L[k + 1])
    BY <2>2, <2>3, <2>4, Zenon DEF FoldOf
  <2>6. QED
    BY <2>1, <2>5, Zenon DEF FoldStep
<1>10. FoldLeft(AnthropicTurns, <<>>, L) = J[1..Len(L)] /\ \A k \in Nat : k < Len(L) => FoldStep(J, L, k)
  BY <1>1, <1>2, <1>3, <1>9
<1>11. QED
  BY <1>8, <1>10

(* The turns so far, T, of the first n messages of L: message k is in turn *)
(* h[k].  Results that come one after the other share a turn.              *)
ToolAt(L, k) == L[k].role = "tool"
ResultOf(m) == ToolOutput("tool_result", m)
Converted(m) == Turn(m.role, Each(m.blocks, ConvertContentPart))
TurnType == [role : {"user", "assistant"}, blocks : Seq(PartLike)]

Ordered(L, n, h) ==
    \A j, k \in 1..n : j <= k => /\ h[j] <= h[k]
                                 /\ h[j] = h[k] <=> j = k \/ \A i \in j..k : ToolAt(L, i)
Sized(T, n, h) ==
    /\ n \in Nat /\ T \in Seq(TurnType) /\ h \in [1..n -> 1..Len(T)]
    /\ n = 0 => Len(T) = 0
    /\ n > 0 => h[n] = Len(T)
    /\ \A t \in 1..Len(T) : \E k \in 1..n : h[k] = t
    /\ \A k \in 1..n : k + 1 \in 1..n => h[k + 1] <= h[k] + 1
HasResult(blocks, m) == \E i \in DOMAIN blocks : blocks[i] = ResultOf(m)
ResultsFrom(blocks, L, n, h, t) ==
    \A i \in DOMAIN blocks : \E k \in 1..n : h[k] = t /\ ToolAt(L, k) /\ blocks[i] = ResultOf(L[k])
ResultsIn(turn, L, n, h, k) ==
    turn.role = "user" /\ HasResult(turn.blocks, L[k]) /\ ResultsFrom(turn.blocks, L, n, h, h[k])
TurnFor(T, L, n, h, k) ==
    IF ToolAt(L, k) THEN ResultsIn(T[h[k]], L, n, h, k) ELSE T[h[k]] = Converted(L[k])

TurnsOf(T, L, n, h) == Sized(T, n, h) /\ Ordered(L, n, h) /\ \A k \in 1..n : TurnFor(T, L, n, h, k)

ForAnthropic(L) == ListOK(L) /\ \A k \in 1..Len(L) : L[k].role \in {"user", "assistant", "tool"}

LEMMA ResultBlock ==
    ASSUME NEW m \in MessageType, Plain(m), m.role = "tool", NEW b, b = ResultOf(m)
    PROVE  b \in PartLike /\ b.type = "tool_result" /\ b.of = m.id /\ b.cached = m.blocks[1].cached
<1>1. m.blocks \in Seq(BlockType) /\ Len(m.blocks) = 1 /\ m.id \in Nat
  BY MessageFields DEF Plain
<1>2. m.blocks[1] \in BlockType
  BY <1>1
<1>3. PICK o, c : o = m.id /\ c = m.blocks[1].cached
  OBVIOUS
<1>4. o \in Nat /\ c \in BOOLEAN
  BY <1>1, <1>2, <1>3 DEF BlockType
<1>5. b = [type |-> "tool_result", of |-> o, cached |-> c]
  BY <1>3 DEF ResultOf, ToolOutput, Block
<1>6. "tool_result" \in WireBlockTypes
  BY DEF WireBlockTypes
<1>7. QED
  BY <1>3, <1>4, <1>5, <1>6 DEF PartLike

LEMMA ConvertedBlock ==
    ASSUME NEW b \in BlockType, NEW c, c = ConvertContentPart(b)
    PROVE  /\ c \in PartLike /\ c.type = b.type /\ c.of = b.of /\ c.type # "tool_result"
           /\ c.cached <=> b.cached /\ b.type \notin {"text", "image_url"}
<1>1. PICK type \in BlockTypes, of \in Nat, cached \in BOOLEAN : b = [type |-> type, of |-> of, cached |-> cached]
  BY DEF BlockType
<1>2. type \in WireBlockTypes /\ type # "tool_result"
  <2>1. type \in WireBlockTypes
    BY DEF WireBlockTypes
  <2>2. type # "tool_result"
    BY DEF BlockTypes, PartTypes
  <2>3. QED
    BY <2>1, <2>2
<1>3. CASE type \in {"text", "image_url"}
  <2>1. c = Block(type, of)
    BY <1>1, <1>3 DEF ConvertContentPart
  <2>2. c = [type |-> type, of |-> of, cached |-> FALSE]
    BY <2>1 DEF Block
  <2>3. c \in PartLike
    BY <1>2, <2>2 DEF PartLike
  <2>4. c.type = type /\ c.of = of /\ ~c.cached
    BY <2>2
  <2>5. b.type = type /\ b.of = of
    BY <1>1
  <2>6. QED
    BY <1>2, <1>3, <2>3, <2>4, <2>5
<1>4. CASE type \notin {"text", "image_url"}
  <2>1. c = b
    BY <1>1, <1>4 DEF ConvertContentPart
  <2>2. QED
    BY <1>1, <1>2, <1>4, <2>1 DEF PartLike
<1>5. QED
  BY <1>3, <1>4

LEMMA ConvertedTurn ==
    ASSUME NEW m \in MessageType, m.role \in {"user", "assistant"}, NEW t, t = Converted(m)
    PROVE  /\ t \in TurnType /\ t.role = m.role /\ t.blocks \in Seq(PartLike)
           /\ DOMAIN t.blocks = 1..Len(m.blocks) /\ Len(t.blocks) = Len(m.blocks)
           /\ \A i \in 1..Len(m.blocks) : /\ t.blocks[i].type = m.blocks[i].type /\ t.blocks[i].of = m.blocks[i].of
                                          /\ t.blocks[i].type # "tool_result"
                                          /\ t.blocks[i].cached <=> /\ m.blocks[i].cached
                                                                    /\ m.blocks[i].type \notin {"text", "image_url"}
<1>1. m.blocks \in Seq(BlockType) /\ Len(m.blocks) \in Nat /\ DOMAIN m.blocks = 1..Len(m.blocks)
  BY MessageFields
<1>2. PICK l, bs : l = Len(m.blocks) /\ bs = [i \in 1..l |-> ConvertContentPart(m.blocks[i])]
  OBVIOUS
<1>3. ASSUME NEW i \in 1..l
      PROVE  /\ bs[i] \in PartLike
             /\ bs[i].type = m.blocks[i].type /\ bs[i].of = m.blocks[i].of
             /\ bs[i].type # "tool_result"
             /\ bs[i].cached <=> m.blocks[i].cached /\ m.blocks[i].type \notin {"text", "image_url"}
  <2>1. PICK b : b = m.blocks[i]
    OBVIOUS
  <2>2. b \in BlockType /\ bs[i] = ConvertContentPart(b)
    BY <1>1, <1>2, <2>1
  <2>3. /\ bs[i] \in PartLike /\ bs[i].type = b.type /\ bs[i].of = b.of /\ bs[i].type # "tool_result"
        /\ bs[i].cached <=> b.cached /\ b.type \notin {"text", "image_url"}
    BY <2>2, ConvertedBlock
  <2>4. QED
    BY <2>1, <2>3
<1>4. bs \in Seq(PartLike) /\ Len(bs) = l /\ DOMAIN bs = 1..l
  BY <1>1, <1>2, <1>3
<1>5. t = [role |-> m.role, blocks |-> bs]
  BY <1>1, <1>2 DEF Converted, Turn, Each
<1>6. t \in TurnType /\ t.role = m.role /\ t.blocks = bs
  BY <1>4, <1>5 DEF TurnType
<1>7. QED
  BY <1>2, <1>3, <1>4, <1>6

LEMMA TurnsNone == ASSUME NEW L PROVE \E h : TurnsOf(<<>>, L, 0, h)
<1>1. PICK h : h = [k \in 1..0 |-> 0]
  OBVIOUS
<1>2. PICK T : T = <<>>
  OBVIOUS
<1>3. T \in Seq(TurnType) /\ Len(T) = 0 /\ 1..0 = {}
  BY <1>2
<1>4. h \in [1..0 -> 1..Len(T)]
  BY <1>1, <1>3
<1>5. Sized(T, 0, h)
  BY <1>3, <1>4 DEF Sized
<1>6. Ordered(L, 0, h)
  BY <1>3 DEF Ordered
<1>7. \A k \in 1..0 : TurnFor(T, L, 0, h, k)
  BY <1>3
<1>8. QED
  BY <1>2, <1>5, <1>6, <1>7 DEF TurnsOf

(* The next message starts a turn, or joins the last.                      *)
PlaceNext(n, h, l) == [k \in 1..n + 1 |-> IF k = n + 1 THEN l ELSE h[k]]

LEMMA OrderedNew ==
    ASSUME NEW L, NEW n \in Nat, NEW l \in Nat, NEW h \in [1..n -> 1..l], Ordered(L, n, h),
           n > 0 => ~(ToolAt(L, n) /\ ToolAt(L, n + 1)),
           NEW g, g = PlaceNext(n, h, l + 1)
    PROVE  Ordered(L, n + 1, g)
<1>1. /\ g[n + 1] = l + 1
      /\ \A k \in 1..n : g[k] = h[k] /\ h[k] \in 1..l
  BY DEF PlaceNext
<1>2. SUFFICES ASSUME NEW j \in 1..n + 1, NEW k \in 1..n + 1, j <= k
               PROVE  /\ g[j] <= g[k]
                      /\ g[j] = g[k] <=> j = k \/ \A i \in j..k : ToolAt(L, i)
  BY DEF Ordered
<1>3. CASE k \in 1..n
  <2>1. j \in 1..n
    BY <1>2, <1>3
  <2>2. /\ h[j] <= h[k]
        /\ h[j] = h[k] <=> j = k \/ \A i \in j..k : ToolAt(L, i)
    BY <1>2, <1>3, <2>1 DEF Ordered
  <2>3. QED
    BY <1>1, <1>3, <2>1, <2>2
<1>4. CASE k = n + 1 /\ j = n + 1
  <2>1. l + 1 <= l + 1
    OBVIOUS
  <2>2. QED
    BY <1>1, <1>4, <2>1
<1>5. CASE k = n + 1 /\ j # n + 1
  <2>1. j \in 1..n /\ n \in j..k /\ k \in j..k /\ n > 0
    BY <1>2, <1>5
  <2>2. ~(\A i \in j..k : ToolAt(L, i))
    BY <1>5, <2>1
  <2>3. g[j] < g[k]
    BY <1>1, <1>5, <2>1
  <2>4. g[j] <= g[k] /\ g[j] # g[k] /\ j # k
    <3>1. g[j] \in Nat /\ g[k] \in Nat
      BY <1>1, <1>5, <2>1
    <3>2. QED
      BY <1>5, <2>3, <3>1
  <2>5. QED
    BY <2>2, <2>4
<1>6. k \in 1..n \/ k = n + 1
  OBVIOUS
<1>7. QED
  BY <1>3, <1>4, <1>5, <1>6

LEMMA OrderedJoined ==
    ASSUME NEW L, NEW n \in Nat, n > 0, NEW l \in Nat, NEW h \in [1..n -> 1..l], Ordered(L, n, h), h[n] = l,
           ToolAt(L, n), ToolAt(L, n + 1),
           NEW g, g = PlaceNext(n, h, l)
    PROVE  Ordered(L, n + 1, g)
<1>1. /\ g[n + 1] = l
      /\ \A k \in 1..n : g[k] = h[k] /\ h[k] \in 1..l
  BY DEF PlaceNext
<1>2. SUFFICES ASSUME NEW j \in 1..n + 1, NEW k \in 1..n + 1, j <= k
               PROVE  /\ g[j] <= g[k]
                      /\ g[j] = g[k] <=> j = k \/ \A i \in j..k : ToolAt(L, i)
  BY DEF Ordered
<1>3. CASE k \in 1..n
  <2>1. j \in 1..n
    BY <1>2, <1>3
  <2>2. /\ h[j] <= h[k]
        /\ h[j] = h[k] <=> j = k \/ \A i \in j..k : ToolAt(L, i)
    BY <1>2, <1>3, <2>1 DEF Ordered
  <2>3. QED
    BY <1>1, <1>3, <2>1, <2>2
<1>4. CASE k = n + 1 /\ j = n + 1
  <2>1. l <= l
    OBVIOUS
  <2>2. QED
    BY <1>1, <1>4, <2>1
<1>5. CASE k = n + 1 /\ j # n + 1
  <2>1. j \in 1..n /\ n \in 1..n /\ j <= n
    BY <1>2, <1>5
  <2>2. /\ h[j] <= h[n]
        /\ h[j] = h[n] <=> j = n \/ \A i \in j..n : ToolAt(L, i)
    BY <2>1 DEF Ordered
  <2>3. g[j] = h[j] /\ g[k] = h[n]
    BY <1>1, <1>5, <2>1
  <2>4. \A i \in j..k : i = k \/ i \in j..n
    BY <1>5, <2>1
  <2>5. \A i \in j..n : i \in j..k
    BY <1>5, <2>1
  <2>6. j = n \/ (\A i \in j..n : ToolAt(L, i)) <=> \A i \in j..k : ToolAt(L, i)
    <3>1. ASSUME j = n PROVE \A i \in j..k : ToolAt(L, i)
      <4>1. \A i \in j..k : i = n \/ i = n + 1
        BY <1>5, <3>1
      <4>2. QED
        BY <4>1
    <3>2. ASSUME \A i \in j..n : ToolAt(L, i) PROVE \A i \in j..k : ToolAt(L, i)
      BY <1>5, <2>4, <3>2
    <3>3. ASSUME \A i \in j..k : ToolAt(L, i) PROVE \A i \in j..n : ToolAt(L, i)
      BY <2>5, <3>3
    <3>4. QED
      BY <3>1, <3>2, <3>3
  <2>7. j # k
    BY <1>5
  <2>8. QED
    BY <2>2, <2>3, <2>6, <2>7
<1>6. k \in 1..n \/ k = n + 1
  OBVIOUS
<1>7. QED
  BY <1>3, <1>4, <1>5, <1>6

Grown(T, T2, n, h, g, t) ==
    /\ Sized(T2, n + 1, g) /\ T2[g[n + 1]] = t
    /\ \A k \in 1..n : T2[g[k]] = T[h[k]] /\ g[k] = h[k]

LEMMA SizedNew ==
    ASSUME NEW T, NEW n, NEW h, Sized(T, n, h), NEW t \in TurnType, NEW T2, T2 = Append(T, t),
           NEW g, g = PlaceNext(n, h, Len(T) + 1)
    PROVE  Grown(T, T2, n, h, g, t)
<1>1. PICK l : l = Len(T)
  OBVIOUS
<1>2. /\ n \in Nat /\ T \in Seq(TurnType) /\ h \in [1..n -> 1..l] /\ l \in Nat
      /\ n = 0 => l = 0
      /\ n > 0 => h[n] = l
      /\ \A x \in 1..l : \E k \in 1..n : h[k] = x
      /\ \A k \in 1..n : k + 1 \in 1..n => h[k + 1] <= h[k] + 1
  BY <1>1 DEF Sized
<1>3. /\ T2 \in Seq(TurnType) /\ Len(T2) = l + 1
      /\ \A i \in 1..l + 1 : T2[i] = IF i = l + 1 THEN t ELSE T[i]
  BY <1>1, <1>2, AppendProperties
<1>4. /\ g[n + 1] = l + 1 /\ n + 1 \in 1..n + 1
      /\ \A k \in 1..n : g[k] = h[k] /\ h[k] \in 1..l /\ k \in 1..n + 1
  BY <1>1, <1>2 DEF PlaceNext
<1>5. \A k \in 1..n + 1 : k \in 1..n \/ k = n + 1
  BY <1>2
<1>6. g \in [1..n + 1 -> 1..l + 1]
  BY <1>1, <1>2 DEF PlaceNext
<1>7. \A x \in 1..l + 1 : \E k \in 1..n + 1 : g[k] = x
  <2>1. SUFFICES ASSUME NEW x \in 1..l + 1 PROVE \E k \in 1..n + 1 : g[k] = x
    OBVIOUS
  <2>2. CASE x = l + 1
    BY <1>4, <2>2
  <2>3. CASE x # l + 1
    <3>1. x \in 1..l
      BY <1>2, <2>3
    <3>2. PICK k \in 1..n : h[k] = x
      BY <1>2, <3>1
    <3>3. QED
      BY <1>4, <3>2
  <2>4. QED
    BY <2>2, <2>3
<1>8. ASSUME NEW k \in 1..n + 1, k + 1 \in 1..n + 1 PROVE g[k + 1] <= g[k] + 1
  <2>1. k \in 1..n
    BY <1>2, <1>8
  <2>2. CASE k = n
    <3>1. g[k + 1] = l + 1 /\ g[k] = l
      BY <1>2, <1>4, <2>1, <2>2
    <3>2. QED
      BY <1>2, <3>1
  <2>3. CASE k # n
    <3>1. k + 1 \in 1..n
      BY <1>2, <2>1, <2>3
    <3>2. QED
      BY <1>2, <1>4, <2>1, <3>1
  <2>4. QED
    BY <2>2, <2>3
<1>9. n + 1 \in Nat /\ n + 1 > 0 /\ n + 1 # 0
  BY <1>2
<1>10. Sized(T2, n + 1, g)
  BY <1>3, <1>4, <1>6, <1>7, <1>8, <1>9 DEF Sized
<1>11. T2[g[n + 1]] = t
  BY <1>2, <1>3, <1>4
<1>12. \A k \in 1..n : T2[g[k]] = T[h[k]] /\ g[k] = h[k]
  <2>1. SUFFICES ASSUME NEW k \in 1..n PROVE T2[g[k]] = T[h[k]] /\ g[k] = h[k]
    OBVIOUS
  <2>2. g[k] = h[k] /\ h[k] \in 1..l /\ h[k] \in 1..l + 1 /\ h[k] # l + 1
    BY <1>2, <1>4
  <2>3. QED
    BY <1>3, <2>2
<1>13. QED
  BY <1>10, <1>11, <1>12 DEF Grown

Joined(T, T2, n, h, g, t) ==
    /\ Sized(T2, n + 1, g) /\ T2[g[n + 1]] = t /\ g[n + 1] = Len(T)
    /\ \A k \in 1..n : g[k] = h[k] /\ T2[g[k]] = IF h[k] = Len(T) THEN t ELSE T[h[k]]

LEMMA SizedJoined ==
    ASSUME NEW T, NEW n, NEW h, Sized(T, n, h), n > 0, NEW t \in TurnType, NEW T2, T2 = [T EXCEPT ![Len(T)] = t],
           NEW g, g = PlaceNext(n, h, Len(T))
    PROVE  Joined(T, T2, n, h, g, t)
<1>1. PICK l : l = Len(T)
  OBVIOUS
<1>2. /\ n \in Nat /\ T \in Seq(TurnType) /\ h \in [1..n -> 1..l] /\ l \in Nat
      /\ h[n] = l
      /\ \A x \in 1..l : \E k \in 1..n : h[k] = x
      /\ \A k \in 1..n : k + 1 \in 1..n => h[k + 1] <= h[k] + 1
  BY <1>1 DEF Sized
<1>3. n \in 1..n /\ l \in 1..l
  BY <1>2
<1>4. /\ T2 \in Seq(TurnType) /\ Len(T2) = l
      /\ \A i \in 1..l : T2[i] = IF i = l THEN t ELSE T[i]
  BY <1>1, <1>2, <1>3
<1>5. /\ g[n + 1] = l /\ n + 1 \in 1..n + 1
      /\ \A k \in 1..n : g[k] = h[k] /\ h[k] \in 1..l /\ k \in 1..n + 1
  BY <1>1, <1>2 DEF PlaceNext
<1>6. g \in [1..n + 1 -> 1..l]
  BY <1>1, <1>2, <1>3 DEF PlaceNext
<1>7. \A x \in 1..l : \E k \in 1..n + 1 : g[k] = x
  BY <1>2, <1>5
<1>8. ASSUME NEW k \in 1..n + 1, k + 1 \in 1..n + 1 PROVE g[k + 1] <= g[k] + 1
  <2>1. k \in 1..n
    BY <1>2, <1>8
  <2>2. CASE k = n
    <3>1. g[k + 1] = l /\ g[k] = l
      BY <1>2, <1>5, <2>1, <2>2
    <3>2. QED
      BY <1>2, <3>1
  <2>3. CASE k # n
    <3>1. k + 1 \in 1..n
      BY <1>2, <2>1, <2>3
    <3>2. QED
      BY <1>2, <1>5, <2>1, <3>1
  <2>4. QED
    BY <2>2, <2>3
<1>9. n + 1 \in Nat /\ n + 1 > 0 /\ n + 1 # 0
  BY <1>2
<1>10. Sized(T2, n + 1, g)
  BY <1>4, <1>5, <1>6, <1>7, <1>8, <1>9 DEF Sized
<1>11. QED
  BY <1>1, <1>3, <1>4, <1>5, <1>10 DEF Joined

LEMMA ResultsFromLonger ==
    ASSUME NEW blocks, NEW L, NEW n \in Nat, NEW h, NEW t, ResultsFrom(blocks, L, n, h, t),
           NEW g, \A k \in 1..n : g[k] = h[k]
    PROVE  ResultsFrom(blocks, L, n + 1, g, t)
<1>1. \A k \in 1..n : k \in 1..n + 1
  OBVIOUS
<1>2. QED
  BY <1>1 DEF ResultsFrom

LEMMA TurnForLonger ==
    ASSUME NEW T, NEW L, NEW n \in Nat, NEW h, NEW k \in 1..n, TurnFor(T, L, n, h, k),
           NEW T2, NEW g, \A j \in 1..n : g[j] = h[j], T2[g[k]] = T[h[k]]
    PROVE  TurnFor(T2, L, n + 1, g, k)
<1>1. CASE ~ToolAt(L, k)
  BY <1>1 DEF TurnFor
<1>2. CASE ToolAt(L, k)
  <2>1. PICK turn : turn = T[h[k]]
    OBVIOUS
  <2>2. T2[g[k]] = turn /\ g[k] = h[k]
    BY <2>1
  <2>3. turn.role = "user" /\ HasResult(turn.blocks, L[k]) /\ ResultsFrom(turn.blocks, L, n, h, h[k])
    BY <1>2, <2>1 DEF TurnFor, ResultsIn
  <2>4. ResultsFrom(turn.blocks, L, n + 1, g, h[k])
    BY <2>3, ResultsFromLonger
  <2>5. ResultsIn(turn, L, n + 1, g, k)
    BY <2>2, <2>3, <2>4 DEF ResultsIn
  <2>6. QED
    BY <1>2, <2>2, <2>5 DEF TurnFor
<1>3. QED
  BY <1>1, <1>2

(* One result in a turn of its own, or one more.                           *)
LEMMA ResultAlone ==
    ASSUME NEW L, NEW n \in Nat, NEW g, ToolAt(L, n + 1), NEW b, b = ResultOf(L[n + 1]), b \in PartLike,
           NEW turn, turn = Turn("user", <<b>>)
    PROVE  turn \in TurnType /\ ResultsIn(turn, L, n + 1, g, n + 1)
<1>1. PICK bs : bs = <<b>>
  OBVIOUS
<1>2. bs \in Seq(PartLike) /\ DOMAIN bs = 1..1 /\ bs[1] = b
  BY <1>1
<1>3. turn = [role |-> "user", blocks |-> bs]
  BY <1>1 DEF Turn
<1>4. turn \in TurnType /\ turn.role = "user" /\ turn.blocks = bs
  BY <1>2, <1>3 DEF TurnType
<1>5. 1 \in DOMAIN bs /\ \A i \in DOMAIN bs : bs[i] = b
  BY <1>2
<1>6. HasResult(bs, L[n + 1])
  BY <1>5 DEF HasResult
<1>7. n + 1 \in 1..n + 1
  OBVIOUS
<1>8. ResultsFrom(bs, L, n + 1, g, g[n + 1])
  BY <1>5, <1>7 DEF ResultsFrom
<1>9. QED
  BY <1>4, <1>6, <1>8 DEF ResultsIn

LEMMA ResultJoins ==
    ASSUME NEW L, NEW n \in Nat, NEW h, NEW g, \A k \in 1..n : g[k] = h[k],
           NEW l, g[n + 1] = l, ToolAt(L, n + 1),
           NEW b, b = ResultOf(L[n + 1]), b \in PartLike,
           NEW old \in TurnType, old.role = "user", ResultsFrom(old.blocks, L, n, h, l),
           NEW turn, turn = [old EXCEPT !.blocks = Append(@, b)]
    PROVE  /\ turn \in TurnType /\ ResultsIn(turn, L, n + 1, g, n + 1)
           /\ \A k \in 1..n : h[k] = l /\ HasResult(old.blocks, L[k]) => ResultsIn(turn, L, n + 1, g, k)
<1>1. PICK bs, cs, m : bs = old.blocks /\ cs = Append(bs, b) /\ m = Len(bs)
  OBVIOUS
<1>2. bs \in Seq(PartLike) /\ m \in Nat /\ DOMAIN bs = 1..m
  BY <1>1 DEF TurnType
<1>3. /\ cs \in Seq(PartLike) /\ Len(cs) = m + 1
      /\ \A i \in 1..m + 1 : cs[i] = IF i = m + 1 THEN b ELSE bs[i]
  BY <1>1, <1>2, AppendProperties
<1>4. /\ DOMAIN cs = 1..m + 1 /\ m + 1 \in 1..m + 1 /\ cs[m + 1] = b
      /\ \A i \in 1..m : i \in DOMAIN cs /\ cs[i] = bs[i]
      /\ \A i \in 1..m + 1 : i \in 1..m \/ i = m + 1
  BY <1>2, <1>3
<1>5. turn \in TurnType /\ turn.role = "user" /\ turn.blocks = cs
  BY <1>1, <1>3 DEF TurnType
<1>6. n + 1 \in 1..n + 1
  OBVIOUS
<1>7. ResultsFrom(cs, L, n + 1, g, l)
  <2>1. SUFFICES ASSUME NEW i \in 1..m + 1
                 PROVE  \E k \in 1..n + 1 : g[k] = l /\ ToolAt(L, k) /\ cs[i] = ResultOf(L[k])
    BY <1>4 DEF ResultsFrom
  <2>2. CASE i = m + 1
    BY <1>4, <1>6, <2>2
  <2>3. CASE i \in 1..m
    <3>1. ResultsFrom(bs, L, n + 1, g, l)
      BY <1>1, ResultsFromLonger
    <3>2. QED
      BY <1>2, <1>4, <2>3, <3>1 DEF ResultsFrom
  <2>4. QED
    BY <1>4, <2>2, <2>3
<1>8. HasResult(cs, L[n + 1])
  BY <1>4 DEF HasResult
<1>9. ASSUME NEW k \in 1..n, h[k] = l, HasResult(bs, L[k]) PROVE ResultsIn(turn, L, n + 1, g, k)
  <2>1. HasResult(cs, L[k])
    BY <1>2, <1>4, <1>9 DEF HasResult
  <2>2. QED
    BY <1>5, <1>7, <1>9, <2>1 DEF ResultsIn
<1>10. ResultsIn(turn, L, n + 1, g, n + 1)
  BY <1>5, <1>7, <1>8 DEF ResultsIn
<1>11. QED
  BY <1>1, <1>5, <1>9, <1>10

Merges(turns) ==
    /\ turns # <<>>
    /\ Last(turns).role = "user"
    /\ Last(turns).blocks # <<>>
    /\ Head(Last(turns).blocks).type = "tool_result"

LEMMA MessagesFor ==
    ASSUME NEW L, ForAnthropic(L), NEW k \in 1..Len(L)
    PROVE  L[k] \in MessageType /\ Plain(L[k]) /\ L[k].role \in {"user", "assistant", "tool"}
BY DEF ForAnthropic, ListOK

LEMMA Merging ==
    ASSUME NEW L, ForAnthropic(L), NEW n \in Nat, n <= Len(L), NEW T, NEW h, TurnsOf(T, L, n, h)
    PROVE  /\ Merges(T) <=> n > 0 /\ ToolAt(L, n)
           /\ n > 0 => /\ T[Len(T)] \in TurnType /\ Len(T) \in 1..Len(T) /\ h[n] = Len(T) /\ n \in 1..n
                       /\ TurnFor(T, L, n, h, n)
<1>1. PICK l : l = Len(T)
  OBVIOUS
<1>2. /\ T \in Seq(TurnType) /\ h \in [1..n -> 1..l] /\ l \in Nat
      /\ n = 0 => l = 0
      /\ n > 0 => h[n] = l
  BY <1>1 DEF TurnsOf, Sized
<1>3. CASE n = 0
  <2>1. T = <<>>
    BY <1>1, <1>2, <1>3
  <2>2. QED
    BY <1>3, <2>1 DEF Merges
<1>4. CASE n > 0
  <2>1. n \in 1..n /\ h[n] = l /\ l \in 1..l /\ T[l] \in TurnType /\ TurnFor(T, L, n, h, n)
    <3>1. n \in 1..n /\ h[n] = l
      BY <1>2, <1>4
    <3>2. h[n] \in 1..l
      BY <1>2, <3>1
    <3>3. l \in 1..l /\ T[l] \in TurnType
      BY <1>1, <1>2, <3>1, <3>2
    <3>4. TurnFor(T, L, n, h, n)
      BY <3>1 DEF TurnsOf
    <3>5. QED
      BY <3>1, <3>3, <3>4
  <2>2. PICK turn, bs : turn = T[l] /\ bs = turn.blocks
    OBVIOUS
  <2>3. T # <<>> /\ Last(T) = turn
    BY <1>1, <1>2, <2>1, <2>2 DEF Last
  <2>4. bs \in Seq(PartLike) /\ Len(bs) \in Nat /\ DOMAIN bs = 1..Len(bs)
    BY <2>1, <2>2 DEF TurnType
  <2>5. bs # <<>> => 1 \in DOMAIN bs /\ Head(bs) = bs[1]
    BY <2>4
  <2>6. Merges(T) <=> turn.role = "user" /\ bs # <<>> /\ bs[1].type = "tool_result"
    BY <2>2, <2>3, <2>5 DEF Merges
  <2>7. ASSUME NEW k \in 1..n PROVE L[k] \in MessageType /\ Plain(L[k]) /\ L[k].role \in {"user", "assistant", "tool"}
    <3>1. Len(L) \in Nat
      BY DEF ForAnthropic, ListOK
    <3>2. k \in 1..Len(L)
      BY <3>1
    <3>3. QED
      BY <3>2, MessagesFor
  <2>8. CASE ToolAt(L, n)
    <3>1. turn.role = "user" /\ HasResult(bs, L[n]) /\ ResultsFrom(bs, L, n, h, l)
      BY <2>1, <2>2, <2>8 DEF TurnFor, ResultsIn
    <3>2. bs # <<>>
      BY <2>4, <3>1 DEF HasResult
    <3>3. PICK k \in 1..n : ToolAt(L, k) /\ bs[1] = ResultOf(L[k])
      BY <2>5, <3>1, <3>2 DEF ResultsFrom
    <3>4. PICK m, b : m = L[k] /\ b = bs[1]
      OBVIOUS
    <3>5. m \in MessageType /\ Plain(m) /\ m.role = "tool" /\ b = ResultOf(m)
      BY <2>7, <3>3, <3>4 DEF ToolAt
    <3>6. b.type = "tool_result"
      BY <3>5, ResultBlock
    <3>7. Merges(T)
      BY <2>6, <3>1, <3>2, <3>4, <3>6
    <3>8. QED
      BY <1>1, <1>4, <2>1, <2>8, <3>7
  <2>9. CASE ~ToolAt(L, n)
    <3>1. PICK m : m = L[n]
      OBVIOUS
    <3>2. turn = Converted(m)
      BY <2>1, <2>2, <2>9, <3>1 DEF TurnFor
    <3>3. m \in MessageType /\ m.role \in {"user", "assistant"}
      BY <2>1, <2>7, <2>9, <3>1 DEF ToolAt
    <3>4. DOMAIN turn.blocks = 1..Len(m.blocks) /\ \A i \in 1..Len(m.blocks) : turn.blocks[i].type # "tool_result"
      BY <3>2, <3>3, ConvertedTurn
    <3>5. ~Merges(T)
      BY <2>2, <2>5, <2>6, <3>4
    <3>6. QED
      BY <1>1, <1>4, <2>1, <2>9, <3>5
  <2>10. QED
    BY <2>8, <2>9
<1>5. QED
  BY <1>3, <1>4

LEMMA TurnsStep ==
    ASSUME NEW L, ForAnthropic(L), NEW n \in Nat, n + 1 \in 1..Len(L), NEW T, NEW h, TurnsOf(T, L, n, h),
           NEW T2, T2 = AnthropicTurns(T, L[n + 1])
    PROVE  \E g : TurnsOf(T2, L, n + 1, g)
<1>1. PICK m, l, b : m = L[n + 1] /\ l = Len(T) /\ b = ResultOf(m)
  OBVIOUS
<1>2. m \in MessageType /\ Plain(m) /\ m.role \in {"user", "assistant", "tool"}
  BY <1>1, MessagesFor
<1>3. Sized(T, n, h) /\ Ordered(L, n, h) /\ \A k \in 1..n : TurnFor(T, L, n, h, k)
  BY DEF TurnsOf
<1>4. l \in Nat /\ h \in [1..n -> 1..l] /\ T \in Seq(TurnType)
  BY <1>1, <1>3 DEF Sized
<1>5. \A k \in 1..n + 1 : k \in 1..n \/ k = n + 1
  OBVIOUS
<1>6. /\ Merges(T) <=> n > 0 /\ ToolAt(L, n)
      /\ n > 0 => /\ T[Len(T)] \in TurnType /\ Len(T) \in 1..Len(T) /\ h[n] = Len(T) /\ n \in 1..n
                  /\ TurnFor(T, L, n, h, n)
  <2>1. n <= Len(L)
    <3>1. Len(L) \in Nat
      BY DEF ForAnthropic, ListOK
    <3>2. QED
      BY <3>1
  <2>2. QED
    BY <2>1, Merging
(* A turn t of its own.                                                    *)
<1>7. ASSUME NEW t \in TurnType, T2 = Append(T, t), n > 0 => ~(ToolAt(L, n) /\ ToolAt(L, n + 1)),
             \A g : IF ToolAt(L, n + 1) THEN ResultsIn(t, L, n + 1, g, n + 1) ELSE t = Converted(m)
      PROVE  \E g : TurnsOf(T2, L, n + 1, g)
  <2>1. PICK g : g = PlaceNext(n, h, l + 1)
    OBVIOUS
  <2>2. Ordered(L, n + 1, g)
    BY <1>3, <1>4, <1>7, <2>1, OrderedNew
  <2>3. /\ Sized(T2, n + 1, g) /\ T2[g[n + 1]] = t
        /\ \A k \in 1..n : T2[g[k]] = T[h[k]] /\ g[k] = h[k]
    <3>1. g = PlaceNext(n, h, Len(T) + 1)
      BY <1>1, <2>1
    <3>2. t \in TurnType /\ Sized(T, n, h) /\ T2 = Append(T, t)
      BY <1>3, <1>7
    <3>3. Grown(T, T2, n, h, g, t)
      BY <3>1, <3>2, SizedNew
    <3>4. QED
      BY <3>3 DEF Grown
  <2>4. \A k \in 1..n : TurnFor(T2, L, n + 1, g, k)
    BY <1>3, <2>3, TurnForLonger
  <2>5. TurnFor(T2, L, n + 1, g, n + 1)
    BY <1>1, <1>7, <2>3 DEF TurnFor
  <2>6. TurnsOf(T2, L, n + 1, g)
    BY <1>5, <2>2, <2>3, <2>4, <2>5 DEF TurnsOf
  <2>7. QED
    BY <2>6
<1>8. CASE m.role # "tool"
  <2>1. PICK t : t = Converted(m)
    OBVIOUS
  <2>2. t \in TurnType
    BY <1>2, <1>8, <2>1, ConvertedTurn
  <2>3. T2 = Append(T, t)
    BY <1>1, <1>8, <2>1 DEF AnthropicTurns, Converted
  <2>4. ~ToolAt(L, n + 1)
    BY <1>1, <1>8 DEF ToolAt
  <2>5. QED
    BY <1>7, <2>1, <2>2, <2>3, <2>4
<1>9. CASE m.role = "tool" /\ ~Merges(T)
  <2>1. PICK t : t = Turn("user", <<b>>)
    OBVIOUS
  <2>2. b \in PartLike
    BY <1>1, <1>2, <1>9, ResultBlock
  <2>3. ToolAt(L, n + 1)
    BY <1>1, <1>9 DEF ToolAt
  <2>4. t \in TurnType /\ \A g : ResultsIn(t, L, n + 1, g, n + 1)
    BY <1>1, <2>1, <2>2, <2>3, ResultAlone
  <2>5. T2 = Append(T, t)
    <3>1. T2 = AppendToolResult(T, m)
      BY <1>1, <1>9 DEF AnthropicTurns
    <3>2. QED
      BY <1>1, <1>9, <2>1, <3>1, Zenon DEF AppendToolResult, Merges, ResultOf
  <2>6. QED
    BY <1>6, <1>7, <1>9, <2>3, <2>4, <2>5
<1>10. CASE m.role = "tool" /\ Merges(T)
  <2>1. n > 0 /\ ToolAt(L, n) /\ ToolAt(L, n + 1)
    BY <1>1, <1>6, <1>10 DEF ToolAt
  <2>2. PICK old : old = T[l]
    OBVIOUS
  <2>3. PICK t : t = [old EXCEPT !.blocks = Append(@, b)]
    OBVIOUS
  <2>4. PICK g : g = PlaceNext(n, h, l)
    OBVIOUS
  <2>5. old \in TurnType /\ l \in 1..l /\ h[n] = l /\ n \in 1..n
    BY <1>1, <1>6, <2>1, <2>2
  <2>6. old.role = "user" /\ ResultsFrom(old.blocks, L, n, h, l)
    BY <1>1, <1>6, <2>1, <2>2, <2>5 DEF TurnFor, ResultsIn
  <2>7. b \in PartLike /\ b = ResultOf(L[n + 1])
    BY <1>1, <1>2, <1>10, ResultBlock
  <2>8. g[n + 1] = l /\ \A k \in 1..n : g[k] = h[k]
    BY <1>4, <2>4 DEF PlaceNext
  <2>9. /\ t \in TurnType /\ ResultsIn(t, L, n + 1, g, n + 1)
        /\ \A k \in 1..n : h[k] = l /\ HasResult(old.blocks, L[k]) => ResultsIn(t, L, n + 1, g, k)
    BY <2>1, <2>3, <2>5, <2>6, <2>7, <2>8, ResultJoins
  <2>10. T2 = [T EXCEPT ![l] = t]
    <3>1. T2 = AppendToolResult(T, m)
      BY <1>1, <1>10 DEF AnthropicTurns
    <3>2. T2 = [T EXCEPT ![l].blocks = Append(@, b)]
      BY <1>1, <1>10, <3>1, Zenon DEF AppendToolResult, Merges, ResultOf
    <3>3. QED
      BY <2>2, <2>3, <2>5, <3>2
  <2>11. Ordered(L, n + 1, g)
    BY <1>3, <1>4, <2>1, <2>4, <2>5, OrderedJoined
  <2>12. /\ Sized(T2, n + 1, g) /\ T2[g[n + 1]] = t /\ g[n + 1] = Len(T)
         /\ \A k \in 1..n : g[k] = h[k] /\ T2[g[k]] = IF h[k] = Len(T) THEN t ELSE T[h[k]]
    <3>1. g = PlaceNext(n, h, Len(T))
      BY <1>1, <2>4
    <3>2. t \in TurnType /\ Sized(T, n, h) /\ n > 0 /\ T2 = [T EXCEPT ![Len(T)] = t]
      BY <1>1, <1>3, <2>1, <2>9, <2>10
    <3>3. Joined(T, T2, n, h, g, t)
      BY <3>1, <3>2, SizedJoined
    <3>4. QED
      BY <3>3 DEF Joined
  <2>13. ASSUME NEW k \in 1..n PROVE TurnFor(T2, L, n + 1, g, k)
    <3>1. CASE h[k] # l
      <4>1. T2[g[k]] = T[h[k]]
        BY <1>1, <2>12, <3>1
      <4>2. QED
        BY <1>3, <2>8, <4>1, TurnForLonger
    <3>2. CASE h[k] = l
      <4>1. T2[g[k]] = t
        BY <1>1, <2>12, <3>2
      <4>2. ToolAt(L, k)
        <5>1. k <= n /\ (k = n \/ \A i \in k..n : ToolAt(L, i))
          BY <1>3, <2>5, <3>2 DEF Ordered
        <5>2. k \in k..n
          BY <5>1
        <5>3. QED
          BY <2>1, <5>1, <5>2
      <4>3. HasResult(old.blocks, L[k])
        <5>1. TurnFor(T, L, n, h, k)
          BY <1>3
        <5>2. QED
          BY <2>2, <3>2, <4>2, <5>1 DEF TurnFor, ResultsIn
      <4>4. ResultsIn(t, L, n + 1, g, k)
        BY <2>9, <3>2, <4>3
      <4>5. QED
        BY <4>1, <4>2, <4>4 DEF TurnFor
    <3>3. QED
      BY <3>1, <3>2
  <2>14. TurnFor(T2, L, n + 1, g, n + 1)
    BY <2>1, <2>9, <2>12 DEF TurnFor
  <2>15. TurnsOf(T2, L, n + 1, g)
    BY <1>5, <2>11, <2>12, <2>13, <2>14 DEF TurnsOf
  <2>16. QED
    BY <2>15
<1>11. QED
  BY <1>2, <1>8, <1>9, <1>10

LEMMA AnthropicTurnsOf ==
    ASSUME NEW L, ForAnthropic(L), NEW T, T = FoldLeft(AnthropicTurns, <<>>, L)
    PROVE  \E h : TurnsOf(T, L, Len(L), h)
<1>1. L \in Seq(MessageType) /\ Len(L) \in Nat
  BY DEF ForAnthropic, ListOK
<1>2. PICK I : /\ FoldLeft(AnthropicTurns, <<>>, L) = I[1..Len(L)] /\ I[1..0] = <<>>
               /\ \A k \in Nat : k < Len(L) => FoldStep(I, L, k)
  BY <1>1, TurnsFolded
<1> DEFINE S == {n \in Nat : n <= Len(L) => \E h : TurnsOf(I[1..n], L, n, h)}
<1>3. 0 \in S
  BY <1>2, TurnsNone
<1>4. ASSUME NEW n \in Nat, n \in S PROVE n + 1 \in S
  <2>1. SUFFICES ASSUME n + 1 <= Len(L) PROVE \E g : TurnsOf(I[1..n + 1], L, n + 1, g)
    OBVIOUS
  <2>2. PICK T1, T2 : T1 = I[1..n] /\ T2 = I[1..n + 1]
    OBVIOUS
  <2>3. n <= Len(L) /\ n < Len(L) /\ n + 1 \in 1..Len(L)
    BY <1>1, <2>1
  <2>4. PICK h : TurnsOf(T1, L, n, h)
    BY <1>4, <2>2, <2>3
  <2>5. FoldStep(I, L, n)
    BY <1>2, <2>3
  <2>6. T2 = AnthropicTurns(T1, L[n + 1])
    BY <2>2, <2>5 DEF FoldStep
  <2> HIDE DEF S
  <2>7. \E g : TurnsOf(T2, L, n + 1, g)
    BY <2>3, <2>4, <2>6, TurnsStep
  <2>8. QED
    BY <2>2, <2>7
<1>5. Nat \subseteq S
  <2> HIDE DEF S
  <2>1. QED
    BY <1>3, <1>4, Reach
<1>6. Len(L) \in S
  <2> HIDE DEF S
  <2>1. QED
    BY <1>1, <1>5
<1>7. Len(L) <= Len(L)
  BY <1>1
<1>8. QED
  BY <1>2, <1>6, <1>7

LEMMA AnthropicReply ==
    ASSUME NEW parts \in Seq(PartType), NEW m \in MessageType, Like(m, from_response("anthropic", parts)),
           NEW turn, turn = Converted(m)
    PROVE  /\ turn.role = "assistant"
           /\ turn.blocks \in Seq(PartLike) /\ Len(turn.blocks) = Len(parts) /\ Len(m.blocks) = Len(parts)
           /\ DOMAIN turn.blocks = DOMAIN parts
           /\ \A i \in DOMAIN parts : turn.blocks[i].of = parts[i].of /\ turn.blocks[i].type = parts[i].type
<1>1. PICK f : f = from_response("anthropic", parts)
  OBVIOUS
<1>2. /\ f \in MessageType /\ f.role = "assistant" /\ f.id = 0 /\ f.tool_calls = <<>>
      /\ Len(f.blocks) = Len(parts)
      /\ \A i \in 1..Len(parts) : f.blocks[i] = parts[i]
  BY <1>1, from_responseAnthropic
<1>3. /\ m.role = "assistant" /\ Len(m.blocks) = Len(parts)
      /\ \A i \in 1..Len(parts) : m.blocks[i].type = parts[i].type /\ m.blocks[i].of = parts[i].of
  BY <1>1, <1>2 DEF Like
<1>4. DOMAIN parts = 1..Len(parts)
  OBVIOUS
<1>5. PICK bs : bs = turn.blocks
  OBVIOUS
<1>6. /\ turn \in TurnType /\ turn.role = m.role /\ bs \in Seq(PartLike)
      /\ DOMAIN bs = 1..Len(m.blocks) /\ Len(bs) = Len(m.blocks)
      /\ \A i \in 1..Len(m.blocks) : bs[i].type = m.blocks[i].type /\ bs[i].of = m.blocks[i].of
  <2>1. m.role \in {"user", "assistant"}
    BY <1>3
  <2>2. /\ turn \in TurnType /\ turn.role = m.role /\ turn.blocks \in Seq(PartLike)
        /\ DOMAIN turn.blocks = 1..Len(m.blocks) /\ Len(turn.blocks) = Len(m.blocks)
        /\ \A i \in 1..Len(m.blocks) : /\ turn.blocks[i].type = m.blocks[i].type /\ turn.blocks[i].of = m.blocks[i].of
                                       /\ turn.blocks[i].type # "tool_result"
                                       /\ turn.blocks[i].cached <=> /\ m.blocks[i].cached
                                                                    /\ m.blocks[i].type \notin {"text", "image_url"}
    BY <2>1, ConvertedTurn
  <2>3. QED
    BY <1>5, <2>2
<1>7. QED
  BY <1>3, <1>4, <1>5, <1>6

LEMMA AnthropicReplyIds ==
    ASSUME NEW parts \in Seq(PartType), NEW m \in MessageType, Like(m, from_response("anthropic", parts)),
           NEW turn, turn = Converted(m)
    PROVE  IdsOf(turn, ResultTypes) = {} /\ IdsOf(turn, CallTypes) = CallsIn(parts)
<1>1. PICK bs : bs = turn.blocks
  OBVIOUS
<1>2. /\ DOMAIN bs = DOMAIN parts
      /\ \A i \in DOMAIN parts : bs[i].of = parts[i].of /\ bs[i].type = parts[i].type
  BY <1>1, AnthropicReply
<1>3. \A i \in DOMAIN parts : parts[i].type \in PartTypes
  BY Part
<1>4. \A i \in DOMAIN parts : /\ bs[i].type \in CallTypes <=> parts[i].type = "tool_use"
                              /\ bs[i].type \notin ResultTypes
  BY <1>2, <1>3 DEF PartTypes, CallTypes, ResultTypes
<1>5. DOMAIN turn.blocks = DOMAIN parts
  BY <1>1, <1>2
<1>6. \A i \in DOMAIN parts : /\ turn.blocks[i].of = parts[i].of
                              /\ turn.blocks[i].type \in CallTypes <=> parts[i].type = "tool_use"
                              /\ turn.blocks[i].type \notin ResultTypes
  BY <1>1, <1>2, <1>4
<1>7. QED
  BY <1>5, <1>6, ReplyTurnIds

LEMMA ConvertedPlainIds ==
    ASSUME NEW m \in MessageType, Plain(m), m.role = "user", NEW turn, turn = Converted(m)
    PROVE  IdsOf(turn, ResultTypes) = {} /\ IdsOf(turn, CallTypes) = {}
<1>1. PICK bs : bs = turn.blocks
  OBVIOUS
<1>2. DOMAIN bs = 1..Len(m.blocks) /\ \A i \in 1..Len(m.blocks) : bs[i].type = m.blocks[i].type
  <2>1. m.role \in {"user", "assistant"}
    OBVIOUS
  <2>2. /\ turn \in TurnType /\ turn.role = m.role /\ turn.blocks \in Seq(PartLike)
        /\ DOMAIN turn.blocks = 1..Len(m.blocks) /\ Len(turn.blocks) = Len(m.blocks)
        /\ \A i \in 1..Len(m.blocks) : /\ turn.blocks[i].type = m.blocks[i].type /\ turn.blocks[i].of = m.blocks[i].of
                                       /\ turn.blocks[i].type # "tool_result"
                                       /\ turn.blocks[i].cached <=> /\ m.blocks[i].cached
                                                                    /\ m.blocks[i].type \notin {"text", "image_url"}
    BY <2>1, ConvertedTurn
  <2>3. QED
    BY <1>1, <2>2
<1>3. \A i \in 1..Len(m.blocks) : m.blocks[i].type \in {"text", "image_url"}
  BY DEF Plain
<1>4. Without(bs, ResultTypes) /\ Without(bs, CallTypes)
  BY <1>2, <1>3 DEF Without, ResultTypes, CallTypes
<1>5. QED
  BY <1>1, <1>4, IdsOfNone

(* Of the messages of a turn, one with the result of a call.               *)
InTurn(L, n, h, t, id) == \E j \in 1..n : h[j] = t /\ ToolAt(L, j) /\ L[j].id = id
HoldsResults(turn, L, n, h, t) ==
    /\ \A id : id \in IdsOf(turn, ResultTypes) <=> InTurn(L, n, h, t, id)
    /\ IdsOf(turn, CallTypes) = {}

LEMMA ResultsTurnIds ==
    ASSUME NEW L, ForAnthropic(L), NEW n, n = Len(L), NEW T, NEW h, TurnsOf(T, L, n, h), NEW k \in 1..n, ToolAt(L, k),
           NEW turn, turn = T[h[k]]
    PROVE  HoldsResults(turn, L, n, h, h[k])
<1>1. ASSUME NEW j \in 1..n, ToolAt(L, j), NEW b, b = ResultOf(L[j]) PROVE b.type = "tool_result" /\ b.of = L[j].id
  <2>1. PICK m : m = L[j]
    OBVIOUS
  <2>2. m \in MessageType /\ Plain(m) /\ m.role = "tool"
    BY <1>1, <2>1, MessagesFor DEF ToolAt
  <2>3. b.type = "tool_result" /\ b.of = m.id
    BY <1>1, <2>1, <2>2, ResultBlock
  <2>4. QED
    BY <2>1, <2>3
<1>2. PICK bs : bs = turn.blocks
  OBVIOUS
<1>3. ResultsFrom(bs, L, n, h, h[k])
  BY <1>2 DEF TurnsOf, TurnFor, ResultsIn
<1>4. ASSUME NEW i \in DOMAIN bs
      PROVE  bs[i].type = "tool_result" /\ \E j \in 1..n : h[j] = h[k] /\ ToolAt(L, j) /\ bs[i].of = L[j].id
  BY <1>1, <1>3 DEF ResultsFrom
<1>5. ASSUME NEW j \in 1..n, h[j] = h[k], ToolAt(L, j)
      PROVE  \E i \in DOMAIN bs : bs[i].type = "tool_result" /\ bs[i].of = L[j].id
  <2>1. TurnFor(T, L, n, h, j) /\ T[h[j]] = turn
    BY <1>5 DEF TurnsOf
  <2>2. HasResult(bs, L[j])
    BY <1>2, <1>5, <2>1 DEF TurnFor, ResultsIn
  <2>3. PICK i \in DOMAIN bs : bs[i] = ResultOf(L[j])
    BY <2>2 DEF HasResult
  <2>4. QED
    BY <1>1, <1>5, <2>3
<1>6. \A id : Has(bs, ResultTypes, id) <=> \E j \in 1..n : h[j] = h[k] /\ ToolAt(L, j) /\ L[j].id = id
  <2>1. "tool_result" \in ResultTypes
    BY DEF ResultTypes
  <2>2. SUFFICES ASSUME NEW id
                 PROVE  Has(bs, ResultTypes, id) <=> \E j \in 1..n : h[j] = h[k] /\ ToolAt(L, j) /\ L[j].id = id
    OBVIOUS
  <2>3. ASSUME Has(bs, ResultTypes, id) PROVE \E j \in 1..n : h[j] = h[k] /\ ToolAt(L, j) /\ L[j].id = id
    BY <1>4, <2>3 DEF Has
  <2>4. ASSUME NEW j \in 1..n, h[j] = h[k], ToolAt(L, j), L[j].id = id PROVE Has(bs, ResultTypes, id)
    BY <1>5, <2>1, <2>4 DEF Has
  <2>5. QED
    BY <2>3, <2>4
<1>7. Without(bs, CallTypes)
  BY <1>4 DEF Without, CallTypes
<1>8. IdsOf(turn, CallTypes) = {}
  BY <1>2, <1>7, IdsOfNone
<1>9. \A id : id \in IdsOf(turn, ResultTypes) <=> Has(bs, ResultTypes, id)
  BY <1>2, IdsOfHas
<1>10. QED
  BY <1>6, <1>8, <1>9 DEF HoldsResults, InTurn

(* What the turns hold of results and calls, by message.                   *)
TurnsHold(T, L, n, h, z, rs) ==
    /\ \A k \in 1..n : ToolAt(L, k) => HoldsResults(T[h[k]], L, n, h, h[k])
    /\ \A k \in 1..n : ~ToolAt(L, k) => IdsOf(T[h[k]], ResultTypes) = {}
    /\ \A k \in 1..n : IdsOf(T[h[k]], CallTypes) # {} => \E r \in 1..Len(rs) : z[r] = k
    /\ \A r \in 1..Len(rs) : IdsOf(T[h[z[r]]], CallTypes) = CallsIn(rs[r].parts)

LEMMA AnthropicHold ==
    ASSUME NEW L, ForAnthropic(L), NEW rs, RepliesOK(rs), NEW z, Follows(z, L, rs, Len(rs)),
           \A r \in 1..Len(rs) : rs[r].by = "anthropic",
           NEW n, n = Len(L), NEW T, NEW h, TurnsOf(T, L, n, h)
    PROVE  TurnsHold(T, L, n, h, z, rs)
<1>1. ListOK(L)
  BY DEF ForAnthropic
<1>2. /\ \A r \in 1..Len(rs) : /\ z[r] \in 1..Len(L) /\ L[z[r]] \in MessageType /\ L[z[r]].role = "assistant"
                               /\ rs[r].parts \in Seq(PartType)
                               /\ Like(L[z[r]], from_response(rs[r].by, rs[r].parts))
      /\ \A k \in 1..Len(L) : L[k] \in MessageType /\ Plain(L[k])
      /\ \A k \in 1..Len(L) : L[k].role = "assistant" => \E r \in 1..Len(rs) : z[r] = k
  <2>1. RepliesIn(L, z, rs)
    BY <1>1, RepliesAt
  <2>2. QED
    BY <2>1 DEF RepliesIn
<1>3. \A k \in 1..n : TurnFor(T, L, n, h, k)
  BY DEF TurnsOf
<1>4. ASSUME NEW r \in 1..Len(rs)
      PROVE  IdsOf(T[h[z[r]]], ResultTypes) = {} /\ IdsOf(T[h[z[r]]], CallTypes) = CallsIn(rs[r].parts)
  <2>1. PICK m, p, t, k : m = L[k] /\ p = rs[r].parts /\ t = T[h[k]] /\ k = z[r]
    OBVIOUS
  <2>2. /\ m \in MessageType /\ p \in Seq(PartType) /\ rs[r].by = "anthropic" /\ k \in 1..n
        /\ m.role = "assistant" /\ Like(m, from_response(rs[r].by, p))
    BY <1>2, <2>1
  <2>3. Like(m, from_response("anthropic", p))
    BY <2>2
  <2>4. t = Converted(m)
    BY <1>3, <2>1, <2>2 DEF TurnFor, ToolAt
  <2>5. IdsOf(t, ResultTypes) = {} /\ IdsOf(t, CallTypes) = CallsIn(p)
    BY <2>2, <2>3, <2>4, AnthropicReplyIds
  <2>6. QED
    BY <2>1, <2>5
<1>5. ASSUME NEW k \in 1..n, L[k].role = "user"
      PROVE  IdsOf(T[h[k]], ResultTypes) = {} /\ IdsOf(T[h[k]], CallTypes) = {}
  <2>1. PICK m, t : m = L[k] /\ t = T[h[k]]
    OBVIOUS
  <2>2. m \in MessageType /\ Plain(m) /\ m.role = "user"
    BY <1>2, <1>5, <2>1
  <2>3. t = Converted(m)
    BY <1>3, <1>5, <2>1 DEF TurnFor, ToolAt
  <2>4. IdsOf(t, ResultTypes) = {} /\ IdsOf(t, CallTypes) = {}
    BY <2>2, <2>3, ConvertedPlainIds
  <2>5. QED
    BY <2>1, <2>4
<1>6. ASSUME NEW k \in 1..n, ToolAt(L, k) PROVE HoldsResults(T[h[k]], L, n, h, h[k])
  BY <1>6, ResultsTurnIds
<1>7. \A k \in 1..n : L[k].role \in {"user", "assistant", "tool"}
  BY MessagesFor
<1>8. \A k \in 1..n : L[k].role = "assistant" => \E r \in 1..Len(rs) : z[r] = k
  BY <1>2
<1>9. \A k \in 1..n : ~ToolAt(L, k) => IdsOf(T[h[k]], ResultTypes) = {}
  <2>1. SUFFICES ASSUME NEW k \in 1..n, ~ToolAt(L, k) PROVE IdsOf(T[h[k]], ResultTypes) = {}
    OBVIOUS
  <2>2. L[k].role = "user" \/ L[k].role = "assistant"
    BY <1>7, <2>1 DEF ToolAt
  <2>3. CASE L[k].role = "assistant"
    <3>1. PICK r \in 1..Len(rs) : z[r] = k
      BY <1>8, <2>3
    <3>2. QED
      BY <1>4, <3>1
  <2>4. QED
    BY <1>5, <2>2, <2>3
<1>10. \A k \in 1..n : IdsOf(T[h[k]], CallTypes) # {} => \E r \in 1..Len(rs) : z[r] = k
  BY <1>5, <1>6, <1>7, <1>8 DEF ToolAt, HoldsResults
<1>11. QED
  BY <1>4, <1>6, <1>9, <1>10 DEF TurnsHold

(* Results in the turn that follows the calls, all of them.                *)
InNext(turns) ==
    /\ \A i \in DOMAIN turns : \A id \in IdsOf(turns[i], ResultTypes) :
          \E j \in 1..i - 1 : id \in IdsOf(turns[j], CallTypes)
    /\ \A j \in DOMAIN turns :
          IdsOf(turns[j], CallTypes) # {} =>
            j + 1 <= Len(turns) /\ IdsOf(turns[j + 1], ResultTypes) = IdsOf(turns[j], CallTypes)

LEMMA AnthropicInNext ==
    ASSUME NEW L, ForAnthropic(L), NEW rs, RepliesOK(rs), NEW z, Follows(z, L, rs, Len(rs)),
           \A r \in 1..Len(rs) : rs[r].by = "anthropic",
           NEW n, n = Len(L), NEW T, NEW h, TurnsOf(T, L, n, h)
    PROVE  InNext(T)
<1>1. TurnsHold(T, L, n, h, z, rs)
  BY AnthropicHold
<1>2. PICK l, m : l = Len(T) /\ m = Len(rs)
  OBVIOUS
<1>3. /\ n \in Nat /\ T \in Seq(TurnType) /\ h \in [1..n -> 1..l] /\ l \in Nat /\ DOMAIN T = 1..l
      /\ \A t \in 1..l : \E k \in 1..n : h[k] = t
      /\ \A k \in 1..n : k + 1 \in 1..n => h[k + 1] <= h[k] + 1
  BY <1>2 DEF TurnsOf, Sized
<1>4. \A k \in 1..n : h[k] \in 1..l /\ h[k] \in Nat
  BY <1>3
<1>5. Ordered(L, n, h)
  BY DEF TurnsOf
<1>6. ListOK(L) /\ \A k \in 1..Len(L) : L[k].role # "cache_point"
  BY DEF ForAnthropic
<1>7. \A r \in 1..m : z[r] \in 1..n /\ ~ToolAt(L, z[r])
  <2>1. RepliesIn(L, z, rs)
    BY <1>6, RepliesAt
  <2>2. QED
    BY <1>2, <2>1 DEF RepliesIn, ToolAt
(* A turn ends before any later message that is not another result.        *)
<1>8. ASSUME NEW j \in 1..n, NEW k \in 1..n, j < k, ~ToolAt(L, j) PROVE h[j] < h[k]
  <2>1. j <= k /\ j \in j..k /\ j # k
    BY <1>3, <1>8
  <2>2. h[j] <= h[k] /\ h[j] # h[k]
    BY <1>5, <1>8, <2>1 DEF Ordered
  <2>3. QED
    BY <1>4, <2>2
<1>9. ASSUME NEW i \in DOMAIN T, NEW id \in IdsOf(T[i], ResultTypes)
      PROVE  \E j \in 1..i - 1 : id \in IdsOf(T[j], CallTypes)
  <2>1. PICK k \in 1..n : h[k] = i
    BY <1>3
  <2>2. ToolAt(L, k)
    BY <1>1, <1>9, <2>1 DEF TurnsHold
  <2>3. PICK j \in 1..n : h[j] = i /\ ToolAt(L, j) /\ L[j].id = id
    <3>1. HoldsResults(T[h[k]], L, n, h, h[k])
      BY <1>1, <2>2 DEF TurnsHold
    <3>2. InTurn(L, n, h, i, id)
      BY <1>9, <2>1, <3>1 DEF HoldsResults
    <3>3. QED
      BY <3>2 DEF InTurn
  <2>4. j \in Results(L)
    <3>1. DOMAIN L = 1..n
      BY <1>6 DEF ListOK
    <3>2. QED
      BY <2>3, <3>1 DEF Results, ToolAt
  <2>5. PICK r \in 1..m : Answers(z, L, rs, r, j)
    BY <1>2, <2>4 DEF Follows, Answering
  <2>6. z[r] < j /\ id \in CallsIn(rs[r].parts)
    BY <2>3, <2>5 DEF Answers
  <2>7. h[z[r]] < i /\ h[z[r]] \in 1..l
    BY <1>4, <1>7, <1>8, <2>3, <2>6
  <2>8. h[z[r]] \in 1..i - 1
    BY <1>3, <2>7
  <2>9. id \in IdsOf(T[h[z[r]]], CallTypes)
    BY <1>1, <1>2, <2>6 DEF TurnsHold
  <2>10. QED
    BY <2>8, <2>9
<1>10. ASSUME NEW j \in DOMAIN T, NEW calls, calls = IdsOf(T[j], CallTypes), calls # {}
       PROVE  j + 1 <= Len(T) /\ IdsOf(T[j + 1], ResultTypes) = calls
  <2>1. PICK k \in 1..n : h[k] = j
    BY <1>3
  <2>2. PICK r \in 1..m : z[r] = k
    BY <1>1, <1>2, <1>10, <2>1 DEF TurnsHold
  <2>3. calls = CallsIn(rs[r].parts) /\ ~ToolAt(L, k)
    BY <1>1, <1>2, <1>7, <1>10, <2>1, <2>2 DEF TurnsHold
  <2>4. Run(L, k, calls)
    <3>1. r \in 1..Len(rs)
      BY <1>2
    <3>2. Run(L, z[r], calls)
      BY <1>6, <2>3, <3>1, ResultsRun
    <3>3. QED
      BY <2>2, <3>2
  <2>5. PICK c, R : c = Cardinality(calls) /\ R = ResultsOf(L, calls)
    OBVIOUS
  <2>6. c \in Nat /\ R = k + 1..k + c /\ k \in Nat /\ \A id : id \in calls <=> \E i \in R : L[i].id = id
    <3>1. \A id : id \in calls <=> \E i \in ResultsOf(L, calls) : L[i].id = id
      BY <2>4 DEF Run
    <3>2. \A id : id \in calls <=> \E i \in R : L[i].id = id
      BY <2>5, <3>1
    <3>3. c \in Nat /\ R = k + 1..k + c /\ k \in Nat
      BY <1>3, <2>4, <2>5 DEF Run
    <3>4. QED
      BY <3>2, <3>3
  <2>7. \A i \in R : i \in 1..n /\ ToolAt(L, i)
    <3>1. DOMAIN L = 1..n
      BY <1>6 DEF ListOK
    <3>2. QED
      BY <2>5, <3>1 DEF ResultsOf, Results, ToolAt
  <2>8. R # {}
    BY <1>10, <2>6
  <2>9. k + 1 \in R
    BY <2>6, <2>8
  <2>10. k + 1 \in 1..n /\ ToolAt(L, k + 1)
    BY <2>7, <2>9
  <2>11. h[k + 1] = j + 1
    <3>1. h[k] < h[k + 1]
      BY <1>8, <2>3, <2>6, <2>10
    <3>2. h[k + 1] <= h[k] + 1
      BY <1>3, <2>10
    <3>3. QED
      BY <1>4, <2>1, <2>10, <3>1, <3>2
  <2>12. j + 1 <= l
    BY <1>4, <1>3, <2>10, <2>11
  <2>13. \A id : id \in IdsOf(T[j + 1], ResultTypes) <=> InTurn(L, n, h, j + 1, id)
    <3>1. HoldsResults(T[h[k + 1]], L, n, h, h[k + 1])
      BY <1>1, <2>10 DEF TurnsHold
    <3>2. HoldsResults(T[j + 1], L, n, h, j + 1)
      BY <2>11, <3>1
    <3>3. QED
      BY <3>2 DEF HoldsResults
  <2>14. ASSUME NEW i \in 1..n, h[i] = j + 1, ToolAt(L, i) PROVE L[i].id \in calls
    <3>1. k < i
      <4>1. SUFFICES ASSUME ~(k < i) PROVE FALSE
        OBVIOUS
      <4>2. i <= k
        BY <2>6, <4>1
      <4>3. h[i] <= h[k]
        BY <1>5, <4>2 DEF Ordered
      <4>4. QED
        BY <1>4, <2>1, <2>14, <4>3
    <3>2. k + 1 <= i
      BY <2>6, <3>1
    <3>3. k + 1 = i \/ \A x \in k + 1..i : ToolAt(L, x)
      BY <1>5, <2>10, <2>11, <2>14, <3>2 DEF Ordered
    <3>4. \A x \in k + 1..i : L[x].role = "tool"
      <4>1. CASE k + 1 = i
        <5>1. \A x \in k + 1..i : x = i
          BY <2>6, <4>1
        <5>2. QED
          BY <2>14, <5>1 DEF ToolAt
      <4>2. CASE \A x \in k + 1..i : ToolAt(L, x)
        BY <4>2 DEF ToolAt
      <4>3. QED
        BY <3>3, <4>1, <4>2
    <3>5. i \in Results(L) /\ L[i].id \in CallsIn(rs[r].parts)
      <4>1. r \in 1..Len(rs) /\ i \in 1..Len(L) /\ z[r] < i /\ \A x \in z[r] + 1..i : L[x].role = "tool"
        BY <1>2, <2>2, <3>1, <3>4
      <4>2. QED
        BY <1>6, <4>1, RunOwner
    <3>6. QED
      BY <2>3, <3>5
  <2>15. ASSUME NEW id \in calls PROVE \E i \in 1..n : h[i] = j + 1 /\ ToolAt(L, i) /\ L[i].id = id
    <3>1. PICK i \in R : L[i].id = id
      BY <2>6
    <3>2. i \in 1..n /\ ToolAt(L, i) /\ k + 1 <= i
      BY <2>6, <2>7, <3>1
    <3>3. \A x \in k + 1..i : x \in R
      BY <2>6, <3>1
    <3>4. \A x \in k + 1..i : ToolAt(L, x)
      BY <2>7, <3>3
    <3>5. h[k + 1] = h[i]
      BY <1>5, <2>10, <3>2, <3>4 DEF Ordered
    <3>6. QED
      BY <2>11, <3>1, <3>2, <3>5
  <2>16. \A id : id \in IdsOf(T[j + 1], ResultTypes) <=> id \in calls
    BY <2>13, <2>14, <2>15 DEF InTurn
  <2>17. QED
    BY <1>2, <2>12, <2>16
<1>11. QED
  BY <1>9, <1>10 DEF InNext

LEMMA AnthropicInTurns == ASSUME TalkInv, Sent, Native, at = "anthropic" PROVE InNext(body.turns) /\ DOMAIN body.turns \subseteq Nat
<1>1. PICK W, L, T, rs : /\ W = WithoutPoints(messages) /\ L = BesidesRole(W, "system")
                         /\ T = body.turns /\ rs = replies
  OBVIOUS
<1>2. /\ Readable(L, rs, (Roles \ {"cache_point"}) \ {"system"})
      /\ body = build_request(at, W) /\ RepliesOK(rs)
  BY <1>1, SentReadable
<1>3. body = AnthropicBody(W)
  BY <1>2 DEF build_request
<1>4. ForAnthropic(L)
  BY <1>2 DEF Readable, ForAnthropic, Roles
<1>5. PICK z : Follows(z, L, rs, Len(rs))
  BY <1>2 DEF Readable
<1>6. \A r \in 1..Len(rs) : rs[r].by = "anthropic"
  BY <1>1, <1>2, ReplyFacts DEF Native
<1>7. T = FoldLeft(AnthropicTurns, <<>>, L)
  BY <1>1, <1>3 DEF AnthropicBody, Body
<1>8. PICK h : TurnsOf(T, L, Len(L), h)
  BY <1>4, <1>7, AnthropicTurnsOf
<1>9. InNext(T)
  BY <1>2, <1>4, <1>5, <1>6, <1>8, AnthropicInNext
<1>10. T \in Seq(TurnType)
  BY <1>8 DEF TurnsOf, Sized
<1>11. QED
  BY <1>1, <1>9, <1>10

LEMMA ResultsInTurns == TalkInv => ResultsFollowCalls
<1>1. SUFFICES ASSUME TalkInv, Sent, Native, at \in {"openai", "anthropic", "google"},
                      NEW turns, turns = body.turns
               PROVE  /\ \A i \in DOMAIN turns : \A id \in IdsOf(turns[i], ResultTypes) :
                             \E j \in 1..i - 1 : id \in IdsOf(turns[j], CallTypes)
                      /\ \A j \in DOMAIN turns :
                            LET calls == IdsOf(turns[j], CallTypes)
                                last == IF at = "anthropic" THEN j + 1 ELSE j + Cardinality(calls)
                            IN  calls # {} =>
                                  /\ last <= Len(turns)
                                  /\ UNION {IdsOf(turns[i], ResultTypes) : i \in j + 1..last} = calls
  BY DEF ResultsFollowCalls
<1>2. CASE at = "anthropic"
  <2>1. InNext(turns) /\ DOMAIN turns \subseteq Nat
    BY <1>1, <1>2, AnthropicInTurns
  <2>3. ASSUME NEW j \in DOMAIN turns, IdsOf(turns[j], CallTypes) # {}
        PROVE  /\ j + 1 <= Len(turns)
               /\ UNION {IdsOf(turns[i], ResultTypes) : i \in j + 1..j + 1} = IdsOf(turns[j], CallTypes)
    <3>1. j + 1 <= Len(turns) /\ IdsOf(turns[j + 1], ResultTypes) = IdsOf(turns[j], CallTypes)
      BY <2>1, <2>3 DEF InNext
    <3>2. j + 1..j + 1 = {j + 1}
      BY <2>1
    <3>3. QED
      BY <3>1, <3>2
  <2>4. QED
    BY <1>2, <2>1, <2>3 DEF InNext
<1>3. CASE at # "anthropic"
  <2>1. InPlace(turns)
    BY <1>1, <1>3, OpenaiInPlace, GoogleInPlace
  <2>2. QED
    BY <1>3, <2>1 DEF InPlace
<1>4. QED
  BY <1>2, <1>3

(* Whoever replied in a conversation with one provider, each result sent   *)
(* to OpenAI, Anthropic or Google is to a call of an earlier turn, and     *)
(* the results to the calls of a turn, all of them, come right after it.   *)
THEOREM ResultsAfterCalls == TalkSpec => []ResultsFollowCalls
<1>1. TalkInv => ResultsFollowCalls
  BY ResultsInTurns
<1>2. QED
  BY <1>1, TalkInvariance, PTL

-----------------------------------------------------------------------------
(***************************************************************************)
(* The parts of a reply on the wire.  A sequence that lists a set in order *)
(* is the only one that does.                                              *)
(***************************************************************************)
StartsAs(h, m, g, n) == n <= m /\ \A k \in 1..n : g[k] = h[k]

LEMMA ListsWithin ==
    ASSUME NEW P \in SUBSET Nat, NEW g, NEW n, Lists(g, n, P), NEW h, NEW m, Lists(h, m, P)
    PROVE  StartsAs(h, m, g, n)
<1>1. n \in Nat /\ m \in Nat
  BY DEF Lists
<1>2. \A k \in 1..n : g[k] \in P /\ g[k] \in Nat
  BY ListsOrder
<1>3. \A k \in 1..m : h[k] \in P /\ h[k] \in Nat
  BY ListsOrder
<1> DEFINE S == {k \in Nat : k <= n => k <= m /\ \A i \in 1..k : g[i] = h[i]}
<1>4. 0 \in S
  BY <1>1
<1>5. ASSUME NEW k \in Nat, k \in S PROVE k + 1 \in S
  <2>1. SUFFICES ASSUME k + 1 <= n PROVE k + 1 <= m /\ \A i \in 1..k + 1 : g[i] = h[i]
    OBVIOUS
  <2>2. k <= m /\ \A i \in 1..k : g[i] = h[i]
    BY <1>1, <1>5, <2>1
  <2>3. k + 1 \in 1..n /\ 1 \in 1..n
    BY <1>1, <2>1
  <2> HIDE DEF S
  <2>4. PICK x : x = g[k + 1]
    OBVIOUS
  <2>5. x \in P /\ x \in Nat
    BY <1>2, <2>3, <2>4
  <2>6. k + 1 \in 1..m /\ h[k + 1] = x
    <3>1. CASE k = 0
      <4>1. PICK j \in 1..m : h[j] = x
        BY <2>5 DEF Lists
      <4>2. 1 \in 1..m
        BY <1>1, <4>1
      <4>3. ~(h[j] < h[1])
        BY <1>1, <4>1, <4>2, ListsOrder
      <4>4. PICK i \in 1..n : g[i] = h[1]
        BY <1>3, <4>2 DEF Lists
      <4>5. ~(g[i] < g[1])
        <5>1. i \in 1..n /\ ~(i < 1)
          BY <1>1
        <5>2. QED
          BY <2>3, <5>1, ListsOrder
      <4>6. h[1] = x
        BY <1>3, <2>4, <2>5, <3>1, <4>1, <4>2, <4>3, <4>4, <4>5
      <4>7. QED
        BY <3>1, <4>2, <4>6
    <3>2. CASE k > 0
      <4>1. k \in 1..n /\ k \in 1..m /\ k < k + 1
        BY <1>1, <2>2, <2>3, <3>2
      <4>2. h[k] = g[k]
        BY <2>2, <3>2
      <4>3. g[k] < x
        BY <2>3, <2>4, <4>1, ListsOrder
      <4>4. ASSUME NEW y \in P, g[k] < y, y < x PROVE FALSE
        <5>1. PICK i \in 1..n : g[i] = y
          BY DEF Lists
        <5>2. k < i
          BY <4>1, <4>4, <5>1, ListsOrder
        <5>3. i < k + 1
          BY <2>3, <2>4, <4>4, <5>1, ListsOrder
        <5>4. QED
          BY <5>2, <5>3
      <4>5. h[k] < x /\ \A y \in P : ~(h[k] < y /\ y < x)
        BY <4>2, <4>3, <4>4
      <4>6. QED
        BY <2>5, <4>1, <4>5, ListsNext
    <3>3. QED
      BY <3>1, <3>2
  <2>7. \A i \in 1..k + 1 : i \in 1..k \/ i = k + 1
    OBVIOUS
  <2>8. QED
    BY <1>1, <2>2, <2>4, <2>6, <2>7
<1>6. Nat \subseteq S
  <2> HIDE DEF S
  <2>1. QED
    BY <1>4, <1>5, Reach
<1>7. n \in S
  <2> HIDE DEF S
  <2>1. QED
    BY <1>1, <1>6
<1>8. QED
  BY <1>1, <1>7 DEF StartsAs

LEMMA ChosenListed ==
    ASSUME NEW s, NEW size \in Nat, DOMAIN s = 1..size, NEW P \in SUBSET (1..size), NEW g, NEW n, Lists(g, n, P)
    PROVE  Picks(Chosen(s, P), s, g, n, P)
<1>1. P \in SUBSET Nat /\ P \subseteq Nat
  OBVIOUS
<1>2. IsFiniteSet(P)
  <2>1. IsFiniteSet(1..size)
    BY FS_Interval
  <2>2. QED
    BY <2>1, FS_Subset
<1>3. PICK c, e : c = Cardinality(P) /\ e = [k \in 1..c |-> Nth(P, k)]
  OBVIOUS
<1>4. Lists(e, c, P)
  <2>1. Lists([k \in 1..Cardinality(P) |-> Nth(P, k)], Cardinality(P), P)
    BY <1>1, <1>2, NthLists
  <2>2. QED
    BY <1>3, <2>1
<1>5. c \in Nat /\ n \in Nat
  BY <1>4 DEF Lists
<1>6. StartsAs(g, n, e, c)
  BY <1>1, <1>4, ListsWithin
<1>7. StartsAs(e, c, g, n)
  BY <1>1, <1>4, ListsWithin
<1>8. c = n
  BY <1>5, <1>6, <1>7 DEF StartsAs
<1>9. \A k \in 1..n : Nth(P, k) = g[k]
  BY <1>3, <1>7, <1>8 DEF StartsAs
<1>10. Chosen(s, P) = [k \in 1..n |-> s[Nth(P, k)]]
  BY <1>3, <1>8 DEF Chosen
<1>11. Chosen(s, P) = [k \in 1..n |-> s[g[k]]]
  BY <1>9, <1>10
<1>12. QED
  BY <1>11 DEF Picks

LEMMA ShiftedLists ==
    ASSUME NEW a \in Nat, NEW l \in Nat
    PROVE  Lists([k \in 1..l |-> a + k], l, a + 1..a + l)
<1>1. PICK g : g = [k \in 1..l |-> a + k]
  OBVIOUS
<1>2. \A k \in 1..l : g[k] = a + k /\ a + k \in a + 1..a + l
  BY <1>1
<1>3. g \in [1..l -> a + 1..a + l]
  BY <1>1, <1>2
<1>4. ASSUME NEW x \in a + 1..a + l PROVE \E i \in 1..l : g[i] = x
  <2>1. x - a \in 1..l /\ a + (x - a) = x
    OBVIOUS
  <2>2. QED
    BY <1>2, <2>1
<1>5. \A i, j \in 1..l : i < j => g[i] < g[j]
  BY <1>2
<1>6. Lists(g, l, a + 1..a + l)
  BY <1>3, <1>4, <1>5 DEF Lists
<1>7. QED
  BY <1>1, <1>6

(* The blocks of these types stand for what the parts of this type do.     *)
Same(bs, types, parts, type) == Stand(OfType(bs, types)) = Stand(OfType(parts, {type}))

LEMMA SamePlaces ==
    ASSUME NEW parts \in Seq(PartType), NEW bs, DOMAIN bs = DOMAIN parts, NEW types, NEW type,
           \A i \in DOMAIN parts : bs[i].of = parts[i].of /\ (bs[i].type \in types <=> parts[i].type = type)
    PROVE  Same(bs, types, parts, type)
<1>1. PICK P : P = {i \in DOMAIN parts : parts[i].type \in {type}}
  OBVIOUS
<1>2. {i \in DOMAIN bs : bs[i].type \in types} = P
  BY <1>1
<1>3. PICK l : l = Len(parts)
  OBVIOUS
<1>4. l \in Nat /\ DOMAIN parts = 1..l /\ P \subseteq 1..l
  BY <1>1, <1>3
<1>5. P \subseteq Nat /\ IsFiniteSet(P)
  <2>1. IsFiniteSet(1..l)
    BY <1>4, FS_Interval
  <2>2. P \in SUBSET (1..l)
    BY <1>4
  <2>3. IsFiniteSet(P)
    BY <2>1, <2>2, FS_Subset
  <2>4. QED
    BY <1>4, <2>3
<1>6. PICK c, e : c = Cardinality(P) /\ e = [k \in 1..c |-> Nth(P, k)]
  OBVIOUS
<1>7. Lists(e, c, P)
  <2>1. Lists([k \in 1..Cardinality(P) |-> Nth(P, k)], Cardinality(P), P)
    BY <1>5, NthLists
  <2>2. QED
    BY <1>6, <2>1
<1>8. \A k \in 1..c : Nth(P, k) \in P
  BY <1>6, <1>7 DEF Lists
<1>9. PICK x, y : x = OfType(bs, types) /\ y = OfType(parts, {type})
  OBVIOUS
<1>10. x = [k \in 1..c |-> bs[Nth(P, k)]] /\ y = [k \in 1..c |-> parts[Nth(P, k)]]
  BY <1>1, <1>2, <1>6, <1>9 DEF OfType, Chosen
<1>11. DOMAIN x = 1..c /\ DOMAIN y = 1..c /\ \A k \in 1..c : x[k].of = y[k].of
  BY <1>1, <1>8, <1>10
<1>12. Stand(x) = Stand(y)
  BY <1>11 DEF Stand, Each
<1>13. QED
  BY <1>9, <1>12 DEF Same

LEMMA SameFrom ==
    ASSUME NEW parts, NEW bs, NEW size \in Nat, DOMAIN bs = 1..size, NEW types, NEW type,
           NEW a \in Nat, NEW l \in Nat, a + l <= size,
           DOMAIN OfType(parts, {type}) = 1..l,
           \A i \in 1..size : bs[i].type \in types <=> a < i /\ i <= a + l,
           \A k \in 1..l : bs[a + k].of = OfType(parts, {type})[k].of
    PROVE  Same(bs, types, parts, type)
<1>1. PICK P : P = {i \in DOMAIN bs : bs[i].type \in types}
  OBVIOUS
<1>2. P = a + 1..a + l
  <2>1. ASSUME NEW i PROVE i \in P <=> i \in a + 1..a + l
    <3>1. i \in P <=> i \in 1..size /\ a < i /\ i <= a + l
      BY <1>1
    <3>2. QED
      BY <3>1
  <2>2. QED
    BY <2>1
<1>3. PICK g : g = [k \in 1..l |-> a + k]
  OBVIOUS
<1>4. Lists(g, l, P)
  <2>1. Lists([k \in 1..l |-> a + k], l, a + 1..a + l)
    BY ShiftedLists
  <2>2. QED
    BY <1>2, <1>3, <2>1
<1>5. P \in SUBSET (1..size)
  BY <1>1
<1>6. PICK x, y : x = OfType(bs, types) /\ y = OfType(parts, {type})
  OBVIOUS
<1>7. Picks(x, bs, g, l, P)
  <2>1. Picks(Chosen(bs, P), bs, g, l, P)
    BY <1>4, <1>5, ChosenListed
  <2>2. x = Chosen(bs, P)
    BY <1>1, <1>6 DEF OfType
  <2>3. QED
    BY <2>1, <2>2
<1>8. x = [k \in 1..l |-> bs[a + k]]
  BY <1>3, <1>7 DEF Picks
<1>9. DOMAIN x = 1..l /\ DOMAIN y = 1..l /\ \A k \in 1..l : x[k].of = y[k].of
  BY <1>6, <1>8
<1>10. Stand(x) = Stand(y)
  BY <1>9 DEF Stand, Each
<1>11. QED
  BY <1>6, <1>10 DEF Same

(* The replies are the turns that a model is said to have written, in      *)
(* their order.                                                            *)
Voiced(turns) == {i \in DOMAIN turns : turns[i].role \in {"assistant", "model"}}
Replayed(turns, y, rs, names, types) ==
    /\ DOMAIN turns = 1..Len(turns) /\ Len(turns) \in Nat
    /\ Lists(y, Len(rs), Voiced(turns))
    /\ \A r \in 1..Len(rs), type \in types : Same(turns[y[r]].blocks, names[type], rs[r].parts, type)

LEMMA ReplayedTurns ==
    ASSUME NEW turns, NEW y, NEW rs, NEW names, NEW types, Replayed(turns, y, rs, names, types),
           Len(rs) \in Nat, NEW said, said = OfRole(turns, {"assistant", "model"})
    PROVE  /\ Len(said) = Len(rs)
           /\ \A r \in 1..Len(rs), type \in types :
                 Stand(OfType(said[r].blocks, names[type])) = Stand(OfType(rs[r].parts, {type}))
<1>1. PICK P, n, size : P = Voiced(turns) /\ n = Len(rs) /\ size = Len(turns)
  OBVIOUS
<1>2. DOMAIN turns = 1..size /\ size \in Nat /\ Lists(y, n, P) /\ P \in SUBSET (1..size) /\ n \in Nat
  BY <1>1 DEF Replayed, Voiced
<1>3. Picks(said, turns, y, n, P)
  <2>1. Picks(Chosen(turns, P), turns, y, n, P)
    BY <1>2, ChosenListed
  <2>2. said = Chosen(turns, P)
    BY <1>1 DEF OfRole, Voiced
  <2>3. QED
    BY <2>1, <2>2
<1>4. said = [r \in 1..n |-> turns[y[r]]]
  BY <1>3 DEF Picks
<1>5. Len(said) = n /\ \A r \in 1..n : said[r] = turns[y[r]]
  BY <1>2, <1>4
<1>6. QED
  BY <1>1, <1>5 DEF Replayed, Same

(* What the wire format of a provider takes up of a reply.                 *)
KeptTypes(p) == IF p = "openai-responses" THEN {"text"} ELSE AsOnWire[p]
AsReplied(turn, p, parts) ==
    \A type \in KeptTypes(p) : Same(turn.blocks, WireTypes[type], parts, type)

LEMMA Kept ==
    /\ KeptTypes("openai") = {"text", "tool_use"} /\ KeptTypes("anthropic") = {"thinking", "text", "tool_use"}
    /\ KeptTypes("google") = {"thinking", "tool_use"}
    /\ KeptTypes("openai-responses") = {"text"} /\ KeptTypes("bedrock") = {"text"}
    /\ WireTypes["thinking"] = {"thinking", "thought"} /\ WireTypes["text"] = {"text", "output_text"}
    /\ WireTypes["tool_use"] = {"tool_use", "functionCall"}
BY DEF KeptTypes, AsOnWire, WireTypes

TypedParts(u, type) ==
    /\ u \in Seq(PartType) /\ Len(u) \in Nat /\ DOMAIN u = 1..Len(u)
    /\ \A k \in 1..Len(u) : u[k].type = type /\ u[k] \in PartType

LEMMA OfTypeTypes ==
    ASSUME NEW parts \in Seq(PartType), NEW type, NEW u, u = OfType(parts, {type})
    PROVE  TypedParts(u, type)
<1>1. u \in Seq(PartType) /\ \A k \in DOMAIN u : u[k].type \in {type}
  BY OfTypeIn
<1>2. Len(u) \in Nat /\ DOMAIN u = 1..Len(u)
  BY <1>1, LenProperties
<1>3. \A k \in DOMAIN u : u[k] \in PartType
  BY <1>1, ElementOfSeq
<1>4. QED
  BY <1>1, <1>2, <1>3 DEF TypedParts

LEMMA OfTypeTyped ==
    ASSUME NEW parts \in Seq(PartType), NEW type, NEW u, u = OfType(parts, {type})
    PROVE  /\ u \in Seq(PartType) /\ Len(u) \in Nat /\ DOMAIN u = 1..Len(u)
           /\ \A k \in 1..Len(u) : u[k].type = type /\ u[k] \in PartType
<1>1. TypedParts(u, type)
  BY OfTypeTypes
<1>2. QED
  BY <1>1 DEF TypedParts

(* A message like the reply of an OpenAI, or Bedrock, client.              *)
ChatLike(m, texts, calls) ==
    /\ m.role = "assistant" /\ m.blocks \in Seq(BlockType)
    /\ DOMAIN m.blocks = 1..Len(texts) /\ Len(m.blocks) = Len(texts)
    /\ \A i \in 1..Len(texts) : m.blocks[i].type = "text" /\ m.blocks[i].of = texts[i].of
    /\ DOMAIN m.tool_calls = 1..Len(calls)
    /\ \A i \in 1..Len(calls) : m.tool_calls[i] = calls[i].of

LEMMA LikeChat ==
    ASSUME NEW p, p \notin {"anthropic", "google", "openai-responses"},
           NEW parts \in Seq(PartType), NEW m \in MessageType, Like(m, from_response(p, parts)),
           NEW texts, texts = OfType(parts, {"text"}), NEW calls, calls = OfType(parts, {"tool_use"})
    PROVE  ChatLike(m, texts, calls)
<1>1. PICK f : f = from_response(p, parts)
  OBVIOUS
<1>2. /\ f \in MessageType /\ f.role = "assistant" /\ f.id = 0
      /\ f.blocks = Texts(parts)
      /\ f.tool_calls = [i \in DOMAIN CallParts(parts) |-> CallParts(parts)[i].of]
      /\ f.tool_calls \in Seq(Nat)
  BY <1>1, from_responseOther
<1>3. f.blocks = texts /\ f.tool_calls = [i \in DOMAIN calls |-> calls[i].of]
  BY <1>2 DEF Texts, CallParts
<1>4. \A k \in 1..Len(texts) : texts[k].type = "text"
  BY OfTypeTyped
<1>5. DOMAIN calls = 1..Len(calls)
  BY OfTypeTyped
<1>6. /\ m.role = "assistant" /\ Len(m.blocks) = Len(texts) /\ m.tool_calls = f.tool_calls
      /\ \A i \in 1..Len(texts) : m.blocks[i].type = texts[i].type /\ m.blocks[i].of = texts[i].of
  BY <1>1, <1>2, <1>3 DEF Like
<1>7. m.blocks \in Seq(BlockType) /\ DOMAIN m.blocks = 1..Len(m.blocks)
  BY MessageFields
<1>8. QED
  BY <1>3, <1>4, <1>5, <1>6, <1>7 DEF ChatLike

LEMMA ChatReplied ==
    ASSUME NEW parts \in Seq(PartType), NEW m \in MessageType, Like(m, from_response("openai", parts)),
           NEW turn, turn = ChatTurn(m)
    PROVE  AsReplied(turn, "openai", parts)
<1>1. PICK texts, calls, bs, cs : /\ texts = OfType(parts, {"text"}) /\ calls = OfType(parts, {"tool_use"})
                                  /\ bs = m.blocks /\ cs = Calls(m, "tool_use")
  OBVIOUS
<1>2. ChatLike(m, texts, calls)
  <2>1. "openai" \notin {"anthropic", "google", "openai-responses"}
    OBVIOUS
  <2>2. QED
    BY <1>1, <2>1, LikeChat
<1>3. PICK l, c : l = Len(texts) /\ c = Len(calls)
  OBVIOUS
<1>4. l \in Nat /\ c \in Nat /\ DOMAIN texts = 1..l /\ DOMAIN calls = 1..c
  BY <1>1, <1>3, OfTypeTyped
<1>5. "tool_use" \in BlockTypes
  BY DEF BlockTypes, PartTypes
<1>6. /\ cs \in Seq(BlockType) /\ DOMAIN cs = DOMAIN m.tool_calls
      /\ \A i \in DOMAIN cs : cs[i].type = "tool_use" /\ cs[i].of = m.tool_calls[i]
  BY <1>1, <1>5, CallsBlocks
<1>7. cs \in Seq(BlockType) /\ DOMAIN cs = 1..c /\ \A i \in 1..c : cs[i].type = "tool_use" /\ cs[i].of = calls[i].of
  BY <1>2, <1>3, <1>6 DEF ChatLike
<1>8. bs \in Seq(BlockType) /\ Len(bs) = l /\ \A i \in 1..l : bs[i].type = "text" /\ bs[i].of = texts[i].of
  BY <1>1, <1>2, <1>3 DEF ChatLike
<1>9. Len(cs) = c
  BY <1>4, <1>7, LenProperties
<1>10. PICK b : b = bs \o cs
  OBVIOUS
<1>11. Len(b) = l + c /\ DOMAIN b = 1..l + c /\ \A i \in 1..l + c : b[i] = IF i <= l THEN bs[i] ELSE cs[i - l]
  <2>1. bs \in Seq(BlockType) /\ cs \in Seq(BlockType)
    BY <1>7, <1>8
  <2>2. /\ bs \o cs \in Seq(BlockType) /\ Len(bs \o cs) = Len(bs) + Len(cs)
        /\ \A i \in 1..Len(bs) + Len(cs) : (bs \o cs)[i] = IF i <= Len(bs) THEN bs[i] ELSE cs[i - Len(bs)]
    BY <2>1, ConcatProperties
  <2>3. b \in Seq(BlockType) /\ Len(b) = l + c /\ \A i \in 1..l + c : b[i] = IF i <= l THEN bs[i] ELSE cs[i - l]
    BY <1>8, <1>9, <1>10, <2>2
  <2>4. QED
    BY <2>3, LenProperties
<1>12. DOMAIN b = 1..l + c
  BY <1>11
<1>13. \A i \in 1..l : b[i].type = "text" /\ b[i].of = texts[i].of
  BY <1>4, <1>8, <1>11
<1>14. ASSUME NEW i \in 1..l + c, l < i PROVE b[i].type = "tool_use" /\ b[i].of = calls[i - l].of /\ i - l \in 1..c
  <2>1. i - l \in 1..c /\ ~(i <= l)
    BY <1>4, <1>14
  <2>2. QED
    BY <1>7, <1>11, <2>1
<1>15. turn.blocks = b
  BY <1>1, <1>2, <1>10 DEF ChatTurn, Turn, ChatLike
<1>16. Same(b, {"text", "output_text"}, parts, "text")
  <2>1. \A i \in 1..l + c : b[i].type \in {"text", "output_text"} <=> 0 < i /\ i <= 0 + l
    BY <1>4, <1>13, <1>14
  <2>2. \A k \in 1..l : b[0 + k].of = OfType(parts, {"text"})[k].of
    BY <1>1, <1>4, <1>13
  <2>3. l + c \in Nat /\ 0 + l <= l + c /\ 0 \in Nat
    BY <1>4
  <2>4. DOMAIN OfType(parts, {"text"}) = 1..l
    BY <1>1, <1>4
  <2>5. QED
    BY <1>4, <1>12, <2>1, <2>2, <2>3, <2>4, SameFrom
<1>17. Same(b, {"tool_use", "functionCall"}, parts, "tool_use")
  <2>1. \A i \in 1..l + c : b[i].type \in {"tool_use", "functionCall"} <=> l < i /\ i <= l + c
    BY <1>4, <1>13, <1>14
  <2>2. \A k \in 1..c : b[l + k].of = OfType(parts, {"tool_use"})[k].of
    <3>1. SUFFICES ASSUME NEW k \in 1..c PROVE b[l + k].of = calls[k].of
      BY <1>1
    <3>2. l + k \in 1..l + c /\ l < l + k /\ (l + k) - l = k
      BY <1>4
    <3>3. QED
      BY <1>14, <3>2
  <2>3. l + c \in Nat /\ l + c <= l + c
    BY <1>4
  <2>4. DOMAIN OfType(parts, {"tool_use"}) = 1..c
    BY <1>1, <1>4
  <2>5. QED
    BY <1>4, <1>12, <2>1, <2>2, <2>3, <2>4, SameFrom
<1>18. QED
  BY <1>15, <1>16, <1>17, Kept DEF AsReplied

LEMMA AnthropicReplied ==
    ASSUME NEW parts \in Seq(PartType), NEW m \in MessageType, Like(m, from_response("anthropic", parts)),
           NEW turn, turn = Converted(m)
    PROVE  AsReplied(turn, "anthropic", parts)
<1>1. PICK bs : bs = turn.blocks
  OBVIOUS
<1>2. /\ DOMAIN bs = DOMAIN parts
      /\ \A i \in DOMAIN parts : bs[i].of = parts[i].of /\ bs[i].type = parts[i].type
  BY <1>1, AnthropicReply
<1>3. \A i \in DOMAIN parts : parts[i].type \in {"thinking", "text", "tool_use"}
  BY Part DEF PartTypes
<1>4. Same(bs, {"thinking", "thought"}, parts, "thinking")
  BY <1>2, <1>3, SamePlaces
<1>5. Same(bs, {"text", "output_text"}, parts, "text")
  BY <1>2, <1>3, SamePlaces
<1>6. Same(bs, {"tool_use", "functionCall"}, parts, "tool_use")
  BY <1>2, <1>3, SamePlaces
<1>7. QED
  BY <1>1, <1>4, <1>5, <1>6, Kept DEF AsReplied

LEMMA GoogleReplied ==
    ASSUME NEW parts \in Seq(PartType), NEW m \in MessageType, Like(m, from_response("google", parts)),
           NEW turn, turn = GoogleTurn(m)
    PROVE  AsReplied(turn, "google", parts)
<1>1. PICK bs : bs = turn.blocks
  OBVIOUS
<1>2. /\ DOMAIN bs = DOMAIN parts
      /\ \A i \in DOMAIN parts : /\ bs[i].of = parts[i].of
                                 /\ bs[i].type = CASE parts[i].type = "text" -> "printed"
                                                   [] parts[i].type = "thinking" -> "thought"
                                                   [] OTHER -> "functionCall"
  BY <1>1, GoogleReply
<1>3. \A i \in DOMAIN parts : parts[i].type \in {"thinking", "text", "tool_use"}
  BY Part DEF PartTypes
<1>4. Same(bs, {"thinking", "thought"}, parts, "thinking")
  BY <1>2, <1>3, SamePlaces
<1>5. Same(bs, {"tool_use", "functionCall"}, parts, "tool_use")
  BY <1>2, <1>3, SamePlaces
<1>6. QED
  BY <1>1, <1>4, <1>5, Kept DEF AsReplied

ResponsesTurn(m) ==
    IF m.role = "tool" THEN Turn("function_call_output", <<ToolOutput("tool_result", m)>>)
    ELSE Turn(IF m.role = "system" THEN "developer" ELSE m.role, m.blocks)

LEMMA BedrockReplied ==
    ASSUME NEW parts \in Seq(PartType), NEW m \in MessageType, Like(m, from_response("bedrock", parts)),
           NEW turn, turn = ResponsesTurn(m)
    PROVE  AsReplied(turn, "bedrock", parts)
<1>1. PICK texts, calls, bs : texts = OfType(parts, {"text"}) /\ calls = OfType(parts, {"tool_use"}) /\ bs = m.blocks
  OBVIOUS
<1>2. ChatLike(m, texts, calls)
  <2>1. "bedrock" \notin {"anthropic", "google", "openai-responses"}
    OBVIOUS
  <2>2. QED
    BY <1>1, <2>1, LikeChat
<1>3. PICK l : l = Len(texts)
  OBVIOUS
<1>4. l \in Nat /\ DOMAIN texts = 1..l
  BY <1>1, <1>3, OfTypeTyped
<1>5. DOMAIN bs = 1..l /\ \A i \in 1..l : bs[i].type = "text" /\ bs[i].of = texts[i].of
  BY <1>1, <1>2, <1>3 DEF ChatLike
<1>6. turn.blocks = bs
  BY <1>1, <1>2 DEF ResponsesTurn, Turn, ChatLike
<1>7. Same(bs, {"text", "output_text"}, parts, "text")
  <2>1. \A i \in 1..l : bs[i].type \in {"text", "output_text"} <=> 0 < i /\ i <= 0 + l
    BY <1>4, <1>5
  <2>2. \A k \in 1..l : bs[0 + k].of = OfType(parts, {"text"})[k].of
    BY <1>1, <1>4, <1>5
  <2>3. 0 + l <= l /\ 0 \in Nat
    BY <1>4
  <2>4. DOMAIN OfType(parts, {"text"}) = 1..l
    BY <1>1, <1>4
  <2>5. QED
    BY <1>4, <1>5, <2>1, <2>2, <2>3, <2>4, SameFrom
<1>8. QED
  BY <1>6, <1>7, Kept DEF AsReplied

LEMMA ResponsesReplied ==
    ASSUME NEW parts \in Seq(PartType), NEW m \in MessageType, Like(m, from_response("openai-responses", parts)),
           NEW turn, turn = ResponsesTurn(m)
    PROVE  AsReplied(turn, "openai-responses", parts)
<1>1. PICK texts, calls, bs, f : /\ texts = OfType(parts, {"text"}) /\ calls = OfType(parts, {"tool_use"})
                                 /\ bs = m.blocks /\ f = from_response("openai-responses", parts)
  OBVIOUS
<1>2. /\ f.role = "assistant" /\ Len(f.blocks) = Len(texts \o calls)
      /\ \A i \in 1..Len(f.blocks) : f.blocks[i] = Block(Responses[(texts \o calls)[i].type], (texts \o calls)[i].of)
  BY <1>1, from_responseResponses DEF Texts, CallParts
<1>3. PICK l, c : l = Len(texts) /\ c = Len(calls)
  OBVIOUS
<1>4. /\ texts \in Seq(PartType) /\ l \in Nat /\ DOMAIN texts = 1..l
      /\ \A k \in 1..l : texts[k].type = "text"
  <2>1. /\ texts \in Seq(PartType) /\ Len(texts) \in Nat /\ DOMAIN texts = 1..Len(texts)
        /\ \A k \in 1..Len(texts) : texts[k].type = "text" /\ texts[k] \in PartType
    <3>1. texts = OfType(parts, {"text"})
      BY <1>1
    <3>2. TypedParts(texts, "text")
      BY <3>1, OfTypeTypes
    <3>3. QED
      BY <3>2 DEF TypedParts
  <2>2. QED
    BY <1>3, <2>1
<1>5. /\ calls \in Seq(PartType) /\ c \in Nat /\ DOMAIN calls = 1..c
      /\ \A k \in 1..c : calls[k].type = "tool_use"
  <2>1. /\ calls \in Seq(PartType) /\ Len(calls) \in Nat /\ DOMAIN calls = 1..Len(calls)
        /\ \A k \in 1..Len(calls) : calls[k].type = "tool_use" /\ calls[k] \in PartType
    <3>1. calls = OfType(parts, {"tool_use"})
      BY <1>1
    <3>2. TypedParts(calls, "tool_use")
      BY <3>1, OfTypeTypes
    <3>3. QED
      BY <3>2 DEF TypedParts
  <2>2. QED
    BY <1>3, <2>1
<1>6. PICK u : u = texts \o calls
  OBVIOUS
<1>7. Len(u) = l + c /\ \A i \in 1..l + c : u[i] = IF i <= l THEN texts[i] ELSE calls[i - l]
  <2>1. /\ texts \o calls \in Seq(PartType) /\ Len(texts \o calls) = Len(texts) + Len(calls)
        /\ \A i \in 1..Len(texts) + Len(calls) :
              (texts \o calls)[i] = IF i <= Len(texts) THEN texts[i] ELSE calls[i - Len(texts)]
    BY <1>4, <1>5, ConcatProperties
  <2>2. QED
    BY <1>3, <1>6, <2>1
<1>8. /\ m.role = "assistant" /\ Len(bs) = l + c
      /\ \A i \in 1..l + c : bs[i].type = Responses[u[i].type] /\ bs[i].of = u[i].of
  <2>1. m.role = f.role /\ Len(bs) = Len(f.blocks)
        /\ \A i \in 1..Len(f.blocks) : bs[i].type = f.blocks[i].type /\ bs[i].of = f.blocks[i].of
    BY <1>1 DEF Like
  <2>2. \A i \in 1..l + c : f.blocks[i] = Block(Responses[u[i].type], u[i].of)
    BY <1>2, <1>6, <1>7
  <2>3. Len(f.blocks) = l + c
    BY <1>2, <1>6, <1>7
  <2>4. ASSUME NEW i \in 1..l + c PROVE bs[i].type = Responses[u[i].type] /\ bs[i].of = u[i].of
    <3>1. f.blocks[i].type = Responses[u[i].type] /\ f.blocks[i].of = u[i].of
      <4>1. PICK a, o : a = Responses[u[i].type] /\ o = u[i].of
        OBVIOUS
      <4>2. f.blocks[i] = Block(a, o)
        BY <2>2, <4>1
      <4>3. QED
        BY <4>1, <4>2 DEF Block
    <3>2. QED
      BY <2>1, <2>3, <3>1
  <2>5. QED
    BY <1>2, <2>1, <2>3, <2>4
<1>9. Responses["text"] = "output_text" /\ Responses["tool_use"] = "function_call"
  BY DEF Responses
<1>10. \A i \in 1..l : bs[i].type = "output_text" /\ bs[i].of = texts[i].of
  <2>1. SUFFICES ASSUME NEW i \in 1..l PROVE bs[i].type = "output_text" /\ bs[i].of = texts[i].of
    OBVIOUS
  <2>2. i \in 1..l + c /\ i <= l
    BY <1>4, <1>5
  <2>3. QED
    BY <1>4, <1>7, <1>8, <1>9, <2>2
<1>11. ASSUME NEW i \in 1..l + c, l < i PROVE bs[i].type = "function_call"
  <2>1. i - l \in 1..c /\ ~(i <= l)
    BY <1>4, <1>5, <1>11
  <2>2. QED
    BY <1>5, <1>7, <1>8, <1>9, <2>1
<1>12. DOMAIN bs = 1..l + c
  <2>1. m.blocks \in Seq(BlockType) /\ DOMAIN m.blocks = 1..Len(m.blocks)
    BY MessageFields
  <2>2. QED
    BY <1>1, <1>8, <2>1
<1>13. turn.blocks = bs
  BY <1>1, <1>8 DEF ResponsesTurn, Turn
<1>14. Same(bs, {"text", "output_text"}, parts, "text")
  <2>1. \A i \in 1..l + c : bs[i].type \in {"text", "output_text"} <=> 0 < i /\ i <= 0 + l
    BY <1>4, <1>5, <1>10, <1>11
  <2>2. \A k \in 1..l : bs[0 + k].of = OfType(parts, {"text"})[k].of
    BY <1>1, <1>4, <1>10
  <2>3. l + c \in Nat /\ 0 + l <= l + c /\ 0 \in Nat
    BY <1>4, <1>5
  <2>4. DOMAIN OfType(parts, {"text"}) = 1..l
    BY <1>1, <1>4
  <2>5. QED
    BY <1>4, <1>12, <2>1, <2>2, <2>3, <2>4, SameFrom
<1>15. QED
  BY <1>13, <1>14, Kept DEF AsReplied

LEMMA TurnRole == ASSUME NEW role, NEW blocks PROVE Turn(role, blocks).role = role
BY DEF Turn
LEMMA TurnRoles == ASSUME NEW m PROVE ChatTurn(m).role = m.role /\ Converted(m).role = m.role
BY TurnRole DEF ChatTurn, Converted

(* Where each message becomes a turn, replies are the turns of replies.    *)
Voices(turns, L) ==
    /\ DOMAIN turns = 1..Len(L) /\ Len(turns) = Len(L)
    /\ \A k \in 1..Len(L) : turns[k].role \in {"assistant", "model"} <=> L[k].role = "assistant"

LEMMA TurnsReplayed ==
    ASSUME NEW L, ListOK(L), NEW rs, RepliesOK(rs), NEW z, Follows(z, L, rs, Len(rs)),
           NEW turns, Voices(turns, L), NEW p, \A r \in 1..Len(rs) : AsReplied(turns[z[r]], p, rs[r].parts)
    PROVE  Replayed(turns, z, rs, WireTypes, KeptTypes(p))
<1>1. L \in Seq(MessageType) /\ DOMAIN L = 1..Len(L) /\ Len(L) \in Nat
  BY DEF ListOK
<1>2. Lists(z, Len(rs), Assistants(L))
  BY DEF Follows, Said
<1>3. Assistants(L) = Voiced(turns)
  BY <1>1 DEF Assistants, Voiced, Voices
<1>4. Lists(z, Len(rs), Voiced(turns))
  BY <1>2, <1>3
<1>5. DOMAIN turns = 1..Len(turns) /\ Len(turns) \in Nat
  BY <1>1 DEF Voices
<1>6. QED
  BY <1>4, <1>5 DEF Replayed, AsReplied

ReplyReplayed == \E y : Replayed(body.turns, y, replies, WireTypes, KeptTypes(at))

LEMMA OpenaiReplayed == ASSUME TalkInv, Sent, Native, at = "openai" PROVE ReplyReplayed
<1>1. PICK W, turns, rs : W = WithoutPoints(messages) /\ turns = body.turns /\ rs = replies
  OBVIOUS
<1>2. /\ Readable(W, rs, Roles \ {"cache_point"})
      /\ body = build_request(at, W) /\ RepliesOK(rs)
  BY <1>1, SentReadable
<1>3. body = ChatBody(W)
  BY <1>2 DEF build_request
<1>4. ListOK(W) /\ W \in Seq(MessageType)
  BY <1>2 DEF Readable, ListOK
<1>5. PICK z : Follows(z, W, rs, Len(rs))
  BY <1>2 DEF Readable
<1>6. \A r \in 1..Len(rs) : rs[r].by = "openai"
  BY <1>1, <1>2, ReplyFacts DEF Native
<1>7. turns = ChatBody(W).turns
  BY <1>1, <1>3
<1>8. DOMAIN turns = 1..Len(W) /\ Len(turns) = Len(W) /\ \A k \in 1..Len(W) : turns[k] = ChatTurn(W[k])
  BY <1>4, <1>7, ChatTurns
<1>9. Voices(turns, W)
  <2>1. \A k \in 1..Len(W) : turns[k].role = W[k].role
    BY <1>8, TurnRoles
  <2>2. \A k \in 1..Len(W) : W[k].role # "model"
    <3>1. \A k \in 1..Len(W) : W[k] \in MessageType
      BY <1>4
    <3>2. QED
      BY <3>1, MessageFields
  <2>3. QED
    BY <1>8, <2>1, <2>2 DEF Voices
<1>10. RepliesIn(W, z, rs)
  BY <1>2, <1>4, <1>5, RepliesAt
<1>11. ASSUME NEW r \in 1..Len(rs) PROVE AsReplied(turns[z[r]], "openai", rs[r].parts)
  <2>1. PICK m, p, t : m = W[z[r]] /\ p = rs[r].parts /\ t = turns[z[r]]
    OBVIOUS
  <2>2. /\ m \in MessageType /\ p \in Seq(PartType) /\ t = ChatTurn(m) /\ rs[r].by = "openai"
        /\ Like(m, from_response(rs[r].by, p))
    BY <1>6, <1>8, <1>10, <2>1 DEF RepliesIn
  <2>3. Like(m, from_response("openai", p))
    BY <2>2
  <2>4. AsReplied(t, "openai", p)
    BY <2>2, <2>3, ChatReplied
  <2>5. QED
    BY <2>1, <2>4
<1>12. Replayed(turns, z, rs, WireTypes, KeptTypes("openai"))
  BY <1>2, <1>4, <1>5, <1>9, <1>11, TurnsReplayed
<1>13. QED
  BY <1>1, <1>12 DEF ReplyReplayed

LEMMA GoogleReplayed == ASSUME TalkInv, Sent, Native, at = "google" PROVE ReplyReplayed
<1>1. PICK W, L, turns, rs : /\ W = WithoutPoints(messages) /\ L = BesidesRole(W, "system")
                             /\ turns = body.turns /\ rs = replies
  OBVIOUS
<1>2. /\ Readable(L, rs, (Roles \ {"cache_point"}) \ {"system"})
      /\ body = build_request(at, W) /\ RepliesOK(rs)
  BY <1>1, SentReadable
<1>3. body = GoogleBody(W)
  BY <1>2 DEF build_request
<1>4. ListOK(L) /\ L \in Seq(MessageType)
  BY <1>2 DEF Readable, ListOK
<1>5. PICK z : Follows(z, L, rs, Len(rs))
  BY <1>2 DEF Readable
<1>6. \A r \in 1..Len(rs) : rs[r].by = "google"
  BY <1>1, <1>2, ReplyFacts DEF Native
<1>7. turns = Each(L, GoogleTurn)
  BY <1>1, <1>3 DEF GoogleBody, Body
<1>8. DOMAIN turns = 1..Len(L) /\ Len(turns) = Len(L) /\ \A k \in 1..Len(L) : turns[k] = GoogleTurn(L[k])
  BY <1>4, <1>7, GoogleTurns
<1>9. Voices(turns, L)
  <2>1. \A k \in 1..Len(L) : turns[k].role = IF L[k].role = "tool" THEN "function"
                                             ELSE IF L[k].role = "assistant" THEN "model" ELSE L[k].role
    BY <1>8 DEF GoogleTurn, Turn
  <2>2. \A k \in 1..Len(L) : L[k].role # "model"
    <3>1. \A k \in 1..Len(L) : L[k] \in MessageType
      BY <1>4
    <3>2. QED
      BY <3>1, MessageFields
  <2>3. QED
    BY <1>8, <2>1, <2>2 DEF Voices
<1>10. RepliesIn(L, z, rs)
  BY <1>2, <1>4, <1>5, RepliesAt
<1>11. ASSUME NEW r \in 1..Len(rs) PROVE AsReplied(turns[z[r]], "google", rs[r].parts)
  <2>1. PICK m, p, t : m = L[z[r]] /\ p = rs[r].parts /\ t = turns[z[r]]
    OBVIOUS
  <2>2. /\ m \in MessageType /\ p \in Seq(PartType) /\ t = GoogleTurn(m) /\ rs[r].by = "google"
        /\ Like(m, from_response(rs[r].by, p))
    BY <1>6, <1>8, <1>10, <2>1 DEF RepliesIn
  <2>3. Like(m, from_response("google", p))
    BY <2>2
  <2>4. AsReplied(t, "google", p)
    BY <2>2, <2>3, GoogleReplied
  <2>5. QED
    BY <2>1, <2>4
<1>12. Replayed(turns, z, rs, WireTypes, KeptTypes("google"))
  BY <1>2, <1>4, <1>5, <1>9, <1>11, TurnsReplayed
<1>13. QED
  BY <1>1, <1>12 DEF ReplyReplayed

LEMMA ResponsesReplayed ==
    ASSUME TalkInv, Sent, Native, at \in {"openai-responses", "bedrock"} PROVE ReplyReplayed
<1>1. PICK W, turns, rs : W = WithoutPoints(messages) /\ turns = body.turns /\ rs = replies
  OBVIOUS
<1>2. /\ Readable(W, rs, Roles \ {"cache_point"})
      /\ body = build_request(at, W) /\ RepliesOK(rs)
  BY <1>1, SentReadable
<1>3. body = ResponsesBody(W)
  BY <1>2 DEF build_request
<1>4. ListOK(W) /\ W \in Seq(MessageType)
  BY <1>2 DEF Readable, ListOK
<1>5. PICK z : Follows(z, W, rs, Len(rs))
  BY <1>2 DEF Readable
<1>6. \A r \in 1..Len(rs) : rs[r].by = at
  BY <1>1, <1>2, ReplyFacts DEF Native
<1>7. DOMAIN W = 1..Len(W) /\ Len(W) \in Nat
  BY <1>4
<1>8. turns = [k \in 1..Len(W) |-> ResponsesTurn(W[k])]
  BY <1>1, <1>3, <1>7 DEF ResponsesBody, Body, Each, ResponsesTurn
<1>9. DOMAIN turns = 1..Len(W) /\ Len(turns) = Len(W) /\ \A k \in 1..Len(W) : turns[k] = ResponsesTurn(W[k])
  BY <1>7, <1>8, LenProperties
<1>10. Voices(turns, W)
  <2>1. \A k \in 1..Len(W) : turns[k].role = IF W[k].role = "tool" THEN "function_call_output"
                                             ELSE IF W[k].role = "system" THEN "developer" ELSE W[k].role
    BY <1>9 DEF ResponsesTurn, Turn
  <2>2. \A k \in 1..Len(W) : W[k].role # "model"
    <3>1. \A k \in 1..Len(W) : W[k] \in MessageType
      BY <1>4
    <3>2. QED
      BY <3>1, MessageFields
  <2>3. QED
    BY <1>9, <2>1, <2>2 DEF Voices
<1>11. RepliesIn(W, z, rs)
  BY <1>2, <1>4, <1>5, RepliesAt
<1>12. ASSUME NEW r \in 1..Len(rs) PROVE AsReplied(turns[z[r]], at, rs[r].parts)
  <2>1. PICK m, p, t : m = W[z[r]] /\ p = rs[r].parts /\ t = turns[z[r]]
    OBVIOUS
  <2>2. /\ m \in MessageType /\ p \in Seq(PartType) /\ t = ResponsesTurn(m) /\ rs[r].by = at
        /\ Like(m, from_response(rs[r].by, p))
    BY <1>6, <1>9, <1>11, <2>1 DEF RepliesIn
  <2>3. CASE at = "openai-responses"
    <3>1. Like(m, from_response("openai-responses", p))
      BY <2>2, <2>3
    <3>2. AsReplied(t, "openai-responses", p)
      BY <2>2, <3>1, ResponsesReplied
    <3>3. QED
      BY <2>1, <2>3, <3>2
  <2>4. CASE at = "bedrock"
    <3>1. Like(m, from_response("bedrock", p))
      BY <2>2, <2>4
    <3>2. AsReplied(t, "bedrock", p)
      BY <2>2, <3>1, BedrockReplied
    <3>3. QED
      BY <2>1, <2>4, <3>2
  <2>5. QED
    BY <2>3, <2>4
<1>13. PICK p : p = at
  OBVIOUS
<1>14. Replayed(turns, z, rs, WireTypes, KeptTypes(p))
  <2>1. \A r \in 1..Len(rs) : AsReplied(turns[z[r]], p, rs[r].parts)
    BY <1>12, <1>13
  <2>2. QED
    BY <1>2, <1>4, <1>5, <1>10, <2>1, TurnsReplayed
<1>15. QED
  BY <1>1, <1>13, <1>14 DEF ReplyReplayed

LEMMA AnthropicReplayed == ASSUME TalkInv, Sent, Native, at = "anthropic" PROVE ReplyReplayed
<1>1. PICK W, L, T, rs : /\ W = WithoutPoints(messages) /\ L = BesidesRole(W, "system")
                         /\ T = body.turns /\ rs = replies
  OBVIOUS
<1>2. /\ Readable(L, rs, (Roles \ {"cache_point"}) \ {"system"})
      /\ body = build_request(at, W) /\ RepliesOK(rs)
  BY <1>1, SentReadable
<1>3. body = AnthropicBody(W)
  BY <1>2 DEF build_request
<1>4. ForAnthropic(L) /\ ListOK(L)
  BY <1>2 DEF Readable, ForAnthropic, Roles
<1>5. PICK z : Follows(z, L, rs, Len(rs))
  BY <1>2 DEF Readable
<1>6. \A r \in 1..Len(rs) : rs[r].by = "anthropic"
  BY <1>1, <1>2, ReplyFacts DEF Native
<1>7. T = FoldLeft(AnthropicTurns, <<>>, L)
  BY <1>1, <1>3 DEF AnthropicBody, Body
<1>8. PICK n, h : n = Len(L) /\ TurnsOf(T, L, n, h)
  BY <1>4, <1>7, AnthropicTurnsOf
<1>9. PICK l, m : l = Len(T) /\ m = Len(rs)
  OBVIOUS
<1>10. /\ n \in Nat /\ T \in Seq(TurnType) /\ h \in [1..n -> 1..l] /\ l \in Nat /\ DOMAIN T = 1..l
       /\ \A t \in 1..l : \E k \in 1..n : h[k] = t
  BY <1>8, <1>9 DEF TurnsOf, Sized
<1>11. Ordered(L, n, h) /\ \A k \in 1..n : TurnFor(T, L, n, h, k)
  BY <1>8 DEF TurnsOf
<1>12. RepliesIn(L, z, rs)
  BY <1>2, <1>4, <1>5, RepliesAt
<1>13. \A r \in 1..m : z[r] \in 1..n /\ L[z[r]].role = "assistant" /\ ~ToolAt(L, z[r])
  BY <1>8, <1>9, <1>12 DEF RepliesIn, ToolAt
<1>14. Lists(z, m, Assistants(L)) /\ m \in Nat
  BY <1>5, <1>9 DEF Follows, Said, Lists
<1>15. PICK y : y = [r \in 1..m |-> h[z[r]]]
  OBVIOUS
<1>16. \A r \in 1..m : y[r] = h[z[r]] /\ T[y[r]] = Converted(L[z[r]]) /\ T[y[r]].role = "assistant" /\ y[r] \in 1..l
  <2>1. SUFFICES ASSUME NEW r \in 1..m
                 PROVE  y[r] = h[z[r]] /\ T[y[r]] = Converted(L[z[r]]) /\ T[y[r]].role = "assistant" /\ y[r] \in 1..l
    OBVIOUS
  <2>2. y[r] = h[z[r]] /\ y[r] \in 1..l
    BY <1>10, <1>13, <1>15
  <2>3. T[y[r]] = Converted(L[z[r]])
    BY <1>11, <1>13, <2>2 DEF TurnFor
  <2>4. T[y[r]].role = "assistant"
    BY <1>13, <2>3 DEF Converted, Turn
  <2>5. QED
    BY <2>2, <2>3, <2>4
<1>17. Lists(y, m, Voiced(T))
  <2>1. y \in [1..m -> Voiced(T)]
    BY <1>10, <1>15, <1>16 DEF Voiced
  <2>2. ASSUME NEW r \in 1..m, NEW s \in 1..m, r < s PROVE y[r] < y[s]
    <3>1. z[r] < z[s] /\ z[r] \in 1..n /\ z[s] \in 1..n
      BY <1>13, <1>14, <2>2 DEF Lists
    <3>2. z[r] <= z[s] /\ z[r] \in z[r]..z[s] /\ z[r] # z[s]
      BY <1>10, <3>1
    <3>3. h[z[r]] <= h[z[s]] /\ h[z[r]] # h[z[s]]
      BY <1>11, <1>13, <3>1, <3>2 DEF Ordered
    <3>4. QED
      BY <1>10, <1>16, <3>3
  <2>3. ASSUME NEW t \in Voiced(T) PROVE \E r \in 1..m : y[r] = t
    <3>1. t \in 1..l /\ T[t].role \in {"assistant", "model"}
      BY <1>10 DEF Voiced
    <3>2. PICK k \in 1..n : h[k] = t
      BY <1>10, <3>1
    <3>3. ~ToolAt(L, k)
      <4>1. SUFFICES ASSUME ToolAt(L, k) PROVE FALSE
        OBVIOUS
      <4>2. T[t].role = "user"
        BY <1>11, <3>2, <4>1 DEF TurnFor, ResultsIn
      <4>3. QED
        BY <3>1, <4>2
    <3>4. T[t].role = L[k].role
      BY <1>11, <3>2, <3>3, TurnRoles DEF TurnFor
    <3>5. L[k] \in MessageType
      BY <1>8, <1>12 DEF RepliesIn
    <3>6. L[k].role = "assistant"
      BY <3>1, <3>4, <3>5, MessageFields
    <3>7. PICK r \in 1..m : z[r] = k
      BY <1>8, <1>9, <1>12, <3>6 DEF RepliesIn
    <3>8. QED
      BY <1>16, <3>2, <3>7
  <2>4. QED
    BY <1>14, <2>1, <2>2, <2>3 DEF Lists
<1>18. ASSUME NEW r \in 1..m PROVE AsReplied(T[y[r]], "anthropic", rs[r].parts)
  <2>1. PICK v, p, t : v = L[z[r]] /\ p = rs[r].parts /\ t = T[y[r]]
    OBVIOUS
  <2>2. /\ v \in MessageType /\ p \in Seq(PartType) /\ t = Converted(v) /\ rs[r].by = "anthropic"
        /\ Like(v, from_response(rs[r].by, p))
    BY <1>6, <1>9, <1>12, <1>16, <2>1 DEF RepliesIn
  <2>3. Like(v, from_response("anthropic", p))
    BY <2>2
  <2>4. AsReplied(t, "anthropic", p)
    BY <2>2, <2>3, AnthropicReplied
  <2>5. QED
    BY <2>1, <2>4
<1>19. Replayed(T, y, rs, WireTypes, KeptTypes("anthropic"))
  BY <1>9, <1>10, <1>17, <1>18 DEF Replayed, AsReplied
<1>20. QED
  BY <1>1, <1>19 DEF ReplyReplayed

LEMMA RepliesReplayed == TalkInv => PartsReplayed
<1>1. SUFFICES ASSUME TalkInv, Sent, Native, NEW said, said = OfRole(body.turns, {"assistant", "model"})
               PROVE  /\ Len(said) = Len(replies)
                      /\ \A r \in DOMAIN replies, type \in IF at = "openai-responses" THEN {"text"} ELSE AsOnWire[at] :
                            Stand(OfType(said[r].blocks, WireTypes[type])) = Stand(OfType(replies[r].parts, {type}))
  BY DEF PartsReplayed
<1>2. at \in {"openai", "anthropic", "google", "openai-responses", "bedrock"}
  <2>1. at \in Providers
    BY <1>1, SentReadable
  <2>2. QED
    BY <2>1, ProvidersAssumption
<1>3. ReplyReplayed
  BY <1>1, <1>2, OpenaiReplayed, AnthropicReplayed, GoogleReplayed, ResponsesReplayed
<1>4. PICK turns, y, rs, types : /\ turns = body.turns /\ rs = replies /\ types = KeptTypes(at)
                                 /\ Replayed(turns, y, rs, WireTypes, types)
  BY <1>3 DEF ReplyReplayed
<1>5. RepliesOK(rs)
  BY <1>1, <1>4 DEF TalkInv
<1>6. Len(rs) \in Nat /\ DOMAIN rs = 1..Len(rs)
  BY <1>5, ReplyFacts
<1>7. said = OfRole(turns, {"assistant", "model"})
  BY <1>1, <1>4
<1>8. /\ Len(said) = Len(rs)
      /\ \A r \in 1..Len(rs), type \in types :
            Stand(OfType(said[r].blocks, WireTypes[type])) = Stand(OfType(rs[r].parts, {type}))
  BY <1>4, <1>6, <1>7, ReplayedTurns
<1>9. QED
  BY <1>4, <1>6, <1>8 DEF KeptTypes

(* What a reply says in the provider's own form goes back to it as it      *)
(* came: of the parts that its wire format takes up again (AsOnWire) none  *)
(* is lost, repeated or reordered, over any number of turns.               *)
THEOREM RepliesGoBack == TalkSpec => []PartsReplayed
<1>1. TalkInv => PartsReplayed
  BY RepliesReplayed
<1>2. QED
  BY <1>1, TalkInvariance, PTL

-----------------------------------------------------------------------------
(***************************************************************************)
(* The annotations of the blocks, from the list to the turns.              *)
(***************************************************************************)
(* L holds the messages of ms that have another role.                      *)
HoldsBesides(L, ms, role) ==
    /\ \A k \in 1..Len(L) : \E i \in DOMAIN ms : ms[i] = L[k]
    /\ \A i \in DOMAIN ms : ms[i].role # role => \E k \in 1..Len(L) : L[k] = ms[i]

LEMMA BesidesHolds ==
    ASSUME NEW ms \in Seq(MessageType), NEW role, NEW L, L = BesidesRole(ms, role)
    PROVE  HoldsBesides(L, ms, role)
<1>1. PICK P : P = {i \in DOMAIN ms : ms[i].role # role}
  OBVIOUS
<1>2. P \in SUBSET DOMAIN ms /\ L = Chosen(ms, P)
  BY <1>1 DEF BesidesRole
<1>3. /\ L \in Seq(MessageType)
      /\ \A x : (\E k \in DOMAIN L : L[k] = x) <=> \E i \in P : ms[i] = x
  <2>1. /\ Chosen(ms, P) \in Seq(MessageType) /\ Len(Chosen(ms, P)) = Cardinality(P)
        /\ \A x : (\E k \in DOMAIN Chosen(ms, P) : Chosen(ms, P)[k] = x) <=> \E i \in P : ms[i] = x
    BY <1>2, ChosenType
  <2>2. QED
    BY <1>2, <2>1
<1>4. DOMAIN L = 1..Len(L)
  BY <1>3
<1>5. ASSUME NEW k \in 1..Len(L) PROVE \E i \in DOMAIN ms : ms[i] = L[k]
  BY <1>2, <1>3, <1>4
<1>6. ASSUME NEW i \in DOMAIN ms, ms[i].role # role PROVE \E k \in 1..Len(L) : L[k] = ms[i]
  BY <1>1, <1>3, <1>4, <1>6
<1>7. QED
  BY <1>5, <1>6 DEF HoldsBesides

(* What of the list Anthropic reads: all but points and system messages.   *)
Reads(L, ms) ==
    /\ \A k \in 1..Len(L) : \E i \in DOMAIN ms : ms[i] = L[k]
    /\ \A i \in DOMAIN ms : ms[i].role \notin {"cache_point", "system"} => \E k \in 1..Len(L) : L[k] = ms[i]

LEMMA SentReads ==
    ASSUME NEW ms \in Seq(MessageType), NEW W \in Seq(MessageType), W = WithoutPoints(ms),
           NEW L, L = BesidesRole(W, "system")
    PROVE  Reads(L, ms)
<1>1. W = BesidesRole(ms, "cache_point")
  BY DEF WithoutPoints
<1>2. HoldsBesides(W, ms, "cache_point")
  BY <1>1, BesidesHolds
<1>3. HoldsBesides(L, W, "system")
  BY BesidesHolds
<1>4. DOMAIN W = 1..Len(W)
  OBVIOUS
<1>5. ASSUME NEW k \in 1..Len(L) PROVE \E i \in DOMAIN ms : ms[i] = L[k]
  BY <1>2, <1>3, <1>4 DEF HoldsBesides
<1>6. ASSUME NEW i \in DOMAIN ms, ms[i].role \notin {"cache_point", "system"}
      PROVE  \E k \in 1..Len(L) : L[k] = ms[i]
  <2>1. PICK j \in 1..Len(W) : W[j] = ms[i]
    BY <1>2, <1>6 DEF HoldsBesides
  <2>2. j \in DOMAIN W /\ W[j].role # "system"
    BY <1>4, <1>6, <2>1
  <2>3. PICK k \in 1..Len(L) : L[k] = W[j]
    BY <1>3, <2>2 DEF HoldsBesides
  <2>4. QED
    BY <2>1, <2>3
<1>7. QED
  BY <1>5, <1>6 DEF Reads

(* The last block of a message is annotated, one that is passed on.        *)
Ends(m, o) == Len(m.blocks) > 0 /\ m.blocks[Len(m.blocks)].cached /\ m.blocks[Len(m.blocks)].of = o
PassedOn(m) == m.role = "tool" \/ m.blocks[Len(m.blocks)].type \in {"thinking", "tool_use"}
EndsMarked(ms) ==
    \A i \in DOMAIN ms : \A k \in 1..Len(ms[i].blocks) : ms[i].blocks[k].cached => k = Len(ms[i].blocks)
OnTurns(T, o) == \E t \in DOMAIN T : \E i \in DOMAIN T[t].blocks : T[t].blocks[i].cached /\ T[t].blocks[i].of = o

LEMMA ResultEnds ==
    ASSUME NEW m \in MessageType, Plain(m), m.role = "tool", NEW b, b = ResultOf(m), NEW o
    PROVE  b.cached /\ b.of = o <=> Ends(m, o)
<1>1. b.of = m.id /\ b.cached = m.blocks[1].cached
  BY ResultBlock
<1>2. Len(m.blocks) = 1 /\ m.blocks[1].of = m.id
  BY DEF Plain
<1>3. QED
  BY <1>1, <1>2 DEF Ends

LEMMA ReadTypes ==
    ASSUME NEW L, ForAnthropic(L), NEW rs, NEW z, RepliesIn(L, z, rs), \A r \in 1..Len(rs) : rs[r].by = "anthropic",
           NEW k \in 1..Len(L), NEW i \in 1..Len(L[k].blocks)
    PROVE  L[k].blocks[i].type \in {"text", "image_url"} \/ L[k].blocks[i].type \in {"thinking", "tool_use"}
<1>1. CASE L[k].role = "assistant"
  <2>1. PICK r \in 1..Len(rs) : z[r] = k
    BY <1>1 DEF RepliesIn
  <2>2. PICK m, p : m = L[k] /\ p = rs[r].parts
    OBVIOUS
  <2>3. m \in MessageType /\ p \in Seq(PartType) /\ Like(m, from_response(rs[r].by, p)) /\ rs[r].by = "anthropic"
    BY <2>1, <2>2 DEF RepliesIn
  <2>4. Like(m, from_response("anthropic", p))
    BY <2>3
  <2>5. PICK f : f = from_response("anthropic", p)
    OBVIOUS
  <2>6. Len(f.blocks) = Len(p) /\ \A x \in 1..Len(p) : f.blocks[x] = p[x]
    BY <2>3, <2>5, from_responseAnthropic
  <2>7. Len(m.blocks) = Len(p) /\ \A x \in 1..Len(p) : m.blocks[x].type = p[x].type
    BY <2>4, <2>5, <2>6 DEF Like
  <2>8. i \in 1..Len(p) /\ i \in DOMAIN p
    BY <2>2, <2>3, <2>7
  <2>9. p[i].type \in PartTypes
    BY <2>3, <2>8, Part
  <2>10. QED
    BY <2>2, <2>7, <2>8, <2>9 DEF PartTypes
<1>2. CASE L[k].role # "assistant"
  <2>1. Plain(L[k])
    BY DEF RepliesIn
  <2>2. QED
    BY <1>2, <2>1 DEF Plain
<1>3. QED
  BY <1>1, <1>2

MarkedAs(m, bs) ==
    /\ DOMAIN bs = 1..Len(m.blocks)
    /\ \A i \in 1..Len(m.blocks) :
          /\ bs[i].of = m.blocks[i].of
          /\ bs[i].cached <=> m.blocks[i].cached /\ m.blocks[i].type \notin {"text", "image_url"}

LEMMA ConvertedMarks ==
    ASSUME NEW m \in MessageType, m.role \in {"user", "assistant"}, NEW t, t = Converted(m)
    PROVE  MarkedAs(m, t.blocks)
<1>1. /\ t \in TurnType /\ t.role = m.role /\ t.blocks \in Seq(PartLike)
      /\ DOMAIN t.blocks = 1..Len(m.blocks) /\ Len(t.blocks) = Len(m.blocks)
      /\ \A i \in 1..Len(m.blocks) : /\ t.blocks[i].type = m.blocks[i].type /\ t.blocks[i].of = m.blocks[i].of
                                     /\ t.blocks[i].type # "tool_result"
                                     /\ t.blocks[i].cached <=> /\ m.blocks[i].cached
                                                               /\ m.blocks[i].type \notin {"text", "image_url"}
  BY ConvertedTurn
<1>2. QED
  BY <1>1 DEF MarkedAs

LEMMA TurnsMarked ==
    ASSUME NEW L, ForAnthropic(L), NEW rs, NEW z, RepliesIn(L, z, rs), \A r \in 1..Len(rs) : rs[r].by = "anthropic",
           EndsMarked(L), NEW n, n = Len(L), NEW T, NEW h, TurnsOf(T, L, n, h), NEW o
    PROVE  OnTurns(T, o) <=> \E k \in 1..n : Ends(L[k], o) /\ PassedOn(L[k])
<1>1. PICK l : l = Len(T)
  OBVIOUS
<1>2. /\ n \in Nat /\ T \in Seq(TurnType) /\ h \in [1..n -> 1..l] /\ l \in Nat /\ DOMAIN T = 1..l
      /\ \A t \in 1..l : \E k \in 1..n : h[k] = t
      /\ \A k \in 1..n : TurnFor(T, L, n, h, k)
  BY <1>1 DEF TurnsOf, Sized
<1>3. /\ \A k \in 1..n : L[k] \in MessageType /\ Plain(L[k])
      /\ DOMAIN L = 1..n
  BY DEF RepliesIn, ForAnthropic, ListOK
<1>4. \A k \in 1..n : L[k].role \in {"user", "assistant", "tool"}
  BY MessagesFor
<1>5. ASSUME NEW k \in 1..n, ToolAt(L, k), NEW b, b = ResultOf(L[k])
      PROVE  b.cached /\ b.of = o <=> Ends(L[k], o)
  <2>1. L[k] \in MessageType /\ Plain(L[k]) /\ L[k].role = "tool"
    BY <1>3, <1>5 DEF ToolAt
  <2>2. QED
    BY <1>5, <2>1, ResultEnds
<1>6. ASSUME NEW k \in 1..n, ~ToolAt(L, k), NEW i \in DOMAIN T[h[k]].blocks
      PROVE  T[h[k]].blocks[i].cached /\ T[h[k]].blocks[i].of = o
               <=> i = Len(L[k].blocks) /\ Ends(L[k], o) /\ PassedOn(L[k])
  <2>1. PICK m, bs : m = L[k] /\ bs = T[h[k]].blocks
    OBVIOUS
  <2>2. m \in MessageType /\ m.role \in {"user", "assistant"} /\ T[h[k]] = Converted(m)
    BY <1>2, <1>3, <1>4, <1>6, <2>1 DEF TurnFor, ToolAt
  <2>3. MarkedAs(m, bs)
    BY <2>1, <2>2, ConvertedMarks
  <2>4. i \in 1..Len(m.blocks) /\ Len(m.blocks) \in Nat
    BY <1>6, <2>1, <2>2, <2>3, MessageFields DEF MarkedAs
  <2>5. /\ bs[i].of = m.blocks[i].of
        /\ bs[i].cached <=> m.blocks[i].cached /\ m.blocks[i].type \notin {"text", "image_url"}
    BY <2>3, <2>4 DEF MarkedAs
  <2>6. m.blocks[i].type \in {"text", "image_url"} \/ m.blocks[i].type \in {"thinking", "tool_use"}
    BY <2>1, <2>4, ReadTypes
  <2>7. m.blocks[i].cached => i = Len(m.blocks)
    BY <1>3, <2>1, <2>4 DEF EndsMarked
  <2>8. PassedOn(m) <=> m.blocks[Len(m.blocks)].type \in {"thinking", "tool_use"}
    BY <2>2 DEF PassedOn
  <2>9. ASSUME bs[i].cached, bs[i].of = o PROVE i = Len(m.blocks) /\ Ends(m, o) /\ PassedOn(m)
    <3>1. m.blocks[i].cached /\ m.blocks[i].of = o /\ m.blocks[i].type \notin {"text", "image_url"}
      BY <2>5, <2>9
    <3>2. i = Len(m.blocks) /\ Len(m.blocks) > 0
      BY <2>4, <2>7, <3>1
    <3>3. PassedOn(m)
      BY <2>6, <2>8, <3>1, <3>2
    <3>4. QED
      BY <3>1, <3>2, <3>3 DEF Ends
  <2>10. ASSUME i = Len(m.blocks), Ends(m, o), PassedOn(m) PROVE bs[i].cached /\ bs[i].of = o
    BY <2>4, <2>5, <2>8, <2>10 DEF Ends
  <2>11. QED
    BY <2>1, <2>9, <2>10
<1>7. ASSUME OnTurns(T, o) PROVE \E k \in 1..n : Ends(L[k], o) /\ PassedOn(L[k])
  <2>0. PICK t \in 1..l : \E i \in DOMAIN T[t].blocks : T[t].blocks[i].cached /\ T[t].blocks[i].of = o
    BY <1>2, <1>7 DEF OnTurns
  <2>1. PICK i \in DOMAIN T[t].blocks : T[t].blocks[i].cached /\ T[t].blocks[i].of = o
    BY <2>0
  <2>2. PICK k \in 1..n : h[k] = t
    BY <1>2
  <2>3. CASE ToolAt(L, k)
    <3>1. ResultsFrom(T[h[k]].blocks, L, n, h, h[k])
      BY <1>2, <2>3 DEF TurnFor, ResultsIn
    <3>2. PICK j \in 1..n : h[j] = t /\ ToolAt(L, j) /\ T[t].blocks[i] = ResultOf(L[j])
      BY <2>1, <2>2, <3>1 DEF ResultsFrom
    <3>3. Ends(L[j], o)
      BY <1>5, <2>1, <3>2
    <3>4. PassedOn(L[j])
      BY <3>2 DEF PassedOn, ToolAt
    <3>5. QED
      BY <3>3, <3>4
  <2>4. CASE ~ToolAt(L, k)
    BY <1>6, <2>1, <2>2, <2>4
  <2>5. QED
    BY <2>3, <2>4
<1>8. ASSUME NEW k \in 1..n, Ends(L[k], o), PassedOn(L[k]) PROVE OnTurns(T, o)
  <2>1. h[k] \in DOMAIN T
    BY <1>2
  <2>2. CASE ToolAt(L, k)
    <3>1. HasResult(T[h[k]].blocks, L[k])
      BY <1>2, <2>2 DEF TurnFor, ResultsIn
    <3>2. PICK i \in DOMAIN T[h[k]].blocks : T[h[k]].blocks[i] = ResultOf(L[k])
      BY <3>1 DEF HasResult
    <3>3. T[h[k]].blocks[i].cached /\ T[h[k]].blocks[i].of = o
      BY <1>5, <1>8, <2>2, <3>2
    <3>4. QED
      BY <2>1, <3>3 DEF OnTurns
  <2>3. CASE ~ToolAt(L, k)
    <3>1. PICK m, i : m = L[k] /\ i = Len(m.blocks)
      OBVIOUS
    <3>2. m \in MessageType /\ m.role \in {"user", "assistant"} /\ T[h[k]] = Converted(m)
      BY <1>2, <1>3, <1>4, <2>3, <3>1 DEF TurnFor, ToolAt
    <3>3. MarkedAs(m, T[h[k]].blocks)
      BY <3>2, ConvertedMarks
    <3>4. i \in Nat /\ i > 0
      BY <1>8, <3>1, <3>2, MessageFields DEF Ends
    <3>5. i \in DOMAIN T[h[k]].blocks
      BY <3>1, <3>3, <3>4 DEF MarkedAs
    <3>6. T[h[k]].blocks[i].cached /\ T[h[k]].blocks[i].of = o
      BY <1>6, <1>8, <2>3, <3>1, <3>5
    <3>7. QED
      BY <2>1, <3>5, <3>6 DEF OnTurns
  <2>4. QED
    BY <2>2, <2>3
<1>9. QED
  BY <1>7, <1>8

LEMMA LastBlock ==
    ASSUME NEW m \in MessageType
    PROVE  /\ m.blocks # <<>> <=> Len(m.blocks) > 0
           /\ Last(m.blocks) = m.blocks[Len(m.blocks)]
<1>1. m.blocks \in Seq(BlockType)
  BY MessageFields
<1>2. PICK bs : bs = m.blocks
  OBVIOUS
<1>3. bs # <<>> <=> Len(bs) > 0
  BY <1>1, <1>2, EmptySeq
<1>4. QED
  BY <1>2, <1>3 DEF Last

(* A message before a point whose last block goes to Anthropic as it is.   *)
Pointed(ms, i, o) ==
    /\ BeforePoint(ms, i) /\ ms[i].blocks # <<>> /\ Last(ms[i].blocks).of = o
    /\ ms[i].role = "tool" \/ Last(ms[i].blocks).type \in {"thinking", "tool_use"}

LEMMA PointedEnds ==
    ASSUME NEW ms, ListOK(ms), Marked(ms), AllMarked(ms), NEW i \in DOMAIN ms, NEW o
    PROVE  Pointed(ms, i, o) <=> Ends(ms[i], o) /\ PassedOn(ms[i])
<1>1. PICK m, l : m = ms[i] /\ l = Len(m.blocks)
  OBVIOUS
<1>2. m \in MessageType /\ DOMAIN ms = 1..Len(ms) /\ i \in 1..Len(ms)
  BY <1>1 DEF ListOK
<1>3. (m.blocks # <<>> <=> l > 0) /\ Last(m.blocks) = m.blocks[l]
  BY <1>1, <1>2, LastBlock
<1>4. l \in Nat
  BY <1>1, <1>2, MessageFields
<1>5. l > 0 => l \in 1..l
  BY <1>4
<1>6. ASSUME l > 0, m.blocks[l].cached PROVE BeforePoint(ms, i)
  BY <1>1, <1>2, <1>5, <1>6 DEF Marked
<1>7. ASSUME l > 0, BeforePoint(ms, i) PROVE m.blocks[l].cached
  BY <1>1, <1>2, <1>7 DEF AllMarked
<1>8. PassedOn(m) <=> m.role = "tool" \/ m.blocks[l].type \in {"thinking", "tool_use"}
  BY <1>1 DEF PassedOn
<1>9. Ends(m, o) <=> l > 0 /\ m.blocks[l].cached /\ m.blocks[l].of = o
  BY <1>1 DEF Ends
<1>10. Pointed(ms, i, o) <=> /\ BeforePoint(ms, i) /\ l > 0 /\ m.blocks[l].of = o
                             /\ m.role = "tool" \/ m.blocks[l].type \in {"thinking", "tool_use"}
  BY <1>1, <1>3 DEF Pointed
<1>11. QED
  BY <1>1, <1>6, <1>7, <1>8, <1>9, <1>10

LEMMA ReadEnds ==
    ASSUME NEW ms, ListOK(ms), Marked(ms), AllMarked(ms), NEW L, Reads(L, ms), NEW o
    PROVE  (\E k \in 1..Len(L) : Ends(L[k], o) /\ PassedOn(L[k])) <=> \E i \in DOMAIN ms : Pointed(ms, i, o)
<1>1. \A i \in DOMAIN ms : Pointed(ms, i, o) <=> Ends(ms[i], o) /\ PassedOn(ms[i])
  BY PointedEnds
<1>2. ASSUME NEW k \in 1..Len(L), Ends(L[k], o), PassedOn(L[k]) PROVE \E i \in DOMAIN ms : Pointed(ms, i, o)
  <2>1. PICK i \in DOMAIN ms : ms[i] = L[k]
    BY DEF Reads
  <2>2. QED
    BY <1>1, <1>2, <2>1
<1>3. ASSUME NEW i \in DOMAIN ms, Pointed(ms, i, o) PROVE \E k \in 1..Len(L) : Ends(L[k], o) /\ PassedOn(L[k])
  <2>1. Ends(ms[i], o) /\ PassedOn(ms[i])
    BY <1>1, <1>3
  <2>2. ms[i].role \notin {"cache_point", "system"}
    <3>1. PICK m, l : m = ms[i] /\ l = Len(m.blocks)
      OBVIOUS
    <3>2. m \in MessageType /\ Plain(m)
      BY <3>1 DEF ListOK
    <3>3. m.role # "cache_point"
      BY <1>3, <3>1 DEF Pointed, BeforePoint
    <3>4. l \in Nat /\ l > 0
      BY <2>1, <3>1, <3>2, MessageFields DEF Ends
    <3>5. l \in 1..Len(m.blocks)
      BY <3>1, <3>4
    <3>6. m.role = "tool" \/ m.blocks[l].type \in {"thinking", "tool_use"}
      BY <2>1, <3>1 DEF PassedOn
    <3>7. m.role \notin {"assistant", "tool"} => m.blocks[l].type \in {"text", "image_url"}
      BY <3>2, <3>5 DEF Plain
    <3>8. m.role # "system"
      BY <3>6, <3>7
    <3>9. QED
      BY <3>1, <3>3, <3>8
  <2>3. PICK k \in 1..Len(L) : L[k] = ms[i]
    BY <2>2 DEF Reads
  <2>4. QED
    BY <2>1, <2>3
<1>4. QED
  BY <1>2, <1>3

AnnotatedOn(turns) ==
    UNION {{b.of : b \in {t.blocks[i] : i \in {j \in DOMAIN t.blocks : t.blocks[j].cached}}} : t \in ToSet(turns)}
PointedAt(ms) ==
    {i \in {j \in DOMAIN ms : BeforePoint(ms, j)} :
        ms[i].blocks # <<>> /\ (ms[i].role = "tool" \/ Last(ms[i].blocks).type \in {"thinking", "tool_use"})}
PointedIn(ms) == {Last(ms[i].blocks).of : i \in PointedAt(ms)}

LEMMA PointsInTurns ==
    ASSUME TalkInv, Sent, Native, at = "anthropic" PROVE AnnotatedOn(body.turns) = PointedIn(messages)
<1>2. PICK ms, W, L, T, rs : /\ ms = messages /\ W = WithoutPoints(messages) /\ L = BesidesRole(W, "system")
                             /\ T = body.turns /\ rs = replies
  OBVIOUS
<1>3. /\ Readable(W, rs, Roles \ {"cache_point"})
      /\ Readable(L, rs, (Roles \ {"cache_point"}) \ {"system"})
      /\ body = build_request(at, W) /\ RepliesOK(rs)
  BY <1>2, SentReadable
<1>4. ListOK(ms) /\ Marked(ms) /\ AllMarked(ms)
  BY <1>2 DEF TalkInv, OnWire, Sent
<1>5. ForAnthropic(L) /\ ListOK(L) /\ W \in Seq(MessageType) /\ ms \in Seq(MessageType)
  BY <1>3, <1>4 DEF Readable, ForAnthropic, Roles, ListOK
<1>6. PICK z : Follows(z, L, rs, Len(rs))
  BY <1>3 DEF Readable
<1>7. RepliesIn(L, z, rs)
  BY <1>3, <1>5, <1>6, RepliesAt
<1>8. \A r \in 1..Len(rs) : rs[r].by = "anthropic"
  BY <1>2, <1>3, ReplyFacts DEF Native
<1>9. body = AnthropicBody(W)
  BY <1>3 DEF build_request
<1>10. T = FoldLeft(AnthropicTurns, <<>>, L)
  BY <1>2, <1>9 DEF AnthropicBody, Body
<1>11. PICK n, h : n = Len(L) /\ TurnsOf(T, L, n, h)
  BY <1>5, <1>10, AnthropicTurnsOf
<1>12. T \in Seq(TurnType)
  BY <1>11 DEF TurnsOf, Sized
<1>13. Reads(L, ms)
  BY <1>2, <1>5, SentReads
<1>14. EndsMarked(L)
  <2>1. DOMAIN ms = 1..Len(ms)
    BY <1>5
  <2>2. SUFFICES ASSUME NEW k \in DOMAIN L, NEW i \in 1..Len(L[k].blocks), L[k].blocks[i].cached
                 PROVE  i = Len(L[k].blocks)
    BY DEF EndsMarked
  <2>3. k \in 1..Len(L)
    BY <1>5 DEF ListOK
  <2>4. PICK j \in DOMAIN ms : ms[j] = L[k]
    BY <1>13, <2>3 DEF Reads
  <2>5. QED
    BY <1>4, <2>1, <2>2, <2>4 DEF Marked
<1>15. \A o : OnTurns(T, o) <=> \E i \in DOMAIN ms : Pointed(ms, i, o)
  <2>1. SUFFICES ASSUME NEW o PROVE OnTurns(T, o) <=> \E i \in DOMAIN ms : Pointed(ms, i, o)
    OBVIOUS
  <2>2. OnTurns(T, o) <=> \E k \in 1..n : Ends(L[k], o) /\ PassedOn(L[k])
    BY <1>5, <1>7, <1>8, <1>11, <1>14, TurnsMarked
  <2>3. (\E k \in 1..Len(L) : Ends(L[k], o) /\ PassedOn(L[k])) <=> \E i \in DOMAIN ms : Pointed(ms, i, o)
    BY <1>4, <1>13, ReadEnds
  <2>4. QED
    BY <1>11, <2>2, <2>3
<1>16. PICK on : on = AnnotatedOn(T)
  OBVIOUS
<1>17. \A o : o \in on <=> OnTurns(T, o)
  <2>1. \A t : t \in ToSet(T) <=> \E i \in DOMAIN T : T[i] = t
    BY DEF ToSet
  <2>2. ASSUME NEW o, o \in on PROVE OnTurns(T, o)
    <3>1. PICK t \in ToSet(T) : o \in {b.of : b \in {t.blocks[i] : i \in {j \in DOMAIN t.blocks : t.blocks[j].cached}}}
      BY <1>16, <2>2 DEF AnnotatedOn
    <3>2. \E i \in DOMAIN t.blocks : t.blocks[i].cached /\ t.blocks[i].of = o
      BY <3>1
    <3>3. PICK k \in DOMAIN T : T[k] = t
      BY <2>1
    <3>4. QED
      BY <3>2, <3>3 DEF OnTurns
  <2>3. ASSUME NEW o, OnTurns(T, o) PROVE o \in on
    <3>1. PICK k \in DOMAIN T : \E i \in DOMAIN T[k].blocks : T[k].blocks[i].cached /\ T[k].blocks[i].of = o
      BY <2>3 DEF OnTurns
    <3>2. PICK t \in ToSet(T) : \E i \in DOMAIN t.blocks : t.blocks[i].cached /\ t.blocks[i].of = o
      BY <2>1, <3>1
    <3>3. o \in {b.of : b \in {t.blocks[i] : i \in {j \in DOMAIN t.blocks : t.blocks[j].cached}}}
      BY <3>2
    <3>4. QED
      BY <1>16, <3>3 DEF AnnotatedOn
  <2>4. QED
    BY <2>2, <2>3
<1>18. PICK J : J = PointedAt(ms)
  OBVIOUS
<1>19. \A o, i : i \in J /\ Last(ms[i].blocks).of = o <=> i \in DOMAIN ms /\ Pointed(ms, i, o)
  BY <1>18 DEF Pointed, PointedAt
<1>20. PICK read : read = PointedIn(ms)
  OBVIOUS
<1>21. \A o : o \in read <=> \E i \in J : Last(ms[i].blocks).of = o
  BY <1>18, <1>20 DEF PointedIn
<1>22. \A o : o \in read <=> \E i \in DOMAIN ms : Pointed(ms, i, o)
  BY <1>19, <1>21
<1>23. \A o : o \in on <=> o \in read
  BY <1>15, <1>17, <1>22
<1>24. on = read
  BY <1>23
<1>25. QED
  BY <1>2, <1>16, <1>20, <1>24


(* And with every client: what is annotated on the wire is annotated in    *)
(* the list.                                                               *)
CachedIn(m, o) == \E k \in 1..Len(m.blocks) : m.blocks[k].cached /\ m.blocks[k].of = o
Carried(bs, m) == \A i \in DOMAIN bs : bs[i].cached => CachedIn(m, bs[i].of)
Sourced(T, L) ==
    \A t \in DOMAIN T : \A i \in DOMAIN T[t].blocks :
        T[t].blocks[i].cached => \E k \in 1..Len(L) : CachedIn(L[k], T[t].blocks[i].of)

LEMMA OutputCarried ==
    ASSUME NEW m, Plain(m), m.role = "tool", NEW type, NEW b, b = ToolOutput(type, m), b.cached
    PROVE  CachedIn(m, b.of)
<1>1. b.of = m.id /\ m.blocks[1].cached
  BY OutputFacts
<1>2. Len(m.blocks) = 1 /\ m.blocks[1].of = m.id
  BY DEF Plain
<1>3. QED
  BY <1>1, <1>2 DEF CachedIn

LEMMA OutputTurnCarried ==
    ASSUME NEW m, Plain(m), m.role = "tool", NEW type, NEW bs, bs = <<ToolOutput(type, m)>>
    PROVE  Carried(bs, m)
<1>1. PICK b : b = ToolOutput(type, m)
  OBVIOUS
<1>2. DOMAIN bs = {1} /\ bs[1] = b
  BY <1>1
<1>3. b.cached => CachedIn(m, b.of)
  BY <1>1, OutputCarried
<1>4. QED
  BY <1>2, <1>3 DEF Carried

LEMMA BesideCarried ==
    ASSUME NEW m, NEW bs, NEW cs, NEW S, bs \in Seq(S), cs \in Seq(S), Carried(bs, m),
           \A i \in DOMAIN cs : ~cs[i].cached
    PROVE  Carried(bs \o cs, m)
<1>1. SUFFICES ASSUME NEW i \in DOMAIN (bs \o cs), (bs \o cs)[i].cached
               PROVE  CachedIn(m, (bs \o cs)[i].of)
  BY DEF Carried
<1>2. PICK n, k : n = Len(bs) /\ k = Len(cs)
  OBVIOUS
<1>3. /\ n \in Nat /\ k \in Nat /\ DOMAIN bs = 1..n /\ DOMAIN cs = 1..k /\ i \in 1..n + k
      /\ (bs \o cs)[i] = IF i <= n THEN bs[i] ELSE cs[i - n]
  BY <1>2
<1>4. i <= n
  BY <1>1, <1>3
<1>5. QED
  BY <1>1, <1>3, <1>4 DEF Carried

LEMMA OwnCarried == ASSUME NEW m \in MessageType PROVE Carried(m.blocks, m)
<1>1. DOMAIN m.blocks = 1..Len(m.blocks)
  BY MessageFields
<1>2. QED
  BY <1>1 DEF Carried, CachedIn

LEMMA ChatCarried ==
    ASSUME NEW m \in MessageType, Plain(m), NEW turn, turn = ChatTurn(m)
    PROVE  Carried(turn.blocks, m)
<1>1. CASE m.role = "tool"
  <2>1. turn.blocks = <<ToolOutput("tool_result", m)>>
    BY <1>1 DEF ChatTurn, Turn
  <2>2. QED
    BY <1>1, <2>1, OutputTurnCarried
<1>2. CASE m.role # "tool"
  <2>1. PICK bs, cs, ids : bs = m.blocks /\ cs = Calls(m, "tool_use") /\ ids = m.tool_calls
    OBVIOUS
  <2>2. turn.blocks = bs \o cs
    BY <1>2, <2>1 DEF ChatTurn, Turn
  <2>3. "tool_use" \in BlockTypes
    BY DEF BlockTypes, PartTypes
  <2>4. cs \in Seq(BlockType) /\ bs \in Seq(BlockType)
    BY <2>1, <2>3, CallsBlocks, MessageFields
  <2>5. cs = [i \in DOMAIN ids |-> Block("tool_use", ids[i])]
    BY <2>1 DEF Calls, Each
  <2>6. \A i \in DOMAIN cs : ~cs[i].cached
    BY <2>5 DEF Block
  <2>7. Carried(bs, m)
    BY <2>1, OwnCarried
  <2>8. QED
    BY <2>2, <2>4, <2>6, <2>7, BesideCarried
<1>3. QED
  BY <1>1, <1>2

LEMMA GooglePartCached ==
    ASSUME NEW b \in BlockType, NEW c, c = ConvertContentToParts(b), c.cached
    PROVE  b.cached /\ c.of = b.of
<1>1. CASE b.type \in {"text", "image_url"}
  <2>1. c = Block("text", b.of) \/ c = Block("inline_data", b.of)
    BY <1>1 DEF ConvertContentToParts
  <2>2. QED
    BY <2>1 DEF Block
<1>2. CASE b.type \in {"functionCall", "thought"}
  BY <1>2 DEF ConvertContentToParts
<1>3. CASE b.type \notin {"text", "image_url", "functionCall", "thought"}
  <2>1. c = [b EXCEPT !.type = "printed"]
    BY <1>3 DEF ConvertContentToParts
  <2>2. QED
    BY <2>1 DEF BlockType
<1>4. QED
  BY <1>1, <1>2, <1>3

LEMMA GoogleCarried ==
    ASSUME NEW m \in MessageType, Plain(m), NEW turn, turn = GoogleTurn(m)
    PROVE  Carried(turn.blocks, m)
<1>1. CASE m.role = "tool"
  <2>1. turn.blocks = <<ToolOutput("functionResponse", m)>>
    BY <1>1 DEF GoogleTurn, Turn
  <2>2. QED
    BY <1>1, <2>1, OutputTurnCarried
<1>2. CASE m.role # "tool"
  <2>1. PICK l, ids, bs, cs, fc : /\ l = Len(m.blocks) /\ ids = m.tool_calls /\ fc = Block("functionCall", NoId)
                                  /\ bs = [i \in 1..l |-> ConvertContentToParts(m.blocks[i])]
                                  /\ cs = [i \in DOMAIN ids |-> fc]
    OBVIOUS
  <2>2. m.blocks \in Seq(BlockType) /\ l \in Nat /\ DOMAIN m.blocks = 1..l /\ ids \in Seq(Nat)
    BY <2>1, MessageFields
  <2>3. turn.blocks = bs \o cs
    BY <1>2, <2>1, <2>2 DEF GoogleTurn, Turn, Each
  <2>4. fc \in PartLike /\ ~fc.cached
    <3>1. "functionCall" \in WireBlockTypes /\ NoId \in Nat
      BY DEF WireBlockTypes, BlockTypes, NoId
    <3>2. fc = [type |-> "functionCall", of |-> NoId, cached |-> FALSE]
      BY <2>1 DEF Block
    <3>3. QED
      BY <3>1, <3>2 DEF PartLike
  <2>5. cs \in Seq(PartLike) /\ \A i \in DOMAIN cs : ~cs[i].cached
    <3>1. PICK n : n = Len(ids)
      OBVIOUS
    <3>2. n \in Nat /\ cs = [i \in 1..n |-> fc]
      BY <2>1, <2>2, <3>1
    <3>3. cs \in Seq(PartLike) /\ DOMAIN cs = 1..n
      BY <2>4, <3>2
    <3>4. QED
      BY <2>4, <3>2, <3>3
  <2>6. ASSUME NEW i \in 1..l
        PROVE  bs[i] \in PartLike /\ (bs[i].cached => CachedIn(m, bs[i].of))
    <3>1. PICK b : b = m.blocks[i]
      OBVIOUS
    <3>2. b \in BlockType /\ bs[i] = ConvertContentToParts(b)
      BY <2>1, <2>2, <2>6, <3>1
    <3>3. bs[i] \in PartLike
      BY <3>2, GooglePart
    <3>4. ASSUME bs[i].cached PROVE CachedIn(m, bs[i].of)
      <4>1. b.cached /\ bs[i].of = b.of
        BY <3>2, <3>4, GooglePartCached
      <4>2. QED
        BY <2>1, <2>6, <3>1, <4>1 DEF CachedIn
    <3>5. QED
      BY <3>3, <3>4
  <2>7. bs \in Seq(PartLike) /\ DOMAIN bs = 1..l
    <3>1. \A i \in 1..l : bs[i] \in PartLike
      BY <2>6
    <3>2. bs = [i \in 1..l |-> bs[i]]
      BY <2>1
    <3>3. QED
      BY <2>2, <3>1, <3>2
  <2>8. Carried(bs, m)
    BY <2>6, <2>7 DEF Carried
  <2>9. QED
    BY <2>3, <2>5, <2>7, <2>8, BesideCarried
<1>3. QED
  BY <1>1, <1>2

LEMMA ResponsesCarried ==
    ASSUME NEW m \in MessageType, Plain(m), NEW turn, turn = ResponsesTurn(m)
    PROVE  Carried(turn.blocks, m)
<1>1. CASE m.role = "tool"
  <2>1. turn.blocks = <<ToolOutput("tool_result", m)>>
    BY <1>1 DEF ResponsesTurn, Turn
  <2>2. QED
    BY <1>1, <2>1, OutputTurnCarried
<1>2. CASE m.role # "tool"
  <2>1. turn.blocks = m.blocks
    BY <1>2 DEF ResponsesTurn, Turn
  <2>2. QED
    BY <2>1, OwnCarried
<1>3. QED
  BY <1>1, <1>2

LEMMA EachSourced ==
    ASSUME NEW T, NEW L, DOMAIN T = 1..Len(L), \A k \in 1..Len(L) : Carried(T[k].blocks, L[k])
    PROVE  Sourced(T, L)
BY DEF Sourced, Carried

LEMMA AnthropicSourced ==
    ASSUME NEW L, ForAnthropic(L), NEW T, NEW h, TurnsOf(T, L, Len(L), h)
    PROVE  Sourced(T, L)
<1>1. PICK n, l : n = Len(L) /\ l = Len(T)
  OBVIOUS
<1>2. /\ n \in Nat /\ DOMAIN T = 1..l /\ h \in [1..n -> 1..l]
      /\ \A t \in 1..l : \E k \in 1..n : h[k] = t
      /\ \A k \in 1..n : TurnFor(T, L, n, h, k)
  BY <1>1 DEF TurnsOf, Sized
<1>3. \A k \in 1..n : L[k] \in MessageType /\ Plain(L[k]) /\ L[k].role \in {"user", "assistant", "tool"}
  BY <1>1 DEF ForAnthropic, ListOK
<1>4. SUFFICES ASSUME NEW t \in DOMAIN T, NEW i \in DOMAIN T[t].blocks, T[t].blocks[i].cached
               PROVE  \E k \in 1..n : CachedIn(L[k], T[t].blocks[i].of)
  BY <1>1 DEF Sourced
<1>5. PICK k \in 1..n : h[k] = t
  BY <1>2
<1>6. CASE ToolAt(L, k)
  <2>1. ResultsFrom(T[t].blocks, L, n, h, t)
    BY <1>2, <1>5, <1>6 DEF TurnFor, ResultsIn
  <2>2. PICK j \in 1..n : ToolAt(L, j) /\ T[t].blocks[i] = ResultOf(L[j])
    BY <1>4, <2>1 DEF ResultsFrom
  <2>3. PICK m, b : m = L[j] /\ b = T[t].blocks[i]
    OBVIOUS
  <2>4. Plain(m) /\ m.role = "tool" /\ b = ToolOutput("tool_result", m) /\ b.cached
    BY <1>3, <1>4, <2>2, <2>3 DEF ToolAt, ResultOf
  <2>5. CachedIn(m, b.of)
    BY <2>4, OutputCarried
  <2>6. QED
    BY <2>3, <2>5
<1>7. CASE ~ToolAt(L, k)
  <2>1. PICK m, bs : m = L[k] /\ bs = T[t].blocks
    OBVIOUS
  <2>2. m \in MessageType /\ m.role \in {"user", "assistant"} /\ T[t] = Converted(m)
    BY <1>2, <1>3, <1>5, <1>7, <2>1 DEF TurnFor, ToolAt
  <2>3. MarkedAs(m, bs)
    BY <2>1, <2>2, ConvertedMarks
  <2>4. i \in 1..Len(m.blocks)
    BY <1>4, <2>1, <2>3 DEF MarkedAs
  <2>5. bs[i].of = m.blocks[i].of /\ (bs[i].cached <=> m.blocks[i].cached /\ m.blocks[i].type \notin {"text", "image_url"})
    BY <2>3, <2>4 DEF MarkedAs
  <2>6. CachedIn(m, bs[i].of)
    BY <1>4, <2>1, <2>4, <2>5 DEF CachedIn
  <2>7. QED
    BY <2>1, <2>6
<1>8. QED
  BY <1>6, <1>7

(* What each client reads of the list, and what it makes of it.            *)
LEMMA SentSourced ==
    ASSUME TalkInv, Sent
    PROVE  \E L : /\ \A k \in 1..Len(L) : \E i \in DOMAIN messages : messages[i] = L[k]
                  /\ Sourced(body.turns, L)
<1>1. PICK ms, W, L, T, p : /\ ms = messages /\ W = WithoutPoints(messages) /\ L = BesidesRole(W, "system")
                            /\ T = body.turns /\ p = at
  OBVIOUS
<1>2. /\ Readable(W, replies, Roles \ {"cache_point"})
      /\ Readable(L, replies, (Roles \ {"cache_point"}) \ {"system"})
      /\ body = build_request(p, W) /\ p \in Providers
  BY <1>1, SentReadable
<1>3. ListOK(ms) /\ ListOK(W) /\ ListOK(L)
  BY <1>1, <1>2 DEF TalkInv, Readable
<1>4. /\ ms \in Seq(MessageType) /\ W \in Seq(MessageType) /\ L \in Seq(MessageType)
      /\ \A k \in 1..Len(W) : W[k] \in MessageType /\ Plain(W[k])
      /\ \A k \in 1..Len(L) : L[k] \in MessageType /\ Plain(L[k])
  BY <1>3 DEF ListOK
<1>5. \A k \in 1..Len(L) : \E i \in DOMAIN ms : ms[i] = L[k]
  BY <1>1, <1>4, SentReads DEF Reads
<1>6. \A k \in 1..Len(W) : \E i \in DOMAIN ms : ms[i] = W[k]
  <2>1. W = BesidesRole(ms, "cache_point")
    BY <1>1 DEF WithoutPoints
  <2>2. HoldsBesides(W, ms, "cache_point")
    BY <1>4, <2>1, BesidesHolds
  <2>3. QED
    BY <2>2 DEF HoldsBesides
<1>7. CASE p = "anthropic"
  <2>1. ForAnthropic(L)
    BY <1>2, <1>3 DEF Readable, ForAnthropic, Roles
  <2>2. T = FoldLeft(AnthropicTurns, <<>>, L)
    BY <1>1, <1>2, <1>7 DEF build_request, AnthropicBody, Body
  <2>3. PICK h : TurnsOf(T, L, Len(L), h)
    BY <2>1, <2>2, AnthropicTurnsOf
  <2>4. Sourced(T, L)
    BY <2>1, <2>3, AnthropicSourced
  <2>5. QED
    BY <1>1, <1>5, <2>4
<1>8. CASE p = "google"
  <2>1. T = Each(L, GoogleTurn)
    BY <1>1, <1>2, <1>8 DEF build_request, GoogleBody, Body
  <2>2. DOMAIN T = 1..Len(L) /\ \A k \in 1..Len(L) : T[k] = GoogleTurn(L[k])
    BY <1>4, <2>1, GoogleTurns
  <2>3. \A k \in 1..Len(L) : Carried(T[k].blocks, L[k])
    BY <1>4, <2>2, GoogleCarried
  <2>4. Sourced(T, L)
    BY <2>2, <2>3, EachSourced
  <2>5. QED
    BY <1>1, <1>5, <2>4
<1>9. CASE p \in {"openai-responses", "bedrock"}
  <2>1. T = ResponsesBody(W).turns
    BY <1>1, <1>2, <1>9 DEF build_request
  <2>2. DOMAIN W = 1..Len(W) /\ Len(W) \in Nat
    BY <1>4
  <2>3. T = [k \in 1..Len(W) |-> ResponsesTurn(W[k])]
    BY <2>1, <2>2 DEF ResponsesBody, Body, Each, ResponsesTurn
  <2>4. DOMAIN T = 1..Len(W) /\ \A k \in 1..Len(W) : T[k] = ResponsesTurn(W[k])
    BY <2>3
  <2>5. \A k \in 1..Len(W) : Carried(T[k].blocks, W[k])
    BY <1>4, <2>4, ResponsesCarried
  <2>6. Sourced(T, W)
    BY <2>4, <2>5, EachSourced
  <2>7. QED
    BY <1>1, <1>6, <2>6
<1>10. CASE p \notin {"anthropic", "google", "openai-responses", "bedrock"}
  <2>1. T = ChatBody(W).turns
    BY <1>1, <1>2, <1>10 DEF build_request
  <2>2. DOMAIN T = 1..Len(W) /\ \A k \in 1..Len(W) : T[k] = ChatTurn(W[k])
    BY <1>4, <2>1, ChatTurns
  <2>3. \A k \in 1..Len(W) : Carried(T[k].blocks, W[k])
    BY <1>4, <2>2, ChatCarried
  <2>4. Sourced(T, W)
    BY <2>2, <2>3, EachSourced
  <2>5. QED
    BY <1>1, <1>6, <2>4
<1>11. QED
  BY <1>7, <1>8, <1>9, <1>10

PointedLast(ms) ==
    {Last(ms[i].blocks).of : i \in {j \in DOMAIN ms : BeforePoint(ms, j) /\ ms[j].blocks # <<>>}}

LEMMA OnlyPoints == ASSUME TalkInv, Sent PROVE AnnotatedOn(body.turns) \subseteq PointedLast(messages)
<1>1. PICK ms, T, on : ms = messages /\ T = body.turns /\ on = AnnotatedOn(T)
  OBVIOUS
<1>2. PICK L : (\A k \in 1..Len(L) : \E i \in DOMAIN ms : ms[i] = L[k]) /\ Sourced(T, L)
  BY <1>1, SentSourced
<1>3. ListOK(ms) /\ Marked(ms) /\ DOMAIN ms = 1..Len(ms)
  BY <1>1 DEF TalkInv, ListOK
<1>4. SUFFICES ASSUME NEW o, o \in on PROVE o \in PointedLast(ms)
  BY <1>1
<1>5. PICK t \in ToSet(T) : o \in {b.of : b \in {t.blocks[i] : i \in {j \in DOMAIN t.blocks : t.blocks[j].cached}}}
  BY <1>1, <1>4 DEF AnnotatedOn
<1>6. \E i \in DOMAIN t.blocks : t.blocks[i].cached /\ t.blocks[i].of = o
  BY <1>5
<1>7. PICK d \in DOMAIN T : T[d] = t
  BY <1>5 DEF ToSet
<1>8. PICK k \in 1..Len(L) : CachedIn(L[k], o)
  BY <1>2, <1>6, <1>7 DEF Sourced
<1>9. PICK i \in DOMAIN ms : ms[i] = L[k]
  BY <1>2
<1>10. PICK m : m = ms[i]
  OBVIOUS
<1>11. PICK j \in 1..Len(m.blocks) : m.blocks[j].cached /\ m.blocks[j].of = o
  BY <1>8, <1>9, <1>10 DEF CachedIn
<1>12. j = Len(m.blocks) /\ BeforePoint(ms, i)
  BY <1>3, <1>10, <1>11 DEF Marked
<1>13. m \in MessageType
  BY <1>3, <1>10 DEF ListOK
<1>14. Len(m.blocks) > 0
  BY <1>11, <1>13, MessageFields
<1>15. m.blocks # <<>> /\ Last(m.blocks).of = o
  BY <1>11, <1>12, <1>13, <1>14, LastBlock
<1>16. QED
  BY <1>10, <1>12, <1>15 DEF PointedLast

LEMMA PointsKept == TalkInv => PointsOnWire
<1>1. SUFFICES ASSUME TalkInv, Sent
               PROVE  /\ AnnotatedOn(body.turns) \subseteq PointedLast(messages)
                      /\ Native /\ at = "anthropic" => PointedIn(messages) \subseteq AnnotatedOn(body.turns)
  <2>1. \A i : i \in {j \in {k \in DOMAIN messages : BeforePoint(messages, k) /\ messages[k].blocks # <<>>} :
                    messages[j].role = "tool" \/ Last(messages[j].blocks).type \in {"thinking", "tool_use"}}
               <=> i \in PointedAt(messages)
    BY DEF PointedAt
  <2>2. {j \in {k \in DOMAIN messages : BeforePoint(messages, k) /\ messages[k].blocks # <<>>} :
            messages[j].role = "tool" \/ Last(messages[j].blocks).type \in {"thinking", "tool_use"}}
        = PointedAt(messages)
    BY <2>1
  <2>3. QED
    BY <2>2 DEF PointsOnWire, AnnotatedOn, PointedIn, PointedLast
<1>2. AnnotatedOn(body.turns) \subseteq PointedLast(messages)
  BY <1>1, OnlyPoints
<1>3. ASSUME Native, at = "anthropic" PROVE AnnotatedOn(body.turns) = PointedIn(messages)
  BY <1>1, <1>3, PointsInTurns
<1>4. QED
  BY <1>2, <1>3

(* Over any number of turns, retries and changes of provider, what is      *)
(* annotated on the wire stands right before a cache point, and with       *)
(* Anthropic a point after a result, or after a reply that ends in         *)
(* thinking or a call, is there.                                           *)
THEOREM PointsReachTheWire == TalkSpec => []PointsOnWire
<1>1. TalkInv => PointsOnWire
  BY PointsKept
<1>2. QED
  BY <1>1, TalkInvariance, PTL
=============================================================================

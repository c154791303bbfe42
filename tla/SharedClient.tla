----------------------------- MODULE SharedClient -----------------------------
(***************************************************************************)
(* One ConcurrencyLimitedClient around one Azure client (concurrency.py,   *)
(* wrapper.py, _azure_auth.py, azure_openai.py), shared by tasks of        *)
(* several event loops.  The limiter holds a semaphore around each request *)
(* and each stream; the wrapper passes embeddings through.  The Azure      *)
(* client resolves a token with an async provider before each call and     *)
(* keeps it in a field until the call ends.                                *)
(*                                                                         *)
(* A loop runs its tasks one at a time: between two awaits a task has its  *)
(* thread to itself, and only tasks of other threads come in between.  The *)
(* semaphore is asyncio's, which takes no lock: another thread may run     *)
(* between its look at the value and the use of it, and between a slot's   *)
(* return and the call that grants it to a waiter.  That call is one step  *)
(* here; nothing that rests on it is claimed of tasks on several loops.    *)
(***************************************************************************)
EXTENDS Integers, Sequences, FiniteSets, SequencesExt

CONSTANTS
    Tasks,
    Loops,
    Plans,       \* what the tasks call, and on which loops
    Nobody,
    Limit        \* of the semaphore

Kinds == {"request", "sync", "stream", "embed"}

ASSUME LimitAssumption == Limit \in Nat \ {0}
ASSUME PlansAssumption == Plans \subseteq [kind : [Tasks -> Kinds], loop : [Tasks -> Loops]]
ASSUME NobodyAssumption == Nobody \notin Tasks \cup Loops
ASSUME ApartAssumption == Tasks \cap Loops = {}

VARIABLES
    kind,        \* what the task calls: request_async, request from a running
                 \* loop, request_stream_async, embed_async
    loop,        \* the loop of the task
    pc,
    turn,        \* the task that is between two awaits on a thread
    sem,         \* _semaphore: value, the tasks that wait, those granted and not
                 \* resumed, the loop it is bound to
    deaf,        \* granted from a foreign thread, and the own loop not stirred since
    resolved,    \* _resolved_ad_token, known by the task that resolved it
    owns,        \* the embeddings with owns_token_cache
    header       \* history: whose token a task has sent; Nobody's is the api key

vars == <<kind, loop, pc, turn, sem, deaf, resolved, owns, header>>

(* run_sync gives a call inside a running loop a loop and thread of its    *)
(* own, and blocks the caller's loop until it ends.                        *)
Thread(t) == IF kind[t] = "sync" THEN t ELSE loop[t]
Started(t) == pc[t] \notin {"ready", "done"}
Blocked(l) == \E t \in Tasks : kind[t] = "sync" /\ loop[t] = l /\ Started(t)
SameLoop == \A t, u \in Tasks : loop[t] = loop[u]
OneLoop == SameLoop /\ \A t \in Tasks : kind[t] # "sync"

Init ==
    /\ \E plan \in Plans : kind = plan.kind /\ loop = plan.loop
    /\ pc = [t \in Tasks |-> "ready"]
    /\ turn = [h \in Loops \cup Tasks |-> Nobody]
    /\ sem = [value |-> Limit, waiters |-> <<>>, granted |-> {}, loop |-> Nobody]
    /\ deaf = {}
    /\ resolved = Nobody
    /\ owns = {}
    /\ header = [t \in Tasks |-> Nobody]

(* A task's step: its thread is free for it, and once it has run the loop  *)
(* notices what others have granted to its tasks.  keeps says whether the  *)
(* task goes on without an await.  One that is able to go on has a step:  *)
(* for each place of pc an action asks for no more.                        *)
Free(t) == turn[Thread(t)] \in {Nobody, t} /\ ~Blocked(Thread(t))

Able(t) ==
    /\ pc[t] # "done"
    /\ IF pc[t] = "ready" THEN turn[loop[t]] = Nobody /\ ~Blocked(loop[t]) ELSE Free(t)
    /\ pc[t] = "waiting" => t \in sem.granted \ deaf

Goes(t, to, keeps) ==
    /\ pc' = [pc EXCEPT ![t] = to]
    /\ turn' = [turn EXCEPT ![Thread(t)] = IF keeps THEN t ELSE Nobody]
    /\ UNCHANGED <<kind, loop>>

(* The loop that a call blocks goes on when that is through.               *)
Unheard(t, granted) == {u \in granted : Thread(u) \notin {Thread(t), loop[t]}}
Hears(t) == deaf' = Unheard(t, deaf)
-----------------------------------------------------------------------------
(* asyncio.Semaphore.                                                      *)
Lesser(a, b) == IF a <= b THEN a ELSE b
Grants(s, n) ==
    [s EXCEPT !.value = @ - n,
              !.granted = @ \cup {s.waiters[i] : i \in 1..n},
              !.waiters = SubSeq(@, n + 1, Len(@))]
WakeAll(s) == IF s.value > 0 THEN Grants(s, Lesser(s.value, Len(s.waiters))) ELSE s
WakeUpNext(s) == Grants(s, Lesser(1, Len(s.waiters)))
Locked == sem.value = 0 \/ sem.waiters # <<>> \/ sem.granted # {}

(* Grants made by t; those to other threads are not heard at once.         *)
Releases(t, s) ==
    /\ sem' = s
    /\ deaf' = Unheard(t, deaf \cup (s.granted \ sem.granted))

(* What comes after the semaphore, if any: embed_async takes a token that  *)
(* is there already, the others ask for one of their own.                  *)
Enters(t) ==
    IF kind[t] = "embed" /\ resolved # Nobody THEN Goes(t, "build", TRUE) ELSE Goes(t, "token", FALSE)

Start(t) ==
    /\ pc[t] = "ready"
    /\ Able(t)
    /\ \/ kind[t] = "embed" /\ Enters(t)
       \/ kind[t] # "embed" /\ ~Locked /\ Goes(t, "taking", TRUE)
       \/ kind[t] # "embed" /\ Locked /\ Goes(t, "queueing", TRUE)
    /\ Hears(t)
    /\ UNCHANGED <<sem, resolved, owns, header>>

(* The slot is taken, whatever the value is by now.                        *)
Take(t) ==
    /\ pc[t] = "taking"
    /\ Able(t)
    /\ sem' = [sem EXCEPT !.value = @ - 1]
    /\ Goes(t, "token", FALSE)
    /\ Hears(t)
    /\ UNCHANGED <<resolved, owns, header>>

Enqueue(t) ==
    /\ pc[t] = "queueing"
    /\ Able(t)
    /\ \/ /\ sem.loop \in {Nobody, Thread(t)}
          /\ sem' = [sem EXCEPT !.waiters = Append(@, t), !.loop = Thread(t)]
          /\ Goes(t, "waiting", FALSE)
       \/ /\ sem.loop \notin {Nobody, Thread(t)}
          /\ Goes(t, "done", FALSE)          \* RuntimeError
          /\ UNCHANGED sem
    /\ Hears(t)
    /\ UNCHANGED <<resolved, owns, header>>

Resume(t) ==
    /\ pc[t] = "waiting"
    /\ Able(t)
    /\ Releases(t, WakeAll([sem EXCEPT !.granted = @ \ {t}]))
    /\ Goes(t, "token", FALSE)
    /\ UNCHANGED <<resolved, owns, header>>

SlipAwaitBetween(t) ==      \* a slip: something is awaited before the headers are built
    /\ pc[t] = "token"
    /\ Able(t)
    /\ resolved' = t
    /\ owns' = IF kind[t] = "embed" THEN owns \cup {t} ELSE owns
    /\ Goes(t, "build", FALSE)
    /\ Hears(t)
    /\ UNCHANGED <<sem, header>>

(* The provider answers: _resolve_ad_token_async.                          *)
Resolve(t) ==
    /\ pc[t] = "token"
    /\ Able(t)
    /\ resolved' = t
    /\ owns' = IF kind[t] = "embed" THEN owns \cup {t} ELSE owns
    /\ Goes(t, "build", TRUE)
    /\ Hears(t)
    /\ UNCHANGED <<sem, header>>

SlipSlotLost(t) ==          \* a slip: acquired outside of the block that releases
    /\ pc[t] = "token"
    /\ Able(t)
    /\ Goes(t, "done", FALSE)
    /\ Hears(t)
    /\ UNCHANGED <<sem, resolved, owns, header>>

ProviderFails(t) ==
    /\ pc[t] = "token"
    /\ Able(t)
    /\ Goes(t, "leave", TRUE)
    /\ Hears(t)
    /\ UNCHANGED <<sem, resolved, owns, header>>

(* _build_headers: the token in the field, or what else is configured.     *)
Build(t) ==
    /\ pc[t] = "build"
    /\ Able(t)
    /\ header' = [header EXCEPT ![t] = resolved]
    /\ Goes(t, "sent", FALSE)
    /\ Hears(t)
    /\ UNCHANGED <<sem, resolved, owns>>

(* The exchange ends, well or badly; a stream opens.                       *)
Receive(t) ==
    /\ pc[t] = "sent"
    /\ Able(t)
    /\ \/ kind[t] = "stream" /\ Goes(t, "open", FALSE)
       \/ Goes(t, "clear", TRUE)
    /\ Hears(t)
    /\ UNCHANGED <<sem, resolved, owns, header>>

(* The consumer has all chunks, closes the stream or drops it.             *)
CloseStream(t) ==
    /\ pc[t] = "open"
    /\ Able(t)
    /\ Goes(t, "clear", TRUE)
    /\ Hears(t)
    /\ UNCHANGED <<sem, resolved, owns, header>>

Cancel(t) ==
    /\ kind[t] # "sync"
    /\ Free(t)
    /\ \/ /\ pc[t] = "waiting"
          /\ Goes(t, "done", FALSE)
          /\ \/ /\ t \in sem.granted
                /\ Releases(t, WakeAll([sem EXCEPT !.granted = @ \ {t}, !.value = @ + 1]))
             \/ \E i \in DOMAIN sem.waiters :
                    /\ sem.waiters[i] = t
                    /\ Releases(t, WakeAll([sem EXCEPT !.waiters = RemoveAt(@, i)]))
       \/ pc[t] = "token" /\ Goes(t, "leave", TRUE) /\ Hears(t) /\ UNCHANGED sem
       \/ pc[t] \in {"sent", "open"} /\ Goes(t, "clear", TRUE) /\ Hears(t) /\ UNCHANGED sem
    /\ UNCHANGED <<resolved, owns, header>>
-----------------------------------------------------------------------------
(* finally: the token is dropped, then the slot given back.                *)
Clear(t) ==
    /\ pc[t] = "clear"
    /\ Able(t)
    /\ resolved' = IF kind[t] # "embed" \/ t \in owns THEN Nobody ELSE resolved
    /\ Goes(t, "leave", TRUE)
    /\ Hears(t)
    /\ UNCHANGED <<sem, owns, header>>

Leave(t) ==
    /\ pc[t] = "leave"
    /\ Able(t)
    /\ \/ kind[t] = "embed" /\ Goes(t, "done", FALSE) /\ UNCHANGED sem
       \/ /\ kind[t] # "embed"
          /\ sem' = [sem EXCEPT !.value = @ + 1]
          /\ Goes(t, "wake", TRUE)
    /\ Hears(t)
    /\ owns' = owns \ {t}
    /\ header' = [header EXCEPT ![t] = Nobody]
    /\ UNCHANGED resolved

Wake(t) ==
    /\ pc[t] = "wake"
    /\ Able(t)
    /\ Releases(t, WakeUpNext(sem))
    /\ Goes(t, "done", FALSE)
    /\ UNCHANGED <<resolved, owns, header>>

Proceed(t) ==
    \/ Start(t) \/ Take(t) \/ Enqueue(t) \/ Resume(t)
    \/ Resolve(t) \/ ProviderFails(t) \/ Build(t)
    \/ Receive(t) \/ CloseStream(t) \/ Clear(t) \/ Leave(t) \/ Wake(t)

Next == \E t \in Tasks : Proceed(t) \/ Cancel(t)

(* Loops run what is ready, servers and the token provider answer in their *)
(* time limits, and a stream that nobody reads is closed by the collector. *)
Fairness == \A t \in Tasks : WF_vars(Proceed(t))

Spec == Init /\ [][Next]_vars /\ Fairness
-----------------------------------------------------------------------------
Holding(t) == kind[t] # "embed" /\ pc[t] \in {"token", "build", "sent", "open", "clear", "leave"}
Done(t) == pc[t] = "done"
Waiting == {t \in Tasks : pc[t] = "waiting"}
Holders == {t \in Tasks : Holding(t)}

(* On one loop every call ends, however many tasks want the slots, and     *)
(* whichever of them fail, are cancelled or drop their stream.             *)
CallsEnd == OneLoop => <>(\A t \in Tasks : Done(t))

(* Tasks of one loop, which may block it with request(): no slot is lost   *)
(* or made, so that never more than Limit exchanges are under way; and if  *)
(* no step is left to anyone and not all calls have ended, that is because *)
(* the loop is blocked by a call that waits for a slot a task of the loop  *)
(* holds.  Of tasks on several loops the semaphore promises neither.       *)
SlotsKept == sem.value >= 0 /\ sem.value + Cardinality(Holders \cup sem.granted) = Limit
Idle == \A t \in Tasks : ~Able(t)
StuckExplained ==
    SameLoop =>
        /\ SlotsKept
        /\ Idle => \/ \A t \in Tasks : Done(t)
                   \/ \E t, u \in Tasks :
                        Holding(t) /\ kind[u] = "sync" /\ pc[u] = "waiting" /\ loop[u] = Thread(t)

(* With tasks of one loop only, the token a request or a stream sends is   *)
(* the one it has asked for, and an embedding sends some token; a request  *)
(* that ends takes nobody's token away.                                    *)
TokenOwn ==
    OneLoop => \A t \in Tasks :
        pc[t] \in {"sent", "open", "clear"} =>
            IF kind[t] = "embed" THEN header[t] # Nobody ELSE header[t] = t
-----------------------------------------------------------------------------
PC == {"ready", "taking", "queueing", "waiting", "token", "build", "sent", "open",
       "clear", "leave", "wake", "done"}
Midway == {"taking", "queueing", "build", "clear", "leave", "wake"}

TypeOK ==
    /\ kind \in [Tasks -> Kinds]
    /\ loop \in [Tasks -> Loops]
    /\ pc \in [Tasks -> PC]
    /\ turn \in [Loops \cup Tasks -> Tasks \cup {Nobody}]
    /\ resolved \in Tasks \cup {Nobody}
    /\ header \in [Tasks -> Tasks \cup {Nobody}]

(* A thread is kept by a task of its own; one that is midway has not let   *)
(* go of it.  Who has its token and no headers yet finds it in the field,  *)
(* on one loop.                                                            *)
Turns == \A h \in Loops \cup Tasks : turn[h] # Nobody => Thread(turn[h]) = h
Unyielded == \A t \in Tasks : pc[t] \in Midway => turn[Thread(t)] = t
FieldOwn ==
    OneLoop => \A t \in Tasks :
        pc[t] = "build" => IF kind[t] = "embed" THEN resolved # Nobody ELSE resolved = t

(* A kept thread is kept for a step that awaits nothing, by a task whose   *)
(* loop is not blocked.                                                    *)
KeptForNow ==
    \A h \in Loops \cup Tasks :
        turn[h] # Nobody => pc[turn[h]] \in Midway /\ ~Blocked(h)

(* No two calls block the same loop, and tasks wait on the one loop that   *)
(* the semaphore is bound to.                                              *)
SyncAlone ==
    \A t, u \in Tasks :
        kind[t] = "sync" /\ kind[u] = "sync" /\ loop[t] = loop[u] /\ Started(t) /\ Started(u) => t = u
Slotted == {"taking", "queueing", "waiting", "wake"}
WaitOnOneLoop ==
    /\ \A t \in Tasks : pc[t] \in Slotted => kind[t] # "embed"
    /\ \A t \in Tasks : pc[t] = "waiting" => Thread(t) = sem.loop

IInv == TypeOK /\ Turns /\ Unyielded /\ FieldOwn /\ TokenOwn

(* A semaphore s that some tasks wait for while others hold a slot: who    *)
(* waits has a slot granted or is queued, once; and no slot is lost.       *)
Queued(s) == {s.waiters[i] : i \in DOMAIN s.waiters}
Sound(s, waiting, holding) ==
    /\ s \in [value : Nat, waiters : Seq(Tasks), granted : SUBSET Tasks,
              loop : Loops \cup Tasks \cup {Nobody}]
    /\ \A i, j \in DOMAIN s.waiters : s.waiters[i] = s.waiters[j] => i = j
    /\ Queued(s) \cap s.granted = {}
    /\ waiting = Queued(s) \cup s.granted
    /\ waiting \cap holding = {}
    /\ IsFiniteSet(holding \cup s.granted)
    /\ s.value + Cardinality(holding \cup s.granted) = Limit

(* A free slot is not kept from who is queued, unless others are granted   *)
(* one, who look at the queue when they resume, or somebody is about to    *)
(* grant it.                                                               *)
Served(s) == s.waiters # <<>> => s.value = 0 \/ s.granted # {}
ToGrant(s) == s.value > 0 /\ (s.waiters # <<>> => s.value = 1 \/ s.granted # {})

(* Where the threads take turns, nobody comes between a look at the value  *)
(* and its use.                                                            *)
LookStands ==
    /\ \A t \in Tasks : pc[t] = "taking" => ~Locked
    /\ \A t \in Tasks : pc[t] = "queueing" => Locked
    /\ \A t \in Tasks : pc[t] = "wake" => ToGrant(sem)
    /\ (\A t \in Tasks : pc[t] # "wake") => Served(sem)
Sequential == WaitOnOneLoop /\ Sound(sem, Waiting, Holders) /\ LookStands /\ deaf = {}

SlotsInv == KeptForNow /\ SyncAlone /\ (SameLoop => Sequential)
=============================================================================

----------------------------- MODULE LoopClients -----------------------------
(***************************************************************************)
(* The HTTP clients of one provider client that several threads share      *)
(* (providers/base.py:146-393), and run_sync, which opens a loop of its    *)
(* own for a synchronous call (transport.py:320-335).                      *)
(*                                                                         *)
(* An AsyncClient works only on the loop it was built on, so the clients   *)
(* are kept in a dictionary keyed by id(loop), an address the interpreter  *)
(* hands out again once nothing refers to the loop.  There is no lock: an  *)
(* action here is what a thread does between two points where the          *)
(* interpreter may run another one.                                        *)
(***************************************************************************)
EXTENDS Integers, FiniteSets

CONSTANTS
    Threads,
    Ids,       \* addresses of loop objects
    NoEntry,   \* a key that is not in the dictionary
    MaxCalls   \* bound: calls the threads make, together

ASSUME IdsAssumption == IsFiniteSet(Ids)
ASSUME MaxCallsAssumption == MaxCalls \in Nat

Loop == [id : Ids, nr : Nat \ {0}]
NoLoop == [nr |-> 0]
Client == [loop : Loop \cup {NoLoop}, nr : Nat \ {0}]    \* the loop it was built on or given for
NoClient == [nr |-> 0]
ASSUME NoEntryAssumption == NoEntry \notin [loop : Loop, client : Client]

VARIABLES
    made,      \* loops made so far, the serial number of the latest
    built,     \* clients built so far, likewise
    closed,    \* loops that are closed
    entries,   \* _async_clients: what is under each key
    injected,  \* _injected_async_client
    retired,   \* history: clients that were aclosed, each with the loop it was done on
    left,      \* calls the threads may still make
    home,      \* per thread: the loop its own code runs in
    chat,      \* per thread: the loop run_sync opened for the current call
    pc,
    size,      \* dictionary size when the scan of the reaper began
    seen,      \* keys the scan has passed
    keys,      \* keys still to delete (dead of the reaper, the list of aclose)
    client,    \* the client the call works with
    posts,     \* history: times the current call reached the network
    heard      \* what the last call told its caller

provider == <<made, built, closed, entries, injected, retired>>
vars == <<provider, left, home, chat, pc, size, seen, keys, client, posts, heard>>

Init ==
    /\ made = 0
    /\ built = 0
    /\ closed = {}
    /\ entries = [k \in Ids |-> NoEntry]
    /\ injected = NoClient
    /\ retired = {}
    /\ home = [t \in Threads |-> NoLoop]
    /\ chat = [t \in Threads |-> NoLoop]
    /\ pc = [t \in Threads |-> "idle"]
    /\ left = MaxCalls
    /\ size = [t \in Threads |-> 0]
    /\ seen = [t \in Threads |-> {}]
    /\ keys = [t \in Threads |-> {}]
    /\ client = [t \in Threads |-> NoClient]
    /\ posts = [t \in Threads |-> 0]
    /\ heard = [t \in Threads |-> "nothing"]
-----------------------------------------------------------------------------
Keys == {k \in Ids : entries[k] # NoEntry}

(* asyncio.get_running_loop() where the call of t runs.                    *)
Current(t) == IF chat[t] # NoLoop THEN chat[t] ELSE home[t]

(* A loop object lives while a thread runs it or an entry holds it.        *)
Referenced ==
    {home[t] : t \in Threads} \cup {chat[t] : t \in Threads}
        \cup {entries[k].loop : k \in Keys}

FreeIds == {i \in Ids : \A l \in Referenced \ {NoLoop} : l.id # i}

SlipOneSlot(l) == CHOOSE k \in Ids : TRUE      \* a slip: one slot for all loops
KeyOf(l) == l.id

(* The call starts at the head of _get_async_client: reap first.           *)
StartScan(t) ==
    /\ pc' = [pc EXCEPT ![t] = "scan"]
    /\ size' = [size EXCEPT ![t] = Cardinality(Keys)]
    /\ seen' = [seen EXCEPT ![t] = {}]
    /\ keys' = [keys EXCEPT ![t] = {}]
    /\ client' = [client EXCEPT ![t] = NoClient]
    /\ posts' = [posts EXCEPT ![t] = 0]
    /\ heard' = [heard EXCEPT ![t] = "nothing"]

SlipRunAgain(t, how) ==     \* a slip: run_sync runs the coroutine once more
    /\ closed' = IF chat[t] # NoLoop THEN closed \cup {chat[t]} ELSE closed
    /\ IF how = "runtime" /\ chat[t] # NoLoop /\ home[t] # NoLoop
       THEN /\ pc' = [pc EXCEPT ![t] = "scan"]
            /\ UNCHANGED <<chat, heard>>
       ELSE /\ chat' = [chat EXCEPT ![t] = NoLoop]
            /\ pc' = [pc EXCEPT ![t] = "idle"]
            /\ heard' = [heard EXCEPT ![t] = how]
    /\ size' = [size EXCEPT ![t] = Cardinality(Keys)]
    /\ seen' = [seen EXCEPT ![t] = {}]
    /\ keys' = [keys EXCEPT ![t] = {}]
    /\ client' = [client EXCEPT ![t] = NoClient]

(* The coroutine ends.  For a synchronous call its loop closes and         *)
(* run_sync hands on the outcome; inside a running loop it takes any       *)
(* RuntimeError for "no running loop", tries asyncio.run there, and that   *)
(* fails with an error of its own: "masked".                               *)
EndCall(t, how) ==
    /\ closed' = IF chat[t] # NoLoop THEN closed \cup {chat[t]} ELSE closed
    /\ chat' = [chat EXCEPT ![t] = NoLoop]
    /\ pc' = [pc EXCEPT ![t] = "idle"]
    /\ client' = [client EXCEPT ![t] = NoClient]
    /\ heard' = [heard EXCEPT ![t] =
            IF how = "runtime" /\ chat[t] # NoLoop /\ home[t] # NoLoop THEN "masked" ELSE how]
    /\ size' = [size EXCEPT ![t] = 0]
    /\ seen' = [seen EXCEPT ![t] = {}]
    /\ keys' = [keys EXCEPT ![t] = {}]

Spend(t) ==
    /\ pc[t] = "idle"
    /\ left > 0
    /\ left' = left - 1
-----------------------------------------------------------------------------
(* asyncio.run(main()): the thread's own code runs in a loop.              *)
EnterLoop(t) ==
    /\ Spend(t)
    /\ home[t] = NoLoop
    /\ \E i \in FreeIds : home' = [home EXCEPT ![t] = [id |-> i, nr |-> made + 1]]
    /\ made' = made + 1
    /\ UNCHANGED <<built, closed, entries, injected, retired, chat, pc, size, seen, keys, client, posts, heard>>

LeaveLoop(t) ==
    /\ pc[t] = "idle"
    /\ home[t] # NoLoop
    /\ closed' = closed \cup {home[t]}
    /\ home' = [home EXCEPT ![t] = NoLoop]
    /\ UNCHANGED <<made, built, entries, injected, retired, chat, pc, left, size, seen, keys, client, posts, heard>>

(* chat(), request() and the like: run_sync opens a loop, in a worker      *)
(* thread when the caller is inside one and waits.                         *)
Chat(t) ==
    /\ Spend(t)
    /\ \E i \in FreeIds : chat' = [chat EXCEPT ![t] = [id |-> i, nr |-> made + 1]]
    /\ made' = made + 1
    /\ StartScan(t)
    /\ UNCHANGED <<built, closed, entries, injected, retired, home>>

(* request_async() in the caller's loop, or _get_async_client() outside.   *)
Request(t) ==
    /\ Spend(t)
    /\ StartScan(t)
    /\ UNCHANGED <<provider, home, chat>>

(* One key of the comprehension over items(), or its end.                  *)
ScanKey(t, k) ==
    /\ pc[t] = "scan"
    /\ size[t] = Cardinality(Keys)
    /\ k \in Keys \ seen[t]
    /\ seen' = [seen EXCEPT ![t] = @ \cup {k}]
    /\ keys' = [keys EXCEPT ![t] = IF entries[k].loop \in closed THEN @ \cup {k} ELSE @]
    /\ UNCHANGED <<provider, home, chat, pc, left, size, client, posts, heard>>

ScanEnd(t) ==
    /\ pc[t] = "scan"
    /\ size[t] = Cardinality(Keys)
    /\ Keys \subseteq seen[t]
    /\ pc' = [pc EXCEPT ![t] = "sweep"]
    /\ UNCHANGED <<provider, home, chat, left, size, seen, keys, client, posts, heard>>

(* "dictionary changed size during iteration"                              *)
ScanFails(t) ==
    /\ pc[t] = "scan"
    /\ size[t] # Cardinality(Keys)
    /\ EndCall(t, "runtime")
    /\ UNCHANGED <<made, built, entries, injected, retired, home, left, posts>>

Sweep(t, k) ==
    /\ pc[t] = "sweep"
    /\ k \in keys[t] \cap Keys
    /\ entries' = [entries EXCEPT ![k] = NoEntry]
    /\ keys' = [keys EXCEPT ![t] = @ \ {k}]
    /\ UNCHANGED <<made, built, closed, injected, retired, home, chat, pc, left, size, seen, client, posts, heard>>

(* del of a key another thread has deleted: KeyError.                      *)
SweepFails(t) ==
    /\ pc[t] = "sweep"
    /\ \E k \in keys[t] : k \notin Keys
    /\ EndCall(t, "keyerror")
    /\ UNCHANGED <<made, built, entries, injected, retired, home, left, posts>>

SweepEnd(t) ==
    /\ pc[t] = "sweep"
    /\ keys[t] = {}
    /\ pc' = [pc EXCEPT ![t] = "lookup"]
    /\ UNCHANGED <<provider, home, chat, left, size, seen, keys, client, posts, heard>>

(* The entry of the running loop, if it has one.                           *)
Lookup(t) ==
    /\ pc[t] = "lookup"
    /\ Current(t) # NoLoop
    /\ LET e == entries[KeyOf(Current(t))]
           hit == e # NoEntry /\ e.loop \notin closed
       IN  /\ client' = IF hit THEN [client EXCEPT ![t] = e.client] ELSE client
           /\ pc' = [pc EXCEPT ![t] = IF hit THEN "using" ELSE "fill"]
           /\ posts' = IF hit THEN [posts EXCEPT ![t] = @ + 1] ELSE posts
    /\ UNCHANGED <<provider, home, chat, left, size, seen, keys, heard>>

(* No entry: the injected client is stored for this loop.  It is read from *)
(* the slot again to be returned, and close() may have emptied that.       *)
FillInjected(t) ==
    /\ pc[t] = "fill"
    /\ injected # NoClient
    /\ entries' = [entries EXCEPT ![KeyOf(Current(t))] = [loop |-> Current(t), client |-> injected]]
    /\ pc' = [pc EXCEPT ![t] = "adopt"]
    /\ UNCHANGED <<made, built, closed, injected, retired, home, chat, left, size, seen, keys, client, posts, heard>>

Adopt(t) ==
    /\ pc[t] = "adopt"
    /\ injected # NoClient
    /\ client' = [client EXCEPT ![t] = injected]
    /\ pc' = [pc EXCEPT ![t] = "using"]
    /\ posts' = [posts EXCEPT ![t] = @ + 1]
    /\ UNCHANGED <<provider, home, chat, left, size, seen, keys, heard>>

AdoptFails(t) ==
    /\ pc[t] = "adopt"
    /\ injected = NoClient
    /\ EndCall(t, "error")
    /\ UNCHANGED <<made, built, entries, injected, retired, home, left, posts>>

(* No entry and nothing injected: a client is built for this loop.         *)
FillFresh(t) ==
    /\ pc[t] = "fill"
    /\ injected = NoClient
    /\ LET c == [loop |-> Current(t), nr |-> built + 1]
       IN  /\ entries' = [entries EXCEPT ![KeyOf(Current(t))] = [loop |-> Current(t), client |-> c]]
           /\ client' = [client EXCEPT ![t] = c]
    /\ built' = built + 1
    /\ pc' = [pc EXCEPT ![t] = "using"]
    /\ posts' = [posts EXCEPT ![t] = @ + 1]
    /\ UNCHANGED <<made, closed, injected, retired, home, chat, left, size, seen, keys, heard>>

(* Outside any loop: what is in the slot, or a client built for it, which  *)
(* every later loop then adopts as if it had been given.                   *)
LookupSlot(t) ==
    /\ pc[t] = "lookup"
    /\ Current(t) = NoLoop
    /\ injected # NoClient
    /\ EndCall(t, "value")
    /\ UNCHANGED <<made, built, entries, injected, retired, home, left, posts>>

SlotEmpty(t) ==
    /\ pc[t] = "lookup"
    /\ Current(t) = NoLoop
    /\ injected = NoClient
    /\ pc' = [pc EXCEPT ![t] = "slot"]
    /\ UNCHANGED <<provider, left, home, chat, size, seen, keys, client, posts, heard>>

FillSlot(t) ==
    /\ pc[t] = "slot"
    /\ injected' = [loop |-> NoLoop, nr |-> built + 1]
    /\ built' = built + 1
    /\ EndCall(t, "value")
    /\ UNCHANGED <<made, entries, retired, home, left, posts>>

Aclosed == {r.client : r \in retired}

(* The exchange ends; httpx refuses a closed client with a RuntimeError.   *)
Finish(t, how) ==
    /\ pc[t] = "using"
    /\ client[t] \in Aclosed => how = "runtime"
    /\ EndCall(t, how)
    /\ UNCHANGED <<made, built, entries, injected, retired, home, left, posts>>
-----------------------------------------------------------------------------
(* close(), and the _async_client setter with None outside a loop: drop    *)
(* every entry, then the slot; aclose none.                                *)
Close(t) ==
    /\ Spend(t)
    /\ entries' = [k \in Ids |-> NoEntry]
    /\ pc' = [pc EXCEPT ![t] = "dropping"]
    /\ heard' = [heard EXCEPT ![t] = "nothing"]
    /\ UNCHANGED <<made, built, closed, injected, retired, home, chat, size, seen, keys, client, posts>>

DropSlot(t) ==
    /\ pc[t] = "dropping"
    /\ injected' = NoClient
    /\ pc' = [pc EXCEPT ![t] = "idle"]
    /\ UNCHANGED <<made, built, closed, entries, retired, left, home, chat, size, seen, keys, client, posts, heard>>

(* aclose(): a copy of the keys, then pop one after the other.             *)
Aclose(t) ==
    /\ Spend(t)
    /\ home[t] # NoLoop
    /\ pc' = [pc EXCEPT ![t] = "closing"]
    /\ keys' = [keys EXCEPT ![t] = Keys]
    /\ heard' = [heard EXCEPT ![t] = "nothing"]
    /\ UNCHANGED <<provider, home, chat, size, seen, client, posts>>

SlipPopAny(t, k) ==        \* a slip: the loop of the entry is not looked at
    /\ pc[t] = "closing"
    /\ k \in keys[t] \cap Keys
    /\ entries' = [entries EXCEPT ![k] = NoEntry]
    /\ retired' = retired \cup {[client |-> entries[k].client, on |-> Current(t)]}
    /\ keys' = [keys EXCEPT ![t] = @ \ {k}]
    /\ UNCHANGED <<made, built, closed, injected, home, chat, pc, left, size, seen, client, posts, heard>>

SlipKeepEntry(t, k) ==     \* a slip: the entry is read, not popped
    /\ pc[t] = "closing"
    /\ k \in keys[t] \cap Keys
    /\ retired' = IF entries[k].loop = Current(t)
                  THEN retired \cup {[client |-> entries[k].client, on |-> Current(t)]}
                  ELSE retired
    /\ keys' = [keys EXCEPT ![t] = @ \ {k}]
    /\ UNCHANGED <<made, built, closed, entries, injected, home, chat, pc, left, size, seen, client, posts, heard>>

(* Only the client of the current loop is aclosed.                         *)
Pop(t, k) ==
    /\ pc[t] = "closing"
    /\ k \in keys[t] \cap Keys
    /\ entries' = [entries EXCEPT ![k] = NoEntry]
    /\ retired' = IF entries[k].loop = Current(t) /\ entries[k].loop \notin closed
                  THEN retired \cup {[client |-> entries[k].client, on |-> Current(t)]}
                  ELSE retired
    /\ keys' = [keys EXCEPT ![t] = @ \ {k}]
    /\ UNCHANGED <<made, built, closed, injected, home, chat, pc, left, size, seen, client, posts, heard>>

PopFails(t) ==
    /\ pc[t] = "closing"
    /\ \E k \in keys[t] : k \notin Keys
    /\ EndCall(t, "keyerror")
    /\ UNCHANGED <<made, built, entries, injected, retired, home, left, posts>>

PopEnd(t) ==
    /\ pc[t] = "closing"
    /\ keys[t] = {}
    /\ EndCall(t, "value")
    /\ UNCHANGED <<made, built, entries, injected, retired, home, left, posts>>

(* The _async_client setter: from sync code a client for any loop, inside  *)
(* a loop one for that loop.                                               *)
Inject(t) ==
    /\ Spend(t)
    /\ built' = built + 1
    /\ LET c == [loop |-> home[t], nr |-> built + 1]
       IN  IF home[t] = NoLoop
           THEN injected' = c /\ UNCHANGED entries
           ELSE /\ entries' = [entries EXCEPT ![KeyOf(home[t])] = [loop |-> home[t], client |-> c]]
                /\ injected' = NoClient
    /\ UNCHANGED <<made, closed, retired, home, chat, pc, size, seen, keys, client, posts, heard>>

(* Setting it to None inside a loop drops the entry of that loop.          *)
Eject(t) ==
    /\ Spend(t)
    /\ home[t] # NoLoop
    /\ entries' = [entries EXCEPT ![KeyOf(home[t])] = NoEntry]
    /\ UNCHANGED <<made, built, closed, injected, retired, home, chat, pc, size, seen, keys, client, posts, heard>>

Terminated ==
    /\ left = 0
    /\ \A t \in Threads : pc[t] = "idle" /\ home[t] = NoLoop
    /\ UNCHANGED vars

Step(t) ==
    \/ EnterLoop(t) \/ LeaveLoop(t) \/ Chat(t) \/ Request(t)
    \/ ScanEnd(t) \/ ScanFails(t) \/ SweepFails(t) \/ SweepEnd(t)
    \/ Lookup(t) \/ FillInjected(t) \/ Adopt(t) \/ AdoptFails(t) \/ FillFresh(t)
    \/ LookupSlot(t) \/ SlotEmpty(t) \/ FillSlot(t)
    \/ \E k \in Ids : ScanKey(t, k) \/ Sweep(t, k) \/ Pop(t, k)
    \/ \E how \in {"value", "error", "runtime"} : Finish(t, how)
    \/ Close(t) \/ DropSlot(t) \/ Aclose(t) \/ PopFails(t) \/ PopEnd(t) \/ Inject(t) \/ Eject(t)

Next == (\E t \in Threads : Step(t)) \/ Terminated

Spec == Init /\ [][Next]_vars
-----------------------------------------------------------------------------
PC == {"idle", "scan", "sweep", "lookup", "fill", "adopt", "slot", "using", "closing", "dropping"}
Heard == {"nothing", "value", "error", "runtime", "keyerror", "masked"}

TypeOK ==
    /\ made \in Nat /\ built \in Nat
    /\ closed \subseteq Loop
    /\ entries \in [Ids -> [loop : Loop, client : Client] \cup {NoEntry}]
    /\ injected \in Client \cup {NoClient}
    /\ retired \subseteq [client : Client, on : Loop]
    /\ home \in [Threads -> Loop \cup {NoLoop}]
    /\ chat \in [Threads -> Loop \cup {NoLoop}]
    /\ pc \in [Threads -> PC]
    /\ left \in 0..MaxCalls
    /\ size \in [Threads -> Nat]
    /\ seen \in [Threads -> SUBSET Ids]
    /\ keys \in [Threads -> SUBSET Ids]
    /\ client \in [Threads -> Client \cup {NoClient}]
    /\ posts \in [Threads -> Nat]
    /\ heard \in [Threads -> Heard]

(***************************************************************************)
(* What holds of "Each loop gets its own client" (base.py:166): whatever   *)
(* threads reap, close or reuse of a dead loop's address, a call works     *)
(* with the client built on, or given for, its own running loop, or with   *)
(* one out of the slot.  The slot breaks the rule of line 166: what sync   *)
(* code gives is meant for every loop (:331), but a network client that a  *)
(* lookup outside any loop built (:313-319) also goes to every later loop. *)
(***************************************************************************)
FromSlot(c) == c.loop = NoLoop

OwnLoopOnly ==
    \A t \in Threads :
        pc[t] = "using" =>
            /\ client[t].loop = Current(t) \/ FromSlot(client[t])
            /\ Current(t) \notin closed

(***************************************************************************)
(* aclose() in one loop never touches the client of another (base.py:      *)
(* 374-377): a client built on a loop is aclosed on that loop.             *)
(***************************************************************************)
ClosedOnOwnLoop ==
    \A r \in retired : r.client.loop \in {NoLoop, r.on}

(***************************************************************************)
(* A call that is handed a client that was aclosed got it out of the slot: *)
(* aclose() takes the entry of such a client out (:386-393) but leaves the *)
(* slot as it is, so that the next lookup adopts the closed client again,  *)
(* and calls fail until close() empties the slot.  After aclose() of any   *)
(* other client the provider client is usable again.                       *)
(***************************************************************************)
OpenInUse ==
    \A t \in Threads :
        pc[t] = "using" /\ client[t] \in Aclosed => FromSlot(client[t])

(***************************************************************************)
(* The except RuntimeError of run_sync covers the whole run of the         *)
(* coroutine, a failed exchange included; still no call is sent twice.     *)
(***************************************************************************)
AskedOnce == \A t \in Threads : posts[t] <= 1

(***************************************************************************)
(* "Two threads that share a provider must get DIFFERENT AsyncClient       *)
(* instances" (test_base_coverage.py:870): each call gets one.  The reaper *)
(* and aclose fail a call when another thread removed the key first.       *)
(***************************************************************************)
UpkeepFailsNoCall == \A t \in Threads : heard[t] # "keyerror"
-----------------------------------------------------------------------------
(* The inductive invariant.  A running loop is open and no other thread's; *)
(* no two live loops share an address; so a key names one loop.            *)
LoopsApart ==
    \A t \in Threads :
        /\ home[t] # NoLoop => home[t] \notin closed
        /\ chat[t] # NoLoop => chat[t] \notin closed /\ chat[t] # home[t]
        /\ \A u \in Threads \ {t} :
            /\ home[t] # NoLoop => home[t] # home[u] /\ home[t] # chat[u]
            /\ chat[t] # NoLoop => chat[t] # home[u] /\ chat[t] # chat[u]

AddressesApart ==
    \A l, m \in Referenced \ {NoLoop} : l.id = m.id => l = m

SerialsPast ==
    /\ \A l \in (Referenced \ {NoLoop}) \cup closed : l.nr <= made
    /\ \A r \in retired : r.client.nr <= built
    /\ \A k \in Keys : entries[k].client.nr <= built
    /\ injected # NoClient => injected.nr <= built

(* What is under a key, or in the slot, is of the loop the key stands for  *)
(* or of none, and was not aclosed unless it is of none.                   *)
EntriesOwn ==
    /\ \A k \in Keys :
        /\ entries[k].loop.id = k
        /\ entries[k].client.loop # NoLoop =>
            entries[k].client.loop = entries[k].loop /\ entries[k].client \notin Aclosed
    /\ injected # NoClient => injected.loop = NoLoop

(* Where a call stands tells which loops it has and what it holds.         *)
CallStands ==
    \A t \in Threads :
        /\ chat[t] # NoLoop => pc[t] \in {"scan", "sweep", "lookup", "fill", "adopt", "using"}
        /\ pc[t] \in {"fill", "adopt", "using", "closing"} => Current(t) # NoLoop
        /\ pc[t] \in {"scan", "sweep", "lookup", "fill", "adopt", "slot"} => posts[t] = 0
        /\ pc[t] = "using" =>
            /\ client[t] # NoClient
            /\ client[t].loop # NoLoop => client[t].loop = Current(t)

IInv ==
    /\ TypeOK /\ LoopsApart /\ AddressesApart /\ SerialsPast /\ EntriesOwn /\ CallStands
    /\ ClosedOnOwnLoop /\ OpenInUse /\ AskedOnce

(* What one thread has to itself it can sweep and close undisturbed.       *)
KeysHeld ==
    \A t \in Threads :
        /\ pc[t] = "scan" => seen[t] \subseteq Keys /\ keys[t] \subseteq seen[t]
        /\ pc[t] \in {"sweep", "closing"} => keys[t] \subseteq Keys
=============================================================================

-------------------------- MODULE LoopClientsProofs --------------------------
(***************************************************************************)
(* Proofs about LoopClients, for any threads, addresses and calls.         *)
(***************************************************************************)
EXTENDS LoopClients, FiniteSetTheorems, TLAPS

Entry == [loop : Loop, client : Client]

LEMMA NullsApart == NoLoop \notin Loop /\ NoClient \notin Client
<1>1. \A l \in Loop : l.nr # 0
  BY DEF Loop
<1>2. \A c \in Client : c.nr # 0
  BY DEF Client
<1>3. QED
  BY <1>1, <1>2 DEF NoLoop, NoClient

LEMMA SizeIsNat == Cardinality(Keys) \in Nat
<1>1. IsFiniteSet(Keys)
  BY IdsAssumption, FS_Subset DEF Keys
<1>2. QED
  BY <1>1, FS_CardinalityType

(* What the type invariant says of the parts.                              *)
LEMMA Parts ==
    ASSUME TypeOK
    PROVE  /\ \A k \in Keys : k \in Ids /\ entries[k] \in Entry
           /\ \A k \in Keys : entries[k].loop \in Loop /\ entries[k].client \in Client
           /\ \A t \in Threads : home[t] # NoLoop => home[t] \in Loop
           /\ \A t \in Threads : chat[t] # NoLoop => chat[t] \in Loop
           /\ \A t \in Threads : Current(t) # NoLoop => Current(t) \in Loop
           /\ injected # NoClient => injected \in Client
<1>1. \A k \in Keys : k \in Ids /\ entries[k] \in Entry
  BY DEF TypeOK, Keys, Entry
<1>2. \A k \in Keys : entries[k].loop \in Loop /\ entries[k].client \in Client
  BY <1>1 DEF Entry
<1>3. QED
  BY <1>1, <1>2 DEF TypeOK, Current

LEMMA InitInv == Init => IInv
<1> SUFFICES ASSUME Init PROVE IInv
  OBVIOUS
<1> USE DEF Init
<1>1. Keys = {}
  BY DEF Keys
<1>2. Referenced \ {NoLoop} = {}
  BY <1>1 DEF Referenced
<1>3. TypeOK
  BY MaxCallsAssumption DEF TypeOK, PC, Heard
<1>4. LoopsApart /\ AddressesApart
  BY <1>2 DEF LoopsApart, AddressesApart
<1>5. SerialsPast /\ EntriesOwn
  BY <1>1, <1>2 DEF SerialsPast, EntriesOwn
<1>6. CallStands /\ OpenInUse
  BY DEF CallStands, OpenInUse, FromSlot
<1>7. ClosedOnOwnLoop /\ AskedOnce
  BY DEF ClosedOnOwnLoop, AskedOnce
<1>8. QED
  BY <1>3, <1>4, <1>5, <1>6, <1>7 DEF IInv
-----------------------------------------------------------------------------
(* The parts of the invariant that are about loops, clients and entries.   *)
Shared == LoopsApart /\ AddressesApart /\ SerialsPast /\ EntriesOwn /\ ClosedOnOwnLoop

(* The parts that are about where a call stands.                           *)
Local == CallStands /\ OpenInUse /\ AskedOnce

LEMMA SharedKept ==
    ASSUME IInv, UNCHANGED <<provider, home, chat>>
    PROVE  Shared'
<1>1. Keys' = Keys /\ Referenced' = Referenced /\ Aclosed' = Aclosed
  BY DEF provider, Keys, Referenced, Aclosed
<1>2. LoopsApart' /\ AddressesApart'
  BY <1>1 DEF IInv, provider, LoopsApart, AddressesApart
<1>3. SerialsPast'
  BY <1>1 DEF IInv, provider, SerialsPast
<1>4. EntriesOwn'
  BY <1>1 DEF IInv, provider, EntriesOwn
<1>5. ClosedOnOwnLoop'
  BY DEF IInv, provider, ClosedOnOwnLoop
<1>6. QED
  BY <1>2, <1>3, <1>4, <1>5 DEF Shared

(* A step of t that sends nothing and ends at a place other than "using".  *)
LEMMA LocalKept ==
    ASSUME IInv, NEW t \in Threads,
           home' = home, chat' = chat, retired' = retired,
           pc'[t] # "using",
           chat[t] # NoLoop => pc'[t] \in {"scan", "sweep", "lookup", "fill", "adopt"},
           pc'[t] \in {"fill", "adopt", "closing"} => Current(t) # NoLoop,
           pc'[t] \in {"scan", "sweep", "lookup", "fill", "adopt", "slot"} => posts'[t] = 0,
           posts'[t] <= 1,
           \A u \in Threads \ {t} : pc'[u] = pc[u] /\ client'[u] = client[u] /\ posts'[u] = posts[u]
    PROVE  Local'
<1>1. \A u \in Threads : Current(u)' = Current(u)
  BY DEF Current
<1>2. \A u \in Threads \ {t} : pc'[u] = pc[u]
  OBVIOUS
<1>3. Aclosed' = Aclosed
  BY DEF Aclosed
<1>4. CallStands'
  <2> SUFFICES ASSUME NEW u \in Threads
      PROVE /\ chat'[u] # NoLoop => pc'[u] \in {"scan", "sweep", "lookup", "fill", "adopt", "using"}
            /\ pc'[u] \in {"fill", "adopt", "using", "closing"} => Current(u)' # NoLoop
            /\ pc'[u] \in {"scan", "sweep", "lookup", "fill", "adopt", "slot"} => posts'[u] = 0
            /\ pc'[u] = "using" =>
                /\ client'[u] # NoClient
                /\ client'[u].loop # NoLoop => client'[u].loop = Current(u)'
    BY DEF CallStands
  <2>1. CASE u = t
    BY <2>1, <1>1
  <2>2. CASE u # t
    BY <2>2, <1>1, <1>2 DEF IInv, CallStands
  <2>3. QED
    BY <2>1, <2>2
<1>5. OpenInUse'
  BY <1>2, <1>3 DEF IInv, OpenInUse, FromSlot
<1>6. AskedOnce'
  BY DEF IInv, AskedOnce
<1>7. QED
  BY <1>4, <1>5, <1>6 DEF Local
-----------------------------------------------------------------------------
LEMMA RequestStep == ASSUME IInv, NEW t \in Threads, Request(t) PROVE IInv'
<1> USE DEF Request, Spend, StartScan
<1>1. TypeOK'
  <2>1. size' \in [Threads -> Nat]
    BY SizeIsNat DEF IInv, TypeOK
  <2>2. pc' \in [Threads -> PC] /\ heard' \in [Threads -> Heard]
    BY DEF IInv, TypeOK, PC, Heard
  <2>3. left' \in 0..MaxCalls
    BY MaxCallsAssumption DEF IInv, TypeOK
  <2>4. QED
    BY <2>1, <2>2, <2>3 DEF IInv, TypeOK, provider
<1>2. Shared'
  BY SharedKept
<1>3. Local'
  <2>1. chat[t] = NoLoop /\ pc'[t] = "scan" /\ posts'[t] = 0
    BY DEF IInv, TypeOK, CallStands
  <2>2. \A u \in Threads \ {t} : pc'[u] = pc[u] /\ client'[u] = client[u] /\ posts'[u] = posts[u]
    BY DEF IInv, TypeOK
  <2>3. home' = home /\ chat' = chat /\ retired' = retired
    BY DEF provider
  <2>4. QED
    BY <2>1, <2>2, <2>3, LocalKept
<1>4. QED
  BY <1>1, <1>2, <1>3 DEF IInv, Shared, Local

LEMMA ScanKeyStep == ASSUME IInv, NEW t \in Threads, NEW k \in Ids, ScanKey(t, k) PROVE IInv'
<1> USE DEF ScanKey
<1>1. TypeOK'
  BY DEF IInv, TypeOK, PC, Heard, provider
<1>2. Shared'
  BY SharedKept
<1>3. Local'
  BY DEF IInv, Local, CallStands, OpenInUse, FromSlot, AskedOnce, Current, Aclosed, provider
<1>4. QED
  BY <1>1, <1>2, <1>3 DEF IInv, Shared, Local

LEMMA ScanEndStep == ASSUME IInv, NEW t \in Threads, ScanEnd(t) PROVE IInv'
<1> USE DEF ScanEnd
<1>1. TypeOK'
  BY DEF IInv, TypeOK, PC, Heard, provider
<1>2. Shared'
  BY SharedKept
<1>3. Local'
  <2>1. pc'[t] = "sweep" /\ posts'[t] = 0
    BY DEF IInv, TypeOK, CallStands
  <2>2. \A u \in Threads \ {t} : pc'[u] = pc[u] /\ client'[u] = client[u] /\ posts'[u] = posts[u]
    BY DEF IInv, TypeOK
  <2>3. home' = home /\ chat' = chat /\ retired' = retired
    BY DEF provider
  <2>4. QED
    BY <2>1, <2>2, <2>3, LocalKept
<1>4. QED
  BY <1>1, <1>2, <1>3 DEF IInv, Shared, Local

LEMMA SweepEndStep == ASSUME IInv, NEW t \in Threads, SweepEnd(t) PROVE IInv'
<1> USE DEF SweepEnd
<1>1. TypeOK'
  BY DEF IInv, TypeOK, PC, Heard, provider
<1>2. Shared'
  BY SharedKept
<1>3. Local'
  <2>1. pc'[t] = "lookup" /\ posts'[t] = 0
    BY DEF IInv, TypeOK, CallStands
  <2>2. \A u \in Threads \ {t} : pc'[u] = pc[u] /\ client'[u] = client[u] /\ posts'[u] = posts[u]
    BY DEF IInv, TypeOK
  <2>3. home' = home /\ chat' = chat /\ retired' = retired
    BY DEF provider
  <2>4. QED
    BY <2>1, <2>2, <2>3, LocalKept
<1>4. QED
  BY <1>1, <1>2, <1>3 DEF IInv, Shared, Local

LEMMA SlotEmptyStep == ASSUME IInv, NEW t \in Threads, SlotEmpty(t) PROVE IInv'
<1> USE DEF SlotEmpty
<1>1. TypeOK'
  BY DEF IInv, TypeOK, PC, Heard, provider
<1>2. Shared'
  BY SharedKept
<1>3. Local'
  <2>1. pc'[t] = "slot" /\ posts'[t] = 0 /\ chat[t] = NoLoop
    BY DEF IInv, TypeOK, CallStands, Current
  <2>2. \A u \in Threads \ {t} : pc'[u] = pc[u] /\ client'[u] = client[u] /\ posts'[u] = posts[u]
    BY DEF IInv, TypeOK
  <2>3. home' = home /\ chat' = chat /\ retired' = retired
    BY DEF provider
  <2>4. QED
    BY <2>1, <2>2, <2>3, LocalKept
<1>4. QED
  BY <1>1, <1>2, <1>3 DEF IInv, Shared, Local

LEMMA AcloseStep == ASSUME IInv, NEW t \in Threads, Aclose(t) PROVE IInv'
<1> USE DEF Aclose, Spend
<1>1. TypeOK'
  <2>1. keys' \in [Threads -> SUBSET Ids]
    <3>1. Keys \in SUBSET Ids
      BY DEF Keys
    <3>2. QED
      BY <3>1 DEF IInv, TypeOK
  <2>2. pc' \in [Threads -> PC] /\ heard' \in [Threads -> Heard]
    BY DEF IInv, TypeOK, PC, Heard
  <2>3. left' \in 0..MaxCalls
    BY MaxCallsAssumption DEF IInv, TypeOK
  <2>4. QED
    BY <2>1, <2>2, <2>3 DEF IInv, TypeOK, provider
<1>2. Shared'
  BY SharedKept
<1>3. Local'
  <2>1. pc'[t] = "closing" /\ chat[t] = NoLoop /\ Current(t) = home[t] /\ posts'[t] <= 1
    BY DEF IInv, TypeOK, CallStands, Current, AskedOnce
  <2>2. \A u \in Threads \ {t} : pc'[u] = pc[u] /\ client'[u] = client[u] /\ posts'[u] = posts[u]
    BY DEF IInv, TypeOK
  <2>3. home' = home /\ chat' = chat /\ retired' = retired
    BY DEF provider
  <2>4. QED
    BY <2>1, <2>2, <2>3, LocalKept
<1>4. QED
  BY <1>1, <1>2, <1>3 DEF IInv, Shared, Local
-----------------------------------------------------------------------------
(* Steps that only take entries away.                                      *)
LEMMA SharedLess ==
    ASSUME IInv, UNCHANGED <<made, built, closed, retired, home, chat>>,
           \A k \in Ids : entries'[k] = entries[k] \/ entries'[k] = NoEntry,
           injected' = injected \/ injected' = NoClient
    PROVE  Shared'
<1>1. Keys' \subseteq Keys /\ \A k \in Keys' : entries'[k] = entries[k]
  BY DEF Keys
<1>2. Referenced' \subseteq Referenced
  BY <1>1 DEF Referenced
<1>3. Aclosed' = Aclosed
  BY DEF Aclosed
<1>4. LoopsApart'
  BY DEF IInv, LoopsApart
<1>5. AddressesApart'
  BY <1>2 DEF IInv, AddressesApart
<1>6. SerialsPast'
  BY <1>1, <1>2 DEF IInv, SerialsPast
<1>7. EntriesOwn'
  BY <1>1, <1>3 DEF IInv, EntriesOwn
<1>8. ClosedOnOwnLoop'
  BY DEF IInv, ClosedOnOwnLoop
<1>9. QED
  BY <1>4, <1>5, <1>6, <1>7, <1>8 DEF Shared

LEMMA SweepStep == ASSUME IInv, NEW t \in Threads, NEW k \in Ids, Sweep(t, k) PROVE IInv'
<1> USE DEF Sweep
<1>1. TypeOK'
  BY DEF IInv, TypeOK
<1>2. Shared'
  <2>1. \A j \in Ids : entries'[j] = entries[j] \/ entries'[j] = NoEntry
    BY DEF IInv, TypeOK
  <2>2. QED
    BY <2>1, SharedLess
<1>3. Local'
  BY DEF IInv, Local, CallStands, OpenInUse, FromSlot, AskedOnce, Current, Aclosed
<1>4. QED
  BY <1>1, <1>2, <1>3 DEF IInv, Shared, Local

LEMMA CloseStep == ASSUME IInv, NEW t \in Threads, Close(t) PROVE IInv'
<1> USE DEF Close, Spend
<1>1. TypeOK'
  <2>1. pc' \in [Threads -> PC] /\ heard' \in [Threads -> Heard]
    BY DEF IInv, TypeOK, PC, Heard
  <2>2. left' \in 0..MaxCalls
    BY MaxCallsAssumption DEF IInv, TypeOK
  <2>3. QED
    BY <2>1, <2>2 DEF IInv, TypeOK
<1>2. Shared'
  BY SharedLess
<1>3. Local'
  <2>1. pc'[t] = "dropping" /\ chat[t] = NoLoop /\ posts'[t] <= 1
    BY DEF IInv, TypeOK, CallStands, AskedOnce
  <2>2. \A u \in Threads \ {t} : pc'[u] = pc[u] /\ client'[u] = client[u] /\ posts'[u] = posts[u]
    BY DEF IInv, TypeOK
  <2>3. QED
    BY <2>1, <2>2, LocalKept
<1>4. QED
  BY <1>1, <1>2, <1>3 DEF IInv, Shared, Local

LEMMA DropSlotStep == ASSUME IInv, NEW t \in Threads, DropSlot(t) PROVE IInv'
<1> USE DEF DropSlot
<1>1. TypeOK'
  BY DEF IInv, TypeOK, PC
<1>2. Shared'
  BY SharedLess
<1>3. Local'
  <2>1. pc'[t] = "idle" /\ chat[t] = NoLoop /\ posts'[t] <= 1
    BY DEF IInv, TypeOK, CallStands, AskedOnce
  <2>2. \A u \in Threads \ {t} : pc'[u] = pc[u] /\ client'[u] = client[u] /\ posts'[u] = posts[u]
    BY DEF IInv, TypeOK
  <2>3. QED
    BY <2>1, <2>2, LocalKept
<1>4. QED
  BY <1>1, <1>2, <1>3 DEF IInv, Shared, Local

LEMMA EjectStep == ASSUME IInv, NEW t \in Threads, Eject(t) PROVE IInv'
<1> USE DEF Eject, Spend
<1>1. TypeOK'
  <2>1. entries' \in [Ids -> [loop : Loop, client : Client] \cup {NoEntry}]
    BY DEF IInv, TypeOK
  <2>2. left' \in 0..MaxCalls
    BY MaxCallsAssumption DEF IInv, TypeOK
  <2>3. QED
    BY <2>1, <2>2 DEF IInv, TypeOK
<1>2. Shared'
  <2>1. \A j \in Ids : entries'[j] = entries[j] \/ entries'[j] = NoEntry
    BY DEF IInv, TypeOK
  <2>2. QED
    BY <2>1, SharedLess
<1>3. Local'
  BY DEF IInv, Local, CallStands, OpenInUse, FromSlot, AskedOnce, Current, Aclosed
<1>4. QED
  BY <1>1, <1>2, <1>3 DEF IInv, Shared, Local
-----------------------------------------------------------------------------
(* Steps by which a call ends.                                             *)
LEMMA EndStep ==
    ASSUME IInv, NEW t \in Threads, NEW how \in Heard, EndCall(t, how),
           UNCHANGED <<made, entries, retired, home, left, posts>>,
           built' \in Nat, built' >= built,
           injected' \in Client \cup {NoClient},
           injected' # NoClient => injected'.loop = NoLoop /\ injected'.nr <= built'
    PROVE  IInv'
<1> USE DEF EndCall
<1>1. TypeOK'
  <2>1. closed' \subseteq Loop
    BY DEF IInv, TypeOK
  <2>2. pc' \in [Threads -> PC] /\ heard' \in [Threads -> Heard]
    BY DEF IInv, TypeOK, PC, Heard
  <2>3. /\ size' \in [Threads -> Nat]
        /\ seen' \in [Threads -> SUBSET Ids]
        /\ keys' \in [Threads -> SUBSET Ids]
    BY DEF IInv, TypeOK
  <2>4. /\ chat' \in [Threads -> Loop \cup {NoLoop}]
        /\ client' \in [Threads -> Client \cup {NoClient}]
    BY DEF IInv, TypeOK
  <2>5. QED
    BY <2>1, <2>2, <2>3, <2>4 DEF IInv, TypeOK
<1>2. /\ \A u \in Threads : chat'[u] = chat[u] \/ chat'[u] = NoLoop
      /\ \A u \in Threads \ {t} : chat'[u] = chat[u]
      /\ chat'[t] = NoLoop
      /\ closed' = closed \cup ({chat[t]} \ {NoLoop})
  BY DEF IInv, TypeOK
<1>3. Keys' = Keys
  BY DEF Keys
<1>4. Referenced' \subseteq Referenced \cup {NoLoop}
  BY <1>2, <1>3 DEF Referenced
<1>5. Shared'
  <2>1. LoopsApart'
    BY <1>2 DEF IInv, LoopsApart
  <2>2. AddressesApart'
    BY <1>4 DEF IInv, AddressesApart
  <2>3. SerialsPast'
    <3>1. \A l \in closed' : l \in closed \/ l \in Referenced \ {NoLoop}
      BY <1>2 DEF Referenced
    <3>2. \A l \in (Referenced' \ {NoLoop}) \cup closed' : l.nr <= made
      BY <3>1, <1>4 DEF IInv, SerialsPast
    <3>3. \A r \in retired : r.client.nr <= built'
      BY DEF IInv, SerialsPast, TypeOK, Client
    <3>4. \A k \in Keys' : entries'[k].client.nr <= built'
      BY <1>3, Parts DEF IInv, SerialsPast, TypeOK, Client
    <3>5. QED
      BY <3>2, <3>3, <3>4 DEF SerialsPast
  <2>4. EntriesOwn'
    BY <1>3 DEF IInv, EntriesOwn, Aclosed
  <2>5. ClosedOnOwnLoop'
    BY DEF IInv, ClosedOnOwnLoop
  <2>6. QED
    BY <2>1, <2>2, <2>3, <2>4, <2>5 DEF Shared
<1>6. Local'
  <2>1. pc'[t] = "idle"
    BY DEF IInv, TypeOK
  <2>2. \A u \in Threads \ {t} :
            pc'[u] = pc[u] /\ client'[u] = client[u] /\ Current(u)' = Current(u)
    BY <1>2 DEF IInv, TypeOK, Current
  <2>3. CallStands'
    BY <2>1, <2>2, <1>2 DEF IInv, CallStands
  <2>4. OpenInUse'
    BY <2>1, <2>2 DEF IInv, OpenInUse, FromSlot, Aclosed
  <2>5. AskedOnce'
    BY DEF IInv, AskedOnce
  <2>6. QED
    BY <2>3, <2>4, <2>5 DEF Local
<1>7. QED
  BY <1>1, <1>5, <1>6 DEF IInv, Shared, Local

LEMMA EndQuietly ==
    ASSUME IInv, NEW t \in Threads, NEW how \in Heard, EndCall(t, how),
           UNCHANGED <<made, built, entries, injected, retired, home, left, posts>>
    PROVE  IInv'
<1>1. built' \in Nat /\ built' >= built /\ injected' \in Client \cup {NoClient}
  BY DEF IInv, TypeOK
<1>2. injected' # NoClient => injected'.loop = NoLoop /\ injected'.nr <= built'
  BY DEF IInv, EntriesOwn, SerialsPast
<1>3. QED
  BY <1>1, <1>2, EndStep

LEMMA EndSteps ==
    ASSUME IInv, NEW t \in Threads,
           \/ ScanFails(t) \/ SweepFails(t) \/ AdoptFails(t) \/ LookupSlot(t)
           \/ PopFails(t) \/ PopEnd(t)
           \/ \E how \in {"value", "error", "runtime"} : Finish(t, how)
    PROVE  IInv'
<1>1. \E how \in Heard : EndCall(t, how)
  BY DEF ScanFails, SweepFails, AdoptFails, LookupSlot, PopFails, PopEnd, Finish, Heard
<1>2. UNCHANGED <<made, built, entries, injected, retired, home, left, posts>>
  BY DEF ScanFails, SweepFails, AdoptFails, LookupSlot, PopFails, PopEnd, Finish
<1>3. QED
  BY <1>1, <1>2, EndQuietly

LEMMA FillSlotStep == ASSUME IInv, NEW t \in Threads, FillSlot(t) PROVE IInv'
<1>1. EndCall(t, "value") /\ "value" \in Heard
  BY DEF FillSlot, Heard
<1>2. UNCHANGED <<made, entries, retired, home, left, posts>>
  BY DEF FillSlot
<1>3. built' \in Nat /\ built' >= built /\ built' \in Nat \ {0}
  BY DEF FillSlot, IInv, TypeOK
<1>4. injected' \in Client /\ injected'.loop = NoLoop /\ injected'.nr <= built'
  BY <1>3 DEF FillSlot, Client
<1>5. QED
  BY <1>1, <1>2, <1>3, <1>4, EndStep
-----------------------------------------------------------------------------
(* Steps by which a call gets its client.                                  *)
LEMMA LocalUses ==
    ASSUME IInv, NEW t \in Threads, NEW c \in Client,
           home' = home, chat' = chat, retired' = retired,
           Current(t) # NoLoop,
           posts[t] = 0,
           c.loop # NoLoop => c.loop = Current(t) /\ c \notin Aclosed,
           pc' = [pc EXCEPT ![t] = "using"],
           client' = [client EXCEPT ![t] = c],
           posts' = [posts EXCEPT ![t] = @ + 1]
    PROVE  Local'
<1>1. pc'[t] = "using" /\ client'[t] = c /\ posts'[t] = 1
  BY DEF IInv, TypeOK
<1>2. \A u \in Threads \ {t} : pc'[u] = pc[u] /\ client'[u] = client[u] /\ posts'[u] = posts[u]
  BY DEF IInv, TypeOK
<1>3. Aclosed' = Aclosed /\ \A u \in Threads : Current(u)' = Current(u)
  BY DEF Aclosed, Current
<1>4. CallStands'
  <2> SUFFICES ASSUME NEW u \in Threads
      PROVE /\ chat'[u] # NoLoop => pc'[u] \in {"scan", "sweep", "lookup", "fill", "adopt", "using"}
            /\ pc'[u] \in {"fill", "adopt", "using", "closing"} => Current(u)' # NoLoop
            /\ pc'[u] \in {"scan", "sweep", "lookup", "fill", "adopt", "slot"} => posts'[u] = 0
            /\ pc'[u] = "using" =>
                /\ client'[u] # NoClient
                /\ client'[u].loop # NoLoop => client'[u].loop = Current(u)'
    BY DEF CallStands
  <2>1. CASE u = t
    BY <2>1, <1>1, <1>3, NullsApart
  <2>2. CASE u # t
    BY <2>2, <1>2, <1>3 DEF IInv, CallStands
  <2>3. QED
    BY <2>1, <2>2
<1>5. OpenInUse'
  BY <1>1, <1>2, <1>3 DEF IInv, OpenInUse, FromSlot
<1>6. AskedOnce'
  BY <1>1, <1>2 DEF IInv, AskedOnce
<1>7. QED
  BY <1>4, <1>5, <1>6 DEF Local

LEMMA AdoptStep == ASSUME IInv, NEW t \in Threads, Adopt(t) PROVE IInv'
<1> USE DEF Adopt
<1>1. injected \in Client /\ injected.loop = NoLoop
  BY DEF IInv, TypeOK, EntriesOwn
<1>2. TypeOK'
  BY <1>1 DEF IInv, TypeOK, PC, provider
<1>3. Shared'
  BY SharedKept
<1>4. Local'
  <2>1. Current(t) # NoLoop /\ posts[t] = 0
    BY DEF IInv, CallStands
  <2>2. home' = home /\ chat' = chat /\ retired' = retired
    BY DEF provider
  <2>3. QED
    BY <1>1, <2>1, <2>2, LocalUses
<1>5. QED
  BY <1>2, <1>3, <1>4 DEF IInv, Shared, Local

LEMMA LookupStep == ASSUME IInv, NEW t \in Threads, Lookup(t) PROVE IInv'
<1> DEFINE k == Current(t).id
           hit == entries[k] # NoEntry /\ entries[k].loop \notin closed
<1>1. /\ pc[t] = "lookup" /\ Current(t) # NoLoop /\ posts[t] = 0
      /\ UNCHANGED <<provider, home, chat, left, size, seen, keys, heard>>
      /\ client' = IF hit THEN [client EXCEPT ![t] = entries[k].client] ELSE client
      /\ pc' = [pc EXCEPT ![t] = IF hit THEN "using" ELSE "fill"]
      /\ posts' = IF hit THEN [posts EXCEPT ![t] = @ + 1] ELSE posts
  BY DEF Lookup, KeyOf, IInv, CallStands
<1>2. Current(t) \in Loop /\ k \in Ids
  BY <1>1, Parts DEF IInv, Loop
<1>3. Shared'
  BY <1>1, SharedKept
<1>4. CASE hit
  <2>1. k \in Keys
    BY <1>2, <1>4 DEF Keys
  <2>2. entries[k].client \in Client /\ entries[k].loop \in Loop /\ entries[k].loop.id = k
    BY <2>1, Parts DEF IInv, EntriesOwn
  <2>3. entries[k].loop = Current(t)
    <3>1. entries[k].loop \in Referenced \ {NoLoop}
      BY <2>1, <2>2, NullsApart DEF Referenced
    <3>2. Current(t) \in Referenced \ {NoLoop}
      BY <1>1 DEF Referenced, Current
    <3>3. QED
      BY <3>1, <3>2, <2>2 DEF IInv, AddressesApart
  <2>4. entries[k].client.loop # NoLoop =>
            entries[k].client.loop = Current(t) /\ entries[k].client \notin Aclosed
    BY <2>1, <2>3 DEF IInv, EntriesOwn
  <2>5. /\ pc' = [pc EXCEPT ![t] = "using"]
        /\ client' = [client EXCEPT ![t] = entries[k].client]
        /\ posts' = [posts EXCEPT ![t] = @ + 1]
        /\ home' = home /\ chat' = chat /\ retired' = retired
    BY <1>1, <1>4 DEF provider
  <2>6. TypeOK'
    BY <1>1, <2>2, <2>5 DEF IInv, TypeOK, PC, provider
  <2>7. Local'
    BY <1>1, <2>2, <2>4, <2>5, LocalUses
  <2>8. QED
    BY <1>3, <2>6, <2>7 DEF IInv, Shared, Local
<1>5. CASE ~hit
  <2>1. TypeOK'
    BY <1>1, <1>5 DEF IInv, TypeOK, PC, provider
  <2>2. pc'[t] = "fill" /\ posts'[t] = 0
    BY <1>1, <1>5 DEF IInv, TypeOK
  <2>3. \A u \in Threads \ {t} : pc'[u] = pc[u] /\ client'[u] = client[u] /\ posts'[u] = posts[u]
    BY <1>1, <1>5 DEF IInv, TypeOK
  <2>4. home' = home /\ chat' = chat /\ retired' = retired
    BY <1>1 DEF provider
  <2>5. Local'
    BY <1>1, <2>2, <2>3, <2>4, LocalKept
  <2>6. QED
    BY <1>3, <2>1, <2>5 DEF IInv, Shared, Local
<1>6. QED
  BY <1>4, <1>5
-----------------------------------------------------------------------------
(* Steps that put a client under the key of a running loop.                *)
LEMMA SharedFilled ==
    ASSUME IInv, NEW l \in Loop, l \in Referenced, NEW c \in Client,
           c.loop # NoLoop => c.loop = l /\ c \notin Aclosed,
           entries' = [entries EXCEPT ![l.id] = [loop |-> l, client |-> c]],
           UNCHANGED <<made, closed, retired, home, chat>>,
           built' \in Nat, built' >= built, c.nr <= built',
           injected' = injected \/ injected' = NoClient
               \/ (injected' = c /\ c.loop = NoLoop)
    PROVE  Shared' /\ entries' \in [Ids -> [loop : Loop, client : Client] \cup {NoEntry}]
<1>1. l.id \in Ids /\ [loop |-> l, client |-> c] \in [loop : Loop, client : Client]
  BY DEF Loop
<1>2. entries' \in [Ids -> [loop : Loop, client : Client] \cup {NoEntry}]
  BY <1>1 DEF IInv, TypeOK
<1>3. /\ \A k \in Ids \ {l.id} : entries'[k] = entries[k]
      /\ entries'[l.id] = [loop |-> l, client |-> c]
  BY <1>1 DEF IInv, TypeOK
<1>4. \A k \in Keys' : k = l.id \/ (k \in Keys /\ entries'[k] = entries[k])
  BY <1>3 DEF Keys
<1>5. \A k \in Keys' : entries'[k].loop \in Referenced
  BY <1>3, <1>4 DEF Referenced
<1>6. Referenced' \subseteq Referenced
  BY <1>5 DEF Referenced
<1>7. Aclosed' = Aclosed
  BY DEF Aclosed
<1>8. LoopsApart'
  BY DEF IInv, LoopsApart
<1>9. AddressesApart'
  BY <1>6 DEF IInv, AddressesApart
<1>10. SerialsPast'
  <2>1. \A k \in Keys : entries[k].client.nr <= built'
    BY Parts DEF IInv, SerialsPast, TypeOK, Client
  <2>2. \A r \in retired : r.client.nr <= built'
    BY DEF IInv, SerialsPast, TypeOK, Client
  <2>3. \A k \in Keys' : entries'[k].client.nr <= built'
    BY <1>3, <1>4, <2>1
  <2>4. injected' # NoClient => injected'.nr <= built'
    BY DEF IInv, SerialsPast, TypeOK, Client
  <2>5. QED
    BY <1>6, <2>2, <2>3, <2>4 DEF IInv, SerialsPast
<1>11. EntriesOwn'
  BY <1>3, <1>4, <1>7 DEF IInv, EntriesOwn
<1>12. ClosedOnOwnLoop'
  BY DEF IInv, ClosedOnOwnLoop
<1>13. QED
  BY <1>2, <1>8, <1>9, <1>10, <1>11, <1>12 DEF Shared

LEMMA CurrentLives ==
    ASSUME IInv, NEW t \in Threads, Current(t) # NoLoop
    PROVE  Current(t) \in Loop /\ Current(t) \in Referenced
BY Parts DEF IInv, Current, Referenced

LEMMA FillInjectedStep == ASSUME IInv, NEW t \in Threads, FillInjected(t) PROVE IInv'
<1> USE DEF FillInjected
<1>1. Current(t) # NoLoop /\ posts[t] = 0
  BY DEF IInv, CallStands
<1>2. injected \in Client /\ injected.loop = NoLoop /\ injected.nr <= built /\ built \in Nat
  BY DEF IInv, TypeOK, EntriesOwn, SerialsPast
<1>3. entries' = [entries EXCEPT ![Current(t).id] = [loop |-> Current(t), client |-> injected]]
  BY DEF KeyOf
<1>4. built' \in Nat /\ built' >= built /\ injected.nr <= built'
  BY <1>2
<1>5. UNCHANGED <<made, closed, retired, home, chat>> /\ injected' = injected
  OBVIOUS
<1>6. Shared' /\ entries' \in [Ids -> [loop : Loop, client : Client] \cup {NoEntry}]
  BY <1>1, <1>2, <1>3, <1>4, <1>5, CurrentLives, SharedFilled
<1>7. TypeOK'
  BY <1>6 DEF IInv, TypeOK, PC
<1>8. Local'
  <2>1. pc'[t] = "adopt" /\ posts'[t] = 0
    BY <1>1 DEF IInv, TypeOK
  <2>2. \A u \in Threads \ {t} : pc'[u] = pc[u] /\ client'[u] = client[u] /\ posts'[u] = posts[u]
    BY DEF IInv, TypeOK
  <2>3. QED
    BY <1>1, <2>1, <2>2, LocalKept
<1>9. QED
  BY <1>6, <1>7, <1>8 DEF IInv, Shared, Local

LEMMA FillFreshStep == ASSUME IInv, NEW t \in Threads, FillFresh(t) PROVE IInv'
<1> DEFINE c == [loop |-> Current(t), nr |-> built + 1]
<1> HIDE DEF c
<1>1. /\ pc[t] = "fill"
      /\ entries' = [entries EXCEPT ![Current(t).id] = [loop |-> Current(t), client |-> c]]
      /\ client' = [client EXCEPT ![t] = c]
      /\ built' = built + 1
      /\ pc' = [pc EXCEPT ![t] = "using"]
      /\ posts' = [posts EXCEPT ![t] = @ + 1]
      /\ UNCHANGED <<made, closed, injected, retired, home, chat, left, size, seen, keys, heard>>
  BY DEF FillFresh, KeyOf, c
<1>2. Current(t) # NoLoop /\ posts[t] = 0
  BY <1>1 DEF IInv, CallStands
<1>3. c \in Client /\ c.loop = Current(t) /\ c.nr = built + 1
  BY <1>2, CurrentLives DEF c, Client, IInv, TypeOK
<1>4. c \notin Aclosed
  <2>1. \A r \in retired : r.client.nr <= built
    BY DEF IInv, SerialsPast
  <2>2. built \in Nat
    BY DEF IInv, TypeOK
  <2>3. QED
    BY <1>3, <2>1, <2>2 DEF Aclosed
<1>5. built' \in Nat /\ built' >= built /\ c.nr <= built'
  BY <1>1, <1>3 DEF IInv, TypeOK
<1>6. Shared' /\ entries' \in [Ids -> [loop : Loop, client : Client] \cup {NoEntry}]
  BY <1>1, <1>2, <1>3, <1>4, <1>5, CurrentLives, SharedFilled
<1>7. TypeOK'
  BY <1>1, <1>3, <1>5, <1>6 DEF IInv, TypeOK, PC
<1>8. Local'
  BY <1>1, <1>2, <1>3, <1>4, LocalUses
<1>9. QED
  BY <1>6, <1>7, <1>8 DEF IInv, Shared, Local

LEMMA InjectStep == ASSUME IInv, NEW t \in Threads, Inject(t) PROVE IInv'
<1> DEFINE c == [loop |-> home[t], nr |-> built + 1]
<1> HIDE DEF c
<1>1. /\ IF home[t] = NoLoop
         THEN injected' = c /\ entries' = entries
         ELSE /\ entries' = [entries EXCEPT ![home[t].id] = [loop |-> home[t], client |-> c]]
              /\ injected' = NoClient
      /\ built' = built + 1
      /\ left' = left - 1 /\ left > 0
      /\ UNCHANGED <<made, closed, retired, home, chat, pc, size, seen, keys, client, posts, heard>>
  BY DEF Inject, Spend, KeyOf, c
<1>2. c \in Client /\ c.loop = home[t] /\ c.nr = built + 1
  BY DEF c, Client, IInv, TypeOK
<1>3. built' \in Nat /\ built' >= built /\ c.nr <= built'
  BY <1>1, <1>2 DEF IInv, TypeOK
<1>4. Shared' /\ entries' \in [Ids -> [loop : Loop, client : Client] \cup {NoEntry}]
  <2>1. CASE home[t] # NoLoop
    <3>1. home[t] \in Loop /\ home[t] \in Referenced
      BY <2>1, Parts DEF IInv, Referenced
    <3>2. entries' = [entries EXCEPT ![home[t].id] = [loop |-> home[t], client |-> c]]
      BY <1>1, <2>1
    <3>3. injected' = NoClient /\ UNCHANGED <<made, closed, retired, home, chat>>
      BY <1>1, <2>1
    <3>4. c \notin Aclosed
      <4>1. \A r \in retired : r.client.nr <= built
        BY DEF IInv, SerialsPast
      <4>2. \A a \in Aclosed : a.nr <= built
        BY <4>1 DEF Aclosed
      <4>3. built \in Nat
        BY DEF IInv, TypeOK
      <4>4. QED
        BY <1>2, <4>2, <4>3
    <3>5. QED
      BY <1>2, <1>3, <3>1, <3>2, <3>3, <3>4, SharedFilled
  <2>2. CASE home[t] = NoLoop
    <3>1. injected' = c /\ entries' = entries
      BY <1>1, <2>2
    <3>2. Keys' = Keys /\ Referenced' = Referenced /\ Aclosed' = Aclosed
      BY <1>1, <3>1 DEF Keys, Referenced, Aclosed
    <3>3. LoopsApart' /\ AddressesApart'
      BY <1>1, <3>2 DEF IInv, LoopsApart, AddressesApart
    <3>4. SerialsPast'
      <4>1. \A r \in retired : r.client.nr <= built'
        BY <1>1 DEF IInv, SerialsPast, TypeOK, Client
      <4>2. \A k \in Keys : entries[k].client.nr <= built'
        BY <1>1, Parts DEF IInv, SerialsPast, TypeOK, Client
      <4>3. QED
        BY <1>1, <1>3, <3>1, <3>2, <4>1, <4>2 DEF IInv, SerialsPast
    <3>5. EntriesOwn'
      BY <1>2, <2>2, <3>1, <3>2 DEF IInv, EntriesOwn
    <3>6. ClosedOnOwnLoop'
      BY <1>1 DEF IInv, ClosedOnOwnLoop
    <3>7. QED
      BY <3>1, <3>3, <3>4, <3>5, <3>6 DEF Shared, IInv, TypeOK
  <2>3. QED
    BY <2>1, <2>2
<1>5. TypeOK'
  <2>1. injected' \in Client \cup {NoClient}
    BY <1>1, <1>2
  <2>2. left' \in 0..MaxCalls
    BY <1>1, MaxCallsAssumption DEF IInv, TypeOK
  <2>3. QED
    BY <1>1, <1>3, <1>4, <2>1, <2>2 DEF IInv, TypeOK
<1>6. Local'
  BY <1>1 DEF IInv, Local, CallStands, OpenInUse, FromSlot, AskedOnce, Current, Aclosed
<1>7. QED
  BY <1>4, <1>5, <1>6 DEF IInv, Shared, Local
-----------------------------------------------------------------------------
(* aclose() retires a client: no other thread holds it, no other key has it.*)
LEMMA PopStep == ASSUME IInv, NEW t \in Threads, NEW k \in Ids, Pop(t, k) PROVE IInv'
<1> DEFINE own == entries[k].loop = Current(t) /\ entries[k].loop \notin closed
           mark == [client |-> entries[k].client, on |-> Current(t)]
<1>1. /\ pc[t] = "closing" /\ k \in Keys
      /\ entries' = [entries EXCEPT ![k] = NoEntry]
      /\ retired' = IF own THEN retired \cup {mark} ELSE retired
      /\ keys' = [keys EXCEPT ![t] = @ \ {k}]
      /\ UNCHANGED <<made, built, closed, injected, home, chat, pc, left, size, seen, client, posts, heard>>
  BY DEF Pop
<1>2. Current(t) # NoLoop /\ Current(t) \in Loop
  BY <1>1, CurrentLives DEF IInv, CallStands
<1>3. entries[k].client \in Client /\ mark \in [client : Client, on : Loop]
  BY <1>1, <1>2, Parts DEF IInv
<1>4. TypeOK'
  <2>1. retired' \subseteq [client : Client, on : Loop]
    BY <1>1, <1>3 DEF IInv, TypeOK
  <2>2. keys' \in [Threads -> SUBSET Ids]
    BY <1>1 DEF IInv, TypeOK
  <2>3. entries' \in [Ids -> [loop : Loop, client : Client] \cup {NoEntry}]
    BY <1>1 DEF IInv, TypeOK
  <2>4. QED
    BY <1>1, <2>1, <2>2, <2>3 DEF IInv, TypeOK
<1>5. Keys' = Keys \ {k} /\ \A j \in Keys' : entries'[j] = entries[j]
  BY <1>1 DEF Keys, IInv, TypeOK
<1>6. Referenced' \subseteq Referenced
  BY <1>1, <1>5 DEF Referenced
<1>7. Aclosed' \subseteq Aclosed \cup {entries[k].client}
  BY <1>1 DEF Aclosed
<1>8. own \/ Aclosed' = Aclosed
  BY <1>1 DEF Aclosed
<1>9. Shared'
  <2>1. LoopsApart'
    BY <1>1 DEF IInv, LoopsApart
  <2>2. AddressesApart'
    BY <1>6 DEF IInv, AddressesApart
  <2>3. SerialsPast'
    <3>1. \A r \in retired' : r.client.nr <= built
      BY <1>1 DEF IInv, SerialsPast
    <3>2. QED
      BY <1>1, <1>5, <1>6, <3>1 DEF IInv, SerialsPast
  <2>4. EntriesOwn'
    <3>1. \A j \in Keys' : entries[j].client.loop # NoLoop => entries[j].client # entries[k].client
      BY <1>1, <1>5 DEF IInv, EntriesOwn
    <3>2. QED
      BY <1>1, <1>5, <1>7, <3>1 DEF IInv, EntriesOwn
  <2>5. ClosedOnOwnLoop'
    BY <1>1 DEF IInv, ClosedOnOwnLoop, EntriesOwn
  <2>6. QED
    BY <2>1, <2>2, <2>3, <2>4, <2>5 DEF Shared
<1>10. Local'
  <2>1. CallStands' /\ AskedOnce'
    BY <1>1 DEF IInv, CallStands, AskedOnce, Current
  <2>2. OpenInUse'
    <3> SUFFICES ASSUME NEW u \in Threads, pc[u] = "using", client[u].loop # NoLoop
        PROVE client[u] \notin Aclosed'
      BY <1>1 DEF OpenInUse, FromSlot
    <3>1. client[u] \notin Aclosed /\ client[u].loop = Current(u)
      BY DEF IInv, OpenInUse, FromSlot, CallStands
    <3>2. u # t
      BY <1>1
    <3>3. Current(u) # Current(t)
      BY <1>2, <3>2 DEF IInv, LoopsApart, Current
    <3>4. CASE own
      <4>1. entries[k].client.loop # NoLoop => entries[k].client.loop = Current(t)
        BY <1>1, <3>4 DEF IInv, EntriesOwn
      <4>2. entries[k].client # client[u]
        BY <4>1, <3>1, <3>3
      <4>3. QED
        BY <4>2, <3>1, <1>7
    <3>5. QED
      BY <3>1, <3>4, <1>8
  <2>3. QED
    BY <2>1, <2>2 DEF Local
<1>11. QED
  BY <1>4, <1>9, <1>10 DEF IInv, Shared, Local
-----------------------------------------------------------------------------
(* Steps that open or leave a loop.                                        *)
LEMMA FreshLoop ==
    ASSUME IInv, NEW i \in FreeIds, NEW l, l = [id |-> i, nr |-> made + 1]
    PROVE  /\ l \in Loop /\ l # NoLoop
           /\ l \notin Referenced /\ l \notin closed
           /\ l.nr = made + 1 /\ made \in Nat
           /\ \A m \in Referenced \ {NoLoop} : m.id # l.id
<1>1. i \in Ids /\ made \in Nat
  BY DEF FreeIds, IInv, TypeOK
<1>2. l \in Loop /\ l.nr = made + 1 /\ l.id = i
  BY <1>1 DEF Loop
<1>3. l # NoLoop
  BY <1>2, NullsApart
<1>4. \A m \in Referenced \ {NoLoop} : m.id # l.id
  BY <1>2 DEF FreeIds
<1>5. l \notin closed
  BY <1>1, <1>2 DEF IInv, SerialsPast
<1>6. QED
  BY <1>1, <1>2, <1>3, <1>4, <1>5

LEMMA SharedOpened ==
    ASSUME IInv, NEW i \in FreeIds, NEW t \in Threads, NEW l,
           l = [id |-> i, nr |-> made + 1],
           \/ home[t] = NoLoop /\ home' = [home EXCEPT ![t] = l] /\ chat' = chat
           \/ chat[t] = NoLoop /\ chat' = [chat EXCEPT ![t] = l] /\ home' = home,
           made' = made + 1,
           UNCHANGED <<built, closed, entries, injected, retired>>
    PROVE  Shared'
<1>1. /\ l \in Loop /\ l # NoLoop
      /\ l \notin Referenced /\ l \notin closed
      /\ l.nr = made + 1 /\ made \in Nat
      /\ \A m \in Referenced \ {NoLoop} : m.id # l.id
  BY FreshLoop
<1>2. Keys' = Keys /\ Aclosed' = Aclosed
  BY DEF Keys, Aclosed
<1>3. /\ \A u \in Threads \ {t} : home'[u] = home[u] /\ chat'[u] = chat[u]
      /\ (home'[t] = l /\ chat'[t] = chat[t]) \/ (chat'[t] = l /\ home'[t] = home[t])
  BY DEF IInv, TypeOK
<1>4. Referenced' \subseteq Referenced \cup {l}
  BY <1>2, <1>3 DEF Referenced
<1>5. \A u \in Threads : home[u] # l /\ chat[u] # l
  BY <1>1 DEF Referenced
<1>6. LoopsApart'
  BY <1>1, <1>3, <1>5 DEF IInv, LoopsApart
<1>7. AddressesApart'
  BY <1>1, <1>4 DEF IInv, AddressesApart
<1>8. SerialsPast'
  <2>1. \A m \in (Referenced \ {NoLoop}) \cup closed : m.nr <= made /\ m \in Loop
    BY Parts DEF IInv, SerialsPast, Referenced, TypeOK
  <2>2. \A m \in (Referenced \ {NoLoop}) \cup closed : m.nr <= made + 1
    BY <1>1, <2>1 DEF Loop
  <2>3. QED
    BY <1>1, <1>2, <1>4, <2>2 DEF IInv, SerialsPast
<1>9. EntriesOwn' /\ ClosedOnOwnLoop'
  BY <1>2 DEF IInv, EntriesOwn, ClosedOnOwnLoop
<1>10. QED
  BY <1>6, <1>7, <1>8, <1>9 DEF Shared

LEMMA EnterLoopStep == ASSUME IInv, NEW t \in Threads, EnterLoop(t) PROVE IInv'
<1> USE DEF EnterLoop, Spend
<1>1. PICK i \in FreeIds : home' = [home EXCEPT ![t] = [id |-> i, nr |-> made + 1]]
  OBVIOUS
<1> DEFINE l == [id |-> i, nr |-> made + 1]
<1>2. l \in Loop /\ l # NoLoop
  BY FreshLoop
<1>3. home' = [home EXCEPT ![t] = l]
  BY <1>1
<1> HIDE DEF l
<1>4. TypeOK'
  <2>1. home' \in [Threads -> Loop \cup {NoLoop}]
    BY <1>2, <1>3 DEF IInv, TypeOK
  <2>2. left' \in 0..MaxCalls
    BY MaxCallsAssumption DEF IInv, TypeOK
  <2>3. QED
    BY <2>1, <2>2 DEF IInv, TypeOK
<1>5. Shared'
  BY <1>3, SharedOpened DEF l
<1>6. Local'
  <2>1. \A u \in Threads \ {t} : Current(u)' = Current(u)
    BY <1>3 DEF Current, IInv, TypeOK
  <2>2. pc[t] = "idle"
    OBVIOUS
  <2>3. CallStands'
    BY <2>1, <2>2 DEF IInv, CallStands
  <2>4. QED
    BY <2>3 DEF IInv, Local, OpenInUse, FromSlot, AskedOnce, Aclosed
<1>7. QED
  BY <1>4, <1>5, <1>6 DEF IInv, Shared, Local

LEMMA ChatStep == ASSUME IInv, NEW t \in Threads, Chat(t) PROVE IInv'
<1> USE DEF Chat, Spend, StartScan
<1>1. PICK i \in FreeIds : chat' = [chat EXCEPT ![t] = [id |-> i, nr |-> made + 1]]
  OBVIOUS
<1> DEFINE l == [id |-> i, nr |-> made + 1]
<1>2. l \in Loop /\ l # NoLoop
  BY FreshLoop
<1>3. chat' = [chat EXCEPT ![t] = l]
  BY <1>1
<1> HIDE DEF l
<1>4. TypeOK'
  <2>1. chat' \in [Threads -> Loop \cup {NoLoop}]
    BY <1>2, <1>3 DEF IInv, TypeOK
  <2>2. size' \in [Threads -> Nat]
    BY SizeIsNat DEF IInv, TypeOK
  <2>3. pc' \in [Threads -> PC] /\ heard' \in [Threads -> Heard]
    BY DEF IInv, TypeOK, PC, Heard
  <2>4. left' \in 0..MaxCalls
    BY MaxCallsAssumption DEF IInv, TypeOK
  <2>5. QED
    BY <2>1, <2>2, <2>3, <2>4 DEF IInv, TypeOK
<1>5. chat[t] = NoLoop
  BY DEF IInv, CallStands
<1>6. Shared'
  BY <1>3, <1>5, SharedOpened DEF l
<1>7. Local'
  <2>1. \A u \in Threads \ {t} : Current(u)' = Current(u) /\ chat'[u] = chat[u]
    BY <1>3 DEF Current, IInv, TypeOK
  <2>2. pc'[t] = "scan" /\ posts'[t] = 0
    BY DEF IInv, TypeOK
  <2>3. \A u \in Threads \ {t} : pc'[u] = pc[u] /\ client'[u] = client[u] /\ posts'[u] = posts[u]
    BY DEF IInv, TypeOK
  <2>4. CallStands'
    BY <2>1, <2>2, <2>3 DEF IInv, CallStands
  <2>5. OpenInUse' /\ AskedOnce'
    BY <2>2, <2>3 DEF IInv, OpenInUse, FromSlot, AskedOnce, Aclosed
  <2>6. QED
    BY <2>4, <2>5 DEF Local
<1>8. QED
  BY <1>4, <1>6, <1>7 DEF IInv, Shared, Local

LEMMA LeaveLoopStep == ASSUME IInv, NEW t \in Threads, LeaveLoop(t) PROVE IInv'
<1> USE DEF LeaveLoop
<1>1. /\ \A u \in Threads \ {t} : home'[u] = home[u]
      /\ home'[t] = NoLoop
      /\ chat[t] = NoLoop
  BY DEF IInv, TypeOK, CallStands
<1>2. TypeOK'
  <2>1. closed' \subseteq Loop
    BY DEF IInv, TypeOK
  <2>2. QED
    BY <2>1 DEF IInv, TypeOK
<1>3. Keys' = Keys /\ Aclosed' = Aclosed
  BY DEF Keys, Aclosed
<1>4. Referenced' \subseteq Referenced \cup {NoLoop}
  BY <1>1, <1>3 DEF Referenced
<1>5. LoopsApart'
  BY <1>1 DEF IInv, LoopsApart
<1>6. AddressesApart'
  BY <1>4 DEF IInv, AddressesApart
<1>7. SerialsPast'
  <2>1. home[t] \in Referenced \ {NoLoop}
    BY DEF Referenced
  <2>2. QED
    BY <1>3, <1>4, <2>1 DEF IInv, SerialsPast
<1>8. EntriesOwn' /\ ClosedOnOwnLoop'
  BY <1>3 DEF IInv, EntriesOwn, ClosedOnOwnLoop
<1>9. Local'
  <2>1. \A u \in Threads \ {t} : Current(u)' = Current(u)
    BY <1>1 DEF Current
  <2>2. CallStands'
    BY <2>1 DEF IInv, CallStands
  <2>3. QED
    BY <2>2, <1>3 DEF IInv, Local, OpenInUse, FromSlot, AskedOnce
<1>10. QED
  BY <1>2, <1>5, <1>6, <1>7, <1>8, <1>9 DEF IInv, Shared, Local
-----------------------------------------------------------------------------
LEMMA ThreadStep == ASSUME IInv, NEW t \in Threads, Step(t) PROVE IInv'
<1>1. CASE EnterLoop(t) \/ LeaveLoop(t) \/ Chat(t) \/ Request(t)
  BY <1>1, EnterLoopStep, LeaveLoopStep, ChatStep, RequestStep
<1>2. CASE ScanEnd(t) \/ SweepEnd(t) \/ (\E k \in Ids : ScanKey(t, k) \/ Sweep(t, k))
  BY <1>2, ScanEndStep, SweepEndStep, ScanKeyStep, SweepStep
<1>3. CASE \/ ScanFails(t) \/ SweepFails(t) \/ AdoptFails(t) \/ LookupSlot(t)
           \/ PopFails(t) \/ PopEnd(t)
           \/ \E how \in {"value", "error", "runtime"} : Finish(t, how)
  BY <1>3, EndSteps
<1>4. CASE Lookup(t) \/ FillInjected(t) \/ Adopt(t) \/ FillFresh(t)
  BY <1>4, LookupStep, FillInjectedStep, AdoptStep, FillFreshStep
<1>5. CASE SlotEmpty(t) \/ FillSlot(t)
  BY <1>5, SlotEmptyStep, FillSlotStep
<1>6. CASE Close(t) \/ DropSlot(t) \/ Aclose(t) \/ (\E k \in Ids : Pop(t, k))
  BY <1>6, CloseStep, DropSlotStep, AcloseStep, PopStep
<1>7. CASE Inject(t) \/ Eject(t)
  BY <1>7, InjectStep, EjectStep
<1>8. QED
  BY <1>1, <1>2, <1>3, <1>4, <1>5, <1>6, <1>7 DEF Step

LEMMA Stutter == IInv /\ UNCHANGED vars => IInv'
<1> SUFFICES ASSUME IInv, UNCHANGED vars PROVE IInv'
  OBVIOUS
<1>1. Shared'
  BY SharedKept DEF vars
<1>2. TypeOK'
  BY DEF IInv, TypeOK, vars, provider
<1>3. Local'
  BY DEF IInv, Local, CallStands, OpenInUse, FromSlot, AskedOnce, Current, Aclosed, vars, provider
<1>4. QED
  BY <1>1, <1>2, <1>3 DEF IInv, Shared, Local

(***************************************************************************)
(* Whatever the threads do to the shared dictionary, and whichever         *)
(* addresses are reused, a key stands for one loop and its own client.     *)
(***************************************************************************)
THEOREM Invariance == Spec => []IInv
<1>1. IInv /\ [Next]_vars => IInv'
  BY ThreadStep, Stutter DEF Next, Terminated
<1>2. QED
  BY <1>1, InitInv, PTL DEF Spec

(* Every variable keeps its type.                                          *)
THEOREM TypeCorrect == Spec => []TypeOK
<1>1. IInv => TypeOK
  BY DEF IInv
<1>2. QED
  BY <1>1, Invariance, PTL

(* A call works with the client of its own loop or with one of the slot,   *)
(* never with one that was built on, or given for, another loop.           *)
THEOREM OwnLoop == Spec => []OwnLoopOnly
<1>1. IInv => OwnLoopOnly
  BY DEF IInv, OwnLoopOnly, FromSlot, CallStands, LoopsApart, Current
<1>2. QED
  BY <1>1, Invariance, PTL

(* aclose() closes no client from a foreign loop.                          *)
THEOREM OwnClose == Spec => []ClosedOnOwnLoop
<1>1. IInv => ClosedOnOwnLoop
  BY DEF IInv
<1>2. QED
  BY <1>1, Invariance, PTL

(* No call is handed a client that has been aclosed, but out of the slot.  *)
THEOREM HandedOpen == Spec => []OpenInUse
<1>1. IInv => OpenInUse
  BY DEF IInv
<1>2. QED
  BY <1>1, Invariance, PTL

(* run_sync sends no call twice.                                           *)
THEOREM SentOnce == Spec => []AskedOnce
<1>1. IInv => AskedOnce
  BY DEF IInv
<1>2. QED
  BY <1>1, Invariance, PTL
-----------------------------------------------------------------------------
(***************************************************************************)
(* The KeyError of the reaper and of aclose() needs two actors: a thread   *)
(* that has the provider client to itself and makes one call at a time     *)
(* never meets it, nested loops and reused addresses included.             *)
(***************************************************************************)
Undisturbed == TypeOK /\ KeysHeld /\ UpkeepFailsNoCall

THEOREM SoleThread ==
    ASSUME \A t, u \in Threads : t = u
    PROVE  Spec => []UpkeepFailsNoCall
<1>1. Init => Undisturbed
  <2> SUFFICES ASSUME Init PROVE Undisturbed
    OBVIOUS
  <2>1. TypeOK
    BY InitInv DEF IInv
  <2>2. KeysHeld /\ UpkeepFailsNoCall
    BY DEF Init, KeysHeld, UpkeepFailsNoCall
  <2>3. QED
    BY <2>1, <2>2 DEF Undisturbed
<1>2. ASSUME Undisturbed, TypeOK', NEW t \in Threads, Step(t)
      PROVE  (KeysHeld /\ UpkeepFailsNoCall)'
  <2> SUFFICES /\ pc'[t] = "scan" => seen'[t] \subseteq Keys' /\ keys'[t] \subseteq seen'[t]
               /\ pc'[t] \in {"sweep", "closing"} => keys'[t] \subseteq Keys'
               /\ heard'[t] # "keyerror"
    BY DEF KeysHeld, UpkeepFailsNoCall
  <2>a. /\ pc \in [Threads -> PC] /\ heard \in [Threads -> Heard]
        /\ seen \in [Threads -> SUBSET Ids] /\ keys \in [Threads -> SUBSET Ids]
        /\ DOMAIN entries = Ids
    BY <1>2 DEF Undisturbed, TypeOK
  <2>b. /\ pc[t] = "scan" => seen[t] \subseteq Keys /\ keys[t] \subseteq seen[t]
        /\ pc[t] \in {"sweep", "closing"} => keys[t] \subseteq Keys
        /\ heard[t] # "keyerror"
    BY <1>2 DEF Undisturbed, KeysHeld, UpkeepFailsNoCall
  <2>1. CASE EnterLoop(t) \/ LeaveLoop(t) \/ Inject(t) \/ Eject(t)
    BY <2>a, <2>b, <2>1 DEF EnterLoop, LeaveLoop, Inject, Eject, Spend
  <2>2. CASE Chat(t) \/ Request(t)
    BY <2>a, <2>b, <2>2 DEF Chat, Request, StartScan, Spend
  <2>3. CASE \E k \in Ids : ScanKey(t, k)
    BY <2>a, <2>b, <2>3 DEF ScanKey, Keys, provider
  <2>4. CASE ScanEnd(t) \/ SweepEnd(t) \/ SlotEmpty(t)
    BY <2>a, <2>b, <2>4 DEF ScanEnd, SweepEnd, SlotEmpty, Keys, provider
  <2>5. CASE \E k \in Ids : Sweep(t, k)
    BY <2>a, <2>b, <2>5 DEF Sweep, Keys
  <2>6. CASE \E k \in Ids : Pop(t, k)
    BY <2>a, <2>b, <2>6 DEF Pop, Keys
  <2>7. CASE Lookup(t) \/ FillInjected(t) \/ Adopt(t) \/ FillFresh(t)
    BY <2>a, <2>b, <2>7 DEF Lookup, FillInjected, Adopt, FillFresh, provider
  <2>8. CASE ScanFails(t) \/ AdoptFails(t) \/ LookupSlot(t) \/ FillSlot(t) \/ PopEnd(t)
             \/ (\E how \in {"value", "error", "runtime"} : Finish(t, how))
    BY <2>a, <2>b, <2>8 DEF ScanFails, AdoptFails, LookupSlot, FillSlot, PopEnd, Finish, EndCall
  <2>9. CASE SweepFails(t) \/ PopFails(t)
    BY <2>a, <2>b, <2>9 DEF SweepFails, PopFails
  <2>10. CASE Close(t) \/ DropSlot(t)
    BY <2>a, <2>b, <2>10 DEF Close, DropSlot, Spend
  <2>11. CASE Aclose(t)
    BY <2>a, <2>b, <2>11 DEF Aclose, Keys, Spend, provider
  <2>12. QED
    BY <1>2, <2>1, <2>2, <2>3, <2>4, <2>5, <2>6, <2>7, <2>8, <2>9, <2>10, <2>11 DEF Step
<1>3. Undisturbed /\ TypeOK' /\ UNCHANGED vars => (KeysHeld /\ UpkeepFailsNoCall)'
  BY DEF Undisturbed, KeysHeld, UpkeepFailsNoCall, Keys, vars, provider
<1>4. Undisturbed /\ TypeOK' /\ [Next]_vars => Undisturbed'
  BY <1>2, <1>3 DEF Next, Terminated, Undisturbed
<1>5. Undisturbed => UpkeepFailsNoCall
  BY DEF Undisturbed
<1>6. QED
  BY <1>1, <1>4, <1>5, TypeCorrect, PTL DEF Spec
=============================================================================

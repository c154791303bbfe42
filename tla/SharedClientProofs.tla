--------------------------- MODULE SharedClientProofs ---------------------------
(***************************************************************************)
(* Proofs about SharedClient, for any tasks, loops and limit: whose token  *)
(* a call sends, that no slot is lost, and why calls stand still.          *)
(***************************************************************************)
EXTENDS SharedClient, TLAPS, FiniteSetTheorems, SequenceTheorems

LEMMA InitInv == Init => IInv
<1> SUFFICES ASSUME Init PROVE IInv
  OBVIOUS
<1>1. PICK plan \in Plans : kind = plan.kind /\ loop = plan.loop
  BY DEF Init
<1>2. kind \in [Tasks -> Kinds] /\ loop \in [Tasks -> Loops]
  BY <1>1, PlansAssumption
<1>3. TypeOK
  BY <1>2 DEF Init, TypeOK, PC
<1>4. Turns /\ Unyielded /\ FieldOwn /\ TokenOwn
  BY DEF Init, Midway, Turns, Unyielded, FieldOwn, TokenOwn
<1>5. QED
  BY <1>3, <1>4 DEF IInv

LEMMA ThreadTyped ==
    ASSUME TypeOK, NEW t \in Tasks
    PROVE  Thread(t) \in Loops \cup Tasks
BY DEF TypeOK, Thread

(* A step changes neither what tasks call nor where they run.              *)
LEMMA Fixed ==
    ASSUME UNCHANGED <<kind, loop>>
    PROVE  /\ \A t : Thread(t)' = Thread(t)
           /\ OneLoop' <=> OneLoop
           /\ SameLoop' <=> SameLoop
<1>1. \A t : Thread(t)' = Thread(t)
  BY DEF Thread
<1>2. SameLoop' <=> SameLoop
  BY DEF SameLoop
<1>3. OneLoop' <=> OneLoop
  BY <1>2 DEF OneLoop
<1>4. QED
  BY <1>1, <1>2, <1>3

LEMMA AbleFree ==
    ASSUME NEW t \in Tasks, Able(t), pc[t] # "ready"
    PROVE  Free(t)
BY DEF Able

(* While t takes a step no other task of its thread is midway.             *)
LEMMA Alone ==
    ASSUME IInv, NEW t \in Tasks, NEW u \in Tasks, u # t, Thread(u) = Thread(t),
           turn[Thread(t)] \in {Nobody, t}
    PROVE  pc[u] \notin Midway
<1>1. u # Nobody
  BY NobodyAssumption
<1>2. pc[u] \in Midway => turn[Thread(t)] = u
  BY DEF IInv, Unyielded
<1>3. QED
  BY <1>1, <1>2

LEMMA SameThread ==
    ASSUME OneLoop, NEW t \in Tasks, NEW u \in Tasks
    PROVE  Thread(t) = Thread(u)
BY DEF OneLoop, SameLoop, Thread

(* What a step does to the invariant, when it moves t to a place, with its *)
(* thread kept or not: what must hold of t itself in the new state.        *)
LEMMA Moves ==
    ASSUME IInv, NEW t \in Tasks, NEW to \in PC, NEW keeps \in BOOLEAN,
           turn[Thread(t)] \in {Nobody, t},
           Goes(t, to, keeps),
           resolved' \in Tasks \cup {Nobody},
           header' \in [Tasks -> Tasks \cup {Nobody}],
           \A u \in Tasks : u # t => header'[u] = header[u],
           to \in Midway => keeps,
           to = "build" /\ OneLoop => (IF kind[t] = "embed" THEN resolved' # Nobody ELSE resolved' = t),
           to \in {"sent", "open", "clear"} /\ OneLoop
               => (IF kind[t] = "embed" THEN header'[t] # Nobody ELSE header'[t] = t)
    PROVE  IInv'
<1>1. /\ kind' = kind /\ loop' = loop
      /\ pc' = [pc EXCEPT ![t] = to]
      /\ turn' = [turn EXCEPT ![Thread(t)] = IF keeps THEN t ELSE Nobody]
  BY DEF Goes
<1>2. /\ pc \in [Tasks -> PC] /\ turn \in [Loops \cup Tasks -> Tasks \cup {Nobody}]
      /\ kind \in [Tasks -> Kinds] /\ loop \in [Tasks -> Loops]
      /\ TypeOK
  BY DEF IInv, TypeOK
<1>3. Thread(t) \in Loops \cup Tasks /\ \A u \in Tasks : Thread(u) \in Loops \cup Tasks
  BY <1>2, ThreadTyped
<1>4. /\ \A u : Thread(u)' = Thread(u)
      /\ OneLoop' <=> OneLoop
  BY <1>1, Fixed
<1>5. \A u \in Tasks : u # t => pc'[u] = pc[u]
  BY <1>1, <1>2
<1>6. pc'[t] = to
  BY <1>1, <1>2
<1>7. turn'[Thread(t)] = (IF keeps THEN t ELSE Nobody)
  BY <1>1, <1>2, <1>3
<1>8. TypeOK'
  <2>1. kind' \in [Tasks -> Kinds] /\ loop' \in [Tasks -> Loops]
    BY <1>1, <1>2
  <2>2. pc' \in [Tasks -> PC]
    BY <1>1, <1>2
  <2>3. turn' \in [Loops \cup Tasks -> Tasks \cup {Nobody}]
    BY <1>1, <1>2
  <2>4. QED
    BY <2>1, <2>2, <2>3 DEF TypeOK
<1>9. Unyielded'
  <2> SUFFICES ASSUME NEW u \in Tasks, pc'[u] \in Midway PROVE turn'[Thread(u)] = u
    BY <1>4 DEF Unyielded
  <2>1. CASE u = t
    BY <2>1, <1>6, <1>7
  <2>2. CASE u # t
    <3>1. pc[u] \in Midway
      BY <2>2, <1>5
    <3>2. Thread(u) # Thread(t)
      BY <2>2, <3>1, Alone
    <3>3. turn'[Thread(u)] = turn[Thread(u)]
      BY <1>1, <1>2, <1>3, <3>2
    <3>4. QED
      BY <3>1, <3>3 DEF IInv, Unyielded
  <2>3. QED
    BY <2>1, <2>2
<1>10. FieldOwn'
  <2> SUFFICES ASSUME OneLoop, NEW u \in Tasks, pc'[u] = "build"
               PROVE  IF kind[u] = "embed" THEN resolved' # Nobody ELSE resolved' = u
    BY <1>1, <1>4 DEF FieldOwn
  <2>1. CASE u = t
    BY <2>1, <1>6
  <2>2. CASE u # t
    <3>1. pc[u] = "build"
      BY <2>2, <1>5
    <3>2. Thread(u) = Thread(t)
      BY SameThread
    <3>3. pc[u] \notin Midway
      BY <2>2, <3>2, Alone
    <3>4. QED
      BY <3>1, <3>3 DEF Midway
  <2>3. QED
    BY <2>1, <2>2
<1>11. TokenOwn'
  <2> SUFFICES ASSUME OneLoop, NEW u \in Tasks, pc'[u] \in {"sent", "open", "clear"}
               PROVE  IF kind[u] = "embed" THEN header'[u] # Nobody ELSE header'[u] = u
    BY <1>1, <1>4 DEF TokenOwn
  <2>1. CASE u = t
    BY <2>1, <1>6
  <2>2. CASE u # t
    BY <2>2, <1>5 DEF IInv, TokenOwn
  <2>3. QED
    BY <2>1, <2>2
<1>12. Turns'
  <2> SUFFICES ASSUME NEW h \in Loops \cup Tasks, turn'[h] # Nobody
               PROVE  Thread(turn'[h]) = h
    BY <1>1, <1>4 DEF Turns
  <2>1. CASE h = Thread(t)
    BY <2>1, <1>7
  <2>2. CASE h # Thread(t)
    <3>1. turn'[h] = turn[h]
      BY <1>1, <1>2, <1>3, <2>2
    <3>2. QED
      BY <3>1 DEF IInv, Turns
  <2>3. QED
    BY <2>1, <2>2
<1>13. QED
  BY <1>8, <1>9, <1>10, <1>11, <1>12 DEF IInv

(* Steps that leave the token field and the headers sent alone, and do not *)
(* come to where these matter, or were there before.                       *)
LEMMA Passes ==
    ASSUME IInv, NEW t \in Tasks, NEW to \in PC, NEW keeps \in BOOLEAN,
           turn[Thread(t)] \in {Nobody, t},
           Goes(t, to, keeps),
           UNCHANGED header,
           resolved' \in Tasks \cup {Nobody},
           to # "build",
           to \in Midway => keeps,
           to \in {"sent", "open", "clear"} => pc[t] \in {"sent", "open", "clear"}
    PROVE  IInv'
<1>1. header \in [Tasks -> Tasks \cup {Nobody}]
  BY DEF IInv, TypeOK
<1>2. to \in {"sent", "open", "clear"} /\ OneLoop
          => (IF kind[t] = "embed" THEN header'[t] # Nobody ELSE header'[t] = t)
  BY DEF IInv, TokenOwn
<1>3. QED
  BY <1>1, <1>2, Moves

(* The token field is a task, or empty; a task is no marker.               *)
LEMMA Values ==
    ASSUME IInv, NEW t \in Tasks
    PROVE  /\ resolved \in Tasks \cup {Nobody}
           /\ header \in [Tasks -> Tasks \cup {Nobody}]
           /\ t # Nobody
BY NobodyAssumption DEF IInv, TypeOK

LEMMA StartInv ==
    ASSUME IInv, NEW t \in Tasks, Start(t)
    PROVE  IInv'
<1>1. turn[loop[t]] = Nobody /\ UNCHANGED <<resolved, header>>
  BY DEF Start, Able
<1>2. turn[Thread(t)] \in {Nobody, t}
  <2>1. CASE kind[t] # "sync"
    BY <2>1, <1>1 DEF Thread
  <2>2. CASE kind[t] = "sync" /\ turn[t] # Nobody
    <3>1. turn[t] \in Tasks /\ \A u \in Tasks : loop[u] \in Loops
      BY <2>2 DEF IInv, TypeOK
    <3>2. Thread(turn[t]) = t
      BY <2>2 DEF IInv, Turns
    <3>3. turn[t] = t
      BY <3>1, <3>2, ApartAssumption DEF Thread
    <3>4. QED
      BY <2>2, <3>3 DEF Thread
  <2>3. QED
    BY <2>1, <2>2 DEF Thread
<1>3. resolved' \in Tasks \cup {Nobody} /\ header' \in [Tasks -> Tasks \cup {Nobody}]
  BY <1>1, Values
<1>4. CASE Goes(t, "build", TRUE) /\ kind[t] = "embed" /\ resolved # Nobody
  BY <1>1, <1>2, <1>3, <1>4, Moves DEF PC
<1>5. ASSUME NEW to \in {"taking", "queueing"}, Goes(t, to, TRUE)
      PROVE  IInv'
  BY <1>1, <1>2, <1>3, <1>5, Passes DEF PC
<1>6. CASE Goes(t, "token", FALSE)
  BY <1>1, <1>2, <1>3, <1>6, Passes DEF PC, Midway
<1>7. \/ Goes(t, "build", TRUE) /\ kind[t] = "embed" /\ resolved # Nobody
      \/ Goes(t, "token", FALSE) \/ Goes(t, "taking", TRUE) \/ Goes(t, "queueing", TRUE)
  BY DEF Start, Enters
<1>8. QED
  BY <1>4, <1>5, <1>6, <1>7

LEMMA ResolveInv ==
    ASSUME IInv, NEW t \in Tasks, Resolve(t)
    PROVE  IInv'
<1>1. /\ turn[Thread(t)] \in {Nobody, t}
      /\ Goes(t, "build", TRUE)
      /\ resolved' = t /\ UNCHANGED header
  BY AbleFree DEF Resolve, Free
<1>2. t # Nobody /\ header' \in [Tasks -> Tasks \cup {Nobody}]
  BY <1>1, Values
<1>3. QED
  BY <1>1, <1>2, Moves DEF PC

LEMMA BuildInv ==
    ASSUME IInv, NEW t \in Tasks, Build(t)
    PROVE  IInv'
<1>1. /\ pc[t] = "build"
      /\ turn[Thread(t)] \in {Nobody, t}
      /\ Goes(t, "sent", FALSE)
      /\ header' = [header EXCEPT ![t] = resolved]
      /\ UNCHANGED resolved
  BY AbleFree DEF Build, Free
<1>2. /\ header' \in [Tasks -> Tasks \cup {Nobody}]
      /\ header'[t] = resolved
      /\ \A u \in Tasks : u # t => header'[u] = header[u]
      /\ resolved' \in Tasks \cup {Nobody}
  BY <1>1, Values
<1>3. OneLoop => IF kind[t] = "embed" THEN resolved # Nobody ELSE resolved = t
  BY <1>1 DEF IInv, FieldOwn
<1>4. QED
  BY <1>1, <1>2, <1>3, Moves DEF PC, Midway

LEMMA LeaveInv ==
    ASSUME IInv, NEW t \in Tasks, Leave(t)
    PROVE  IInv'
<1>1. /\ turn[Thread(t)] \in {Nobody, t}
      /\ header' = [header EXCEPT ![t] = Nobody]
      /\ UNCHANGED resolved
  BY AbleFree DEF Leave, Free
<1>2. /\ header' \in [Tasks -> Tasks \cup {Nobody}]
      /\ \A u \in Tasks : u # t => header'[u] = header[u]
      /\ resolved' \in Tasks \cup {Nobody}
  BY <1>1, Values
<1>3. ASSUME NEW to \in {"done", "wake"}, Goes(t, to, to = "wake")
      PROVE  IInv'
  BY <1>1, <1>2, <1>3, Moves DEF PC, Midway
<1>4. Goes(t, "done", FALSE) \/ Goes(t, "wake", TRUE)
  BY DEF Leave
<1>5. QED
  BY <1>3, <1>4

(* The other steps move a task to a place where nothing new is asked of    *)
(* it; the end of a call may empty the field.                              *)
LEMMA OtherInv ==
    ASSUME IInv, NEW t \in Tasks,
           \/ Take(t) \/ Enqueue(t) \/ Resume(t) \/ ProviderFails(t) \/ Clear(t)
           \/ Cancel(t) \/ Receive(t) \/ CloseStream(t) \/ Wake(t)
    PROVE  IInv'
<1>1. turn[Thread(t)] \in {Nobody, t} /\ UNCHANGED header
  BY AbleFree DEF Free, Take, Enqueue, Resume, ProviderFails, Clear, Cancel, Receive, CloseStream, Wake
<1>2. resolved' \in Tasks \cup {Nobody}
  BY Values DEF Take, Enqueue, Resume, ProviderFails, Clear, Cancel, Receive, CloseStream, Wake
<1>3. ASSUME NEW to \in {"waiting", "token", "leave", "done", "open", "clear"}, NEW keeps \in BOOLEAN,
             Goes(t, to, keeps), to \in {"clear", "leave"} => keeps,
             to \in {"open", "clear"} => pc[t] \in {"sent", "open"}
      PROVE  IInv'
  BY <1>1, <1>2, <1>3, Passes DEF PC, Midway
<1>4. CASE Take(t) \/ Enqueue(t) \/ Resume(t) \/ Wake(t)
  BY <1>3, <1>4 DEF Take, Enqueue, Resume, Wake
<1>5. CASE ProviderFails(t)
  BY <1>3, <1>5 DEF ProviderFails
<1>6. CASE Clear(t)
  BY <1>3, <1>6 DEF Clear
<1>7. CASE Receive(t) \/ CloseStream(t)
  BY <1>3, <1>7 DEF Receive, CloseStream
<1>8. CASE Cancel(t)
  BY <1>3, <1>8 DEF Cancel
<1>9. QED
  BY <1>4, <1>5, <1>6, <1>7, <1>8

LEMMA StepInv == IInv /\ [Next]_vars => IInv'
<1> SUFFICES ASSUME IInv, [Next]_vars PROVE IInv'
  OBVIOUS
<1>1. CASE UNCHANGED vars
  <2>1. UNCHANGED <<kind, loop>> /\ UNCHANGED <<pc, turn, resolved, header>>
    BY <1>1 DEF vars
  <2>2. (\A t : Thread(t)' = Thread(t)) /\ (OneLoop' <=> OneLoop)
    BY <2>1, Fixed
  <2>3. TypeOK'
    BY <2>1 DEF IInv, TypeOK
  <2>4. Unyielded' /\ Turns'
    BY <2>1, <2>2 DEF IInv, Unyielded, Turns
  <2>5. FieldOwn' /\ TokenOwn'
    BY <2>1, <2>2 DEF IInv, FieldOwn, TokenOwn
  <2>6. QED
    BY <2>3, <2>4, <2>5 DEF IInv
<1>2. ASSUME NEW t \in Tasks, Proceed(t) \/ Cancel(t) PROVE IInv'
  BY <1>2, StartInv, ResolveInv, BuildInv, LeaveInv, OtherInv DEF Proceed
<1>3. QED
  BY <1>1, <1>2 DEF Next

(* A task that awaits nothing keeps its thread, and on one loop the field  *)
(* keeps its token between the provider's answer and the headers.          *)
THEOREM Invariance == Spec => []IInv
<1>1. Init => IInv
  BY InitInv
<1>2. IInv /\ [Next]_vars => IInv'
  BY StepInv
<1>3. QED
  BY <1>1, <1>2, PTL DEF Spec

(* However many tasks of one loop share an Azure client, and whatever of   *)
(* them fails or is cancelled, a request sends the token it asked for.     *)
THEOREM OwnTokens == Spec => []TokenOwn
<1>1. IInv => TokenOwn
  BY DEF IInv
<1>2. QED
  BY <1>1, Invariance, PTL
-----------------------------------------------------------------------------
(* The semaphore, taken by itself.                                         *)

(* n distinct elements that S has not make it larger by n.                 *)
LEMMA Additions ==
    ASSUME NEW S, IsFiniteSet(S), NEW n \in Nat, NEW f,
           \A i, j \in 1..n : f[i] = f[j] => i = j,
           \A i \in 1..n : f[i] \notin S
    PROVE  /\ IsFiniteSet(S \cup {f[i] : i \in 1..n})
           /\ Cardinality(S \cup {f[i] : i \in 1..n}) = Cardinality(S) + n
<1> DEFINE T == {f[i] : i \in 1..n}
           g == [i \in 1..n |-> f[i]]
<1>1. g \in Bijection(1..n, T)
  BY DEF Bijection, Injection, Surjection, IsInjective
<1>2. ExistsBijection(1..n, T)
  BY <1>1 DEF ExistsBijection
<1>3. IsFiniteSet(T) /\ Cardinality(T) = n
  BY <1>2, FS_NatBijection, FS_CountingElements
<1>4. Cardinality(S \cap T) = 0
  BY FS_EmptySet
<1> HIDE DEF T
<1>5. /\ IsFiniteSet(S \cup T)
      /\ Cardinality(S \cup T) = Cardinality(S) + Cardinality(T) - Cardinality(S \cap T)
  BY <1>3, FS_Union
<1>6. Cardinality(S) \in Nat
  BY FS_CardinalityType
<1>7. QED
  BY <1>3, <1>4, <1>5, <1>6 DEF T

LEMMA SoundTypes ==
    ASSUME NEW s, NEW W, NEW H, Sound(s, W, H)
    PROVE  /\ s.value \in Nat /\ s.granted \subseteq Tasks
           /\ s.waiters \in Seq(Tasks)
           /\ Len(s.waiters) \in Nat /\ DOMAIN s.waiters = 1..Len(s.waiters)
           /\ IsFiniteSet(H \cup s.granted)
           /\ Cardinality(H \cup s.granted) \in Nat
<1>1. /\ s.value \in Nat /\ s.granted \subseteq Tasks
      /\ s.waiters \in Seq(Tasks)
      /\ IsFiniteSet(H \cup s.granted)
  BY DEF Sound
<1>2. Len(s.waiters) \in Nat /\ DOMAIN s.waiters = 1..Len(s.waiters)
  BY <1>1, LenProperties
<1>3. QED
  BY <1>1, <1>2, FS_CardinalityType

(* Granting a slot to the first n of the queue loses none.                 *)
LEMMA GrantsSound ==
    ASSUME NEW s, NEW W, NEW H, Sound(s, W, H),
           NEW n \in Nat, n <= s.value, n <= Len(s.waiters)
    PROVE  /\ Sound(Grants(s, n), W, H)
           /\ Grants(s, n).value = s.value - n
           /\ Grants(s, n).waiters = SubSeq(s.waiters, n + 1, Len(s.waiters))
           /\ Grants(s, n).granted = s.granted \cup {s.waiters[i] : i \in 1..n}
           /\ Grants(s, n).loop = s.loop
<1> DEFINE w == s.waiters
           T == {w[i] : i \in 1..n}
           v == SubSeq(w, n + 1, Len(w))
           r == Grants(s, n)
<1>1. /\ s \in [value : Nat, waiters : Seq(Tasks), granted : SUBSET Tasks,
               loop : Loops \cup Tasks \cup {Nobody}]
      /\ w \in Seq(Tasks) /\ Len(w) \in Nat /\ DOMAIN w = 1..Len(w)
      /\ s.value \in Nat /\ IsFiniteSet(H \cup s.granted)
      /\ Cardinality(H \cup s.granted) \in Nat
  BY SoundTypes DEF Sound
<1>2. /\ r.value = s.value - n /\ r.waiters = v
      /\ r.granted = s.granted \cup T /\ r.loop = s.loop
  BY <1>1 DEF Grants
<1>3. \A i \in 1..Len(w) : w[i] \in Tasks
  BY <1>1, ElementOfSeq
<1>4. /\ v \in Seq(Tasks)
      /\ Len(v) = Len(w) - n
      /\ \A i \in 1..Len(v) : v[i] = w[n + i]
  <2>1. v \in Seq(Tasks) /\ Len(v) = Len(w) - n
    BY <1>1, <1>3, SubSeqProperties
  <2>2. \A i \in 1..Len(w) - (n + 1) + 1 : v[i] = w[(n + 1) + i - 1]
    BY <1>1, <1>3, SubSeqProperties
  <2>3. QED
    BY <1>1, <2>1, <2>2
<1>5. DOMAIN v = 1..Len(v)
  BY <1>4, LenProperties
<1>6. T \subseteq Tasks
  BY <1>1, <1>3
<1>7. r \in [value : Nat, waiters : Seq(Tasks), granted : SUBSET Tasks,
             loop : Loops \cup Tasks \cup {Nobody}]
  <2>1. s.value - n \in Nat
    BY <1>1
  <2>2. s.granted \cup T \in SUBSET Tasks
    BY <1>1, <1>6
  <2> HIDE DEF T, v, w
  <2>3. QED
    BY <1>1, <1>4, <2>1, <2>2 DEF Grants, T, v, w
<1>8. \A i, j \in 1..Len(w) : w[i] = w[j] => i = j
  BY <1>1 DEF Sound
<1>9. \A i, j \in DOMAIN r.waiters : r.waiters[i] = r.waiters[j] => i = j
  <2> HIDE DEF v, r, w
  <2> SUFFICES ASSUME NEW i \in 1..Len(v), NEW j \in 1..Len(v), v[i] = v[j] PROVE i = j
    BY <1>2, <1>5
  <2>1. n + i \in 1..Len(w) /\ n + j \in 1..Len(w)
    BY <1>1, <1>4
  <2>2. w[n + i] = w[n + j]
    BY <1>4
  <2>3. n + i = n + j
    BY <1>8, <2>1, <2>2
  <2>4. QED
    BY <2>3
<1>10. Queued(s) = T \cup Queued(r)
  <2>1. Queued(r) = {w[n + i] : i \in 1..Len(v)}
    BY <1>2, <1>4, <1>5 DEF Queued
  <2>2. Queued(s) = {w[i] : i \in 1..Len(w)}
    BY <1>1 DEF Queued
  <2>3. ASSUME NEW i \in 1..Len(w) PROVE w[i] \in T \cup Queued(r)
    <3>1. CASE i > n
      <4>1. i - n \in 1..Len(v) /\ w[n + (i - n)] = w[i]
        BY <1>1, <1>4, <3>1
      <4>2. QED
        BY <2>1, <4>1
    <3>2. CASE i <= n
      BY <3>2
    <3>3. QED
      BY <1>1, <3>1, <3>2
  <2>4. \A i \in 1..Len(v) : n + i \in 1..Len(w)
    BY <1>1, <1>4
  <2>5. 1..n \subseteq 1..Len(w)
    BY <1>1
  <2>6. QED
    BY <2>1, <2>2, <2>3, <2>4, <2>5
<1>11. Queued(r) \cap T = {}
  <2> SUFFICES ASSUME NEW i \in 1..Len(v), NEW j \in 1..n, v[i] = w[j] PROVE FALSE
    BY <1>2, <1>5 DEF Queued
  <2>1. n + i \in 1..Len(w) /\ j \in 1..Len(w)
    BY <1>1, <1>4
  <2>2. n + i = j
    BY <1>4, <1>8, <2>1
  <2>3. QED
    BY <2>2
<1>12. Queued(r) \cap r.granted = {}
  BY <1>2, <1>10, <1>11 DEF Sound
<1>13. W = Queued(r) \cup r.granted
  BY <1>2, <1>10 DEF Sound
<1>14. /\ IsFiniteSet(H \cup r.granted)
       /\ r.value + Cardinality(H \cup r.granted) = Limit
  <2>1. \A i \in 1..n : w[i] \notin H \cup s.granted
    BY <1>10 DEF Sound
  <2>2. \A i, j \in 1..n : w[i] = w[j] => i = j
    BY <1>1, <1>8
  <2>3. H \cup r.granted = (H \cup s.granted) \cup T
    BY <1>2
  <2> DEFINE S == H \cup s.granted
  <2>4. /\ IsFiniteSet(S \cup {w[i] : i \in 1..n})
        /\ Cardinality(S \cup {w[i] : i \in 1..n}) = Cardinality(S) + n
    <3>1. IsFiniteSet(S) /\ \A i \in 1..n : w[i] \notin S
      BY <1>1, <2>1
    <3> HIDE DEF S, w
    <3>2. QED
      BY <2>2, <3>1, Additions
  <2>5. s.value + Cardinality(H \cup s.granted) = Limit
    BY DEF Sound
  <2>6. s.value - n + (Cardinality(H \cup s.granted) + n) = Limit
    BY <1>1, <2>5
  <2> HIDE DEF r
  <2>7. QED
    BY <1>2, <2>3, <2>4, <2>6
<1>15. W \cap H = {}
  BY DEF Sound
<1>16. Sound(r, W, H)
  BY <1>7, <1>9, <1>12, <1>13, <1>14, <1>15 DEF Sound
<1>17. QED
  BY <1>2, <1>16
LEMMA LesserIs ==
    ASSUME NEW a \in Nat, NEW b \in Nat
    PROVE  Lesser(a, b) \in Nat /\ Lesser(a, b) <= a /\ Lesser(a, b) <= b /\ Lesser(a, b) \in {a, b}
BY DEF Lesser

LEMMA WakeAllSound ==
    ASSUME NEW s, NEW W, NEW H, Sound(s, W, H)
    PROVE  Sound(WakeAll(s), W, H) /\ Served(WakeAll(s)) /\ WakeAll(s).loop = s.loop
<1> DEFINE n == Lesser(s.value, Len(s.waiters))
           r == Grants(s, n)
<1>1. s.value \in Nat /\ Len(s.waiters) \in Nat
  BY SoundTypes
<1>2. CASE s.value = 0
  BY <1>2 DEF WakeAll, Served
<1>3. CASE s.value > 0
  <2>1. n \in Nat /\ n <= s.value /\ n <= Len(s.waiters) /\ n \in {s.value, Len(s.waiters)}
    BY <1>1, LesserIs
  <2>2. /\ Sound(r, W, H) /\ r.loop = s.loop /\ r.value = s.value - n
        /\ r.waiters = SubSeq(s.waiters, n + 1, Len(s.waiters))
    BY <2>1, GrantsSound
  <2>3. n = Len(s.waiters) => r.waiters = <<>>
    BY <1>1, <2>2, SubSeqEmpty
  <2>4. n = s.value => r.value = 0
    BY <1>1, <2>2
  <2>5. Served(r)
    BY <2>1, <2>3, <2>4 DEF Served
  <2>6. QED
    BY <1>3, <2>2, <2>5 DEF WakeAll
<1>4. QED
  BY <1>1, <1>2, <1>3

(* One slot more is granted to one waiter, and no other can be waiting for *)
(* it, unless someone is about to look.                                    *)
LEMMA WakeUpNextSound ==
    ASSUME NEW s, NEW W, NEW H, Sound(s, W, H), ToGrant(s)
    PROVE  Sound(WakeUpNext(s), W, H) /\ Served(WakeUpNext(s)) /\ WakeUpNext(s).loop = s.loop
<1> DEFINE n == Lesser(1, Len(s.waiters))
           r == Grants(s, n)
<1>1. /\ s.value \in Nat /\ Len(s.waiters) \in Nat /\ s.waiters \in Seq(Tasks)
      /\ s.value > 0 /\ (s.waiters # <<>> => s.value = 1 \/ s.granted # {})
  BY SoundTypes DEF ToGrant
<1>2. n \in Nat /\ n <= Len(s.waiters) /\ n <= 1 /\ n \in {1, Len(s.waiters)}
  BY <1>1, LesserIs
<1>3. n <= s.value
  BY <1>1, <1>2
<1> HIDE DEF n
<1>4. /\ Sound(r, W, H) /\ r.loop = s.loop /\ r.value = s.value - n
      /\ r.waiters = SubSeq(s.waiters, n + 1, Len(s.waiters))
      /\ r.granted = s.granted \cup {s.waiters[i] : i \in 1..n}
  BY <1>2, <1>3, GrantsSound
<1>5. Served(r)
  <2>1. CASE s.waiters = <<>>
    <3>1. Len(s.waiters) = 0
      BY <2>1
    <3>2. r.waiters = <<>>
      BY <1>2, <1>4, <3>1, SubSeqEmpty
    <3>3. QED
      BY <3>2 DEF Served
  <2>2. CASE s.granted # {}
    BY <1>4, <2>2 DEF Served
  <2>3. CASE s.waiters # <<>> /\ s.value = 1
    <3>1. Len(s.waiters) >= 1
      BY <1>1, <2>3, EmptySeq
    <3>2. n = 1
      BY <1>1, <1>2, <3>1
    <3>3. r.value = 0
      BY <1>4, <2>3, <3>2
    <3>4. QED
      BY <3>3 DEF Served
  <2>4. QED
    BY <1>1, <2>1, <2>2, <2>3
<1>6. QED
  BY <1>4, <1>5 DEF WakeUpNext, n

(* What tasks do to the semaphore, before others are woken.                *)
LEMMA TakeSound ==
    ASSUME NEW s, NEW W, NEW H, Sound(s, W, H), NEW t \in Tasks, t \notin W \cup H, s.value # 0
    PROVE  Sound([s EXCEPT !.value = @ - 1], W, H \cup {t})
<1> DEFINE r == [s EXCEPT !.value = @ - 1]
<1>0. s.value \in Nat /\ IsFiniteSet(H \cup s.granted) /\ Cardinality(H \cup s.granted) \in Nat
  BY SoundTypes, Zenon
<1>1. s.value - 1 \in Nat
  BY <1>0
<1>2. r.value = s.value - 1 /\ r.waiters = s.waiters /\ r.granted = s.granted /\ r.loop = s.loop
  BY DEF Sound
<1>3. r \in [value : Nat, waiters : Seq(Tasks), granted : SUBSET Tasks,
             loop : Loops \cup Tasks \cup {Nobody}]
  BY <1>1 DEF Sound
<1>4. (H \cup {t}) \cup s.granted = (H \cup s.granted) \cup {t} /\ t \notin H \cup s.granted
  BY DEF Sound
<1>5. /\ IsFiniteSet((H \cup {t}) \cup s.granted)
      /\ Cardinality((H \cup {t}) \cup s.granted) = Cardinality(H \cup s.granted) + 1
  BY <1>0, <1>4, FS_AddElement
<1>6. s.value - 1 + (Cardinality(H \cup s.granted) + 1) = Limit
  BY <1>0 DEF Sound
<1> HIDE DEF r
<1>7. r.value + Cardinality((H \cup {t}) \cup s.granted) = Limit
  BY <1>2, <1>5, <1>6
<1>8. QED
  BY <1>2, <1>3, <1>5, <1>7 DEF Sound, Queued, r

LEMMA GiveBackSound ==
    ASSUME NEW s, NEW W, NEW H, Sound(s, W, H), NEW t \in H
    PROVE  Sound([s EXCEPT !.value = @ + 1], W, H \ {t})
<1> DEFINE r == [s EXCEPT !.value = @ + 1]
<1>0. s.value \in Nat /\ IsFiniteSet(H \cup s.granted) /\ Cardinality(H \cup s.granted) \in Nat
  BY SoundTypes, Zenon
<1>1. s.value + 1 \in Nat
  BY <1>0
<1>2. r.value = s.value + 1 /\ r.waiters = s.waiters /\ r.granted = s.granted /\ r.loop = s.loop
  BY DEF Sound
<1>3. r \in [value : Nat, waiters : Seq(Tasks), granted : SUBSET Tasks,
             loop : Loops \cup Tasks \cup {Nobody}]
  BY <1>1 DEF Sound
<1>4. (H \ {t}) \cup s.granted = (H \cup s.granted) \ {t} /\ t \in H \cup s.granted
  BY DEF Sound
<1>5. /\ IsFiniteSet((H \ {t}) \cup s.granted)
      /\ Cardinality((H \ {t}) \cup s.granted) = Cardinality(H \cup s.granted) - 1
  BY <1>0, <1>4, FS_RemoveElement
<1>6. s.value + 1 + (Cardinality(H \cup s.granted) - 1) = Limit
  BY <1>0 DEF Sound
<1> HIDE DEF r
<1>7. r.value + Cardinality((H \ {t}) \cup s.granted) = Limit
  BY <1>2, <1>5, <1>6
<1>8. QED
  BY <1>2, <1>3, <1>5, <1>7 DEF Sound, Queued, r

LEMMA ResumeSound ==
    ASSUME NEW s, NEW W, NEW H, Sound(s, W, H), NEW t \in s.granted
    PROVE  Sound([s EXCEPT !.granted = @ \ {t}], W \ {t}, H \cup {t})
<1> DEFINE r == [s EXCEPT !.granted = @ \ {t}]
<1>1. r.value = s.value /\ r.waiters = s.waiters /\ r.granted = s.granted \ {t} /\ r.loop = s.loop
  BY DEF Sound
<1>2. r \in [value : Nat, waiters : Seq(Tasks), granted : SUBSET Tasks,
             loop : Loops \cup Tasks \cup {Nobody}]
  BY DEF Sound
<1>3. (H \cup {t}) \cup (s.granted \ {t}) = H \cup s.granted
  OBVIOUS
<1>4. Queued(r) = Queued(s)
  BY <1>1 DEF Queued
<1>5. W \ {t} = Queued(r) \cup r.granted
  BY <1>1, <1>4 DEF Sound
<1> HIDE DEF r
<1>6. QED
  BY <1>1, <1>2, <1>3, <1>4, <1>5 DEF Sound, r

LEMMA CancelGrantedSound ==
    ASSUME NEW s, NEW W, NEW H, Sound(s, W, H), NEW t \in s.granted
    PROVE  Sound([s EXCEPT !.granted = @ \ {t}, !.value = @ + 1], W \ {t}, H)
<1> DEFINE r == [s EXCEPT !.granted = @ \ {t}, !.value = @ + 1]
<1>0. s.value \in Nat /\ IsFiniteSet(H \cup s.granted) /\ Cardinality(H \cup s.granted) \in Nat
  BY SoundTypes, Zenon
<1>1. s.value + 1 \in Nat
  BY <1>0
<1>2. /\ r.value = s.value + 1 /\ r.waiters = s.waiters
      /\ r.granted = s.granted \ {t} /\ r.loop = s.loop
  BY DEF Sound
<1>3. r \in [value : Nat, waiters : Seq(Tasks), granted : SUBSET Tasks,
             loop : Loops \cup Tasks \cup {Nobody}]
  BY <1>1 DEF Sound
<1>4. H \cup (s.granted \ {t}) = (H \cup s.granted) \ {t} /\ t \in H \cup s.granted
  BY DEF Sound
<1>5. /\ IsFiniteSet(H \cup (s.granted \ {t}))
      /\ Cardinality(H \cup (s.granted \ {t})) = Cardinality(H \cup s.granted) - 1
  BY <1>0, <1>4, FS_RemoveElement
<1>6. s.value + 1 + (Cardinality(H \cup s.granted) - 1) = Limit
  BY <1>0 DEF Sound
<1>7. Queued(r) = Queued(s)
  BY <1>2 DEF Queued
<1>8. W \ {t} = Queued(r) \cup r.granted
  BY <1>2, <1>7 DEF Sound
<1> HIDE DEF r
<1>9. r.value + Cardinality(H \cup r.granted) = Limit
  BY <1>2, <1>5, <1>6
<1>10. IsFiniteSet(H \cup r.granted)
  BY <1>2, <1>5
<1>11. QED
  BY <1>2, <1>3, <1>7, <1>8, <1>9, <1>10 DEF Sound, r

LEMMA QueueSound ==
    ASSUME NEW s, NEW W, NEW H, Sound(s, W, H), NEW t \in Tasks, t \notin W \cup H,
           NEW l \in Loops \cup Tasks
    PROVE  Sound([s EXCEPT !.waiters = Append(@, t), !.loop = l], W \cup {t}, H)
<1> DEFINE w == s.waiters
           v == Append(w, t)
           r == [s EXCEPT !.waiters = Append(@, t), !.loop = l]
<1>1. w \in Seq(Tasks) /\ Len(w) \in Nat /\ DOMAIN w = 1..Len(w)
  BY SoundTypes
<1>2. /\ v \in Seq(Tasks) /\ Len(v) = Len(w) + 1
      /\ \A i \in 1..Len(w) : v[i] = w[i]
      /\ v[Len(w) + 1] = t
  BY <1>1
<1>3. DOMAIN v = 1..Len(w) + 1
  BY <1>2, LenProperties
<1>4. r.value = s.value /\ r.waiters = v /\ r.granted = s.granted /\ r.loop = l
  BY DEF Sound
<1>5. r \in [value : Nat, waiters : Seq(Tasks), granted : SUBSET Tasks,
             loop : Loops \cup Tasks \cup {Nobody}]
  BY <1>2 DEF Sound
<1>6. Queued(r) = Queued(s) \cup {t}
  <2>1. Queued(r) = {v[i] : i \in 1..Len(w) + 1} /\ Queued(s) = {w[i] : i \in 1..Len(w)}
    BY <1>1, <1>3, <1>4 DEF Queued
  <2>2. 1..Len(w) + 1 = 1..Len(w) \cup {Len(w) + 1}
    BY <1>1
  <2> HIDE DEF v, w, r
  <2>3. QED
    BY <1>2, <2>1, <2>2
<1>7. \A i, j \in DOMAIN r.waiters : r.waiters[i] = r.waiters[j] => i = j
  <2>1. \A i \in 1..Len(w) : w[i] \in Queued(s)
    BY <1>1 DEF Queued
  <2>2. \A i \in 1..Len(w) : w[i] # t
    BY <2>1 DEF Sound
  <2>3. \A i, j \in 1..Len(w) : w[i] = w[j] => i = j
    BY <1>1 DEF Sound
  <2> HIDE DEF v, w, r
  <2>4. QED
    BY <1>1, <1>2, <1>3, <1>4, <2>2, <2>3
<1> HIDE DEF r, v, w
<1>8. W \cup {t} = Queued(r) \cup r.granted /\ (W \cup {t}) \cap H = {}
  BY <1>4, <1>6 DEF Sound
<1>9. Queued(r) \cap r.granted = {}
  BY <1>4, <1>6 DEF Sound
<1>10. Sound(r, W \cup {t}, H)
  BY <1>4, <1>5, <1>7, <1>8, <1>9 DEF Sound
<1>11. QED
  BY <1>10 DEF r

LEMMA CancelQueuedSound ==
    ASSUME NEW s, NEW W, NEW H, Sound(s, W, H), NEW k \in DOMAIN s.waiters
    PROVE  Sound([s EXCEPT !.waiters = RemoveAt(@, k)], W \ {s.waiters[k]}, H)
<1> DEFINE w == s.waiters
           n == Len(w)
           t == w[k]
           v == RemoveAt(w, k)
           r == [s EXCEPT !.waiters = RemoveAt(@, k)]
<1>1. w \in Seq(Tasks) /\ n \in Nat /\ DOMAIN w = 1..n /\ k \in 1..n
  BY SoundTypes
<1>2. \A i \in 1..n : w[i] \in Tasks
  BY <1>1, ElementOfSeq
<1>3. /\ v \in Seq(Tasks) /\ Len(v) = n - 1
      /\ \A i \in 1..n - 1 : v[i] = w[IF i < k THEN i ELSE i + 1]
  <2> DEFINE a == SubSeq(w, 1, k - 1)
             b == SubSeq(w, k + 1, n)
  <2>1. a \in Seq(Tasks) /\ Len(a) = k - 1 /\ \A i \in 1..(k - 1) - 1 + 1 : a[i] = w[1 + i - 1]
    BY <1>1, <1>2, SubSeqProperties
  <2>2. b \in Seq(Tasks) /\ Len(b) = n - k /\ \A i \in 1..n - (k + 1) + 1 : b[i] = w[(k + 1) + i - 1]
    BY <1>1, <1>2, SubSeqProperties
  <2>3. v = a \o b
    BY DEF RemoveAt
  <2> HIDE DEF a, b, v, w, n
  <2>4. /\ v \in Seq(Tasks) /\ Len(v) = Len(a) + Len(b)
        /\ \A i \in 1..Len(a) + Len(b) : v[i] = IF i <= Len(a) THEN a[i] ELSE b[i - Len(a)]
    BY <2>1, <2>2, <2>3, ConcatProperties
  <2>5. ASSUME NEW i \in 1..n - 1 PROVE v[i] = w[IF i < k THEN i ELSE i + 1]
    <3>1. v[i] = IF i <= k - 1 THEN a[i] ELSE b[i - (k - 1)]
      BY <1>1, <2>1, <2>2, <2>4
    <3>2. CASE i < k
      <4>1. a[i] = w[1 + i - 1]
        BY <1>1, <2>1, <3>2
      <4>2. QED
        BY <1>1, <3>1, <3>2, <4>1
    <3>3. CASE ~(i < k)
      <4>1. i - (k - 1) \in 1..n - (k + 1) + 1
        BY <1>1, <3>3
      <4>2. b[i - (k - 1)] = w[(k + 1) + (i - (k - 1)) - 1]
        BY <2>2, <4>1
      <4>3. (k + 1) + (i - (k - 1)) - 1 = i + 1
        BY <1>1
      <4>4. QED
        BY <1>1, <3>1, <3>3, <4>2, <4>3
    <3>4. QED
      BY <3>2, <3>3
  <2>6. QED
    BY <1>1, <2>1, <2>2, <2>4, <2>5
<1>4. DOMAIN v = 1..n - 1
  BY <1>3, LenProperties
<1>5. r.value = s.value /\ r.waiters = v /\ r.granted = s.granted /\ r.loop = s.loop
  BY DEF Sound
<1>6. r \in [value : Nat, waiters : Seq(Tasks), granted : SUBSET Tasks,
             loop : Loops \cup Tasks \cup {Nobody}]
  BY <1>3 DEF Sound
<1>7. \A i, j \in 1..n : w[i] = w[j] => i = j
  BY <1>1 DEF Sound
<1> HIDE DEF r, v
<1>8. \A i, j \in DOMAIN r.waiters : r.waiters[i] = r.waiters[j] => i = j
  <2> SUFFICES ASSUME NEW i \in 1..n - 1, NEW j \in 1..n - 1, v[i] = v[j] PROVE i = j
    BY <1>4, <1>5
  <2> DEFINE ii == IF i < k THEN i ELSE i + 1
             jj == IF j < k THEN j ELSE j + 1
  <2>1. ii \in 1..n /\ jj \in 1..n
    BY <1>1
  <2>2. w[ii] = w[jj]
    BY <1>3
  <2>3. ii = jj
    BY <1>7, <2>1, <2>2
  <2>4. QED
    BY <1>1, <2>3
<1>9. Queued(r) = Queued(s) \ {t}
  <2>1. Queued(r) = {v[i] : i \in 1..n - 1} /\ Queued(s) = {w[i] : i \in 1..n}
    BY <1>1, <1>4, <1>5 DEF Queued
  <2>2. ASSUME NEW i \in 1..n - 1 PROVE v[i] \in Queued(s) \ {t}
    <3> DEFINE ii == IF i < k THEN i ELSE i + 1
    <3>1. ii \in 1..n /\ ii # k /\ v[i] = w[ii]
      BY <1>1, <1>3
    <3>2. w[ii] # w[k]
      BY <1>1, <1>7, <3>1
    <3>3. QED
      BY <2>1, <3>1, <3>2
  <2>3. ASSUME NEW i \in 1..n, w[i] # t PROVE w[i] \in Queued(r)
    <3>1. CASE i < k
      <4>1. i \in 1..n - 1 /\ v[i] = w[i]
        BY <1>1, <1>3, <3>1
      <4>2. QED
        BY <2>1, <4>1
    <3>2. CASE i > k
      <4>1. i - 1 \in 1..n - 1 /\ ~(i - 1 < k) /\ (i - 1) + 1 = i
        BY <1>1, <3>2
      <4>2. v[i - 1] = w[i]
        BY <1>3, <4>1
      <4>3. QED
        BY <2>1, <4>1, <4>2
    <3>3. QED
      BY <1>1, <2>3, <3>1, <3>2
  <2>4. QED
    BY <2>1, <2>2, <2>3
<1>10. t \notin s.granted
  BY DEF Sound, Queued
<1> HIDE DEF t, w, n
<1>11. W \ {t} = Queued(r) \cup r.granted /\ (W \ {t}) \cap H = {}
  BY <1>5, <1>9, <1>10 DEF Sound
<1>12. Queued(r) \cap r.granted = {}
  BY <1>5, <1>9 DEF Sound
<1>13. Sound(r, W \ {t}, H)
  BY <1>5, <1>6, <1>8, <1>11, <1>12 DEF Sound
<1>14. QED
  BY <1>13 DEF r, t, w
-----------------------------------------------------------------------------
(* The tasks around it.                                                    *)

(* Who blocks a loop is another loop's thread meanwhile.                   *)
LEMMA OnLoops ==
    ASSUME TypeOK, NEW t \in Tasks
    PROVE  ~Blocked(t) /\ loop[t] \in Loops /\ loop[t] \notin Tasks /\ t \notin Loops
BY ApartAssumption DEF TypeOK, Blocked

LEMMA StartFree ==
    ASSUME TypeOK, Turns, NEW t \in Tasks, Start(t)
    PROVE  Free(t)
<1>1. turn[loop[t]] = Nobody /\ ~Blocked(loop[t])
  BY DEF Start, Able
<1>2. CASE kind[t] # "sync"
  BY <1>1, <1>2 DEF Free, Thread
<1>3. CASE kind[t] = "sync"
  <2>1. Thread(t) = t
    BY <1>3 DEF Thread
  <2>2. ASSUME turn[t] # Nobody PROVE turn[t] = t
    <3>1. turn[t] \in Tasks /\ Thread(turn[t]) = t
      BY <2>2 DEF TypeOK, Turns
    <3>2. QED
      BY <3>1, OnLoops DEF Thread
  <2>3. QED
    BY <2>1, <2>2, OnLoops DEF Free
<1>4. QED
  BY <1>2, <1>3

(* Who waits and who holds a slot, after t has come to another place.      *)
LEMMA Groups ==
    ASSUME TypeOK, NEW t \in Tasks, NEW to \in PC, NEW keeps \in BOOLEAN, Goes(t, to, keeps)
    PROVE  /\ Waiting' = IF to = "waiting" THEN Waiting \cup {t} ELSE Waiting \ {t}
           /\ Holders' = IF kind[t] # "embed"
                            /\ to \in {"token", "build", "sent", "open", "clear", "leave"}
                         THEN Holders \cup {t} ELSE Holders \ {t}
           /\ t \in Waiting <=> pc[t] = "waiting"
           /\ t \in Holders <=> Holding(t)
<1>1. /\ pc'[t] = to
      /\ \A u \in Tasks : u # t => pc'[u] = pc[u]
      /\ kind' = kind
  BY DEF Goes, TypeOK
<1>2. Waiting' = IF to = "waiting" THEN Waiting \cup {t} ELSE Waiting \ {t}
  BY <1>1 DEF Waiting
<1>3. \A u \in Tasks : u # t => (Holding(u)' <=> Holding(u))
  BY <1>1 DEF Holding
<1>4. Holding(t)' <=> kind[t] # "embed" /\ to \in {"token", "build", "sent", "open", "clear", "leave"}
  BY <1>1 DEF Holding
<1>5. Holders' = IF kind[t] # "embed"
                    /\ to \in {"token", "build", "sent", "open", "clear", "leave"}
                 THEN Holders \cup {t} ELSE Holders \ {t}
  BY <1>3, <1>4 DEF Holders
<1>6. QED
  BY <1>2, <1>5 DEF Waiting, Holders

(* A thread that is kept stays unblocked: only a task on it could block it. *)
LEMMA KeptStep ==
    ASSUME TypeOK, Turns, KeptForNow,
           NEW t \in Tasks, NEW to \in PC, NEW keeps \in BOOLEAN, Goes(t, to, keeps), Free(t),
           pc[t] = "ready" => turn[loop[t]] = Nobody,
           pc[t] # "done",
           keeps => to \in Midway
    PROVE  KeptForNow'
<1>1. /\ kind' = kind /\ loop' = loop
      /\ pc' = [pc EXCEPT ![t] = to]
      /\ turn' = [turn EXCEPT ![Thread(t)] = IF keeps THEN t ELSE Nobody]
      /\ pc'[t] = to
      /\ \A u \in Tasks : u # t => pc'[u] = pc[u]
  BY DEF Goes, TypeOK
<1>2. turn \in [Loops \cup Tasks -> Tasks \cup {Nobody}]
  BY DEF TypeOK
<1>3. ASSUME NEW h, Blocked(h)' PROVE Blocked(h) \/ (kind[t] = "sync" /\ loop[t] = h /\ pc[t] = "ready")
  <2>1. PICK s \in Tasks : kind[s] = "sync" /\ loop[s] = h /\ Started(s)'
    BY <1>1, <1>3 DEF Blocked
  <2>2. CASE s = t
    BY <2>1, <2>2 DEF Blocked, Started
  <2>3. CASE s # t
    BY <1>1, <2>1, <2>3 DEF Blocked, Started
  <2>4. QED
    BY <2>2, <2>3
<1>4. SUFFICES ASSUME NEW h \in Loops \cup Tasks, turn'[h] # Nobody
               PROVE  pc'[turn'[h]] \in Midway /\ ~Blocked(h)'
  BY <1>1 DEF KeptForNow
<1>5. CASE h = Thread(t)
  <2>1. turn'[h] = t /\ keeps
    BY <1>1, <1>2, <1>4, <1>5
  <2>2. ~Blocked(h)
    BY <1>5 DEF Free
  <2>3. ~(kind[t] = "sync" /\ loop[t] = h)
    BY <1>5, OnLoops DEF Thread
  <2>4. QED
    BY <1>1, <1>3, <2>1, <2>2, <2>3
<1>6. CASE h # Thread(t)
  <2>1. turn'[h] = turn[h]
    BY <1>1, <1>2, <1>6
  <2>2. turn[h] \in Tasks /\ Thread(turn[h]) = h
    BY <1>2, <1>4, <2>1 DEF Turns
  <2>3. turn[h] # t
    BY <1>6, <2>2
  <2>4. pc[turn[h]] \in Midway /\ ~Blocked(h)
    BY <1>4, <2>1 DEF KeptForNow
  <2>5. ~(loop[t] = h /\ pc[t] = "ready")
    BY <1>4, <2>1
  <2>6. QED
    BY <1>1, <1>3, <2>1, <2>2, <2>3, <2>4, <2>5
<1>7. QED
  BY <1>5, <1>6

(* What a step rests on: t is free to take it, and starts only where its   *)
(* loop is its own.                                                        *)
Steps(t) ==
    /\ Free(t)
    /\ pc[t] # "done"
    /\ pc[t] = "ready" => turn[loop[t]] = Nobody /\ ~Blocked(loop[t])
Basis == TypeOK /\ Turns /\ Unyielded /\ SlotsInv

(* On one loop nobody else is midway then, whether or not a call blocks    *)
(* that loop.                                                              *)
LEMMA OthersRest ==
    ASSUME Basis, SameLoop, NEW t \in Tasks, Steps(t), NEW u \in Tasks, u # t
    PROVE  pc[u] \notin Midway
<1> SUFFICES ASSUME pc[u] \in Midway PROVE FALSE
  OBVIOUS
<1>1. turn[Thread(u)] = u /\ u # Nobody /\ Thread(u) \in Loops \cup Tasks
  BY ThreadTyped, NobodyAssumption DEF Basis, Unyielded
<1>2. ~Blocked(Thread(u))
  BY <1>1 DEF Basis, SlotsInv, KeptForNow
<1>3. Started(u) /\ loop[u] = loop[t]
  BY DEF Midway, Started, SameLoop
<1>4. CASE kind[u] # "sync" /\ kind[t] # "sync"
  BY <1>1, <1>3, <1>4 DEF Steps, Free, Thread
<1>5. CASE kind[u] # "sync" /\ kind[t] = "sync"
  <2>1. Thread(u) = loop[t]
    BY <1>3, <1>5 DEF Thread
  <2>2. pc[t] # "ready"
    BY <1>1, <2>1 DEF Steps
  <2>3. Blocked(loop[t])
    BY <1>5, <2>2 DEF Steps, Blocked, Started
  <2>4. QED
    BY <1>2, <2>1, <2>3
<1>6. CASE kind[u] = "sync"
  <2>1. Blocked(loop[t])
    BY <1>3, <1>6 DEF Blocked
  <2>2. kind[t] = "sync"
    BY <2>1 DEF Steps, Free, Thread
  <2>3. Started(t)
    BY <2>1 DEF Steps, Started
  <2>4. QED
    BY <1>3, <1>6, <2>2, <2>3 DEF Basis, SlotsInv, SyncAlone
<1>7. QED
  BY <1>4, <1>5, <1>6

(* On one loop a grant is heard: the waiter runs on the thread that grants *)
(* it, or on the loop that the granting call blocks.                       *)
LEMMA Heard ==
    ASSUME Basis, SameLoop, NEW t \in Tasks, Steps(t), pc[t] # "ready",
           NEW S \in SUBSET Waiting
    PROVE  Unheard(t, S) = {}
<1> SUFFICES ASSUME NEW u \in S, Thread(u) \notin {Thread(t), loop[t]} PROVE FALSE
  BY DEF Unheard
<1>1. u \in Tasks /\ Started(u) /\ loop[u] = loop[t]
  BY DEF Waiting, Started, SameLoop
<1>2. kind[u] = "sync"
  BY <1>1 DEF Thread
<1>3. Blocked(loop[t])
  BY <1>1, <1>2 DEF Blocked
<1>4. kind[t] = "sync" /\ Started(t)
  BY <1>3 DEF Steps, Free, Thread, Started
<1>5. u = t
  BY <1>1, <1>2, <1>4 DEF Basis, SlotsInv, SyncAlone
<1>6. QED
  BY <1>5

LEMMA AloneStep ==
    ASSUME Basis, NEW t \in Tasks, NEW to \in PC, NEW keeps \in BOOLEAN, Goes(t, to, keeps), Steps(t)
    PROVE  SyncAlone'
<1>1. /\ kind' = kind /\ loop' = loop
      /\ \A u \in Tasks : u # t => pc'[u] = pc[u]
  BY DEF Goes, Basis, TypeOK
<1>2. SUFFICES ASSUME NEW u \in Tasks, NEW v \in Tasks, u # v,
                      kind[u] = "sync", kind[v] = "sync", loop[u] = loop[v],
                      Started(u)', Started(v)'
               PROVE  FALSE
  BY <1>1, Zenon DEF SyncAlone
<1>3. \A x \in Tasks : x # t => (Started(x)' <=> Started(x))
  BY <1>1 DEF Started
<1>4. ASSUME NEW x \in Tasks, x # t, kind[x] = "sync", loop[x] = loop[t], kind[t] = "sync", Started(x)'
      PROVE  FALSE
  <2>1. Started(x) /\ Blocked(loop[t])
    BY <1>3, <1>4 DEF Blocked
  <2>2. Started(t)
    BY <2>1 DEF Steps, Started
  <2>3. QED
    BY <1>4, <2>1, <2>2 DEF Basis, SlotsInv, SyncAlone
<1>5. u # t /\ v # t
  BY <1>2, <1>4
<1>6. QED
  BY <1>2, <1>3, <1>5 DEF Basis, SlotsInv, SyncAlone

(* What a step does to the invariant, when it moves t to a place: what is  *)
(* left to show of the semaphore, for tasks of one loop.                   *)
Looked(t, to, s) ==
    /\ to \in Slotted => kind[t] # "embed"
    /\ to = "taking" => ~Locked
    /\ to = "queueing" => Locked
    /\ IF to = "wake" THEN ToGrant(s) ELSE Served(s)

LEMMA SlotStep ==
    ASSUME Basis, NEW t \in Tasks, NEW to \in PC, NEW keeps \in BOOLEAN, Goes(t, to, keeps), Steps(t),
           keeps => to \in Midway,
           to \in {"taking", "queueing"} => UNCHANGED sem,
           SameLoop =>
               /\ Sound(sem', Waiting', Holders')
               /\ Looked(t, to, sem')
               /\ to = "waiting" => Thread(t) = sem'.loop
               /\ sem'.loop = sem.loop \/ Waiting = {}
               /\ \/ Hears(t)
                  \/ pc[t] # "ready" /\ Waiting' \subseteq Waiting /\ Releases(t, sem')
    PROVE  SlotsInv'
<1>1. /\ kind' = kind /\ loop' = loop /\ (\A u : Thread(u)' = Thread(u)) /\ pc'[t] = to
      /\ \A u \in Tasks : u # t => pc'[u] = pc[u]
      /\ SameLoop' <=> SameLoop
  BY Fixed DEF Goes, Basis, TypeOK
<1>2. KeptForNow'
  BY KeptStep DEF Basis, SlotsInv, Steps
<1>3. SyncAlone'
  BY AloneStep
<1>4. SUFFICES ASSUME SameLoop PROVE Sequential'
  BY <1>1, <1>2, <1>3 DEF SlotsInv
<1>5. Sequential /\ \A u \in Tasks : u # t => pc'[u] \notin {"taking", "queueing", "wake"}
  BY <1>1, <1>4, OthersRest DEF Basis, SlotsInv, Midway
<1>6. WaitOnOneLoop'
  <2>1. ASSUME NEW u \in Tasks, u # t, pc[u] = "waiting" PROVE Thread(u) = sem'.loop
    BY <1>4, <1>5, <2>1 DEF Sequential, WaitOnOneLoop, Waiting
  <2>2. \A u \in Tasks : pc'[u] = "waiting" => Thread(u) = sem'.loop
    BY <1>1, <1>4, <2>1
  <2>3. \A u \in Tasks : pc'[u] \in Slotted => kind[u] # "embed"
    BY <1>1, <1>4, <1>5 DEF Sequential, WaitOnOneLoop, Looked
  <2>4. QED
    BY <1>1, <2>2, <2>3 DEF WaitOnOneLoop
<1>7. LookStands'
  <2>1. to \in {"taking", "queueing"} => (Locked' <=> Locked)
    BY DEF Locked
  <2>2. /\ \A u \in Tasks : pc'[u] = "taking" => ~Locked'
        /\ \A u \in Tasks : pc'[u] = "queueing" => Locked'
    BY <1>1, <1>4, <1>5, <2>1 DEF Looked
  <2>3. \A u \in Tasks : pc'[u] = "wake" => ToGrant(sem')
    BY <1>1, <1>4, <1>5 DEF Looked
  <2>4. (\A u \in Tasks : pc'[u] # "wake") => Served(sem')
    BY <1>1, <1>4 DEF Looked
  <2>5. QED
    BY <2>2, <2>3, <2>4 DEF LookStands, ToGrant, Served
<1>8. deaf' = {}
  <2>1. CASE Hears(t)
    BY <1>5, <2>1 DEF Hears, Unheard, Sequential
  <2>2. CASE pc[t] # "ready" /\ Waiting' \subseteq Waiting /\ Releases(t, sem')
    <3>1. sem'.granted \subseteq Waiting
      BY <1>4, <2>2 DEF Sound
    <3>2. deaf \cup (sem'.granted \ sem.granted) \in SUBSET Waiting
      BY <1>5, <3>1 DEF Sequential
    <3>3. QED
      BY <1>4, <2>2, <3>2, Heard DEF Releases
  <2>3. QED
    BY <1>4, <2>1, <2>2
<1>9. QED
  BY <1>4, <1>6, <1>7, <1>8 DEF Sequential, Sound, Queued

(* What is known of the semaphore before a step of t, for tasks of one     *)
(* loop.                                                                   *)
LEMMA Before ==
    ASSUME Basis, SameLoop, NEW t \in Tasks, Steps(t)
    PROVE  /\ Sound(sem, Waiting, Holders)
           /\ pc[t] # "wake" => Served(sem)
           /\ pc[t] = "wake" => ToGrant(sem)
           /\ pc[t] = "taking" => ~Locked
           /\ pc[t] = "queueing" => Locked
           /\ pc[t] \in Slotted => kind[t] # "embed"
           /\ pc[t] = "waiting" => Thread(t) = sem.loop
<1>1. Sequential
  BY DEF Basis, SlotsInv
<1>2. \A u \in Tasks : u # t => pc[u] # "wake"
  BY OthersRest DEF Midway
<1>3. QED
  BY <1>1, <1>2 DEF Sequential, LookStands, WaitOnOneLoop

(* Steps that leave the semaphore as it is.                                *)
LEMMA SlotPass ==
    ASSUME Basis, NEW t \in Tasks, NEW to \in PC, NEW keeps \in BOOLEAN, Goes(t, to, keeps), Steps(t),
           pc[t] \notin {"waiting", "wake"},
           keeps => to \in Midway,
           to \notin {"waiting", "wake"},
           to \in {"taking", "queueing"} => kind[t] # "embed",
           to = "taking" => ~Locked,
           to = "queueing" => Locked,
           kind[t] # "embed" => (pc[t] \in {"token", "build", "sent", "open", "clear", "leave"}
                                 <=> to \in {"token", "build", "sent", "open", "clear", "leave"}),
           UNCHANGED sem, Hears(t)
    PROVE  SlotsInv'
<1>1. Waiting' = Waiting /\ Holders' = Holders
  BY Groups DEF Holding, Basis
<1>2. SameLoop => Sound(sem', Waiting', Holders') /\ Looked(t, to, sem')
  BY <1>1, Before DEF Looked, Slotted
<1>3. QED
  BY <1>2, SlotStep

LEMMA StepsAre ==
    ASSUME Basis, NEW t \in Tasks, Proceed(t) \/ Cancel(t)
    PROVE  Steps(t)
<1>1. CASE Cancel(t)
  BY <1>1 DEF Cancel, Steps
<1>2. CASE pc[t] = "ready" /\ Start(t)
  <2>1. turn[loop[t]] = Nobody /\ ~Blocked(loop[t]) /\ Free(t)
    BY <1>2, StartFree DEF Start, Able, Basis
  <2>2. QED
    BY <1>2, <2>1 DEF Steps
<1>3. CASE pc[t] # "ready" /\ Able(t)
  BY <1>3 DEF Able, Steps
<1>4. QED
  BY <1>1, <1>2, <1>3 DEF Proceed, Start, Take, Enqueue, Resume, Resolve, ProviderFails, Build, Receive,
                          CloseStream, Clear, Leave, Wake

LEMMA StartSlots ==
    ASSUME Basis, NEW t \in Tasks, Start(t), Steps(t)
    PROVE  SlotsInv'
<1>1. pc[t] = "ready" /\ UNCHANGED sem /\ Hears(t)
  BY DEF Start
<1>2. CASE kind[t] = "embed" /\ Enters(t)
  <2>1. ASSUME NEW to \in {"build", "token"}, NEW keeps \in BOOLEAN, Goes(t, to, keeps),
               keeps => to = "build"
        PROVE  SlotsInv'
    BY <1>1, <1>2, <2>1, SlotPass DEF PC, Midway
  <2>2. QED
    BY <1>2, <2>1 DEF Enters
<1>3. CASE kind[t] # "embed" /\ ~Locked /\ Goes(t, "taking", TRUE)
  BY <1>1, <1>3, SlotPass DEF PC, Midway
<1>4. CASE kind[t] # "embed" /\ Locked /\ Goes(t, "queueing", TRUE)
  BY <1>1, <1>4, SlotPass DEF PC, Midway
<1>5. QED
  BY <1>2, <1>3, <1>4 DEF Start

LEMMA TakeSlots ==
    ASSUME Basis, NEW t \in Tasks, Take(t), Steps(t)
    PROVE  SlotsInv'
<1>1. /\ pc[t] = "taking" /\ Goes(t, "token", FALSE) /\ Hears(t)
      /\ sem' = [sem EXCEPT !.value = @ - 1]
  BY DEF Take
<1>2. SUFFICES ASSUME SameLoop
               PROVE  /\ Sound(sem', Waiting', Holders') /\ Looked(t, "token", sem')
                      /\ sem'.loop = sem.loop
  BY <1>1, SlotStep DEF PC
<1>3. Sound(sem, Waiting, Holders) /\ ~Locked /\ kind[t] # "embed"
  BY <1>1, <1>2, Before DEF Slotted
<1>4. t \notin Waiting /\ t \notin Holders
  BY <1>1 DEF Waiting, Holders, Holding
<1>5. Waiting' = Waiting /\ Holders' = Holders \cup {t}
  BY <1>1, <1>3, <1>4, Groups DEF PC, Basis
<1>6. Sound(sem', Waiting', Holders')
  BY <1>1, <1>3, <1>4, <1>5, TakeSound DEF Locked
<1>7. sem'.loop = sem.loop /\ sem'.waiters = <<>>
  BY <1>1, <1>3 DEF Locked, Sound
<1>8. QED
  BY <1>6, <1>7 DEF Looked, Slotted, Served

LEMMA EnqueueSlots ==
    ASSUME Basis, NEW t \in Tasks, Enqueue(t), Steps(t)
    PROVE  SlotsInv'
<1>1. pc[t] = "queueing" /\ Hears(t)
  BY DEF Enqueue
<1>2. CASE Goes(t, "done", FALSE) /\ UNCHANGED sem
  BY <1>1, <1>2, SlotPass DEF PC
<1>3. CASE /\ sem.loop \in {Nobody, Thread(t)}
           /\ sem' = [sem EXCEPT !.waiters = Append(@, t), !.loop = Thread(t)]
           /\ Goes(t, "waiting", FALSE)
  <2>1. SUFFICES ASSUME SameLoop
                 PROVE  /\ Sound(sem', Waiting', Holders') /\ Looked(t, "waiting", sem')
                        /\ Thread(t) = sem'.loop
                        /\ sem'.loop = sem.loop \/ Waiting = {}
    BY <1>1, <1>3, SlotStep DEF PC
  <2>2. Sound(sem, Waiting, Holders) /\ Served(sem) /\ Locked /\ kind[t] # "embed"
    BY <1>1, <2>1, Before DEF Slotted
  <2>3. t \notin Waiting /\ t \notin Holders /\ Thread(t) \in Loops \cup Tasks
    BY <1>1, ThreadTyped DEF Waiting, Holders, Holding, Basis
  <2>4. Waiting' = Waiting \cup {t} /\ Holders' = Holders
    BY <1>3, <2>3, Groups DEF PC, Basis
  <2>5. Sound(sem', Waiting', Holders')
    BY <1>3, <2>2, <2>3, <2>4, QueueSound
  <2>6. sem'.loop = Thread(t) /\ sem'.value = sem.value /\ sem'.granted = sem.granted
    BY <1>3, <2>2 DEF Sound
  <2>7. Looked(t, "waiting", sem')
    BY <2>2, <2>6 DEF Looked, Served, Locked
  <2>8. sem.loop = Nobody => Waiting = {}
    <3>1. \A u \in Waiting : u \in Tasks /\ Thread(u) = sem.loop /\ Thread(u) \in Loops \cup Tasks
      BY <2>1, ThreadTyped DEF Basis, SlotsInv, Sequential, WaitOnOneLoop, Waiting
    <3>2. QED
      BY <3>1, NobodyAssumption
  <2>9. QED
    BY <1>3, <2>5, <2>6, <2>7, <2>8
<1>4. QED
  BY <1>2, <1>3 DEF Enqueue

LEMMA ResumeSlots ==
    ASSUME Basis, NEW t \in Tasks, Resume(t), Steps(t)
    PROVE  SlotsInv'
<1> DEFINE s == [sem EXCEPT !.granted = @ \ {t}]
<1>1. /\ pc[t] = "waiting" /\ t \in sem.granted
      /\ sem' = WakeAll(s) /\ Releases(t, sem')
      /\ Goes(t, "token", FALSE)
  BY DEF Resume, Able, Releases
<1>2. SUFFICES ASSUME SameLoop
               PROVE  /\ Sound(sem', Waiting', Holders') /\ Looked(t, "token", sem')
                      /\ sem'.loop = sem.loop /\ Waiting' \subseteq Waiting
  <2>1. "token" \in PC /\ "token" \notin {"taking", "queueing", "waiting"}
    BY DEF PC
  <2>2. QED
    BY <1>1, <1>2, <2>1, SlotStep
<1>3. Sound(sem, Waiting, Holders) /\ kind[t] # "embed"
  BY <1>1, <1>2, Before DEF Slotted
<1>4. Waiting' = Waiting \ {t} /\ Holders' = Holders \cup {t}
  BY <1>1, <1>3, Groups DEF PC, Basis
<1>5. s.loop = sem.loop
  BY <1>3 DEF Sound
<1>6. Sound(s, Waiting', Holders')
  BY <1>1, <1>3, <1>4, ResumeSound
<1> HIDE DEF s
<1>7. Sound(sem', Waiting', Holders') /\ Served(sem') /\ sem'.loop = sem.loop
  BY <1>1, <1>5, <1>6, WakeAllSound
<1>8. QED
  BY <1>4, <1>7 DEF Looked, Slotted

LEMMA CancelSlots ==
    ASSUME Basis, NEW t \in Tasks, Cancel(t), Steps(t)
    PROVE  SlotsInv'
<1>1. ASSUME pc[t] = "waiting", Goes(t, "done", FALSE), Releases(t, sem'),
             NEW s, sem' = WakeAll(s),
             SameLoop => s.loop = sem.loop /\ Sound(s, Waiting \ {t}, Holders)
      PROVE  SlotsInv'
  <2>1. Waiting' = Waiting \ {t} /\ Holders' = Holders \ {t} /\ t \notin Holders
    BY <1>1, Groups DEF PC, Holding, Basis
  <2>2. Waiting' = Waiting \ {t} /\ Holders' = Holders
    BY <2>1
  <2>3. SameLoop => Sound(sem', Waiting', Holders') /\ Served(sem') /\ sem'.loop = sem.loop
    BY <1>1, <2>2, WakeAllSound
  <2>4. /\ "done" \in PC /\ "done" \notin {"taking", "queueing", "waiting"}
        /\ Served(sem') => Looked(t, "done", sem')
    BY DEF PC, Looked, Slotted
  <2>5. QED
    BY <1>1, <2>2, <2>3, <2>4, SlotStep
<1>2. CASE /\ pc[t] = "waiting" /\ Goes(t, "done", FALSE) /\ t \in sem.granted
           /\ Releases(t, WakeAll([sem EXCEPT !.granted = @ \ {t}, !.value = @ + 1]))
  <2> DEFINE s == [sem EXCEPT !.granted = @ \ {t}, !.value = @ + 1]
  <2>1. SameLoop => s.loop = sem.loop /\ Sound(s, Waiting \ {t}, Holders)
    <3>1. SUFFICES ASSUME SameLoop PROVE s.loop = sem.loop /\ Sound(s, Waiting \ {t}, Holders)
      OBVIOUS
    <3>2. Sound(sem, Waiting, Holders)
      BY <3>1, Before
    <3>3. s.loop = sem.loop
      BY <3>2 DEF Sound
    <3>4. QED
      BY <1>2, <3>2, <3>3, CancelGrantedSound
  <2>2. sem' = WakeAll(s) /\ Releases(t, sem')
    BY <1>2 DEF Releases
  <2> HIDE DEF s
  <2>3. QED
    BY <1>1, <1>2, <2>1, <2>2
<1>3. ASSUME pc[t] = "waiting", Goes(t, "done", FALSE), NEW i \in DOMAIN sem.waiters,
             sem.waiters[i] = t, Releases(t, WakeAll([sem EXCEPT !.waiters = RemoveAt(@, i)]))
      PROVE  SlotsInv'
  <2> DEFINE s == [sem EXCEPT !.waiters = RemoveAt(@, i)]
  <2>1. SameLoop => s.loop = sem.loop /\ Sound(s, Waiting \ {t}, Holders)
    <3>1. SUFFICES ASSUME SameLoop PROVE s.loop = sem.loop /\ Sound(s, Waiting \ {t}, Holders)
      OBVIOUS
    <3>2. Sound(sem, Waiting, Holders)
      BY <3>1, Before
    <3>3. s.loop = sem.loop
      BY <3>2 DEF Sound
    <3>4. QED
      BY <1>3, <3>2, <3>3, CancelQueuedSound
  <2>2. sem' = WakeAll(s) /\ Releases(t, sem')
    BY <1>3 DEF Releases
  <2> HIDE DEF s
  <2>3. QED
    BY <1>1, <1>3, <2>1, <2>2
<1>4. CASE /\ UNCHANGED sem /\ Hears(t)
           /\ \/ pc[t] = "token" /\ Goes(t, "leave", TRUE)
              \/ pc[t] \in {"sent", "open"} /\ Goes(t, "clear", TRUE)
  BY <1>4, SlotPass DEF PC, Midway
<1>5. QED
  BY <1>2, <1>3, <1>4 DEF Cancel

LEMMA LeaveSlots ==
    ASSUME Basis, NEW t \in Tasks, Leave(t), Steps(t)
    PROVE  SlotsInv'
<1>1. pc[t] = "leave" /\ Hears(t)
  BY DEF Leave
<1>2. CASE kind[t] = "embed" /\ Goes(t, "done", FALSE) /\ UNCHANGED sem
  BY <1>1, <1>2, SlotPass DEF PC
<1>3. CASE kind[t] # "embed" /\ sem' = [sem EXCEPT !.value = @ + 1] /\ Goes(t, "wake", TRUE)
  <2>1. SUFFICES ASSUME SameLoop
                 PROVE  /\ Sound(sem', Waiting', Holders') /\ Looked(t, "wake", sem')
                        /\ sem'.loop = sem.loop
    BY <1>1, <1>3, SlotStep DEF PC, Midway
  <2>2. t \in Holders /\ Holders' = Holders \ {t} /\ Waiting' = Waiting
    BY <1>1, <1>3, Groups DEF PC, Holding, Basis
  <2>3. Sound(sem, Waiting, Holders) /\ Served(sem)
    BY <1>1, <2>1, Before
  <2>4. Sound(sem', Waiting', Holders')
    BY <1>3, <2>2, <2>3, GiveBackSound
  <2>5. /\ sem'.value = sem.value + 1 /\ sem'.waiters = sem.waiters
        /\ sem'.granted = sem.granted /\ sem'.loop = sem.loop /\ sem.value \in Nat
    BY <1>3, <2>3 DEF Sound
  <2>6. ToGrant(sem')
    BY <2>3, <2>5 DEF Served, ToGrant
  <2>7. QED
    BY <1>3, <2>4, <2>5, <2>6 DEF Looked
<1>4. QED
  BY <1>2, <1>3 DEF Leave

LEMMA WakeSlots ==
    ASSUME Basis, NEW t \in Tasks, Wake(t), Steps(t)
    PROVE  SlotsInv'
<1>1. /\ pc[t] = "wake" /\ Goes(t, "done", FALSE)
      /\ sem' = WakeUpNext(sem) /\ Releases(t, sem')
  BY DEF Wake, Releases
<1>2. Waiting' = Waiting \ {t} /\ Holders' = Holders \ {t} /\ t \notin Waiting /\ t \notin Holders
  BY <1>1, Groups DEF PC, Holding, Basis
<1>3. Waiting' = Waiting /\ Holders' = Holders
  BY <1>2
<1>4. SameLoop => Sound(sem', Waiting', Holders') /\ Served(sem') /\ sem'.loop = sem.loop
  BY <1>1, <1>3, Before, WakeUpNextSound
<1>5. /\ "done" \in PC /\ "done" \notin {"taking", "queueing", "waiting"}
      /\ Served(sem') => Looked(t, "done", sem')
  BY DEF PC, Looked, Slotted
<1>6. QED
  BY <1>1, <1>3, <1>4, <1>5, SlotStep

LEMMA OtherSlots ==
    ASSUME Basis, NEW t \in Tasks, Steps(t),
           \/ Resolve(t) \/ ProviderFails(t) \/ Build(t) \/ Receive(t) \/ CloseStream(t)
           \/ Clear(t)
    PROVE  SlotsInv'
<1>1. pc[t] \in {"token", "build", "sent", "open", "clear"} /\ UNCHANGED sem /\ Hears(t)
  BY DEF Resolve, ProviderFails, Build, Receive, CloseStream, Clear
<1>2. ASSUME NEW to \in {"build", "sent", "open", "clear", "leave"}, NEW keeps \in BOOLEAN,
             Goes(t, to, keeps), keeps => to \in {"build", "clear", "leave"}
      PROVE  SlotsInv'
  BY <1>1, <1>2, SlotPass DEF PC, Midway
<1>3. QED
  BY <1>2 DEF Resolve, ProviderFails, Build, Receive, CloseStream, Clear

LEMMA InitSlots == Init => SlotsInv
<1> SUFFICES ASSUME Init PROVE SlotsInv
  OBVIOUS
<1>1. \A t \in Tasks : pc[t] = "ready"
  BY DEF Init
<1>2. KeptForNow /\ SyncAlone /\ WaitOnOneLoop
  BY <1>1 DEF Init, KeptForNow, SyncAlone, WaitOnOneLoop, Started, Slotted
<1>3. Waiting = {} /\ Holders = {}
  BY <1>1 DEF Waiting, Holders, Holding
<1>4. /\ sem = [value |-> Limit, waiters |-> <<>>, granted |-> {}, loop |-> Nobody]
      /\ <<>> \in Seq(Tasks) /\ DOMAIN <<>> = {}
  BY DEF Init
<1>5. Sound(sem, {}, {})
  BY <1>4, LimitAssumption, FS_EmptySet DEF Sound, Queued
<1>6. LookStands /\ deaf = {}
  BY <1>1, <1>4 DEF LookStands, Served, Init
<1>7. QED
  BY <1>2, <1>3, <1>5, <1>6 DEF SlotsInv, Sequential

LEMMA StepSlots == Basis /\ [Next]_vars => SlotsInv'
<1> SUFFICES ASSUME Basis, [Next]_vars PROVE SlotsInv'
  OBVIOUS
<1>1. CASE UNCHANGED vars
  <2>1. UNCHANGED <<kind, loop, pc, turn, sem, deaf>>
    BY <1>1 DEF vars
  <2>2. KeptForNow' /\ SyncAlone'
    BY <2>1 DEF Basis, SlotsInv, KeptForNow, SyncAlone, Blocked, Started
  <2>3. Waiting' = Waiting /\ Holders' = Holders /\ (SameLoop' <=> SameLoop)
    BY <2>1 DEF Waiting, Holders, Holding, SameLoop
  <2>4. (WaitOnOneLoop' <=> WaitOnOneLoop) /\ (LookStands' <=> LookStands)
    BY <2>1 DEF WaitOnOneLoop, LookStands, Locked, Thread
  <2>5. (SameLoop => Sequential)'
    BY <2>1, <2>3, <2>4 DEF Basis, SlotsInv, Sequential, Sound, Queued
  <2>6. QED
    BY <2>2, <2>5 DEF SlotsInv
<1>2. ASSUME NEW t \in Tasks, Proceed(t) \/ Cancel(t) PROVE SlotsInv'
  BY <1>2, StepsAre, StartSlots, TakeSlots, EnqueueSlots, ResumeSlots, CancelSlots, LeaveSlots,
     WakeSlots, OtherSlots DEF Proceed
<1>3. QED
  BY <1>1, <1>2 DEF Next

(* A step moves only a task that is able to go on: in an idle state there  *)
(* is nothing left but to cancel.                                          *)
LEMMA OnlyTheAble ==
    ASSUME NEW t \in Tasks, Proceed(t)
    PROVE  Able(t)
BY DEF Proceed, Start, Take, Enqueue, Resume, Resolve, ProviderFails, Build, Receive, CloseStream, Clear,
       Leave, Wake

(* In an idle state nobody is between two awaits: such a task is able to   *)
(* go on.                                                                  *)
LEMMA NobodyAtTurn ==
    ASSUME Basis, Idle, NEW h \in Loops \cup Tasks
    PROVE  turn[h] = Nobody
<1>1. SUFFICES ASSUME turn[h] # Nobody PROVE FALSE
  OBVIOUS
<1>2. turn[h] \in Tasks /\ Thread(turn[h]) = h
  BY <1>1 DEF Basis, TypeOK, Turns
<1>3. pc[turn[h]] \in Midway /\ ~Blocked(h)
  BY <1>1 DEF Basis, SlotsInv, KeptForNow
<1>4. Able(turn[h])
  BY <1>2, <1>3 DEF Able, Free, Midway
<1>5. QED
  BY <1>2, <1>4 DEF Idle

(* There, a task under way is blocked with its thread or waits, and what   *)
(* blocks a loop is waiting.                                               *)
LEMMA StandsStill ==
    ASSUME Basis, Idle, NEW t \in Tasks, Started(t)
    PROVE  \/ Blocked(Thread(t))
           \/ pc[t] = "waiting" /\ t \notin sem.granted \ deaf
<1>1. turn[Thread(t)] = Nobody
  BY NobodyAtTurn, ThreadTyped DEF Basis
<1>2. ~Able(t)
  BY DEF Idle
<1>3. QED
  BY <1>1, <1>2 DEF Able, Free, Started

LEMMA BlockedByWaiter ==
    ASSUME Basis, Idle, NEW h, Blocked(h)
    PROVE  \E u \in Tasks : kind[u] = "sync" /\ pc[u] = "waiting" /\ Thread(u) = u /\ loop[u] = h
<1>1. PICK u \in Tasks : kind[u] = "sync" /\ loop[u] = h /\ Started(u)
  BY DEF Blocked
<1>2. Thread(u) = u /\ ~Blocked(u)
  BY <1>1, OnLoops DEF Thread, Basis
<1>3. QED
  BY <1>1, <1>2, StandsStill

LEMMA StuckIsExplained == Basis => StuckExplained
<1> SUFFICES ASSUME Basis, SameLoop
             PROVE  /\ SlotsKept
                    /\ Idle => \/ \A t \in Tasks : Done(t)
                               \/ \E t, u \in Tasks :
                                    /\ Holding(t) /\ kind[u] = "sync"
                                    /\ pc[u] = "waiting" /\ loop[u] = Thread(t)
  BY DEF StuckExplained
<1>1. /\ Sound(sem, Waiting, Holders) /\ WaitOnOneLoop /\ deaf = {} /\ LookStands
  BY DEF Basis, SlotsInv, Sequential
<1>2. SlotsKept
  BY <1>1 DEF Sound, SlotsKept
<1>3. SUFFICES ASSUME Idle, \A t, u \in Tasks :
                                ~(/\ Holding(t) /\ kind[u] = "sync"
                                  /\ pc[u] = "waiting" /\ loop[u] = Thread(t))
               PROVE  \A t \in Tasks : Done(t)
  BY <1>2
\* The loop the tasks wait on is not blocked: a call from inside a running
\* loop that waits does so on a thread of its own.
<1>4. ASSUME NEW t \in Tasks, pc[t] = "waiting" PROVE ~Blocked(Thread(t))
  <2>1. SUFFICES ASSUME Blocked(Thread(t)) PROVE FALSE
    OBVIOUS
  <2>2. PICK u \in Tasks : pc[u] = "waiting" /\ Thread(u) = u /\ loop[u] = Thread(t)
    BY <1>3, <2>1, BlockedByWaiter
  <2>3. Thread(u) = sem.loop /\ Thread(t) = sem.loop
    BY <1>1, <1>4, <2>2 DEF WaitOnOneLoop
  <2>4. QED
    BY <2>2, <2>3, OnLoops DEF Basis
<1>5. sem.granted = {}
  <2>1. SUFFICES ASSUME NEW g \in sem.granted PROVE FALSE
    OBVIOUS
  <2>2. g \in Tasks /\ pc[g] = "waiting" /\ g \notin deaf
    BY <1>1 DEF Sound, Waiting
  <2>3. ~Blocked(Thread(g)) /\ Started(g)
    BY <1>4, <2>2 DEF Started
  <2>4. QED
    BY <1>3, <2>2, <2>3, StandsStill
\* Nobody is about to grant a slot.
<1>6. ASSUME NEW t \in Tasks PROVE pc[t] # "wake"
  <2>1. SUFFICES ASSUME pc[t] = "wake" PROVE FALSE
    OBVIOUS
  <2>2. turn[Thread(t)] = t /\ Thread(t) \in Loops \cup Tasks /\ t # Nobody
    BY <2>1, ThreadTyped, NobodyAssumption DEF Basis, Unyielded, Midway
  <2>3. QED
    BY <1>3, <2>2, NobodyAtTurn
<1>7. Served(sem)
  BY <1>1, <1>6 DEF LookStands
\* No slot is free for a waiter, so somebody holds one, and can go on.
<1>8. \A t \in Tasks : pc[t] # "waiting"
  <2>1. SUFFICES ASSUME NEW t \in Tasks, pc[t] = "waiting" PROVE FALSE
    OBVIOUS
  <2>2. t \in Queued(sem)
    BY <1>1, <1>5, <2>1 DEF Sound, Waiting
  <2>3. sem.waiters # <<>>
    BY <2>2 DEF Queued
  <2>4. sem.value = 0
    BY <1>5, <1>7, <2>3 DEF Served
  <2>5. Cardinality(Holders) = Limit
    <3>1. Holders \cup sem.granted = Holders
      BY <1>5
    <3>2. 0 + Cardinality(Holders) = Limit /\ Cardinality(Holders) \in Nat
      BY <1>1, <2>4, <3>1, FS_CardinalityType DEF Sound
    <3>3. QED
      BY <3>2
  <2>6. Holders # {}
    BY <2>5, LimitAssumption, FS_EmptySet
  <2>7. PICK u \in Tasks : Holding(u)
    BY <2>6 DEF Holders
  <2>8. Started(u) /\ pc[u] # "waiting"
    BY <2>7 DEF Holding, Started
  <2>9. Blocked(Thread(u))
    BY <1>3, <2>8, StandsStill
  <2>10. PICK v \in Tasks : kind[v] = "sync" /\ pc[v] = "waiting" /\ loop[v] = Thread(u)
    BY <1>3, <2>9, BlockedByWaiter
  <2>11. QED
    BY <1>3, <2>7, <2>10
<1>9. \A h : ~Blocked(h)
  BY <1>3, <1>8, BlockedByWaiter
<1>10. \A t \in Tasks : ~Started(t)
  BY <1>3, <1>8, <1>9, StandsStill
<1>11. ASSUME NEW t \in Tasks, pc[t] = "ready" PROVE FALSE
  <2>1. loop[t] \in Loops
    BY OnLoops DEF Basis
  <2>2. turn[loop[t]] = Nobody
    BY <1>3, <2>1, NobodyAtTurn
  <2>3. Able(t)
    BY <1>9, <1>11, <2>2 DEF Able
  <2>4. QED
    BY <1>3, <2>3 DEF Idle
<1>12. QED
  BY <1>10, <1>11 DEF Started, Done

(* Whatever tasks share the limiter, no kept thread is blocked; and where  *)
(* they are of one loop, whatever of them fails, is cancelled, drops its   *)
(* stream or blocks the loop: every slot is free, held or granted, nobody  *)
(* comes between a look at the semaphore and its use, and who is queued is *)
(* served when a slot is free.                                             *)
THEOREM SlotsInvariance == Spec => []SlotsInv
<1>1. Init => SlotsInv
  BY InitSlots
<1>2. IInv /\ SlotsInv => Basis
  BY DEF IInv, Basis
<1>3. Basis /\ [Next]_vars => SlotsInv'
  BY StepSlots
<1>4. QED
  BY <1>1, <1>2, <1>3, Invariance, PTL DEF Spec

(* On one loop no slot is lost or made, and calls that cannot go on are    *)
(* stuck because request() blocks the loop of who holds the slot it wants. *)
THEOREM OnlyKnownStandstills == Spec => []StuckExplained
<1>1. IInv /\ SlotsInv => Basis
  BY DEF IInv, Basis
<1>2. Basis => StuckExplained
  BY StuckIsExplained
<1>3. QED
  BY <1>1, <1>2, Invariance, SlotsInvariance, PTL
=============================================================================

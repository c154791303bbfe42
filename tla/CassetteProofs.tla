---------------------------- MODULE CassetteProofs ----------------------------
(***************************************************************************)
(* Proofs about Cassette, for any keys, requests and sessions, with early  *)
(* ends, concurrent answers and crashes: the file keeps what was on it,    *)
(* and a replay tells a test what the session before told it.              *)
(***************************************************************************)
EXTENDS Cassette, SequenceTheorems, FiniteSetTheorems, TLAPS

(* The inductive invariant: the recorder goes on numbering where its list  *)
(* ends, and that list begins with what the session found.                 *)
Typed ==
    /\ program \in UNION {[1..n -> Keys] : n \in 1..MaxRequests}
    /\ session \in 0..MaxSessions
    /\ pc \in {"closed", "open", "saving"}
    /\ pc # "closed" => session \in 1..MaxSessions
    /\ file.lines \in Seq(Entry)
    /\ entries \in Seq(Entry)
    /\ loaded \in Seq(Entry)

Through(s) == \A i \in 1..Len(s) : s[i].sequence = i - 1

Begins(s, t) == Len(s) <= Len(t) /\ \A i \in 1..Len(s) : s[i] = t[i]

IInv ==
    /\ Typed
    /\ sequence = Len(entries)
    /\ Through(entries) /\ Through(file.lines)
    /\ pc # "closed" => Begins(loaded, entries)
    /\ pc = "closed" /\ mode = "auto" => Begins(loaded, file.lines)

(* Beginning in the sense of the library.                                  *)
LEMMA BeginsIsPrefix ==
    ASSUME NEW s \in Seq(Entry), NEW t \in Seq(Entry), Begins(s, t)
    PROVE  IsPrefix(s, t)
<1>1. /\ Len(s) \in Nat /\ Len(t) \in Nat /\ Len(s) <= Len(t)
      /\ \A i \in 1..Len(s) : t[i] = s[i] /\ t[i] \in Entry /\ s[i] \in Entry
  BY LenProperties, ElementOfSeq DEF Begins
<1>2. /\ SubSeq(t, 1, Len(s)) \in Seq(Entry) /\ Len(SubSeq(t, 1, Len(s))) = Len(s)
      /\ \A i \in 1..Len(s) : SubSeq(t, 1, Len(s))[i] = t[i]
  BY <1>1, SubSeqProperties
<1>3. /\ SubSeq(s, 1, Len(s)) \in Seq(Entry) /\ Len(SubSeq(s, 1, Len(s))) = Len(s)
      /\ \A i \in 1..Len(s) : SubSeq(s, 1, Len(s))[i] = s[i]
  BY <1>1, SubSeqProperties
<1>4. SubSeq(s, 1, Len(s)) = SubSeq(t, 1, Len(s))
  BY <1>1, <1>2, <1>3, SeqEqual
<1>5. QED
  BY <1>1, <1>4 DEF IsPrefix

LEMMA BeginsItself == \A s : Len(s) \in Nat => Begins(s, s)
BY DEF Begins

LEMMA NothingRecorded == <<>> \in Seq(Entry) /\ Len(<<>>) = 0 /\ Through(<<>>)
BY EmptySeq DEF Through

LEMMA InitInv == Init => IInv
<1> SUFFICES ASSUME Init PROVE IInv
  OBVIOUS
<1>1. Typed
  BY NothingRecorded, BoundsAssumption DEF Init, Typed
<1>2. QED
  BY <1>1, NothingRecorded DEF Init, IInv

LEMMA OpenStep ==
    ASSUME IInv, NEW m \in Modes, NEW sq \in BOOLEAN, Open(m, sq)
    PROVE  IInv'
<1>1. /\ pc' = "open" /\ session' = session + 1 /\ session < MaxSessions
      /\ loaded' \in {<<>>, file.lines} /\ entries' = loaded' /\ sequence' = Len(loaded')
      /\ UNCHANGED <<program, file>>
  BY DEF Open
<1>2. Typed /\ Through(file.lines) /\ file.lines \in Seq(Entry)
  BY DEF IInv, Typed
<1>3. loaded' \in Seq(Entry) /\ Through(loaded')
  BY <1>1, <1>2, NothingRecorded
<1>4. Typed'
  BY <1>1, <1>2, <1>3, BoundsAssumption DEF Typed
<1>5. Begins(loaded', loaded')
  BY <1>3, LenProperties, BeginsItself
<1>6. QED
  BY <1>1, <1>2, <1>3, <1>4, <1>5 DEF IInv

(* A lookup, a miss or a failure records nothing.                          *)
LEMMA QuietStep ==
    ASSUME IInv, UNCHANGED <<program, session, pc, mode, file, entries, sequence, loaded>>
    PROVE  IInv'
BY DEF IInv, Typed

LEMMA LiveAnswersStep ==
    ASSUME IInv, NEW i \in DOMAIN program, LiveAnswers(i)
    PROVE  IInv'
<1> DEFINE e == [key |-> program[i], sequence |-> sequence, response |-> <<session, i>>]
<1>1. /\ pc = "open" /\ entries' = Append(entries, e) /\ sequence' = sequence + 1
      /\ UNCHANGED <<program, session, pc, mode, file, loaded>>
  BY DEF LiveAnswers
<1>2. /\ Typed /\ entries \in Seq(Entry) /\ sequence = Len(entries) /\ Len(entries) \in Nat
      /\ Through(entries) /\ Through(file.lines) /\ Begins(loaded, entries) /\ loaded \in Seq(Entry)
  BY <1>1, LenProperties DEF IInv, Typed
<1>3. e \in Entry /\ e.sequence = Len(entries)
  <2>1. PICK n \in 1..MaxRequests : program \in [1..n -> Keys]
    BY <1>2 DEF Typed
  <2>2. i \in 1..MaxRequests /\ program[i] \in Keys
    BY <2>1, BoundsAssumption
  <2>3. session \in 1..MaxSessions
    BY <1>1, <1>2 DEF Typed
  <2>4. QED
    BY <1>2, <2>2, <2>3 DEF Entry, Answer
<1> HIDE DEF e
<1>4. /\ entries' \in Seq(Entry) /\ Len(entries') = Len(entries) + 1
      /\ \A j \in 1..Len(entries) : entries'[j] = entries[j]
      /\ entries'[Len(entries) + 1] = e
  BY <1>1, <1>2, <1>3, AppendProperties
<1>5. Typed'
  BY <1>1, <1>2, <1>4 DEF Typed
<1>6. Through(entries')
  <2>1. \A j \in 1..Len(entries') : j \in 1..Len(entries) \/ j = Len(entries) + 1
    BY <1>2, <1>4
  <2>2. QED
    BY <1>2, <1>3, <1>4, <2>1 DEF Through
<1>7. Begins(loaded, entries')
  <2>1. Len(loaded) \in Nat /\ Len(loaded) <= Len(entries)
    BY <1>2, LenProperties DEF Begins
  <2>2. \A j \in 1..Len(loaded) : j \in 1..Len(entries)
    BY <1>2, <2>1
  <2>3. QED
    BY <1>2, <1>4, <2>1, <2>2 DEF Begins
<1>8. QED
  BY <1>1, <1>2, <1>4, <1>5, <1>6, <1>7 DEF IInv

LEMMA LoadFailsStep ==
    ASSUME IInv, NEW m, LoadFails(m)
    PROVE  IInv'
BY BoundsAssumption DEF IInv, Typed, LoadFails

LEMMA CloseReplayStep == IInv /\ CloseReplay => IInv'
<1> SUFFICES ASSUME IInv, CloseReplay PROVE IInv'
  OBVIOUS
<1>1. mode' # "auto"
  BY DEF CloseReplay, records
<1>2. QED
  BY <1>1 DEF IInv, Typed, CloseReplay

LEMMA SaveOpenStep == IInv /\ SaveOpen => IInv'
<1> SUFFICES ASSUME IInv, SaveOpen PROVE IInv'
  OBVIOUS
<1>1. file'.lines = <<>> /\ pc' = "saving" /\ pc = "open"
      /\ UNCHANGED <<program, session, mode, entries, sequence, loaded>>
  BY DEF SaveOpen
<1>2. QED
  BY <1>1, NothingRecorded DEF IInv, Typed

LEMMA SaveWriteStep == IInv /\ SaveWrite => IInv'
<1> SUFFICES ASSUME IInv, SaveWrite PROVE IInv'
  OBVIOUS
<1>1. file'.lines = entries /\ pc' = "closed" /\ pc = "saving"
      /\ UNCHANGED <<program, session, mode, entries, sequence, loaded>>
  BY DEF SaveWrite
<1>2. QED
  BY <1>1 DEF IInv, Typed

LEMMA CrashStep == IInv /\ Crash => IInv'
<1> SUFFICES ASSUME IInv, Crash PROVE IInv'
  OBVIOUS
<1>1. /\ pc' = "closed" /\ mode' = "record" /\ entries' = <<>> /\ sequence' = 0 /\ loaded' = <<>>
      /\ UNCHANGED <<program, session>>
  BY DEF Crash
<1>2. /\ Typed /\ Through(entries) /\ Through(file.lines) /\ entries \in Seq(Entry)
      /\ Len(entries) \in Nat /\ file.lines \in Seq(Entry)
  BY LenProperties DEF IInv, Typed
<1>3. file'.lines \in Seq(Entry) /\ Through(file'.lines)
  <2>1. CASE UNCHANGED file
    BY <1>2, <2>1
  <2>2. ASSUME NEW n \in 0..Len(entries), file'.lines = SubSeq(entries, 1, n)
        PROVE  file'.lines \in Seq(Entry) /\ Through(file'.lines)
    <3>1. n \in Nat /\ \A i \in 1..n : i \in 1..Len(entries) /\ entries[i] \in Entry
      BY <1>2, ElementOfSeq
    <3>2. /\ SubSeq(entries, 1, n) \in Seq(Entry) /\ Len(SubSeq(entries, 1, n)) = n
          /\ \A i \in 1..n : SubSeq(entries, 1, n)[i] = entries[i]
      BY <1>2, <3>1, SubSeqProperties
    <3>3. QED
      BY <1>2, <2>2, <3>1, <3>2 DEF Through
  <2>3. QED
    BY <2>1, <2>2 DEF Crash
<1>4. Typed'
  BY <1>1, <1>2, <1>3, NothingRecorded DEF Typed
<1>5. QED
  BY <1>1, <1>3, <1>4, NothingRecorded DEF IInv

LEMMA StepInv == IInv /\ [Next]_vars => IInv'
<1> SUFFICES ASSUME IInv, [Next]_vars PROVE IInv'
  OBVIOUS
<1>1. ASSUME NEW i \in DOMAIN program,
             FoundByKey(i) \/ FoundInSequence(i) \/ Missed(i) \/ LiveFails(i)
      PROVE  IInv'
  BY <1>1, QuietStep DEF FoundByKey, FoundInSequence, Missed, LiveFails
<1>2. CASE Terminated \/ UNCHANGED vars
  BY <1>2, QuietStep DEF Terminated, vars
<1>3. QED
  BY <1>1, <1>2, OpenStep, LoadFailsStep, LiveAnswersStep, CloseReplayStep, SaveOpenStep,
     SaveWriteStep, CrashStep DEF Next
-----------------------------------------------------------------------------
(* The recorder's list, its numbering and the file agree, in every session *)
(* and after every crash.                                                  *)
THEOREM Invariance == Spec => []IInv
BY InitInv, StepInv, PTL DEF Spec

(* A session in AUTO mode saves what it found before what it added, and    *)
(* the lines of a file are numbered through (cassette.py:256-264, 331-367). *)
THEOREM NothingLost == Spec => []FileGrows
<1>1. IInv => FileGrows
  <2> SUFFICES ASSUME IInv PROVE FileGrows
    OBVIOUS
  <2>1. loaded \in Seq(Entry) /\ file.lines \in Seq(Entry) /\ Through(file.lines)
    BY DEF IInv, Typed
  <2>2. pc = "closed" /\ mode = "auto" => IsPrefix(loaded, file.lines)
    BY <2>1, BeginsIsPrefix DEF IInv
  <2>3. DOMAIN file.lines = 1..Len(file.lines)
    BY <2>1, LenProperties
  <2>4. QED
    BY <2>1, <2>2, <2>3 DEF FileGrows, Through
<1>2. QED
  BY <1>1, Invariance, PTL
-----------------------------------------------------------------------------
(* What a session in the course of a test is in.                           *)
Course ==
    /\ mode \in Modes /\ sequential \in BOOLEAN
    /\ asked \in 0..Len(program)
    /\ got \in [DOMAIN program -> Answer \cup {Nothing, Miss, Error}]
    /\ live \subseteq 1..asked
    /\ \A i \in DOMAIN program : i \in live \/ i > asked => got[i] \notin Answer
    /\ serial => live \subseteq {asked}
    /\ mode = "replay" \/ pc = "saving" => live = {}
    /\ pc = "saving" => records
    /\ pc = "open" /\ replays => loaded = file.lines
    /\ pc = "open" /\ mode = "replay" => entries = loaded
    /\ pc = "open" => cursor \in [Keys -> Nat] /\ seq_cursor \in Nat

(* The test asks for a key n times before its request i, and the list has  *)
(* as many recordings or fewer: so far has the cursor come.                *)
Wanted(p, k, i) == {j \in 1..i - 1 : p[j] = k}
Reached(n, m) == IF n <= m THEN n ELSE m

Cursors ==
    pc = "open" =>
        /\ \A k \in Keys : Wanted(program, k, asked + 1) = {} => cursor[k] = 0
        /\ replays /\ entries = loaded =>
            IF sequential THEN seq_cursor = Reached(asked, Len(entries))
            ELSE \A k \in Keys :
                    cursor[k] = Reached(Cardinality(Wanted(program, k, asked + 1)),
                                        Cardinality(by_key(entries, k)))

(* What a list of recordings replies to request i, if nothing is added.    *)
Replies(p, s, sq, i, r) ==
    IF sq
    THEN r = IF i <= Len(s) THEN s[i].response ELSE Miss
    ELSE LET n == Cardinality(Wanted(p, p[i], i))
         IN  IF n < Cardinality(by_key(s, p[i]))
             THEN \E j \in element(s, p[i], n) : r = s[j].response
             ELSE r = Miss

Replaying ==
    /\ pc = "open" /\ mode = "replay" => \A i \in 1..asked : Replies(program, loaded, sequential, i, got[i])
    /\ pc # "saving" /\ before.mode = "replay" =>
        \A i \in DOMAIN program : Replies(program, file.lines, before.sequential, i, before.got[i])

(* A list that holds the answers to the test, one by one and in order.     *)
Holds(p, s, n, g) ==
    /\ Len(s) = n
    /\ \A i \in 1..n : s[i].key = p[i] /\ s[i].response = g[i]

Recording ==
    /\ pc # "closed" /\ mode = "record" /\ serial /\ (\A i \in 1..asked : i \in live \/ got[i] \in Answer)
        => Holds(program, entries, IF live = {} THEN asked ELSE asked - 1, got)
    /\ pc # "saving" /\ serial /\ before.mode = "record" /\ Complete
        => Holds(program, file.lines, Len(program), before.got)

(* One that answers each request with the first recording of its key.      *)
First(s, k, r) == \E j \in element(s, k, 0) : s[j].response = r

Adding ==
    /\ pc # "closed" /\ mode = "auto" /\ ~sequential /\ IsInjective(program) =>
        /\ \A i \in 1..asked : got[i] \in Answer => First(entries, program[i], got[i])
        /\ \A i \in live : by_key(entries, program[i]) = {}
    /\ pc # "saving" /\ before.mode = "auto" /\ ~before.sequential /\ Complete /\ IsInjective(program)
        => \A i \in DOMAIN program : First(file.lines, program[i], before.got[i])

(* In the cases of Deterministic that go on from a recording nothing is    *)
(* added to what was loaded.                                               *)
Again ==
    /\ \/ before.mode = "record"
       \/ before.mode = "auto" /\ ~before.sequential /\ IsInjective(program) /\ ~sequential
    /\ serial /\ Complete
Repeating ==
    pc = "open" /\ replays /\ Again =>
        /\ entries = loaded /\ live = {}
        /\ \A i \in 1..asked : got[i] = before.got[i]

Past ==
    /\ before.mode \in Modes \cup {"none"}
    /\ before.mode # "none" => before.got \in [DOMAIN program -> Answer \cup {Nothing, Miss, Error}]

ToldInv == Course /\ Cursors /\ Replaying /\ Recording /\ Adding /\ Repeating /\ Past

-----------------------------------------------------------------------------
(* Elements of a list by key.                                              *)

LEMMA ListIs ==
    ASSUME NEW s \in Seq(Entry)
    PROVE  /\ Len(s) \in Nat /\ DOMAIN s = 1..Len(s)
           /\ \A i \in 1..Len(s) : s[i] \in Entry /\ s[i].response \in Answer
<1>1. Len(s) \in Nat /\ DOMAIN s = 1..Len(s) /\ \A i \in 1..Len(s) : s[i] \in Entry
  BY LenProperties, ElementOfSeq
<1>2. QED
  BY <1>1 DEF Entry

LEMMA ByKeyFinite ==
    ASSUME NEW s \in Seq(Entry), NEW k
    PROVE  /\ by_key(s, k) \subseteq 1..Len(s)
           /\ IsFiniteSet(by_key(s, k)) /\ Cardinality(by_key(s, k)) \in Nat
           /\ Cardinality(by_key(s, k)) = 0 <=> by_key(s, k) = {}
           /\ \A j : IsFiniteSet({h \in by_key(s, k) : h < j})
                     /\ Cardinality({h \in by_key(s, k) : h < j}) \in Nat
<1>1. Len(s) \in Nat /\ by_key(s, k) \subseteq 1..Len(s)
  BY ListIs DEF by_key
<1>2. IsFiniteSet(1..Len(s))
  BY <1>1, FS_Interval
<1>3. \A T \in SUBSET (1..Len(s)) : IsFiniteSet(T) /\ Cardinality(T) \in Nat
  BY <1>2, FS_Subset, FS_CardinalityType
<1>4. \A j : {h \in by_key(s, k) : h < j} \in SUBSET (1..Len(s))
  BY <1>1
<1>5. QED
  BY <1>1, <1>3, <1>4, FS_EmptySet

(* There is one element n.                                                 *)
LEMMA OneElement ==
    ASSUME NEW s \in Seq(Entry), NEW k, NEW n,
           NEW i \in element(s, k, n), NEW j \in element(s, k, n)
    PROVE  i = j
<1> DEFINE B(x) == {h \in by_key(s, k) : h < x}
<1>1. /\ i \in by_key(s, k) /\ j \in by_key(s, k)
      /\ Cardinality(B(i)) = n /\ Cardinality(B(j)) = n
  BY DEF element
<1>2. i \in 1..Len(s) /\ j \in 1..Len(s) /\ Len(s) \in Nat
  BY <1>1, ByKeyFinite, ListIs
<1>3. ASSUME NEW x \in by_key(s, k), NEW y \in by_key(s, k), x \in Int, y \in Int, x < y,
             Cardinality(B(x)) = Cardinality(B(y))
      PROVE  FALSE
  <2>1. B(x) \subseteq B(y) /\ x \in B(y) /\ x \notin B(x)
    <3>1. \A h \in by_key(s, k) : h \in Int
      BY ByKeyFinite
    <3>2. \A h \in by_key(s, k) : h < x => h < y
      BY <1>3, <3>1
    <3>3. ~(x < x)
      BY <1>3
    <3>4. QED
      BY <1>3, <3>2, <3>3
  <2>2. IsFiniteSet(B(y))
    BY ByKeyFinite
  <2> HIDE DEF B
  <2>3. B(y) = B(x)
    BY <1>3, <2>1, <2>2, FS_Subset
  <2>4. QED
    BY <2>1, <2>3
<1> HIDE DEF B
<1>4. ~(i < j) /\ ~(j < i)
  BY <1>1, <1>2, <1>3
<1>5. QED
  BY <1>2, <1>4

(* What is appended comes after the elements there are.                    *)
LEMMA AppendedLater ==
    ASSUME NEW s \in Seq(Entry), NEW e \in Entry
    PROVE  /\ Append(s, e) \in Seq(Entry) /\ Len(Append(s, e)) = Len(s) + 1
           /\ \A i \in 1..Len(s) : Append(s, e)[i] = s[i]
           /\ Append(s, e)[Len(s) + 1] = e
           /\ \A k : by_key(Append(s, e), k)
                     = by_key(s, k) \cup (IF k = e.key THEN {Len(s) + 1} ELSE {})
<1>1. /\ Append(s, e) \in Seq(Entry) /\ Len(Append(s, e)) = Len(s) + 1
      /\ \A i \in 1..Len(s) : Append(s, e)[i] = s[i]
      /\ Append(s, e)[Len(s) + 1] = e
  BY AppendProperties
<1>2. /\ DOMAIN Append(s, e) = 1..Len(s) + 1 /\ DOMAIN s = 1..Len(s) /\ Len(s) \in Nat
  BY <1>1, ListIs
<1>3. \A i : i \in 1..Len(s) + 1 <=> i \in 1..Len(s) \/ i = Len(s) + 1
  BY <1>2
<1>4. ASSUME NEW k
      PROVE  by_key(Append(s, e), k) = by_key(s, k) \cup (IF k = e.key THEN {Len(s) + 1} ELSE {})
  <2> HIDE DEF by_key
  <2>1. \A i : i \in by_key(Append(s, e), k) <=> i \in 1..Len(s) + 1 /\ Append(s, e)[i].key = k
    BY <1>2 DEF by_key
  <2>2. \A i : i \in by_key(s, k) <=> i \in 1..Len(s) /\ s[i].key = k
    BY <1>2 DEF by_key
  <2>3. \A i : i \in by_key(Append(s, e), k)
               <=> i \in by_key(s, k) \/ (k = e.key /\ i = Len(s) + 1)
    BY <1>1, <1>3, <2>1, <2>2
  <2>4. QED
    BY <2>3
<1>5. QED
  BY <1>1, <1>4

LEMMA ElementStays ==
    ASSUME NEW s \in Seq(Entry), NEW e \in Entry, NEW k, NEW n
    PROVE  \A j \in element(s, k, n) : j \in element(Append(s, e), k, n) /\ Append(s, e)[j] = s[j]
<1> SUFFICES ASSUME NEW j \in element(s, k, n)
             PROVE  j \in element(Append(s, e), k, n) /\ Append(s, e)[j] = s[j]
  OBVIOUS
<1>1. /\ j \in by_key(s, k) /\ Cardinality({h \in by_key(s, k) : h < j}) = n
      /\ j \in 1..Len(s) /\ Len(s) \in Nat
  BY ByKeyFinite, ListIs DEF element
<1>2. {h \in by_key(Append(s, e), k) : h < j} = {h \in by_key(s, k) : h < j}
  <2>1. ~(Len(s) + 1 < j)
    BY <1>1
  <2>2. QED
    BY <2>1, AppendedLater
<1>3. j \in by_key(Append(s, e), k)
  BY <1>1, AppendedLater
<1>4. Append(s, e)[j] = s[j]
  BY <1>1, AppendedLater
<1>5. Cardinality({h \in by_key(Append(s, e), k) : h < j}) = n
  BY <1>1, <1>2
<1>6. QED
  BY <1>3, <1>4, <1>5 DEF element

LEMMA FirstStays ==
    ASSUME NEW s \in Seq(Entry), NEW e \in Entry, NEW k, NEW r, First(s, k, r)
    PROVE  First(Append(s, e), k, r)
<1>1. PICK j \in element(s, k, 0) : s[j].response = r
  BY DEF First
<1>2. \A h \in element(s, k, 0) : h \in element(Append(s, e), k, 0) /\ Append(s, e)[h] = s[h]
  BY ElementStays
<1>3. QED
  BY <1>1, <1>2 DEF First

LEMMA FirstAppended ==
    ASSUME NEW s \in Seq(Entry), NEW e \in Entry, by_key(s, e.key) = {}
    PROVE  First(Append(s, e), e.key, e.response)
<1>1. by_key(Append(s, e), e.key) = {Len(s) + 1} /\ Append(s, e)[Len(s) + 1] = e
  BY AppendedLater
<1>2. {h \in {Len(s) + 1} : h < Len(s) + 1} = {}
  BY ListIs
<1>3. Len(s) + 1 \in element(Append(s, e), e.key, 0)
  BY <1>1, <1>2, FS_EmptySet DEF element
<1>4. QED
  BY <1>1, <1>3 DEF First

(* What a test wants of a key, request by request.                         *)
LEMMA WantedGrows ==
    ASSUME NEW p, NEW k, NEW i \in Nat
    PROVE  /\ IsFiniteSet(Wanted(p, k, i)) /\ Cardinality(Wanted(p, k, i)) \in Nat
           /\ i > 0 => /\ p[i] # k => Wanted(p, k, i + 1) = Wanted(p, k, i)
                       /\ p[i] = k => Wanted(p, k, i + 1) # {}
                       /\ Cardinality(Wanted(p, k, i + 1))
                          = IF p[i] = k THEN Cardinality(Wanted(p, k, i)) + 1
                            ELSE Cardinality(Wanted(p, k, i))
<1>1. IsFiniteSet(1..i - 1) /\ Wanted(p, k, i) \in SUBSET (1..i - 1)
  BY FS_Interval DEF Wanted
<1>2. IsFiniteSet(Wanted(p, k, i)) /\ Cardinality(Wanted(p, k, i)) \in Nat
  BY <1>1, FS_Subset, FS_CardinalityType
<1>3. CASE i > 0
  <2>1. (i + 1) - 1 = i /\ \A j : j \in 1..i <=> j \in 1..i - 1 \/ j = i
    BY <1>3
  <2>2. p[i] # k => Wanted(p, k, i + 1) = Wanted(p, k, i)
    BY <2>1 DEF Wanted
  <2>3. p[i] = k => Wanted(p, k, i + 1) = Wanted(p, k, i) \cup {i} /\ i \notin Wanted(p, k, i)
    BY <2>1 DEF Wanted
  <2>4. QED
    BY <1>2, <2>2, <2>3, FS_AddElement
<1>4. QED
  BY <1>2, <1>3

(* A list that holds the answers has them where a lookup comes to.         *)
LEMMA HeldWhereWanted ==
    ASSUME NEW s \in Seq(Entry), NEW p, NEW g, NEW n \in Nat, Holds(p, s, n, g), NEW i \in 1..n
    PROVE  /\ i \in element(s, p[i], Cardinality(Wanted(p, p[i], i)))
           /\ Cardinality(Wanted(p, p[i], i)) < Cardinality(by_key(s, p[i]))
           /\ i <= Len(s) /\ s[i].response = g[i]
<1> DEFINE k == p[i]
           B == {h \in by_key(s, k) : h < i}
<1>1. Len(s) = n /\ DOMAIN s = 1..n /\ \A j \in 1..n : s[j].key = p[j] /\ s[j].response = g[j]
  BY ListIs DEF Holds
<1>2. \A h : h \in 1..i - 1 <=> h \in 1..n /\ h < i
  BY <1>1
<1>3. B = Wanted(p, k, i)
  BY <1>1, <1>2 DEF by_key, Wanted
<1>4. i \in by_key(s, k) /\ i \notin B
  BY <1>1 DEF by_key
<1>5. Cardinality(B) < Cardinality(by_key(s, k))
  <2> HIDE DEF k
  <2>1. B \in SUBSET by_key(s, k) /\ B # by_key(s, k)
    BY <1>4
  <2>2. IsFiniteSet(by_key(s, k)) /\ Cardinality(B) \in Nat /\ Cardinality(by_key(s, k)) \in Nat
    BY ByKeyFinite
  <2> HIDE DEF B
  <2>3. Cardinality(B) <= Cardinality(by_key(s, k)) /\ Cardinality(B) # Cardinality(by_key(s, k))
    BY <2>1, <2>2, FS_Subset
  <2>4. QED
    BY <2>2, <2>3
<1>6. Cardinality(B) = Cardinality(Wanted(p, k, i))
  BY <1>3
<1>7. i \in element(s, k, Cardinality(Wanted(p, k, i)))
  BY <1>4, <1>6 DEF element
<1>8. i <= Len(s)
  BY <1>1
<1>9. QED
  BY <1>1, <1>5, <1>6, <1>7, <1>8

-----------------------------------------------------------------------------
(* What a test is told, step by step.                                      *)

LEMMA AnswersApart == Nothing \notin Answer /\ Miss \notin Answer /\ Error \notin Answer
BY BoundsAssumption DEF Nothing, Miss, Error, Answer

LEMMA ProgramIs ==
    ASSUME Typed
    PROVE  /\ Len(program) \in Nat /\ DOMAIN program = 1..Len(program)
           /\ \A i \in DOMAIN program : program[i] \in Keys
<1>1. PICK n \in 1..MaxRequests : program \in [1..n -> Keys]
  BY DEF Typed
<1>2. n \in Nat /\ program \in Seq(Keys)
  BY <1>1, BoundsAssumption
<1>3. QED
  BY <1>1, <1>2, LenProperties

(* The lists of a session, and of the file.                                *)
LEMMA ListsAre ==
    ASSUME Typed
    PROVE  entries \in Seq(Entry) /\ loaded \in Seq(Entry) /\ file.lines \in Seq(Entry)
BY DEF Typed

(* The request that is due.                                                *)
LEMMA DueIs ==
    ASSUME IInv, ToldInv, NEW i \in DOMAIN program, Asks(i)
    PROVE  /\ pc = "open" /\ i = asked + 1 /\ asked' = i /\ i \in 1..Len(program) /\ i \in Nat /\ i > 0
           /\ asked \in Nat /\ i - 1 = asked
           /\ i \notin live /\ (serial => live = {})
           /\ program[i] \in Keys /\ got[i] \notin Answer
           /\ \A j : j \in 1..i <=> j \in 1..asked \/ j = i
           /\ \A j \in 1..asked : j # i /\ j \in DOMAIN program
           /\ got \in [DOMAIN program -> Answer \cup {Nothing, Miss, Error}]
<1>1. /\ pc = "open" /\ i = asked + 1 /\ asked' = i /\ (serial => live = {})
  BY DEF Asks
<1>2. Len(program) \in Nat /\ DOMAIN program = 1..Len(program) /\ program[i] \in Keys
  BY ProgramIs DEF IInv
<1>3. /\ asked \in 0..Len(program) /\ live \subseteq 1..asked
      /\ got \in [DOMAIN program -> Answer \cup {Nothing, Miss, Error}]
      /\ i > asked => got[i] \notin Answer
  BY DEF ToldInv, Course
<1>4. i > asked /\ asked \in Nat /\ i \in Nat /\ i - 1 = asked /\ i > 0 /\ i \notin 1..asked
  BY <1>1, <1>2, <1>3
<1>5. \A j : j \in 1..i <=> j \in 1..asked \/ j = i
  BY <1>1, <1>3
<1>6. \A j \in 1..asked : j # i /\ j \in DOMAIN program
  BY <1>2, <1>3, <1>4
<1>7. QED
  BY <1>1, <1>2, <1>3, <1>4, <1>5, <1>6

(* For a test that never asks the same twice, cursors are at their start.  *)
LEMMA CursorAtStart ==
    ASSUME IInv, ToldInv, NEW i \in DOMAIN program, Asks(i), IsInjective(program)
    PROVE  cursor[program[i]] = 0
<1>1. Wanted(program, program[i], asked + 1) = {}
  <2>1. (asked + 1) - 1 = asked
    BY DueIs
  <2>2. QED
    BY <2>1, DueIs DEF Wanted, IsInjective
<1>2. QED
  BY <1>1, DueIs DEF ToldInv, Cursors

(* What a lookup finds of a list that nothing was added to.                *)
LEMMA CursorOnLoaded ==
    ASSUME IInv, ToldInv, NEW i \in DOMAIN program, Asks(i), replays, entries = loaded
    PROVE  /\ sequential => seq_cursor = Reached(asked, Len(entries))
           /\ ~sequential => \A k \in Keys : cursor[k] = Reached(Cardinality(Wanted(program, k, i)),
                                                                  Cardinality(by_key(entries, k)))
BY DueIs DEF ToldInv, Cursors

LEMMA ReachedIs ==
    ASSUME NEW n \in Nat, NEW m \in Nat
    PROVE  /\ Reached(n, m) < m => Reached(n, m) = n /\ n < m /\ Reached(n + 1, m) = n + 1
           /\ Reached(n, m) >= m => n >= m /\ Reached(n + 1, m) = Reached(n, m)
           /\ n < m => Reached(n, m) = n
BY DEF Reached

(* In the cases of Repeating, the reply to request i is where a lookup     *)
(* looks, and it is the one of before.                                     *)
LEMMA FoundAgain ==
    ASSUME IInv, ToldInv, NEW i \in DOMAIN program, Asks(i), replays, Again
    PROVE  /\ entries = loaded /\ live = {}
           /\ \A j \in 1..asked : got[j] = before.got[j]
           /\ sequential => /\ seq_cursor = asked /\ seq_cursor < Len(entries)
                            /\ entries[i].response = before.got[i]
           /\ ~sequential => /\ cursor[program[i]] < Cardinality(by_key(entries, program[i]))
                             /\ \A j \in element(entries, program[i], cursor[program[i]]) :
                                    entries[j].response = before.got[i]
<1> DEFINE k == program[i]
           n == Cardinality(Wanted(program, k, i))
           m == Cardinality(by_key(entries, k))
<1>1. entries = loaded /\ live = {} /\ \A j \in 1..asked : got[j] = before.got[j]
  BY DueIs DEF ToldInv, Repeating
<1>2. entries = file.lines /\ entries \in Seq(Entry)
  BY <1>1, DueIs, ListsAre DEF ToldInv, Course, IInv
<1>3. n \in Nat /\ m \in Nat
  BY <1>2, DueIs, WantedGrows, ByKeyFinite
<1>4. /\ sequential => seq_cursor = Reached(asked, Len(entries))
      /\ ~sequential => cursor[k] = Reached(n, m)
  BY <1>1, DueIs, CursorOnLoaded
<1>5. CASE before.mode = "record"
  <2>1. Holds(program, entries, Len(program), before.got)
    BY <1>2, <1>5, DueIs DEF ToldInv, Recording, Again
  <2>2. /\ i \in element(entries, k, n) /\ n < m
        /\ i <= Len(entries) /\ entries[i].response = before.got[i]
    <3>1. Len(program) \in Nat /\ i \in 1..Len(program)
      BY DueIs, ProgramIs DEF IInv
    <3>2. /\ i \in element(entries, program[i], Cardinality(Wanted(program, program[i], i)))
          /\ Cardinality(Wanted(program, program[i], i)) < Cardinality(by_key(entries, program[i]))
          /\ i <= Len(entries) /\ entries[i].response = before.got[i]
      <4> HIDE DEF k, n, m
      <4> QED
        BY <1>2, <2>1, <3>1, HeldWhereWanted
    <3>3. QED
      BY <3>2
  <2>3. CASE sequential
    <3>1. asked < Len(entries) /\ Len(entries) \in Nat
      BY <1>2, <2>2, DueIs, ListIs
    <3>2. seq_cursor = asked
      BY <1>4, <2>3, <3>1, DueIs, ReachedIs
    <3>3. QED
      BY <1>1, <2>2, <2>3, <3>1, <3>2
  <2>4. CASE ~sequential
    <3>1. cursor[k] = n
      BY <1>3, <1>4, <2>2, <2>4, ReachedIs
    <3>2. \A j \in element(entries, k, n) : j = i
      BY <1>2, <2>2, OneElement
    <3>3. QED
      BY <1>1, <2>2, <2>4, <3>1, <3>2
  <2>5. QED
    BY <2>3, <2>4
<1>6. CASE before.mode = "auto" /\ ~before.sequential /\ IsInjective(program) /\ ~sequential
  <2>1. First(entries, k, before.got[i])
    BY <1>2, <1>6, DueIs DEF ToldInv, Adding, Again
  <2>2. PICK j \in element(entries, k, 0) : entries[j].response = before.got[i]
    BY <2>1 DEF First
  <2>3. cursor[k] = 0
    BY <1>6, CursorAtStart
  <2>4. \A h \in element(entries, k, 0) : h = j
    BY <1>2, <2>2, OneElement
  <2>5. j \in by_key(entries, k)
    BY <2>2 DEF element
  <2>6. 0 < m
    <3>1. m # 0
      BY <1>2, <2>5, ByKeyFinite
    <3>2. QED
      BY <1>3, <3>1
  <2>7. QED
    BY <1>1, <1>6, <2>2, <2>3, <2>4, <2>6
<1>7. QED
  BY <1>5, <1>6 DEF Again

(* A lookup that succeeds: what it finds is what the list replies.         *)
LEMMA FoundTold ==
    ASSUME IInv, ToldInv, NEW i \in DOMAIN program, FoundByKey(i) \/ FoundInSequence(i)
    PROVE  ToldInv'
<1>1. /\ Asks(i) /\ replays /\ asked' = i
      /\ UNCHANGED <<program, serial, session, pc, mode, sequential, file, entries, sequence, live,
                     loaded, before>>
  BY DEF FoundByKey, FoundInSequence, Asks
<1>2. PICK r \in Answer :
        /\ got' = [got EXCEPT ![i] = r]
        /\ entries = loaded => Replies(program, entries, sequential, i, r)
        /\ Again => r = before.got[i]
        /\ ~sequential /\ IsInjective(program) => First(entries, program[i], r)
        /\ \A k \in Keys : k # program[i] => cursor'[k] = cursor[k]
        /\ cursor' \in [Keys -> Nat] /\ seq_cursor' \in Nat
        /\ entries = loaded =>
            /\ sequential => seq_cursor' = Reached(i, Len(entries))
            /\ ~sequential => cursor'[program[i]] =
                   Reached(Cardinality(Wanted(program, program[i], i)) + 1,
                           Cardinality(by_key(entries, program[i])))
  <2> DEFINE k == program[i]
             n == Cardinality(Wanted(program, k, i))
             m == Cardinality(by_key(entries, k))
  <2>1. entries \in Seq(Entry) /\ k \in Keys /\ cursor \in [Keys -> Nat] /\ seq_cursor \in Nat
    BY <1>1, DueIs, ListsAre DEF IInv, ToldInv, Course
  <2>2. n \in Nat /\ m \in Nat /\ Len(entries) \in Nat /\ asked \in Nat /\ i = asked + 1
    BY <1>1, <2>1, DueIs, WantedGrows, ByKeyFinite, ListIs
  <2>3. CASE FoundByKey(i)
    <3>1. ~sequential /\ cursor[k] < m
      BY <2>3 DEF FoundByKey
    <3>2. /\ cursor' = [cursor EXCEPT ![k] = @ + 1] /\ seq_cursor' = seq_cursor
      BY <2>3 DEF FoundByKey
    <3>3. PICK j \in element(entries, k, cursor[k]) : got' = [got EXCEPT ![i] = entries[j].response]
      BY <2>3 DEF FoundByKey
    <3>4. entries[j].response \in Answer
      BY <2>1, <3>3, ByKeyFinite, ListIs DEF element
    <3>5. entries = loaded => cursor[k] = Reached(n, m)
      BY <1>1, <2>1, <3>1, CursorOnLoaded
    <3>6. entries = loaded => n < m /\ cursor[k] = n /\ cursor'[k] = Reached(n + 1, m)
      <4>1. cursor'[k] = cursor[k] + 1
        BY <2>1, <3>2
      <4>2. QED
        BY <2>2, <3>1, <3>5, <4>1, ReachedIs
    <3>7. entries = loaded => Replies(program, entries, sequential, i, entries[j].response)
      BY <3>1, <3>3, <3>6 DEF Replies
    <3>8. Again => entries[j].response = before.got[i]
      BY <1>1, <3>1, <3>3, FoundAgain
    <3>9. IsInjective(program) => First(entries, k, entries[j].response)
      BY <1>1, <3>3, CursorAtStart DEF First
    <3>10. cursor' \in [Keys -> Nat] /\ \A x \in Keys : x # k => cursor'[x] = cursor[x]
      BY <2>1, <3>2
    <3> HIDE DEF n, m
    <3>11. QED
      BY <2>1, <3>1, <3>2, <3>3, <3>4, <3>6, <3>7, <3>8, <3>9, <3>10 DEF n, m
  <2>4. CASE FoundInSequence(i)
    <3>1. /\ sequential /\ seq_cursor < Len(entries)
          /\ got' = [got EXCEPT ![i] = entries[seq_cursor + 1].response]
          /\ seq_cursor' = seq_cursor + 1 /\ cursor' = cursor
      BY <2>4 DEF FoundInSequence
    <3>2. entries[seq_cursor + 1].response \in Answer
      <4>1. seq_cursor + 1 \in 1..Len(entries)
        BY <2>1, <2>2, <3>1
      <4>2. QED
        BY <2>1, <4>1, ListIs
    <3>3. entries = loaded => seq_cursor = Reached(asked, Len(entries))
      BY <1>1, <3>1, CursorOnLoaded
    <3>4. entries = loaded => seq_cursor = asked /\ asked < Len(entries)
                              /\ seq_cursor' = Reached(i, Len(entries))
      BY <2>2, <3>1, <3>3, ReachedIs
    <3>5. entries = loaded => Replies(program, entries, sequential, i, entries[seq_cursor + 1].response)
      BY <2>2, <3>1, <3>4 DEF Replies
    <3>6. Again => entries[seq_cursor + 1].response = before.got[i]
      BY <1>1, <2>2, <3>1, FoundAgain
    <3> DEFINE r == entries[seq_cursor + 1].response
    <3>7. seq_cursor' \in Nat /\ cursor' \in [Keys -> Nat]
      BY <2>1, <3>1
    <3> HIDE DEF r
    <3>8. r \in Answer /\ got' = [got EXCEPT ![i] = r]
      BY <3>1, <3>2 DEF r
    <3>9. /\ entries = loaded => Replies(program, entries, sequential, i, r)
          /\ Again => r = before.got[i]
      BY <3>5, <3>6 DEF r
    <3>10. QED
      BY <3>1, <3>4, <3>7, <3>8, <3>9
  <2>5. QED
    BY <2>3, <2>4
<1>3. got' \in [DOMAIN program -> Answer \cup {Nothing, Miss, Error}]
  BY <1>1, <1>2, DueIs
<1>4. got'[i] = r /\ \A j \in DOMAIN program : j # i => got'[j] = got[j]
  BY <1>1, <1>2, DueIs
<1>5. pc = "open" /\ i \in 1..Len(program) /\ i \notin live /\ (serial => live = {})
  BY <1>1, DueIs
<1>6. Course'
  <2>1. /\ mode \in Modes /\ sequential \in BOOLEAN
        /\ \A j \in DOMAIN program : j \in live \/ j > asked => got[j] \notin Answer
        /\ live \subseteq 1..asked /\ (mode = "replay" => live = {})
        /\ loaded = file.lines /\ (mode = "replay" => entries = loaded)
    BY <1>1, <1>5 DEF ToldInv, Course
  <2>2. i \in 0..Len(program) /\ live \subseteq 1..i
    BY <1>1, <1>5, <2>1, DueIs
  <2>3. ASSUME NEW j \in DOMAIN program, j \in live \/ j > i PROVE got'[j] \notin Answer
    <3>1. j # i
      BY <1>1, <1>5, <2>3, DueIs
    <3>2. j \in live \/ j > asked
      BY <1>1, <2>3, DueIs, ProgramIs DEF IInv
    <3>3. QED
      BY <1>4, <2>1, <3>1, <3>2
  <2>4. QED
    BY <1>1, <1>2, <1>3, <1>5, <2>1, <2>2, <2>3 DEF Course, replays, records
<1>7. Cursors'
  <2>1. ASSUME NEW k \in Keys
        PROVE  /\ Wanted(program, k, i + 1) = {} => k # program[i] /\ Wanted(program, k, asked + 1) = {}
               /\ Cardinality(Wanted(program, k, i + 1))
                  = IF program[i] = k THEN Cardinality(Wanted(program, k, i)) + 1
                    ELSE Cardinality(Wanted(program, k, i))
    BY <1>1, DueIs, WantedGrows
  <2>2. \A k \in Keys : Wanted(program, k, i + 1) = {} => cursor'[k] = 0
    BY <1>2, <1>5, <2>1 DEF ToldInv, Cursors
  <2>3. ASSUME entries = loaded, ~sequential, NEW k \in Keys
        PROVE  cursor'[k] = Reached(Cardinality(Wanted(program, k, i + 1)),
                                    Cardinality(by_key(entries, k)))
    <3>1. CASE k = program[i]
      BY <1>2, <2>1, <2>3, <3>1
    <3>2. CASE k # program[i]
      <4>1. cursor[k] = Reached(Cardinality(Wanted(program, k, i)), Cardinality(by_key(entries, k)))
        BY <1>1, <2>3, CursorOnLoaded
      <4>2. QED
        BY <1>2, <2>1, <3>2, <4>1
    <3>3. QED
      BY <3>1, <3>2
  <2>4. QED
    BY <1>1, <1>2, <2>2, <2>3 DEF Cursors, replays
<1>8. Replaying'
  <2>1. ASSUME mode = "replay", NEW j \in 1..i
        PROVE  Replies(program, loaded, sequential, j, got'[j])
    <3>1. entries = loaded
      BY <1>5, <2>1 DEF ToldInv, Course
    <3>2. CASE j = i
      BY <1>2, <1>4, <3>1, <3>2
    <3>3. CASE j # i
      <4>1. j \in 1..asked /\ j \in DOMAIN program
        BY <1>1, <3>3, DueIs
      <4>2. QED
        BY <1>4, <1>5, <2>1, <3>3, <4>1 DEF ToldInv, Replaying
    <3>4. QED
      BY <3>2, <3>3
  <2>2. QED
    BY <1>1, <2>1 DEF ToldInv, Replaying
<1>9. Recording'
  <2>1. mode # "record"
    BY <1>1 DEF replays
  <2>2. Complete' <=> Complete
    BY <1>1 DEF Complete
  <2>3. QED
    BY <1>1, <2>1, <2>2 DEF ToldInv, Recording
<1>10. Adding'
  <2>1. Complete' <=> Complete
    BY <1>1 DEF Complete
  <2>2. ASSUME mode = "auto", ~sequential, IsInjective(program), NEW j \in 1..i, got'[j] \in Answer
        PROVE  First(entries, program[j], got'[j])
    <3>1. CASE j = i
      BY <1>2, <1>4, <2>2, <3>1
    <3>2. CASE j # i
      <4>1. j \in 1..asked /\ got'[j] = got[j]
        BY <1>1, <1>4, <3>2, DueIs
      <4>2. QED
        BY <1>5, <2>2, <4>1 DEF ToldInv, Adding
    <3>3. QED
      BY <3>1, <3>2
  <2>3. QED
    BY <1>1, <1>5, <2>1, <2>2 DEF ToldInv, Adding
<1>11. Repeating'
  <2>1. Again' <=> Again
    BY <1>1 DEF Again, Complete
  <2>2. ASSUME Again
        PROVE  entries = loaded /\ live = {} /\ \A j \in 1..i : got'[j] = before.got[j]
    BY <1>1, <1>2, <1>4, <2>2, DueIs, FoundAgain
  <2>3. QED
    BY <1>1, <2>1, <2>2 DEF Repeating
<1>12. Past'
  BY <1>1 DEF ToldInv, Past
<1>13. QED
  BY <1>6, <1>7, <1>8, <1>9, <1>10, <1>11, <1>12 DEF ToldInv

(* A lookup that fails, or none: None in a replay, else the provider.      *)
LEMMA MissedTold ==
    ASSUME IInv, ToldInv, NEW i \in DOMAIN program, Missed(i)
    PROVE  ToldInv'
<1>1. /\ Asks(i) /\ asked' = i
      /\ replays /\ ~sequential => cursor[program[i]] >= Cardinality(by_key(entries, program[i]))
      /\ replays /\ sequential => seq_cursor >= Len(entries)
      /\ mode = "replay" => got' = [got EXCEPT ![i] = Miss] /\ UNCHANGED live
      /\ mode # "replay" => live' = live \cup {i} /\ UNCHANGED got
      /\ UNCHANGED <<program, serial, session, pc, mode, sequential, file, entries, cursor,
                     seq_cursor, sequence, loaded, before>>
  BY DEF Missed, Asks
<1>2. /\ entries \in Seq(Entry) /\ program[i] \in Keys /\ cursor \in [Keys -> Nat] /\ seq_cursor \in Nat
      /\ mode \in Modes /\ sequential \in BOOLEAN
      /\ \A j \in DOMAIN program : j \in live \/ j > asked => got[j] \notin Answer
      /\ live \subseteq 1..asked /\ (mode = "replay" => live = {} /\ entries = loaded)
      /\ replays => loaded = file.lines
  BY <1>1, DueIs, ListsAre DEF IInv, ToldInv, Course
<1>3. /\ pc = "open" /\ i \in 1..Len(program) /\ i \notin live /\ (serial => live = {})
      /\ got[i] \notin Answer /\ i = asked + 1 /\ asked \in Nat
      /\ got \in [DOMAIN program -> Answer \cup {Nothing, Miss, Error}]
  BY <1>1, DueIs
<1>4. /\ got' \in [DOMAIN program -> Answer \cup {Nothing, Miss, Error}]
      /\ got'[i] \notin Answer
      /\ mode = "replay" => got'[i] = Miss
      /\ \A j \in DOMAIN program : j # i => got'[j] = got[j]
      /\ \A j : j \in live' => j \in live \/ j = i
      /\ mode = "replay" => live' = {}
  BY <1>1, <1>2, <1>3, AnswersApart
<1>5. ~(replays /\ Again)
  <2>1. SUFFICES ASSUME replays, Again PROVE FALSE
    OBVIOUS
  <2>2. /\ sequential => seq_cursor < Len(entries) /\ Len(entries) \in Nat
        /\ ~sequential => cursor[program[i]] < Cardinality(by_key(entries, program[i]))
    BY <1>1, <1>2, <2>1, FoundAgain, ListIs
  <2>3. Cardinality(by_key(entries, program[i])) \in Nat /\ cursor[program[i]] \in Nat
    BY <1>2, ByKeyFinite
  <2>4. QED
    BY <1>1, <1>2, <2>1, <2>2, <2>3
<1>6. Course'
  <2>1. i \in 0..Len(program) /\ live' \subseteq 1..i
    <3>1. \A j : j \in 1..i <=> j \in 1..asked \/ j = i
      BY <1>1, DueIs
    <3>2. i \in 0..Len(program)
      BY <1>3
    <3>3. QED
      BY <1>2, <1>4, <3>1, <3>2
  <2>2. ASSUME NEW j \in DOMAIN program, j \in live' \/ j > i PROVE got'[j] \notin Answer
    <3>1. j = i \/ j \in live \/ j > asked
      BY <1>1, <1>4, <2>2, DueIs, ProgramIs DEF IInv
    <3>2. QED
      BY <1>2, <1>4, <3>1
  <2>3. serial => live' \subseteq {i}
    BY <1>3, <1>4
  <2>4. QED
    BY <1>1, <1>2, <1>3, <1>4, <2>1, <2>2, <2>3 DEF Course, replays, records
<1>7. Cursors'
  <2>1. ASSUME NEW k \in Keys
        PROVE  /\ Wanted(program, k, i + 1) = {} => Wanted(program, k, asked + 1) = {}
               /\ Cardinality(Wanted(program, k, i + 1))
                  = IF program[i] = k THEN Cardinality(Wanted(program, k, i)) + 1
                    ELSE Cardinality(Wanted(program, k, i))
               /\ Cardinality(Wanted(program, k, i)) \in Nat
               /\ Cardinality(by_key(entries, k)) \in Nat
    <3>1. i \in Nat /\ i > 0 /\ asked + 1 = i
      BY <1>1, DueIs
    <3>2. /\ program[i] # k => Wanted(program, k, i + 1) = Wanted(program, k, i)
          /\ program[i] = k => Wanted(program, k, i + 1) # {}
          /\ Cardinality(Wanted(program, k, i + 1))
             = IF program[i] = k THEN Cardinality(Wanted(program, k, i)) + 1
               ELSE Cardinality(Wanted(program, k, i))
          /\ Cardinality(Wanted(program, k, i)) \in Nat
      BY <3>1, WantedGrows
    <3>3. Cardinality(by_key(entries, k)) \in Nat
      BY <1>2, ByKeyFinite
    <3>4. QED
      BY <3>1, <3>2, <3>3
  <2>2. \A k \in Keys : Wanted(program, k, i + 1) = {} => cursor[k] = 0
    BY <1>3, <2>1 DEF ToldInv, Cursors
  <2>3. ASSUME replays, entries = loaded, ~sequential, NEW k \in Keys
        PROVE  cursor[k] = Reached(Cardinality(Wanted(program, k, i + 1)),
                                   Cardinality(by_key(entries, k)))
    <3> DEFINE n == Cardinality(Wanted(program, k, i))
               m == Cardinality(by_key(entries, k))
    <3>1. cursor[k] = Reached(n, m)
      BY <1>1, <2>3, CursorOnLoaded
    <3>2. n \in Nat /\ m \in Nat
      BY <2>1
    <3>3. CASE k = program[i]
      <4>1. Reached(n, m) >= m
        BY <1>1, <2>3, <3>1, <3>3
      <4>2. Cardinality(Wanted(program, k, i + 1)) = n + 1
        BY <2>1, <3>3
      <4> HIDE DEF n, m
      <4>3. Reached(n + 1, m) = Reached(n, m)
        BY <3>2, <4>1, ReachedIs
      <4>4. QED
        BY <3>1, <4>2, <4>3 DEF m
    <3>4. CASE k # program[i]
      BY <2>1, <3>1, <3>4
    <3>5. QED
      BY <3>3, <3>4
  <2>4. ASSUME replays, entries = loaded, sequential
        PROVE  seq_cursor = Reached(i, Len(entries))
    <3>1. seq_cursor = Reached(asked, Len(entries)) /\ Len(entries) \in Nat
      BY <1>1, <1>2, <2>4, CursorOnLoaded, ListIs
    <3>2. QED
      BY <1>1, <1>3, <2>4, <3>1, ReachedIs
  <2>5. QED
    BY <1>1, <2>2, <2>3, <2>4 DEF Cursors, replays
<1>8. Replaying'
  <2>1. ASSUME mode = "replay", NEW j \in 1..i
        PROVE  Replies(program, loaded, sequential, j, got'[j])
    <3>1. entries = loaded /\ replays
      BY <1>2, <2>1 DEF replays
    <3>2. CASE j = i /\ sequential
      <4>1. seq_cursor = Reached(asked, Len(entries)) /\ Len(entries) \in Nat
        BY <1>1, <1>2, <3>1, <3>2, CursorOnLoaded, ListIs
      <4>2. ~(i <= Len(entries))
        BY <1>1, <1>3, <3>1, <3>2, <4>1, ReachedIs
      <4>3. QED
        BY <1>4, <2>1, <3>1, <3>2, <4>2 DEF Replies
    <3>3. CASE j = i /\ ~sequential
      <4> DEFINE n == Cardinality(Wanted(program, program[i], i))
                 m == Cardinality(by_key(entries, program[i]))
      <4>1. cursor[program[i]] = Reached(n, m)
        BY <1>1, <1>2, <3>1, <3>3, CursorOnLoaded
      <4>2. n \in Nat /\ m \in Nat
        BY <1>1, <1>2, DueIs, WantedGrows, ByKeyFinite
      <4>3. Reached(n, m) >= m
        BY <1>1, <3>1, <3>3, <4>1
      <4> HIDE DEF n, m
      <4>4. ~(n < m)
        BY <4>2, <4>3, ReachedIs
      <4>5. QED
        BY <1>4, <2>1, <3>1, <3>3, <4>4 DEF Replies, n, m
    <3>4. CASE j # i
      <4>1. j \in 1..asked /\ j \in DOMAIN program
        BY <1>1, <3>4, DueIs
      <4>2. QED
        BY <1>3, <1>4, <2>1, <3>4, <4>1 DEF ToldInv, Replaying
    <3>5. QED
      BY <1>2, <3>2, <3>3, <3>4
  <2>2. QED
    BY <1>1, <2>1 DEF ToldInv, Replaying
<1>9. Complete' <=> Complete
  BY <1>1 DEF Complete
<1>10. Recording'
  <2>1. ASSUME mode = "record", serial, \A j \in 1..i : j \in live' \/ got'[j] \in Answer
        PROVE  Holds(program, entries, IF live' = {} THEN i ELSE i - 1, got')
    <3>1. live = {} /\ live' = {i} /\ got' = got /\ i - 1 = asked
      BY <1>1, <1>3, <2>1
    <3>2. \A j \in 1..asked : got[j] \in Answer
      BY <1>1, <2>1, <3>1, DueIs
    <3>3. Holds(program, entries, asked, got)
      BY <1>3, <2>1, <3>1, <3>2 DEF ToldInv, Recording
    <3>4. QED
      BY <3>1, <3>3
  <2>2. QED
    BY <1>1, <1>9, <2>1 DEF ToldInv, Recording
<1>11. Adding'
  <2>1. ASSUME mode = "auto", ~sequential, IsInjective(program), NEW j \in 1..i, got'[j] \in Answer
        PROVE  First(entries, program[j], got'[j])
    <3>1. j # i
      BY <1>4, <2>1
    <3>2. j \in 1..asked /\ got'[j] = got[j]
      BY <1>1, <1>4, <3>1, DueIs
    <3>3. QED
      BY <1>3, <2>1, <3>2 DEF ToldInv, Adding
  <2>2. ASSUME mode = "auto", ~sequential, IsInjective(program), NEW j \in live'
        PROVE  by_key(entries, program[j]) = {}
    <3>1. CASE j \in live
      BY <1>3, <2>2, <3>1 DEF ToldInv, Adding
    <3>2. CASE j = i
      <4>1. cursor[program[i]] = 0
        BY <1>1, <2>2, CursorAtStart
      <4>2. 0 >= Cardinality(by_key(entries, program[i]))
        BY <1>1, <2>2, <4>1 DEF replays
      <4>3. QED
        BY <1>2, <3>2, <4>2, ByKeyFinite
    <3>3. QED
      BY <1>4, <2>2, <3>1, <3>2
  <2>3. QED
    BY <1>1, <1>9, <2>1, <2>2 DEF ToldInv, Adding
<1>12. Repeating'
  BY <1>1, <1>5, <1>9 DEF Repeating, Again, replays
<1>13. Past'
  BY <1>1 DEF ToldInv, Past
<1>14. QED
  BY <1>6, <1>7, <1>8, <1>10, <1>11, <1>12, <1>13 DEF ToldInv

(* A request comes back from the provider, with a result or without.       *)
LEMMA LiveIs ==
    ASSUME IInv, ToldInv, NEW i \in DOMAIN program, pc = "open", i \in live
    PROVE  /\ mode \in {"record", "auto"} /\ ~(replays /\ Again)
           /\ i \in 1..asked /\ (serial => i = asked /\ live = {i})
           /\ entries \in Seq(Entry) /\ Len(entries) \in Nat
           /\ got \in [DOMAIN program -> Answer \cup {Nothing, Miss, Error}]
           /\ \A j \in 1..asked : j \in DOMAIN program
           /\ asked \in Nat
<1>1. /\ mode \in Modes /\ (mode = "replay" => live = {})
      /\ live \subseteq 1..asked /\ (serial => live \subseteq {asked}) /\ asked \in 0..Len(program)
      /\ got \in [DOMAIN program -> Answer \cup {Nothing, Miss, Error}]
  BY DEF ToldInv, Course
<1>2. replays /\ Again => live = {}
  BY DEF ToldInv, Repeating
<1>3. entries \in Seq(Entry) /\ Len(entries) \in Nat
  BY ListsAre, ListIs DEF IInv
<1>4. Len(program) \in Nat /\ DOMAIN program = 1..Len(program)
  BY ProgramIs DEF IInv
<1>5. QED
  BY <1>1, <1>2, <1>3, <1>4 DEF Modes

LEMMA LiveFailsTold ==
    ASSUME IInv, ToldInv, NEW i \in DOMAIN program, LiveFails(i)
    PROVE  ToldInv'
<1>1. /\ pc = "open" /\ i \in live /\ live' = live \ {i}
      /\ got' = [got EXCEPT ![i] = Error]
      /\ UNCHANGED <<program, serial, session, pc, mode, sequential, file, entries, cursor,
                     seq_cursor, sequence, asked, loaded, before>>
  BY DEF LiveFails
<1>2. /\ mode \in {"record", "auto"} /\ ~(replays /\ Again)
      /\ i \in 1..asked /\ \A j \in 1..asked : j \in DOMAIN program
      /\ got \in [DOMAIN program -> Answer \cup {Nothing, Miss, Error}]
  BY <1>1, LiveIs
<1>3. /\ got' \in [DOMAIN program -> Answer \cup {Nothing, Miss, Error}]
      /\ got'[i] \notin Answer
      /\ \A j \in DOMAIN program : j # i => got'[j] = got[j]
  BY <1>1, <1>2, AnswersApart
<1>4. Complete' <=> Complete
  BY <1>1 DEF Complete
<1>5. Course'
  BY <1>1, <1>2, <1>3 DEF ToldInv, Course, records, replays
<1>6. Cursors'
  BY <1>1 DEF ToldInv, Cursors, replays
<1>7. Replaying'
  BY <1>1, <1>2 DEF ToldInv, Replaying
<1>8. Recording'
  BY <1>1, <1>2, <1>3, <1>4 DEF ToldInv, Recording
<1>9. Adding'
  BY <1>1, <1>2, <1>3, <1>4 DEF ToldInv, Adding
<1>10. Repeating'
  BY <1>1, <1>2, <1>4 DEF Repeating, Again, replays
<1>11. Past'
  BY <1>1 DEF ToldInv, Past
<1>12. QED
  BY <1>5, <1>6, <1>7, <1>8, <1>9, <1>10, <1>11 DEF ToldInv

LEMMA LiveAnswersTold ==
    ASSUME IInv, ToldInv, NEW i \in DOMAIN program, LiveAnswers(i)
    PROVE  ToldInv'
<1> DEFINE e == [key |-> program[i], sequence |-> sequence, response |-> <<session, i>>]
<1>1. /\ pc = "open" /\ i \in live /\ live' = live \ {i}
      /\ got' = [got EXCEPT ![i] = <<session, i>>]
      /\ entries' = Append(entries, e)
      /\ UNCHANGED <<program, serial, session, pc, mode, sequential, file, cursor,
                     seq_cursor, asked, loaded, before>>
  BY DEF LiveAnswers
<1>2. /\ mode \in {"record", "auto"} /\ ~(replays /\ Again)
      /\ i \in 1..asked /\ (serial => i = asked /\ live = {i})
      /\ entries \in Seq(Entry) /\ Len(entries) \in Nat
      /\ got \in [DOMAIN program -> Answer \cup {Nothing, Miss, Error}]
      /\ \A j \in 1..asked : j \in DOMAIN program
      /\ asked \in Nat
  BY <1>1, LiveIs
<1>3. e \in Entry /\ e.key = program[i] /\ e.response = <<session, i>> /\ <<session, i>> \in Answer
  <2>1. PICK n \in 1..MaxRequests : program \in [1..n -> Keys]
    BY DEF IInv, Typed
  <2>2. i \in 1..MaxRequests /\ program[i] \in Keys
    BY <2>1, BoundsAssumption
  <2>3. session \in 1..MaxSessions /\ sequence \in Nat
    BY <1>1, <1>2 DEF IInv, Typed
  <2>4. QED
    BY <2>2, <2>3 DEF Entry, Answer
<1> HIDE DEF e
<1>4. /\ got' \in [DOMAIN program -> Answer \cup {Nothing, Miss, Error}]
      /\ got'[i] = e.response
      /\ \A j \in DOMAIN program : j # i => got'[j] = got[j]
  BY <1>1, <1>2, <1>3
<1>5. Complete' <=> Complete
  BY <1>1 DEF Complete
<1>6. /\ Len(entries') = Len(entries) + 1
      /\ \A j \in 1..Len(entries) : entries'[j] = entries[j]
      /\ entries'[Len(entries) + 1] = e
      /\ \A k : k # program[i] => by_key(entries', k) = by_key(entries, k)
      /\ \A k, r : First(entries, k, r) => First(entries', k, r)
      /\ by_key(entries, program[i]) = {} => First(entries', program[i], e.response)
  <2>1. /\ Len(entries') = Len(entries) + 1
        /\ \A j \in 1..Len(entries) : entries'[j] = entries[j]
        /\ entries'[Len(entries) + 1] = e
        /\ \A k : by_key(entries', k)
                  = by_key(entries, k) \cup (IF k = e.key THEN {Len(entries) + 1} ELSE {})
    BY <1>1, <1>2, <1>3, AppendedLater
  <2>2. \A k : k # program[i] => by_key(entries', k) = by_key(entries, k)
    BY <1>3, <2>1
  <2>3. \A k, r : First(entries, k, r) => First(entries', k, r)
    BY <1>1, <1>2, <1>3, FirstStays
  <2>4. by_key(entries, program[i]) = {} => First(entries', program[i], e.response)
    BY <1>1, <1>2, <1>3, FirstAppended
  <2>5. QED
    BY <2>1, <2>2, <2>3, <2>4
<1>7. entries' # loaded
  <2>1. Begins(loaded, entries) /\ loaded \in Seq(Entry)
    BY <1>1 DEF IInv, Typed
  <2>2. Len(loaded) <= Len(entries) /\ Len(loaded) \in Nat
    BY <2>1, ListIs DEF Begins
  <2>3. QED
    BY <1>2, <1>6, <2>2
<1>8. Course'
  <2>1. ASSUME NEW j \in DOMAIN program, j \in live' \/ j > asked PROVE got'[j] \notin Answer
    <3>1. j # i
      BY <1>1, <1>2, <2>1
    <3>2. got'[j] = got[j] /\ (j \in live \/ j > asked)
      BY <1>1, <1>4, <2>1, <3>1
    <3>3. QED
      BY <3>2 DEF ToldInv, Course
  <2>2. /\ mode \in Modes /\ sequential \in BOOLEAN /\ asked \in 0..Len(program)
        /\ live' \subseteq 1..asked /\ (serial => live' \subseteq {asked})
        /\ replays => loaded = file.lines
        /\ cursor \in [Keys -> Nat] /\ seq_cursor \in Nat
    BY <1>1 DEF ToldInv, Course
  <2>3. QED
    BY <1>1, <1>2, <1>4, <2>1, <2>2 DEF Course, records, replays
<1>9. Cursors'
  BY <1>1, <1>7 DEF ToldInv, Cursors, replays
<1>10. Replaying'
  BY <1>1, <1>2 DEF ToldInv, Replaying
<1>11. Recording'
  <2>1. ASSUME mode = "record", serial, \A j \in 1..asked : j \in live' \/ got'[j] \in Answer
        PROVE  Holds(program, entries', IF live' = {} THEN asked ELSE asked - 1, got')
    <3>1. i = asked /\ live = {i} /\ live' = {}
      BY <1>1, <1>2, <2>1
    <3>2. \A j \in 1..asked : j \in live \/ got[j] \in Answer
      BY <1>2, <1>4, <2>1, <3>1
    <3>3. Holds(program, entries, asked - 1, got)
      BY <1>1, <2>1, <3>1, <3>2 DEF ToldInv, Recording
    <3>4. Len(entries) = asked - 1 /\ \A j \in 1..asked - 1 : entries[j].key = program[j]
                                                            /\ entries[j].response = got[j]
      BY <3>3 DEF Holds
    <3>5. Len(entries') = asked
      BY <1>2, <1>6, <3>4
    <3>6. ASSUME NEW j \in 1..asked
          PROVE  entries'[j].key = program[j] /\ entries'[j].response = got'[j]
      <4>1. CASE j = asked
        BY <1>2, <1>3, <1>4, <1>6, <3>1, <3>4, <4>1
      <4>2. CASE j # asked
        <5>1. j \in 1..asked - 1 /\ j \in 1..Len(entries) /\ got'[j] = got[j]
          BY <1>2, <1>4, <3>1, <3>4, <4>2
        <5>2. QED
          BY <1>6, <3>4, <5>1
      <4>3. QED
        BY <4>1, <4>2
    <3>7. QED
      BY <3>1, <3>5, <3>6 DEF Holds
  <2>2. QED
    BY <1>1, <1>5, <2>1 DEF ToldInv, Recording
<1>12. Adding'
  <2>1. ASSUME mode = "auto", ~sequential, IsInjective(program)
        PROVE  /\ \A j \in 1..asked : got'[j] \in Answer => First(entries', program[j], got'[j])
               /\ \A j \in live' : by_key(entries', program[j]) = {}
    <3>1. /\ \A j \in 1..asked : got[j] \in Answer => First(entries, program[j], got[j])
          /\ \A j \in live : by_key(entries, program[j]) = {}
      BY <1>1, <2>1 DEF ToldInv, Adding
    <3>2. First(entries', program[i], got'[i])
      BY <1>1, <1>4, <1>6, <3>1
    <3>3. \A j \in 1..asked : j # i => (got'[j] \in Answer => First(entries', program[j], got'[j]))
      BY <1>2, <1>4, <1>6, <3>1
    <3>4. ASSUME NEW j \in live' PROVE by_key(entries', program[j]) = {}
      <4>1. j \in live /\ j # i /\ j \in DOMAIN program
        BY <1>1, <1>2, <3>4 DEF ToldInv, Course
      <4>2. program[j] # program[i]
        BY <2>1, <4>1 DEF IsInjective
      <4>3. QED
        BY <1>6, <3>1, <4>1, <4>2
    <3>5. QED
      BY <3>2, <3>3, <3>4
  <2>2. QED
    BY <1>1, <1>5, <2>1 DEF ToldInv, Adding
<1>13. Repeating'
  BY <1>1, <1>2, <1>5 DEF Repeating, Again, replays
<1>14. Past'
  BY <1>1 DEF ToldInv, Past
<1>15. QED
  BY <1>8, <1>9, <1>10, <1>11, <1>12, <1>13, <1>14 DEF ToldInv

(* A session begins with the file, or with an empty list.                  *)
LEMMA OpenTold ==
    ASSUME IInv, ToldInv, NEW m \in Modes, NEW sq \in BOOLEAN, Open(m, sq)
    PROVE  ToldInv'
<1>1. /\ pc = "closed" /\ pc' = "open" /\ mode' = m /\ sequential' = sq
      /\ loaded' = (IF m = "record" THEN <<>> ELSE file.lines)
      /\ entries' = loaded'
      /\ cursor' = [k \in Keys |-> 0] /\ seq_cursor' = 0 /\ asked' = 0 /\ live' = {}
      /\ got' = [i \in DOMAIN program |-> Nothing]
      /\ UNCHANGED <<program, serial, file, before>>
  BY DEF Open
<1>2. Len(program) \in Nat /\ DOMAIN program = 1..Len(program) /\ file.lines \in Seq(Entry)
  BY ProgramIs, ListsAre DEF IInv
<1>3. loaded' \in Seq(Entry)
  BY <1>1, <1>2, EmptySeq
<1>4. Len(loaded') \in Nat /\ \A k : Cardinality(by_key(loaded', k)) \in Nat
  BY <1>3, ListIs, ByKeyFinite
<1>5. \A k : Wanted(program, k, 0 + 1) = {}
  BY DEF Wanted
<1>6. Complete' <=> Complete
  BY <1>1 DEF Complete
<1>7. 1..0 = {}
  OBVIOUS
<1>8. Course'
  BY <1>1, <1>2, <1>7, AnswersApart DEF Course, replays, records
<1>9. Cursors'
  <2>1. \A n \in Nat : Reached(0, n) = 0
    BY DEF Reached
  <2>2. \A k : Reached(Cardinality(Wanted(program, k, 0 + 1)), Cardinality(by_key(loaded', k))) = 0
    BY <1>4, <1>5, <2>1, FS_EmptySet
  <2>3. QED
    BY <1>1, <1>4, <2>1, <2>2 DEF Cursors
<1>10. Replaying'
  BY <1>1, <1>7 DEF ToldInv, Replaying
<1>11. Recording'
  <2>1. m = "record" => Holds(program, <<>>, 0, got')
    BY <1>7 DEF Holds
  <2>2. QED
    BY <1>1, <1>6, <2>1 DEF ToldInv, Recording
<1>12. Adding'
  BY <1>1, <1>6, <1>7 DEF ToldInv, Adding
<1>13. Repeating'
  BY <1>1, <1>7 DEF Repeating
<1>14. Past'
  BY <1>1 DEF ToldInv, Past
<1>15. QED
  BY <1>8, <1>9, <1>10, <1>11, <1>12, <1>13, <1>14 DEF ToldInv

(* A test that ends has been told everything it asked for.                 *)
LEMMA EndedIs ==
    ASSUME Typed, Course, live = {}
    PROVE  /\ Ended.mode \in {mode, "none"}
           /\ Ended.mode # "none" => /\ asked = Len(program) /\ DOMAIN program = 1..asked
                                     /\ Ended.sequential = sequential /\ Ended.got = got
           /\ Ended.mode \in Modes \cup {"none"}
BY ProgramIs DEF Ended, NoSession, Course, Modes

LEMMA CloseReplayTold == IInv /\ ToldInv /\ CloseReplay => ToldInv'
<1> SUFFICES ASSUME IInv, ToldInv, CloseReplay PROVE ToldInv'
  OBVIOUS
<1>1. /\ pc = "open" /\ live = {} /\ mode = "replay" /\ pc' = "closed" /\ before' = Ended
      /\ UNCHANGED <<program, serial, mode, sequential, file, entries, cursor, seq_cursor, asked,
                     live, got, loaded>>
  BY DEF CloseReplay, records, ToldInv, Course, Modes
<1>2. /\ Ended.mode \in {"replay", "none"}
      /\ Ended.mode # "none" => /\ asked = Len(program) /\ DOMAIN program = 1..asked
                                /\ Ended.sequential = sequential /\ Ended.got = got
      /\ Ended.mode \in Modes \cup {"none"}
  BY <1>1, EndedIs DEF IInv, ToldInv
<1>3. Course'
  BY <1>1 DEF ToldInv, Course
<1>4. Cursors' /\ Repeating'
  BY <1>1 DEF Cursors, Repeating
<1>5. Replaying'
  <2>1. loaded = file.lines
    BY <1>1 DEF ToldInv, Course, replays
  <2>2. QED
    BY <1>1, <1>2, <2>1 DEF ToldInv, Replaying
<1>6. Recording' /\ Adding'
  BY <1>1, <1>2 DEF Recording, Adding
<1>7. Past'
  BY <1>1, <1>2 DEF Past, ToldInv, Course
<1>8. QED
  BY <1>3, <1>4, <1>5, <1>6, <1>7 DEF ToldInv

LEMMA SaveOpenTold == IInv /\ ToldInv /\ SaveOpen => ToldInv'
<1> SUFFICES ASSUME IInv, ToldInv, SaveOpen PROVE ToldInv'
  OBVIOUS
<1>1. /\ pc = "open" /\ live = {} /\ records /\ pc' = "saving"
      /\ UNCHANGED <<program, serial, mode, sequential, entries, cursor, seq_cursor, asked,
                     live, got, loaded, before>>
  BY DEF SaveOpen
<1>2. Course'
  BY <1>1 DEF ToldInv, Course, records
<1>3. Cursors' /\ Repeating'
  BY <1>1 DEF Cursors, Repeating
<1>4. Replaying' /\ Recording' /\ Adding'
  BY <1>1 DEF ToldInv, Replaying, Recording, Adding
<1>5. Past'
  BY <1>1 DEF ToldInv, Past
<1>6. QED
  BY <1>2, <1>3, <1>4, <1>5 DEF ToldInv

LEMMA SaveWriteTold == IInv /\ ToldInv /\ SaveWrite => ToldInv'
<1> SUFFICES ASSUME IInv, ToldInv, SaveWrite PROVE ToldInv'
  OBVIOUS
<1>1. /\ pc = "saving" /\ pc' = "closed" /\ file'.lines = entries /\ before' = Ended
      /\ UNCHANGED <<program, serial, mode, sequential, entries, cursor, seq_cursor, asked,
                     live, got, loaded>>
  BY DEF SaveWrite
<1>2. live = {} /\ mode \in {"record", "auto"}
  BY <1>1 DEF ToldInv, Course, records
<1>3. /\ Ended.mode \in {mode, "none"}
      /\ Ended.mode # "none" => /\ asked = Len(program) /\ DOMAIN program = 1..asked
                                /\ Ended.sequential = sequential /\ Ended.got = got
      /\ Ended.mode \in Modes \cup {"none"}
  BY <1>2, EndedIs DEF IInv, ToldInv
<1>4. Course'
  BY <1>1, <1>2 DEF ToldInv, Course
<1>5. Cursors' /\ Repeating'
  BY <1>1 DEF Cursors, Repeating
<1>6. Replaying'
  BY <1>1, <1>2, <1>3 DEF Replaying
<1>7. Recording'
  BY <1>1, <1>2, <1>3 DEF ToldInv, Recording, Complete
<1>8. Adding'
  BY <1>1, <1>2, <1>3 DEF ToldInv, Adding, Complete
<1>9. Past'
  BY <1>1, <1>3 DEF ToldInv, Past, Course
<1>10. QED
  BY <1>4, <1>5, <1>6, <1>7, <1>8, <1>9 DEF ToldInv

LEMMA CrashTold == IInv /\ ToldInv /\ Crash => ToldInv'
<1> SUFFICES ASSUME IInv, ToldInv, Crash PROVE ToldInv'
  OBVIOUS
<1>1. /\ pc' = "closed" /\ mode' = "record" /\ live' = {} /\ before' = NoSession
      /\ UNCHANGED <<program, serial, sequential, asked, got>>
  BY DEF Crash
<1>2. before'.mode = "none"
  BY <1>1 DEF NoSession
<1>3. Course'
  BY <1>1 DEF ToldInv, Course, Modes
<1>4. QED
  BY <1>1, <1>2, <1>3 DEF ToldInv, Cursors, Replaying, Recording, Adding, Repeating, Past

LEMMA UnmovedTold ==
    ASSUME ToldInv, UNCHANGED <<program, serial, pc, mode, sequential, file, entries, cursor,
                             seq_cursor, asked, live, got, loaded, before>>
    PROVE  ToldInv'
<1>1. Course'
  BY DEF ToldInv, Course, replays, records
<1>2. Cursors' /\ Replaying'
  BY DEF ToldInv, Cursors, Replaying, replays
<1>3. (Complete' <=> Complete) /\ (Again' <=> Again)
  BY DEF Complete, Again
<1>4. Recording' /\ Adding' /\ Repeating'
  BY <1>3 DEF ToldInv, Recording, Adding, Repeating, replays
<1>5. Past'
  BY DEF ToldInv, Past
<1>6. QED
  BY <1>1, <1>2, <1>4, <1>5 DEF ToldInv

LEMMA InitTold == Init => ToldInv
<1> SUFFICES ASSUME Init PROVE ToldInv
  OBVIOUS
<1>1. /\ pc = "closed" /\ mode = "record" /\ sequential = FALSE /\ asked = 0 /\ live = {}
      /\ got = [i \in DOMAIN program |-> Nothing] /\ before.mode = "none"
  BY DEF Init, NoSession
<1>2. Len(program) \in Nat /\ DOMAIN program = 1..Len(program)
  BY InitInv, ProgramIs DEF IInv
<1>3. Course
  <2>1. /\ got \in [DOMAIN program -> Answer \cup {Nothing, Miss, Error}]
        /\ \A i \in DOMAIN program : got[i] \notin Answer
    BY <1>1, AnswersApart
  <2>2. mode \in Modes /\ asked \in 0..Len(program) /\ live \subseteq 1..asked
    BY <1>1, <1>2 DEF Modes
  <2>3. sequential \in BOOLEAN
    BY <1>1, Zenon
  <2>4. QED
    BY <1>1, <2>1, <2>2, <2>3 DEF Course
<1>4. QED
  BY <1>1, <1>3 DEF ToldInv, Cursors, Replaying, Recording, Adding, Repeating, Past

LEMMA StepTold == IInv /\ ToldInv /\ [Next]_vars => ToldInv'
<1> SUFFICES ASSUME IInv, ToldInv, [Next]_vars PROVE ToldInv'
  OBVIOUS
<1>1. CASE Terminated \/ UNCHANGED vars
  BY <1>1, UnmovedTold DEF Terminated, vars
<1>2. ASSUME NEW m \in Modes, LoadFails(m) PROVE ToldInv'
  BY <1>2, UnmovedTold DEF LoadFails
<1>3. QED
  BY <1>1, <1>2, OpenTold, FoundTold, MissedTold, LiveAnswersTold, LiveFailsTold, CloseReplayTold,
     SaveOpenTold, SaveWriteTold, CrashTold DEF Next

(* A list of recordings replies to a request in one way.                   *)
LEMMA OneReply ==
    ASSUME NEW s \in Seq(Entry), NEW p, NEW sq, NEW i, NEW r, NEW q,
           Replies(p, s, sq, i, r), Replies(p, s, sq, i, q)
    PROVE  r = q
<1>1. CASE sq
  BY <1>1 DEF Replies
<1>2. CASE ~sq
  <2> DEFINE n == Cardinality(Wanted(p, p[i], i))
  <2>1. CASE n < Cardinality(by_key(s, p[i]))
    <3>1. PICK j \in element(s, p[i], n) : r = s[j].response
      BY <1>2, <2>1 DEF Replies
    <3>2. PICK h \in element(s, p[i], n) : q = s[h].response
      BY <1>2, <2>1 DEF Replies
    <3>3. j = h
      BY <3>1, <3>2, OneElement
    <3>4. QED
      BY <3>1, <3>2, <3>3
  <2>2. CASE ~(n < Cardinality(by_key(s, p[i])))
    BY <1>2, <2>2 DEF Replies
  <2>3. QED
    BY <2>1, <2>2
<1>3. QED
  BY <1>1, <1>2

LEMMA IsDeterministic == IInv /\ ToldInv => Deterministic
<1> SUFFICES ASSUME IInv, ToldInv, serial, pc = "open",
                    \/ replays /\ before.mode = "record" /\ Complete
                    \/ /\ replays /\ ~sequential
                       /\ before.mode = "auto" /\ ~before.sequential /\ Complete
                       /\ IsInjective(program)
                    \/ mode = "replay" /\ before.mode = "replay" /\ before.sequential = sequential
             PROVE  \A i \in 1..asked : got[i] = before.got[i]
  BY DEF Deterministic
<1>1. CASE replays /\ Again
  BY <1>1 DEF ToldInv, Repeating
<1>2. CASE mode = "replay" /\ before.mode = "replay" /\ before.sequential = sequential
  <2> SUFFICES ASSUME NEW i \in 1..asked PROVE got[i] = before.got[i]
    OBVIOUS
  <2>1. loaded = file.lines /\ loaded \in Seq(Entry) /\ i \in DOMAIN program
    BY <1>2, ListsAre, ProgramIs DEF IInv, ToldInv, Course, replays
  <2>2. Replies(program, loaded, sequential, i, got[i])
    BY <1>2 DEF ToldInv, Replaying
  <2>3. Replies(program, loaded, sequential, i, before.got[i])
    BY <1>2, <2>1 DEF ToldInv, Replaying
  <2>4. QED
    BY <2>1, <2>2, <2>3, OneReply
<1>3. QED
  BY <1>1, <1>2 DEF Again

-----------------------------------------------------------------------------
(* Cursors stand where the requests so far have brought them, and what a   *)
(* test was told is on the file where its next run looks for it.           *)
THEOREM ToldInvariance == Spec => []ToldInv
<1>1. Init => ToldInv
  BY InitTold
<1>2. IInv /\ ToldInv /\ [Next]_vars => ToldInv'
  BY StepTold
<1>3. QED
  BY <1>1, <1>2, Invariance, PTL DEF Spec

(* A test that waits for each answer is told by a replay, or by AUTO mode, *)
(* what the session before was told (cassette.py:4, 266-314).              *)
THEOREM Repeatable == Spec => []Deterministic
<1>1. IInv /\ ToldInv => Deterministic
  BY IsDeterministic
<1>2. QED
  BY <1>1, Invariance, ToldInvariance, PTL
=============================================================================

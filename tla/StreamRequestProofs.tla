-------------------------- MODULE StreamRequestProofs --------------------------
(***************************************************************************)
(* Proofs about StreamRequest, for every set of statuses and hints, every  *)
(* max_retries, with and without a cap, for streams of any length.         *)
(***************************************************************************)
EXTENDS StreamRequest, SequenceTheorems, TLAPS

LEMMA Regroup ==
    ASSUME NEW S, NEW s \in Seq(S), NEW t \in Seq(S), NEW u \in Seq(S)
    PROVE  s \o (t \o u) = (s \o t) \o u
BY ConcatAssociative

(* Handing over the first of some chunks moves it from what is left to     *)
(* what was delivered.                                                     *)
LEMMA HandOver ==
    ASSUME NEW S, NEW d \in Seq(S), NEW cs \in Seq(S), cs # <<>>, NEW r \in Seq(S)
    PROVE  /\ Head(cs) \in S /\ Tail(cs) \in Seq(S)
           /\ Append(d, Head(cs)) \in Seq(S)
           /\ d \o (cs \o r) = Append(d, Head(cs)) \o (Tail(cs) \o r)
<1> DEFINE h == Head(cs)
           t == Tail(cs)
<1>1. h \in S /\ t \in Seq(S) /\ Len(t) = Len(cs) - 1 /\ \A i \in 1..Len(t) : t[i] = cs[i + 1]
  BY HeadTailProperties
<1>2. /\ Append(d, h) \in Seq(S) /\ Append(d, h) = d \o <<h>> /\ <<h>> \in Seq(S)
  BY <1>1, AppendProperties, AppendIsConcat
<1>3. cs = <<h>> \o t
  <2>1. Len(cs) \in Nat \ {0} /\ cs[1] = h
    BY EmptySeq
  <2>2. /\ <<h>> \o t \in Seq(S) /\ Len(<<h>> \o t) = 1 + Len(t)
        /\ \A i \in 1..1 + Len(t) : (<<h>> \o t)[i] = IF i <= 1 THEN <<h>>[i] ELSE t[i - 1]
    BY <1>1, <1>2, ConcatProperties
  <2>3. \A i \in 1..Len(cs) : (<<h>> \o t)[i] = cs[i]
    BY <1>1, <2>1, <2>2, LenProperties
  <2>4. QED
    BY <1>1, <2>1, <2>2, <2>3, SeqEqual
<1> HIDE DEF h, t
<1>4. cs \o r = <<h>> \o (t \o r)
  BY <1>1, <1>2, <1>3, ConcatAssociative
<1>5. t \o r \in Seq(S)
  BY <1>1, ConcatProperties
<1>6. \A v, u \in Seq(S) : d \o (v \o u) = (d \o v) \o u
  BY Regroup
<1>7. d \o (<<h>> \o (t \o r)) = (d \o <<h>>) \o (t \o r)
  BY <1>2, <1>5, <1>6, Zenon
<1>8. QED
  BY <1>1, <1>2, <1>4, <1>7 DEF h, t

(* A beginning of a sequence is what its first elements make up.           *)
LEMMA Beginning ==
    ASSUME NEW S, NEW d \in Seq(S), NEW r \in Seq(S), NEW e \in S
    PROVE  /\ Len(d) <= Len(d \o r) + 1
           /\ d = SubSeq(Append(d \o r, e), 1, Len(d))
<1> DEFINE w == d \o r
           a == Append(w, e)
<1>1. /\ w \in Seq(S) /\ Len(w) = Len(d) + Len(r) /\ Len(d) \in Nat /\ Len(r) \in Nat
      /\ \A i \in 1..Len(d) : w[i] = d[i]
  BY ConcatProperties, LenProperties
<1> HIDE DEF w
<1>2. ASSUME NEW v \in Seq(S)
      PROVE  /\ Append(v, e) \in Seq(S) /\ Len(Append(v, e)) = Len(v) + 1
             /\ \A i \in 1..Len(v) : Append(v, e)[i] = v[i]
  BY AppendProperties
<1>3. /\ \A i \in 1..Len(d) : d[i] \in S
      /\ \A i \in 1..Len(d) : a[i] = d[i]
  BY <1>1, <1>2, ElementOfSeq
<1> HIDE DEF a
<1>4. /\ SubSeq(a, 1, Len(d)) \in Seq(S) /\ Len(SubSeq(a, 1, Len(d))) = Len(d)
      /\ \A i \in 1..Len(d) : SubSeq(a, 1, Len(d))[i] = d[i]
  BY <1>1, <1>3, SubSeqProperties
<1>5. d = SubSeq(a, 1, Len(d))
  BY <1>4, SeqEqual
<1>6. QED
  BY <1>1, <1>5 DEF w, a

LEMMA Ending ==
    ASSUME NEW S, NEW w \in Seq(S), NEW e \in S
    PROVE  /\ Len(Append(w, e)) <= Len(w) + 1
           /\ Append(w, e) = SubSeq(Append(w, e), 1, Len(Append(w, e)))
<1>1. Append(w, e) \in Seq(S) /\ Len(Append(w, e)) = Len(w) + 1 /\ Len(w) \in Nat
  BY AppendProperties, LenProperties
<1>2. QED
  BY <1>1, SubSeqFull
-----------------------------------------------------------------------------
(* The chunks of a line, and of the lines of the buffer.                   *)
LEMMA ChunksType ==
    ASSUME attempt \in Nat, NEW l \in Line
    PROVE  /\ Chunks(l) \in Seq(Chunk)
           /\ Chunks(l) # <<>> <=> l.kind \in {"delta", "pair"}
<1>1. l.number \in 0..MaxLines
  BY MaxLinesAssumption DEF Line
<1>2. \A i \in 0..2 : [attempt |-> attempt, line |-> l.number, part |-> i] \in Chunk
  BY <1>1 DEF Chunk
<1>3. CASE l.kind = "delta"
  BY <1>2, <1>3 DEF Chunks
<1>4. CASE l.kind = "pair"
  BY <1>2, <1>4 DEF Chunks
<1>5. CASE l.kind \notin {"delta", "pair"}
  BY <1>5 DEF Chunks
<1>6. QED
  BY <1>3, <1>4, <1>5

LEMMA CarriedType ==
    ASSUME attempt \in Nat, NEW lines \in Seq(Line), Len(lines) \in 0..2
    PROVE  Carried(lines) \in Seq(Chunk)
<1>1. CASE lines = <<>> \/ lines[1].kind = "end"
  BY <1>1 DEF Carried
<1>2. CASE ~(lines = <<>> \/ lines[1].kind = "end")
  <2>1. Len(lines) \in 1..2 /\ lines[1] \in Line
    BY <1>2, EmptySeq, ElementOfSeq
  <2>2. CASE Len(lines) = 1
    <3>1. Carried(lines) = Chunks(lines[1]) \o <<>> /\ Chunks(lines[1]) \in Seq(Chunk)
      BY <1>2, <2>1, <2>2, ChunksType DEF Carried
    <3>2. QED
      BY <3>1, ConcatEmptySeq
  <2>3. CASE Len(lines) = 2
    <3>1. lines[2] \in Line
      BY <2>3, ElementOfSeq
    <3>2. /\ Carried(lines) = Chunks(lines[1]) \o Chunks(lines[2])
          /\ Chunks(lines[1]) \in Seq(Chunk) /\ Chunks(lines[2]) \in Seq(Chunk)
      BY <1>2, <2>1, <2>3, <3>1, ChunksType DEF Carried
    <3>3. QED
      BY <3>2, ConcatProperties
  <2>4. QED
    BY <2>1, <2>2, <2>3
<1>3. QED
  BY <1>1, <1>2

(* Taking a line off the buffer takes its chunks off what is on the way.   *)
LEMMA CarriedFirst ==
    ASSUME attempt \in Nat, NEW lines \in Seq(Line), Len(lines) \in 1..2
    PROVE  /\ Head(lines) \in Line /\ Tail(lines) \in Seq(Line) /\ Len(Tail(lines)) = Len(lines) - 1
           /\ Carried(lines) = IF Head(lines).kind = "end" THEN <<>>
                               ELSE Chunks(Head(lines)) \o Carried(Tail(lines))
<1>1. lines # <<>> /\ Head(lines) = lines[1]
  <2>1. lines # <<>>
    <3>1. Len(<<>>) = 0
      BY EmptySeq
    <3>2. QED
      BY <3>1
  <2>2. QED
    BY <2>1
<1>2. /\ Head(lines) \in Line /\ Tail(lines) \in Seq(Line) /\ Len(Tail(lines)) = Len(lines) - 1
      /\ \A i \in 1..Len(Tail(lines)) : Tail(lines)[i] = lines[i + 1]
  BY <1>1, HeadTailProperties
<1>3. CASE lines[1].kind = "end"
  BY <1>1, <1>2, <1>3 DEF Carried
<1>4. CASE lines[1].kind # "end" /\ Len(lines) = 1
  <2>1. Tail(lines) = <<>>
    <3>1. Len(Tail(lines)) = 0
      BY <1>2, <1>4
    <3>2. QED
      BY <1>2, <3>1, EmptySeq
  <2>2. Carried(Tail(lines)) = <<>>
    BY <2>1 DEF Carried
  <2>3. QED
    BY <1>1, <1>2, <1>4, <2>2 DEF Carried
<1>5. CASE lines[1].kind # "end" /\ Len(lines) = 2
  <2>1. /\ Tail(lines) # <<>> /\ Tail(lines)[1] = lines[2] /\ Len(Tail(lines)) = 1
        /\ lines[2] \in Line
    <3>1. Len(Tail(lines)) = 1 /\ 1 \in 1..Len(Tail(lines))
      BY <1>2, <1>5
    <3>2. Tail(lines) # <<>>
      <4>1. \A s : Len(s) = 1 => s # <<>>
        OBVIOUS
      <4>2. QED
        BY <3>1, <4>1, Zenon
    <3>3. Tail(lines)[1] = lines[2]
      BY <1>2, <3>1
    <3>4. lines[2] \in Line
      BY <1>5, ElementOfSeq
    <3>5. QED
      BY <3>1, <3>2, <3>3, <3>4
  <2>2. Carried(Tail(lines)) = Chunks(lines[2])
    <3>1. CASE lines[2].kind = "end"
      BY <2>1, <3>1 DEF Carried, Chunks
    <3>2. CASE lines[2].kind # "end"
      <4>1. Carried(Tail(lines)) = Chunks(lines[2]) \o <<>>
        BY <2>1, <3>2 DEF Carried
      <4>2. QED
        BY <2>1, <4>1, ChunksType, ConcatEmptySeq
    <3>3. QED
      BY <3>1, <3>2
  <2>3. Carried(lines) = Chunks(lines[1]) \o Chunks(lines[2])
    BY <1>1, <1>5 DEF Carried
  <2>4. QED
    BY <1>1, <1>2, <1>5, <2>2, <2>3
<1>6. QED
  BY <1>2, <1>3, <1>4, <1>5

LEMMA NumberedType ==
    ASSUME stream.lines \in 0..MaxLines, NEW kinds \in Pieces, stream.lines + Len(kinds) <= MaxLines
    PROVE  /\ Len(kinds) \in 0..2 /\ (kinds = <<>> <=> Len(kinds) = 0)
           /\ Numbered(kinds) \in Seq(Line) /\ Len(Numbered(kinds)) = Len(kinds)
<1>1. /\ Len(kinds) \in 0..2 /\ (kinds = <<>> <=> Len(kinds) = 0)
      /\ \A i \in 1..Len(kinds) : kinds[i] \in LineKind
  BY DEF Pieces
<1>2. \A i \in 1..Len(kinds) : [kind |-> kinds[i], number |-> stream.lines + i] \in Line
  BY <1>1, MaxLinesAssumption DEF Line
<1>3. Numbered(kinds) \in [1..Len(kinds) -> Line]
  BY <1>2 DEF Numbered
<1>4. QED
  BY <1>1, <1>3
-----------------------------------------------------------------------------
Hook == {"request", "retry", "response", "error"}

(* The inductive invariant.  What is on the wire is what was delivered and *)
(* what is still in the buffer; the accumulator has seen the former.       *)
Rest == CASE pc = "parsing" -> Carried(stream.queue)
          [] pc = "yielded" -> stream.pending \o Carried(stream.queue)
          [] OTHER -> <<>>

OnlyDone == \A i \in 1..Len(stale) : stale[i].line = 0 /\ stale[i].attempt < sent

Wired ==
    /\ pc \in {"start", "ready", "opening", "backoff"} => delivered = <<>> /\ ~yielded_any
    /\ pc \in {"reading", "parsing", "yielded"} =>
           stream.wire = delivered \o Rest /\ stream.accumulated = delivered
    /\ pc \in {"reading", "parsing"} => stream.pending = <<>> /\ (yielded_any <=> delivered # <<>>)
    /\ pc = "parsing" => Len(stream.queue) \in 1..2
    /\ pc = "yielded" => Len(stream.queue) \in 0..1 /\ yielded_any /\ delivered # <<>>
    /\ pc = "yielded_done" => /\ delivered = Append(stream.wire, Done)
                              /\ stream.accumulated = delivered
                              /\ yielded_any <=> stream.wire # <<>>
    /\ OnlyDone

(* The counters of the loop, the requests and the hooks go together.       *)
Plain ==
    /\ hooks # <<>> /\ hooks[1] = "request"
    /\ \A i \in 2..Len(hooks) :
          \/ hooks[i] = "retry"
          \/ hooks[i] = "response" /\ i < Len(hooks) /\ hooks[i + 1] = "retry"

Counted ==
    /\ pc = "start" => sent = 0 /\ attempt = 0 /\ hooks = <<>> /\ last_error = NoError
                     /\ Len(stale) = 0
    /\ pc = "ready" => /\ sent = attempt /\ Len(hooks) = attempt + 1 + Len(stale)
                       /\ IF attempt = 0 THEN last_error = NoError
                          ELSE attempt <= call.max_retries /\ Transient(last_error)
    /\ WithinAttempt => /\ sent = attempt + 1 /\ attempt <= call.max_retries
                        /\ Len(hooks) = sent + Len(stale)
    /\ pc = "backoff" => /\ sent = attempt + 1 /\ attempt < call.max_retries
                         /\ Len(hooks) = sent + Len(stale) + 1
                         /\ Transient(last_error)
    /\ pc \notin {"start", "done"} => Plain

Running ==
    /\ pc # "done" => result = Pending /\ puts = <<>>
    /\ pc = "done" => result.kind # "none"

IInv ==
    /\ TypeOK /\ Wired /\ Counted /\ Running
    /\ DeliveredInOrder /\ CacheWhole /\ HookOrder /\ OutcomeJustified

-----------------------------------------------------------------------------
LEMMA RetriesAreInt == TypeOK => call.max_retries \in Int
BY RetryChoicesAssumption DEF TypeOK, Call

(* What calling a hook does to the history of hooks.                       *)
LEMMA HookCalled ==
    ASSUME hooks \in Seq(Hook), NEW h \in Hook, hooks' = Append(hooks, h)
    PROVE  /\ hooks' \in Seq(Hook)
           /\ Len(hooks) \in Nat
           /\ Len(hooks') = Len(hooks) + 1
           /\ \A i \in 1..Len(hooks) : hooks'[i] = hooks[i]
           /\ hooks'[Len(hooks) + 1] = h
           /\ hooks' # <<>>
           /\ LastHook' = h
BY AppendProperties, LenProperties DEF LastHook

LEMMA PlainLast ==
    ASSUME hooks \in Seq(Hook), Plain
    PROVE  Len(hooks) \in Nat \ {0} /\ LastHook \in {"request", "retry"}
<1>1. Len(hooks) \in Nat \ {0}
  BY EmptySeq, LenProperties DEF Plain
<1>2. CASE Len(hooks) = 1
  BY <1>2 DEF Plain, LastHook
<1>3. CASE Len(hooks) # 1
  <2>1. Len(hooks) \in 2..Len(hooks)
    <3>1. \A n \in Nat \ {0} : n # 1 => n \in 2..n
      OBVIOUS
    <3>2. QED
      BY <1>1, <1>3, <3>1, Zenon
  <2>2. QED
    BY <1>1, <2>1 DEF Plain, LastHook
<1>4. QED
  BY <1>1, <1>2, <1>3

LEMMA PlainGrows ==
    ASSUME hooks \in Seq(Hook), Plain, hooks' = Append(hooks, "retry")
    PROVE  Plain'
<1>1. /\ Len(hooks) \in Nat \ {0}
      /\ Len(hooks') = Len(hooks) + 1
      /\ \A i \in 1..Len(hooks) : hooks'[i] = hooks[i]
      /\ hooks'[Len(hooks) + 1] = "retry"
      /\ hooks' # <<>>
  BY HookCalled, PlainLast DEF Hook
<1>2. hooks'[1] = "request"
  BY <1>1 DEF Plain
<1>3. \A i \in 2..Len(hooks') :
         \/ hooks'[i] = "retry"
         \/ hooks'[i] = "response" /\ i < Len(hooks') /\ hooks'[i + 1] = "retry"
  BY <1>1 DEF Plain
<1>4. QED
  BY <1>1, <1>2, <1>3 DEF Plain

(* What two hooks in one step do to their history.                         *)
LEMMA HooksCalled ==
    ASSUME hooks \in Seq(Hook), NEW h \in Hook, hooks' = hooks \o <<"response", h>>
    PROVE  /\ hooks' \in Seq(Hook)
           /\ Len(hooks) \in Nat
           /\ Len(hooks') = Len(hooks) + 2
           /\ \A i \in 1..Len(hooks) : hooks'[i] = hooks[i]
           /\ hooks'[Len(hooks) + 1] = "response"
           /\ hooks'[Len(hooks) + 2] = h
           /\ hooks' # <<>>
<1> DEFINE e == <<"response", h>>
<1>1. e \in Seq(Hook) /\ Len(e) = 2 /\ e[1] = "response" /\ e[2] = h
  BY DEF Hook
<1> HIDE DEF e
<1>2. /\ hooks \o e \in Seq(Hook) /\ Len(hooks \o e) = Len(hooks) + Len(e)
      /\ \A i \in 1..Len(hooks) + Len(e) :
            (hooks \o e)[i] = IF i <= Len(hooks) THEN hooks[i] ELSE e[i - Len(hooks)]
  BY <1>1, ConcatProperties
<1>3. hooks' = hooks \o e /\ Len(hooks) \in Nat
  BY LenProperties DEF e
<1>4. Len(hooks') = Len(hooks) + 2
  BY <1>1, <1>2, <1>3
<1>5. hooks' # <<>>
  BY <1>3, <1>4
<1>6. QED
  BY <1>1, <1>2, <1>3, <1>4, <1>5

(* on_response failed and another attempt follows.                         *)
LEMMA PlainAgain ==
    ASSUME hooks \in Seq(Hook), Plain, hooks' = hooks \o <<"response", "retry">>
    PROVE  Plain'
<1>1. /\ Len(hooks) \in Nat \ {0}
      /\ Len(hooks') = Len(hooks) + 2
      /\ \A i \in 1..Len(hooks) : hooks'[i] = hooks[i]
      /\ hooks'[Len(hooks) + 1] = "response" /\ hooks'[Len(hooks) + 2] = "retry"
      /\ hooks' # <<>>
  BY HooksCalled, PlainLast DEF Hook
<1>2. hooks'[1] = "request"
  BY <1>1 DEF Plain
<1>3. \A i \in 2..Len(hooks') : i \in 2..Len(hooks) \/ i = Len(hooks) + 1 \/ i = Len(hooks) + 2
  BY <1>1
<1>4. \A i \in 2..Len(hooks') :
         \/ hooks'[i] = "retry"
         \/ hooks'[i] = "response" /\ i < Len(hooks') /\ hooks'[i + 1] = "retry"
  <2>1. ASSUME NEW i \in 2..Len(hooks)
        PROVE  \/ hooks'[i] = "retry"
               \/ hooks'[i] = "response" /\ i < Len(hooks') /\ hooks'[i + 1] = "retry"
    BY <1>1 DEF Plain
  <2>2. (Len(hooks) + 1) + 1 = Len(hooks) + 2 /\ Len(hooks) + 1 < Len(hooks')
    BY <1>1
  <2>3. QED
    BY <1>1, <1>3, <2>1, <2>2
<1>5. QED
  BY <1>1, <1>2, <1>4 DEF Plain

(* While only on_request and what precedes another attempt have run the    *)
(* order is kept; so it is by the hooks the call ends with.                *)
Ordered ==
    \A i \in 1..Len(hooks) :
       /\ (hooks[i] = "request") <=> (i = 1)
       /\ hooks[i] = "error" => pc = "done" /\ i = Len(hooks)
       /\ hooks[i] = "response" =>
             IF i = Len(hooks) THEN pc = "done" ELSE hooks[i + 1] \in {"error", "retry"}

LEMMA PlainOrdered ==
    ASSUME hooks \in Seq(Hook), Plain
    PROVE  Ordered
<1>1. Len(hooks) \in Nat
  BY LenProperties
<1>2. \A i \in 1..Len(hooks) : i = 1 \/ i \in 2..Len(hooks)
  BY <1>1
<1>3. QED
  BY <1>1, <1>2 DEF Plain, Ordered

LEMMA EndOrdered ==
    ASSUME hooks \in Seq(Hook), Plain, NEW h \in Hook \ {"request"}, hooks' = Append(hooks, h),
           pc' = "done"
    PROVE  Ordered'
<1>1. /\ Len(hooks) \in Nat \ {0}
      /\ Len(hooks') = Len(hooks) + 1
      /\ \A i \in 1..Len(hooks) : hooks'[i] = hooks[i]
      /\ hooks'[Len(hooks) + 1] = h
  BY HookCalled, PlainLast DEF Hook
<1>2. \A i \in 1..Len(hooks') : i = 1 \/ i \in 2..Len(hooks) \/ i = Len(hooks) + 1
  BY <1>1
<1>3. /\ hooks'[1] = "request"
      /\ \A i \in 2..Len(hooks) :
            \/ hooks'[i] = "retry"
            \/ hooks'[i] = "response" /\ i # Len(hooks') /\ hooks'[i + 1] = "retry"
  BY <1>1 DEF Plain
<1>4. QED
  BY <1>1, <1>2, <1>3 DEF Ordered

LEMMA BothOrdered ==
    ASSUME hooks \in Seq(Hook), Plain, NEW h \in {"error", "retry"},
           hooks' = hooks \o <<"response", h>>, pc' = "done"
    PROVE  Ordered'
<1>1. /\ Len(hooks) \in Nat \ {0}
      /\ Len(hooks') = Len(hooks) + 2
      /\ \A i \in 1..Len(hooks) : hooks'[i] = hooks[i]
      /\ hooks'[Len(hooks) + 1] = "response" /\ hooks'[Len(hooks) + 2] = h
  BY HooksCalled, PlainLast DEF Hook
<1>2. \A i \in 1..Len(hooks') :
         i = 1 \/ i \in 2..Len(hooks) \/ i = Len(hooks) + 1 \/ i = Len(hooks) + 2
  BY <1>1
<1>3. /\ hooks'[1] = "request"
      /\ \A i \in 2..Len(hooks) :
            \/ hooks'[i] = "retry"
            \/ hooks'[i] = "response" /\ i # Len(hooks') /\ hooks'[i + 1] = "retry"
  BY <1>1 DEF Plain
<1>4. hooks'[(Len(hooks) + 1) + 1] = h /\ Len(hooks) + 1 # Len(hooks')
  BY <1>1
<1>5. QED
  BY <1>1, <1>2, <1>3, <1>4 DEF Ordered
-----------------------------------------------------------------------------
(* Until the call is done the four properties follow from what is wired,   *)
(* counted and still running.                                              *)
LEMMA UnderwayNow ==
    pc # "done" /\ TypeOK /\ Wired /\ Counted /\ Running
        => DeliveredInOrder /\ CacheWhole /\ HookOrder /\ OutcomeJustified
<1> SUFFICES ASSUME pc # "done", TypeOK, Wired, Counted, Running
             PROVE  DeliveredInOrder /\ CacheWhole /\ HookOrder /\ OutcomeJustified
  OBVIOUS
<1>1. /\ delivered \in Seq(Chunk) /\ stream.wire \in Seq(Chunk) /\ hooks \in Seq(Hook)
      /\ Done \in Chunk /\ Len(stream.queue) \in Nat /\ OnlyDone
  <2>1. Done \in Chunk
    BY MaxLinesAssumption DEF TypeOK, Done, Chunk
  <2>2. QED
    BY <2>1, LenProperties DEF TypeOK, Stream, Hook, Wired
<1>2. DeliveredInOrder
  <2>1. CASE pc \in {"start", "ready", "opening", "backoff"}
    <3>1. delivered = <<>>
      BY <2>1 DEF Wired
    <3>2. /\ <<>> \in Seq(Chunk) /\ <<>> \o stream.wire = stream.wire
      BY <1>1, ConcatEmptySeq
    <3>3. QED
      BY <1>1, <3>1, <3>2, Beginning DEF DeliveredInOrder, OnlyDone
  <2>2. CASE pc \in {"reading", "parsing", "yielded"}
    <3>1. Rest \in Seq(Chunk)
      <4>1. CASE pc = "reading"
        BY <4>1 DEF Rest
      <4>2. stream.queue \in Seq(Line) /\ stream.pending \in Seq(Chunk) /\ attempt \in Nat
        BY DEF TypeOK, Stream
      <4>3. CASE pc = "parsing"
        <5>1. Carried(stream.queue) \in Seq(Chunk)
          BY <4>2, <4>3, CarriedType DEF Wired
        <5>2. QED
          BY <4>3, <5>1 DEF Rest
      <4>4. CASE pc = "yielded"
        <5>1. Carried(stream.queue) \in Seq(Chunk)
          BY <4>2, <4>4, CarriedType DEF Wired
        <5>2. QED
          BY <4>2, <4>4, <5>1, ConcatProperties DEF Rest
      <4>5. QED
        BY <2>2, <4>1, <4>3, <4>4
    <3>2. QED
      BY <1>1, <2>2, <3>1, Beginning DEF Wired, DeliveredInOrder, OnlyDone
  <2>3. CASE pc = "yielded_done"
    <3>1. delivered = Append(stream.wire, Done)
      BY <2>3 DEF Wired
    <3>2. QED
      BY <1>1, <3>1, Ending DEF DeliveredInOrder, OnlyDone
  <2>4. QED
    BY <2>1, <2>2, <2>3 DEF TypeOK
<1>3. CacheWhole /\ OutcomeJustified
  BY DEF Running, Pending, CacheWhole, OutcomeJustified
<1>4. HookOrder
  <2>1. CASE pc = "start"
    BY <2>1, EmptySeq DEF Counted, Running, Pending, HookOrder, WithinAttempt
  <2>2. CASE pc # "start"
    <3>1. Ordered
      BY <1>1, <2>2, PlainOrdered DEF Counted
    <3>2. (WithinAttempt => Len(hooks) = sent + Len(stale))
      BY DEF Counted
    <3>3. QED
      BY <3>1, <3>2 DEF Ordered, HookOrder, Running, Pending
  <2>3. QED
    BY <2>1, <2>2
<1>5. QED
  BY <1>2, <1>3, <1>4

LEMMA Underway ==
    (pc # "done" /\ TypeOK /\ Wired /\ Counted /\ Running)'
        => (DeliveredInOrder /\ CacheWhole /\ HookOrder /\ OutcomeJustified)'
BY UnderwayNow, PTL

(* A call that ends keeps what it delivered.                               *)
LEMMA SettledShape ==
    ASSUME IInv, pc' = "done", result' \in Result, result'.kind # "none",
           UNCHANGED <<attempt, sent, delivered, stale, stream>>
    PROVE  (Wired /\ Counted /\ Running /\ DeliveredInOrder)'
<1>1. Wired' /\ Counted' /\ Running'
  BY DEF IInv, Wired, OnlyDone, Counted, WithinAttempt, Running
<1>2. DeliveredInOrder'
  BY DEF IInv, DeliveredInOrder, Done
<1>3. QED
  BY <1>1, <1>2

LEMMA ErrorTypes ==
    /\ NoError \in Error
    /\ \A k \in {"transport", "interrupted", "httpx", "unhandled"} :
          Local(k) \in Error /\ Local(k).kind = k
BY DEF NoError, Error, Local

LEMMA InitInv == Init => IInv
<1> SUFFICES ASSUME Init PROVE IInv
  OBVIOUS
<1>1. NoStream \in Stream
  BY MaxLinesAssumption DEF NoStream, Stream
<1>2. TypeOK
  <2>1. Pending \in Result /\ NoError \in Error /\ 0 \in 0..MaxBackoff
    BY ErrorTypes, BackoffAssumption DEF Result, Pending
  <2>2. \A S : <<>> \in Seq(S)
    BY EmptySeq
  <2>3. QED
    BY <1>1, <2>1, <2>2 DEF Init, TypeOK
<1>3. Wired /\ Counted /\ Running
  BY DEF Init, Wired, OnlyDone, Counted, WithinAttempt, Running, Pending
<1>4. QED
  BY <1>2, <1>3, UnderwayNow DEF Init, IInv
-----------------------------------------------------------------------------
(* A call that ends with a hook that follows on_request and the on_retrys, *)
(* or without any.                                                         *)
LEMMA EndsWithHook ==
    ASSUME NEW h \in {"retry", "error", "response"}, IInv, Plain, hooks' = Append(hooks, h),
           pc' = "done",
           \/ result'.kind = "hook"
           \/ result'.kind = "raised" /\ h = "error"
           \/ result'.kind = "completed" /\ h = "response"
    PROVE  HookOrder' /\ hooks' \in Seq(Hook)
<1>1. hooks \in Seq(Hook) /\ h \in Hook /\ h \in Hook \ {"request"}
  BY DEF IInv, TypeOK, Hook
<1>2. Ordered' /\ LastHook' = h /\ hooks' \in Seq(Hook)
  BY <1>1, EndOrdered, HookCalled
<1>3. QED
  BY <1>2 DEF Ordered, HookOrder, WithinAttempt

LEMMA EndsQuietly ==
    ASSUME IInv, Plain, UNCHANGED hooks, pc' = "done",
           result'.kind \in {"abandoned", "cancelled", "silent"}
    PROVE  HookOrder'
<1>1. Ordered /\ LastHook \in {"request", "retry"}
  BY PlainOrdered, PlainLast DEF IInv, TypeOK, Hook
<1>2. QED
  BY <1>1 DEF Ordered, HookOrder, WithinAttempt, LastHook

(* An exception of the exchange: another attempt only before the first     *)
(* chunk, and the caller hears of it with that reason.                     *)
LEMMA FailStep ==
    ASSUME IInv, pc \in {"opening", "reading", "parsing"}, NEW e \in Error,
           e.kind = "interrupted" => stream.bytes, Fail(e), UNCHANGED stream
    PROVE  IInv'
<1>1. /\ TypeOK /\ Wired /\ Counted /\ Running /\ Plain /\ call.max_retries \in Int
      /\ hooks \in Seq(Hook) /\ puts = <<>>
      /\ sent = attempt + 1 /\ attempt <= call.max_retries /\ Len(hooks) = sent + Len(stale)
      /\ Len(stale) \in Nat /\ Len(hooks) \in Nat
  BY RetriesAreInt, LenProperties DEF IInv, Counted, Running, WithinAttempt, TypeOK, Hook
<1>2. UNCHANGED <<call, attempt, yielded_any, delivered, stale, puts, sent, stream>>
  BY DEF Fail
<1>3. yielded_any <=> delivered # <<>>
  BY <1>1 DEF Wired
<1>4. last_error' \in Error
  BY <1>1 DEF Fail, TypeOK
<1>5. CASE ~yielded_any /\ should_retry(call.max_retries, e, attempt) /\ pc' = "backoff"
  <2>1. /\ last_error' = e /\ hooks' = Append(hooks, "retry") /\ delay' \in Jitter(attempt)
        /\ UNCHANGED result
    BY <1>5 DEF Fail, Retry, Settle
  <2>2. Plain' /\ hooks' \in Seq(Hook) /\ Len(hooks') = Len(hooks) + 1
    BY <1>1, <2>1, PlainGrows, HookCalled DEF Hook
  <2>3. TypeOK'
    BY <1>1, <1>2, <1>4, <1>5, <2>1, <2>2 DEF TypeOK, Jitter, Hook
  <2>4. Wired'
    BY <1>1, <1>2, <1>3, <1>5 DEF Wired, OnlyDone
  <2>5. Counted' /\ Running'
    BY <1>1, <1>2, <1>5, <2>1, <2>2 DEF Counted, Running, WithinAttempt, should_retry
  <2>6. QED
    BY <1>5, <2>3, <2>4, <2>5, Underway DEF IInv
<1>6. ASSUME pc' = "done", NEW h \in {"retry", "error"}, hooks' = Append(hooks, h), UNCHANGED delay,
             result' \in Result,
             \/ result'.kind = "hook"
             \/ /\ result'.kind = "raised" /\ h = "error" /\ result'.error = e
                /\ delivered # <<>> \/ ~should_retry(call.max_retries, e, attempt)
      PROVE  IInv'
  <2>1. HookOrder' /\ hooks' \in Seq(Hook)
    <3>1. /\ h \in {"retry", "error", "response"}
          /\ \/ result'.kind = "hook"
             \/ result'.kind = "raised" /\ h = "error"
             \/ result'.kind = "completed" /\ h = "response"
      BY <1>6
    <3>2. IInv /\ Plain /\ pc' = "done" /\ hooks' = Append(hooks, h)
      BY <1>1, <1>6
    <3>3. QED
      BY <3>1, <3>2, EndsWithHook
  <2>2. TypeOK'
    BY <1>1, <1>2, <1>4, <1>6, <2>1 DEF TypeOK, Hook
  <2>3. (Wired /\ Counted /\ Running /\ DeliveredInOrder)'
    BY <1>2, <1>6, SettledShape
  <2>4. CacheWhole'
    BY <1>1, <1>2 DEF CacheWhole
  <2>5. OutcomeJustified'
    <3>1. CASE result'.kind = "hook"
      BY <3>1 DEF OutcomeJustified
    <3>2. CASE result'.kind = "raised"
      <4>1. result'.error = e
        BY <1>6, <3>2
      <4>2. Transient(e) => delivered # <<>> \/ sent = call.max_retries + 1
        <5>1. delivered # <<>> \/ ~should_retry(call.max_retries, e, attempt)
          BY <1>6, <3>2
        <5>2. attempt \in Nat
          BY <1>1 DEF TypeOK
        <5>3. QED
          BY <1>1, <5>1, <5>2 DEF should_retry
      <4>3. QED
        BY <1>2, <3>2, <4>1, <4>2 DEF OutcomeJustified, Attempts
    <3>3. QED
      BY <1>6, <3>1, <3>2
  <2>6. QED
    BY <2>1, <2>2, <2>3, <2>4, <2>5 DEF IInv
<1>7. CASE pc' = "done"
  <2>1. [kind |-> "raised", error |-> e] \in Result /\ [kind |-> "hook", error |-> NoError] \in Result
    BY ErrorTypes DEF Result
  <2>2. CASE yielded_any \/ ~should_retry(call.max_retries, e, attempt)
    <3>1. /\ hooks' = Append(hooks, "error") /\ UNCHANGED delay
          /\ \/ result' = [kind |-> "raised", error |-> e]
             \/ result' = [kind |-> "hook", error |-> NoError]
      BY <2>2 DEF Fail, Raise, Settle
    <3>2. QED
      BY <1>3, <1>6, <1>7, <2>1, <2>2, <3>1
  <2>3. CASE ~yielded_any /\ should_retry(call.max_retries, e, attempt)
    <3>1. /\ hooks' = Append(hooks, "retry") /\ UNCHANGED delay
          /\ result' = [kind |-> "hook", error |-> NoError]
      BY <1>7, <2>3 DEF Fail, Retry, Settle
    <3>2. QED
      BY <1>6, <1>7, <2>1, <3>1
  <2>4. QED
    BY <2>2, <2>3
<1>8. QED
  BY <1>5, <1>7 DEF Fail, Raise, Retry, Settle
-----------------------------------------------------------------------------
(* A step inside an attempt leaves the counters alone.                     *)
LEMMA StaysWithin ==
    ASSUME IInv, WithinAttempt, WithinAttempt', UNCHANGED <<call, attempt, sent, stale, hooks, result, puts>>
    PROVE  Counted' /\ Running' /\ pc' # "done"
BY DEF IInv, Counted, Plain, WithinAttempt, Running

LEMMA RestNext ==
    ASSUME UNCHANGED attempt
    PROVE  Rest' = CASE pc' = "parsing" -> Carried(stream'.queue)
                     [] pc' = "yielded" -> stream'.pending \o Carried(stream'.queue)
                     [] OTHER -> <<>>
BY DEF Rest, Carried, Chunks

(* What handing over a chunk does to the stream and to the consumer.       *)
LEMMA Fed ==
    ASSUME delivered \in Seq(Chunk), NEW c \in Chunk, NEW s \in Stream, s.accumulated = delivered,
           Deliver(c, s)
    PROVE  /\ delivered' = Append(delivered, c) /\ delivered' \in Seq(Chunk) /\ delivered' # <<>>
           /\ stream' \in Stream /\ stream'.accumulated = delivered'
           /\ stream'.wire = s.wire /\ stream'.queue = s.queue /\ stream'.pending = s.pending
           /\ UNCHANGED stale
<1>1. delivered' = Append(delivered, c) /\ delivered' \in Seq(Chunk) /\ delivered' # <<>>
  BY AppendProperties DEF Deliver
<1>2. stream' = [s EXCEPT !.accumulated = delivered'] /\ UNCHANGED stale
  BY DEF Deliver
<1>3. QED
  BY <1>1, <1>2 DEF Stream

LEMMA DoneStep ==
    ASSUME IInv, pc \in {"reading", "parsing"}, Rest = <<>>, DeliverDone,
           UNCHANGED <<call, attempt, sent>>
    PROVE  IInv'
<1>1. /\ TypeOK /\ stream.wire = delivered /\ stream.accumulated = delivered
      /\ delivered \in Seq(Chunk) /\ stream \in Stream /\ Done \in Chunk
      /\ OnlyDone /\ (yielded_any <=> delivered # <<>>)
  <2>1. delivered \in Seq(Chunk) /\ stream \in Stream /\ attempt \in Nat /\ TypeOK
    BY DEF IInv, TypeOK
  <2>2. Done \in Chunk
    BY <2>1, MaxLinesAssumption DEF Done, Chunk
  <2>3. stream.wire = delivered \o <<>> /\ stream.accumulated = delivered
    BY DEF IInv, Wired
  <2>4. OnlyDone /\ (yielded_any <=> delivered # <<>>)
    BY DEF IInv, Wired
  <2>5. QED
    BY <2>1, <2>2, <2>3, <2>4, ConcatEmptySeq
<1>2. /\ delivered' = Append(delivered, Done) /\ delivered' \in Seq(Chunk)
      /\ stream' \in Stream /\ stream'.accumulated = delivered' /\ stream'.wire = stream.wire
      /\ UNCHANGED stale
  BY <1>1, Fed DEF DeliverDone
<1>3. pc' = "yielded_done" /\ UNCHANGED <<call, attempt, sent, yielded_any, last_error, result, hooks, puts, delay>>
  BY DEF DeliverDone
<1>4. TypeOK'
  BY <1>1, <1>2, <1>3 DEF TypeOK
<1>5. Wired'
  BY <1>1, <1>2, <1>3 DEF Wired, Done, OnlyDone
<1>6. Counted' /\ Running' /\ pc' # "done"
  BY <1>2, <1>3, StaysWithin DEF WithinAttempt
<1>7. QED
  BY <1>4, <1>5, <1>6, Underway DEF IInv

LEMMA EofStep == IInv /\ Eof => IInv'
<1> SUFFICES ASSUME IInv, Eof PROVE IInv'
  OBVIOUS
<1>1. pc = "reading" /\ DeliverDone /\ UNCHANGED <<call, attempt, sent>>
  BY DEF Eof
<1>2. Rest = <<>>
  BY <1>1 DEF Rest
<1>3. QED
  BY <1>1, <1>2, DoneStep

(* What the parser sees of the buffer.                                     *)
LEMMA Parsing ==
    ASSUME IInv, pc = "parsing"
    PROVE  /\ TypeOK /\ stream \in Stream /\ delivered \in Seq(Chunk) /\ attempt \in Nat
           /\ stream.accumulated = delivered /\ stream.pending = <<>>
           /\ Head(stream.queue) \in Line /\ Tail(stream.queue) \in Seq(Line)
           /\ Len(Tail(stream.queue)) \in 0..1 /\ OnlyDone
           /\ Carried(Tail(stream.queue)) \in Seq(Chunk)
           /\ stream.wire = delivered \o (IF Head(stream.queue).kind = "end" THEN <<>>
                              ELSE Chunks(Head(stream.queue)) \o Carried(Tail(stream.queue)))
<1>1. /\ TypeOK /\ stream \in Stream /\ delivered \in Seq(Chunk) /\ attempt \in Nat
      /\ stream.accumulated = delivered /\ stream.pending = <<>>
      /\ stream.queue \in Seq(Line) /\ Len(stream.queue) \in 1..2
      /\ stream.wire = delivered \o Carried(stream.queue) /\ OnlyDone
  BY DEF IInv, TypeOK, Stream, Wired, Rest
<1>2. /\ Head(stream.queue) \in Line /\ Tail(stream.queue) \in Seq(Line)
      /\ Len(Tail(stream.queue)) = Len(stream.queue) - 1
      /\ Carried(stream.queue) = IF Head(stream.queue).kind = "end" THEN <<>>
                                 ELSE Chunks(Head(stream.queue)) \o Carried(Tail(stream.queue))
  BY <1>1, CarriedFirst
<1>3. Len(Tail(stream.queue)) \in 0..1
  BY <1>1, <1>2
<1>4. Carried(Tail(stream.queue)) \in Seq(Chunk)
  <2>1. Len(Tail(stream.queue)) \in 0..2
    BY <1>3
  <2>2. QED
    BY <1>1, <1>2, <2>1, CarriedType
<1>5. QED
  BY <1>1, <1>2, <1>3, <1>4

LEMMA ParseEndStep == IInv /\ ParseEnd => IInv'
<1> SUFFICES ASSUME IInv, ParseEnd PROVE IInv'
  OBVIOUS
<1>1. /\ pc = "parsing" /\ Head(stream.queue).kind = "end"
      /\ DeliverDone /\ UNCHANGED <<call, attempt, sent>>
  BY DEF ParseEnd
<1>2. /\ attempt \in Nat /\ stream.queue \in Seq(Line) /\ Len(stream.queue) \in 1..2
  BY <1>1 DEF IInv, TypeOK, Stream, Wired
<1>3. Carried(stream.queue) = <<>>
  BY <1>1, <1>2, CarriedFirst
<1>4. Rest = <<>>
  BY <1>1, <1>3 DEF Rest
<1>5. QED
  BY <1>1, <1>4, DoneStep

LEMMA ParseDataStep == IInv /\ ParseData => IInv'
<1> SUFFICES ASSUME IInv, ParseData PROVE IInv'
  OBVIOUS
<1> DEFINE cs == Chunks(Head(stream.queue))
           q == Tail(stream.queue)
           t == Tail(cs)
           s == [stream EXCEPT !.queue = q, !.pending = t]
<1>1. /\ pc = "parsing" /\ Head(stream.queue).kind \in {"delta", "pair"}
      /\ Deliver(Head(cs), s) /\ yielded_any' = TRUE /\ pc' = "yielded"
      /\ UNCHANGED <<call, attempt, last_error, result, hooks, puts, sent, delay>>
  BY DEF ParseData
<1>2. /\ TypeOK /\ stream \in Stream /\ delivered \in Seq(Chunk) /\ attempt \in Nat
      /\ stream.accumulated = delivered
      /\ Head(stream.queue) \in Line /\ q \in Seq(Line) /\ Len(q) \in 0..1 /\ OnlyDone
      /\ Carried(q) \in Seq(Chunk) /\ stream.wire = delivered \o (cs \o Carried(q))
  BY <1>1, Parsing
<1>3. cs \in Seq(Chunk) /\ cs # <<>>
  BY <1>1, <1>2, ChunksType
<1> HIDE DEF cs, q
<1>4. /\ Head(cs) \in Chunk /\ t \in Seq(Chunk)
      /\ delivered \o (cs \o Carried(q)) = Append(delivered, Head(cs)) \o (t \o Carried(q))
  <2>1. delivered \in Seq(Chunk) /\ Carried(q) \in Seq(Chunk)
    BY <1>2
  <2>2. QED
    BY <1>3, <2>1, HandOver
<1> HIDE DEF t
<1>5. /\ s \in Stream /\ s.accumulated = delivered /\ s.wire = stream.wire /\ s.queue = q
      /\ s.pending = t
  <2>1. stream \in Stream /\ q \in Seq(Line) /\ t \in Seq(Chunk) /\ stream.accumulated = delivered
    BY <1>2, <1>4
  <2>2. QED
    BY <2>1 DEF Stream
<1> HIDE DEF s
<1>6. /\ delivered' = Append(delivered, Head(cs)) /\ delivered' \in Seq(Chunk) /\ delivered' # <<>>
      /\ stream' \in Stream /\ stream'.accumulated = delivered'
      /\ stream'.wire = s.wire /\ stream'.queue = s.queue /\ stream'.pending = s.pending
      /\ UNCHANGED stale
  BY <1>1, <1>2, <1>4, <1>5, Fed
<1>7. TypeOK'
  BY <1>1, <1>2, <1>6 DEF TypeOK
<1>8. Wired'
  <2>1. Rest' = t \o Carried(q)
    BY <1>1, <1>5, <1>6, RestNext
  <2>2. stream'.wire = delivered' \o Rest'
    BY <1>2, <1>4, <1>5, <1>6, <2>1
  <2>3. QED
    BY <1>1, <1>2, <1>5, <1>6, <2>2 DEF Wired, OnlyDone
<1>9. Counted' /\ Running' /\ pc' # "done"
  BY <1>1, <1>6, StaysWithin DEF WithinAttempt
<1>10. QED
  BY <1>7, <1>8, <1>9, Underway DEF IInv

LEMMA ParseJunkStep == IInv /\ ParseJunk => IInv'
<1> SUFFICES ASSUME IInv, ParseJunk PROVE IInv'
  OBVIOUS
<1> DEFINE q == Tail(stream.queue)
<1>1. /\ pc = "parsing" /\ Head(stream.queue).kind = "junk"
      /\ stream' = [stream EXCEPT !.queue = q]
      /\ pc' = IF q = <<>> THEN "reading" ELSE "parsing"
      /\ UNCHANGED <<call, attempt, last_error, yielded_any, result, delivered, stale, hooks, puts, sent, delay>>
  BY DEF ParseJunk
<1>2. /\ TypeOK /\ stream \in Stream /\ attempt \in Nat
      /\ stream.accumulated = delivered /\ stream.pending = <<>>
      /\ q \in Seq(Line) /\ Len(q) \in 0..1 /\ Carried(q) \in Seq(Chunk) /\ OnlyDone
      /\ stream.wire = delivered \o (Chunks(Head(stream.queue)) \o Carried(q))
  <2>1. Head(stream.queue).kind # "end"
    BY <1>1
  <2>2. QED
    BY <1>1, <2>1, Parsing
<1> HIDE DEF q
<1>3. Chunks(Head(stream.queue)) = <<>>
  BY <1>1 DEF Chunks
<1>4. stream.wire = delivered \o Carried(q)
  BY <1>2, <1>3, ConcatEmptySeq
<1>5. /\ stream' \in Stream /\ stream'.queue = q /\ stream'.wire = stream.wire
      /\ stream'.accumulated = delivered /\ stream'.pending = <<>>
  BY <1>1, <1>2 DEF Stream
<1>6. TypeOK'
  BY <1>1, <1>2, <1>5 DEF TypeOK
<1>7. Wired'
  <2>1. Rest' = Carried(q)
    <3>1. q = <<>> => Carried(q) = <<>>
      BY DEF Carried
    <3>2. QED
      BY <1>1, <1>5, <3>1, RestNext
  <2>2. q # <<>> => Len(q) \in 1..2
    BY <1>2, EmptySeq
  <2>3. yielded_any <=> delivered # <<>>
    BY <1>1 DEF IInv, Wired
  <2>4. QED
    BY <1>1, <1>2, <1>4, <1>5, <2>1, <2>2, <2>3 DEF Wired, OnlyDone
<1>8. Counted' /\ Running' /\ pc' # "done"
  BY <1>1, StaysWithin DEF WithinAttempt
<1>9. QED
  BY <1>6, <1>7, <1>8, Underway DEF IInv

LEMMA ResumeStep == IInv /\ Resume => IInv'
<1> SUFFICES ASSUME IInv, Resume PROVE IInv'
  OBVIOUS
<1>1. /\ TypeOK /\ pc = "yielded" /\ stream \in Stream /\ stream.accumulated = delivered
      /\ delivered \in Seq(Chunk) /\ delivered # <<>> /\ yielded_any /\ attempt \in Nat /\ OnlyDone
      /\ stream.pending \in Seq(Chunk) /\ stream.queue \in Seq(Line) /\ Len(stream.queue) \in 0..1
      /\ stream.wire = delivered \o (stream.pending \o Carried(stream.queue))
      /\ UNCHANGED <<call, attempt, last_error, yielded_any, result, hooks, puts, sent, delay>>
  BY DEF Resume, IInv, TypeOK, Wired, Rest, Stream
<1>2. Carried(stream.queue) \in Seq(Chunk)
  <2>1. Len(stream.queue) \in 0..2
    BY <1>1
  <2>2. QED
    BY <1>1, <2>1, CarriedType
<1>3. CASE stream.pending # <<>>
  <2> DEFINE h == Head(stream.pending)
             t == Tail(stream.pending)
             s == [stream EXCEPT !.pending = t]
  <2>1. Deliver(h, s) /\ pc' = "yielded"
    BY <1>1, <1>3 DEF Resume
  <2>2. /\ h \in Chunk /\ t \in Seq(Chunk)
        /\ delivered \o (stream.pending \o Carried(stream.queue))
              = Append(delivered, h) \o (t \o Carried(stream.queue))
    <3> DEFINE p == stream.pending
               r == Carried(stream.queue)
    <3>1. p \in Seq(Chunk) /\ p # <<>> /\ delivered \in Seq(Chunk) /\ r \in Seq(Chunk)
      BY <1>1, <1>2, <1>3
    <3> HIDE DEF p, r
    <3>2. /\ Head(p) \in Chunk /\ Tail(p) \in Seq(Chunk)
          /\ delivered \o (p \o r) = Append(delivered, Head(p)) \o (Tail(p) \o r)
      BY <3>1, HandOver
    <3>3. QED
      BY <3>2 DEF p, r
  <2> HIDE DEF h, t
  <2>3. /\ s \in Stream /\ s.accumulated = delivered /\ s.wire = stream.wire
        /\ s.queue = stream.queue /\ s.pending = t
    <3>1. stream \in Stream /\ stream.accumulated = delivered
      BY <1>1
    <3>2. QED
      BY <2>2, <3>1 DEF Stream
  <2> HIDE DEF s
  <2>4. /\ delivered' = Append(delivered, h) /\ delivered' \in Seq(Chunk) /\ delivered' # <<>>
        /\ stream' \in Stream /\ stream'.accumulated = delivered'
        /\ stream'.wire = s.wire /\ stream'.queue = s.queue /\ stream'.pending = s.pending
        /\ UNCHANGED stale
    BY <1>1, <2>1, <2>2, <2>3, Fed
  <2>5. TypeOK'
    BY <1>1, <2>1, <2>4 DEF TypeOK
  <2>6. Wired'
    <3>1. Rest' = t \o Carried(stream.queue)
      BY <1>1, <2>1, <2>3, <2>4, RestNext
    <3>2. stream'.wire = delivered' \o Rest'
      BY <1>1, <2>2, <2>3, <2>4, <3>1
    <3>3. QED
      BY <1>1, <2>1, <2>3, <2>4, <3>2 DEF Wired, OnlyDone
  <2>7. Counted' /\ Running' /\ pc' # "done"
    BY <1>1, <2>1, <2>4, StaysWithin DEF WithinAttempt
  <2>8. QED
    BY <2>5, <2>6, <2>7, Underway DEF IInv
<1>4. CASE stream.pending = <<>>
  <2>1. /\ pc' = IF stream.queue = <<>> THEN "reading" ELSE "parsing"
        /\ UNCHANGED <<delivered, stale, stream>>
    BY <1>4 DEF Resume
  <2>2. TypeOK'
    BY <1>1, <2>1 DEF TypeOK
  <2>3. Wired'
    <3>1. stream.wire = delivered \o Carried(stream.queue)
      BY <1>1, <1>2, <1>4, ConcatEmptySeq
    <3>2. Rest' = Carried(stream.queue)
      <4>1. stream.queue = <<>> => Carried(stream.queue) = <<>>
        BY DEF Carried
      <4>2. QED
        BY <1>1, <2>1, <4>1, RestNext
    <3>3. stream.queue # <<>> => Len(stream.queue) \in 1..2
      BY <1>1, EmptySeq
    <3>4. QED
      BY <1>1, <1>4, <2>1, <3>1, <3>2, <3>3 DEF Wired, OnlyDone
  <2>4. Counted' /\ Running' /\ pc' # "done"
    BY <1>1, <2>1, StaysWithin DEF WithinAttempt
  <2>5. QED
    BY <2>2, <2>3, <2>4, Underway DEF IInv
<1>5. QED
  BY <1>3, <1>4
-----------------------------------------------------------------------------
(* The server's steps.                                                     *)
LEMMA RaisedType ==
    ASSUME NEW a \in Refusal \cup Broken
    PROVE  Raised(a) \in Error /\ Raised(a).kind # "interrupted"
<1>1. CASE a \in Refusal
  BY <1>1, StatusAssumption DEF Refusal, RaisedBy, Raised, Error, AuthStatus
<1>2. CASE a \in Broken
  BY <1>2 DEF Broken, RaisedBy, Raised, Error, AuthStatus
<1>3. QED
  BY <1>1, <1>2

LEMMA OpenFailsStep ==
    ASSUME IInv, NEW a \in Refusal \cup Broken, OpenFails(a)
    PROVE  IInv'
<1>1. Raised(a) \in Error /\ Raised(a).kind # "interrupted"
  BY RaisedType
<1>2. pc = "opening" /\ Fail(Raised(a)) /\ UNCHANGED stream
  BY DEF OpenFails
<1>3. QED
  BY <1>1, <1>2, FailStep

LEMMA BreakStep ==
    ASSUME IInv, NEW kind \in {"protocol", "httpx", "unhandled"}, Break(kind)
    PROVE  IInv'
<1>1. PICK k \in {"transport", "interrupted", "httpx", "unhandled"} :
          Fail(Local(k)) /\ (k = "interrupted" => stream.bytes)
  BY DEF Break
<1>2. Local(k) \in Error /\ Local(k).kind = k
  BY ErrorTypes
<1>3. pc = "reading" /\ UNCHANGED stream
  BY DEF Break
<1>4. QED
  BY <1>1, <1>2, <1>3, FailStep

LEMMA ParsePoisonStep == IInv /\ ParsePoison => IInv'
<1> SUFFICES ASSUME IInv, ParsePoison PROVE IInv'
  OBVIOUS
<1>1. pc = "parsing" /\ Fail(Local("unhandled")) /\ UNCHANGED stream
  BY DEF ParsePoison
<1>2. Local("unhandled") \in Error /\ Local("unhandled").kind = "unhandled"
  BY ErrorTypes
<1>3. QED
  BY <1>1, <1>2, FailStep

LEMMA OpenSucceedsStep == IInv /\ OpenSucceeds => IInv'
<1> SUFFICES ASSUME IInv, OpenSucceeds PROVE IInv'
  OBVIOUS
<1>1. /\ TypeOK /\ pc = "opening" /\ delivered = <<>> /\ pc' = "reading" /\ OnlyDone
      /\ stream' = NoStream /\ yielded_any' = FALSE
      /\ UNCHANGED <<call, attempt, last_error, result, delivered, stale, hooks, puts, sent, delay>>
  BY DEF OpenSucceeds, IInv, Wired
<1>2. NoStream \in Stream
  BY MaxLinesAssumption DEF NoStream, Stream
<1>3. TypeOK'
  BY <1>1, <1>2 DEF TypeOK
<1>4. Wired'
  <2>1. <<>> \in Seq(Chunk) /\ <<>> \o <<>> = <<>>
    BY EmptySeq, ConcatEmptySeq
  <2>2. Rest' = <<>>
    BY <1>1 DEF Rest
  <2>3. QED
    BY <1>1, <2>1, <2>2 DEF Wired, OnlyDone, NoStream
<1>5. Counted' /\ Running' /\ pc' # "done"
  BY <1>1, StaysWithin DEF WithinAttempt
<1>6. QED
  BY <1>3, <1>4, <1>5, Underway DEF IInv

LEMMA ArriveStep ==
    ASSUME IInv, NEW kinds \in Pieces, Arrive(kinds)
    PROVE  IInv'
<1>1. /\ TypeOK /\ pc = "reading" /\ stream \in Stream /\ delivered \in Seq(Chunk)
      /\ attempt \in Nat /\ stream.lines \in 0..MaxLines
      /\ stream.wire = delivered \o <<>> /\ stream.wire \in Seq(Chunk)
      /\ stream.accumulated = delivered /\ stream.pending = <<>>
      /\ (yielded_any <=> delivered # <<>>) /\ OnlyDone
  BY DEF Arrive, IInv, TypeOK, Stream, Wired, Rest
<1>2. CASE Expired
  <2>1. Fail(Local("transport")) /\ UNCHANGED stream
    BY <1>2 DEF Arrive
  <2>2. Local("transport") \in Error /\ Local("transport").kind = "transport"
    BY ErrorTypes
  <2>3. QED
    BY <1>1, <2>1, <2>2, FailStep
<1>3. CASE ~Expired
  <2> DEFINE q == Numbered(kinds)
             n == stream.lines + Len(kinds)
             w == stream.wire \o Carried(q)
  <2>1. /\ n <= MaxLines
        /\ stream' = [stream EXCEPT !.bytes = TRUE, !.lines = n, !.queue = q, !.wire = w]
        /\ pc' = IF kinds = <<>> THEN "reading" ELSE "parsing"
        /\ UNCHANGED <<call, attempt, last_error, yielded_any, result, delivered, stale, hooks, puts, sent, delay>>
    BY <1>3 DEF Arrive
  <2>2. /\ Len(kinds) \in 0..2 /\ (kinds = <<>> <=> Len(kinds) = 0)
        /\ q \in Seq(Line) /\ Len(q) = Len(kinds)
    BY <1>1, <2>1, NumberedType
  <2>3. n \in 0..MaxLines
    BY <1>1, <2>1, <2>2, MaxLinesAssumption
  <2>4. Carried(q) \in Seq(Chunk)
    BY <1>1, <2>2, CarriedType
  <2> HIDE DEF q, n
  <2>5. w \in Seq(Chunk) /\ w = delivered \o Carried(q)
    <3>1. stream.wire = delivered
      BY <1>1, ConcatEmptySeq
    <3>2. QED
      BY <1>1, <2>4, <3>1, ConcatProperties
  <2> HIDE DEF w
  <2>6. /\ stream' \in Stream /\ stream'.queue = q /\ stream'.wire = w
        /\ stream'.accumulated = delivered /\ stream'.pending = <<>>
    <3>1. stream \in Stream /\ stream.accumulated = delivered /\ stream.pending = <<>>
      BY <1>1
    <3>2. QED
      BY <2>1, <2>2, <2>3, <2>5, <3>1 DEF Stream
  <2>7. TypeOK'
    BY <1>1, <2>1, <2>6 DEF TypeOK
  <2>8. Wired'
    <3>1. Rest' = Carried(q)
      <4>1. kinds = <<>> => q = <<>>
        BY <2>2, EmptySeq
      <4>2. q = <<>> => Carried(q) = <<>>
        BY DEF Carried
      <4>3. QED
        BY <2>1, <2>6, <4>1, <4>2, RestNext
    <3>2. kinds # <<>> => Len(q) \in 1..2
      BY <2>2
    <3>3. QED
      BY <1>1, <2>1, <2>5, <2>6, <3>1, <3>2 DEF Wired, OnlyDone
  <2>9. Counted' /\ Running' /\ pc' # "done"
    BY <1>1, <2>1, StaysWithin DEF WithinAttempt
  <2>10. QED
    BY <2>7, <2>8, <2>9, Underway DEF IInv
<1>4. QED
  BY <1>2, <1>3

LEMMA TickStep == IInv /\ Tick => IInv'
<1> SUFFICES ASSUME IInv, Tick PROVE IInv'
  OBVIOUS
<1>1. /\ TypeOK /\ Wired /\ pc \in {"reading", "yielded"} /\ stream \in Stream
      /\ stream' = [stream EXCEPT !.late = TRUE]
      /\ UNCHANGED <<call, pc, attempt, last_error, yielded_any, result, delivered, stale, hooks, puts, sent, delay>>
  BY DEF Tick, IInv, TypeOK
<1>2. /\ stream' \in Stream /\ stream'.queue = stream.queue /\ stream'.wire = stream.wire
      /\ stream'.accumulated = stream.accumulated /\ stream'.pending = stream.pending
  BY <1>1 DEF Stream
<1>3. TypeOK'
  BY <1>1, <1>2 DEF TypeOK
<1>4. Wired'
  <2>1. Rest' = Rest
    BY <1>1, <1>2, RestNext DEF Rest
  <2>2. QED
    BY <1>1, <1>2, <2>1 DEF Wired, OnlyDone
<1>5. Counted' /\ Running' /\ pc' # "done"
  BY <1>1, StaysWithin DEF WithinAttempt
<1>6. QED
  BY <1>3, <1>4, <1>5, Underway DEF IInv
-----------------------------------------------------------------------------
(* The steps between attempts and the ways to end.                         *)
LEMMA BeginStep == IInv /\ Begin => IInv'
<1> SUFFICES ASSUME IInv, Begin PROVE IInv'
  OBVIOUS
<1>1. /\ TypeOK /\ Wired /\ pc = "start" /\ hooks = <<>> /\ sent = 0 /\ attempt = 0
      /\ last_error = NoError /\ result = Pending /\ puts = <<>> /\ Len(stale) = 0
      /\ hooks \in Seq(Hook) /\ hooks' = Append(hooks, "request")
      /\ UNCHANGED <<call, attempt, last_error, yielded_any, stream, delivered, stale, puts, sent, delay>>
  BY DEF Begin, IInv, Counted, Running, TypeOK, Hook
<1>2. /\ hooks' \in Seq(Hook) /\ hooks' # <<>> /\ Len(hooks') = 1 /\ hooks'[1] = "request"
  BY <1>1, EmptySeq, HookCalled DEF Hook
<1>3. Plain'
  BY <1>2 DEF Plain
<1>4. CASE pc' = "ready" /\ UNCHANGED result
  <2>1. TypeOK'
    BY <1>1, <1>2, <1>4 DEF TypeOK, Hook
  <2>2. Wired'
    BY <1>1, <1>4 DEF Wired, OnlyDone
  <2>3. Counted' /\ Running'
    BY <1>1, <1>2, <1>3, <1>4 DEF Counted, Running, WithinAttempt
  <2>4. QED
    BY <1>4, <2>1, <2>2, <2>3, Underway DEF IInv
<1>5. CASE Settle("hook", NoError)
  <2>1. pc' = "done" /\ result' \in Result /\ result'.kind = "hook"
    BY <1>5, ErrorTypes DEF Settle, Result
  <2>2. TypeOK'
    BY <1>1, <1>2, <2>1 DEF TypeOK, Hook
  <2>3. (Wired /\ Counted /\ Running /\ DeliveredInOrder)'
    BY <1>1, <2>1, SettledShape
  <2>4. CacheWhole' /\ OutcomeJustified'
    BY <1>1, <2>1 DEF CacheWhole, OutcomeJustified
  <2>5. HookOrder'
    <3>1. \A i \in 1..Len(hooks') : i = 1
      BY <1>2
    <3>2. QED
      BY <1>2, <2>1, <3>1 DEF HookOrder, WithinAttempt
  <2>6. QED
    BY <2>2, <2>3, <2>4, <2>5 DEF IInv
<1>6. QED
  BY <1>4, <1>5 DEF Begin

LEMMA OpenStep == IInv /\ Open => IInv'
<1> SUFFICES ASSUME IInv, Open PROVE IInv'
  OBVIOUS
<1>1. /\ TypeOK /\ Wired /\ Running /\ pc = "ready" /\ pc' = "opening"
      /\ attempt <= call.max_retries /\ sent' = sent + 1
      /\ sent = attempt /\ Len(hooks) = attempt + 1 + Len(stale) /\ Plain
      /\ attempt \in Nat /\ stale \in Seq(Chunk) /\ Len(stale) \in Nat
      /\ UNCHANGED <<call, attempt, last_error, yielded_any, stream, result, delivered, stale, hooks, puts, delay>>
  BY LenProperties DEF Open, IInv, Counted, TypeOK
<1>2. TypeOK'
  BY <1>1 DEF TypeOK
<1>3. Wired'
  <2>1. OnlyDone'
    <3>1. \A i \in 1..Len(stale) : stale[i] \in Chunk
      BY <1>1, ElementOfSeq
    <3>2. QED
      BY <1>1, <3>1 DEF Wired, OnlyDone, Chunk
  <2>2. QED
    BY <1>1, <2>1 DEF Wired
<1>4. Counted' /\ Running'
  BY <1>1 DEF Counted, Running, WithinAttempt, Plain
<1>5. QED
  BY <1>1, <1>2, <1>3, <1>4, Underway DEF IInv

LEMMA WakeStep == IInv /\ Wake => IInv'
<1> SUFFICES ASSUME IInv, Wake PROVE IInv'
  OBVIOUS
<1>1. /\ TypeOK /\ Wired /\ Running /\ pc = "backoff" /\ pc' = "ready" /\ attempt' = attempt + 1
      /\ sent = attempt + 1 /\ attempt < call.max_retries
      /\ Len(hooks) = sent + Len(stale) + 1 /\ Len(stale) \in Nat
      /\ Transient(last_error) /\ Plain /\ attempt \in Nat /\ call.max_retries \in Int
      /\ UNCHANGED <<call, last_error, yielded_any, stream, result, delivered, stale, hooks, puts, sent, delay>>
  BY RetriesAreInt, LenProperties DEF Wake, IInv, Counted, TypeOK
<1>2. TypeOK'
  BY <1>1 DEF TypeOK
<1>3. Wired'
  BY <1>1 DEF Wired, OnlyDone
<1>4. Counted' /\ Running'
  BY <1>1 DEF Counted, Running, WithinAttempt, Plain
<1>5. QED
  BY <1>1, <1>2, <1>3, <1>4, Underway DEF IInv

(* With Plain hooks the loop is left only when no attempt was allowed.     *)
LEMMA LoopLeft ==
    ASSUME IInv, LeaveLoop
    PROVE  /\ last_error = NoError /\ Settle("silent", NoError) /\ call.max_retries < 0 /\ sent = 0
           /\ Plain /\ UNCHANGED <<call, attempt, last_error, yielded_any, stream, delivered, stale, puts,
                                   sent, hooks, delay>>
<1>1. /\ attempt \in Nat /\ call.max_retries \in Int /\ attempt > call.max_retries
      /\ sent = attempt /\ Plain
      /\ IF attempt = 0 THEN last_error = NoError ELSE attempt <= call.max_retries
      /\ UNCHANGED <<call, attempt, last_error, yielded_any, stream, delivered, stale, puts, sent>>
  BY RetriesAreInt DEF LeaveLoop, IInv, Counted, TypeOK
<1>2. attempt = 0
  BY <1>1
<1>3. QED
  BY <1>1, <1>2 DEF LeaveLoop

(* A call that ends without a last hook.                                   *)
LEMMA QuietEnd ==
    ASSUME IInv, pc \notin {"start", "done"}, pc' = "done",
           NEW k \in {"abandoned", "cancelled", "silent"}, Settle(k, NoError),
           k = "silent" => call.max_retries < 0 /\ sent = 0,
           UNCHANGED <<call, attempt, last_error, yielded_any, stream, delivered, stale, hooks, puts, sent, delay>>
    PROVE  IInv'
<1>1. TypeOK /\ Plain /\ puts = <<>>
  BY DEF IInv, Counted, Running
<1>2. result' \in Result /\ result'.kind = k
  BY ErrorTypes DEF Settle, Result
<1>3. TypeOK'
  BY <1>1, <1>2 DEF TypeOK
<1>4. (Wired /\ Counted /\ Running /\ DeliveredInOrder)'
  BY <1>2, SettledShape
<1>5. CacheWhole' /\ OutcomeJustified'
  BY <1>1, <1>2 DEF CacheWhole, OutcomeJustified
<1>6. HookOrder'
  BY <1>1, <1>2, EndsQuietly
<1>7. QED
  BY <1>3, <1>4, <1>5, <1>6 DEF IInv

LEMMA LeaveLoopStep == IInv /\ LeaveLoop => IInv'
<1> SUFFICES ASSUME IInv, LeaveLoop PROVE IInv'
  OBVIOUS
<1>1. /\ Settle("silent", NoError) /\ call.max_retries < 0 /\ sent = 0
      /\ UNCHANGED <<call, attempt, last_error, yielded_any, stream, delivered, stale, puts, sent, hooks, delay>>
  BY LoopLeft
<1>2. pc = "ready" /\ pc' = "done"
  BY <1>1 DEF LeaveLoop, Settle
<1>3. QED
  BY <1>1, <1>2, QuietEnd

LEMMA CloseStep == IInv /\ Close => IInv'
<1> SUFFICES ASSUME IInv, Close PROVE IInv'
  OBVIOUS
<1>1. /\ pc \notin {"start", "done"} /\ pc' = "done" /\ Settle("abandoned", NoError)
      /\ UNCHANGED <<call, attempt, last_error, yielded_any, stream, delivered, stale, hooks, puts, sent, delay>>
  BY DEF Close, Settle
<1>2. QED
  BY <1>1, QuietEnd

LEMMA CancelStep == IInv /\ Cancel => IInv'
<1> SUFFICES ASSUME IInv, Cancel PROVE IInv'
  OBVIOUS
<1>1. /\ pc \notin {"start", "done"} /\ pc' = "done" /\ Settle("cancelled", NoError)
      /\ UNCHANGED <<call, attempt, last_error, yielded_any, stream, delivered, stale, hooks, puts, sent, delay>>
  BY DEF Cancel, Settle
<1>2. QED
  BY <1>1, QuietEnd

LEMMA FinishStep == IInv /\ Finish => IInv'
<1> SUFFICES ASSUME IInv, Finish PROVE IInv'
  OBVIOUS
<1>1. /\ TypeOK /\ Plain /\ puts = <<>> /\ delivered \in Seq(Chunk)
      /\ delivered = Append(stream.wire, Done) /\ stream.accumulated = delivered
      /\ hooks' = Append(hooks, "response") /\ Settle("completed", NoError)
      /\ puts' = IF call.caching THEN Append(puts, delivered) ELSE puts
      /\ UNCHANGED <<call, attempt, last_error, yielded_any, stream, delivered, stale, sent, delay>>
  BY DEF Finish, IInv, Counted, Running, Wired, TypeOK
<1>2. pc' = "done" /\ result' \in Result /\ result'.kind = "completed"
  BY <1>1, ErrorTypes DEF Settle, Result
<1>3. HookOrder' /\ hooks' \in Seq(Hook)
  BY <1>1, <1>2, EndsWithHook
<1>4. puts' \in Seq(Seq(Chunk)) /\ (puts' # <<>> => call.caching /\ puts' = <<delivered>>)
  BY <1>1, EmptySeq
<1>5. TypeOK'
  BY <1>1, <1>2, <1>3, <1>4 DEF TypeOK, Hook
<1>6. (Wired /\ Counted /\ Running /\ DeliveredInOrder)'
  BY <1>1, <1>2, SettledShape
<1>7. CacheWhole'
  BY <1>1, <1>2, <1>4 DEF CacheWhole, Done
<1>8. OutcomeJustified'
  BY <1>2 DEF OutcomeJustified
<1>9. QED
  BY <1>3, <1>5, <1>6, <1>7, <1>8 DEF IInv

LEMMA FinishFailsStep ==
    ASSUME IInv, NEW a \in Refusal \cup Broken, FinishFails(Raised(a))
    PROVE  IInv'
<1> DEFINE e == Raised(a)
<1>1. /\ TypeOK /\ Wired /\ Plain /\ puts = <<>> /\ result = Pending /\ hooks \in Seq(Hook)
      /\ pc = "yielded_done" /\ delivered = Append(stream.wire, Done)
      /\ yielded_any <=> stream.wire # <<>>
      /\ stream.wire \in Seq(Chunk) /\ stale \in Seq(Chunk) /\ OnlyDone
      /\ sent = attempt + 1 /\ attempt \in Nat /\ Len(hooks) = sent + Len(stale)
      /\ last_error \in Error
      /\ UNCHANGED <<call, attempt, yielded_any, stream, puts, sent>>
  BY DEF FinishFails, IInv, Counted, WithinAttempt, Running, TypeOK, Wired, Stream, Hook
<1>2. e \in Error
  BY RaisedType
<1>3. last_error' = (IF yielded_any THEN last_error ELSE e) /\ last_error' \in Error
  BY <1>1, <1>2 DEF FinishFails
<1> HIDE DEF e
<1>4. CASE pc' = "backoff"
  <2>1. /\ ~yielded_any /\ should_retry(call.max_retries, e, attempt)
        /\ hooks' = hooks \o <<"response", "retry">> /\ delay' \in Jitter(attempt)
        /\ stale' = stale \o delivered /\ delivered' = <<>> /\ UNCHANGED result
    BY <1>4 DEF FinishFails, Settle, e
  <2>2. Plain' /\ hooks' \in Seq(Hook) /\ Len(hooks') = Len(hooks) + 2
    BY <1>1, <2>1, PlainAgain, HooksCalled DEF Hook
  <2>3. delivered = <<Done>> /\ Done \in Chunk /\ Done.line = 0 /\ Done.attempt = attempt
    <3>1. Done \in Chunk /\ Done.line = 0 /\ Done.attempt = attempt
      BY <1>1, MaxLinesAssumption DEF Done, Chunk
    <3>2. delivered = Append(<<>>, Done)
      BY <1>1, <2>1
    <3>3. QED
      BY <3>1, <3>2
  <2>4. /\ stale' \in Seq(Chunk) /\ Len(stale) \in Nat /\ Len(stale') = Len(stale) + 1
        /\ stale'[Len(stale) + 1] = Done
        /\ \A i \in 1..Len(stale) : stale'[i] = stale[i]
    <3>1. stale' = Append(stale, Done)
      BY <1>1, <2>1, <2>3, AppendIsConcat
    <3>2. QED
      BY <1>1, <2>3, <3>1, AppendProperties, LenProperties
  <2>5. OnlyDone'
    <3>1. \A i \in 1..Len(stale') : i \in 1..Len(stale) \/ i = Len(stale) + 1
      BY <2>4
    <3>2. \A i \in 1..Len(stale) : stale'[i].line = 0 /\ stale'[i].attempt < sent
      BY <1>1, <2>4 DEF OnlyDone
    <3>3. stale'[Len(stale) + 1].line = 0 /\ stale'[Len(stale) + 1].attempt < sent
      BY <1>1, <2>3, <2>4
    <3>4. QED
      BY <1>1, <3>1, <3>2, <3>3 DEF OnlyDone
  <2>6. TypeOK'
    BY <1>1, <1>3, <1>4, <2>1, <2>2, <2>4, EmptySeq DEF TypeOK, Jitter, Hook
  <2>7. Wired'
    BY <1>1, <1>4, <2>1, <2>5 DEF Wired
  <2>8. Counted' /\ Running'
    <3>1. attempt < call.max_retries /\ Transient(last_error')
      BY <1>3, <2>1 DEF should_retry
    <3>2. Len(hooks') = sent + Len(stale') + 1
      BY <1>1, <2>2, <2>4
    <3>3. QED
      BY <1>1, <1>4, <2>1, <2>2, <3>1, <3>2 DEF Counted, Running, WithinAttempt
  <2>9. QED
    BY <1>4, <2>6, <2>7, <2>8, Underway DEF IInv
<1>5. CASE pc' # "backoff"
  <2>1. PICK h \in {"error", "retry"} : hooks' = hooks \o <<"response", h>>
    BY <1>5 DEF FinishFails
  <2>2. Settle("hook", NoError) /\ UNCHANGED <<delay, delivered, stale>>
    BY <1>5 DEF FinishFails
  <2>3. pc' = "done" /\ result' \in Result /\ result'.kind = "hook"
    BY <2>2, ErrorTypes DEF Settle, Result
  <2>4. Ordered' /\ hooks' \in Seq(Hook)
    BY <1>1, <2>1, <2>3, BothOrdered, HooksCalled DEF Hook
  <2>5. HookOrder'
    BY <2>3, <2>4 DEF Ordered, HookOrder, WithinAttempt
  <2>6. TypeOK'
    BY <1>1, <1>3, <2>2, <2>3, <2>4 DEF TypeOK, Hook
  <2>7. (Wired /\ Counted /\ Running /\ DeliveredInOrder)'
    BY <1>1, <2>2, <2>3, SettledShape
  <2>8. CacheWhole' /\ OutcomeJustified'
    BY <1>1, <2>3 DEF CacheWhole, OutcomeJustified
  <2>9. QED
    BY <2>5, <2>6, <2>7, <2>8 DEF IInv
<1>6. QED
  BY <1>4, <1>5

LEMMA StutterStep == IInv /\ UNCHANGED vars => IInv'
<1> SUFFICES ASSUME IInv, UNCHANGED vars PROVE IInv'
  OBVIOUS
<1>1. TypeOK'
  BY DEF IInv, TypeOK, vars
<1>2. Wired' /\ Counted' /\ Running'
  <2>1. Rest' = Rest
    BY RestNext DEF vars, Rest
  <2>2. QED
    BY <2>1 DEF IInv, vars, Wired, OnlyDone, Done, Counted, WithinAttempt, Plain, Running
<1>3. DeliveredInOrder' /\ CacheWhole' /\ OutcomeJustified'
  BY DEF IInv, vars, DeliveredInOrder, CacheWhole, OutcomeJustified, Done, Attempts
<1>4. HookOrder'
  BY DEF IInv, vars, HookOrder, WithinAttempt, LastHook
<1>5. QED
  BY <1>1, <1>2, <1>3, <1>4 DEF IInv

LEMMA StepInv == IInv /\ [Next]_vars => IInv'
<1> SUFFICES ASSUME IInv, [Next]_vars PROVE IInv'
  OBVIOUS
<1>1. CASE Server
  BY <1>1, OpenFailsStep, OpenSucceedsStep, ArriveStep, BreakStep, EofStep DEF Server
<1>2. CASE Own
  BY <1>2, BeginStep, OpenStep, LeaveLoopStep, WakeStep, ParseDataStep, ParseJunkStep,
     ParsePoisonStep, ParseEndStep DEF Own
<1>3. CASE Consumer
  BY <1>3, ResumeStep, FinishStep, FinishFailsStep DEF Consumer
<1>4. QED
  BY <1>1, <1>2, <1>3, TickStep, CloseStep, CancelStep, StutterStep DEF Next, Terminated
-----------------------------------------------------------------------------
(* The inductive invariant holds of every call.                            *)
THEOREM Invariance == Spec => []IInv
BY InitInv, StepInv, PTL DEF Spec

(* Every variable keeps its type, whatever the server sends.               *)
THEOREM TypeCorrect == Spec => []TypeOK
<1>1. IInv => TypeOK
  BY DEF IInv
<1>2. QED
  BY <1>1, Invariance, PTL

(* What the consumer has of the latest attempt is a prefix of what that    *)
(* attempt put on the wire, however the body was cut into pieces, and of   *)
(* attempts that were repeated it has done chunks only (base.py:881-899).  *)
THEOREM InOrder == Spec => []DeliveredInOrder
<1>1. IInv => DeliveredInOrder
  BY DEF IInv
<1>2. QED
  BY <1>1, Invariance, PTL

(* A cached answer is the whole answer the consumer saw (base.py:910-918). *)
THEOREM CachedWhole == Spec => []CacheWhole
<1>1. IInv => CacheWhole
  BY DEF IInv
<1>2. QED
  BY <1>1, Invariance, PTL

(* The hooks tell the story of the call in its order (base.py:849-950).    *)
THEOREM HooksOrdered == Spec => []HookOrder
<1>1. IInv => HookOrder
  BY DEF IInv
<1>2. QED
  BY <1>1, Invariance, PTL

(* What the caller is told is what happened (base.py:920-950).             *)
THEOREM OutcomesJustified == Spec => []OutcomeJustified
<1>1. IInv => OutcomeJustified
  BY DEF IInv
<1>2. QED
  BY <1>1, Invariance, PTL

(* Once the consumer holds output the call sends nothing more              *)
(* (base.py:923-924).                                                      *)
THEOREM OutputIsFinal == Spec => OutputEndsRetries
<1>1. IInv /\ [Next]_vars => [HoldsOutput => sent' = sent]_vars
  <2> SUFFICES ASSUME IInv, [Next]_vars, HoldsOutput PROVE sent' = sent
    OBVIOUS
  <2>1. ~Open
    <3>1. Len(<<>>) = 0 /\ \A i \in 1..Len(stale) : stale[i].line = 0
      BY EmptySeq DEF IInv, Wired, OnlyDone
    <3>2. \E i \in 1..Len(delivered) : delivered[i].line # 0
      BY <3>1 DEF HoldsOutput
    <3>3. delivered # <<>>
      BY <3>1, <3>2
    <3>4. QED
      BY <3>3 DEF IInv, Wired, Open
  <2>2. QED
    BY <2>1 DEF Next, Server, Own, Consumer, Tick, Close, Cancel, Terminated, vars,
                OpenFails, OpenSucceeds, Arrive, Break, Eof, Begin, LeaveLoop, Wake, ParseData,
                ParseJunk, ParsePoison, ParseEnd, Resume, Finish, FinishFails, Fail
<1>2. QED
  BY <1>1, Invariance, PTL DEF Spec, OutputEndsRetries

(* Past its wall-clock cap a stream takes no further line                  *)
(* (transport.py:485-489).                                                 *)
THEOREM LateIsCut == Spec => LateCut
<1>1. IInv /\ [Next]_vars => [stream.late /\ pc # "opening" => stream'.lines = stream.lines]_vars
  <2> SUFFICES ASSUME IInv, [Next]_vars, stream.late, pc # "opening"
               PROVE  stream'.lines = stream.lines
    OBVIOUS
  <2>1. stream \in Stream
    BY DEF IInv, TypeOK
  <2>2. CASE UNCHANGED stream
    BY <2>2
  <2>3. CASE OpenSucceeds
    BY <2>3 DEF OpenSucceeds
  <2>4. CASE Tick
    BY <2>1, <2>4 DEF Tick, Stream
  <2>5. ASSUME NEW kinds \in Pieces, Arrive(kinds) PROVE UNCHANGED stream
    BY <2>5 DEF Arrive, Expired
  <2>6. CASE ParseJunk
    BY <2>1, <2>6 DEF ParseJunk, Stream
  <2>7. CASE Eof \/ ParseEnd
    BY <2>1, <2>7 DEF Eof, ParseEnd, DeliverDone, Deliver, Stream
  <2>8. CASE ParseData
    <3> DEFINE cs == Chunks(Head(stream.queue))
    <3>1. Deliver(Head(cs), [stream EXCEPT !.queue = Tail(@), !.pending = Tail(cs)])
      BY <2>8 DEF ParseData
    <3> HIDE DEF cs
    <3>2. QED
      BY <2>1, <3>1 DEF Deliver, Stream
  <2>9. CASE Resume
    BY <2>1, <2>9 DEF Resume, Deliver, Stream
  <2>10. QED
    BY <2>2, <2>3, <2>4, <2>5, <2>6, <2>7, <2>8, <2>9
       DEF Next, Server, Own, Consumer, Close, Cancel, Terminated, vars,
           OpenFails, Break, Begin, Open, LeaveLoop, Wake, ParsePoison, Finish, FinishFails
<1>2. QED
  BY <1>1, Invariance, PTL DEF Spec, LateCut
-----------------------------------------------------------------------------
(* Refinement.  The verdict is read off the hooks: one hook more than      *)
(* requests means that the last attempt failed and may be repeated.        *)
LEMMA InitRefines == Init => Contract!Init
<1> SUFFICES ASSUME Init PROVE Contract!Init
  OBVIOUS
<1>1. call.max_retries \in Int
  BY RetryChoicesAssumption DEF Init, Call
<1>2. (IF call.max_retries >= 0 THEN Attempts ELSE 0) \in Nat
  BY <1>1 DEF Attempts
<1>3. Phase = "ready" /\ sent = 0 /\ Verdict = "none" /\ Outcome = "none"
  BY DEF Init, Phase, WithinAttempt, Verdict, Outcome, Pending
<1>4. QED
  BY <1>2, <1>3 DEF Contract!Init

(* Inside an attempt nothing is decided yet.                               *)
LEMMA InFlight ==
    ASSUME IInv, WithinAttempt
    PROVE  /\ Phase = "inflight" /\ Verdict = "none" /\ Outcome = "none" /\ result = Pending
           /\ sent > 0 /\ sent \in Nat /\ hooks \in Seq(Hook)
           /\ Len(hooks) = sent + Len(stale) /\ Len(stale) \in Nat
<1>1. /\ pc # "done" /\ result = Pending /\ Len(hooks) = sent + Len(stale) /\ sent = attempt + 1
      /\ sent \in Nat /\ attempt \in Nat /\ hooks \in Seq(Hook) /\ Len(stale) \in Nat
  BY LenProperties DEF IInv, Counted, Running, WithinAttempt, TypeOK, Hook
<1>2. QED
  BY <1>1 DEF Phase, Verdict, Outcome, Pending

LEMMA OpenRefines == IInv /\ Open => Contract!Send
<1> SUFFICES ASSUME IInv, Open PROVE Contract!Send
  OBVIOUS
<1>1. /\ pc = "ready" /\ pc' = "opening" /\ attempt <= call.max_retries /\ sent' = sent + 1
      /\ sent = attempt /\ Len(hooks) = attempt + 1 + Len(stale) /\ Len(stale) \in Nat
      /\ attempt \in Nat /\ call.max_retries \in Int
      /\ result = Pending
      /\ IF attempt = 0 THEN last_error = NoError ELSE Transient(last_error)
      /\ UNCHANGED <<call, last_error, result, hooks, stale>>
  BY RetriesAreInt, LenProperties DEF Open, IInv, Counted, Running, TypeOK
<1>2. Phase = "ready" /\ Phase' = "inflight"
  BY <1>1 DEF Phase, WithinAttempt
<1>3. Verdict \in {"none", "transient"}
  BY <1>1 DEF Verdict, Worth, Pending
<1>4. Verdict' = "none"
  BY <1>1 DEF Verdict, Pending
<1>5. Outcome' = Outcome
  BY <1>1 DEF Outcome
<1>6. sent < (IF call.max_retries >= 0 THEN Attempts ELSE 0) /\ UNCHANGED Attempts
  BY <1>1 DEF Attempts
<1>7. QED
  BY <1>1, <1>2, <1>3, <1>4, <1>5, <1>6 DEF Contract!Send

(* A failure of the exchange refuses it, for good or for another attempt.  *)
LEMMA FailRefines ==
    ASSUME IInv, WithinAttempt, NEW e, Fail(e)
    PROVE  Contract!Next
<1>1. /\ Phase = "inflight" /\ Outcome = "none" /\ result = Pending /\ sent > 0 /\ sent \in Nat
      /\ Len(hooks) = sent + Len(stale) /\ Len(stale) \in Nat /\ hooks \in Seq(Hook)
  BY InFlight
<1>2. UNCHANGED <<call, sent, stale>> /\ UNCHANGED Attempts
  BY DEF Fail, Attempts
<1>3. CASE pc' = "backoff"
  <2>1. /\ last_error' = e /\ Transient(e) /\ hooks' = Append(hooks, "retry") /\ UNCHANGED result
    BY <1>3 DEF Fail, Raise, Retry, Settle, should_retry
  <2>2. Len(hooks') = sent + Len(stale) + 1
    BY <1>1, <2>1, HookCalled DEF Hook
  <2>3. Verdict' = "transient"
    BY <1>1, <1>2, <2>1, <2>2 DEF Verdict, Worth, Pending
  <2>4. Phase' = "ready" /\ Outcome' = Outcome
    BY <1>3, <2>1 DEF Phase, WithinAttempt, Outcome
  <2>5. Contract!Refuse("transient")
    BY <1>1, <1>2, <2>3, <2>4 DEF Contract!Refuse
  <2>6. QED
    BY <2>5 DEF Contract!Next
<1>4. CASE pc' = "done"
  <2>1. result'.kind \in {"raised", "hook"}
    BY <1>4 DEF Fail, Raise, Retry, Settle
  <2>2. Verdict' \in {"transient", "fatal"}
    BY <1>1, <1>2, <2>1 DEF Verdict, Worth
  <2>3. Phase' = "settled" /\ Outcome' = "error"
    BY <1>4, <2>1 DEF Phase, Outcome
  <2>4. Contract!Refuse(Verdict')
    BY <1>1, <1>2, <2>3 DEF Contract!Refuse
  <2>5. QED
    BY <2>2, <2>4 DEF Contract!Next
<1>5. QED
  BY <1>3, <1>4 DEF Fail, Raise, Retry, Settle

(* The steps of an attempt, and those that change nothing the contract     *)
(* speaks of.                                                              *)
LEMMA QuietRefines ==
    ASSUME UNCHANGED <<call, sent, stale, result, hooks, last_error>>, Phase' = Phase
    PROVE  UNCHANGED Contract!vars
BY DEF Contract!vars, Attempts, Verdict, Worth, Outcome

LEMMA CloseRefines == IInv /\ (Close \/ Cancel) => Contract!Cancel
<1> SUFFICES ASSUME IInv, Close \/ Cancel PROVE Contract!Cancel
  OBVIOUS
<1>1. /\ pc # "done" /\ pc' = "done" /\ result = Pending
      /\ result'.kind \in {"abandoned", "cancelled"}
      /\ UNCHANGED <<call, sent, stale, hooks, last_error>>
  BY DEF Close, Cancel, Settle, IInv, Running
<1>2. Phase # "settled" /\ Phase' = "settled" /\ Outcome' = "cancelled"
  BY <1>1 DEF Phase, Outcome
<1>3. Verdict' = Verdict
  BY <1>1 DEF Verdict, Worth, Pending
<1>4. QED
  BY <1>1, <1>2, <1>3 DEF Contract!Cancel, Attempts

LEMMA BeginRefines == IInv /\ Begin => [Contract!Next]_Contract!vars
<1> SUFFICES ASSUME IInv, Begin PROVE [Contract!Next]_Contract!vars
  OBVIOUS
<1>1. pc = "start" /\ sent = 0 /\ result = Pending /\ UNCHANGED <<call, sent, last_error>>
  BY DEF Begin, IInv, Counted, Running
<1>2. Phase = "ready" /\ Verdict = "none" /\ Outcome = "none" /\ UNCHANGED Attempts
  BY <1>1 DEF Phase, WithinAttempt, Verdict, Pending, Outcome, Attempts
<1>3. CASE pc' = "ready" /\ UNCHANGED result
  <2>1. Phase' = "ready" /\ Verdict' = "none" /\ Outcome' = "none"
    BY <1>1, <1>3 DEF Phase, WithinAttempt, Verdict, Pending, Outcome
  <2>2. QED
    BY <1>1, <1>2, <2>1 DEF Contract!vars
<1>4. CASE Settle("hook", NoError)
  <2>1. Phase' = "settled" /\ Verdict' = "none" /\ Outcome' = "error"
    BY <1>1, <1>4 DEF Settle, Phase, Verdict, Outcome
  <2>2. Contract!GiveUp
    BY <1>1, <1>2, <2>1 DEF Contract!GiveUp
  <2>3. QED
    BY <2>2 DEF Contract!Next
<1>5. QED
  BY <1>3, <1>4 DEF Begin

LEMMA LeaveLoopRefines == IInv /\ LeaveLoop => Contract!GiveUp
<1> SUFFICES ASSUME IInv, LeaveLoop PROVE Contract!GiveUp
  OBVIOUS
<1>1. /\ pc = "ready" /\ sent = 0 /\ result = Pending /\ Settle("silent", NoError)
      /\ UNCHANGED <<call, sent>>
  BY LoopLeft DEF LeaveLoop, IInv, Running
<1>2. Phase = "ready" /\ Phase' = "settled" /\ Outcome' = "error"
  BY <1>1 DEF Phase, WithinAttempt, Settle, Outcome
<1>3. Verdict = "none" /\ Verdict' = "none"
  BY <1>1 DEF Verdict, Pending, Settle
<1>4. QED
  BY <1>1, <1>2, <1>3 DEF Contract!GiveUp, Attempts

LEMMA FinishRefines == IInv /\ Finish => Contract!Next
<1> SUFFICES ASSUME IInv, Finish PROVE Contract!Next
  OBVIOUS
<1>1. Phase = "inflight" /\ Outcome = "none"
  BY InFlight DEF Finish, WithinAttempt
<1>2. UNCHANGED <<call, sent>> /\ UNCHANGED Attempts
  BY DEF Finish, Attempts
<1>3. Phase' = "settled" /\ Verdict' = "good" /\ Outcome' = "value"
  BY DEF Finish, Settle, Phase, Verdict, Outcome
<1>4. Contract!Accept
  BY <1>1, <1>2, <1>3 DEF Contract!Accept
<1>5. QED
  BY <1>4 DEF Contract!Next

(* A failing on_response refuses the answer: for good, or for another      *)
(* attempt.                                                                *)
LEMMA FinishFailsRefines ==
    ASSUME IInv, NEW a \in Refusal \cup Broken, FinishFails(Raised(a))
    PROVE  Contract!Next
<1> DEFINE e == Raised(a)
<1>1. /\ Phase = "inflight" /\ Outcome = "none" /\ result = Pending /\ sent > 0 /\ sent \in Nat
      /\ Len(hooks) = sent + Len(stale) /\ Len(stale) \in Nat /\ hooks \in Seq(Hook)
  BY InFlight DEF FinishFails, WithinAttempt
<1>2. UNCHANGED <<call, sent>> /\ UNCHANGED Attempts
  BY DEF FinishFails, Attempts
<1>3. CASE pc' = "backoff"
  <2>1. /\ ~yielded_any /\ Transient(e) /\ last_error' = e /\ UNCHANGED result
        /\ hooks' = hooks \o <<"response", "retry">> /\ stale' = stale \o delivered
    BY <1>3 DEF FinishFails, Settle, should_retry
  <2> HIDE DEF e
  <2>2. Len(hooks') = Len(hooks) + 2
    BY <1>1, <2>1, HooksCalled DEF Hook
  <2>3. Len(stale') = Len(stale) + 1
    <3>1. /\ delivered = Append(stream.wire, Done) /\ stream.wire = <<>>
          /\ stale \in Seq(Chunk) /\ delivered \in Seq(Chunk)
      BY <2>1 DEF FinishFails, IInv, Wired, TypeOK
    <3>2. Len(delivered) = 1
      BY <3>1
    <3>3. QED
      BY <2>1, <3>1, <3>2, ConcatProperties
  <2>4. Verdict' = "transient"
    BY <1>1, <1>2, <2>1, <2>2, <2>3 DEF Verdict, Worth, Pending
  <2>5. Phase' = "ready" /\ Outcome' = Outcome
    BY <1>3, <2>1 DEF Phase, WithinAttempt, Outcome
  <2>6. Contract!Refuse("transient")
    BY <1>1, <1>2, <2>4, <2>5 DEF Contract!Refuse
  <2>7. QED
    BY <2>6 DEF Contract!Next
<1>4. CASE pc' # "backoff"
  <2>1. Settle("hook", NoError)
    BY <1>4 DEF FinishFails
  <2>2. Phase' = "settled" /\ Verdict' = "fatal" /\ Outcome' = "error"
    BY <1>1, <1>2, <2>1 DEF Settle, Phase, Verdict, Outcome
  <2>3. Contract!Refuse("fatal")
    BY <1>1, <1>2, <2>2 DEF Contract!Refuse
  <2>4. QED
    BY <2>3 DEF Contract!Next
<1>5. QED
  BY <1>3, <1>4

LEMMA WithinRefines ==
    ASSUME \/ OpenSucceeds \/ Eof \/ ParseData \/ ParseJunk \/ ParseEnd \/ Resume \/ Tick
           \/ Wake \/ Terminated \/ UNCHANGED vars
    PROVE  UNCHANGED Contract!vars
<1>1. UNCHANGED <<call, sent, stale, result, hooks, last_error>>
  BY DEF OpenSucceeds, Eof, ParseData, ParseJunk, ParseEnd, Resume, Tick, Wake, Terminated, vars,
         DeliverDone, Deliver
<1>2. Phase' = Phase
  BY DEF OpenSucceeds, Eof, ParseData, ParseJunk, ParseEnd, Resume, Tick, Wake, Terminated, vars,
         DeliverDone, Phase, WithinAttempt
<1>3. QED
  BY <1>1, <1>2, QuietRefines

LEMMA ArriveRefines ==
    ASSUME IInv, NEW kinds \in Pieces, Arrive(kinds)
    PROVE  [Contract!Next]_Contract!vars
<1>1. CASE Expired
  BY <1>1, FailRefines DEF Arrive, WithinAttempt
<1>2. CASE ~Expired
  <2>1. UNCHANGED <<call, sent, stale, result, hooks, last_error>> /\ Phase' = Phase
    BY <1>2 DEF Arrive, Phase, WithinAttempt
  <2>2. QED
    BY <2>1, QuietRefines
<1>3. QED
  BY <1>1, <1>2

(* request_stream_async implements the contract of a bounded call: the     *)
(* whole of an attempt is one exchange, repeated only after a transient    *)
(* failure and never once its answer was accepted.                         *)
THEOREM Refinement == Spec => ImplementsContract
<1>1. IInv /\ [Next]_vars => [Contract!Next]_Contract!vars
  <2> SUFFICES ASSUME IInv, [Next]_vars PROVE [Contract!Next]_Contract!vars
    OBVIOUS
  <2>1. ASSUME NEW a \in Refusal \cup Broken, OpenFails(a) PROVE Contract!Next
    BY <2>1, FailRefines DEF OpenFails, WithinAttempt
  <2>2. ASSUME NEW kind, Break(kind) PROVE Contract!Next
    BY <2>2, FailRefines DEF Break, WithinAttempt
  <2>3. CASE ParsePoison
    BY <2>3, FailRefines DEF ParsePoison, WithinAttempt
  <2>4. CASE Server
    BY <2>1, <2>2, <2>4, ArriveRefines, WithinRefines DEF Server
  <2>5. CASE Own
    BY <2>3, <2>5, BeginRefines, OpenRefines, LeaveLoopRefines, WithinRefines DEF Own, Contract!Next
  <2>6. CASE Consumer
    BY <2>6, FinishRefines, FinishFailsRefines, WithinRefines DEF Consumer
  <2>7. CASE Tick \/ Close \/ Cancel \/ Terminated \/ UNCHANGED vars
    BY <2>7, CloseRefines, WithinRefines DEF Contract!Next
  <2>8. QED
    BY <2>4, <2>5, <2>6, <2>7 DEF Next
<1>2. QED
  BY <1>1, InitRefines, Invariance, PTL DEF Spec, ImplementsContract, Contract!Spec
-----------------------------------------------------------------------------
(***************************************************************************)
(* Termination.  Variant counts the steps still to come: as many for each  *)
(* attempt left as its stream can take (PerAttempt), and within an attempt *)
(* fewer the more of the stream has arrived, been parsed and handed over.  *)
(***************************************************************************)
Left == IF attempt <= call.max_retries THEN call.max_retries - attempt + 1 ELSE 0
PerAttempt == 4 * MaxLines + 8

ToArrive ==
    (IF stream.late THEN 0 ELSE 1) + (IF stream.bytes THEN 0 ELSE 1) + 4 * (MaxLines - stream.lines)

InBuffer == Len(stream.queue)
AtHand == Len(stream.pending)

ThisAttempt ==
    CASE pc = "opening"      -> 4 * MaxLines + 8
      [] pc = "reading"      -> ToArrive + 5
      [] pc = "parsing"      -> ToArrive + 3 * InBuffer + 5
      [] pc = "yielded"      -> ToArrive + 3 * InBuffer + AtHand + 6
      [] pc = "yielded_done" -> 3
      [] pc = "backoff"      -> 2
      [] OTHER               -> 0

Variant ==
    CASE pc = "start" -> Left * PerAttempt + 2
      [] pc = "ready" -> Left * PerAttempt + 1
      [] pc = "done"  -> 0
      [] OTHER        -> (Left - 1) * PerAttempt + ThisAttempt

(* The generator asks for bytes only when the buffer holds no line.        *)
Drained == pc = "reading" => stream.queue = <<>>

LEMMA Product ==
    ASSUME NEW a \in Nat, NEW w \in Nat
    PROVE  a * w \in Nat /\ (a + 1) * w = a * w + w
OBVIOUS

LEMMA DrainedInv == Spec => []Drained
<1>1. Init => Drained
  BY DEF Init, Drained
<1>2. IInv /\ Drained /\ [Next]_vars => Drained'
  <2> SUFFICES ASSUME IInv, Drained, [Next]_vars, pc' = "reading" PROVE stream'.queue = <<>>
    BY DEF Drained
  <2>1. stream \in Stream
    BY DEF IInv, TypeOK
  <2>2. CASE OpenSucceeds
    BY <2>2 DEF OpenSucceeds, NoStream
  <2>3. ASSUME NEW kinds \in Pieces, Arrive(kinds) PROVE stream'.queue = <<>>
    <3>1. CASE Expired
      BY <2>3, <3>1 DEF Arrive, Fail, Raise, Retry, Settle
    <3>2. CASE ~Expired
      <4>1. kinds = <<>> /\ stream'.queue = Numbered(kinds)
        BY <2>1, <2>3, <3>2 DEF Arrive, Stream
      <4>2. QED
        BY <4>1 DEF Numbered
    <3>3. QED
      BY <3>1, <3>2
  <2>4. CASE ParseJunk
    BY <2>1, <2>4 DEF ParseJunk, Stream
  <2>5. CASE Resume
    BY <2>5 DEF Resume
  <2>6. CASE Tick
    BY <2>1, <2>6 DEF Tick, Drained, Stream
  <2>7. CASE UNCHANGED vars
    BY <2>7 DEF vars, Drained
  <2>8. ASSUME NEW a \in Refusal \cup Broken, OpenFails(a) PROVE FALSE
    BY <2>8 DEF OpenFails, Fail, Raise, Retry, Settle
  <2>9. ASSUME NEW kind, Break(kind) PROVE FALSE
    BY <2>9 DEF Break, Fail, Raise, Retry, Settle
  <2>10. CASE Eof \/ ParseEnd
    BY <2>10 DEF Eof, ParseEnd, DeliverDone
  <2>11. CASE Begin \/ Open \/ LeaveLoop \/ Wake \/ ParseData
    BY <2>11 DEF Begin, Open, LeaveLoop, Wake, ParseData, Raise, Settle
  <2>12. CASE ParsePoison
    BY <2>12 DEF ParsePoison, Fail, Raise, Retry, Settle
  <2>13. CASE Finish \/ Close \/ Cancel \/ Terminated
    BY <2>13 DEF Finish, Close, Cancel, Terminated, Settle, vars
  <2>14. ASSUME NEW a \in Refusal \cup Broken, FinishFails(Raised(a)) PROVE FALSE
    BY <2>14 DEF FinishFails, Settle
  <2>15. QED
    BY <2>2, <2>3, <2>4, <2>5, <2>6, <2>7, <2>8, <2>9, <2>10, <2>11, <2>12, <2>13, <2>14
       DEF Next, Server, Own, Consumer
<1>3. QED
  BY <1>1, <1>2, Invariance, PTL DEF Spec

(* What the variant is made of.                                            *)
LEMMA Measured ==
    ASSUME IInv
    PROVE  /\ call.max_retries \in Int /\ attempt \in Nat /\ Left \in Nat /\ PerAttempt \in Nat
           /\ stream \in Stream /\ stream.lines \in 0..MaxLines
           /\ stream.late \in BOOLEAN /\ stream.bytes \in BOOLEAN
           /\ stream.queue \in Seq(Line) /\ InBuffer \in Nat
           /\ stream.pending \in Seq(Chunk) /\ AtHand \in Nat
           /\ ToArrive \in Nat /\ ThisAttempt \in Nat
           /\ WithinAttempt \/ pc = "backoff" => Left - 1 \in Nat /\ (Left - 1) * PerAttempt \in Nat
<1>1. /\ call.max_retries \in Int /\ attempt \in Nat /\ stream \in Stream
  BY RetriesAreInt DEF IInv, TypeOK
<1>2. /\ stream.lines \in 0..MaxLines /\ stream.late \in BOOLEAN /\ stream.bytes \in BOOLEAN
      /\ stream.queue \in Seq(Line) /\ InBuffer \in Nat
      /\ stream.pending \in Seq(Chunk) /\ AtHand \in Nat
  BY <1>1, LenProperties DEF Stream, InBuffer, AtHand
<1>3. ToArrive \in Nat
  BY <1>2, MaxLinesAssumption DEF ToArrive
<1>4. ThisAttempt \in Nat
  <2>1. InBuffer \in Nat /\ AtHand \in Nat
    BY <1>2
  <2>2. QED
    BY <1>3, <2>1, MaxLinesAssumption DEF ThisAttempt
<1>5. Left \in Nat /\ PerAttempt \in Nat
  BY <1>1, MaxLinesAssumption DEF Left, PerAttempt
<1>6. WithinAttempt \/ pc = "backoff" => Left - 1 \in Nat
  BY <1>1 DEF IInv, Counted, Left
<1>7. QED
  BY <1>1, <1>2, <1>3, <1>4, <1>5, <1>6, Product

LEMMA VariantIsNat == IInv => Variant \in Nat
<1> SUFFICES ASSUME IInv PROVE Variant \in Nat
  OBVIOUS
<1>1. Left * PerAttempt \in Nat
  BY Measured, Product
<1>2. CASE pc \in {"start", "ready", "done"}
  BY <1>1, <1>2 DEF Variant
<1>3. CASE pc \notin {"start", "ready", "done"}
  <2>1. WithinAttempt \/ pc = "backoff"
    BY <1>3 DEF IInv, TypeOK, WithinAttempt
  <2>2. Variant = (Left - 1) * PerAttempt + ThisAttempt
    BY <1>3 DEF Variant
  <2>3. (Left - 1) * PerAttempt \in Nat /\ ThisAttempt \in Nat
    BY <2>1, Measured
  <2>4. QED
    BY <2>2, <2>3
<1>4. QED
  BY <1>2, <1>3

(* A step within an attempt counts what is left of it.                     *)
LEMMA WithinFalls ==
    ASSUME IInv, WithinAttempt, UNCHANGED <<call, attempt>>,
           ThisAttempt' \in Nat, ThisAttempt' < ThisAttempt,
           pc' \notin {"start", "ready"}
    PROVE  Variant' < Variant
<1> DEFINE b == (Left - 1) * PerAttempt
<1>1. b \in Nat /\ ThisAttempt \in Nat
  BY Measured
<1>2. b' = b
  BY DEF Left, PerAttempt
<1>3. Variant = b + ThisAttempt
  BY DEF Variant, WithinAttempt
<1>4. Variant' = b' + ThisAttempt' \/ Variant' = 0
  BY DEF Variant
<1> HIDE DEF b
<1>5. QED
  BY <1>1, <1>2, <1>3, <1>4

(* A failure ends the attempt.                                             *)
LEMMA FailFalls ==
    ASSUME IInv, pc \in {"opening", "reading", "parsing"}, NEW e, Fail(e)
    PROVE  Variant' < Variant
<1>1. pc' \in {"backoff", "done"} /\ UNCHANGED <<call, attempt>>
  BY DEF Fail, Raise, Retry, Settle
<1>2. ThisAttempt' \in {0, 2}
  BY <1>1 DEF ThisAttempt
<1>3. ThisAttempt >= 3
  BY Measured, MaxLinesAssumption DEF ThisAttempt
<1>4. WithinAttempt
  BY DEF WithinAttempt
<1>5. QED
  BY <1>1, <1>2, <1>3, <1>4, Measured, WithinFalls

(* The end of a call is below everything else.                             *)
LEMMA EndFalls ==
    ASSUME IInv, pc # "done", pc' = "done"
    PROVE  Variant' < Variant
<1>1. Variant' = 0
  BY DEF Variant
<1>2. Left * PerAttempt \in Nat
  BY Measured, Product
<1>3. CASE pc \in {"start", "ready"}
  BY <1>1, <1>2, <1>3 DEF Variant
<1>4. CASE pc \notin {"start", "ready"}
  <2>1. WithinAttempt \/ pc = "backoff"
    BY <1>4 DEF IInv, TypeOK, WithinAttempt
  <2>2. Variant = (Left - 1) * PerAttempt + ThisAttempt
    BY <1>4 DEF Variant
  <2>3. ThisAttempt >= 1
    <3>1. InBuffer \in Nat /\ AtHand \in Nat /\ ToArrive \in Nat
      BY Measured
    <3>2. QED
      BY <2>1, <3>1, MaxLinesAssumption DEF ThisAttempt, WithinAttempt
  <2>4. (Left - 1) * PerAttempt \in Nat /\ ThisAttempt \in Nat
    BY <2>1, Measured
  <2>5. QED
    BY <1>1, <2>2, <2>3, <2>4
<1>5. QED
  BY <1>3, <1>4

(* A piece of the body: lines to parse, or the first bytes, or nothing.    *)
LEMMA ArriveFalls ==
    ASSUME IInv, Drained, NEW kinds \in Pieces, Arrive(kinds), ~UNCHANGED vars
    PROVE  Variant' < Variant
<1>1. CASE Expired
  BY <1>1, FailFalls DEF Arrive
<1>2. CASE ~Expired
  <2> DEFINE q == Numbered(kinds)
             n == stream.lines + Len(kinds)
             w == stream.wire \o Carried(q)
  <2>1. /\ pc = "reading" /\ n <= MaxLines
        /\ stream' = [stream EXCEPT !.bytes = TRUE, !.lines = n, !.queue = q, !.wire = w]
        /\ pc' = IF kinds = <<>> THEN "reading" ELSE "parsing"
        /\ UNCHANGED <<call, attempt, last_error, yielded_any, result, delivered, stale, hooks, puts, sent, delay>>
    BY <1>2 DEF Arrive
  <2>2. stream \in Stream /\ stream.queue = <<>> /\ stream.wire \in Seq(Chunk) /\ attempt \in Nat
    BY <2>1, Measured DEF Drained, Stream
  <2>3. /\ Len(kinds) \in 0..2 /\ (kinds = <<>> <=> Len(kinds) = 0)
        /\ q \in Seq(Line) /\ Len(q) = Len(kinds)
    BY <2>1, Measured, NumberedType
  <2>4. /\ stream'.bytes = TRUE /\ stream'.lines = n /\ stream'.queue = q /\ stream'.late = stream.late
    BY <2>1, <2>2 DEF Stream
  <2>5. n \in 0..MaxLines /\ n = stream.lines + Len(kinds) /\ stream.lines \in Nat
    BY <2>1, <2>3, Measured, MaxLinesAssumption
  <2>6. PICK k \in 0..2 : k = Len(kinds)
    BY <2>3
  <2> HIDE DEF n
  <2>7. /\ ToArrive' = ToArrive - 4 * k - (IF stream.bytes THEN 0 ELSE 1)
        /\ ToArrive \in Nat /\ ToArrive' \in Nat
    <3>1. /\ n = stream.lines + k /\ n \in 0..MaxLines /\ stream.lines \in 0..MaxLines
          /\ stream.bytes \in BOOLEAN /\ stream.late \in BOOLEAN
      BY <2>5, <2>6, Measured
    <3>2. QED
      BY <2>4, <3>1, MaxLinesAssumption DEF ToArrive
  <2>8. CASE kinds # <<>>
    <3>1. InBuffer' = k
      BY <2>3, <2>4, <2>6 DEF InBuffer
    <3>2. ThisAttempt' = ToArrive' + 3 * k + 5 /\ ThisAttempt = ToArrive + 5
      BY <2>1, <2>8, <3>1 DEF ThisAttempt
    <3>3. k \in 1..2
      BY <2>3, <2>6, <2>8
    <3>4. ThisAttempt' \in Nat /\ ThisAttempt' < ThisAttempt
      BY <2>7, <3>2, <3>3
    <3>5. QED
      BY <2>1, <2>8, <3>4, WithinFalls DEF WithinAttempt
  <2>9. CASE kinds = <<>> /\ ~stream.bytes
    <3>1. ThisAttempt' = ToArrive' + 5 /\ ThisAttempt = ToArrive + 5
      BY <2>1, <2>9 DEF ThisAttempt
    <3>2. ThisAttempt' \in Nat /\ ThisAttempt' < ThisAttempt
      BY <2>7, <2>9, <3>1
    <3>3. QED
      BY <2>1, <2>9, <3>2, WithinFalls DEF WithinAttempt
  <2>10. CASE kinds = <<>> /\ stream.bytes
    <3>1. q = <<>> /\ n = stream.lines /\ w = stream.wire
      <4>1. q = <<>>
        BY <2>3, <2>10, EmptySeq
      <4>2. Carried(q) = <<>>
        BY <4>1 DEF Carried
      <4>3. QED
        BY <2>2, <2>3, <2>5, <2>10, <4>1, <4>2, ConcatEmptySeq
    <3> HIDE DEF q, w
    <3>2. stream' = [stream EXCEPT !.bytes = stream.bytes, !.lines = stream.lines,
                                   !.queue = stream.queue, !.wire = stream.wire]
      BY <2>1, <2>2, <2>10, <3>1, Measured
    <3>3. stream' = stream
      BY <2>2, <3>2 DEF Stream
    <3>4. UNCHANGED vars
      BY <2>1, <2>10, <3>3 DEF vars
    <3>5. QED
      BY <3>4
  <2>11. QED
    BY <2>8, <2>9, <2>10
<1>3. QED
  BY <1>1, <1>2

(* A line of the buffer becomes a chunk handed over, and perhaps one more. *)
LEMMA ParseDataFalls == IInv /\ ParseData => Variant' < Variant
<1> SUFFICES ASSUME IInv, ParseData PROVE Variant' < Variant
  OBVIOUS
<1> DEFINE cs == Chunks(Head(stream.queue))
           q == Tail(stream.queue)
           t == Tail(cs)
<1>1. /\ pc = "parsing" /\ pc' = "yielded" /\ UNCHANGED <<call, attempt>>
      /\ Head(stream.queue).kind \in {"delta", "pair"}
      /\ Deliver(Head(cs), [stream EXCEPT !.queue = q, !.pending = t])
  BY DEF ParseData
<1>2. /\ stream \in Stream /\ stream.queue \in Seq(Line) /\ Len(stream.queue) \in 1..2
      /\ ToArrive \in Nat /\ InBuffer \in Nat /\ attempt \in Nat
  BY <1>1, Measured DEF IInv, Wired
<1>3. q \in Seq(Line) /\ Len(q) = InBuffer - 1
  BY <1>2, CarriedFirst DEF InBuffer
<1>4. Len(t) \in 0..1
  <2>1. \A a, b : Len(Tail(<<a>>)) = 0 /\ Len(Tail(<<a, b>>)) = 1
    OBVIOUS
  <2>2. \/ \E a : cs = <<a>>
        \/ \E a, b : cs = <<a, b>>
    BY <1>1 DEF Chunks
  <2>3. QED
    BY <2>1, <2>2
<1> HIDE DEF q, t
<1>5. /\ stream'.queue = q /\ stream'.pending = t
      /\ stream'.late = stream.late /\ stream'.bytes = stream.bytes /\ stream'.lines = stream.lines
  BY <1>1, <1>2 DEF Deliver, Stream
<1>6. ToArrive' = ToArrive
  BY <1>5 DEF ToArrive
<1>7. InBuffer' = InBuffer - 1 /\ AtHand' \in 0..1 /\ InBuffer >= 1
  BY <1>2, <1>3, <1>4, <1>5 DEF InBuffer, AtHand
<1>8. ThisAttempt' \in Nat /\ ThisAttempt' < ThisAttempt
  <2>1. ToArrive \in Nat /\ InBuffer \in Nat
    BY <1>2
  <2>2. /\ ThisAttempt = ToArrive + 3 * InBuffer + 5
        /\ ThisAttempt' = ToArrive' + 3 * InBuffer' + AtHand' + 6
    BY <1>1 DEF ThisAttempt
  <2>3. ThisAttempt' = ToArrive + 3 * (InBuffer - 1) + AtHand' + 6
    BY <1>6, <1>7, <2>2
  <2>4. AtHand' = 0 \/ AtHand' = 1
    BY <1>7
  <2>5. ThisAttempt' = ToArrive + 3 * InBuffer + 3 \/ ThisAttempt' = ToArrive + 3 * InBuffer + 4
    BY <2>1, <2>3, <2>4
  <2>6. QED
    BY <2>1, <2>2, <2>5
<1>9. QED
  BY <1>1, <1>8, WithinFalls DEF WithinAttempt

LEMMA ParseJunkFalls == IInv /\ ParseJunk => Variant' < Variant
<1> SUFFICES ASSUME IInv, ParseJunk PROVE Variant' < Variant
  OBVIOUS
<1> DEFINE q == Tail(stream.queue)
<1>1. /\ pc = "parsing" /\ stream' = [stream EXCEPT !.queue = q] /\ UNCHANGED <<call, attempt>>
      /\ pc' = IF q = <<>> THEN "reading" ELSE "parsing"
  BY DEF ParseJunk
<1>2. /\ stream \in Stream /\ stream.queue \in Seq(Line) /\ Len(stream.queue) \in 1..2
      /\ ToArrive \in Nat /\ InBuffer \in Nat /\ attempt \in Nat
  BY <1>1, Measured DEF IInv, Wired
<1>3. q \in Seq(Line) /\ Len(q) = InBuffer - 1
  BY <1>2, CarriedFirst DEF InBuffer
<1> HIDE DEF q
<1>4. /\ stream'.queue = q
      /\ stream'.late = stream.late /\ stream'.bytes = stream.bytes /\ stream'.lines = stream.lines
  BY <1>1, <1>2 DEF Stream
<1>5. ToArrive' = ToArrive
  BY <1>4 DEF ToArrive
<1>6. InBuffer' = InBuffer - 1 /\ InBuffer >= 1
  BY <1>2, <1>3, <1>4 DEF InBuffer
<1>7. /\ ThisAttempt = ToArrive + 3 * InBuffer + 5
      /\ ThisAttempt' = ToArrive' + 5 \/ ThisAttempt' = ToArrive' + 3 * InBuffer' + 5
  BY <1>1 DEF ThisAttempt
<1>8. ThisAttempt' \in Nat /\ ThisAttempt' < ThisAttempt
  <2>1. ToArrive \in Nat /\ InBuffer \in Nat
    BY <1>2
  <2>2. QED
    BY <1>5, <1>6, <1>7, <2>1
<1>9. QED
  BY <1>1, <1>8, WithinFalls DEF WithinAttempt

LEMMA ResumeFalls == IInv /\ Resume => Variant' < Variant
<1> SUFFICES ASSUME IInv, Resume PROVE Variant' < Variant
  OBVIOUS
<1>1. /\ pc = "yielded" /\ UNCHANGED <<call, attempt>>
      /\ stream \in Stream /\ stream.pending \in Seq(Chunk)
  BY Measured DEF Resume
<1>2. /\ ThisAttempt = ToArrive + 3 * InBuffer + AtHand + 6
      /\ ToArrive \in Nat /\ InBuffer \in Nat /\ AtHand \in Nat
  BY <1>1, Measured DEF ThisAttempt
<1>3. CASE stream.pending # <<>>
  <2> DEFINE t == Tail(stream.pending)
  <2>1. pc' = "yielded" /\ Deliver(Head(stream.pending), [stream EXCEPT !.pending = t])
    BY <1>1, <1>3 DEF Resume
  <2>2. Len(t) \in Nat /\ Len(t) = AtHand - 1
    BY <1>1, <1>3, HeadTailProperties, LenProperties DEF AtHand
  <2> HIDE DEF t
  <2>3. /\ stream'.queue = stream.queue /\ stream'.pending = t
        /\ stream'.late = stream.late /\ stream'.bytes = stream.bytes /\ stream'.lines = stream.lines
    BY <1>1, <2>1 DEF Deliver, Stream
  <2>4. ToArrive' = ToArrive
    BY <2>3 DEF ToArrive
  <2>5. InBuffer' = InBuffer /\ AtHand' = AtHand - 1 /\ AtHand' \in Nat
    BY <2>2, <2>3 DEF InBuffer, AtHand
  <2>6. ThisAttempt' \in Nat /\ ThisAttempt' < ThisAttempt
    <3>1. ThisAttempt' = ToArrive' + 3 * InBuffer' + AtHand' + 6
      BY <2>1 DEF ThisAttempt
    <3>2. QED
      BY <1>2, <2>4, <2>5, <3>1
  <2>7. QED
    BY <1>1, <2>1, <2>6, WithinFalls DEF WithinAttempt
<1>4. CASE stream.pending = <<>>
  <2>1. stream' = stream /\ pc' = IF stream.queue = <<>> THEN "reading" ELSE "parsing"
    BY <1>4 DEF Resume
  <2>2. ToArrive' = ToArrive /\ InBuffer' = InBuffer
    BY <2>1 DEF ToArrive, InBuffer
  <2>3. ThisAttempt' = ToArrive' + 5 \/ ThisAttempt' = ToArrive' + 3 * InBuffer' + 5
    BY <2>1 DEF ThisAttempt
  <2>4. ThisAttempt' \in Nat /\ ThisAttempt' < ThisAttempt
    BY <1>2, <2>2, <2>3
  <2>5. QED
    BY <1>1, <2>1, <2>4, WithinFalls DEF WithinAttempt
<1>5. QED
  BY <1>3, <1>4

LEMMA TickFalls == IInv /\ Tick => Variant' < Variant
<1> SUFFICES ASSUME IInv, Tick PROVE Variant' < Variant
  OBVIOUS
<1>1. /\ pc \in {"reading", "yielded"} /\ pc' = pc /\ UNCHANGED <<call, attempt>> /\ ~stream.late
      /\ stream' = [stream EXCEPT !.late = TRUE]
      /\ stream \in Stream
  BY Measured DEF Tick
<1>2. /\ stream'.queue = stream.queue /\ stream'.pending = stream.pending
      /\ stream'.late = TRUE /\ stream'.bytes = stream.bytes /\ stream'.lines = stream.lines
  BY <1>1 DEF Stream
<1>3. ToArrive \in Nat /\ ToArrive' \in Nat /\ ToArrive' = ToArrive - 1
  <2>1. stream.lines \in 0..MaxLines /\ stream.late = FALSE /\ stream.bytes \in BOOLEAN
    BY <1>1, Measured
  <2>2. QED
    BY <1>2, <2>1, MaxLinesAssumption DEF ToArrive
<1>4. ThisAttempt' \in Nat /\ ThisAttempt' < ThisAttempt
  <2>1. InBuffer' = InBuffer /\ AtHand' = AtHand
    BY <1>2 DEF InBuffer, AtHand
  <2>2. InBuffer \in Nat /\ AtHand \in Nat
    BY Measured
  <2>3. QED
    BY <1>1, <1>3, <2>1, <2>2 DEF ThisAttempt
<1>5. QED
  BY <1>1, <1>4, WithinFalls DEF WithinAttempt

(* The steps of the attempt loop.                                          *)
LEMMA LoopFalls == IInv /\ (Begin \/ Open \/ Wake) => Variant' < Variant
<1> SUFFICES ASSUME IInv, Begin \/ Open \/ Wake PROVE Variant' < Variant
  OBVIOUS
<1>1. Left \in Nat /\ PerAttempt \in Nat /\ call.max_retries \in Int /\ attempt \in Nat
  BY Measured
<1>2. Left * PerAttempt \in Nat /\ PerAttempt' = PerAttempt
  BY <1>1, Product DEF PerAttempt
<1>3. CASE Begin /\ pc' # "done"
  <2>1. pc = "start" /\ pc' = "ready" /\ Left' = Left
    BY <1>3 DEF Begin, Settle, Left
  <2>2. Variant = Left * PerAttempt + 2 /\ Variant' = Left' * PerAttempt' + 1
    BY <2>1 DEF Variant
  <2>3. QED
    BY <1>2, <2>1, <2>2
<1>4. CASE Begin /\ pc' = "done"
  BY <1>4, EndFalls DEF Begin
<1>5. CASE Open
  <2>1. pc = "ready" /\ pc' = "opening" /\ attempt <= call.max_retries /\ Left' = Left
    BY <1>5 DEF Open, Left
  <2>2. Left - 1 \in Nat
    BY <1>1, <2>1 DEF Left
  <2>3. (Left - 1) * PerAttempt \in Nat /\ Left * PerAttempt = (Left - 1) * PerAttempt + PerAttempt
    <3>1. ((Left - 1) + 1) * PerAttempt = (Left - 1) * PerAttempt + PerAttempt
          /\ (Left - 1) * PerAttempt \in Nat
      BY <1>1, <2>2, Product
    <3>2. (Left - 1) + 1 = Left
      BY <1>1
    <3>3. QED
      BY <3>1, <3>2
  <2>4. Variant = Left * PerAttempt + 1 /\ Variant' = (Left' - 1) * PerAttempt' + PerAttempt
    BY <2>1 DEF Variant, ThisAttempt, PerAttempt
  <2>5. Variant' = (Left - 1) * PerAttempt + PerAttempt
    BY <1>2, <2>1, <2>4
  <2>6. QED
    BY <1>1, <2>3, <2>4, <2>5
<1>6. CASE Wake
  <2>1. pc = "backoff" /\ pc' = "ready" /\ attempt' = attempt + 1 /\ call' = call
    BY <1>6 DEF Wake
  <2>2. attempt < call.max_retries
    BY <2>1 DEF IInv, Counted
  <2>3. Left' = Left - 1
    BY <1>1, <2>1, <2>2 DEF Left
  <2>4. Variant = (Left - 1) * PerAttempt + 2 /\ Variant' = Left' * PerAttempt' + 1
    BY <2>1 DEF Variant, ThisAttempt
  <2>5. (Left - 1) * PerAttempt \in Nat
    BY <2>1, Measured
  <2>6. Variant' = (Left - 1) * PerAttempt + 1
    BY <1>2, <2>3, <2>4
  <2>7. QED
    BY <2>4, <2>5, <2>6
<1>7. QED
  BY <1>3, <1>4, <1>5, <1>6

LEMMA OpenSucceedsFalls == IInv /\ OpenSucceeds => Variant' < Variant
<1> SUFFICES ASSUME IInv, OpenSucceeds PROVE Variant' < Variant
  OBVIOUS
<1>1. pc = "opening" /\ pc' = "reading" /\ stream' = NoStream /\ UNCHANGED <<call, attempt>>
  BY DEF OpenSucceeds
<1>2. ToArrive' = 4 * MaxLines + 2
  BY <1>1, MaxLinesAssumption DEF ToArrive, NoStream
<1>3. ThisAttempt' = ToArrive' + 5 /\ ThisAttempt = 4 * MaxLines + 8
  BY <1>1 DEF ThisAttempt
<1>4. ThisAttempt' \in Nat /\ ThisAttempt' < ThisAttempt
  BY <1>2, <1>3, MaxLinesAssumption
<1>5. QED
  BY <1>1, <1>4, WithinFalls DEF WithinAttempt

LEMMA DoneFalls == IInv /\ (Eof \/ ParseEnd) => Variant' < Variant
<1> SUFFICES ASSUME IInv, Eof \/ ParseEnd PROVE Variant' < Variant
  OBVIOUS
<1>1. pc \in {"reading", "parsing"} /\ pc' = "yielded_done" /\ UNCHANGED <<call, attempt>>
  BY DEF Eof, ParseEnd, DeliverDone
<1>2. ThisAttempt' = 3 /\ ThisAttempt >= 5
  BY <1>1, Measured DEF ThisAttempt
<1>3. QED
  BY <1>1, <1>2, Measured, WithinFalls DEF WithinAttempt

LEMMA FinishFailsFalls ==
    ASSUME IInv, NEW a \in Refusal \cup Broken, FinishFails(Raised(a))
    PROVE  Variant' < Variant
<1>1. pc = "yielded_done" /\ pc' \in {"backoff", "done"} /\ UNCHANGED <<call, attempt>>
  BY DEF FinishFails, Settle
<1>2. ThisAttempt = 3 /\ ThisAttempt' \in {0, 2}
  BY <1>1 DEF ThisAttempt
<1>3. QED
  BY <1>1, <1>2, WithinFalls DEF WithinAttempt

LEMMA VariantFalls == IInv /\ Drained /\ Next /\ ~UNCHANGED vars => Variant' < Variant
<1> SUFFICES ASSUME IInv, Drained, Next, ~UNCHANGED vars PROVE Variant' < Variant
  OBVIOUS
<1>1. ASSUME NEW a \in Refusal \cup Broken, OpenFails(a) PROVE Variant' < Variant
  BY <1>1, FailFalls DEF OpenFails
<1>2. ASSUME NEW kind, Break(kind) PROVE Variant' < Variant
  BY <1>2, FailFalls DEF Break
<1>3. CASE ParsePoison
  BY <1>3, FailFalls DEF ParsePoison
<1>4. CASE Server
  BY <1>1, <1>2, <1>4, ArriveFalls, OpenSucceedsFalls, DoneFalls DEF Server
<1>5. CASE LeaveLoop
  <2>1. pc = "ready" /\ pc' = "done"
    BY <1>5 DEF LeaveLoop, Raise, Settle
  <2>2. QED
    BY <2>1, EndFalls
<1>6. CASE Finish \/ Close \/ Cancel
  <2>1. pc # "done" /\ pc' = "done"
    BY <1>6 DEF Finish, Close, Cancel, Settle
  <2>2. QED
    BY <2>1, EndFalls
<1>7. CASE Own
  BY <1>3, <1>5, <1>7, LoopFalls, ParseDataFalls, ParseJunkFalls, DoneFalls DEF Own
<1>8. QED
  BY <1>4, <1>6, <1>7, FinishFailsFalls, ResumeFalls, TickFalls DEF Next, Consumer, Terminated

(* The generator cannot run for ever on a stream of finitely many lines:   *)
(* every step that does anything leaves fewer to come, at most             *)
(* 4 * MaxLines + 8 for each attempt and two more, whatever the server     *)
(* sends, breaks or leaves out and wherever the consumer stops.            *)
THEOREM StepsRunOut == Spec => [](Variant \in Nat) /\ [][Variant' < Variant]_vars
<1>1. IInv /\ Drained /\ [Next]_vars => [Variant' < Variant]_vars
  BY VariantFalls
<1>2. QED
  BY <1>1, VariantIsNat, Invariance, DrainedInv, PTL DEF Spec
=============================================================================

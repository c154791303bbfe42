------------------------- MODULE StreamAssemblyProofs -------------------------
(***************************************************************************)
(* Theorems about StreamAssembly.  IInv relates, part by part, what the    *)
(* server has said to what the accumulator holds: the text in order, the   *)
(* calls entry by entry, the counts, the ending.  An event is read in two  *)
(* halves, the chunks it is parsed into and what feeding them does; each   *)
(* action then has a lemma of its own.  The folds of the model are opened  *)
(* at one or two elements, except At's, which is opened by induction: a    *)
(* least counterexample exists because < is well founded on Nat.           *)
(***************************************************************************)
EXTENDS StreamAssembly, SequenceTheorems, FiniteSetTheorems, WellFoundedInduction, TLAPS

(***************************************************************************)
(* The types.                                                              *)
(***************************************************************************)
Marks == {"word", "thought", "<think>", "</think>"}
PieceType == [mark : Marks, n : Nat]
FragmentType == [of : 1..3, part : {"head", "tail"}]
CallIds == {"", "c1", "c2", "c3"}
Stops == {"", "stop", "length", "tool_calls", "completed", "end_turn", "max_tokens", "tool_use", "STOP", "MAX_TOKENS"}
Losses == {"text beside a call", "think tag", "name repeated", "counts beside content", "thinking",
           "calls interleaved", "two calls at once", "read too early"}
CallType == [id : CallIds, name : Seq({"name"}), arguments_json : Seq(FragmentType)]
UsageType == [input : Int, output : Int, total : Int]
MessageType == [text : Seq(PieceType), thought : Seq(PieceType), calls : Seq(CallType),
                id : {"", "r"}, stop : Stops, usage : UsageType]
AccType == [text : Seq(PieceType), thinking : Seq(PieceType), tool_calls : Seq(CallType),
            by_index : Seq(CallType), current : CallType, usage : UsageType,
            stop_reason : Stops, response_id : {"", "r"}]

TypeOK ==
    /\ api \in Apis
    /\ phase \in {"body", "stopped", "done"}
    /\ block \in {"none", "text", "thinking", "tool_use"}
    /\ message \in MessageType
    /\ acc \in AccType
    /\ events \in Nat
    /\ outputs \in Nat
    /\ losses \subseteq Losses
-----------------------------------------------------------------------------
(***************************************************************************)
(* Text.  What the accumulator holds is told in order, piece by piece.     *)
(***************************************************************************)
Told(part, whole, n) ==
    /\ \A i \in DOMAIN part : part[i].n < n /\ part[i] \in Range_(whole)
    /\ \A i, j \in DOMAIN part : i < j => part[i].n <= part[j].n /\ part[i] # part[j]

TextKept(a, ac, msg, lost) ==
    lost \cap {"text beside a call", "think tag"} = {} /\ ~(a = "google" /\ "thinking" \in lost)
        => ac.text = msg.text
ThinkingKept(ac, msg, lost) == "thinking" \notin lost => ac.thinking = msg.thought
NoTags(ac, msg, lost) ==
    /\ msg.thought = <<>> /\ ac.thinking = <<>>
    /\ "think tag" \notin lost => \A i \in DOMAIN msg.text : msg.text[i].mark = "word"

TextPart(a, ac, msg, lost, n) ==
    /\ Told(ac.text, msg.thought \o msg.text, n)
    /\ Told(ac.thinking, msg.thought, n)
    /\ TextKept(a, ac, msg, lost)
    /\ ThinkingKept(ac, msg, lost)
    /\ a = "chat" => NoTags(ac, msg, lost)
TextInv == TextPart(api, acc, message, losses, events)
-----------------------------------------------------------------------------
(***************************************************************************)
(* Tool calls.  Arguments are told head first; every fragment that the     *)
(* accumulator holds was said, and it holds it once.                       *)
(***************************************************************************)
Args(slot) == {<<>>, <<Fragment(slot, "head")>>, <<Fragment(slot, "head"), Fragment(slot, "tail")>>}
Shape(calls) ==
    /\ calls \in Seq(CallType)
    /\ Len(calls) <= 3
    /\ \A s \in DOMAIN calls : /\ calls[s].id = Ids[s]
                               /\ calls[s].name = <<"name">>
                               /\ calls[s].arguments_json \in Args(s)

Once(calls) ==
    \A i, j \in DOMAIN calls :
        \A a \in DOMAIN calls[i].arguments_json, b \in DOMAIN calls[j].arguments_json :
            calls[i].arguments_json[a] = calls[j].arguments_json[b] => i = j /\ a = b
Fragments(calls) ==
    UNION {Range_(calls[i].arguments_json) : i \in DOMAIN calls}

Held(a, ac) == IF a = "chat" THEN ac.by_index ELSE Append(ac.tool_calls, ac.current)
Opened(ac) == IF ac.current = NoCall THEN ac.tool_calls ELSE Append(ac.tool_calls, ac.current)

Mixed == {"calls interleaved", "two calls at once", "name repeated", "read too early"}
SameCalls(a, ac, calls, lost, ph) ==
    IF a = "chat"
    THEN /\ ac.tool_calls = <<>> /\ ac.current = NoCall
         /\ Len(ac.by_index) = Len(calls)
         /\ \A i \in DOMAIN calls : /\ ac.by_index[i].id = calls[i].id
                                    /\ ac.by_index[i].arguments_json = calls[i].arguments_json
                                    /\ lost \cap Mixed = {} => ac.by_index[i].name = calls[i].name
    ELSE /\ ac.by_index = <<>>
         /\ lost \cap Mixed = {} =>
               /\ Opened(ac) = calls
               /\ ac.current = NoCall /\ ph # "done" => \A s \in DOMAIN calls : Len(calls[s].arguments_json) = 2

CallPart(a, ac, calls, lost, ph) ==
    /\ Shape(calls)
    /\ Once(Held(a, ac))
    /\ Fragments(Held(a, ac)) \subseteq Fragments(calls)
    /\ SameCalls(a, ac, calls, lost, ph)
CallInv == CallPart(api, acc, message.calls, losses, phase)
-----------------------------------------------------------------------------
(***************************************************************************)
(* Counts and endings.                                                     *)
(***************************************************************************)
Apart(lost) == "counts beside content" \notin lost
CountsAnthropic(ac, msg, n, out, blk) ==
    IF n = 0 THEN msg.usage = NoUsage /\ ac.usage = NoUsage /\ out = 0 /\ blk = "none"
    ELSE /\ msg.usage = UsageInfo(3, out, 3 + out)
         /\ ac.usage = UsageInfo(3, out, IF out = 0 THEN 0 ELSE 4)
CountsOther(ac, msg, lost, out) ==
    /\ msg.usage = IF out = 0 THEN NoUsage ELSE UsageInfo(3, out, 3 + out)
    /\ ac.usage # NoUsage => \E o \in 1..out : ac.usage = UsageInfo(3, o, 3 + o)
    /\ Apart(lost) => ac.usage = msg.usage
CountsInv ==
    IF api = "anthropic" THEN CountsAnthropic(acc, message, events, outputs, block)
    ELSE CountsOther(acc, message, losses, outputs)
EndingPart(a, ac, msg) ==
    /\ ac.response_id = IF a = "responses" THEN "" ELSE msg.id
    /\ ac.stop_reason = IF a = "responses" THEN "" ELSE msg.stop
    /\ a = "google" => msg.id = ""
EndingInv == EndingPart(api, acc, message)

IInv == TypeOK /\ TextInv /\ CallInv /\ CountsInv /\ EndingInv
-----------------------------------------------------------------------------
(***************************************************************************)
(* Folds over one or two elements.                                         *)
(***************************************************************************)
LEMMA MaxOne == ASSUME NEW n \in Int PROVE Max({n}) = n
BY DEF Max

LEMMA MaxTwo == Max({1, 2}) = 2
<1>1. 2 \in {1, 2} /\ \A y \in {1, 2} : 2 >= y
  OBVIOUS
<1>2. \A x \in {1, 2} : (\A y \in {1, 2} : x >= y) => x = 2
  OBVIOUS
<1>3. QED
  BY <1>1, <1>2 DEF Max

LEMMA UpToTwo == ASSUME NEW s \in SUBSET {1, 2} PROVE s \in {{}, {1}, {2}, {1, 2}}
OBVIOUS

(* feed over the chunks of one event.                                      *)
LEMMA FeedOne == ASSUME NEW a, NEW c PROVE FoldLeft(feed, a, <<c>>) = feed(a, c)
<1> DEFINE G(it) == [s \in SUBSET DOMAIN <<c>> |-> IF s = {} THEN a ELSE feed(it[s \ {Max(s)}], <<c>>[Max(s)])]
           I == CHOOSE it : it = G(it)
<1>1. FoldLeft(feed, a, <<c>>) = I[DOMAIN <<c>>]
  BY DEF FoldLeft, MapThenFoldSet
<1>2. DOMAIN <<c>> = {1}
  OBVIOUS
<1>3. \E it : it = G(it)
  <2> DEFINE g == [s \in SUBSET {1} |-> IF s = {} THEN a ELSE feed(a, c)]
  <2>1. \A s \in SUBSET {1} : s = {} \/ s = {1}
    OBVIOUS
  <2>2. g = G(g)
    BY <1>2, <2>1, MaxOne
  <2>3. QED
    BY <2>2
<1>4. I = G(I)
  BY <1>3
<1>5. I[{1}] = feed(a, c)
  <2> HIDE DEF I
  <2>1. I[{1}] = feed(I[{}], c)
    <3>1. I[{1}] = feed(I[{1} \ {Max({1})}], <<c>>[Max({1})])
      BY <1>2, <1>4
    <3>2. Max({1}) = 1 /\ {1} \ {1} = {} /\ <<c>>[1] = c
      BY MaxOne
    <3>3. QED
      BY <3>1, <3>2
  <2>2. I[{}] = a
    BY <1>2, <1>4
  <2>3. QED
    BY <2>1, <2>2
<1>6. QED
  <2> HIDE DEF I
  <2>1. QED
    BY <1>1, <1>2, <1>5

IsPair(s, c, d) == s = <<c, d>>

FedTwice(r, a, c, d) == r = feed(feed(a, c), d)

LEMMA FeedTwo ==
    ASSUME NEW a, NEW c, NEW d, NEW w, IsPair(w, c, d), NEW r, r = FoldLeft(feed, a, w)
    PROVE  FedTwice(r, a, c, d)
<1> DEFINE G(it) == [s \in SUBSET DOMAIN <<c, d>> |-> IF s = {} THEN a ELSE feed(it[s \ {Max(s)}], <<c, d>>[Max(s)])]
           I == CHOOSE it : it = G(it)
<1>1. FoldLeft(feed, a, <<c, d>>) = I[DOMAIN <<c, d>>]
  BY DEF FoldLeft, MapThenFoldSet
<1>2. DOMAIN <<c, d>> = {1, 2}
  OBVIOUS
<1>3. /\ Max({1}) = 1 /\ Max({2}) = 2 /\ Max({1, 2}) = 2
      /\ {1} \ {1} = {} /\ {2} \ {2} = {} /\ {1, 2} \ {2} = {1}
      /\ {1} # {} /\ {2} # {} /\ {1, 2} # {}
      /\ {1} # {2} /\ {1} # {1, 2} /\ {2} # {1, 2}
  BY MaxOne, MaxTwo
<1>4. \E it : it = G(it)
  <2> DEFINE h(s) == IF s = {} THEN a ELSE IF s = {1} THEN feed(a, c) ELSE IF s = {2} THEN feed(a, d) ELSE feed(feed(a, c), d)
             g == [s \in SUBSET {1, 2} |-> h(s)]
  <2>1. \A s \in SUBSET {1, 2} : h(s) = IF s = {} THEN a ELSE feed(g[s \ {Max(s)}], <<c, d>>[Max(s)])
    <3>1. SUFFICES ASSUME NEW s \in SUBSET {1, 2}
                   PROVE  h(s) = IF s = {} THEN a ELSE feed(g[s \ {Max(s)}], <<c, d>>[Max(s)])
      OBVIOUS
    <3>2. g[{}] = a /\ g[{1}] = feed(a, c)
      BY <1>3
    <3>3. CASE s = {1}
      BY <1>3, <3>2, <3>3
    <3>4. CASE s = {2}
      BY <1>3, <3>2, <3>4
    <3>5. CASE s = {1, 2}
      BY <1>3, <3>2, <3>5
    <3>6. QED
      BY <3>3, <3>4, <3>5, UpToTwo
  <2>2. g = G(g)
    <3> HIDE DEF h
    <3>1. QED
      BY <1>2, <2>1
  <2>3. QED
    BY <2>2
<1>5. I = G(I)
  BY <1>4
<1>6. I[{1, 2}] = feed(feed(a, c), d)
  <2> HIDE DEF I
  <2>1. I[{1, 2}] = feed(I[{1}], d)
    BY <1>2, <1>3, <1>5
  <2>2. I[{1}] = feed(I[{}], c)
    <3>1. I[{1}] = feed(I[{1} \ {Max({1})}], <<c, d>>[Max({1})])
      BY <1>2, <1>5
    <3>2. Max({1}) = 1 /\ {1} \ {1} = {} /\ <<c, d>>[1] = c
      BY <1>3
    <3>3. QED
      BY <3>1, <3>2
  <2>3. I[{}] = a
    BY <1>2, <1>5
  <2>4. QED
    BY <2>1, <2>2, <2>3
<1>7. FoldLeft(feed, a, <<c, d>>) = feed(feed(a, c), d)
  <2> HIDE DEF I
  <2>1. QED
    BY <1>1, <1>2, <1>6
<1>8. QED
  <2> HIDE DEF I
  <2>1. QED
    BY <1>7 DEF IsPair, FedTwice

(* Extended over the entries of one event.                                 *)
LEMMA ExtendNone == ASSUME NEW a PROVE FoldLeft(Extended, a, <<>>) = a
<1> DEFINE G(it) == [s \in SUBSET DOMAIN <<>> |-> IF s = {} THEN a ELSE Extended(it[s \ {Max(s)}], <<>>[Max(s)])]
           I == CHOOSE it : it = G(it)
<1>1. FoldLeft(Extended, a, <<>>) = I[DOMAIN <<>>]
  BY DEF FoldLeft, MapThenFoldSet
<1>2. DOMAIN <<>> = {}
  OBVIOUS
<1>3. \E it : it = G(it)
  <2> DEFINE g == [s \in SUBSET {} |-> a]
  <2>1. g = G(g)
    BY <1>2
  <2>2. QED
    BY <2>1
<1>4. I = G(I)
  BY <1>3
<1>5. I[{}] = a
  <2> HIDE DEF I
  <2>1. QED
    BY <1>2, <1>4
<1>6. QED
  <2> HIDE DEF I
  <2>1. QED
    BY <1>1, <1>2, <1>5

LEMMA ExtendOne == ASSUME NEW a, NEW c PROVE FoldLeft(Extended, a, <<c>>) = Extended(a, c)
<1> DEFINE G(it) == [s \in SUBSET DOMAIN <<c>> |-> IF s = {} THEN a ELSE Extended(it[s \ {Max(s)}], <<c>>[Max(s)])]
           I == CHOOSE it : it = G(it)
<1>1. FoldLeft(Extended, a, <<c>>) = I[DOMAIN <<c>>]
  BY DEF FoldLeft, MapThenFoldSet
<1>2. DOMAIN <<c>> = {1}
  OBVIOUS
<1>3. \E it : it = G(it)
  <2> DEFINE g == [s \in SUBSET {1} |-> IF s = {} THEN a ELSE Extended(a, c)]
  <2>1. \A s \in SUBSET {1} : s = {} \/ s = {1}
    OBVIOUS
  <2>2. g = G(g)
    BY <1>2, <2>1, MaxOne
  <2>3. QED
    BY <2>2
<1>4. I = G(I)
  BY <1>3
<1>5. I[{1}] = Extended(a, c)
  <2> HIDE DEF I
  <2>1. I[{1}] = Extended(I[{}], c)
    <3>1. I[{1}] = Extended(I[{1} \ {Max({1})}], <<c>>[Max({1})])
      BY <1>2, <1>4
    <3>2. Max({1}) = 1 /\ {1} \ {1} = {} /\ <<c>>[1] = c
      BY MaxOne
    <3>3. QED
      BY <3>1, <3>2
  <2>2. I[{}] = a
    BY <1>2, <1>4
  <2>3. QED
    BY <2>1, <2>2
<1>6. QED
  <2> HIDE DEF I
  <2>1. QED
    BY <1>1, <1>2, <1>5

ExtendedTwice(r, a, c, d) == r = Extended(Extended(a, c), d)

LEMMA ExtendTwo ==
    ASSUME NEW a, NEW c, NEW d, NEW w, IsPair(w, c, d), NEW r, r = FoldLeft(Extended, a, w)
    PROVE  ExtendedTwice(r, a, c, d)
<1> DEFINE G(it) == [s \in SUBSET DOMAIN <<c, d>> |-> IF s = {} THEN a ELSE Extended(it[s \ {Max(s)}], <<c, d>>[Max(s)])]
           I == CHOOSE it : it = G(it)
<1>1. FoldLeft(Extended, a, <<c, d>>) = I[DOMAIN <<c, d>>]
  BY DEF FoldLeft, MapThenFoldSet
<1>2. DOMAIN <<c, d>> = {1, 2}
  OBVIOUS
<1>3. /\ Max({1}) = 1 /\ Max({2}) = 2 /\ Max({1, 2}) = 2
      /\ {1} \ {1} = {} /\ {2} \ {2} = {} /\ {1, 2} \ {2} = {1}
      /\ {1} # {} /\ {2} # {} /\ {1, 2} # {}
      /\ {1} # {2} /\ {1} # {1, 2} /\ {2} # {1, 2}
  BY MaxOne, MaxTwo
<1>4. \E it : it = G(it)
  <2> DEFINE h(s) == IF s = {} THEN a ELSE IF s = {1} THEN Extended(a, c) ELSE IF s = {2} THEN Extended(a, d) ELSE Extended(Extended(a, c), d)
             g == [s \in SUBSET {1, 2} |-> h(s)]
  <2>1. \A s \in SUBSET {1, 2} : h(s) = IF s = {} THEN a ELSE Extended(g[s \ {Max(s)}], <<c, d>>[Max(s)])
    <3>1. SUFFICES ASSUME NEW s \in SUBSET {1, 2}
                   PROVE  h(s) = IF s = {} THEN a ELSE Extended(g[s \ {Max(s)}], <<c, d>>[Max(s)])
      OBVIOUS
    <3>2. g[{}] = a /\ g[{1}] = Extended(a, c)
      BY <1>3
    <3>3. CASE s = {1}
      BY <1>3, <3>2, <3>3
    <3>4. CASE s = {2}
      BY <1>3, <3>2, <3>4
    <3>5. CASE s = {1, 2}
      BY <1>3, <3>2, <3>5
    <3>6. QED
      BY <3>3, <3>4, <3>5, UpToTwo
  <2>2. g = G(g)
    <3> HIDE DEF h
    <3>1. QED
      BY <1>2, <2>1
  <2>3. QED
    BY <2>2
<1>5. I = G(I)
  BY <1>4
<1>6. I[{1, 2}] = Extended(Extended(a, c), d)
  <2> HIDE DEF I
  <2>1. I[{1, 2}] = Extended(I[{1}], d)
    BY <1>2, <1>3, <1>5
  <2>2. I[{1}] = Extended(I[{}], c)
    <3>1. I[{1}] = Extended(I[{1} \ {Max({1})}], <<c, d>>[Max({1})])
      BY <1>2, <1>5
    <3>2. Max({1}) = 1 /\ {1} \ {1} = {} /\ <<c, d>>[1] = c
      BY <1>3
    <3>3. QED
      BY <3>1, <3>2
  <2>3. I[{}] = a
    BY <1>2, <1>5
  <2>4. QED
    BY <2>1, <2>2, <2>3
<1>7. FoldLeft(Extended, a, <<c, d>>) = Extended(Extended(a, c), d)
  <2> HIDE DEF I
  <2>1. QED
    BY <1>1, <1>2, <1>6
<1>8. QED
  <2> HIDE DEF I
  <2>1. QED
    BY <1>7 DEF IsPair, ExtendedTwice
-----------------------------------------------------------------------------
(***************************************************************************)
(* What feeding one chunk does.                                            *)
(***************************************************************************)
RawType == [id : {"", "r"}, stop : Stops]
DeltaType == [index : Int, id : CallIds, name : Seq({"name"}), arguments : Seq(FragmentType)]

CallsKept(a, b) == b.tool_calls = a.tool_calls /\ b.by_index = a.by_index /\ b.current = a.current
Known(a, b, raw) ==
    /\ b.response_id = IF a.response_id = "" THEN raw.id ELSE a.response_id
    /\ b.stop_reason = IF raw.stop # "" THEN raw.stop ELSE a.stop_reason

(* One field of the accumulator changes, and no other.                     *)
LEMMA SetText ==
    ASSUME NEW a \in AccType, NEW x \in Seq(PieceType), NEW b, b = [a EXCEPT !.text = x]
    PROVE  /\ b \in AccType /\ b.text = x
           /\ b.thinking = a.thinking /\ b.tool_calls = a.tool_calls /\ b.by_index = a.by_index /\ b.current = a.current /\ b.usage = a.usage
           /\ b.stop_reason = a.stop_reason /\ b.response_id = a.response_id
BY DEF AccType

LEMMA SetThinking ==
    ASSUME NEW a \in AccType, NEW x \in Seq(PieceType), NEW b, b = [a EXCEPT !.thinking = x]
    PROVE  /\ b \in AccType /\ b.thinking = x
           /\ b.text = a.text /\ b.tool_calls = a.tool_calls /\ b.by_index = a.by_index /\ b.current = a.current /\ b.usage = a.usage
           /\ b.stop_reason = a.stop_reason /\ b.response_id = a.response_id
BY DEF AccType

LEMMA SetToolCalls ==
    ASSUME NEW a \in AccType, NEW x \in Seq(CallType), NEW b, b = [a EXCEPT !.tool_calls = x]
    PROVE  /\ b \in AccType /\ b.tool_calls = x
           /\ b.text = a.text /\ b.thinking = a.thinking /\ b.by_index = a.by_index /\ b.current = a.current /\ b.usage = a.usage
           /\ b.stop_reason = a.stop_reason /\ b.response_id = a.response_id
BY DEF AccType

LEMMA SetByIndex ==
    ASSUME NEW a \in AccType, NEW x \in Seq(CallType), NEW b, b = [a EXCEPT !.by_index = x]
    PROVE  /\ b \in AccType /\ b.by_index = x
           /\ b.text = a.text /\ b.thinking = a.thinking /\ b.tool_calls = a.tool_calls /\ b.current = a.current /\ b.usage = a.usage
           /\ b.stop_reason = a.stop_reason /\ b.response_id = a.response_id
BY DEF AccType

LEMMA SetCurrent ==
    ASSUME NEW a \in AccType, NEW x \in CallType, NEW b, b = [a EXCEPT !.current = x]
    PROVE  /\ b \in AccType /\ b.current = x
           /\ b.text = a.text /\ b.thinking = a.thinking /\ b.tool_calls = a.tool_calls /\ b.by_index = a.by_index /\ b.usage = a.usage
           /\ b.stop_reason = a.stop_reason /\ b.response_id = a.response_id
BY DEF AccType

LEMMA SetUsage ==
    ASSUME NEW a \in AccType, NEW x \in UsageType, NEW b, b = [a EXCEPT !.usage = x]
    PROVE  /\ b \in AccType /\ b.usage = x
           /\ b.text = a.text /\ b.thinking = a.thinking /\ b.tool_calls = a.tool_calls /\ b.by_index = a.by_index /\ b.current = a.current
           /\ b.stop_reason = a.stop_reason /\ b.response_id = a.response_id
BY DEF AccType

LEMMA Metadata ==
    ASSUME NEW a \in AccType, NEW raw \in RawType, NEW b, b = extract_metadata(a, raw)
    PROVE  /\ b \in AccType /\ Known(a, b, raw) /\ CallsKept(a, b)
           /\ b.text = a.text /\ b.thinking = a.thinking /\ b.usage = a.usage
BY DEF extract_metadata, AccType, RawType, Known, CallsKept

LEMMA FedText ==
    ASSUME NEW a \in AccType, NEW s \in Seq(PieceType), NEW raw \in RawType, NEW b,
           b = feed(a, TextDelta(s, raw))
    PROVE  /\ b \in AccType /\ Known(a, b, raw) /\ CallsKept(a, b)
           /\ b.text = a.text \o s /\ b.thinking = a.thinking /\ b.usage = a.usage
<1>1. PICK k : k = extract_metadata(a, raw)
  OBVIOUS
<1>2. b = [k EXCEPT !.text = k.text \o s]
  BY <1>1 DEF feed, TextDelta, Chunk
<1>3. /\ k \in AccType /\ Known(a, k, raw) /\ CallsKept(a, k)
      /\ k.text = a.text /\ k.thinking = a.thinking /\ k.usage = a.usage
  BY <1>1, Metadata
<1>4. k.text \o s \in Seq(PieceType)
  <2>1. k.text \in Seq(PieceType)
    BY <1>3 DEF AccType
  <2>2. QED
    BY <2>1, ConcatProperties
<1>5. /\ b \in AccType /\ b.text = k.text \o s
      /\ b.thinking = k.thinking /\ b.usage = k.usage /\ CallsKept(k, b)
      /\ b.stop_reason = k.stop_reason /\ b.response_id = k.response_id
  <2>1. PICK x \in Seq(PieceType) : x = k.text \o s
    BY <1>4
  <2>2. b = [k EXCEPT !.text = x]
    BY <1>2, <2>1
  <2>3. /\ b \in AccType /\ b.text = x
        /\ b.thinking = k.thinking /\ b.usage = k.usage /\ CallsKept(k, b)
        /\ b.stop_reason = k.stop_reason /\ b.response_id = k.response_id
    BY <1>3, <2>2, SetText DEF CallsKept
  <2>4. QED
    BY <2>1, <2>3
<1>6. QED
  BY <1>3, <1>5 DEF Known, CallsKept

LEMMA FedThinking ==
    ASSUME NEW a \in AccType, NEW s \in Seq(PieceType), NEW raw \in RawType, NEW b,
           b = feed(a, ThinkingDelta(s, raw))
    PROVE  /\ b \in AccType /\ Known(a, b, raw) /\ CallsKept(a, b)
           /\ b.text = a.text /\ b.thinking = a.thinking \o s /\ b.usage = a.usage
<1>1. PICK k : k = extract_metadata(a, raw)
  OBVIOUS
<1>2. b = [k EXCEPT !.thinking = k.thinking \o s]
  BY <1>1 DEF feed, ThinkingDelta, Chunk
<1>3. /\ k \in AccType /\ Known(a, k, raw) /\ CallsKept(a, k)
      /\ k.text = a.text /\ k.thinking = a.thinking /\ k.usage = a.usage
  BY <1>1, Metadata
<1>4. k.thinking \o s \in Seq(PieceType)
  <2>1. k.thinking \in Seq(PieceType)
    BY <1>3 DEF AccType
  <2>2. QED
    BY <2>1, ConcatProperties
<1>5. /\ b \in AccType /\ b.thinking = k.thinking \o s
      /\ b.text = k.text /\ b.usage = k.usage /\ CallsKept(k, b)
      /\ b.stop_reason = k.stop_reason /\ b.response_id = k.response_id
  <2>1. PICK x \in Seq(PieceType) : x = k.thinking \o s
    BY <1>4
  <2>2. b = [k EXCEPT !.thinking = x]
    BY <1>2, <2>1
  <2>3. /\ b \in AccType /\ b.thinking = x
        /\ b.text = k.text /\ b.usage = k.usage /\ CallsKept(k, b)
        /\ b.stop_reason = k.stop_reason /\ b.response_id = k.response_id
    BY <1>3, <2>2, SetThinking DEF CallsKept
  <2>4. QED
    BY <2>1, <2>3
<1>6. QED
  BY <1>3, <1>5 DEF Known, CallsKept

LEMMA FedUsage ==
    ASSUME NEW a \in AccType, NEW u \in UsageType, u # NoUsage, NEW raw \in RawType, NEW b,
           b = feed(a, Usage(u, raw))
    PROVE  /\ b \in AccType /\ Known(a, b, raw) /\ CallsKept(a, b)
           /\ b.text = a.text /\ b.thinking = a.thinking
           /\ b.usage = merge_usage(a, u).usage
<1>1. PICK k : k = extract_metadata(a, raw)
  OBVIOUS
<1>2. b = merge_usage(k, u)
  BY <1>1 DEF feed, Usage, Chunk
<1>3. k \in AccType /\ k.usage = a.usage
  BY <1>1, Metadata
<1>4. /\ b.usage = merge_usage(a, u).usage
      /\ b.usage \in UsageType
  <2>1. \A x, y \in Int : Larger(x, y) \in Int
    BY DEF Larger
  <2>2. a.usage \in UsageType /\ k.usage = a.usage
    BY <1>3 DEF AccType
  <2>3. b.usage = merge_usage(a, u).usage
    BY <1>2, <1>3 DEF merge_usage, AccType
  <2>4. CASE a.usage = NoUsage
    BY <1>2, <1>3, <2>4 DEF merge_usage, AccType
  <2>5. CASE a.usage # NoUsage
    <3>1. /\ a.usage.input \in Int /\ a.usage.output \in Int /\ a.usage.total \in Int
          /\ u.input \in Int /\ u.output \in Int /\ u.total \in Int
      BY <2>2 DEF UsageType
    <3>2. PICK x \in Int, y \in Int, z \in Int :
              x = Larger(a.usage.input, u.input) /\ y = Larger(a.usage.output, u.output) /\ z = Larger(a.usage.total, u.total)
      BY <2>1, <3>1
    <3>3. b.usage = UsageInfo(x, y, IF z = 0 THEN x + y ELSE z)
      BY <1>2, <1>3, <2>5, <3>2 DEF merge_usage, AccType
    <3>4. QED
      BY <2>3, <3>3 DEF UsageInfo, UsageType
  <2>6. QED
    BY <2>3, <2>4, <2>5
<1>5. b = [k EXCEPT !.usage = b.usage]
  BY <1>2, <1>3 DEF merge_usage, AccType
<1>6. /\ b \in AccType /\ b.text = k.text /\ b.thinking = k.thinking /\ CallsKept(k, b)
      /\ b.stop_reason = k.stop_reason /\ b.response_id = k.response_id
  BY <1>3, <1>4, <1>5, SetUsage DEF CallsKept
<1>7. /\ Known(a, k, raw) /\ CallsKept(a, k) /\ k.text = a.text /\ k.thinking = a.thinking
  BY <1>1, Metadata
<1>8. QED
  BY <1>4, <1>6, <1>7 DEF Known, CallsKept

LEMMA FedCall ==
    ASSUME NEW a \in AccType, NEW d \in DeltaType, NEW raw \in RawType, NEW b,
           b = feed(a, ToolCallDelta(d, raw))
    PROVE  /\ Known(a, b, raw)
           /\ CallsKept(accumulate_tool_call(a, d), b)
           /\ b.text = a.text /\ b.thinking = a.thinking /\ b.usage = a.usage
<1>1. PICK k : k = extract_metadata(a, raw)
  OBVIOUS
<1>2. b = accumulate_tool_call(k, d)
  BY <1>1 DEF feed, ToolCallDelta, Chunk
<1>3. k \in AccType /\ Known(a, k, raw) /\ CallsKept(a, k)
      /\ k.text = a.text /\ k.thinking = a.thinking /\ k.usage = a.usage
  BY <1>1, Metadata
<1>4. CASE d.index # NoIndex
  <2>1. b = ByIndex(k, d) /\ accumulate_tool_call(a, d) = ByIndex(a, d)
    BY <1>2, <1>4 DEF accumulate_tool_call
  <2>2. PICK x : x = IF d.index + 1 > Len(a.by_index) THEN Append(a.by_index, Started(d))
                     ELSE [a.by_index EXCEPT ![d.index + 1] = Grown(a.by_index[d.index + 1], d)]
    OBVIOUS
  <2>3. b = [k EXCEPT !.by_index = x] /\ accumulate_tool_call(a, d) = [a EXCEPT !.by_index = x]
    BY <1>3, <2>1, <2>2 DEF ByIndex, CallsKept
  <2>4. QED
    BY <1>3, <2>3 DEF CallsKept, Known, AccType
<1>5. CASE d.index = NoIndex /\ d.id # "" /\ a.current = NoCall
  <2>1. PICK x : x = Started(d)
    OBVIOUS
  <2>2. b = [k EXCEPT !.current = x]
    BY <1>2, <1>3, <1>5, <2>1 DEF accumulate_tool_call, finalize_current_tool_call, CallsKept
  <2>3. accumulate_tool_call(a, d) = [a EXCEPT !.current = x]
    BY <1>5, <2>1 DEF accumulate_tool_call, finalize_current_tool_call
  <2>4. QED
    BY <1>3, <2>2, <2>3 DEF CallsKept, Known, AccType
<1>6. CASE d.index = NoIndex /\ d.id # "" /\ a.current # NoCall
  <2>1. PICK x, y : x = Started(d) /\ y = Append(a.tool_calls, a.current)
    OBVIOUS
  <2>2. b = [[k EXCEPT !.tool_calls = y, !.current = NoCall] EXCEPT !.current = x]
    BY <1>2, <1>3, <1>6, <2>1 DEF accumulate_tool_call, finalize_current_tool_call, CallsKept
  <2>3. accumulate_tool_call(a, d) = [[a EXCEPT !.tool_calls = y, !.current = NoCall] EXCEPT !.current = x]
    BY <1>6, <2>1 DEF accumulate_tool_call, finalize_current_tool_call
  <2>4. QED
    BY <1>3, <2>2, <2>3 DEF CallsKept, Known, AccType
<1>7. CASE d.index = NoIndex /\ d.id = "" /\ a.current # NoCall
  <2>1. PICK x : x = Grown(a.current, d)
    OBVIOUS
  <2>2. b = [k EXCEPT !.current = x] /\ accumulate_tool_call(a, d) = [a EXCEPT !.current = x]
    BY <1>2, <1>3, <1>7, <2>1 DEF accumulate_tool_call, CallsKept
  <2>3. QED
    BY <1>3, <2>2 DEF CallsKept, Known, AccType
<1>8. CASE d.index = NoIndex /\ d.id = "" /\ a.current = NoCall
  BY <1>2, <1>3, <1>8 DEF accumulate_tool_call, CallsKept
<1>9. QED
  BY <1>4, <1>5, <1>6, <1>7, <1>8

LEMMA FedDone ==
    ASSUME NEW a \in AccType, NEW b, b = feed(a, Done)
    PROVE  /\ b = finalize_current_tool_call(a)
           /\ b.text = a.text /\ b.thinking = a.thinking /\ b.usage = a.usage
           /\ b.response_id = a.response_id /\ b.stop_reason = a.stop_reason
<1>1. extract_metadata(a, NoRaw) = a
  BY DEF extract_metadata, NoRaw, AccType
<1>2. b = finalize_current_tool_call(a)
  BY <1>1 DEF feed, Done, Chunk
<1>3. QED
  BY <1>2 DEF finalize_current_tool_call, AccType
-----------------------------------------------------------------------------
(***************************************************************************)
(* Fragments of arguments, each said and held once.                        *)
(***************************************************************************)
EntryType == [slot : 1..3, id : CallIds, name : Seq({"name"}), arguments : Seq(FragmentType)]

(* An entry that may come next: it opens a call or goes on with one.       *)
OpensCall(calls, e) ==
    /\ e.slot = Len(calls) + 1
    /\ e.id = Ids[e.slot]
    /\ e.name = <<"name">>
    /\ e.arguments \in Args(e.slot)
GoesOn(calls, e) ==
    /\ e.slot \in DOMAIN calls
    /\ e.id = ""
    /\ e.name \in {<<>>, <<"name">>}
    /\ \/ calls[e.slot].arguments_json = <<>> /\ e.arguments = <<Fragment(e.slot, "head")>>
       \/ /\ calls[e.slot].arguments_json = <<Fragment(e.slot, "head")>>
          /\ e.arguments = <<Fragment(e.slot, "tail")>>
MayCome(calls, e) == e \in EntryType /\ (OpensCall(calls, e) \/ GoesOn(calls, e))

Distinct(s) == \A i, j \in DOMAIN s : s[i] = s[j] => i = j

LEMMA ArgsFacts ==
    ASSUME NEW slot \in 1..3, NEW f \in Args(slot)
    PROVE  /\ f \in Seq(FragmentType)
           /\ Len(f) \in 0..2
           /\ Distinct(f)
           /\ \A i \in DOMAIN f : f[i].of = slot
           /\ Len(f) = 0 => f = <<>>
           /\ Len(f) = 1 => f = <<Fragment(slot, "head")>>
           /\ Len(f) = 2 => f = <<Fragment(slot, "head"), Fragment(slot, "tail")>>
<1>1. PICK h \in FragmentType, t \in FragmentType :
          /\ h = Fragment(slot, "head") /\ t = Fragment(slot, "tail")
          /\ h # t /\ h.of = slot /\ t.of = slot
  <2>1. Fragment(slot, "head") \in FragmentType /\ Fragment(slot, "tail") \in FragmentType
    BY DEF Fragment, FragmentType
  <2>2. /\ Fragment(slot, "head").of = slot /\ Fragment(slot, "tail").of = slot
        /\ Fragment(slot, "head").part # Fragment(slot, "tail").part
    BY DEF Fragment
  <2>3. QED
    BY <2>1, <2>2
<1>2. CASE f = <<>>
  BY <1>2 DEF Distinct
<1>3. CASE f = <<h>>
  BY <1>1, <1>3 DEF Distinct
<1>4. CASE f = <<h, t>>
  <2>1. f[1] = h /\ f[2] = t /\ DOMAIN f = {1, 2} /\ Len(f) = 2 /\ f \in Seq(FragmentType)
    BY <1>4
  <2>2. QED
    BY <1>1, <1>4, <2>1 DEF Distinct
<1>5. QED
  BY <1>1, <1>2, <1>3, <1>4 DEF Args

LEMMA RangeFacts ==
    ASSUME NEW S, NEW s \in Seq(S), NEW t \in Seq(S)
    PROVE  /\ Range_(s \o t) = Range_(s) \cup Range_(t)
           /\ Range_(<<>>) = {}
           /\ \A x : Range_(<<x>>) = {x}
           /\ \A i \in DOMAIN s : s[i] \in Range_(s)
           /\ \A x \in Range_(s) : \E i \in DOMAIN s : s[i] = x
<1>1. /\ Len(s) \in Nat /\ Len(t) \in Nat /\ DOMAIN s = 1..Len(s) /\ DOMAIN t = 1..Len(t)
      /\ DOMAIN (s \o t) = 1..Len(s) + Len(t)
      /\ \A i \in 1..Len(s) + Len(t) : (s \o t)[i] = IF i <= Len(s) THEN s[i] ELSE t[i - Len(s)]
  BY ConcatProperties, LenProperties
<1>2. Range_(s \o t) \subseteq Range_(s) \cup Range_(t)
  BY <1>1 DEF Range_
<1>3. Range_(s) \subseteq Range_(s \o t)
  BY <1>1 DEF Range_
<1>4. Range_(t) \subseteq Range_(s \o t)
  <2>1. \A i \in 1..Len(t) : /\ Len(s) + i \in 1..Len(s) + Len(t)
                             /\ (s \o t)[Len(s) + i] = t[i]
    BY <1>1
  <2>2. \A i \in 1..Len(t) : t[i] \in Range_(s \o t)
    <3>1. PICK u : u = s \o t
      OBVIOUS
    <3>2. DOMAIN u = 1..Len(s) + Len(t) /\ \A i \in 1..Len(t) : Len(s) + i \in 1..Len(s) + Len(t) /\ u[Len(s) + i] = t[i]
      BY <1>1, <2>1, <3>1
    <3>3. \A i \in 1..Len(t) : t[i] \in Range_(u)
      BY <3>2 DEF Range_
    <3>4. QED
      BY <3>1, <3>3
  <2>3. QED
    BY <1>1, <2>2 DEF Range_
<1>5. Range_(s \o t) = Range_(s) \cup Range_(t)
  BY <1>2, <1>3, <1>4
<1>6. Range_(<<>>) = {} /\ \A x : Range_(<<x>>) = {x}
  BY DEF Range_
<1>7. (\A i \in DOMAIN s : s[i] \in Range_(s)) /\ \A x \in Range_(s) : \E i \in DOMAIN s : s[i] = x
  BY DEF Range_
<1>8. QED
  BY <1>5, <1>6, <1>7

LEMMA FragmentsFacts ==
    ASSUME NEW K \in Seq(CallType)
    PROVE  /\ \A i \in DOMAIN K : \A a \in DOMAIN K[i].arguments_json :
                 K[i].arguments_json[a] \in Fragments(K)
           /\ \A x \in Fragments(K) : \E i \in DOMAIN K : \E a \in DOMAIN K[i].arguments_json :
                 K[i].arguments_json[a] = x
BY DEF Fragments, Range_

LEMMA OnceAppend ==
    ASSUME NEW K \in Seq(CallType), NEW c \in CallType
    PROVE  /\ Append(K, c) \in Seq(CallType)
           /\ Fragments(Append(K, c)) = Fragments(K) \cup Range_(c.arguments_json)
           /\ Once(Append(K, c)) => Once(K)
           /\ Once(K) /\ Distinct(c.arguments_json) /\ Range_(c.arguments_json) \cap Fragments(K) = {}
                 => Once(Append(K, c))
<1>1. PICK L : L = Append(K, c)
  OBVIOUS
<1>2. /\ L \in Seq(CallType) /\ Len(K) \in Nat /\ Len(L) = Len(K) + 1
      /\ DOMAIN K = 1..Len(K) /\ DOMAIN L = 1..Len(K) + 1
      /\ \A i \in DOMAIN K : i \in DOMAIN L /\ L[i] = K[i] /\ i # Len(K) + 1
      /\ \A i \in DOMAIN L : i \in DOMAIN K \/ i = Len(K) + 1
      /\ Len(K) + 1 \in DOMAIN L /\ L[Len(K) + 1] = c
  BY <1>1, AppendProperties, LenProperties
<1>3. Fragments(L) = Fragments(K) \cup Range_(c.arguments_json)
  BY <1>2 DEF Fragments
<1>4. Once(L) => Once(K)
  BY <1>2 DEF Once
<1>5. ASSUME Once(K), Distinct(c.arguments_json), Range_(c.arguments_json) \cap Fragments(K) = {}
      PROVE  Once(L)
  <2>1. SUFFICES ASSUME NEW i \in DOMAIN L, NEW j \in DOMAIN L,
                        NEW a \in DOMAIN L[i].arguments_json, NEW b \in DOMAIN L[j].arguments_json,
                        L[i].arguments_json[a] = L[j].arguments_json[b]
                 PROVE  i = j /\ a = b
    BY DEF Once
  <2>2. \A a1 \in DOMAIN c.arguments_json : c.arguments_json[a1] \notin Fragments(K)
    BY <1>5 DEF Range_
  <2>3. CASE i \in DOMAIN K /\ j \in DOMAIN K
    BY <1>2, <1>5, <2>1, <2>3 DEF Once
  <2>4. CASE i \in DOMAIN K /\ j = Len(K) + 1
    BY <1>2, <2>1, <2>2, <2>4, FragmentsFacts
  <2>5. CASE i = Len(K) + 1 /\ j \in DOMAIN K
    BY <1>2, <2>1, <2>2, <2>5, FragmentsFacts
  <2>6. CASE i = Len(K) + 1 /\ j = Len(K) + 1
    BY <1>2, <1>5, <2>1, <2>6 DEF Distinct
  <2>7. QED
    BY <1>2, <2>3, <2>4, <2>5, <2>6
<1>6. QED
  BY <1>1, <1>2, <1>3, <1>4, <1>5

Adds(new, old, f) == Fragments(new) = Fragments(old) \cup Range_(f)

LEMMA OnceGrown ==
    ASSUME NEW K \in Seq(CallType), NEW k \in DOMAIN K, NEW c \in CallType, NEW f \in Seq(FragmentType),
           c.arguments_json = K[k].arguments_json \o f,
           Once(K), Distinct(f), Range_(f) \cap Fragments(K) = {}
    PROVE  /\ [K EXCEPT ![k] = c] \in Seq(CallType)
           /\ Adds([K EXCEPT ![k] = c], K, f)
           /\ Once([K EXCEPT ![k] = c])
<1>1. PICK L : L = [K EXCEPT ![k] = c]
  OBVIOUS
<1>2. PICK g : g = K[k].arguments_json
  OBVIOUS
<1>3. /\ g \in Seq(FragmentType) /\ K[k] \in CallType
  <2>1. K[k] \in CallType
    BY ElementOfSeq, LenProperties
  <2>2. QED
    BY <1>2, <2>1 DEF CallType
<1>4. /\ L \in Seq(CallType) /\ DOMAIN L = DOMAIN K /\ L[k] = c
      /\ \A i \in DOMAIN K : i # k => L[i] = K[i]
  BY <1>1, ExceptSeq, LenProperties
<1>5. /\ Len(g) \in Nat /\ Len(f) \in Nat /\ DOMAIN g = 1..Len(g) /\ DOMAIN f = 1..Len(f)
      /\ DOMAIN c.arguments_json = 1..Len(g) + Len(f)
      /\ \A i \in DOMAIN c.arguments_json :
            \/ i \in DOMAIN g /\ c.arguments_json[i] = g[i]
            \/ i - Len(g) \in DOMAIN f /\ c.arguments_json[i] = f[i - Len(g)]
  BY <1>2, <1>3, ConcatProperties, LenProperties
<1>6. Range_(c.arguments_json) = Range_(g) \cup Range_(f)
  BY <1>2, <1>3, RangeFacts
<1>7. Adds(L, K, f)
  <2>1. Fragments(L) \subseteq Fragments(K) \cup Range_(f)
    BY <1>2, <1>4, <1>6 DEF Fragments
  <2>2. Fragments(K) \subseteq Fragments(L)
    BY <1>2, <1>4, <1>6 DEF Fragments
  <2>3. Range_(f) \subseteq Fragments(L)
    BY <1>4, <1>6 DEF Fragments
  <2>4. QED
    BY <2>1, <2>2, <2>3 DEF Adds
<1>8. Once(L)
  <2>1. SUFFICES ASSUME NEW i \in DOMAIN K, NEW j \in DOMAIN K,
                        NEW a \in DOMAIN L[i].arguments_json, NEW b \in DOMAIN L[j].arguments_json,
                        L[i].arguments_json[a] = L[j].arguments_json[b]
                 PROVE  i = j /\ a = b
    BY <1>4 DEF Once
  <2>2. \A a1 \in DOMAIN f : f[a1] \notin Fragments(K)
    BY DEF Range_
  <2>3. CASE i # k /\ j # k
    BY <1>4, <2>1, <2>3 DEF Once
  <2>4. CASE i = k /\ j # k
    <3>1. L[j].arguments_json[b] \in Fragments(K)
      BY <1>4, <2>1, <2>4, FragmentsFacts
    <3>2. a \in DOMAIN g /\ c.arguments_json[a] = g[a]
      BY <1>4, <1>5, <2>1, <2>2, <2>4, <3>1
    <3>3. QED
      BY <1>2, <1>4, <2>1, <2>4, <3>2 DEF Once
  <2>5. CASE i # k /\ j = k
    <3>1. L[i].arguments_json[a] \in Fragments(K)
      BY <1>4, <2>1, <2>5, FragmentsFacts
    <3>2. b \in DOMAIN g /\ c.arguments_json[b] = g[b]
      BY <1>4, <1>5, <2>1, <2>2, <2>5, <3>1
    <3>3. QED
      BY <1>2, <1>4, <2>1, <2>5, <3>2 DEF Once
  <2>6. CASE i = k /\ j = k
    <3>1. \A a1 \in DOMAIN g : g[a1] \in Fragments(K)
      BY <1>2, FragmentsFacts
    <3>2. a \in DOMAIN c.arguments_json /\ b \in DOMAIN c.arguments_json
          /\ c.arguments_json[a] = c.arguments_json[b]
      BY <1>4, <2>1, <2>6
    <3>3. CASE a \in DOMAIN g /\ c.arguments_json[a] = g[a] /\ b \in DOMAIN g /\ c.arguments_json[b] = g[b]
      <4>1. \A x, y \in DOMAIN g : g[x] = g[y] => x = y
        BY <1>2 DEF Once
      <4>2. g[a] = g[b]
        BY <3>2, <3>3
      <4>3. QED
        BY <2>6, <3>3, <4>1, <4>2
    <3>4. CASE a - Len(g) \in DOMAIN f /\ c.arguments_json[a] = f[a - Len(g)]
               /\ b - Len(g) \in DOMAIN f /\ c.arguments_json[b] = f[b - Len(g)]
      <4>1. a - Len(g) = b - Len(g)
        BY <3>2, <3>4 DEF Distinct
      <4>2. a \in Int /\ b \in Int
        BY <1>5, <3>2
      <4>3. QED
        BY <1>5, <2>6, <4>1, <4>2
    <3>5. PICK h : h = c.arguments_json
      OBVIOUS
    <3>6. CASE a \in DOMAIN g /\ h[a] = g[a]
      <4>1. h[b] \in Fragments(K)
        BY <3>1, <3>2, <3>5, <3>6
      <4>2. b \in DOMAIN g /\ h[b] = g[b]
        BY <1>5, <2>2, <3>2, <3>5, <4>1
      <4>3. QED
        BY <3>3, <3>5, <3>6, <4>2
    <3>7. CASE a - Len(g) \in DOMAIN f /\ h[a] = f[a - Len(g)]
      <4>1. h[b] \notin Fragments(K)
        BY <2>2, <3>2, <3>5, <3>7
      <4>2. b - Len(g) \in DOMAIN f /\ h[b] = f[b - Len(g)]
        BY <1>5, <3>1, <3>2, <3>5, <4>1
      <4>3. QED
        BY <3>4, <3>5, <3>7, <4>2
    <3>8. QED
      BY <1>5, <3>2, <3>5, <3>6, <3>7
  <2>7. QED
    BY <2>3, <2>4, <2>5, <2>6
<1>9. QED
  BY <1>1, <1>4, <1>7, <1>8
-----------------------------------------------------------------------------
(***************************************************************************)
(* The server's calls, entry by entry.                                     *)
(***************************************************************************)
LEMMA IdsFacts == /\ \A s \in 1..3 : Ids[s] \in CallIds /\ Ids[s] # ""
                  /\ Len(Ids) = 3
<1>1. Ids[1] = "c1" /\ Ids[2] = "c2" /\ Ids[3] = "c3" /\ Len(Ids) = 3
  BY DEF Ids
<1>2. \A s \in 1..3 : s = 1 \/ s = 2 \/ s = 3
  OBVIOUS
<1>3. "c1" # "" /\ "c2" # "" /\ "c3" # ""
  OBVIOUS
<1>4. "c1" \in CallIds /\ "c2" \in CallIds /\ "c3" \in CallIds
  BY DEF CallIds
<1>5. SUFFICES ASSUME NEW s \in 1..3 PROVE Ids[s] \in CallIds /\ Ids[s] # ""
  BY <1>1
<1>6. CASE s = 1
  BY <1>1, <1>3, <1>4, <1>6
<1>7. CASE s = 2
  BY <1>1, <1>3, <1>4, <1>7
<1>8. CASE s = 3
  BY <1>1, <1>3, <1>4, <1>8
<1>9. QED
  BY <1>2, <1>6, <1>7, <1>8

LEMMA ShapeFacts ==
    ASSUME NEW calls, Shape(calls)
    PROVE  /\ calls \in Seq(CallType) /\ Len(calls) \in 0..3 /\ DOMAIN calls = 1..Len(calls)
           /\ \A s \in DOMAIN calls :
                 /\ s \in 1..3 /\ calls[s] \in CallType
                 /\ calls[s].id = Ids[s] /\ calls[s].name = <<"name">>
                 /\ calls[s].arguments_json \in Args(s)
           /\ \A x \in Fragments(calls) : \E s \in DOMAIN calls :
                 x.of = s /\ x \in Range_(calls[s].arguments_json)
<1>1. /\ calls \in Seq(CallType) /\ Len(calls) \in 0..3 /\ DOMAIN calls = 1..Len(calls)
  <2>1. calls \in Seq(CallType) /\ Len(calls) <= 3
    BY DEF Shape
  <2>2. Len(calls) \in Nat /\ DOMAIN calls = 1..Len(calls)
    BY <2>1, LenProperties
  <2>3. QED
    BY <2>1, <2>2
<1>2. \A s \in DOMAIN calls : calls[s] \in CallType /\ s \in 1..3
  BY <1>1, ElementOfSeq
<1>3. \A s \in DOMAIN calls : /\ calls[s].id = Ids[s] /\ calls[s].name = <<"name">>
                              /\ calls[s].arguments_json \in Args(s)
  BY DEF Shape
<1>4. \A x \in Fragments(calls) : \E s \in DOMAIN calls :
          x.of = s /\ x \in Range_(calls[s].arguments_json)
  <2>1. SUFFICES ASSUME NEW x \in Fragments(calls)
                 PROVE  \E s \in DOMAIN calls : x.of = s /\ x \in Range_(calls[s].arguments_json)
    OBVIOUS
  <2>2. PICK s \in DOMAIN calls : x \in Range_(calls[s].arguments_json)
    BY DEF Fragments
  <2>3. PICK i \in DOMAIN calls[s].arguments_json : x = calls[s].arguments_json[i]
    BY <2>2 DEF Range_
  <2>4. calls[s].arguments_json[i].of = s
    BY <1>2, <1>3, <2>3, ArgsFacts
  <2>5. QED
    BY <2>2, <2>3, <2>4
<1>5. QED
  BY <1>1, <1>2, <1>3, <1>4

(* The entry that comes next brings fragments that were not said before.   *)
LEMMA EntryFresh ==
    ASSUME NEW calls, Shape(calls), NEW e, MayCome(calls, e)
    PROVE  /\ e.arguments \in Seq(FragmentType)
           /\ Distinct(e.arguments)
           /\ Range_(e.arguments) \cap Fragments(calls) = {}
<1>1. e \in EntryType /\ e.arguments \in Seq(FragmentType) /\ e.slot \in 1..3
  BY DEF MayCome, EntryType
<1>2. CASE OpensCall(calls, e)
  <2>1. Distinct(e.arguments) /\ \A i \in DOMAIN e.arguments : e.arguments[i].of = e.slot
    BY <1>1, <1>2, ArgsFacts DEF OpensCall
  <2>2. e.slot \notin DOMAIN calls
    BY <1>2, ShapeFacts DEF OpensCall
  <2>3. \A x \in Range_(e.arguments) : x.of = e.slot
    BY <2>1 DEF Range_
  <2>4. QED
    BY <1>1, <2>1, <2>2, <2>3, ShapeFacts
<1>3. CASE GoesOn(calls, e)
  <2>1. PICK part \in {"head", "tail"} :
            /\ e.arguments = <<Fragment(e.slot, part)>>
            /\ Fragment(e.slot, part) \notin Range_(calls[e.slot].arguments_json)
    <3>1. CASE calls[e.slot].arguments_json = <<>> /\ e.arguments = <<Fragment(e.slot, "head")>>
      BY <3>1 DEF Range_
    <3>2. CASE /\ calls[e.slot].arguments_json = <<Fragment(e.slot, "head")>>
               /\ e.arguments = <<Fragment(e.slot, "tail")>>
      <4>1. Fragment(e.slot, "tail") # Fragment(e.slot, "head")
        <5>1. Fragment(e.slot, "tail").part # Fragment(e.slot, "head").part
          BY DEF Fragment
        <5>2. QED
          BY <5>1
      <4>2. QED
        BY <3>2, <4>1 DEF Range_
    <3>3. QED
      BY <1>3, <3>1, <3>2 DEF GoesOn
  <2>2. PICK y : y = Fragment(e.slot, part)
    OBVIOUS
  <2>3. y.of = e.slot /\ e.arguments = <<y>> /\ y \notin Range_(calls[e.slot].arguments_json)
    BY <2>1, <2>2 DEF Fragment
  <2>4. y \notin Fragments(calls)
    BY <2>3, ShapeFacts
  <2>5. Distinct(e.arguments) /\ Range_(e.arguments) = {y}
    BY <2>3 DEF Distinct, Range_
  <2>6. QED
    BY <1>1, <2>4, <2>5
<1>4. QED
  BY <1>2, <1>3 DEF MayCome

LEMMA CallOpened ==
    ASSUME NEW calls, Shape(calls), NEW e, e \in EntryType, OpensCall(calls, e),
           NEW x, x = Extended(calls, e)
    PROVE  /\ x = Append(calls, Started(e)) /\ Started(e) \in CallType /\ Started(e) # NoCall
           /\ Started(e).arguments_json = e.arguments
           /\ Shape(x)
           /\ Len(x) = Len(calls) + 1
           /\ Adds(x, calls, e.arguments)
<1>1. /\ e.slot \in 1..3 /\ e.id \in CallIds /\ e.name \in Seq({"name"}) /\ e.arguments \in Seq(FragmentType)
      /\ e.slot = Len(calls) + 1 /\ e.id = Ids[e.slot] /\ e.name = <<"name">> /\ e.arguments \in Args(e.slot)
  BY DEF EntryType, OpensCall
<1>2. calls \in Seq(CallType) /\ Len(calls) \in 0..3 /\ DOMAIN calls = 1..Len(calls)
  BY ShapeFacts
<1>3. x = Append(calls, Started(e))
  <2>1. e.slot > Len(calls)
    BY <1>1, <1>2
  <2>2. QED
    BY <2>1 DEF Extended
<1>4. /\ Started(e) \in CallType /\ Started(e).id = e.id /\ Started(e).name = e.name
      /\ Started(e).arguments_json = e.arguments
  BY <1>1 DEF Started, CallType
<1>5. Started(e) # NoCall
  <2>1. Started(e).id # NoCall.id
    BY <1>1, <1>4, IdsFacts DEF NoCall
  <2>2. QED
    BY <2>1
<1>6. /\ x \in Seq(CallType) /\ Len(x) = Len(calls) + 1 /\ DOMAIN x = 1..Len(calls) + 1
      /\ x[Len(calls) + 1] = Started(e)
      /\ \A i \in 1..Len(calls) : x[i] = calls[i]
  BY <1>2, <1>3, <1>4, AppendProperties, LenProperties
<1>7. \A s \in DOMAIN x : x[s].id = Ids[s] /\ x[s].name = <<"name">> /\ x[s].arguments_json \in Args(s)
  <2>1. SUFFICES ASSUME NEW s \in DOMAIN x
                 PROVE  x[s].id = Ids[s] /\ x[s].name = <<"name">> /\ x[s].arguments_json \in Args(s)
    OBVIOUS
  <2>2. CASE s \in DOMAIN calls
    BY <1>2, <1>6, <2>2 DEF Shape
  <2>3. CASE s = Len(calls) + 1
    BY <1>1, <1>4, <1>6, <2>3
  <2>4. QED
    BY <1>2, <1>6, <2>2, <2>3
<1>8. Shape(x)
  BY <1>1, <1>2, <1>6, <1>7 DEF Shape
<1>9. Adds(x, calls, e.arguments)
  BY <1>2, <1>3, <1>4, OnceAppend DEF Adds
<1>10. QED
  BY <1>3, <1>4, <1>5, <1>6, <1>8, <1>9

LEMMA ConcatShort ==
    ASSUME NEW h, NEW t
    PROVE  <<>> \o <<h>> = <<h>> /\ <<h>> \o <<t>> = <<h, t>>
<1> DEFINE S == {h, t}
<1>1. <<h>> \in Seq(S) /\ <<t>> \in Seq(S) /\ <<h, t>> \in Seq(S)
  OBVIOUS
<1>2. <<>> \o <<h>> = <<h>>
  BY <1>1, ConcatEmptySeq
<1>3. PICK u : u = <<h>> \o <<t>>
  OBVIOUS
<1>4. u \in Seq(S) /\ Len(u) = 2 /\ u[1] = h /\ u[2] = t
  BY <1>1, <1>3, ConcatProperties
<1>5. u = <<h, t>>
  BY <1>1, <1>4
<1>6. QED
  BY <1>2, <1>3, <1>5

Grew(new, old, e) ==
    /\ new[e.slot].id = old[e.slot].id /\ new[e.slot].name = old[e.slot].name
    /\ new[e.slot].arguments_json = old[e.slot].arguments_json \o e.arguments

LEMMA CallGoesOn ==
    ASSUME NEW calls, Shape(calls), NEW e, e \in EntryType, GoesOn(calls, e),
           NEW x, x = Extended(calls, e)
    PROVE  /\ Shape(x)
           /\ Len(x) = Len(calls) /\ DOMAIN x = DOMAIN calls
           /\ Grew(x, calls, e)
           /\ \A s \in DOMAIN calls : s # e.slot => x[s] = calls[s]
           /\ Adds(x, calls, e.arguments)
<1>1. /\ e.slot \in 1..3 /\ e.arguments \in Seq(FragmentType) /\ e.slot \in DOMAIN calls
  BY DEF EntryType, GoesOn
<1>2. /\ calls \in Seq(CallType) /\ Len(calls) \in 0..3 /\ DOMAIN calls = 1..Len(calls)
      /\ calls[e.slot] \in CallType
  BY <1>1, ShapeFacts
<1>3. PICK f : f = calls[e.slot].arguments_json \o e.arguments
  OBVIOUS
<1>4. f \in Args(e.slot)
  <2>1. CASE calls[e.slot].arguments_json = <<>> /\ e.arguments = <<Fragment(e.slot, "head")>>
    BY <1>3, <2>1, ConcatShort DEF Args
  <2>2. CASE /\ calls[e.slot].arguments_json = <<Fragment(e.slot, "head")>>
             /\ e.arguments = <<Fragment(e.slot, "tail")>>
    BY <1>3, <2>2, ConcatShort DEF Args
  <2>3. QED
    BY <2>1, <2>2 DEF GoesOn
<1>5. f \in Seq(FragmentType)
  BY <1>1, <1>4, ArgsFacts
<1>6. PICK c : c = [calls[e.slot] EXCEPT !.arguments_json = f]
  OBVIOUS
<1>7. c \in CallType /\ c.id = calls[e.slot].id /\ c.name = calls[e.slot].name /\ c.arguments_json = f
  BY <1>2, <1>5, <1>6 DEF CallType
<1>8. x = [calls EXCEPT ![e.slot] = c]
  <2>1. ~(e.slot > Len(calls))
    BY <1>1, <1>2
  <2>2. x = [calls EXCEPT ![e.slot].arguments_json = calls[e.slot].arguments_json \o e.arguments]
    BY <2>1, <1>1 DEF Extended
  <2>3. x = [calls EXCEPT ![e.slot].arguments_json = f]
    BY <2>2, <1>3
  <2>4. QED
    BY <2>3, <1>6
<1>9. /\ x \in Seq(CallType) /\ DOMAIN x = DOMAIN calls /\ Len(x) = Len(calls) /\ x[e.slot] = c
      /\ \A s \in DOMAIN calls : s # e.slot => x[s] = calls[s]
  BY <1>1, <1>2, <1>7, <1>8, ExceptSeq, LenProperties
<1>10. \A s \in DOMAIN x : x[s].id = Ids[s] /\ x[s].name = <<"name">> /\ x[s].arguments_json \in Args(s)
  BY <1>4, <1>7, <1>9 DEF Shape
<1>11. Shape(x)
  BY <1>2, <1>9, <1>10 DEF Shape
<1>12. Adds(x, calls, e.arguments)
  <2>1. calls[e.slot].arguments_json \in Seq(FragmentType)
    BY <1>2 DEF CallType
  <2>2. Range_(f) = Range_(calls[e.slot].arguments_json) \cup Range_(e.arguments)
    BY <1>1, <1>3, <2>1, RangeFacts
  <2>3. \A s \in DOMAIN x : Range_(x[s].arguments_json) =
           Range_(calls[s].arguments_json) \cup (IF s = e.slot THEN Range_(e.arguments) ELSE {})
    BY <1>7, <1>9, <2>2
  <2>4. QED
    BY <1>1, <1>9, <2>3 DEF Fragments, Adds
<1>13. Grew(x, calls, e)
  BY <1>3, <1>7, <1>9 DEF Grew
<1>14. QED
  BY <1>9, <1>11, <1>12, <1>13

LEMMA OthersStay ==
    ASSUME NEW calls, Shape(calls), NEW e, GoesOn(calls, e), NEW s \in DOMAIN calls, s # e.slot
    PROVE  Extended(calls, e)[s] = calls[s]
<1>1. calls \in Seq(CallType) /\ DOMAIN calls = 1..Len(calls) /\ Len(calls) \in Nat /\ e.slot \in DOMAIN calls
  <2>1. calls \in Seq(CallType) /\ DOMAIN calls = 1..Len(calls) /\ Len(calls) \in 0..3
    BY ShapeFacts
  <2>2. e.slot \in DOMAIN calls
    BY DEF GoesOn
  <2>3. QED
    BY <2>1, <2>2
<1>2. ~(e.slot > Len(calls))
  BY <1>1
<1>3. PICK f : f = calls[e.slot].arguments_json \o e.arguments
  OBVIOUS
<1>4. Extended(calls, e) = [calls EXCEPT ![e.slot].arguments_json = f]
  BY <1>2, <1>3 DEF Extended
<1>5. s \in DOMAIN calls => Extended(calls, e)[s] = calls[s]
  BY <1>4
<1>6. QED
  BY <1>5

(* A later entry of the same event may still come after the first.         *)
LEMMA EntryAfter ==
    ASSUME NEW calls, Shape(calls), NEW e, e \in EntryType, GoesOn(calls, e),
           NEW f, MayCome(calls, f), e.slot # f.slot
    PROVE  MayCome(Extended(calls, e), f)
<1>1. PICK x : x = Extended(calls, e)
  OBVIOUS
<1>2. /\ Len(x) = Len(calls) /\ DOMAIN x = DOMAIN calls
      /\ \A s \in DOMAIN calls : s # e.slot => x[s] = calls[s]
  <2>1. Len(x) = Len(calls)
    BY <1>1, CallGoesOn
  <2>2. DOMAIN x = DOMAIN calls
    BY <1>1, CallGoesOn
  <2>3. ASSUME NEW s \in DOMAIN calls, s # e.slot PROVE x[s] = calls[s]
    BY <1>1, <2>3, OthersStay
  <2>4. QED
    BY <2>1, <2>2, <2>3
<1>3. CASE OpensCall(calls, f)
  BY <1>1, <1>2, <1>3 DEF OpensCall, MayCome
<1>4. CASE GoesOn(calls, f)
  BY <1>1, <1>2, <1>4 DEF GoesOn, MayCome
<1>5. QED
  BY <1>3, <1>4 DEF MayCome
-----------------------------------------------------------------------------
(***************************************************************************)
(* What the accumulator does with an entry about a call.                   *)
(***************************************************************************)
CallsType(ac) == ac.tool_calls \in Seq(CallType) /\ ac.by_index \in Seq(CallType) /\ ac.current \in CallType

LEMMA NoCallType == NoCall \in CallType /\ NoCall.id = "" /\ NoCall.arguments_json = <<>>
BY DEF NoCall, CallType, CallIds

LEMMA AccOpens ==
    ASSUME NEW ac \in AccType, NEW d \in DeltaType, d.index = NoIndex, d.id # "",
           NEW b, CallsKept(accumulate_tool_call(ac, d), b)
    PROVE  b.tool_calls = Opened(ac) /\ b.by_index = ac.by_index /\ b.current = Started(d)
<1>1. PICK s, tc : s = Started(d) /\ tc = Append(ac.tool_calls, ac.current)
  OBVIOUS
<1>2. CASE ac.current = NoCall
  <2>1. accumulate_tool_call(ac, d) = [ac EXCEPT !.current = s]
    BY <1>1, <1>2 DEF accumulate_tool_call, finalize_current_tool_call
  <2>2. QED
    BY <1>1, <1>2, <2>1 DEF CallsKept, Opened, AccType
<1>3. CASE ac.current # NoCall
  <2>1. accumulate_tool_call(ac, d) = [[ac EXCEPT !.tool_calls = tc, !.current = NoCall] EXCEPT !.current = s]
    BY <1>1, <1>3 DEF accumulate_tool_call, finalize_current_tool_call
  <2>2. QED
    BY <1>1, <1>3, <2>1 DEF CallsKept, Opened, AccType
<1>4. QED
  BY <1>2, <1>3

LEMMA AccGrows ==
    ASSUME NEW ac \in AccType, NEW d \in DeltaType, d.index = NoIndex, d.id = "", ac.current # NoCall,
           NEW b, CallsKept(accumulate_tool_call(ac, d), b)
    PROVE  b.tool_calls = ac.tool_calls /\ b.by_index = ac.by_index /\ b.current = Grown(ac.current, d)
<1>1. PICK g : g = Grown(ac.current, d)
  OBVIOUS
<1>2. accumulate_tool_call(ac, d) = [ac EXCEPT !.current = g]
  BY <1>1 DEF accumulate_tool_call
<1>3. QED
  BY <1>1, <1>2 DEF CallsKept, AccType

LEMMA AccDrops ==
    ASSUME NEW ac \in AccType, NEW d \in DeltaType, d.index = NoIndex, d.id = "", ac.current = NoCall,
           NEW b, CallsKept(accumulate_tool_call(ac, d), b)
    PROVE  CallsKept(ac, b)
BY DEF accumulate_tool_call

LEMMA AccIndexed ==
    ASSUME NEW ac \in AccType, NEW d \in DeltaType, d.index # NoIndex,
           NEW b, CallsKept(accumulate_tool_call(ac, d), b),
           NEW x, x = IF d.index + 1 > Len(ac.by_index) THEN Append(ac.by_index, Started(d))
                      ELSE [ac.by_index EXCEPT ![d.index + 1] = Grown(ac.by_index[d.index + 1], d)]
    PROVE  b.tool_calls = ac.tool_calls /\ b.current = ac.current /\ b.by_index = x
<1>1. accumulate_tool_call(ac, d) = [ac EXCEPT !.by_index = x]
  BY DEF accumulate_tool_call, ByIndex
<1>2. QED
  BY <1>1 DEF CallsKept, AccType

LEMMA CallMade ==
    ASSUME NEW i, i \in CallIds, NEW n, n \in Seq({"name"}), NEW f, f \in Seq(FragmentType)
    PROVE  /\ [id |-> i, name |-> n, arguments_json |-> f] \in CallType
           /\ [id |-> i, name |-> n, arguments_json |-> f].id = i
           /\ [id |-> i, name |-> n, arguments_json |-> f].name = n
           /\ [id |-> i, name |-> n, arguments_json |-> f].arguments_json = f
BY DEF CallType

LEMMA GrownFacts ==
    ASSUME NEW c \in CallType, NEW d \in DeltaType, d.id = "", NEW g, g = Grown(c, d)
    PROVE  /\ g \in CallType /\ g.id = c.id
           /\ g.name = c.name \o d.name
           /\ d.name = <<>> => g.name = c.name
           /\ g.arguments_json = c.arguments_json \o d.arguments
<1>1. /\ c.name \in Seq({"name"}) /\ c.arguments_json \in Seq(FragmentType) /\ c.id \in CallIds
      /\ d.name \in Seq({"name"}) /\ d.arguments \in Seq(FragmentType)
  BY DEF CallType, DeltaType
<1>2. PICK n, f : n = c.name \o d.name /\ f = c.arguments_json \o d.arguments
  OBVIOUS
<1>3. n \in Seq({"name"}) /\ f \in Seq(FragmentType)
  BY <1>1, <1>2, ConcatProperties
<1>4. g = [id |-> c.id, name |-> n, arguments_json |-> f]
  BY <1>2 DEF Grown
<1>5. g \in CallType /\ g.id = c.id /\ g.name = n /\ g.arguments_json = f
  <2>1. c.id \in CallIds /\ n \in Seq({"name"}) /\ f \in Seq(FragmentType)
    BY <1>1, <1>3
  <2>2. /\ [id |-> c.id, name |-> n, arguments_json |-> f] \in CallType
        /\ [id |-> c.id, name |-> n, arguments_json |-> f].id = c.id
        /\ [id |-> c.id, name |-> n, arguments_json |-> f].name = n
        /\ [id |-> c.id, name |-> n, arguments_json |-> f].arguments_json = f
    BY <2>1, CallMade
  <2>3. QED
    BY <1>4, <2>2
<1>6. d.name = <<>> => n = c.name
  BY <1>1, <1>2, ConcatEmptySeq
<1>7. QED
  BY <1>2, <1>5, <1>6

SameBelow(L, M, n) == \A i \in 1..n : i # n => L[i] = M[i]

LEMMA LastSet ==
    ASSUME NEW K \in Seq(CallType), NEW x \in CallType, NEW L \in Seq(CallType), NEW M \in Seq(CallType), NEW n \in Nat,
           Len(L) = n, Len(M) = n, n \in 1..n, M[n] = x, SameBelow(L, M, n)
    PROVE  [L EXCEPT ![n] = x] = M
<1>1. PICK N : N = [L EXCEPT ![n] = x]
  OBVIOUS
<1>2. N \in Seq(CallType) /\ Len(N) = n /\ DOMAIN L = 1..n
  BY <1>1, ExceptSeq, LenProperties
<1>3. \A i \in 1..n : N[i] = M[i]
  BY <1>1, <1>2 DEF SameBelow
<1>4. N = M
  BY <1>2, <1>3, SeqEqual
<1>5. QED
  BY <1>1, <1>4

LEMMA AppendLast ==
    ASSUME NEW K \in Seq(CallType), NEW c \in CallType, NEW x \in CallType,
           NEW L, L = Append(K, c)
    PROVE  /\ L \in Seq(CallType)
           /\ Len(L) = Len(K) + 1
           /\ Len(K) + 1 \in DOMAIN L
           /\ L[Len(K) + 1] = c
           /\ [L EXCEPT ![Len(K) + 1] = x] = Append(K, x)
<1>1. PICK M : M = Append(K, x)
  OBVIOUS
<1>2. /\ L \in Seq(CallType) /\ M \in Seq(CallType) /\ Len(K) \in Nat
      /\ Len(L) = Len(K) + 1 /\ Len(M) = Len(K) + 1
      /\ DOMAIN L = 1..Len(K) + 1 /\ DOMAIN M = 1..Len(K) + 1
      /\ L[Len(K) + 1] = c /\ M[Len(K) + 1] = x
      /\ \A i \in 1..Len(K) : L[i] = K[i] /\ M[i] = K[i]
  BY <1>1, AppendProperties, LenProperties
<1>3. PICK n \in Nat : n = Len(K) + 1
  BY <1>2
<1>4. n \in 1..n /\ SameBelow(L, M, n)
  BY <1>2, <1>3 DEF SameBelow
<1>5. [L EXCEPT ![n] = x] = M
  <2>1. Len(L) = n /\ Len(M) = n /\ M[n] = x
    BY <1>2, <1>3
  <2>2. QED
    BY <1>2, <1>4, <2>1, LastSet
<1>6. Len(K) + 1 \in DOMAIN L
  BY <1>2
<1>7. QED
  BY <1>1, <1>2, <1>3, <1>5, <1>6

LEMMA ShortFacts == ASSUME NEW h PROVE <<h>> # <<>> /\ Len(<<h>>) = 1 /\ Len(<<>>) = 0
OBVIOUS

LEMMA GoesOnFacts ==
    ASSUME NEW calls, NEW e, GoesOn(calls, e)
    PROVE  /\ e.slot \in DOMAIN calls /\ e.id = ""
           /\ Len(calls[e.slot].arguments_json) # 2
           /\ e.arguments # <<>>
<1>1. e.slot \in DOMAIN calls /\ e.id = ""
  BY DEF GoesOn
<1>2. PICK g, h, u, v : g = calls[e.slot].arguments_json /\ h = e.arguments
                        /\ u = Fragment(e.slot, "head") /\ v = Fragment(e.slot, "tail")
  OBVIOUS
<1>3. (g = <<>> /\ h = <<u>>) \/ (g = <<u>> /\ h = <<v>>)
  BY <1>2 DEF GoesOn
<1>4. Len(g) # 2 /\ h # <<>>
  BY <1>3, ShortFacts
<1>5. QED
  BY <1>1, <1>2, <1>4

LEMMA DeltaFacts ==
    ASSUME NEW e \in EntryType, NEW k \in Int, NEW d, d = Delta(k, e)
    PROVE  /\ d \in DeltaType
           /\ d.index = k /\ d.id = e.id /\ d.name = e.name /\ d.arguments = e.arguments
           /\ Started(d) = Started(e)
<1>1. d.index = k /\ d.id = e.id /\ d.name = e.name /\ d.arguments = e.arguments
  BY DEF Delta
<1>2. d \in DeltaType
  BY DEF Delta, DeltaType, EntryType
<1>3. QED
  BY <1>1, <1>2 DEF Started

(* A new call closes the one in progress.                                  *)
LEMMA OpenedFacts ==
    ASSUME NEW ac \in AccType, Once(Append(ac.tool_calls, ac.current))
    PROVE  /\ Opened(ac) \in Seq(CallType)
           /\ Once(Opened(ac))
           /\ Fragments(Opened(ac)) \subseteq Fragments(Append(ac.tool_calls, ac.current))
<1>1. ac.tool_calls \in Seq(CallType) /\ ac.current \in CallType
  BY DEF AccType
<1>2. PICK L : L = Append(ac.tool_calls, ac.current)
  OBVIOUS
<1>3. /\ L \in Seq(CallType) /\ Once(L) /\ Once(ac.tool_calls)
      /\ Fragments(ac.tool_calls) \subseteq Fragments(L)
  BY <1>1, <1>2, OnceAppend
<1>4. CASE ac.current = NoCall
  BY <1>1, <1>2, <1>3, <1>4 DEF Opened
<1>5. CASE ac.current # NoCall
  <2>1. Opened(ac) = L
    BY <1>2, <1>5 DEF Opened
  <2>2. QED
    BY <1>2, <1>3, <2>1
<1>6. QED
  BY <1>4, <1>5

LEMMA OtherOpens ==
    ASSUME NEW a, a # "chat", NEW ac \in AccType, NEW calls, NEW lost, NEW ph, ph # "done", CallPart(a, ac, calls, lost, ph),
           NEW e \in EntryType, OpensCall(calls, e),
           NEW b, CallsKept(accumulate_tool_call(ac, Delta(NoIndex, e)), b),
           NEW x, x = Extended(calls, e)
    PROVE  CallPart(a, b, x, lost, ph) /\ CallsType(b)
<1>1. /\ Shape(calls) /\ Once(Append(ac.tool_calls, ac.current))
      /\ Fragments(Append(ac.tool_calls, ac.current)) \subseteq Fragments(calls)
      /\ ac.by_index = <<>>
      /\ lost \cap Mixed = {} => Opened(ac) = calls
  BY DEF CallPart, Held, SameCalls
<1>2. PICK d : d = Delta(NoIndex, e)
  OBVIOUS
<1>3. d \in DeltaType /\ d.index = NoIndex /\ d.id = e.id /\ Started(d) = Started(e)
  BY <1>2, DeltaFacts DEF NoIndex
<1>4. e.id # ""
  BY IdsFacts DEF OpensCall, EntryType
<1>5. b.tool_calls = Opened(ac) /\ b.by_index = <<>> /\ b.current = Started(e)
  BY <1>1, <1>2, <1>3, <1>4, AccOpens
<1>6. /\ x = Append(calls, Started(e)) /\ Started(e) \in CallType /\ Started(e) # NoCall
      /\ Started(e).arguments_json = e.arguments /\ Shape(x)
      /\ Fragments(x) = Fragments(calls) \cup Range_(e.arguments)
  BY <1>1, CallOpened DEF Adds
<1>7. MayCome(calls, e)
  BY DEF MayCome
<1>8. Distinct(e.arguments) /\ Range_(e.arguments) \cap Fragments(calls) = {}
  BY <1>1, <1>7, EntryFresh
<1>9. PICK K : K = Opened(ac)
  OBVIOUS
<1>10. K \in Seq(CallType) /\ Once(K) /\ Fragments(K) \subseteq Fragments(calls)
  BY <1>1, <1>9, OpenedFacts
<1>11. PICK c : c = Started(e)
  OBVIOUS
<1>12. Once(Append(K, c)) /\ Fragments(Append(K, c)) = Fragments(K) \cup Range_(e.arguments)
  BY <1>6, <1>8, <1>10, <1>11, OnceAppend
<1>13. Held(a, b) = Append(K, c) /\ Opened(b) = Append(K, c)
  BY <1>5, <1>6, <1>9, <1>11 DEF Held, Opened
<1>14. SameCalls(a, b, x, lost, ph)
  BY <1>1, <1>5, <1>6, <1>9, <1>11, <1>13 DEF SameCalls
<1>15. CallPart(a, b, x, lost, ph)
  <2>1. Once(Held(a, b)) /\ Fragments(Held(a, b)) \subseteq Fragments(x)
    BY <1>6, <1>10, <1>12, <1>13
  <2>2. QED
    BY <1>6, <1>14, <2>1 DEF CallPart
<1>16. CallsType(b)
  BY <1>5, <1>6, <1>9, <1>10 DEF CallsType
<1>17. QED
  BY <1>15, <1>16

LEMMA OtherGoesOn ==
    ASSUME NEW a, a # "chat", NEW ac \in AccType, NEW calls, NEW lost, NEW ph, ph # "done", CallPart(a, ac, calls, lost, ph),
           NEW e \in EntryType, GoesOn(calls, e), e.name = <<>>,
           lost \cap Mixed = {} => e.slot = Len(calls),
           NEW b, CallsKept(accumulate_tool_call(ac, Delta(NoIndex, e)), b),
           NEW x, x = Extended(calls, e)
    PROVE  CallPart(a, b, x, lost, ph) /\ CallsType(b)
<1>1. /\ Shape(calls) /\ Once(Append(ac.tool_calls, ac.current))
      /\ Fragments(Append(ac.tool_calls, ac.current)) \subseteq Fragments(calls)
      /\ ac.by_index = <<>>
      /\ lost \cap Mixed = {} => Opened(ac) = calls
      /\ lost \cap Mixed = {} /\ ac.current = NoCall => \A s \in DOMAIN calls : Len(calls[s].arguments_json) = 2
  BY DEF CallPart, Held, SameCalls
<1>2. PICK d : d = Delta(NoIndex, e)
  OBVIOUS
<1>3. /\ d \in DeltaType /\ d.index = NoIndex /\ d.id = "" /\ d.name = <<>> /\ d.arguments = e.arguments
  <2>1. NoIndex \in Int
    BY DEF NoIndex
  <2>2. QED
    <3>1. /\ d \in DeltaType /\ d.index = NoIndex /\ d.id = e.id /\ d.name = e.name
          /\ d.arguments = e.arguments
      BY <1>2, <2>1, DeltaFacts
    <3>2. e.id = ""
      BY GoesOnFacts
    <3>3. QED
      BY <3>1, <3>2
<1>4. /\ Shape(x) /\ Len(x) = Len(calls) /\ DOMAIN x = DOMAIN calls
      /\ Fragments(x) = Fragments(calls) \cup Range_(e.arguments)
  <2>1. Shape(x)
    BY <1>1, CallGoesOn
  <2>2. Len(x) = Len(calls)
    BY <1>1, CallGoesOn
  <2>3. DOMAIN x = DOMAIN calls
    BY <1>1, CallGoesOn
  <2>4. Adds(x, calls, e.arguments)
    BY <1>1, CallGoesOn
  <2>5. QED
    BY <2>1, <2>2, <2>3, <2>4 DEF Adds
<1>5. MayCome(calls, e)
  BY DEF MayCome
<1>6. e.arguments \in Seq(FragmentType) /\ Distinct(e.arguments) /\ Range_(e.arguments) \cap Fragments(calls) = {}
  BY <1>1, <1>5, EntryFresh
<1>7. ac.tool_calls \in Seq(CallType) /\ ac.current \in CallType
  BY DEF AccType
<1>8. e.slot \in DOMAIN calls /\ Len(calls[e.slot].arguments_json) # 2
  BY GoesOnFacts
<1>9. CASE ac.current = NoCall
  <2>1. CallsKept(ac, b)
    BY <1>2, <1>3, <1>9, AccDrops
  <2>2. lost \cap Mixed # {}
    BY <1>1, <1>8, <1>9
  <2>3. Held(a, b) = Held(a, ac)
    BY <2>1 DEF CallsKept, Held
  <2>4. Once(Held(a, b)) /\ Fragments(Held(a, b)) \subseteq Fragments(x)
    BY <1>1, <1>4, <2>3 DEF Held
  <2>5. SameCalls(a, b, x, lost, ph)
    BY <1>1, <2>1, <2>2 DEF SameCalls, CallsKept
  <2>6. CallsType(b)
    BY <1>1, <1>7, <2>1 DEF CallsType, CallsKept
  <2>7. QED
    BY <1>4, <2>4, <2>5, <2>6 DEF CallPart
<1>10. CASE ac.current # NoCall
  <2>1. PICK g : g = Grown(ac.current, d)
    OBVIOUS
  <2>2. b.tool_calls = ac.tool_calls /\ b.by_index = <<>> /\ b.current = g
    BY <1>1, <1>2, <1>3, <1>10, <2>1, AccGrows
  <2>3. /\ g \in CallType /\ g.id = ac.current.id /\ g.name = ac.current.name
        /\ g.arguments_json = ac.current.arguments_json \o e.arguments
    <3>1. g \in CallType /\ g.id = ac.current.id
      BY <1>3, <1>7, <2>1, GrownFacts
    <3>2. g.name = ac.current.name
      BY <1>3, <1>7, <2>1, GrownFacts
    <3>3. g.arguments_json = ac.current.arguments_json \o d.arguments
      BY <1>3, <1>7, <2>1, GrownFacts
    <3>4. QED
      BY <1>3, <3>1, <3>2, <3>3
  <2>4. PICK K, L, n : K = ac.tool_calls /\ L = Append(K, ac.current) /\ n = Len(K) + 1
    OBVIOUS
  <2>5. /\ L \in Seq(CallType) /\ n \in DOMAIN L /\ L[n] = ac.current /\ Len(L) = n
        /\ [L EXCEPT ![n] = g] = Append(K, g)
    BY <1>7, <2>3, <2>4, AppendLast
  <2>6. Once(L) /\ Fragments(L) \subseteq Fragments(calls)
    BY <1>1, <2>4
  <2>7. g.arguments_json = L[n].arguments_json \o e.arguments
    BY <2>3, <2>5
  <2>8. /\ Fragments([L EXCEPT ![n] = g]) = Fragments(L) \cup Range_(e.arguments)
        /\ Once([L EXCEPT ![n] = g])
    <3>1. Range_(e.arguments) \cap Fragments(L) = {}
      BY <1>6, <2>6
    <3>2. PICK f \in Seq(FragmentType) : f = e.arguments
      BY <1>6
    <3>3. g.arguments_json = L[n].arguments_json \o f /\ Distinct(f) /\ Range_(f) \cap Fragments(L) = {}
      BY <1>6, <2>7, <3>1, <3>2
    <3>4. Adds([L EXCEPT ![n] = g], L, f)
      BY <2>3, <2>5, <2>6, <3>3, OnceGrown
    <3>5. Once([L EXCEPT ![n] = g])
      BY <2>3, <2>5, <2>6, <3>3, OnceGrown
    <3>6. QED
      BY <3>2, <3>4, <3>5 DEF Adds
  <2>9. PICK M : M = [L EXCEPT ![n] = g]
    OBVIOUS
  <2>10. Held(a, b) = M
    BY <2>2, <2>4, <2>5, <2>9 DEF Held
  <2>11. Once(Held(a, b)) /\ Fragments(Held(a, b)) \subseteq Fragments(x)
    BY <1>4, <2>6, <2>8, <2>9, <2>10
  <2>12. g # NoCall
    <3>1. g.arguments_json # <<>>
      <4>1. ac.current.arguments_json \in Seq(FragmentType) /\ e.arguments # <<>>
        <5>1. ac.current.arguments_json \in Seq(FragmentType)
          BY <1>7 DEF CallType
        <5>2. QED
          BY <5>1, GoesOnFacts
      <4>2. QED
        BY <1>6, <2>3, <4>1, ConcatEqualIffEmpty
    <3>2. QED
      BY <3>1, NoCallType
  <2>13. SameCalls(a, b, x, lost, ph)
    <3>1. ASSUME lost \cap Mixed = {} PROVE Opened(b) = x
      <4>1. calls = L /\ e.slot = n
        BY <1>1, <1>10, <2>4, <2>5, <3>1 DEF Opened
      <4>2. PICK f : f = calls[e.slot].arguments_json \o e.arguments
        OBVIOUS
      <4>3. x = [L EXCEPT ![n].arguments_json = f]
        <5>1. ~(e.slot > Len(calls))
          BY <2>5, <4>1, <1>1, ShapeFacts
        <5>2. QED
          BY <4>1, <4>2, <5>1 DEF Extended
      <4>4. g = [ac.current EXCEPT !.arguments_json = f]
        <5>1. g.arguments_json = f
          BY <2>3, <2>5, <4>1, <4>2
        <5>2. QED
          BY <1>7, <2>3, <5>1 DEF CallType
      <4>5. x = M
        BY <2>5, <2>9, <4>3, <4>4
      <4>6. Opened(b) = M
        BY <2>2, <2>4, <2>5, <2>9, <2>12 DEF Opened
      <4>7. QED
        BY <4>5, <4>6
    <3>2. QED
      BY <2>2, <2>12, <3>1 DEF SameCalls
  <2>14. CallsType(b)
    BY <1>7, <2>2, <2>3 DEF CallsType
  <2>15. QED
    BY <1>4, <2>11, <2>13, <2>14 DEF CallPart
<1>11. QED
  BY <1>9, <1>10

(* Chat completions: every entry says which call it is about.              *)
SameCall(c, d, lost) ==
    c.id = d.id /\ c.arguments_json = d.arguments_json /\ (lost \cap Mixed = {} => c.name = d.name)

NamedOnce(e, lost) == lost \cap Mixed = {} => e.name = <<>>

LEMMA ChatPart ==
    ASSUME NEW ac, NEW calls, NEW lost, NEW ph
    PROVE  CallPart("chat", ac, calls, lost, ph) <=>
              /\ Shape(calls) /\ Once(ac.by_index)
              /\ Fragments(ac.by_index) \subseteq Fragments(calls)
              /\ ac.tool_calls = <<>> /\ ac.current = NoCall
              /\ Len(ac.by_index) = Len(calls)
              /\ \A i \in DOMAIN calls : SameCall(ac.by_index[i], calls[i], lost)
BY DEF CallPart, Held, SameCalls, SameCall

LEMMA ChatOpens ==
    ASSUME NEW ac \in AccType, NEW calls, NEW lost, NEW ph, CallPart("chat", ac, calls, lost, ph),
           NEW e \in EntryType, OpensCall(calls, e),
           NEW k \in Nat, e.slot = k + 1,
           NEW b, CallsKept(accumulate_tool_call(ac, Delta(k, e)), b),
           NEW x, x = Extended(calls, e)
    PROVE  CallPart("chat", b, x, lost, ph) /\ CallsType(b)
<1>1. /\ Shape(calls) /\ Once(ac.by_index)
      /\ Fragments(ac.by_index) \subseteq Fragments(calls)
      /\ ac.tool_calls = <<>> /\ ac.current = NoCall
      /\ Len(ac.by_index) = Len(calls)
      /\ \A i \in DOMAIN calls : SameCall(ac.by_index[i], calls[i], lost)
  BY ChatPart
<1>2. /\ calls \in Seq(CallType) /\ Len(calls) \in Nat /\ DOMAIN calls = 1..Len(calls)
  BY <1>1, ShapeFacts
<1>3. e.slot \in Nat /\ e.slot = Len(calls) + 1
  BY <1>2 DEF EntryType, OpensCall
<1>4. PICK d : d = Delta(k, e)
  OBVIOUS
<1>5. d \in DeltaType /\ d.index = k /\ Started(d) = Started(e)
  BY <1>4, DeltaFacts
<1>6. d.index # NoIndex /\ d.index + 1 > Len(ac.by_index)
  BY <1>1, <1>2, <1>3, <1>5 DEF NoIndex
<1>7. b.tool_calls = <<>> /\ b.current = NoCall /\ b.by_index = Append(ac.by_index, Started(e))
  <2>1. PICK y : y = IF d.index + 1 > Len(ac.by_index) THEN Append(ac.by_index, Started(d))
                      ELSE [ac.by_index EXCEPT ![d.index + 1] = Grown(ac.by_index[d.index + 1], d)]
    OBVIOUS
  <2>2. b.tool_calls = ac.tool_calls /\ b.current = ac.current /\ b.by_index = y
    BY <1>4, <1>5, <1>6, <2>1, AccIndexed
  <2>3. y = Append(ac.by_index, Started(e))
    BY <1>5, <1>6, <2>1
  <2>4. QED
    BY <1>1, <2>2, <2>3
<1>8. /\ x = Append(calls, Started(e)) /\ Started(e) \in CallType
      /\ Started(e).arguments_json = e.arguments /\ Shape(x)
      /\ Adds(x, calls, e.arguments)
  BY <1>1, CallOpened
<1>9. MayCome(calls, e)
  BY DEF MayCome
<1>10. Distinct(e.arguments) /\ Range_(e.arguments) \cap Fragments(calls) = {}
  BY <1>1, <1>9, EntryFresh
<1>11. PICK K, c : K = ac.by_index /\ c = Started(e)
  OBVIOUS
<1>12. K \in Seq(CallType) /\ c \in CallType
  BY <1>8, <1>11 DEF AccType
<1>13. Once(Append(K, c)) /\ Fragments(Append(K, c)) = Fragments(K) \cup Range_(e.arguments)
  BY <1>1, <1>8, <1>10, <1>11, <1>12, OnceAppend
<1>14. Once(b.by_index) /\ Fragments(b.by_index) \subseteq Fragments(x)
  BY <1>1, <1>7, <1>8, <1>11, <1>13 DEF Adds
<1>15. PICK L : L = Append(K, c)
  OBVIOUS
<1>16. /\ L \in Seq(CallType) /\ Len(L) = Len(calls) + 1 /\ L[Len(calls) + 1] = c
       /\ \A i \in 1..Len(calls) : L[i] = K[i]
  BY <1>1, <1>11, <1>12, <1>15, AppendProperties, LenProperties
<1>17. /\ Len(x) = Len(calls) + 1 /\ DOMAIN x = 1..Len(calls) + 1 /\ x[Len(calls) + 1] = c
       /\ \A i \in 1..Len(calls) : x[i] = calls[i]
  BY <1>2, <1>8, <1>11, AppendProperties, LenProperties
<1>18. \A i \in DOMAIN x : SameCall(L[i], x[i], lost)
  <2>1. SUFFICES ASSUME NEW i \in DOMAIN x PROVE SameCall(L[i], x[i], lost)
    OBVIOUS
  <2>2. CASE i \in 1..Len(calls)
    BY <1>1, <1>2, <1>11, <1>16, <1>17, <2>2
  <2>3. CASE i = Len(calls) + 1
    BY <1>16, <1>17, <2>3 DEF SameCall
  <2>4. QED
    BY <1>2, <1>17, <2>2, <2>3
<1>19. b.by_index = L
  BY <1>7, <1>11, <1>15
<1>20. CallPart("chat", b, x, lost, ph)
  BY <1>7, <1>8, <1>14, <1>16, <1>17, <1>18, <1>19, ChatPart
<1>21. CallsType(b)
  <2>1. <<>> \in Seq(CallType)
    OBVIOUS
  <2>2. QED
    BY <1>7, <1>16, <1>19, <2>1, NoCallType DEF CallsType
<1>22. QED
  BY <1>20, <1>21

LEMMA ChatGoesOn ==
    ASSUME NEW ac \in AccType, NEW calls, NEW lost, NEW ph, CallPart("chat", ac, calls, lost, ph),
           NEW e \in EntryType, GoesOn(calls, e), NamedOnce(e, lost),
           NEW k \in Nat, e.slot = k + 1,
           NEW b, CallsKept(accumulate_tool_call(ac, Delta(k, e)), b),
           NEW x, x = Extended(calls, e)
    PROVE  CallPart("chat", b, x, lost, ph) /\ CallsType(b)
<1>1. /\ Shape(calls) /\ Once(ac.by_index)
      /\ Fragments(ac.by_index) \subseteq Fragments(calls)
      /\ ac.tool_calls = <<>> /\ ac.current = NoCall
      /\ Len(ac.by_index) = Len(calls)
      /\ \A i \in DOMAIN calls : SameCall(ac.by_index[i], calls[i], lost)
  BY ChatPart
<1>2. PICK K, n : K = ac.by_index /\ n = e.slot
  OBVIOUS
<1>3. K \in Seq(CallType) /\ Len(K) = Len(calls) /\ DOMAIN K = 1..Len(calls)
  <2>1. K \in Seq(CallType)
    BY <1>2 DEF AccType
  <2>2. QED
    BY <1>1, <1>2, <2>1, LenProperties
<1>4. Len(calls) \in Nat /\ DOMAIN calls = 1..Len(calls)
  BY <1>1, ShapeFacts
<1>0. e.id = "" /\ e.arguments \in Seq(FragmentType)
  <2>1. e.arguments \in Seq(FragmentType)
    BY DEF EntryType
  <2>2. QED
    BY <2>1, GoesOnFacts
<1>5. n \in Nat /\ n \in 1..Len(calls)
  <2>1. e.slot \in DOMAIN calls
    BY GoesOnFacts
  <2>2. QED
    BY <1>2, <1>4, <2>1
<1>6. PICK d : d = Delta(k, e)
  OBVIOUS
<1>7. /\ d \in DeltaType /\ d.index = k /\ d.id = "" /\ d.name = e.name /\ d.arguments = e.arguments
  <2>1. k \in Int
    OBVIOUS
  <2>2. d \in DeltaType /\ d.index = k /\ d.id = e.id /\ d.name = e.name /\ d.arguments = e.arguments
    BY <1>6, <2>1, DeltaFacts
  <2>3. QED
    BY <1>0, <2>2
<1>8. d.index # NoIndex /\ ~(d.index + 1 > Len(K)) /\ d.index + 1 = n
  <2>1. d.index = k /\ Len(K) = Len(calls) /\ k + 1 = n
    BY <1>2, <1>3, <1>7
  <2>2. k # -1 /\ ~(k + 1 > Len(calls))
    BY <1>4, <1>5, <2>1
  <2>3. QED
    BY <2>1, <2>2 DEF NoIndex
<1>9. K[n] \in CallType
  BY <1>3, <1>5, ElementOfSeq
<1>10. PICK g : g = Grown(K[n], d)
  OBVIOUS
<1>11. g \in CallType /\ g.id = K[n].id
  BY <1>7, <1>9, <1>10, GrownFacts
<1>12. d.name = <<>> => g.name = K[n].name
  BY <1>7, <1>9, <1>10, GrownFacts
<1>13. g.arguments_json = K[n].arguments_json \o d.arguments
  BY <1>7, <1>9, <1>10, GrownFacts
<1>14. PICK L : L = [K EXCEPT ![n] = g]
  OBVIOUS
<1>15. b.tool_calls = <<>> /\ b.current = NoCall /\ b.by_index = L
  <2>1. PICK y : y = IF d.index + 1 > Len(ac.by_index) THEN Append(ac.by_index, Started(d))
                      ELSE [ac.by_index EXCEPT ![d.index + 1] = Grown(ac.by_index[d.index + 1], d)]
    OBVIOUS
  <2>2. b.tool_calls = ac.tool_calls /\ b.current = ac.current /\ b.by_index = y
    <3>1. d \in DeltaType
      BY <1>7
    <3>2. QED
      BY <1>2, <1>6, <1>8, <2>1, <3>1, AccIndexed
  <2>3. y = L
    BY <1>2, <1>8, <1>10, <1>14, <2>1
  <2>4. QED
    BY <1>1, <2>2, <2>3
<1>16. /\ L \in Seq(CallType) /\ Len(L) = Len(calls) /\ L[n] = g
       /\ \A i \in 1..Len(calls) : i # n => L[i] = K[i]
  BY <1>3, <1>5, <1>11, <1>14, ExceptSeq
<1>17. MayCome(calls, e)
  BY DEF MayCome
<1>18. Distinct(e.arguments) /\ Range_(e.arguments) \cap Fragments(calls) = {}
  BY <1>1, <1>17, EntryFresh
<1>19. Adds(L, K, e.arguments) /\ Once(L)
  <2>1. PICK f \in Seq(FragmentType) : f = e.arguments
    BY <1>0
  <2>2. g.arguments_json = K[n].arguments_json \o f /\ Distinct(f) /\ Range_(f) \cap Fragments(K) = {} /\ Once(K)
    BY <1>1, <1>2, <1>7, <1>13, <1>18, <2>1
  <2>3. n \in DOMAIN K
    BY <1>3, <1>5
  <2>4. Adds([K EXCEPT ![n] = g], K, f)
    BY <1>3, <1>11, <2>2, <2>3, OnceGrown
  <2>5. Once([K EXCEPT ![n] = g])
    BY <1>3, <1>11, <2>2, <2>3, OnceGrown
  <2>6. QED
    BY <1>14, <2>1, <2>4, <2>5
<1>20. Shape(x) /\ Adds(x, calls, e.arguments)
  <2>1. Shape(x)
    BY <1>1, CallGoesOn
  <2>2. Adds(x, calls, e.arguments)
    BY <1>1, CallGoesOn
  <2>3. QED
    BY <2>1, <2>2
<1>21. Len(x) = Len(calls) /\ DOMAIN x = DOMAIN calls
  <2>1. Len(x) = Len(calls)
    BY <1>1, CallGoesOn
  <2>2. DOMAIN x = DOMAIN calls
    BY <1>1, CallGoesOn
  <2>3. QED
    BY <2>1, <2>2
<1>22. Grew(x, calls, e)
  BY <1>1, CallGoesOn
<1>23. /\ x[n].id = calls[n].id /\ x[n].name = calls[n].name
       /\ x[n].arguments_json = calls[n].arguments_json \o e.arguments
  BY <1>2, <1>22 DEF Grew
<1>24. \A i \in DOMAIN x : SameCall(L[i], x[i], lost)
  <2>1. SUFFICES ASSUME NEW i \in DOMAIN calls PROVE SameCall(L[i], x[i], lost)
    BY <1>21
  <2>2. SameCall(K[i], calls[i], lost)
    BY <1>1, <1>2
  <2>3. CASE i = n
    <3>1. g.id = x[n].id
      BY <1>11, <1>23, <2>2, <2>3 DEF SameCall
    <3>2. g.arguments_json = x[n].arguments_json
      BY <1>7, <1>13, <1>23, <2>2, <2>3 DEF SameCall
    <3>3. lost \cap Mixed = {} => g.name = x[n].name
      BY <1>7, <1>12, <1>23, <2>2, <2>3 DEF SameCall, NamedOnce
    <3>4. QED
      BY <1>16, <2>3, <3>1, <3>2, <3>3 DEF SameCall
  <2>4. CASE i # n
    <3>1. x[i] = calls[i]
      BY <1>1, <1>2, <2>4, OthersStay
    <3>2. L[i] = K[i]
      BY <1>4, <1>16, <2>4
    <3>3. QED
      BY <2>2, <3>1, <3>2
  <2>5. QED
    BY <2>3, <2>4
<1>25. Once(b.by_index) /\ Fragments(b.by_index) \subseteq Fragments(x)
  BY <1>1, <1>2, <1>15, <1>19, <1>20 DEF Adds
<1>26. CallPart("chat", b, x, lost, ph)
  BY <1>15, <1>16, <1>20, <1>21, <1>24, <1>25, ChatPart
<1>27. CallsType(b)
  <2>1. <<>> \in Seq(CallType)
    OBVIOUS
  <2>2. QED
    BY <1>15, <1>16, <2>1, NoCallType DEF CallsType
<1>28. QED
  BY <1>26, <1>27

(* The calls of the answer grow and the accumulator does not see it.       *)
LEMMA Unfed ==
    ASSUME NEW a, a # "chat", NEW ac, NEW calls, NEW lost, NEW ph, CallPart(a, ac, calls, lost, ph),
           lost \cap Mixed # {}, NEW e \in EntryType, OpensCall(calls, e)
    PROVE  CallPart(a, ac, Extended(calls, e), lost, ph)
<1>1. PICK x : x = Extended(calls, e)
  OBVIOUS
<1>2. Shape(calls)
  BY DEF CallPart
<1>3. Shape(x) /\ Adds(x, calls, e.arguments)
  BY <1>1, <1>2, CallOpened
<1>4. SameCalls(a, ac, x, lost, ph)
  BY DEF CallPart, SameCalls
<1>5. Fragments(calls) \subseteq Fragments(x)
  BY <1>3 DEF Adds
<1>6. QED
  BY <1>1, <1>3, <1>4, <1>5 DEF CallPart

(* Closing the call in progress, at the end or when it is looked at.       *)
OnlyCalls(a, b) ==
    /\ b.text = a.text /\ b.thinking = a.thinking /\ b.usage = a.usage
    /\ b.stop_reason = a.stop_reason /\ b.response_id = a.response_id

Closable(calls, lost, ph) ==
    \/ ph = "done"
    \/ lost \cap Mixed # {}
    \/ \A s \in DOMAIN calls : Len(calls[s].arguments_json) = 2

LEMMA Finished ==
    ASSUME NEW a, NEW ac \in AccType, NEW calls, NEW lost, NEW ph, CallPart(a, ac, calls, lost, ph),
           NEW lost2, NEW ph2, lost \subseteq lost2, Closable(calls, lost2, ph2),
           NEW b, b = finalize_current_tool_call(ac)
    PROVE  CallPart(a, b, calls, lost2, ph2) /\ b \in AccType /\ OnlyCalls(ac, b)
<1>1. ac.tool_calls \in Seq(CallType) /\ ac.current \in CallType
  BY DEF AccType
<1>2. PICK K : K = Opened(ac)
  OBVIOUS
<1>3. K \in Seq(CallType)
  BY <1>1, <1>2, AppendProperties DEF Opened
<1>4. b = [ac EXCEPT !.tool_calls = K, !.current = NoCall]
  BY <1>2 DEF finalize_current_tool_call, Opened, AccType
<1>5. /\ b.tool_calls = K /\ b.current = NoCall /\ b.by_index = ac.by_index
      /\ b.text = ac.text /\ b.thinking = ac.thinking /\ b.usage = ac.usage
      /\ b.stop_reason = ac.stop_reason /\ b.response_id = ac.response_id
  BY <1>4 DEF AccType
<1>6. b \in AccType
  BY <1>3, <1>4, NoCallType DEF AccType
<1>7. lost2 \cap Mixed = {} => lost \cap Mixed = {}
  OBVIOUS
<1>8. OnlyCalls(ac, b)
  BY <1>5 DEF OnlyCalls
<1>9. CASE a = "chat"
  <2>1. ac.tool_calls = <<>> /\ ac.current = NoCall
    BY <1>9, ChatPart
  <2>2. K = <<>>
    BY <1>2, <2>1 DEF Opened
  <2>3. Held(a, b) = Held(a, ac)
    BY <1>5, <1>9 DEF Held
  <2>4. SameCalls(a, b, calls, lost2, ph2)
    BY <1>5, <1>7, <1>9, <2>2 DEF CallPart, SameCalls
  <2>5. QED
    BY <1>6, <1>8, <2>3, <2>4 DEF CallPart
<1>10. CASE a # "chat"
  <2>1. /\ Once(Append(ac.tool_calls, ac.current))
        /\ Fragments(Append(ac.tool_calls, ac.current)) \subseteq Fragments(calls)
        /\ ac.by_index = <<>> /\ Shape(calls)
        /\ lost \cap Mixed = {} => Opened(ac) = calls
    BY <1>10 DEF CallPart, Held, SameCalls
  <2>2. Once(K) /\ Fragments(K) \subseteq Fragments(calls)
    BY <1>2, <2>1, OpenedFacts
  <2>3. Distinct(NoCall.arguments_json) /\ Range_(NoCall.arguments_json) = {}
    <3>1. NoCall.arguments_json = <<>>
      BY NoCallType
    <3>2. Distinct(<<>>) /\ Range_(<<>>) = {}
      BY DEF Distinct, Range_
    <3>3. QED
      BY <3>1, <3>2
  <2>4. Once(Append(K, NoCall)) /\ Fragments(Append(K, NoCall)) = Fragments(K)
    BY <1>3, <2>2, <2>3, NoCallType, OnceAppend
  <2>5. Held(a, b) = Append(K, NoCall)
    BY <1>5, <1>10 DEF Held
  <2>6. Opened(b) = K
    BY <1>5 DEF Opened
  <2>7. SameCalls(a, b, calls, lost2, ph2)
    BY <1>2, <1>5, <1>7, <1>10, <2>1, <2>6 DEF SameCalls, Closable
  <2>8. QED
    BY <1>6, <1>8, <2>1, <2>2, <2>4, <2>5, <2>7 DEF CallPart
<1>11. QED
  BY <1>9, <1>10

(* More is lost, or nothing that concerns the calls happens.               *)
LEMMA CallsStay ==
    ASSUME NEW a, NEW ac, NEW calls, NEW lost, NEW ph, CallPart(a, ac, calls, lost, ph),
           NEW lost2, NEW ph2, lost \subseteq lost2, ph2 = "done" \/ ph # "done",
           NEW b, CallsKept(ac, b)
    PROVE  CallPart(a, b, calls, lost2, ph2)
<1>1. lost2 \cap Mixed = {} => lost \cap Mixed = {}
  OBVIOUS
<1>2. Held(a, b) = Held(a, ac) /\ Opened(b) = Opened(ac)
  BY DEF Held, Opened, CallsKept
<1>3. SameCalls(a, b, calls, lost2, ph2)
  BY <1>1, <1>2 DEF CallPart, SameCalls, CallsKept
<1>4. QED
  BY <1>2, <1>3 DEF CallPart
-----------------------------------------------------------------------------
(***************************************************************************)
(* What one event does to the text, to the counts and to the ending.       *)
(***************************************************************************)
Joined(u, s, t) == Range_(u) = Range_(s) \cup Range_(t)
LEMMA ConcatFacts ==
    ASSUME NEW S, NEW s \in Seq(S), NEW t \in Seq(S), NEW u, u = s \o t
    PROVE  /\ u \in Seq(S)
           /\ Len(s) \in Nat /\ Len(t) \in Nat
           /\ DOMAIN s = 1..Len(s) /\ DOMAIN t = 1..Len(t)
           /\ DOMAIN u = 1..Len(s) + Len(t)
           /\ \A i \in DOMAIN s : i \in DOMAIN u /\ u[i] = s[i]
           /\ \A i \in DOMAIN u : \/ i \in DOMAIN s /\ u[i] = s[i]
                                  \/ i - Len(s) \in DOMAIN t /\ u[i] = t[i - Len(s)] /\ i > Len(s)
           /\ Joined(u, s, t)
<1>1. /\ u \in Seq(S) /\ Len(s) \in Nat /\ Len(t) \in Nat
      /\ DOMAIN s = 1..Len(s) /\ DOMAIN t = 1..Len(t)
      /\ DOMAIN u = 1..Len(s) + Len(t)
      /\ \A i \in 1..Len(s) + Len(t) : u[i] = IF i <= Len(s) THEN s[i] ELSE t[i - Len(s)]
  BY ConcatProperties, LenProperties
<1>2. Joined(u, s, t)
  BY RangeFacts DEF Joined
<1>3. QED
  BY <1>1, <1>2

LEMMA PiecesJoined ==
    ASSUME NEW s \in Seq(PieceType), NEW t \in Seq(PieceType), NEW u, u = s \o t
    PROVE  u \in Seq(PieceType) /\ Joined(u, s, t)
<1>1. u \in Seq(PieceType)
  BY ConcatProperties
<1>2. Joined(u, s, t)
  BY ConcatFacts
<1>3. QED
  BY <1>1, <1>2

PieceIn(i, u, s, t) ==
    \/ i \in DOMAIN s /\ u[i] = s[i]
    \/ i - Len(s) \in DOMAIN t /\ u[i] = t[i - Len(s)]
LEMMA PieceOf ==
    ASSUME NEW s \in Seq(PieceType), NEW t \in Seq(PieceType), NEW u, u = s \o t
    PROVE  \A i \in DOMAIN u : PieceIn(i, u, s, t)
BY ConcatFacts DEF PieceIn

(* Pieces of one event, told after what was told before.                   *)
Now(x, n) == Distinct(x) /\ \A i \in DOMAIN x : x[i].n = n
From(x, whole) == \A i \in DOMAIN x : x[i] \in Range_(whole)

LEMMA ToldMore ==
    ASSUME NEW n \in Nat, NEW part \in Seq(PieceType), NEW whole, NEW whole2, Told(part, whole, n),
           Range_(whole) \subseteq Range_(whole2),
           NEW x \in Seq(PieceType), Now(x, n), From(x, whole2),
           NEW u, u = part \o x
    PROVE  Told(u, whole2, n + 1)
<1>1. /\ Len(part) \in Nat /\ DOMAIN part = 1..Len(part)
      /\ \A i \in DOMAIN u : \/ i \in DOMAIN part /\ u[i] = part[i]
                             \/ i - Len(part) \in DOMAIN x /\ u[i] = x[i - Len(part)] /\ i > Len(part)
      /\ \A i \in DOMAIN u : i \in Nat
  BY ConcatFacts
<1>2. \A i \in DOMAIN part : part[i] \in PieceType /\ part[i].n \in Nat
  <2>1. \A i \in DOMAIN part : part[i] \in PieceType
    BY <1>1, ElementOfSeq
  <2>2. QED
    BY <2>1 DEF PieceType
<1>3. \A i \in DOMAIN u : u[i].n < n + 1 /\ u[i] \in Range_(whole2)
  BY <1>1, <1>2 DEF Told, Now, From
<1>4. ASSUME NEW i \in DOMAIN u, NEW j \in DOMAIN u, i < j
      PROVE  u[i].n <= u[j].n /\ u[i] # u[j]
  <2>1. CASE i \in DOMAIN part /\ u[i] = part[i] /\ j \in DOMAIN part /\ u[j] = part[j]
    BY <1>4, <2>1 DEF Told
  <2>2. CASE i \in DOMAIN part /\ u[i] = part[i] /\ j - Len(part) \in DOMAIN x /\ u[j] = x[j - Len(part)]
    <3>1. u[i].n < n /\ u[j].n = n /\ u[i].n \in Nat
      BY <1>2, <2>2 DEF Told, Now
    <3>2. QED
      BY <3>1
  <2>3. CASE /\ i - Len(part) \in DOMAIN x /\ u[i] = x[i - Len(part)]
             /\ j - Len(part) \in DOMAIN x /\ u[j] = x[j - Len(part)]
    <3>1. u[i].n = n /\ u[j].n = n
      BY <2>3 DEF Now
    <3>2. i - Len(part) # j - Len(part)
      BY <1>1, <1>4
    <3>3. QED
      BY <2>3, <3>1, <3>2 DEF Now, Distinct
  <2>4. QED
    BY <1>1, <1>4, <2>1, <2>2, <2>3
<1>5. QED
  BY <1>3, <1>4 DEF Told

(* What an event says, at most a piece of each, and what of it is fed.     *)
Says(tx, th, n) ==
    /\ tx = <<>> \/ \E m \in {"word", "<think>", "</think>"} : tx = <<[mark |-> m, n |-> n]>>
    /\ th = <<>> \/ th = <<[mark |-> "thought", n |-> n]>>
Feeds(a, lost, tx, th, x, y) ==
    /\ x = tx \/ x = <<>> \/ x = th \o tx
    /\ y = th \/ y = <<>>
    /\ x # tx => \/ "text beside a call" \in lost
                 \/ a = "google" /\ "thinking" \in lost
    /\ y # th => "thinking" \in lost
TagSeen(tx, lost) == \A i \in DOMAIN tx : tx[i].mark = "word" \/ "think tag" \in lost

LEMMA SaysFacts ==
    ASSUME NEW n \in Nat, NEW tx, NEW th, Says(tx, th, n)
    PROVE  /\ tx \in Seq(PieceType) /\ th \in Seq(PieceType)
           /\ Now(tx, n) /\ Now(th, n) /\ Now(th \o tx, n) /\ Now(<<>>, n)
           /\ From(tx, tx) /\ From(th, th)
<1>1. tx = <<>> \/ \E p \in PieceType : tx = <<p>> /\ p.n = n /\ p.mark # "thought"
  <2>1. CASE tx = <<>>
    BY <2>1
  <2>2. CASE tx # <<>>
    <3>1. PICK m \in {"word", "<think>", "</think>"} : tx = <<[mark |-> m, n |-> n]>>
      BY <2>2 DEF Says
    <3>2. PICK p : p = [mark |-> m, n |-> n]
      OBVIOUS
    <3>3. p \in PieceType /\ p.n = n /\ p.mark # "thought"
      BY <3>2 DEF PieceType, Marks
    <3>4. QED
      BY <3>1, <3>2, <3>3
  <2>3. QED
    BY <2>1, <2>2
<1>2. th = <<>> \/ \E p \in PieceType : th = <<p>> /\ p.n = n /\ p.mark = "thought"
  <2>1. CASE th = <<>>
    BY <2>1
  <2>2. CASE th # <<>>
    <3>1. PICK p : p = [mark |-> "thought", n |-> n]
      OBVIOUS
    <3>2. p \in PieceType /\ p.n = n /\ p.mark = "thought"
      BY <3>1 DEF PieceType, Marks
    <3>3. th = <<p>>
      BY <2>2, <3>1 DEF Says
    <3>4. QED
      BY <3>2, <3>3
  <2>3. QED
    BY <2>1, <2>2
<1>3. \A p \in PieceType : <<p>> \in Seq(PieceType) /\ (p.n = n => Now(<<p>>, n)) /\ From(<<p>>, <<p>>)
  BY DEF Now, Distinct, From, Range_
<1>4. Now(<<>>, n) /\ From(<<>>, <<>>) /\ <<>> \in Seq(PieceType)
  BY DEF Now, Distinct, From
<1>5. tx \in Seq(PieceType) /\ Now(tx, n) /\ From(tx, tx)
  BY <1>1, <1>3, <1>4
<1>6. th \in Seq(PieceType) /\ Now(th, n) /\ From(th, th)
  BY <1>2, <1>3, <1>4
<1>7. Now(th \o tx, n)
  <2>1. CASE th = <<>>
    BY <1>5, <2>1, ConcatEmptySeq
  <2>2. CASE tx = <<>>
    BY <1>6, <2>2, ConcatEmptySeq
  <2>3. CASE th # <<>> /\ tx # <<>>
    <3>1. PICK p \in PieceType : th = <<p>> /\ p.n = n /\ p.mark = "thought"
      BY <1>2, <2>3
    <3>2. PICK q \in PieceType : tx = <<q>> /\ q.n = n /\ q.mark # "thought"
      BY <1>1, <2>3
    <3>3. th \o tx = <<p, q>>
      BY <3>1, <3>2, ConcatShort
    <3>4. p # q
      BY <3>1, <3>2
    <3>5. PICK w : w = <<p, q>>
      OBVIOUS
    <3>6. w[1] = p /\ w[2] = q /\ DOMAIN w = {1, 2}
      BY <3>5
    <3>7. Now(w, n)
      BY <3>1, <3>2, <3>4, <3>6 DEF Now, Distinct
    <3>8. QED
      BY <3>3, <3>5, <3>7
  <2>4. QED
    BY <2>1, <2>2, <2>3
<1>8. QED
  BY <1>4, <1>5, <1>6, <1>7

LEMMA TextFed ==
    ASSUME NEW n \in Nat, NEW a, NEW ac \in AccType, NEW msg \in MessageType, NEW lost, TextPart(a, ac, msg, lost, n),
           NEW lost2, lost \subseteq lost2,
           NEW tx, NEW th, NEW x, NEW y, Says(tx, th, n), Feeds(a, lost2, tx, th, x, y),
           a = "chat" => th = <<>> /\ TagSeen(tx, lost2),
           NEW msg2, msg2.text = msg.text \o tx, msg2.thought = msg.thought \o th,
           NEW b, b.text = ac.text \o x, b.thinking = ac.thinking \o y
    PROVE  /\ TextPart(a, b, msg2, lost2, n + 1)
           /\ msg2.text \in Seq(PieceType) /\ msg2.thought \in Seq(PieceType)
           /\ b.text \in Seq(PieceType) /\ b.thinking \in Seq(PieceType)
<1>1. /\ tx \in Seq(PieceType) /\ th \in Seq(PieceType)
      /\ Now(tx, n) /\ Now(th, n) /\ Now(th \o tx, n) /\ Now(<<>>, n)
  BY SaysFacts
<1>2. /\ msg.text \in Seq(PieceType) /\ msg.thought \in Seq(PieceType)
      /\ ac.text \in Seq(PieceType) /\ ac.thinking \in Seq(PieceType)
  BY DEF MessageType, AccType
<1>3. PICK mt, mh, at, ah : mt = msg.text /\ mh = msg.thought /\ at = ac.text /\ ah = ac.thinking
  OBVIOUS
<1>4. PICK mt2, mh2, w, w2, v : mt2 = mt \o tx /\ mh2 = mh \o th /\ w = mh \o mt /\ w2 = mh2 \o mt2 /\ v = th \o tx
  OBVIOUS
<1>5. /\ mt \in Seq(PieceType) /\ mh \in Seq(PieceType) /\ at \in Seq(PieceType) /\ ah \in Seq(PieceType)
      /\ msg2.text = mt2 /\ msg2.thought = mh2 /\ b.text = at \o x /\ b.thinking = ah \o y
  BY <1>2, <1>3, <1>4
<1>6. mt2 \in Seq(PieceType) /\ Range_(mt2) = Range_(mt) \cup Range_(tx)
  BY <1>1, <1>4, <1>5, PiecesJoined DEF Joined
<1>7. mh2 \in Seq(PieceType) /\ Range_(mh2) = Range_(mh) \cup Range_(th)
  BY <1>1, <1>4, <1>5, PiecesJoined DEF Joined
<1>8. Range_(w) = Range_(mh) \cup Range_(mt)
  BY <1>4, <1>5, PiecesJoined DEF Joined
<1>9. Range_(w2) = Range_(mh2) \cup Range_(mt2)
  BY <1>4, <1>6, <1>7, PiecesJoined DEF Joined
<1>10. v \in Seq(PieceType) /\ Range_(v) = Range_(th) \cup Range_(tx) /\ Now(v, n)
  <2>1. v \in Seq(PieceType) /\ Joined(v, th, tx)
    BY <1>1, <1>4, PiecesJoined
  <2>2. QED
    BY <1>1, <1>4, <2>1 DEF Joined
<1>11. \A s \in Seq(PieceType) : \A whole : Range_(s) \subseteq Range_(whole) => From(s, whole)
  BY DEF From, Range_
<1>12. x = tx \/ x = <<>> \/ x = v
  BY <1>4 DEF Feeds
<1>13. y = th \/ y = <<>>
  BY DEF Feeds
<1>14. <<>> \in Seq(PieceType) /\ Range_(<<>>) = {}
  BY DEF Range_
<1>15. x \in Seq(PieceType) /\ Now(x, n) /\ From(x, w2)
  <2>1. CASE x = tx
    BY <1>1, <1>6, <1>9, <1>11, <2>1
  <2>2. CASE x = <<>>
    BY <1>1, <1>14, <2>2 DEF From
  <2>3. CASE x = v
    BY <1>6, <1>7, <1>9, <1>10, <1>11, <2>3
  <2>4. QED
    BY <1>12, <2>1, <2>2, <2>3
<1>16. y \in Seq(PieceType) /\ Now(y, n) /\ From(y, mh2)
  <2>1. CASE y = th
    BY <1>1, <1>7, <1>11, <2>1
  <2>2. CASE y = <<>>
    BY <1>1, <1>14, <2>2 DEF From
  <2>3. QED
    BY <1>13, <2>1, <2>2
<1>17. Told(at, w, n) /\ Told(ah, mh, n)
  BY <1>3, <1>4 DEF TextPart
<1>18. Told(at \o x, w2, n + 1)
  <2>1. Range_(w) \subseteq Range_(w2)
    BY <1>6, <1>7, <1>8, <1>9
  <2>2. QED
    BY <1>5, <1>15, <1>17, <2>1, ToldMore
<1>19. Told(ah \o y, mh2, n + 1)
  <2>1. Range_(mh) \subseteq Range_(mh2)
    BY <1>7
  <2>2. QED
    BY <1>5, <1>16, <1>17, <2>1, ToldMore
<1>20. TextKept(a, b, msg2, lost2)
  <2>1. SUFFICES ASSUME lost2 \cap {"text beside a call", "think tag"} = {}, ~(a = "google" /\ "thinking" \in lost2)
                 PROVE  b.text = msg2.text
    BY DEF TextKept
  <2>2. lost \cap {"text beside a call", "think tag"} = {} /\ ~(a = "google" /\ "thinking" \in lost)
    BY <2>1
  <2>3. at = mt
    BY <1>3, <2>2 DEF TextPart, TextKept
  <2>4. x = tx
    BY <2>1 DEF Feeds
  <2>5. QED
    BY <1>4, <1>5, <2>3, <2>4
<1>21. ThinkingKept(b, msg2, lost2)
  <2>1. SUFFICES ASSUME "thinking" \notin lost2 PROVE b.thinking = msg2.thought
    BY DEF ThinkingKept
  <2>2. ah = mh
    BY <1>3, <2>1 DEF TextPart, ThinkingKept
  <2>3. y = th
    BY <2>1 DEF Feeds
  <2>4. QED
    BY <1>4, <1>5, <2>2, <2>3
<1>22. ASSUME a = "chat" PROVE NoTags(b, msg2, lost2)
  <2>1. mh = <<>> /\ ah = <<>> /\ th = <<>> /\ y = <<>>
    BY <1>3, <1>13, <1>22 DEF TextPart, NoTags
  <2>2. mh2 = <<>> /\ b.thinking = <<>>
    <3>1. <<>> \o <<>> = <<>>
      OBVIOUS
    <3>2. QED
      BY <1>4, <1>5, <2>1, <3>1
  <2>3. ASSUME "think tag" \notin lost2, NEW i \in DOMAIN mt2 PROVE mt2[i].mark = "word"
    <3>1. PieceIn(i, mt2, mt, tx)
      BY <1>1, <1>4, <1>5, <2>3, PieceOf
    <3>2. \A k \in DOMAIN mt : mt[k].mark = "word"
      BY <1>3, <1>22, <2>3 DEF TextPart, NoTags
    <3>3. \A k \in DOMAIN tx : tx[k].mark = "word"
      BY <1>22, <2>3 DEF TagSeen
    <3>4. QED
      BY <3>1, <3>2, <3>3 DEF PieceIn
  <2>4. QED
    BY <1>5, <2>2, <2>3 DEF NoTags
<1>23. b.text \in Seq(PieceType) /\ b.thinking \in Seq(PieceType)
  BY <1>5, <1>15, <1>16, ConcatProperties
<1>24. TextPart(a, b, msg2, lost2, n + 1)
  <2>1. Told(b.text, msg2.thought \o msg2.text, n + 1)
    BY <1>4, <1>5, <1>18
  <2>2. Told(b.thinking, msg2.thought, n + 1)
    BY <1>5, <1>19
  <2>3. QED
    BY <1>20, <1>21, <1>22, <2>1, <2>2 DEF TextPart
<1>25. QED
  BY <1>5, <1>6, <1>7, <1>23, <1>24

(* The counts.                                                             *)
UsageSaid(u, v, w) ==      \* the counts u of a message after an event with counts v
    w = IF v = NoUsage THEN u
        ELSE UsageInfo(Larger(u.input, v.input), Larger(u.output, v.output),
                       Larger(u.input, v.input) + Larger(u.output, v.output))

LEMMA UsageFacts ==
    ASSUME NEW i \in Int, NEW o \in Int, NEW t \in Int
    PROVE  /\ UsageInfo(i, o, t) \in UsageType
           /\ UsageInfo(i, o, t).input = i /\ UsageInfo(i, o, t).output = o /\ UsageInfo(i, o, t).total = t
           /\ i >= 0 => UsageInfo(i, o, t) # NoUsage
<1>1. /\ UsageInfo(i, o, t) \in UsageType
      /\ UsageInfo(i, o, t).input = i /\ UsageInfo(i, o, t).output = o /\ UsageInfo(i, o, t).total = t
  BY DEF UsageInfo, UsageType
<1>2. NoUsage.input = -1
  BY DEF NoUsage, UsageInfo
<1>3. QED
  BY <1>1, <1>2

LEMMA NoUsageFacts == NoUsage \in UsageType /\ NoUsage.input = -1 /\ NoUsage.output = -1 /\ NoUsage.total = -1
BY DEF NoUsage, UsageInfo, UsageType

LEMMA SaidCounts ==
    ASSUME NEW u, NEW o \in Nat, u = IF o = 0 THEN NoUsage ELSE UsageInfo(3, o, 3 + o),
           NEW w, UsageSaid(u, UsageInfo(3, o + 1, o + 4), w)
    PROVE  w = UsageInfo(3, o + 1, 3 + (o + 1)) /\ w \in UsageType
<1>1. PICK v : v = UsageInfo(3, o + 1, o + 4)
  OBVIOUS
<1>2. v # NoUsage /\ v.input = 3 /\ v.output = o + 1
  BY <1>1, UsageFacts
<1>3. /\ u.input \in Int /\ u.output \in Int /\ u.input <= 3 /\ u.output <= o
  <2>1. CASE o = 0
    BY <2>1, NoUsageFacts
  <2>2. CASE o # 0
    BY <2>2, UsageFacts
  <2>3. QED
    BY <2>1, <2>2
<1>4. Larger(u.input, v.input) = 3 /\ Larger(u.output, v.output) = o + 1
  BY <1>2, <1>3 DEF Larger
<1>5. w = UsageInfo(3, o + 1, 3 + (o + 1))
  BY <1>1, <1>2, <1>4 DEF UsageSaid
<1>6. QED
  BY <1>5, UsageFacts

LEMMA MergedCounts ==
    ASSUME NEW ac \in AccType, NEW o \in Nat,
           ac.usage # NoUsage => \E p \in 1..o : ac.usage = UsageInfo(3, p, 3 + p)
    PROVE  merge_usage(ac, UsageInfo(3, o + 1, o + 4)).usage = UsageInfo(3, o + 1, 3 + (o + 1))
<1>1. PICK v : v = UsageInfo(3, o + 1, o + 4)
  OBVIOUS
<1>2. v.input = 3 /\ v.output = o + 1 /\ v.total = o + 4
  BY <1>1, UsageFacts
<1>3. CASE ac.usage = NoUsage
  <2>1. merge_usage(ac, v) = [ac EXCEPT !.usage = v]
    BY <1>3 DEF merge_usage
  <2>2. 3 + (o + 1) = o + 4
    OBVIOUS
  <2>3. QED
    BY <1>1, <2>1, <2>2 DEF AccType
<1>4. CASE ac.usage # NoUsage
  <2>1. PICK p \in 1..o : ac.usage = UsageInfo(3, p, 3 + p)
    BY <1>4
  <2>2. ac.usage.input = 3 /\ ac.usage.output = p /\ ac.usage.total = 3 + p
    BY <2>1, UsageFacts
  <2>3. Larger(ac.usage.input, v.input) = 3 /\ Larger(ac.usage.output, v.output) = o + 1
        /\ Larger(ac.usage.total, v.total) = o + 4
    BY <1>2, <2>2 DEF Larger
  <2>4. PICK z : z = UsageInfo(3, o + 1, o + 4)
    OBVIOUS
  <2>5. o + 4 # 0 /\ 3 + (o + 1) = o + 4
    OBVIOUS
  <2>6. merge_usage(ac, v) = [ac EXCEPT !.usage = z]
    BY <1>4, <2>3, <2>4, <2>5 DEF merge_usage
  <2>7. QED
    BY <1>1, <2>4, <2>5, <2>6 DEF AccType
<1>5. QED
  BY <1>3, <1>4

LEMMA SameLarger == \A x, y \in Int : Larger(x, y) \in Int
BY DEF Larger

(* The ending.                                                             *)
LEMMA EndingFed ==
    ASSUME NEW a, NEW ac \in AccType, NEW msg \in MessageType, EndingPart(a, ac, msg), a # "responses",
           NEW id, id \in {"", "r"}, a = "google" => id = "", NEW stop, NEW b, Known(ac, b, [id |-> id, stop |-> stop]),
           NEW msg2, msg2.id = IF id # "" THEN id ELSE msg.id,
           msg2.stop = IF stop # "" THEN stop ELSE msg.stop
    PROVE  EndingPart(a, b, msg2)
<1>1. PICK i, s : i = id /\ s = stop
  OBVIOUS
<1>2. PICK raw : raw = [id |-> i, stop |-> s]
  OBVIOUS
<1>3. raw.id = i /\ raw.stop = s
  BY <1>2
<1>4. /\ b.response_id = IF ac.response_id = "" THEN i ELSE ac.response_id
      /\ b.stop_reason = IF s # "" THEN s ELSE ac.stop_reason
  BY <1>1, <1>2, <1>3 DEF Known
<1>5. msg.id \in {"", "r"} /\ ac.response_id = msg.id /\ ac.stop_reason = msg.stop /\ (a = "google" => msg.id = "")
  BY DEF EndingPart, MessageType
<1>6. QED
  BY <1>1, <1>4, <1>5 DEF EndingPart

LEMMA EndingUnknown ==
    ASSUME NEW ac, NEW msg, EndingPart("responses", ac, msg), NEW b, Known(ac, b, NoRaw), NEW msg2
    PROVE  EndingPart("responses", b, msg2)
BY DEF EndingPart, Known, NoRaw

LEMMA KnownTwice ==
    ASSUME NEW a, NEW b, NEW c, NEW raw, Known(a, b, raw), Known(b, c, raw)
    PROVE  Known(a, c, raw)
BY DEF Known
-----------------------------------------------------------------------------
(***************************************************************************)
(* What an event does to the message, and a chunk to the accumulator.      *)
(***************************************************************************)
LEMMA AccumulateType ==
    ASSUME NEW k \in AccType, NEW d \in DeltaType, NEW b, b = accumulate_tool_call(k, d), CallsType(b)
    PROVE  b \in AccType
<1>1. CASE d.index # NoIndex
  <2>1. PICK x : x = IF d.index + 1 > Len(k.by_index) THEN Append(k.by_index, Started(d))
                     ELSE [k.by_index EXCEPT ![d.index + 1] = Grown(k.by_index[d.index + 1], d)]
    OBVIOUS
  <2>2. b = [k EXCEPT !.by_index = x]
    BY <1>1, <2>1 DEF accumulate_tool_call, ByIndex
  <2>3. b.by_index = x
    BY <2>2 DEF AccType
  <2>4. x \in Seq(CallType)
    BY <2>3 DEF CallsType
  <2>5. QED
    BY <2>2, <2>4 DEF AccType
<1>2. CASE d.index = NoIndex /\ d.id # ""
  <2>1. PICK tc, s : tc = Opened(k) /\ s = Started(d)
    OBVIOUS
  <2>2. finalize_current_tool_call(k) = [k EXCEPT !.tool_calls = tc, !.current = NoCall]
    BY <2>1 DEF finalize_current_tool_call, Opened, AccType
  <2>3. b = [[k EXCEPT !.tool_calls = tc, !.current = NoCall] EXCEPT !.current = s]
    BY <1>2, <2>1, <2>2 DEF accumulate_tool_call
  <2>4. b.tool_calls = tc /\ b.current = s
    BY <2>3 DEF AccType
  <2>5. tc \in Seq(CallType) /\ s \in CallType
    BY <2>4 DEF CallsType
  <2>6. QED
    BY <2>3, <2>5 DEF AccType
<1>3. CASE d.index = NoIndex /\ d.id = "" /\ k.current # NoCall
  <2>1. PICK g : g = Grown(k.current, d)
    OBVIOUS
  <2>2. b = [k EXCEPT !.current = g]
    BY <1>3, <2>1 DEF accumulate_tool_call
  <2>3. b.current = g
    BY <2>2 DEF AccType
  <2>4. g \in CallType
    BY <2>3 DEF CallsType
  <2>5. QED
    BY <2>2, <2>4 DEF AccType
<1>4. CASE d.index = NoIndex /\ d.id = "" /\ k.current = NoCall
  BY <1>4 DEF accumulate_tool_call
<1>5. QED
  BY <1>1, <1>2, <1>3, <1>4

LEMMA FedCallType ==
    ASSUME NEW a \in AccType, NEW d \in DeltaType, NEW raw \in RawType, NEW b,
           b = feed(a, ToolCallDelta(d, raw)), CallsType(b)
    PROVE  b \in AccType
<1>1. PICK k : k = extract_metadata(a, raw)
  OBVIOUS
<1>2. b = accumulate_tool_call(k, d)
  BY <1>1 DEF feed, ToolCallDelta, Chunk
<1>3. k \in AccType
  BY <1>1, Metadata
<1>4. QED
  BY <1>2, <1>3, AccumulateType

(* The fields of an event.                                                 *)
EventOf(e, kind, tx, th, cs, id, stop, usage) ==
    /\ e.kind = kind /\ e.text = tx /\ e.thought = th /\ e.calls = cs
    /\ e.id = id /\ e.stop = stop /\ e.usage = usage

LEMMA EventFields ==
    ASSUME NEW kind, NEW tx, NEW th, NEW cs, NEW id, NEW stop, NEW usage
    PROVE  /\ \A e : e = [kind |-> kind, text |-> tx, thought |-> th, calls |-> cs,
                          id |-> id, stop |-> stop, usage |-> usage]
                       => EventOf(e, kind, tx, th, cs, id, stop, usage)
BY DEF EventOf

Tally(e) == IF e.usage.output > 0 THEN 1 ELSE 0
Receives(e) ==
    /\ events' = events + 1
    /\ message'.text = message.text \o e.text
    /\ message'.thought = message.thought \o e.thought
    /\ message'.calls = FoldLeft(Extended, message.calls, e.calls)
    /\ message'.id = IF e.id # "" THEN e.id ELSE message.id
    /\ message'.stop = IF e.stop # "" THEN e.stop ELSE message.stop
    /\ UsageSaid(message.usage, e.usage, message'.usage)
    /\ message' = [text |-> message'.text, thought |-> message'.thought, calls |-> message'.calls,
                   id |-> message'.id, stop |-> message'.stop, usage |-> message'.usage]
    /\ acc' = FoldLeft(feed, acc, parse_stream_chunk(api, e))
    /\ outputs' = outputs + Tally(e)
    /\ api' = api

LEMMA Received == ASSUME NEW e, Receive(e) PROVE Receives(e)
<1>1. PICK tx, th, cs, id, stop, us :
          /\ tx = message.text \o e.text
          /\ th = message.thought \o e.thought
          /\ cs = FoldLeft(Extended, message.calls, e.calls)
          /\ id = IF e.id # "" THEN e.id ELSE message.id
          /\ stop = IF e.stop # "" THEN e.stop ELSE message.stop
          /\ us = IF e.usage = NoUsage THEN message.usage
                  ELSE UsageInfo(Larger(message.usage.input, e.usage.input), Larger(message.usage.output, e.usage.output),
                                 Larger(message.usage.input, e.usage.input) + Larger(message.usage.output, e.usage.output))
  OBVIOUS
<1>2. message' = [text |-> tx, thought |-> th, calls |-> cs, id |-> id, stop |-> stop, usage |-> us]
  BY <1>1 DEF Receive, Extend
<1>3. /\ message'.text = tx /\ message'.thought = th /\ message'.calls = cs /\ message'.id = id
      /\ message'.stop = stop /\ message'.usage = us
  BY <1>2
<1>4. UsageSaid(message.usage, e.usage, message'.usage)
  BY <1>1, <1>3 DEF UsageSaid
<1>5. /\ events' = events + 1 /\ acc' = FoldLeft(feed, acc, parse_stream_chunk(api, e))
      /\ outputs' = outputs + Tally(e) /\ api' = api
  BY DEF Receive, Tally
<1>6. message' = [text |-> message'.text, thought |-> message'.thought, calls |-> message'.calls,
                  id |-> message'.id, stop |-> message'.stop, usage |-> message'.usage]
  BY <1>2, <1>3
<1>7. QED
  BY <1>1, <1>3, <1>4, <1>5, <1>6 DEF Receives

LEMMA Counted ==
    ASSUME TypeOK, NEW e, Receives(e)
    PROVE  outputs' \in Nat /\ events' \in Nat /\ api' \in Apis
<1>1. api' = api /\ events' = events + 1 /\ api \in Apis /\ events \in Nat /\ outputs \in Nat
  BY DEF Receives, TypeOK
<1>2. Tally(e) \in Nat
  BY DEF Tally
<1>3. outputs' = outputs + Tally(e)
  BY DEF Receives
<1>4. outputs' \in Nat
  BY <1>1, <1>2, <1>3
<1>5. events' \in Nat
  BY <1>1
<1>6. QED
  BY <1>1, <1>4, <1>5

(* What is left to show of a step, part by part.                           *)
Announces(e) == e.id \in {"", "r"} /\ e.stop \in Stops
Placed == /\ phase' \in {"body", "stopped", "done"} /\ block' \in {"none", "text", "thinking", "tool_use"}
          /\ losses' \subseteq Losses
Typed(msg) == msg.text \in Seq(PieceType) /\ msg.thought \in Seq(PieceType) /\ msg.usage \in UsageType

LEMMA Assembled ==
    ASSUME TypeOK, NEW e, Receives(e), Announces(e), Placed, Typed(message'), acc' \in AccType,
           TextInv', CallInv', CountsInv', EndingInv'
    PROVE  IInv'
<1>1. message'.calls \in Seq(CallType)
  BY DEF CallInv, CallPart, Shape
<1>2. message'.id \in {"", "r"} /\ message'.stop \in Stops
  BY DEF Receives, TypeOK, MessageType, Announces
<1>3. message' \in MessageType
  <2>1. PICK tx, th, cs, id, stop, us :
            /\ tx = message'.text /\ th = message'.thought /\ cs = message'.calls /\ id = message'.id
            /\ stop = message'.stop /\ us = message'.usage
    OBVIOUS
  <2>2. message' = [text |-> tx, thought |-> th, calls |-> cs, id |-> id, stop |-> stop, usage |-> us]
    BY <2>1 DEF Receives
  <2>3. QED
    BY <1>1, <1>2, <2>1, <2>2 DEF MessageType, Typed
<1>4. TypeOK'
  BY <1>3, Counted, Zenon DEF TypeOK, Placed
<1>5. QED
  BY <1>4 DEF IInv

(***************************************************************************)
(* A step of the loop, part by part: x is fed as text, y as thinking, u as *)
(* counts.                                                                 *)
(***************************************************************************)
RawOf(a, e) == IF a = "responses" THEN NoRaw ELSE [id |-> e.id, stop |-> e.stop]
Counted2(a, b, u) == b.usage = IF u = NoUsage THEN a.usage ELSE merge_usage(a, u).usage
Takes(e, x, y, u) ==
    /\ Known(acc, acc', RawOf(api, e))
    /\ acc'.text = acc.text \o x /\ acc'.thinking = acc.thinking \o y
    /\ Counted2(acc, acc', u)
Parses(e, c) == parse_stream_chunk(api, e) = <<c>>

LEMMA RawTyped == ASSUME NEW a, NEW e, Announces(e) PROVE RawOf(a, e) \in RawType
<1>1. NoRaw \in RawType
  BY DEF NoRaw, RawType, Stops
<1>2. [id |-> e.id, stop |-> e.stop] \in RawType
  BY DEF RawType, Announces
<1>3. QED
  BY <1>1, <1>2 DEF RawOf

LEMMA FedOne == ASSUME NEW e, NEW c, Receives(e), Parses(e, c) PROVE acc' = feed(acc, c)
BY FeedOne DEF Receives, Parses

LEMMA NothingMore == ASSUME NEW s \in Seq(PieceType) PROVE s \o <<>> = s
OBVIOUS

(* Feeding text or thinking, in one fact.                                  *)
Fed2(a, b, x, y, raw) ==
    /\ b \in AccType /\ Known(a, b, raw) /\ CallsKept(a, b)
    /\ b.text = x /\ b.thinking = y /\ b.usage = a.usage

LEMMA FedTextAll ==
    ASSUME NEW a \in AccType, NEW s \in Seq(PieceType), NEW raw \in RawType
    PROVE  \A b : b = feed(a, TextDelta(s, raw)) => Fed2(a, b, a.text \o s, a.thinking, raw)
BY FedText DEF Fed2

LEMMA FedThinkingAll ==
    ASSUME NEW a \in AccType, NEW s \in Seq(PieceType), NEW raw \in RawType
    PROVE  \A b : b = feed(a, ThinkingDelta(s, raw)) => Fed2(a, b, a.text, a.thinking \o s, raw)
BY FedThinking DEF Fed2

LEMMA TakesText ==
    ASSUME TypeOK, NEW e, Receives(e), Announces(e), NEW x \in Seq(PieceType),
           Parses(e, TextDelta(x, RawOf(api, e)))
    PROVE  Takes(e, x, <<>>, NoUsage) /\ acc' \in AccType /\ CallsKept(acc, acc')
<1>1. acc \in AccType /\ acc.text \in Seq(PieceType) /\ acc.thinking \in Seq(PieceType)
  BY DEF TypeOK, AccType
<1>2. acc' = feed(acc, TextDelta(x, RawOf(api, e)))
  BY FedOne
<1>3. PICK b : b = acc'
  OBVIOUS
<1>4. PICK raw \in RawType : raw = RawOf(api, e)
  BY RawTyped
<1>5. /\ b \in AccType /\ Known(acc, b, raw) /\ CallsKept(acc, b)
      /\ b.text = acc.text \o x /\ b.thinking = acc.thinking /\ b.usage = acc.usage
  <2>1. b = feed(acc, TextDelta(x, raw))
    BY <1>2, <1>3, <1>4
  <2>2. Fed2(acc, b, acc.text \o x, acc.thinking, raw)
    BY <1>1, <2>1, FedTextAll
  <2>3. QED
    BY <2>2 DEF Fed2
<1>6. acc.thinking \o <<>> = acc.thinking
  BY <1>1, NothingMore
<1>7. QED
  BY <1>3, <1>4, <1>5, <1>6 DEF Takes, Counted2

LEMMA TakesThinking ==
    ASSUME TypeOK, NEW e, Receives(e), Announces(e), NEW y \in Seq(PieceType),
           Parses(e, ThinkingDelta(y, RawOf(api, e)))
    PROVE  Takes(e, <<>>, y, NoUsage) /\ acc' \in AccType /\ CallsKept(acc, acc')
<1>1. acc \in AccType /\ acc.text \in Seq(PieceType) /\ acc.thinking \in Seq(PieceType)
  BY DEF TypeOK, AccType
<1>2. acc' = feed(acc, ThinkingDelta(y, RawOf(api, e)))
  BY FedOne
<1>3. PICK b : b = acc'
  OBVIOUS
<1>4. PICK raw \in RawType : raw = RawOf(api, e)
  BY RawTyped
<1>5. /\ b \in AccType /\ Known(acc, b, raw) /\ CallsKept(acc, b)
      /\ b.text = acc.text /\ b.thinking = acc.thinking \o y /\ b.usage = acc.usage
  <2>1. b = feed(acc, ThinkingDelta(y, raw))
    BY <1>2, <1>3, <1>4
  <2>2. Fed2(acc, b, acc.text, acc.thinking \o y, raw)
    BY <1>1, <2>1, FedThinkingAll
  <2>3. QED
    BY <2>2 DEF Fed2
<1>6. acc.text \o <<>> = acc.text
  BY <1>1, NothingMore
<1>7. QED
  BY <1>3, <1>4, <1>5, <1>6 DEF Takes, Counted2

LEMMA TakesUsage ==
    ASSUME TypeOK, NEW e, Receives(e), Announces(e), NEW u \in UsageType, u # NoUsage,
           Parses(e, Usage(u, RawOf(api, e)))
    PROVE  Takes(e, <<>>, <<>>, u) /\ acc' \in AccType /\ CallsKept(acc, acc')
<1>1. acc \in AccType /\ acc.text \in Seq(PieceType) /\ acc.thinking \in Seq(PieceType)
  BY DEF TypeOK, AccType
<1>2. acc' = feed(acc, Usage(u, RawOf(api, e)))
  BY FedOne
<1>3. PICK b : b = acc'
  OBVIOUS
<1>4. PICK raw \in RawType : raw = RawOf(api, e)
  BY RawTyped
<1>5. /\ b \in AccType /\ Known(acc, b, raw) /\ CallsKept(acc, b)
      /\ b.text = acc.text /\ b.thinking = acc.thinking /\ b.usage = merge_usage(acc, u).usage
  <2>1. b = feed(acc, Usage(u, raw))
    BY <1>2, <1>3, <1>4
  <2>2. QED
    BY <1>1, <2>1, FedUsage
<1>6. acc.text \o <<>> = acc.text /\ acc.thinking \o <<>> = acc.thinking
  BY <1>1, NothingMore
<1>7. QED
  BY <1>3, <1>4, <1>5, <1>6 DEF Takes, Counted2

LEMMA TakesCall ==
    ASSUME TypeOK, NEW e, Receives(e), Announces(e), NEW d \in DeltaType,
           Parses(e, ToolCallDelta(d, RawOf(api, e)))
    PROVE  /\ Takes(e, <<>>, <<>>, NoUsage) /\ CallsKept(accumulate_tool_call(acc, d), acc')
           /\ CallsType(acc') => acc' \in AccType
<1>1. acc \in AccType /\ acc.text \in Seq(PieceType) /\ acc.thinking \in Seq(PieceType)
  BY DEF TypeOK, AccType
<1>2. acc' = feed(acc, ToolCallDelta(d, RawOf(api, e)))
  BY FedOne
<1>3. PICK b : b = acc'
  OBVIOUS
<1>4. PICK raw \in RawType : raw = RawOf(api, e)
  BY RawTyped
<1>5. b = feed(acc, ToolCallDelta(d, raw))
  BY <1>2, <1>3, <1>4
<1>6. /\ Known(acc, b, raw) /\ CallsKept(accumulate_tool_call(acc, d), b)
      /\ b.text = acc.text /\ b.thinking = acc.thinking /\ b.usage = acc.usage
  BY <1>1, <1>5, FedCall
<1>7. CallsType(b) => b \in AccType
  BY <1>1, <1>5, FedCallType
<1>8. acc.text \o <<>> = acc.text /\ acc.thinking \o <<>> = acc.thinking
  BY <1>1, NothingMore
<1>9. QED
  BY <1>3, <1>4, <1>6, <1>7, <1>8 DEF Takes, Counted2

(* The parts of the invariant after a step.                                *)
More == losses \subseteq losses'
ChatSays(e) == api = "chat" => e.thought = <<>> /\ TagSeen(e.text, losses')

LEMMA TextStep ==
    ASSUME IInv, NEW e, Receives(e), NEW x, NEW y, NEW u, Takes(e, x, y, u), More,
           Says(e.text, e.thought, events), Feeds(api, losses', e.text, e.thought, x, y), ChatSays(e)
    PROVE  TextInv' /\ message'.text \in Seq(PieceType) /\ message'.thought \in Seq(PieceType)
<1>1. /\ events \in Nat /\ acc \in AccType /\ message \in MessageType
      /\ TextPart(api, acc, message, losses, events)
  BY DEF IInv, TypeOK, TextInv
<1>2. PICK a, lost2, msg2, b, tx, th :
         a = api /\ lost2 = losses' /\ msg2 = message' /\ b = acc' /\ tx = e.text /\ th = e.thought
  OBVIOUS
<1>3. /\ msg2.text = message.text \o tx /\ msg2.thought = message.thought \o th
      /\ b.text = acc.text \o x /\ b.thinking = acc.thinking \o y
  BY <1>2 DEF Receives, Takes
<1>4. /\ losses \subseteq lost2 /\ Says(tx, th, events) /\ Feeds(a, lost2, tx, th, x, y)
      /\ (a = "chat" => th = <<>> /\ TagSeen(tx, lost2))
  BY <1>2 DEF More, ChatSays
<1>5. TextPart(a, acc, message, losses, events)
  BY <1>1, <1>2
<1>6. /\ TextPart(a, b, msg2, lost2, events + 1)
      /\ msg2.text \in Seq(PieceType) /\ msg2.thought \in Seq(PieceType)
  BY <1>1, <1>3, <1>4, <1>5, TextFed
<1>7. api' = a /\ events' = events + 1
  BY <1>2 DEF Receives
<1>8. QED
  BY <1>2, <1>6, <1>7 DEF TextInv

LEMMA CallsQuiet ==
    ASSUME IInv, NEW e, Receives(e), e.calls = <<>>, CallsKept(acc, acc'), More, phase # "done"
    PROVE  CallInv'
<1>1. CallPart(api, acc, message.calls, losses, phase)
  BY DEF IInv, CallInv
<1>2. PICK a, b, lost2, ph2, cs : a = api' /\ b = acc' /\ lost2 = losses' /\ ph2 = phase' /\ cs = message'.calls
  OBVIOUS
<1>3. cs = message.calls /\ a = api
  BY <1>2, ExtendNone DEF Receives
<1>4. CallPart(a, b, message.calls, lost2, ph2)
  BY <1>1, <1>2, <1>3, CallsStay DEF More
<1>5. QED
  BY <1>2, <1>3, <1>4 DEF CallInv

LEMMA CountsSilent ==
    ASSUME IInv, NEW e, Receives(e), e.usage = NoUsage, NEW x, NEW y, Takes(e, x, y, NoUsage), More,
           api = "anthropic" => events > 0
    PROVE  CountsInv' /\ message'.usage \in UsageType
<1>1. CountsInv /\ events \in Nat /\ outputs \in Nat
  BY DEF IInv, TypeOK
<1>2. message'.usage = message.usage /\ acc'.usage = acc.usage
  BY DEF Receives, UsageSaid, Takes, Counted2
<1>3. outputs' = outputs /\ events' = events + 1 /\ api' = api
  <2>1. Tally(e) = 0
    BY NoUsageFacts DEF Tally
  <2>2. outputs' = outputs + Tally(e) /\ events' = events + 1 /\ api' = api
    BY DEF Receives
  <2>3. outputs' = outputs
    BY <1>1, <2>1, <2>2
  <2>4. QED
    BY <2>2, <2>3
<1>4. message.usage \in UsageType
  BY DEF IInv, TypeOK, MessageType
<1>5. CASE api = "anthropic"
  <2>1. CountsAnthropic(acc, message, events, outputs, block)
    BY <1>1, <1>5 DEF CountsInv
  <2>2. events # 0 /\ events' # 0
    BY <1>1, <1>3, <1>5
  <2>3. CountsAnthropic(acc', message', events', outputs', block')
    BY <1>2, <1>3, <2>1, <2>2 DEF CountsAnthropic
  <2>4. QED
    BY <1>2, <1>3, <1>4, <1>5, <2>3 DEF CountsInv
<1>6. CASE api # "anthropic"
  <2>1. CountsOther(acc, message, losses, outputs)
    BY <1>1, <1>6 DEF CountsInv
  <2>2. Apart(losses') => Apart(losses)
    BY DEF Apart, More
  <2>3. CountsOther(acc', message', losses', outputs')
    BY <1>2, <1>3, <2>1, <2>2 DEF CountsOther
  <2>4. QED
    BY <1>2, <1>3, <1>4, <1>6, <2>3 DEF CountsInv
<1>7. QED
  BY <1>5, <1>6

LEMMA CountsSaid ==
    ASSUME TypeOK, CountsInv, api # "anthropic", NEW e, Receives(e), e.usage = Counts
    PROVE  /\ outputs' = outputs + 1
           /\ message'.usage = UsageInfo(3, outputs + 1, 3 + (outputs + 1)) /\ message'.usage \in UsageType
           /\ Counts # NoUsage /\ Counts \in UsageType
<1>1. outputs \in Nat
  BY DEF TypeOK
<1>2. Counts.output = outputs + 1 /\ Counts # NoUsage /\ Counts \in UsageType
  BY <1>1, UsageFacts DEF Counts
<1>3. Tally(e) = 1
  BY <1>1, <1>2 DEF Tally
<1>4. outputs' = outputs + 1
  BY <1>3 DEF Receives
<1>5. CountsOther(acc, message, losses, outputs)
  BY DEF CountsInv
<1>6. message.usage = IF outputs = 0 THEN NoUsage ELSE UsageInfo(3, outputs, 3 + outputs)
  BY <1>5 DEF CountsOther
<1>7. PICK w : w = message'.usage
  OBVIOUS
<1>8. UsageSaid(message.usage, UsageInfo(3, outputs + 1, outputs + 4), w)
  BY <1>7 DEF Receives, Counts
<1>9. w = UsageInfo(3, outputs + 1, 3 + (outputs + 1)) /\ w \in UsageType
  BY <1>1, <1>6, <1>8, SaidCounts
<1>10. QED
  BY <1>2, <1>4, <1>7, <1>9

LEMMA CountsTold ==
    ASSUME IInv, api # "anthropic", NEW e, Receives(e), e.usage = Counts, NEW x, NEW y,
           Takes(e, x, y, Counts), More
    PROVE  CountsInv' /\ message'.usage \in UsageType
<1>1. TypeOK /\ CountsInv /\ outputs \in Nat /\ acc \in AccType
  BY DEF IInv, TypeOK
<1>2. /\ outputs' = outputs + 1 /\ message'.usage = UsageInfo(3, outputs + 1, 3 + (outputs + 1))
      /\ Counts # NoUsage /\ message'.usage \in UsageType
  BY <1>1, CountsSaid
<1>3. CountsOther(acc, message, losses, outputs)
  BY <1>1 DEF CountsInv
<1>4. acc.usage # NoUsage => \E p \in 1..outputs : acc.usage = UsageInfo(3, p, 3 + p)
  BY <1>3 DEF CountsOther
<1>5. acc'.usage = merge_usage(acc, Counts).usage
  BY <1>2 DEF Takes, Counted2
<1>6. acc'.usage = UsageInfo(3, outputs + 1, 3 + (outputs + 1))
  <2>1. merge_usage(acc, UsageInfo(3, outputs + 1, outputs + 4)).usage = UsageInfo(3, outputs + 1, 3 + (outputs + 1))
    BY <1>1, <1>4, MergedCounts
  <2>2. QED
    BY <1>5, <2>1 DEF Counts
<1>7. CountsOther(acc', message', losses', outputs')
  <2>1. outputs + 1 \in 1..(outputs + 1) /\ outputs + 1 # 0
    BY <1>1
  <2>2. QED
    BY <1>2, <1>6, <2>1 DEF CountsOther
<1>8. api' # "anthropic"
  BY DEF Receives
<1>9. QED
  BY <1>2, <1>7, <1>8 DEF CountsInv

LEMMA CountsMissed ==
    ASSUME IInv, api # "anthropic", NEW e, Receives(e), e.usage = Counts, NEW x, NEW y,
           Takes(e, x, y, NoUsage), More, ~Apart(losses')
    PROVE  CountsInv' /\ message'.usage \in UsageType
<1>1. TypeOK /\ CountsInv /\ outputs \in Nat /\ acc \in AccType
  BY DEF IInv, TypeOK
<1>2. /\ outputs' = outputs + 1 /\ message'.usage = UsageInfo(3, outputs + 1, 3 + (outputs + 1))
      /\ message'.usage \in UsageType
  BY <1>1, CountsSaid
<1>3. CountsOther(acc, message, losses, outputs)
  BY <1>1 DEF CountsInv
<1>4. acc'.usage = acc.usage
  BY DEF Takes, Counted2
<1>5. acc'.usage # NoUsage => \E p \in 1..(outputs + 1) : acc'.usage = UsageInfo(3, p, 3 + p)
  <2>1. SUFFICES ASSUME acc.usage # NoUsage PROVE \E p \in 1..(outputs + 1) : acc.usage = UsageInfo(3, p, 3 + p)
    BY <1>4
  <2>2. PICK p \in 1..outputs : acc.usage = UsageInfo(3, p, 3 + p)
    BY <1>3, <2>1 DEF CountsOther
  <2>3. p \in 1..(outputs + 1)
    BY <1>1, <2>2
  <2>4. QED
    BY <2>2, <2>3
<1>6. CountsOther(acc', message', losses', outputs')
  <2>1. outputs + 1 # 0
    BY <1>1
  <2>2. QED
    BY <1>2, <1>5, <2>1 DEF CountsOther
<1>7. api' # "anthropic"
  BY DEF Receives
<1>8. QED
  BY <1>2, <1>6, <1>7 DEF CountsInv

(* The id of a google answer is nowhere in the model.                      *)
Nameless(e) == api = "google" => e.id = ""

LEMMA EndingStep ==
    ASSUME IInv, NEW e, Receives(e), Announces(e), Nameless(e), NEW x, NEW y, NEW u, Takes(e, x, y, u)
    PROVE  EndingInv'
<1>1. acc \in AccType /\ message \in MessageType /\ EndingPart(api, acc, message)
  BY DEF IInv, TypeOK, EndingInv
<1>2. PICK a, b, msg2 : a = api /\ b = acc' /\ msg2 = message'
  OBVIOUS
<1>3. /\ msg2.id = IF e.id # "" THEN e.id ELSE message.id
      /\ msg2.stop = IF e.stop # "" THEN e.stop ELSE message.stop
  BY <1>2 DEF Receives
<1>4. CASE a = "responses"
  <2>1. EndingPart("responses", acc, message) /\ Known(acc, b, NoRaw)
    BY <1>1, <1>2, <1>4 DEF Takes, RawOf
  <2>2. EndingPart("responses", b, msg2)
    BY <2>1, EndingUnknown
  <2>3. QED
    BY <1>2, <1>4, <2>2 DEF EndingInv, Receives
<1>5. CASE a # "responses"
  <2>1. EndingPart(a, acc, message) /\ Known(acc, b, [id |-> e.id, stop |-> e.stop])
    BY <1>1, <1>2, <1>5 DEF Takes, RawOf
  <2>2. PICK id, stop : id = e.id /\ stop = e.stop
    OBVIOUS
  <2>3. id \in {"", "r"} /\ (a = "google" => id = "")
    BY <1>2, <2>2 DEF Announces, Nameless
  <2>4. /\ Known(acc, b, [id |-> id, stop |-> stop])
        /\ msg2.id = IF id # "" THEN id ELSE message.id
        /\ msg2.stop = IF stop # "" THEN stop ELSE message.stop
    BY <1>3, <2>1, <2>2
  <2>5. EndingPart(a, b, msg2)
    BY <1>1, <1>5, <2>1, <2>3, <2>4, EndingFed
  <2>6. QED
    BY <1>2, <2>5 DEF EndingInv, Receives
<1>6. QED
  BY <1>4, <1>5

LEMMA Whole ==
    ASSUME IInv, NEW e, Receives(e), Announces(e), Nameless(e), NEW x, NEW y, NEW u, Takes(e, x, y, u),
           acc' \in AccType, More, Placed,
           Says(e.text, e.thought, events), Feeds(api, losses', e.text, e.thought, x, y), ChatSays(e),
           CallInv', CountsInv', message'.usage \in UsageType
    PROVE  IInv'
<1>1. TypeOK
  BY DEF IInv
<1>2. TextInv' /\ message'.text \in Seq(PieceType) /\ message'.thought \in Seq(PieceType)
  BY TextStep
<1>3. EndingInv'
  BY EndingStep
<1>4. Typed(message')
  BY <1>2 DEF Typed
<1>5. QED
  BY <1>1, <1>2, <1>3, <1>4, Assembled

(***************************************************************************)
(* The events without calls, one action after the other.                   *)
(***************************************************************************)
LEMMA WordSaid ==
    ASSUME TypeOK, NEW m \in {"word", "<think>", "</think>"}
    PROVE  /\ Piece(m) \in Seq(PieceType) /\ Piece(m) # <<>>
           /\ Says(Piece(m), <<>>, events)
<1>1. events \in Nat /\ m \in Marks
  BY DEF TypeOK, Marks
<1>2. [mark |-> m, n |-> events] \in PieceType
  BY <1>1 DEF PieceType
<1>3. QED
  BY <1>2 DEF Piece, Says

LEMMA ThoughtSaid ==
    ASSUME TypeOK
    PROVE  /\ Piece("thought") \in Seq(PieceType) /\ Piece("thought") # <<>>
           /\ Says(<<>>, Piece("thought"), events)
<1>1. events \in Nat /\ "thought" \in Marks
  BY DEF TypeOK, Marks
<1>2. [mark |-> "thought", n |-> events] \in PieceType
  BY <1>1 DEF PieceType
<1>3. QED
  BY <1>2 DEF Piece, Says

LEMMA NothingSaid == ASSUME NEW n PROVE Says(<<>>, <<>>, n) /\ <<>> \in Seq(PieceType)
BY DEF Says

LEMMA NoTagSeen == ASSUME NEW lost PROVE TagSeen(<<>>, lost) /\ TagSeen(Piece("word"), lost)
<1>1. TagSeen(<<>>, lost)
  <2>1. \A i \in DOMAIN <<>> : FALSE
    OBVIOUS
  <2>2. QED
    BY <2>1, Zenon DEF TagSeen
<1>2. PICK p : p = [mark |-> "word", n |-> events]
  OBVIOUS
<1>3. p.mark = "word"
  BY <1>2
<1>4. DOMAIN <<p>> = {1} /\ <<p>>[1] = p
  OBVIOUS
<1>5. TagSeen(<<p>>, lost)
  BY <1>3, <1>4 DEF TagSeen
<1>6. QED
  BY <1>1, <1>2, <1>5 DEF Piece

LEMMA AllFed == ASSUME NEW a, NEW lost, NEW tx, NEW th PROVE Feeds(a, lost, tx, th, tx, th)
BY DEF Feeds

LEMMA Unchanged ==
    ASSUME TypeOK, losses' = losses
    PROVE  More /\ losses' \subseteq Losses
BY DEF TypeOK, More

LEMMA Kept ==
    ASSUME TypeOK, NEW lost, lost \subseteq Losses, Keeps(lost)
    PROVE  More /\ losses' \subseteq Losses /\ lost \subseteq losses'
BY DEF TypeOK, More, Keeps

LEMMA NotChat == ASSUME NEW e, api # "chat" PROVE ChatSays(e)
BY DEF ChatSays

LEMMA BlockOpen ==
    ASSUME IInv, api = "anthropic", events > 0 \/ block # "none"
    PROVE  events > 0
<1>1. events \in Nat /\ CountsAnthropic(acc, message, events, outputs, block)
  BY DEF IInv, TypeOK, CountsInv
<1>2. events # 0
  BY <1>1 DEF CountsAnthropic
<1>3. QED
  BY <1>1, <1>2

(* Events that report no counts and are read in full.                      *)
LEMMA Quiet ==
    ASSUME IInv, NEW e, Receives(e), Announces(e), Nameless(e), NEW x, NEW y, Takes(e, x, y, NoUsage),
           acc' \in AccType, CallsKept(acc, acc'), e.calls = <<>>, e.usage = NoUsage, phase # "done", More, Placed,
           Says(e.text, e.thought, events), Feeds(api, losses', e.text, e.thought, x, y), ChatSays(e),
           api = "anthropic" => events > 0
    PROVE  IInv'
<1>1. CallInv'
  BY CallsQuiet
<1>2. CountsInv' /\ message'.usage \in UsageType
  BY CountsSilent
<1>3. QED
  BY <1>1, <1>2, Whole

LEMMA ResponsesTextStep == ASSUME IInv, ResponsesText PROVE IInv'
<1>1. TypeOK
  BY DEF IInv
<1>2. PICK e : e = [Event("output_text.delta") EXCEPT !.text = Piece("word")]
  OBVIOUS
<1>3. Receives(e) /\ api = "responses" /\ phase = "body" /\ phase' = phase /\ block' = block /\ losses' = losses
  BY <1>2, Received DEF ResponsesText
<1>4. EventOf(e, "output_text.delta", Piece("word"), <<>>, <<>>, "", "", NoUsage)
  BY <1>2 DEF Event, EventOf
<1>5. Announces(e) /\ Nameless(e) /\ ChatSays(e)
  BY <1>3, <1>4 DEF EventOf, Announces, Nameless, Stops, ChatSays
<1>6. Parses(e, TextDelta(Piece("word"), RawOf(api, e)))
  BY <1>3, <1>4 DEF Parses, parse_stream_chunk, ResponsesChunks, EventOf, RawOf
<1>7. Takes(e, Piece("word"), <<>>, NoUsage) /\ acc' \in AccType /\ CallsKept(acc, acc')
  BY <1>1, <1>3, <1>5, <1>6, WordSaid, TakesText
<1>8. Says(e.text, e.thought, events) /\ Feeds(api, losses', e.text, e.thought, Piece("word"), <<>>)
  BY <1>1, <1>4, WordSaid, AllFed DEF EventOf
<1>9. More /\ Placed
  BY <1>1, <1>3, Unchanged DEF TypeOK, Placed
<1>10. e.calls = <<>> /\ e.usage = NoUsage
  BY <1>4 DEF EventOf
<1>11. QED
  BY <1>3, <1>5, <1>7, <1>8, <1>9, <1>10, Quiet

LEMMA ResponsesReasoningStep == ASSUME IInv, ResponsesReasoning PROVE IInv'
<1>1. TypeOK
  BY DEF IInv
<1>2. PICK e : e = [Event("reasoning.delta") EXCEPT !.thought = Piece("thought")]
  OBVIOUS
<1>3. /\ Receives(e) /\ api = "responses" /\ phase = "body" /\ phase' = phase /\ block' = block
      /\ Keeps({"thinking"})
  BY <1>2, Received DEF ResponsesReasoning
<1>4. EventOf(e, "reasoning.delta", <<>>, Piece("thought"), <<>>, "", "", NoUsage)
  BY <1>2 DEF Event, EventOf
<1>5. Announces(e) /\ Nameless(e) /\ ChatSays(e)
  BY <1>3, <1>4 DEF EventOf, Announces, Nameless, Stops, ChatSays
<1>6. Parses(e, TextDelta(<<>>, RawOf(api, e)))
  BY <1>3, <1>4 DEF Parses, parse_stream_chunk, ResponsesChunks, EventOf, RawOf, NoOp
<1>7. Takes(e, <<>>, <<>>, NoUsage) /\ acc' \in AccType /\ CallsKept(acc, acc')
  BY <1>1, <1>3, <1>5, <1>6, NothingSaid, TakesText
<1>8. More /\ losses' \subseteq Losses /\ "thinking" \in losses'
  <2>1. {"thinking"} \subseteq Losses
    BY DEF Losses
  <2>2. {"thinking"} \subseteq losses' /\ More /\ losses' \subseteq Losses
    BY <1>1, <1>3, <2>1, Kept
  <2>3. QED
    BY <2>2
<1>9. Placed
  BY <1>1, <1>3, <1>8 DEF TypeOK, Placed
<1>10. Says(e.text, e.thought, events) /\ Feeds(api, losses', e.text, e.thought, <<>>, <<>>)
  BY <1>1, <1>4, <1>8, ThoughtSaid DEF EventOf, Feeds
<1>11. e.calls = <<>> /\ e.usage = NoUsage
  BY <1>4 DEF EventOf
<1>12. QED
  BY <1>3, <1>5, <1>7, <1>8, <1>9, <1>10, <1>11, Quiet

LEMMA AnthropicBlockStopStep == ASSUME IInv, AnthropicBlockStop PROVE IInv'
<1>1. TypeOK
  BY DEF IInv
<1>2. PICK e : e = Event("content_block_stop")
  OBVIOUS
<1>3. /\ Receives(e) /\ api = "anthropic" /\ phase = "body" /\ phase' = phase /\ block # "none" /\ block' = "none"
      /\ losses' = losses
  BY <1>2, Received DEF AnthropicBlockStop
<1>4. EventOf(e, "content_block_stop", <<>>, <<>>, <<>>, "", "", NoUsage)
  BY <1>2 DEF Event, EventOf
<1>5. Announces(e) /\ Nameless(e) /\ ChatSays(e)
  BY <1>3, <1>4 DEF EventOf, Announces, Nameless, Stops, ChatSays
<1>6. Parses(e, TextDelta(<<>>, RawOf(api, e)))
  BY <1>3, <1>4 DEF Parses, parse_stream_chunk, AnthropicChunks, EventOf, RawOf, NoOp
<1>7. Takes(e, <<>>, <<>>, NoUsage) /\ acc' \in AccType /\ CallsKept(acc, acc')
  BY <1>1, <1>3, <1>5, <1>6, NothingSaid, TakesText
<1>8. More /\ Placed
  BY <1>1, <1>3, Unchanged DEF TypeOK, Placed
<1>9. Says(e.text, e.thought, events) /\ Feeds(api, losses', e.text, e.thought, <<>>, <<>>)
  BY <1>4, NothingSaid, AllFed DEF EventOf
<1>10. e.calls = <<>> /\ e.usage = NoUsage /\ events > 0
  BY <1>3, <1>4, BlockOpen DEF EventOf
<1>11. QED
  BY <1>3, <1>5, <1>7, <1>8, <1>9, <1>10, Quiet

(* Events with counts: those that come alone, and those beside content,    *)
(* which the streamed reading does not see.                                *)
LEMMA CountsTyped == ASSUME TypeOK PROVE Counts # NoUsage /\ Counts \in UsageType
<1>1. outputs \in Nat
  BY DEF TypeOK
<1>2. QED
  BY <1>1, UsageFacts DEF Counts

LEMMA Reported ==
    ASSUME IInv, NEW e, Receives(e), Announces(e), Nameless(e), NEW x, NEW y, Takes(e, x, y, Counts),
           acc' \in AccType, CallsKept(acc, acc'), e.calls = <<>>, e.usage = Counts, phase # "done", More, Placed,
           Says(e.text, e.thought, events), Feeds(api, losses', e.text, e.thought, x, y), ChatSays(e),
           api # "anthropic"
    PROVE  IInv'
<1>1. CallInv'
  BY CallsQuiet
<1>2. CountsInv' /\ message'.usage \in UsageType
  BY CountsTold
<1>3. QED
  BY <1>1, <1>2, Whole

LEMMA Overlooked ==
    ASSUME IInv, NEW e, Receives(e), Announces(e), Nameless(e), NEW x, NEW y, Takes(e, x, y, NoUsage),
           acc' \in AccType, CallsKept(acc, acc'), e.calls = <<>>, e.usage = Counts, phase # "done", More, Placed,
           Says(e.text, e.thought, events), Feeds(api, losses', e.text, e.thought, x, y), ChatSays(e),
           api # "anthropic", ~Apart(losses')
    PROVE  IInv'
<1>1. CallInv'
  BY CallsQuiet
<1>2. CountsInv' /\ message'.usage \in UsageType
  BY CountsMissed
<1>3. QED
  BY <1>1, <1>2, Whole

LEMMA ChatUsageStep == ASSUME IInv, ChatUsage PROVE IInv'
<1>1. TypeOK
  BY DEF IInv
<1>2. PICK u : u = Counts
  OBVIOUS
<1>3. u # NoUsage /\ u \in UsageType
  BY <1>1, <1>2, CountsTyped
<1>4. PICK e : e = [Event("usage") EXCEPT !.id = "r", !.usage = u]
  OBVIOUS
<1>5. Receives(e) /\ api = "chat" /\ phase = "stopped" /\ phase' = phase /\ block' = block /\ losses' = losses
  BY <1>2, <1>4, Received DEF ChatUsage
<1>6. EventOf(e, "usage", <<>>, <<>>, <<>>, "r", "", u)
  BY <1>4 DEF Event, EventOf
<1>7. Announces(e) /\ Nameless(e) /\ ChatSays(e)
  BY <1>5, <1>6, NoTagSeen DEF EventOf, Announces, Nameless, Stops, ChatSays
<1>8. Parses(e, Usage(u, RawOf(api, e)))
  BY <1>5, <1>6 DEF Parses, parse_stream_chunk, ChatChunks, EventOf, RawOf
<1>9. Takes(e, <<>>, <<>>, u) /\ acc' \in AccType /\ CallsKept(acc, acc')
  BY <1>1, <1>3, <1>5, <1>7, <1>8, TakesUsage
<1>10. More /\ Placed
  BY <1>1, <1>5, Unchanged DEF TypeOK, Placed
<1>11. Says(e.text, e.thought, events) /\ Feeds(api, losses', e.text, e.thought, <<>>, <<>>)
  BY <1>6, NothingSaid, AllFed DEF EventOf
<1>12. e.calls = <<>> /\ e.usage = Counts
  BY <1>2, <1>6 DEF EventOf
<1>13. Takes(e, <<>>, <<>>, Counts) /\ phase # "done" /\ api # "anthropic"
  BY <1>2, <1>5, <1>9
<1>14. QED
  BY <1>5, <1>7, <1>9, <1>10, <1>11, <1>12, <1>13, Reported

LEMMA ResponsesCompletedStep == ASSUME IInv, ResponsesCompleted PROVE IInv'
<1>1. TypeOK
  BY DEF IInv
<1>2. PICK u : u = Counts
  OBVIOUS
<1>3. u # NoUsage /\ u \in UsageType
  BY <1>1, <1>2, CountsTyped
<1>4. PICK e : e = [Event("completed") EXCEPT !.id = "r", !.stop = "completed", !.usage = u]
  OBVIOUS
<1>5. Receives(e) /\ api = "responses" /\ phase = "body" /\ phase' = "stopped" /\ block' = block /\ losses' = losses
  BY <1>2, <1>4, Received DEF ResponsesCompleted
<1>6. EventOf(e, "completed", <<>>, <<>>, <<>>, "r", "completed", u)
  BY <1>4 DEF Event, EventOf
<1>7. Announces(e) /\ Nameless(e) /\ ChatSays(e)
  BY <1>5, <1>6 DEF EventOf, Announces, Nameless, Stops, ChatSays
<1>8. Parses(e, Usage(u, RawOf(api, e)))
  BY <1>5, <1>6 DEF Parses, parse_stream_chunk, ResponsesChunks, EventOf, RawOf
<1>9. Takes(e, <<>>, <<>>, u) /\ acc' \in AccType /\ CallsKept(acc, acc')
  BY <1>1, <1>3, <1>5, <1>7, <1>8, TakesUsage
<1>10. More /\ Placed
  BY <1>1, <1>5, Unchanged DEF TypeOK, Placed
<1>11. Says(e.text, e.thought, events) /\ Feeds(api, losses', e.text, e.thought, <<>>, <<>>)
  BY <1>6, NothingSaid, AllFed DEF EventOf
<1>12. e.calls = <<>> /\ e.usage = Counts
  BY <1>2, <1>6 DEF EventOf
<1>13. Takes(e, <<>>, <<>>, Counts) /\ phase # "done" /\ api # "anthropic"
  BY <1>2, <1>5, <1>9
<1>14. QED
  BY <1>5, <1>7, <1>9, <1>10, <1>11, <1>12, <1>13, Reported

LEMMA ChatFinishStep == ASSUME IInv, ChatFinish PROVE IInv'
<1>1. TypeOK
  BY DEF IInv
<1>20. PICK kind \in {"delta", "finish"}, text \in Words({"word"}), stop \in {"stop", "length", "tool_calls"},
            u \in {NoUsage, Counts} :
          /\ kind = "finish" => text = <<>>
          /\ Receive([Event(kind) EXCEPT !.id = "r", !.text = text, !.stop = stop, !.usage = u])
          /\ Keeps(If(kind = "delta" /\ u # NoUsage, "counts beside content"))
  BY Zenon DEF ChatFinish
<1>2. PICK lost, e :
          /\ kind = "finish" => text = <<>>
          /\ e = [Event(kind) EXCEPT !.id = "r", !.text = text, !.stop = stop, !.usage = u]
          /\ Receive(e)
          /\ lost = If(kind = "delta" /\ u # NoUsage, "counts beside content")
          /\ Keeps(lost)
  BY <1>20
<1>3. Receives(e) /\ api = "chat" /\ phase = "body" /\ phase' = "stopped" /\ block' = block
  BY <1>2, Received DEF ChatFinish
<1>4. EventOf(e, kind, text, <<>>, <<>>, "r", stop, u)
  BY <1>2 DEF Event, EventOf
<1>5. text = <<>> \/ text = Piece("word")
  BY <1>2 DEF Words
<1>6. Says(text, <<>>, events) /\ text \in Seq(PieceType) /\ TagSeen(text, losses')
  <2>1. TagSeen(<<>>, losses') /\ TagSeen(Piece("word"), losses')
    BY NoTagSeen
  <2>2. QED
    BY <1>1, <1>5, <2>1, WordSaid, NothingSaid
<1>7. Announces(e) /\ Nameless(e) /\ ChatSays(e)
  BY <1>3, <1>4, <1>6 DEF EventOf, Announces, Nameless, Stops, ChatSays
<1>8. lost \subseteq Losses /\ (kind = "delta" /\ u # NoUsage => "counts beside content" \in lost)
  BY <1>2 DEF If, Losses
<1>9. More /\ losses' \subseteq Losses /\ lost \subseteq losses'
  BY <1>1, <1>2, <1>8, Kept
<1>10. Placed
  BY <1>1, <1>3, <1>9 DEF TypeOK, Placed
<1>11. /\ e.calls = <<>> /\ e.usage = u /\ phase # "done" /\ api # "anthropic"
       /\ Says(e.text, e.thought, events) /\ e.text = text /\ e.thought = <<>>
  BY <1>3, <1>4, <1>6 DEF EventOf
<1>12. CASE kind = "finish" /\ u = Counts
  <2>1. u # NoUsage /\ u \in UsageType
    BY <1>1, <1>12, CountsTyped
  <2>2. Parses(e, Usage(u, RawOf(api, e)))
    BY <1>2, <1>3, <1>4, <1>12, <2>1 DEF Parses, parse_stream_chunk, ChatChunks, EventOf, RawOf
  <2>3. Takes(e, <<>>, <<>>, u) /\ acc' \in AccType /\ CallsKept(acc, acc')
    BY <1>1, <1>3, <1>7, <2>1, <2>2, TakesUsage
  <2>4. Feeds(api, losses', e.text, e.thought, <<>>, <<>>)
    <3>1. text = <<>>
      BY <1>2, <1>12
    <3>2. e.text = <<>> /\ e.thought = <<>>
      BY <1>11, <3>1
    <3>3. QED
      BY <3>2, AllFed
  <2>5. Takes(e, <<>>, <<>>, Counts) /\ e.usage = Counts
    BY <1>2, <1>11, <1>12, <2>3
  <2>6. QED
    BY <1>3, <1>7, <1>9, <1>10, <1>11, <2>3, <2>4, <2>5, Reported
<1>13. CASE ~(kind = "finish" /\ u = Counts)
  <2>1. Parses(e, TextDelta(text, RawOf(api, e)))
    BY <1>2, <1>3, <1>4, <1>13 DEF Parses, parse_stream_chunk, ChatChunks, EventOf, RawOf, NoOp
  <2>2. Takes(e, text, <<>>, NoUsage) /\ acc' \in AccType /\ CallsKept(acc, acc')
    BY <1>1, <1>3, <1>6, <1>7, <2>1, TakesText
  <2>3. Feeds(api, losses', e.text, e.thought, text, <<>>)
    BY <1>11, AllFed
  <2>4. CASE u = NoUsage
    <3>1. e.usage = NoUsage
      BY <1>11, <2>4
    <3>2. QED
      BY <1>3, <1>7, <1>9, <1>10, <1>11, <2>2, <2>3, <3>1, Quiet
  <2>5. CASE u # NoUsage
    <3>1. e.usage = Counts /\ ~Apart(losses')
      BY <1>2, <1>8, <1>9, <1>11, <1>13, <2>5 DEF Apart
    <3>2. QED
      BY <1>3, <1>7, <1>9, <1>10, <1>11, <2>2, <2>3, <3>1, Overlooked
  <2>6. QED
    BY <2>4, <2>5
<1>14. QED
  BY <1>12, <1>13

LEMMA AnthropicStartStep == ASSUME IInv, AnthropicStart PROVE IInv'
<1>1. TypeOK
  BY DEF IInv
<1>2. PICK u, v, e : /\ u = UsageInfo(3, 0, 3) /\ v = UsageInfo(3, 0, 0)
                     /\ e = [Event("message_start") EXCEPT !.id = "r", !.usage = u]
  OBVIOUS
<1>3. u \in UsageType /\ u # NoUsage /\ v \in UsageType /\ v # NoUsage /\ u.output = 0 /\ u.input = 3
  BY <1>2 DEF UsageInfo, UsageType, NoUsage
<1>4. /\ Receives(e) /\ api = "anthropic" /\ phase = "body" /\ phase' = phase /\ block' = block /\ losses' = losses /\ events = 0
  BY <1>2, Received DEF AnthropicStart
<1>5. EventOf(e, "message_start", <<>>, <<>>, <<>>, "r", "", u)
  BY <1>2 DEF Event, EventOf
<1>6. Announces(e) /\ Nameless(e) /\ ChatSays(e)
  BY <1>4, <1>5 DEF EventOf, Announces, Nameless, Stops, ChatSays
<1>7. Parses(e, Usage(v, RawOf(api, e)))
  BY <1>2, <1>3, <1>4, <1>5 DEF Parses, parse_stream_chunk, AnthropicChunks, EventOf, RawOf
<1>8. Takes(e, <<>>, <<>>, v) /\ acc' \in AccType /\ CallsKept(acc, acc')
  BY <1>1, <1>3, <1>4, <1>6, <1>7, TakesUsage
<1>9. More /\ Placed
  BY <1>1, <1>4, Unchanged DEF TypeOK, Placed
<1>10. Says(e.text, e.thought, events) /\ Feeds(api, losses', e.text, e.thought, <<>>, <<>>)
  BY <1>5, NothingSaid, AllFed DEF EventOf
<1>11. /\ message.usage = NoUsage /\ acc.usage = NoUsage /\ outputs = 0
  BY <1>4 DEF IInv, CountsInv, CountsAnthropic
<1>12. /\ message'.usage = UsageInfo(3, 0, 3) /\ acc'.usage = UsageInfo(3, 0, 0)
       /\ outputs' = 0 /\ events' = 1 /\ api' = "anthropic"
  <2>1. UsageSaid(NoUsage, u, message'.usage)
    <3>1. e.usage = u
      BY <1>5 DEF EventOf
    <3>2. UsageSaid(message.usage, e.usage, message'.usage)
      BY <1>4 DEF Receives
    <3>3. QED
      BY <1>11, <3>1, <3>2
  <2>2. message'.usage = UsageInfo(3, 0, 3)
    BY <1>3, <2>1, NoUsageFacts DEF UsageSaid, Larger
  <2>3. acc'.usage = merge_usage(acc, v).usage
    BY <1>3, <1>8 DEF Takes, Counted2
  <2>4. acc'.usage = v
    <3>1. merge_usage(acc, v).usage = v
      BY <1>1, <1>11 DEF merge_usage, TypeOK, AccType
    <3>2. QED
      BY <2>3, <3>1
  <2>5. Tally(e) = 0
    <3>1. e.usage = u
      BY <1>5 DEF EventOf
    <3>2. QED
      BY <1>3, <3>1 DEF Tally
  <2>6. outputs' = outputs + Tally(e) /\ events' = events + 1 /\ api' = api
    BY <1>4 DEF Receives
  <2>7. QED
    BY <1>2, <1>4, <1>11, <2>2, <2>4, <2>5, <2>6
<1>13. CountsInv' /\ message'.usage \in UsageType
  <2>1. CountsAnthropic(acc', message', events', outputs', block')
    BY <1>12 DEF CountsAnthropic
  <2>2. message'.usage \in UsageType
    BY <1>2, <1>3, <1>12
  <2>3. QED
    BY <1>12, <2>1, <2>2 DEF CountsInv
<1>14. phase # "done"
  BY <1>4
<1>15. CallInv'
  <2>1. e.calls = <<>>
    BY <1>5 DEF EventOf
  <2>2. QED
    BY <1>4, <1>8, <1>9, <1>14, <2>1, CallsQuiet
<1>16. QED
  BY <1>4, <1>6, <1>8, <1>9, <1>10, <1>13, <1>15, Whole

(* The last report of an anthropic answer, one or more.                    *)
LEMMA SaidAnthropic ==
    ASSUME NEW u, NEW o \in Nat, u = UsageInfo(3, o, 3 + o),
           NEW w, UsageSaid(u, UsageInfo(0, o + 1, 0), w)
    PROVE  w = UsageInfo(3, o + 1, 3 + (o + 1)) /\ w \in UsageType
<1>1. PICK v : v = UsageInfo(0, o + 1, 0)
  OBVIOUS
<1>2. v # NoUsage /\ v.input = 0 /\ v.output = o + 1 /\ v.total = 0
  BY <1>1 DEF UsageInfo, NoUsage
<1>3. u.input = 3 /\ u.output = o
  BY UsageFacts
<1>4. Larger(u.input, v.input) = 3 /\ Larger(u.output, v.output) = o + 1
  BY <1>2, <1>3 DEF Larger
<1>5. w = UsageInfo(3, o + 1, 3 + (o + 1))
  BY <1>1, <1>2, <1>4 DEF UsageSaid
<1>6. QED
  BY <1>5, UsageFacts

LEMMA MergedAnthropic ==
    ASSUME NEW ac \in AccType, NEW o \in Nat, NEW t, t = IF o = 0 THEN 0 ELSE 4, ac.usage = UsageInfo(3, o, t)
    PROVE  merge_usage(ac, UsageInfo(0, o + 1, 0)).usage = UsageInfo(3, o + 1, 4)
<1>1. PICK v : v = UsageInfo(0, o + 1, 0)
  OBVIOUS
<1>2. v.input = 0 /\ v.output = o + 1 /\ v.total = 0
  BY <1>1 DEF UsageInfo
<1>3. ac.usage # NoUsage /\ ac.usage.input = 3 /\ ac.usage.output = o /\ ac.usage.total = t
  BY UsageFacts
<1>4. Larger(ac.usage.input, v.input) = 3 /\ Larger(ac.usage.output, v.output) = o + 1
  BY <1>2, <1>3 DEF Larger
<1>5. Larger(ac.usage.total, v.total) = t
  BY <1>2, <1>3 DEF Larger
<1>6. (IF t = 0 THEN 3 + (o + 1) ELSE t) = 4
  OBVIOUS
<1>7. PICK z : z = UsageInfo(3, o + 1, 4)
  OBVIOUS
<1>8. merge_usage(ac, v) = [ac EXCEPT !.usage = UsageInfo(3, o + 1, IF t = 0 THEN 3 + (o + 1) ELSE t)]
  BY <1>3, <1>4, <1>5 DEF merge_usage
<1>9. merge_usage(ac, v) = [ac EXCEPT !.usage = z]
  BY <1>6, <1>7, <1>8
<1>10. QED
  BY <1>1, <1>7, <1>9 DEF AccType

LEMMA CountsAnthropicTold ==
    ASSUME IInv, api = "anthropic", events > 0, NEW e, Receives(e), e.usage = UsageInfo(0, outputs + 1, 0),
           NEW x, NEW y, Takes(e, x, y, UsageInfo(0, outputs + 1, 0))
    PROVE  CountsInv' /\ message'.usage \in UsageType
<1>1. events \in Nat /\ outputs \in Nat /\ acc \in AccType /\ CountsAnthropic(acc, message, events, outputs, block)
  BY DEF IInv, TypeOK, CountsInv
<1>2. events # 0
  BY <1>1
<1>3. PICK t : t = IF outputs = 0 THEN 0 ELSE 4
  OBVIOUS
<1>4. message.usage = UsageInfo(3, outputs, 3 + outputs) /\ acc.usage = UsageInfo(3, outputs, t)
  BY <1>1, <1>2, <1>3 DEF CountsAnthropic
<1>5. PICK v : v = UsageInfo(0, outputs + 1, 0)
  OBVIOUS
<1>6. v # NoUsage /\ v.output = outputs + 1
  BY <1>1, <1>5 DEF UsageInfo, NoUsage
<1>7. message'.usage = UsageInfo(3, outputs + 1, 3 + (outputs + 1)) /\ message'.usage \in UsageType
  <2>1. PICK w : w = message'.usage
    OBVIOUS
  <2>2. UsageSaid(message.usage, UsageInfo(0, outputs + 1, 0), w)
    BY <2>1 DEF Receives
  <2>3. QED
    BY <1>1, <1>4, <2>1, <2>2, SaidAnthropic
<1>8. acc'.usage = UsageInfo(3, outputs + 1, 4)
  <2>1. acc'.usage = merge_usage(acc, v).usage
    BY <1>5, <1>6 DEF Takes, Counted2
  <2>2. merge_usage(acc, UsageInfo(0, outputs + 1, 0)).usage = UsageInfo(3, outputs + 1, 4)
    BY <1>1, <1>3, <1>4, MergedAnthropic
  <2>3. QED
    BY <1>5, <2>1, <2>2
<1>9. outputs' = outputs + 1 /\ events' # 0 /\ api' = "anthropic"
  <2>1. e.usage = v
    BY <1>5
  <2>2. Tally(e) = 1
    BY <1>1, <1>6, <2>1 DEF Tally
  <2>3. outputs' = outputs + Tally(e) /\ events' = events + 1 /\ api' = api
    BY DEF Receives
  <2>4. QED
    BY <1>1, <2>2, <2>3
<1>10. CountsAnthropic(acc', message', events', outputs', block')
  <2>1. outputs + 1 # 0
    BY <1>1
  <2>2. QED
    BY <1>7, <1>8, <1>9, <2>1 DEF CountsAnthropic
<1>11. QED
  BY <1>7, <1>9, <1>10 DEF CountsInv

LEMMA AnthropicMessageDeltaStep == ASSUME IInv, AnthropicMessageDelta PROVE IInv'
<1>1. TypeOK /\ outputs \in Nat
  BY DEF IInv, TypeOK
<1>20. PICK stop \in {"end_turn", "max_tokens", "tool_use"} :
          Receive([Event("message_delta") EXCEPT !.stop = stop, !.usage = UsageInfo(0, outputs + 1, 0)])
  BY DEF AnthropicMessageDelta
<1>2. PICK u, e :
          /\ u = UsageInfo(0, outputs + 1, 0)
          /\ e = [Event("message_delta") EXCEPT !.stop = stop, !.usage = u]
          /\ Receive(e)
  BY <1>20
<1>3. u \in UsageType /\ u # NoUsage /\ u.output = outputs + 1
  BY <1>1, <1>2 DEF UsageInfo, UsageType, NoUsage
<1>4. /\ Receives(e) /\ api = "anthropic" /\ phase \in {"body", "stopped"} /\ phase' = "stopped" /\ block' = block
      /\ losses' = losses /\ events > 0
  BY <1>2, Received DEF AnthropicMessageDelta
<1>5. EventOf(e, "message_delta", <<>>, <<>>, <<>>, "", stop, u)
  BY <1>2 DEF Event, EventOf
<1>6. Announces(e) /\ Nameless(e) /\ ChatSays(e)
  BY <1>4, <1>5 DEF EventOf, Announces, Nameless, Stops, ChatSays
<1>7. Parses(e, Usage(u, RawOf(api, e)))
  <2>1. e.usage = u
    BY <1>5 DEF EventOf
  <2>2. UsageInfo(0, e.usage.output, 0) = u
    BY <1>2, <1>3, <2>1
  <2>3. QED
    BY <1>4, <1>5, <2>2 DEF Parses, parse_stream_chunk, AnthropicChunks, EventOf, RawOf
<1>8. Takes(e, <<>>, <<>>, u) /\ acc' \in AccType /\ CallsKept(acc, acc')
  BY <1>1, <1>3, <1>4, <1>6, <1>7, TakesUsage
<1>9. More /\ Placed
  BY <1>1, <1>4, Unchanged DEF TypeOK, Placed
<1>10. Says(e.text, e.thought, events) /\ Feeds(api, losses', e.text, e.thought, <<>>, <<>>)
  BY <1>5, NothingSaid, AllFed DEF EventOf
<1>11. e.calls = <<>> /\ e.usage = UsageInfo(0, outputs + 1, 0) /\ Takes(e, <<>>, <<>>, UsageInfo(0, outputs + 1, 0))
  BY <1>2, <1>5, <1>8 DEF EventOf
<1>12. phase # "done"
  BY <1>4
<1>13. CallInv'
  BY <1>4, <1>8, <1>9, <1>11, <1>12, CallsQuiet
<1>14. CountsInv' /\ message'.usage \in UsageType
  BY <1>4, <1>11, CountsAnthropicTold
<1>15. QED
  BY <1>4, <1>6, <1>8, <1>9, <1>10, <1>13, <1>14, Whole

(***************************************************************************)
(* The events with calls.                                                  *)
(***************************************************************************)
LEMMA ShortPrefixes ==
    ASSUME NEW h, NEW t
    PROVE  SubSeq(<<h, t>>, 1, 0) = <<>> /\ SubSeq(<<h, t>>, 1, 1) = <<h>> /\ SubSeq(<<h, t>>, 1, 2) = <<h, t>>
<1>1. PICK s : s = <<h, t>>
  OBVIOUS
<1>2. s \in Seq({h, t}) /\ Len(s) = 2 /\ s[1] = h /\ s[2] = t
  BY <1>1
<1>3. SubSeq(s, 1, 0) = <<>>
  BY <1>2
<1>4. SubSeq(s, 1, 1) = <<h>>
  <2>1. PICK q : q = SubSeq(s, 1, 1)
    OBVIOUS
  <2>2. q \in Seq({h, t}) /\ Len(q) = 1 /\ q[1] = s[1]
    BY <1>2, <2>1, SubSeqProperties
  <2>3. PICK r : r = <<h>>
    OBVIOUS
  <2>4. r \in Seq({h, t}) /\ Len(r) = 1 /\ r[1] = h
    BY <2>3
  <2>5. q = r
    BY <1>2, <2>2, <2>4, SeqEqual
  <2>6. QED
    BY <2>1, <2>3, <2>5
<1>5. SubSeq(s, 1, 2) = s
  <2>1. PICK q : q = SubSeq(s, 1, 2)
    OBVIOUS
  <2>2. q \in Seq({h, t}) /\ Len(q) = 2 /\ q[1] = s[1] /\ q[2] = s[2]
    BY <1>2, <2>1, SubSeqProperties
  <2>3. QED
    BY <1>2, <2>1, <2>2, SeqEqual
<1>6. QED
  BY <1>1, <1>3, <1>4, <1>5

LEMMA BelowTwo == \A n \in 0..2 : n < 2 => n = 0 \/ n = 1
OBVIOUS

LEMMA EntryMade ==
    ASSUME NEW s \in 1..3, NEW id, id \in CallIds, NEW name, name \in Seq({"name"}), NEW r, r \in Seq(FragmentType)
    PROVE  Entry(s, id, name, r) \in EntryType
BY DEF Entry, EntryType

LEMMA FragmentMade ==
    ASSUME NEW s \in 1..3, NEW part, part \in {"head", "tail"}
    PROVE  <<Fragment(s, part)>> \in Seq(FragmentType)
<1>1. Fragment(s, part) \in FragmentType
  BY DEF Fragment, FragmentType
<1>2. QED
  BY <1>1

LEMMA OpeningFacts ==
    ASSUME Shape(message.calls), NEW given, given \subseteq 0..2, NEW f \in Opening(given)
    PROVE  f \in EntryType /\ OpensCall(message.calls, f)
<1>1. PICK n, cs : cs = message.calls /\ n = Len(cs) + 1
  OBVIOUS
<1>2. Len(cs) \in 0..3
  BY <1>1, ShapeFacts
<1>3. PICK h, t, k : /\ h = Fragment(n, "head") /\ t = Fragment(n, "tail")
                     /\ k \in given /\ Len(cs) < MaxCalls
                     /\ f = Entry(n, Ids[n], <<"name">>, SubSeq(<<h, t>>, 1, k))
  BY <1>1 DEF Opening
<1>4. n \in 1..3 /\ k \in 0..2
  BY <1>1, <1>2, <1>3, BoundsAssumption
<1>5. SubSeq(<<h, t>>, 1, k) \in {<<>>, <<h>>, <<h, t>>}
  <2>1. CASE k = 0
    BY <2>1, ShortPrefixes
  <2>2. CASE k = 1
    BY <2>2, ShortPrefixes
  <2>3. CASE k = 2
    BY <2>3, ShortPrefixes
  <2>4. QED
    BY <1>4, <2>1, <2>2, <2>3
<1>6. PICK r : r = SubSeq(<<h, t>>, 1, k)
  OBVIOUS
<1>7. r \in Args(n) /\ r \in Seq(FragmentType)
  BY <1>3, <1>4, <1>5, <1>6, ArgsFacts DEF Args
<1>8. f.slot = n /\ f.id = Ids[n] /\ f.name = <<"name">> /\ f.arguments = r
  BY <1>3, <1>6 DEF Entry
<1>9. f \in EntryType
  <2>1. Ids[n] \in CallIds
    BY <1>4, IdsFacts
  <2>2. <<"name">> \in Seq({"name"})
    OBVIOUS
  <2>3. QED
    BY <1>3, <1>4, <1>6, <1>7, <2>1, <2>2, EntryMade
<1>10. QED
  BY <1>1, <1>7, <1>8, <1>9 DEF OpensCall

LEMMA ContinuingFacts ==
    ASSUME Shape(message.calls), NEW f \in Continuing
    PROVE  f \in EntryType /\ GoesOn(message.calls, f) /\ f.name = <<>>
<1>1. PICK cs : cs = message.calls
  OBVIOUS
<1>2. PICK s, n, part, r :
          /\ s \in DOMAIN cs /\ n = Len(cs[s].arguments_json) /\ n < 2
          /\ part = (IF n = 0 THEN "head" ELSE "tail")
          /\ r = <<Fragment(s, part)>>
          /\ f = Entry(s, "", <<>>, r)
  BY <1>1 DEF Continuing, Said
<1>3. s \in 1..3 /\ cs[s].arguments_json \in Args(s)
  BY <1>1, <1>2, ShapeFacts
<1>4. n \in 0..2
  BY <1>2, <1>3, ArgsFacts
<1>5. f.slot = s /\ f.id = "" /\ f.name = <<>> /\ f.arguments = r
  BY <1>2 DEF Entry
<1>6. r \in Seq(FragmentType)
  <2>1. part \in {"head", "tail"}
    BY <1>2
  <2>2. QED
    BY <1>2, <1>3, <2>1, FragmentMade
<1>7. f \in EntryType
  <2>1. "" \in CallIds
    BY DEF CallIds
  <2>2. <<>> \in Seq({"name"})
    OBVIOUS
  <2>3. QED
    BY <1>2, <1>3, <1>6, <2>1, <2>2, EntryMade
<1>8. GoesOn(cs, f)
  <2>1. CASE n = 0
    <3>1. cs[s].arguments_json = <<>> /\ r = <<Fragment(s, "head")>>
      BY <1>2, <1>3, <2>1, ArgsFacts
    <3>2. QED
      BY <1>2, <1>5, <3>1 DEF GoesOn
  <2>2. CASE n = 1
    <3>1. cs[s].arguments_json = <<Fragment(s, "head")>> /\ r = <<Fragment(s, "tail")>>
      BY <1>2, <1>3, <2>2, ArgsFacts
    <3>2. QED
      BY <1>2, <1>5, <3>1 DEF GoesOn
  <2>3. n = 0 \/ n = 1
    BY <1>2, <1>4, BelowTwo
  <2>4. QED
    BY <2>1, <2>2, <2>3
<1>9. QED
  BY <1>1, <1>5, <1>7, <1>8

LEMMA FirstCall ==
    ASSUME NEW e, NEW f, NEW cs, cs[1] = f, NEW kind, NEW id, NEW stop, NEW tx, NEW th, NEW u,
           EventOf(e, kind, tx, th, cs, id, stop, u)
    PROVE  e.calls[1] = f /\ e.kind = kind
BY Zenon DEF EventOf

(* One entry about a call, fed as a delta without an index.                *)
LastOnly(calls, f, lost) == f.name = <<>> /\ (lost \cap Mixed = {} => f.slot = Len(calls))
InTurn(f, lost) ==
    OpensCall(message.calls, f) \/ (GoesOn(message.calls, f) /\ LastOnly(message.calls, f, lost))

LEMMA LastGoesOn ==
    ASSUME NEW a, a # "chat", NEW ac \in AccType, NEW calls, NEW lost, NEW ph, ph # "done", CallPart(a, ac, calls, lost, ph),
           NEW e \in EntryType, GoesOn(calls, e), LastOnly(calls, e, lost),
           NEW b, CallsKept(accumulate_tool_call(ac, Delta(NoIndex, e)), b),
           NEW x, x = Extended(calls, e)
    PROVE  CallPart(a, b, x, lost, ph) /\ CallsType(b)
BY OtherGoesOn, Zenon DEF LastOnly

LEMMA OtherCall ==
    ASSUME IInv, NEW e, Receives(e), Announces(e), api # "chat", phase # "done", phase' # "done", More,
           NEW f, f \in EntryType, InTurn(f, losses'), Parses(e, ToolCallDelta(Delta(NoIndex, f), RawOf(api, e)))
    PROVE  /\ CallPart(api', acc', Extended(message.calls, f), losses', phase')
           /\ Takes(e, <<>>, <<>>, NoUsage) /\ acc' \in AccType
<1>1. TypeOK /\ acc \in AccType /\ CallPart(api, acc, message.calls, losses, phase)
  BY DEF IInv, TypeOK, CallInv
<1>2. PICK d : d = Delta(NoIndex, f)
  OBVIOUS
<1>3. d \in DeltaType
  BY <1>2, DeltaFacts DEF NoIndex
<1>4. /\ Takes(e, <<>>, <<>>, NoUsage) /\ CallsKept(accumulate_tool_call(acc, d), acc')
      /\ CallsType(acc') => acc' \in AccType
  BY <1>1, <1>2, <1>3, TakesCall
<1>5. PICK a, b, cs, lost2, ph2, z :
          /\ a = api /\ b = acc' /\ cs = message.calls /\ lost2 = losses' /\ ph2 = phase'
          /\ z = Extended(cs, f)
  OBVIOUS
<1>6. CallPart(a, acc, cs, lost2, ph2)
  <2>1. CallPart(a, acc, cs, losses, phase) /\ losses \subseteq lost2
    BY <1>1, <1>5 DEF More
  <2>2. CallsKept(acc, acc)
    BY DEF CallsKept
  <2>3. QED
    BY <2>1, <2>2, CallsStay
<1>7. a # "chat" /\ ph2 # "done" /\ CallsKept(accumulate_tool_call(acc, Delta(NoIndex, f)), b)
  BY <1>2, <1>4, <1>5
<1>8. CallPart(a, b, z, lost2, ph2) /\ CallsType(b)
  <2>1. CASE OpensCall(message.calls, f)
    <3>1. OpensCall(cs, f)
      BY <1>5, <2>1
    <3>2. QED
      BY <1>1, <1>5, <1>6, <1>7, <3>1, OtherOpens
  <2>2. CASE ~OpensCall(message.calls, f)
    <3>1. GoesOn(cs, f) /\ LastOnly(cs, f, lost2)
      BY <1>5, <2>2 DEF InTurn
    <3>2. QED
      BY <1>1, <1>5, <1>6, <1>7, <3>1, LastGoesOn
  <2>3. QED
    BY <2>1, <2>2
<1>9. api' = a
  BY <1>5 DEF Receives
<1>10. QED
  BY <1>4, <1>5, <1>8, <1>9

LEMMA OneCall ==
    ASSUME NEW e, Receives(e), NEW f, e.calls = <<f>>,
           CallPart(api', acc', Extended(message.calls, f), losses', phase')
    PROVE  CallInv'
<1>1. message'.calls = Extended(message.calls, f)
  BY ExtendOne DEF Receives
<1>2. QED
  BY <1>1 DEF CallInv

(* An event with one call and nothing else.                                *)
LEMMA CallOnly ==
    ASSUME IInv, NEW e, Receives(e), Announces(e), Nameless(e), api # "chat", phase # "done", phase' # "done",
           More, Placed, NEW f, f \in EntryType, InTurn(f, losses'),
           e.calls = <<f>>, e.text = <<>>, e.thought = <<>>, e.usage = NoUsage,
           Parses(e, ToolCallDelta(Delta(NoIndex, f), RawOf(api, e))), api = "anthropic" => events > 0
    PROVE  IInv'
<1>1. /\ CallPart(api', acc', Extended(message.calls, f), losses', phase')
      /\ Takes(e, <<>>, <<>>, NoUsage) /\ acc' \in AccType
  BY OtherCall
<1>2. CallInv'
  BY <1>1, OneCall
<1>3. CountsInv' /\ message'.usage \in UsageType
  BY <1>1, CountsSilent
<1>4. Says(e.text, e.thought, events) /\ Feeds(api, losses', e.text, e.thought, <<>>, <<>>)
  BY NothingSaid, AllFed
<1>5. ChatSays(e)
  BY NotChat
<1>6. QED
  BY <1>1, <1>2, <1>3, <1>4, <1>5, Whole

LEMMA CallsShape == ASSUME IInv PROVE Shape(message.calls)
BY DEF IInv, CallInv, CallPart

LEMMA ResponsesItemStep == ASSUME IInv, ResponsesItem PROVE IInv'
<1>1. TypeOK /\ Shape(message.calls)
  BY CallsShape DEF IInv
<1>2. PICK f, e : /\ f \in Opening({0})
                  /\ e = [Event("output_item.added") EXCEPT !.calls = <<f>>]
                  /\ Receive(e) /\ Keeps({})
  BY DEF ResponsesItem
<1>3. Receives(e) /\ api = "responses" /\ phase = "body" /\ phase' = phase /\ block' = block
  BY <1>2, Received DEF ResponsesItem
<1>4. EventOf(e, "output_item.added", <<>>, <<>>, <<f>>, "", "", NoUsage)
  BY <1>2 DEF Event, EventOf
<1>5. Announces(e) /\ Nameless(e)
  BY <1>3, <1>4 DEF EventOf, Announces, Nameless, Stops
<1>6. f \in EntryType /\ OpensCall(message.calls, f)
  <2>1. {0} \subseteq 0..2
    OBVIOUS
  <2>2. QED
    BY <1>1, <1>2, <2>1, OpeningFacts
<1>7. InTurn(f, losses')
  BY <1>6 DEF InTurn
<1>8. Parses(e, ToolCallDelta(Delta(NoIndex, f), RawOf(api, e)))
  <2>1. <<f>>[1] = f
    OBVIOUS
  <2>2. e.calls[1] = f /\ e.kind = "output_item.added"
    BY <1>4, <2>1, FirstCall
  <2>3. QED
    BY <1>3, <2>2 DEF Parses, parse_stream_chunk, ResponsesChunks, RawOf
<1>9. More /\ losses' \subseteq Losses
  <2>1. {} \subseteq Losses
    OBVIOUS
  <2>2. QED
    BY <1>1, <1>2, <2>1, Kept
<1>10. Placed
  BY <1>1, <1>3, <1>9 DEF TypeOK, Placed
<1>11. e.calls = <<f>> /\ e.text = <<>> /\ e.thought = <<>> /\ e.usage = NoUsage
  BY <1>4 DEF EventOf
<1>12. api # "chat" /\ api # "anthropic" /\ phase # "done" /\ phase' # "done"
  BY <1>3
<1>13. QED
  BY <1>3, <1>5, <1>6, <1>7, <1>8, <1>9, <1>10, <1>11, <1>12, CallOnly

LEMMA ResponsesArgumentsStep == ASSUME IInv, ResponsesArguments PROVE IInv'
<1>1. TypeOK /\ Shape(message.calls)
  BY CallsShape DEF IInv
<1>2. PICK f, e, lost :
          /\ f \in Continuing
          /\ e = [Event("arguments.delta") EXCEPT !.calls = <<f>>]
          /\ Receive(e) /\ Keeps(lost)
          /\ lost = If(f.slot # Len(message.calls), "calls interleaved")
  BY DEF ResponsesArguments
<1>3. Receives(e) /\ api = "responses" /\ phase = "body" /\ phase' = phase /\ block' = block
  BY <1>2, Received DEF ResponsesArguments
<1>4. EventOf(e, "arguments.delta", <<>>, <<>>, <<f>>, "", "", NoUsage)
  BY <1>2 DEF Event, EventOf
<1>5. Announces(e) /\ Nameless(e)
  BY <1>3, <1>4 DEF EventOf, Announces, Nameless, Stops
<1>6. f \in EntryType /\ GoesOn(message.calls, f) /\ f.name = <<>>
  BY <1>1, <1>2, ContinuingFacts
<1>7. lost \subseteq Losses /\ (f.slot # Len(message.calls) => "calls interleaved" \in lost)
  BY <1>2 DEF If, Losses
<1>8. More /\ losses' \subseteq Losses /\ lost \subseteq losses'
  BY <1>1, <1>2, <1>7, Kept
<1>9. InTurn(f, losses')
  <2>1. f.slot # Len(message.calls) => "calls interleaved" \in losses' \cap Mixed
    BY <1>7, <1>8 DEF Mixed
  <2>2. losses' \cap Mixed = {} => f.slot = Len(message.calls)
    BY <2>1
  <2>3. QED
    BY <1>6, <2>2, Zenon DEF InTurn, LastOnly
<1>10. Parses(e, ToolCallDelta(Delta(NoIndex, f), RawOf(api, e)))
  <2>1. <<f>>[1] = f
    OBVIOUS
  <2>2. e.calls[1] = f /\ e.kind = "arguments.delta"
    BY <1>4, <2>1, FirstCall
  <2>3. QED
    BY <1>3, <2>2 DEF Parses, parse_stream_chunk, ResponsesChunks, RawOf
<1>11. Placed
  BY <1>1, <1>3, <1>8 DEF TypeOK, Placed
<1>12. e.calls = <<f>> /\ e.text = <<>> /\ e.thought = <<>> /\ e.usage = NoUsage
  BY <1>4 DEF EventOf
<1>13. api # "chat" /\ api # "anthropic" /\ phase # "done" /\ phase' # "done"
  BY <1>3
<1>14. QED
  BY <1>3, <1>5, <1>6, <1>8, <1>9, <1>10, <1>11, <1>12, <1>13, CallOnly

LEMMA AnthropicBlockStartStep == ASSUME IInv, AnthropicBlockStart PROVE IInv'
<1>1. TypeOK /\ Shape(message.calls)
  BY CallsShape DEF IInv
<1>2. PICK kind, entries, e :
          /\ kind \in {"text", "thinking", "tool_use"}
          /\ block' = kind
          /\ entries = <<>> \/ \E f \in Opening({0}) : entries = <<f>>
          /\ e = [Event("content_block_start") EXCEPT !.calls = entries]
          /\ Receive(e)
  <2>1. PICK kind \in {"text", "thinking", "tool_use"} :
            /\ block' = kind
            /\ \E entries \in (IF kind = "tool_use" THEN {<<e>> : e \in Opening({0})} ELSE {<<>>}) :
                  Receive([Event("content_block_start") EXCEPT !.calls = entries])
    BY DEF AnthropicBlockStart
  <2>2. PICK entries \in (IF kind = "tool_use" THEN {<<e>> : e \in Opening({0})} ELSE {<<>>}) :
            Receive([Event("content_block_start") EXCEPT !.calls = entries])
    BY <2>1
  <2>3. entries = <<>> \/ \E f \in Opening({0}) : entries = <<f>>
    BY <2>2
  <2>4. QED
    BY <2>1, <2>2, <2>3
<1>3. /\ Receives(e) /\ api = "anthropic" /\ phase = "body" /\ phase' = phase /\ losses' = losses
      /\ events > 0
  BY <1>2, Received DEF AnthropicBlockStart
<1>4. EventOf(e, "content_block_start", <<>>, <<>>, entries, "", "", NoUsage)
  BY <1>2 DEF Event, EventOf
<1>5. Announces(e) /\ Nameless(e) /\ ChatSays(e)
  BY <1>3, <1>4 DEF EventOf, Announces, Nameless, Stops, ChatSays
<1>6. More /\ losses' \subseteq Losses
  BY <1>1, <1>3, Unchanged
<1>7. Placed
  BY <1>1, <1>2, <1>3, <1>6 DEF TypeOK, Placed
<1>8. e.text = <<>> /\ e.thought = <<>> /\ e.usage = NoUsage /\ e.calls = entries /\ e.kind = "content_block_start"
  BY <1>4 DEF EventOf
<1>9. phase # "done" /\ phase' # "done" /\ api # "chat"
  BY <1>3
<1>10. CASE entries = <<>>
  <2>1. Parses(e, TextDelta(<<>>, RawOf(api, e)))
    BY <1>3, <1>8, <1>10 DEF Parses, parse_stream_chunk, AnthropicChunks, RawOf, NoOp
  <2>2. Takes(e, <<>>, <<>>, NoUsage) /\ acc' \in AccType /\ CallsKept(acc, acc')
    BY <1>1, <1>3, <1>5, <2>1, NothingSaid, TakesText
  <2>3. Says(e.text, e.thought, events) /\ Feeds(api, losses', e.text, e.thought, <<>>, <<>>)
    BY <1>8, NothingSaid, AllFed
  <2>4. e.calls = <<>>
    BY <1>8, <1>10
  <2>5. QED
    BY <1>3, <1>5, <1>6, <1>7, <1>8, <1>9, <2>2, <2>3, <2>4, Quiet
<1>11. CASE entries # <<>>
  <2>1. PICK f \in Opening({0}) : entries = <<f>>
    BY <1>2, <1>11
  <2>2. f \in EntryType /\ OpensCall(message.calls, f)
    <3>1. {0} \subseteq 0..2
      OBVIOUS
    <3>2. QED
      BY <1>1, <2>1, <3>1, OpeningFacts
  <2>3. InTurn(f, losses')
    BY <2>2 DEF InTurn
  <2>4. Parses(e, ToolCallDelta(Delta(NoIndex, f), RawOf(api, e)))
    <3>1. entries[1] = f
      BY <2>1
    <3>2. e.calls[1] = f
      BY <1>8, <3>1, Zenon
    <3>3. e.calls # <<>>
      BY <1>8, <1>11
    <3>4. QED
      BY <1>3, <1>8, <3>2, <3>3 DEF Parses, parse_stream_chunk, AnthropicChunks, RawOf
  <2>5. e.calls = <<f>>
    BY <1>8, <2>1
  <2>6. QED
    BY <1>3, <1>5, <1>6, <1>7, <1>8, <1>9, <2>2, <2>3, <2>4, <2>5, CallOnly
<1>12. QED
  BY <1>10, <1>11

LEMMA AnthropicBlockDeltaStep == ASSUME IInv, AnthropicBlockDelta PROVE IInv'
<1>1. TypeOK /\ Shape(message.calls)
  BY CallsShape DEF IInv
<1>2. /\ api = "anthropic" /\ phase = "body" /\ phase' = phase /\ block' = block /\ losses' = losses
  BY DEF AnthropicBlockDelta
<1>3. More /\ Placed
  BY <1>1, <1>2, Unchanged DEF TypeOK, Placed
<1>4. phase # "done" /\ phase' # "done" /\ api # "chat"
  BY <1>2
<1>5. CASE block = "text" /\ Receive([Event("content_block_delta") EXCEPT !.text = Piece("word")])
  <2>1. PICK s, e : s = Piece("word") /\ e = [Event("content_block_delta") EXCEPT !.text = s] /\ Receive(e)
    BY <1>5
  <2>2. s \in Seq(PieceType) /\ s # <<>> /\ Says(s, <<>>, events)
    BY <1>1, <2>1, WordSaid
  <2>3. EventOf(e, "content_block_delta", s, <<>>, <<>>, "", "", NoUsage)
    BY <2>1 DEF Event, EventOf
  <2>4. Announces(e) /\ Nameless(e) /\ ChatSays(e)
    BY <1>2, <2>3 DEF EventOf, Announces, Nameless, Stops, ChatSays
  <2>5. /\ e.text = s /\ e.thought = <<>> /\ e.usage = NoUsage /\ e.calls = <<>>
        /\ e.kind = "content_block_delta"
    BY <2>3 DEF EventOf
  <2>6. Receives(e) /\ events > 0
    BY <1>2, <1>5, <2>1, Received, BlockOpen
  <2>7. Parses(e, TextDelta(s, RawOf(api, e)))
    BY <1>2, <2>2, <2>5 DEF Parses, parse_stream_chunk, AnthropicChunks, RawOf
  <2>8. Takes(e, s, <<>>, NoUsage) /\ acc' \in AccType /\ CallsKept(acc, acc')
    BY <1>1, <2>2, <2>4, <2>6, <2>7, TakesText
  <2>9. Says(e.text, e.thought, events) /\ Feeds(api, losses', e.text, e.thought, s, <<>>)
    BY <2>2, <2>5, AllFed
  <2>10. QED
    BY <1>3, <1>4, <2>4, <2>5, <2>6, <2>8, <2>9, Quiet
<1>6. CASE block = "thinking" /\ Receive([Event("content_block_delta") EXCEPT !.thought = Piece("thought")])
  <2>1. PICK s, e : s = Piece("thought") /\ e = [Event("content_block_delta") EXCEPT !.thought = s] /\ Receive(e)
    BY <1>6
  <2>2. s \in Seq(PieceType) /\ s # <<>> /\ Says(<<>>, s, events)
    BY <1>1, <2>1, ThoughtSaid
  <2>3. EventOf(e, "content_block_delta", <<>>, s, <<>>, "", "", NoUsage)
    BY <2>1 DEF Event, EventOf
  <2>4. Announces(e) /\ Nameless(e) /\ ChatSays(e)
    BY <1>2, <2>3 DEF EventOf, Announces, Nameless, Stops, ChatSays
  <2>5. /\ e.text = <<>> /\ e.thought = s /\ e.usage = NoUsage /\ e.calls = <<>>
        /\ e.kind = "content_block_delta"
    BY <2>3 DEF EventOf
  <2>6. Receives(e) /\ events > 0
    BY <1>2, <1>6, <2>1, Received, BlockOpen
  <2>7. Parses(e, ThinkingDelta(s, RawOf(api, e)))
    BY <1>2, <2>2, <2>5 DEF Parses, parse_stream_chunk, AnthropicChunks, RawOf
  <2>8. Takes(e, <<>>, s, NoUsage) /\ acc' \in AccType /\ CallsKept(acc, acc')
    BY <1>1, <2>2, <2>4, <2>6, <2>7, TakesThinking
  <2>9. Says(e.text, e.thought, events) /\ Feeds(api, losses', e.text, e.thought, <<>>, s)
    BY <2>2, <2>5, AllFed
  <2>10. QED
    BY <1>3, <1>4, <2>4, <2>5, <2>6, <2>8, <2>9, Quiet
<1>7. CASE /\ block = "tool_use"
           /\ \E f \in Continuing : /\ f.slot = Len(message.calls)
                                    /\ Receive([Event("content_block_delta") EXCEPT !.calls = <<f>>])
  <2>1. PICK f, e : /\ f \in Continuing /\ f.slot = Len(message.calls)
                    /\ e = [Event("content_block_delta") EXCEPT !.calls = <<f>>] /\ Receive(e)
    BY <1>7
  <2>2. f \in EntryType /\ GoesOn(message.calls, f) /\ f.name = <<>>
    BY <1>1, <2>1, ContinuingFacts
  <2>3. InTurn(f, losses')
    BY <2>1, <2>2, Zenon DEF InTurn, LastOnly
  <2>4. EventOf(e, "content_block_delta", <<>>, <<>>, <<f>>, "", "", NoUsage)
    BY <2>1 DEF Event, EventOf
  <2>5. Announces(e) /\ Nameless(e)
    BY <1>2, <2>4 DEF EventOf, Announces, Nameless, Stops
  <2>6. /\ e.text = <<>> /\ e.thought = <<>> /\ e.usage = NoUsage /\ e.calls = <<f>>
        /\ e.kind = "content_block_delta"
    BY <2>4 DEF EventOf
  <2>7. Receives(e) /\ events > 0
    BY <1>2, <1>7, <2>1, Received, BlockOpen
  <2>8. Parses(e, ToolCallDelta(Delta(NoIndex, f), RawOf(api, e)))
    <3>1. <<f>>[1] = f
      OBVIOUS
    <3>2. e.calls[1] = f
      BY <2>4, <3>1, FirstCall
    <3>3. e.calls # <<>>
      BY <2>6, ShortFacts
    <3>4. QED
      BY <1>2, <2>6, <3>2, <3>3 DEF Parses, parse_stream_chunk, AnthropicChunks, RawOf
  <2>9. QED
    BY <1>3, <1>4, <2>2, <2>3, <2>5, <2>6, <2>7, <2>8, CallOnly
<1>8. QED
  BY <1>5, <1>6, <1>7 DEF AnthropicBlockDelta

(* Chat completions: one or two entries in one event, each with its index. *)
ChatTurn(calls, f, lost) == OpensCall(calls, f) \/ (GoesOn(calls, f) /\ NamedOnce(f, lost))
ChatDeltaOf(c, raw) == ToolCallDelta(Delta(c.slot - 1, c), raw)

LEMMA DeltasOfOne ==
    ASSUME NEW f, NEW raw
    PROVE  [i \in DOMAIN <<f>> |-> ChatDeltaOf(<<f>>[i], raw)] = <<ChatDeltaOf(f, raw)>>
OBVIOUS

LEMMA DeltasOfTwo ==
    ASSUME NEW f, NEW g, NEW raw
    PROVE  [i \in DOMAIN <<f, g>> |-> ChatDeltaOf(<<f, g>>[i], raw)] = <<ChatDeltaOf(f, raw), ChatDeltaOf(g, raw)>>
OBVIOUS

SameRest(a, b) == b.text = a.text /\ b.thinking = a.thinking /\ b.usage = a.usage

LEMMA ChatCall ==
    ASSUME NEW ac \in AccType, NEW calls, NEW lost, NEW ph, CallPart("chat", ac, calls, lost, ph),
           NEW f \in EntryType, ChatTurn(calls, f, lost), NEW raw \in RawType,
           NEW b, b = feed(ac, ChatDeltaOf(f, raw))
    PROVE  /\ CallPart("chat", b, Extended(calls, f), lost, ph)
           /\ b \in AccType /\ Known(ac, b, raw) /\ SameRest(ac, b)
<1>1. PICK k \in Nat : f.slot = k + 1
  <2>1. f.slot \in 1..3
    BY DEF EntryType
  <2>2. f.slot - 1 \in Nat /\ f.slot = (f.slot - 1) + 1
    BY <2>1
  <2>3. QED
    BY <2>2
<1>2. f.slot - 1 = k
  BY <1>1
<1>3. PICK d : d = Delta(k, f)
  OBVIOUS
<1>4. d \in DeltaType
  BY <1>1, <1>3, DeltaFacts
<1>5. b = feed(ac, ToolCallDelta(d, raw))
  BY <1>2, <1>3 DEF ChatDeltaOf
<1>6. Known(ac, b, raw) /\ CallsKept(accumulate_tool_call(ac, d), b) /\ SameRest(ac, b)
  BY <1>4, <1>5, FedCall DEF SameRest
<1>7. CallsType(b) => b \in AccType
  BY <1>4, <1>5, FedCallType
<1>8. PICK x : x = Extended(calls, f)
  OBVIOUS
<1>9. CallsKept(accumulate_tool_call(ac, Delta(k, f)), b)
  BY <1>3, <1>6
<1>10. CallPart("chat", b, x, lost, ph) /\ CallsType(b)
  <2>1. CASE OpensCall(calls, f)
    BY <1>1, <1>8, <1>9, <2>1, ChatOpens
  <2>2. CASE GoesOn(calls, f) /\ NamedOnce(f, lost)
    BY <1>1, <1>8, <1>9, <2>2, ChatGoesOn
  <2>3. QED
    BY <2>1, <2>2 DEF ChatTurn
<1>11. QED
  BY <1>6, <1>7, <1>8, <1>10

LEMMA ChatSecond ==
    ASSUME NEW calls, NEW lost, Shape(calls), NEW f \in EntryType, GoesOn(calls, f),
           NEW g \in EntryType, ChatTurn(calls, g, lost), f.slot # g.slot
    PROVE  ChatTurn(Extended(calls, f), g, lost)
<1>1. PICK x : x = Extended(calls, f)
  OBVIOUS
<1>2. MayCome(calls, g)
  BY DEF MayCome, ChatTurn
<1>3. MayCome(x, g)
  BY <1>1, <1>2, EntryAfter
<1>4. OpensCall(x, g) \/ GoesOn(x, g)
  BY <1>3 DEF MayCome
<1>5. CASE OpensCall(calls, g)
  <2>1. ~GoesOn(x, g)
    <3>1. SUFFICES ASSUME GoesOn(x, g) PROVE FALSE
      OBVIOUS
    <3>2. g.id = ""
      BY <3>1, GoesOnFacts
    <3>3. g.slot \in 1..3 /\ g.id = Ids[g.slot]
      BY <1>5 DEF OpensCall, EntryType
    <3>4. QED
      BY <3>2, <3>3, IdsFacts
  <2>2. QED
    BY <1>1, <1>4, <2>1 DEF ChatTurn
<1>6. CASE GoesOn(calls, g) /\ NamedOnce(g, lost)
  BY <1>1, <1>4, <1>6 DEF ChatTurn
<1>7. QED
  BY <1>5, <1>6 DEF ChatTurn

(* Entries of one event, read by feed.                                     *)
TwoCalls(e, f, g) == e.calls = <<f, g>>

LEMMA TwoExtended ==
    ASSUME NEW e, Receives(e), NEW f, NEW g, TwoCalls(e, f, g)
    PROVE  message'.calls = Extended(Extended(message.calls, f), g)
<1>1. PICK s, cs : s = <<f, g>> /\ cs = message.calls
  OBVIOUS
<1>2. PICK r : r = FoldLeft(Extended, cs, s)
  OBVIOUS
<1>3. IsPair(s, f, g)
  BY <1>1 DEF IsPair
<1>4. r = Extended(Extended(cs, f), g)
  <2>1. ExtendedTwice(r, cs, f, g)
    BY <1>2, <1>3, ExtendTwo
  <2>2. QED
    BY <2>1 DEF ExtendedTwice
<1>5. message'.calls = r
  BY <1>1, <1>2, Zenon DEF Receives, TwoCalls
<1>6. QED
  BY <1>1, <1>4, <1>5

LEMMA TwoParsed ==
    ASSUME NEW e, NEW f, NEW g, TwoCalls(e, f, g), e.kind # "usage", api = "chat", NEW raw, raw = RawOf(api, e)
    PROVE  parse_stream_chunk(api, e) = <<ChatDeltaOf(f, raw), ChatDeltaOf(g, raw)>>
<1>1. parse_stream_chunk(api, e) = ChatChunks(e) /\ raw = [id |-> e.id, stop |-> e.stop]
  BY DEF parse_stream_chunk, RawOf
<1>2. <<f, g>> # <<>>
  OBVIOUS
<1>3. PICK s : s = <<f, g>> /\ s # <<>>
  BY <1>2
<1>4. e.calls = s
  BY <1>3 DEF TwoCalls
<1>5. ChatChunks(e) = [i \in DOMAIN s |-> ChatDeltaOf(s[i], raw)]
  BY <1>1, <1>3, <1>4, Zenon DEF ChatChunks, ChatDeltaOf
<1>6. QED
  BY <1>1, <1>3, <1>5, DeltasOfTwo

LEMMA TwoFed ==
    ASSUME NEW e, Receives(e), NEW c, NEW d, parse_stream_chunk(api, e) = <<c, d>>
    PROVE  acc' = feed(feed(acc, c), d)
<1>1. PICK s, a : s = <<c, d>> /\ a = acc
  OBVIOUS
<1>2. PICK r : r = FoldLeft(feed, a, s)
  OBVIOUS
<1>3. IsPair(s, c, d)
  BY <1>1 DEF IsPair
<1>4. r = feed(feed(a, c), d)
  <2>1. FedTwice(r, a, c, d)
    BY <1>2, <1>3, FeedTwo
  <2>2. QED
    BY <2>1 DEF FedTwice
<1>5. acc' = r
  BY <1>1, <1>2, Zenon DEF Receives
<1>6. QED
  BY <1>1, <1>4, <1>5

LEMMA ChatOneCall ==
    ASSUME IInv, NEW e, Receives(e), Announces(e), api = "chat", phase' # "done", phase # "done", More,
           NEW f \in EntryType, ChatTurn(message.calls, f, losses'), e.calls = <<f>>, e.kind # "usage"
    PROVE  CallInv' /\ acc' \in AccType /\ Takes(e, <<>>, <<>>, NoUsage)
<1>1. acc \in AccType /\ CallPart(api, acc, message.calls, losses, phase)
  BY DEF IInv, TypeOK, CallInv
<1>2. PICK cs, lost, ph, b, raw :
          /\ cs = message.calls /\ lost = losses' /\ ph = phase' /\ b = acc' /\ raw = RawOf(api, e)
          /\ raw \in RawType
  BY RawTyped
<1>3. CallPart("chat", acc, cs, lost, ph)
  <2>1. CallPart("chat", acc, cs, losses, phase) /\ losses \subseteq lost /\ CallsKept(acc, acc)
    BY <1>1, <1>2 DEF More, CallsKept
  <2>2. QED
    BY <1>2, <2>1, CallsStay
<1>4. b = feed(acc, ChatDeltaOf(f, raw))
  <2>1. parse_stream_chunk(api, e) = ChatChunks(e) /\ raw = [id |-> e.id, stop |-> e.stop]
    BY <1>2 DEF parse_stream_chunk, RawOf
  <2>2. PICK s : s = <<f>> /\ s # <<>>
    BY ShortFacts
  <2>3. ChatChunks(e) = [i \in DOMAIN s |-> ChatDeltaOf(s[i], raw)]
    <3>1. e.calls = s
      BY <2>2
    <3>2. QED
      BY <2>1, <2>2, <3>1, Zenon DEF ChatChunks, ChatDeltaOf
  <2>4. ChatChunks(e) = <<ChatDeltaOf(f, raw)>>
    BY <2>2, <2>3, DeltasOfOne
  <2>5. QED
    BY <1>2, <2>1, <2>4, FeedOne DEF Receives
<1>5. /\ CallPart("chat", b, Extended(cs, f), lost, ph)
      /\ b \in AccType /\ Known(acc, b, raw) /\ SameRest(acc, b)
  BY <1>1, <1>2, <1>3, <1>4, ChatCall
<1>6. acc.text \o <<>> = acc.text /\ acc.thinking \o <<>> = acc.thinking
  BY <1>1, NothingMore DEF AccType
<1>7. Takes(e, <<>>, <<>>, NoUsage)
  BY <1>2, <1>5, <1>6 DEF Takes, SameRest, Counted2
<1>8. CallInv'
  <2>1. message'.calls = Extended(cs, f)
    BY <1>2, ExtendOne DEF Receives
  <2>2. api' = "chat"
    BY DEF Receives
  <2>3. QED
    BY <1>2, <1>5, <2>1, <2>2 DEF CallInv
<1>9. QED
  BY <1>2, <1>5, <1>7, <1>8

LEMMA ChatTwoCalls ==
    ASSUME IInv, NEW e, Receives(e), Announces(e), api = "chat", phase' # "done", phase # "done", More,
           NEW f \in EntryType, GoesOn(message.calls, f), NamedOnce(f, losses'),
           NEW g \in EntryType, ChatTurn(message.calls, g, losses'), f.slot # g.slot,
           TwoCalls(e, f, g), e.kind # "usage"
    PROVE  CallInv' /\ acc' \in AccType /\ Takes(e, <<>>, <<>>, NoUsage)
<1>1. acc \in AccType /\ CallPart(api, acc, message.calls, losses, phase)
  BY DEF IInv, TypeOK, CallInv
<1>2. PICK cs, lost, ph, b, raw :
          /\ cs = message.calls /\ lost = losses' /\ ph = phase' /\ b = acc' /\ raw = RawOf(api, e)
          /\ raw \in RawType
  BY RawTyped
<1>3. CallPart("chat", acc, cs, lost, ph)
  <2>1. CallPart("chat", acc, cs, losses, phase) /\ losses \subseteq lost /\ CallsKept(acc, acc)
    BY <1>1, <1>2 DEF More, CallsKept
  <2>2. QED
    BY <1>2, <2>1, CallsStay
<1>4. PICK m : m = feed(acc, ChatDeltaOf(f, raw))
  OBVIOUS
<1>5. b = feed(m, ChatDeltaOf(g, raw))
  <2>1. parse_stream_chunk(api, e) = <<ChatDeltaOf(f, raw), ChatDeltaOf(g, raw)>>
    BY <1>2, TwoParsed
  <2>2. acc' = feed(feed(acc, ChatDeltaOf(f, raw)), ChatDeltaOf(g, raw))
    BY <2>1, TwoFed
  <2>3. QED
    BY <1>2, <1>4, <2>2
<1>6. ChatTurn(cs, f, lost) /\ ChatTurn(cs, g, lost) /\ Shape(cs) /\ GoesOn(cs, f)
  BY <1>2, CallsShape DEF ChatTurn
<1>7. PICK z : z = Extended(cs, f)
  OBVIOUS
<1>8. /\ CallPart("chat", m, z, lost, ph)
      /\ m \in AccType /\ Known(acc, m, raw) /\ SameRest(acc, m)
  BY <1>1, <1>2, <1>3, <1>4, <1>6, <1>7, ChatCall
<1>9. ChatTurn(z, g, lost)
  BY <1>6, <1>7, ChatSecond
<1>10. /\ CallPart("chat", b, Extended(z, g), lost, ph)
       /\ b \in AccType /\ Known(m, b, raw) /\ SameRest(m, b)
  BY <1>2, <1>5, <1>8, <1>9, ChatCall
<1>11. Known(acc, b, raw) /\ SameRest(acc, b)
  BY <1>8, <1>10, KnownTwice DEF SameRest
<1>12. acc.text \o <<>> = acc.text /\ acc.thinking \o <<>> = acc.thinking
  BY <1>1, NothingMore DEF AccType
<1>13. Takes(e, <<>>, <<>>, NoUsage)
  BY <1>2, <1>11, <1>12 DEF Takes, SameRest, Counted2
<1>14. CallInv'
  <2>1. message'.calls = Extended(z, g)
    BY <1>2, <1>7, TwoExtended
  <2>2. api' = "chat"
    BY DEF Receives
  <2>3. QED
    BY <1>2, <1>10, <2>1, <2>2 DEF CallInv
<1>15. QED
  BY <1>2, <1>10, <1>13, <1>14

(* What one event of a chat completion may say of the calls.               *)
OneEntry(calls, f) ==
    /\ calls = <<f>>
    /\ \/ f \in Opening({0, 2})
       \/ f \in Continuing
       \/ \E c \in Continuing : f = [c EXCEPT !.name = <<"name">>]
TwoEntries(calls, f, g) ==
    calls = <<f, g>> /\ f \in Continuing /\ (g \in Opening({0}) \/ g \in Continuing) /\ f.slot < g.slot

LEMMA ChatEntriesFacts ==
    ASSUME NEW calls \in ChatEntries
    PROVE  calls = <<>> \/ (\E f : OneEntry(calls, f)) \/ (\E f, g : TwoEntries(calls, f, g))
<1>1. \/ calls = <<>>
      \/ \E f \in Opening({0, 2}) \cup Continuing \cup {[e EXCEPT !.name = <<"name">>] : e \in Continuing} : calls = <<f>>
      \/ \E two \in Continuing \X (Opening({0}) \cup Continuing) : two[1].slot < two[2].slot /\ calls = two
  BY DEF ChatEntries
<1>2. ASSUME NEW f \in Opening({0, 2}) \cup Continuing \cup {[e EXCEPT !.name = <<"name">>] : e \in Continuing}, calls = <<f>>
      PROVE  OneEntry(calls, f)
  <2>1. f \in Opening({0, 2}) \/ f \in Continuing \/ f \in {[e EXCEPT !.name = <<"name">>] : e \in Continuing}
    BY <1>2
  <2>2. f \in {[e EXCEPT !.name = <<"name">>] : e \in Continuing} =>
            \E c \in Continuing : f = [c EXCEPT !.name = <<"name">>]
    OBVIOUS
  <2>3. QED
    BY <1>2, <2>1, <2>2 DEF OneEntry
<1>3. ASSUME NEW two \in Continuing \X (Opening({0}) \cup Continuing), two[1].slot < two[2].slot, calls = two
      PROVE  TwoEntries(calls, two[1], two[2])
  <2>1. two = <<two[1], two[2]>> /\ two[1] \in Continuing /\ two[2] \in Opening({0}) \cup Continuing
    OBVIOUS
  <2>2. QED
    BY <1>3, <2>1 DEF TwoEntries
<1>4. QED
  BY <1>1, <1>2, <1>3

(* Every entry is in its turn; a name said again is one of the losses.     *)
Renamed(f, lost) == f.id = "" /\ f.name # <<>> => lost \cap Mixed # {}

LEMMA OneEntryFacts ==
    ASSUME Shape(message.calls), NEW calls, NEW f, OneEntry(calls, f), NEW lost, Renamed(f, lost)
    PROVE  f \in EntryType /\ ChatTurn(message.calls, f, lost)
<1>1. CASE f \in Opening({0, 2})
  <2>1. {0, 2} \subseteq 0..2
    OBVIOUS
  <2>2. f \in EntryType /\ OpensCall(message.calls, f)
    BY <1>1, <2>1, OpeningFacts
  <2>3. QED
    BY <2>2 DEF ChatTurn
<1>2. CASE f \in Continuing
  <2>1. f \in EntryType /\ GoesOn(message.calls, f) /\ f.name = <<>>
    BY <1>2, ContinuingFacts
  <2>2. NamedOnce(f, lost)
    BY <2>1 DEF NamedOnce
  <2>3. QED
    BY <2>1, <2>2 DEF ChatTurn
<1>3. CASE \E c \in Continuing : f = [c EXCEPT !.name = <<"name">>]
  <2>1. PICK c \in Continuing : f = [c EXCEPT !.name = <<"name">>]
    BY <1>3
  <2>2. c \in EntryType /\ GoesOn(message.calls, c)
    BY <2>1, ContinuingFacts
  <2>3. PICK n : n = <<"name">> /\ n \in Seq({"name"}) /\ n # <<>>
    <3>1. <<"name">> \in Seq({"name"}) /\ <<"name">> # <<>>
      OBVIOUS
    <3>2. QED
      BY <3>1
  <2>4. f \in EntryType /\ f.slot = c.slot /\ f.id = c.id /\ f.arguments = c.arguments /\ f.name = n
    BY <2>1, <2>2, <2>3 DEF EntryType
  <2>5. GoesOn(message.calls, f)
    BY <2>2, <2>3, <2>4 DEF GoesOn
  <2>6. f.id = ""
    BY <2>5, GoesOnFacts
  <2>7. NamedOnce(f, lost)
    BY <2>3, <2>4, <2>6 DEF NamedOnce, Renamed
  <2>8. QED
    BY <2>4, <2>5, <2>7 DEF ChatTurn
<1>4. QED
  BY <1>1, <1>2, <1>3 DEF OneEntry

LEMMA TwoEntriesFacts ==
    ASSUME Shape(message.calls), NEW calls, NEW f, NEW g, TwoEntries(calls, f, g), NEW lost
    PROVE  /\ f \in EntryType /\ GoesOn(message.calls, f) /\ NamedOnce(f, lost)
           /\ g \in EntryType /\ ChatTurn(message.calls, g, lost) /\ f.slot # g.slot
<1>1. f \in EntryType /\ GoesOn(message.calls, f) /\ f.name = <<>>
  BY ContinuingFacts DEF TwoEntries
<1>2. g \in EntryType /\ (OpensCall(message.calls, g) \/ (GoesOn(message.calls, g) /\ g.name = <<>>))
  <2>1. CASE g \in Opening({0})
    <3>1. {0} \subseteq 0..2
      OBVIOUS
    <3>2. QED
      BY <2>1, <3>1, OpeningFacts
  <2>2. CASE g \in Continuing
    BY <2>2, ContinuingFacts
  <2>3. QED
    BY <2>1, <2>2 DEF TwoEntries
<1>3. f.slot # g.slot
  <2>1. PICK m, n : m = f.slot /\ n = g.slot
    OBVIOUS
  <2>2. m \in 1..3 /\ n \in 1..3
    BY <1>1, <1>2, <2>1 DEF EntryType
  <2>3. m < n
    BY <2>1 DEF TwoEntries
  <2>4. QED
    BY <2>1, <2>2, <2>3
<1>4. NamedOnce(f, lost)
  BY <1>1 DEF NamedOnce
<1>5. g.name = <<>> => NamedOnce(g, lost)
  BY DEF NamedOnce
<1>6. QED
  BY <1>1, <1>2, <1>3, <1>4, <1>5 DEF ChatTurn

(* An event of the content: what of it is text is fed when it has no call. *)
ChatLost(text, calls, lost) ==
    /\ text # <<>> /\ calls # <<>> => "text beside a call" \in lost
    /\ TagSeen(text, lost)
    /\ \A f : calls = <<f>> => Renamed(f, lost)

LEMMA ChatStep ==
    ASSUME IInv, NEW e, Receives(e), api = "chat", phase = "body", phase' = phase, block' = block,
           More, losses' \subseteq Losses, NEW text, text \in Seq(PieceType), Says(text, <<>>, events), NEW calls \in ChatEntries,
           EventOf(e, "delta", text, <<>>, calls, "r", "", NoUsage), ChatLost(text, calls, losses')
    PROVE  IInv'
<1>1. TypeOK /\ Shape(message.calls)
  BY CallsShape DEF IInv
<1>2. Announces(e) /\ Nameless(e)
  BY DEF EventOf, Announces, Nameless, Stops
<1>3. e.text = text /\ e.thought = <<>> /\ e.usage = NoUsage /\ e.calls = calls /\ e.kind = "delta"
  BY DEF EventOf
<1>4. ChatSays(e)
  BY <1>3 DEF ChatSays, ChatLost
<1>5. Placed
  BY <1>1 DEF TypeOK, Placed
<1>6. phase # "done" /\ phase' # "done" /\ e.kind # "usage" /\ api # "anthropic" /\ Says(e.text, e.thought, events)
  BY <1>3
<1>7. CASE calls = <<>>
  <2>1. Parses(e, TextDelta(text, RawOf(api, e)))
    BY <1>3, <1>7 DEF Parses, parse_stream_chunk, ChatChunks, RawOf, NoOp
  <2>2. Takes(e, text, <<>>, NoUsage) /\ acc' \in AccType /\ CallsKept(acc, acc')
    BY <1>1, <1>2, <2>1, TakesText
  <2>3. Feeds(api, losses', e.text, e.thought, text, <<>>) /\ e.calls = <<>>
    BY <1>3, <1>7, AllFed
  <2>4. QED
    BY <1>2, <1>3, <1>4, <1>5, <1>6, <2>2, <2>3, Quiet
<1>8. CASE calls # <<>>
  <2>1. CallInv' /\ acc' \in AccType /\ Takes(e, <<>>, <<>>, NoUsage)
    <3>1. CASE \E f : OneEntry(calls, f)
      <4>1. PICK f : OneEntry(calls, f)
        BY <3>1
      <4>2. calls = <<f>> /\ Renamed(f, losses')
        BY <4>1 DEF OneEntry, ChatLost
      <4>3. f \in EntryType /\ ChatTurn(message.calls, f, losses') /\ e.calls = <<f>>
        BY <1>1, <1>3, <4>1, <4>2, OneEntryFacts
      <4>4. QED
        BY <1>2, <1>6, <4>3, ChatOneCall
    <3>2. CASE \E f, g : TwoEntries(calls, f, g)
      <4>1. PICK f, g : TwoEntries(calls, f, g)
        BY <3>2
      <4>2. /\ f \in EntryType /\ GoesOn(message.calls, f) /\ NamedOnce(f, losses')
            /\ g \in EntryType /\ ChatTurn(message.calls, g, losses') /\ f.slot # g.slot
        BY <1>1, <4>1, TwoEntriesFacts
      <4>3. TwoCalls(e, f, g)
        BY <1>3, <4>1, Zenon DEF TwoCalls, TwoEntries
      <4>4. QED
        BY <1>2, <1>6, <4>2, <4>3, ChatTwoCalls
    <3>3. QED
      BY <1>8, <3>1, <3>2, ChatEntriesFacts
  <2>2. CountsInv' /\ message'.usage \in UsageType
    BY <1>3, <1>6, <2>1, CountsSilent
  <2>3. Feeds(api, losses', e.text, e.thought, <<>>, <<>>)
    BY <1>3, <1>8 DEF Feeds, ChatLost
  <2>4. QED
    BY <1>2, <1>4, <1>5, <1>6, <2>1, <2>2, <2>3, Whole
<1>9. QED
  BY <1>7, <1>8

LEMMA ChatDeltaStep == ASSUME IInv, ChatDelta PROVE IInv'
<1>1. TypeOK
  BY DEF IInv
<1>2. PICK text \in Words({"word", "<think>", "</think>"}), calls \in ChatEntries :
          \E e, l1, l2, l3 :
             /\ e = [Event("delta") EXCEPT !.id = "r", !.text = text, !.calls = calls]
             /\ Receive(e) /\ Keeps(l1 \cup l2 \cup l3)
             /\ l1 = If(text # <<>> /\ calls # <<>>, "text beside a call")
             /\ l2 = If(\E i \in DOMAIN text : text[i].mark # "word", "think tag")
             /\ l3 = If(\E i \in DOMAIN calls : calls[i].id = "" /\ calls[i].name # <<>>, "name repeated")
  BY DEF ChatDelta
<1>3. PICK e, l1, l2, l3 :
             /\ e = [Event("delta") EXCEPT !.id = "r", !.text = text, !.calls = calls]
             /\ Receive(e) /\ Keeps(l1 \cup l2 \cup l3)
             /\ l1 = If(text # <<>> /\ calls # <<>>, "text beside a call")
             /\ l2 = If(\E i \in DOMAIN text : text[i].mark # "word", "think tag")
             /\ l3 = If(\E i \in DOMAIN calls : calls[i].id = "" /\ calls[i].name # <<>>, "name repeated")
  BY <1>2
<1>4. Receives(e) /\ api = "chat" /\ phase = "body" /\ phase' = phase /\ block' = block
  BY <1>3, Received DEF ChatDelta
<1>5. EventOf(e, "delta", text, <<>>, calls, "r", "", NoUsage)
  BY <1>3 DEF Event, EventOf
<1>6. text = <<>> \/ \E m \in {"word", "<think>", "</think>"} : text = Piece(m)
  BY DEF Words
<1>7. text \in Seq(PieceType) /\ Says(text, <<>>, events)
  BY <1>1, <1>6, WordSaid, NothingSaid
<1>8. l1 \cup l2 \cup l3 \subseteq Losses
  <2>1. l1 \subseteq {"text beside a call"} /\ l2 \subseteq {"think tag"} /\ l3 \subseteq {"name repeated"}
    BY <1>3 DEF If
  <2>2. QED
    BY <2>1 DEF Losses
<1>9. More /\ losses' \subseteq Losses /\ l1 \cup l2 \cup l3 \subseteq losses'
  BY <1>1, <1>3, <1>8, Kept
<1>10. ChatLost(text, calls, losses')
  <2>1. text # <<>> /\ calls # <<>> => "text beside a call" \in losses'
    <3>1. text # <<>> /\ calls # <<>> => "text beside a call" \in l1
      BY <1>3 DEF If
    <3>2. QED
      BY <1>9, <3>1
  <2>2. TagSeen(text, losses')
    <3>1. (\E i \in DOMAIN text : text[i].mark # "word") => "think tag" \in l2
      BY <1>3 DEF If
    <3>2. "think tag" \in l2 => "think tag" \in losses'
      BY <1>9
    <3>3. QED
      BY <3>1, <3>2, Zenon DEF TagSeen
  <2>3. ASSUME NEW f, calls = <<f>> PROVE Renamed(f, losses')
    <3>1. PICK c : c = calls /\ 1 \in DOMAIN c /\ c[1] = f
      <4>1. 1 \in DOMAIN <<f>> /\ <<f>>[1] = f
        OBVIOUS
      <4>2. QED
        BY <2>3, <4>1, Zenon
    <3>2. (\E i \in DOMAIN c : c[i].id = "" /\ c[i].name # <<>>) => "name repeated" \in l3
      BY <1>3, <3>1 DEF If
    <3>3. f.id = "" /\ f.name # <<>> => "name repeated" \in l3
      BY <3>1, <3>2, Zenon
    <3>4. "name repeated" \in l3 => losses' \cap Mixed # {}
      BY <1>9 DEF Mixed
    <3>5. QED
      BY <3>3, <3>4 DEF Renamed
  <2>4. QED
    BY <2>1, <2>2, <2>3 DEF ChatLost
<1>11. QED
  BY <1>4, <1>5, <1>7, <1>9, <1>10, ChatStep

(***************************************************************************)
(* A piece of a google body.                                               *)
(***************************************************************************)
GoogleLost(th, tx, calls, u, lost) ==
    /\ calls # <<>> /\ (tx # <<>> \/ th # <<>>) => "text beside a call" \in lost
    /\ th # <<>> => "thinking" \in lost
    /\ u # NoUsage /\ (tx # <<>> \/ th # <<>> \/ calls # <<>>) => "counts beside content" \in lost

LEMMA EmptyJoin ==
    ASSUME NEW s \in Seq(PieceType), NEW t \in Seq(PieceType), NEW x, x = s \o t
    PROVE  /\ x = <<>> => s = <<>> /\ t = <<>>
           /\ s = <<>> => x = t
<1>1. Len(s) \in Nat /\ Len(t) \in Nat /\ Len(x) = Len(s) + Len(t)
  OBVIOUS
<1>2. ASSUME x = <<>> PROVE s = <<>> /\ t = <<>>
  <2>1. Len(x) = 0
    BY <1>2
  <2>2. Len(s) = 0 /\ Len(t) = 0
    BY <1>1, <2>1
  <2>3. QED
    BY <2>2
<1>3. ASSUME s = <<>> PROVE x = t
  BY <1>3
<1>4. QED
  BY <1>2, <1>3

LEMMA GoogleTextStep ==
    ASSUME IInv, NEW e, Receives(e), api = "google", phase = "body", phase' \in {"body", "stopped"}, block' = block,
           More, losses' \subseteq Losses, NEW th, NEW tx, Says(tx, th, events), NEW stop \in Stops,
           NEW u \in {NoUsage, Counts},
           EventOf(e, "body", tx, th, <<>>, "", stop, u), GoogleLost(th, tx, <<>>, u, losses')
    PROVE  IInv'
<1>1. TypeOK /\ events \in Nat
  BY DEF IInv, TypeOK
<1>2. Announces(e) /\ Nameless(e) /\ ChatSays(e)
  BY DEF EventOf, Announces, Nameless, ChatSays
<1>3. e.text = tx /\ e.thought = th /\ e.usage = u /\ e.calls = <<>> /\ e.kind = "body" /\ e.stop = stop /\ e.id = ""
  BY DEF EventOf
<1>4. Placed
  BY <1>1 DEF TypeOK, Placed
<1>5. phase # "done" /\ api # "anthropic" /\ Says(e.text, e.thought, events)
  BY <1>3
<1>6. PICK x : x = th \o tx
  OBVIOUS
<1>7. tx \in Seq(PieceType) /\ th \in Seq(PieceType) /\ x \in Seq(PieceType)
  BY <1>1, <1>6, SaysFacts, PiecesJoined
<1>8. RawOf(api, e) = [id |-> "", stop |-> e.stop]
  BY <1>3 DEF RawOf
<1>9. parse_stream_chunk(api, e) = GoogleChunks(e)
  BY DEF parse_stream_chunk
<1>10. e.thought \o e.text = x
  BY <1>3, <1>6
<1>11. CASE x = <<>> /\ u # NoUsage
  <2>1. u = Counts /\ u \in UsageType
    BY <1>1, <1>11, CountsTyped
  <2>2. Parses(e, Usage(u, RawOf(api, e)))
    BY <1>3, <1>8, <1>9, <1>10, <1>11 DEF Parses, GoogleChunks
  <2>3. Takes(e, <<>>, <<>>, u) /\ acc' \in AccType /\ CallsKept(acc, acc')
    BY <1>1, <1>2, <1>11, <2>1, <2>2, TakesUsage
  <2>4. tx = <<>> /\ th = <<>>
    BY <1>6, <1>7, <1>11, EmptyJoin
  <2>5. Feeds(api, losses', e.text, e.thought, <<>>, <<>>)
    BY <1>3, <2>4, AllFed
  <2>6. Takes(e, <<>>, <<>>, Counts) /\ e.usage = Counts
    BY <1>3, <2>1, <2>3
  <2>7. QED
    BY <1>2, <1>3, <1>4, <1>5, <2>3, <2>5, <2>6, Reported
<1>12. CASE ~(x = <<>> /\ u # NoUsage)
  <2>1. Parses(e, TextDelta(x, RawOf(api, e)))
    BY <1>3, <1>8, <1>9, <1>10, <1>12 DEF Parses, GoogleChunks
  <2>2. Takes(e, x, <<>>, NoUsage) /\ acc' \in AccType /\ CallsKept(acc, acc')
    BY <1>1, <1>2, <1>7, <2>1, TakesText
  <2>3. Feeds(api, losses', e.text, e.thought, x, <<>>)
    <3>1. th = <<>> => x = tx
      BY <1>6, <1>7, EmptyJoin
    <3>2. th # <<>> => "thinking" \in losses'
      BY DEF GoogleLost
    <3>3. QED
      BY <1>3, <1>6, <3>1, <3>2 DEF Feeds
  <2>4. CASE u = NoUsage
    <3>1. e.usage = NoUsage
      BY <1>3, <2>4
    <3>2. QED
      BY <1>2, <1>3, <1>4, <1>5, <2>2, <2>3, <3>1, Quiet
  <2>5. CASE u # NoUsage
    <3>1. tx # <<>> \/ th # <<>>
      BY <1>6, <1>12, <2>5, NothingMore, NothingSaid
    <3>2. e.usage = Counts /\ ~Apart(losses')
      BY <1>3, <2>5, <3>1 DEF Apart, GoogleLost
    <3>3. QED
      BY <1>2, <1>3, <1>4, <1>5, <2>2, <2>3, <3>2, Overlooked
  <2>6. QED
    BY <2>4, <2>5
<1>13. QED
  BY <1>11, <1>12

LEMMA SecondOpens ==
    ASSUME NEW cs, Shape(cs), NEW f \in EntryType, OpensCall(cs, f), NEW n, n = Len(cs) + 2, n <= MaxCalls,
           NEW g, g = Entry(n, Ids[n], <<"name">>, <<Fragment(n, "head"), Fragment(n, "tail")>>)
    PROVE  g \in EntryType /\ OpensCall(Extended(cs, f), g)
<1>1. Len(cs) \in 0..3
  BY ShapeFacts
<1>2. n \in 1..3
  BY <1>1, BoundsAssumption
<1>3. PICK r : r = <<Fragment(n, "head"), Fragment(n, "tail")>>
  OBVIOUS
<1>4. r \in Args(n)
  BY <1>3 DEF Args
<1>5. r \in Seq(FragmentType)
  BY <1>2, <1>4, ArgsFacts
<1>6. g = Entry(n, Ids[n], <<"name">>, r)
  BY <1>3
<1>7. g.slot = n /\ g.id = Ids[n] /\ g.name = <<"name">> /\ g.arguments = r
  BY <1>6 DEF Entry
<1>8. g \in EntryType
  <2>1. Ids[n] \in CallIds
    BY <1>2, IdsFacts
  <2>2. <<"name">> \in Seq({"name"})
    OBVIOUS
  <2>3. QED
    BY <1>2, <1>5, <1>6, <2>1, <2>2, EntryMade
<1>9. PICK x : x = Extended(cs, f)
  OBVIOUS
<1>10. Len(x) = Len(cs) + 1
  BY <1>9, CallOpened
<1>11. Len(x) + 1 = n
  BY <1>1, <1>10
<1>12. OpensCall(x, g)
  BY <1>4, <1>7, <1>11 DEF OpensCall
<1>13. QED
  BY <1>8, <1>9, <1>12

(* The calls of a piece: one, which is fed, or two, the second of which is *)
(* not.                                                                    *)
Starts(cs, f) == cs # <<>> /\ cs[1] = f
SecondOf(g, n) == g = Entry(n, Ids[n], <<"name">>, <<Fragment(n, "head"), Fragment(n, "tail")>>)
GoogleCalls(e, f, lost) ==
    \/ e.calls = <<f>>
    \/ /\ "two calls at once" \in lost
       /\ Len(message.calls) + 2 <= MaxCalls
       /\ \E g : SecondOf(g, Len(message.calls) + 2) /\ TwoCalls(e, f, g)

LEMMA GoogleCallsStep ==
    ASSUME NEW e, Receives(e), NEW f, f \in EntryType, OpensCall(message.calls, f), Shape(message.calls),
           GoogleCalls(e, f, losses'), api' # "chat",
           CallPart(api', acc', Extended(message.calls, f), losses', phase')
    PROVE  CallInv'
<1>1. CASE e.calls = <<f>>
  BY <1>1, OneCall
<1>2. CASE e.calls # <<f>>
  <2>1. PICK g : SecondOf(g, Len(message.calls) + 2) /\ TwoCalls(e, f, g)
    BY <1>2 DEF GoogleCalls
  <2>2. "two calls at once" \in losses' /\ Len(message.calls) + 2 <= MaxCalls
    BY <1>2 DEF GoogleCalls
  <2>3. PICK n : n = Len(message.calls) + 2
    OBVIOUS
  <2>4. g \in EntryType /\ OpensCall(Extended(message.calls, f), g)
    BY <2>1, <2>2, <2>3, SecondOpens DEF SecondOf
  <2>5. PICK a, b, z, lost2, ph2 :
            a = api' /\ b = acc' /\ z = Extended(message.calls, f) /\ lost2 = losses' /\ ph2 = phase'
    OBVIOUS
  <2>6. lost2 \cap Mixed # {}
    BY <2>2, <2>5 DEF Mixed
  <2>7. CallPart(a, b, Extended(z, g), lost2, ph2)
    BY <2>4, <2>5, <2>6, Unfed
  <2>8. message'.calls = Extended(z, g)
    BY <2>1, <2>5, TwoExtended
  <2>9. QED
    BY <2>5, <2>7, <2>8 DEF CallInv
<1>3. QED
  BY <1>1, <1>2

LEMMA JustTwo == {2} \subseteq 0..2
OBVIOUS

LEMMA GoogleCallStep ==
    ASSUME IInv, NEW e, Receives(e), api = "google", phase = "body", phase' \in {"body", "stopped"}, block' = block,
           More, losses' \subseteq Losses, NEW th, NEW tx, Says(tx, th, events), NEW stop \in Stops,
           NEW u \in {NoUsage, Counts}, NEW f \in Opening({2}), GoogleCalls(e, f, losses'),
           NEW cs, Starts(cs, f),
           EventOf(e, "body", tx, th, cs, "", stop, u), GoogleLost(th, tx, cs, u, losses')
    PROVE  IInv'
<1>1. TypeOK /\ Shape(message.calls)
  BY CallsShape DEF IInv
<1>2. Announces(e) /\ Nameless(e) /\ ChatSays(e)
  BY DEF EventOf, Announces, Nameless, ChatSays
<1>3. e.text = tx /\ e.thought = th /\ e.usage = u /\ e.calls = cs /\ e.stop = stop
  BY DEF EventOf
<1>4. Placed
  BY <1>1 DEF TypeOK, Placed
<1>5. f \in EntryType /\ OpensCall(message.calls, f)
  BY <1>1, JustTwo, OpeningFacts
<1>6. InTurn(f, losses')
  BY <1>5 DEF InTurn
<1>7. Parses(e, ToolCallDelta(Delta(NoIndex, f), RawOf(api, e)))
  <2>1. e.calls[1] = f
    BY Zenon DEF EventOf, Starts
  <2>2. e.calls # <<>>
    BY Zenon DEF EventOf, Starts
  <2>3. parse_stream_chunk(api, e) = GoogleChunks(e)
    BY DEF parse_stream_chunk
  <2>4. RawOf(api, e) = [id |-> "", stop |-> e.stop]
    BY DEF RawOf, EventOf
  <2>5. QED
    BY <2>1, <2>2, <2>3, <2>4 DEF Parses, GoogleChunks
<1>8. api # "chat" /\ api # "anthropic" /\ phase # "done" /\ phase' # "done"
  OBVIOUS
<1>9. /\ CallPart(api', acc', Extended(message.calls, f), losses', phase')
      /\ Takes(e, <<>>, <<>>, NoUsage) /\ acc' \in AccType
  BY <1>2, <1>5, <1>6, <1>7, <1>8, OtherCall
<1>10. CallInv'
  <2>1. api' # "chat"
    BY <1>8 DEF Receives
  <2>2. QED
    BY <1>1, <1>5, <1>9, <2>1, GoogleCallsStep
<1>11. CountsInv' /\ message'.usage \in UsageType
  <2>1. CASE u = NoUsage
    <3>1. e.usage = NoUsage
      BY <1>3, <2>1
    <3>2. QED
      BY <1>8, <1>9, <3>1, CountsSilent
  <2>2. CASE u # NoUsage
    <3>1. e.usage = Counts
      BY <1>3, <2>2
    <3>2. cs # <<>>
      BY DEF Starts
    <3>3. ~Apart(losses')
      BY <2>2, <3>2 DEF GoogleLost, Apart
    <3>4. QED
      BY <1>8, <1>9, <3>1, <3>3, CountsMissed
  <2>3. QED
    BY <2>1, <2>2
<1>12. Says(e.text, e.thought, events) /\ Feeds(api, losses', e.text, e.thought, <<>>, <<>>)
  <2>1. tx # <<>> \/ th # <<>> => "text beside a call" \in losses'
    BY Zenon DEF GoogleLost, Starts
  <2>2. th # <<>> => "thinking" \in losses'
    BY DEF GoogleLost
  <2>3. QED
    BY <1>3, <2>1, <2>2 DEF Feeds
<1>13. QED
  BY <1>2, <1>4, <1>9, <1>10, <1>11, <1>12, Whole

(* The choices of one piece, spelled out.                                  *)
GoogleEntries(calls, two, all) ==
    \/ calls = <<>> /\ all = <<>>
    \/ \E f \in Opening({2}) :
          /\ calls = <<f>>
          /\ \/ ~two /\ all = <<f>>
             \/ /\ two /\ Len(message.calls) + 2 <= MaxCalls
                /\ \E g : SecondOf(g, Len(message.calls) + 2) /\ all = <<f, g>>
GoogleSays(e, th, tx, calls, two, stop, u) ==
    \E all, l1, l2, l3, l4 :
       /\ GoogleEntries(calls, two, all)
       /\ phase' = IF stop = "" THEN "body" ELSE "stopped"
       /\ e = [Event("body") EXCEPT !.thought = th, !.text = tx, !.calls = all, !.stop = stop, !.usage = u]
       /\ Receive(e) /\ Keeps(l1 \cup l2 \cup l3 \cup l4)
       /\ l1 = If(calls # <<>> /\ (tx # <<>> \/ th # <<>>), "text beside a call")
       /\ l2 = If(th # <<>>, "thinking")
       /\ l3 = If(two, "two calls at once")
       /\ l4 = If(u # NoUsage /\ (tx # <<>> \/ th # <<>> \/ calls # <<>>), "counts beside content")

LEMMA AppendOne == ASSUME NEW f, NEW g PROVE Append(<<f>>, g) = <<f, g>>
<1>1. PICK s, t : s = <<f>> /\ t = <<f, g>>
  OBVIOUS
<1>2. s \in Seq({f, g}) /\ t \in Seq({f, g}) /\ Len(s) = 1 /\ Len(t) = 2 /\ s[1] = f /\ t[1] = f /\ t[2] = g
  BY <1>1
<1>3. PICK r : r = Append(s, g)
  OBVIOUS
<1>4. r \in Seq({f, g}) /\ Len(r) = 2 /\ r[1] = f /\ r[2] = g
  BY <1>2, <1>3, AppendProperties
<1>5. r = t
  <2>1. \A i \in 1..2 : r[i] = t[i]
    BY <1>2, <1>4
  <2>2. QED
    BY <1>2, <1>4, <2>1, SeqEqual
<1>6. QED
  BY <1>1, <1>3, <1>5

LEMMA EntriesSpelled ==
    ASSUME NEW calls, calls = <<>> \/ \E f \in Opening({2}) : calls = <<f>>, NEW two \in BOOLEAN,
           NEW g, SecondOf(g, Len(message.calls) + 2),
           two => calls # <<>> /\ Len(message.calls) + 2 <= MaxCalls,
           NEW all, all = IF two THEN Append(calls, g) ELSE calls
    PROVE  GoogleEntries(calls, two, all)
<1>1. CASE calls = <<>>
  <2>1. ~two
    BY <1>1
  <2>2. all = <<>>
    BY <1>1, <2>1
  <2>3. QED
    BY <1>1, <2>2 DEF GoogleEntries
<1>2. CASE calls # <<>>
  <2>1. PICK f \in Opening({2}) : calls = <<f>>
    BY <1>2
  <2>2. CASE ~two
    <3>1. all = <<f>>
      BY <2>1, <2>2
    <3>2. QED
      BY <2>1, <2>2, <3>1, Zenon DEF GoogleEntries
  <2>3. CASE two
    <3>1. all = <<f, g>>
      BY <2>1, <2>3, AppendOne
    <3>2. Len(message.calls) + 2 <= MaxCalls
      BY <2>3
    <3>3. QED
      BY <2>1, <2>3, <3>1, <3>2, Zenon DEF GoogleEntries
  <2>4. QED
    BY <2>2, <2>3
<1>3. QED
  BY <1>1, <1>2

LEMMA GoogleSpelled ==
    ASSUME GoogleEvent
    PROVE  \E th \in Words({"thought"}), tx \in Words({"word"}),
              calls \in {<<>>} \cup {<<f>> : f \in Opening({2})}, two \in BOOLEAN,
              stop \in {"", "STOP", "MAX_TOKENS"}, u \in {NoUsage, Counts} :
                  \E e : GoogleSays(e, th, tx, calls, two, stop, u)
<1>1. PICK th \in Words({"thought"}), tx \in Words({"word"}),
           calls \in {<<>>} \cup {<<f>> : f \in Opening({2})}, two \in BOOLEAN,
           stop \in {"", "STOP", "MAX_TOKENS"}, u \in {NoUsage, Counts} :
              LET g == Entry(Len(message.calls) + 2, Ids[Len(message.calls) + 2], <<"name">>,
                             <<Fragment(Len(message.calls) + 2, "head"), Fragment(Len(message.calls) + 2, "tail")>>)
                  all == IF two THEN Append(calls, g) ELSE calls
              IN /\ two => calls # <<>> /\ Len(message.calls) + 2 <= MaxCalls
                 /\ phase' = IF stop = "" THEN "body" ELSE "stopped"
                 /\ Receive([Event("body") EXCEPT !.thought = th, !.text = tx, !.calls = all, !.stop = stop, !.usage = u])
                 /\ Keeps(If(calls # <<>> /\ (tx # <<>> \/ th # <<>>), "text beside a call")
                          \cup If(th # <<>>, "thinking")
                          \cup If(two, "two calls at once")
                          \cup If(u # NoUsage /\ (tx # <<>> \/ th # <<>> \/ calls # <<>>), "counts beside content"))
  BY Zenon DEF GoogleEvent
<1>2. PICK g, all, e, l1, l2, l3, l4 :
                 /\ g = Entry(Len(message.calls) + 2, Ids[Len(message.calls) + 2], <<"name">>,
                              <<Fragment(Len(message.calls) + 2, "head"), Fragment(Len(message.calls) + 2, "tail")>>)
                 /\ all = IF two THEN Append(calls, g) ELSE calls
                 /\ two => calls # <<>> /\ Len(message.calls) + 2 <= MaxCalls
                 /\ phase' = IF stop = "" THEN "body" ELSE "stopped"
                 /\ e = [Event("body") EXCEPT !.thought = th, !.text = tx, !.calls = all, !.stop = stop, !.usage = u]
                 /\ Receive(e) /\ Keeps(l1 \cup l2 \cup l3 \cup l4)
                 /\ l1 = If(calls # <<>> /\ (tx # <<>> \/ th # <<>>), "text beside a call")
                 /\ l2 = If(th # <<>>, "thinking")
                 /\ l3 = If(two, "two calls at once")
                 /\ l4 = If(u # NoUsage /\ (tx # <<>> \/ th # <<>> \/ calls # <<>>), "counts beside content")
  BY <1>1
<1>3. SecondOf(g, Len(message.calls) + 2)
  BY <1>2, Zenon DEF SecondOf
<1>4. calls = <<>> \/ \E f \in Opening({2}) : calls = <<f>>
  OBVIOUS
<1>5. two => calls # <<>> /\ Len(message.calls) + 2 <= MaxCalls
  BY <1>2, Zenon
<1>6. all = IF two THEN Append(calls, g) ELSE calls
  BY <1>2, Zenon
<1>7. GoogleEntries(calls, two, all)
  BY <1>3, <1>4, <1>5, <1>6, EntriesSpelled
<1>8. GoogleSays(e, th, tx, calls, two, stop, u)
  BY <1>2, <1>7, Zenon DEF GoogleSays
<1>9. QED
  BY <1>8, Zenon

LEMMA GoogleEventStep == ASSUME IInv, GoogleEvent PROVE IInv'
<1>1. TypeOK
  BY DEF IInv
<1>2. PICK th \in Words({"thought"}), tx \in Words({"word"}),
           calls \in {<<>>} \cup {<<f>> : f \in Opening({2})}, two \in BOOLEAN,
           stop \in {"", "STOP", "MAX_TOKENS"}, u \in {NoUsage, Counts} :
              \E e : GoogleSays(e, th, tx, calls, two, stop, u)
  BY GoogleSpelled, Zenon
<1>3. PICK e : GoogleSays(e, th, tx, calls, two, stop, u)
  BY <1>2
<1>4. PICK all, l1, l2, l3, l4 :
       /\ GoogleEntries(calls, two, all)
       /\ phase' = IF stop = "" THEN "body" ELSE "stopped"
       /\ e = [Event("body") EXCEPT !.thought = th, !.text = tx, !.calls = all, !.stop = stop, !.usage = u]
       /\ Receive(e) /\ Keeps(l1 \cup l2 \cup l3 \cup l4)
       /\ l1 = If(calls # <<>> /\ (tx # <<>> \/ th # <<>>), "text beside a call")
       /\ l2 = If(th # <<>>, "thinking")
       /\ l3 = If(two, "two calls at once")
       /\ l4 = If(u # NoUsage /\ (tx # <<>> \/ th # <<>> \/ calls # <<>>), "counts beside content")
  BY <1>3, Zenon DEF GoogleSays
<1>5. Receives(e)
  BY <1>4, Received
<1>6. api = "google" /\ phase = "body" /\ block' = block
  BY DEF GoogleEvent
<1>7. phase' \in {"body", "stopped"}
  BY <1>4, Zenon
<1>8. EventOf(e, "body", tx, th, all, "", stop, u)
  BY <1>4 DEF Event, EventOf
<1>9. Says(tx, th, events)
  <2>1. th = <<>> \/ th = Piece("thought")
    BY DEF Words
  <2>2. tx = <<>> \/ tx = Piece("word")
    BY DEF Words
  <2>3. QED
    BY <2>1, <2>2, Zenon DEF Says, Piece
<1>10. stop \in Stops
  BY DEF Stops
<1>11. l1 \cup l2 \cup l3 \cup l4 \subseteq Losses
  <2>1. l1 \subseteq {"text beside a call"}
    BY <1>4, Zenon DEF If
  <2>2. l2 \subseteq {"thinking"}
    BY <1>4, Zenon DEF If
  <2>3. l3 \subseteq {"two calls at once"}
    BY <1>4, Zenon DEF If
  <2>4. l4 \subseteq {"counts beside content"}
    BY <1>4, Zenon DEF If
  <2>5. QED
    BY <2>1, <2>2, <2>3, <2>4 DEF Losses
<1>12. More /\ losses' \subseteq Losses /\ l1 \cup l2 \cup l3 \cup l4 \subseteq losses'
  BY <1>1, <1>4, <1>11, Kept
<1>13. GoogleLost(th, tx, calls, u, losses')
  <2>1. calls # <<>> /\ (tx # <<>> \/ th # <<>>) => "text beside a call" \in l1
    BY <1>4, Zenon DEF If
  <2>2. th # <<>> => "thinking" \in l2
    BY <1>4, Zenon DEF If
  <2>3. u # NoUsage /\ (tx # <<>> \/ th # <<>> \/ calls # <<>>) => "counts beside content" \in l4
    BY <1>4, Zenon DEF If
  <2>4. QED
    BY <1>12, <2>1, <2>2, <2>3, Zenon DEF GoogleLost
<1>14. two => "two calls at once" \in losses'
  <2>1. two => "two calls at once" \in l3
    BY <1>4, Zenon DEF If
  <2>2. QED
    BY <1>12, <2>1
<1>15. CASE calls = <<>>
  <2>1. all = <<>>
    <3>1. \A f : <<>> # <<f>>
      OBVIOUS
    <3>2. QED
      BY <1>4, <1>15, <3>1, Zenon DEF GoogleEntries
  <2>2. EventOf(e, "body", tx, th, <<>>, "", stop, u) /\ GoogleLost(th, tx, <<>>, u, losses')
    BY <1>8, <1>13, <1>15, <2>1, Zenon
  <2>3. QED
    BY <1>5, <1>6, <1>7, <1>9, <1>10, <1>12, <2>2, GoogleTextStep
<1>16. CASE calls # <<>>
  <2>1. PICK f \in Opening({2}) :
          /\ calls = <<f>>
          /\ \/ ~two /\ all = <<f>>
             \/ /\ two /\ Len(message.calls) + 2 <= MaxCalls
                /\ \E g : SecondOf(g, Len(message.calls) + 2) /\ all = <<f, g>>
    BY <1>4, <1>16, Zenon DEF GoogleEntries
  <2>2. Starts(all, f)
    <3>1. <<f>> # <<>> /\ <<f>>[1] = f
      OBVIOUS
    <3>2. ASSUME NEW g PROVE <<f, g>> # <<>> /\ <<f, g>>[1] = f
      OBVIOUS
    <3>3. QED
      BY <2>1, <3>1, <3>2, Zenon DEF Starts
  <2>3. GoogleCalls(e, f, losses')
    <3>1. e.calls = all
      BY <1>8, Zenon DEF EventOf
    <3>2. CASE ~two
      BY <2>1, <3>1, <3>2, Zenon DEF GoogleCalls
    <3>3. CASE two
      <4>1. PICK g : SecondOf(g, Len(message.calls) + 2) /\ all = <<f, g>>
        BY <2>1, <3>3
      <4>2. TwoCalls(e, f, g)
        BY <3>1, <4>1, Zenon DEF TwoCalls
      <4>3. QED
        BY <1>14, <2>1, <3>3, <4>1, <4>2, Zenon DEF GoogleCalls
    <3>4. QED
      BY <3>2, <3>3
  <2>4. GoogleLost(th, tx, all, u, losses')
    BY <1>13, <1>16, Zenon DEF GoogleLost
  <2>5. QED
    BY <1>5, <1>6, <1>7, <1>8, <1>9, <1>10, <1>12, <2>2, <2>3, <2>4, GoogleCallStep
<1>17. QED
  BY <1>15, <1>16

(***************************************************************************)
(* The end of the stream, and a look at it while it goes on.               *)
(***************************************************************************)
LEMMA ClosedStep ==
    ASSUME IInv, acc' \in AccType, OnlyCalls(acc, acc'), CallInv', More, Placed,
           UNCHANGED <<api, block, message, events, outputs>>
    PROVE  IInv'
<1>1. TypeOK'
  BY DEF IInv, TypeOK, Placed
<1>2. TextInv'
  <2>1. PICK b, lost2 : b = acc' /\ lost2 = losses'
    OBVIOUS
  <2>2. TextPart(api, b, message, lost2, events)
    BY <2>1 DEF IInv, TextInv, TextPart, TextKept, ThinkingKept, NoTags, OnlyCalls, More
  <2>3. QED
    BY <2>1, <2>2 DEF TextInv
<1>3. CountsInv'
  <2>1. PICK b, lost2 : b = acc' /\ lost2 = losses'
    OBVIOUS
  <2>2. CountsAnthropic(acc, message, events, outputs, block) => CountsAnthropic(b, message, events, outputs, block)
    BY <2>1 DEF CountsAnthropic, OnlyCalls
  <2>3. CountsOther(acc, message, losses, outputs) => CountsOther(b, message, lost2, outputs)
    BY <2>1 DEF CountsOther, OnlyCalls, More, Apart
  <2>4. QED
    BY <2>1, <2>2, <2>3 DEF IInv, CountsInv
<1>4. EndingInv'
  BY DEF IInv, EndingInv, EndingPart, OnlyCalls
<1>5. QED
  BY <1>1, <1>2, <1>3, <1>4 DEF IInv

LEMMA EndStep == ASSUME IInv, End PROVE IInv'
<1>1. TypeOK /\ acc \in AccType /\ CallPart(api, acc, message.calls, losses, phase)
  BY DEF IInv, TypeOK, CallInv
<1>2. phase' = "done" /\ acc' = feed(acc, Done) /\ UNCHANGED <<api, block, message, events, outputs, losses>>
  BY DEF End
<1>3. PICK b : b = feed(acc, Done)
  OBVIOUS
<1>4. b = finalize_current_tool_call(acc)
  BY <1>1, <1>3, FedDone
<1>5. CallPart(api, b, message.calls, losses, "done") /\ b \in AccType /\ OnlyCalls(acc, b)
  <2>1. PICK cs : cs = message.calls
    OBVIOUS
  <2>2. Closable(cs, losses, "done")
    BY DEF Closable
  <2>3. CallPart(api, acc, cs, losses, phase)
    BY <1>1, <2>1
  <2>4. CallPart(api, b, cs, losses, "done") /\ b \in AccType /\ OnlyCalls(acc, b)
    BY <1>1, <1>4, <2>2, <2>3, Finished
  <2>5. QED
    BY <2>1, <2>4
<1>6. acc' \in AccType /\ OnlyCalls(acc, acc')
  BY <1>2, <1>3, <1>5
<1>7. CallInv'
  BY <1>2, <1>3, <1>5 DEF CallInv
<1>8. More /\ Placed
  BY <1>1, <1>2 DEF More, Placed, TypeOK
<1>9. QED
  BY <1>2, <1>6, <1>7, <1>8, ClosedStep

LEMMA NothingOpen ==
    ASSUME Shape(message.calls), ~InProgress
    PROVE  \A s \in DOMAIN message.calls : Len(message.calls[s].arguments_json) = 2
<1>1. SUFFICES ASSUME NEW s \in DOMAIN message.calls PROVE Len(message.calls[s].arguments_json) = 2
  OBVIOUS
<1>2. s \in 1..3 /\ message.calls[s].arguments_json \in Args(s)
  BY <1>1, ShapeFacts
<1>3. Len(message.calls[s].arguments_json) \in 0..2
  BY <1>2, ArgsFacts
<1>4. ~(Said(s) < 2)
  BY <1>1, Zenon DEF InProgress, Continuing
<1>5. PICK n : n = Said(s)
  OBVIOUS
<1>6. n = Len(message.calls[s].arguments_json)
  BY <1>5, Zenon DEF Said
<1>7. n \in 0..2
  BY <1>3, <1>6, Zenon
<1>8. n = 2
  BY <1>4, <1>5, <1>7
<1>9. QED
  BY <1>6, <1>8, Zenon

LEMMA PeekStep == ASSUME IInv, Peek PROVE IInv'
<1>1. TypeOK /\ acc \in AccType /\ CallPart(api, acc, message.calls, losses, phase) /\ Shape(message.calls)
  BY CallsShape DEF IInv, TypeOK, CallInv
<1>2. PICK lost :
        /\ phase = "body" /\ acc' = finalize_current_tool_call(acc)
        /\ UNCHANGED <<api, phase, block, message, events, outputs>>
        /\ Keeps(lost) /\ lost = If(InProgress, "read too early")
  BY Zenon DEF Peek
<1>3. lost \subseteq {"read too early"} /\ (InProgress => "read too early" \in lost)
  BY <1>2, Zenon DEF If
<1>4. lost \subseteq Losses
  BY <1>3 DEF Losses
<1>5. More /\ losses' \subseteq Losses /\ lost \subseteq losses'
  BY <1>1, <1>2, <1>4, Kept
<1>6. PICK b, lost2 : b = finalize_current_tool_call(acc) /\ lost2 = losses'
  OBVIOUS
<1>7. losses \subseteq lost2
  BY <1>5, <1>6 DEF More
<1>8. Closable(message.calls, lost2, phase)
  <2>1. CASE InProgress
    <3>1. "read too early" \in lost2 /\ "read too early" \in Mixed
      BY <1>3, <1>5, <1>6, <2>1 DEF Mixed
    <3>2. QED
      BY <3>1 DEF Closable
  <2>2. CASE ~InProgress
    BY <1>1, <2>2, NothingOpen DEF Closable
  <2>3. QED
    BY <2>1, <2>2
<1>9. CallPart(api, b, message.calls, lost2, phase) /\ b \in AccType /\ OnlyCalls(acc, b)
  <2>1. PICK cs : cs = message.calls
    OBVIOUS
  <2>2. Closable(cs, lost2, phase) /\ CallPart(api, acc, cs, losses, phase)
    BY <1>1, <1>8, <2>1
  <2>3. CallPart(api, b, cs, lost2, phase) /\ b \in AccType /\ OnlyCalls(acc, b)
    BY <1>1, <1>6, <1>7, <2>2, Finished
  <2>4. QED
    BY <2>1, <2>3
<1>10. acc' \in AccType /\ OnlyCalls(acc, acc')
  BY <1>2, <1>6, <1>9
<1>11. CallInv'
  BY <1>2, <1>6, <1>9 DEF CallInv
<1>12. Placed
  BY <1>1, <1>2, <1>5 DEF Placed, TypeOK
<1>13. QED
  BY <1>2, <1>5, <1>10, <1>11, <1>12, ClosedStep

LEMMA StutterStep == ASSUME IInv, UNCHANGED vars PROVE IInv'
<1>1. TypeOK'
  BY DEF IInv, TypeOK, vars
<1>2. TextInv' /\ CallInv'
  BY DEF IInv, TextInv, CallInv, vars
<1>3. CountsInv' /\ EndingInv'
  BY DEF IInv, CountsInv, EndingInv, vars
<1>4. QED
  BY <1>1, <1>2, <1>3 DEF IInv

(***************************************************************************)
(* The first state, and the invariant.                                     *)
(***************************************************************************)
LEMMA NothingTyped ==
    /\ <<>> \in Seq(PieceType) /\ <<>> \in Seq(CallType) /\ "" \in Stops
    /\ DOMAIN <<>> = {} /\ Len(<<>>) = 0
BY DEF Stops

LEMMA FirstMessage == NoMessage \in MessageType
<1>1. /\ <<>> \in Seq(PieceType) /\ <<>> \in Seq(CallType) /\ "" \in Stops
      /\ NoUsage \in UsageType
  BY NothingTyped, NoUsageFacts
<1>2. QED
  BY <1>1 DEF NoMessage, MessageType

LEMMA FirstAcc == Fresh \in AccType
<1>1. /\ <<>> \in Seq(PieceType) /\ <<>> \in Seq(CallType) /\ "" \in Stops
      /\ NoUsage \in UsageType /\ NoCall \in CallType
  BY NothingTyped, NoUsageFacts, NoCallType
<1>2. QED
  BY <1>1 DEF Fresh, AccType

LEMMA InitInv == ASSUME Init PROVE IInv
<1>1. message = NoMessage /\ acc = Fresh /\ events = 0 /\ outputs = 0 /\ block = "none" /\ losses = {} /\ phase = "body"
  BY DEF Init
<1>2. message.text = <<>> /\ message.thought = <<>> /\ message.calls = <<>> /\ message.id = "" /\ message.stop = ""
  BY <1>1 DEF NoMessage
<1>3. /\ acc.text = <<>> /\ acc.thinking = <<>> /\ acc.tool_calls = <<>> /\ acc.by_index = <<>>
      /\ acc.current = NoCall /\ acc.stop_reason = "" /\ acc.response_id = ""
  BY <1>1 DEF Fresh
<1>4. message.usage = NoUsage /\ acc.usage = NoUsage
  BY <1>1 DEF NoMessage, Fresh
<1>5. TypeOK
  <2>1. message \in MessageType
    BY <1>1, FirstMessage
  <2>2. acc \in AccType
    BY <1>1, FirstAcc
  <2>3. QED
    BY <1>1, <2>1, <2>2 DEF TypeOK, Init
<1>6. TextInv
  <2>1. DOMAIN acc.text = {} /\ DOMAIN acc.thinking = {} /\ DOMAIN message.text = {}
    BY <1>2, <1>3, NothingTyped, Zenon
  <2>2. QED
    BY <1>2, <1>3, <2>1 DEF TextInv, TextPart, Told, TextKept, ThinkingKept, NoTags
<1>7. CallInv
  <2>1. PICK cs, K, L : cs = message.calls /\ K = Append(acc.tool_calls, acc.current) /\ L = acc.by_index
    OBVIOUS
  <2>2. cs = <<>> /\ L = <<>> /\ cs \in Seq(CallType)
    BY <1>2, <1>3, <2>1, NothingTyped, Zenon
  <2>3. Shape(cs) /\ Fragments(cs) = {}
    BY <2>2 DEF Shape, Fragments
  <2>4. Once(cs)
    BY <2>2 DEF Once
  <2>5. K = Append(cs, NoCall)
    BY <1>3, <2>1, <2>2
  <2>6. Once(K) /\ Fragments(K) = {}
    <3>1. Distinct(NoCall.arguments_json) /\ Range_(NoCall.arguments_json) = {}
      <4>1. NoCall.arguments_json = <<>>
        BY NoCallType
      <4>2. Distinct(<<>>) /\ Range_(<<>>) = {}
        BY DEF Distinct, Range_
      <4>3. QED
        BY <4>1, <4>2
    <3>2. PICK c : c = NoCall
      OBVIOUS
    <3>3. /\ c \in CallType /\ K = Append(cs, c) /\ Distinct(c.arguments_json)
          /\ Range_(c.arguments_json) = {}
      BY <2>5, <3>1, <3>2, NoCallType
    <3>4. Range_(c.arguments_json) \cap Fragments(cs) = {}
      BY <3>3
    <3>5. Once(Append(cs, c)) /\ Fragments(Append(cs, c)) = Fragments(cs) \cup Range_(c.arguments_json)
      BY <2>2, <2>4, <3>3, <3>4, OnceAppend
    <3>6. QED
      BY <2>3, <3>3, <3>5
  <2>7. Once(Held(api, acc)) /\ Fragments(Held(api, acc)) \subseteq Fragments(cs)
    BY <2>1, <2>2, <2>3, <2>4, <2>6 DEF Held
  <2>8. SameCalls(api, acc, cs, losses, phase)
    <3>1. DOMAIN cs = {} /\ Len(cs) = 0 /\ Len(acc.by_index) = 0 /\ Opened(acc) = cs
      BY <1>3, <2>2, NothingTyped, Zenon DEF Opened
    <3>2. QED
      BY <1>3, <3>1, Zenon DEF SameCalls
  <2>9. QED
    BY <2>1, <2>3, <2>7, <2>8 DEF CallInv, CallPart
<1>8. CountsInv
  BY <1>1, <1>4 DEF CountsInv, CountsAnthropic, CountsOther
<1>9. EndingInv
  BY <1>2, <1>3 DEF EndingInv, EndingPart
<1>10. QED
  BY <1>5, <1>6, <1>7, <1>8, <1>9 DEF IInv

LEMMA StepInv == ASSUME IInv, [Next]_vars PROVE IInv'
<1>1. CASE Server
  <2>1. CASE ChatDelta \/ ChatFinish \/ ChatUsage
    BY <2>1, ChatDeltaStep, ChatFinishStep, ChatUsageStep
  <2>2. CASE ResponsesText \/ ResponsesReasoning \/ ResponsesItem \/ ResponsesArguments \/ ResponsesCompleted
    BY <2>2, ResponsesTextStep, ResponsesReasoningStep, ResponsesItemStep, ResponsesArgumentsStep, ResponsesCompletedStep
  <2>3. CASE AnthropicStart \/ AnthropicBlockStart \/ AnthropicBlockDelta \/ AnthropicBlockStop \/ AnthropicMessageDelta
    BY <2>3, AnthropicStartStep, AnthropicBlockStartStep, AnthropicBlockDeltaStep, AnthropicBlockStopStep,
       AnthropicMessageDeltaStep
  <2>4. CASE GoogleEvent
    BY <2>4, GoogleEventStep
  <2>5. QED
    BY <1>1, <2>1, <2>2, <2>3, <2>4 DEF Server
<1>2. CASE End
  BY <1>2, EndStep
<1>3. CASE Peek
  BY <1>3, PeekStep
<1>4. CASE UNCHANGED vars
  BY <1>4, StutterStep
<1>5. QED
  BY <1>1, <1>2, <1>3, <1>4 DEF Next

(* What the server has said and what the accumulator holds stay related,   *)
(* whatever the wire format and whatever the order of the events: see IInv.*)
THEOREM Invariance == Spec => []IInv
<1>1. Init => IInv
  BY InitInv
<1>2. IInv /\ [Next]_vars => IInv'
  BY StepInv
<1>3. QED
  BY <1>1, <1>2, PTL DEF Spec

(***************************************************************************)
(* What follows.                                                           *)
(***************************************************************************)
LEMMA ManyDifferent ==
    ASSUME NEW S, NEW s \in Seq(S), \A i, j \in DOMAIN s : i < j => s[i] # s[j]
    PROVE  Cardinality(Range_(s)) = Len(s)
<1>1. PICK n : n = Len(s)
  OBVIOUS
<1>2. n \in Nat /\ DOMAIN s = 1..n
  BY <1>1
<1>3. \A i, j \in 1..n : s[i] = s[j] => i = j
  BY <1>2
<1>4. PICK R : R = Range_(s)
  OBVIOUS
<1>5. R = {s[i] : i \in 1..n}
  BY <1>2, <1>4 DEF Range_
<1>6. PICK f : f = [i \in 1..n |-> s[i]]
  OBVIOUS
<1>7. f \in Bijection(1..n, R)
  <2>1. f \in [1..n -> R] /\ \A i \in 1..n : f[i] = s[i]
    BY <1>5, <1>6
  <2>2. f \in Injection(1..n, R)
    BY <1>3, <2>1 DEF Injection, IsInjective
  <2>3. f \in Surjection(1..n, R)
    BY <1>5, <2>1 DEF Surjection
  <2>4. QED
    BY <2>2, <2>3 DEF Bijection
<1>8. ExistsBijection(1..n, R)
  BY <1>7 DEF ExistsBijection
<1>9. QED
  BY <1>1, <1>2, <1>4, <1>8, FS_CountingElements

LEMMA ToldInOrder ==
    ASSUME NEW part \in Seq(PieceType), NEW whole, NEW n, Told(part, whole, n)
    PROVE  InOrder(part, whole)
<1>1. \A i \in DOMAIN part : part[i] \in Range_(whole)
  BY DEF Told
<1>2. \A i, j \in DOMAIN part : i < j => part[i].n <= part[j].n
  BY DEF Told
<1>3. \A i, j \in DOMAIN part : i < j => part[i] # part[j]
  BY DEF Told
<1>4. Cardinality(Range_(part)) = Len(part)
  BY <1>3, ManyDifferent
<1>5. Range_(part) \subseteq Range_(whole)
  BY <1>1 DEF Range_
<1>6. QED
  BY <1>2, <1>4, <1>5 DEF InOrder

(* What the response keeps of the accumulator.                             *)
LEMMA Response ==
    ASSUME NEW ac \in AccType
    PROVE  /\ accumulated(ac).text = ac.text /\ accumulated(ac).thinking = ac.thinking
           /\ accumulated(ac).stop_reason = ac.stop_reason /\ accumulated(ac).response_id = ac.response_id
           /\ accumulated(ac).usage = IF ac.usage = NoUsage THEN UsageInfo(0, 0, 0) ELSE ac.usage
           /\ accumulated(ac).tool_calls = [i \in DOMAIN (Opened(ac) \o ac.by_index) |-> ToolCall((Opened(ac) \o ac.by_index)[i])]
<1>1. PICK all : all = finalize_current_tool_call(ac)
  OBVIOUS
<1>2. /\ all.tool_calls = Opened(ac) /\ all.by_index = ac.by_index
      /\ all.text = ac.text /\ all.thinking = ac.thinking /\ all.usage = ac.usage
      /\ all.stop_reason = ac.stop_reason /\ all.response_id = ac.response_id
  BY <1>1 DEF finalize_current_tool_call, Opened, AccType
<1>3. PICK r : r = accumulated(ac)
  OBVIOUS
<1>4. r = [thinking |-> all.thinking,
           text |-> all.text,
           tool_calls |-> [i \in DOMAIN (all.tool_calls \o all.by_index) |-> ToolCall((all.tool_calls \o all.by_index)[i])],
           usage |-> IF all.usage = NoUsage THEN UsageInfo(0, 0, 0) ELSE all.usage,
           stop_reason |-> all.stop_reason,
           response_id |-> all.response_id]
  BY <1>1, <1>3, Zenon DEF accumulated
<1>5. /\ r.text = all.text /\ r.thinking = all.thinking
      /\ r.stop_reason = all.stop_reason /\ r.response_id = all.response_id
      /\ r.usage = IF all.usage = NoUsage THEN UsageInfo(0, 0, 0) ELSE all.usage
      /\ r.tool_calls = [i \in DOMAIN (all.tool_calls \o all.by_index) |-> ToolCall((all.tool_calls \o all.by_index)[i])]
  BY <1>4, Zenon
<1>6. QED
  BY <1>2, <1>3, <1>5, Zenon

LEMMA JoinOne ==
    ASSUME NEW T \in Seq(CallType), NEW c \in CallType, NEW K, K = T \o <<c>>
    PROVE  K = Append(T, c)
BY AppendIsConcat

(* All that the accumulator holds of calls.                                *)
LEMMA HeldAll ==
    ASSUME NEW a, NEW ac \in AccType, NEW calls, NEW lost, NEW ph, CallPart(a, ac, calls, lost, ph),
           NEW K, K = ac.tool_calls \o ac.by_index \o <<ac.current>>
    PROVE  K \in Seq(CallType) /\ Once(K)
<1>1. ac.tool_calls \in Seq(CallType) /\ ac.by_index \in Seq(CallType) /\ ac.current \in CallType
  BY DEF AccType
<1>2. Once(Held(a, ac))
  BY DEF CallPart
<1>3. PICK T, B, c : T = ac.tool_calls /\ B = ac.by_index /\ c = ac.current
  OBVIOUS
<1>4. T \in Seq(CallType) /\ B \in Seq(CallType) /\ c \in CallType /\ K = T \o B \o <<c>>
  BY <1>1, <1>3
<1>5. CASE a = "chat"
  <2>1. T = <<>> /\ c = NoCall
    BY <1>3, <1>5, ChatPart
  <2>2. Held(a, ac) = B
    BY <1>3, <1>5 DEF Held
  <2>3. T \o B = B
    BY <1>4, <2>1
  <2>4. K = Append(B, NoCall)
    BY <1>4, <2>1, <2>3, NoCallType, JoinOne
  <2>5. Distinct(NoCall.arguments_json) /\ Range_(NoCall.arguments_json) = {}
    <3>1. NoCall.arguments_json = <<>>
      BY NoCallType
    <3>2. Distinct(<<>>) /\ Range_(<<>>) = {}
      BY DEF Distinct, Range_
    <3>3. QED
      BY <3>1, <3>2
  <2>6. QED
    <3>1. Once(B)
      BY <1>2, <2>2
    <3>2. NoCall \in CallType /\ Range_(NoCall.arguments_json) \cap Fragments(B) = {}
      BY <2>5, NoCallType
    <3>3. Append(B, NoCall) \in Seq(CallType) /\ Once(Append(B, NoCall))
      BY <1>4, <2>5, <3>1, <3>2, OnceAppend
    <3>4. QED
      BY <2>4, <3>3
<1>6. CASE a # "chat"
  <2>1. B = <<>>
    BY <1>3, <1>6 DEF CallPart, SameCalls
  <2>2. Held(a, ac) = Append(T, c)
    BY <1>3, <1>6 DEF Held
  <2>3. T \o B = T
    BY <1>4, <2>1
  <2>4. K = Append(T, c)
    BY <1>4, <2>3, JoinOne
  <2>5. QED
    <3>1. Append(T, c) \in Seq(CallType)
      BY <1>4, AppendProperties
    <3>2. QED
      BY <1>2, <2>2, <2>4, <3>1
<1>7. QED
  BY <1>5, <1>6

LEMMA UsedOnce ==
    ASSUME NEW K, Once(K), NEW U,
           U = {p \in (DOMAIN K) \X (1..9) : p[2] \in DOMAIN K[p[1]].arguments_json},
           NEW p \in U, NEW q \in U, K[p[1]].arguments_json[p[2]] = K[q[1]].arguments_json[q[2]]
    PROVE  p = q
<1>1. p \in (DOMAIN K) \X (1..9) /\ q \in (DOMAIN K) \X (1..9)
  OBVIOUS
<1>2. PICK i, n, j, m : i = p[1] /\ n = p[2] /\ j = q[1] /\ m = q[2]
  OBVIOUS
<1>3. p = <<i, n>> /\ q = <<j, m>>
  BY <1>1, <1>2
<1>4. /\ i \in DOMAIN K /\ n \in DOMAIN K[i].arguments_json
      /\ j \in DOMAIN K /\ m \in DOMAIN K[j].arguments_json
      /\ K[i].arguments_json[n] = K[j].arguments_json[m]
  BY <1>1, <1>2
<1>5. i = j /\ n = m
  BY <1>4 DEF Once
<1>6. QED
  BY <1>3, <1>5

(* A response never holds a piece of text twice, out of its order or one   *)
(* that the server did not say, and never a fragment of arguments twice,   *)
(* in whatever way the events mix (StreamAccumulator.feed).                *)
THEOREM NothingIsInvented == Spec => []NothingInvented
<1>1. ASSUME IInv PROVE NothingInvented
  <2>1. acc \in AccType /\ TextPart(api, acc, message, losses, events) /\ CallPart(api, acc, message.calls, losses, phase)
    BY <1>1 DEF IInv, TypeOK, TextInv, CallInv
  <2>2. Streamed.text = acc.text /\ Streamed.thinking = acc.thinking
    BY <2>1, Response DEF Streamed
  <2>3. InOrder(acc.text, message.thought \o message.text) /\ InOrder(acc.thinking, message.thought)
    <3>1. Told(acc.text, message.thought \o message.text, events) /\ Told(acc.thinking, message.thought, events)
      BY <2>1 DEF TextPart
    <3>2. acc.text \in Seq(PieceType) /\ acc.thinking \in Seq(PieceType)
      BY <2>1 DEF AccType
    <3>3. QED
      BY <3>1, <3>2, ToldInOrder
  <2>4. PICK K : K = acc.tool_calls \o acc.by_index \o <<acc.current>>
    OBVIOUS
  <2>5. Once(K)
    BY <2>1, <2>4, HeldAll
  <2>6. PICK U : U = {p \in (DOMAIN K) \X (1..9) : p[2] \in DOMAIN K[p[1]].arguments_json}
    OBVIOUS
  <2>7. \A p, q \in U : K[p[1]].arguments_json[p[2]] = K[q[1]].arguments_json[q[2]] => p = q
    BY <2>5, <2>6, UsedOnce
  <2>8. QED
    BY <2>2, <2>3, <2>4, <2>6, <2>7, Zenon DEF NothingInvented
<1>2. QED
  BY <1>1, Invariance, PTL

(***************************************************************************)
(* At(s, places), by induction on the length of s.                         *)
(***************************************************************************)
LEMMA Least == ASSUME NEW T \in SUBSET Nat, T # {} PROVE \E x \in T : \A y \in T : ~(y < x)
<1> DEFINE R == OpToRel(<, Nat)
<1>1. IsWellFoundedOn(R, Nat)
  BY NatLessThanWellFounded
<1>2. \E x \in T : \A y \in T : ~(<<y, x>> \in R)
  <2> HIDE DEF R
  <2>1. QED
    BY <1>1, WFMin
<1>3. \A x, y \in Nat : y < x => <<y, x>> \in R
  BY DEF OpToRel
<1>4. QED
  BY <1>2, <1>3

LEMMA Reach ==
    ASSUME NEW S, 0 \in S, \A n \in Nat : n \in S => n + 1 \in S
    PROVE  Nat \subseteq S
<1> DEFINE T == Nat \ S
<1>1. SUFFICES ASSUME T # {} PROVE FALSE
  OBVIOUS
<1>2. PICK x \in T : \A y \in T : ~(y < x)
  BY <1>1, Least
<1>3. x # 0
  OBVIOUS
<1>4. x - 1 \in Nat /\ x - 1 < x
  BY <1>3
<1>5. x - 1 \in S
  BY <1>2, <1>4
<1>6. QED
  BY <1>4, <1>5

LEMMA MaxUpTo == ASSUME NEW n \in Nat, NEW q, q \subseteq 1..n + 1, n + 1 \in q PROVE Max(q) = n + 1
<1>1. \A y \in q : y \in Int /\ n + 1 >= y
  OBVIOUS
<1>2. \A x \in q : (\A y \in q : x >= y) => x = n + 1
  BY <1>1
<1>3. QED
  BY <1>1, <1>2 DEF Max

(* One element of the fold, and a table of the fold over subsets.          *)
Chosen(it, q, s, P) ==
    IF q = {} THEN <<>>
    ELSE IF Max(q) \in P THEN Append(it[q \ {Max(q)}], s[Max(q)]) ELSE it[q \ {Max(q)}]
Table(it, n, s, P) == it = [q \in SUBSET (1..n) |-> Chosen(it, q, s, P)]

LEMMA TableGrows ==
    ASSUME NEW s, NEW P, NEW n \in Nat, NEW it, Table(it, n, s, P)
    PROVE  \E it2 : Table(it2, n + 1, s, P)
<1> DEFINE h(q) == IF n + 1 \in q
                   THEN IF n + 1 \in P THEN Append(it[q \ {n + 1}], s[n + 1]) ELSE it[q \ {n + 1}]
                   ELSE it[q]
           g == [q \in SUBSET (1..n + 1) |-> h(q)]
<1>1. \A q \in SUBSET (1..n) : q \in SUBSET (1..n + 1) /\ n + 1 \notin q
  OBVIOUS
<1>2. \A q \in SUBSET (1..n) : g[q] = it[q]
  BY <1>1
<1>3. \A q \in SUBSET (1..n) : it[q] = Chosen(it, q, s, P)
  BY Zenon DEF Table
<1>4. \A q \in SUBSET (1..n + 1) : h(q) = Chosen(g, q, s, P)
  <2>1. SUFFICES ASSUME NEW q \in SUBSET (1..n + 1) PROVE h(q) = Chosen(g, q, s, P)
    OBVIOUS
  <2>2. CASE n + 1 \in q
    <3>1. Max(q) = n + 1
      BY <2>2, MaxUpTo
    <3>2. q \ {n + 1} \in SUBSET (1..n)
      OBVIOUS
    <3>3. g[q \ {n + 1}] = it[q \ {n + 1}]
      BY <1>2, <3>2, Zenon
    <3>4. q # {}
      BY <2>2
    <3> HIDE DEF g
    <3>5. QED
      BY <2>2, <3>1, <3>3, <3>4, Zenon DEF Chosen
  <2>3. CASE n + 1 \notin q
    <3>1. q \in SUBSET (1..n)
      BY <2>3
    <3>2. q \ {Max(q)} \in SUBSET (1..n)
      BY <3>1
    <3>3. g[q \ {Max(q)}] = it[q \ {Max(q)}]
      BY <1>2, <3>2, Zenon
    <3>4. h(q) = it[q]
      BY <2>3
    <3> HIDE DEF g, h
    <3>5. QED
      BY <1>3, <3>1, <3>3, <3>4, Zenon DEF Chosen
  <2>4. QED
    BY <2>2, <2>3
<1>5. Table(g, n + 1, s, P)
  <2> HIDE DEF h
  <2>1. g = [q \in SUBSET (1..n + 1) |-> Chosen(g, q, s, P)]
    BY <1>4
  <2> HIDE DEF g
  <2>2. QED
    BY <2>1 DEF Table
<1>6. QED
  BY <1>5

LEMMA Tables == ASSUME NEW s, NEW P PROVE \A n \in Nat : \E it : Table(it, n, s, P)
<1> DEFINE S == {n \in Nat : \E it : Table(it, n, s, P)}
<1>1. 0 \in S
  <2>1. 1..0 = {} /\ SUBSET {} = {{}}
    OBVIOUS
  <2>2. PICK g : g = [q \in SUBSET {} |-> <<>>]
    OBVIOUS
  <2>3. g = [q \in SUBSET {} |-> Chosen(g, q, s, P)]
    BY <2>1, <2>2 DEF Chosen
  <2>4. Table(g, 0, s, P)
    BY <2>1, <2>3 DEF Table
  <2>5. QED
    BY <2>4
<1>2. \A n \in Nat : n \in S => n + 1 \in S
  BY TableGrows
<1>3. Nat \subseteq S
  <2> HIDE DEF S
  <2>1. QED
    BY <1>1, <1>2, Reach
<1>4. QED
  BY <1>3

(* The fold, step by step.                                                 *)
AtStep(I, s, P, k) ==
    I[1..k + 1] = IF k + 1 \in P THEN Append(I[1..k], s[k + 1]) ELSE I[1..k]

LEMMA MaxIn == ASSUME NEW n \in Nat, NEW q, q \subseteq 1..n, q # {} PROVE Max(q) \in q
<1> DEFINE T == {m \in Nat : n - m \in q}
<1>1. T # {}
  <2>1. PICK z : z \in q
    OBVIOUS
  <2>2. n - z \in Nat /\ n - (n - z) = z
    BY <2>1
  <2>3. QED
    BY <2>1, <2>2
<1>2. PICK y \in T : \A z \in T : ~(z < y)
  BY <1>1, Least
<1>3. PICK x \in q : x = n - y
  BY <1>2
<1>4. \A z \in q : x >= z
  <2>1. SUFFICES ASSUME NEW z \in q PROVE x >= z
    OBVIOUS
  <2>2. z \in Int /\ n - z \in Nat /\ n - (n - z) = z
    OBVIOUS
  <2>3. n - z \in T
    BY <2>2
  <2>4. ~(n - z < y) /\ y \in Nat
    BY <1>2, <2>3
  <2>5. QED
    BY <1>3, <2>2, <2>4
<1>5. QED
  BY <1>4 DEF Max

LEMMA UpToNext ==
    ASSUME NEW n \in Nat, NEW k \in Nat, k < n
    PROVE  1..k + 1 \in SUBSET (1..n) /\ 1..k + 1 # {} /\ k + 1 \in 1..k + 1 /\ (1..k + 1) \ {k + 1} = 1..k
<1>1. k + 1 \in 1..k + 1
  OBVIOUS
<1>2. \A x : x \in (1..k + 1) \ {k + 1} <=> x \in 1..k
  OBVIOUS
<1>3. \A x \in 1..k + 1 : x \in 1..n
  OBVIOUS
<1>4. QED
  BY <1>1, <1>2, <1>3

LEMMA AtFold ==
    ASSUME NEW s \in Seq(PieceType), NEW P
    PROVE  \E I : /\ At(s, P) = I[1..Len(s)] /\ I[1..0] = <<>>
                  /\ \A k \in Nat : k < Len(s) => AtStep(I, s, P, k)
<1>1. PICK w, n : w = [p \in DOMAIN s |-> p] /\ n = Len(s)
  OBVIOUS
<1>2. DOMAIN w = 1..n /\ (\A p \in 1..n : w[p] = p) /\ n \in Nat
  BY <1>1
<1> DEFINE H(it, q) == IF q = {} THEN <<>>
                       ELSE IF w[Max(q)] \in P THEN Append(it[q \ {Max(q)}], s[w[Max(q)]]) ELSE it[q \ {Max(q)}]
           G(it) == [q \in SUBSET DOMAIN w |-> H(it, q)]
           J == CHOOSE it : it = G(it)
<1>3. At(s, P) = J[DOMAIN w]
  BY <1>1 DEF At, FoldLeft, MapThenFoldSet
<1>4. \A it : \A q \in SUBSET (1..n) : H(it, q) = Chosen(it, q, s, P)
  <2>1. SUFFICES ASSUME NEW it, NEW q \in SUBSET (1..n) PROVE H(it, q) = Chosen(it, q, s, P)
    OBVIOUS
  <2>2. CASE q = {}
    BY <2>2 DEF Chosen
  <2>3. CASE q # {}
    <3>1. w[Max(q)] = Max(q)
      BY <1>2, <2>3, MaxIn
    <3>2. QED
      BY <2>3, <3>1, Zenon DEF Chosen
  <2>4. QED
    BY <2>2, <2>3
<1>5. \E it : it = G(it)
  <2>1. PICK it : Table(it, n, s, P)
    BY <1>2, Tables
  <2>2. it = [q \in SUBSET (1..n) |-> Chosen(it, q, s, P)]
    BY <2>1 DEF Table
  <2> HIDE DEF H
  <2>3. it = [q \in SUBSET (1..n) |-> H(it, q)]
    BY <1>4, <2>2
  <2>4. QED
    BY <1>2, <2>3
<1>6. J = G(J)
  BY <1>5
<1>7. \A q \in SUBSET (1..n) : J[q] = Chosen(J, q, s, P)
  <2> HIDE DEF J, H
  <2>1. J = [q \in SUBSET (1..n) |-> H(J, q)]
    BY <1>2, <1>6
  <2>2. \A q \in SUBSET (1..n) : J[q] = H(J, q)
    BY <2>1
  <2>3. QED
    BY <1>4, <2>2
<1> HIDE DEF J
<1>8. J[1..0] = <<>>
  <2>1. 1..0 = {} /\ 1..0 \in SUBSET (1..n)
    BY <1>2
  <2>2. QED
    BY <1>7, <2>1 DEF Chosen
<1>9. ASSUME NEW k \in Nat, k < n PROVE AtStep(J, s, P, k)
  <2>1. PICK q : q = 1..k + 1
    OBVIOUS
  <2>2. q \in SUBSET (1..n) /\ q # {} /\ k + 1 \in q /\ q \ {k + 1} = 1..k
    BY <1>2, <1>9, <2>1, UpToNext
  <2>3. Max(q) = k + 1
    BY <2>1, <2>2, MaxUpTo
  <2>4. J[q] = Chosen(J, q, s, P)
    BY <1>7, <2>2
  <2>5. J[q] = IF k + 1 \in P THEN Append(J[1..k], s[k + 1]) ELSE J[1..k]
    BY <2>2, <2>3, <2>4, Zenon DEF Chosen
  <2>6. QED
    BY <2>1, <2>5, Zenon DEF AtStep
<1>10. At(s, P) = J[1..Len(s)] /\ \A k \in Nat : k < Len(s) => AtStep(J, s, P, k)
  BY <1>1, <1>2, <1>3, <1>9
<1>11. QED
  BY <1>8, <1>10

(* A text without tags is all outside them.                                *)
LEMMA AtNone ==
    ASSUME NEW s \in Seq(PieceType), NEW P, \A k \in 1..Len(s) : k \notin P
    PROVE  At(s, P) = <<>>
<1>1. PICK I : /\ At(s, P) = I[1..Len(s)] /\ I[1..0] = <<>>
               /\ \A k \in Nat : k < Len(s) => AtStep(I, s, P, k)
  BY AtFold
<1>2. PICK n : n = Len(s)
  OBVIOUS
<1>3. n \in Nat
  BY <1>2
<1> DEFINE S == {k \in Nat : k <= n => I[1..k] = <<>>}
<1>4. 0 \in S
  BY <1>1
<1>5. \A k \in Nat : k \in S => k + 1 \in S
  <2>1. SUFFICES ASSUME NEW k \in Nat, k \in S, k + 1 <= n PROVE I[1..k + 1] = <<>>
    OBVIOUS
  <2>2. I[1..k] = <<>> /\ k < n /\ k + 1 \in 1..n
    BY <1>3, <2>1
  <2>3. AtStep(I, s, P, k) /\ k + 1 \notin P
    BY <1>1, <1>2, <2>2
  <2>4. QED
    BY <2>2, <2>3, Zenon DEF AtStep
<1>6. Nat \subseteq S
  <2> HIDE DEF S
  <2>1. QED
    BY <1>4, <1>5, Reach
<1>7. QED
  BY <1>1, <1>2, <1>3, <1>6

Starting(r, s, k) == r \in Seq(PieceType) /\ Len(r) = k /\ \A i \in 1..k : r[i] = s[i]

LEMMA StartingMore ==
    ASSUME NEW s \in Seq(PieceType), NEW k \in Nat, k + 1 \in 1..Len(s), NEW r, Starting(r, s, k),
           NEW u, u = Append(r, s[k + 1])
    PROVE  Starting(u, s, k + 1)
<1>1. r \in Seq(PieceType) /\ Len(r) = k /\ s[k + 1] \in PieceType
  BY DEF Starting
<1>2. /\ u \in Seq(PieceType) /\ Len(u) = k + 1
      /\ \A i \in 1..k + 1 : u[i] = IF i = k + 1 THEN s[k + 1] ELSE r[i]
  BY <1>1, AppendProperties
<1>3. ASSUME NEW i \in 1..k + 1 PROVE u[i] = s[i]
  <2>1. i = k + 1 \/ i \in 1..k
    OBVIOUS
  <2>2. QED
    BY <1>2, <2>1 DEF Starting
<1>4. QED
  BY <1>2, <1>3 DEF Starting

LEMMA AtAll ==
    ASSUME NEW s \in Seq(PieceType), NEW P, \A k \in 1..Len(s) : k \in P
    PROVE  At(s, P) = s
<1>1. PICK I : /\ At(s, P) = I[1..Len(s)] /\ I[1..0] = <<>>
               /\ \A k \in Nat : k < Len(s) => AtStep(I, s, P, k)
  BY AtFold
<1>2. PICK n : n = Len(s)
  OBVIOUS
<1>3. n \in Nat
  BY <1>2
<1> DEFINE S == {k \in Nat : k <= n => Starting(I[1..k], s, k)}
<1>4. 0 \in S
  <2>1. Starting(<<>>, s, 0)
    BY DEF Starting
  <2>2. QED
    BY <1>1, <2>1
<1>5. \A k \in Nat : k \in S => k + 1 \in S
  <2>1. SUFFICES ASSUME NEW k \in Nat, k \in S, k + 1 <= n PROVE Starting(I[1..k + 1], s, k + 1)
    OBVIOUS
  <2>2. Starting(I[1..k], s, k) /\ k < n /\ k + 1 \in 1..n
    BY <1>3, <2>1
  <2>3. AtStep(I, s, P, k) /\ k + 1 \in P
    BY <1>1, <1>2, <2>2
  <2>4. I[1..k + 1] = Append(I[1..k], s[k + 1])
    BY <2>3, Zenon DEF AtStep
  <2>5. QED
    BY <1>2, <2>2, <2>4, StartingMore
<1>6. Nat \subseteq S
  <2> HIDE DEF S
  <2>1. QED
    BY <1>4, <1>5, Reach
<1>7. Starting(I[1..n], s, n)
  BY <1>3, <1>6
<1>8. I[1..n] = s
  BY <1>2, <1>3, <1>7, SeqEqual DEF Starting
<1>9. QED
  BY <1>1, <1>2, <1>8

LEMMA PlainText ==
    ASSUME NEW s \in Seq(PieceType), \A i \in DOMAIN s : s[i].mark = "word"
    PROVE  At(s, Outside(s)) = s /\ At(s, Thought(s)) = <<>>
<1>1. DOMAIN s = 1..Len(s)
  OBVIOUS
<1>2. "word" # "<think>"
  OBVIOUS
<1>3. Opens(s) = {}
  BY <1>2, Zenon DEF Opens
<1>4. Spans(s) = {}
  BY <1>3, Zenon DEF Spans
<1>5. Outside(s) = DOMAIN s
  BY <1>4, Zenon DEF Outside
<1>6. Thought(s) = {}
  BY <1>4, Zenon DEF Thought
<1>7. At(s, Outside(s)) = s
  BY <1>1, <1>5, AtAll
<1>8. At(s, Thought(s)) = <<>>
  BY <1>6, AtNone
<1>9. QED
  BY <1>7, <1>8

(* The same calls make the same response.                                  *)
Calls(cs) == [i \in DOMAIN cs |-> ToolCall(cs[i])]

LEMMA SameToolCalls ==
    ASSUME NEW cs \in Seq(CallType), NEW ds \in Seq(CallType), Len(cs) = Len(ds),
           \A i \in DOMAIN ds : SameCall(cs[i], ds[i], {})
    PROVE  Calls(cs) = Calls(ds)
<1>1. DOMAIN cs = DOMAIN ds
  OBVIOUS
<1>2. ASSUME NEW i \in DOMAIN ds PROVE ToolCall(cs[i]) = ToolCall(ds[i])
  <2>1. cs[i].id = ds[i].id /\ cs[i].name = ds[i].name /\ cs[i].arguments_json = ds[i].arguments_json
    BY <1>2 DEF SameCall
  <2>2. QED
    BY <2>1, Zenon DEF ToolCall
<1>3. QED
  BY <1>1, <1>2, Zenon DEF Calls

LEMMA CallsAgree ==
    ASSUME NEW a, NEW ac \in AccType, NEW calls, NEW lost, NEW ph, CallPart(a, ac, calls, lost, ph), lost \cap Mixed = {}
    PROVE  accumulated(ac).tool_calls = Calls(calls)
<1>1. PICK K : K = Opened(ac) \o ac.by_index
  OBVIOUS
<1>2. accumulated(ac).tool_calls = Calls(K)
  BY <1>1, Response, Zenon DEF Calls
<1>3. ac.tool_calls \in Seq(CallType) /\ ac.by_index \in Seq(CallType) /\ ac.current \in CallType
  BY DEF AccType
<1>4. calls \in Seq(CallType)
  BY DEF CallPart, Shape
<1>5. CASE a = "chat"
  <2>1. /\ ac.tool_calls = <<>> /\ ac.current = NoCall /\ Len(ac.by_index) = Len(calls)
        /\ \A i \in DOMAIN calls : SameCall(ac.by_index[i], calls[i], lost)
    BY <1>5, ChatPart
  <2>2. Opened(ac) = <<>>
    BY <2>1 DEF Opened
  <2>3. K = ac.by_index
    BY <1>1, <1>3, <2>2, ConcatEmptySeq
  <2>4. \A i \in DOMAIN calls : SameCall(ac.by_index[i], calls[i], {})
    BY <2>1 DEF SameCall
  <2>5. Calls(ac.by_index) = Calls(calls)
    BY <1>3, <1>4, <2>1, <2>4, SameToolCalls
  <2>6. QED
    BY <1>2, <2>3, <2>5
<1>6. CASE a # "chat"
  <2>1. ac.by_index = <<>> /\ Opened(ac) = calls
    BY <1>6 DEF CallPart, SameCalls
  <2>2. K = calls
    BY <1>1, <1>4, <2>1, ConcatEmptySeq
  <2>3. QED
    BY <1>2, <2>2
<1>7. QED
  BY <1>5, <1>6

(* Whoever reads the entry a stream left in the cache is told what the     *)
(* blocking request would have been told, unless the stream held an event  *)
(* that the streamed reading cannot keep (request_stream_async).           *)
THEOREM StreamedAsUnstreamed == Spec => []StreamAgrees
<1>1. ASSUME IInv PROVE StreamAgrees
  <2>1. /\ acc \in AccType /\ message \in MessageType /\ TextPart(api, acc, message, losses, events)
        /\ CallPart(api, acc, message.calls, losses, phase)
    BY <1>1 DEF IInv, TypeOK, TextInv, CallInv
  <2>2. Streamed.text = acc.text /\ Streamed.thinking = acc.thinking
    BY <2>1, Response DEF Streamed
  <2>3. /\ Unstreamed.thinking = IF api = "chat" THEN At(message.text, Thought(message.text)) ELSE message.thought
        /\ Unstreamed.text = IF api = "chat" THEN At(message.text, Outside(message.text)) ELSE message.text
        /\ Unstreamed.tool_calls = Calls(message.calls)
    BY Zenon DEF Unstreamed, parse_response, Calls
  <2>4. message.text \in Seq(PieceType)
    BY <2>1 DEF MessageType
  <2>5. TextKept(api, acc, message, losses) /\ ThinkingKept(acc, message, losses)
    BY <2>1 DEF TextPart
  <2>6. api = "chat" => NoTags(acc, message, losses)
    BY <2>1 DEF TextPart
  <2>7. api = "chat" /\ "think tag" \notin losses
           => At(message.text, Outside(message.text)) = message.text /\ At(message.text, Thought(message.text)) = <<>>
    BY <2>4, <2>6, PlainText DEF NoTags
  <2>8. losses \cap {"text beside a call", "think tag"} = {} /\ ~(api = "google" /\ "thinking" \in losses)
           => Streamed.text = Unstreamed.text
    <3>1. losses \cap {"text beside a call", "think tag"} = {} => "think tag" \notin losses
      OBVIOUS
    <3>2. QED
      BY <2>2, <2>3, <2>5, <2>7, <3>1, Zenon DEF TextKept
  <2>9. losses \cap {"thinking", "think tag"} = {} => Streamed.thinking = Unstreamed.thinking
    <3>1. losses \cap {"thinking", "think tag"} = {} => "think tag" \notin losses /\ "thinking" \notin losses
      OBVIOUS
    <3>2. QED
      BY <2>2, <2>3, <2>5, <2>6, <2>7, <3>1, Zenon DEF ThinkingKept, NoTags
  <2>10. losses \cap {"calls interleaved", "two calls at once", "name repeated", "read too early"} = {}
           => Streamed.tool_calls = Unstreamed.tool_calls
    <3>1. PICK cs : cs = message.calls
      OBVIOUS
    <3>2. losses \cap Mixed = {} => accumulated(acc).tool_calls = Calls(cs)
      BY <2>1, <3>1, CallsAgree
    <3>3. QED
      BY <2>3, <3>1, <3>2, Zenon DEF Streamed, Mixed
  <2>11. QED
    BY <2>8, <2>9, <2>10, Zenon DEF StreamAgrees
<1>2. QED
  BY <1>1, Invariance, PTL

(* The counts of a response, given those of the accumulator or the body.   *)
Shown(u) == IF u = NoUsage THEN UsageInfo(0, 0, 0) ELSE u
AtMost(s, u) == s.input <= u.input /\ s.output <= u.output /\ s.total <= u.total
Equal(s, u) == s.input = u.input /\ s.output = u.output

LEMMA ShownFacts ==
    ASSUME NEW i \in Nat, NEW o \in Int, NEW t \in Int
    PROVE  /\ Shown(UsageInfo(i, o, t)).input = i /\ Shown(UsageInfo(i, o, t)).output = o
           /\ Shown(UsageInfo(i, o, t)).total = t
           /\ Shown(NoUsage).input = 0 /\ Shown(NoUsage).output = 0 /\ Shown(NoUsage).total = 0
<1>1. UsageInfo(i, o, t) # NoUsage
  BY UsageFacts
<1>2. Shown(UsageInfo(i, o, t)) = UsageInfo(i, o, t) /\ Shown(NoUsage) = UsageInfo(0, 0, 0)
  BY <1>1, Zenon DEF Shown
<1>3. QED
  BY <1>2, UsageFacts

LEMMA ShownAs ==
    ASSUME NEW o \in Int, NEW t \in Int, NEW s, s = Shown(UsageInfo(3, o, t))
    PROVE  s.input = 3 /\ s.output = o /\ s.total = t
<1>1. PICK v : v = UsageInfo(3, o, t)
  OBVIOUS
<1>2. v.input = 3 /\ v.output = o /\ v.total = t
  BY <1>1 DEF UsageInfo
<1>3. v # NoUsage
  BY <1>2, NoUsageFacts
<1>4. s = v
  BY <1>1, <1>3, Zenon DEF Shown
<1>5. QED
  BY <1>2, <1>4, Zenon

LEMMA AnthropicCounts ==
    ASSUME NEW ac, NEW msg, NEW n \in Nat, NEW out \in Nat, NEW blk, CountsAnthropic(ac, msg, n, out, blk),
           NEW s, s = Shown(ac.usage), NEW u, u = Shown(msg.usage)
    PROVE  AtMost(s, u) /\ Equal(s, u) /\ (out = 1 => s.total = u.total)
<1>1. CASE n = 0
  <2>1. s = Shown(NoUsage) /\ u = Shown(NoUsage)
    BY <1>1, Zenon DEF CountsAnthropic
  <2>2. s.input = 0 /\ s.output = 0 /\ s.total = 0 /\ u = s
    BY <2>1, ShownFacts
  <2>3. QED
    BY <2>2 DEF AtMost, Equal
<1>2. CASE n # 0
  <2>1. PICK t : t = IF out = 0 THEN 0 ELSE 4
    OBVIOUS
  <2>2. t \in Int /\ out \in Int /\ t <= 3 + out /\ (out = 1 => t = 3 + out) /\ 3 + out \in Int
    BY <2>1
  <2>3. s = Shown(UsageInfo(3, out, t)) /\ u = Shown(UsageInfo(3, out, 3 + out))
    BY <1>2, <2>1, Zenon DEF CountsAnthropic
  <2>4. s.input = 3 /\ s.output = out /\ s.total = t
    BY <2>2, <2>3, ShownAs
  <2>5. u.input = 3 /\ u.output = out /\ u.total = 3 + out
    BY <2>2, <2>3, ShownAs
  <2>6. QED
    BY <2>2, <2>4, <2>5 DEF AtMost, Equal
<1>3. QED
  BY <1>1, <1>2

LEMMA OtherCounts ==
    ASSUME NEW ac, NEW msg, NEW lost, NEW out \in Nat, CountsOther(ac, msg, lost, out),
           NEW s, s = Shown(ac.usage), NEW u, u = Shown(msg.usage)
    PROVE  AtMost(s, u) /\ (Apart(lost) => Equal(s, u) /\ s.total = u.total)
<1>1. Apart(lost) => s = u
  BY Zenon DEF CountsOther
<1>2. CASE ac.usage = NoUsage
  <2>1. s.input = 0 /\ s.output = 0 /\ s.total = 0
    BY <1>2, ShownFacts
  <2>2. CASE out = 0
    <3>1. u = Shown(NoUsage)
      BY <2>2, Zenon DEF CountsOther
    <3>2. u.input = 0 /\ u.output = 0 /\ u.total = 0
      BY <3>1, ShownFacts
    <3>3. QED
      BY <1>1, <2>1, <3>2 DEF AtMost, Equal
  <2>3. CASE out # 0
    <3>1. u = Shown(UsageInfo(3, out, 3 + out))
      BY <2>3, Zenon DEF CountsOther
    <3>2. u.input = 3 /\ u.output = out /\ u.total = 3 + out
      <4>1. out \in Int /\ 3 + out \in Int
        OBVIOUS
      <4>2. QED
        BY <3>1, <4>1, ShownAs
    <3>3. QED
      BY <1>1, <2>1, <3>2 DEF AtMost, Equal
  <2>4. QED
    BY <2>2, <2>3
<1>3. CASE ac.usage # NoUsage
  <2>1. PICK o \in 1..out : ac.usage = UsageInfo(3, o, 3 + o)
    BY <1>3, Zenon DEF CountsOther
  <2>2. s.input = 3 /\ s.output = o /\ s.total = 3 + o
    <3>1. o \in Int /\ 3 + o \in Int
      BY <2>1
    <3>2. s = Shown(UsageInfo(3, o, 3 + o))
      BY <2>1, Zenon
    <3>3. QED
      BY <3>1, <3>2, ShownAs
  <2>3. u = Shown(UsageInfo(3, out, 3 + out))
    <3>1. out # 0
      BY <2>1
    <3>2. QED
      BY <3>1, Zenon DEF CountsOther
  <2>4. u.input = 3 /\ u.output = out /\ u.total = 3 + out
    <3>1. out \in Int /\ 3 + out \in Int
      OBVIOUS
    <3>2. QED
      BY <2>3, <3>1, ShownAs
  <2>5. o <= out /\ o \in Int
    BY <2>1
  <2>6. QED
    BY <1>1, <2>2, <2>4, <2>5 DEF AtMost, Equal
<1>4. QED
  BY <1>2, <1>3

(* The counts that a stream reports are never more than the server said    *)
(* and, when they come in events of their own, what it said; the reason to *)
(* stop and the id are the server's where extract_metadata looks for them. *)
THEOREM MetadataIsKept == Spec => []MetadataAgrees
<1>1. ASSUME IInv PROVE MetadataAgrees
  <2>1. acc \in AccType /\ events \in Nat /\ outputs \in Nat /\ CountsInv /\ EndingPart(api, acc, message)
    BY <1>1 DEF IInv, TypeOK, EndingInv
  <2>2. PICK s, u : s = Shown(acc.usage) /\ u = Shown(message.usage)
    OBVIOUS
  <2>3. AtMost(s, u) /\ (Apart(losses) => Equal(s, u) /\ (outputs = 1 => s.total = u.total))
    <3>1. CASE api = "anthropic"
      BY <2>1, <2>2, <3>1, AnthropicCounts DEF CountsInv
    <3>2. CASE api # "anthropic"
      BY <2>1, <2>2, <3>2, OtherCounts DEF CountsInv
    <3>3. QED
      BY <3>1, <3>2
  <2>4. Streamed.usage = s /\ Unstreamed.usage = u
    <3>1. Streamed.usage = s
      BY <2>1, <2>2, Response, Zenon DEF Streamed, Shown
    <3>2. Unstreamed.usage = u
      BY <2>2, Zenon DEF Unstreamed, parse_response, Shown
    <3>3. QED
      BY <3>1, <3>2
  <2>5. CountsAgree
    BY <2>3, <2>4, Zenon DEF CountsAgree, AtMost, Equal, Apart
  <2>6. EndingKnown
    <3>1. Streamed.stop_reason = acc.stop_reason /\ Streamed.response_id = acc.response_id
      BY <2>1, Response, Zenon DEF Streamed
    <3>2. /\ Unstreamed.stop_reason = message.stop
          /\ Unstreamed.response_id = IF api = "google" THEN "" ELSE message.id
      BY Zenon DEF Unstreamed, parse_response
    <3>3. QED
      BY <2>1, <3>1, <3>2, Zenon DEF EndingKnown, EndingPart
  <2>7. QED
    BY <2>5, <2>6, Zenon DEF MetadataAgrees
<1>2. QED
  BY <1>1, Invariance, PTL
===============================================================================

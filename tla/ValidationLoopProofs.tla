------------------------- MODULE ValidationLoopProofs -------------------------
(***************************************************************************)
(* Proofs about ValidationLoop, for any calls, answers, number of retries, *)
(* reading and validation: what the cache answers, what each request       *)
(* carries, and how the call ends.                                         *)
(***************************************************************************)
EXTENDS ValidationLoop, SequenceTheorems, FiniteSetTheorems, TLAPS

Errors == {"no JSON", "invalid", "refused"}
Responses ==
    {Response(a, called) : a \in UNION {Answers[c.retries] : c \in Clients}, called \in BOOLEAN}
    \cup {entry.answer : entry \in UNION {Held(c) : c \in Clients}}
Texts == {<<"question">>, <<"reply">>} \cup {<<e>> : e \in Errors} \cup {said.text : said \in Responses}
Messages ==
    [role : {"user", "assistant"}, shape : {"string", "list", "cited"}, says : Texts, instructed : {FALSE}]

(* The inductive invariant.  What may be asked the i-th time; who asks is  *)
(* able to, and counts; every entry of the cache is one that others left,  *)
(* or one of the answers, to what was asked for it.                        *)
Typed ==
    /\ client \in Clients
    /\ pc \in {"ask", "sent", "read", "done"}
    /\ answers \in Seq(Responses)
    /\ served \subseteq 1..Len(answers)
    /\ held \subseteq Held(client)

Asks(c, s, i) ==
    IF i = 1 THEN {Original(c)} ELSE {Correction(c, s[i - 1], error) : error \in Errors}

Turn ==
    /\ pc \in {"ask", "sent"} => asked \in Asks(client, answers, Len(answers) + 1)
    /\ pc = "sent" => request = json_request(client, asked)

Own(entry) ==
    \E j \in 1..Len(answers) :
        /\ entry.answer = answers[j]
        /\ \E m \in Asks(client, answers, j) : entry.request = json_request(client, m)
Remembered == \A entry \in cache : entry \in held \/ Own(entry)

Tries ==
    /\ pc \in {"sent", "read"} \/ answers # <<>> =>
           client.retries >= 0 /\ ~endless_schema(client) /\ ~check_citation_mutex(client)
    /\ pc \in {"ask", "sent"} => answers = <<>> \/ Len(answers) <= client.retries
    /\ pc = "sent" => Len(answers) <= client.retries
    /\ pc = "read" => Len(answers) \in 1..client.retries + 1

Failed ==
    client.validator \/
        /\ pc \in {"ask", "sent"} => \A i \in 1..Len(answers) : ~Accepted(answers[i])
        /\ pc = "read" => \A i \in 1..Len(answers) - 1 : ~Accepted(answers[i])

IInv == Typed /\ Turn /\ Remembered /\ Tries /\ Failed /\ RepeatServed /\ OutcomeJustified
-----------------------------------------------------------------------------
LEMMA ClientIs ==
    ASSUME NEW c \in Clients
    PROVE  /\ c.family \in {"openai", "compat", "anthropic", "google", "other"}
           /\ c.mode \in {"native", "tool", "prompted"}
           /\ c.caching \in BOOLEAN /\ c.validator \in BOOLEAN
           /\ c.retries \in Int
           /\ c.shape \in {"string", "list", "cited", "reply"}
  BY ClientsAssumption

LEMMA OriginalIs ==
    ASSUME NEW c \in Clients
    PROVE  Original(c) \in Seq(Messages) /\ Len(Original(c)) \in Nat \ {0}
<1>1. /\ Message("user", "string", <<"question">>) \in Messages
      /\ Message("assistant", "string", <<"reply">>) \in Messages
      /\ c.shape \in {"list", "cited"} => Message("user", c.shape, <<"question">>) \in Messages
  BY DEF Message, Messages, Texts
<1>2. c.shape \in {"string", "list", "cited", "reply"}
  BY ClientIs
<1> QED
  BY <1>1, <1>2 DEF Original

(* The answer and the error are the last things said in a correction.      *)
LEMMA CorrectionIs ==
    ASSUME NEW c \in Clients, NEW said \in Responses, NEW error \in Errors
    PROVE  /\ Correction(c, said, error) \in Seq(Messages)
           /\ Len(Correction(c, said, error)) = Len(Original(c)) + 2
           /\ Correction(c, said, error)[Len(Original(c)) + 1] = Message("assistant", "string", said.text)
           /\ Correction(c, said, error)[Len(Original(c)) + 2] = Message("user", "string", <<error>>)
<1> DEFINE a == Message("assistant", "string", said.text)
           b == Message("user", "string", <<error>>)
<1>1. a \in Messages /\ b \in Messages
  BY DEF Message, Messages, Texts
<1>2. Original(c) \in Seq(Messages) /\ Len(Original(c)) \in Nat
  BY OriginalIs
<1>3. Correction(c, said, error) = Original(c) \o <<a, b>>
  BY DEF Correction
<1> HIDE DEF a, b
<1>4. <<a, b>> \in Seq(Messages) /\ Len(<<a, b>>) = 2 /\ <<a, b>>[1] = a /\ <<a, b>>[2] = b
  BY <1>1
<1>5. /\ Original(c) \o <<a, b>> \in Seq(Messages)
      /\ Len(Original(c) \o <<a, b>>) = Len(Original(c)) + 2
      /\ (Original(c) \o <<a, b>>)[Len(Original(c)) + 1] = a
      /\ (Original(c) \o <<a, b>>)[Len(Original(c)) + 2] = b
  BY <1>2, <1>4
<1> QED
  BY <1>3, <1>5 DEF a, b

(* In prompt mode the last message asks for JSON, and no other; otherwise  *)
(* none does.                                                              *)
LEMMA PromptedIs ==
    ASSUME NEW m \in Seq(Messages), Len(m) \in Nat \ {0}, NEW p, p = apply_prompted_json_mode(m)
    PROVE  /\ Len(p) = IF m[Len(m)].role = "user" /\ m[Len(m)].shape = "string"
                       THEN Len(m) ELSE Len(m) + 1
           /\ Len(p) \in Nat /\ DOMAIN p = 1..Len(p) /\ Len(p) > 0
           /\ \A i \in 1..Len(p) : p[i].instructed <=> i = Len(p)
           /\ \A i \in 1..Len(m) - 1 : p[i] = m[i]
<1> DEFINE n == Len(m)
           x == [Message("user", "string", <<>>) EXCEPT !.instructed = TRUE]
<1>1. /\ n \in Nat /\ n > 0 /\ DOMAIN m = 1..n
      /\ \A i \in 1..n : m[i] \in Messages
  OBVIOUS
<1>2. \A i \in 1..n : m[i] = [role |-> m[i].role, shape |-> m[i].shape, says |-> m[i].says, instructed |-> FALSE]
  BY <1>1 DEF Messages
<1>3. Last(m) = m[n]
  BY DEF Last
<1>4. CASE m[n].role = "user" /\ m[n].shape = "string"
  <2>1. apply_prompted_json_mode(m) = [m EXCEPT ![n].instructed = TRUE]
    BY <1>3, <1>4 DEF apply_prompted_json_mode
  <2>2. \A i \in 1..n : [m EXCEPT ![n].instructed = TRUE][i] =
                            IF i = n THEN [m[n] EXCEPT !.instructed = TRUE] ELSE m[i]
    BY <1>1
  <2>3. Len([m EXCEPT ![n].instructed = TRUE]) = n /\ DOMAIN [m EXCEPT ![n].instructed = TRUE] = 1..n
    BY <1>1
  <2>4. [m[n] EXCEPT !.instructed = TRUE].instructed = TRUE
    BY <1>1, <1>2
  <2>5. \A i \in 1..n : m[i].instructed = FALSE
    BY <1>1 DEF Messages
  <2>6. p = [m EXCEPT ![n].instructed = TRUE]
    BY <2>1
  <2>7. Len(p) = n /\ DOMAIN p = 1..n /\ \A i \in 1..n - 1 : p[i] = m[i]
    BY <1>1, <2>2, <2>3, <2>6
  <2>8. \A i \in 1..n : p[i].instructed <=> i = n
    BY <1>1, <2>2, <2>4, <2>5, <2>6
  <2> HIDE DEF x
  <2> QED
    <3>1. Len(p) = IF m[Len(m)].role = "user" /\ m[Len(m)].shape = "string" THEN Len(m) ELSE Len(m) + 1
      BY <1>4, <2>7
    <3>2. Len(p) \in Nat /\ DOMAIN p = 1..Len(p) /\ Len(p) > 0
      BY <1>1, <2>7
    <3>3. \A i \in 1..Len(p) : p[i].instructed <=> i = Len(p)
      BY <2>7, <2>8
    <3> QED
      BY <2>7, <3>1, <3>2, <3>3
<1>5. CASE ~(m[n].role = "user" /\ m[n].shape = "string")
  <2>1. apply_prompted_json_mode(m) = Append(m, x)
    BY <1>3, <1>5 DEF apply_prompted_json_mode
  <2>2. x.instructed = TRUE
    BY DEF Message
  <2>3. /\ Len(Append(m, x)) = n + 1 /\ DOMAIN Append(m, x) = 1..n + 1
        /\ Append(m, x)[n + 1] = x
        /\ \A i \in 1..n : Append(m, x)[i] = m[i]
    <3> HIDE DEF x
    <3> QED
      BY <1>1
  <2>4. \A i \in 1..n : m[i].instructed = FALSE
    BY <1>1 DEF Messages
  <2>5. Len(p) = n + 1 /\ DOMAIN p = 1..n + 1 /\ \A i \in 1..n : p[i] = m[i]
    BY <2>1, <2>3
  <2>6. p[n + 1].instructed = TRUE
    BY <2>1, <2>2, <2>3
  <2>7. \A i \in 1..n + 1 : p[i].instructed <=> i = n + 1
    BY <1>1, <2>4, <2>5, <2>6
  <2> HIDE DEF x
  <2> QED
    <3>1. Len(p) = IF m[Len(m)].role = "user" /\ m[Len(m)].shape = "string" THEN Len(m) ELSE Len(m) + 1
      BY <1>5, <2>5
    <3>2. Len(p) \in Nat /\ DOMAIN p = 1..Len(p) /\ Len(p) > 0
      BY <1>1, <2>5
    <3>3. \A i \in 1..Len(p) : p[i].instructed <=> i = Len(p)
      BY <2>5, <2>7
    <3>4. \A i \in 1..Len(m) - 1 : p[i] = m[i]
      BY <1>1, <2>5
    <3> QED
      BY <3>1, <3>2, <3>3, <3>4
<1> QED
  BY <1>4, <1>5

LEMMA AsksAre ==
    ASSUME NEW c \in Clients, NEW s \in Seq(Responses), NEW i \in 1..Len(s) + 1, NEW m \in Asks(c, s, i)
    PROVE  m \in Seq(Messages) /\ Len(m) \in Nat \ {0}
<1>1. CASE i = 1
  <2>1. m = Original(c)
    BY <1>1 DEF Asks
  <2>2. Original(c) \in Seq(Messages) /\ Len(Original(c)) \in Nat \ {0}
    BY OriginalIs, Zenon
  <2> QED
    BY <2>1, <2>2, Zenon
<1>2. CASE i # 1
  <2>1. i - 1 \in 1..Len(s) /\ s[i - 1] \in Responses
    BY <1>2
  <2>2. PICK error \in Errors : m = Correction(c, s[i - 1], error)
    BY <1>2 DEF Asks
  <2>3. Len(Original(c)) \in Nat
    BY OriginalIs
  <2>4. m \in Seq(Messages) /\ Len(m) = Len(Original(c)) + 2
    BY <2>1, <2>2, CorrectionIs
  <2> QED
    BY <2>3, <2>4
<1> QED
  BY <1>1, <1>2

LEMMA AsksGrow ==
    ASSUME NEW c, NEW s \in Seq(Responses), NEW a \in Responses, NEW i \in 1..Len(s) + 1
    PROVE  Asks(c, Append(s, a), i) = Asks(c, s, i)
<1>1. CASE i = 1
  BY <1>1 DEF Asks
<1>2. CASE i # 1
  <2>1. i - 1 \in 1..Len(s)
    BY <1>2
  <2>2. Append(s, a)[i - 1] = s[i - 1]
    BY <2>1
  <2> QED
    BY <1>2, <2>2 DEF Asks
<1> QED
  BY <1>1, <1>2

(* A correction, as it is sent, shows the answer it corrects.              *)
ShownIn(messages, n, said) ==
    /\ n \in DOMAIN messages
    /\ messages[n].role = "assistant" /\ messages[n].says = said.text

LEMMA CorrectionSent ==
    ASSUME NEW c \in Clients, NEW said \in Responses, NEW error \in Errors
    PROVE  LET sent == json_request(c, Correction(c, said, error)).messages
           IN  Len(sent) = Len(Original(c)) + 2 /\ ShownIn(sent, Len(Original(c)) + 1, said)
<1> DEFINE m == Correction(c, said, error)
           n == Len(Original(c))
           sent == json_request(c, m).messages
<1>1. n \in Nat /\ n > 0
  BY OriginalIs
<1>2. /\ m \in Seq(Messages) /\ Len(m) = n + 2
      /\ m[n + 1] = Message("assistant", "string", said.text)
      /\ m[n + 2] = Message("user", "string", <<error>>)
  BY CorrectionIs
<1>3. /\ m[n + 1].role = "assistant" /\ m[n + 1].says = said.text
      /\ m[n + 2].role = "user" /\ m[n + 2].shape = "string"
  BY <1>2 DEF Message
<1>4. CASE c.mode = "prompted"
  <2>1. sent = apply_prompted_json_mode(m)
    BY <1>4 DEF json_request
  <2> HIDE DEF m, n, sent
  <2>2. Len(sent) = n + 2 /\ sent[n + 1] = m[n + 1] /\ n + 1 \in DOMAIN sent
    BY <1>1, <1>2, <1>3, <2>1, PromptedIs
  <2>3. Len(sent) = n + 2 /\ ShownIn(sent, n + 1, said)
    BY <1>3, <2>2 DEF ShownIn
  <2> QED
    BY <2>3 DEF m, n, sent
<1>5. CASE c.mode # "prompted"
  <2>1. sent = m
    BY <1>5 DEF json_request
  <2>2. n + 1 \in DOMAIN m
    BY <1>1, <1>2
  <2> QED
    BY <1>2, <1>3, <2>1, <2>2 DEF ShownIn
<1> QED
  BY <1>4, <1>5

(* What is asked at a retry shows what was said last.                      *)
LEMMA RetryShows ==
    ASSUME NEW c \in Clients, NEW s \in Seq(Responses), NEW i \in 1..Len(s) + 1, i # 1,
           NEW m \in Asks(c, s, i)
    PROVE  LET sent == json_request(c, m).messages
           IN  Len(sent) = Len(Original(c)) + 2 /\ ShownIn(sent, Len(Original(c)) + 1, s[i - 1])
<1>1. s[i - 1] \in Responses
  OBVIOUS
<1>2. PICK error \in Errors : m = Correction(c, s[i - 1], error)
  BY DEF Asks
<1> QED
  BY <1>1, <1>2, CorrectionSent

LEMMA OriginalSent ==
    ASSUME NEW c \in Clients
    PROVE  Len(json_request(c, Original(c)).messages) < Len(Original(c)) + 2
<1> DEFINE m == Original(c)
           sent == json_request(c, m).messages
<1>1. m \in Seq(Messages) /\ Len(m) \in Nat \ {0}
  BY OriginalIs
<1>2. CASE c.mode = "prompted"
  <2>1. sent = apply_prompted_json_mode(m)
    BY <1>2 DEF json_request
  <2> HIDE DEF m, sent
  <2>2. Len(sent) = Len(m) \/ Len(sent) = Len(m) + 1
    BY <1>1, <2>1, PromptedIs
  <2> QED
    BY <1>1, <2>2 DEF m, sent
<1>3. CASE c.mode # "prompted"
  <2>1. sent = m
    BY <1>3 DEF json_request
  <2> QED
    BY <1>1, <2>1
<1> QED
  BY <1>2, <1>3

(* Two requests of one call are the same only after the same answer.       *)
LEMMA RequestTells ==
    ASSUME NEW c \in Clients, NEW s \in Seq(Responses),
           NEW i \in 1..Len(s) + 1, NEW j \in 1..i - 1,
           NEW m \in Asks(c, s, j), NEW n \in Asks(c, s, i), json_request(c, m) = json_request(c, n)
    PROVE  j > 1 /\ s[j - 1].text = s[i - 1].text
<1>1. i # 1
  OBVIOUS
<1>2. LET sent == json_request(c, n).messages
      IN  Len(sent) = Len(Original(c)) + 2 /\ ShownIn(sent, Len(Original(c)) + 1, s[i - 1])
  BY <1>1, RetryShows
<1>3. j # 1
  <2>1. SUFFICES ASSUME j = 1 PROVE FALSE
    OBVIOUS
  <2>2. m = Original(c)
    BY <2>1 DEF Asks
  <2>3. Len(Original(c)) \in Nat
    BY OriginalIs
  <2> QED
    BY <1>2, <2>2, <2>3, OriginalSent
<1>4. j \in 1..Len(s) + 1
  OBVIOUS
<1>5. ShownIn(json_request(c, m).messages, Len(Original(c)) + 1, s[j - 1])
  BY <1>3, <1>4, RetryShows
<1> QED
  BY <1>2, <1>3, <1>4, <1>5 DEF ShownIn
-----------------------------------------------------------------------------
LEMMA AppendIs ==
    ASSUME NEW s \in Seq(Responses), NEW a \in Responses
    PROVE  /\ Append(s, a) \in Seq(Responses) /\ Len(s) \in Nat /\ Len(Append(s, a)) = Len(s) + 1
           /\ \A i \in 1..Len(s) : Append(s, a)[i] = s[i] /\ s[i] \in Responses
           /\ Append(s, a)[Len(s) + 1] = a /\ Last(Append(s, a)) = a
  BY DEF Last

LEMMA SaidIs ==
    ASSUME Typed, answers # <<>>
    PROVE  Said = answers[Len(answers)] /\ Said \in Responses /\ Len(answers) \in Nat \ {0}
  BY DEF Typed, Said, Last

(* A further answer leaves the entries and the served answers as they are. *)
Further == \/ answers' = answers
           \/ \E a \in Responses : answers' = Append(answers, a)

LEMMA FurtherIs ==
    ASSUME Typed, Further
    PROVE  /\ answers' \in Seq(Responses) /\ Len(answers) \in Nat /\ Len(answers') \in Nat
           /\ Len(answers) <= Len(answers')
           /\ \A k \in 1..Len(answers) : answers'[k] = answers[k]
<1>1. answers \in Seq(Responses) /\ Len(answers) \in Nat
  BY DEF Typed
<1>2. CASE answers' = answers
  BY <1>1, <1>2
<1>3. ASSUME NEW a \in Responses, answers' = Append(answers, a)
      PROVE  /\ answers' \in Seq(Responses) /\ Len(answers') \in Nat /\ Len(answers) <= Len(answers')
             /\ \A k \in 1..Len(answers) : answers'[k] = answers[k]
  BY <1>1, <1>3, AppendIs
<1> QED
  BY <1>1, <1>2, <1>3 DEF Further

LEMMA OwnKept ==
    ASSUME Typed, Further, client' = client, NEW entry, Own(entry)
    PROVE  Own(entry)'
<1>1. /\ answers \in Seq(Responses) /\ Len(answers) \in Nat /\ Len(answers') \in Nat
      /\ Len(answers) <= Len(answers') /\ \A i \in 1..Len(answers) : answers'[i] = answers[i]
  BY FurtherIs DEF Typed
<1>2. PICK j \in 1..Len(answers) :
        /\ entry.answer = answers[j]
        /\ \E m \in Asks(client, answers, j) : entry.request = json_request(client, m)
  BY DEF Own
<1>3. j \in 1..Len(answers') /\ j \in 1..Len(answers) + 1 /\ entry.answer = answers'[j]
  BY <1>1, <1>2
<1>4. Asks(client', answers', j) = Asks(client, answers, j)
  <2>1. CASE answers' = answers
    BY <2>1
  <2>2. ASSUME NEW a \in Responses, answers' = Append(answers, a)
        PROVE  Asks(client', answers', j) = Asks(client, answers, j)
    <3>1. Asks(client, Append(answers, a), j) = Asks(client, answers, j)
      BY <1>1, <1>3, AsksGrow
    <3> QED
      BY <2>2, <3>1
  <2> QED
    BY <2>1, <2>2 DEF Further
<1> QED
  BY <1>2, <1>3, <1>4 DEF Own

ServedAs(i) ==
    \/ \E entry \in held : entry.answer = answers[i] /\ Shows(entry.request, i)
    \/ \E j \in 1..i - 2 : answers[j].text = answers[i - 1].text /\ answers[j + 1] = answers[i]

LEMMA ServedKept ==
    ASSUME IInv, Further, client' = client, held \subseteq held', NEW i \in served
    PROVE  ServedAs(i)'
<1>1. /\ Len(answers) \in Nat /\ \A k \in 1..Len(answers) : answers'[k] = answers[k]
  BY FurtherIs DEF IInv
<1>2. i \in 1..Len(answers)
  BY DEF IInv, Typed
<1>3. answers'[i] = answers[i] /\ (i # 1 => answers'[i - 1] = answers[i - 1])
  BY <1>1, <1>2
<1>4. CASE \E entry \in held : entry.answer = answers[i] /\ Shows(entry.request, i)
  <2>1. PICK entry \in held : entry.answer = answers[i] /\ Shows(entry.request, i)
    BY <1>4
  <2>2. Shows(entry.request, i)'
    BY <1>3, <2>1 DEF Shows
  <2>3. entry \in held' /\ entry.answer = answers'[i]
    BY <1>3, <2>1
  <2> QED
    BY <2>2, <2>3 DEF ServedAs
<1>5. CASE \E j \in 1..i - 2 : answers[j].text = answers[i - 1].text /\ answers[j + 1] = answers[i]
  <2>1. PICK j \in 1..i - 2 : answers[j].text = answers[i - 1].text /\ answers[j + 1] = answers[i]
    BY <1>5
  <2>2. j \in 1..Len(answers) /\ j + 1 \in 1..Len(answers) /\ i # 1
    BY <1>1, <1>2, <2>1
  <2>3. answers'[j] = answers[j] /\ answers'[j + 1] = answers[j + 1]
    BY <1>1, <2>2
  <2>4. answers'[j].text = answers'[i - 1].text /\ answers'[j + 1] = answers'[i]
    BY <1>3, <2>1, <2>2, <2>3
  <2> QED
    BY <2>1, <2>4 DEF ServedAs
<1> QED
  BY <1>4, <1>5 DEF IInv, RepeatServed

(* What the cache holds is an answer.                                      *)
CachedIs(entry) == entry.answer \in Responses /\ (entry \in held \/ Own(entry))

LEMMA EntriesAre ==
    ASSUME IInv, NEW entry \in cache
    PROVE  CachedIs(entry)
<1>1. client \in Clients /\ held \subseteq Held(client) /\ answers \in Seq(Responses)
  BY DEF IInv, Typed
<1>2. entry \in held \/ Own(entry)
  BY DEF IInv, Remembered
<1>3. CASE entry \in held
  BY <1>1, <1>3 DEF CachedIs, Responses
<1>4. CASE Own(entry)
  <2>1. PICK j \in 1..Len(answers) : entry.answer = answers[j]
    BY <1>4 DEF Own
  <2> QED
    BY <1>1, <1>4, <2>1 DEF CachedIs
<1> QED
  BY <1>2, <1>3, <1>4

LEMMA AskKeeps ==
    ASSUME IInv, Ask
    PROVE  IInv'
<1>1. /\ client' = client /\ asked' = asked /\ cache' = cache /\ held' = held /\ outcome' = outcome
      /\ pc = "ask" /\ request' = json_request(client, asked)
      /\ client.retries >= 0 /\ ~endless_schema(client) /\ ~check_citation_mutex(client)
      /\ client \in Clients /\ client.retries \in Int /\ answers \in Seq(Responses) /\ Len(answers) \in Nat
  BY ClientIs DEF Ask, IInv, Typed
<1>2. Len(answers) <= client.retries
  BY <1>1 DEF IInv, Tries
<1>3. CASE client.caching /\ Cached(request') # {}
  <2>1. PICK entry \in Cached(request') : answers' = Append(answers, entry.answer)
    BY <1>3 DEF Ask
  <2>2. served' = served \cup {Len(answers')} /\ pc' = "read"
    BY <1>3 DEF Ask
  <2>3. entry \in cache /\ entry.request = json_request(client, asked)
    BY <1>1, <2>1 DEF Cached
  <2>4. CachedIs(entry)
    BY <2>3, EntriesAre
  <2> DEFINE a == entry.answer
             n == Len(answers) + 1
  <2>5. a \in Responses
    BY <2>4 DEF CachedIs
  <2>6. /\ answers' \in Seq(Responses) /\ Len(answers') = n /\ n \in Nat
        /\ (\A i \in 1..Len(answers) : answers'[i] = answers[i]) /\ answers'[n] = a
    BY <1>1, <2>1, <2>5, AppendIs
  <2>7. Typed'
    <3>1. served' = served \cup {n} /\ served \subseteq 1..Len(answers) /\ held \subseteq Held(client)
      BY <2>2, <2>6 DEF IInv, Typed
    <3>2. served' \subseteq 1..n
      <4>1. \A i \in 1..Len(answers) : i \in 1..n
        BY <1>1
      <4>2. n \in 1..n
        BY <1>1
      <4> HIDE DEF n
      <4> QED
        BY <3>1, <4>1, <4>2
    <3> QED
      BY <1>1, <2>2, <2>6, <3>1, <3>2 DEF Typed
  <2>8. Turn' /\ OutcomeJustified'
    BY <2>2 DEF Turn, OutcomeJustified
  <2>9. Remembered'
    <3>1. Further /\ Typed
      BY <2>1, <2>5 DEF Further, IInv
    <3> QED
      BY <1>1, <3>1, OwnKept DEF Remembered, IInv
  <2>10. Tries'
    BY <1>1, <1>2, <2>2, <2>6 DEF Tries, endless_schema, check_citation_mutex
  <2>11. Failed'
    <3>1. n - 1 = Len(answers)
      BY <1>1
    <3>2. client.validator \/ \A i \in 1..Len(answers) : ~Accepted(answers[i])
      BY <1>1 DEF IInv, Failed
    <3> QED
      BY <1>1, <2>2, <2>6, <3>1, <3>2 DEF Failed
  <2>12. RepeatServed'
    <3>0. PICK k : k = n
      OBVIOUS
    <3>1. /\ asked \in Asks(client, answers, k) /\ k \in 1..Len(answers) + 1 /\ k - 1 = Len(answers)
          /\ answers'[k] = a
      BY <1>1, <2>6, <3>0 DEF IInv, Turn
    <3>2. k # 1 => answers'[k - 1] = answers[k - 1]
      BY <1>1, <2>6, <3>0
    <3>3. ASSUME entry \in held PROVE ServedAs(k)'
      <4>0. entry \in held' /\ entry.answer = answers'[k]
        BY <1>1, <3>1, <3>3
      <4>1. CASE k = 1
        <5>1. asked = Original(client)
          BY <3>1, <4>1 DEF Asks
        <5>2. Shows(entry.request, k)'
          BY <1>1, <2>3, <4>1, <5>1 DEF Shows
        <5> QED
          BY <4>0, <5>2 DEF ServedAs
      <4>2. CASE k # 1
        <5>1. ShownIn(entry.request.messages, Len(Original(client)) + 1, answers[k - 1])
          BY <1>1, <2>3, <3>1, <4>2, RetryShows
        <5>2. Shows(entry.request, k)'
          BY <1>1, <3>2, <4>2, <5>1 DEF Shows, ShownIn
        <5> QED
          BY <4>0, <5>2 DEF ServedAs
      <4> QED
        BY <4>1, <4>2
    <3>4. ASSUME Own(entry) PROVE ServedAs(k)'
      <4>1. PICK j \in 1..Len(answers) :
              /\ entry.answer = answers[j]
              /\ \E m \in Asks(client, answers, j) : entry.request = json_request(client, m)
        BY <3>4 DEF Own
      <4>2. PICK m \in Asks(client, answers, j) : json_request(client, m) = json_request(client, asked)
        BY <2>3, <4>1
      <4>3. j > 1 /\ answers[j - 1].text = answers[k - 1].text
        <5>1. j \in 1..k - 1
          BY <1>1, <3>1, <4>1
        <5> QED
          BY <1>1, <3>1, <4>2, <5>1, RequestTells
      <4>4. /\ j - 1 \in 1..k - 2 /\ j - 1 \in 1..Len(answers) /\ k - 1 \in 1..Len(answers)
            /\ (j - 1) + 1 = j /\ j \in 1..Len(answers)
        BY <1>1, <3>1, <4>1, <4>3
      <4>5. answers'[j - 1].text = answers'[k - 1].text /\ answers'[(j - 1) + 1] = answers'[k]
        BY <2>6, <3>1, <4>1, <4>3, <4>4
      <4> QED
        BY <4>4, <4>5 DEF ServedAs
    <3>5. ServedAs(k)'
      BY <2>4, <3>3, <3>4 DEF CachedIs
    <3>6. Further
      BY <2>1, <2>5 DEF Further
    <3>7. \A i \in served : ServedAs(i)'
      BY <1>1, <3>6, ServedKept
    <3>8. \A i \in served' : i \in served \/ i = k
      BY <2>2, <2>6, <3>0
    <3>9. \A i \in served' : ServedAs(i)'
      BY <3>5, <3>7, <3>8
    <3> QED
      BY <3>9 DEF RepeatServed, ServedAs
  <2> QED
    BY <2>7, <2>8, <2>9, <2>10, <2>11, <2>12 DEF IInv
<1>4. CASE ~(client.caching /\ Cached(request') # {})
  <2>1. pc' = "sent" /\ answers' = answers /\ served' = served
    BY <1>4 DEF Ask
  <2>2. Typed' /\ Remembered' /\ RepeatServed'
    BY <1>1, <2>1 DEF IInv, Typed, Remembered, Own, RepeatServed, Shows
  <2>3. Turn' /\ OutcomeJustified'
    BY <1>1, <2>1 DEF IInv, Turn, OutcomeJustified
  <2>4. Tries' /\ Failed'
    BY <1>1, <1>2, <2>1 DEF IInv, Tries, Failed, endless_schema, check_citation_mutex
  <2> QED
    BY <2>2, <2>3, <2>4 DEF IInv
<1> QED
  BY <1>3, <1>4

LEMMA AnswerKeeps ==
    ASSUME IInv, Answer
    PROVE  IInv'
<1>1. /\ client' = client /\ asked' = asked /\ served' = served /\ held' = held /\ outcome' = outcome
      /\ pc = "sent" /\ pc' = "read" /\ request = json_request(client, asked)
      /\ client \in Clients /\ client.retries \in Int /\ answers \in Seq(Responses) /\ Len(answers) \in Nat
  BY ClientIs DEF Answer, IInv, Typed, Turn
<1>2. PICK answer \in Answers[client.retries], called \in (IF request.tool THEN BOOLEAN ELSE {FALSE}) :
        /\ answers' = Append(answers, Response(answer, called))
        /\ cache' = IF client.caching THEN Put([request |-> request, answer |-> Last(answers')]) ELSE cache
  BY DEF Answer
<1> DEFINE a == Response(answer, called)
           n == Len(answers) + 1
<1>3. a \in Responses
  <2>1. called \in BOOLEAN /\ answer \in UNION {Answers[c.retries] : c \in Clients}
    BY <1>1, <1>2
  <2> QED
    BY <2>1 DEF Responses
<1> HIDE DEF a
<1>4. /\ answers' \in Seq(Responses) /\ Len(answers') = n /\ n \in Nat /\ Last(answers') = a
      /\ (\A i \in 1..Len(answers) : answers'[i] = answers[i]) /\ answers'[n] = a
  BY <1>1, <1>2, <1>3, AppendIs DEF a
<1>5. Typed'
  BY <1>1, <1>4 DEF IInv, Typed
<1>6. Turn' /\ OutcomeJustified'
  BY <1>1 DEF Turn, OutcomeJustified
<1>12. Further /\ Typed
  BY <1>2, <1>3 DEF Further, IInv, a
<1>7. Remembered'
  <2>1. SUFFICES ASSUME NEW entry \in cache'
                 PROVE  (entry \in held \/ Own(entry))'
    BY DEF Remembered
  <2>2. CASE entry \in cache
    BY <1>1, <1>12, <2>2, OwnKept DEF IInv, Remembered
  <2>3. CASE entry \notin cache
    <3>1. entry = [request |-> request, answer |-> a]
      BY <1>2, <1>4, <2>1, <2>3 DEF Put
    <3>2. entry.answer = answers'[n] /\ entry.request = json_request(client', asked) /\ n \in 1..Len(answers')
      BY <1>1, <1>4, <3>1
    <3>3. n \in 1..Len(answers) + 1
      BY <1>1
    <3>4. asked \in Asks(client', answers', n)
      <4>1. asked \in Asks(client, answers, n)
        BY <1>1 DEF IInv, Turn
      <4>2. Asks(client, Append(answers, a), n) = Asks(client, answers, n)
        BY <1>1, <1>3, <3>3, AsksGrow
      <4> QED
        BY <1>1, <1>2, <4>1, <4>2 DEF a
    <3> QED
      BY <3>2, <3>4 DEF Own
  <2> QED
    BY <2>2, <2>3
<1>8. Tries'
  <2>1. Len(answers) <= client.retries
    BY <1>1 DEF IInv, Tries
  <2> QED
    BY <1>1, <1>4, <2>1 DEF IInv, Tries, endless_schema, check_citation_mutex
<1>9. Failed'
  <2>1. n - 1 = Len(answers)
    BY <1>1
  <2>2. client.validator \/ \A i \in 1..Len(answers) : ~Accepted(answers[i])
    BY <1>1 DEF IInv, Failed
  <2> QED
    BY <1>1, <1>4, <2>1, <2>2 DEF Failed
<1>10. RepeatServed'
  <2>1. \A i \in served : ServedAs(i)'
    BY <1>1, <1>12, ServedKept
  <2> QED
    BY <1>1, <2>1 DEF RepeatServed, ServedAs
<1> QED
  BY <1>5, <1>6, <1>7, <1>8, <1>9, <1>10 DEF IInv

(* The ways on from an answer.                                             *)
ReadIs ==
    \/ \E error \in Errors : TryAgain(error) /\ (client.validator \/ ~Accepted(Said))
    \/ \E kind \in {"returned", "transformed"} :
          /\ Accepted(Said) /\ Finish(kind, Reading(Said)) /\ UNCHANGED asked
          /\ kind = "transformed" => client.validator
    \/ client.validator /\ Reading(Said) # NoValue /\ Finish("escaped", NoValue) /\ UNCHANGED asked

LEMMA ReadSplit ==
    ASSUME Read
    PROVE  ReadIs
<1> DEFINE value == Reading(Said)
<1>1. \/ value = NoValue /\ TryAgain("no JSON")
      \/ value # NoValue /\ ~Valid(value) /\ TryAgain("invalid")
      \/ value # NoValue /\ Valid(value) /\ Finish("returned", value) /\ UNCHANGED asked
      \/ value # NoValue /\ Valid(value) /\ client.validator /\ TryAgain("refused")
      \/ value # NoValue /\ Valid(value) /\ client.validator /\ Finish("transformed", value) /\ UNCHANGED asked
      \/ value # NoValue /\ client.validator /\ Finish("escaped", NoValue) /\ UNCHANGED asked
  BY DEF Read
<1>2. Accepted(Said) <=> value # NoValue /\ Valid(value)
  BY DEF Accepted
<1> QED
  BY <1>1, <1>2 DEF ReadIs, Errors

LEMMA EndKeeps ==
    ASSUME IInv, pc = "read", pc' = "done", OutcomeJustified',
           UNCHANGED <<client, asked, request, answers, served, cache, held>>
    PROVE  IInv'
<1>1. Typed' /\ Turn' /\ Remembered' /\ RepeatServed' /\ Failed'
  BY DEF IInv, Typed, Turn, Remembered, Own, RepeatServed, Shows, Failed
<1>2. Tries'
  BY DEF IInv, Tries, endless_schema, check_citation_mutex
<1> QED
  BY <1>1, <1>2 DEF IInv

(* Another attempt, or its error.                                          *)
LEMMA TryAgainKeeps ==
    ASSUME IInv, pc = "read", NEW error \in Errors, TryAgain(error), client.validator \/ ~Accepted(Said),
           UNCHANGED <<client, request, answers, served, cache, held>>
    PROVE  IInv'
<1> DEFINE n == Len(answers)
<1>1. /\ client' = client /\ request' = request /\ answers' = answers /\ served' = served /\ cache' = cache
      /\ held' = held
      /\ client \in Clients /\ client.retries \in Int /\ answers \in Seq(Responses)
      /\ n \in Nat /\ n \in 1..client.retries + 1
  BY ClientIs DEF IInv, Typed, Tries
<1>2. Said = answers[n]
  BY DEF Said, Last
<1>3. client.validator \/ \A i \in 1..n : ~Accepted(answers[i])
  <2>1. client.validator \/ \A i \in 1..n - 1 : ~Accepted(answers[i])
    BY DEF IInv, Failed
  <2>2. \A i \in 1..n : i = n \/ i \in 1..n - 1
    BY <1>1
  <2> QED
    BY <1>2, <2>1, <2>2
<1>4. Remembered' /\ RepeatServed'
  BY <1>1 DEF IInv, Remembered, Own, RepeatServed, Shows
<1>5. CASE n <= client.retries
  <2>1. pc' = "ask" /\ asked' = Correction(client, answers[n], error)
    BY <1>2, <1>5 DEF TryAgain
  <2>2. Typed' /\ OutcomeJustified' /\ Failed'
    BY <1>1, <1>3, <2>1 DEF IInv, Typed, OutcomeJustified, Failed
  <2>3. Tries'
    BY <1>1, <1>5, <2>1 DEF IInv, Tries, endless_schema, check_citation_mutex
  <2>4. Turn'
    <3>1. n + 1 # 1 /\ (n + 1) - 1 = n
      BY <1>1
    <3>2. asked' \in Asks(client, answers, n + 1)
      BY <2>1, <3>1 DEF Asks
    <3> QED
      BY <1>1, <2>1, <3>2 DEF Turn
  <2> QED
    BY <1>4, <2>2, <2>3, <2>4 DEF IInv
<1>6. CASE ~(n <= client.retries)
  <2>1. pc' = "done" /\ outcome' = [kind |-> error, value |-> NoValue]
    BY <1>6 DEF TryAgain, Finish
  <2>2. n = client.retries + 1
    BY <1>1, <1>6
  <2>3. Typed' /\ Turn' /\ Failed'
    BY <1>1, <2>1 DEF IInv, Typed, Turn, Failed
  <2>4. Tries'
    BY <1>1, <2>1 DEF IInv, Tries, endless_schema, check_citation_mutex
  <2>5. OutcomeJustified'
    <3>1. outcome'.kind \notin {"returned", "transformed", "escaped", "raised", "RuntimeError", "RecursionError", "citations"}
      BY <2>1 DEF Errors
    <3>2. DOMAIN answers = 1..n
      BY <1>1
    <3> QED
      BY <1>1, <1>3, <2>2, <3>1, <3>2 DEF OutcomeJustified
  <2> QED
    BY <1>4, <2>3, <2>4, <2>5 DEF IInv
<1> QED
  BY <1>5, <1>6

LEMMA ReadKeeps ==
    ASSUME IInv, Read
    PROVE  IInv'
<1>1. pc = "read" /\ UNCHANGED <<client, request, answers, served, cache, held>> /\ ReadIs
  BY ReadSplit DEF Read
<1>2. CASE \E error \in Errors : TryAgain(error) /\ (client.validator \/ ~Accepted(Said))
  BY <1>1, <1>2, TryAgainKeeps
<1>3. CASE \E kind \in {"returned", "transformed"} :
              /\ Accepted(Said) /\ Finish(kind, Reading(Said)) /\ UNCHANGED asked
              /\ kind = "transformed" => client.validator
  <2>1. PICK kind \in {"returned", "transformed"} :
              /\ Accepted(Said) /\ Finish(kind, Reading(Said)) /\ UNCHANGED asked
              /\ kind = "transformed" => client.validator
    BY <1>3
  <2>2. outcome'.kind = kind /\ outcome'.value = Reading(Said)' /\ Accepted(Said)'
    BY <1>1, <2>1 DEF Finish, Said
  <2>3. client.validator \/ \A i \in 1..Len(answers) - 1 : ~Accepted(answers[i])
    BY <1>1 DEF IInv, Failed
  <2>4. OutcomeJustified'
    BY <1>1, <2>1, <2>2, <2>3 DEF OutcomeJustified
  <2> QED
    BY <1>1, <2>1, <2>4, EndKeeps DEF Finish
<1>4. CASE client.validator /\ Reading(Said) # NoValue /\ Finish("escaped", NoValue) /\ UNCHANGED asked
  <2>1. outcome'.kind = "escaped" /\ (Reading(Said) # NoValue)' /\ client'.validator
    BY <1>1, <1>4 DEF Finish, Said
  <2>2. (Len(answers) \in 1..client.retries + 1)'
    BY <1>1 DEF IInv, Tries
  <2>3. OutcomeJustified'
    BY <2>1, <2>2 DEF OutcomeJustified
  <2> QED
    BY <1>1, <1>4, <2>3, EndKeeps DEF Finish
<1> QED
  BY <1>1, <1>2, <1>3, <1>4 DEF ReadIs

(* Others write to the cache, and to nothing else.                         *)
LEMMA ElsewhereKeeps ==
    ASSUME IInv, Elsewhere
    PROVE  IInv'
<1>1. /\ client' = client /\ pc' = pc /\ asked' = asked /\ request' = request
      /\ answers' = answers /\ served' = served /\ outcome' = outcome
      /\ held \subseteq held' /\ (held \subseteq Held(client) => held' \subseteq Held(client))
      /\ \A entry \in cache' : entry \in cache \/ entry \in held'
  BY DEF Elsewhere, Put
<1>2. Typed' /\ Turn' /\ Tries' /\ Failed' /\ OutcomeJustified'
  BY <1>1 DEF IInv, Typed, Turn, Tries, Failed, OutcomeJustified, Said, endless_schema, check_citation_mutex
<1>3. Further /\ Typed
  BY <1>1 DEF Further, IInv
<1>4. Remembered'
  BY <1>1, <1>3, OwnKept DEF IInv, Remembered
<1>5. RepeatServed'
  <2>1. \A i \in served : ServedAs(i)'
    BY <1>1, <1>3, ServedKept
  <2> QED
    BY <1>1, <2>1 DEF RepeatServed, ServedAs
<1> QED
  BY <1>2, <1>4, <1>5 DEF IInv

LEMMA Start ==
    ASSUME Init
    PROVE  IInv
<1>1. /\ client \in Clients /\ pc = "ask" /\ asked = Original(client) /\ answers = <<>> /\ Len(answers) = 0
      /\ served = {} /\ cache = held /\ held \subseteq Held(client) /\ answers \in Seq(Responses)
  BY DEF Init
<1>2. Typed /\ Remembered /\ RepeatServed /\ OutcomeJustified
  BY <1>1 DEF Typed, Remembered, RepeatServed, OutcomeJustified
<1>3. Turn /\ Tries /\ Failed
  BY <1>1 DEF Turn, Tries, Failed, Asks
<1> QED
  BY <1>2, <1>3 DEF IInv

LEMMA Step ==
    ASSUME IInv, [Next]_vars
    PROVE  IInv'
<1>1. CASE Ask
  BY <1>1, AskKeeps
<1>2. CASE AskNothing
  <2>1. /\ pc = "ask" /\ pc' = "done" /\ client' = client /\ asked' = asked /\ request' = request
        /\ answers' = answers /\ served' = served /\ cache' = cache /\ held' = held
        /\ client.retries \in Int /\ client \in Clients
    BY <1>2, ClientIs DEF AskNothing, Finish, IInv, Typed
  <2>2. \/ outcome'.kind = "RuntimeError" /\ client.retries < 0
        \/ outcome'.kind = "RecursionError" /\ client.retries >= 0 /\ endless_schema(client)
        \/ outcome'.kind = "citations" /\ client.retries >= 0 /\ check_citation_mutex(client)
    BY <1>2 DEF AskNothing, Finish
  <2>3. answers = <<>>
    BY <2>1, <2>2 DEF IInv, Tries
  <2>4. client.mode = "native" \/ outcome'.kind = "RuntimeError"
    BY <2>2 DEF endless_schema, check_citation_mutex
  <2>5. OutcomeJustified'
    BY <2>1, <2>2, <2>3, <2>4 DEF OutcomeJustified
  <2>6. Typed' /\ Turn' /\ Remembered' /\ RepeatServed' /\ Failed'
    BY <2>1 DEF IInv, Typed, Turn, Remembered, Own, RepeatServed, Shows, Failed
  <2>7. Tries'
    BY <2>1, <2>3 DEF Tries
  <2> QED
    BY <2>5, <2>6, <2>7 DEF IInv
<1>3. CASE Answer
  BY <1>3, AnswerKeeps
<1>4. CASE Raise
  <2>1. /\ pc = "sent" /\ pc' = "done" /\ client' = client /\ asked' = asked /\ request' = request
        /\ answers' = answers /\ served' = served /\ cache' = cache /\ held' = held /\ outcome'.kind = "raised"
    BY <1>4 DEF Raise, Finish
  <2>2. OutcomeJustified'
    BY <2>1 DEF IInv, Tries, OutcomeJustified
  <2>3. Typed' /\ Turn' /\ Remembered' /\ RepeatServed' /\ Failed'
    BY <2>1 DEF IInv, Typed, Turn, Remembered, Own, RepeatServed, Shows, Failed
  <2>4. Tries'
    BY <2>1 DEF IInv, Tries, endless_schema, check_citation_mutex
  <2> QED
    BY <2>2, <2>3, <2>4 DEF IInv
<1>5. CASE Read
  BY <1>5, ReadKeeps
<1>6. CASE Elsewhere
  BY <1>6, ElsewhereKeeps
<1>7. CASE UNCHANGED vars
  BY <1>7 DEF vars, IInv, Typed, Turn, Remembered, Own, Tries, Failed, RepeatServed, Shows, OutcomeJustified, Said,
     endless_schema, check_citation_mutex
<1> QED
  BY <1>1, <1>2, <1>3, <1>4, <1>5, <1>6, <1>7 DEF Next

(* What is sent holds an instruction in prompt mode, at its end, and in no *)
(* other mode.                                                             *)
LEMMA Instructed ==
    ASSUME IInv, pc = "sent"
    PROVE  LET m == request.messages
           IN  IF client.mode = "prompted"
               THEN /\ \E i \in DOMAIN m : m[i].instructed
                    /\ \A i \in DOMAIN m : m[i].instructed => i = Len(m)
               ELSE \A i \in DOMAIN m : ~m[i].instructed
<1> DEFINE m == request.messages
<1>1. client \in Clients /\ answers \in Seq(Responses) /\ Len(answers) + 1 \in 1..Len(answers) + 1
  BY DEF IInv, Typed
<1>2. asked \in Seq(Messages) /\ Len(asked) \in Nat \ {0}
  BY <1>1, AsksAre DEF IInv, Turn
<1>3. m = IF client.mode = "prompted" THEN apply_prompted_json_mode(asked) ELSE asked
  BY DEF IInv, Turn, json_request
<1> HIDE DEF m
<1>4. CASE client.mode = "prompted"
  <2>1. /\ Len(m) \in Nat /\ DOMAIN m = 1..Len(m) /\ Len(m) > 0
        /\ \A i \in 1..Len(m) : m[i].instructed <=> i = Len(m)
    BY <1>2, <1>3, <1>4, PromptedIs
  <2>2. Len(m) \in DOMAIN m
    <3>1. \A n \in Nat : n > 0 => n \in 1..n
      OBVIOUS
    <3> QED
      BY <2>1, <3>1
  <2> QED
    BY <1>4, <2>1, <2>2 DEF m
<1>5. CASE client.mode # "prompted"
  <2>1. \A i \in DOMAIN m : m[i] \in Messages
    BY <1>2, <1>3, <1>5
  <2>2. \A i \in DOMAIN m : m[i].instructed = FALSE
    BY <2>1 DEF Messages
  <2> QED
    BY <1>5, <2>2 DEF m
<1> QED
  BY <1>4, <1>5

LEMMA IsAsked ==
    ASSUME IInv
    PROVE  SchemaAsked
<1> SUFFICES ASSUME pc = "sent"
             PROVE  /\ Cardinality(Ways) = IF client.mode = "native" /\ client.family \in {"compat", "other"}
                                           THEN 0 ELSE 1
                    /\ \A i \in DOMAIN request.messages :
                           request.messages[i].instructed => i = Len(request.messages)
  BY DEF SchemaAsked
<1>1. /\ client.mode \in {"native", "tool", "prompted"}
      /\ client.family \in {"openai", "compat", "anthropic", "google", "other"}
  BY ClientIs DEF IInv, Typed
<1>2. /\ request.native = IF client.mode = "native" THEN apply_native_json_mode(client.family) ELSE "absent"
      /\ request.tool = (client.mode = "tool")
  <2>1. request = json_request(client, asked)
    BY DEF IInv, Turn
  <2> QED
    BY <2>1, Zenon DEF json_request
<1>3. (\E i \in DOMAIN request.messages : request.messages[i].instructed) <=> client.mode = "prompted"
  BY Instructed
<1>4. /\ "native" \in Ways <=> client.mode = "native" /\ client.family \in {"openai", "anthropic", "google"}
      /\ "tool" \in Ways <=> client.mode = "tool"
      /\ "prompt" \in Ways <=> client.mode = "prompted"
      /\ Ways \subseteq {"native", "tool", "prompt"}
  BY <1>1, <1>2, <1>3 DEF Ways, apply_native_json_mode
<1>5. Cardinality(Ways) = IF client.mode = "native" /\ client.family \in {"compat", "other"} THEN 0 ELSE 1
  <2>1. CASE client.mode = "native" /\ client.family \in {"compat", "other"}
    <3>1. Ways = {}
      BY <1>4, <2>1
    <3> QED
      BY <2>1, <3>1, FS_EmptySet
  <2>2. CASE ~(client.mode = "native" /\ client.family \in {"compat", "other"})
    <3>1. Ways = {"native"} \/ Ways = {"tool"} \/ Ways = {"prompt"}
      BY <1>1, <1>4, <2>2
    <3>2. \A w : Cardinality({w}) = 1
      BY FS_Singleton
    <3> QED
      BY <2>2, <3>1, <3>2
  <2> QED
    BY <2>1, <2>2
<1>6. \A i \in DOMAIN request.messages : request.messages[i].instructed => i = Len(request.messages)
  BY Instructed
<1> QED
  BY <1>5, <1>6
-----------------------------------------------------------------------------
(* Every entry of the cache is one that others left there, before the call *)
(* or during it, or an answer of this call to what was asked for it; and   *)
(* attempts are counted as range(max_validation_retries + 1) does.         *)
THEOREM Invariance == Spec => []IInv
<1>1. Init => IInv
  BY Start
<1>2. IInv /\ [Next]_vars => IInv'
  BY Step
<1>3. QED
  BY <1>1, <1>2, PTL DEF Spec

(* An attempt is answered by the cache only with what others hold for its  *)
(* conversation, up to what the model said last, or where the model has    *)
(* said before in this call what it said last.                             *)
THEOREM RepeatsOnly == Spec => []RepeatServed
<1>1. IInv => RepeatServed
  BY DEF IInv
<1>2. QED
  BY <1>1, Invariance, PTL

(* The schema goes out with every request, by one way, or by none where    *)
(* the provider has none.                                                  *)
THEOREM AlwaysAsked == Spec => []SchemaAsked
<1>1. IInv => SchemaAsked
  BY IsAsked
<1>2. QED
  BY <1>1, Invariance, PTL

(* The caller is told what the answers and the validators justify, after   *)
(* as many attempts as were asked for and no more.                         *)
THEOREM OutcomesJustified == Spec => []OutcomeJustified
<1>1. IInv => OutcomeJustified
  BY DEF IInv
<1>2. QED
  BY <1>1, Invariance, PTL
-----------------------------------------------------------------------------
(* Refinement.  No outcome is known while the call runs.                   *)
Undecided == pc # "done" => outcome.kind = "none"

LEMMA Unsettled == Spec => []Undecided
<1>1. Init => Undecided
  BY DEF Init, Undecided, NoOutcome
<1>2. Undecided /\ [Next]_vars => Undecided'
  <2> SUFFICES ASSUME Undecided, [Next]_vars PROVE Undecided'
    OBVIOUS
  <2>1. CASE Ask \/ Answer
    BY <2>1 DEF Undecided, Ask, Answer
  <2>2. CASE AskNothing \/ Raise
    BY <2>2 DEF Undecided, AskNothing, Raise, Finish
  <2>3. CASE Read
    BY <2>3 DEF Undecided, Read, TryAgain, Finish
  <2>4. CASE Elsewhere \/ UNCHANGED vars
    BY <2>4 DEF vars, Undecided, Elsewhere
  <2> QED
    BY <2>1, <2>2, <2>3, <2>4 DEF Next
<1>3. QED
  BY <1>1, <1>2, PTL DEF Spec

LEMMA InitRefines == Init => Contract!Init
<1> SUFFICES ASSUME Init PROVE Contract!Init
  OBVIOUS
<1>1. client.retries \in Int
  BY ClientIs DEF Init
<1>2. Budget \in Nat
  BY <1>1 DEF Budget
<1>3. Phase = "ready" /\ Sent = 0 /\ Verdict = "none" /\ Outcome = "none"
  BY DEF Init, NoOutcome, Phase, Sent, Verdict, Outcome
<1>4. QED
  BY <1>2, <1>3 DEF Contract!Init

(* The mapped state of a call that still runs.                             *)
LEMMA WhileRunning ==
    ASSUME IInv, Undecided, pc # "done"
    PROVE  /\ client \in Clients /\ client.retries \in Int
           /\ answers \in Seq(Responses) /\ Len(answers) \in Nat
           /\ outcome.kind = "none" /\ Outcome = "none"
           /\ Sent = IF pc = "sent" THEN Len(answers) + 1 ELSE Len(answers)
           /\ Phase = IF pc = "ask" THEN "ready" ELSE "inflight"
           /\ pc # "ask" => Verdict = "none"
<1>1. /\ client \in Clients /\ client.retries \in Int /\ pc \in {"ask", "sent", "read", "done"}
      /\ answers \in Seq(Responses) /\ Len(answers) \in Nat /\ outcome.kind = "none"
  BY ClientIs, LenProperties DEF IInv, Typed, Undecided
<1>2. QED
  BY <1>1 DEF Outcome, Sent, Phase, Verdict

(* A request, whether the model or the cache answers it.                   *)
LEMMA AskRefines ==
    ASSUME IInv, Undecided, Ask
    PROVE  Contract!Send
<1>1. /\ pc = "ask" /\ client' = client /\ outcome' = outcome /\ client.retries >= 0
  BY DEF Ask
<1>2. /\ client.retries \in Int /\ answers \in Seq(Responses) /\ Len(answers) \in Nat
      /\ outcome.kind = "none" /\ Sent = Len(answers) /\ Phase = "ready"
  BY <1>1, WhileRunning
<1>3. \/ pc' = "sent" /\ answers' = answers
      \/ pc' = "read" /\ Len(answers') = Len(answers) + 1
  <2>1. CASE client.caching /\ Cached(request') # {}
    <3>1. PICK entry \in cache : answers' = Append(answers, entry.answer) /\ pc' = "read"
      BY <2>1 DEF Ask, Cached
    <3>2. entry.answer \in Responses
      BY EntriesAre DEF CachedIs
    <3> QED
      BY <1>2, <3>1, <3>2, AppendIs
  <2>2. CASE ~(client.caching /\ Cached(request') # {})
    BY <2>2 DEF Ask
  <2> QED
    BY <2>1, <2>2
<1>4. Sent' = Sent + 1 /\ Verdict' = "none" /\ Phase' = "inflight" /\ Outcome' = Outcome
  BY <1>1, <1>2, <1>3 DEF Sent, Verdict, Phase, Outcome
<1>5. Budget' = Budget /\ Sent < Budget
  <2>1. Len(answers) <= client.retries
    BY <1>1, <1>2 DEF IInv, Tries
  <2> QED
    BY <1>1, <1>2, <2>1 DEF Budget
<1>6. Verdict \in {"none", "transient"}
  <2>1. CASE answers = <<>>
    BY <1>1, <1>2, <2>1 DEF Verdict
  <2>2. CASE answers # <<>>
    <3>1. Said = answers[Len(answers)] /\ Len(answers) \in Nat \ {0}
      BY <2>2, SaidIs DEF IInv
    <3>2. client.validator \/ ~Accepted(Said)
      BY <1>1, <3>1 DEF IInv, Failed
    <3> QED
      BY <1>1, <1>2, <2>2, <3>2 DEF Verdict
  <2> QED
    BY <2>1, <2>2
<1>7. QED
  BY <1>2, <1>4, <1>5, <1>6 DEF Contract!Send

LEMMA AskNothingRefines ==
    ASSUME IInv, Undecided, AskNothing
    PROVE  Contract!GiveUp
<1>1. /\ pc = "ask" /\ pc' = "done" /\ client' = client /\ answers' = answers
      /\ outcome'.kind \in {"RuntimeError", "RecursionError", "citations"}
  BY DEF AskNothing, Finish
<1>2. answers = <<>>
  <2>1. \/ client.retries < 0
        \/ endless_schema(client)
        \/ check_citation_mutex(client)
    BY DEF AskNothing
  <2>2. client.retries \in Int
    BY <1>1, WhileRunning
  <2> QED
    BY <2>1, <2>2 DEF IInv, Tries
<1>3. outcome.kind = "none" /\ Sent = Len(answers) /\ Phase = "ready"
  BY <1>1, WhileRunning
<1>4. Budget' = Budget /\ Sent' = Sent
  BY <1>1, <1>3 DEF Budget, Sent
<1>5. Verdict' = Verdict
  BY <1>1, <1>2, <1>3 DEF Verdict
<1>6. Phase' = "settled" /\ Outcome' = "error"
  BY <1>1 DEF Phase, Outcome
<1>7. QED
  BY <1>3, <1>4, <1>5, <1>6 DEF Contract!GiveUp

LEMMA AnswerRefines ==
    ASSUME IInv, Undecided, Answer
    PROVE  UNCHANGED Contract!vars
<1>1. pc = "sent" /\ pc' = "read" /\ client' = client /\ outcome' = outcome
  BY DEF Answer
<1>2. /\ client \in Clients /\ answers \in Seq(Responses) /\ Len(answers) \in Nat
      /\ outcome.kind = "none" /\ Sent = Len(answers) + 1 /\ Phase = "inflight" /\ Verdict = "none"
  BY <1>1, WhileRunning
<1>3. Len(answers') = Len(answers) + 1
  <2>1. PICK answer \in Answers[client.retries], called \in BOOLEAN :
          answers' = Append(answers, Response(answer, called))
    BY DEF Answer
  <2>2. Response(answer, called) \in Responses
    BY <1>2, <2>1 DEF Responses
  <2> QED
    BY <1>2, <2>1, <2>2, AppendIs
<1>4. Sent' = Sent /\ Phase' = Phase /\ Verdict' = Verdict
  BY <1>1, <1>2, <1>3 DEF Sent, Phase, Verdict
<1>5. Budget' = Budget /\ Outcome' = Outcome
  BY <1>1 DEF Budget, Outcome
<1>6. QED
  BY <1>4, <1>5 DEF Contract!vars

LEMMA RaiseRefines ==
    ASSUME IInv, Undecided, Raise
    PROVE  Contract!Refuse("fatal")
<1>1. /\ pc = "sent" /\ pc' = "done" /\ client' = client /\ answers' = answers /\ outcome'.kind = "raised"
  BY DEF Raise, Finish
<1>2. Sent = Len(answers) + 1 /\ Phase = "inflight"
  BY <1>1, WhileRunning
<1>3. Sent' = Sent /\ Budget' = Budget /\ Verdict' = "fatal" /\ Phase' = "settled" /\ Outcome' = "error"
  BY <1>1, <1>2 DEF Sent, Budget, Verdict, Phase, Outcome
<1>4. QED
  BY <1>2, <1>3 DEF Contract!Refuse

(* An accepted answer is the value; after any other there is another       *)
(* attempt, or its error; and a validator may fail.                        *)
LEMMA ReadRefines ==
    ASSUME IInv, Undecided, Read
    PROVE  Contract!Accept \/ Contract!Refuse("transient") \/ Contract!Refuse("fatal")
<1>1. pc = "read" /\ client' = client /\ answers' = answers /\ Said' = Said /\ ReadIs
  BY ReadSplit DEF Read, Said
<1>2. outcome.kind = "none" /\ Sent = Len(answers) /\ Phase = "inflight" /\ Outcome = "none"
  BY <1>1, WhileRunning
<1>3. answers # <<>>
  <2>1. Len(answers) # 0
    BY <1>1, WhileRunning DEF IInv, Tries
  <2> QED
    BY <2>1
<1>4. ASSUME NEW kind \in {"returned", "transformed"}, Accepted(Said), Finish(kind, Reading(Said))
      PROVE  Contract!Accept
  <2>1. pc' = "done" /\ outcome'.kind = kind /\ Accepted(Said)
    BY <1>4 DEF Finish
  <2>2. Verdict' = "good"
    BY <1>1, <1>3, <2>1 DEF Verdict
  <2>3. Sent' = Sent /\ Budget' = Budget /\ Phase' = "settled" /\ Outcome' = "value"
    BY <1>1, <1>2, <2>1 DEF Sent, Budget, Phase, Outcome
  <2> QED
    BY <1>2, <2>2, <2>3 DEF Contract!Accept
<1>5. ASSUME NEW error \in Errors, TryAgain(error), client.validator \/ ~Accepted(Said)
      PROVE  Contract!Refuse("transient")
  <2>1. \/ pc' = "ask" /\ outcome' = outcome
        \/ pc' = "done" /\ outcome'.kind = error
    BY <1>5 DEF TryAgain, Finish
  <2>2. pc' \in {"ask", "done"} /\ outcome'.kind \notin {"returned", "transformed", "raised", "escaped"}
    BY <1>2, <2>1 DEF Errors
  <2>3. Verdict' = "transient"
    BY <1>1, <1>3, <1>5, <2>2 DEF Verdict
  <2>4. \/ Phase' = "ready" /\ Outcome' = Outcome
        \/ Phase' = "settled" /\ Outcome' = "error"
    BY <2>1 DEF Phase, Outcome, Errors
  <2>5. Sent' = Sent /\ Budget' = Budget
    BY <1>1, <1>2, <2>2 DEF Sent, Budget
  <2> QED
    BY <1>2, <2>3, <2>4, <2>5 DEF Contract!Refuse
<1>6. CASE Finish("escaped", NoValue)
  <2>1. pc' = "done" /\ outcome'.kind = "escaped"
    BY <1>6 DEF Finish
  <2>2. Verdict' = "fatal"
    BY <2>1 DEF Verdict
  <2>3. Sent' = Sent /\ Budget' = Budget /\ Phase' = "settled" /\ Outcome' = "error"
    BY <1>1, <1>2, <2>1 DEF Sent, Budget, Phase, Outcome
  <2> QED
    BY <1>2, <2>2, <2>3 DEF Contract!Refuse
<1>7. QED
  BY <1>1, <1>4, <1>5, <1>6 DEF ReadIs

LEMMA ElsewhereRefines ==
    ASSUME Elsewhere
    PROVE  UNCHANGED Contract!vars
<1>1. client' = client /\ pc' = pc /\ answers' = answers /\ outcome' = outcome
  BY DEF Elsewhere
<1>2. QED
  BY <1>1 DEF Contract!vars, Budget, Sent, Phase, Verdict, Outcome, Said

(* A call for structured output is a bounded call: it asks at most         *)
(* max_validation_retries + 1 times, again only after an answer that would *)
(* not do, and an accepted answer is its value.                            *)
THEOREM Refinement == Spec => ImplementsContract
<1>1. IInv /\ Undecided /\ [Next]_vars => [Contract!Next]_Contract!vars
  <2> SUFFICES ASSUME IInv, Undecided, [Next]_vars PROVE [Contract!Next]_Contract!vars
    OBVIOUS
  <2>1. CASE Ask
    BY <2>1, AskRefines DEF Contract!Next
  <2>2. CASE AskNothing
    BY <2>2, AskNothingRefines DEF Contract!Next
  <2>3. CASE Answer
    BY <2>3, AnswerRefines
  <2>4. CASE Raise
    BY <2>4, RaiseRefines DEF Contract!Next
  <2>5. CASE Read
    BY <2>5, ReadRefines DEF Contract!Next
  <2>6. CASE Elsewhere
    BY <2>6, ElsewhereRefines
  <2>7. CASE UNCHANGED vars
    BY <2>7 DEF vars, Contract!vars, Budget, Sent, Phase, Verdict, Outcome, Said
  <2> QED
    BY <2>1, <2>2, <2>3, <2>4, <2>5, <2>6, <2>7 DEF Next
<1>2. QED
  BY <1>1, InitRefines, Invariance, Unsettled, PTL DEF Spec, ImplementsContract, Contract!Spec
-----------------------------------------------------------------------------
(***************************************************************************)
(* Termination.  Variant counts the steps still to come: three for each    *)
(* attempt left, fewer the further the current one has come.  What others  *)
(* write to the cache takes none of them.                                  *)
(***************************************************************************)
Left == IF Len(answers) <= client.retries THEN client.retries + 1 - Len(answers) ELSE 0

Variant ==
    CASE pc = "ask"  -> 3 * Left + 1
      [] pc = "sent" -> 3 * Left
      [] pc = "read" -> 3 * Left + 2
      [] pc = "done" -> 0

LEMMA VariantIsNat == IInv => Variant \in Nat
<1> SUFFICES ASSUME IInv PROVE Variant \in Nat
  OBVIOUS
<1>1. client.retries \in Int /\ Len(answers) \in Nat /\ pc \in {"ask", "sent", "read", "done"}
  BY ClientIs, LenProperties DEF IInv, Typed
<1>2. Left \in Nat
  BY <1>1 DEF Left
<1> QED
  BY <1>1, <1>2 DEF Variant

Falls == Variant' < Variant \/ (Elsewhere /\ Variant' = Variant)

LEMMA VariantFalls == IInv /\ Undecided /\ Next => Falls
<1> SUFFICES ASSUME IInv, Undecided, Next PROVE Variant' < Variant \/ (Elsewhere /\ Variant' = Variant)
  BY DEF Falls
<1>1. client.retries \in Int /\ Len(answers) \in Nat
  BY ClientIs, LenProperties DEF IInv, Typed
<1>2. Left \in Nat
  BY <1>1 DEF Left
<1>3. CASE Ask
  <2>1. pc = "ask" /\ client' = client /\ Sent' = Sent + 1 /\ Sent = Len(answers) /\ outcome'.kind = "none"
        /\ pc' \in {"sent", "read"}
    BY <1>3, AskRefines, WhileRunning DEF Ask, Contract!Send
  <2>2. Len(answers) <= client.retries
    BY <1>1, <1>3, <2>1 DEF IInv, Tries, Ask
  <2>3. CASE pc' = "sent"
    <3>1. answers' = answers
      BY <1>3, <2>3 DEF Ask
    <3>2. Left' = Left
      BY <2>1, <3>1 DEF Left
    <3> QED
      BY <1>2, <2>1, <2>3, <3>2 DEF Variant
  <2>4. CASE pc' = "read"
    <3>1. Len(answers') = Len(answers) + 1
      BY <2>1, <2>4 DEF Sent
    <3>2. Left' = Left - 1
      BY <1>1, <2>1, <2>2, <3>1 DEF Left
    <3>3. Variant' = 3 * (Left - 1) + 2 /\ Variant = 3 * Left + 1
      BY <2>1, <2>4, <3>2 DEF Variant
    <3> QED
      BY <1>2, <3>3
  <2> QED
    BY <2>1, <2>3, <2>4
<1>4. CASE Answer
  <2>1. /\ pc = "sent" /\ pc' = "read" /\ client' = client /\ outcome' = outcome
        /\ Sent' = Sent /\ Sent = Len(answers) + 1 /\ outcome.kind = "none"
    BY <1>4, AnswerRefines, WhileRunning DEF Answer, Contract!vars
  <2>2. Len(answers') = Len(answers) + 1
    BY <2>1 DEF Sent
  <2>3. Len(answers) <= client.retries
    BY <2>1 DEF IInv, Tries
  <2>4. Left' = Left - 1
    BY <1>1, <2>1, <2>2, <2>3 DEF Left
  <2>5. Variant' = 3 * (Left - 1) + 2 /\ Variant = 3 * Left
    BY <2>1, <2>4 DEF Variant
  <2> QED
    BY <1>2, <2>5
<1>5. CASE AskNothing \/ Raise
  <2>1. pc \in {"ask", "sent"} /\ pc' = "done"
    BY <1>5 DEF AskNothing, Raise, Finish
  <2>2. pc = "sent" => Left >= 1
    BY <1>1 DEF IInv, Tries, Left
  <2> QED
    BY <1>2, <2>1, <2>2 DEF Variant
<1>6. CASE Read
  <2>1. pc = "read" /\ pc' \in {"ask", "done"} /\ client' = client /\ answers' = answers
    BY <1>6 DEF Read, TryAgain, Finish
  <2>2. Left' = Left
    BY <2>1 DEF Left
  <2> QED
    BY <1>2, <2>1, <2>2 DEF Variant
<1>7. CASE Elsewhere
  BY <1>7 DEF Elsewhere, Variant, Left
<1>8. QED
  BY <1>3, <1>4, <1>5, <1>6, <1>7 DEF Next

(* The loop cannot run for ever: every step of its own leaves fewer to     *)
(* come, so that a call takes at most 3 * (max_validation_retries + 1) + 1 *)
(* of them, whatever the model answers, however the validator judges, and  *)
(* whatever others write to the cache meanwhile.                           *)
THEOREM StepsRunOut == Spec => [](Variant \in Nat) /\ [][Falls]_vars
<1>1. IInv /\ Undecided /\ [Next]_vars => [Falls]_vars
  BY VariantFalls
<1>2. QED
  BY <1>1, VariantIsNat, Invariance, Unsettled, PTL DEF Spec
=============================================================================

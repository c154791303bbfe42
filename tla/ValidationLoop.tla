----------------------------- MODULE ValidationLoop -----------------------------
(***************************************************************************)
(* One call of pydantic_async (providers/base.py), and with it json_async: *)
(* the model is asked for an answer to a schema, a JSON value is read out  *)
(* of the answer, validated, and shown to the caller's validator; after a  *)
(* failure the model is asked again with its answer and the error.  Each   *)
(* request goes through request_async, whose cache may answer it.  The     *)
(* cache is a directory: it holds what earlier calls left, of this program *)
(* or another, and others write to it while the call runs.                 *)
(*                                                                         *)
(* How a value is read out of an answer, when it is valid, and what        *)
(* becomes of a schema are constants here, which StructuredOutput defines. *)
(***************************************************************************)
EXTENDS Integers, FiniteSets, Sequences, SequencesExt

CONSTANTS
    Clients,       \* the calls: see ClientsAssumption
    Answers,       \* what a model may answer, by the number of retries asked for
    Held(_),       \* the entries [request, answer] that others may leave in a client's cache
    Schemas,       \* the schemas of the types asked for, by name
    NoValue,       \* no JSON value
    Reading(_),    \* the value read out of an answer, or NoValue
    Valid(_),      \* whether a value is of the type asked for
    SchemaSent(_), \* the schema that a call sends, or NoSchema
    Endless(_)     \* whether a schema's references have no end

ASSUME ClientsAssumption ==
    Clients \subseteq [family   : {"openai", "compat", "anthropic", "google", "other"},
                       mode     : {"native", "tool", "prompted"},
                       caching  : BOOLEAN,
                       validator : BOOLEAN,    \* the caller's, or one of the type
                       retries  : Int,         \* max_validation_retries
                       shape    : {"string", "list", "cited", "reply"},
                       schema   : DOMAIN Schemas]
ASSUME AnswersAssumption == \A c \in Clients : c.retries \in DOMAIN Answers

VARIABLES
    client,     \* the client and the arguments of the call
    pc,         \* "ask", "sent", "read", "done"
    asked,      \* current_messages
    request,    \* what json_async made of them
    answers,    \* the answers so far
    served,     \* which of them came from the cache
    cache,      \* the entries: set of [request, answer], one for a request
    held,       \* those that others have left in it so far
    outcome     \* of the call: [kind, value]

vars == <<client, pc, asked, request, answers, served, cache, held, outcome>>

Message(role, shape, says) == [role |-> role, shape |-> shape, says |-> says, instructed |-> FALSE]
Original(c) ==
    CASE c.shape = "string" -> <<Message("user", "string", <<"question">>)>>
      [] c.shape \in {"list", "cited"} -> <<Message("user", c.shape, <<"question">>)>>
      [] c.shape = "reply"  -> <<Message("user", "string", <<"question">>), Message("assistant", "string", <<"reply">>)>>

NoSchema == <<>>
NoRequest == [messages |-> <<>>, native |-> "absent", tool |-> FALSE, schema |-> NoSchema]
NoOutcome == [kind |-> "none", value |-> NoValue]

Init ==
    /\ client \in Clients
    /\ pc = "ask"
    /\ asked = Original(client)
    /\ request = NoRequest
    /\ answers = <<>>
    /\ served = {}
    /\ held \in SUBSET Held(client)
    /\ \A e, f \in held : e.request = f.request => e = f
    /\ cache = held
    /\ outcome = NoOutcome
-----------------------------------------------------------------------------
(* json_async.                                                             *)
apply_native_json_mode(family) ==
    CASE family \in {"openai", "anthropic", "google"} -> "schema"
      [] family = "compat" -> "json_object"
      [] OTHER -> "absent"

(* Why no request can be made: structured output beside documents with     *)
(* citations, or references without end.                                   *)
check_citation_mutex(c) == c.family = "anthropic" /\ c.mode = "native" /\ c.shape = "cited"
endless_schema(c) == c.family = "google" /\ c.mode = "native" /\ Endless(Schemas[c.schema])

SlipFirstMessage(messages) ==      \* a slip: the instruction goes to the first message
    [messages EXCEPT ![1].instructed = TRUE]

apply_prompted_json_mode(messages) ==
    IF Last(messages).role = "user" /\ Last(messages).shape = "string"
    THEN [messages EXCEPT ![Len(messages)].instructed = TRUE]
    ELSE Append(messages, [Message("user", "string", <<>>) EXCEPT !.instructed = TRUE])

json_request(c, messages) ==
    [messages |-> IF c.mode = "prompted" THEN apply_prompted_json_mode(messages) ELSE messages,
     native   |-> IF c.mode = "native" THEN apply_native_json_mode(c.family) ELSE "absent",
     tool     |-> c.mode = "tool",
     schema   |-> SchemaSent(c)]

Finish(kind, value) ==
    /\ pc' = "done"
    /\ outcome' = [kind |-> kind, value |-> value]

(* The body of the loop up to the exchange.                                *)
Cached(r) == {entry \in cache : entry.request = r}
Put(entry) == (cache \ Cached(entry.request)) \cup {entry}

Ask ==
    /\ pc = "ask"
    /\ client.retries >= 0 /\ ~endless_schema(client) /\ ~check_citation_mutex(client)
    /\ request' = json_request(client, asked)
    /\ IF client.caching /\ Cached(request') # {}
       THEN /\ \E entry \in Cached(request') : answers' = Append(answers, entry.answer)
            /\ served' = served \cup {Len(answers')}
            /\ pc' = "read"
       ELSE pc' = "sent" /\ UNCHANGED <<answers, served>>
    /\ UNCHANGED <<client, asked, cache, held, outcome>>

(* Nothing is asked: the loop is empty, or the request cannot be made.     *)
AskNothing ==
    /\ pc = "ask"
    /\ \/ client.retries < 0 /\ Finish("RuntimeError", NoValue)
       \/ client.retries >= 0 /\ endless_schema(client) /\ Finish("RecursionError", NoValue)
       \/ client.retries >= 0 /\ check_citation_mutex(client) /\ Finish("citations", NoValue)
    /\ UNCHANGED <<client, asked, request, answers, served, cache, held>>

(* A model made to call return_output answers with its arguments, and      *)
(* says nothing; some answer in text all the same.                         *)
Response(answer, called) == [answer EXCEPT !.called = called, !.text = IF called THEN <<>> ELSE @]

Answer ==
    /\ pc = "sent"
    /\ \E answer \in Answers[client.retries], called \in (IF request.tool THEN BOOLEAN ELSE {FALSE}) :
          /\ answers' = Append(answers, Response(answer, called))
          /\ cache' = IF client.caching THEN Put([request |-> request, answer |-> Last(answers')]) ELSE cache
    /\ pc' = "read"
    /\ UNCHANGED <<client, asked, request, served, held, outcome>>

Raise ==
    /\ pc = "sent"
    /\ Finish("raised", NoValue)
    /\ UNCHANGED <<client, asked, request, answers, served, cache, held>>
-----------------------------------------------------------------------------
(* The rest of the body.  The validators may refuse a value, which is      *)
(* another attempt, return another one made from it, or raise anything     *)
(* else, which ends the call at once.                                      *)
Said == Last(answers)
Accepted(said) == LET value == Reading(said) IN value # NoValue /\ Valid(value)

SlipErrorOnly(c, said, error) ==     \* a slip: the model is not shown what it said
    Original(c) \o <<Message("user", "string", <<error>>)>>

Correction(c, said, error) ==
    Original(c) \o <<Message("assistant", "string", said.text), Message("user", "string", <<error>>)>>

SlipOneMore(error) ==                \* a slip: one attempt too many
    IF Len(answers) <= client.retries + 1
    THEN /\ asked' = Correction(client, Said, error)
         /\ pc' = "ask"
         /\ UNCHANGED outcome
    ELSE Finish(error, NoValue) /\ UNCHANGED asked

TryAgain(error) ==
    IF Len(answers) <= client.retries
    THEN /\ asked' = Correction(client, Said, error)
         /\ pc' = "ask"
         /\ UNCHANGED outcome
    ELSE Finish(error, NoValue) /\ UNCHANGED asked

Read ==
    /\ pc = "read"
    /\ LET value == Reading(Said)
       IN  \/ value = NoValue /\ TryAgain("no JSON")
           \/ value # NoValue /\ ~Valid(value) /\ TryAgain("invalid")
           \/ value # NoValue /\ Valid(value) /\ Finish("returned", value) /\ UNCHANGED asked
           \/ value # NoValue /\ Valid(value) /\ client.validator /\ TryAgain("refused")
           \/ value # NoValue /\ Valid(value) /\ client.validator /\ Finish("transformed", value) /\ UNCHANGED asked
           \/ value # NoValue /\ client.validator /\ Finish("escaped", NoValue) /\ UNCHANGED asked
    /\ UNCHANGED <<client, request, answers, served, cache, held>>

(* Another call leaves an entry, or clears the cache.                      *)
Elsewhere ==
    /\ pc # "done" /\ client.caching
    /\ \/ \E entry \in Held(client) \ held : cache' = Put(entry) /\ held' = held \cup {entry}
       \/ cache # {} /\ cache' = {} /\ UNCHANGED held
    /\ UNCHANGED <<client, pc, asked, request, answers, served, outcome>>

Next == Ask \/ AskNothing \/ Answer \/ Raise \/ Read \/ Elsewhere

Spec == Init /\ [][Next]_vars
-----------------------------------------------------------------------------
(* The cache answers an attempt only with what it holds for the very       *)
(* conversation: with what another call has left there, an answer to the   *)
(* question itself or, of a retry, to a correction that shows what the     *)
(* model said last; or with what followed earlier in this call, when the   *)
(* model has just repeated itself, as it does in every answer that is a    *)
(* call.  Any other attempt asks the model anew.  That the answer held may *)
(* be one that failed before, base.py:752 storing it before it is read     *)
(* here, is how the code is.                                               *)
Shows(r, i) ==
    IF i = 1 THEN r = json_request(client, Original(client))
    ELSE LET next == Len(Original(client)) + 1
         IN  /\ next \in DOMAIN r.messages
             /\ r.messages[next].role = "assistant" /\ r.messages[next].says = answers[i - 1].text

RepeatServed ==
    \A i \in served :
        \/ \E entry \in held : entry.answer = answers[i] /\ Shows(entry.request, i)
        \/ \E j \in 1..i - 2 : answers[j].text = answers[i - 1].text /\ answers[j + 1] = answers[i]

(* The schema reaches the model in every request, first or repeated, by    *)
(* one way; in the prompt it is the last thing said.  Not so in native     *)
(* mode with clients that have none of their own.                          *)
Ways == {w \in {"native", "tool", "prompt"} :
            \/ w = "native" /\ request.native = "schema"
            \/ w = "tool" /\ request.tool
            \/ w = "prompt" /\ \E i \in DOMAIN request.messages : request.messages[i].instructed}
SchemaAsked ==
    pc = "sent" =>
        /\ Cardinality(Ways) = IF client.mode = "native" /\ client.family \in {"compat", "other"} THEN 0 ELSE 1
        /\ \A i \in DOMAIN request.messages : request.messages[i].instructed => i = Len(request.messages)

(* How the call ends: with the last answer, valid, after answers that all  *)
(* failed, or with what the validator made of it; or with the error of the *)
(* last one after exactly the attempts asked for, all of which failed; or  *)
(* sooner with an error of the request, or with one of a validator over a  *)
(* value that was read, other than ValueError, which no attempt follows;   *)
(* or with none at all when a negative number was asked for.               *)
OutcomeJustified ==
    pc = "done" =>
        CASE outcome.kind \in {"returned", "transformed"} ->
                 /\ Accepted(Said) /\ outcome.value = Reading(Said)
                 /\ outcome.kind = "transformed" => client.validator
                 /\ client.validator \/ \A i \in 1..Len(answers) - 1 : ~Accepted(answers[i])
          [] outcome.kind = "escaped" ->
                 client.validator /\ Reading(Said) # NoValue /\ Len(answers) \in 1..client.retries + 1
          [] outcome.kind = "raised" -> Len(answers) <= client.retries
          [] outcome.kind = "RuntimeError" -> client.retries < 0 /\ answers = <<>>
          [] outcome.kind \in {"RecursionError", "citations"} -> client.mode = "native" /\ answers = <<>>
          [] OTHER -> /\ Len(answers) = client.retries + 1
                      /\ client.validator \/ \A i \in DOMAIN answers : ~Accepted(answers[i])

(* docs/EXAMPLES.md shows the three modes of pydantic side by side, the    *)
(* tool mode among them.  Refuted: the arguments of the call are not read. *)
ToolAnswerDelivered ==
    outcome.kind = "no JSON" => ~Said.called
-----------------------------------------------------------------------------
(***************************************************************************)
(* The loop implements BoundedCall, with an answer from the cache for a    *)
(* request like any other: an answer is good when it is accepted, unless   *)
(* the validator refuses it, final when the validator fails over it, and   *)
(* otherwise worth another attempt.                                        *)
(***************************************************************************)
Budget == IF client.retries >= 0 THEN client.retries + 1 ELSE 0

Sent == IF pc = "sent" \/ outcome.kind = "raised" THEN Len(answers) + 1 ELSE Len(answers)

Phase == IF pc = "done" THEN "settled" ELSE IF pc = "ask" THEN "ready" ELSE "inflight"

Verdict ==
    IF outcome.kind \in {"raised", "escaped"} THEN "fatal"
    ELSE IF pc \in {"sent", "read"} \/ answers = <<>> THEN "none"
    ELSE IF Accepted(Said) /\ (client.validator => outcome.kind \in {"returned", "transformed"}) THEN "good"
    ELSE "transient"

Outcome ==
    IF outcome.kind = "none" THEN "none"
    ELSE IF outcome.kind \in {"returned", "transformed"} THEN "value"
    ELSE "error"

Contract == INSTANCE BoundedCall WITH
    budget <- Budget, phase <- Phase, sent <- Sent, verdict <- Verdict, outcome <- Outcome

(* Every behaviour of the loop is one the contract allows.                 *)
ImplementsContract == Contract!Spec
=============================================================================

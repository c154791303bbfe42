----------------------------- MODULE ChunkParsers -----------------------------
(***************************************************************************)
(* The provider clients' two readings of one answer: _parse_stream_chunk,  *)
(* event by event, and _parse_response, all at once.  Four wire formats:   *)
(* "chat" (OpenAI chat completions and what follows it), "responses"       *)
(* (OpenAI Responses), "anthropic" and "google".                           *)
(*                                                                         *)
(* An event is what one SSE line says, whatever its JSON looks like: its   *)
(* kind, the text and thinking it adds, its entries about tool calls, and  *)
(* the id, stop reason and token counts it carries.                        *)
(***************************************************************************)
EXTENDS StreamAccumulator

Apis == {"chat", "responses", "anthropic", "google"}

Event(kind) == [kind |-> kind, text |-> <<>>, thought |-> <<>>, calls |-> <<>>,
                id |-> "", stop |-> "", usage |-> NoUsage]

(* An entry about the call in place slot of the answer.                    *)
Entry(slot, id, name, arguments) ==
    [slot |-> slot, id |-> id, name |-> name, arguments |-> arguments]
Delta(index, entry) ==
    [index |-> index, id |-> entry.id, name |-> entry.name, arguments |-> entry.arguments]

NoOp(raw) == <<TextDelta(<<>>, raw)>>
-----------------------------------------------------------------------------
(* openai_compat.py.  The content of an event is a string, the empty one   *)
(* too, except in the "finish" event, where it is null: only there is      *)
(* something else looked for.                                              *)
ChatChunks(e) ==
    LET raw == [id |-> e.id, stop |-> e.stop]
    IN  IF e.kind = "usage" THEN <<Usage(e.usage, raw)>>
        ELSE IF e.calls # <<>> THEN
            [i \in DOMAIN e.calls |-> ToolCallDelta(Delta(e.calls[i].slot - 1, e.calls[i]), raw)]
        ELSE IF e.kind # "finish" THEN <<TextDelta(e.text, raw)>>
        ELSE IF e.usage # NoUsage THEN <<Usage(e.usage, raw)>>
        ELSE NoOp(raw)

(* openai_responses.py.  An event has no id and no stop reason at its top  *)
(* level; the deltas of a call carry the empty id.                         *)
ResponsesChunks(e) ==
    CASE e.kind = "output_text.delta"  -> <<TextDelta(e.text, NoRaw)>>
      [] e.kind = "output_item.added"  -> <<ToolCallDelta(Delta(NoIndex, e.calls[1]), NoRaw)>>
      [] e.kind = "arguments.delta"    -> <<ToolCallDelta(Delta(NoIndex, e.calls[1]), NoRaw)>>
      [] e.kind = "completed"          -> <<Usage(e.usage, NoRaw)>>
      [] OTHER                         -> NoOp(NoRaw)

(* anthropic.py                                                            *)
AnthropicChunks(e) ==
    LET raw == [id |-> e.id, stop |-> e.stop]
    IN  CASE e.kind = "message_start" ->
                 <<Usage(UsageInfo(e.usage.input, 0, 0), raw)>>
          [] e.kind = "message_delta" ->
                 <<Usage(UsageInfo(0, e.usage.output, 0), raw)>>
          [] e.kind \in {"content_block_start", "content_block_delta"} /\ e.calls # <<>> ->
                 <<ToolCallDelta(Delta(NoIndex, e.calls[1]), raw)>>
          [] e.kind = "content_block_delta" /\ e.text # <<>> -> <<TextDelta(e.text, raw)>>
          [] e.kind = "content_block_delta" /\ e.thought # <<>> -> <<ThinkingDelta(e.thought, raw)>>
          [] OTHER -> NoOp(raw)

(* google.py: the first function call of the event, else its text parts,   *)
(* the thoughts among them, else its token counts.                         *)
GoogleChunks(e) ==
    LET raw == [id |-> "", stop |-> e.stop]
        text == e.thought \o e.text
    IN  CASE e.calls # <<>> -> <<ToolCallDelta(Delta(NoIndex, e.calls[1]), raw)>>
          [] e.calls = <<>> /\ text = <<>> /\ e.usage # NoUsage -> <<Usage(e.usage, raw)>>
          [] OTHER -> <<TextDelta(text, raw)>>

parse_stream_chunk(api, e) ==
    CASE api = "chat"      -> ChatChunks(e)
      [] api = "responses" -> ResponsesChunks(e)
      [] api = "anthropic" -> AnthropicChunks(e)
      [] api = "google"    -> GoogleChunks(e)
-----------------------------------------------------------------------------
(* The same answer unstreamed: the pieces of text and thinking, the calls, *)
(* and the totals the provider puts in one body.                           *)
NoMessage == [text |-> <<>>, thought |-> <<>>, calls |-> <<>>, id |-> "", stop |-> "",
              usage |-> NoUsage]

Extended(calls, entry) ==
    IF entry.slot > Len(calls) THEN Append(calls, Started(entry))
    ELSE [calls EXCEPT ![entry.slot].arguments_json = @ \o entry.arguments]

Extend(message, e) ==
    [text    |-> message.text \o e.text,
     thought |-> message.thought \o e.thought,
     calls   |-> FoldLeft(Extended, message.calls, e.calls),
     id      |-> IF e.id # "" THEN e.id ELSE message.id,
     stop    |-> IF e.stop # "" THEN e.stop ELSE message.stop,
     usage   |-> LET i == Larger(message.usage.input, e.usage.input)
                     o == Larger(message.usage.output, e.usage.output)
                 IN  IF e.usage = NoUsage THEN message.usage ELSE UsageInfo(i, o, i + o)]

(* _split_thinking_from_text: a <think> and the first </think> after it.   *)
Opens(text) == {i \in DOMAIN text : text[i].mark = "<think>"}
CloseOf(text, i) == Min({j \in DOMAIN text : j > i /\ text[j].mark = "</think>"} \cup {Len(text) + 1})
Spans(text) == {i \in Opens(text) : /\ CloseOf(text, i) <= Len(text)
                                    /\ \A k \in Opens(text) : k < i => CloseOf(text, k) < i}
Thought(text) == UNION {(i + 1)..(CloseOf(text, i) - 1) : i \in Spans(text)}
Outside(text) == {p \in DOMAIN text : \A i \in Spans(text) : p < i \/ p > CloseOf(text, i)}
At(s, places) ==
    FoldLeft(LAMBDA t, p : IF p \in places THEN Append(t, s[p]) ELSE t, <<>>, [p \in DOMAIN s |-> p])

parse_response(api, message) ==
    [thinking |-> IF api = "chat" THEN At(message.text, Thought(message.text)) ELSE message.thought,
     text |-> IF api = "chat" THEN At(message.text, Outside(message.text)) ELSE message.text,
     tool_calls |-> [i \in DOMAIN message.calls |-> ToolCall(message.calls[i])],
     usage |-> IF message.usage = NoUsage THEN UsageInfo(0, 0, 0) ELSE message.usage,
     stop_reason |-> message.stop,
     response_id |-> IF api = "google" THEN "" ELSE message.id]
=============================================================================

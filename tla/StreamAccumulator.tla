--------------------------- MODULE StreamAccumulator ---------------------------
(***************************************************************************)
(* StreamAccumulator (types.py): the answer a streamed call builds out of  *)
(* the chunks it yields.  Text is a sequence of pieces, the arguments of a *)
(* tool call a sequence of fragments; white space is left out, and with it *)
(* the strip() of thinking and of leading text.                            *)
(***************************************************************************)
EXTENDS Integers, Sequences, SequencesExt, FiniteSetsExt

NoIndex == -1                                \* delta.get("index") is None
NoCall == [id |-> "", name |-> <<>>, arguments_json |-> <<>>]
UsageInfo(i, o, t) == [input |-> i, output |-> o, total |-> t]
NoUsage == UsageInfo(-1, -1, -1)             \* None
NoRaw == [id |-> "", stop |-> ""]

(* A StreamChunk.  raw is the part of the event that _extract_metadata     *)
(* reads; an empty field is an absent key.                                 *)
NoDelta == [index |-> NoIndex, id |-> "", name |-> <<>>, arguments |-> <<>>]
Chunk(raw) == [type |-> "text_delta", text |-> <<>>, thinking |-> <<>>, delta |-> NoDelta,
               usage |-> NoUsage, raw |-> raw]
TextDelta(s, raw) == [Chunk(raw) EXCEPT !.text = s]
ThinkingDelta(s, raw) == [Chunk(raw) EXCEPT !.type = "thinking_delta", !.thinking = s]
ToolCallDelta(d, raw) == [Chunk(raw) EXCEPT !.type = "tool_call_delta", !.delta = d]
Usage(u, raw) == [Chunk(raw) EXCEPT !.type = "usage", !.usage = u]
Done == [Chunk(NoRaw) EXCEPT !.type = "done"]

Fresh == [text |-> <<>>, thinking |-> <<>>, tool_calls |-> <<>>, by_index |-> <<>>,
          current |-> NoCall, usage |-> NoUsage, stop_reason |-> "", response_id |-> ""]
-----------------------------------------------------------------------------
(* The first id, the last reason.                                          *)
extract_metadata(acc, raw) ==
    [acc EXCEPT !.response_id = IF @ = "" THEN raw.id ELSE @,
                !.stop_reason = IF raw.stop # "" THEN raw.stop ELSE @]

SlipStillCurrent(acc) ==         \* a slip: the call is kept but not closed
    IF acc.current = NoCall THEN acc
    ELSE [acc EXCEPT !.tool_calls = Append(@, acc.current)]

finalize_current_tool_call(acc) ==
    IF acc.current = NoCall THEN acc
    ELSE [acc EXCEPT !.tool_calls = Append(@, acc.current), !.current = NoCall]

Started(d) == [id |-> d.id, name |-> d.name, arguments_json |-> d.arguments]
Grown(call, d) ==
    [id |-> IF d.id # "" THEN d.id ELSE call.id,
     name |-> call.name \o d.name,
     arguments_json |-> call.arguments_json \o d.arguments]

(* by_index is a sequence: index i of the wire is its place i + 1, and a   *)
(* server opens the indices in order.                                      *)
ByIndex(acc, d) ==
    LET i == d.index + 1
        calls == acc.by_index
    IN  [acc EXCEPT !.by_index = IF i > Len(calls) THEN Append(calls, Started(d))
                                 ELSE [calls EXCEPT ![i] = Grown(calls[i], d)]]

SlipOverwrite(acc, d) ==         \* a slip: the call in progress is not kept
    IF d.index # NoIndex THEN ByIndex(acc, d)
    ELSE IF d.id # "" THEN [acc EXCEPT !.current = Started(d)]
    ELSE IF acc.current # NoCall THEN [acc EXCEPT !.current = Grown(@, d)]
    ELSE acc

accumulate_tool_call(acc, d) ==
    IF d.index # NoIndex THEN ByIndex(acc, d)
    ELSE IF d.id # "" THEN [finalize_current_tool_call(acc) EXCEPT !.current = Started(d)]
    ELSE IF acc.current # NoCall THEN [acc EXCEPT !.current = Grown(@, d)]
    ELSE acc

Larger(a, b) == IF a >= b THEN a ELSE b

SlipLastUsage(acc, u) == [acc EXCEPT !.usage = u]   \* a slip: later reports replace earlier ones

merge_usage(acc, u) ==
    LET input == Larger(acc.usage.input, u.input)
        output == Larger(acc.usage.output, u.output)
        total == Larger(acc.usage.total, u.total)
    IN  [acc EXCEPT !.usage =
            IF @ = NoUsage THEN u
            ELSE UsageInfo(input, output, IF total = 0 THEN input + output ELSE total)]

feed(acc, chunk) ==
    LET known == extract_metadata(acc, chunk.raw)
    IN  CASE chunk.type = "text_delta"      -> [known EXCEPT !.text = @ \o chunk.text]
          [] chunk.type = "thinking_delta"  -> [known EXCEPT !.thinking = @ \o chunk.thinking]
          [] chunk.type = "tool_call_delta" -> accumulate_tool_call(known, chunk.delta)
          [] chunk.type = "usage"           ->
                 IF chunk.usage = NoUsage THEN known ELSE merge_usage(known, chunk.usage)
          [] chunk.type = "done"            -> finalize_current_tool_call(known)

(* json.loads: a fragment is the head or the tail of one call's arguments; *)
(* anything but a head and a tail is not JSON and becomes {}.              *)
Loads(fragments) ==
    IF Len(fragments) = 2 /\ fragments[1].part = "head" /\ fragments[2].part = "tail"
    THEN fragments ELSE <<>>

ToolCall(call) == [id |-> call.id, name |-> call.name, arguments |-> Loads(call.arguments_json)]

(* The property .accumulated: the response out of what was fed so far.     *)
accumulated(acc) ==
    LET all == finalize_current_tool_call(acc)
        calls == all.tool_calls \o all.by_index
    IN  [thinking |-> all.thinking,
         text |-> all.text,
         tool_calls |-> [i \in DOMAIN calls |-> ToolCall(calls[i])],
         usage |-> IF all.usage = NoUsage THEN UsageInfo(0, 0, 0) ELSE all.usage,
         stop_reason |-> all.stop_reason,
         response_id |-> all.response_id]
=============================================================================

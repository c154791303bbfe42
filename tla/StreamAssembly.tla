---------------------------- MODULE StreamAssembly ----------------------------
(***************************************************************************)
(* One answer, streamed: a server puts it on the wire event by event, the  *)
(* client parses each event into chunks and feeds its accumulator, as the  *)
(* inner loop of request_stream_async does (providers/base.py).  message   *)
(* is what the server has said so far, and what the same server would have *)
(* sent in one body to a request that does not stream.  It matters that    *)
(* the two readings agree, because the streamed one is put into the cache  *)
(* that the other kind of request reads.                                   *)
(***************************************************************************)
EXTENDS ChunkParsers

CONSTANTS
    MaxEvents,    \* bound: events of one answer, for each wire format
    MaxCalls      \* bound: tool calls of one answer

ASSUME BoundsAssumption == MaxEvents \in [Apis -> Nat] /\ MaxCalls \in 0..3

VARIABLES
    api,       \* wire format of the provider
    phase,     \* "body", "stopped" (the server has given its reason), "done"
    block,     \* kind of the content block that is open (anthropic)
    message,   \* what the server has said
    acc,       \* the StreamAccumulator
    events,    \* number of events so far
    outputs,   \* number of reports of output tokens so far
    losses     \* history: kinds of events that the streamed reading cannot keep

vars == <<api, phase, block, message, acc, events, outputs, losses>>

Init ==
    /\ api \in Apis
    /\ phase = "body"
    /\ block = "none"
    /\ message = NoMessage
    /\ acc = Fresh
    /\ events = 0
    /\ outputs = 0
    /\ losses = {}

(* One round of the loop: parse, feed.  How the stream goes on is the      *)
(* server's choice.                                                        *)
Receive(e) ==
    /\ events < MaxEvents[api]
    /\ events' = events + 1
    /\ message' = Extend(message, e)
    /\ acc' = FoldLeft(feed, acc, parse_stream_chunk(api, e))
    /\ outputs' = outputs + (IF e.usage.output > 0 THEN 1 ELSE 0)
    /\ UNCHANGED api

Keeps(lost) == losses' = losses \cup lost
If(condition, loss) == IF condition THEN {loss} ELSE {}
-----------------------------------------------------------------------------
(* What the server may say next.                                           *)
Ids == <<"c1", "c2", "c3">>
Piece(mark) == <<[mark |-> mark, n |-> events]>>
Words(marks) == {<<>>} \cup {Piece(mark) : mark \in marks}
Counts == UsageInfo(3, outputs + 1, outputs + 4)

Fragment(slot, part) == [of |-> slot, part |-> part]
Opening(given) ==    \* the next call, with some of its arguments
    {Entry(Len(message.calls) + 1, Ids[Len(message.calls) + 1], <<"name">>,
           SubSeq(<<Fragment(Len(message.calls) + 1, "head"), Fragment(Len(message.calls) + 1, "tail")>>, 1, k))
        : k \in (IF Len(message.calls) < MaxCalls THEN given ELSE {})}
Said(slot) == Len(message.calls[slot].arguments_json)
Continuing ==        \* the next fragment of a call that was opened
    {Entry(slot, "", <<>>, <<Fragment(slot, IF Said(slot) = 0 THEN "head" ELSE "tail")>>)
        : slot \in {s \in DOMAIN message.calls : Said(s) < 2}}
InProgress == Continuing # {}

(* Chat completions: text and calls in any mixture, two entries at once,   *)
(* some servers repeat the name of a call in its later entries.            *)
ChatEntries ==
    LET one == Opening({0, 2}) \cup Continuing \cup {[e EXCEPT !.name = <<"name">>] : e \in Continuing}
    IN  {<<>>} \cup {<<e>> : e \in one}
               \cup {two \in Continuing \X (Opening({0}) \cup Continuing) : two[1].slot < two[2].slot}

ChatDelta ==
    /\ api = "chat"
    /\ phase = "body"
    /\ \E text \in Words({"word", "<think>", "</think>"}), calls \in ChatEntries :
          /\ calls # <<>> => text \in Words({"word"})
          /\ Receive([Event("delta") EXCEPT !.id = "r", !.text = text, !.calls = calls])
          /\ Keeps(If(text # <<>> /\ calls # <<>>, "text beside a call")
                   \cup If(\E i \in DOMAIN text : text[i].mark # "word", "think tag")
                   \cup If(\E i \in DOMAIN calls : calls[i].id = "" /\ calls[i].name # <<>>, "name repeated"))
    /\ UNCHANGED <<phase, block>>

(* The reason comes with a last delta, whose content may be empty, or with *)
(* content null; the counts with either, or later.                         *)
ChatFinish ==
    /\ api = "chat"
    /\ phase = "body"
    /\ phase' = "stopped"
    /\ \E kind \in {"delta", "finish"}, text \in Words({"word"}),
          stop \in {"stop", "length", "tool_calls"}, usage \in {NoUsage, Counts} :
          /\ kind = "finish" => text = <<>>
          /\ Receive([Event(kind) EXCEPT !.id = "r", !.text = text, !.stop = stop, !.usage = usage])
          /\ Keeps(If(kind = "delta" /\ usage # NoUsage, "counts beside content"))
    /\ UNCHANGED block

ChatUsage ==
    /\ api = "chat"
    /\ phase = "stopped"
    /\ outputs = 0
    /\ Receive([Event("usage") EXCEPT !.id = "r", !.usage = Counts])
    /\ UNCHANGED <<phase, block, losses>>

(* Responses: output items and their deltas, each delta naming its item.   *)
ResponsesText ==
    /\ api = "responses"
    /\ phase = "body"
    /\ Receive([Event("output_text.delta") EXCEPT !.text = Piece("word")])
    /\ UNCHANGED <<phase, block, losses>>

ResponsesReasoning ==
    /\ api = "responses"
    /\ phase = "body"
    /\ Receive([Event("reasoning.delta") EXCEPT !.thought = Piece("thought")])
    /\ Keeps({"thinking"})
    /\ UNCHANGED <<phase, block>>

ResponsesItem ==
    /\ api = "responses"
    /\ phase = "body"
    /\ \E entry \in Opening({0}) :
          /\ Receive([Event("output_item.added") EXCEPT !.calls = <<entry>>])
          /\ Keeps({})
    /\ UNCHANGED <<phase, block>>

ResponsesArguments ==
    /\ api = "responses"
    /\ phase = "body"
    /\ \E entry \in Continuing :
          /\ Receive([Event("arguments.delta") EXCEPT !.calls = <<entry>>])
          /\ Keeps(If(entry.slot # Len(message.calls), "calls interleaved"))
    /\ UNCHANGED <<phase, block>>

ResponsesCompleted ==
    /\ api = "responses"
    /\ phase = "body"
    /\ phase' = "stopped"
    /\ Receive([Event("completed") EXCEPT !.id = "r", !.stop = "completed", !.usage = Counts])
    /\ UNCHANGED <<block, losses>>

(* Anthropic: content blocks one after the other.                          *)
AnthropicStart ==
    /\ api = "anthropic"
    /\ phase = "body" /\ events = 0
    /\ Receive([Event("message_start") EXCEPT !.id = "r", !.usage = UsageInfo(3, 0, 3)])
    /\ UNCHANGED <<phase, block, losses>>

AnthropicBlockStart ==
    /\ api = "anthropic"
    /\ phase = "body" /\ events > 0 /\ block = "none"
    /\ \E kind \in {"text", "thinking", "tool_use"} :
          /\ block' = kind
          /\ \E entries \in (IF kind = "tool_use" THEN {<<e>> : e \in Opening({0})} ELSE {<<>>}) :
                Receive([Event("content_block_start") EXCEPT !.calls = entries])
    /\ UNCHANGED <<phase, losses>>

AnthropicBlockDelta ==
    /\ api = "anthropic"
    /\ phase = "body"
    /\ LET delta == Event("content_block_delta")
       IN  \/ block = "text"     /\ Receive([delta EXCEPT !.text = Piece("word")])
           \/ block = "thinking" /\ Receive([delta EXCEPT !.thought = Piece("thought")])
           \/ block = "tool_use" /\ \E e \in Continuing : /\ e.slot = Len(message.calls)
                                                          /\ Receive([delta EXCEPT !.calls = <<e>>])
    /\ UNCHANGED <<phase, block, losses>>

AnthropicBlockStop ==
    /\ api = "anthropic"
    /\ phase = "body" /\ block # "none"
    /\ block' = "none"
    /\ Receive(Event("content_block_stop"))
    /\ UNCHANGED <<phase, losses>>

(* One or more, the counts of each covering the answer so far.             *)
AnthropicMessageDelta ==
    /\ api = "anthropic"
    /\ phase \in {"body", "stopped"} /\ events > 0 /\ block = "none" /\ outputs < 2
    /\ phase' = "stopped"
    /\ \E stop \in {"end_turn", "max_tokens", "tool_use"} :
          Receive([Event("message_delta") EXCEPT !.stop = stop, !.usage = UsageInfo(0, outputs + 1, 0)])
    /\ UNCHANGED <<block, losses>>

(* Google: each event a piece of the whole body, its calls complete.       *)
GoogleEvent ==
    /\ api = "google"
    /\ phase = "body"
    /\ \E thought \in Words({"thought"}), text \in Words({"word"}),
          calls \in {<<>>} \cup {<<e>> : e \in Opening({2})}, two \in BOOLEAN,
          stop \in {"", "STOP", "MAX_TOKENS"}, usage \in {NoUsage, Counts} :
          LET second == Entry(Len(message.calls) + 2, Ids[Len(message.calls) + 2], <<"name">>,
                              <<Fragment(Len(message.calls) + 2, "head"), Fragment(Len(message.calls) + 2, "tail")>>)
              all == IF two THEN Append(calls, second) ELSE calls
          IN  /\ two => calls # <<>> /\ Len(message.calls) + 2 <= MaxCalls
              /\ phase' = IF stop = "" THEN "body" ELSE "stopped"
              /\ Receive([Event("body") EXCEPT !.thought = thought, !.text = text, !.calls = all,
                                               !.stop = stop, !.usage = usage])
              /\ Keeps(If(calls # <<>> /\ (text # <<>> \/ thought # <<>>), "text beside a call")
                       \cup If(thought # <<>>, "thinking")
                       \cup If(two, "two calls at once")
                       \cup If(usage # NoUsage /\ (text # <<>> \/ thought # <<>> \/ calls # <<>>),
                               "counts beside content"))
    /\ UNCHANGED block

Server ==
    \/ ChatDelta \/ ChatFinish \/ ChatUsage
    \/ ResponsesText \/ ResponsesReasoning \/ ResponsesItem \/ ResponsesArguments \/ ResponsesCompleted
    \/ AnthropicStart \/ AnthropicBlockStart \/ AnthropicBlockDelta \/ AnthropicBlockStop
    \/ AnthropicMessageDelta
    \/ GoogleEvent

(* The body ends, announced or not; the loop feeds its "done" chunk.       *)
End ==
    /\ phase # "done"
    /\ phase' = "done"
    /\ acc' = feed(acc, Done)
    /\ UNCHANGED <<api, block, message, events, outputs, losses>>

(* A consumer with an accumulator of its own reads accumulated while the   *)
(* stream goes on; reading it closes the call in progress.                 *)
Peek ==
    /\ phase = "body"
    /\ acc.current # NoCall
    /\ acc' = finalize_current_tool_call(acc)
    /\ Keeps(If(InProgress, "read too early"))
    /\ UNCHANGED <<api, phase, block, message, events, outputs>>

Next == Server \/ End \/ Peek

Spec == Init /\ [][Next]_vars
-----------------------------------------------------------------------------
Streamed == accumulated(acc)
Unstreamed == parse_response(api, message)
Range_(s) == {s[i] : i \in DOMAIN s}

(* Nothing is invented, repeated or put out of order, whatever the server  *)
(* mixes into one event and whenever the consumer looks: the text of the   *)
(* accumulator is a part of what the server said, in its order, and each   *)
(* fragment of arguments is used at most once (accumulate_tool_call).      *)
InOrder(part, whole) ==
    /\ \A i, j \in DOMAIN part : i < j => part[i].n <= part[j].n
    /\ Cardinality(Range_(part)) = Len(part)
    /\ Range_(part) \subseteq Range_(whole)
NothingInvented ==
    /\ InOrder(Streamed.text, message.thought \o message.text)
    /\ InOrder(Streamed.thinking, message.thought)
    /\ LET calls == acc.tool_calls \o acc.by_index \o <<acc.current>>
           used == {p \in (DOMAIN calls) \X (1..9) : p[2] \in DOMAIN calls[p[1]].arguments_json}
       IN  \A a, b \in used :
              calls[a[1]].arguments_json[a[2]] = calls[b[1]].arguments_json[b[2]] => a = b

(* The entry a stream leaves in the cache says what the blocking request   *)
(* would have been told: text, thinking and tool calls agree at every      *)
(* moment the stream may end, except after the events named here.          *)
StreamAgrees ==
    phase = "done" =>
        /\ losses \cap {"text beside a call", "think tag"} = {} /\ ~(api = "google" /\ "thinking" \in losses)
              => Streamed.text = Unstreamed.text
        /\ losses \cap {"thinking", "think tag"} = {} => Streamed.thinking = Unstreamed.thinking
        /\ losses \cap {"calls interleaved", "two calls at once", "name repeated", "read too early"} = {}
              => Streamed.tool_calls = Unstreamed.tool_calls

(* What the response says about itself.  Token counts: those of the        *)
(* streamed reading are never more than the server said, and are exactly   *)
(* that unless the counts came in an event with content, the empty string  *)
(* of a chat event too (openai_compat.py:382-384); the total is that of    *)
(* the first report of output tokens (_merge_usage).  The reason why it    *)
(* ended, by which a truncated answer is told from a complete one, and the *)
(* id are the server's; not for "responses", whose events say them where   *)
(* extract_metadata does not look.                                         *)
CountsAgree ==
    LET s == Streamed.usage
        u == Unstreamed.usage
        apart == "counts beside content" \notin losses
    IN  /\ s.input <= u.input /\ s.output <= u.output /\ s.total <= u.total
        /\ apart => s.input = u.input /\ s.output = u.output
        /\ apart /\ outputs = 1 => s.total = u.total
EndingKnown ==
    /\ Streamed.stop_reason = IF api = "responses" THEN "" ELSE Unstreamed.stop_reason
    /\ Streamed.response_id = IF api = "responses" THEN "" ELSE Unstreamed.response_id
MetadataAgrees == phase = "done" => CountsAgree /\ EndingKnown
=============================================================================

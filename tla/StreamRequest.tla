---------------------------- MODULE StreamRequest ----------------------------
(***************************************************************************)
(* One call of request_stream_async (providers/base.py) together with the  *)
(* parse_sse_stream generator it drains (transport.py): the attempt loop,  *)
(* the server-sent lines, the chunks handed to the consumer, the hooks and *)
(* the cache entry written at the end.  Three parties act: the server, the *)
(* consumer (who may stop iterating at any yield), and the event loop (who *)
(* may cancel at any await).                                               *)
(*                                                                         *)
(* A step runs from one await or yield to the next.  A chunk is its        *)
(* origin: the attempt, the line of that attempt's stream and its place    *)
(* among the chunks the line parses to.  A hook may raise whatever it      *)
(* likes; only of on_response, called inside the try block, does it matter *)
(* what.                                                                   *)
(***************************************************************************)
EXTENDS RetryPolicy, Sequences

CONSTANTS
    RetryChoices,   \* values of max_retries a caller may ask for
    Capped,         \* is stream_max_duration set?
    ServerActs,     \* does a silent server end in an event (read timeout set)?
    MaxLines        \* bound: complete lines one attempt's stream carries

ASSUME RetryChoicesAssumption == RetryChoices \subseteq Int
ASSUME FlagsAssumption == Capped \in BOOLEAN /\ ServerActs \in BOOLEAN
ASSUME MaxLinesAssumption == MaxLines \in Nat

VARIABLES
    call,        \* max_retries, and whether the cache policy stores the answer
    pc,          \* the await or yield the generator is suspended at
    attempt,     \* the loop counter
    last_error,  \* last_error of the code
    yielded_any, \* yielded_any of the code
    stream,      \* state of the current attempt's stream, see Stream
    result,      \* how the generator ended
    delivered,   \* history: chunks of the latest attempt the consumer received
    stale,       \* history: chunks it had of attempts that were then repeated
    hooks,       \* history: lifecycle hooks called, in order
    puts,        \* history: accumulated answers put into the cache
    sent,        \* history: HTTP requests opened
    delay        \* what asyncio.sleep was last given

vars == <<call, pc, attempt, last_error, yielded_any, stream, result,
          delivered, stale, hooks, puts, sent, delay>>

Call == [max_retries: RetryChoices, caching: BOOLEAN]

(* What one complete line of the body is worth: one chunk, two chunks, a   *)
(* comment or bad JSON, JSON the provider's parser chokes on, or [DONE].   *)
LineKind == {"delta", "pair", "junk", "poison", "end"}
Line == [kind: LineKind, number: 1..MaxLines]
Chunk == [attempt: Nat, line: 0..MaxLines, part: 0..2]

Stream == [bytes: BOOLEAN,          \* bytes_received > 0
           late: BOOLEAN,           \* open for longer than max_duration
           lines: 0..MaxLines,      \* complete lines arrived
           queue: Seq(Line),        \* lines in the buffer, not parsed yet
           pending: Seq(Chunk),     \* chunks of the current line, not yielded yet
           accumulated: Seq(Chunk), \* what the StreamAccumulator was fed
           wire: Seq(Chunk)]        \* history: chunks on the wire before [DONE]
NoStream == [bytes |-> FALSE, late |-> FALSE, lines |-> 0, queue |-> <<>>,
             pending |-> <<>>, accumulated |-> <<>>, wire |-> <<>>]

Result == [kind: {"none", "completed", "raised", "hook", "silent", "abandoned", "cancelled"},
           error: Error]
Pending == [kind |-> "none", error |-> NoError]

Init ==
    /\ call \in Call
    /\ pc = "start"
    /\ attempt = 0
    /\ last_error = NoError
    /\ yielded_any = FALSE
    /\ stream = NoStream
    /\ result = Pending
    /\ delivered = <<>>
    /\ stale = <<>>
    /\ hooks = <<>>
    /\ puts = <<>>
    /\ sent = 0
    /\ delay = 0

Settle(kind, e) ==
    /\ pc' = "done"
    /\ result' = [kind |-> kind, error |-> e]
-----------------------------------------------------------------------------
(* An exception inside the try block.  After the first chunk it is raised; *)
(* before it, the policy may ask for another attempt after a jittered      *)
(* delay.  on_error and on_retry run first and may raise in its place.     *)
SlipMuteRaise(e) ==    \* a slip: on_error is not called
    /\ Settle("raised", e)
    /\ UNCHANGED <<hooks, delay>>

Raise(e) ==
    /\ hooks' = Append(hooks, "error")
    /\ Settle("raised", e) \/ Settle("hook", NoError)
    /\ UNCHANGED delay

Retry(e) ==
    /\ hooks' = Append(hooks, "retry")
    /\ \/ /\ pc' = "backoff"
          /\ delay' \in Jitter(attempt)
          /\ UNCHANGED result
       \/ /\ Settle("hook", NoError)
          /\ UNCHANGED delay

(* A slip: output already handed over is forgotten.                        *)
SlipRetryAlways(e) ==
    /\ last_error' = e
    /\ IF should_retry(call.max_retries, e, attempt) THEN Retry(e) ELSE Raise(e)
    /\ UNCHANGED <<call, attempt, yielded_any, delivered, stale, puts, sent>>

Fail(e) ==
    /\ IF yielded_any THEN Raise(e) /\ UNCHANGED last_error
       ELSE /\ last_error' = e
            /\ IF should_retry(call.max_retries, e, attempt) THEN Retry(e) ELSE Raise(e)
    /\ UNCHANGED <<call, attempt, yielded_any, delivered, stale, puts, sent>>

Local(kind) == [kind |-> kind, status |-> 0, retry_after |-> NoHint]

(* Hand a chunk to the consumer: the accumulator is fed first.             *)
Deliver(c, s) ==
    /\ delivered' = Append(delivered, c)
    /\ stream' = [s EXCEPT !.accumulated = Append(@, c)]
    /\ UNCHANGED stale

(* The parser has returned: the final done chunk, which leaves yielded_any *)
(* as it is.                                                               *)
Done == [attempt |-> attempt, line |-> 0, part |-> 0]
SlipCacheEarly ==      \* a slip: the answer is cached before it is complete
    /\ Deliver(Done, stream)
    /\ pc' = "yielded_done"
    /\ puts' = Append(puts, stream.accumulated)
    /\ UNCHANGED <<yielded_any, last_error, result, hooks, delay>>

DeliverDone ==
    /\ Deliver(Done, stream)
    /\ pc' = "yielded_done"
    /\ UNCHANGED <<yielded_any, last_error, result, hooks, puts, delay>>
-----------------------------------------------------------------------------
(* The first __anext__: on_request, outside the try block.                 *)
Begin ==
    /\ pc = "start"
    /\ hooks' = Append(hooks, "request")
    /\ \/ pc' = "ready" /\ UNCHANGED result
       \/ Settle("hook", NoError)
    /\ UNCHANGED <<call, attempt, last_error, yielded_any, stream, delivered, stale, puts, sent,
                   delay>>

Open ==
    /\ pc = "ready"
    /\ attempt <= call.max_retries
    /\ sent' = sent + 1
    /\ pc' = "opening"
    /\ UNCHANGED <<call, attempt, last_error, yielded_any, stream, result, delivered, stale,
                   hooks, puts, delay>>

(* The range is used up: with no error to raise the generator just ends.   *)
LeaveLoop ==
    /\ pc = "ready"
    /\ attempt > call.max_retries
    /\ IF last_error = NoError
       THEN Settle("silent", NoError) /\ UNCHANGED <<hooks, delay>>
       ELSE Raise(last_error)
    /\ UNCHANGED <<call, attempt, last_error, yielded_any, stream, delivered, stale, puts, sent>>

(* A status outside 2xx, or no response at all.  httpx's exceptions reach  *)
(* the handler unwrapped.                                                  *)
Raised(a) ==
    IF a.type = "connection" THEN [RaisedBy(a) EXCEPT !.kind = "httpx"] ELSE RaisedBy(a)

OpenFails(a) ==
    /\ pc = "opening"
    /\ Fail(Raised(a))
    /\ UNCHANGED stream

OpenSucceeds ==
    /\ pc = "opening"
    /\ pc' = "reading"
    /\ stream' = NoStream
    /\ yielded_any' = FALSE
    /\ UNCHANGED <<call, attempt, last_error, result, delivered, stale, hooks, puts, sent, delay>>

(* The wall clock passes max_duration; nobody looks at it yet.             *)
Tick ==
    /\ Capped
    /\ pc \in {"reading", "yielded"}
    /\ ~stream.late
    /\ stream' = [stream EXCEPT !.late = TRUE]
    /\ UNCHANGED <<call, pc, attempt, last_error, yielded_any, result, delivered, stale, hooks,
                   puts, sent, delay>>

Chunks(l) ==
    LET chunk(i) == [attempt |-> attempt, line |-> l.number, part |-> i] IN
    CASE l.kind = "delta" -> <<chunk(1)>>
      [] l.kind = "pair" -> <<chunk(1), chunk(2)>>
      [] OTHER -> <<>>

Numbered(kinds) == [i \in 1..Len(kinds) |-> [kind |-> kinds[i], number |-> stream.lines + i]]

(* The chunks of at most two lines, up to [DONE].                          *)
Carried(lines) ==
    IF lines = <<>> \/ lines[1].kind = "end" THEN <<>>
    ELSE Chunks(lines[1]) \o IF Len(lines) = 1 THEN <<>> ELSE Chunks(lines[2])

SlipNoClock == FALSE   \* a slip: max_duration is accepted and ignored
Expired == stream.late

(* A piece of the body with none, one or two complete lines.  The clock is *)
(* read before the piece is looked at, and only then.                      *)
Arrive(kinds) ==
    /\ pc = "reading"
    /\ stream.lines + Len(kinds) <= MaxLines
    /\ IF Expired THEN Fail(Local("transport")) /\ UNCHANGED stream
       ELSE /\ stream' = [stream EXCEPT !.bytes = TRUE,
                                        !.lines = @ + Len(kinds),
                                        !.queue = Numbered(kinds),
                                        !.wire = @ \o Carried(Numbered(kinds))]
            /\ pc' = IF kinds = <<>> THEN "reading" ELSE "parsing"
            /\ UNCHANGED <<call, attempt, last_error, yielded_any, result, delivered, stale,
                           hooks, puts, sent, delay>>

(* The connection breaks, or httpx's read timeout fires.                   *)
Break(kind) ==
    /\ pc = "reading"
    /\ Fail(Local(IF kind # "protocol" THEN kind
                  ELSE IF stream.bytes THEN "interrupted" ELSE "transport"))
    /\ UNCHANGED stream

(* The body ends without [DONE]; a half line in the buffer is dropped.     *)
Eof ==
    /\ pc = "reading"
    /\ DeliverDone
    /\ UNCHANGED <<call, attempt, sent>>

(* The next line of the buffer.                                            *)
ParseData ==
    /\ pc = "parsing"
    /\ Head(stream.queue).kind \in {"delta", "pair"}
    /\ LET cs == Chunks(Head(stream.queue)) IN
       Deliver(Head(cs), [stream EXCEPT !.queue = Tail(@), !.pending = Tail(cs)])
    /\ yielded_any' = TRUE
    /\ pc' = "yielded"
    /\ UNCHANGED <<call, attempt, last_error, result, hooks, puts, sent, delay>>

SlipJunkKept ==        \* a slip: the line is not taken off the buffer
    /\ pc = "parsing"
    /\ Head(stream.queue).kind = "junk"
    /\ UNCHANGED vars

ParseJunk ==
    /\ pc = "parsing"
    /\ Head(stream.queue).kind = "junk"
    /\ stream' = [stream EXCEPT !.queue = Tail(@)]
    /\ pc' = IF Tail(stream.queue) = <<>> THEN "reading" ELSE "parsing"
    /\ UNCHANGED <<call, attempt, last_error, yielded_any, result, delivered, stale, hooks, puts,
                   sent, delay>>

ParsePoison ==
    /\ pc = "parsing"
    /\ Head(stream.queue).kind = "poison"
    /\ Fail(Local("unhandled"))
    /\ UNCHANGED stream

ParseEnd ==
    /\ pc = "parsing"
    /\ Head(stream.queue).kind = "end"
    /\ DeliverDone
    /\ UNCHANGED <<call, attempt, sent>>

(* The consumer asks for the next chunk.                                   *)
Resume ==
    /\ pc = "yielded"
    /\ IF stream.pending # <<>>
       THEN /\ Deliver(Head(stream.pending), [stream EXCEPT !.pending = Tail(@)])
            /\ UNCHANGED pc
       ELSE /\ pc' = IF stream.queue = <<>> THEN "reading" ELSE "parsing"
            /\ UNCHANGED <<delivered, stale, stream>>
    /\ UNCHANGED <<call, attempt, last_error, yielded_any, result, hooks, puts, sent, delay>>

(* The consumer asks again after the done chunk: on_response, the          *)
(* completion log line and the cache entry all happen now.                 *)
Finish ==
    /\ pc = "yielded_done"
    /\ hooks' = Append(hooks, "response")
    /\ Settle("completed", NoError)
    /\ puts' = IF call.caching THEN Append(puts, stream.accumulated) ELSE puts
    /\ UNCHANGED <<call, attempt, last_error, yielded_any, stream, delivered, stale, sent, delay>>

(* on_response raises, inside the try block.  The done chunk did not set   *)
(* yielded_any: if the stream carried no other and the policy knows the    *)
(* exception, another attempt follows, and another done chunk.             *)
FinishFails(e) ==
    /\ pc = "yielded_done"
    /\ last_error' = IF yielded_any THEN last_error ELSE e
    /\ IF ~yielded_any /\ should_retry(call.max_retries, e, attempt)
       THEN /\ hooks' = hooks \o <<"response", "retry">>
            /\ \/ /\ pc' = "backoff"
                  /\ delay' \in Jitter(attempt)
                  /\ stale' = stale \o delivered
                  /\ delivered' = <<>>
                  /\ UNCHANGED result
               \/ /\ Settle("hook", NoError)
                  /\ UNCHANGED <<delay, delivered, stale>>
       ELSE /\ hooks' = hooks \o <<"response", "error">>
            /\ Settle("hook", NoError)
            /\ UNCHANGED <<delay, delivered, stale>>
    /\ UNCHANGED <<call, attempt, yielded_any, stream, puts, sent>>

(* GeneratorExit and CancelledError are not Exceptions: no handler runs.   *)
Close ==
    /\ pc \in {"yielded", "yielded_done"}
    /\ Settle("abandoned", NoError)
    /\ UNCHANGED <<call, attempt, last_error, yielded_any, stream, delivered, stale, hooks, puts,
                   sent, delay>>

Cancel ==
    /\ pc \in {"opening", "reading", "backoff"}
    /\ Settle("cancelled", NoError)
    /\ UNCHANGED <<call, attempt, last_error, yielded_any, stream, delivered, stale, hooks, puts,
                   sent, delay>>

Wake ==
    /\ pc = "backoff"
    /\ attempt' = attempt + 1
    /\ pc' = "ready"
    /\ UNCHANGED <<call, last_error, yielded_any, stream, result, delivered, stale, hooks, puts,
                   sent, delay>>

Terminated == pc = "done" /\ UNCHANGED vars
-----------------------------------------------------------------------------
Pieces == {<<>>} \cup {<<k>> : k \in LineKind} \cup {<<k, l>> : k, l \in LineKind}

Server ==
    \/ \E a \in Refusal \cup Broken : OpenFails(a)
    \/ OpenSucceeds
    \/ \E kinds \in Pieces : Arrive(kinds)
    \/ \E kind \in {"protocol", "httpx", "unhandled"} : Break(kind)
    \/ Eof

Own == Begin \/ Open \/ LeaveLoop \/ Wake \/ ParseData \/ ParseJunk \/ ParsePoison \/ ParseEnd

Consumer == Resume \/ Finish \/ (\E a \in Refusal \cup Broken : FinishFails(Raised(a)))

Next == Server \/ Own \/ Consumer \/ Tick \/ Close \/ Cancel \/ Terminated

Spec == Init /\ [][Next]_vars

(***************************************************************************)
(* Scheduling: the event loop runs a ready generator, sleeps end and time  *)
(* passes; the consumer keeps iterating or closes.  The server or httpx's  *)
(* read timeout is only counted on when the caller set a timeout.          *)
(***************************************************************************)
FairSpec ==
    /\ Spec
    /\ WF_vars(Own) /\ WF_vars(Consumer) /\ WF_vars(Tick)
    /\ ServerActs => WF_vars(Server)
-----------------------------------------------------------------------------
TypeOK ==
    /\ call \in Call
    /\ pc \in {"start", "ready", "opening", "reading", "parsing", "yielded", "yielded_done",
               "backoff", "done"}
    /\ attempt \in Nat
    /\ last_error \in Error
    /\ yielded_any \in BOOLEAN
    /\ stream \in Stream
    /\ result \in Result
    /\ delivered \in Seq(Chunk)
    /\ stale \in Seq(Chunk)
    /\ hooks \in Seq({"request", "retry", "response", "error"})
    /\ puts \in Seq(Seq(Chunk))
    /\ sent \in Nat
    /\ delay \in 0..MaxBackoff

Attempts == call.max_retries + 1
WithinAttempt == pc \in {"opening", "reading", "parsing", "yielded", "yielded_done"}

(***************************************************************************)
(* What the consumer has of the latest attempt is a prefix of what that    *)
(* attempt put on the wire, followed by the done chunk: nothing twice,     *)
(* nothing out of order, nothing skipped.  Of an attempt that was repeated *)
(* it has nothing (base.py:923-924), or the done chunk alone when the      *)
(* stream was empty and on_response failed.                                *)
(***************************************************************************)
DeliveredInOrder ==
    /\ Len(delivered) <= Len(stream.wire) + 1
    /\ delivered = SubSeq(Append(stream.wire, Done), 1, Len(delivered))
    /\ \A i \in 1..Len(stale) : stale[i].line = 0 /\ stale[i].attempt < sent

(***************************************************************************)
(* Once the consumer holds output, of any attempt, the call sends nothing  *)
(* more, whatever breaks: the generator ends with that attempt.  The done  *)
(* chunk is no output, and may come once for each attempt.                 *)
(***************************************************************************)
HoldsOutput == \E chunks \in {stale, delivered} :
                   \E i \in 1..Len(chunks) : chunks[i].line # 0
OutputEndsRetries == [][HoldsOutput => sent' = sent]_vars

(***************************************************************************)
(* The cache gets an answer at most once, only when the stream was         *)
(* consumed to the end, and then exactly what the consumer saw of that     *)
(* attempt (base.py:910-918): a stream broken off, abandoned or repeated   *)
(* leaves no entry for a later request to hit.                             *)
(***************************************************************************)
CacheWhole ==
    puts # <<>> =>
        /\ result.kind = "completed"
        /\ call.caching
        /\ delivered = Append(stream.wire, Done)
        /\ puts = <<delivered>>

(***************************************************************************)
(* An observer counting hooks can tell what happened: on_request runs once *)
(* and first, on_retry before each further request, on_error last, on      *)
(* every exception of the try block.  on_response runs when a stream was   *)
(* consumed, and is the last hook unless it failed: on_error follows, or   *)
(* on_retry, once for each attempt whose done chunk was all it gave.       *)
(***************************************************************************)
LastHook == hooks[Len(hooks)]
HookOrder ==
    /\ \A i \in 1..Len(hooks) :
          /\ (hooks[i] = "request") <=> (i = 1)
          /\ hooks[i] = "error" => pc = "done" /\ i = Len(hooks)
          /\ hooks[i] = "response" =>
                IF i = Len(hooks) THEN pc = "done" ELSE hooks[i + 1] \in {"error", "retry"}
    /\ WithinAttempt => Len(hooks) = sent + Len(stale)
    /\ CASE result.kind = "completed" -> LastHook = "response"
         [] result.kind = "raised" -> LastHook = "error"
         [] result.kind \in {"abandoned", "cancelled", "silent"} ->
              LastHook \in {"request", "retry"}
         [] OTHER -> TRUE

(***************************************************************************)
(* Once the stream is past its wall-clock cap no further line of it is     *)
(* taken, however busy the server is (transport.py:485-489).               *)
(***************************************************************************)
LateCut ==
    [][stream.late /\ pc # "opening" => stream'.lines = stream.lines]_vars

(***************************************************************************)
(* A failure that could have been retried reaches the caller only when the *)
(* attempts are used up or output was already handed over, and an          *)
(* interrupted stream is reported only when bytes of it arrived; a stream  *)
(* ends without a word only when no attempt was allowed.                   *)
(***************************************************************************)
OutcomeJustified ==
    /\ result.kind = "raised" =>
          /\ Transient(result.error) => delivered # <<>> \/ sent = Attempts
          /\ result.error.kind = "interrupted" => stream.bytes
    /\ result.kind = "silent" => call.max_retries < 0 /\ sent = 0

(* The generator comes to an end if the server or the read timeout ends    *)
(* every silence and the consumer keeps asking: no bad line, hint or       *)
(* failure keeps it looping.                                               *)
StreamEnds == <>(pc = "done")
-----------------------------------------------------------------------------
(***************************************************************************)
(* The stream implements BoundedCall: the whole of an attempt, from the    *)
(* request to the last chunk, is one exchange in flight.                   *)
(***************************************************************************)
Phase == IF pc = "done" THEN "settled" ELSE IF WithinAttempt THEN "inflight" ELSE "ready"

Worth(e) == IF Transient(e) THEN "transient" ELSE "fatal"
Verdict ==
    CASE result.kind = "completed" -> "good"
      [] result.kind = "raised" -> Worth(result.error)
      [] result.kind = "hook" /\ sent > 0 -> "fatal"
      [] result.kind \notin {"completed", "raised", "hook"} /\ sent > 0
         /\ Len(hooks) > sent + Len(stale) -> Worth(last_error)
      [] OTHER -> "none"

Outcome ==
    CASE result.kind = "none" -> "none"
      [] result.kind = "completed" -> "value"
      [] result.kind \in {"cancelled", "abandoned"} -> "cancelled"
      [] OTHER -> "error"

Contract == INSTANCE BoundedCall WITH
    budget <- IF call.max_retries >= 0 THEN Attempts ELSE 0, phase <- Phase,
    sent <- sent, verdict <- Verdict, outcome <- Outcome

(* Every behaviour of the code is one the contract allows.                 *)
ImplementsContract == Contract!Spec
=============================================================================

# TLA+ models of kaos-llm-client

kaos-llm-client is a Python client for language-model providers: one API over a
dozen HTTP services, with retries, streaming, a response cache, failover, and
wrappers for concurrency and instrumentation.  This directory holds TLA+
specifications of the parts whose behaviour depends on the order of events, the
TLC configurations that check them and the proofs TLAPS checks.  Paths below are
relative to `src/kaos_llm_client/`; `README.md`, `docs/` and `tests/` are those
of the repository.

## The system

| Part | Where | State | Operations |
| --- | --- | --- | --- |
| Retry policy, error mapping | `transport.py`, `errors.py` | none | status to exception, `should_retry`, `backoff_seconds`, Retry-After |
| Blocking call | `transport.py` `execute_with_retry` | attempt counter, last error | attempt loop, back-off, size cap, `service_tier` fallback |
| Streamed call | `providers/base.py` `request_stream_async`, `transport.py` `parse_sse_stream` | attempt, line buffer, byte count, `yielded_any`, accumulator | open, parse, yield, retry, finish |
| Request life cycle | `providers/base.py` `request_async` | hit and miss counters | hooks, cache lookup, exchange, parse, store |
| Response cache | `cache.py` | a directory of gzip files | `get`, `put`, `clear` |
| Failover | `providers/fallback.py` | index of the client, last error, `yielded` | try the next client |
| Per-loop HTTP clients, `run_sync` | `providers/base.py`, `transport.py` | clients keyed by loop id | get, reap, close |
| Concurrency limit | `providers/concurrency.py` | a semaphore | acquire around a request or stream |
| Instrumentation, wrapper | `providers/instrumented.py`, `providers/wrapper.py` | usage totals | delegate, count |
| Azure credentials | `providers/_azure_auth.py` | the token resolved for the current request | resolve, build headers, clear |
| Cassettes | `cassette.py` | recorded exchanges, replay cursor | record, look up, replay, save, load |
| Stream accumulation | `types.py`, chunk parsers of the providers | text, thinking, tool calls, usage | parse a chunk, feed, read |
| Structured output | `providers/base.py` `json_async`, `pydantic_async`, `json_utils.py` | the retry conversation | ask, read JSON, validate, ask again |
| Schema transformers | `profiles.py` | none | the schema of a type in the dialect of a provider |
| Message conversion | `messages.py`, `providers/*.py` | none of its own (the caller's dictionaries) | convert, parse, reply to message |
| Profiles, cost, settings, tools, CLI | the rest | tables, environment | lookups, argument handling |

A call of `request_async` runs `on_request`, looks into the cache, sends the
request through `execute_with_retry`, parses the answer, runs `on_response`
and stores it.  A streamed call never looks into the cache; it loops over
attempts itself, feeds an accumulator as it yields, and writes a cache entry
after the last chunk.  A `FallbackClient` drives whole clients the same way.
Everything on one event loop interleaves at `await` and `yield` only; several
processes share nothing but the cache directory.

What is hard here, and what makes each part correct:

* A failed exchange may be retried, fall back to another service tier, or end
  the call.  The caller must not pay for requests it did not allow, nothing is
  sent after an answer that settles the call, the server's delay is honoured,
  and the error reported is the one that mattered.
* A stream can break, stall, go on too long, or be dropped by the consumer at
  any chunk.  The consumer must see one attempt's chunks in order, a cache
  entry must only exist for what was consumed to the end, and hooks must tell
  the truth.
* Cache files are truncated in place and written without a lock; a process may
  die in between.  A hit must be a whole answer given for that key.
* Failover must not mix two answers and must not hide a failure that no other
  client could cure.
* Several tasks, threads and loops share one provider object: its HTTP clients,
  a semaphore, a resolved Azure token.
* Parsers fold a sequence of deltas into one answer.  It must be the answer a
  request without streaming would have had, since one cache serves both.
* A conversation is converted into the format of a provider, a reply is
  converted back, and both may happen again with another provider.  Results
  must stay with their calls, and what was said must not get lost.
* JSON is read out of prose, fences and answers that were cut.  What reaches
  the caller must be what the model said, and an answer must not be taken for
  complete because it could be repaired.

`PROJECT.json` lists the hazards line by line.

## Modules

| Module | Models | Checked by | Proved in |
| --- | --- | --- | --- |
| `RetryPolicy` | which outcome of an exchange raises what, which is retried, after what delay | through the two calls | - |
| `BoundedCall` | abstract: what any call promises, whatever it does inside | - | - |
| `ExecuteWithRetry` | `execute_with_retry` | `MCExecuteWithRetry` | `ExecuteWithRetryProofs` |
| `StreamRequest` | `request_stream_async` with `parse_sse_stream`, the server and the consumer | `MCStreamRequest` | `StreamRequestProofs` |
| `FileCache` | `get`, `put`, `clear` as file system calls of several processes | through the life cycle | - |
| `RequestLifecycle` | `request_async` around the cache, several processes (EXTENDS `FileCache`) | `MCRequestLifecycle` | `ClientProofs` |
| `FallbackClient` | both loops of `FallbackClient` | `MCFallbackClient` | `ClientProofs` |
| `LoopClients` | the HTTP clients several threads share, and `run_sync` | `MCLoopClients` | `LoopClientsProofs` |
| `Cassette` | sessions of `use_cassette` on one file | `MCCassette` | `CassetteProofs` |
| `SharedClient` | a limiter around an Azure client, shared by tasks of several loops | `MCSharedClient` | `SharedClientProofs` |
| `StreamAccumulator` | the accumulator and its response | through the assembly | - |
| `ChunkParsers` | an event, and a whole body, as four wire formats put it (EXTENDS `StreamAccumulator`) | through the assembly | - |
| `StreamAssembly` | one answer streamed event by event (EXTENDS `ChunkParsers`) | `MCStreamAssembly` | `StreamAssemblyProofs` |
| `WireFormats` | messages to a request body and back, in five converters | through the conversation | `ClientProofs` (lemmas) |
| `Conversation` | a list of messages sent by clients of several providers (EXTENDS `WireFormats`) | `MCConversation` | `ClientProofs` |
| `JsonUtils` | which JSON value is read out of a text | through structured output | - |
| `SchemaTransform` | the schema transformers | through structured output | - |
| `ValidationLoop` | one call of `pydantic_async`, whatever is read out of an answer and asked for | through structured output | `ValidationLoopProofs` |
| `StructuredOutput` | what that call reads, validates and sends (EXTENDS the three) | `MCStructuredOutput` | - |

Operators named `Slip...` are faulty variants of the definition that follows
them: an off-by-one, a dropped guard, a step out of order.  No specification
uses them; `PROJECT.json` ("mutants") pairs each property with one, and TLC
refutes the property when the variant takes the definition's place.

The modules compose where the components do.  `ExecuteWithRetry` and
`StreamRequest` share `RetryPolicy` and implement `BoundedCall`, and so do the
two loops around them: for `FallbackClient` a request is one client's whole call
(retries included), for `ValidationLoop` one exchange of `request_async`;
`RequestLifecycle` runs over `FileCache`; `StreamAssembly` is what the inner loop
of `StreamRequest` does with the content of its chunks.  `JsonUtils` and
`SchemaTransform` recurse over data (nesting of brackets, of schemas) with
`RECURSIVE` operators, which the provers cannot see through, so these and
`StructuredOutput` are for TLC only.  `ValidationLoop`, which can be proved
about, therefore takes what they compute as constants (`Reading`, `Valid`,
`SchemaSent`, `Endless`); the configurations give these the definitions of
`StructuredOutput`, and the proofs hold whatever they are.

### ExecuteWithRetry

One call.  `attempt`, `last_error` and `result` are the code's; `pc` says where
the coroutine is suspended; `requests` and `answers` are history, and what
the properties are about.  `Send` is the head of the loop, `Receive...`
the three ways its body ends, `Wake` the end of `asyncio.sleep`, `FlexSend` and
`FlexReceive` the fallback without `service_tier`, `GiveUp` the tail, `Cancel`
a cancellation at any await.  The server may answer anything in `Answer`: a
2xx, too large or not; any status with or without Retry-After; a connection
failure; an exception no handler names.  Negative `max_retries` are allowed,
because nothing in `RequestOptions` forbids them.

Time is counted in whole units.  A jittered delay is any whole number of units
up to its bound.

### StreamRequest

One call from the first `__anext__`.  A line of the body is one chunk, two
chunks, junk (a comment, bad JSON), poison (JSON the provider's parser raises
on) or `[DONE]`; a piece of the body carries none, one or two lines.  A chunk
is identified by attempt, line and position, so that duplication, loss and
reordering are visible.  The server acts by `OpenFails`, `OpenSucceeds`,
`Arrive`, `Break` and `Eof`, the consumer by `Resume`, `Finish` and `Close`, the
loop by `Cancel`, the clock by `Tick`.  A hook may raise.  `on_response` runs
inside the try block and may raise anything (`FinishFails`), what the policy
retries included: when the done chunk was all the attempt gave, the request is
made again.  `delivered` is what the consumer has of the latest attempt, `stale`
what it has of earlier ones, which is done chunks only.

### FileCache and RequestLifecycle

An entry is a head and a tail, because a compressed answer can take more than
one `write`.  The operators take the process, so that the life cycle interleaves
them.  `Decoded` says what reading a torn file yields: nothing, an exception
`get` handles, or one it does not.  It takes for granted that gzip's length and
checksum refuse a file that is torn or mixed from two answers.  `Unlink` is one
step of `rmtree`; a writer that holds the file is detached from then on.
`call[p]` follows one call of a process through lookup, exchange and storing;
the exchange is one step here, because `ExecuteWithRetry` shows what it does
inside.  `answered[k]` records the answers `on_response` accepted for a key.

### FallbackClient

What a client's own call does is reduced to the chunks it yields and how it
ends.  `failures` and `delivered` are history.

### LoopClients

One provider client, several threads.  `entries` is `_async_clients`, `injected`
the slot for a client assigned outside any loop.  A loop is its address and a
serial number: the address is free again once no thread runs the loop and no
entry holds it.  `home[t]` is the loop a thread's own code runs in, `chat[t]`
the one `run_sync` opened for the current call; with both, the worker thread of
`run_sync` acts and the caller waits.  A call goes through the reaper
(`ScanKey`, `Sweep`), the lookup (`Lookup`, `Fill...`) and the exchange
(`Finish`).  There is no lock, so an action ends where the interpreter may run
another thread: at each turn of a loop and after each call.  A client has the
loop it was built on, or given for.  One given or built outside any loop sits in
the slot and has none (`NoLoop`); the properties speak of it by name
(`FromSlot`), because every later loop adopts it.  Each pop of `aclose()` and
each deletion of the reaper is a step (`Pop`, `Sweep`), so that other threads
come in between.  A loop has one task: what another task of the same loop does
at the `await` of an `aclose()` is seen only as far as another thread can do it
there (delete a key that was to be popped), and a call whose client is closed by
its own loop's other task is not modelled.

### Cassette

A test asks the requests of `program` in every session; a session has a mode
and a way to look up.  Two requests of a program are the same when
`cassette_key` makes no difference between them.  An answer is the session and
the request it was given to live, so that a replayed one can be told from a new
one.  The test looks up before it asks the provider, as `CassetteReplayClient`
describes, and asks one request at a time (`serial`) or several at once.
`by_key` and `element` are the lists `_by_key` keeps, as places in `entries`.
`SaveOpen` truncates the file, `SaveWrite` fills it; a crash in between leaves
some lines and perhaps a torn one.

### SharedClient

A task makes one call (a request, a request from a running loop, a stream or an
embedding) on a loop.  `turn` says which task is between two awaits on a
thread: the loop runs no other until it lets go, other threads go on.
`request()` inside a running loop opens a loop of its own (`Thread`) and blocks
the one it was called on (`Blocked`).  `sem` is `asyncio.Semaphore`: its value,
its queue, the waiters that were granted a slot and have not run since, and the
loop it bound itself to when a task first had to wait.  A grant from a foreign
thread puts a callback into a loop that is not woken (`deaf`), until a task of
that loop runs.  `Able(t)` says when a task can go on; it is the guard of its
steps, and what `StuckExplained` says of tasks that cannot.  `resolved` is the
field `_resolved_ad_token`, known by the task whose token it is, `header` what a
task sent.

The semaphore takes no lock, so a task on another thread can run wherever the
code of this one may be preempted.  `Start` is its look at the value, `Take` or
`Enqueue` what it does about it; `Leave` gives the slot back, `Wake` grants it to
who is first in the queue.  In between the task keeps its thread and other
threads go on.  Each of these is one step, `Wake` with the loop over the queue
inside it.  With its slot a task resolves its token (`Resolve`), builds its
headers (`Build`) without an await, sends and clears (`Clear`); an embedding
takes a token that is there and holds no slot.

The properties speak of tasks of one loop, with or without `request()` calls
that block it (`SameLoop`, `OneLoop`).  Of tasks of several loops nothing is
claimed, and TLC shows why not: see the departures.

### StreamAccumulator, ChunkParsers and StreamAssembly

A server puts an answer on the wire, event by event, in the format of chat
completions, OpenAI Responses, Anthropic or Google; the actions `Chat...`,
`Responses...`, `Anthropic...` and `GoogleEvent` say which events each may send
next.  `message` is what it has said so far, and what one body would have said;
`parse_response` reads it as the blocking request does.  `acc` is the
accumulator, fed with the chunks `parse_stream_chunk` makes of each event.  A
text is a sequence of numbered pieces, the arguments of a call a sequence of
fragments, so that loss, repetition and mixing are visible.  `Peek` is a
consumer that reads `.accumulated` while the stream goes on, which closes the
call in progress.  `losses` is history: the kinds of events seen that the
streamed reading cannot keep.  The properties name each kind, and demand
agreement whenever none that touches the field was seen.

### WireFormats and Conversation

The caller adds system and user messages, cache points and tool results to
`messages`; `Send(p)` converts the list with the client of provider `p` into
`body`; `Reply` appends `from_response` of what the model said; `Raise` is a call
that fails, after which the list may be sent again, to any client, as a
`FallbackClient` does.  Anthropic's conversion annotates the caller's
dictionaries, so `Send` changes `messages` (`Touched`).  A block is its type and
a number for what it stands for, so that a result can be matched with its call.
`Chosen` picks the elements of a sequence at some places in their order; the
selections of the code (system messages, calls of a reply, all but the cache
points) are cases of it.

### ValidationLoop, JsonUtils, SchemaTransform and StructuredOutput

A text is a sequence of marks: the punctuation of JSON, quotes, escapes, fences,
digits, words.  `output_json` and `extract_json` are the code's scanners with
their repairs and the recovery of cut answers.  A schema is a function of its
keywords; the transformers are given per dialect, and `Accepts` (a property's
operator) is the meaning of a schema for a value.  The cache is a directory that
outlives the call: it begins with entries others have left (`held`, any of
`Held(client)`), and `Elsewhere` is another call that writes one or clears it.
One call goes through `Ask` (or `AskNothing`: negative retries, a recursive
schema that has no end, citations), `Answer` or `Raise`, and `Read`, which
returns or asks again with a `Correction`.  The caller's validator may refuse a
value, return another one ("transformed"), or raise something other than
`ValueError`, which ends the call at once ("escaped"), as such an error of a
validator of the type does.  An answer carries what the model meant (`meant`,
`whole`), which the code never sees, and the properties compare with.

## Runs

Passing runs:

| Run | Shows | Bounds |
| --- | --- | --- |
| `execute` | fallback once and last, delays, the final error, termination, refinement of `BoundedCall` (which bounds the requests and sends nothing after an answer that settles the call) | `max_retries` -1, 0, 1, 2; statuses 401, 422, 429; Retry-After 0 and 5 against a cap of 3 |
| `stream` | one attempt's chunks in order and of repeated ones the done chunk at most, cache entry whole, hook order, the outcome, wall-clock cap, termination, refinement | `max_retries` -1, 0, 2; 3 lines per attempt in pieces of up to 2 |
| `lifecycle` | a hit is an accepted answer of that key, only such bytes on disk, hooks as the call ended, calls end | 2 processes, 2 calls each, 1 key, 2 answers, crashes, failed writes, clear |
| `fallback` | one source, failover for cause, the decisive failure | 3 clients, 3 chunks |
| `loops` | a call works with its own loop's open client or with one out of the slot, `aclose()` touches no other loop's, `run_sync` sends nothing twice | 2 threads, 4 addresses, 5 calls between them |
| `cassette` | a replay answers as the recording did, a session on an existing cassette loses nothing of it | 2 keys, 3 requests, 3 sessions |
| `shared` | for tasks of one loop: no slot is lost or made, who can get stuck and why, whose token is sent, calls end | 3 tasks in every mixture of kinds, 2 loops, 1 slot |
| `assembly` | nothing invented, streamed and blocking reading agree, so do usage and ending | events per answer: chat 4, Responses 7, Anthropic 9, Google 4; 2 tool calls |
| `conversation` | results follow their calls, replies are replayed, annotations stay at their cache points, and which of them reach Anthropic | 4 providers, 2 replies, 7 messages, 1 cache point |
| `structured` | the schema reaches the model and means what the type says (what strict mode leaves of it), no field of the value is made up and where some are lost, what the cache serves, how the call ends | retries -1 to 3; the cache empty or with up to 2 entries of others, of 3, one an answer that fails; 7 schemas against 3604 values; thousands of answers for a single attempt, 4 where there are retries |

The bounds let every branch happen at least once more than needed: two retries
show that a delay belongs to the failure before it and not to an older one; a
hint above and below the cap; three lines in pieces of two give a stream cut
before, inside and after a piece; two processes with two calls each give a
reader, a writer, a crash between two writes and a later call that meets the
torn file; with three clients the one that succeeds can be the first, one in
the middle or the last.  Five calls let one thread leave a dead entry, both reap
it, and a third loop take over its address; four addresses are one for each
loop that two threads can be in at a time.  Three requests over two keys repeat
one and interleave it with the other; three sessions record, go on in `auto`,
and replay.  Three tasks on one slot give a holder, a waiter and a third whose
cancellation or release may pass a grant by; two loops are enough for a foreign
one.  The events of an answer suffice to open two calls, interleave both
fragments of their arguments, and report usage twice (in Anthropic's format nine
make a start, a call and one more block, and both reports).  Two replies
with two calls each and a third request after them put results behind results
of another turn.  Two retries show that a correction replaces the one before
it, and that an equal answer makes an equal request, three that the answers
need not follow each other.  The entries of others are an answer that fails, to
the question itself, and two that follow its correction, so that a rerun is
served a failed first attempt and a retry, or asks anew in between.  A text is
cut at every mark; the values have two levels because the schemas nest two deep.

The inductive invariants are proved and therefore not checked again here.

Runs that end in a violation show where the code departs from what the
repository says of it; "findings" in `PROJECT.json` quotes the statement.

| Run | The code |
| --- | --- |
| `loops_race` | fails one of two concurrent `chat()` calls that reap the same dead loop |
| `structured_tool` | never reads the arguments of the call it makes the model call |

### Other departures

What follows from the models without a run of its own, by module; the
definition that shows it is named, and the line the code departs from where
there is one.

`ExecuteWithRetry`, `RetryPolicy`: the fallback is sent without the audit line
every other request has (`FlexSend`; `transport.py:913` against `:197`); a 401
answered to the fallback is raised as exhausted retries (`FlexReceive`, against
`errors.py:23`); an HTTP/2 protocol error leaves a blocking call as a bare httpx
exception (`ReceiveFatal`, against `errors.py:33`); a request without a timeout
passes `timeout=None`, so the client's default never applies (`TimeoutSet`;
`base.py:710`, against `README.md:158`).

`StreamRequest`: Retry-After of a 429 is ignored (`Fail`; `base.py:932`, against
`transport.py:288`); a read timeout after the first chunk surfaces as a bare
httpx exception (`Break`; `transport.py:533`, against `:493`); a negative
`max_retries` ends the stream without a chunk or an error (`LeaveLoop`, against
`base.py:814-815`); a consumer that stops at the done chunk leaves no completion
record, hook call or cache entry (`Close`, against `README.md:37`); the wall
clock is read only when bytes arrive, so a silent socket is not cut at
`stream_max_duration` (`Expired`, against `transport.py:485-489`); a body that
just ends is taken for complete, and cached (`Eof`); an `on_response` that raises
what the policy retries, after a stream of nothing but the done chunk, repeats
the request and hands over a second done chunk (`FinishFails`; `base.py:899`
against the comment at `:923`), because only other chunks count as yielded.

`LoopClients`: a lookup outside any loop builds an ordinary network client and
leaves it in the slot for injected ones (`FillSlot`; `base.py:313-319`), from
where every later loop adopts it (`FillInjected`), against "each loop gets its
own client" (`:166`), which is meant to keep sockets on their loop; a client from
the slot that `aclose()` has closed stays in the slot (`Pop`; `:386-393`) and is
adopted again (`:335-337`), so that calls fail until `close()`.

`FileCache`, `RequestLifecycle`: a call that meets a half-written file fails with
`EOFError` (`Decoded`; `cache.py:131`, against `tests/unit/test_cache.py:146`); a
client whose cache is off stores nothing for `CachePolicy.FORCE` (`LookupMiss`,
against `types.py:29`).

`FallbackClient`: a stream whose connection is refused raises a bare httpx
error, which does not pass on to the next client (`Fail`, against
`fallback.py:3-4`).

`Cassette`: a lookup in replay mode returns `None` on a miss and nothing raises
`CassetteMissError` (`Missed`, against `cassette.py:8` and `:464`, while a test
asserts the `None`); the hooks only record, so that the client of
`cassette.py:37-41` asks the provider on every run (`Asks` is the test's own
call of `lookup`); in `auto` mode a request finds what the session itself has
just recorded, so of two equal requests only the first is live and a rerun goes
live for the second, and in sequence a request gets the answer of the one
before it (`LiveAnswers`, against `cassette.py:40-41`).

`SharedClient`: `request()` inside a running loop deadlocks when a task of that
loop holds the slot (`Blocked`); embeddings pass the limit by (`Enters`).  One
limiter used from several threads, each with its loop, as `run_sync` makes them,
keeps none of what it is for (`concurrency.py:26`, against `:22`): a second
thread that looks before the first has taken the slot takes it too (`Take`), the
value falls to -1 and more than `limit` exchanges are under way; a task that
looks before the last release and queues after it waits beside a free slot
(`Enqueue`); the semaphore belongs to the first loop that had to wait, and
raises `RuntimeError` when one of another loop has to (`Enqueue`); a grant
across threads does not wake the waiter (`deaf`).  The end of a request in one
thread clears the token another is about to send, which falls back to the api
key (`Clear`), and an embedding uses the token of whoever has one
(`azure_openai.py:118-123`).  Outside the model: `WrapperClient` demands an API
key (`wrapper.py:35`), so a client with Azure AD alone cannot be wrapped, and
`InstrumentedClient` counts `request` and `request_async` only, neither streams,
embeddings nor failures.

`StreamAssembly`: of an event that says several things one is kept: Google's
usage is lost when the event has content (`google.py:673`, against the comments
at `:624` and `:672`), and that of a chat event with content, were it the empty
string (`openai_compat.py:382-384`, against the comments at `:386-388`); text
beside tool calls is lost, of two calls in one event one stays; think tags are
not split off a stream; a Responses stream yields neither stop reason, id nor
thinking, and a delta of arguments goes to the latest call whatever item it
names (`openai_responses.py:345`); the total tokens are stale after a second
`message_delta` (`types.py:546`); a name that is repeated is appended; reading
`.accumulated` closes the call in progress (`types.py:569`).

`Conversation`: Anthropic's cache point is dropped after text, images and system
messages (`anthropic.py:261-262`, `:205`, against `:84-90` and the example of
`messages.py:314-318`; the docstring at `tests/integration/test_live.py:1147`
admits it), while the caller's message is annotated all the same; the annotation
is then in the bodies of other providers that are sent the same list
(`anthropic.py:100-113`, against `messages.py:309-310`; `PointsOnWire` says
which blocks bear it); a reply of another provider in OpenAI's form loses its
tool calls on the way to Anthropic and Responses; Google is sent the text of a
replayed reply as Python prints its dictionary (`google.py:147-148`), and
Responses is sent calls inside the content of a message
(`openai_responses.py:68-76`), both against `messages.py:142-147`.

`StructuredOutput`, `JsonUtils`: the second reading in `pydantic_async` always
allows recovery (`base.py:1085`), so a finished answer that `output_json` gives up
on is read in part and loses fields (`ResultSaid`, against `json_utils.py:11-13`,
`types.py:341-349` and `tests/unit/test_json_utils.py:90-96`); two
objects in a fence are read as the first; a bracketed preamble such as `[1]`
wins over the object; a fence inside a string cuts it; native mode sends no
schema with Responses and Bedrock, and `json_object` alone with compatible
servers (`apply_native_json_mode`); negative retries raise `RuntimeError`
(`AskNothing`); a correction starts from the original messages, so an answer
that is repeated makes a request that the cache serves (`RepeatServed`); answers
are cached before they are validated (`base.py:752`), so a second call with the
same question is served the failed answers of the first, one attempt after the
other (`:1091`); an error of a validator other than `ValueError` ends the call
with attempts left (`:1108`, `:1130-1132`; "escaped"); a stop
reason of `completed` counts as one of a cut answer (`truncation_plausible`); a
list as content makes two user messages in a row in prompted mode.

`SchemaTransform`: strict mode closes every object by itself
(`profiles.py:99-117`, `:165-183`), so dictionaries are left empty, `allOf` of
two objects that name different properties admits nothing, and optional
properties become required (`SchemaFits` names what is left); and a recursive
type is a bare `RecursionError` in Google's native mode (tool mode sends the
schema as it is).

## Fairness

Safety needs none.  For the calls to end:

* the event loop runs a coroutine that is ready, and a sleep ends: weak fairness
  of the call's own steps (`Own`, `Step`);
* an exchange ends only because httpx gives up on a silent server, which it does
  when the request carries a timeout.  `TimeoutSet` and `ServerActs` say whether
  the caller passed one; without it the server is not assumed to answer.  The
  life cycle takes the end of the exchange for granted, as `CallEnds` of
  `ExecuteWithRetry` gives it with a timeout;
* the consumer of a stream keeps asking or closes it;
* the tasks of `SharedClient` are run (`Proceed`): loops run what is ready, the
  server and the token provider answer within their time limits, and a stream
  that its consumer dropped is closed by the collector of async generators.

Nothing is assumed about failures, crashes, cancellations or clears.

## Proofs

TLAPS proves for every value of the constants, from the assumptions named next
to the constants (statuses outside 2xx, natural hints and delays, at least one
key, at least one client, tasks apart from loops, markers of a model distinct
from its values, the fields of a structured call):

* `ExecuteWithRetryProofs`: the type invariant and all five safety properties
  of the blocking call, and that it implements `BoundedCall`.  None of the
  properties is inductive: that a request follows a transient answer needs the
  number of requests and answers at each place the call can be suspended at,
  which `AtLoopHead`, `AtRequest`, `AtBackoff`, `AfterLoop` and `AtFallback`
  state; `IInv` is their conjunction with the properties.
* `ClientProofs`, of `RequestLifecycle`: what a hit returns, what is on disk,
  which hooks fired, what SKIP leaves alone, for any number of processes, keys,
  answers and calls, with crashes, failed writes and clears.  `IInv` adds to the
  properties what a process is doing in the cache at each stage of its call
  (`InStep`) and what the call has done by then (`Underway`).  The proof looks
  at one process at a time (`One`) and at the files (`FilesOK`): a step of a
  process changes only its own part and answers only grow (`LocalStep`);
  `Clear`, which detaches several writers at once, has its own argument.
* `ClientProofs`, of `FallbackClient`: the three safety properties for any
  number of clients and any `fallback_on`, and that the chain implements
  `BoundedCall`: its clients are the budget, and a failure is transient only
  when it is one of `fallback_on` and no chunk was handed over.
* `ClientProofs`, of `Conversation`: `ResultsFollowCalls`, `PartsReplayed` and
  `PointsOnWire` for any providers among the five, any number of replies,
  messages and cache points.  `TalkInv` is about the caller's list: the replies
  stand in it in their order and as `from_response` made them, up to annotations
  (`Said`, `Like`); a result stands after the reply with its call and only
  results and cache points come between (`Answering`), no call is answered
  twice, and all but the last reply's are answered (`AnsweredUpTo`); annotations
  are on last blocks before a cache point (`Marked`), whichever clients read the
  list.  It outlives the sending, since `Touched` changes annotations only, and
  leaving out messages that are neither replies nor results (`FollowsPicked`).
  From there to the wire each format has its argument.  Three convert message by
  message (`ChatTurns`, `GoogleTurns`, `ResponsesTurn`), so the results of a
  reply with n calls are the n turns after it (`ResultsRun` counts them).
  Anthropic folds results into the turn before: `TurnsOf` tells the turn `h[k]`
  of message k, two messages share one exactly when all from one to the other
  are results (`Ordered`), and so those of a reply are the turn after it,
  complete.  That `FoldLeft` goes through the list as the code's loop does is
  shown once (`TurnsFolded`), and that what is picked in order is picked in one
  way only (`ListsWithin`, `ChosenListed`).
* `LoopClientsProofs`: the type invariant and the four safety properties for any
  number of threads, addresses and calls.  That a key stands for one loop rests
  on `AddressesApart` (no two live loops share an address, since an entry keeps
  its loop alive) and `LoopsApart` (a running loop is open and one thread's);
  `SerialsPast` says that what is built next is new, `EntriesOwn` and
  `CallStands` what entries and calls hold.  Steps are grouped by what they do
  to the shared state (`SharedKept`, `SharedLess`, `SharedFilled`,
  `SharedOpened`, `EndStep`).  `SoleThread` proves the negation of `loops_race`
  for a thread that has the provider client to itself.

* `StreamRequestProofs`: the type invariant, the five safety properties the run
  checks and one more (`OutputIsFinal`: no request once the consumer holds
  output, that is a chunk other than done), and that the streamed call
  implements `BoundedCall`, for streams of any length and any split into pieces.
  `Wired` says what delivery needs: what is on the wire is what was delivered
  and what is still in the buffer, and the accumulator holds the former.
  `Counted` and `Plain` tie attempt, requests and hooks at each place the call
  can be suspended at.  Until the call is over the properties follow from these
  (`Underway`); each step that ends it shows them anew.  For the refinement the
  verdict of the abstract call is read off the hooks: one more than requests,
  and stale done chunks, for which `on_response` ran, means that the last
  attempt failed and may be repeated.
* `SharedClientProofs`: the type invariant, `TokenOwn` and `StuckExplained` for
  any number of tasks and loops and any limit.  A task at a place where it
  awaits nothing (`Midway`) has not let go of its thread (`Unyielded`), threads
  are kept by tasks of their own (`Turns`), and so on one loop the field still
  holds the token of who is about to send it (`FieldOwn`).  `Moves` is the
  argument for a step of any task.  `OnlyKnownStandstills` is, for tasks of one
  loop, an absence of deadlock but for the one cause the property names, and
  needs `SlotsInv`.  Tasks of one loop take turns even where some of them open
  loops of their own, since these block the loop of the others: while one keeps
  its thread the others are not midway (`OthersRest`), so nobody comes between a
  look at the semaphore and its use (`LookStands`) and no grant goes unheard
  (`Heard`).  Who waits is queued or granted a slot, and slots free, held and
  granted add up to the limit (`Sound`); with tasks queued no slot is free unless
  others are granted one (`Served`), or one is about to be granted (`ToGrant`);
  all who wait do so on the loop the semaphore is bound to (`WaitOnOneLoop`);
  and a task that keeps its thread is able to go on (`KeptForNow`, which holds
  across loops too).  When no task is able to, every slot is held, by tasks of
  blocked threads.
* `CassetteProofs`: `FileGrows` and `Deterministic` for any keys, requests and
  sessions.  The list of the recorder begins with what the session found, is
  numbered through, and the next number is its length.  That a test is told the
  same twice compares two sessions, and needs to know where the second looks
  for what the first was told.  `ToldInv` says so: cursors count the requests
  asked (`Cursors`); what a replay told, the list replies at that place
  (`Replaying`); a serial recording writes its answers in the order of the
  program (`Recording`), AUTO mode on distinct requests writes each as the first
  of its key (`Adding`); and a session that repeats one of these has been told
  the same so far (`Repeating`).
* `ValidationLoopProofs`: `RepeatServed`, `SchemaAsked` and `OutcomeJustified`
  for any calls, answers, number of retries, reading and validation.  Every
  entry of the cache is one that others left there (`held`), or an answer of this
  call to what `Asks` allows at that point (`Remembered`), whatever others write
  or clear meanwhile; and two requests of one call are equal only after equal
  answers (`RequestTells`), because a correction shows the answer it corrects
  and is longer than what the call began with.  The loop implements `BoundedCall`
  too: at most `max_validation_retries + 1` exchanges, a further one only after
  an answer that was not accepted or that the caller's validator could refuse.

* `StreamAssemblyProofs`: the three safety properties of a streamed answer, for
  any number of events, blocks, calls and usages, in the four formats.
  `IInv` compares the message with the accumulator part by part, in the cases
  that `losses` leaves open.  `TextInv`: what is held of text and thinking is
  told in order, piece by piece.  `CallInv`: the fragments held were said and are
  held once, and when nothing was mixed, the calls finished and the one under way
  are those of the message; a call closed early had all of its arguments, unless
  the message is over.  `CountsInv` and `EndingInv`: counts, stop reason and id
  are what the events so far said, for each format in its own way (Anthropic's
  prompt tokens come first, which is why a message has to begin with
  `message_start`).  A step is taken in two halves: what the event does to the
  message (`Receives`), and what the chunks it is parsed into do to the
  accumulator (`Takes`).  The lists folded in a step have one or two elements
  and are opened; the reading of the calls of a whole body (`At`) is shown by
  induction on the number of calls, with a least counterexample in place of an
  induction theorem (`Least`, `Reach`), which the provers cannot use.

Of termination, what is no matter of scheduling is proved as well:
`StepsRunOut`, in the proofs of `ExecuteWithRetry`, `StreamRequest` and
`ValidationLoop`, gives a natural number (`Variant`) that every step of the call
lowers unless it changes nothing.  A blocking call takes at most `3 *
(max_retries + 1) + 3` steps, a streamed one `4 * MaxLines + 8` for each attempt
and two more, a call for structured output `3 * (max_validation_retries + 1) +
1` of its own, which `Elsewhere` neither adds to nor takes from.  `CallEnds` and
`StreamEnds` need beyond that that a call that is not over can step, and
fairness, and are checked by TLC.  The stream's variant rests on one more
invariant: bytes are asked for only when the buffer holds no line (`Drained`).

The refinements of the chain and of the validation loop are proved and are no
property of a run. The chain's run checks `FailoverJustified`, which says what
each client was asked; for the validation loop, TLC keeps no value of a
definition while it evaluates a refinement, and reading JSON out of an answer
again at every use takes too long.

Only model-checked: what the recursive operators of `JsonUtils` and
`SchemaTransform` compute (`ResultSaid`, `WholeWhenFinished`, `SchemaFits`),
which no proof can look into; everything that must eventually happen (liveness
under fairness is outside the prover), and the violations.

## Not modelled, and what could be next

Left out:

* settings, factory, registry, profiles and cost tables: lookups in tables and
  in the environment, without behaviour over time;
* the CLI, the server, the MCP tools' argument handling and the multimodal
  helpers: input and output around one call;
* `FunctionClient`, a test double; the schema cache, which orders keys and
  hashes; the exchange of embeddings, which is that of `ExecuteWithRetry`;
* of the conversions: tool definitions, sampling options, documents and
  citations, the data of images, and white space;
* redaction, wording of errors and logs, permissions of cache files;
* `parse_sse_stream_sync`, the same loop as the modelled one without an event
  loop.

Next: tool definitions in the conversions once a property depends on them;
`JsonUtils` with recursive functions in place of its operators, for proofs about
single passes of the scanner.

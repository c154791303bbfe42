----------------------------- MODULE Conversation -----------------------------
(***************************************************************************)
(* A conversation of several turns, as docs/EXAMPLES.md holds it: the      *)
(* caller adds messages to a list, sends the list with a client of some    *)
(* provider, appends AssistantMessage.from_response(response), answers the *)
(* tool calls with ToolResultMessage and sends the list again, which a     *)
(* FallbackClient may do with a client of another provider.                *)
(***************************************************************************)
EXTENDS WireFormats

CONSTANTS
    Providers,     \* provider names of the clients at hand
    MaxReplies,    \* bound: replies in one conversation
    MaxMessages,   \* bound: messages in the list
    MaxPoints      \* bound: cache points among them

ASSUME ProvidersAssumption ==
    Providers \subseteq {"openai", "anthropic", "google", "openai-responses", "bedrock"}
ASSUME BoundsAssumption == {MaxReplies, MaxMessages, MaxPoints} \subseteq Nat

VARIABLES
    messages,   \* the caller's list
    stage,      \* "caller", "sent", "tools"
    at,         \* provider of the request under way
    body,       \* its body
    replies     \* history: who replied, and what

talkVars == <<messages, stage, at, body, replies>>

NoBody == Body(<<>>, <<>>)
Settled == at' = "none" /\ body' = NoBody

TalkInit ==
    /\ messages = <<>>
    /\ stage = "caller"
    /\ at = "none"
    /\ body = NoBody
    /\ replies = <<>>

Room == Len(messages) < MaxMessages
Add(m) == messages' = Append(messages, m)
LastRole == IF messages = <<>> THEN "none" ELSE Last(messages).role
-----------------------------------------------------------------------------
AddSystem ==
    /\ stage = "caller" /\ Room
    /\ LastRole \in {"none", "system"}
    /\ Add(SystemMessage(Len(messages) + 1))
    /\ UNCHANGED <<stage, at, body, replies>>

AddUser ==
    /\ stage = "caller" /\ Room
    /\ LastRole # "user"
    /\ \E shape \in {"string", "list"} : Add(UserMessage(Len(messages) + 1, shape))
    /\ UNCHANGED <<stage, at, body, replies>>

AddCachePoint ==
    /\ stage \in {"caller", "tools"} /\ Room
    /\ Len(OfRole(messages, {"cache_point"})) < MaxPoints
    /\ Add(CachePoint)
    /\ UNCHANGED <<stage, at, body, replies>>

(* The calls of the last reply that have no result yet.                    *)
CallId(reply, k) == 100 * reply + k
CallIds(parts) == Each(OfType(parts, {"tool_use"}), LAMBDA p : p.of)
Answered == {messages[i].id : i \in {j \in DOMAIN messages : messages[j].role = "tool"}}
Unanswered == IF replies = <<>> THEN {} ELSE ToSet(CallIds(Last(replies).parts)) \ Answered

AddToolResult ==
    /\ stage = "tools" /\ Room
    /\ \E id \in Unanswered :
          /\ Add(ToolResultMessage(id))
          /\ stage' = IF Unanswered = {id} THEN "caller" ELSE "tools"
    /\ UNCHANGED <<at, body, replies>>

Waiting ==
    LET said == WithoutPoints(messages)
    IN  said # <<>> /\ Last(said).role \in {"user", "tool"}

(* request_async up to the exchange.                                       *)
Send(p) ==
    /\ stage = "caller"
    /\ Waiting
    /\ Len(replies) <= MaxReplies
    /\ stage' = "sent"
    /\ at' = p
    /\ messages' = Touched(p, messages)
    /\ body' = build_request(p, WithoutPoints(messages'))
    /\ UNCHANGED replies

(* What a model may reply.                                                 *)
Parts(n) ==
    LET thinking == Block("thinking", CallId(n, 9))
        text == Block("text", CallId(n, 8))
        call(k) == Block("tool_use", CallId(n, k))
    IN  {<<text>>, <<thinking, text>>, <<call(1)>>, <<text, call(1)>>, <<thinking, call(1), call(2)>>,
         <<thinking, text, call(1), call(2)>>}

Reply ==
    /\ stage = "sent"
    /\ Len(replies) < MaxReplies
    /\ \E parts \in Parts(Len(replies) + 1) :
          /\ Add(from_response(at, parts))
          /\ replies' = Append(replies, [by |-> at, parts |-> parts])
          /\ stage' = IF OfType(parts, {"tool_use"}) = <<>> THEN "caller" ELSE "tools"
    /\ Settled

(* The call raises.  The caller may send the list again, to any client.    *)
Raise ==
    /\ stage = "sent"
    /\ stage' = "caller"
    /\ Settled
    /\ UNCHANGED <<messages, replies>>

TalkNext ==
    \/ AddSystem \/ AddUser \/ AddCachePoint \/ AddToolResult
    \/ \E p \in Providers : Send(p)
    \/ Reply \/ Raise

TalkSpec == TalkInit /\ [][TalkNext]_talkVars
-----------------------------------------------------------------------------
(* The replies in the list are all of the provider that reads it.          *)
Native == \A i \in DOMAIN replies : replies[i].by = at
Sent == stage = "sent"

CallTypes == {"tool_use", "functionCall"}
ResultTypes == {"tool_result", "functionResponse"}
IdsOf(turn, types) == {b.of : b \in {turn.blocks[i] : i \in {j \in DOMAIN turn.blocks : turn.blocks[j].type \in types}}}

(* What providers demand of tool use, and reject a request for: every      *)
(* result on the wire is to a call of an earlier turn, and the results to  *)
(* the calls of a turn come right after it, with Anthropic all of them in  *)
(* the next turn (_append_tool_result).  Not so where Responses items are  *)
(* built: calls in a reply never become items there.                       *)
ResultsFollowCalls ==
    Sent /\ Native /\ at \in {"openai", "anthropic", "google"} =>
        LET turns == body.turns
        IN  /\ \A i \in DOMAIN turns : \A id \in IdsOf(turns[i], ResultTypes) :
                  \E j \in 1..i - 1 : id \in IdsOf(turns[j], CallTypes)
            /\ \A j \in DOMAIN turns :
                  LET calls == IdsOf(turns[j], CallTypes)
                      last == IF at = "anthropic" THEN j + 1 ELSE j + Cardinality(calls)
                  IN  calls # {} =>
                        /\ last <= Len(turns)
                        /\ UNION {IdsOf(turns[i], ResultTypes) : i \in j + 1..last} = calls

(* from_response "preserves the full response structure" (messages.py), as *)
(* far as the wire format of the provider takes it up again: when the list *)
(* is sent again nothing of these parts is lost, repeated or reordered.    *)
(* Text for Google is sent as Python prints its dictionary, and calls of a *)
(* Responses reply never become items.                                     *)
AsOnWire == [openai |-> {"text", "tool_use"}, anthropic |-> {"thinking", "text", "tool_use"},
             google |-> {"thinking", "tool_use"}, bedrock |-> {"text"}]
WireTypes == [thinking |-> {"thinking", "thought"}, text |-> {"text", "output_text"},
              tool_use |-> {"tool_use", "functionCall"}]
Stand(blocks) == Each(blocks, LAMBDA b : b.of)

PartsReplayed ==
    Sent /\ Native =>
        LET said == OfRole(body.turns, {"assistant", "model"})
        IN  /\ Len(said) = Len(replies)
            /\ \A r \in DOMAIN replies, type \in IF at = "openai-responses" THEN {"text"} ELSE AsOnWire[at] :
                  Stand(OfType(said[r].blocks, WireTypes[type])) = Stand(OfType(replies[r].parts, {type}))

(* An annotation on the wire is always that of the last block before a     *)
(* cache point, whichever client reads the list: none moves to another     *)
(* block, is repeated in another turn or outlives its point.  But it is on *)
(* the wire of every provider once Anthropic's client has read the list,   *)
(* which annotates the caller's own dictionaries (anthropic.py:100-113).   *)
(* With Anthropic it arrives after a result, and after a reply that ends   *)
(* in thinking or a call.  It does not after text, a system prompt or an   *)
(* image, which are built anew without it: that departs from the docstring *)
(* of _preprocess_messages and from the example of CachePoint.             *)
PointsOnWire ==
    Sent =>
        LET on == UNION {{b.of : b \in {t.blocks[i] : i \in {j \in DOMAIN t.blocks : t.blocks[j].cached}}}
                            : t \in ToSet(body.turns)}
            points == {i \in DOMAIN messages : BeforePoint(messages, i) /\ messages[i].blocks # <<>>}
            whole == {i \in points : \/ messages[i].role = "tool"
                                     \/ Last(messages[i].blocks).type \in {"thinking", "tool_use"}}
            Before(places) == {Last(messages[i].blocks).of : i \in places}
        IN  /\ on \subseteq Before(points)
            /\ Native /\ at = "anthropic" => Before(whole) \subseteq on
=============================================================================

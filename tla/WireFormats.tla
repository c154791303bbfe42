------------------------------ MODULE WireFormats ------------------------------
(***************************************************************************)
(* From the caller's list of messages to the body of a request, and from a *)
(* reply back to a message: messages.py and the _build_request of each     *)
(* provider.                                                               *)
(*                                                                         *)
(* A message has a role, a content and, for a reply in OpenAI's form, the  *)
(* ids of its tool_calls.  A content is missing, a string, or a list of    *)
(* blocks; a string counts as one block of text.  A block is known by its  *)
(* type and by what it stands for, a number: the words, the call, or the   *)
(* call it is the result of.                                               *)
(***************************************************************************)
EXTENDS Integers, Sequences, FiniteSets, SequencesExt

NoId == 0
Block(type, of) == [type |-> type, of |-> of, cached |-> FALSE]
Message(role, shape, blocks) ==
    [role |-> role, shape |-> shape, blocks |-> blocks, tool_calls |-> <<>>, id |-> NoId]
Text(role, of) == Message(role, "string", <<Block("text", of)>>)

SystemMessage(of) == Text("system", of)
UserMessage(of, shape) ==
    IF shape = "string" THEN Text("user", of)
    ELSE Message("user", "list", <<Block("text", of), Block("image_url", of)>>)
ToolResultMessage(id) == [Text("tool", id) EXCEPT !.id = id]
CachePoint == Message("cache_point", "none", <<>>)

Each(s, Op(_)) == [i \in DOMAIN s |-> Op(s[i])]

(* What s has at some of its places, in order.                             *)
Nth(places, k) == CHOOSE i \in places : Cardinality({j \in places : j <= i}) = k
Chosen(s, places) == [k \in 1..Cardinality(places) |-> s[Nth(places, k)]]
OfType(s, types) == Chosen(s, {i \in DOMAIN s : s[i].type \in types})
OfRole(messages, roles) == Chosen(messages, {i \in DOMAIN messages : messages[i].role \in roles})
BesidesRole(messages, role) == Chosen(messages, {i \in DOMAIN messages : messages[i].role # role})
-----------------------------------------------------------------------------
(* AssistantMessage.from_response: parts is the reply, a sequence of       *)
(* blocks of type thinking, text or tool_use; provider is the name the     *)
(* response carries.                                                       *)
Renamed(parts, names) == Each(parts, LAMBDA p : Block(names[p.type], p.of))
Anthropic == [thinking |-> "thinking", text |-> "text", tool_use |-> "tool_use"]
Responses == [text |-> "output_text", tool_use |-> "function_call"]
Google == [thinking |-> "thought", text |-> "plain", tool_use |-> "functionCall"]

SlipTextFirst(provider, parts) ==    \* a slip: thinking is left out, as for the others
    Message("assistant", "list", Renamed(OfType(parts, {"text", "tool_use"}), Anthropic))

from_response(provider, parts) ==
    LET texts == OfType(parts, {"text"})
        calls == OfType(parts, {"tool_use"})
    IN  CASE provider = "anthropic" -> Message("assistant", "list", Renamed(parts, Anthropic))
          [] provider = "openai-responses" -> Message("assistant", "list", Renamed(texts \o calls, Responses))
          [] provider = "google" -> Message("assistant", "list", Renamed(parts, Google))
          [] OTHER -> [Message("assistant", IF texts = <<>> THEN "none" ELSE "string", texts)
                          EXCEPT !.tool_calls = Each(calls, LAMBDA c : c.of)]
-----------------------------------------------------------------------------
(* _preprocess_messages.  The base class only leaves the cache points out. *)
(* Anthropic first puts an annotation on the last block of the message     *)
(* before each, in the dictionary the caller owns.                         *)
WithoutPoints(messages) == BesidesRole(messages, "cache_point")

Annotated(m) ==
    IF m.blocks = <<>> THEN m
    ELSE [m EXCEPT !.shape = "list", !.blocks[Len(m.blocks)].cached = TRUE]

BeforePoint(messages, i) ==
    /\ messages[i].role # "cache_point"
    /\ \E j \in DOMAIN messages : /\ j > i /\ messages[j].role = "cache_point"
                                  /\ \A k \in i + 1..j - 1 : messages[k].role = "cache_point"

(* What the caller's list holds after a client of the provider has read it.*)
Touched(provider, messages) ==
    IF provider # "anthropic" THEN messages
    ELSE [i \in DOMAIN messages |-> IF BeforePoint(messages, i) THEN Annotated(messages[i]) ELSE messages[i]]
-----------------------------------------------------------------------------
(* The body: what the provider reads, as a sequence of turns, and the      *)
(* system prompt where it has a place of its own.                          *)
Body(system, turns) == [system |-> system, turns |-> turns]
Turn(role, blocks) == [role |-> role, blocks |-> blocks]
Calls(m, type) == Each(m.tool_calls, LAMBDA id : Block(type, id))

(* The result of a tool in the provider's form, with what is in the        *)
(* content: an annotation stays an annotation, or is printed with the rest.*)
ToolOutput(type, m) == [Block(type, m.id) EXCEPT !.cached = m.blocks[1].cached]

(* openai_compat.py: the messages as they are.                             *)
ChatBody(messages) ==
    Body(<<>>, Each(messages, LAMBDA m :
        Turn(m.role, IF m.role = "tool" THEN <<ToolOutput("tool_result", m)>> ELSE m.blocks \o Calls(m, "tool_use"))))

(* openai_responses.py, _messages_to_input_items: tool_calls are not read, *)
(* and the blocks of a content stay inside their message.                  *)
ResponsesBody(messages) ==
    Body(<<>>, Each(messages, LAMBDA m :
        IF m.role = "tool" THEN Turn("function_call_output", <<ToolOutput("tool_result", m)>>)
        ELSE Turn(IF m.role = "system" THEN "developer" ELSE m.role, m.blocks)))

(* anthropic.py: text and images are built anew, without their annotation; *)
(* the result of a tool joins the results before it.                       *)
SlipRebuilt(b) == Block(b.type, b.of)    \* a slip: every block is built anew

ConvertContentPart(b) == IF b.type \in {"text", "image_url"} THEN Block(b.type, b.of) ELSE b

SlipOwnTurn(turns, m) ==     \* a slip: each result becomes a message of its own
    Append(turns, Turn("user", <<ToolOutput("tool_result", m)>>))

AppendToolResult(turns, m) ==
    LET result == ToolOutput("tool_result", m)
        merges == /\ turns # <<>>
                  /\ Last(turns).role = "user"
                  /\ Last(turns).blocks # <<>>
                  /\ Head(Last(turns).blocks).type = "tool_result"
    IN  IF merges THEN [turns EXCEPT ![Len(turns)].blocks = Append(@, result)]
        ELSE Append(turns, Turn("user", <<result>>))

AnthropicTurns(turns, m) ==
    IF m.role = "tool" THEN AppendToolResult(turns, m)
    ELSE Append(turns, Turn(m.role, Each(m.blocks, ConvertContentPart)))

AnthropicBody(messages) ==
    Body(FlattenSeq(Each(OfRole(messages, {"system"}), LAMBDA m : Each(m.blocks, ConvertContentPart))),
         FoldLeft(AnthropicTurns, <<>>, BesidesRole(messages, "system")))

(* google.py: a part whose form it does not know is sent as text, the way  *)
(* Python prints it.  A functionCall made from tool_calls has no id.       *)
ConvertContentToParts(b) ==
    CASE b.type = "text" -> Block("text", b.of)
      [] b.type = "image_url" -> Block("inline_data", b.of)
      [] b.type \in {"functionCall", "thought"} -> b
      [] OTHER -> [b EXCEPT !.type = "printed"]

GoogleTurn(m) ==
    IF m.role = "tool" THEN Turn("function", <<ToolOutput("functionResponse", m)>>)
    ELSE Turn(IF m.role = "assistant" THEN "model" ELSE m.role,
              Each(m.blocks, ConvertContentToParts) \o Each(m.tool_calls, LAMBDA id : Block("functionCall", NoId)))

GoogleBody(messages) ==
    Body(FlattenSeq(Each(OfRole(messages, {"system"}), LAMBDA m : Each(m.blocks, ConvertContentToParts))),
         Each(BesidesRole(messages, "system"), GoogleTurn))

(* Bedrock and Azure's Responses endpoint inherit the Responses body under *)
(* another provider name.                                                  *)
build_request(provider, messages) ==
    CASE provider = "anthropic" -> AnthropicBody(messages)
      [] provider = "google" -> GoogleBody(messages)
      [] provider \in {"openai-responses", "bedrock"} -> ResponsesBody(messages)
      [] OTHER -> ChatBody(messages)
=============================================================================

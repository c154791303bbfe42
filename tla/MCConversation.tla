---------------------------- MODULE MCConversation ----------------------------
(* Conversation with one provider of each wire format, for TLC.             *)
EXTENDS Conversation

MCProviders == {"openai", "anthropic", "google", "openai-responses"}
=============================================================================

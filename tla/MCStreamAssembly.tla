--------------------------- MODULE MCStreamAssembly ---------------------------
(* StreamAssembly for TLC.  An anthropic answer takes more events to say   *)
(* the same thing, and leaves the server less choice.                      *)
EXTENDS StreamAssembly

MCMaxEvents == [chat |-> 4, responses |-> 7, anthropic |-> 9, google |-> 4]
=============================================================================

--------------------------- MODULE MCStreamRequest ---------------------------
(***************************************************************************)
(* StreamRequest on a small instance: a fatal and a transient status, a    *)
(* Retry-After above the cap, streams of up to MaxLines lines in every     *)
(* split into pieces of at most two.                                       *)
(***************************************************************************)
EXTENDS StreamRequest

MCErrorStatus == {401, 429}
MCHints == {5}
MCRetries == {-1, 0, 2}
=============================================================================

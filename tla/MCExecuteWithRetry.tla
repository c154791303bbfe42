-------------------------- MODULE MCExecuteWithRetry --------------------------
(***************************************************************************)
(* ExecuteWithRetry on a small instance: one status of each class (two     *)
(* transient ones), a Retry-After below and one above the cap, and every   *)
(* max_retries from the degenerate -1 up to 2.                             *)
(***************************************************************************)
EXTENDS ExecuteWithRetry

MCErrorStatus == {401, 422, 429}
MCHints == {0, 5}
MCRetryChoices == -1..2
=============================================================================

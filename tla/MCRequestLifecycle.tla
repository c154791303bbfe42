-------------------------- MODULE MCRequestLifecycle --------------------------
(***************************************************************************)
(* RequestLifecycle for TLC: the .cfg files give the processes, keys and   *)
(* answers as model values.                                                *)
(***************************************************************************)
EXTENDS RequestLifecycle
=============================================================================

--------------------------- MODULE MCFallbackClient ---------------------------
(***************************************************************************)
(* FallbackClient with three clients and the default fallback_on.          *)
(***************************************************************************)
EXTENDS FallbackClient

MCFallbackOn == DefaultFallbackOn
=============================================================================

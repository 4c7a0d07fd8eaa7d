--------------------------- MODULE MCRateLimiter ----------------------------
(***************************************************************************)
(* Two callers; a bucket of two and a half tokens of two grains each; time *)
(* enough to drain it, to idle until it is full and to drain it again.     *)
(***************************************************************************)
EXTENDS RateLimiter
=============================================================================

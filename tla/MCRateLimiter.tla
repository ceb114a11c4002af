--------------------------- MODULE MCRateLimiter ---------------------------
(* TLC instances of RateLimiter: the constants are given in the cfg files. *)
EXTENDS RateLimiter
=============================================================================

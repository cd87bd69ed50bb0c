--------------------------- MODULE MCRateLimiter ---------------------------
(* The small instance of RateLimiter for TLC.                              *)
EXTENDS RateLimiter
=============================================================================

---------------------------- MODULE MCRateLimit ----------------------------
(* RateLimit for TLC: every small configuration of every limiter.          *)
EXTENDS RateLimit
=============================================================================

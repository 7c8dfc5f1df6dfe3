---------------------------- MODULE MCRateLimit -----------------------------
(* Small instances of RateLimit for TLC.                                   *)
EXTENDS RateLimit
CONSTANTS t1, t2
=============================================================================

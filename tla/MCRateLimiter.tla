---------------------------- MODULE MCRateLimiter ----------------------------
(* RateLimiter for TLC: one download, a rate below the burst floor.  One unit *)
(* is a quarter of a chunk, and the tag, 16 bytes in the code, is one too.    *)
EXTENDS RateLimiter

CONSTANT d1

OneTask == {d1}
LowRates == {1}
=============================================================================

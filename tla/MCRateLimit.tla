---------------------------- MODULE MCRateLimit ----------------------------
(***************************************************************************)
(* An instance of RateLimit for TLC: a burst of two requests, each earned  *)
(* in two units of time, and buckets kept for no longer than they need.    *)
(* A third request at a time is what a bucket too many would serve, a      *)
(* fourth one is there to have made that bucket long before.               *)
(***************************************************************************)
EXTENDS RateLimit, TLC

CONSTANTS a1, a2, r1, r2, r3, r4

MCAddresses == {a1, a2}
MCRequests  == {r1, r2, r3, r4}

LimiterSymmetry == Permutations(MCAddresses) \cup Permutations(MCRequests)
=============================================================================

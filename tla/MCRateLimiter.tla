---------------------------- MODULE MCRateLimiter ----------------------------
(* Instances of RateLimiter for TLC. *)
EXTENDS RateLimiter, TLC

Symmetric == Permutations(Requests) \cup Permutations(Instances)

=============================================================================

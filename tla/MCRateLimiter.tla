---------------------------- MODULE MCRateLimiter ----------------------------
(* One scope of the limiter, a handful of calls and a few ticks.               *)
EXTENDS RateLimiter, TLC

CONSTANTS h1, h2, h3, h4, h5

Symmetry == Permutations(Calls)

=============================================================================

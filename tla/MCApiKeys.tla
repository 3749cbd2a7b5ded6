------------------------------ MODULE MCApiKeys ------------------------------
(* API keys on a small instance: requests and administrators share a pool.     *)
EXTENDS ApiKeys, TLC

CONSTANTS r1, r2, r3, a1, a2, k1, k2, k3

Symmetry == Permutations(Requests) \cup Permutations(Admins) \cup Permutations(Keys)

=============================================================================

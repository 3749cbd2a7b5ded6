------------------------------ MODULE MCGateway ------------------------------
(* The gateway on small instances: two or three calls, two candidates.        *)
EXTENDS Gateway, TLC

CONSTANTS r1, r2, r3, k1, k2, w1, w2, c1, c2, c3

\* Requests, keys and wire ids are interchangeable; so are the candidates that
\* can stream.
Symmetry == Permutations(Requests) \cup Permutations(Keys)
            \cup Permutations(WireIds) \cup Permutations(Candidates \ NonStreaming)

=============================================================================

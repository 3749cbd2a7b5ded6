------------------------------ MODULE MCIdentity ------------------------------
(* Accounts on a small instance: two requests at once, three accounts.         *)
EXTENDS Identity, TLC

CONSTANTS w1, w2, u1, u2, u3, t1, t2, t3

Symmetry == Permutations(Workers) \cup Permutations(Users) \cup Permutations(Tokens)

\* A payload changes one field: the two fields are checked and written separately.
MCPayloads ==
  {change \in Payload : /\ (change.role = "keep") # (change.status = "keep")
                       /\ change.role \in Granted \cup {"keep"}}

=============================================================================

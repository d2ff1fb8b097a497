------------------------- MODULE MCAdminAccounts ---------------------------
(* AdminAccounts on two accounts and two calls at a time.                  *)
EXTENDS AdminAccounts, TLC

CONSTANTS a1, a2, e1, e2, k1, k2, t1, t2

Symmetry == Permutations(Accounts) \cup Permutations(Tokens)
              \cup Permutations(Keys) \cup Permutations(Tasks)
=============================================================================

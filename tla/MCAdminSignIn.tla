--------------------------- MODULE MCAdminSignIn ----------------------------
(* AdminSignIn with two nodes and two calls at a time.                     *)
EXTENDS AdminSignIn, TLC

CONSTANTS n1, n2, t1, t2, h1, h2, h3

MCThresholds == [k \in Kinds |-> [first |-> IF k = "account" THEN 2 ELSE 1,
                                  second |-> IF k = "account" THEN 3 ELSE 2,
                                  third |-> IF k = "account" THEN 4 ELSE 3, step |-> 2]]
MCLocks == [first |-> 1, second |-> 2, later |-> 2]

Symmetry == Permutations(Nodes) \cup Permutations(Tasks) \cup Permutations(Hashes)
=============================================================================

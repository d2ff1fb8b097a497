----------------------------- MODULE MCIssuance -----------------------------
(* Issuance on a small instance.  Tasks are interchangeable.               *)
EXTENDS Issuance, TLC

Symmetric == Permutations(Tasks)
\* Revocation calls are explored with two SVIDs under one policy epoch.
Scenario == admin_calls = 0 \/ (policy_epoch = 0 /\ Len(svids) <= 2)
=============================================================================

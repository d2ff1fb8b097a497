----------------------------- MODULE MCHostAuth -----------------------------
(* HostAuth on a small instance.  Tasks are interchangeable.                *)
EXTENDS HostAuth, TLC

Symmetry == Permutations(Tasks) \cup Permutations(Nonces)
=============================================================================

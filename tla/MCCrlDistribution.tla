-------------------------- MODULE MCCrlDistribution --------------------------
(* CrlDistribution on a small instance.  Tasks are interchangeable.         *)
EXTENDS CrlDistribution, TLC

Symmetric == Permutations(Tasks)
=============================================================================

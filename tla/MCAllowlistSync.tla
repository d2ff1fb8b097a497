--------------------------- MODULE MCAllowlistSync ---------------------------
(* AllowlistSync on a small instance.                                       *)
EXTENDS AllowlistSync, TLC

CONSTANTS a1, a2

\* a1 expires at time 1, a2 outlasts the run.
MCExpiresAt == [a \in Apps |-> IF a = a1 THEN 1 ELSE 100]

\* The serve tasks are interchangeable.
Symmetry == Permutations(Tasks)
=============================================================================

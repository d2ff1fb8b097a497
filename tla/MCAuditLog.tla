----------------------------- MODULE MCAuditLog ------------------------------
(* The audit log with two requests in progress and the tree of merkle.rs.   *)
EXTENDS AuditLog, Merkle, TLC

MerkleRoot(d) == IF d = <<>> THEN leaf_hash(0) ELSE mth([i \in DOMAIN d |-> leaf_hash(d[i])])

RequestSymmetry == Permutations(Requests)

\* Against every head handed out the log's proofs verify: the path of each
\* leaf under the current root, and of no other leaf at that place; the
\* consistency of each head with the current tree, and of no other root.
ProofsVerify ==
    LET d     == [i \in DOMAIN tree |-> leaf_hash(tree[i])]
        size  == Len(d)
        root  == mth(d)
        Other(i) == (i + 1) % size
    IN  up /\ tree # <<>> =>
          /\ \A i \in 0 .. size - 1 :
               LET proof == path(i, d)
               IN  /\ verify_inclusion(d[i + 1], i, size, root, proof)
                   /\ Other(i) # i => ~verify_inclusion(d[Other(i) + 1], i, size, root, proof)
          /\ \A h \in heads :
               LET proof == consistency_proof(h.size, d)
               IN  \A g \in heads : verify_consistency(h.size, size, g.root, root, proof) <=> h = g
=============================================================================

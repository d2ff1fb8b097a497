------------------------------- MODULE Merkle --------------------------------
(***************************************************************************)
(* The RFC 6962 tree of the audit log (ferro-audit/src/merkle.rs): roots,  *)
(* inclusion and consistency proofs, and their verifiers.  Hashes are      *)
(* terms: two hashes are equal when they hash the same thing.              *)
(***************************************************************************)
EXTENDS Naturals, Sequences

leaf_hash(raw) == [leaf |-> raw]

node_hash(l, r) == [left |-> l, right |-> r]

Even(n) == n % 2 = 0

\* largest_pow2_below: the largest power of two smaller than n, for n > 1.
largest_pow2_below(n) == CHOOSE k \in {2 ^ i : i \in 0 .. n} : k < n /\ n <= 2 * k

is_power_of_two(n) == \E i \in 0 .. n : n = 2 ^ i

First(d, k) == SubSeq(d, 1, k)
Rest(d, k)  == SubSeq(d, k + 1, Len(d))

RECURSIVE mth(_)
mth(d) ==
    IF Len(d) = 1 THEN d[1]
    ELSE LET k == largest_pow2_below(Len(d)) IN node_hash(mth(First(d, k)), mth(Rest(d, k)))

RECURSIVE path(_, _)
path(m, d) ==
    IF Len(d) <= 1 THEN <<>>
    ELSE LET k == largest_pow2_below(Len(d))
         IN  IF m < k THEN Append(path(m, First(d, k)), mth(Rest(d, k)))
                      ELSE Append(path(m - k, Rest(d, k)), mth(First(d, k)))

RECURSIVE subproof(_, _, _)
subproof(m, d, b) ==
    IF m = Len(d) THEN IF b THEN <<>> ELSE <<mth(d)>>
    ELSE LET k == largest_pow2_below(Len(d))
         IN  IF m <= k THEN Append(subproof(m, First(d, k), b), mth(Rest(d, k)))
                       ELSE Append(subproof(m - k, Rest(d, k), FALSE), mth(First(d, k)))

consistency_proof(m, d) == subproof(m, d, TRUE)

\* The verifiers' position: the path in the old (or to the leaf) and in the
\* whole tree, both shifted while the first is even.
RECURSIVE SkipEven(_)
SkipEven(at) ==
    IF Even(at.f) /\ at.f # 0 THEN SkipEven([f |-> at.f \div 2, s |-> at.s \div 2]) ELSE at

RECURSIVE SkipOdd(_)
SkipOdd(at) ==
    IF Even(at.f) THEN at ELSE SkipOdd([f |-> at.f \div 2, s |-> at.s \div 2])

Up(at) == [f |-> at.f \div 2, s |-> at.s \div 2]

\* Mutant: a node on the right edge of the tree is taken for a left child.
TakesRightEdge(at) == ~Even(at.f)

\* The sibling is on the left: at.f is a right child or on the right edge.
TakesRight(at) == ~Even(at.f) \/ at.f = at.s

RECURSIVE ClimbInclusion(_, _, _, _)
ClimbInclusion(at, r, proof, root) ==
    IF at.s = 0 THEN proof = <<>> /\ r = root
    ELSE /\ proof # <<>>
         /\ IF TakesRight(at)
            THEN ClimbInclusion(Up(SkipEven(at)), node_hash(Head(proof), r), Tail(proof), root)
            ELSE ClimbInclusion(Up(at), node_hash(r, Head(proof)), Tail(proof), root)

verify_inclusion(leaf, index, size, root, proof) ==
    index < size /\ ClimbInclusion([f |-> index, s |-> size - 1], leaf, proof, root)

RECURSIVE ClimbConsistency(_, _, _, _, _, _)
ClimbConsistency(at, fr, sr, proof, oldRoot, newRoot) ==
    IF at.s = 0 THEN proof = <<>> /\ fr = oldRoot /\ sr = newRoot
    ELSE /\ proof # <<>>
         /\ LET c == Head(proof)
            IN  IF TakesRight(at)
                THEN ClimbConsistency(Up(SkipEven(at)), node_hash(c, fr), node_hash(c, sr),
                                      Tail(proof), oldRoot, newRoot)
                ELSE ClimbConsistency(Up(at), fr, node_hash(sr, c), Tail(proof), oldRoot, newRoot)

\* A proof leaves out its first node when that is the old root itself.
verify_consistency(oldSize, newSize, oldRoot, newRoot, proof) ==
    LET start == SkipOdd([f |-> oldSize - 1, s |-> newSize - 1])
    IN  /\ oldSize > 0 /\ oldSize <= newSize
        /\ IF oldSize = newSize THEN proof = <<>> /\ oldRoot = newRoot
           ELSE IF is_power_of_two(oldSize)
                THEN ClimbConsistency(start, oldRoot, oldRoot, proof, oldRoot, newRoot)
                ELSE /\ proof # <<>>
                     /\ ClimbConsistency(start, Head(proof), Head(proof), Tail(proof),
                                         oldRoot, newRoot)
=============================================================================

------------------------------ MODULE AuditProofs ------------------------------
(***************************************************************************)
(* Proofs about the audit trail: of AuditLog, for any number of requests,  *)
(* any bounds and any function Root of the leaves; of AuditForward and its *)
(* refinement of AuditDelivery, for any number of events, any channel, cap *)
(* and compaction threshold and any number of mishaps.                     *)
(***************************************************************************)
EXTENDS AuditLog, AuditForward, SequenceTheorems, FiniteSetTheorems, WellFoundedInduction, TLAPS

-----------------------------------------------------------------------------
(* The invariant of the log                                                *)

\* The leaf files are those of the first n indices.
Filled(n) ==
    /\ n \in Sizes
    /\ \A i \in Indices : leaves[i] # NoLeaf <=> i < n

\* The first m leaves on disk.
Stored(m) == [i \in 1 .. m |-> leaves[i - 1]]

\* No index is used before an event was made for it.
LeavesInOrder(n) == Filled(n) /\ n <= made

\* The tree is what is on disk, but for one leaf that a failed append left.
TreeStored(n) == up => Len(tree) \in {n - 1, n} /\ tree = Stored(Len(tree))

AckedStored(n) == \A i \in Indices : acked[i] # 0 => i < n /\ leaves[i] = Leaf(acked[i])

HeadsStored(n) == \A h \in heads : h.size <= n /\ h.root = Root(Stored(h.size))

\* A whole head file holds a head that was handed out.
FilesOfHeads == \A m \in Sizes : sths[m].file = "whole" => sths[m].head \in heads

LogStored(n) == LeavesInOrder(n) /\ TreeStored(n) /\ AckedStored(n) /\ HeadsStored(n)

Inv == TypeOK /\ FilesOfHeads /\ \E n \in Sizes : LogStored(n)

-----------------------------------------------------------------------------
(* What a start reads back                                                 *)

LEMMA LeastNatural ==
    ASSUME NEW T \in SUBSET Nat, T # {}
    PROVE  \E x \in T : \A y \in T : x <= y
<1>1. PICK x \in T : \A y \in T : ~(<<y, x>> \in OpToRel(<, Nat))
  BY WFMin, NatLessThanWellFounded, Zenon
<1>2. \A y \in T : <<y, x>> \in OpToRel(<, Nat) <=> y < x
  BY DEF OpToRel
<1>3. \A y \in T : x \in Nat /\ y \in Nat /\ ~(y < x)
  BY <1>1, <1>2
<1>4. \A y \in T : x <= y
  BY <1>3
<1> QED BY <1>4

\* A bounded set of numbers has its maximum.
LEMMA MaxOfBounded ==
    ASSUME NEW N \in Nat, NEW T \in SUBSET (0 .. N), T # {}
    PROVE  Max(T) \in T /\ \A y \in T : Max(T) >= y
<1> DEFINE U == {u \in Nat : \E y \in T : u = N - y}
<1>1. \A y \in T : y \in Nat /\ N - y \in Nat
  OBVIOUS
<1>2. U # {}
  BY <1>1
<1>3. PICK u \in U : \A v \in U : u <= v
  BY <1>2, LeastNatural
<1>4. PICK x \in T : u = N - x
  OBVIOUS
<1>5. ASSUME NEW y \in T
      PROVE  x >= y
  <2>1. N - y \in U
    BY <1>1
  <2>2. N - x <= N - y
    BY <1>3, <1>4, <2>1
  <2> QED BY <1>1, <2>2
<1> QED BY <1>5 DEF Max

LEMMA StoredIsSeq ==
    ASSUME TypeOK, NEW n \in Sizes, Filled(n), NEW m \in 0 .. n
    PROVE  Stored(m) \in Seq(Leaves) /\ Len(Stored(m)) = m
<1>1. \A i \in 1 .. m : i - 1 \in Indices /\ leaves[i - 1] \in Leaves
  BY AuditAssumption DEF TypeOK, Filled, Indices, Sizes
<1>2. m \in Nat
  BY AuditAssumption DEF Sizes
<1> QED BY <1>1, <1>2 DEF Stored

LEMMA OnDiskIsStored ==
    ASSUME TypeOK, NEW n \in Sizes, Filled(n)
    PROVE  OnDisk = Stored(n) /\ Len(OnDisk) = n
<1> DEFINE Whole == {k \in Sizes : \A i \in 0 .. k - 1 : leaves[i] # NoLeaf}
<1>1. \A k \in Sizes : k \in Whole <=> k <= n
  BY AuditAssumption DEF Filled, Sizes, Indices
<1>2. n \in Whole /\ \A k \in Whole : n >= k
  BY <1>1, AuditAssumption DEF Sizes
<1>3. Max(Whole) = n
  <2>1. Max(Whole) \in Whole /\ \A k \in Whole : Max(Whole) >= k
    BY <1>2 DEF Max
  <2> QED BY <1>2, <2>1, AuditAssumption DEF Sizes
<1>4. OnDisk = Stored(n)
  BY <1>3 DEF OnDisk, Stored
<1> QED BY <1>4, StoredIsSeq, AuditAssumption DEF Sizes

LEMMA PrefixIsStored ==
    ASSUME TypeOK, NEW n \in Sizes, Filled(n), NEW m \in 0 .. n
    PROVE  SubSeq(OnDisk, 1, m) = Stored(m)
<1>1. OnDisk = Stored(n) /\ Stored(n) \in Seq(Leaves) /\ Len(Stored(n)) = n /\ n \in Nat /\ m \in Nat
  BY OnDiskIsStored, StoredIsSeq, AuditAssumption DEF Sizes
<1>2. SubSeq(Stored(n), 1, m) = [i \in 1 .. m |-> Stored(n)[i]]
  BY <1>1
<1> QED BY <1>1, <1>2 DEF Stored

-----------------------------------------------------------------------------
(* The steps                                                               *)

\* Where the tree ends and the disk holds no leaf, the tree is what is on
\* disk.
LEMMA NextIndex ==
    ASSUME TypeOK, NEW n \in Sizes, LogStored(n), up, made < MaxLeaves
    PROVE  /\ Len(tree) \in Indices /\ n \in Indices
           /\ leaves[Len(tree)] = NoLeaf => Len(tree) = n
<1>1. Len(tree) \in Nat /\ n \in Nat /\ made \in Nat /\ MaxLeaves \in Nat
  BY AuditAssumption DEF TypeOK, Sizes
<1> QED BY <1>1 DEF LogStored, LeavesInOrder, Filled, TreeStored, Indices

\* Leaves that stay leave what the log says of them.
LEMMA StoredKept ==
    ASSUME NEW m, \A i \in 1 .. m : leaves'[i - 1] = leaves[i - 1]
    PROVE  Stored(m)' = Stored(m)
BY DEF Stored

LEMMA LeafWritten ==
    ASSUME TypeOK, NEW n \in Indices, Filled(n), NEW l \in Leaves,
           leaves' = [leaves EXCEPT ![n] = l]
    PROVE  /\ n + 1 \in Sizes /\ Filled(n + 1)'
           /\ leaves' \in [Indices -> Leaves \cup {NoLeaf}]
           /\ \A m \in 0 .. n : Stored(m)' = Stored(m)
           /\ Stored(n + 1)' = Append(Stored(n), l)
           /\ \A i \in Indices : i < n => leaves'[i] = leaves[i]
<1>1. n \in Nat /\ MaxLeaves \in Nat /\ n < MaxLeaves /\ n \in Sizes /\ n + 1 \in Sizes
  BY AuditAssumption DEF Indices, Sizes
<1>2. l # NoLeaf
  BY AuditAssumption DEF Leaves, NoLeaf, Events
<1>3. \A i \in Indices : leaves'[i] = IF i = n THEN l ELSE leaves[i]
  BY DEF TypeOK
<1>4. Filled(n + 1)'
  <2>1. \A i \in Indices : leaves'[i] # NoLeaf <=> i < n + 1
    BY <1>1, <1>2, <1>3 DEF Filled, Indices
  <2> QED BY <1>1, <2>1 DEF Filled, Indices, Sizes
<1>5. ASSUME NEW m \in 0 .. n
      PROVE  Stored(m)' = Stored(m)
  <2>1. \A i \in 1 .. m : leaves'[i - 1] = leaves[i - 1]
    BY <1>1, <1>3 DEF Indices
  <2> QED BY <2>1, StoredKept
<1>6. Stored(n + 1)' = Append(Stored(n), l)
  <2>1. Stored(n) \in Seq(Leaves) /\ Len(Stored(n)) = n
    BY <1>1, StoredIsSeq
  <2>2. /\ Append(Stored(n), l) \in Seq(Leaves) /\ Len(Append(Stored(n), l)) = n + 1
        /\ \A i \in 1 .. n + 1 : Append(Stored(n), l)[i] = IF i = n + 1 THEN l ELSE Stored(n)[i]
    BY <1>1, <2>1, AppendProperties
  <2>3. \A i \in 1 .. n : Stored(n)[i] = leaves[i - 1]
    BY DEF Stored
  <2>4. \A i \in 1 .. n + 1 : leaves'[i - 1] = IF i = n + 1 THEN l ELSE Stored(n)[i]
    BY <1>1, <1>3, <2>3 DEF Indices
  <2>5. \A i \in 1 .. n + 1 : leaves'[i - 1] = Append(Stored(n), l)[i]
    BY <2>2, <2>4
  <2> DEFINE longer == Append(Stored(n), l)
  <2> HIDE DEF longer
  <2>6. longer \in Seq(Leaves) /\ Len(longer) = n + 1
    BY <2>2 DEF longer
  <2>7. longer \in [1 .. n + 1 -> Leaves]
    BY <2>6, LenProperties
  <2>8. longer = [i \in 1 .. n + 1 |-> leaves'[i - 1]]
    BY <2>5, <2>7 DEF longer
  <2> QED BY <2>8 DEF Stored, longer
<1>7. leaves' \in [Indices -> Leaves \cup {NoLeaf}]
  BY DEF TypeOK
<1> QED BY <1>1, <1>3, <1>4, <1>5, <1>6, <1>7 DEF Indices

LEMMA AppendStep ==
    ASSUME Inv, NEW r \in Requests, AppendEvent(r)
    PROVE  Inv'
<1> DEFINE i == Len(tree)
           l == Leaf(made + 1)
<1>1. PICK n \in Sizes : LogStored(n)
  BY DEF Inv
<1>2. TypeOK /\ up /\ made < MaxLeaves /\ made \in Nat /\ MaxLeaves \in Nat /\ n \in Nat
  BY AuditAssumption DEF Inv, AppendEvent, TypeOK, Sizes
<1>3. i = n /\ n \in Indices
  BY <1>1, <1>2, NextIndex DEF AppendEvent
<1>4. made + 1 \in Events /\ l \in Leaves
  BY <1>2 DEF Events, Leaf, Leaves
<1>5. Filled(n) /\ n <= made /\ tree = Stored(n)
  BY <1>1, <1>2, <1>3 DEF LogStored, LeavesInOrder, TreeStored
<1>6. leaves' = [leaves EXCEPT ![n] = l]
  BY <1>3 DEF AppendEvent
<1>7. /\ n + 1 \in Sizes /\ Filled(n + 1)'
      /\ leaves' \in [Indices -> Leaves \cup {NoLeaf}]
      /\ \A m \in 0 .. n : Stored(m)' = Stored(m)
      /\ Stored(n + 1)' = Append(Stored(n), l)
      /\ \A j \in Indices : j < n => leaves'[j] = leaves[j]
  <2> HIDE DEF l
  <2> QED BY <1>2, <1>3, <1>4, <1>5, <1>6, LeafWritten
<1>8. /\ tree' = Append(tree, l) /\ tree' \in Seq(Leaves) /\ Len(tree') = n + 1
  <2>1. tree' = Append(tree, l)
    BY DEF AppendEvent
  <2>2. tree \in Seq(Leaves) /\ Len(tree) = n
    BY <1>2, <1>3 DEF TypeOK
  <2> HIDE DEF l
  <2> QED BY <2>1, <2>2, <1>4
<1>9. TypeOK'
  <2>1. hashes' \in [Indices -> Files]
    BY <1>2, <1>3 DEF AppendEvent, TypeOK, Files
  <2>3. acked' \in [Indices -> Events \cup {0}]
    BY <1>2, <1>3, <1>4 DEF AppendEvent, TypeOK
  <2>4. request' \in [Requests -> {"idle", "appended"}] /\ made' \in 0 .. MaxLeaves
    BY <1>2 DEF AppendEvent, TypeOK
  <2>2. Len(tree') <= MaxLeaves
    BY <1>2, <1>7, <1>8 DEF Sizes
  <2> QED BY <1>2, <1>7, <1>8, <2>1, <2>2, <2>3, <2>4 DEF AppendEvent, TypeOK
<1>10. FilesOfHeads'
  BY DEF Inv, FilesOfHeads, AppendEvent
<1>11. LeavesInOrder(n + 1)'
  BY <1>2, <1>5, <1>7 DEF LeavesInOrder, AppendEvent
<1>12. TreeStored(n + 1)'
  BY <1>2, <1>5, <1>7, <1>8 DEF TreeStored
<1>13. AckedStored(n + 1)'
  <2>1. acked' = [acked EXCEPT ![n] = made + 1] /\ leaves'[n] = l
    BY <1>2, <1>3, <1>6 DEF AppendEvent, TypeOK
  <2>2. ASSUME NEW j \in Indices, acked'[j] # 0
        PROVE  j < n + 1 /\ leaves'[j] = Leaf(acked'[j])
    <3>1. CASE j = n
      BY <1>2, <2>1, <3>1 DEF TypeOK
    <3>2. CASE j # n
      <4>1. acked'[j] = acked[j]
        BY <1>2, <2>1, <3>2 DEF TypeOK
      <4>2. j < n /\ leaves[j] = Leaf(acked[j])
        BY <1>1, <2>2, <4>1 DEF LogStored, AckedStored
      <4> QED BY <1>2, <1>7, <4>1, <4>2 DEF Indices
    <3> QED BY <3>1, <3>2
  <2> QED BY <2>2 DEF AckedStored
<1>14. HeadsStored(n + 1)'
  <2>1. ASSUME NEW h \in heads
        PROVE  h.size <= n + 1 /\ h.root = Root(Stored(h.size)')
    <3>1. h.size \in 0 .. n /\ h.root = Root(Stored(h.size))
      BY <1>1, <1>2 DEF LogStored, HeadsStored, TypeOK, Sizes
    <3> QED BY <1>2, <1>7, <3>1
  <2> QED BY <2>1 DEF HeadsStored, AppendEvent
<1> QED BY <1>7, <1>9, <1>10, <1>11, <1>12, <1>13, <1>14 DEF Inv, LogStored

\* A step that leaves the leaf files alone.
LEMMA LeavesSame ==
    ASSUME NEW n \in Sizes, LogStored(n), UNCHANGED <<leaves, acked>>,
           made' >= made, made \in Nat, made' \in Nat, TreeStored(n)', HeadsStored(n)'
    PROVE  LogStored(n)'
<1>1. LeavesInOrder(n)'
  <2>1. n \in Nat
    BY AuditAssumption DEF Sizes
  <2> QED BY <2>1 DEF LogStored, LeavesInOrder, Filled
<1>2. AckedStored(n)'
  BY DEF LogStored, AckedStored
<1> QED BY <1>1, <1>2 DEF LogStored

LEMMA HeadsSame ==
    ASSUME NEW n \in Sizes, LogStored(n), UNCHANGED <<leaves, heads>>
    PROVE  HeadsStored(n)'
BY DEF LogStored, HeadsStored, Stored

\* What a failed append left behind is the next leaf, or none.
LEMMA LeftBehind ==
    ASSUME TypeOK, NEW n \in Sizes, LogStored(n), up, made < MaxLeaves, made' = made + 1,
           LeafLeftBehind(Len(tree), made + 1), UNCHANGED <<acked, heads>>,
           ~up' \/ UNCHANGED tree
    PROVE  /\ leaves' \in [Indices -> Leaves \cup {NoLeaf}] /\ hashes' \in [Indices -> Files]
           /\ \E k \in Sizes : LogStored(k)'
<1>1. made \in Nat /\ MaxLeaves \in Nat /\ n \in Nat
  BY AuditAssumption DEF TypeOK, Sizes
<1>2. CASE UNCHANGED <<leaves, hashes>>
  <2>1. TreeStored(n)'
    BY <1>2 DEF LogStored, TreeStored, Stored
  <2>2. LogStored(n)'
    BY <1>1, <1>2, <2>1, HeadsSame, LeavesSame
  <2> QED BY <1>2, <2>2 DEF TypeOK
<1>3. CASE leaves[Len(tree)] = NoLeaf /\ ~UNCHANGED <<leaves, hashes>>
  <2>1. Len(tree) = n /\ n \in Indices
    BY <1>3, NextIndex
  <2>2. [ev |-> made + 1, cut |-> TRUE] \in Leaves /\ Leaf(made + 1) \in Leaves
    BY <1>1 DEF Leaves, Leaf, Events
  <2>3. PICK l \in Leaves : leaves' = [leaves EXCEPT ![n] = l]
    BY <1>3, <2>1, <2>2 DEF LeafLeftBehind
  <2>4. hashes' \in [Indices -> Files]
    BY <1>3, <2>1 DEF LeafLeftBehind, TypeOK, Files
  <2>5. Filled(n) /\ n <= made /\ tree = Stored(n)
    BY <2>1 DEF LogStored, LeavesInOrder, TreeStored
  <2>6. /\ n + 1 \in Sizes /\ Filled(n + 1)'
        /\ leaves' \in [Indices -> Leaves \cup {NoLeaf}]
        /\ \A m \in 0 .. n : Stored(m)' = Stored(m)
        /\ \A j \in Indices : j < n => leaves'[j] = leaves[j]
    BY <2>1, <2>3, <2>5, LeafWritten
  <2>7. LeavesInOrder(n + 1)'
    BY <1>1, <2>5, <2>6 DEF LeavesInOrder
  <2>8. TreeStored(n + 1)'
    <3>1. Stored(n)' = Stored(n)
      BY <1>1, <2>6
    <3>2. up' => tree' = tree /\ Len(tree') = n /\ n \in {(n + 1) - 1, n + 1}
      BY <1>1, <2>1
    <3> QED BY <2>5, <3>1, <3>2 DEF TreeStored
  <2>9. AckedStored(n + 1)'
    <3>1. ASSUME NEW j \in Indices, acked'[j] # 0
          PROVE  j < n + 1 /\ leaves'[j] = Leaf(acked'[j])
      <4>1. j < n /\ leaves[j] = Leaf(acked[j])
        BY <3>1 DEF LogStored, AckedStored
      <4> QED BY <1>1, <2>6, <4>1 DEF Indices
    <3> QED BY <3>1 DEF AckedStored
  <2>10. HeadsStored(n + 1)'
    <3>1. ASSUME NEW h \in heads
          PROVE  h.size <= n + 1 /\ h.root = Root(Stored(h.size)')
      <4>1. h.size \in 0 .. n /\ h.root = Root(Stored(h.size))
        BY <1>1 DEF LogStored, HeadsStored, TypeOK, Sizes
      <4> QED BY <1>1, <2>6, <4>1
    <3> QED BY <3>1 DEF HeadsStored
  <2> QED BY <2>4, <2>6, <2>7, <2>8, <2>9, <2>10 DEF LogStored
<1> QED BY <1>2, <1>3 DEF LeafLeftBehind

LEMMA FaultsStayBounded ==
    ASSUME TypeOK, Fault(1)
    PROVE  faults' \in 0 .. MaxFaults
BY AuditAssumption DEF TypeOK, Fault

LEMMA AppendFailsStep ==
    ASSUME Inv, NEW r \in Requests, AppendFails(r)
    PROVE  Inv'
<1>1. PICK n \in Sizes : LogStored(n)
  BY DEF Inv
<1>2. /\ TypeOK /\ up /\ made < MaxLeaves /\ made' = made + 1 /\ made \in Nat /\ MaxLeaves \in Nat
      /\ UNCHANGED <<sths, up, tree, latest, request, acked, heads>>
  BY AuditAssumption DEF Inv, AppendFails, TypeOK
<1>3. faults' \in 0 .. MaxFaults
  BY <1>2, FaultsStayBounded DEF AppendFails, TypeOK
<1>4. LeafLeftBehind(Len(tree), made + 1)
  BY DEF AppendFails, LeafLeftBehind
<1>5. /\ leaves' \in [Indices -> Leaves \cup {NoLeaf}] /\ hashes' \in [Indices -> Files]
      /\ \E k \in Sizes : LogStored(k)'
  BY <1>1, <1>2, <1>4, LeftBehind
<1>6. TypeOK'
  BY <1>2, <1>3, <1>5 DEF TypeOK
<1>7. FilesOfHeads'
  BY <1>2 DEF Inv, FilesOfHeads
<1> QED BY <1>5, <1>6, <1>7 DEF Inv

\* The head of the whole tree is the root of what is on disk.
LEMMA TreeHeadStored ==
    ASSUME TypeOK, up, NEW n \in Sizes, LogStored(n)
    PROVE  /\ TreeHead(Len(tree)).size = Len(tree) /\ Len(tree) \in Sizes /\ Len(tree) <= n
           /\ TreeHead(Len(tree)).root = Root(Stored(Len(tree)))
<1>1. tree \in Seq(Leaves) /\ Len(tree) \in Nat /\ n \in Nat /\ MaxLeaves \in Nat
  BY AuditAssumption DEF TypeOK, Sizes
<1>2. SubSeq(tree, 1, Len(tree)) = tree
  BY <1>1
<1>3. tree = Stored(Len(tree)) /\ Len(tree) <= n
  BY <1>1 DEF LogStored, TreeStored
<1>4. Root(SubSeq(tree, 1, Len(tree))) = Root(Stored(Len(tree)))
  BY <1>2, <1>3
<1> QED BY <1>1, <1>3, <1>4 DEF TreeHead, TypeOK, Sizes

LEMMA ProduceStep ==
    ASSUME Inv, NEW r \in Requests, ProduceSth(r)
    PROVE  Inv'
<1>1. PICK n \in Sizes : LogStored(n)
  BY DEF Inv
<1>2. /\ TypeOK /\ up /\ made \in Nat /\ request' \in [Requests -> {"idle", "appended"}]
      /\ UNCHANGED <<leaves, hashes, up, tree, made, acked>>
  BY DEF Inv, ProduceSth, TypeOK
<1>3. PICK m, head : m = Len(tree) /\ head = TreeHead(m)
  OBVIOUS
<1>4. m \in Sizes /\ m <= n /\ head.size = m /\ head.root = Root(Stored(m))
  BY <1>1, <1>2, <1>3, TreeHeadStored
<1>5. \/ sths' = sths \/ sths' = [sths EXCEPT ![m] = TornHead]
      \/ sths' = [sths EXCEPT ![m] = HeadFile(head)] /\ heads' = heads \cup {head}
  BY <1>3 DEF ProduceSth, HeadLeftBehind
<1>6. heads' \in {heads, heads \cup {head}} /\ latest' \in Sizes /\ faults' \in 0 .. MaxFaults
  BY <1>2, <1>3, <1>4, FaultsStayBounded DEF ProduceSth, HeadLeftBehind, TypeOK
<1>7. TypeOK'
  <2>1. DOMAIN sths' = Sizes /\ \A k \in Sizes : sths'[k].file \in Files
    BY <1>2, <1>4, <1>5 DEF TypeOK, TornHead, HeadFile, Files
  <2> QED BY <1>2, <1>4, <1>6, <2>1 DEF TypeOK
<1>8. FilesOfHeads'
  <2>1. ASSUME NEW k \in Sizes, sths'[k].file = "whole"
        PROVE  sths'[k].head \in heads'
    <3>1. CASE sths'[k] = sths[k]
      BY <1>6, <2>1, <3>1 DEF Inv, FilesOfHeads
    <3>2. CASE sths'[k] # sths[k]
      <4>1. sths'[k] = TornHead \/ (sths'[k] = HeadFile(head) /\ heads' = heads \cup {head})
        BY <1>2, <1>4, <1>5, <3>2 DEF TypeOK
      <4>2. TornHead.file = "torn" /\ HeadFile(head).head = head
        BY DEF TornHead, HeadFile
      <4> QED BY <2>1, <4>1, <4>2
    <3> QED BY <3>1, <3>2
  <2> QED BY <2>1 DEF FilesOfHeads
<1>9. LogStored(n)'
  <2>1. TreeStored(n)'
    BY <1>1, <1>2 DEF LogStored, TreeStored, Stored
  <2>2. HeadsStored(n)'
    <3>1. ASSUME NEW h \in heads'
          PROVE  h.size <= n /\ h.root = Root(Stored(h.size))
      BY <1>1, <1>4, <1>6 DEF LogStored, HeadsStored
    <3>2. \A k : Stored(k)' = Stored(k)
      BY <1>2 DEF Stored
    <3> QED BY <3>1, <3>2 DEF HeadsStored
  <2>3. made' = made
    BY <1>2
  <2> QED BY <1>1, <1>2, <2>1, <2>2, <2>3, LeavesSame
<1> QED BY <1>7, <1>8, <1>9 DEF Inv

\* A stop loses the process and leaves the files, one of them perhaps torn.
LEMMA CrashStep ==
    ASSUME Inv, Crash
    PROVE  Inv'
<1>1. PICK n \in Sizes : LogStored(n)
  BY DEF Inv
<1>2. /\ TypeOK /\ up /\ made \in Nat /\ up' = FALSE /\ tree' = <<>> /\ latest' = 0
      /\ request' = [q \in Requests |-> "idle"] /\ UNCHANGED acked
  BY DEF Inv, Crash, Stopped, TypeOK
<1>3. faults' \in 0 .. MaxFaults
  BY <1>2, FaultsStayBounded DEF Crash, Stopped
<1>4. /\ tree' \in Seq(Leaves) /\ Len(tree') <= MaxLeaves /\ latest' \in Sizes
      /\ request' \in [Requests -> {"idle", "appended"}]
  BY <1>2, AuditAssumption DEF Sizes
<1>5. CASE UNCHANGED <<leaves, hashes, made, heads>> /\ DOMAIN sths' = Sizes
           /\ \A k \in Sizes : sths'[k].file \in Files /\ (sths'[k].file = "whole" => sths'[k] = sths[k])
  <2>1. TypeOK'
    BY <1>2, <1>3, <1>4, <1>5 DEF TypeOK
  <2>2. TreeStored(n)'
    BY <1>2 DEF TreeStored
  <2>3. made' = made
    BY <1>5
  <2>4. LogStored(n)'
    BY <1>1, <1>2, <1>5, <2>2, <2>3, HeadsSame, LeavesSame
  <2>5. FilesOfHeads'
    BY <1>2, <1>5 DEF Inv, FilesOfHeads
  <2> QED BY <2>1, <2>4, <2>5 DEF Inv
<1>6. CASE UNCHANGED diskVars /\ UNCHANGED <<made, heads>>
  BY <1>2, <1>5, <1>6 DEF diskVars, TypeOK
<1>7. CASE made < MaxLeaves /\ made' = made + 1 /\ LeafLeftBehind(Len(tree), made + 1) /\ UNCHANGED <<sths, heads>>
  <2>1. /\ leaves' \in [Indices -> Leaves \cup {NoLeaf}] /\ hashes' \in [Indices -> Files]
        /\ \E k \in Sizes : LogStored(k)'
    BY <1>1, <1>2, <1>7, LeftBehind
  <2>2. made' \in 0 .. MaxLeaves
    BY <1>2, <1>7, AuditAssumption
  <2>3. TypeOK'
    BY <1>2, <1>3, <1>4, <1>7, <2>1, <2>2 DEF TypeOK
  <2>4. FilesOfHeads'
    BY <1>2, <1>7 DEF Inv, FilesOfHeads
  <2> QED BY <2>1, <2>3, <2>4 DEF Inv
<1>8. CASE sths' = [sths EXCEPT ![Len(tree)] = TornHead] /\ UNCHANGED <<leaves, hashes, made, heads>>
  <2>1. TornHead.file = "torn"
    BY DEF TornHead
  <2>2. DOMAIN sths' = Sizes
        /\ \A k \in Sizes : sths'[k] = sths[k] \/ sths'[k] = TornHead
    BY <1>2, <1>8 DEF TypeOK
  <2> QED BY <1>2, <1>5, <1>8, <2>1, <2>2 DEF TypeOK, Files
<1>9. CASE HeadLeftBehind(Len(tree)) /\ UNCHANGED <<leaves, hashes, made>>
  <2>1. CASE sths' = [sths EXCEPT ![Len(tree)] = HeadFile(TreeHead(Len(tree)))]
             /\ heads' = heads \cup {TreeHead(Len(tree))}
    <3>1. PICK m, head : m = Len(tree) /\ head = TreeHead(m)
      OBVIOUS
    <3>2. m \in Sizes /\ m <= n /\ head.size = m /\ head.root = Root(Stored(m))
      BY <1>1, <1>2, <3>1, TreeHeadStored
    <3>3. /\ sths' = [sths EXCEPT ![m] = HeadFile(head)] /\ heads' = heads \cup {head}
          /\ HeadFile(head).file = "whole" /\ HeadFile(head).head = head
      BY <2>1, <3>1 DEF HeadFile
    <3>4. TypeOK'
      <4>1. DOMAIN sths' = Sizes /\ \A k \in Sizes : sths'[k].file \in Files
        BY <1>2, <3>2, <3>3 DEF TypeOK, Files
      <4> QED BY <1>2, <1>3, <1>4, <1>9, <3>2, <3>3, <4>1 DEF TypeOK
    <3>5. FilesOfHeads'
      BY <1>2, <3>2, <3>3 DEF Inv, FilesOfHeads, TypeOK
    <3>6. HeadsStored(n)'
      <4>1. \A h \in heads' : h.size <= n /\ h.root = Root(Stored(h.size))
        BY <1>1, <3>2, <3>3 DEF LogStored, HeadsStored
      <4>2. \A k : Stored(k)' = Stored(k)
        BY <1>9 DEF Stored
      <4> QED BY <4>1, <4>2 DEF HeadsStored
    <3>7. TreeStored(n)' /\ made' = made
      BY <1>2, <1>9 DEF TreeStored
    <3>8. LogStored(n)'
      BY <1>1, <1>2, <1>9, <3>6, <3>7, LeavesSame
    <3> QED BY <3>4, <3>5, <3>8 DEF Inv
  <2> QED BY <1>2, <1>6, <1>8, <1>9, <2>1 DEF HeadLeftBehind, diskVars
<1> QED BY <1>6, <1>7, <1>9 DEF Crash, diskVars

LEMMA NewestSize == Newest(sths) \in Sizes
<1> DEFINE Named == {0} \cup {m \in Sizes : sths[m].file # "absent"}
<1>1. Named \in SUBSET (0 .. MaxLeaves) /\ Named # {} /\ MaxLeaves \in Nat
  BY AuditAssumption DEF Sizes
<1>2. Max(Named) \in Named
  <2> HIDE DEF Named
  <2> QED BY <1>1, MaxOfBounded
<1> QED BY <1>1, <1>2 DEF Newest, Sizes

LEMMA ResumeStep ==
    ASSUME Inv, Resume
    PROVE  Inv'
<1>1. PICK n \in Sizes : LogStored(n)
  BY DEF Inv
<1>2. /\ TypeOK /\ made \in Nat /\ tree' = OnDisk /\ latest' = Newest(sths)
      /\ UNCHANGED <<leaves, hashes, sths, request, made, acked, heads, faults>> /\ up' = TRUE
  BY DEF Inv, Resume, TypeOK, diskVars
<1>3. Filled(n) /\ n \in Nat /\ n <= MaxLeaves
  BY <1>1, AuditAssumption DEF LogStored, LeavesInOrder, Sizes
<1>4. tree' = Stored(n) /\ tree' \in Seq(Leaves) /\ Len(tree') = n
  BY <1>2, <1>3, OnDiskIsStored, StoredIsSeq
<1>5. latest' \in Sizes
  BY <1>2, NewestSize
<1>6. TypeOK'
  BY <1>2, <1>3, <1>4, <1>5 DEF TypeOK
<1>7. FilesOfHeads'
  BY <1>2 DEF Inv, FilesOfHeads
<1>8. LogStored(n)'
  <2>1. TreeStored(n)'
    BY <1>2, <1>4 DEF TreeStored, Stored
  <2>2. made' = made
    BY <1>2
  <2> QED BY <1>1, <1>2, <2>1, <2>2, HeadsSame, LeavesSame
<1> QED BY <1>6, <1>7, <1>8 DEF Inv

-----------------------------------------------------------------------------
(* The theorems                                                            *)

LEMMA InitInv == Init => Inv
<1> SUFFICES ASSUME Init PROVE Inv
  OBVIOUS
<1>1. TypeOK
  <2>1. 0 \in Sizes /\ 0 \in 0 .. MaxLeaves /\ 0 \in 0 .. MaxFaults
    BY AuditAssumption DEF Sizes
  <2>2. tree \in Seq(Leaves) /\ Len(tree) <= MaxLeaves
    BY AuditAssumption DEF Init
  <2>3. DOMAIN sths = Sizes /\ \A n \in Sizes : sths[n].file = "absent"
    BY DEF Init, NoHead
  <2> QED BY <2>1, <2>2, <2>3 DEF Init, TypeOK, Files
<1>2. FilesOfHeads
  BY DEF Init, FilesOfHeads, NoHead
<1>3. LogStored(0)
  <2>1. Filled(0) /\ 0 <= made
    BY AuditAssumption DEF Init, Filled, Sizes, Indices
  <2> QED BY <2>1 DEF Init, LogStored, LeavesInOrder, TreeStored, AckedStored, HeadsStored
<1>4. 0 \in Sizes
  BY AuditAssumption DEF Sizes
<1> QED BY <1>1, <1>2, <1>3, <1>4 DEF Inv

LEMMA NextInv == Inv /\ [Next]_vars => Inv'
<1> SUFFICES ASSUME Inv, [Next]_vars PROVE Inv'
  OBVIOUS
<1>1. CASE UNCHANGED vars
  BY <1>1 DEF vars, diskVars, logVars, Inv, TypeOK, FilesOfHeads, LogStored, LeavesInOrder, Filled,
              TreeStored, AckedStored, HeadsStored, Stored
<1> QED BY <1>1, AppendStep, AppendFailsStep, ProduceStep, CrashStep, ResumeStep DEF Next

LEMMA Invariant == Spec => []Inv
BY InitInv, NextInv, PTL DEF Spec

\* Whatever writes fail, are cut short or are interrupted by a stop, and
\* whatever the requests interleave, an event whose index append returned is
\* the leaf a start reads back at that index (log.rs append, store.rs
\* append_leaf and write_new).
THEOREM AcksAreKept == Spec => []AcknowledgedKept
<1>1. Inv => AcknowledgedKept
  <2> SUFFICES ASSUME Inv, NEW i \in Indices, acked[i] # 0
               PROVE  i < Len(OnDisk) /\ OnDisk[i + 1] = Leaf(acked[i])
    BY DEF AcknowledgedKept
  <2>1. PICK n \in Sizes : LogStored(n)
    BY DEF Inv
  <2>2. i < n /\ leaves[i] = Leaf(acked[i])
    BY <2>1 DEF LogStored, AckedStored
  <2>3. OnDisk = Stored(n) /\ Len(OnDisk) = n
    BY <2>1, OnDiskIsStored DEF Inv, LogStored, LeavesInOrder
  <2>4. Stored(n)[i + 1] = leaves[i]
    BY <2>2, AuditAssumption DEF Stored, Sizes, Indices
  <2> QED BY <2>2, <2>3, <2>4
<1> QED BY <1>1, Invariant, PTL

\* For every function Root of the leaves, so for the Merkle tree of
\* merkle.rs: the tree in memory is what a start would read back, but for one
\* leaf a failed append left; every head ever handed out is the root of a
\* prefix of it, and a whole head file always matches the leaves (log.rs
\* produce_sth and AuditLog::new, store.rs record_sth).
THEOREM HeadsOfPrefixes == Spec => []HeadsCoverPrefix
<1>1. Inv => HeadsCoverPrefix
  <2> SUFFICES ASSUME Inv PROVE HeadsCoverPrefix
    OBVIOUS
  <2>1. PICK n \in Sizes : LogStored(n)
    BY DEF Inv
  <2>2. TypeOK /\ Filled(n) /\ n \in Nat
    BY <2>1, AuditAssumption DEF Inv, LogStored, LeavesInOrder, Sizes
  <2>3. Len(OnDisk) = n
    BY <2>2, OnDiskIsStored
  <2>4. ASSUME up
        PROVE  \E k \in {0, 1} : tree = SubSeq(OnDisk, 1, Len(OnDisk) - k)
    <3>1. Len(tree) \in {n - 1, n} /\ tree = Stored(Len(tree)) /\ Len(tree) \in Nat
      BY <2>1, <2>2, <2>4 DEF LogStored, TreeStored, TypeOK
    <3>2. PICK k \in {0, 1} : Len(tree) = n - k
      BY <2>2, <3>1
    <3>3. n - k \in 0 .. n
      BY <2>2, <3>1, <3>2
    <3>4. SubSeq(OnDisk, 1, n - k) = Stored(n - k)
      BY <2>2, <3>3, PrefixIsStored
    <3> QED BY <2>3, <3>1, <3>2, <3>4
  <2>5. ASSUME NEW h \in heads
        PROVE  h.size <= Len(OnDisk) /\ h.root = Root(SubSeq(OnDisk, 1, h.size))
    <3>1. h.size \in 0 .. n /\ h.root = Root(Stored(h.size))
      BY <2>1, <2>2 DEF LogStored, HeadsStored, TypeOK, Sizes
    <3>2. SubSeq(OnDisk, 1, h.size) = Stored(h.size)
      BY <2>2, <3>1, PrefixIsStored
    <3>3. h.root = Root(SubSeq(OnDisk, 1, h.size))
      BY <3>1, <3>2, Zenon
    <3>4. h.size <= Len(OnDisk)
      BY <2>3, <3>1
    <3> QED BY <3>3, <3>4
  <2>6. ASSUME NEW m \in Sizes, sths[m].file = "whole"
        PROVE  Matches(sths[m])
    BY <2>5, <2>6 DEF Inv, FilesOfHeads, Matches
  <2> QED BY <2>4, <2>5, <2>6 DEF HeadsCoverPrefix
<1> QED BY <1>1, Invariant, PTL

\* A start is refused for one reason only: the newest head file was left
\* torn by a failed or interrupted record_sth.  However the log was stopped
\* before, the leaves it reads back never disagree with a head it can decode
\* (AuditLog::new).
THEOREM OnlyTornHeadRefuses ==
    Spec => [](sths[Newest(sths)].file # "torn" => Matches(sths[Newest(sths)]))
<1>1. Inv /\ HeadsCoverPrefix => (sths[Newest(sths)].file # "torn" => Matches(sths[Newest(sths)]))
  BY NewestSize DEF Inv, TypeOK, Files, HeadsCoverPrefix, Matches
<1> QED BY <1>1, Invariant, HeadsOfPrefixes, PTL

-----------------------------------------------------------------------------
(* The spool file                                                          *)

\* Sequence s holds the events that wait in file f, by rising number.
Reads(f, s) == s \in Seq(Entries) /\ Ascending(s) /\ Range(s) = Waiting(f)

-----------------------------------------------------------------------------
(* The order of the events in a file                                       *)

LEMMA EntrySeq ==
    ASSUME NEW s \in Seq(Entries)
    PROVE  /\ Len(s) \in Nat /\ DOMAIN s = 1 .. Len(s)
           /\ \A i \in 1 .. Len(s) : s[i] \in Entries /\ s[i].seq \in Nat /\ s[i].ev \in HostEvents
<1>1. \A i \in 1 .. Len(s) : s[i] \in Entries
  BY ElementOfSeq
<1>2. \A e \in Entries : e.seq \in Nat /\ e.ev \in HostEvents
  BY DEF Entries
<1> QED BY <1>1, <1>2, LenProperties

\* There is one way to put events in order.
LEMMA OneOrder ==
    ASSUME NEW s \in Seq(Entries), NEW t \in Seq(Entries),
           Ascending(s), Ascending(t), Range(s) = Range(t)
    PROVE  s = t
<1> DEFINE Differ == {n \in Nat : \/ n \in 1 .. Len(s) /\ n \notin 1 .. Len(t)
                                  \/ n \in 1 .. Len(t) /\ n \notin 1 .. Len(s)
                                  \/ n \in 1 .. Len(s) /\ n \in 1 .. Len(t) /\ s[n] # t[n]}
<1>0. /\ Len(s) \in Nat /\ Len(t) \in Nat /\ DOMAIN s = 1 .. Len(s) /\ DOMAIN t = 1 .. Len(t)
      /\ \A i \in 1 .. Len(s) : s[i].seq \in Nat
      /\ \A i \in 1 .. Len(t) : t[i].seq \in Nat
  BY EntrySeq
<1>a. /\ \A i \in 1 .. Len(s) : \E j \in 1 .. Len(t) : t[j] = s[i]
      /\ \A i \in 1 .. Len(t) : \E j \in 1 .. Len(s) : s[j] = t[i]
  BY <1>0 DEF Range
<1>b. /\ \A i, j \in 1 .. Len(s) : i < j => s[i].seq < s[j].seq
      /\ \A i, j \in 1 .. Len(t) : i < j => t[i].seq < t[j].seq
  BY <1>0 DEF Ascending
<1>1. CASE Differ = {}
  <2>1. Len(s) = Len(t)
    <3> SUFFICES ASSUME Len(s) # Len(t) PROVE FALSE
      OBVIOUS
    <3>1. Len(s) \notin Differ /\ Len(t) \notin Differ
      BY <1>1
    <3>2. \A a, b \in Nat : a = b \/ (a \in 1 .. a /\ a \notin 1 .. b) \/ (b \in 1 .. b /\ b \notin 1 .. a)
      OBVIOUS
    <3> QED BY <3>1, <3>2, <1>0, Zenon
  <2>2. \A i \in 1 .. Len(s) : s[i] = t[i]
    <3> SUFFICES ASSUME NEW i \in 1 .. Len(s) PROVE s[i] = t[i]
      OBVIOUS
    <3>1. i \notin Differ
      BY <1>1
    <3> QED BY <3>1, <2>1, <1>0
  <2> QED BY <2>1, <2>2, SeqEqual
<1>2. CASE Differ # {}
  <2>1. PICK n \in Differ : \A m \in Differ : n <= m
    BY <1>2, LeastNatural
  <2>2. \A m \in 1 .. n - 1 : m \in 1 .. Len(s) /\ m \in 1 .. Len(t) /\ s[m] = t[m]
    <3> SUFFICES ASSUME NEW m \in 1 .. n - 1
                 PROVE  m \in 1 .. Len(s) /\ m \in 1 .. Len(t) /\ s[m] = t[m]
      OBVIOUS
    <3>1. m \notin Differ /\ m \in Nat
      BY <2>1
    <3>2. n \in 1 .. Len(s) \/ n \in 1 .. Len(t)
      OBVIOUS
    <3> QED BY <3>1, <3>2, <1>0
  <2>3. CASE n \in 1 .. Len(s)
    <3>1. PICK m \in 1 .. Len(t) : t[m] = s[n]
      BY <1>a, <2>3
    <3>2. m >= n
      <4> SUFFICES ASSUME m < n PROVE FALSE
        BY <1>0
      <4>1. m \in 1 .. Len(s) /\ s[m] = t[m]
        BY <2>2, <1>0
      <4>2. s[m].seq < s[n].seq
        BY <4>1, <2>3, <1>b
      <4> QED BY <4>1, <4>2, <3>1, <1>0
    <3>3. n \in 1 .. Len(t) /\ s[n] # t[n]
      <4>1. n \in 1 .. Len(t)
        BY <3>2, <2>3, <1>0
      <4> QED BY <4>1, <2>3
    <3>4. t[n].seq < t[m].seq
      BY <3>2, <3>3, <3>1, <1>b, <1>0
    <3>5. PICK k \in 1 .. Len(s) : s[k] = t[n]
      BY <3>3, <1>a
    <3>6. CASE k < n
      <4>1. k \in 1 .. Len(t) /\ s[k] = t[k]
        BY <3>6, <2>2, <1>0
      <4>2. t[k].seq < t[n].seq
        BY <4>1, <3>3, <3>6, <1>b
      <4> QED BY <4>1, <4>2, <3>5, <1>0
    <3>7. CASE k = n
      BY <3>7, <3>5, <3>3
    <3>8. CASE k > n
      <4>1. s[n].seq < s[k].seq
        BY <3>8, <2>3, <1>b
      <4> QED BY <4>1, <3>1, <3>4, <3>5, <3>3, <2>3, <1>0
    <3> QED BY <3>6, <3>7, <3>8, <1>0
  <2>4. CASE n \notin 1 .. Len(s)
    <3>1. n \in 1 .. Len(t)
      BY <2>4
    <3>2. PICK k \in 1 .. Len(s) : s[k] = t[n]
      BY <3>1, <1>a
    <3>3. k < n
      BY <2>4, <3>1, <1>0
    <3>4. k \in 1 .. Len(t) /\ s[k] = t[k]
      BY <3>3, <2>2, <1>0
    <3>5. t[k].seq < t[n].seq
      BY <3>4, <3>3, <3>1, <1>b
    <3> QED BY <3>4, <3>5, <3>2, <1>0
  <2> QED BY <2>3, <2>4
<1> QED BY <1>1, <1>2

LEMMA OrderCounts ==
    ASSUME NEW s \in Seq(Entries), Ascending(s)
    PROVE  s \in [1 .. Cardinality(Range(s)) -> Range(s)] /\ Cardinality(Range(s)) = Len(s)
<1>0. Len(s) \in Nat /\ DOMAIN s = 1 .. Len(s) /\ \A i \in 1 .. Len(s) : s[i].seq \in Nat
  BY EntrySeq
<1>1. s \in Bijection(1 .. Len(s), Range(s))
  <2>1. s \in [1 .. Len(s) -> Range(s)]
    BY <1>0 DEF Range
  <2>2. \A i, j \in 1 .. Len(s) : s[i] = s[j] => i = j
    <3> SUFFICES ASSUME NEW i \in 1 .. Len(s), NEW j \in 1 .. Len(s), s[i] = s[j], i # j
                 PROVE  FALSE
      OBVIOUS
    <3>1. i < j \/ j < i
      BY <1>0
    <3> QED BY <3>1, <1>0 DEF Ascending
  <2>3. \A x \in Range(s) : \E i \in 1 .. Len(s) : s[i] = x
    BY <1>0 DEF Range
  <2>4. s \in Injection(1 .. Len(s), Range(s))
    BY <1>0, <2>1, <2>2 DEF Injection, IsInjective
  <2>5. s \in Surjection(1 .. Len(s), Range(s))
    BY <2>1, <2>3 DEF Surjection
  <2> QED BY <2>4, <2>5 DEF Bijection
<1>2. IsFiniteSet(1 .. Len(s)) /\ Cardinality(1 .. Len(s)) = Len(s)
  <2>1. 1 \in Int /\ Len(s) \in Int
    BY <1>0
  <2>2. Cardinality(1 .. Len(s)) = IF 1 > Len(s) THEN 0 ELSE Len(s) - 1 + 1
    BY <2>1, FS_Interval
  <2>3. IsFiniteSet(1 .. Len(s))
    BY <2>1, FS_Interval
  <2>4. (IF 1 > Len(s) THEN 0 ELSE Len(s) - 1 + 1) = Len(s)
    BY <1>0
  <2> QED BY <2>2, <2>3, <2>4
<1>3. Cardinality(Range(s)) = Len(s)
  <2>1. ExistsBijection(1 .. Len(s), Range(s))
    BY <1>1 DEF ExistsBijection
  <2> QED BY <1>2, <2>1, FS_Bijection
<1> QED BY <1>1, <1>3 DEF Bijection, Injection

\* What a file that reads as s is loaded as.
LEMMA LoadedIs ==
    ASSUME NEW f, NEW s, Reads(f, s), Len(s) <= Cap
    PROVE  Loaded(f) = s
<1> DEFINE Ordered(t) == Ascending(t) /\ Range(t) = Waiting(f)
           n == Cardinality(Waiting(f))
           c == CHOOSE t \in [1 .. n -> Waiting(f)] : Ordered(t)
<1>1. s \in [1 .. n -> Waiting(f)] /\ Ordered(s) /\ n = Len(s)
  BY OrderCounts DEF Reads
<1>2. c \in [1 .. n -> Waiting(f)] /\ Ordered(c)
  BY <1>1
<1>3. c \in Seq(Entries)
  <2>1. Waiting(f) \subseteq Entries
    BY RangeOfSeq DEF Reads
  <2>2. n \in Nat
    BY <1>1 DEF Reads
  <2> QED BY <1>2, <2>1, <2>2
<1>4. c = s
  BY <1>2, <1>3, OneOrder DEF Reads
<1>5. ~(Len(s) > Cap)
  BY ForwardAssumption DEF Reads
<1> HIDE DEF c
<1>6. Loaded(f) = DropOverCap(c)
  BY DEF Loaded, c
<1> QED BY <1>4, <1>5, <1>6 DEF DropOverCap

-----------------------------------------------------------------------------
(* What the records written say                                            *)

LEMMA RecordSeq ==
    ASSUME NEW rs \in Seq(Records)
    PROVE  /\ Len(rs) \in Nat /\ DOMAIN rs = 1 .. Len(rs)
           /\ \A i \in 1 .. Len(rs) : /\ rs[i] \in Records /\ rs[i].seq \in Nat
                                      /\ rs[i].kind = "event" => rs[i].ev \in HostEvents
<1>1. \A i \in 1 .. Len(rs) : rs[i] \in Records
  BY ElementOfSeq
<1>2. \A r \in Records : r.seq \in Nat /\ (r.kind = "event" => r.ev \in HostEvents)
  BY DEF Records
<1> QED BY <1>1, <1>2, LenProperties

LEMMA EventRecords ==
    ASSUME NEW s \in Seq(Entries)
    PROVE  /\ RecordsOf(s) \in Seq(Records) /\ Len(RecordsOf(s)) = Len(s)
           /\ DOMAIN RecordsOf(s) = 1 .. Len(s)
           /\ \A i \in 1 .. Len(s) : /\ RecordsOf(s)[i].kind = "event" /\ RecordsOf(s)[i].seq = s[i].seq
                                     /\ EntryOf(RecordsOf(s)[i]) = s[i]
<1>0. Len(s) \in Nat /\ DOMAIN s = 1 .. Len(s) /\ \A i \in 1 .. Len(s) : s[i] \in Entries
  BY EntrySeq
<1>1. \A e \in Entries : /\ EventRecord(e) \in Records /\ EventRecord(e).kind = "event"
                         /\ EventRecord(e).seq = e.seq /\ EntryOf(EventRecord(e)) = e
  BY DEF Entries, Records, EventRecord, EntryOf
<1>2. RecordsOf(s) = [i \in 1 .. Len(s) |-> EventRecord(s[i])]
  BY <1>0 DEF RecordsOf
<1>3. \A i \in 1 .. Len(s) : EventRecord(s[i]) \in Records
  BY <1>0, <1>1
<1>4. RecordsOf(s) \in Seq(Records) /\ Len(RecordsOf(s)) = Len(s)
  BY <1>0, <1>2, <1>3
<1>5. \A i \in 1 .. Len(s) : RecordsOf(s)[i] = EventRecord(s[i])
  BY <1>2
<1> QED BY <1>0, <1>1, <1>4, <1>5, LenProperties

\* Sequence u is s followed by t.
IsJoin(s, t, u) ==
    /\ Len(s) \in Nat /\ Len(t) \in Nat
    /\ Len(u) = Len(s) + Len(t) /\ DOMAIN u = 1 .. Len(s) + Len(t)
    /\ \A i \in 1 .. Len(s) : u[i] = s[i]
    /\ \A k \in 1 .. Len(t) : u[Len(s) + k] = t[k]
    /\ \A i \in 1 .. Len(s) + Len(t) : i \in 1 .. Len(s) \/ \E k \in 1 .. Len(t) : i = Len(s) + k

LEMMA Joined ==
    ASSUME NEW S, NEW s \in Seq(S), NEW t \in Seq(S)
    PROVE  s \o t \in Seq(S) /\ IsJoin(s, t, s \o t)
<1>1. Len(s) \in Nat /\ Len(t) \in Nat
  BY LenProperties
<1>2. s \o t \in Seq(S) /\ Len(s \o t) = Len(s) + Len(t)
  BY ConcatProperties
<1>3. DOMAIN (s \o t) = 1 .. Len(s) + Len(t)
  BY <1>2, LenProperties
<1>4. \A i \in 1 .. Len(s) + Len(t) : (s \o t)[i] = IF i <= Len(s) THEN s[i] ELSE t[i - Len(s)]
  BY ConcatProperties
<1>5. \A i \in 1 .. Len(s) : (s \o t)[i] = s[i]
  BY <1>1, <1>4
<1>6. ASSUME NEW k \in 1 .. Len(t)
      PROVE  (s \o t)[Len(s) + k] = t[k]
  <2>1. Len(s) + k \in 1 .. Len(s) + Len(t) /\ ~(Len(s) + k <= Len(s)) /\ (Len(s) + k) - Len(s) = k
    BY <1>1
  <2> QED BY <2>1, <1>4
<1>7. ASSUME NEW i \in 1 .. Len(s) + Len(t), i \notin 1 .. Len(s)
      PROVE  \E k \in 1 .. Len(t) : i = Len(s) + k
  <2>1. i - Len(s) \in 1 .. Len(t) /\ i = Len(s) + (i - Len(s))
    BY <1>1, <1>7
  <2> QED BY <2>1
<1> QED BY <1>1, <1>2, <1>3, <1>5, <1>6, <1>7 DEF IsJoin

\* The events waiting in a file are events of its records.
LEMMA WaitingRecords ==
    ASSUME NEW f \in SpoolFiles, NEW e \in Waiting(f)
    PROVE  \E i \in DOMAIN f.records : e.seq = f.records[i].seq /\ e.ev = f.records[i].ev
  BY DEF Waiting, EntryOf

\* Appended events, numbered above every record, wait behind the others.
LEMMA EventsAppended ==
    ASSUME NEW f \in SpoolFiles, NEW s, Reads(f, s), NEW new \in Seq(Entries), Ascending(new),
           \A i \in DOMAIN f.records : \A k \in DOMAIN new : f.records[i].seq < new[k].seq,
           NEW g, g.records = f.records \o RecordsOf(new)
    PROVE  Reads(g, s \o new)
<1> DEFINE R == f.records
           E == RecordsOf(new)
           n == Len(R)
           m == Len(new)
<1>0. s \in Seq(Entries) /\ R \in Seq(Records)
  BY DEF Reads, SpoolFiles
<1>1. n \in Nat /\ m \in Nat /\ DOMAIN R = 1 .. n /\ DOMAIN new = 1 .. m
      /\ (\A i \in 1 .. n : R[i].seq \in Nat) /\ \A k \in 1 .. m : new[k].seq \in Nat
  BY <1>0, RecordSeq, EntrySeq
<1>2. E \in Seq(Records) /\ Len(E) = m
      /\ \A k \in 1 .. m : E[k].kind = "event" /\ E[k].seq = new[k].seq /\ EntryOf(E[k]) = new[k]
  BY EventRecords
<1>3. /\ DOMAIN g.records = 1 .. n + m
      /\ \A i \in 1 .. n : g.records[i] = R[i]
      /\ \A k \in 1 .. m : g.records[n + k] = E[k]
      /\ \A i \in 1 .. n + m : i \in 1 .. n \/ \E k \in 1 .. m : i = n + k
  <2>1. IsJoin(R, E, R \o E)
    BY <1>0, <1>2, Joined
  <2>2. g.records = R \o E /\ Len(E) = m /\ Len(R) = n
    BY <1>2
  <2> HIDE DEF R, E, n, m
  <2> QED BY <2>1, <2>2, Zenon DEF IsJoin
<1>4. \A i \in 1 .. n, k \in 1 .. m : R[i].seq < new[k].seq
  BY <1>1
<1> HIDE DEF R, E, n, m
<1>5. \A i \in 1 .. n : i \in DOMAIN g.records /\ \A k \in 1 .. m : ~(n + k < i)
  BY <1>1, <1>3
<1>6. \A k \in 1 .. m : n + k \in DOMAIN g.records
  BY <1>1, <1>3
<1>7. ASSUME NEW i \in 1 .. n
      PROVE  Live(g, i) <=> Live(f, i)
  <2>1. ASSUME Live(f, i) PROVE Live(g, i)
    <3>1. g.records[i].kind = "event"
      BY <2>1, <1>3 DEF Live, R
    <3>2. ASSUME NEW j \in DOMAIN g.records, j < i \/ g.records[j].kind = "done"
          PROVE  g.records[j].seq < g.records[i].seq
      <4>1. CASE j \in 1 .. n
        BY <4>1, <3>2, <2>1, <1>1, <1>3 DEF Live, R
      <4>2. ASSUME NEW k \in 1 .. m, j = n + k PROVE FALSE
        <5>1. g.records[j].kind # "done"
          BY <4>2, <1>2, <1>3
        <5> QED BY <4>2, <5>1, <3>2, <1>5, Zenon
      <4> QED BY <4>1, <4>2, <1>3
    <3> QED BY <3>1, <3>2 DEF Live
  <2>2. ASSUME Live(g, i) PROVE Live(f, i)
    <3>1. \A j \in 1 .. n : j \in DOMAIN g.records
      BY <1>5
    <3> QED BY <3>1, <2>2, <1>1, <1>3 DEF Live, R
  <2> QED BY <2>1, <2>2
<1>8. ASSUME NEW k \in 1 .. m
      PROVE  Live(g, n + k)
  <2>1. g.records[n + k].kind = "event" /\ g.records[n + k].seq = new[k].seq
    BY <1>2, <1>3
  <2>2. ASSUME NEW j \in DOMAIN g.records, j < n + k \/ g.records[j].kind = "done"
        PROVE  g.records[j].seq < new[k].seq
    <3>1. CASE j \in 1 .. n
      BY <3>1, <1>3, <1>4
    <3>2. ASSUME NEW l \in 1 .. m, j = n + l
          PROVE  g.records[j].seq < new[k].seq
      <4>1. g.records[j].kind # "done" /\ g.records[j].seq = new[l].seq
        BY <3>2, <1>2, <1>3
      <4>2. l < k
        <5>1. n + l < n + k
          BY <4>1, <3>2, <2>2, Zenon
        <5> QED BY <5>1, <1>1
      <4> QED BY <4>1, <4>2, <1>1 DEF Ascending
    <3> QED BY <3>1, <3>2, <1>3
  <2> QED BY <2>1, <2>2 DEF Live
<1>9. Waiting(g) = Waiting(f) \cup Range(new)
  <2>1. ASSUME NEW e \in Waiting(g) PROVE e \in Waiting(f) \cup Range(new)
    <3>1. PICK i \in DOMAIN g.records : Live(g, i) /\ e = EntryOf(g.records[i])
      BY DEF Waiting
    <3>2. CASE i \in 1 .. n
      BY <3>1, <3>2, <1>1, <1>3, <1>7 DEF Waiting, R
    <3>3. CASE \E k \in 1 .. m : i = n + k
      BY <3>1, <3>3, <1>1, <1>2, <1>3 DEF Range
    <3> QED BY <3>2, <3>3, <1>3
  <2>2. ASSUME NEW e \in Waiting(f) PROVE e \in Waiting(g)
    <3>1. PICK i \in 1 .. n : Live(f, i) /\ e = EntryOf(R[i])
      BY <1>1 DEF Waiting, R
    <3> QED BY <3>1, <1>3, <1>5, <1>7 DEF Waiting
  <2>3. ASSUME NEW e \in Range(new) PROVE e \in Waiting(g)
    <3>1. PICK k \in 1 .. m : e = new[k]
      BY <1>1 DEF Range
    <3>2. n + k \in DOMAIN g.records /\ Live(g, n + k)
      BY <1>6, <1>8
    <3>3. e = EntryOf(g.records[n + k])
      BY <3>1, <1>2, <1>3, <1>6
    <3> QED BY <3>2, <3>3 DEF Waiting
  <2> QED BY <2>1, <2>2, <2>3
<1>10. /\ s \o new \in Seq(Entries) /\ DOMAIN (s \o new) = 1 .. Len(s) + m
       /\ Len(s) \in Nat /\ DOMAIN s = 1 .. Len(s)
       /\ \A i \in 1 .. Len(s) : (s \o new)[i] = s[i]
       /\ \A k \in 1 .. m : (s \o new)[Len(s) + k] = new[k]
       /\ \A i \in 1 .. Len(s) + m : i \in 1 .. Len(s) \/ \E k \in 1 .. m : i = Len(s) + k
  <2>1. s \o new \in Seq(Entries) /\ IsJoin(s, new, s \o new)
    BY <1>0, Joined
  <2>2. Len(s) \in Nat /\ DOMAIN s = 1 .. Len(s)
    BY <1>0, EntrySeq
  <2> QED BY <2>1, <2>2, Zenon DEF m, IsJoin
<1>11. \A i \in 1 .. Len(s), k \in 1 .. m : s[i].seq < new[k].seq
  <2> SUFFICES ASSUME NEW i \in 1 .. Len(s), NEW k \in 1 .. m PROVE s[i].seq < new[k].seq
    OBVIOUS
  <2>1. s[i] \in Waiting(f)
    BY <1>10 DEF Reads, Range
  <2>2. PICK j \in 1 .. n : s[i].seq = R[j].seq
    BY <2>1, <1>1, WaitingRecords DEF R
  <2> QED BY <2>2, <1>4
<1>12. Ascending(s \o new)
  <2> SUFFICES ASSUME NEW i \in 1 .. Len(s) + m, NEW j \in 1 .. Len(s) + m, i < j
               PROVE  (s \o new)[i].seq < (s \o new)[j].seq
    BY <1>10 DEF Ascending
  <2>1. CASE i \in 1 .. Len(s) /\ j \in 1 .. Len(s)
    BY <2>1, <1>10 DEF Ascending, Reads
  <2>2. CASE i \in 1 .. Len(s) /\ \E k \in 1 .. m : j = Len(s) + k
    BY <2>2, <1>10, <1>11
  <2>3. ASSUME NEW k \in 1 .. m, i = Len(s) + k PROVE (s \o new)[i].seq < (s \o new)[j].seq
    <3>1. PICK l \in 1 .. m : j = Len(s) + l
      <4>1. j \notin 1 .. Len(s)
        BY <2>3, <1>1, <1>10
      <4> QED BY <4>1, <1>10
    <3>2. k < l
      BY <2>3, <3>1, <1>1, <1>10
    <3>3. new[k].seq < new[l].seq
      BY <3>2, <1>1 DEF Ascending
    <3> QED BY <2>3, <3>1, <3>3, <1>10
  <2> QED BY <2>1, <2>2, <2>3, <1>10
<1>13. Range(s \o new) = Range(s) \cup Range(new)
  BY <1>0, RangeConcatenation
<1> QED BY <1>9, <1>10, <1>12, <1>13 DEF Reads

\* What SubSeq takes of a sequence.
LEMMA Slice ==
    ASSUME NEW S, NEW s \in Seq(S), NEW a \in Nat, NEW b \in Nat, a <= b, b <= Len(s)
    PROVE  /\ SubSeq(s, a + 1, b) \in Seq(S) /\ Len(SubSeq(s, a + 1, b)) = b - a
           /\ DOMAIN SubSeq(s, a + 1, b) = 1 .. b - a
           /\ \A i \in 1 .. b - a : SubSeq(s, a + 1, b)[i] = s[a + i]
<1>1. Len(s) \in Nat /\ \A i \in 1 .. Len(s) : s[i] \in S
  BY LenProperties, ElementOfSeq
<1>2. a + 1 \in Int /\ b \in Int /\ \A i \in a + 1 .. b : i \in 1 .. Len(s)
  BY <1>1
<1>3. \A i \in a + 1 .. b : s[i] \in S
  BY <1>1, <1>2
<1>4. /\ SubSeq(s, a + 1, b) \in Seq(S)
      /\ Len(SubSeq(s, a + 1, b)) = IF a + 1 <= b THEN b - (a + 1) + 1 ELSE 0
      /\ \A i \in 1 .. b - (a + 1) + 1 : SubSeq(s, a + 1, b)[i] = s[a + 1 + i - 1]
  BY <1>2, <1>3, SubSeqProperties
<1>5. Len(SubSeq(s, a + 1, b)) = b - a
  <2>1. (IF a + 1 <= b THEN b - (a + 1) + 1 ELSE 0) = b - a
    OBVIOUS
  <2> QED BY <2>1, <1>4
<1>6. \A i \in 1 .. b - a : SubSeq(s, a + 1, b)[i] = s[a + i]
  <2> SUFFICES ASSUME NEW i \in 1 .. b - a PROVE SubSeq(s, a + 1, b)[i] = s[a + i]
    OBVIOUS
  <2>1. i \in 1 .. b - (a + 1) + 1 /\ a + 1 + i - 1 = a + i
    OBVIOUS
  <2> QED BY <2>1, <1>4
<1>7. DOMAIN SubSeq(s, a + 1, b) = 1 .. b - a
  BY <1>4, <1>5, LenProperties
<1> QED BY <1>4, <1>5, <1>6, <1>7

\* A watermark finishes the events up to its number.
LEMMA DoneAppended ==
    ASSUME NEW f \in SpoolFiles, NEW s, Reads(f, s), NEW d \in Nat, NEW k \in 0 .. Len(s),
           \A i \in 1 .. Len(s) : s[i].seq <= d <=> i <= k,
           NEW g, g.records = f.records \o <<DoneRecord(d)>>
    PROVE  Reads(g, SubSeq(s, k + 1, Len(s)))
<1> DEFINE R == f.records
           n == Len(R)
           u == SubSeq(s, k + 1, Len(s))
<1>0. s \in Seq(Entries) /\ R \in Seq(Records)
  BY DEF Reads, SpoolFiles
<1>1. /\ n \in Nat /\ DOMAIN R = 1 .. n /\ (\A i \in 1 .. n : R[i].seq \in Nat)
      /\ Len(s) \in Nat /\ DOMAIN s = 1 .. Len(s) /\ \A i \in 1 .. Len(s) : s[i].seq \in Nat
  BY <1>0, RecordSeq, EntrySeq
<1>2. DoneRecord(d) \in Records /\ DoneRecord(d).kind = "done" /\ DoneRecord(d).seq = d
  BY DEF DoneRecord, Records
<1>3. /\ DOMAIN g.records = 1 .. n + 1
      /\ \A i \in 1 .. n : g.records[i] = R[i]
      /\ g.records[n + 1] = DoneRecord(d)
  <2>1. <<DoneRecord(d)>> \in Seq(Records) /\ Len(<<DoneRecord(d)>>) = 1 /\ <<DoneRecord(d)>>[1] = DoneRecord(d)
    BY <1>2
  <2>2. IsJoin(R, <<DoneRecord(d)>>, R \o <<DoneRecord(d)>>)
    BY <1>0, <2>1, Joined
  <2>3. g.records = R \o <<DoneRecord(d)>>
    OBVIOUS
  <2>4. 1 \in 1 .. 1
    OBVIOUS
  <2> DEFINE t == <<DoneRecord(d)>>
  <2>5. Len(t) = 1 /\ t[1] = DoneRecord(d) /\ IsJoin(R, t, g.records)
    BY <2>1, <2>2, <2>3
  <2> HIDE DEF R, t
  <2>6. /\ DOMAIN g.records = 1 .. Len(R) + 1
        /\ \A i \in 1 .. Len(R) : g.records[i] = R[i]
        /\ g.records[Len(R) + 1] = t[1]
    BY <2>4, <2>5 DEF IsJoin
  <2> QED BY <2>5, <2>6
<1> HIDE DEF R, n
<1>4. \A i \in 1 .. n + 1 : i \in 1 .. n \/ i = n + 1
  BY <1>1
<1>5. ASSUME NEW i \in 1 .. n
      PROVE  Live(g, i) <=> Live(f, i) /\ R[i].seq > d
  <2>1. ASSUME Live(f, i), R[i].seq > d PROVE Live(g, i)
    <3>1. ASSUME NEW j \in DOMAIN g.records, j < i \/ g.records[j].kind = "done"
          PROVE  g.records[j].seq < g.records[i].seq
      <4>1. CASE j \in 1 .. n
        BY <4>1, <3>1, <2>1, <1>1, <1>3 DEF Live, R
      <4>2. CASE j = n + 1
        BY <4>2, <2>1, <1>1, <1>2, <1>3
      <4> QED BY <4>1, <4>2, <1>3, <1>4
    <3> QED BY <3>1, <2>1, <1>3 DEF Live, R
  <2>2. ASSUME Live(g, i) PROVE Live(f, i) /\ R[i].seq > d
    <3>1. \A j \in 1 .. n : j \in DOMAIN g.records
      BY <1>1, <1>3
    <3>2. n + 1 \in DOMAIN g.records
      BY <1>1, <1>3
    <3>3. R[i].seq > d
      BY <3>2, <2>2, <1>1, <1>2, <1>3 DEF Live
    <3> QED BY <3>1, <3>3, <2>2, <1>1, <1>3 DEF Live, R
  <2> QED BY <2>1, <2>2
<1>6. ~Live(g, n + 1)
  BY <1>2, <1>3 DEF Live
<1>7. Waiting(g) = {e \in Waiting(f) : e.seq > d}
  <2>1. ASSUME NEW e \in Waiting(g) PROVE e \in Waiting(f) /\ e.seq > d
    <3>1. PICK i \in DOMAIN g.records : Live(g, i) /\ e = EntryOf(g.records[i])
      BY DEF Waiting
    <3>2. i \in 1 .. n
      BY <3>1, <1>3, <1>4, <1>6
    <3> QED BY <3>1, <3>2, <1>1, <1>3, <1>5 DEF Waiting, R, EntryOf
  <2>2. ASSUME NEW e \in Waiting(f), e.seq > d PROVE e \in Waiting(g)
    <3>1. PICK i \in 1 .. n : Live(f, i) /\ e = EntryOf(R[i])
      BY <1>1 DEF Waiting, R
    <3>2. i \in DOMAIN g.records /\ R[i].seq > d
      BY <3>1, <2>2, <1>1, <1>3 DEF EntryOf
    <3> QED BY <3>1, <3>2, <1>3, <1>5 DEF Waiting
  <2> QED BY <2>1, <2>2
<1>8. /\ u \in Seq(Entries) /\ DOMAIN u = 1 .. Len(s) - k
      /\ \A i \in 1 .. Len(s) - k : u[i] = s[k + i] /\ k + i \in 1 .. Len(s)
  <2>1. k \in Nat /\ k <= Len(s)
    BY <1>1
  <2>2. \A i \in 1 .. Len(s) - k : k + i \in 1 .. Len(s)
    BY <2>1, <1>1
  <2>3. /\ u \in Seq(Entries) /\ DOMAIN u = 1 .. Len(s) - k
        /\ \A i \in 1 .. Len(s) - k : u[i] = s[k + i]
    <3>1. Len(s) \in Nat /\ Len(s) <= Len(s)
      BY <1>1
    <3>2. /\ SubSeq(s, k + 1, Len(s)) \in Seq(Entries) /\ DOMAIN SubSeq(s, k + 1, Len(s)) = 1 .. Len(s) - k
          /\ \A i \in 1 .. Len(s) - k : SubSeq(s, k + 1, Len(s))[i] = s[k + i]
      BY <2>1, <3>1, <1>0, Slice
    <3> QED BY <3>2, Zenon
  <2> QED BY <2>2, <2>3
<1> HIDE DEF u
<1>9. Ascending(u)
  <2> SUFFICES ASSUME NEW i \in 1 .. Len(s) - k, NEW j \in 1 .. Len(s) - k, i < j
               PROVE  u[i].seq < u[j].seq
    BY <1>8 DEF Ascending
  <2>1. k + i < k + j
    BY <1>1
  <2> QED BY <2>1, <1>1, <1>8 DEF Reads, Ascending
<1>10. Range(u) = {e \in Range(s) : e.seq > d}
  <2>1. ASSUME NEW e \in Range(u) PROVE e \in Range(s) /\ e.seq > d
    <3>1. PICK i \in 1 .. Len(s) - k : e = u[i]
      BY <1>8 DEF Range
    <3>2. ~(k + i <= k)
      BY <1>1
    <3>3. ~(s[k + i].seq <= d)
      BY <3>2, <1>8
    <3>4. e = s[k + i] /\ k + i \in DOMAIN s /\ s[k + i].seq > d
      BY <3>1, <3>3, <1>1, <1>8
    <3> QED BY <3>4 DEF Range
  <2>2. ASSUME NEW e \in Range(s), e.seq > d PROVE e \in Range(u)
    <3>1. PICK i \in 1 .. Len(s) : e = s[i]
      BY <1>1 DEF Range
    <3>2. ~(i <= k)
      <4>2. s[i].seq \in Nat /\ s[i].seq > d
        BY <3>1, <2>2, <1>1, Zenon
      <4>1. ~(s[i].seq <= d)
        BY ONLY <4>2, d \in Nat
      <4> QED BY <3>1, <4>1, Zenon
    <3>3. i - k \in 1 .. Len(s) - k /\ k + (i - k) = i
      BY <3>2, <1>1
    <3> QED BY <3>1, <3>3, <1>8 DEF Range
  <2> QED BY <2>1, <2>2
<1> QED BY <1>7, <1>8, <1>9, <1>10 DEF Reads, u

\* A file written anew holds exactly the events written.
LEMMA WrittenAnew ==
    ASSUME NEW s \in Seq(Entries), Ascending(s), NEW g, g.records = RecordsOf(s)
    PROVE  Reads(g, s)
<1>1. EmptyFile \in SpoolFiles /\ EmptyFile.records = <<>> /\ DOMAIN EmptyFile.records = {}
  <2>1. <<>> \in Seq(Records)
    OBVIOUS
  <2> QED BY <2>1 DEF EmptyFile, SpoolFiles
<1>2. <<>> \in Seq(Entries) /\ DOMAIN <<>> = {} /\ Ascending(<<>>) /\ Range(<<>>) = {}
  BY DEF Ascending, Range
<1>3. Waiting(EmptyFile) = {}
  BY <1>1 DEF Waiting
<1>4. Reads(EmptyFile, <<>>)
  BY <1>2, <1>3 DEF Reads
<1>5. g.records = EmptyFile.records \o RecordsOf(s)
  BY <1>1, EventRecords, ConcatEmptySeq
<1>6. Reads(g, <<>> \o s)
  BY <1>1, <1>4, <1>5, EventsAppended
<1> QED BY <1>6, ConcatEmptySeq

-----------------------------------------------------------------------------
(* The invariant of the forwarder                                          *)

Rising(s) == \A i, j \in DOMAIN s : i < j => s[i] < s[j]

\* The events in memory are numbered one after the other, up to the next.
Numbered(sp) ==
    /\ Len(sp.pending) < sp.next
    /\ \A i \in DOMAIN sp.pending : sp.pending[i].seq = sp.next - Len(sp.pending) + i - 1

SpoolNumbered == Numbered(spool) /\ Rising(EventsOf(spool.pending))

\* File f reads as s, in the order the events were made.
Holds(f, s) == Reads(f, s) /\ Len(s) <= Cap /\ Rising(EventsOf(s))

FileHolds == Holds(file, Loaded(file))

NothingRuns ==
    ~spool.up => /\ spool = Down /\ sender = AtTop
                 /\ chan = <<>> /\ staged = <<>> /\ flight = NoFlight

\* Events on their way to the spool, and events that were in it.
Line  == flight.batch \o (staged \o chan)
Known == Range(EventsOf(spool.pending)) \cup Range(Saved) \cup offered

InLine ==
    /\ flight.done => flight.batch = <<>>
    /\ Rising(Line)
    /\ \A x \in Known, y \in Range(Line) : x < y
    /\ \A x \in Known \cup Range(Line) : x <= produced

Busy == {"read", "calling", "forwarded", "rejected"}

\* The sender's event is the front of the spool, or no longer in it.
SenderAtFront ==
    /\ late \subseteq offered
    /\ sender.pc \in Busy =>
         /\ sender.ev \in offered /\ sender.seq < spool.next
         /\ \A i \in DOMAIN spool.pending :
              /\ sender.seq <= spool.pending[i].seq
              /\ spool.pending[i].seq = sender.seq => spool.pending[i].ev = sender.ev
    /\ sender.pc \in {"forwarded", "rejected"} => sender.ev \in Range(log) \cup refused

\* What the file holds and the queue does not was answered for or dropped.
CopyKept ==
    /\ spool.unread => spool.rewrite
    /\ spool.up /\ ~spool.unread =>
         Range(Saved) \subseteq Range(EventsOf(spool.pending)) \cup Range(log) \cup refused \cup gone

ForwardInv ==
    /\ ForwardTypeOK /\ SpoolNumbered /\ FileHolds /\ NothingRuns
    /\ InLine /\ SenderAtFront /\ CopyKept /\ SpoolOnDisk

-----------------------------------------------------------------------------
(* Facts of the state                                                      *)

LEMMA EventsOfSeq ==
    ASSUME NEW s \in Seq(Entries)
    PROVE  /\ EventsOf(s) \in Seq(HostEvents) /\ Len(EventsOf(s)) = Len(s)
           /\ DOMAIN EventsOf(s) = 1 .. Len(s)
           /\ \A i \in 1 .. Len(s) : EventsOf(s)[i] = s[i].ev
<1>1. Len(s) \in Nat /\ DOMAIN s = 1 .. Len(s) /\ \A i \in 1 .. Len(s) : s[i].ev \in HostEvents
  BY EntrySeq
<1>2. EventsOf(s) = [i \in 1 .. Len(s) |-> s[i].ev]
  BY <1>1 DEF EventsOf
<1>3. EventsOf(s) \in Seq(HostEvents) /\ Len(EventsOf(s)) = Len(s)
  BY <1>1, <1>2
<1> QED BY <1>2, <1>3, LenProperties

LEMMA StateTypes ==
    ASSUME ForwardTypeOK
    PROVE  /\ spool.pending \in Seq(Entries) /\ spool.next \in Nat
           /\ spool.up \in BOOLEAN /\ spool.rewrite \in BOOLEAN /\ spool.unread \in BOOLEAN
           /\ flight.batch \in Seq(HostEvents) /\ flight.done \in BOOLEAN
           /\ file.records \in Seq(Records) /\ file.torn \in BOOLEAN
           /\ sender.seq \in Nat /\ sender.ev \in HostEvents \cup {0}
           /\ Cap \in Nat /\ produced \in Nat
  BY ForwardAssumption DEF ForwardTypeOK, Spools, SpoolFiles, Senders

\* A step that leaves the spool and the file alone.
LEMMA SpoolSame ==
    ASSUME ForwardInv, UNCHANGED <<spool, file>>
    PROVE  SpoolNumbered' /\ FileHolds' /\ SpoolOnDisk' /\ Saved' = Saved /\ Queue' = Queue
<1>1. SpoolNumbered' /\ Saved' = Saved /\ Queue' = Queue
  BY DEF ForwardInv, SpoolNumbered, Numbered, Saved, Queue
<1>2. FileHolds' /\ SpoolOnDisk'
  BY DEF ForwardInv, FileHolds, SpoolOnDisk
<1> QED BY <1>1, <1>2

LEMMA SlotFilledStep ==
    ASSUME ForwardInv, SlotFilled
    PROVE  ForwardInv' /\ UNCHANGED Delivery!vars
<1>1. SpoolNumbered' /\ FileHolds' /\ SpoolOnDisk' /\ Saved' = Saved /\ Queue' = Queue
  BY SpoolSame DEF SlotFilled, spoolVars
<1>2. ForwardTypeOK'
  BY DEF ForwardInv, ForwardTypeOK, SlotFilled, intakeVars, spoolVars, cmisVars
<1>3. NothingRuns' /\ InLine' /\ SenderAtFront' /\ CopyKept'
  BY <1>1 DEF ForwardInv, NothingRuns, InLine, Line, Known, SenderAtFront, CopyKept, SlotFilled, intakeVars, spoolVars, cmisVars
<1>4. UNCHANGED Delivery!vars
  BY <1>1 DEF Delivery!vars, SlotFilled, spoolVars, cmisVars
<1> QED BY <1>1, <1>2, <1>3, <1>4 DEF ForwardInv

LEMMA MishapsBounded ==
    ASSUME ForwardTypeOK, NEW n \in Nat, Mishap(n)
    PROVE  mishaps' \in 0 .. MaxMishaps
  BY ForwardAssumption DEF ForwardTypeOK, Mishap

\* A step that leaves the intake, the spool and the file alone.
LEMMA LineSame ==
    ASSUME ForwardInv, UNCHANGED <<intakeVars, spool, file, offered>>
    PROVE  InLine'
  BY DEF ForwardInv, InLine, Line, Known, Saved, intakeVars

\* What is answered for or dropped stays so.
LEMMA CopySame ==
    ASSUME ForwardInv, UNCHANGED <<spool, file, gone>>,
           Range(log) \subseteq Range(log)', refused \subseteq refused'
    PROVE  CopyKept'
<1>1. Saved' = Saved
  BY SpoolSame
<1> QED BY <1>1 DEF ForwardInv, CopyKept

LEMMA SlotLostStep ==
    ASSUME ForwardInv, SlotLost
    PROVE  ForwardInv' /\ UNCHANGED Delivery!vars
<1>1. SpoolNumbered' /\ FileHolds' /\ SpoolOnDisk' /\ Saved' = Saved /\ Queue' = Queue
  BY SpoolSame DEF SlotLost, spoolVars
<1>2. mishaps' \in 0 .. MaxMishaps
  <2>1. 1 \in Nat /\ Mishap(1)
    BY DEF SlotLost
  <2> QED BY <2>1, MishapsBounded DEF ForwardInv
<1>3. ForwardTypeOK'
  BY <1>2 DEF ForwardInv, ForwardTypeOK, SlotLost, intakeVars, spoolVars, cmisVars
<1>4. NothingRuns' /\ SenderAtFront'
  BY DEF ForwardInv, NothingRuns, SenderAtFront, SlotLost, intakeVars, spoolVars, cmisVars
<1>5. InLine' /\ CopyKept'
  BY LineSame, CopySame DEF SlotLost, spoolVars, cmisVars
<1>6. UNCHANGED Delivery!vars
  BY <1>1 DEF Delivery!vars, SlotLost, spoolVars, cmisVars
<1> QED BY <1>1, <1>3, <1>4, <1>5, <1>6 DEF ForwardInv

\* A step of the sender alone: it stops working on an event, or goes on.
LEMMA SenderStep ==
    ASSUME ForwardInv, sender.pc # "top",
           UNCHANGED <<intakeVars, spoolVars, slot, cmisVars, gone, mishaps>>, wake' \in BOOLEAN,
           sender' \in Senders,
           sender'.pc \in Busy => sender.pc \in Busy /\ sender'.seq = sender.seq /\ sender'.ev = sender.ev,
           sender'.pc \notin {"forwarded", "rejected"}
    PROVE  ForwardInv' /\ UNCHANGED Delivery!vars
<1>1. SpoolNumbered' /\ FileHolds' /\ SpoolOnDisk' /\ Saved' = Saved /\ Queue' = Queue
  BY SpoolSame DEF spoolVars
<1>2. ForwardTypeOK'
  BY DEF ForwardInv, ForwardTypeOK, intakeVars, spoolVars, cmisVars
<1>3. spool.up
  BY DEF ForwardInv, NothingRuns, AtTop
<1>4. NothingRuns'
  BY <1>3 DEF NothingRuns, spoolVars
<1>5. SenderAtFront'
  BY DEF ForwardInv, SenderAtFront, spoolVars, cmisVars
<1>6. InLine' /\ CopyKept'
  BY LineSame, CopySame DEF spoolVars, cmisVars
<1>7. UNCHANGED Delivery!vars
  BY <1>1 DEF Delivery!vars, spoolVars, cmisVars
<1> QED BY <1>1, <1>2, <1>4, <1>5, <1>6, <1>7 DEF ForwardInv

LEMMA ParkStep ==
    ASSUME ForwardInv, Park
    PROVE  ForwardInv' /\ UNCHANGED Delivery!vars
<1>1. sender' \in Senders /\ sender'.pc = "parked"
  BY DEF Park, ForwardInv, ForwardTypeOK, Senders
<1>2. wake' \in BOOLEAN
  BY DEF Park, ForwardInv, ForwardTypeOK
<1> QED BY <1>1, <1>2, SenderStep DEF Park, Busy

LEMMA AtTopIdle == AtTop \in Senders /\ AtTop.pc = "top"
  BY DEF AtTop, Senders

LEMMA WokenStep ==
    ASSUME ForwardInv, Woken
    PROVE  ForwardInv' /\ UNCHANGED Delivery!vars
<1>1. sender' \in Senders /\ sender'.pc = "top" /\ wake' \in BOOLEAN
  BY AtTopIdle DEF Woken
<1> QED BY <1>1, SenderStep DEF Woken, Busy

LEMMA CallStep ==
    ASSUME ForwardInv, Call
    PROVE  ForwardInv' /\ UNCHANGED Delivery!vars
<1>1. wake' \in BOOLEAN
  BY DEF Call, ForwardInv, ForwardTypeOK
<1>2. CASE slot = "valid"
  <2>1. sender' = [sender EXCEPT !.pc = "calling"]
    BY <1>2 DEF Call
  <2>2. sender' \in Senders /\ sender'.pc = "calling" /\ sender'.seq = sender.seq /\ sender'.ev = sender.ev
    BY <2>1 DEF ForwardInv, ForwardTypeOK, Senders
  <2> QED BY <1>1, <2>2, SenderStep DEF Call, Busy
<1>3. CASE slot # "valid"
  <2>1. sender' \in Senders /\ sender'.pc = "top"
    BY <1>3, AtTopIdle DEF Call
  <2> QED BY <1>1, <2>1, SenderStep DEF Call, Busy
<1> QED BY <1>2, <1>3

-----------------------------------------------------------------------------
(* CMIS answers                                                            *)

\* Serving event e only adds to what is answered for.
LEMMA Served ==
    ASSUME ForwardInv, NEW e \in offered, Serve(e)
    PROVE  /\ log' \in Seq(HostEvents) /\ refused' \subseteq HostEvents
           /\ Range(log) \subseteq Range(log)' /\ refused \subseteq refused'
           /\ e \in Range(log)' \cup refused'
<1>1. e \in HostEvents /\ log \in Seq(HostEvents) /\ refused \subseteq HostEvents
  BY DEF ForwardInv, ForwardTypeOK
<1>2. CASE e \in Unacceptable
  BY <1>1, <1>2 DEF Serve
<1>3. CASE e \notin Unacceptable
  <2>1. log' = Append(log, e) /\ refused' = refused
    BY <1>3 DEF Serve
  <2>2. /\ Len(log) \in Nat /\ DOMAIN log = 1 .. Len(log) /\ DOMAIN log' = 1 .. Len(log) + 1
        /\ \A i \in 1 .. Len(log) : log'[i] = log[i]
        /\ log'[Len(log) + 1] = e /\ log' \in Seq(HostEvents)
    <3>1. log' \in Seq(HostEvents) /\ Len(log') = Len(log) + 1
      BY <1>1, <2>1, AppendProperties
    <3> QED BY <1>1, <2>1, <3>1, AppendProperties, LenProperties
  <2>3. Len(log) + 1 \in DOMAIN log' /\ \A i \in 1 .. Len(log) : i \in DOMAIN log'
    BY <2>2
  <2>4. e \in Range(log') /\ Range(log) \subseteq Range(log')
    BY <2>2, <2>3 DEF Range
  <2> QED BY <1>1, <2>1, <2>2, <2>4
<1> QED BY <1>2, <1>3

\* In terms of AuditDelivery.
LEMMA ServedDelivery ==
    ASSUME ForwardInv, NEW e \in offered, Serve(e),
           UNCHANGED <<spool, file, aside, offered, gone>>
    PROVE  Delivery!Next
<1>1. Saved' = Saved /\ Queue' = Queue
  BY SpoolSame
<1>2. e \in HostEvents
  BY DEF ForwardInv, ForwardTypeOK
<1>3. Delivery!Record(e) \/ Delivery!Refuse(e)
  BY <1>1 DEF Serve, Delivery!Record, Delivery!Refuse
<1> QED BY <1>2, <1>3 DEF Delivery!Next

LEMMA AnswerStep ==
    ASSUME ForwardInv, Answer
    PROVE  ForwardInv' /\ Delivery!Next
<1>1. sender.pc = "calling" /\ Serve(sender.ev) /\ sender.ev \in offered /\ spool.up
  BY DEF Answer, ForwardInv, SenderAtFront, Busy, NothingRuns, AtTop
<1>2. /\ log' \in Seq(HostEvents) /\ refused' \subseteq HostEvents
      /\ Range(log) \subseteq Range(log)' /\ refused \subseteq refused'
      /\ sender.ev \in Range(log)' \cup refused'
  BY <1>1, Served
<1>3. /\ sender' \in Senders /\ sender'.pc \in {"forwarded", "rejected"}
      /\ sender'.seq = sender.seq /\ sender'.ev = sender.ev
  BY DEF Answer, ForwardInv, ForwardTypeOK, Senders
<1>4. SpoolNumbered' /\ FileHolds' /\ SpoolOnDisk'
  BY SpoolSame DEF Answer, spoolVars
<1>5. ForwardTypeOK'
  BY <1>2, <1>3 DEF ForwardInv, ForwardTypeOK, Answer, intakeVars, spoolVars
<1>6. NothingRuns'
  BY <1>1 DEF NothingRuns, Answer, spoolVars
<1>7. InLine' /\ CopyKept'
  BY <1>2, LineSame, CopySame DEF Answer, spoolVars
<1>8. SenderAtFront'
  BY <1>1, <1>2, <1>3 DEF ForwardInv, SenderAtFront, Busy, Answer, spoolVars
<1>9. Delivery!Next
  BY <1>1, ServedDelivery DEF Answer, spoolVars
<1> QED BY <1>4, <1>5, <1>6, <1>7, <1>8, <1>9 DEF ForwardInv

LEMMA CallFailsStep ==
    ASSUME ForwardInv, CallFails
    PROVE  ForwardInv' /\ (Delivery!Next \/ UNCHANGED Delivery!vars)
<1>1. sender.pc = "calling" /\ sender.ev \in offered /\ spool.up
  BY DEF CallFails, ForwardInv, SenderAtFront, Busy, NothingRuns, AtTop
<1>2. /\ log' \in Seq(HostEvents) /\ refused' \subseteq HostEvents
      /\ Range(log) \subseteq Range(log)' /\ refused \subseteq refused'
  <2>1. CASE Serve(sender.ev)
    BY <1>1, <2>1, Served
  <2>2. CASE UNCHANGED <<log, refused>>
    BY <2>2 DEF ForwardInv, ForwardTypeOK
  <2> QED BY <2>1, <2>2 DEF CallFails
<1>3. late' \subseteq offered /\ late' \subseteq HostEvents
  BY <1>1 DEF CallFails, ForwardInv, SenderAtFront, ForwardTypeOK
<1>4. SpoolNumbered' /\ FileHolds' /\ SpoolOnDisk' /\ Saved' = Saved /\ Queue' = Queue
  BY SpoolSame DEF CallFails, spoolVars
<1>5. mishaps' \in 0 .. MaxMishaps
  <2>1. 1 \in Nat /\ Mishap(1)
    BY DEF CallFails
  <2> QED BY <2>1, MishapsBounded DEF ForwardInv
<1>6. ForwardTypeOK'
  BY <1>2, <1>3, <1>5, AtTopIdle DEF ForwardInv, ForwardTypeOK, CallFails, intakeVars, spoolVars
<1>7. NothingRuns'
  BY <1>1 DEF NothingRuns, CallFails, spoolVars
<1>8. InLine' /\ CopyKept'
  BY <1>2, LineSame, CopySame DEF CallFails, spoolVars
<1>9. SenderAtFront'
  BY <1>3, AtTopIdle DEF SenderAtFront, Busy, CallFails
<1>10. Delivery!Next \/ UNCHANGED Delivery!vars
  <2>1. CASE Serve(sender.ev)
    BY <1>1, <2>1, ServedDelivery DEF CallFails, spoolVars
  <2>2. CASE UNCHANGED <<log, refused>>
    BY <1>4, <2>2 DEF Delivery!vars, CallFails, spoolVars
  <2> QED BY <2>1, <2>2 DEF CallFails
<1> QED BY <1>4, <1>6, <1>7, <1>8, <1>9, <1>10 DEF ForwardInv

LEMMA ServeLateStep ==
    ASSUME ForwardInv, ServeLate
    PROVE  ForwardInv' /\ Delivery!Next
<1>1. PICK e \in late : Serve(e) /\ late' = late \ {e}
  BY DEF ServeLate
<1>2. e \in offered
  BY DEF ForwardInv, SenderAtFront
<1>3. /\ log' \in Seq(HostEvents) /\ refused' \subseteq HostEvents
      /\ Range(log) \subseteq Range(log)' /\ refused \subseteq refused'
  BY <1>1, <1>2, Served
<1>4. SpoolNumbered' /\ FileHolds' /\ SpoolOnDisk'
  BY SpoolSame DEF ServeLate, spoolVars
<1>5. ForwardTypeOK'
  BY <1>1, <1>3 DEF ForwardInv, ForwardTypeOK, ServeLate, intakeVars, spoolVars
<1>6. NothingRuns'
  BY DEF ForwardInv, NothingRuns, ServeLate, intakeVars, spoolVars
<1>7. InLine' /\ CopyKept'
  BY <1>3, LineSame, CopySame DEF ServeLate, spoolVars
<1>8. SenderAtFront'
  BY <1>1, <1>3 DEF ForwardInv, SenderAtFront, ServeLate, spoolVars
<1>9. Delivery!Next
  BY <1>1, <1>2, ServedDelivery DEF ServeLate, spoolVars
<1> QED BY <1>4, <1>5, <1>6, <1>7, <1>8, <1>9 DEF ForwardInv

-----------------------------------------------------------------------------
(* The front of the spool, and the intake                                  *)

LEMMA ReadFrontStep ==
    ASSUME ForwardInv, ReadFront
    PROVE  ForwardInv' /\ (Delivery!Next \/ UNCHANGED Delivery!vars)
<1>1. SpoolNumbered' /\ FileHolds' /\ SpoolOnDisk' /\ Saved' = Saved /\ Queue' = Queue
  BY SpoolSame DEF ReadFront, spoolVars
<1>2. spool.up /\ spool.pending \in Seq(Entries) /\ Queue = EventsOf(spool.pending)
  BY StateTypes DEF ReadFront, ForwardInv, Queue
<1>3. NothingRuns'
  BY <1>2 DEF NothingRuns, ReadFront, spoolVars
<1>4. CopyKept'
  BY CopySame DEF ReadFront, spoolVars
<1>5. CASE spool.pending = <<>>
  <2>1. offered' = offered /\ sender' = [sender EXCEPT !.pc = "empty"]
    BY <1>5 DEF ReadFront
  <2>2. sender' \in Senders /\ sender'.pc = "empty"
    BY <2>1 DEF ForwardInv, ForwardTypeOK, Senders
  <2>3. ForwardTypeOK'
    BY <2>1, <2>2 DEF ForwardInv, ForwardTypeOK, ReadFront, intakeVars, spoolVars
  <2>4. SenderAtFront'
    BY <2>1, <2>2 DEF ForwardInv, SenderAtFront, Busy, ReadFront
  <2>5. InLine'
    BY <2>1, LineSame DEF ReadFront, spoolVars
  <2>6. UNCHANGED Delivery!vars
    BY <1>1, <2>1 DEF Delivery!vars, ReadFront, spoolVars
  <2> QED BY <1>1, <1>3, <1>4, <2>3, <2>4, <2>5, <2>6 DEF ForwardInv
<1>6. CASE spool.pending # <<>>
  <2> DEFINE front == Head(spool.pending)
  <2>1. front \in Entries /\ front = spool.pending[1] /\ Len(spool.pending) \in Nat \ {0}
    <3>1. front \in Entries
      BY <1>2, <1>6, HeadTailProperties
    <3>2. Len(spool.pending) \in Nat \ {0}
      BY <1>2, <1>6, EmptySeq
    <3>3. front = spool.pending[1]
      BY <1>2, <1>6
    <3> QED BY <3>1, <3>2, <3>3
  <2>2. front.seq \in Nat /\ front.ev \in HostEvents
    BY <2>1 DEF Entries
  <2>3. offered' = offered \cup {front.ev} /\ sender' = [pc |-> "read", seq |-> front.seq, ev |-> front.ev]
    BY <1>6 DEF ReadFront
  <2> HIDE DEF front
  <2>4. sender' \in Senders /\ sender'.pc = "read" /\ sender'.seq = front.seq /\ sender'.ev = front.ev
    BY <2>2, <2>3 DEF Senders
  <2>5. ForwardTypeOK'
    BY <2>2, <2>3, <2>4 DEF ForwardInv, ForwardTypeOK, ReadFront, intakeVars, spoolVars
  <2>6. /\ DOMAIN spool.pending = 1 .. Len(spool.pending) /\ spool.next \in Nat /\ 1 \in 1 .. Len(spool.pending)
        /\ \A i \in 1 .. Len(spool.pending) : spool.pending[i].seq = spool.next - Len(spool.pending) + i - 1
        /\ Len(spool.pending) < spool.next
    BY <1>2, <2>1, EntrySeq, StateTypes DEF ForwardInv, SpoolNumbered, Numbered
  <2>7. front.seq < spool.next
    BY <2>1, <2>6
  <2>8. \A i \in 1 .. Len(spool.pending) : /\ front.seq <= spool.pending[i].seq
                                           /\ spool.pending[i].seq = front.seq => i = 1
    BY <2>1, <2>6
  <2>9. SenderAtFront'
    <3>1. UNCHANGED <<spool, late>>
      BY DEF ReadFront, spoolVars
    <3>2. late \subseteq offered'
      BY <2>3 DEF ForwardInv, SenderAtFront
    <3>3. \A i \in DOMAIN spool.pending : /\ front.seq <= spool.pending[i].seq
                                          /\ spool.pending[i].seq = front.seq => spool.pending[i].ev = front.ev
      BY <2>1, <2>6, <2>8
    <3> QED BY <2>3, <2>4, <2>7, <3>1, <3>2, <3>3 DEF SenderAtFront, Busy
  <2>10. front.ev \in Range(EventsOf(spool.pending)) /\ EventsOf(spool.pending) # <<>>
         /\ Head(EventsOf(spool.pending)) = front.ev
    <3>1. /\ EventsOf(spool.pending) \in Seq(HostEvents) /\ Len(EventsOf(spool.pending)) = Len(spool.pending)
          /\ EventsOf(spool.pending)[1] = front.ev /\ 1 \in DOMAIN EventsOf(spool.pending)
      BY <1>2, <2>1, <2>6, EventsOfSeq
    <3>2. EventsOf(spool.pending) # <<>>
      BY <2>1, <3>1
    <3>3. Head(EventsOf(spool.pending)) = EventsOf(spool.pending)[1]
      BY <3>1, <3>2
    <3> QED BY <3>1, <3>2, <3>3 DEF Range
  <2>11. InLine'
    <3>1. Known' = Known /\ Line' = Line /\ UNCHANGED <<flight, produced>>
      BY <1>1, <2>3, <2>10 DEF Known, Line, ReadFront, intakeVars, spoolVars
    <3> QED BY <3>1 DEF ForwardInv, InLine
  <2>12. Delivery!Offer
    BY <1>1, <1>2, <2>3, <2>10 DEF Delivery!Offer, ReadFront, spoolVars
  <2> QED BY <1>1, <1>3, <1>4, <2>5, <2>9, <2>11, <2>12 DEF ForwardInv, Delivery!Next
<1> QED BY <1>5, <1>6

\* A step of the intake: what it leaves alone.
LEMMA IntakeRest ==
    ASSUME ForwardInv, spool.up,
           UNCHANGED <<spoolVars, sender, slot, cmisVars, gone, mishaps>>, wake' \in BOOLEAN
    PROVE  /\ SpoolNumbered' /\ FileHolds' /\ SpoolOnDisk' /\ NothingRuns' /\ SenderAtFront' /\ CopyKept'
           /\ Known' = Known /\ UNCHANGED Delivery!vars
<1>1. SpoolNumbered' /\ FileHolds' /\ SpoolOnDisk' /\ Saved' = Saved /\ Queue' = Queue
  BY SpoolSame DEF spoolVars
<1>2. NothingRuns'
  BY DEF NothingRuns, spoolVars
<1>3. SenderAtFront'
  BY DEF ForwardInv, SenderAtFront, spoolVars, cmisVars
<1>4. CopyKept'
  BY CopySame DEF spoolVars, cmisVars
<1>5. Known' = Known
  BY <1>1 DEF Known, spoolVars, cmisVars
<1>6. UNCHANGED Delivery!vars
  BY <1>1 DEF Delivery!vars, spoolVars, cmisVars
<1> QED BY <1>1, <1>2, <1>3, <1>4, <1>5, <1>6

LEMMA LineSeq ==
    ASSUME ForwardTypeOK
    PROVE  staged \o chan \in Seq(HostEvents) /\ Line \in Seq(HostEvents)
<1>1. staged \in Seq(HostEvents) /\ chan \in Seq(HostEvents) /\ flight.batch \in Seq(HostEvents)
  BY StateTypes DEF ForwardTypeOK
<1>2. staged \o chan \in Seq(HostEvents)
  BY <1>1, ConcatProperties
<1> QED BY <1>1, <1>2, ConcatProperties DEF Line

LEMMA EventsAssociative ==
    \A a, b, c \in Seq(HostEvents) : (a \o b) \o c = a \o (b \o c)
  BY ConcatAssociative

LEMMA KnownTypes ==
    ASSUME ForwardInv
    PROVE  /\ Range(EventsOf(spool.pending)) \subseteq HostEvents /\ Range(Saved) \subseteq HostEvents
           /\ Saved \in Seq(HostEvents)
           /\ Range(Line) \subseteq HostEvents
           /\ \A x \in Known \cup Range(Line) : x \in HostEvents /\ x \in Nat
<1>1. Range(Line) \subseteq HostEvents
  BY LineSeq, RangeOfSeq DEF ForwardInv
<1>2. Range(EventsOf(spool.pending)) \subseteq HostEvents
  BY StateTypes, EventsOfSeq, RangeOfSeq DEF ForwardInv
<1>3. Saved \in Seq(HostEvents)
  BY EventsOfSeq DEF ForwardInv, FileHolds, Holds, Reads, Saved
<1>4. Range(Saved) \subseteq HostEvents
  BY <1>3, RangeOfSeq
<1>5. HostEvents \subseteq Nat
  BY DEF HostEvents
<1> QED BY <1>1, <1>2, <1>3, <1>4, <1>5 DEF Known, ForwardInv, ForwardTypeOK

LEMMA ProducedStep ==
    ASSUME ForwardInv, Produce
    PROVE  ForwardInv' /\ UNCHANGED Delivery!vars
<1>1. /\ SpoolNumbered' /\ FileHolds' /\ SpoolOnDisk' /\ NothingRuns' /\ SenderAtFront' /\ CopyKept'
      /\ Known' = Known /\ UNCHANGED Delivery!vars
  <2>1. wake' \in BOOLEAN /\ spool.up
    BY DEF Produce, ForwardInv, ForwardTypeOK
  <2> QED BY <2>1, IntakeRest DEF Produce
<1>2. /\ produced \in Nat /\ produced' = produced + 1 /\ produced + 1 \in HostEvents
      /\ produced' \in 0 .. MaxEvents
  BY ForwardAssumption DEF Produce, ForwardInv, ForwardTypeOK, HostEvents
<1>3. chan \in Seq(HostEvents) /\ staged \in Seq(HostEvents) /\ flight.batch \in Seq(HostEvents)
  BY StateTypes DEF ForwardInv, ForwardTypeOK
<1>4. CASE chan' = chan
  <2>1. ForwardTypeOK'
    BY <1>2, <1>4 DEF ForwardInv, ForwardTypeOK, Produce, spoolVars, cmisVars
  <2>2. Line' = Line
    BY <1>4 DEF Line, Produce
  <2>3. \A x \in Known \cup Range(Line) : x \in Nat
    BY KnownTypes
  <2>4. \A x \in Known \cup Range(Line) : x <= produced + 1
    <3> SUFFICES ASSUME NEW x \in Known \cup Range(Line) PROVE x <= produced + 1
      OBVIOUS
    <3>1. x <= produced /\ x \in Nat
      BY <2>3 DEF ForwardInv, InLine
    <3> QED BY <3>1, <1>2
  <2>5. InLine'
    BY <1>1, <1>2, <2>2, <2>4 DEF ForwardInv, InLine, Produce
  <2> QED BY <1>1, <2>1, <2>5 DEF ForwardInv
<1>5. CASE chan' = Append(chan, produced + 1) /\ Len(chan) < CHANNEL_CAPACITY
  <2>1. chan' \in Seq(HostEvents) /\ Len(chan') = Len(chan) + 1 /\ Len(chan) \in Nat
    BY <1>2, <1>3, <1>5, AppendProperties, LenProperties
  <2>2. ForwardTypeOK'
    <3>1. Len(chan') <= CHANNEL_CAPACITY
      BY <1>5, <2>1, ForwardAssumption
    <3> QED BY <1>2, <2>1, <3>1 DEF ForwardInv, ForwardTypeOK, Produce, spoolVars, cmisVars
  <2>3. Line' = Line \o <<produced + 1>>
    <3> DEFINE t == <<produced + 1>>
    <3>1. t \in Seq(HostEvents) /\ chan' = chan \o t
      BY <1>2, <1>3, <1>5, AppendIsConcat
    <3>2. Line' = flight.batch \o (staged \o (chan \o t))
      BY <3>1 DEF Line, Produce
    <3> HIDE DEF t
    <3>3. staged \o (chan \o t) = (staged \o chan) \o t
      BY <1>3, <3>1, EventsAssociative
    <3>4. flight.batch \o ((staged \o chan) \o t) = (flight.batch \o (staged \o chan)) \o t
      <4>1. staged \o chan \in Seq(HostEvents)
        BY LineSeq DEF ForwardInv
      <4> DEFINE c == staged \o chan
      <4> HIDE DEF c
      <4>2. flight.batch \in Seq(HostEvents) /\ c \in Seq(HostEvents) /\ t \in Seq(HostEvents)
        BY <1>3, <3>1, <4>1 DEF c
      <4>3. flight.batch \o (c \o t) = (flight.batch \o c) \o t
        BY ONLY <4>2, EventsAssociative
      <4> QED BY <4>3 DEF c
    <3> QED BY <3>2, <3>3, <3>4 DEF Line, t
  <2> DEFINE n == Len(Line)
  <2>4. /\ n \in Nat /\ DOMAIN Line = 1 .. n /\ DOMAIN Line' = 1 .. n + 1
        /\ \A i \in 1 .. n : Line'[i] = Line[i] /\ Line[i] \in Nat
        /\ Line'[n + 1] = produced + 1
    <3>1. Line \in Seq(HostEvents)
      BY LineSeq DEF ForwardInv
    <3>2. Line' = Append(Line, produced + 1)
      BY <1>2, <2>3, <3>1, AppendIsConcat
    <3>3. Line' \in Seq(HostEvents) /\ Len(Line') = n + 1
      BY <1>2, <3>1, <3>2, AppendProperties
    <3>4. \A i \in 1 .. n : Line[i] \in Nat
      <4>1. \A i \in 1 .. n : Line[i] \in HostEvents
        BY <3>1, ElementOfSeq
      <4> QED BY <4>1 DEF HostEvents
    <3> QED BY <1>2, <3>1, <3>2, <3>3, <3>4, AppendProperties, LenProperties
  <2>5. \A i \in 1 .. n : Line[i] <= produced
    BY <2>4 DEF ForwardInv, InLine, Range
  <2> HIDE DEF n
  <2>6. \A i \in 1 .. n + 1 : i \in 1 .. n \/ i = n + 1
    BY <2>4
  <2>7. Rising(Line')
    <3> SUFFICES ASSUME NEW i \in 1 .. n + 1, NEW j \in 1 .. n + 1, i < j PROVE Line'[i] < Line'[j]
      BY <2>4 DEF Rising
    <3>1. i \in 1 .. n
      BY <2>4
    <3>2. CASE j \in 1 .. n
      BY <2>4, <3>1, <3>2 DEF ForwardInv, InLine, Rising
    <3>3. CASE j = n + 1
      BY <1>2, <2>4, <2>5, <3>1, <3>3
    <3> QED BY <2>6, <3>2, <3>3
  <2>8. \A y \in Range(Line') : y \in Range(Line) \/ y = produced + 1
    BY <2>4, <2>6 DEF Range
  <2>9. \A x \in Known \cup Range(Line) : x \in Nat
    BY KnownTypes
  <2>10. \A x \in Known \cup Range(Line) : x < produced + 1 /\ x <= produced + 1
    BY <1>2, <2>9 DEF ForwardInv, InLine
  <2>11. InLine'
    <3>1. \A x \in Known, y \in Range(Line') : x < y
      BY <2>8, <2>10 DEF ForwardInv, InLine
    <3>2. \A x \in Known \cup Range(Line') : x <= produced + 1
      BY <1>2, <2>8, <2>10
    <3>3. flight'.done => flight'.batch = <<>>
      BY DEF ForwardInv, InLine, Produce
    <3> QED BY <1>1, <1>2, <2>7, <3>1, <3>2, <3>3 DEF InLine
  <2> QED BY <1>1, <2>2, <2>11 DEF ForwardInv
<1> QED BY <1>4, <1>5 DEF Produce

LEMMA MinOfTwo ==
    ASSUME NEW a \in Int, NEW b \in Int
    PROVE  Min({a, b}) \in {a, b} /\ Min({a, b}) <= a /\ Min({a, b}) <= b
<1> DEFINE T == {a, b}
<1>1. \E x \in T : \A y \in T : x <= y
  OBVIOUS
<1> HIDE DEF T
<1>2. Min(T) \in T /\ \A y \in T : Min(T) <= y
  BY <1>1, Zenon DEF Min
<1>3. a \in T /\ b \in T
  BY DEF T
<1> QED BY <1>2, <1>3 DEF T

\* The numbers of consecutive entries compare like their places.
LEMMA NumbersCompare ==
    ASSUME NEW a \in Nat, NEW l \in Nat, NEW i \in Nat, NEW k \in Nat
    PROVE  a - l + i - 1 <= a - l + k - 1 <=> i <= k
<1>1. ASSUME NEW z \in Int PROVE z + i - 1 <= z + k - 1 <=> i <= k
  OBVIOUS
<1> QED BY <1>1

\* A sequence is its first n elements followed by the others.
LEMMA CutInTwo ==
    ASSUME NEW s \in Seq(HostEvents), NEW n \in Nat, n <= Len(s)
    PROVE  /\ SubSeq(s, 1, n) \in Seq(HostEvents) /\ Len(SubSeq(s, 1, n)) = n
           /\ SubSeq(s, n + 1, Len(s)) \in Seq(HostEvents) /\ Len(SubSeq(s, n + 1, Len(s))) = Len(s) - n
           /\ SubSeq(s, 1, n) \o SubSeq(s, n + 1, Len(s)) = s
<1>1. Len(s) \in Nat /\ 0 \in Nat /\ 0 <= n /\ n - 0 = n /\ 0 + 1 = 1
  BY LenProperties
<1>2. SubSeq(s, 0 + 1, n) \in Seq(HostEvents) /\ Len(SubSeq(s, 0 + 1, n)) = n - 0
  BY <1>1, Slice
<1>3. SubSeq(s, n + 1, Len(s)) \in Seq(HostEvents) /\ Len(SubSeq(s, n + 1, Len(s))) = Len(s) - n
  BY <1>1, Slice
<1>4. SubSeq(s, 1, n) \o SubSeq(s, n + 1, Len(s)) = SubSeq(s, 1, Len(s))
  <2>1. 1 \in 1 .. Len(s) + 1 /\ n \in 1 - 1 .. Len(s) /\ Len(s) \in n .. Len(s)
    BY <1>1
  <2> QED BY <2>1, ConcatAdjacentSubSeq
<1>5. SubSeq(s, 1, Len(s)) = s
  BY SubSeqFull
<1> QED BY <1>1, <1>2, <1>3, <1>4, <1>5

LEMMA IntakeStep ==
    ASSUME ForwardInv, Intake
    PROVE  ForwardInv' /\ UNCHANGED Delivery!vars
<1> DEFINE n == Min({Len(chan), Cap - Len(staged)})
           taken == SubSeq(chan, 1, n)
           rest == SubSeq(chan, n + 1, Len(chan))
           all == staged \o taken
<1>1. /\ SpoolNumbered' /\ FileHolds' /\ SpoolOnDisk' /\ NothingRuns' /\ SenderAtFront' /\ CopyKept'
      /\ Known' = Known /\ UNCHANGED Delivery!vars
  <2>1. wake' \in BOOLEAN /\ spool.up
    BY DEF Intake, ForwardInv, ForwardTypeOK
  <2> QED BY <2>1, IntakeRest DEF Intake
<1>2. /\ chan \in Seq(HostEvents) /\ staged \in Seq(HostEvents) /\ flight.batch \in Seq(HostEvents)
      /\ Len(chan) \in Nat /\ Len(staged) \in Nat /\ Cap \in Nat /\ Len(staged) <= Cap
      /\ Len(chan) <= CHANNEL_CAPACITY /\ CHANNEL_CAPACITY \in Nat
  BY StateTypes, LenProperties, ForwardAssumption DEF ForwardInv, ForwardTypeOK
<1>3. n \in Nat /\ n <= Len(chan) /\ n <= Cap - Len(staged)
  <2>1. Len(chan) \in Int /\ Cap - Len(staged) \in Int /\ Cap - Len(staged) >= 0
    BY <1>2
  <2>2. n \in {Len(chan), Cap - Len(staged)} /\ n <= Len(chan) /\ n <= Cap - Len(staged)
    BY <2>1, MinOfTwo
  <2> HIDE DEF n
  <2>3. Len(chan) \in Nat /\ Cap - Len(staged) \in Nat
    BY <1>2
  <2> QED BY <2>2, <2>3
<1>4. /\ chan' = rest
      /\ IF flight = NoFlight
         THEN flight' = [NoFlight EXCEPT !.batch = all] /\ staged' = <<>>
         ELSE staged' = all /\ UNCHANGED flight
      /\ produced' = produced
  BY DEF Intake
<1> HIDE DEF n
<1>5. /\ taken \in Seq(HostEvents) /\ Len(taken) = n
      /\ rest \in Seq(HostEvents) /\ Len(rest) = Len(chan) - n
      /\ taken \o rest = chan
  BY <1>2, <1>3, CutInTwo
<1> HIDE DEF taken, rest
<1>6. all \in Seq(HostEvents) /\ Len(all) = Len(staged) + n
  BY <1>2, <1>5, ConcatProperties
<1>7. all \o rest = staged \o chan
  <2>1. staged \in Seq(HostEvents) /\ taken \in Seq(HostEvents) /\ rest \in Seq(HostEvents)
    BY <1>2, <1>5
  <2>2. (staged \o taken) \o rest = staged \o (taken \o rest)
    BY ONLY <2>1, EventsAssociative
  <2> QED BY <2>2, <1>5
<1> HIDE DEF all
<1>8. Len(all) <= Cap /\ Len(rest) <= CHANNEL_CAPACITY
  BY <1>2, <1>3, <1>5, <1>6
<1>9. CASE flight = NoFlight
  <2>1. flight' = [batch |-> all, done |-> FALSE] /\ staged' = <<>> /\ flight.batch = <<>>
    BY <1>4, <1>9 DEF NoFlight
  <2>2. ForwardTypeOK'
    <3>1. staged' \in Seq(HostEvents) /\ Len(staged') <= Cap
      BY <1>2, <2>1
    <3>2. flight' \in [batch : Seq(HostEvents), done : BOOLEAN] /\ Len(flight'.batch) <= Cap
      BY <1>6, <1>8, <2>1
    <3>3. chan' \in Seq(HostEvents) /\ Len(chan') <= CHANNEL_CAPACITY
      BY <1>4, <1>5, <1>8
    <3> QED BY <1>4, <3>1, <3>2, <3>3 DEF ForwardInv, ForwardTypeOK, Intake, spoolVars, cmisVars
  <2>3. Line' = Line
    <3>1. Line' = all \o (<<>> \o rest)
      BY <1>4, <2>1 DEF Line
    <3>2. <<>> \o rest = rest
      BY <1>5, ConcatEmptySeq
    <3>3. <<>> \o (staged \o chan) = staged \o chan
      BY LineSeq, ConcatEmptySeq DEF ForwardInv
    <3> QED BY <1>7, <2>1, <3>1, <3>2, <3>3 DEF Line
  <2>4. InLine'
    BY <1>1, <1>4, <2>1, <2>3 DEF ForwardInv, InLine
  <2> QED BY <1>1, <2>2, <2>4 DEF ForwardInv
<1>10. CASE flight # NoFlight
  <2>1. flight' = flight /\ staged' = all
    BY <1>4, <1>10
  <2>2. ForwardTypeOK'
    BY <1>4, <1>5, <1>6, <1>8, <2>1 DEF ForwardInv, ForwardTypeOK, Intake, spoolVars, cmisVars
  <2>3. Line' = Line
    BY <1>4, <1>7, <2>1 DEF Line
  <2>4. InLine'
    BY <1>1, <1>4, <2>1, <2>3 DEF ForwardInv, InLine
  <2> QED BY <1>1, <2>2, <2>4 DEF ForwardInv
<1> QED BY <1>9, <1>10

LEMMA JoinFlightStep ==
    ASSUME ForwardInv, JoinFlight
    PROVE  ForwardInv' /\ UNCHANGED Delivery!vars
<1>1. spool.up
  BY DEF JoinFlight, ForwardInv, NothingRuns, NoFlight
<1>2. /\ SpoolNumbered' /\ FileHolds' /\ SpoolOnDisk' /\ NothingRuns' /\ SenderAtFront' /\ CopyKept'
      /\ Known' = Known /\ UNCHANGED Delivery!vars
  <2>1. wake' \in BOOLEAN
    BY DEF JoinFlight
  <2> QED BY <1>1, <2>1, IntakeRest DEF JoinFlight
<1>3. /\ chan \in Seq(HostEvents) /\ staged \in Seq(HostEvents) /\ Len(staged) <= Cap /\ Cap \in Nat
      /\ flight.batch = <<>>
  BY StateTypes DEF ForwardInv, ForwardTypeOK, InLine, JoinFlight
<1>4. flight' = [batch |-> staged, done |-> FALSE] /\ staged' = <<>> /\ UNCHANGED <<produced, chan>>
  BY DEF JoinFlight
<1>5. ForwardTypeOK'
  <2>1. staged' \in Seq(HostEvents) /\ Len(staged') <= Cap
    BY <1>3, <1>4
  <2>2. flight' \in [batch : Seq(HostEvents), done : BOOLEAN] /\ Len(flight'.batch) <= Cap
    BY <1>3, <1>4
  <2> QED BY <2>1, <2>2 DEF ForwardInv, ForwardTypeOK, JoinFlight, spoolVars, cmisVars
<1>6. Line' = Line
  <2>1. Line' = staged \o (<<>> \o chan)
    BY <1>4 DEF Line
  <2>2. <<>> \o chan = chan
    BY <1>3, ConcatEmptySeq
  <2>3. <<>> \o (staged \o chan) = staged \o chan
    BY LineSeq, ConcatEmptySeq DEF ForwardInv
  <2> QED BY <1>3, <2>1, <2>2, <2>3 DEF Line
<1>7. InLine'
  BY <1>2, <1>4, <1>6 DEF ForwardInv, InLine
<1> QED BY <1>2, <1>5, <1>7 DEF ForwardInv

-----------------------------------------------------------------------------
(* Writing the spool                                                       *)

\* A spool that may be written.
Sound(sp) ==
    /\ sp \in Spools /\ Len(sp.pending) <= Cap
    /\ Numbered(sp) /\ Rising(EventsOf(sp.pending))

\* File f is the spool sp as the next append needs it.
Mirrors(f, sp) ==
    /\ f \in SpoolFiles /\ ~f.torn /\ Holds(f, sp.pending)
    /\ \A i \in DOMAIN f.records : f.records[i].seq < sp.next

\* File f holds no more than was durable and the events q, and of what was
\* durable it misses at most the events lost.
Fits(f, q, lost) ==
    /\ f \in SpoolFiles /\ Holds(f, Loaded(f))
    /\ Range(EventsOf(Loaded(f))) \subseteq Range(Saved) \cup q
    /\ Range(Saved) \ Range(EventsOf(Loaded(f))) \subseteq lost

\* What an attempt to write spool sp may come to.
Persisted(sp, lost) ==
    /\ spool' \in Spools /\ spool'.up = sp.up /\ spool'.pending = sp.pending /\ spool'.next = sp.next
    /\ aside' = aside \/ aside' = aside \cup Range(Saved)
    /\ \/ /\ ~spool'.unread /\ Mirrors(file', sp)
          /\ Range(Saved) \ Range(EventsOf(sp.pending)) \subseteq lost \cup aside'
       \/ /\ ~spool'.unread /\ spool'.rewrite
          /\ Fits(file', Range(EventsOf(sp.pending)), lost)
          /\ Range(Saved) \subseteq Range(EventsOf(sp.pending)) \cup lost
       \/ ~spool'.unread /\ spool'.rewrite /\ file' = EmptyFile /\ Range(Saved) \subseteq aside'
       \/ spool'.unread /\ spool'.rewrite /\ file' = file

LEMMA NumberedAscending ==
    ASSUME NEW sp \in Spools, Numbered(sp)
    PROVE  Ascending(sp.pending)
<1>1. sp.pending \in Seq(Entries) /\ sp.next \in Nat
  BY DEF Spools
<1>2. Len(sp.pending) \in Nat /\ DOMAIN sp.pending = 1 .. Len(sp.pending)
  BY <1>1, EntrySeq
<1> QED BY <1>1, <1>2 DEF Numbered, Ascending

LEMMA MirrorWritten ==
    ASSUME NEW sp, Sound(sp), NEW g, g \in SpoolFiles, ~g.torn, g.records = RecordsOf(sp.pending)
    PROVE  Mirrors(g, sp)
<1>1. sp.pending \in Seq(Entries) /\ sp.next \in Nat
  BY DEF Sound, Spools
<1>2. Ascending(sp.pending)
  BY NumberedAscending DEF Sound
<1>3. Reads(g, sp.pending)
  BY <1>1, <1>2, WrittenAnew
<1>4. Len(sp.pending) \in Nat /\ DOMAIN sp.pending = 1 .. Len(sp.pending)
  BY <1>1, EntrySeq
<1>5. /\ DOMAIN g.records = 1 .. Len(sp.pending)
      /\ \A i \in 1 .. Len(sp.pending) : g.records[i].seq = sp.pending[i].seq
  BY <1>1, EventRecords
<1>6. \A i \in 1 .. Len(sp.pending) : sp.pending[i].seq < sp.next
  BY <1>1, <1>4 DEF Sound, Numbered
<1> QED BY <1>3, <1>5, <1>6 DEF Mirrors, Holds, Sound

LEMMA MirrorLoaded ==
    ASSUME NEW sp, NEW f, Mirrors(f, sp)
    PROVE  Loaded(f) = sp.pending
  BY LoadedIs DEF Mirrors, Holds

LEMMA WrittenFile ==
    ASSUME NEW s \in Seq(Entries)
    PROVE  LET g == [records |-> RecordsOf(s), torn |-> FALSE]
           IN  g \in SpoolFiles /\ ~g.torn /\ g.records = RecordsOf(s)
  BY EventRecords DEF SpoolFiles

LEMMA MarkedSpool ==
    ASSUME NEW sp \in Spools, NEW a \in BOOLEAN, NEW b \in BOOLEAN
    PROVE  LET r == [sp EXCEPT !.rewrite = a, !.unread = b]
           IN  /\ r \in Spools /\ r.rewrite = a /\ r.unread = b
               /\ r.up = sp.up /\ r.pending = sp.pending /\ r.next = sp.next
<1> DEFINE r == [sp EXCEPT !.rewrite = a, !.unread = b]
           m == [sp EXCEPT !.rewrite = a]
<1>1. m \in Spools /\ m.rewrite = a /\ m.unread = sp.unread /\ m.up = sp.up /\ m.pending = sp.pending /\ m.next = sp.next
  BY DEF Spools
<1>2. r = [m EXCEPT !.unread = b]
  BY DEF Spools
<1> HIDE DEF m
<1> QED BY <1>1, <1>2 DEF Spools

LEMMA RewriteOutcome ==
    ASSUME ForwardInv, NEW sp, Sound(sp), NEW f \in SpoolFiles, NEW n \in Nat, NEW lost,
           sp.unread => f = file,
           ~sp.unread => Fits(f, Range(EventsOf(sp.pending)), lost),
           ~sp.unread => Range(Saved) \subseteq Range(EventsOf(sp.pending)) \cup lost,
           Rewrite(sp, f, n)
    PROVE  Persisted(sp, lost) /\ mishaps' \in 0 .. MaxMishaps
<1> DEFINE moved == IF sp.unread THEN Range(EventsOf(Loaded(f))) ELSE {}
           rest == IF sp.unread THEN EmptyFile ELSE f
           q == Range(EventsOf(sp.pending))
<1>1. sp \in Spools /\ sp.pending \in Seq(Entries) /\ sp.unread \in BOOLEAN
  BY DEF Sound, Spools
<1>2. sp.unread => moved = Range(Saved)
  BY DEF Saved
<1>3. ~sp.unread => moved = {}
  OBVIOUS
<1>4. ASSUME file' = [records |-> RecordsOf(sp.pending), torn |-> FALSE],
             aside' = aside \cup moved,
             spool' = [sp EXCEPT !.rewrite = FALSE, !.unread = FALSE],
             Mishap(n)
      PROVE  Persisted(sp, lost) /\ mishaps' \in 0 .. MaxMishaps
  <2>1. Mirrors(file', sp)
    BY <1>1, <1>4, WrittenFile, MirrorWritten
  <2>2. /\ spool' \in Spools /\ ~spool'.unread
        /\ spool'.up = sp.up /\ spool'.pending = sp.pending /\ spool'.next = sp.next
    BY <1>1, <1>4, MarkedSpool
  <2>3. mishaps' \in 0 .. MaxMishaps
    BY <1>4, MishapsBounded DEF ForwardInv
  <2>4. aside' = aside \/ aside' = aside \cup Range(Saved)
    BY <1>1, <1>2, <1>3, <1>4
  <2>5. Range(Saved) \ q \subseteq lost \cup aside'
    <3>1. CASE sp.unread
      BY <1>2, <1>4, <3>1
    <3>2. CASE ~sp.unread
      BY <3>2
    <3> QED BY <3>1, <3>2
  <2> QED BY <2>1, <2>2, <2>3, <2>4, <2>5 DEF Persisted
<1>5. ASSUME file' = rest, aside' = aside \cup moved,
             spool' = [sp EXCEPT !.rewrite = TRUE, !.unread = FALSE],
             Mishap(n + 1)
      PROVE  Persisted(sp, lost) /\ mishaps' \in 0 .. MaxMishaps
  <2>1. /\ spool' \in Spools /\ ~spool'.unread /\ spool'.rewrite
        /\ spool'.up = sp.up /\ spool'.pending = sp.pending /\ spool'.next = sp.next
    BY <1>1, <1>5, MarkedSpool
  <2>2. mishaps' \in 0 .. MaxMishaps
    <3>1. n + 1 \in Nat
      OBVIOUS
    <3> QED BY <1>5, <3>1, MishapsBounded DEF ForwardInv
  <2>3. aside' = aside \/ aside' = aside \cup Range(Saved)
    BY <1>1, <1>2, <1>3, <1>5
  <2>4. CASE sp.unread
    <3>1. file' = EmptyFile /\ Range(Saved) \subseteq aside'
      BY <1>2, <1>5, <2>4
    <3> QED BY <2>1, <2>2, <2>3, <3>1 DEF Persisted
  <2>5. CASE ~sp.unread
    <3>1. Fits(file', q, lost) /\ Range(Saved) \subseteq q \cup lost
      BY <1>5, <2>5
    <3> QED BY <2>1, <2>2, <2>3, <3>1 DEF Persisted
  <2> QED BY <2>4, <2>5
<1>6. ASSUME sp.unread, file' = f, aside' = aside,
             spool' = [sp EXCEPT !.rewrite = TRUE],
             Mishap(n + 1)
      PROVE  Persisted(sp, lost) /\ mishaps' \in 0 .. MaxMishaps
  <2>1. /\ spool' \in Spools /\ spool'.unread /\ spool'.rewrite
        /\ spool'.up = sp.up /\ spool'.pending = sp.pending /\ spool'.next = sp.next
    BY <1>1, <1>6 DEF Spools
  <2>2. mishaps' \in 0 .. MaxMishaps
    <3>1. n + 1 \in Nat
      OBVIOUS
    <3> QED BY <1>6, <3>1, MishapsBounded DEF ForwardInv
  <2>3. file' = file
    BY <1>6
  <2> QED BY <1>6, <2>1, <2>2, <2>3 DEF Persisted
<1> QED BY <1>4, <1>5, <1>6 DEF Rewrite

LEMMA EmptyHolds ==
    /\ EmptyFile \in SpoolFiles /\ Holds(EmptyFile, <<>>)
    /\ Loaded(EmptyFile) = <<>> /\ Range(EventsOf(<<>>)) = {} /\ EventsOf(<<>>) = <<>>
<1>1. EmptyFile \in SpoolFiles /\ EmptyFile.records = <<>>
  <2>1. <<>> \in Seq(Records)
    OBVIOUS
  <2> QED BY <2>1 DEF EmptyFile, SpoolFiles
<1>2. <<>> \in Seq(Entries) /\ Ascending(<<>>) /\ RecordsOf(<<>>) = <<>> /\ EventsOf(<<>>) = <<>>
  BY DEF Ascending, RecordsOf, EventsOf
<1>3. Reads(EmptyFile, <<>>)
  BY <1>1, <1>2, WrittenAnew
<1>4. Len(<<>>) <= Cap /\ Rising(<<>>) /\ Range(<<>>) = {}
  BY ForwardAssumption DEF Rising, Range
<1> QED BY <1>1, <1>2, <1>3, <1>4, LoadedIs DEF Holds

\* What holds after spool sp was written, or not, when the other steps of the
\* action only make the lost events answered for or dropped.
LEMMA PersistedGives ==
    ASSUME ForwardInv, NEW sp, Sound(sp), NEW lost, Persisted(sp, lost)
    PROVE  /\ spool' \in Spools /\ Len(spool'.pending) <= Cap /\ file' \in SpoolFiles /\ aside' \subseteq HostEvents
           /\ SpoolNumbered' /\ FileHolds' /\ (spool'.unread => spool'.rewrite)
           /\ (spool'.up /\ ~spool'.rewrite => Mirrors(file', sp))
           /\ (spool'.up /\ ~spool'.unread => Range(Saved') \subseteq Range(EventsOf(sp.pending)) \cup lost)
           /\ Saved' \in Seq(HostEvents)
           /\ Range(Saved') \subseteq Range(Saved) \cup Range(EventsOf(sp.pending))
           /\ Range(Saved) \ Range(Saved') \subseteq lost \cup aside'
           /\ \E moved \in {{}, Range(Saved)} : aside' = aside \cup moved
<1> DEFINE q == Range(EventsOf(sp.pending))
           Goal == /\ file' \in SpoolFiles /\ FileHolds' /\ Saved' \in Seq(HostEvents)
                   /\ Range(Saved') \subseteq Range(Saved) \cup q
                   /\ Range(Saved) \ Range(Saved') \subseteq lost \cup aside'
                   /\ (~spool'.unread => Range(Saved') \subseteq q \cup lost)
                   /\ (spool'.unread => spool'.rewrite)
                   /\ (~spool'.rewrite => Mirrors(file', sp))
<1>1. /\ spool' \in Spools /\ spool'.pending = sp.pending /\ spool'.next = sp.next
      /\ (aside' = aside \/ aside' = aside \cup Range(Saved))
  BY DEF Persisted
<1>2. Len(spool'.pending) <= Cap /\ SpoolNumbered'
  BY <1>1 DEF Sound, SpoolNumbered, Numbered
<1>3. aside' \subseteq HostEvents
  BY <1>1, KnownTypes DEF ForwardInv, ForwardTypeOK
<1>4. \E moved \in {{}, Range(Saved)} : aside' = aside \cup moved
  BY <1>1
<1>5. CASE ~spool'.unread /\ Mirrors(file', sp) /\ Range(Saved) \ q \subseteq lost \cup aside'
  <2>1. Loaded(file') = sp.pending
    BY <1>5, MirrorLoaded
  <2>2. FileHolds' /\ file' \in SpoolFiles
    BY <1>5, <2>1 DEF FileHolds, Mirrors
  <2>3. Saved' = EventsOf(sp.pending)
    BY <2>1 DEF Saved
  <2>4. Saved' \in Seq(HostEvents)
    BY <2>3, EventsOfSeq DEF Sound, Spools
  <2>5. Goal
    BY <1>5, <2>2, <2>3, <2>4
  <2> QED BY <1>1, <1>2, <1>3, <1>4, <2>5
<1>6. CASE ~spool'.unread /\ spool'.rewrite /\ Fits(file', q, lost) /\ Range(Saved) \subseteq q \cup lost
  <2>1. FileHolds' /\ file' \in SpoolFiles
    BY <1>6 DEF FileHolds, Fits
  <2>2. Saved' = EventsOf(Loaded(file'))
    BY DEF Saved
  <2>3. Saved' \in Seq(HostEvents)
    BY <1>6, <2>2, EventsOfSeq DEF Fits, Holds, Reads
  <2>4. Goal
    BY <1>6, <2>1, <2>2, <2>3 DEF Fits
  <2> QED BY <1>1, <1>2, <1>3, <1>4, <2>4
<1>7. CASE ~spool'.unread /\ spool'.rewrite /\ file' = EmptyFile /\ Range(Saved) \subseteq aside'
  <2>1. FileHolds' /\ file' \in SpoolFiles
    BY <1>7, EmptyHolds DEF FileHolds
  <2>2. Saved' = <<>> /\ Range(Saved') = {} /\ Saved' \in Seq(HostEvents)
    <3>1. Loaded(file') = <<>>
      BY <1>7, EmptyHolds
    <3>2. Saved' = <<>>
      BY <3>1, EmptyHolds DEF Saved
    <3>3. Range(<<>>) = {} /\ <<>> \in Seq(HostEvents)
      BY EmptyHolds
    <3> QED BY <3>2, <3>3
  <2>3. Goal
    BY <1>7, <2>1, <2>2
  <2> QED BY <1>1, <1>2, <1>3, <1>4, <2>3
<1>8. CASE spool'.unread /\ spool'.rewrite /\ file' = file
  <2>1. FileHolds' /\ file' \in SpoolFiles
    BY <1>8 DEF FileHolds, ForwardInv, ForwardTypeOK
  <2>2. Saved' = Saved /\ Saved' \in Seq(HostEvents)
    BY <1>8, KnownTypes DEF Saved
  <2>3. Goal
    BY <1>8, <2>1, <2>2
  <2> QED BY <1>1, <1>2, <1>3, <1>4, <2>3
<1> QED BY <1>5, <1>6, <1>7, <1>8 DEF Persisted

-----------------------------------------------------------------------------
(* A push                                                                  *)

\* The new events of the batch, how many of the oldest leave for them, and
\* what of the spool stays.
NewEntries == [i \in DOMAIN flight.batch |-> [seq |-> spool.next + i - 1, ev |-> flight.batch[i]]]
Over == IF Len(spool.pending) + Len(flight.batch) > Cap
        THEN Len(spool.pending) + Len(flight.batch) - Cap ELSE 0
Left == SubSeq(spool.pending, Over + 1, Len(spool.pending))

LEMMA EventIn ==
    ASSUME NEW s \in Seq(Entries), NEW x
    PROVE  x \in Range(EventsOf(s)) <=> \E i \in 1 .. Len(s) : x = s[i].ev
<1>1. DOMAIN EventsOf(s) = 1 .. Len(s) /\ \A i \in 1 .. Len(s) : EventsOf(s)[i] = s[i].ev
  BY EventsOfSeq
<1> QED BY <1>1 DEF Range

LEMMA BatchFacts ==
    ASSUME ForwardInv
    PROVE  /\ NewEntries \in Seq(Entries) /\ Len(NewEntries) = Len(flight.batch)
           /\ \A k \in 1 .. Len(flight.batch) : /\ NewEntries[k].seq = spool.next + k - 1
                                                /\ NewEntries[k].ev = flight.batch[k]
           /\ Len(spool.pending) \in Nat /\ Len(flight.batch) \in Nat /\ Len(flight.batch) <= Cap
           /\ spool.next \in Nat /\ Cap \in Nat
           /\ DOMAIN flight.batch = 1 .. Len(flight.batch)
           /\ \A k \in 1 .. Len(flight.batch) : flight.batch[k] \in Range(Line)
           /\ \A k, l \in 1 .. Len(flight.batch) : k < l => flight.batch[k] < flight.batch[l]
<1>1. /\ flight.batch \in Seq(HostEvents) /\ spool.next \in Nat /\ Cap \in Nat
      /\ spool.pending \in Seq(Entries)
  BY StateTypes DEF ForwardInv
<1>2. /\ Len(flight.batch) \in Nat /\ DOMAIN flight.batch = 1 .. Len(flight.batch)
      /\ \A k \in 1 .. Len(flight.batch) : flight.batch[k] \in HostEvents
      /\ Len(spool.pending) \in Nat
  BY <1>1, LenProperties, ElementOfSeq
<1>3. Len(flight.batch) <= Cap
  BY DEF ForwardInv, ForwardTypeOK
<1>4. \A k \in 1 .. Len(flight.batch) : [seq |-> spool.next + k - 1, ev |-> flight.batch[k]] \in Entries
  <2> SUFFICES ASSUME NEW k \in 1 .. Len(flight.batch)
               PROVE  [seq |-> spool.next + k - 1, ev |-> flight.batch[k]] \in Entries
    OBVIOUS
  <2>1. spool.next + k - 1 \in Nat
    BY <1>1, <1>2
  <2> QED BY <1>2, <2>1 DEF Entries
<1>5. NewEntries \in Seq(Entries) /\ Len(NewEntries) = Len(flight.batch)
      /\ \A k \in 1 .. Len(flight.batch) : NewEntries[k] = [seq |-> spool.next + k - 1, ev |-> flight.batch[k]]
  <2>1. NewEntries = [k \in 1 .. Len(flight.batch) |-> [seq |-> spool.next + k - 1, ev |-> flight.batch[k]]]
    BY <1>2 DEF NewEntries
  <2> QED BY <1>2, <1>4, <2>1
<1>6. IsJoin(flight.batch, staged \o chan, Line)
  BY <1>1, LineSeq, Joined DEF ForwardInv, Line
<1>7. /\ \A k \in 1 .. Len(flight.batch) : Line[k] = flight.batch[k]
      /\ \A k \in 1 .. Len(flight.batch) : k \in DOMAIN Line
  <2> DEFINE b == Len(flight.batch)
             c == Len(staged \o chan)
  <2>1. /\ b \in Nat /\ c \in Nat /\ DOMAIN Line = 1 .. b + c
        /\ \A k \in 1 .. b : Line[k] = flight.batch[k]
    BY <1>6, Zenon DEF IsJoin
  <2> HIDE DEF b, c
  <2>2. \A k \in 1 .. b : k \in DOMAIN Line
    BY <2>1
  <2> QED BY <2>1, <2>2 DEF b
<1>8. Rising(Line)
  BY DEF ForwardInv, InLine
<1>9. \A k \in 1 .. Len(flight.batch) : flight.batch[k] \in Range(Line)
  BY <1>7 DEF Range
<1>10. \A k, l \in 1 .. Len(flight.batch) : k < l => flight.batch[k] < flight.batch[l]
  BY <1>7, <1>8 DEF Rising
<1>11. \A k \in 1 .. Len(flight.batch) : /\ NewEntries[k].seq = spool.next + k - 1
                                         /\ NewEntries[k].ev = flight.batch[k]
  <2> SUFFICES ASSUME NEW k \in 1 .. Len(flight.batch)
               PROVE  NewEntries[k].seq = spool.next + k - 1 /\ NewEntries[k].ev = flight.batch[k]
    OBVIOUS
  <2>1. NewEntries[k] = [seq |-> spool.next + k - 1, ev |-> flight.batch[k]]
    BY <1>5
  <2> HIDE DEF NewEntries
  <2> QED BY <2>1
<1> QED BY <1>1, <1>2, <1>3, <1>5, <1>9, <1>10, <1>11

LEMMA OverFacts ==
    ASSUME ForwardInv
    PROVE  /\ Over \in Nat /\ Over <= Len(spool.pending)
           /\ Len(spool.pending) - Over + Len(flight.batch) <= Cap
           /\ Over > 0 => Len(spool.pending) - Over + Len(flight.batch) = Cap
           /\ Over > 0 <=> Len(spool.pending) + Len(flight.batch) > Cap
           /\ Left \in Seq(Entries) /\ Len(Left) = Len(spool.pending) - Over
           /\ \A i \in 1 .. Len(spool.pending) - Over : Left[i] = spool.pending[Over + i]
<1>1. /\ Len(spool.pending) \in Nat /\ Len(flight.batch) \in Nat /\ Cap \in Nat /\ Len(flight.batch) <= Cap
      /\ Len(spool.pending) <= Cap
  BY BatchFacts DEF ForwardInv, ForwardTypeOK
<1>2. /\ Over \in Nat /\ Over <= Len(spool.pending)
      /\ Len(spool.pending) - Over + Len(flight.batch) <= Cap
      /\ Over > 0 => Len(spool.pending) - Over + Len(flight.batch) = Cap
      /\ Over > 0 <=> Len(spool.pending) + Len(flight.batch) > Cap
  <2> DEFINE a == Len(spool.pending)
             b == Len(flight.batch)
  <2> HIDE DEF a, b
  <2>1. a \in Nat /\ b \in Nat /\ b <= Cap /\ Over = IF a + b > Cap THEN a + b - Cap ELSE 0
    BY <1>1 DEF Over, a, b
  <2>2. /\ Over \in Nat /\ Over <= a /\ a - Over + b <= Cap
        /\ (Over > 0 => a - Over + b = Cap) /\ (Over > 0 <=> a + b > Cap)
    BY <1>1, <2>1
  <2> QED BY <2>2 DEF a, b
<1>3. spool.pending \in Seq(Entries) /\ Len(spool.pending) <= Len(spool.pending)
  BY <1>1, StateTypes DEF ForwardInv
<1>4. /\ Left \in Seq(Entries) /\ Len(Left) = Len(spool.pending) - Over
      /\ \A i \in 1 .. Len(spool.pending) - Over : Left[i] = spool.pending[Over + i]
  <2> HIDE DEF Over
  <2>1. Over \in Nat /\ Over <= Len(spool.pending)
    BY <1>2
  <2> QED BY <1>1, <1>3, <2>1, Slice DEF Left
<1> QED BY <1>2, <1>4

LEMMA TwoFields ==
    ASSUME NEW sp \in Spools, NEW q, NEW x
    PROVE  [sp EXCEPT !.pending = q, !.next = x] = [[sp EXCEPT !.pending = q] EXCEPT !.next = x]
  BY DEF Spools

\* The spool after a push.
LEMMA PushedQueue ==
    ASSUME ForwardInv
    PROVE  /\ Pushed(spool, flight.batch).pending = Left \o NewEntries
           /\ Pushed(spool, flight.batch).next = spool.next + Len(flight.batch)
           /\ Pushed(spool, flight.batch).up = spool.up
           /\ Pushed(spool, flight.batch).rewrite = spool.rewrite
           /\ Pushed(spool, flight.batch).unread = spool.unread
           /\ Pushed(spool, flight.batch) \in Spools
<1> DEFINE p == spool.pending
           L == Len(p)
           B == Len(flight.batch)
           all == p \o NewEntries
<1>1. /\ p \in Seq(Entries) /\ NewEntries \in Seq(Entries) /\ Len(NewEntries) = B
      /\ L \in Nat /\ B \in Nat /\ Cap \in Nat
  BY BatchFacts, StateTypes DEF ForwardInv
<1>2. Over \in Nat /\ Over <= L /\ Left \in Seq(Entries) /\ Len(Left) = L - Over
      /\ \A i \in 1 .. L - Over : Left[i] = p[Over + i]
  BY OverFacts
<1>3. all \in Seq(Entries) /\ Len(all) = L + B /\ IsJoin(p, NewEntries, all)
  <2>1. all \in Seq(Entries) /\ IsJoin(p, NewEntries, all)
    BY <1>1, Joined
  <2> QED BY <1>1, <2>1 DEF IsJoin
<1>4. Left \o NewEntries \in Seq(Entries) /\ IsJoin(Left, NewEntries, Left \o NewEntries)
  BY <1>1, <1>2, Joined
<1>a. Over = IF L + B > Cap THEN L + B - Cap ELSE 0
  BY DEF Over
<1> HIDE DEF p, L, B, all
<1>5. DropOverCap(all) = SubSeq(all, Over + 1, L + B)
  <2>1. CASE L + B > Cap
    <3>1. Over = L + B - Cap
      BY <2>1, <1>a
    <3>2. Len(all) > Cap /\ Len(all) - Cap + 1 = Over + 1
      BY <1>1, <1>3, <2>1, <3>1
    <3>3. DropOverCap(all) = SubSeq(all, Len(all) - Cap + 1, Len(all))
      BY <3>2 DEF DropOverCap
    <3> QED BY <1>3, <3>2, <3>3
  <2>2. CASE ~(L + B > Cap)
    <3>1. Over = 0
      BY <2>2, <1>a
    <3>2. SubSeq(all, 1, Len(all)) = all
      BY <1>3, SubSeqFull
    <3>3. Over + 1 = 1
      BY <3>1
    <3> QED BY <1>3, <2>2, <3>2, <3>3 DEF DropOverCap
  <2> QED BY <2>1, <2>2
<1>b. PICK after : after = SubSeq(all, Over + 1, L + B)
  OBVIOUS
<1>6. /\ after \in Seq(Entries) /\ Len(after) = (L + B) - Over
      /\ \A i \in 1 .. (L + B) - Over : after[i] = all[Over + i]
  <2>1. L + B \in Nat /\ Over <= L + B /\ L + B <= Len(all)
    BY <1>1, <1>2, <1>3
  <2>2. /\ SubSeq(all, Over + 1, L + B) \in Seq(Entries)
        /\ Len(SubSeq(all, Over + 1, L + B)) = (L + B) - Over
        /\ \A i \in 1 .. (L + B) - Over : SubSeq(all, Over + 1, L + B)[i] = all[Over + i]
    BY <1>2, <1>3, <2>1, Slice
  <2> QED BY <2>2, <1>b
<1>7. after = Left \o NewEntries
  <2>1. Len(Left \o NewEntries) = (L + B) - Over
    BY <1>1, <1>2, <1>4 DEF IsJoin
  <2>2. ASSUME NEW i \in 1 .. (L + B) - Over
        PROVE  after[i] = (Left \o NewEntries)[i]
    <3>1. CASE i \in 1 .. L - Over
      <4>1. Over + i \in 1 .. L
        BY <1>1, <1>2, <3>1
      <4>2. all[Over + i] = p[Over + i]
        BY <1>3, <4>1 DEF IsJoin, L
      <4>3. (Left \o NewEntries)[i] = Left[i]
        BY <1>2, <1>4, <3>1 DEF IsJoin
      <4> QED BY <1>2, <1>6, <3>1, <4>2, <4>3
    <3>2. CASE i \notin 1 .. L - Over
      <4> DEFINE k == i - (L - Over)
      <4>1. k \in 1 .. B /\ Over + i = L + k /\ i = (L - Over) + k
        BY <1>1, <1>2, <3>2
      <4> HIDE DEF k
      <4>2. all[L + k] = NewEntries[k]
        BY <1>1, <1>3, <4>1 DEF IsJoin, L
      <4>3. (Left \o NewEntries)[(L - Over) + k] = NewEntries[k]
        BY <1>1, <1>2, <1>4, <4>1 DEF IsJoin
      <4> QED BY <1>6, <4>1, <4>2, <4>3
    <3> QED BY <3>1, <3>2
  <2> QED BY <1>4, <1>6, <2>1, <2>2, SeqEqual
<1>8. Pushed(spool, flight.batch) = [spool EXCEPT !.pending = DropOverCap(all), !.next = spool.next + B]
  BY DEF Pushed, NewEntries, all, p, B
<1>9. DropOverCap(all) = after
  BY <1>5, <1>b
<1>10. spool \in Spools /\ spool.next + B \in Nat
  BY <1>1, StateTypes DEF ForwardInv, ForwardTypeOK
<1> DEFINE r == Pushed(spool, flight.batch)
           m == [spool EXCEPT !.pending = after]
<1>11. /\ m \in Spools /\ m.pending = after /\ m.up = spool.up /\ m.rewrite = spool.rewrite
       /\ m.unread = spool.unread
  BY <1>6, <1>10 DEF Spools
<1>12. r = [m EXCEPT !.next = spool.next + B]
  <2>1. r = [spool EXCEPT !.pending = after, !.next = spool.next + B]
    BY <1>8, <1>9
  <2> HIDE DEF r
  <2> QED BY <1>10, <2>1, TwoFields
<1> HIDE DEF m, r
<1>13. /\ r \in Spools /\ r.pending = after /\ r.up = spool.up /\ r.rewrite = spool.rewrite
       /\ r.unread = spool.unread /\ r.next = spool.next + B
  BY <1>10, <1>11, <1>12 DEF Spools
<1> QED BY <1>7, <1>13 DEF r, B

LEMMA RisingJoin ==
    ASSUME NEW s \in Seq(Entries), NEW t \in Seq(Entries),
           Rising(EventsOf(s)), Rising(EventsOf(t)),
           \A i \in 1 .. Len(s), k \in 1 .. Len(t) : s[i].ev < t[k].ev
    PROVE  Rising(EventsOf(s \o t))
<1> DEFINE u == s \o t
           n == Len(s)
           m == Len(t)
<1>1. u \in Seq(Entries) /\ IsJoin(s, t, u)
  BY Joined
<1>2. /\ n \in Nat /\ m \in Nat /\ Len(u) = n + m
      /\ \A i \in 1 .. n : u[i] = s[i]
      /\ \A k \in 1 .. m : u[n + k] = t[k]
      /\ \A i \in 1 .. n + m : i \in 1 .. n \/ \E k \in 1 .. m : i = n + k
  BY <1>1, Zenon DEF IsJoin
<1>3. /\ DOMAIN EventsOf(u) = 1 .. n + m /\ \A i \in 1 .. n + m : EventsOf(u)[i] = u[i].ev
  BY <1>1, <1>2, EventsOfSeq
<1>4. /\ \A i, j \in 1 .. n : i < j => s[i].ev < s[j].ev
      /\ \A i, j \in 1 .. m : i < j => t[i].ev < t[j].ev
  BY EventsOfSeq DEF Rising
<1>5. \A i \in 1 .. n, k \in 1 .. m : s[i].ev < t[k].ev
  OBVIOUS
<1> HIDE DEF u, n, m
<1> SUFFICES ASSUME NEW i \in 1 .. n + m, NEW j \in 1 .. n + m, i < j
             PROVE  u[i].ev < u[j].ev
  BY <1>3 DEF Rising, u
<1>6. CASE j \in 1 .. n
  <2>1. i \in 1 .. n
    BY <1>2, <1>6
  <2> QED BY <1>2, <1>4, <1>6, <2>1
<1>7. ASSUME NEW l \in 1 .. m, j = n + l
      PROVE  u[i].ev < u[j].ev
  <2>1. CASE i \in 1 .. n
    BY <1>2, <1>5, <1>7, <2>1
  <2>2. ASSUME NEW k \in 1 .. m, i = n + k
        PROVE  u[i].ev < u[j].ev
    <3>1. k < l
      BY <1>2, <1>7, <2>2
    <3> QED BY <1>2, <1>4, <1>7, <2>2, <3>1
  <2> QED BY <1>2, <2>1, <2>2
<1> QED BY <1>2, <1>6, <1>7

\* The first m of the new events.
NewUpTo(m) == SubSeq(NewEntries, 1, m)

LEMMA FirstOf ==
    ASSUME NEW S, NEW s \in Seq(S), NEW m \in Nat, m <= Len(s)
    PROVE  /\ SubSeq(s, 1, m) \in Seq(S) /\ Len(SubSeq(s, 1, m)) = m
           /\ \A i \in 1 .. m : SubSeq(s, 1, m)[i] = s[i]
<1>1. 0 \in Nat /\ 0 <= m /\ 0 + 1 = 1 /\ m - 0 = m /\ \A i \in 1 .. m : 0 + i = i
  OBVIOUS
<1>2. /\ SubSeq(s, 0 + 1, m) \in Seq(S) /\ Len(SubSeq(s, 0 + 1, m)) = m - 0
      /\ \A i \in 1 .. m - 0 : SubSeq(s, 0 + 1, m)[i] = s[0 + i]
  BY <1>1, Slice
<1> QED BY <1>1, <1>2

LEMMA NewFacts ==
    ASSUME ForwardInv, NEW m \in 0 .. Len(flight.batch)
    PROVE  /\ m \in Nat /\ NewUpTo(m) \in Seq(Entries) /\ Len(NewUpTo(m)) = m
           /\ \A k \in 1 .. m : /\ NewUpTo(m)[k] = NewEntries[k] /\ k \in 1 .. Len(flight.batch)
                                /\ NewUpTo(m)[k].seq = spool.next + k - 1
                                /\ NewUpTo(m)[k].ev = flight.batch[k]
           /\ Ascending(NewUpTo(m)) /\ Rising(EventsOf(NewUpTo(m)))
<1> DEFINE B == Len(flight.batch)
           u == NewUpTo(m)
<1>1. /\ NewEntries \in Seq(Entries) /\ Len(NewEntries) = B /\ B \in Nat /\ spool.next \in Nat
      /\ \A k \in 1 .. B : NewEntries[k].seq = spool.next + k - 1 /\ NewEntries[k].ev = flight.batch[k]
      /\ \A k, l \in 1 .. B : k < l => flight.batch[k] < flight.batch[l]
  BY BatchFacts
<1> HIDE DEF B
<1>2. m \in Nat /\ m <= B /\ \A k \in 1 .. m : k \in 1 .. B
  BY <1>1 DEF B
<1>3. u \in Seq(Entries) /\ Len(u) = m /\ \A k \in 1 .. m : u[k] = NewEntries[k]
  <2>1. m <= Len(NewEntries)
    BY <1>1, <1>2
  <2> QED BY <1>1, <1>2, <2>1, FirstOf DEF NewUpTo
<1>4. \A k \in 1 .. m : u[k].seq = spool.next + k - 1 /\ u[k].ev = flight.batch[k]
  BY <1>1, <1>2, <1>3
<1> HIDE DEF u
<1>5. DOMAIN u = 1 .. m
  BY <1>3, LenProperties
<1>6. Ascending(u)
  <2>1. ASSUME NEW i \in 1 .. m, NEW j \in 1 .. m, i < j
        PROVE  u[i].seq < u[j].seq
    <3>1. u[i].seq = spool.next + i - 1 /\ u[j].seq = spool.next + j - 1
      BY <1>4
    <3>2. i \in Nat /\ j \in Nat /\ spool.next \in Nat
      BY <1>1, <1>2
    <3> QED BY <2>1, <3>1, <3>2
  <2> QED BY <1>5, <2>1 DEF Ascending
<1>7. Rising(EventsOf(u))
  <2>1. DOMAIN EventsOf(u) = 1 .. m /\ \A k \in 1 .. m : EventsOf(u)[k] = u[k].ev
    BY <1>3, EventsOfSeq
  <2>2. \A k, l \in 1 .. m : k < l => u[k].ev < u[l].ev
    BY <1>1, <1>2, <1>4
  <2> QED BY <2>1, <2>2 DEF Rising
<1> QED BY <1>2, <1>3, <1>4, <1>6, <1>7 DEF u, B

LEMMA LeftFacts ==
    ASSUME ForwardInv
    PROVE  /\ Left \in Seq(Entries) /\ Len(Left) \in Nat /\ Len(Left) = Len(spool.pending) - Over
           /\ Len(Left) + Len(flight.batch) <= Cap
           /\ Len(Left) < spool.next
           /\ \A i \in 1 .. Len(Left) : /\ Left[i] = spool.pending[Over + i] /\ Over + i \in 1 .. Len(spool.pending)
                                        /\ Left[i].seq = spool.next - Len(Left) + i - 1
           /\ Rising(EventsOf(Left))
           /\ \A i \in 1 .. Len(spool.pending), k \in 1 .. Len(flight.batch) : spool.pending[i].ev < flight.batch[k]
           /\ \A i, j \in 1 .. Len(spool.pending) : i < j => spool.pending[i].ev < spool.pending[j].ev
           /\ \A i \in 1 .. Len(spool.pending) : spool.pending[i].seq = spool.next - Len(spool.pending) + i - 1
           /\ Len(spool.pending) < spool.next
<1> DEFINE p == spool.pending
           L == Len(p)
           B == Len(flight.batch)
           D == Len(Left)
<1>1. /\ p \in Seq(Entries) /\ L \in Nat /\ B \in Nat /\ spool.next \in Nat /\ Cap \in Nat
      /\ \A k \in 1 .. B : flight.batch[k] \in Range(Line)
  BY BatchFacts, StateTypes DEF ForwardInv
<1>2. /\ Over \in Nat /\ Over <= L /\ L - Over + B <= Cap
      /\ Left \in Seq(Entries) /\ D = L - Over
      /\ \A i \in 1 .. L - Over : Left[i] = p[Over + i]
  BY OverFacts
<1>3. /\ DOMAIN p = 1 .. L /\ \A i \in 1 .. L : p[i].ev \in Range(EventsOf(p))
  BY <1>1, EntrySeq, EventIn
<1>4. /\ L < spool.next /\ \A i \in 1 .. L : p[i].seq = spool.next - L + i - 1
  BY <1>3 DEF ForwardInv, SpoolNumbered, Numbered
<1>5. \A i, j \in 1 .. L : i < j => p[i].ev < p[j].ev
  <2>1. DOMAIN EventsOf(p) = 1 .. L /\ \A i \in 1 .. L : EventsOf(p)[i] = p[i].ev
    BY <1>1, EventsOfSeq
  <2>2. Rising(EventsOf(p))
    BY DEF ForwardInv, SpoolNumbered
  <2> HIDE DEF p, L
  <2> QED BY <2>1, <2>2 DEF Rising
<1>6. \A i \in 1 .. L, k \in 1 .. B : p[i].ev < flight.batch[k]
  BY <1>1, <1>3 DEF ForwardInv, InLine, Known
<1> HIDE DEF p, L, B, D
<1>7. D \in Nat /\ D + B <= Cap /\ D < spool.next
  BY <1>1, <1>2, <1>4
<1>8. ASSUME NEW i \in 1 .. D
      PROVE  Left[i] = p[Over + i] /\ Over + i \in 1 .. L /\ Left[i].seq = spool.next - D + i - 1
  <2>1. i \in 1 .. L - Over /\ Over + i \in 1 .. L
    BY <1>1, <1>2
  <2>2. Left[i] = p[Over + i]
    BY <1>2, <2>1
  <2>3. p[Over + i].seq = spool.next - L + (Over + i) - 1
    BY <1>4, <2>1
  <2>4. spool.next - L + (Over + i) - 1 = spool.next - D + i - 1
    BY <1>1, <1>2
  <2> QED BY <2>1, <2>2, <2>3, <2>4
<1>9. Rising(EventsOf(Left))
  <2>1. DOMAIN EventsOf(Left) = 1 .. D /\ \A i \in 1 .. D : EventsOf(Left)[i] = Left[i].ev
    BY <1>2, EventsOfSeq DEF D
  <2>2. ASSUME NEW i \in 1 .. D, NEW j \in 1 .. D, i < j
        PROVE  Left[i].ev < Left[j].ev
    <3>1. Over + i < Over + j
      BY <1>2, <2>2
    <3> QED BY <1>5, <1>8, <3>1
  <2> QED BY <2>1, <2>2 DEF Rising
<1> QED BY <1>2, <1>4, <1>5, <1>6, <1>7, <1>8, <1>9 DEF p, L, B, D

\* What waits once the first m new events are in.
LEMMA LeftWithNew ==
    ASSUME ForwardInv, NEW m \in 0 .. Len(flight.batch)
    PROVE  /\ Left \o NewUpTo(m) \in Seq(Entries) /\ Len(Left \o NewUpTo(m)) = Len(Left) + m
           /\ Len(Left) + m <= Cap /\ Rising(EventsOf(Left \o NewUpTo(m)))
           /\ \A i \in 1 .. Len(Left) + m : (Left \o NewUpTo(m))[i].seq = spool.next - Len(Left) + i - 1
           /\ Range(EventsOf(Left \o NewUpTo(m))) = Range(EventsOf(Left)) \cup {flight.batch[k] : k \in 1 .. m}
<1> DEFINE u == NewUpTo(m)
           D == Len(Left)
           q == Left \o u
<1>1. /\ m \in Nat /\ u \in Seq(Entries) /\ Len(u) = m /\ Rising(EventsOf(u))
      /\ \A k \in 1 .. m : /\ k \in 1 .. Len(flight.batch) /\ u[k].seq = spool.next + k - 1
                           /\ u[k].ev = flight.batch[k]
  BY NewFacts
<1>2. /\ Left \in Seq(Entries) /\ D \in Nat /\ D + Len(flight.batch) <= Cap /\ Rising(EventsOf(Left))
      /\ \A i \in 1 .. D : /\ Left[i] = spool.pending[Over + i] /\ Over + i \in 1 .. Len(spool.pending)
                           /\ Left[i].seq = spool.next - D + i - 1
  BY LeftFacts
<1>3. /\ q \in Seq(Entries) /\ IsJoin(Left, u, q)
  BY <1>1, <1>2, Joined
<1>4. /\ Len(q) = D + m
      /\ \A i \in 1 .. D : q[i] = Left[i]
      /\ \A k \in 1 .. m : q[D + k] = u[k]
      /\ \A i \in 1 .. D + m : i \in 1 .. D \/ \E k \in 1 .. m : i = D + k
  <2>1. Len(u) = m
    BY <1>1
  <2> HIDE DEF u
  <2> QED BY <1>3, <2>1, Zenon DEF IsJoin
<1>5. spool.next \in Nat /\ Len(flight.batch) \in Nat /\ Cap \in Nat
  BY BatchFacts
<1>6. D + m <= Cap
  BY <1>1, <1>2, <1>5
<1>7. Rising(EventsOf(q))
  <2>1. ASSUME NEW i \in 1 .. Len(Left), NEW k \in 1 .. Len(u)
        PROVE  Left[i].ev < u[k].ev
    <3>1. Left[i].ev = spool.pending[Over + i].ev /\ Over + i \in 1 .. Len(spool.pending)
      BY <1>2
    <3>2. u[k].ev = flight.batch[k] /\ k \in 1 .. Len(flight.batch)
      BY <1>1
    <3> QED BY <3>1, <3>2, LeftFacts
  <2> QED BY <1>1, <1>2, <2>1, RisingJoin
<1> HIDE DEF u, D, q
<1>8. ASSUME NEW i \in 1 .. D + m
      PROVE  q[i].seq = spool.next - D + i - 1
  <2>1. CASE i \in 1 .. D
    BY <1>2, <1>4, <2>1
  <2>2. ASSUME NEW k \in 1 .. m, i = D + k
        PROVE  q[i].seq = spool.next - D + i - 1
    <3>1. q[i].seq = spool.next + k - 1
      BY <1>1, <1>4, <2>2
    <3>2. spool.next + k - 1 = spool.next - D + i - 1
      BY <1>1, <1>2, <1>5, <2>2
    <3> QED BY <3>1, <3>2
  <2> QED BY <1>4, <2>1, <2>2
<1>9. Range(EventsOf(q)) = Range(EventsOf(Left)) \cup {flight.batch[k] : k \in 1 .. m}
  <2>1. ASSUME NEW x \in Range(EventsOf(q))
        PROVE  x \in Range(EventsOf(Left)) \cup {flight.batch[k] : k \in 1 .. m}
    <3>1. PICK i \in 1 .. D + m : x = q[i].ev
      BY <1>3, <1>4, EventIn
    <3>2. CASE i \in 1 .. D
      <4>1. x = Left[i].ev /\ i \in 1 .. Len(Left)
        BY <1>4, <3>1, <3>2 DEF D
      <4> QED BY <1>2, <4>1, EventIn
    <3>3. CASE \E k \in 1 .. m : i = D + k
      BY <1>1, <1>4, <3>1, <3>3
    <3> QED BY <1>4, <3>2, <3>3
  <2>2. ASSUME NEW x \in Range(EventsOf(Left)) PROVE x \in Range(EventsOf(q))
    <3>1. PICK i \in 1 .. D : x = Left[i].ev
      BY <1>2, EventIn DEF D
    <3>2. i \in 1 .. Len(q) /\ x = q[i].ev
      BY <1>1, <1>2, <1>4, <3>1
    <3> QED BY <1>3, <3>2, EventIn
  <2>3. ASSUME NEW k \in 1 .. m PROVE flight.batch[k] \in Range(EventsOf(q))
    <3>1. D + k \in 1 .. Len(q) /\ flight.batch[k] = q[D + k].ev
      BY <1>1, <1>2, <1>4
    <3> QED BY <1>3, <3>1, EventIn
  <2> QED BY <2>1, <2>2, <2>3
<1> QED BY <1>3, <1>4, <1>6, <1>7, <1>8, <1>9 DEF u, D, q

LEMMA AllNew ==
    ASSUME ForwardInv
    PROVE  NewUpTo(Len(flight.batch)) = NewEntries /\ Len(flight.batch) \in 0 .. Len(flight.batch)
<1>1. NewEntries \in Seq(Entries) /\ Len(NewEntries) = Len(flight.batch) /\ Len(flight.batch) \in Nat
  BY BatchFacts
<1>2. SubSeq(NewEntries, 1, Len(NewEntries)) = NewEntries
  BY <1>1, SubSeqFull
<1> QED BY <1>1, <1>2 DEF NewUpTo

LEMMA PushSound ==
    ASSUME ForwardInv
    PROVE  Sound(Pushed(spool, flight.batch))
<1> DEFINE r == Pushed(spool, flight.batch)
           B == Len(flight.batch)
           D == Len(Left)
<1>1. r.pending = Left \o NewEntries /\ r.next = spool.next + B /\ r \in Spools
  BY PushedQueue
<1>2. NewUpTo(B) = NewEntries /\ B \in 0 .. B
  BY AllNew
<1>3. /\ r.pending \in Seq(Entries) /\ Len(r.pending) = D + B
      /\ D + B <= Cap /\ Rising(EventsOf(r.pending))
      /\ \A i \in 1 .. D + B : r.pending[i].seq = spool.next - D + i - 1
  BY <1>1, <1>2, LeftWithNew
<1>4. D \in Nat /\ B \in Nat /\ spool.next \in Nat /\ D < spool.next
  BY LeftFacts, BatchFacts
<1>5. DOMAIN r.pending = 1 .. D + B
  BY <1>3, LenProperties
<1> HIDE DEF r, B, D
<1>6. Numbered(r)
  <2>1. Len(r.pending) < r.next
    BY <1>1, <1>3, <1>4
  <2>2. ASSUME NEW i \in DOMAIN r.pending
        PROVE  r.pending[i].seq = r.next - Len(r.pending) + i - 1
    <3>1. i \in 1 .. D + B
      BY <1>5
    <3>2. spool.next - D + i - 1 = (spool.next + B) - (D + B) + i - 1
      BY <1>4, <3>1
    <3> QED BY <1>1, <1>3, <3>1, <3>2
  <2> QED BY <2>1, <2>2 DEF Numbered
<1>7. Len(r.pending) <= Cap
  BY <1>3
<1> QED BY <1>1, <1>3, <1>6, <1>7 DEF Sound, r

\* The cap drops the oldest events.
LEMMA DroppedIs ==
    ASSUME ForwardInv
    PROVE  /\ DroppedBy(spool, flight.batch) = {spool.pending[i].ev : i \in 1 .. Over}
           /\ Range(EventsOf(Pushed(spool, flight.batch).pending))
                = Range(EventsOf(Left)) \cup Range(flight.batch)
           /\ Range(EventsOf(spool.pending)) = Range(EventsOf(Left)) \cup DroppedBy(spool, flight.batch)
<1> DEFINE p == spool.pending
           L == Len(p)
           b == flight.batch
           B == Len(b)
           D == Len(Left)
           q == Pushed(spool, flight.batch).pending
<1>1. NewUpTo(B) = NewEntries /\ B \in 0 .. B /\ q = Left \o NewEntries
  BY AllNew, PushedQueue
<1>2. /\ p \in Seq(Entries) /\ L \in Nat /\ B \in Nat /\ DOMAIN b = 1 .. B /\ b \in Seq(HostEvents)
  BY BatchFacts, StateTypes DEF ForwardInv
<1>3. Range(b) = {b[k] : k \in 1 .. B}
  BY <1>2 DEF Range
<1>4. Range(EventsOf(q)) = Range(EventsOf(Left)) \cup Range(b)
  <2>1. Range(EventsOf(Left \o NewUpTo(B))) = Range(EventsOf(Left)) \cup {b[k] : k \in 1 .. B}
    BY <1>1, LeftWithNew
  <2> QED BY <1>1, <1>3, <2>1
<1>5. /\ Left \in Seq(Entries) /\ D \in Nat /\ D = L - Over
      /\ \A i \in 1 .. D : Left[i] = p[Over + i] /\ Over + i \in 1 .. L
      /\ \A i \in 1 .. L, k \in 1 .. B : p[i].ev < b[k]
      /\ \A i, j \in 1 .. L : i < j => p[i].ev < p[j].ev
  BY LeftFacts
<1>6. Over \in Nat /\ Over <= L
  BY OverFacts
<1>7. Range(EventsOf(p) \o b) = Range(EventsOf(p)) \cup Range(b)
  BY <1>2, EventsOfSeq, RangeConcatenation
<1>8. DroppedBy(spool, flight.batch) = (Range(EventsOf(p)) \cup Range(b)) \ (Range(EventsOf(Left)) \cup Range(b))
  BY <1>4, <1>7 DEF DroppedBy
<1>9. /\ \A x : x \in Range(EventsOf(p)) <=> \E i \in 1 .. L : x = p[i].ev
      /\ \A x : x \in Range(EventsOf(Left)) <=> \E i \in 1 .. D : x = Left[i].ev
  BY <1>2, <1>5, EventIn
<1>10. \A i \in 1 .. L : p[i].ev \in HostEvents /\ p[i].ev \in Nat
  <2>1. \A i \in 1 .. L : p[i].ev \in HostEvents
    BY <1>2, EntrySeq
  <2> QED BY <2>1, ForwardAssumption DEF HostEvents
<1> HIDE DEF p, L, b, B, D, q
<1>11. ASSUME NEW i \in 1 .. Over
       PROVE  /\ p[i].ev \in Range(EventsOf(p)) /\ p[i].ev \notin Range(EventsOf(Left))
              /\ p[i].ev \notin Range(b)
  <2>1. i \in 1 .. L
    BY <1>2, <1>6
  <2>2. ASSUME NEW j \in 1 .. D, p[i].ev = Left[j].ev PROVE FALSE
    <3>1. i < Over + j /\ Over + j \in 1 .. L /\ Left[j] = p[Over + j]
      BY <1>5, <1>6
    <3>2. p[i].ev < p[Over + j].ev
      BY <1>5, <2>1, <3>1
    <3> QED BY <1>10, <2>1, <2>2, <3>1, <3>2
  <2>3. ASSUME NEW k \in 1 .. B, p[i].ev = b[k] PROVE FALSE
    <3>1. p[i].ev < b[k]
      BY <1>5, <2>1
    <3> QED BY <1>10, <2>1, <2>3, <3>1
  <2> QED BY <1>3, <1>9, <2>1, <2>2, <2>3
<1>12. ASSUME NEW x \in Range(EventsOf(p)), x \notin Range(EventsOf(Left))
       PROVE  x \in {p[i].ev : i \in 1 .. Over}
  <2>1. PICK i \in 1 .. L : x = p[i].ev
    BY <1>9
  <2>2. ~(i > Over)
    <3> SUFFICES ASSUME i > Over PROVE FALSE
      OBVIOUS
    <3>1. i - Over \in 1 .. D /\ Over + (i - Over) = i
      BY <1>2, <1>5, <1>6
    <3>2. Left[i - Over] = p[i]
      BY <1>5, <3>1
    <3> QED BY <1>9, <1>12, <2>1, <3>1, <3>2
  <2>3. i \in 1 .. Over
    BY <1>2, <1>6, <2>2
  <2> QED BY <2>1, <2>3
<1>13. DroppedBy(spool, flight.batch) = {p[i].ev : i \in 1 .. Over}
  BY <1>8, <1>11, <1>12
<1>14. Range(EventsOf(Left)) \subseteq Range(EventsOf(p))
  BY <1>5, <1>9
<1>15. Range(EventsOf(p)) = Range(EventsOf(Left)) \cup DroppedBy(spool, flight.batch)
  BY <1>11, <1>12, <1>13, <1>14
<1> QED BY <1>4, <1>13, <1>15 DEF p, q, b

-----------------------------------------------------------------------------
(* The records of a push                                                   *)

LEMMA OnDiskMirrors ==
    ASSUME ForwardInv, spool.up, ~spool.rewrite
    PROVE  /\ Mirrors(file, spool) /\ Saved = EventsOf(spool.pending) /\ ~spool.unread
           /\ file \in SpoolFiles /\ ~file.torn /\ Loaded(file) = spool.pending
<1>1. /\ ~file.torn /\ Loaded(file) = spool.pending
      /\ \A i \in DOMAIN file.records : file.records[i].seq < spool.next
  BY DEF ForwardInv, SpoolOnDisk
<1>2. Holds(file, spool.pending)
  BY <1>1 DEF ForwardInv, FileHolds
<1>3. file \in SpoolFiles /\ ~spool.unread
  BY DEF ForwardInv, ForwardTypeOK, CopyKept
<1> QED BY <1>1, <1>2, <1>3 DEF Mirrors, Saved

LEMMA RecordsAssociative ==
    \A a, b, c \in Seq(Records) : (a \o b) \o c = a \o (b \o c)
  BY ConcatAssociative

\* The watermark of a push: it finishes the events the cap drops.
Watermark == IF Over > 0 THEN <<DoneRecord(spool.next - Len(Left) - 1)>> ELSE <<>>

LEMMA WatermarkSeq ==
    ASSUME ForwardInv
    PROVE  /\ Watermark \in Seq(Records) /\ Len(Watermark) \in 0 .. 1
           /\ spool.next - Len(Left) - 1 \in Nat
<1>1. Len(Left) \in Nat /\ Len(Left) < spool.next /\ spool.next \in Nat
  BY LeftFacts, BatchFacts
<1>2. spool.next - Len(Left) - 1 \in Nat
  BY <1>1
<1>3. DoneRecord(spool.next - Len(Left) - 1) \in Records
  BY <1>2 DEF DoneRecord, Records
<1>4. CASE Over > 0
  <2>1. Watermark = <<DoneRecord(spool.next - Len(Left) - 1)>>
    BY <1>4 DEF Watermark
  <2> HIDE DEF Watermark
  <2> QED BY <1>2, <1>3, <2>1
<1>5. CASE ~(Over > 0)
  <2>1. Watermark = <<>>
    BY <1>5 DEF Watermark
  <2> QED BY <1>2, <2>1
<1> QED BY <1>4, <1>5

LEMMA PushBase ==
    ASSUME ForwardInv, Mirrors(file, spool), NEW b, b.records = file.records \o Watermark
    PROVE  /\ b.records \in Seq(Records) /\ Reads(b, Left)
           /\ \A i \in DOMAIN b.records : b.records[i].seq < spool.next
<1> DEFINE p == spool.pending
           L == Len(p)
           R == file.records
           d == spool.next - Len(Left) - 1
<1>1. /\ R \in Seq(Records) /\ Reads(file, p) /\ file \in SpoolFiles /\ p \in Seq(Entries)
      /\ \A i \in DOMAIN R : R[i].seq < spool.next
  BY StateTypes DEF ForwardInv, Mirrors, Holds
<1>2. /\ Len(R) \in Nat /\ DOMAIN R = 1 .. Len(R)
  BY <1>1, RecordSeq
<1>3. /\ Over \in Nat /\ Over <= L /\ L \in Nat /\ spool.next \in Nat /\ Len(Left) = L - Over
      /\ \A i \in 1 .. L : p[i].seq = spool.next - L + i - 1
  BY OverFacts, LeftFacts, BatchFacts
<1>4. CASE ~(Over > 0)
  <2>1. Over = 0
    BY <1>3, <1>4
  <2>2. Watermark = <<>>
    BY <1>4 DEF Watermark
  <2>3. b.records = R
    BY <1>1, <2>2, ConcatEmptySeq
  <2>4. Left = p
    <3>1. SubSeq(p, 1, Len(p)) = p
      BY <1>1, SubSeqFull
    <3>2. Over + 1 = 1
      BY <2>1
    <3> HIDE DEF Over
    <3> QED BY <3>1, <3>2 DEF Left
  <2>5. Reads(b, p)
    <3>1. Waiting(b) = Waiting(file)
      BY <2>3 DEF Waiting, Live
    <3> QED BY <1>1, <3>1 DEF Reads
  <2> QED BY <1>1, <2>3, <2>4, <2>5
<1>5. CASE Over > 0
  <2>1. Watermark = <<DoneRecord(d)>>
    BY <1>5 DEF Watermark
  <2>2. d \in Nat
    BY WatermarkSeq
  <2> HIDE DEF d, L
  <2>3. d = spool.next - L + Over - 1
    <3>1. d = spool.next - Len(Left) - 1
      BY DEF d
    <3>2. Len(Left) = L - Over /\ L \in Nat /\ Over \in Nat /\ spool.next \in Nat
      BY <1>3
    <3>3. PICK D, o, x, y : D = Len(Left) /\ o = Over /\ x = spool.next /\ y = L
      OBVIOUS
    <3>4. d = x - D - 1 /\ D = y - o /\ x \in Nat /\ y \in Nat /\ o \in Nat
      BY <3>1, <3>2, <3>3
    <3>5. d = x - y + o - 1
      BY ONLY <3>4
    <3> QED BY <3>3, <3>5
  <2>4. Over \in 0 .. L
    BY <1>3
  <2>5. ASSUME NEW i \in 1 .. L
        PROVE  p[i].seq <= d <=> i <= Over
    <3>1. p[i].seq = spool.next - L + i - 1
      BY <1>3
    <3>2. i \in Nat /\ L \in Nat /\ Over \in Nat /\ spool.next \in Nat
      BY <1>3
    <3> HIDE DEF Over
    <3> QED BY <2>3, <3>1, <3>2, NumbersCompare
  <2>6. Reads(b, SubSeq(p, Over + 1, Len(p)))
    <3>1. b.records = file.records \o <<DoneRecord(d)>>
      BY <2>1
    <3>2. Over \in 0 .. Len(p) /\ \A i \in 1 .. Len(p) : p[i].seq <= d <=> i <= Over
      BY <2>4, <2>5 DEF L
    <3> QED BY <1>1, <2>2, <3>1, <3>2, DoneAppended
  <2>7. d < spool.next
    BY <1>3, <2>3
  <2>8. b.records \in Seq(Records) /\ IsJoin(R, <<DoneRecord(d)>>, b.records)
    <3>1. <<DoneRecord(d)>> \in Seq(Records)
      BY <2>1, WatermarkSeq
    <3> QED BY <1>1, <2>1, <3>1, Joined
  <2>9. DoneRecord(d).seq = d
    BY DEF DoneRecord
  <2>10. ASSUME NEW i \in DOMAIN b.records
         PROVE  b.records[i].seq < spool.next
    <3> DEFINE n == Len(R)
               t == <<DoneRecord(d)>>
    <3>1. t[1] = DoneRecord(d) /\ Len(t) = 1
      OBVIOUS
    <3> HIDE DEF t
    <3>2. /\ DOMAIN b.records = 1 .. n + 1
          /\ \A j \in 1 .. n : b.records[j] = R[j]
          /\ \A k \in 1 .. 1 : b.records[n + k] = t[k]
          /\ \A j \in 1 .. n + 1 : j \in 1 .. n \/ \E k \in 1 .. 1 : j = n + k
      <4>1. IsJoin(R, t, b.records)
        BY <2>8 DEF t
      <4> QED BY <3>1, <4>1, Zenon DEF IsJoin
    <3> HIDE DEF n, R
    <3>3. CASE i \in 1 .. n
      BY <1>1, <1>2, <3>2, <3>3 DEF n
    <3>4. ASSUME NEW k \in 1 .. 1, i = n + k
          PROVE  b.records[i].seq < spool.next
      <4>1. k = 1
        OBVIOUS
      <4>2. b.records[i] = DoneRecord(d)
        BY <3>1, <3>2, <3>4, <4>1
      <4> QED BY <2>7, <2>9, <4>2
    <3> QED BY <3>2, <3>3, <3>4
  <2> QED BY <2>6, <2>8, <2>10 DEF Left
<1> QED BY <1>4, <1>5

\* The file after the watermark and m events were written.
LEMMA PushHolds ==
    ASSUME ForwardInv, Mirrors(file, spool), NEW m \in 0 .. Len(flight.batch), NEW g \in SpoolFiles,
           g.records = file.records \o (Watermark \o RecordsOf(NewUpTo(m)))
    PROVE  /\ Holds(g, Left \o NewUpTo(m))
           /\ \A i \in DOMAIN g.records : g.records[i].seq < spool.next + m
<1> DEFINE b == [records |-> file.records \o Watermark, torn |-> FALSE]
           u == NewUpTo(m)
<1>1. file.records \in Seq(Records) /\ Watermark \in Seq(Records)
  BY StateTypes, WatermarkSeq DEF ForwardInv
<1>2. /\ b.records \in Seq(Records) /\ Reads(b, Left) /\ b.records = file.records \o Watermark
      /\ \A i \in DOMAIN b.records : b.records[i].seq < spool.next
  BY PushBase
<1>3. b \in SpoolFiles
  BY <1>2 DEF SpoolFiles
<1>4. /\ m \in Nat /\ u \in Seq(Entries) /\ Len(u) = m /\ Ascending(u)
      /\ \A k \in 1 .. m : u[k].seq = spool.next + k - 1
  BY NewFacts
<1>5. /\ RecordsOf(u) \in Seq(Records) /\ Len(RecordsOf(u)) = m
      /\ \A k \in 1 .. m : RecordsOf(u)[k].seq = u[k].seq
  BY <1>4, EventRecords
<1>6. g.records = b.records \o RecordsOf(u)
  BY <1>1, <1>2, <1>5, RecordsAssociative
<1>7. DOMAIN u = 1 .. m /\ Len(b.records) \in Nat /\ DOMAIN b.records = 1 .. Len(b.records)
  BY <1>2, <1>4, LenProperties
<1>8. spool.next \in Nat
  BY BatchFacts
<1> HIDE DEF b, u
<1>9. /\ \A i \in 1 .. Len(b.records) : b.records[i].seq \in Nat
      /\ \A i \in DOMAIN b.records : \A k \in DOMAIN u : b.records[i].seq < u[k].seq
  <2>1. \A i \in 1 .. Len(b.records) : b.records[i].seq \in Nat
    BY <1>2, RecordSeq
  <2>2. ASSUME NEW i \in DOMAIN b.records, NEW k \in DOMAIN u
        PROVE  b.records[i].seq < u[k].seq
    <3>1. b.records[i].seq < spool.next /\ b.records[i].seq \in Nat
      BY <1>2, <1>7, <2>1
    <3>2. u[k].seq = spool.next + k - 1 /\ k \in Nat /\ k >= 1
      BY <1>4, <1>7
    <3> QED BY <1>8, <3>1, <3>2
  <2> QED BY <2>1, <2>2
<1>10. Reads(g, Left \o u)
  BY <1>2, <1>3, <1>4, <1>6, <1>9, EventsAppended
<1>11. Holds(g, Left \o u)
  <2>1. Len(Left \o u) <= Cap /\ Rising(EventsOf(Left \o u))
    BY LeftWithNew DEF u
  <2> QED BY <1>10, <2>1 DEF Holds
<1>12. ASSUME NEW i \in DOMAIN g.records
       PROVE  g.records[i].seq < spool.next + m
  <2> DEFINE n == Len(b.records)
             e == RecordsOf(u)
  <2>1. /\ DOMAIN g.records = 1 .. n + m
        /\ \A j \in 1 .. n : g.records[j] = b.records[j]
        /\ \A k \in 1 .. m : g.records[n + k] = e[k]
        /\ \A j \in 1 .. n + m : j \in 1 .. n \/ \E k \in 1 .. m : j = n + k
    <3>1. IsJoin(b.records, e, g.records) /\ Len(e) = m
      BY <1>2, <1>5, <1>6, Joined
    <3> HIDE DEF e
    <3> QED BY <3>1, Zenon DEF IsJoin
  <2>2. \A k \in 1 .. m : e[k].seq = spool.next + k - 1
    BY <1>4, <1>5
  <2> HIDE DEF n, e
  <2>3. CASE i \in 1 .. n
    <3>1. g.records[i].seq < spool.next /\ g.records[i].seq \in Nat
      BY <1>2, <1>7, <1>9, <2>1, <2>3 DEF n
    <3>2. m \in Nat
      BY <1>4
    <3>3. \A x, y, z \in Nat : x < y => x < y + z
      OBVIOUS
    <3> QED BY <1>8, <3>1, <3>2, <3>3, Zenon
  <2>4. ASSUME NEW k \in 1 .. m, i = n + k
        PROVE  g.records[i].seq < spool.next + m
    <3>1. g.records[i].seq = spool.next + k - 1
      BY <2>1, <2>2, <2>4
    <3>2. m \in Nat /\ k \in Nat /\ k <= m
      BY <1>4
    <3>3. spool.next + k - 1 < spool.next + m
      BY <1>8, <3>2
    <3> QED BY <3>1, <3>3
  <2> QED BY <2>1, <2>3, <2>4
<1> QED BY <1>11, <1>12 DEF u

LEMMA PushFits ==
    ASSUME ForwardInv, spool.up, ~spool.rewrite, NEW m \in 0 .. Len(flight.batch), NEW g \in SpoolFiles,
           g.records = file.records \o (Watermark \o RecordsOf(NewUpTo(m)))
    PROVE  Fits(g, Range(EventsOf(Pushed(spool, flight.batch).pending)), DroppedBy(spool, flight.batch))
<1> DEFINE u == Left \o NewUpTo(m)
           q == Range(EventsOf(Pushed(spool, flight.batch).pending))
<1>1. Mirrors(file, spool) /\ Saved = EventsOf(spool.pending)
  BY OnDiskMirrors
<1>2. Holds(g, u)
  BY <1>1, PushHolds
<1>3. Loaded(g) = u
  BY <1>2, LoadedIs DEF Holds
<1>4. /\ Range(EventsOf(u)) = Range(EventsOf(Left)) \cup {flight.batch[k] : k \in 1 .. m}
  BY LeftWithNew
<1>5. {flight.batch[k] : k \in 1 .. m} \subseteq Range(flight.batch)
  <2>1. \A k \in 1 .. m : k \in DOMAIN flight.batch
    BY NewFacts, BatchFacts
  <2> QED BY <2>1 DEF Range
<1>6. /\ q = Range(EventsOf(Left)) \cup Range(flight.batch)
      /\ Range(Saved) = Range(EventsOf(Left)) \cup DroppedBy(spool, flight.batch)
  BY <1>1, DroppedIs
<1> HIDE DEF u, q
<1> QED BY <1>2, <1>3, <1>4, <1>5, <1>6 DEF Fits, q

LEMMA PushRecordsAre ==
    ASSUME ForwardInv
    PROVE  PushRecords(spool, flight.batch) = Watermark \o RecordsOf(NewEntries)
<1> DEFINE q == Left \o NewEntries
           D == Len(Left)
           B == Len(flight.batch)
<1>1. Pushed(spool, flight.batch).pending = q
  BY PushedQueue
<1>2. /\ D \in Nat /\ B \in Nat /\ D = Len(spool.pending) - Over /\ Left \in Seq(Entries)
      /\ NewEntries \in Seq(Entries) /\ Len(NewEntries) = B
      /\ Over \in Nat /\ Len(spool.pending) \in Nat /\ spool.next \in Nat /\ Cap \in Nat
  BY LeftFacts, BatchFacts, OverFacts
<1>3. q \in Seq(Entries) /\ IsJoin(Left, NewEntries, q)
  BY <1>2, Joined
<1>4. Len(q) = D + B /\ \A k \in 1 .. B : q[D + k] = NewEntries[k]
  <2>1. Len(NewEntries) = B
    BY <1>2
  <2> QED BY <1>3, <2>1, Zenon DEF IsJoin
<1> HIDE DEF q, D, B
<1>5. Min({Len(q), B}) = B
  <2>1. Len(q) \in Int /\ B \in Int /\ B <= Len(q)
    BY <1>2, <1>4
  <2>2. Min({Len(q), B}) \in {Len(q), B} /\ Min({Len(q), B}) <= Len(q) /\ Min({Len(q), B}) <= B
    BY <2>1, MinOfTwo
  <2> QED BY <2>1, <2>2
<1>6. Len(q) - Min({Len(q), B}) + 1 = D + 1
  BY <1>2, <1>4, <1>5
<1>7. SubSeq(q, D + 1, D + B) = NewEntries
  <2>1. D + B \in Nat /\ D <= D + B /\ D + B <= Len(q) /\ (D + B) - D = B
    BY <1>2, <1>4
  <2>2. /\ SubSeq(q, D + 1, D + B) \in Seq(Entries) /\ Len(SubSeq(q, D + 1, D + B)) = (D + B) - D
        /\ \A i \in 1 .. (D + B) - D : SubSeq(q, D + 1, D + B)[i] = q[D + i]
    BY <1>2, <1>3, <2>1, Slice
  <2>3. PICK w : w = SubSeq(q, D + 1, D + B)
    OBVIOUS
  <2>4. w \in Seq(Entries) /\ Len(w) = B /\ \A i \in 1 .. B : w[i] = NewEntries[i]
    BY <1>4, <2>1, <2>2, <2>3
  <2>5. w = NewEntries
    BY <1>2, <2>4, SeqEqual
  <2> QED BY <2>3, <2>5
<1>8. Len(q) < Len(spool.pending) + B <=> Over > 0
  BY <1>2, <1>4
<1>9. ASSUME Over > 0
      PROVE  Head(q).seq - 1 = spool.next - Len(Left) - 1
  <2>1. Len(Left) + B = Cap
    <3>1. Len(spool.pending) - Over + B = Cap
      BY <1>9, OverFacts DEF B
    <3> QED BY <1>2, <3>1 DEF D
  <2>2. Cap >= 1
    BY ForwardAssumption
  <2>3. Len(q) >= 1 /\ 1 \in 1 .. D + B
    BY <1>2, <1>4, <2>1, <2>2 DEF D
  <2>4. Head(q) = q[1]
    <3>1. q # <<>>
      BY <2>3
    <3> QED BY <1>3, <3>1, HeadTailProperties
  <2>5. q[1].seq = spool.next - Len(Left) + 1 - 1
    <3>1. NewUpTo(B) = NewEntries /\ B \in 0 .. B
      BY AllNew DEF B
    <3>2. \A i \in 1 .. Len(Left) + B : (Left \o NewUpTo(B))[i].seq = spool.next - Len(Left) + i - 1
      BY LeftWithNew, <3>1 DEF B
    <3> QED BY <2>3, <3>1, <3>2 DEF q, D
  <2>6. spool.next - Len(Left) + 1 - 1 = spool.next - Len(Left)
    BY <1>2 DEF D
  <2> QED BY <2>4, <2>5, <2>6
<1>10. PushRecords(spool, flight.batch) =
          (IF Len(q) < Len(spool.pending) + B THEN <<DoneRecord(Head(q).seq - 1)>> ELSE <<>>)
            \o RecordsOf(SubSeq(q, Len(q) - Min({Len(q), B}) + 1, Len(q)))
  BY <1>1 DEF PushRecords, B
<1>11. RecordsOf(SubSeq(q, Len(q) - Min({Len(q), B}) + 1, Len(q))) = RecordsOf(NewEntries)
  BY <1>4, <1>6, <1>7
<1>12. (IF Len(q) < Len(spool.pending) + B THEN <<DoneRecord(Head(q).seq - 1)>> ELSE <<>>) = Watermark
  <2>1. CASE Over > 0
    BY <1>8, <1>9, <2>1 DEF Watermark
  <2>2. CASE ~(Over > 0)
    BY <1>8, <2>2 DEF Watermark
  <2> QED BY <2>1, <2>2
<1> QED BY <1>10, <1>11, <1>12

\* The first n records of a push are the watermark and the first events.
LEMMA PushCut ==
    ASSUME ForwardInv, NEW n \in 1 .. Len(PushRecords(spool, flight.batch))
    PROVE  \E m \in 0 .. Len(flight.batch) :
             SubSeq(PushRecords(spool, flight.batch), 1, n) = Watermark \o RecordsOf(NewUpTo(m))
<1> DEFINE R == PushRecords(spool, flight.batch)
           w == Len(Watermark)
           B == Len(flight.batch)
           E == RecordsOf(NewEntries)
           m == n - w
<1>1. /\ Watermark \in Seq(Records) /\ w \in 0 .. 1
  BY WatermarkSeq
<1>2. /\ NewEntries \in Seq(Entries) /\ Len(NewEntries) = B /\ B \in Nat
  BY BatchFacts
<1>3. /\ E \in Seq(Records) /\ Len(E) = B /\ DOMAIN NewEntries = 1 .. B
      /\ \A k \in 1 .. B : E[k] = EventRecord(NewEntries[k])
  <2>1. DOMAIN NewEntries = 1 .. B
    BY <1>2, LenProperties
  <2>2. E \in Seq(Records) /\ Len(E) = B
    BY <1>2, EventRecords
  <2> QED BY <2>1, <2>2 DEF RecordsOf
<1>4. R \in Seq(Records) /\ IsJoin(Watermark, E, R)
  BY <1>1, <1>3, PushRecordsAre, Joined
<1>5. /\ Len(R) = w + B
      /\ \A i \in 1 .. w : R[i] = Watermark[i]
      /\ \A k \in 1 .. B : R[w + k] = E[k]
  <2>1. Len(E) = B
    BY <1>3
  <2> HIDE DEF E
  <2> QED BY <1>4, <2>1, Zenon DEF IsJoin
<1>6. n \in 1 .. Len(R)
  OBVIOUS
<1> HIDE DEF R, w, B, E
<1>7. /\ m \in 0 .. B /\ n \in Nat /\ n <= Len(R) /\ w <= n
  BY <1>1, <1>2, <1>5, <1>6
<1>8. /\ SubSeq(R, 1, n) \in Seq(Records) /\ Len(SubSeq(R, 1, n)) = n
      /\ \A i \in 1 .. n : SubSeq(R, 1, n)[i] = R[i]
  BY <1>4, <1>7, FirstOf
<1> HIDE DEF m
<1>9. n = w + m /\ m \in Nat /\ w \in Nat
  BY <1>1, <1>7 DEF m
<1>10. /\ NewUpTo(m) \in Seq(Entries) /\ Len(NewUpTo(m)) = m
       /\ \A k \in 1 .. m : NewUpTo(m)[k] = NewEntries[k] /\ k \in 1 .. B
  <2>1. m \in 0 .. Len(flight.batch)
    BY <1>7 DEF B
  <2> QED BY <2>1, NewFacts DEF B
<1> DEFINE F == RecordsOf(NewUpTo(m))
<1>11. /\ F \in Seq(Records) /\ Len(F) = m /\ \A k \in 1 .. m : F[k] = E[k]
  <2>1. DOMAIN NewUpTo(m) = 1 .. m
    BY <1>10, LenProperties
  <2>2. F \in Seq(Records) /\ Len(F) = m
    BY <1>10, EventRecords
  <2>3. \A k \in 1 .. m : F[k] = EventRecord(NewUpTo(m)[k])
    BY <2>1 DEF RecordsOf
  <2> QED BY <1>3, <1>10, <2>2, <2>3
<1> HIDE DEF F
<1>12. Watermark \o F \in Seq(Records) /\ IsJoin(Watermark, F, Watermark \o F)
  BY <1>1, <1>11, Joined
<1>13. /\ Len(Watermark \o F) = w + m
       /\ \A i \in 1 .. w : (Watermark \o F)[i] = Watermark[i]
       /\ \A k \in 1 .. m : (Watermark \o F)[w + k] = F[k]
       /\ \A i \in 1 .. w + m : i \in 1 .. w \/ \E k \in 1 .. m : i = w + k
  <2>1. Len(F) = m
    BY <1>11
  <2> QED BY <1>12, <2>1, Zenon DEF IsJoin, w
<1>14. ASSUME NEW i \in 1 .. n
       PROVE  SubSeq(R, 1, n)[i] = (Watermark \o F)[i]
  <2>1. SubSeq(R, 1, n)[i] = R[i]
    BY <1>8
  <2>2. CASE i \in 1 .. w
    BY <1>5, <1>13, <2>1, <2>2
  <2>3. ASSUME NEW k \in 1 .. m, i = w + k
        PROVE  SubSeq(R, 1, n)[i] = (Watermark \o F)[i]
    <3>1. R[w + k] = E[k]
      BY <1>5, <1>10
    <3> QED BY <1>11, <1>13, <2>1, <2>3, <3>1
  <2> QED BY <1>9, <1>13, <2>2, <2>3
<1>15. SubSeq(R, 1, n) = Watermark \o F
  <2>1. PICK x : x = SubSeq(R, 1, n)
    OBVIOUS
  <2>2. PICK y : y = Watermark \o F
    OBVIOUS
  <2>3. /\ x \in Seq(Records) /\ y \in Seq(Records) /\ Len(x) = Len(y)
        /\ \A i \in 1 .. Len(x) : x[i] = y[i]
    BY <1>8, <1>9, <1>12, <1>13, <1>14, <2>1, <2>2
  <2>4. x = y
    BY <2>3, SeqEqual
  <2> QED BY <2>1, <2>2, <2>4
<1> QED BY <1>7, <1>15 DEF F, R, B

\* What an append to a file that ends with a whole line leaves.
LEMMA AppendWhole ==
    ASSUME NEW f \in SpoolFiles, ~f.torn, NEW records \in Seq(Records)
    PROVE  LET g == AppendRecords(f, records)
           IN  g \in SpoolFiles /\ ~g.torn /\ g.records = f.records \o records
<1>1. f.records \in Seq(Records)
  BY DEF SpoolFiles
<1>2. f.records \o records \in Seq(Records)
  BY <1>1, ConcatProperties
<1> QED BY <1>2 DEF AppendRecords, SpoolFiles

LEMMA CutFiles ==
    ASSUME NEW f \in SpoolFiles, ~f.torn, NEW records \in Seq(Records), NEW g \in CutShort(f, records)
    PROVE  /\ g \in SpoolFiles
           /\ \/ g.records = f.records
              \/ \E n \in 1 .. Len(records) : g.records = f.records \o SubSeq(records, 1, n)
<1>1. CASE g = f
  BY <1>1
<1>2. CASE g = [f EXCEPT !.torn = TRUE]
  BY <1>2 DEF SpoolFiles
<1>3. ASSUME NEW n \in 1 .. Len(records), NEW t \in BOOLEAN,
             g = [AppendRecords(f, SubSeq(records, 1, n)) EXCEPT !.torn = t]
      PROVE  g \in SpoolFiles /\ g.records = f.records \o SubSeq(records, 1, n)
  <2>1. n \in Nat /\ n <= Len(records)
    BY LenProperties
  <2>2. SubSeq(records, 1, n) \in Seq(Records)
    BY <2>1, FirstOf
  <2>3. PICK w : w = AppendRecords(f, SubSeq(records, 1, n))
    OBVIOUS
  <2>4. w \in SpoolFiles /\ w.records = f.records \o SubSeq(records, 1, n)
    BY <2>2, <2>3, AppendWhole
  <2>5. g = [w EXCEPT !.torn = t]
    BY <1>3, <2>3
  <2> QED BY <2>4, <2>5 DEF SpoolFiles
<1>4. \/ g = f \/ g = [f EXCEPT !.torn = TRUE]
      \/ \E n \in 1 .. Len(records), t \in BOOLEAN : g = [AppendRecords(f, SubSeq(records, 1, n)) EXCEPT !.torn = t]
  BY DEF CutShort
<1>5. CASE \E n \in 1 .. Len(records), t \in BOOLEAN : g = [AppendRecords(f, SubSeq(records, 1, n)) EXCEPT !.torn = t]
  <2>1. PICK n \in 1 .. Len(records), t \in BOOLEAN : g = [AppendRecords(f, SubSeq(records, 1, n)) EXCEPT !.torn = t]
    BY <1>5
  <2>2. g \in SpoolFiles /\ g.records = f.records \o SubSeq(records, 1, n)
    BY <2>1, <1>3
  <2> QED BY <2>2, Zenon
<1> QED BY <1>1, <1>2, <1>4, <1>5

LEMMA SameRecords ==
    ASSUME NEW f, NEW g, g.records = f.records
    PROVE  Loaded(g) = Loaded(f) /\ \A s : Reads(g, s) <=> Reads(f, s)
<1>1. Waiting(g) = Waiting(f)
  BY DEF Waiting, Live
<1> QED BY <1>1 DEF Loaded, Reads

\* A file with the records of the present one.
LEMMA SameFits ==
    ASSUME ForwardInv, NEW q, NEW lost, NEW g \in SpoolFiles, g.records = file.records
    PROVE  Fits(g, q, lost)
<1>1. Loaded(g) = Loaded(file) /\ \A s : Reads(g, s) <=> Reads(file, s)
  BY SameRecords
<1>2. Holds(g, Loaded(g))
  BY <1>1 DEF ForwardInv, FileHolds, Holds
<1>3. EventsOf(Loaded(g)) = Saved
  BY <1>1 DEF Saved
<1> QED BY <1>2, <1>3 DEF Fits

LEMMA FitsMore ==
    ASSUME NEW f, NEW q, NEW lost, NEW more, lost \subseteq more, Fits(f, q, lost)
    PROVE  Fits(f, q, more)
  BY DEF Fits

\* persist_append, of records that turn the file into spool sp.
LEMMA AppendOutcome ==
    ASSUME ForwardInv, spool.up, NEW sp, Sound(sp),
           sp.rewrite = spool.rewrite, sp.unread = spool.unread,
           NEW records \in Seq(Records), NEW lost,
           ~spool.rewrite => Mirrors(AppendRecords(file, records), sp),
           ~spool.rewrite => Fits(AppendRecords(file, records), Range(EventsOf(sp.pending)), lost),
           ~spool.rewrite => \A g \in CutShort(file, records) :
                                g \in SpoolFiles /\ Fits(g, Range(EventsOf(sp.pending)), lost),
           ~spool.unread => Range(Saved) \subseteq Range(EventsOf(sp.pending)) \cup lost,
           PersistAppend(sp, records)
    PROVE  Persisted(sp, lost) /\ mishaps' \in 0 .. MaxMishaps
<1> DEFINE written == AppendRecords(file, records)
           q == Range(EventsOf(sp.pending))
           owed == [sp EXCEPT !.rewrite = TRUE]
<1>1. file \in SpoolFiles /\ sp \in Spools /\ mishaps \in 0 .. MaxMishaps
  BY DEF ForwardInv, ForwardTypeOK, Sound
<1>2. ~spool.rewrite => ~sp.unread
  BY DEF ForwardInv, CopyKept
<1>3. ~sp.unread => Range(Saved) \subseteq q \cup lost
  OBVIOUS
<1>4. CASE sp.rewrite /\ Rewrite(sp, file, 0)
  <2>1. 0 \in Nat /\ file.records = file.records
    OBVIOUS
  <2>2. Fits(file, q, lost)
    BY <1>1, <2>1, SameFits
  <2> QED BY <1>1, <1>3, <1>4, <2>1, <2>2, RewriteOutcome
<1>5. CASE ~sp.rewrite /\ Compacts(sp, written) /\ Rewrite(sp, written, 0)
  <2>1. Fits(written, q, lost) /\ ~sp.unread
    BY <1>2, <1>5
  <2>2. written \in SpoolFiles /\ 0 \in Nat
    BY <2>1 DEF Fits
  <2> HIDE DEF written
  <2> QED BY <1>3, <1>5, <2>1, <2>2, RewriteOutcome
<1>6. CASE ~sp.rewrite /\ file' = written /\ spool' = sp /\ UNCHANGED <<aside, mishaps>>
  <2>1. Mirrors(file', sp) /\ ~sp.unread
    BY <1>2, <1>6
  <2> QED BY <1>1, <1>3, <1>6, <2>1 DEF Persisted
<1>7. ASSUME ~sp.rewrite, NEW g \in CutShort(file, records), Rewrite(owed, g, 1)
      PROVE  Persisted(sp, lost) /\ mishaps' \in 0 .. MaxMishaps
  <2>1. g \in SpoolFiles /\ Fits(g, q, lost) /\ ~sp.unread
    BY <1>2, <1>7
  <2>2. /\ owed \in Spools /\ owed.pending = sp.pending /\ owed.next = sp.next /\ owed.up = sp.up
        /\ owed.unread = sp.unread
    BY <1>1 DEF Spools
  <2> HIDE DEF owed
  <2>3. Sound(owed)
    BY <2>2 DEF Sound, Numbered
  <2>4. 1 \in Nat
    OBVIOUS
  <2>5. Persisted(owed, lost) /\ mishaps' \in 0 .. MaxMishaps
    <3>1. ~owed.unread /\ Fits(g, Range(EventsOf(owed.pending)), lost)
          /\ Range(Saved) \subseteq Range(EventsOf(owed.pending)) \cup lost
      BY <1>3, <2>1, <2>2
    <3> QED BY <1>7, <2>1, <2>3, <2>4, <3>1, RewriteOutcome
  <2>6. \A f : Mirrors(f, owed) <=> Mirrors(f, sp)
    BY <2>2 DEF Mirrors
  <2> QED BY <2>2, <2>5, <2>6 DEF Persisted
<1> QED BY <1>4, <1>5, <1>6, <1>7 DEF PersistAppend

LEMMA PushWritten ==
    ASSUME ForwardInv, spool.up, ~spool.rewrite
    PROVE  LET g == AppendRecords(file, PushRecords(spool, flight.batch))
           IN  /\ Mirrors(g, Pushed(spool, flight.batch))
               /\ Fits(g, Range(EventsOf(Pushed(spool, flight.batch).pending)), DroppedBy(spool, flight.batch))
<1> DEFINE R == PushRecords(spool, flight.batch)
           r == Pushed(spool, flight.batch)
           B == Len(flight.batch)
<1>1. Mirrors(file, spool) /\ file \in SpoolFiles /\ ~file.torn
  BY OnDiskMirrors
<1>2. NewUpTo(B) = NewEntries /\ B \in 0 .. B
  BY AllNew
<1>3. R = Watermark \o RecordsOf(NewUpTo(B)) /\ R \in Seq(Records)
  <2>1. Watermark \in Seq(Records) /\ RecordsOf(NewEntries) \in Seq(Records)
    BY WatermarkSeq, BatchFacts, EventRecords
  <2> QED BY <1>2, <2>1, PushRecordsAre, ConcatProperties
<1> HIDE DEF R
<1>4. PICK g : g = AppendRecords(file, R)
  OBVIOUS
<1>5. g \in SpoolFiles /\ ~g.torn /\ g.records = file.records \o R
  BY <1>1, <1>3, <1>4, AppendWhole
<1>6. /\ Holds(g, Left \o NewUpTo(B))
      /\ \A i \in DOMAIN g.records : g.records[i].seq < spool.next + B
  BY <1>1, <1>2, <1>3, <1>5, PushHolds
<1>7. r.pending = Left \o NewUpTo(B) /\ r.next = spool.next + B
  BY <1>2, PushedQueue
<1>8. Mirrors(g, r)
  BY <1>5, <1>6, <1>7 DEF Mirrors
<1>9. Fits(g, Range(EventsOf(r.pending)), DroppedBy(spool, flight.batch))
  BY <1>2, <1>3, <1>5, PushFits
<1> QED BY <1>4, <1>8, <1>9 DEF R

\* However the append of a push is cut short, the file holds what it held
\* but for what the cap drops, and some of the new events.
LEMMA PushCutFits ==
    ASSUME ForwardInv, spool.up, ~spool.rewrite,
           NEW g \in CutShort(file, PushRecords(spool, flight.batch))
    PROVE  /\ g \in SpoolFiles
           /\ Fits(g, Range(EventsOf(Pushed(spool, flight.batch).pending)), DroppedBy(spool, flight.batch))
           /\ Loaded(g) = spool.pending \/ \E m \in 0 .. Len(flight.batch) : Loaded(g) = Left \o NewUpTo(m)
<1> DEFINE R == PushRecords(spool, flight.batch)
<1>1. Mirrors(file, spool) /\ file \in SpoolFiles /\ ~file.torn /\ Loaded(file) = spool.pending
  BY OnDiskMirrors
<1>2. R \in Seq(Records)
  <2>1. Watermark \in Seq(Records) /\ RecordsOf(NewEntries) \in Seq(Records)
    BY WatermarkSeq, BatchFacts, EventRecords
  <2> QED BY <2>1, PushRecordsAre, ConcatProperties
<1>3. /\ g \in SpoolFiles
      /\ \/ g.records = file.records
         \/ \E n \in 1 .. Len(R) : g.records = file.records \o SubSeq(R, 1, n)
  BY <1>1, <1>2, CutFiles
<1>4. CASE g.records = file.records
  BY <1>1, <1>3, <1>4, SameFits, SameRecords
<1>5. ASSUME NEW n \in 1 .. Len(R), g.records = file.records \o SubSeq(R, 1, n)
      PROVE  /\ Fits(g, Range(EventsOf(Pushed(spool, flight.batch).pending)), DroppedBy(spool, flight.batch))
             /\ \E m \in 0 .. Len(flight.batch) : Loaded(g) = Left \o NewUpTo(m)
  <2>1. PICK m \in 0 .. Len(flight.batch) : SubSeq(R, 1, n) = Watermark \o RecordsOf(NewUpTo(m))
    BY PushCut
  <2>2. g.records = file.records \o (Watermark \o RecordsOf(NewUpTo(m)))
    BY <1>5, <2>1
  <2>3. Holds(g, Left \o NewUpTo(m))
    BY <1>1, <1>3, <2>2, PushHolds
  <2>4. Loaded(g) = Left \o NewUpTo(m)
    BY <2>3, LoadedIs DEF Holds
  <2> QED BY <1>3, <2>2, <2>4, PushFits
<1> QED BY <1>3, <1>4, <1>5

LEMMA PushPersisted ==
    ASSUME ForwardInv, Push
    PROVE  /\ Persisted(Pushed(spool, flight.batch), Range(log) \cup refused \cup gone')
           /\ mishaps' \in 0 .. MaxMishaps
<1> DEFINE r == Pushed(spool, flight.batch)
           R == PushRecords(spool, flight.batch)
           lost == Range(log) \cup refused \cup gone'
<1>1. spool.up /\ PersistAppend(r, R) /\ gone' = gone \cup DroppedBy(spool, flight.batch)
  BY DEF Push
<1>2. DroppedBy(spool, flight.batch) \subseteq lost
  BY <1>1
<1>3. Sound(r) /\ r.rewrite = spool.rewrite /\ r.unread = spool.unread
  BY PushSound, PushedQueue
<1>4. R \in Seq(Records)
  <2>1. Watermark \in Seq(Records) /\ RecordsOf(NewEntries) \in Seq(Records)
    BY WatermarkSeq, BatchFacts, EventRecords
  <2> QED BY <2>1, PushRecordsAre, ConcatProperties
<1>5. ~spool.unread => Range(Saved) \subseteq Range(EventsOf(r.pending)) \cup lost
  <2>1. ~spool.unread => Range(Saved) \subseteq Range(EventsOf(spool.pending)) \cup Range(log) \cup refused \cup gone
    BY <1>1 DEF ForwardInv, CopyKept
  <2>2. Range(EventsOf(spool.pending)) \subseteq Range(EventsOf(r.pending)) \cup DroppedBy(spool, flight.batch)
    BY DroppedIs
  <2> QED BY <1>1, <2>1, <2>2
<1> HIDE DEF r, R, lost
<1>6. ~spool.rewrite => /\ Mirrors(AppendRecords(file, R), r)
                        /\ Fits(AppendRecords(file, R), Range(EventsOf(r.pending)), lost)
  BY <1>1, <1>2, PushWritten, FitsMore DEF r, R
<1>7. ~spool.rewrite => \A g \in CutShort(file, R) : g \in SpoolFiles /\ Fits(g, Range(EventsOf(r.pending)), lost)
  BY <1>1, <1>2, PushCutFits, FitsMore DEF r, R
<1>8. Persisted(r, lost) /\ mishaps' \in 0 .. MaxMishaps
  BY <1>1, <1>3, <1>4, <1>5, <1>6, <1>7, AppendOutcome
<1> QED BY <1>8 DEF r, lost

\* The batch leaves the line and joins what is known.
LEMMA PushLine ==
    ASSUME ForwardInv, flight'.batch = <<>>, UNCHANGED <<produced, chan, staged>>,
           Known' \subseteq Known \cup Range(flight.batch)
    PROVE  InLine'
<1> DEFINE b == flight.batch
           t == staged \o chan
           n == Len(b)
           m == Len(t)
<1>1. b \in Seq(HostEvents) /\ t \in Seq(HostEvents) /\ Line = b \o t
  BY StateTypes, LineSeq DEF ForwardInv, Line
<1>2. Line' = t
  <2>1. Line' = <<>> \o t
    BY DEF Line
  <2> QED BY <1>1, <2>1, ConcatEmptySeq
<1>3. /\ Rising(Line) /\ \A x \in Known, y \in Range(Line) : x < y
      /\ \A x \in Known \cup Range(Line) : x <= produced
  BY DEF ForwardInv, InLine
<1>4. IsJoin(b, t, Line)
  BY <1>1, Joined
<1>5. DOMAIN b = 1 .. n /\ DOMAIN t = 1 .. m
  BY <1>1, LenProperties
<1> HIDE DEF b, t
<1>6. /\ n \in Nat /\ m \in Nat /\ DOMAIN Line = 1 .. n + m
      /\ \A i \in 1 .. n : Line[i] = b[i]
      /\ \A k \in 1 .. m : Line[n + k] = t[k]
  BY <1>4, Zenon DEF IsJoin
<1> HIDE DEF n, m
<1>7. /\ \A i \in 1 .. n : i \in DOMAIN Line
      /\ \A k \in 1 .. m : n + k \in DOMAIN Line
  BY <1>6
<1>8. Range(Line) = Range(b) \cup Range(t)
  BY <1>1, RangeConcatenation
<1>9. Rising(t)
  <2> SUFFICES ASSUME NEW i \in 1 .. m, NEW j \in 1 .. m, i < j PROVE t[i] < t[j]
    BY <1>5 DEF Rising
  <2>1. n + i < n + j
    BY <1>6
  <2>2. Line[n + i] < Line[n + j]
    BY <1>3, <1>7, <2>1 DEF Rising
  <2> QED BY <1>6, <2>2
<1>10. ASSUME NEW x \in Range(b), NEW y \in Range(t)
       PROVE  x < y
  <2>1. PICK i \in 1 .. n : x = b[i]
    BY <1>5 DEF Range
  <2>2. PICK k \in 1 .. m : y = t[k]
    BY <1>5 DEF Range
  <2>3. i < n + k
    BY <1>6
  <2>4. Line[i] < Line[n + k]
    BY <1>3, <1>7, <2>3 DEF Rising
  <2> QED BY <1>6, <2>1, <2>2, <2>4
<1>11. \A x \in Known', y \in Range(t) : x < y
  BY <1>3, <1>8, <1>10 DEF b
<1>12. \A x \in Known' \cup Range(t) : x <= produced'
  BY <1>3, <1>8 DEF b
<1> QED BY <1>2, <1>9, <1>11, <1>12 DEF InLine

\* The sender's event stays in front, or is dropped.
LEMMA PushSender ==
    ASSUME ForwardInv, UNCHANGED <<sender, late, offered, log, refused>>,
           spool'.pending = Left \o NewEntries, spool'.next = spool.next + Len(flight.batch)
    PROVE  SenderAtFront'
<1> DEFINE q == Left \o NewEntries
           B == Len(flight.batch)
           D == Len(Left)
<1>1. /\ late \subseteq offered
      /\ sender.pc \in Busy =>
           /\ sender.ev \in offered /\ sender.seq < spool.next
           /\ \A i \in DOMAIN spool.pending :
                /\ sender.seq <= spool.pending[i].seq
                /\ spool.pending[i].seq = sender.seq => spool.pending[i].ev = sender.ev
      /\ sender.pc \in {"forwarded", "rejected"} => sender.ev \in Range(log) \cup refused
  BY DEF ForwardInv, SenderAtFront
<1>2. /\ Left \in Seq(Entries) /\ D \in Nat
      /\ \A i \in 1 .. D : Left[i] = spool.pending[Over + i] /\ Over + i \in 1 .. Len(spool.pending)
  BY LeftFacts
<1>3. /\ NewEntries \in Seq(Entries) /\ Len(NewEntries) = B /\ B \in Nat /\ spool.next \in Nat
      /\ \A k \in 1 .. B : NewEntries[k].seq = spool.next + k - 1
  BY BatchFacts
<1>4. spool.pending \in Seq(Entries) /\ sender.seq \in Nat
  BY StateTypes DEF ForwardInv
<1>5. DOMAIN spool.pending = 1 .. Len(spool.pending)
  BY <1>4, LenProperties
<1>6. IsJoin(Left, NewEntries, q)
  BY <1>2, <1>3, Joined
<1>7. /\ DOMAIN q = 1 .. D + B
      /\ \A i \in 1 .. D : q[i] = Left[i]
      /\ \A k \in 1 .. B : q[D + k] = NewEntries[k]
      /\ \A i \in 1 .. D + B : i \in 1 .. D \/ \E k \in 1 .. B : i = D + k
  <2>1. Len(NewEntries) = B
    BY <1>3
  <2> QED BY <1>6, <2>1, Zenon DEF IsJoin
<1>8. spool'.pending = q /\ spool'.next = spool.next + B
  OBVIOUS
<1> HIDE DEF q, B, D
<1>9. ASSUME sender.pc \in Busy
      PROVE  /\ sender.seq < spool.next + B
             /\ \A i \in DOMAIN q : /\ sender.seq <= q[i].seq
                                    /\ q[i].seq = sender.seq => q[i].ev = sender.ev
  <2>1. sender.seq < spool.next + B
    BY <1>1, <1>3, <1>4, <1>9
  <2>2. ASSUME NEW i \in 1 .. D
        PROVE  sender.seq <= q[i].seq /\ (q[i].seq = sender.seq => q[i].ev = sender.ev)
    BY <1>1, <1>2, <1>5, <1>7, <1>9
  <2>3. ASSUME NEW i \in 1 .. D + B, NEW k \in 1 .. B, i = D + k
        PROVE  sender.seq <= q[i].seq /\ (q[i].seq = sender.seq => q[i].ev = sender.ev)
    <3>1. q[i].seq = spool.next + k - 1
      BY <1>3, <1>7, <2>3
    <3>2. sender.seq < spool.next + k - 1
      <4>1. sender.seq < spool.next /\ spool.next \in Nat /\ sender.seq \in Nat /\ k \in Nat /\ k >= 1
        BY <1>1, <1>3, <1>4, <1>9
      <4> QED BY <4>1
    <3>3. spool.next + k - 1 \in Nat
      BY <1>3
    <3> QED BY <1>4, <3>1, <3>2, <3>3
  <2> QED BY <1>7, <2>1, <2>2, <2>3
<1> QED BY <1>1, <1>8, <1>9 DEF SenderAtFront

\* A push as AuditDelivery's queue sees it.
LEMMA PushAccepts ==
    ASSUME ForwardInv, flight.batch # <<>>
    PROVE  LET E   == EventsOf(spool.pending)
               Q   == EventsOf(Left \o NewEntries)
               all == E \o SubSeq(Q, Len(Q) - Len(flight.batch) + 1, Len(Q))
           IN  /\ Len(flight.batch) \in 1 .. Len(Q)
               /\ (IF Len(all) > Cap THEN Len(all) - Cap ELSE 0) = Over
               /\ Q = SubSeq(all, Over + 1, Len(all))
               /\ Range(SubSeq(all, 1, Over)) = DroppedBy(spool, flight.batch)
<1> DEFINE p == spool.pending
           q == Left \o NewEntries
           b == flight.batch
           E == EventsOf(p)
           Q == EventsOf(q)
           L == Len(p)
           B == Len(b)
           D == Len(Left)
           all == E \o b
<1>1. /\ p \in Seq(Entries) /\ L \in Nat /\ B \in Nat /\ Cap \in Nat /\ b \in Seq(HostEvents)
      /\ NewEntries \in Seq(Entries) /\ Len(NewEntries) = B
      /\ \A k \in 1 .. B : NewEntries[k].ev = b[k]
  BY BatchFacts, StateTypes DEF ForwardInv
<1>2. /\ Left \in Seq(Entries) /\ D \in Nat /\ D = L - Over /\ Over \in Nat /\ Over <= L
      /\ \A i \in 1 .. D : Left[i] = p[Over + i] /\ Over + i \in 1 .. L
  BY LeftFacts, OverFacts
<1>3. q \in Seq(Entries) /\ IsJoin(Left, NewEntries, q)
  BY <1>1, <1>2, Joined
<1>4. /\ Len(q) = D + B
      /\ \A i \in 1 .. D : q[i] = Left[i]
      /\ \A k \in 1 .. B : q[D + k] = NewEntries[k]
      /\ \A i \in 1 .. D + B : i \in 1 .. D \/ \E k \in 1 .. B : i = D + k
  <2>1. Len(NewEntries) = B
    BY <1>1
  <2> QED BY <1>3, <2>1, Zenon DEF IsJoin
<1>5. /\ E \in Seq(HostEvents) /\ Len(E) = L /\ \A i \in 1 .. L : E[i] = p[i].ev
  BY <1>1, EventsOfSeq
<1>6. /\ Q \in Seq(HostEvents) /\ Len(Q) = D + B /\ \A i \in 1 .. D + B : Q[i] = q[i].ev
  BY <1>3, <1>4, EventsOfSeq
<1>7. all \in Seq(HostEvents) /\ IsJoin(E, b, all)
  BY <1>1, <1>5, Joined
<1>8. B >= 1
  <2>1. Len(b) # 0
    BY <1>1, EmptySeq
  <2> QED BY <1>1, <2>1
<1>9. Over = IF L + B > Cap THEN L + B - Cap ELSE 0
  BY DEF Over
<1>10. DroppedBy(spool, flight.batch) = {p[i].ev : i \in 1 .. Over}
  BY DroppedIs
<1> HIDE DEF p, q, b, E, Q, L, B, D, all
<1>11. /\ Len(all) = L + B
       /\ \A i \in 1 .. L : all[i] = E[i]
       /\ \A k \in 1 .. B : all[L + k] = b[k]
  <2>1. Len(E) = L /\ Len(b) = B
    BY <1>5 DEF B
  <2> QED BY <1>7, <2>1, Zenon DEF IsJoin
<1>12. SubSeq(Q, Len(Q) - B + 1, Len(Q)) = b
  <2>1. Len(Q) - B + 1 = D + 1 /\ Len(Q) = D + B
    BY <1>1, <1>2, <1>6
  <2>2. D \in Nat /\ D + B \in Nat /\ D <= D + B /\ D + B <= Len(Q) /\ (D + B) - D = B
    BY <1>1, <1>2, <1>6
  <2>3. /\ SubSeq(Q, D + 1, D + B) \in Seq(HostEvents) /\ Len(SubSeq(Q, D + 1, D + B)) = (D + B) - D
        /\ \A i \in 1 .. (D + B) - D : SubSeq(Q, D + 1, D + B)[i] = Q[D + i]
    BY <1>6, <2>2, Slice
  <2>4. PICK w : w = SubSeq(Q, D + 1, D + B)
    OBVIOUS
  <2>5. w \in Seq(HostEvents) /\ Len(w) = B /\ \A i \in 1 .. B : w[i] = Q[D + i]
    BY <2>2, <2>3, <2>4
  <2>6. ASSUME NEW i \in 1 .. B PROVE w[i] = b[i]
    <3>1. D + i \in 1 .. D + B
      BY <1>1, <1>2
    <3> QED BY <1>1, <1>4, <1>6, <2>5, <3>1
  <2>7. w = b
    BY <1>1, <2>5, <2>6, SeqEqual DEF B
  <2> QED BY <2>1, <2>4, <2>7
<1>13. B \in 1 .. Len(Q)
  BY <1>1, <1>2, <1>6, <1>8
<1>14. (IF Len(all) > Cap THEN Len(all) - Cap ELSE 0) = Over
  <2>1. CASE L + B > Cap
    <3>1. Over = L + B - Cap
      BY <1>9, <2>1
    <3>2. Len(all) > Cap /\ Len(all) - Cap = Over
      BY <1>1, <1>11, <2>1, <3>1
    <3> QED BY <3>2
  <2>2. CASE ~(L + B > Cap)
    <3>1. Over = 0 /\ ~(Len(all) > Cap)
      BY <1>9, <1>11, <2>2
    <3> QED BY <3>1
  <2> QED BY <2>1, <2>2
<1>15. Q = SubSeq(all, Over + 1, Len(all))
  <2>1. Over \in Nat /\ L + B \in Nat /\ Over <= L + B /\ L + B <= Len(all) /\ (L + B) - Over = D + B
    BY <1>1, <1>2, <1>11
  <2>2. /\ SubSeq(all, Over + 1, L + B) \in Seq(HostEvents) /\ Len(SubSeq(all, Over + 1, L + B)) = (L + B) - Over
        /\ \A i \in 1 .. (L + B) - Over : SubSeq(all, Over + 1, L + B)[i] = all[Over + i]
    BY <1>7, <2>1, Slice
  <2>3. PICK w : w = SubSeq(all, Over + 1, L + B)
    OBVIOUS
  <2>4. w \in Seq(HostEvents) /\ Len(w) = D + B /\ \A i \in 1 .. D + B : w[i] = all[Over + i]
    BY <2>1, <2>2, <2>3
  <2>5. ASSUME NEW i \in 1 .. D + B PROVE w[i] = Q[i]
    <3>1. CASE i \in 1 .. D
      <4>1. Over + i \in 1 .. L /\ Left[i] = p[Over + i]
        BY <1>2, <3>1
      <4>2. w[i] = p[Over + i].ev
        BY <1>5, <1>11, <2>4, <4>1
      <4>3. Q[i] = Left[i].ev
        BY <1>4, <1>6, <3>1
      <4> QED BY <4>1, <4>2, <4>3
    <3>2. ASSUME NEW k \in 1 .. B, i = D + k PROVE w[i] = Q[i]
      <4>1. Over + i = L + k
        BY <1>1, <1>2, <3>2
      <4>2. w[i] = b[k]
        BY <1>11, <2>4, <4>1
      <4>3. Q[i] = b[k]
        BY <1>1, <1>4, <1>6, <3>2
      <4> QED BY <4>2, <4>3
    <3> QED BY <1>4, <3>1, <3>2
  <2>6. w = Q
    BY <1>6, <2>4, <2>5, SeqEqual
  <2> QED BY <1>11, <2>3, <2>6
<1>16. Range(SubSeq(all, 1, Over)) = {p[i].ev : i \in 1 .. Over}
  <2>1. Over \in Nat /\ Over <= Len(all) /\ \A i \in 1 .. Over : i \in 1 .. L
    BY <1>1, <1>2, <1>11
  <2>2. PICK w : w = SubSeq(all, 1, Over)
    OBVIOUS
  <2>3. w \in Seq(HostEvents) /\ Len(w) = Over /\ \A i \in 1 .. Over : w[i] = all[i]
    BY <1>7, <2>1, <2>2, FirstOf
  <2>4. DOMAIN w = 1 .. Over /\ \A i \in 1 .. Over : w[i] = p[i].ev
    BY <1>5, <1>11, <2>1, <2>3, LenProperties
  <2>5. Range(w) = {p[i].ev : i \in 1 .. Over}
    BY <2>4 DEF Range
  <2> QED BY <2>2, <2>5
<1>17. all = E \o SubSeq(Q, Len(Q) - B + 1, Len(Q))
  BY <1>12 DEF all
<1>18. Range(SubSeq(all, 1, Over)) = DroppedBy(spool, flight.batch)
  BY <1>10, <1>16
<1> QED BY <1>13, <1>14, <1>15, <1>17, <1>18, Zenon DEF p, q, b, E, Q, B

LEMMA PushStep ==
    ASSUME ForwardInv, Push
    PROVE  ForwardInv' /\ Delivery!Next
<1> DEFINE r == Pushed(spool, flight.batch)
           lost == Range(log) \cup refused \cup gone'
           q == Left \o NewEntries
<1>1. /\ spool.up /\ flight.batch # <<>> /\ gone' = gone \cup DroppedBy(spool, flight.batch)
      /\ flight' = [batch |-> <<>>, done |-> TRUE]
      /\ UNCHANGED <<produced, chan, staged, sender, wake, slot, late, offered, log, refused>>
  BY DEF Push, cmisVars
<1>2. Persisted(r, lost) /\ mishaps' \in 0 .. MaxMishaps
  BY PushPersisted
<1>3. Sound(r) /\ r.pending = q /\ r.next = spool.next + Len(flight.batch) /\ r.up = spool.up
  BY PushSound, PushedQueue
<1>4. spool'.up /\ spool'.pending = q /\ spool'.next = spool.next + Len(flight.batch)
  BY <1>1, <1>2, <1>3 DEF Persisted
<1> HIDE DEF r, lost, q
<1>5. /\ spool' \in Spools /\ Len(spool'.pending) <= Cap /\ file' \in SpoolFiles /\ aside' \subseteq HostEvents
      /\ SpoolNumbered' /\ FileHolds' /\ (spool'.unread => spool'.rewrite)
      /\ (spool'.up /\ ~spool'.rewrite => Mirrors(file', r))
      /\ (spool'.up /\ ~spool'.unread => Range(Saved') \subseteq Range(EventsOf(q)) \cup lost)
      /\ Saved' \in Seq(HostEvents)
      /\ Range(Saved') \subseteq Range(Saved) \cup Range(EventsOf(q))
      /\ Range(Saved) \ Range(Saved') \subseteq lost \cup aside'
      /\ \E moved \in {{}, Range(Saved)} : aside' = aside \cup moved
  BY <1>2, <1>3, PersistedGives
<1>6. /\ Range(EventsOf(q)) = Range(EventsOf(Left)) \cup Range(flight.batch)
      /\ Range(EventsOf(spool.pending)) = Range(EventsOf(Left)) \cup DroppedBy(spool, flight.batch)
      /\ Range(EventsOf(spool.pending)) \subseteq HostEvents
  BY <1>3, DroppedIs, KnownTypes DEF r
<1>7. ForwardTypeOK'
  <2>1. gone' \subseteq HostEvents
    BY <1>1, <1>6 DEF ForwardInv, ForwardTypeOK
  <2>2. flight' \in [batch : Seq(HostEvents), done : BOOLEAN] /\ Len(flight'.batch) <= Cap
    BY <1>1, ForwardAssumption
  <2> QED BY <1>1, <1>2, <1>5, <2>1, <2>2 DEF ForwardInv, ForwardTypeOK
<1>8. NothingRuns'
  BY <1>4 DEF NothingRuns
<1>9. InLine'
  <2>1. Known' \subseteq Known \cup Range(flight.batch)
    BY <1>1, <1>4, <1>5, <1>6 DEF Known
  <2>2. flight'.batch = <<>>
    BY <1>1
  <2> QED BY <1>1, <2>1, <2>2, PushLine
<1>10. SenderAtFront'
  BY <1>1, <1>4, PushSender DEF q
<1>11. CopyKept'
  BY <1>1, <1>4, <1>5 DEF CopyKept, lost
<1>12. SpoolOnDisk'
  <2>1. ASSUME ~spool'.rewrite
        PROVE  /\ ~file'.torn /\ Loaded(file') = spool'.pending
               /\ \A i \in DOMAIN file'.records : file'.records[i].seq < spool'.next
    <3>1. Mirrors(file', r)
      BY <1>4, <1>5, <2>1
    <3>2. Loaded(file') = r.pending
      BY <3>1, MirrorLoaded
    <3> QED BY <1>3, <1>4, <3>1, <3>2 DEF Mirrors
  <2> QED BY <2>1 DEF SpoolOnDisk
<1>13. Queue = EventsOf(spool.pending) /\ Queue' = EventsOf(q)
  BY <1>1, <1>4 DEF Queue
<1>14. Delivery!Saves
  <2>1. Delivery!Keeps
    BY <1>5 DEF Delivery!Keeps, Delivery!Answered, Delivery!Range, Range, lost
  <2>2. Range(Saved') \subseteq Range(Saved) \cup Range(Queue')
    BY <1>5, <1>13
  <2> QED BY <1>5, <2>1, <2>2 DEF Delivery!Saves, Delivery!Range, Range
<1>15. Len(flight.batch) \in 1 .. Len(Queue') /\ Delivery!Accept(Len(flight.batch))
  <2> DEFINE n == Len(flight.batch)
             all == Queue \o SubSeq(Queue', Len(Queue') - n + 1, Len(Queue'))
             over == IF Len(all) > Cap THEN Len(all) - Cap ELSE 0
  <2>1. /\ n \in 1 .. Len(Queue') /\ over = Over /\ Queue' = SubSeq(all, Over + 1, Len(all))
        /\ Range(SubSeq(all, 1, Over)) = DroppedBy(spool, flight.batch)
    BY <1>1, <1>13, PushAccepts, Zenon DEF q
  <2>2. /\ Queue' = SubSeq(all, over + 1, Len(all))
        /\ gone' = gone \cup Range(SubSeq(all, 1, over))
        /\ UNCHANGED <<offered, log, refused>>
    <3> HIDE DEF all, over
    <3> QED BY <1>1, <2>1
  <2>3. Delivery!Accept(n)
    BY <1>14, <2>2, Zenon DEF Delivery!Accept, Delivery!Range, Range
  <2> QED BY <2>1, <2>3
<1>16. Delivery!Next
  BY <1>15 DEF Delivery!Next
<1> QED BY <1>5, <1>7, <1>8, <1>9, <1>10, <1>11, <1>12, <1>16 DEF ForwardInv

-----------------------------------------------------------------------------
(* A finish                                                                *)

LEMMA MaxIs ==
    ASSUME NEW S, NEW x \in S, S \subseteq Int, \A y \in S : y <= x
    PROVE  Max(S) = x
<1>1. \A y \in S : x >= y
  OBVIOUS
<1>2. Max(S) \in S /\ \A y \in S : Max(S) >= y
  BY <1>1 DEF Max
<1>3. Max(S) \in Int /\ x \in Int /\ Max(S) <= x /\ Max(S) >= x
  BY <1>2
<1> QED BY <1>3

\* What of the spool stays when its front is finished.
Others == SubSeq(spool.pending, 2, Len(spool.pending))

LEMMA OthersFacts ==
    ASSUME ForwardInv, spool.pending # <<>>
    PROVE  /\ Others \in Seq(Entries) /\ Len(Others) = Len(spool.pending) - 1 /\ Len(spool.pending) \in Nat \ {0}
           /\ \A i \in 1 .. Len(spool.pending) - 1 : Others[i] = spool.pending[1 + i]
           /\ Others = SubSeq(spool.pending, 1 + 1, Len(spool.pending))
           /\ Rising(EventsOf(Others))
           /\ Range(EventsOf(spool.pending)) = {spool.pending[1].ev} \cup Range(EventsOf(Others))
           /\ EventsOf(Others) = Tail(EventsOf(spool.pending))
           /\ EventsOf(spool.pending) # <<>> /\ Head(EventsOf(spool.pending)) = spool.pending[1].ev
<1> DEFINE p == spool.pending
           L == Len(p)
           o == Others
           E == EventsOf(p)
<1>1. p \in Seq(Entries)
  BY StateTypes DEF ForwardInv
<1>2. L \in Nat \ {0}
  BY <1>1, EmptySeq, LenProperties
<1>3. 1 + 1 = 2 /\ 1 \in Nat /\ 1 <= L /\ L \in Nat /\ L <= Len(p)
  BY <1>2
<1>4. o = SubSeq(p, 1 + 1, L)
  BY <1>3 DEF Others
<1> HIDE DEF o, p
<1>5. /\ o \in Seq(Entries) /\ Len(o) = L - 1
      /\ \A i \in 1 .. L - 1 : o[i] = p[1 + i]
  <2>1. /\ SubSeq(p, 1 + 1, L) \in Seq(Entries) /\ Len(SubSeq(p, 1 + 1, L)) = L - 1
        /\ \A i \in 1 .. L - 1 : SubSeq(p, 1 + 1, L)[i] = p[1 + i]
    <3> HIDE DEF L
    <3> QED BY <1>1, <1>3, Slice
  <2> QED BY <1>4, <2>1, Zenon
<1>6. \A i, j \in 1 .. L : i < j => p[i].ev < p[j].ev
  BY LeftFacts DEF p
<1>7. /\ E \in Seq(HostEvents) /\ Len(E) = L /\ \A i \in 1 .. L : E[i] = p[i].ev
  BY <1>1, EventsOfSeq
<1>8. /\ EventsOf(o) \in Seq(HostEvents) /\ Len(EventsOf(o)) = L - 1 /\ DOMAIN EventsOf(o) = 1 .. L - 1
      /\ \A i \in 1 .. L - 1 : EventsOf(o)[i] = o[i].ev
  BY <1>5, EventsOfSeq
<1>9. E # <<>> /\ Head(E) = p[1].ev
  <2>1. E # <<>>
    BY <1>2, <1>7
  <2>2. Head(E) = E[1]
    BY <1>7, <2>1, HeadTailProperties
  <2>3. 1 \in 1 .. L
    BY <1>2
  <2> QED BY <1>7, <2>1, <2>2, <2>3
<1>10. EventsOf(o) = Tail(E)
  <2>1. PICK t : t = Tail(E)
    OBVIOUS
  <2>2. t \in Seq(HostEvents) /\ Len(t) = Len(E) - 1 /\ \A i \in 1 .. Len(t) : t[i] = E[i + 1]
    BY <1>7, <1>9, <2>1, HeadTailProperties
  <2> HIDE DEF E, L
  <2>3. ASSUME NEW i \in 1 .. L - 1 PROVE EventsOf(o)[i] = t[i]
    <3>1. i + 1 = 1 + i /\ i + 1 \in 1 .. L /\ i \in 1 .. Len(t)
      BY <1>2, <1>7, <2>2
    <3>2. EventsOf(o)[i] = p[1 + i].ev
      BY <1>5, <1>8
    <3>3. t[i] = p[i + 1].ev
      BY <1>7, <2>2, <3>1
    <3> QED BY <3>1, <3>2, <3>3
  <2>4. Len(t) = L - 1
    BY <1>7, <2>2
  <2>5. EventsOf(o) = t
    BY <1>8, <2>2, <2>3, <2>4, SeqEqual
  <2> QED BY <2>1, <2>5 DEF E
<1> HIDE DEF L, E
<1>11. Rising(EventsOf(o))
  <2> SUFFICES ASSUME NEW i \in 1 .. L - 1, NEW j \in 1 .. L - 1, i < j
               PROVE  EventsOf(o)[i] < EventsOf(o)[j]
    BY <1>8 DEF Rising
  <2>1. 1 + i \in 1 .. L /\ 1 + j \in 1 .. L /\ 1 + i < 1 + j
    BY <1>2
  <2>2. p[1 + i].ev < p[1 + j].ev
    BY <1>6, <2>1
  <2> QED BY <1>5, <1>8, <2>2
<1>12. Range(E) = {p[1].ev} \cup Range(EventsOf(o))
  <2>1. ASSUME NEW x \in Range(E) PROVE x \in {p[1].ev} \cup Range(EventsOf(o))
    <3>1. PICK i \in 1 .. L : x = p[i].ev
      BY <1>1, EventIn DEF E, L
    <3>2. CASE i # 1
      <4>1. i - 1 \in 1 .. L - 1 /\ 1 + (i - 1) = i
        BY <1>2, <3>2
      <4>2. x = o[i - 1].ev /\ i - 1 \in 1 .. Len(o)
        BY <1>5, <3>1, <4>1
      <4> QED BY <1>5, <4>2, EventIn
    <3> QED BY <3>1, <3>2
  <2>2. ASSUME NEW x \in Range(EventsOf(o)) PROVE x \in Range(E)
    <3>1. PICK i \in 1 .. Len(o) : x = o[i].ev
      BY <1>5, EventIn
    <3>2. 1 + i \in 1 .. L /\ x = p[1 + i].ev
      BY <1>2, <1>5, <3>1
    <3> QED BY <1>1, <3>2, EventIn DEF E, L
  <2>3. p[1].ev \in Range(E)
    <3>1. 1 \in 1 .. L
      BY <1>2
    <3> QED BY <1>1, <3>1, EventIn DEF E, L
  <2> QED BY <2>1, <2>2, <2>3
<1> QED BY <1>2, <1>4, <1>5, <1>9, <1>10, <1>11, <1>12 DEF E, L, p, o

\* A finish pops the front, or nothing when the cap dropped the event.
LEMMA CompletedIs ==
    ASSUME ForwardInv, sender.pc \in Busy
    PROVE  \/ Completed(spool, sender.seq) = spool
           \/ /\ spool.pending # <<>> /\ spool.pending[1].seq = sender.seq /\ spool.pending[1].ev = sender.ev
              /\ Completed(spool, sender.seq) = [spool EXCEPT !.pending = Others]
<1> DEFINE p == spool.pending
           s == sender.seq
           L == Len(p)
           Done(i) == \A j \in 1 .. i : p[j].seq <= s
           S == {i \in DOMAIN p : Done(i)}
<1>1. p \in Seq(Entries) /\ L \in Nat /\ DOMAIN p = 1 .. L /\ s \in Nat
      /\ \A i \in 1 .. L : p[i].seq \in Nat
  BY StateTypes, EntrySeq DEF ForwardInv
<1>2. \A i \in 1 .. L : s <= p[i].seq /\ (p[i].seq = s => p[i].ev = sender.ev)
  BY <1>1 DEF ForwardInv, SenderAtFront
<1>3. \A i, j \in 1 .. L : i < j => p[i].seq < p[j].seq
  <2>1. Ascending(p)
    BY NumberedAscending DEF ForwardInv, ForwardTypeOK, SpoolNumbered
  <2> QED BY <1>1, <2>1 DEF Ascending
<1>4. Completed(spool, s) = [spool EXCEPT !.pending = SubSeq(p, Max({0} \cup S) + 1, L)]
  BY DEF Completed
<1> HIDE DEF p, s, L
<1>5. \A i \in S : i \in 1 .. L /\ p[1].seq = s /\ i = 1
  <2> SUFFICES ASSUME NEW i \in 1 .. L, Done(i) PROVE p[1].seq = s /\ i = 1
    BY <1>1
  <2>1. 1 \in 1 .. i /\ i \in 1 .. i /\ 1 \in 1 .. L
    BY <1>1
  <2>2. p[1].seq <= s /\ p[i].seq <= s
    BY <2>1
  <2>3. p[1].seq = s
    BY <1>1, <1>2, <2>1, <2>2
  <2>4. ~(1 < i)
    BY <1>1, <1>3, <2>1, <2>2, <2>3
  <2> QED BY <2>1, <2>3, <2>4
<1>6. CASE S = {}
  <2>1. Max({0} \cup S) = 0
    <3>1. 0 \in {0} \cup S /\ {0} \cup S \subseteq Int /\ \A y \in {0} \cup S : y <= 0
      BY <1>6
    <3> QED BY <3>1, MaxIs
  <2>2. Max({0} \cup S) + 1 = 1
    BY <2>1
  <2> HIDE DEF S
  <2>3. SubSeq(p, 1, L) = p
    BY <1>1, SubSeqFull DEF L
  <2>4. SubSeq(p, Max({0} \cup S) + 1, L) = p
    BY <2>2, <2>3
  <2>5. [spool EXCEPT !.pending = p] = spool
    BY DEF p, ForwardInv, ForwardTypeOK, Spools
  <2> QED BY <1>4, <2>4, <2>5 DEF s
<1>7. CASE S # {}
  <2>1. S = {1} /\ 1 \in 1 .. L /\ p[1].seq = s
    BY <1>5, <1>7
  <2>2. Max({0} \cup S) = 1
    <3>1. 1 \in {0} \cup S /\ {0} \cup S \subseteq Int /\ \A y \in {0} \cup S : y <= 1
      BY <2>1
    <3> QED BY <3>1, MaxIs
  <2>3. Max({0} \cup S) + 1 = 2
    BY <2>2
  <2> HIDE DEF S
  <2>4. SubSeq(p, Max({0} \cup S) + 1, L) = Others
    BY <2>3 DEF Others, p, L
  <2>5. p # <<>>
    BY <2>1 DEF L
  <2>6. p[1].ev = sender.ev
    BY <1>2, <2>1
  <2> QED BY <1>4, <2>1, <2>4, <2>5, <2>6 DEF s, p
<1> QED BY <1>6, <1>7

LEMMA FinishSound ==
    ASSUME ForwardInv, spool.pending # <<>>
    PROVE  LET after == [spool EXCEPT !.pending = Others]
           IN  /\ Sound(after) /\ after.pending = Others /\ after.next = spool.next /\ after.up = spool.up
               /\ after.rewrite = spool.rewrite /\ after.unread = spool.unread
<1> DEFINE p == spool.pending
           L == Len(p)
           o == Others
<1>1. /\ o \in Seq(Entries) /\ Len(o) = L - 1 /\ L \in Nat \ {0}
      /\ \A i \in 1 .. L - 1 : o[i] = p[1 + i]
      /\ Rising(EventsOf(o))
  BY OthersFacts
<1>2. PICK a : a = [spool EXCEPT !.pending = Others]
  OBVIOUS
<1>3. /\ a \in Spools /\ a.pending = o /\ a.next = spool.next /\ a.up = spool.up
      /\ a.rewrite = spool.rewrite /\ a.unread = spool.unread
  BY <1>1, <1>2 DEF ForwardInv, ForwardTypeOK, Spools
<1>4. /\ L < spool.next /\ spool.next \in Nat /\ L <= Cap /\ Cap \in Nat
      /\ \A i \in 1 .. L : p[i].seq = spool.next - L + i - 1
  BY LeftFacts, StateTypes DEF ForwardInv, ForwardTypeOK
<1>5. DOMAIN o = 1 .. L - 1
  BY <1>1, LenProperties
<1> HIDE DEF p, L, o
<1>6. Numbered(a)
  <2>1. Len(a.pending) < a.next
    BY <1>1, <1>3, <1>4
  <2>2. ASSUME NEW i \in DOMAIN a.pending
        PROVE  a.pending[i].seq = a.next - Len(a.pending) + i - 1
    <3>1. i \in 1 .. L - 1
      BY <1>3, <1>5
    <3>2. 1 + i \in 1 .. L
      BY <1>1, <3>1
    <3>3. a.pending[i].seq = spool.next - L + (1 + i) - 1
      BY <1>1, <1>3, <1>4, <3>1, <3>2
    <3>4. spool.next - L + (1 + i) - 1 = spool.next - (L - 1) + i - 1
      BY <1>1, <1>4, <3>1
    <3> QED BY <1>1, <1>3, <3>3, <3>4
  <2> QED BY <2>1, <2>2 DEF Numbered
<1>7. Len(a.pending) <= Cap
  BY <1>1, <1>3, <1>4
<1>8. Sound(a)
  BY <1>1, <1>3, <1>6, <1>7 DEF Sound
<1> QED BY <1>2, <1>3, <1>8 DEF o

\* The file with the watermark of a finish.
LEMMA FinishHolds ==
    ASSUME ForwardInv, Mirrors(file, spool), spool.pending # <<>>,
           spool.pending[1].seq = sender.seq, NEW g \in SpoolFiles,
           g.records = file.records \o <<DoneRecord(sender.seq)>>
    PROVE  Holds(g, Others) /\ \A i \in DOMAIN g.records : g.records[i].seq < spool.next
<1> DEFINE p == spool.pending
           L == Len(p)
           s == sender.seq
           R == file.records
           t == <<DoneRecord(s)>>
<1>1. /\ p \in Seq(Entries) /\ L \in Nat \ {0} /\ s \in Nat /\ spool.next \in Nat
      /\ L < spool.next
      /\ \A i \in 1 .. L : p[i].seq = spool.next - L + i - 1
  BY OthersFacts, LeftFacts, StateTypes DEF ForwardInv
<1>2. /\ R \in Seq(Records) /\ Reads(file, p) /\ file \in SpoolFiles
      /\ \A i \in DOMAIN R : R[i].seq < spool.next
  BY StateTypes DEF ForwardInv, Mirrors, Holds
<1>3. p[1].seq = s
  OBVIOUS
<1> HIDE DEF p, L, s
<1>4. s = spool.next - L /\ s < spool.next
  <2>1. 1 \in 1 .. L
    BY <1>1
  <2>2. p[1].seq = spool.next - L + 1 - 1
    BY <1>1, <2>1
  <2> QED BY <1>1, <1>3, <2>2
<1>5. 1 \in 0 .. L /\ \A i \in 1 .. L : p[i].seq <= s <=> i <= 1
  <2>1. ASSUME NEW i \in 1 .. L PROVE p[i].seq <= s <=> i <= 1
    <3>1. p[i].seq = spool.next - L + i - 1
      BY <1>1
    <3>2. i \in Nat /\ L \in Nat /\ spool.next \in Nat /\ s = spool.next - L + 1 - 1
      BY <1>1, <1>4
    <3> QED BY <3>1, <3>2, NumbersCompare
  <2> QED BY <1>1, <2>1
<1>6. Reads(g, SubSeq(p, 1 + 1, L))
  <2>1. g.records = file.records \o <<DoneRecord(s)>>
    BY DEF s
  <2>2. 1 \in 0 .. Len(p) /\ \A i \in 1 .. Len(p) : p[i].seq <= s <=> i <= 1
    BY <1>5 DEF L
  <2>3. Reads(g, SubSeq(p, 1 + 1, Len(p)))
    BY <1>1, <1>2, <2>1, <2>2, DoneAppended
  <2> QED BY <2>3 DEF L
<1>7. Holds(g, Others)
  <2>1. Others = SubSeq(p, 1 + 1, L) /\ Len(Others) <= Cap /\ Rising(EventsOf(Others))
    <3>1. Others = SubSeq(p, 1 + 1, L) /\ Len(Others) = L - 1 /\ Rising(EventsOf(Others))
      BY OthersFacts DEF p, L
    <3>2. L <= Cap /\ Cap \in Nat
      BY StateTypes DEF ForwardInv, ForwardTypeOK, L, p
    <3> QED BY <1>1, <3>1, <3>2
  <2> QED BY <1>6, <2>1 DEF Holds
<1>8. DoneRecord(s) \in Records /\ DoneRecord(s).seq = s
  BY <1>1 DEF DoneRecord, Records
<1>9. t \in Seq(Records) /\ Len(t) = 1 /\ t[1] = DoneRecord(s)
  BY <1>8
<1>10. IsJoin(R, t, g.records)
  BY <1>2, <1>9, Joined DEF s
<1> HIDE DEF t
<1>11. ASSUME NEW i \in DOMAIN g.records
       PROVE  g.records[i].seq < spool.next
  <2> DEFINE n == Len(R)
  <2>1. /\ DOMAIN g.records = 1 .. n + 1
        /\ \A j \in 1 .. n : g.records[j] = R[j]
        /\ \A k \in 1 .. 1 : g.records[n + k] = t[k]
        /\ \A j \in 1 .. n + 1 : j \in 1 .. n \/ \E k \in 1 .. 1 : j = n + k
    <3>1. Len(t) = 1
      BY <1>9
    <3> QED BY <1>10, <3>1, Zenon DEF IsJoin
  <2>2. DOMAIN R = 1 .. n
    BY <1>2, LenProperties
  <2> HIDE DEF n, R
  <2>3. CASE i \in 1 .. n
    BY <1>2, <2>1, <2>2, <2>3
  <2>4. ASSUME NEW k \in 1 .. 1, i = n + k
        PROVE  g.records[i].seq < spool.next
    <3>1. k = 1
      OBVIOUS
    <3>2. g.records[i] = DoneRecord(s)
      BY <1>9, <2>1, <2>4, <3>1
    <3> QED BY <1>4, <1>8, <3>2
  <2> QED BY <2>1, <2>3, <2>4
<1> QED BY <1>7, <1>11

\* However the append of a finish ends, the file misses at most the event
\* that CMIS answered for.
LEMMA FinishFits ==
    ASSUME ForwardInv, spool.up, ~spool.rewrite, spool.pending # <<>>,
           spool.pending[1].seq = sender.seq, spool.pending[1].ev = sender.ev
    PROVE  /\ LET g == AppendRecords(file, <<DoneRecord(sender.seq)>>)
              IN  Mirrors(g, [spool EXCEPT !.pending = Others]) /\ Fits(g, Range(EventsOf(Others)), {sender.ev})
           /\ \A g \in CutShort(file, <<DoneRecord(sender.seq)>>) :
                /\ g \in SpoolFiles /\ Fits(g, Range(EventsOf(Others)), {sender.ev})
                /\ Loaded(g) = spool.pending \/ Loaded(g) = Others
<1> DEFINE R == <<DoneRecord(sender.seq)>>
           a == [spool EXCEPT !.pending = Others]
<1>1. Mirrors(file, spool) /\ file \in SpoolFiles /\ ~file.torn /\ Loaded(file) = spool.pending
      /\ Saved = EventsOf(spool.pending)
  BY OnDiskMirrors
<1>2. R \in Seq(Records) /\ Len(R) = 1 /\ SubSeq(R, 1, 1) = R
  <2>1. DoneRecord(sender.seq) \in Records
    BY StateTypes DEF DoneRecord, Records, ForwardInv
  <2>2. R \in Seq(Records) /\ Len(R) = 1
    BY <2>1
  <2>3. SubSeq(R, 1, Len(R)) = R
    BY <2>2, SubSeqFull
  <2> HIDE DEF R
  <2> QED BY <2>2, <2>3
<1>3. a.pending = Others /\ a.next = spool.next
  BY FinishSound
<1>4. Range(Saved) = {sender.ev} \cup Range(EventsOf(Others))
  BY <1>1, OthersFacts
<1>5. ASSUME NEW g \in SpoolFiles, g.records = file.records \o R
      PROVE  /\ Loaded(g) = Others /\ Fits(g, Range(EventsOf(Others)), {sender.ev})
             /\ ~g.torn => Mirrors(g, a)
  <2>1. Holds(g, Others) /\ \A i \in DOMAIN g.records : g.records[i].seq < spool.next
    BY <1>1, <1>5, FinishHolds
  <2>2. Loaded(g) = Others
    BY <2>1, LoadedIs DEF Holds
  <2>3. Fits(g, Range(EventsOf(Others)), {sender.ev})
    BY <1>4, <2>1, <2>2 DEF Fits
  <2> HIDE DEF a
  <2>4. ~g.torn => Mirrors(g, a)
    BY <1>3, <2>1 DEF Mirrors
  <2> QED BY <2>2, <2>3, <2>4
<1>6. LET g == AppendRecords(file, R)
      IN  Mirrors(g, a) /\ Fits(g, Range(EventsOf(Others)), {sender.ev})
  <2> HIDE DEF R
  <2>1. PICK g : g = AppendRecords(file, R)
    OBVIOUS
  <2>2. g \in SpoolFiles /\ ~g.torn /\ g.records = file.records \o R
    BY <1>1, <1>2, <2>1, AppendWhole
  <2> HIDE DEF a
  <2> QED BY <1>5, <2>1, <2>2
<1>7. ASSUME NEW g \in CutShort(file, R)
      PROVE  /\ g \in SpoolFiles /\ Fits(g, Range(EventsOf(Others)), {sender.ev})
             /\ Loaded(g) = spool.pending \/ Loaded(g) = Others
  <2> HIDE DEF R, a
  <2>1. /\ g \in SpoolFiles
        /\ \/ g.records = file.records
           \/ \E n \in 1 .. Len(R) : g.records = file.records \o SubSeq(R, 1, n)
    BY <1>1, <1>2, CutFiles
  <2>2. CASE g.records = file.records
    BY <1>1, <2>1, <2>2, SameFits, SameRecords
  <2>3. ASSUME NEW n \in 1 .. Len(R), g.records = file.records \o SubSeq(R, 1, n)
        PROVE  Fits(g, Range(EventsOf(Others)), {sender.ev}) /\ Loaded(g) = Others
    <3>1. n = 1
      BY <1>2
    <3>2. g.records = file.records \o R
      BY <1>2, <2>3, <3>1
    <3> QED BY <1>5, <2>1, <3>2
  <2> QED BY <2>1, <2>2, <2>3
<1> QED BY <1>6, <1>7

\* A step that writes spool sp, takes nothing from the line and leaves the
\* sender at the top of its loop.
LEMMA WrittenStep ==
    ASSUME ForwardInv, NEW sp, Sound(sp), sp.up, NEW lost, Persisted(sp, lost),
           lost \subseteq Range(log) \cup refused \cup gone, mishaps' \in 0 .. MaxMishaps,
           UNCHANGED <<intakeVars, wake, slot, cmisVars, gone>>, sender' = AtTop,
           Range(EventsOf(sp.pending)) \subseteq Known
    PROVE  ForwardInv' /\ Delivery!Saves /\ Queue' = EventsOf(sp.pending)
<1>1. spool'.up /\ spool'.pending = sp.pending /\ spool'.next = sp.next
  BY DEF Persisted
<1>2. /\ spool' \in Spools /\ Len(spool'.pending) <= Cap /\ file' \in SpoolFiles /\ aside' \subseteq HostEvents
      /\ SpoolNumbered' /\ FileHolds' /\ (spool'.unread => spool'.rewrite)
      /\ (spool'.up /\ ~spool'.rewrite => Mirrors(file', sp))
      /\ (spool'.up /\ ~spool'.unread => Range(Saved') \subseteq Range(EventsOf(sp.pending)) \cup lost)
      /\ Saved' \in Seq(HostEvents)
      /\ Range(Saved') \subseteq Range(Saved) \cup Range(EventsOf(sp.pending))
      /\ Range(Saved) \ Range(Saved') \subseteq lost \cup aside'
      /\ \E moved \in {{}, Range(Saved)} : aside' = aside \cup moved
  BY PersistedGives
<1>3. ForwardTypeOK'
  BY <1>2, AtTopIdle DEF ForwardInv, ForwardTypeOK, intakeVars, cmisVars
<1>4. NothingRuns'
  BY <1>1 DEF NothingRuns
<1>5. InLine'
  <2>1. Line' = Line
    BY DEF Line, intakeVars
  <2>2. Known' \subseteq Known
    BY <1>1, <1>2 DEF Known, cmisVars
  <2> QED BY <2>1, <2>2 DEF ForwardInv, InLine, intakeVars
<1>6. SenderAtFront'
  BY AtTopIdle DEF ForwardInv, SenderAtFront, Busy, cmisVars
<1>7. CopyKept'
  BY <1>1, <1>2 DEF CopyKept, cmisVars
<1>8. SpoolOnDisk'
  <2>1. ASSUME ~spool'.rewrite
        PROVE  /\ ~file'.torn /\ Loaded(file') = spool'.pending
               /\ \A i \in DOMAIN file'.records : file'.records[i].seq < spool'.next
    <3>1. Mirrors(file', sp)
      BY <1>1, <1>2, <2>1
    <3>2. Loaded(file') = sp.pending
      BY <3>1, MirrorLoaded
    <3> QED BY <1>1, <3>1, <3>2 DEF Mirrors
  <2> QED BY <2>1 DEF SpoolOnDisk
<1>9. Queue' = EventsOf(sp.pending)
  BY <1>1 DEF Queue
<1>10. Delivery!Saves
  <2>1. Delivery!Keeps
    BY <1>2 DEF Delivery!Keeps, Delivery!Answered, Delivery!Range, Range, cmisVars
  <2>2. Range(Saved') \subseteq Range(Saved) \cup Range(Queue')
    BY <1>2, <1>9
  <2> QED BY <1>2, <2>1, <2>2 DEF Delivery!Saves, Delivery!Range, Range
<1> QED BY <1>2, <1>3, <1>4, <1>5, <1>6, <1>7, <1>8, <1>9, <1>10 DEF ForwardInv

LEMMA FinishStep ==
    ASSUME ForwardInv, Finish
    PROVE  ForwardInv' /\ (UNCHANGED Delivery!vars \/ Delivery!Next)
<1> DEFINE after == Completed(spool, sender.seq)
           R == <<DoneRecord(sender.seq)>>
           lost == Range(log) \cup refused \cup gone
<1>1. /\ spool.up /\ sender.pc \in {"forwarded", "rejected"} /\ sender' = AtTop
      /\ UNCHANGED <<intakeVars, wake, slot, cmisVars, gone>>
      /\ IF after = spool THEN UNCHANGED <<spoolVars, mishaps>> ELSE PersistAppend(after, R)
  BY DEF Finish
<1>2. sender.pc \in Busy /\ sender.ev \in Range(log) \cup refused
  BY <1>1 DEF ForwardInv, SenderAtFront, Busy
<1> HIDE DEF after
<1>3. CASE after = spool
  <2>1. wake' \in BOOLEAN /\ sender' \in Senders /\ sender'.pc = "top"
    BY <1>1, AtTopIdle DEF ForwardInv, ForwardTypeOK
  <2> QED BY <1>1, <1>3, <2>1, SenderStep DEF Busy
<1>4. CASE after # spool
  <2>1. /\ spool.pending # <<>> /\ spool.pending[1].seq = sender.seq /\ spool.pending[1].ev = sender.ev
        /\ after = [spool EXCEPT !.pending = Others]
    BY <1>2, <1>4, CompletedIs DEF after
  <2>2. /\ Sound(after) /\ after.pending = Others /\ after.up = spool.up
        /\ after.rewrite = spool.rewrite /\ after.unread = spool.unread
    BY <2>1, FinishSound
  <2>3. R \in Seq(Records)
    <3>1. DoneRecord(sender.seq) \in Records
      BY StateTypes DEF DoneRecord, Records, ForwardInv
    <3> QED BY <3>1
  <2> HIDE DEF R, lost
  <2>4. {sender.ev} \subseteq lost
    BY <1>2 DEF lost
  <2>5. ~spool.rewrite => /\ Mirrors(AppendRecords(file, R), after)
                          /\ Fits(AppendRecords(file, R), Range(EventsOf(after.pending)), lost)
    BY <1>1, <2>1, <2>2, <2>4, FinishFits, FitsMore DEF R
  <2>6. ~spool.rewrite => \A g \in CutShort(file, R) :
                             g \in SpoolFiles /\ Fits(g, Range(EventsOf(after.pending)), lost)
    BY <1>1, <2>1, <2>2, <2>4, FinishFits, FitsMore DEF R
  <2>7. /\ Range(EventsOf(spool.pending)) = {sender.ev} \cup Range(EventsOf(Others))
        /\ EventsOf(Others) = Tail(EventsOf(spool.pending))
        /\ EventsOf(spool.pending) # <<>> /\ Head(EventsOf(spool.pending)) = sender.ev
    BY <2>1, OthersFacts
  <2>8. ~spool.unread => Range(Saved) \subseteq Range(EventsOf(after.pending)) \cup lost
    BY <1>1, <2>2, <2>4, <2>7 DEF ForwardInv, CopyKept, lost
  <2>9. Persisted(after, lost) /\ mishaps' \in 0 .. MaxMishaps
    <3>1. PersistAppend(after, R)
      BY <1>1, <1>4 DEF R
    <3> QED BY <1>1, <2>2, <2>3, <2>5, <2>6, <2>8, <3>1, AppendOutcome
  <2>10. Range(EventsOf(after.pending)) \subseteq Known
    BY <2>2, <2>7 DEF Known
  <2>11. ForwardInv' /\ Delivery!Saves /\ Queue' = EventsOf(after.pending)
    BY <1>1, <2>2, <2>9, <2>10, WrittenStep DEF lost
  <2>12. Queue = EventsOf(spool.pending)
    BY <1>1 DEF Queue
  <2>13. Delivery!Finish
    <3>1. Queue # <<>> /\ Queue' = Tail(Queue)
      BY <2>2, <2>7, <2>11, <2>12
    <3>2. Head(Queue) \in Delivery!Answered
      BY <1>2, <2>7, <2>12 DEF Delivery!Answered, Delivery!Range, Range
    <3> QED BY <1>1, <2>11, <3>1, <3>2 DEF Delivery!Finish, cmisVars
  <2> QED BY <2>11, <2>13 DEF Delivery!Next
<1> QED BY <1>3, <1>4

-----------------------------------------------------------------------------
(* The agent starts and stops                                              *)

LEMMA DownSpool ==
    /\ Down \in Spools /\ ~Down.up /\ Down.pending = <<>> /\ Down.next = 1 /\ Down.rewrite /\ ~Down.unread
    /\ Sound(Down)
<1>1. <<>> \in Seq(Entries) /\ Len(<<>>) = 0 /\ DOMAIN <<>> = {}
  OBVIOUS
<1>2. /\ Down \in Spools /\ ~Down.up /\ Down.pending = <<>> /\ Down.next = 1 /\ Down.rewrite /\ ~Down.unread
  BY <1>1 DEF Down, Spools
<1>3. Numbered(Down)
  BY <1>1, <1>2 DEF Numbered
<1>4. Rising(EventsOf(<<>>)) /\ Len(<<>>) <= Cap
  BY EmptyHolds DEF Holds
<1> QED BY <1>2, <1>3, <1>4 DEF Sound

\* A stop that leaves the present file, or one cut short.
LEMMA StopStep ==
    ASSUME ForwardInv, Ends, file' \in SpoolFiles, Holds(file', Loaded(file')),
           Range(Saved') \subseteq Range(Saved) \cup Range(Line),
           Range(Saved) \ Range(Saved') \subseteq Range(log) \cup refused \cup gone',
           gone' \subseteq HostEvents,
           NEW n \in 0 .. Len(EventsOf(spool.pending)),
           gone' = gone \cup Range(SubSeq(EventsOf(spool.pending), 1, n))
    PROVE  ForwardInv' /\ Delivery!Next
<1>1. /\ spool.up /\ spool' = Down /\ chan' = <<>> /\ staged' = <<>> /\ flight' = NoFlight
      /\ sender' = AtTop /\ wake' = FALSE /\ slot' = "missing"
      /\ late' = (IF sender.pc = "calling" THEN late \cup {sender.ev} ELSE late)
      /\ UNCHANGED <<produced, aside, offered, log, refused>>
      /\ Mishap(1)
  BY DEF Ends
<1>2. late' \subseteq offered
  BY <1>1 DEF ForwardInv, SenderAtFront, Busy
<1>3. /\ NoFlight \in [batch : Seq(HostEvents), done : BOOLEAN] /\ NoFlight.batch = <<>> /\ ~NoFlight.done
  BY DEF NoFlight
<1>4. ForwardTypeOK'
  <2>1. mishaps' \in 0 .. MaxMishaps
    <3>1. 1 \in Nat
      OBVIOUS
    <3> QED BY <1>1, <3>1, MishapsBounded DEF ForwardInv
  <2>2. Len(<<>>) <= CHANNEL_CAPACITY /\ Len(<<>>) <= Cap /\ <<>> \in Seq(HostEvents)
    BY ForwardAssumption
  <2>3. spool' \in Spools /\ Len(spool'.pending) <= Cap
    BY <1>1, DownSpool DEF Sound
  <2>4. offered \subseteq HostEvents
    BY DEF ForwardInv, ForwardTypeOK
  <2>5. flight' \in [batch : Seq(HostEvents), done : BOOLEAN] /\ Len(flight'.batch) <= Cap
    BY <1>1, <1>3, <2>2
  <2>6. chan' \in Seq(HostEvents) /\ Len(chan') <= CHANNEL_CAPACITY /\ staged' \in Seq(HostEvents) /\ Len(staged') <= Cap
    BY <1>1, <2>2
  <2>7. sender' \in Senders /\ wake' \in BOOLEAN /\ slot' \in {"missing", "expired", "valid"}
    BY <1>1, AtTopIdle
  <2>8. aside' \cup late' \cup offered' \cup refused' \cup gone' \subseteq HostEvents
    BY <1>1, <1>2, <2>4 DEF ForwardInv, ForwardTypeOK
  <2> QED BY <1>1, <2>1, <2>3, <2>5, <2>6, <2>7, <2>8 DEF ForwardInv, ForwardTypeOK
<1>5. SpoolNumbered' /\ FileHolds' /\ NothingRuns' /\ CopyKept' /\ SpoolOnDisk'
  <2>1. SpoolNumbered'
    BY <1>1, DownSpool DEF SpoolNumbered, Sound, Numbered
  <2>2. FileHolds'
    BY DEF FileHolds
  <2>3. NothingRuns' /\ CopyKept' /\ SpoolOnDisk'
    BY <1>1, DownSpool DEF NothingRuns, CopyKept, SpoolOnDisk
  <2> QED BY <2>1, <2>2, <2>3
<1>6. SenderAtFront'
  BY <1>1, <1>2, AtTopIdle DEF SenderAtFront, Busy
<1>7. InLine'
  <2>1. Line' = <<>>
    <3>1. Line' = <<>> \o (<<>> \o <<>>)
      BY <1>1, <1>3 DEF Line
    <3>2. <<>> \o <<>> = <<>>
      BY ConcatEmptySeq
    <3> QED BY <3>1, <3>2
  <2>2. Rising(<<>>) /\ Range(<<>>) = {}
    BY DEF Rising, Range
  <2>3. Known' \subseteq Known \cup Range(Line)
    <3>1. Range(EventsOf(spool'.pending)) = {}
      BY <1>1, DownSpool, EmptyHolds
    <3> QED BY <1>1, <3>1 DEF Known
  <2>4. \A x \in Known' : x <= produced'
    BY <1>1, <2>3 DEF ForwardInv, InLine
  <2> QED BY <1>1, <1>3, <2>1, <2>2, <2>4 DEF InLine
<1>8. ForwardInv'
  BY <1>4, <1>5, <1>6, <1>7 DEF ForwardInv
<1>9. Queue = EventsOf(spool.pending) /\ Queue' = Saved'
  BY <1>1, DownSpool DEF Queue, Saved
<1>10. Saved' \in Seq(HostEvents) /\ Len(Saved') <= Cap
  <2>1. Loaded(file') \in Seq(Entries) /\ Len(Loaded(file')) <= Cap
    BY DEF Holds, Reads
  <2>2. EventsOf(Loaded(file')) \in Seq(HostEvents) /\ Len(EventsOf(Loaded(file'))) = Len(Loaded(file'))
    BY <2>1, EventsOfSeq
  <2>3. Saved' = EventsOf(Loaded(file'))
    BY DEF Saved
  <2> QED BY <2>1, <2>2, <2>3
<1>11. (Range(Saved') \ Range(Saved)) \cap offered = {}
  <2> SUFFICES ASSUME NEW x \in offered, x \in Range(Line) PROVE FALSE
    OBVIOUS
  <2>1. x \in Known /\ x \in Nat
    BY KnownTypes DEF Known
  <2>2. x < x
    BY <2>1 DEF ForwardInv, InLine
  <2> QED BY <2>1, <2>2
<1>12. Delivery!Stop
  <2>1. Delivery!Keeps
    BY <1>1 DEF Delivery!Keeps, Delivery!Answered, Delivery!Range, Range
  <2>2. (Delivery!Range(Saved') \ Delivery!Range(Saved)) \cap offered = {}
    BY <1>11 DEF Delivery!Range, Range
  <2>3. \E k \in 0 .. Len(Queue) : gone' = gone \cup Delivery!Range(SubSeq(Queue, 1, k))
    BY <1>9 DEF Delivery!Range, Range
  <2> QED BY <1>1, <1>9, <1>10, <2>1, <2>2, <2>3 DEF Delivery!Stop
<1> QED BY <1>8, <1>12 DEF Delivery!Next

\* A stop that drops nothing.
LEMMA StopKeeping ==
    ASSUME ForwardInv, Ends, file' \in SpoolFiles, Holds(file', Loaded(file')), gone' = gone,
           Range(Saved') \subseteq Range(Saved),
           Range(Saved) \ Range(Saved') \subseteq Range(log) \cup refused \cup gone
    PROVE  ForwardInv' /\ Delivery!Next
<1> DEFINE E == EventsOf(spool.pending)
<1>1. E \in Seq(HostEvents) /\ Len(E) \in Nat
  BY StateTypes, EventsOfSeq, LenProperties DEF ForwardInv
<1> HIDE DEF E
<1>2. 0 \in 0 .. Len(E) /\ 0 \in Nat /\ 0 <= Len(E)
  BY <1>1
<1>3. SubSeq(E, 1, 0) \in Seq(HostEvents) /\ Len(SubSeq(E, 1, 0)) = 0
  BY <1>1, <1>2, FirstOf
<1>4. SubSeq(E, 1, 0) = <<>>
  BY <1>3, EmptySeq
<1>5. Range(SubSeq(E, 1, 0)) = {}
  BY <1>4 DEF Range
<1>6. gone' \subseteq HostEvents /\ gone' = gone \cup Range(SubSeq(E, 1, 0))
  BY <1>5 DEF ForwardInv, ForwardTypeOK
<1> QED BY <1>2, <1>6, StopStep DEF E

LEMMA AgentStopsStep ==
    ASSUME ForwardInv, AgentStops
    PROVE  ForwardInv' /\ Delivery!Next
<1>1. Ends /\ UNCHANGED <<file, gone>>
  BY DEF AgentStops
<1>2. file' \in SpoolFiles /\ Holds(file', Loaded(file'))
  BY <1>1 DEF ForwardInv, ForwardTypeOK, FileHolds
<1>3. Saved' = Saved
  BY <1>1 DEF Saved
<1> QED BY <1>1, <1>2, <1>3, StopKeeping

LEMMA CrashInFinishStep ==
    ASSUME ForwardInv, CrashInFinish
    PROVE  ForwardInv' /\ Delivery!Next
<1>1. /\ sender.pc \in {"forwarded", "rejected"} /\ ~spool.rewrite
      /\ Completed(spool, sender.seq) # spool
      /\ file' \in CutShort(file, <<DoneRecord(sender.seq)>>)
      /\ gone' = gone /\ Ends /\ spool.up
  BY DEF CrashInFinish, Ends
<1>2. sender.pc \in Busy /\ sender.ev \in Range(log) \cup refused
  BY <1>1 DEF ForwardInv, SenderAtFront, Busy
<1>3. spool.pending # <<>> /\ spool.pending[1].seq = sender.seq /\ spool.pending[1].ev = sender.ev
  BY <1>1, <1>2, CompletedIs
<1>4. file' \in SpoolFiles /\ Fits(file', Range(EventsOf(Others)), {sender.ev})
  BY <1>1, <1>3, FinishFits
<1>5. /\ Holds(file', Loaded(file')) /\ Range(Saved') \subseteq Range(Saved) \cup Range(EventsOf(Others))
      /\ Range(Saved) \ Range(Saved') \subseteq {sender.ev}
  BY <1>4 DEF Fits, Saved
<1>6. Range(EventsOf(Others)) \subseteq Range(Saved)
  BY <1>1, <1>3, OthersFacts, OnDiskMirrors
<1> QED BY <1>1, <1>2, <1>4, <1>5, <1>6, StopKeeping

LEMMA CrashInPushStep ==
    ASSUME ForwardInv, CrashInPush
    PROVE  ForwardInv' /\ Delivery!Next
<1> DEFINE E == EventsOf(spool.pending)
           p == spool.pending
           dropped == DroppedBy(spool, flight.batch)
<1>1. /\ ~spool.rewrite /\ file' \in CutShort(file, PushRecords(spool, flight.batch))
      /\ gone' = gone \cup dropped /\ Ends /\ spool.up
  BY DEF CrashInPush, Ends
<1>2. file' \in SpoolFiles /\ Fits(file', Range(EventsOf(Pushed(spool, flight.batch).pending)), dropped)
  BY <1>1, PushCutFits
<1>3. /\ Holds(file', Loaded(file'))
      /\ Range(Saved') \subseteq Range(Saved) \cup Range(EventsOf(Pushed(spool, flight.batch).pending))
      /\ Range(Saved) \ Range(Saved') \subseteq dropped
  BY <1>2 DEF Fits, Saved
<1>4. /\ Range(EventsOf(Pushed(spool, flight.batch).pending)) = Range(EventsOf(Left)) \cup Range(flight.batch)
      /\ Range(E) = Range(EventsOf(Left)) \cup dropped /\ dropped = {p[i].ev : i \in 1 .. Over}
  BY DroppedIs
<1>5. Saved = E
  BY <1>1, OnDiskMirrors
<1>6. Range(flight.batch) \subseteq Range(Line)
  BY BatchFacts DEF Range
<1>7. Range(Saved') \subseteq Range(Saved) \cup Range(Line)
  BY <1>3, <1>4, <1>5, <1>6
<1>8. gone' \subseteq HostEvents
  BY <1>1, <1>4, KnownTypes DEF ForwardInv, ForwardTypeOK
<1>9. Over \in 0 .. Len(E) /\ Range(SubSeq(E, 1, Over)) = dropped
  <2>1. /\ p \in Seq(Entries) /\ Over \in Nat /\ Over <= Len(p) /\ Len(p) \in Nat
    BY StateTypes, OverFacts, BatchFacts DEF ForwardInv
  <2>2. E \in Seq(HostEvents) /\ Len(E) = Len(p) /\ \A i \in 1 .. Len(p) : E[i] = p[i].ev
    BY <2>1, EventsOfSeq
  <2> HIDE DEF E, p, dropped
  <2>3. Over \in 0 .. Len(E) /\ Over <= Len(E) /\ \A i \in 1 .. Over : i \in 1 .. Len(p)
    BY <2>1, <2>2
  <2>4. PICK w : w = SubSeq(E, 1, Over)
    OBVIOUS
  <2>5. w \in Seq(HostEvents) /\ Len(w) = Over /\ \A i \in 1 .. Over : w[i] = E[i]
    BY <2>1, <2>2, <2>3, <2>4, FirstOf
  <2>6. DOMAIN w = 1 .. Over /\ \A i \in 1 .. Over : w[i] = p[i].ev
    BY <2>2, <2>3, <2>5, LenProperties
  <2>7. Range(w) = {p[i].ev : i \in 1 .. Over}
    BY <2>6 DEF Range
  <2> QED BY <1>4, <2>3, <2>4, <2>7
<1> HIDE DEF dropped
<1>10. gone' = gone \cup Range(SubSeq(EventsOf(spool.pending), 1, Over)) /\ Over \in 0 .. Len(EventsOf(spool.pending))
  BY <1>1, <1>9
<1>11. Range(Saved) \ Range(Saved') \subseteq Range(log) \cup refused \cup gone'
  BY <1>1, <1>3
<1> QED BY <1>1, <1>2, <1>3, <1>7, <1>8, <1>10, <1>11, StopStep

\* The spool as Spool::open reads it, and as it is when the file cannot be
\* read.
ReadSpool == [Down EXCEPT !.up = TRUE, !.pending = Renumber(Loaded(file)),
                          !.next = Len(Loaded(file)) + 1, !.rewrite = ~Canonical(file)]
UnreadSpool == [Down EXCEPT !.up = TRUE, !.unread = TRUE]

LEMMA RenumberedFacts ==
    ASSUME ForwardInv
    PROVE  LET s == Renumber(Loaded(file))
           IN  /\ s \in Seq(Entries) /\ Len(s) = Len(Loaded(file)) /\ Len(s) <= Cap /\ Len(s) \in Nat
               /\ \A i \in 1 .. Len(s) : s[i].seq = i
               /\ EventsOf(s) = Saved
<1> DEFINE l == Loaded(file)
           n == Len(l)
           s == Renumber(l)
<1>1. l \in Seq(Entries) /\ n <= Cap
  BY DEF ForwardInv, FileHolds, Holds, Reads
<1>2. n \in Nat /\ DOMAIN l = 1 .. n /\ \A i \in 1 .. n : l[i] \in Entries
  BY <1>1, EntrySeq
<1> HIDE DEF l, n
<1>3. \A i \in 1 .. n : /\ [l[i] EXCEPT !.seq = i] \in Entries
                        /\ [l[i] EXCEPT !.seq = i].seq = i /\ [l[i] EXCEPT !.seq = i].ev = l[i].ev
  <2> SUFFICES ASSUME NEW i \in 1 .. n, NEW e, e = l[i]
               PROVE  /\ [e EXCEPT !.seq = i] \in Entries
                      /\ [e EXCEPT !.seq = i].seq = i /\ [e EXCEPT !.seq = i].ev = e.ev
    OBVIOUS
  <2>1. e \in Entries /\ i \in Nat
    BY <1>2
  <2> QED BY <2>1 DEF Entries
<1>4. s = [i \in 1 .. n |-> [l[i] EXCEPT !.seq = i]]
  BY <1>2 DEF Renumber
<1>5. s \in Seq(Entries) /\ Len(s) = n
  BY <1>2, <1>3, <1>4
<1>6. \A i \in 1 .. n : s[i] = [l[i] EXCEPT !.seq = i]
  BY <1>4
<1>7. \A i \in 1 .. n : s[i].seq = i /\ s[i].ev = l[i].ev
  BY <1>3, <1>6
<1> HIDE DEF s
<1>8. EventsOf(s) = EventsOf(l)
  <2>1. EventsOf(s) \in Seq(HostEvents) /\ Len(EventsOf(s)) = n /\ \A i \in 1 .. n : EventsOf(s)[i] = s[i].ev
    BY <1>5, EventsOfSeq
  <2>2. EventsOf(l) \in Seq(HostEvents) /\ Len(EventsOf(l)) = n /\ \A i \in 1 .. n : EventsOf(l)[i] = l[i].ev
    BY <1>1, EventsOfSeq DEF n
  <2>3. \A i \in 1 .. n : EventsOf(s)[i] = EventsOf(l)[i]
    BY <1>7, <2>1, <2>2
  <2> QED BY <2>1, <2>2, <2>3, SeqEqual
<1> QED BY <1>1, <1>2, <1>5, <1>7, <1>8 DEF Saved, s, l, n

LEMMA ReadSpoolFacts ==
    ASSUME ForwardInv
    PROVE  /\ Sound(ReadSpool) /\ ReadSpool.up /\ ~ReadSpool.unread
           /\ ReadSpool.pending = Renumber(Loaded(file)) /\ EventsOf(ReadSpool.pending) = Saved
           /\ ReadSpool.rewrite = ~Canonical(file)
<1> DEFINE s == Renumber(Loaded(file))
           r == ReadSpool
           n == Len(s)
           m1 == [Down EXCEPT !.up = TRUE]
           m2 == [m1 EXCEPT !.pending = s]
           m3 == [m2 EXCEPT !.next = n + 1]
<1>1. /\ s \in Seq(Entries) /\ n = Len(Loaded(file)) /\ n <= Cap /\ n \in Nat
      /\ \A i \in 1 .. n : s[i].seq = i
      /\ EventsOf(s) = Saved
  BY RenumberedFacts
<1>2. Canonical(file) \in BOOLEAN
  BY DEF Canonical
<1> HIDE DEF s
<1>3. r = [m3 EXCEPT !.rewrite = ~Canonical(file)]
  BY <1>1, DownSpool DEF ReadSpool, Spools, s
<1>4. m1 \in Spools /\ m1.up /\ ~m1.unread
  BY DownSpool DEF Spools
<1> HIDE DEF m1
<1>5. m2 \in Spools /\ m2.up /\ ~m2.unread /\ m2.pending = s
  BY <1>1, <1>4 DEF Spools
<1> HIDE DEF m2, n
<1>6. m3 \in Spools /\ m3.up /\ ~m3.unread /\ m3.pending = s /\ m3.next = n + 1
  BY <1>1, <1>5 DEF Spools
<1> HIDE DEF m3, r
<1>7. /\ r \in Spools /\ r.up /\ ~r.unread /\ r.pending = s /\ r.next = n + 1
      /\ r.rewrite = ~Canonical(file)
  BY <1>2, <1>3, <1>6 DEF Spools
<1>8. DOMAIN s = 1 .. n
  BY <1>1, LenProperties DEF n
<1>9. Numbered(r)
  <2>1. Len(s) = n
    BY DEF n
  <2>2. ASSUME NEW i \in 1 .. n PROVE s[i].seq = (n + 1) - n + i - 1
    BY <1>1
  <2> QED BY <1>1, <1>7, <1>8, <2>1, <2>2 DEF Numbered
<1>10. Rising(EventsOf(s))
  BY <1>1 DEF ForwardInv, FileHolds, Holds, Saved
<1>11. Len(r.pending) <= Cap
  BY <1>1, <1>7 DEF n
<1> QED BY <1>1, <1>7, <1>9, <1>10, <1>11 DEF Sound, r, s

LEMMA UnreadSpoolFacts ==
    /\ Sound(UnreadSpool) /\ UnreadSpool.up /\ UnreadSpool.unread
    /\ UnreadSpool.pending = <<>>
<1> DEFINE r == UnreadSpool
           m == [Down EXCEPT !.up = TRUE]
<1>1. m \in Spools /\ m.up /\ m.pending = <<>> /\ m.next = 1
  BY DownSpool DEF Spools
<1>2. r = [m EXCEPT !.unread = TRUE]
  BY DownSpool DEF UnreadSpool, Spools
<1> HIDE DEF m, r
<1>3. r \in Spools /\ r.up /\ r.unread /\ r.pending = <<>> /\ r.next = 1
  BY <1>1, <1>2 DEF Spools
<1>4. Sound(r)
  BY <1>3, DownSpool DEF Sound, Numbered
<1> QED BY <1>3, <1>4 DEF r

LEMMA OpenSpoolStep ==
    ASSUME ForwardInv, OpenSpool
    PROVE  ForwardInv' /\ Delivery!Next
<1>1. /\ ~spool.up /\ UNCHANGED <<intakeVars, sender, wake, slot, cmisVars, gone>>
      /\ \/ ReadSpool.rewrite /\ Rewrite(ReadSpool, file, 0)
         \/ ~ReadSpool.rewrite /\ spool' = ReadSpool /\ UNCHANGED <<file, aside, mishaps>>
         \/ file # EmptyFile /\ Rewrite(UnreadSpool, file, 1)
  BY DEF OpenSpool, ReadSpool, UnreadSpool
<1>2. sender = AtTop /\ Queue = Saved
  BY <1>1 DEF ForwardInv, NothingRuns, Queue, Saved
<1>3. file \in SpoolFiles /\ file.records = file.records /\ 0 \in Nat /\ 1 \in Nat /\ mishaps \in 0 .. MaxMishaps
  BY DEF ForwardInv, ForwardTypeOK
<1>4. /\ Sound(ReadSpool) /\ ReadSpool.up /\ ~ReadSpool.unread
      /\ ReadSpool.pending = Renumber(Loaded(file)) /\ EventsOf(ReadSpool.pending) = Saved
      /\ ReadSpool.rewrite = ~Canonical(file)
  BY ReadSpoolFacts
<1>5. /\ Sound(UnreadSpool) /\ UnreadSpool.up /\ UnreadSpool.unread
      /\ UnreadSpool.pending = <<>> /\ EventsOf(UnreadSpool.pending) = <<>>
      /\ Range(EventsOf(UnreadSpool.pending)) = {}
  BY UnreadSpoolFacts, EmptyHolds
<1>6. ASSUME NEW sp, Sound(sp), sp.up, Persisted(sp, {}), mishaps' \in 0 .. MaxMishaps,
             EventsOf(sp.pending) \in {Saved, <<>>}, Range(EventsOf(sp.pending)) \subseteq Range(Saved)
      PROVE  ForwardInv' /\ Delivery!Next
  <2>1. ForwardInv' /\ Delivery!Saves /\ Queue' = EventsOf(sp.pending)
    <3>1. {} \subseteq Range(log) \cup refused \cup gone /\ sender' = AtTop
          /\ Range(EventsOf(sp.pending)) \subseteq Known
      BY <1>1, <1>2, <1>6 DEF Known
    <3> QED BY <1>1, <1>6, <3>1, WrittenStep
  <2>2. Delivery!Start
    BY <1>1, <1>6, <2>1 DEF Delivery!Start, cmisVars
  <2> QED BY <2>1, <2>2 DEF Delivery!Next
<1>7. Range(Saved) \subseteq Range(EventsOf(ReadSpool.pending)) \cup {}
  BY <1>4
<1>8. CASE Rewrite(ReadSpool, file, 0)
  <2>1. Fits(file, Range(EventsOf(ReadSpool.pending)), {})
    BY <1>3, SameFits
  <2>2. Persisted(ReadSpool, {}) /\ mishaps' \in 0 .. MaxMishaps
    BY <1>3, <1>4, <1>7, <1>8, <2>1, RewriteOutcome
  <2> QED BY <1>4, <1>6, <2>2
<1>9. CASE ~ReadSpool.rewrite /\ spool' = ReadSpool /\ UNCHANGED <<file, aside, mishaps>>
  <2>1. ~file.torn /\ file.records = RecordsOf(ReadSpool.pending)
    BY <1>4, <1>9 DEF Canonical
  <2>2. Mirrors(file, ReadSpool)
    BY <1>3, <1>4, <2>1, MirrorWritten
  <2>3. Persisted(ReadSpool, {})
    BY <1>4, <1>7, <1>9, <2>2 DEF Persisted, Sound
  <2> QED BY <1>3, <1>4, <1>6, <1>9, <2>3
<1>10. CASE Rewrite(UnreadSpool, file, 1)
  <2>1. Persisted(UnreadSpool, {}) /\ mishaps' \in 0 .. MaxMishaps
    BY <1>3, <1>5, <1>10, RewriteOutcome
  <2> QED BY <1>5, <1>6, <2>1
<1> QED BY <1>1, <1>8, <1>9, <1>10

-----------------------------------------------------------------------------
(* The theorems of the forwarder                                           *)

LEMMA ForwardStarts ==
    ASSUME ForwardInit
    PROVE  ForwardInv /\ Delivery!Init
<1>1. /\ produced = 0 /\ chan = <<>> /\ staged = <<>> /\ flight = NoFlight
      /\ spool = Down /\ file = EmptyFile /\ aside = {}
      /\ sender = AtTop /\ wake = FALSE /\ slot = "missing"
      /\ late = {} /\ offered = {} /\ log = <<>> /\ refused = {} /\ gone = {}
      /\ mishaps = 0
  BY DEF ForwardInit
<1>2. /\ NoFlight \in [batch : Seq(HostEvents), done : BOOLEAN] /\ NoFlight.batch = <<>> /\ ~NoFlight.done
  BY DEF NoFlight
<1>3. Saved = <<>> /\ Queue = <<>>
  <2>1. Loaded(file) = <<>> /\ EventsOf(<<>>) = <<>>
    BY <1>1, EmptyHolds
  <2> QED BY <1>1, <2>1, DownSpool DEF Saved, Queue
<1>4. ForwardTypeOK
  <2>1. Len(<<>>) <= CHANNEL_CAPACITY /\ Len(<<>>) <= Cap /\ <<>> \in Seq(HostEvents)
        /\ 0 \in 0 .. MaxEvents /\ 0 \in 0 .. MaxMishaps
    BY ForwardAssumption
  <2>2. flight \in [batch : Seq(HostEvents), done : BOOLEAN] /\ Len(flight.batch) <= Cap
    BY <1>1, <1>2, <2>1
  <2>3. spool \in Spools /\ Len(spool.pending) <= Cap /\ file \in SpoolFiles /\ sender \in Senders
    BY <1>1, DownSpool, EmptyHolds, AtTopIdle DEF Sound
  <2>4. wake \in BOOLEAN /\ slot \in {"missing", "expired", "valid"}
        /\ aside \cup late \cup offered \cup refused \cup gone \subseteq HostEvents
    BY <1>1
  <2>5. log \in Seq(HostEvents) /\ chan \in Seq(HostEvents) /\ staged \in Seq(HostEvents)
        /\ Len(chan) <= CHANNEL_CAPACITY /\ Len(staged) <= Cap
    BY <1>1, <2>1
  <2> QED BY <1>1, <2>1, <2>2, <2>3, <2>4, <2>5 DEF ForwardTypeOK
<1>5. SpoolNumbered /\ FileHolds /\ NothingRuns /\ CopyKept /\ SpoolOnDisk
  <2>1. SpoolNumbered
    BY <1>1, DownSpool DEF SpoolNumbered, Sound
  <2>2. FileHolds
    BY <1>1, EmptyHolds DEF FileHolds
  <2>3. NothingRuns /\ CopyKept /\ SpoolOnDisk
    BY <1>1, DownSpool DEF NothingRuns, CopyKept, SpoolOnDisk
  <2> QED BY <2>1, <2>2, <2>3
<1>6. SenderAtFront
  BY <1>1, AtTopIdle DEF SenderAtFront, Busy
<1>7. InLine
  <2>1. Line = <<>>
    <3>1. Line = <<>> \o (<<>> \o <<>>)
      BY <1>1, <1>2 DEF Line
    <3>2. <<>> \o <<>> = <<>>
      BY ConcatEmptySeq
    <3> QED BY <3>1, <3>2
  <2>2. Rising(<<>>) /\ Range(<<>>) = {}
    BY DEF Rising, Range
  <2>3. Known = {}
    BY <1>1, <1>3, <2>2, DownSpool, EmptyHolds DEF Known
  <2> QED BY <1>2, <1>1, <2>1, <2>2, <2>3 DEF InLine
<1>8. Delivery!Init
  BY <1>1, <1>3 DEF Delivery!Init
<1> QED BY <1>4, <1>5, <1>6, <1>7, <1>8 DEF ForwardInv

LEMMA ForwardStep ==
    ASSUME ForwardInv, [ForwardNext]_forwardVars
    PROVE  ForwardInv' /\ [Delivery!Next]_Delivery!vars
<1>1. CASE ForwardNext
  <2>1. CASE OpenSpool \/ AgentStops \/ CrashInPush \/ CrashInFinish
    BY <2>1, OpenSpoolStep, AgentStopsStep, CrashInPushStep, CrashInFinishStep
  <2>2. CASE Produce \/ Intake \/ Push \/ JoinFlight
    BY <2>2, ProducedStep, IntakeStep, PushStep, JoinFlightStep
  <2>3. CASE SlotFilled \/ SlotLost \/ Park \/ Woken \/ Call
    BY <2>3, SlotFilledStep, SlotLostStep, ParkStep, WokenStep, CallStep
  <2>4. CASE ReadFront \/ Answer \/ CallFails \/ ServeLate \/ Finish
    BY <2>4, ReadFrontStep, AnswerStep, CallFailsStep, ServeLateStep, FinishStep
  <2> QED BY <1>1, <2>1, <2>2, <2>3, <2>4 DEF ForwardNext
<1>2. CASE UNCHANGED forwardVars
  <2>1. UNCHANGED <<produced, chan, staged, flight, spool, file, aside, sender, wake, slot,
                    late, offered, log, refused, gone, mishaps>>
    BY <1>2 DEF forwardVars, intakeVars, spoolVars, cmisVars
  <2>2. SpoolNumbered' /\ FileHolds' /\ SpoolOnDisk' /\ Saved' = Saved /\ Queue' = Queue
    BY <2>1, SpoolSame
  <2>3. ForwardTypeOK' /\ NothingRuns' /\ SenderAtFront'
    BY <2>1 DEF ForwardInv, ForwardTypeOK, NothingRuns, SenderAtFront
  <2>4. InLine' /\ CopyKept'
    BY <2>1, LineSame, CopySame DEF intakeVars
  <2>5. UNCHANGED Delivery!vars
    BY <2>1, <2>2 DEF Delivery!vars
  <2> QED BY <2>2, <2>3, <2>4, <2>5 DEF ForwardInv
<1> QED BY <1>1, <1>2

\* Whatever is produced, cut short, lost, answered late or stopped, the
\* forwarder stays in the inductive invariant: the spool's numbers are
\* consecutive, the file reads back as one order of them, what is still on its
\* way is newer than what waits, the sender works on the front or on an event
\* the cap dropped, and an event that left the file was answered for, dropped
\* or set aside.
THEOREM ForwardInvariant == ForwardSpec => []ForwardInv
<1>1. ForwardInit => ForwardInv
  BY ForwardStarts
<1>2. ForwardInv /\ [ForwardNext]_forwardVars => ForwardInv'
  BY ForwardStep
<1> QED BY <1>1, <1>2, PTL DEF ForwardSpec

\* Every variable of the forwarder keeps its type, whatever is produced,
\* lost, cut short or answered: the channel, the staged events, the batch
\* and the spool never outgrow their bounds.
THEOREM ForwardTypeCorrect == ForwardSpec => []ForwardTypeOK
<1>1. ForwardInv => ForwardTypeOK
  BY DEF ForwardInv
<1> QED BY <1>1, ForwardInvariant, PTL

\* Unless a rewrite is owed, the spool file reads back as exactly what waits
\* in memory, and every number in it is below the next: Spool::push,
\* complete_through, persist_append, rewrite and open keep the file fit for
\* the next append, for every cap, channel and number of mishaps.
THEOREM SpoolOnDiskHolds == ForwardSpec => []SpoolOnDisk
<1>1. ForwardInv => SpoolOnDisk
  BY DEF ForwardInv
<1> QED BY <1>1, ForwardInvariant, PTL

\* The spool, its file and the sender implement AuditDelivery: every step of
\* the forwarder, a crash in the middle of an append included, is a step of
\* the bounded queue delivered at least once, or changes nothing of it.
THEOREM DeliveryRefined == ForwardSpec => DeliveryImplemented
<1>1. ForwardInit => Delivery!Init
  BY ForwardStarts
<1>2. ForwardInv /\ [ForwardNext]_forwardVars => [Delivery!Next]_Delivery!vars
  BY ForwardStep
<1> QED BY <1>1, <1>2, ForwardInvariant, PTL DEF ForwardSpec, DeliveryImplemented, Delivery!Spec
================================================================================

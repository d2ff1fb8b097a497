------------------------------ MODULE AuditLog -------------------------------
(***************************************************************************)
(* The audit log of a CMIS node: the Merkle log over its write-once store  *)
(* (ferro-audit/src/log.rs and store.rs, audit_record in service.rs).      *)
(*                                                                         *)
(* A request appends its event and then seals a tree head; the log's lock  *)
(* is held for each of the two, not over both.  Files are created, never   *)
(* replaced: a write that fails or is cut short leaves the file behind,    *)
(* and the next write to that name is refused.  A start rebuilds the tree  *)
(* from the leaf files and checks it against the newest head.  Root(d) is  *)
(* the Merkle root of the leaves d.                                        *)
(***************************************************************************)
EXTENDS Naturals, Sequences, FiniteSets, FiniteSetsExt

CONSTANTS
    Requests,    \* requests in progress at a time
    MaxLeaves,   \* bound: events appended or tried
    MaxFaults,   \* bound: writes that fail, stops
    Root(_)

ASSUME AuditAssumption == MaxLeaves \in Nat /\ MaxFaults \in Nat

VARIABLES
    leaves,     \* leaves/<index>.cbor
    hashes,     \* leaves/<index>.hash
    sths,       \* sth/<size>.json
    up, tree, latest,   \* the process: AuditLog's tree and its latest head
    request,    \* per request: idle, or appended and about to seal
    made,       \* events so far
    acked,      \* the event acknowledged at each index
    heads,      \* history: tree heads handed out or written whole
    faults

diskVars  == <<leaves, hashes, sths>>
logVars   == <<up, tree, latest, request, made, acked, heads>>
vars == <<diskVars, logVars, faults>>

-----------------------------------------------------------------------------
\* A file: not there, created and not written in full, or whole.
Files == {"absent", "torn", "whole"}

Sizes   == 0 .. MaxLeaves
Indices == 0 .. MaxLeaves - 1
Events  == 1 .. MaxLeaves

\* A leaf is the bytes in its file: those of an event, perhaps cut short.
Leaves  == [ev : Events, cut : BOOLEAN]
NoLeaf  == [ev |-> 0, cut |-> FALSE]
Leaf(e) == [ev |-> e, cut |-> FALSE]

\* SthBody of the first n leaves of the tree.
TreeHead(n) == [size |-> n, root |-> Root(SubSeq(tree, 1, n))]

\* Head files: absent, torn, or with the head of that size.
NoHead   == [file |-> "absent"]
TornHead == [file |-> "torn"]
HeadFile(h) == [file |-> "whole", head |-> h]

Fault(n) == faults' = faults + n /\ faults' <= MaxFaults

TypeOK ==
    /\ leaves \in [Indices -> Leaves \cup {NoLeaf}]
    /\ hashes \in [Indices -> Files]
    /\ DOMAIN sths = Sizes /\ \A n \in Sizes : sths[n].file \in Files
    /\ up \in BOOLEAN
    /\ tree \in Seq(Leaves) /\ Len(tree) <= MaxLeaves
    /\ latest \in Sizes
    /\ request \in [Requests -> {"idle", "appended"}]
    /\ made \in 0 .. MaxLeaves
    /\ acked \in [Indices -> Events \cup {0}]
    /\ \A h \in heads : h.size \in Sizes
    /\ faults \in 0 .. MaxFaults

Init ==
    /\ leaves = [i \in Indices |-> NoLeaf]
    /\ hashes = [i \in Indices |-> "absent"]
    /\ sths = [n \in Sizes |-> NoHead]
    /\ up = FALSE /\ tree = <<>> /\ latest = 0
    /\ request = [r \in Requests |-> "idle"]
    /\ made = 0 /\ acked = [i \in Indices |-> 0] /\ heads = {}
    /\ faults = 0

-----------------------------------------------------------------------------
(* Append: log.rs append, store.rs append_leaf and write_new               *)

\* What an append_leaf that is refused, fails or is cut short leaves behind:
\* nothing, a part of the leaf, or the leaf with or without its hash.
LeafLeftBehind(i, e) ==
    \/ UNCHANGED <<leaves, hashes>>
    \/ /\ leaves[i] = NoLeaf
       /\ \/ leaves' = [leaves EXCEPT ![i] = [ev |-> e, cut |-> TRUE]] /\ UNCHANGED hashes
          \/ /\ leaves' = [leaves EXCEPT ![i] = Leaf(e)]
             /\ \E left \in Files : hashes' = [hashes EXCEPT ![i] = left]

\* The tree grows only when the store has taken the leaf.
AppendEvent(r) ==
    LET i == Len(tree)
    IN  /\ up /\ request[r] = "idle" /\ made < MaxLeaves
        /\ leaves[i] = NoLeaf
        /\ made' = made + 1
        /\ leaves' = [leaves EXCEPT ![i] = Leaf(made + 1)]
        /\ hashes' = [hashes EXCEPT ![i] = "whole"]
        /\ tree' = Append(tree, Leaf(made + 1))
        /\ acked' = [acked EXCEPT ![i] = made + 1]
        /\ request' = [request EXCEPT ![r] = "appended"]
        /\ UNCHANGED <<sths, up, latest, heads, faults>>

\* Mutant: the tree takes the leaf before the store has.
AppendFailsInTree(r) ==
    /\ up /\ request[r] = "idle" /\ made < MaxLeaves
    /\ made' = made + 1
    /\ tree' = Append(tree, Leaf(made + 1))
    /\ \/ leaves[Len(tree)] # NoLeaf /\ UNCHANGED <<leaves, hashes, faults>>
       \/ leaves[Len(tree)] = NoLeaf /\ LeafLeftBehind(Len(tree), made + 1) /\ Fault(1)
    /\ UNCHANGED <<sths, up, latest, request, acked, heads>>

\* The store refuses the index, or a write fails: the event is not in the
\* log, and the file it left blocks the index until a restart.
AppendFails(r) ==
    /\ up /\ request[r] = "idle" /\ made < MaxLeaves
    /\ made' = made + 1
    /\ \/ leaves[Len(tree)] # NoLeaf /\ UNCHANGED <<leaves, hashes, faults>>
       \/ leaves[Len(tree)] = NoLeaf /\ LeafLeftBehind(Len(tree), made + 1) /\ Fault(1)
    /\ UNCHANGED <<sths, up, tree, latest, request, acked, heads>>

-----------------------------------------------------------------------------
(* Tree heads: log.rs produce_sth, store.rs record_sth                     *)

\* A write of the head that failed, or did not end: no file, a torn one, or
\* a whole one whose sync did not come.
HeadLeftBehind(n) ==
    \/ sths' \in {sths, [sths EXCEPT ![n] = TornHead]} /\ UNCHANGED heads
    \/ sths' = [sths EXCEPT ![n] = HeadFile(TreeHead(n))] /\ heads' = heads \cup {TreeHead(n)}

\* The head of the tree as it is now, which may hold later events too; the
\* head of a size is recorded once.
ProduceSth(r) ==
    LET n == Len(tree)
    IN  /\ up /\ request[r] = "appended"
        /\ request' = [request EXCEPT ![r] = "idle"]
        /\ IF sths[n].file = "absent"
           THEN \/ /\ sths' = [sths EXCEPT ![n] = HeadFile(TreeHead(n))]
                   /\ latest' = n
                   /\ heads' = heads \cup {TreeHead(n)}
                   /\ UNCHANGED faults
                \/ /\ HeadLeftBehind(n)
                   /\ Fault(1)
                   /\ UNCHANGED latest
           ELSE UNCHANGED <<sths, latest, heads, faults>>
        /\ UNCHANGED <<leaves, hashes, up, tree, made, acked>>

-----------------------------------------------------------------------------
(* Stop and start                                                          *)

Stopped ==
    /\ up /\ up' = FALSE
    /\ tree' = <<>> /\ latest' = 0 /\ request' = [r \in Requests |-> "idle"]
    /\ Fault(1)
    /\ UNCHANGED acked

\* Between two writes, in the middle of an append, or of a head.
Crash ==
    /\ Stopped
    /\ \/ UNCHANGED <<diskVars, made, heads>>
       \/ /\ \E r \in Requests : request[r] = "idle"
          /\ made < MaxLeaves /\ made' = made + 1
          /\ LeafLeftBehind(Len(tree), made + 1)
          /\ UNCHANGED <<sths, heads>>
       \/ /\ \E r \in Requests : request[r] = "appended"
          /\ sths[Len(tree)].file = "absent"
          /\ HeadLeftBehind(Len(tree))
          /\ UNCHANGED <<leaves, hashes, made>>

\* The leaves read back in order, up to the first that is not there.
OnDisk ==
    LET n == Max({k \in Sizes : \A i \in 0 .. k - 1 : leaves[i] # NoLeaf})
    IN  [i \in 1 .. n |-> leaves[i - 1]]

\* read_latest_in: the newest head file, by its name.
Newest(files) == Max({0} \cup {n \in Sizes : files[n].file # "absent"})

\* The newest head covers leaves that are there, with that root.
Matches(file) ==
    \/ file.file = "absent"
    \/ /\ file.file = "whole"
       /\ file.head.size <= Len(OnDisk)
       /\ file.head.root = Root(SubSeq(OnDisk, 1, file.head.size))

\* Mutant: a start builds an empty tree over the store.
ResumeEmpty ==
    /\ ~up
    /\ Matches(sths[Newest(sths)])
    /\ up' = TRUE
    /\ tree' = <<>> /\ latest' = Newest(sths)
    /\ UNCHANGED <<diskVars, request, made, acked, heads, faults>>

\* AuditLog::new; it refuses a head it cannot decode or that does not match.
Resume ==
    /\ ~up
    /\ Matches(sths[Newest(sths)])
    /\ up' = TRUE
    /\ tree' = OnDisk /\ latest' = Newest(sths)
    /\ UNCHANGED <<diskVars, request, made, acked, heads, faults>>

Next ==
    \/ \E r \in Requests : AppendEvent(r) \/ AppendFails(r) \/ ProduceSth(r)
    \/ Crash \/ Resume

Spec == Init /\ [][Next]_vars /\ WF_vars(Resume)

-----------------------------------------------------------------------------
(* Properties                                                              *)

\* An event whose index was returned is the leaf at that index for ever,
\* whatever writes failed or stopped before and after it.
AcknowledgedKept ==
    \A i \in Indices : acked[i] # 0 => i < Len(OnDisk) /\ OnDisk[i + 1] = Leaf(acked[i])

\* The tree is what the store holds, but for one leaf that a failed append
\* left behind; every head handed out or on disk is the root of a prefix, so of
\* any two the smaller is consistent with the larger, and a start never meets
\* a whole head file that does not match.
HeadsCoverPrefix ==
    /\ up => \E k \in {0, 1} : tree = SubSeq(OnDisk, 1, Len(OnDisk) - k)
    /\ \A h \in heads : h.size <= Len(OnDisk) /\ h.root = Root(SubSeq(OnDisk, 1, h.size))
    /\ \A n \in Sizes : sths[n].file = "whole" => Matches(sths[n])

\* log.rs:74: a start resumes from whatever the store holds.
Resumes == ~up ~> up
=============================================================================

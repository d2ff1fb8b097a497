--------------------------- MODULE AppLedgerProofs ---------------------------
(***************************************************************************)
(* Proofs about the app approval ledger.                                   *)
(*                                                                         *)
(* Every transaction leaves each approval in one of three ways: as it was  *)
(* but for the mark of a newer approval (RowKept), created (RowBorn), or   *)
(* changed by one version (RowChanged), and each request as it was, new,   *)
(* or decided.  The invariants follow from that alone; that the actions    *)
(* really do so rests on what the calls in flight hold (CallsOK): a row    *)
(* read at the version still in force is the row in force.                 *)
(***************************************************************************)
EXTENDS AppLedger, FiniteSetTheorems, TLAPS

Approved == {"approved", "auto_approved"}

\* TypeOK of the tables; the calls in flight are described by CallOK.
TablesOK ==
    /\ clock \in Nat /\ generation \in Nat
    /\ binaries \in [Lineages -> Seq(Shas)]
    /\ frozen \subseteq Lineages
    /\ requests \in [RequestIds -> Requests \cup {NoRequest}]
    /\ approvals \in [ApprovalIds -> Approvals \cup {NoApproval}]
    /\ revisions \in [ApprovalIds -> Seq(Snapshots \X Snapshots)]

\* The same row but for the mark of a newer approval.
Alike(x, y) ==
    /\ x.state = y.state /\ x.lin = y.lin /\ x.sha = y.sha /\ x.source = y.source
    /\ x.origin = y.origin /\ x.parent = y.parent /\ x.user = y.user /\ x.path = y.path
    /\ x.policy = y.policy /\ x.continuity = y.continuity /\ x.created = y.created
    /\ x.expires = y.expires /\ x.version = y.version

\* Two rows of one approval at different times.
SameApproval(x, y) ==
    /\ x.lin = y.lin /\ x.sha = y.sha /\ x.source = y.source /\ x.origin = y.origin
    /\ x.parent = y.parent /\ x.created = y.created

Wide(x) == x.user = AnyUser /\ x.policy = "auto"

\* A row of the approval a that a call has read: an earlier version, or the
\* one in force.
Held(a, row) ==
    /\ approvals[a].state # "none"
    /\ row \in Approvals
    /\ row.version <= approvals[a].version
    /\ SameApproval(row, approvals[a])
    /\ row.version = approvals[a].version => Alike(row, approvals[a])

\* What an edit that was checked leaves, whatever it finds on reading again.
EditOk(a, e) ==
    approvals[a].user = AnyUser /\ ~ e.narrowUser /\ e.policy = "auto" =>
        requests[approvals[a].source].sub.protected

AfterOk(row, after) ==
    /\ after \in Approvals
    /\ SameApproval(row, after)
    /\ after.version = row.version + 1
    /\ row.state # "revoked"
    /\ after.state = row.state \/ after.state = "active"
    /\ after.user = AnyUser => row.user = AnyUser
    /\ Wide(after) => requests[row.source].sub.protected

HostSubs  == {s \in Submissions : s.admin = NoAdmin}
AdminSubs == {s \in Submissions : s.admin # NoAdmin}

CallOK(c) ==
    \/ c = Idle
    \/ c \in [pc : {"observe", "count", "pending"}, now : Nat, sub : HostSubs]
    \/ /\ c \in [pc : {"observe", "pending", "register"}, now : Nat, sub : AdminSubs,
                 terms : Terms]
       /\ WideAutoAllowed(c.terms.user, c.terms.policy, c.sub)
    \/ c \in [pc : {"parent"}, now : Nat, sub : HostSubs, tries : Nat]
    \/ /\ c \in [pc : {"auto"}, now : Nat, sub : HostSubs, tries : Nat,
                 parent : ApprovalIds \cup {NoId}, row : Approvals \cup {NoApproval}]
       /\ c.parent # NoId => Held(c.parent, c.row)
    \/ /\ c \in [pc : {"approve"}, now : Nat, admin : Admins, req : RequestIds,
                 choice : Choices, rows : [ApprovalIds -> Approvals \cup {NoApproval}]]
       /\ requests[c.req].state # "none"
       /\ c.choice.new => WideAutoAllowed(c.choice.terms.user, c.choice.terms.policy,
                                          requests[c.req].sub)
       /\ \A a \in AlsoRevoked(c) : Held(a, c.rows[a])
    \/ /\ c \in [pc : {"revoke", "expire"}, now : Nat, id : ApprovalIds, row : Approvals]
       /\ c.now <= clock
       /\ Held(c.id, c.row)
    \/ /\ c \in [pc : {"edit"}, now : Nat, id : ApprovalIds, edit : Edits]
       /\ approvals[c.id].state # "none"
       /\ EditOk(c.id, c.edit)
    \/ /\ c \in [pc : {"update"}, now : Nat, id : ApprovalIds, row : Approvals,
                 after : Approvals]
       /\ Held(c.id, c.row)
       /\ AfterOk(c.row, c.after)

CallsOK == \A t \in Tasks : CallOK(task[t])

\* An auto-update names the approval it came from.
ParentsExist ==
    \A a \in ApprovalIds :
        approvals[a].state # "none" /\ approvals[a].origin = "auto_update" =>
            approvals[a].parent \in ApprovalIds /\ approvals[approvals[a].parent].state # "none"

\* Versions start at one.
Versioned == \A a \in ApprovalIds : approvals[a].state # "none" => approvals[a].version >= 1

Inv ==
    /\ TypeOK
    /\ Versioned
    /\ CallsOK
    /\ HistoryMatches
    /\ OneDecision
    /\ WideAutoProtected
    /\ ParentsExist
    /\ AutoWithinParent

-----------------------------------------------------------------------------
(* What a transaction does to a row                                        *)

RowKept(a) ==
    /\ revisions'[a] = revisions[a]
    /\ \/ approvals'[a] = approvals[a]
       \/ approvals[a].state = "active" /\ Alike(approvals[a], approvals'[a])

RowBorn(a) ==
    LET n == approvals'[a] IN
    /\ approvals[a].state = "none"
    /\ n.state = "active" /\ n.version = 1
    /\ revisions'[a] = <<Created(n)>>
    /\ requests[n.source].state \notin Approved
    /\ requests'[n.source].state \in Approved /\ requests'[n.source].approval = a
    /\ Wide(n) => requests'[n.source].sub.protected
    /\ n.origin = "auto_update" =>
          /\ n.parent \in ApprovalIds /\ approvals[n.parent].state # "none"
          /\ Snapshot(n) = Snapshot(approvals[n.parent])
          /\ Cardinality(AutoRecent(n.lin, n.created)) < MAX_PER_DAY
          /\ \A b \in ApprovalIds \ {a} : approvals[b].state = "none" => approvals'[b].state = "none"

RowChanged(a) ==
    LET x == approvals[a]
        n == approvals'[a]
    IN  /\ x.state \in {"active", "expired"} /\ n.state # "none"
        /\ SameApproval(x, n) /\ n.version = x.version + 1
        /\ n.user = AnyUser => x.user = AnyUser
        /\ Wide(n) => requests[x.source].sub.protected
        /\ revisions'[a] = Append(revisions[a], Change(x, n))
        /\ x.state = "active" /\ n.state = "expired" =>
              x.expires # Never /\ x.expires <= clock

RequestStep(r) ==
    \/ requests'[r] = requests[r]
    \/ requests[r].state = "none"
    \/ /\ requests[r].state = "pending" /\ requests'[r].state # "none"
       /\ requests'[r].sub = requests[r].sub

TableStep ==
    /\ clock <= clock'
    /\ \A a \in ApprovalIds : RowKept(a) \/ RowBorn(a) \/ RowChanged(a)
    /\ \A r \in RequestIds : RequestStep(r)

-----------------------------------------------------------------------------
(* The rows one by one                                                     *)

LEMMA RowTyped ==
    ASSUME TablesOK, NEW a \in ApprovalIds, approvals[a].state # "none"
    PROVE  approvals[a] \in Approvals
BY DEF TablesOK, NoApproval

LEMMA RequestTyped ==
    ASSUME TablesOK, NEW r \in RequestIds, requests[r].state # "none"
    PROVE  requests[r] \in Requests
BY DEF TablesOK, NoRequest

LEMMA SnapshotTyped ==
    ASSUME NEW x \in Approvals
    PROVE  Snapshot(x) \in Snapshots
BY DEF Approvals, Snapshots, Snapshot

\* Rows alike have one snapshot.
LEMMA AlikeSnapshot ==
    ASSUME NEW x, NEW y, Alike(x, y)
    PROVE  Snapshot(x) = Snapshot(y)
BY DEF Alike, Snapshot

\* The records of an approval stay its history.
LEMMA HistoryStep ==
    ASSUME TablesOK, TablesOK', TableStep, HistoryMatches
    PROVE  HistoryMatches'
<1> SUFFICES ASSUME NEW a \in ApprovalIds, approvals'[a].state # "none"
             PROVE  /\ Len(revisions'[a]) = approvals'[a].version
                    /\ revisions'[a][Len(revisions'[a])][2] = Snapshot(approvals'[a])
                    /\ \A i \in 1 .. Len(revisions'[a]) - 1 :
                          revisions'[a][i][2] = revisions'[a][i + 1][1]
    BY DEF HistoryMatches, Snapshot
<1>h. approvals[a].state # "none" =>
          /\ Len(revisions[a]) = approvals[a].version
          /\ revisions[a][Len(revisions[a])][2] = Snapshot(approvals[a])
          /\ \A i \in 1 .. Len(revisions[a]) - 1 : revisions[a][i][2] = revisions[a][i + 1][1]
    BY DEF HistoryMatches
<1>1. CASE RowKept(a)
    <2>1. approvals[a].state # "none"
        BY <1>1 DEF RowKept, Alike
    <2>2. /\ Snapshot(approvals'[a]) = Snapshot(approvals[a])
          /\ approvals'[a].version = approvals[a].version
        BY <1>1, AlikeSnapshot DEF RowKept, Alike
    <2> QED BY <1>h, <1>1, <2>1, <2>2 DEF RowKept
<1>2. CASE RowBorn(a)
    BY <1>2 DEF RowBorn, Created
<1>3. CASE RowChanged(a)
    <2> DEFINE old == revisions[a]
               rec == Change(approvals[a], approvals'[a])
    <2>1. /\ approvals[a].state # "none" /\ approvals[a].version \in Nat
          /\ approvals'[a].version = approvals[a].version + 1
          /\ revisions'[a] = Append(old, rec)
        BY <1>3, RowTyped DEF RowChanged, Approvals
    <2>2. /\ rec = <<Snapshot(approvals[a]), Snapshot(approvals'[a])>>
          /\ old \in Seq(Snapshots \X Snapshots)
        BY DEF Change, TablesOK
    <2> HIDE DEF rec, old
    <2>3. /\ Len(Append(old, rec)) = Len(old) + 1 /\ Len(old) \in Nat
          /\ Append(old, rec)[Len(old) + 1] = rec
          /\ \A i \in 1 .. Len(old) : Append(old, rec)[i] = old[i]
        BY <2>2
    <2>4. ASSUME NEW i \in 1 .. Len(old)
          PROVE  Append(old, rec)[i][2] = Append(old, rec)[i + 1][1]
        <3>1. CASE i = Len(old)
            BY <3>1, <2>1, <2>2, <2>3, <1>h DEF old
        <3>2. CASE i < Len(old)
            <4>1. i \in 1 .. Len(old) - 1 /\ i + 1 \in 1 .. Len(old)
                BY <3>2, <2>3
            <4> QED BY <4>1, <2>1, <2>3, <1>h DEF old
        <3> QED BY <3>1, <3>2, <2>3
    <2> QED BY <2>1, <2>2, <2>3, <2>4, <1>h DEF old
<1> QED BY <1>1, <1>2, <1>3 DEF TableStep

\* An approval keeps what names it, and stays.
LEMMA RowStays ==
    ASSUME TablesOK, TableStep, NEW a \in ApprovalIds, approvals[a].state # "none"
    PROVE  approvals'[a].state # "none" /\ SameApproval(approvals[a], approvals'[a])
<1> CASE RowKept(a)
    BY DEF RowKept, Alike, SameApproval
<1> CASE RowChanged(a)
    BY DEF RowChanged
<1> QED BY DEF TableStep, RowBorn

LEMMA RequestStays ==
    ASSUME TablesOK, TableStep, NEW r \in RequestIds, requests[r].state # "none"
    PROVE  /\ requests'[r].state # "none"
           /\ requests'[r].sub = requests[r].sub
           /\ requests[r].state \in Approved => requests'[r] = requests[r]
BY DEF TableStep, RequestStep, Approved

LEMMA DecisionStep ==
    ASSUME TablesOK, TablesOK', TableStep, OneDecision
    PROVE  OneDecision'
<1> SUFFICES ASSUME NEW a \in ApprovalIds, approvals'[a].state # "none"
             PROVE  /\ requests'[approvals'[a].source].state \in Approved
                    /\ requests'[approvals'[a].source].approval = a
    BY DEF OneDecision, Approved
<1>1. CASE approvals[a].state # "none"
    <2>1. /\ approvals'[a].source = approvals[a].source
          /\ approvals[a].source \in RequestIds
        BY <1>1, RowStays, RowTyped DEF SameApproval, Approvals
    <2>2. /\ requests[approvals[a].source].state \in Approved
          /\ requests[approvals[a].source].approval = a
        BY <1>1 DEF OneDecision, Approved
    <2> QED BY <2>1, <2>2, RequestStays DEF Approved
<1>2. CASE approvals[a].state = "none"
    BY <1>2 DEF TableStep, RowKept, RowBorn, RowChanged, Alike
<1> QED BY <1>1, <1>2

LEMMA WideStep ==
    ASSUME TablesOK, TablesOK', TableStep, OneDecision, WideAutoProtected
    PROVE  WideAutoProtected'
<1> SUFFICES ASSUME NEW a \in ApprovalIds, approvals'[a].state # "none", Wide(approvals'[a])
             PROVE  requests'[approvals'[a].source].sub.protected
    BY DEF WideAutoProtected, Wide
<1>1. CASE approvals[a].state = "none"
    BY <1>1 DEF TableStep, RowKept, RowBorn, RowChanged, Alike
<1>2. CASE approvals[a].state # "none"
    <2>1. /\ approvals'[a].source = approvals[a].source
          /\ approvals[a].source \in RequestIds
        BY <1>2, RowStays, RowTyped DEF SameApproval, Approvals
    <2>2. requests'[approvals[a].source].sub = requests[approvals[a].source].sub
        BY <1>2, <2>1, RequestStays DEF OneDecision
    <2>3. requests[approvals[a].source].sub.protected
        <3>1. CASE RowKept(a)
            BY <3>1, <1>2 DEF RowKept, Alike, Wide, WideAutoProtected
        <3>2. CASE RowChanged(a)
            BY <3>2 DEF RowChanged
        <3> QED BY <3>1, <3>2, <1>2 DEF TableStep, RowBorn
    <2> QED BY <2>1, <2>2, <2>3
<1> QED BY <1>1, <1>2

LEMMA ParentsStep ==
    ASSUME TablesOK, TablesOK', TableStep, ParentsExist
    PROVE  ParentsExist'
<1> SUFFICES ASSUME NEW a \in ApprovalIds, approvals'[a].state # "none",
                    approvals'[a].origin = "auto_update"
             PROVE  /\ approvals'[a].parent \in ApprovalIds
                    /\ approvals'[approvals'[a].parent].state # "none"
    BY DEF ParentsExist
<1>1. approvals'[a].parent \in ApprovalIds /\ approvals[approvals'[a].parent].state # "none"
    <2>1. CASE approvals[a].state = "none"
        BY <2>1 DEF TableStep, RowKept, RowBorn, RowChanged, Alike
    <2>2. CASE approvals[a].state # "none"
        BY <2>2, RowStays DEF SameApproval, ParentsExist
    <2> QED BY <2>1, <2>2
<1> QED BY <1>1, RowStays

\* The records of an approval are only ever added to.
LEMMA RecordsKept ==
    ASSUME TablesOK, TableStep, HistoryMatches, NEW a \in ApprovalIds,
           approvals[a].state # "none"
    PROVE  /\ Len(revisions[a]) \in Nat /\ Len(revisions'[a]) >= Len(revisions[a])
           /\ \A i \in 1 .. Len(revisions[a]) : revisions'[a][i] = revisions[a][i]
<1>1. revisions[a] \in Seq(Snapshots \X Snapshots)
    BY DEF TablesOK
<1>2. CASE RowKept(a)
    BY <1>1, <1>2 DEF RowKept
<1>3. CASE RowChanged(a)
    <2> DEFINE old == revisions[a]
               rec == Change(approvals[a], approvals'[a])
    <2>1. revisions'[a] = Append(old, rec) /\ old \in Seq(Snapshots \X Snapshots)
        BY <1>1, <1>3 DEF RowChanged
    <2> HIDE DEF old, rec
    <2>2. /\ Len(old) \in Nat /\ Len(Append(old, rec)) = Len(old) + 1
          /\ \A i \in 1 .. Len(old) : Append(old, rec)[i] = old[i]
        BY <2>1
    <2> QED BY <2>1, <2>2 DEF old
<1> QED BY <1>2, <1>3 DEF TableStep, RowBorn

LEMMA WithinParentStep ==
    ASSUME TablesOK, TablesOK', TableStep, HistoryMatches, Versioned, ParentsExist,
           AutoWithinParent
    PROVE  AutoWithinParent'
<1> SUFFICES ASSUME NEW a \in ApprovalIds, approvals'[a].state # "none",
                    approvals'[a].origin = "auto_update"
             PROVE  \E i \in 1 .. Len(revisions'[approvals'[a].parent]) :
                       revisions'[a][1][2] = revisions'[approvals'[a].parent][i][2]
    BY DEF AutoWithinParent
<1>1. PICK p : p = approvals'[a].parent
    OBVIOUS
<1>2. /\ p \in ApprovalIds /\ approvals[p].state # "none"
      /\ \E i \in 1 .. Len(revisions[p]) : revisions'[a][1][2] = revisions[p][i][2]
    <2>1. CASE approvals[a].state = "none"
        <3>1. RowBorn(a)
            BY <2>1 DEF TableStep, RowKept, RowChanged, Alike
        <3>2. /\ p \in ApprovalIds /\ approvals[p].state # "none"
              /\ revisions'[a][1][2] = Snapshot(approvals[p])
            BY <1>1, <3>1 DEF RowBorn, Created
        <3>3. /\ Len(revisions[p]) = approvals[p].version
              /\ revisions[p][Len(revisions[p])][2] = Snapshot(approvals[p])
              /\ Len(revisions[p]) \in Nat
            BY <3>2, RecordsKept DEF HistoryMatches
        <3>4. Len(revisions[p]) # 0
            BY <3>2, <3>3 DEF Versioned
        <3> QED BY <3>2, <3>3, <3>4
    <2>2. CASE approvals[a].state # "none"
        <3>1. /\ p = approvals[a].parent /\ p \in ApprovalIds /\ approvals[p].state # "none"
              /\ approvals[a].origin = "auto_update"
            BY <1>1, <2>2, RowStays DEF SameApproval, ParentsExist
        <3>2. \E i \in 1 .. Len(revisions[p]) : revisions[a][1][2] = revisions[p][i][2]
            BY <2>2, <3>1 DEF AutoWithinParent
        <3>3. Len(revisions[a]) >= 1
            BY <2>2 DEF Versioned, HistoryMatches
        <3>4. revisions'[a][1] = revisions[a][1]
            BY <2>2, <3>3, RecordsKept
        <3> QED BY <3>1, <3>2, <3>4
    <2> QED BY <2>1, <2>2
<1>3. PICK i \in 1 .. Len(revisions[p]) : revisions'[a][1][2] = revisions[p][i][2]
    BY <1>2
<1>4. i \in 1 .. Len(revisions'[p]) /\ revisions'[p][i] = revisions[p][i]
    <2>1. revisions'[p] \in Seq(Snapshots \X Snapshots)
        BY <1>2 DEF TablesOK
    <2> QED BY <2>1, <1>2, RecordsKept
<1> QED BY <1>1, <1>3, <1>4

LEMMA VersionedStep ==
    ASSUME TablesOK, TablesOK', TableStep, Versioned
    PROVE  Versioned'
<1> SUFFICES ASSUME NEW a \in ApprovalIds, approvals'[a].state # "none"
             PROVE  approvals'[a].version >= 1
    BY DEF Versioned
<1>1. CASE RowKept(a)
    BY <1>1 DEF RowKept, Alike, Versioned
<1>2. CASE RowBorn(a)
    BY <1>2 DEF RowBorn
<1>3. CASE RowChanged(a)
    BY <1>3, RowTyped DEF RowChanged, Approvals
<1> QED BY <1>1, <1>2, <1>3 DEF TableStep

-----------------------------------------------------------------------------
(* The calls in flight                                                     *)

\* What a call has read stays an earlier version or the one in force.
LEMMA HeldStep ==
    ASSUME TablesOK, TablesOK', TableStep, NEW a \in ApprovalIds, NEW row, Held(a, row)
    PROVE  Held(a, row)'
<1>1. /\ approvals[a].state # "none" /\ row \in Approvals
      /\ approvals[a] \in Approvals
      /\ row.version <= approvals[a].version /\ SameApproval(row, approvals[a])
      /\ row.version = approvals[a].version => Alike(row, approvals[a])
    BY RowTyped DEF Held
<1>2. /\ approvals'[a].state # "none" /\ SameApproval(row, approvals'[a])
    BY <1>1, RowStays DEF SameApproval
<1>3. CASE RowKept(a)
    BY <1>1, <1>2, <1>3 DEF RowKept, Held, Alike
<1>4. CASE RowChanged(a)
    BY <1>1, <1>2, <1>4 DEF RowChanged, Held, Approvals
<1> QED BY <1>1, <1>3, <1>4 DEF TableStep, RowBorn

LEMMA EditOkStep ==
    ASSUME TablesOK, TableStep, OneDecision, NEW a \in ApprovalIds, NEW e \in Edits,
           approvals[a].state # "none", EditOk(a, e)
    PROVE  EditOk(a, e)'
<1>1. approvals'[a].source = approvals[a].source /\ approvals[a].source \in RequestIds
    BY RowStays, RowTyped DEF SameApproval, Approvals
<1>2. requests'[approvals[a].source].sub = requests[approvals[a].source].sub
    BY <1>1, RequestStays DEF OneDecision
<1>3. approvals'[a].user = AnyUser => approvals[a].user = AnyUser
    <2>1. CASE RowKept(a)
        BY <2>1 DEF RowKept, Alike
    <2>2. CASE RowChanged(a)
        BY <2>2 DEF RowChanged
    <2> QED BY <2>1, <2>2 DEF TableStep, RowBorn
<1> QED BY <1>1, <1>2, <1>3, Zenon DEF EditOk

LEMMA CallTyped ==
    ASSUME NEW c, CallOK(c)
    PROVE  c \in Calls
BY DEF CallOK, Calls, HostSubs, AdminSubs

LEMMA CallStep ==
    ASSUME TablesOK, TablesOK', TableStep, OneDecision, NEW c, CallOK(c)
    PROVE  CallOK(c)'
<1>1. CASE c = Idle \/ c \in [pc : {"observe", "count", "pending"}, now : Nat, sub : HostSubs]
               \/ c \in [pc : {"parent"}, now : Nat, sub : HostSubs, tries : Nat]
    BY <1>1 DEF CallOK
<1>2. CASE /\ c \in [pc : {"observe", "pending", "register"}, now : Nat, sub : AdminSubs,
                      terms : Terms]
           /\ WideAutoAllowed(c.terms.user, c.terms.policy, c.sub)
    BY <1>2, Zenon DEF CallOK
<1>3. CASE /\ c \in [pc : {"auto"}, now : Nat, sub : HostSubs, tries : Nat,
                      parent : ApprovalIds \cup {NoId}, row : Approvals \cup {NoApproval}]
           /\ c.parent # NoId => Held(c.parent, c.row)
    <2>1. c.parent # NoId => Held(c.parent, c.row)'
        BY <1>3, HeldStep
    <2> QED BY <1>3, <2>1, Zenon DEF CallOK
<1>4. CASE /\ c \in [pc : {"approve"}, now : Nat, admin : Admins, req : RequestIds,
                      choice : Choices, rows : [ApprovalIds -> Approvals \cup {NoApproval}]]
           /\ requests[c.req].state # "none"
           /\ c.choice.new => WideAutoAllowed(c.choice.terms.user, c.choice.terms.policy,
                                              requests[c.req].sub)
           /\ \A a \in AlsoRevoked(c) : Held(a, c.rows[a])
    <2>1. c.req \in RequestIds
        BY <1>4
    <2>2. requests'[c.req].state # "none" /\ requests'[c.req].sub = requests[c.req].sub
        BY <1>4, <2>1, RequestStays
    <2>3. \A a \in AlsoRevoked(c) : a \in ApprovalIds /\ Held(a, c.rows[a])'
        BY <1>4, HeldStep DEF AlsoRevoked
    <2>4. (\A a \in AlsoRevoked(c) : Held(a, c.rows[a]))'
        BY <2>3 DEF AlsoRevoked
    <2> QED BY <1>4, <2>2, <2>4, Zenon DEF CallOK
<1>5. CASE /\ c \in [pc : {"revoke", "expire"}, now : Nat, id : ApprovalIds, row : Approvals]
           /\ c.now <= clock
           /\ Held(c.id, c.row)
    <2>1. c.now <= clock' /\ Held(c.id, c.row)'
        BY <1>5, HeldStep DEF TableStep, TablesOK
    <2> QED BY <1>5, <2>1, Zenon DEF CallOK
<1>6. CASE /\ c \in [pc : {"edit"}, now : Nat, id : ApprovalIds, edit : Edits]
           /\ approvals[c.id].state # "none"
           /\ EditOk(c.id, c.edit)
    <2>1. approvals'[c.id].state # "none" /\ EditOk(c.id, c.edit)'
        BY <1>6, RowStays, EditOkStep
    <2> QED BY <1>6, <2>1, Zenon DEF CallOK
<1>7. CASE /\ c \in [pc : {"update"}, now : Nat, id : ApprovalIds, row : Approvals,
                      after : Approvals]
           /\ Held(c.id, c.row)
           /\ AfterOk(c.row, c.after)
    <2>1. Held(c.id, c.row)'
        BY <1>7, HeldStep
    <2>2. c.row.source = approvals[c.id].source /\ c.row.source \in RequestIds
          /\ approvals[c.id].state # "none" /\ c.id \in ApprovalIds
        BY <1>7 DEF Held, SameApproval, Approvals
    <2>3. requests'[c.row.source].sub = requests[c.row.source].sub
        BY <2>2, RequestStays DEF OneDecision
    <2>4. AfterOk(c.row, c.after)'
        BY <1>7, <2>3, Zenon DEF AfterOk
    <2> QED BY <1>7, <2>1, <2>4, Zenon DEF CallOK
<1> QED BY <1>1, <1>2, <1>3, <1>4, <1>5, <1>6, <1>7 DEF CallOK

\* A step that moves one call to c leaves all calls in order.
LEMMA GotoStep ==
    ASSUME TypeOK, TablesOK, CallsOK, OneDecision, TablesOK', TableStep,
           NEW t \in Tasks, NEW c, CallOK(c)', Goto(t, c)
    PROVE  TypeOK' /\ CallsOK'
<1>1. c \in Calls
    BY DEF CallOK, Calls, HostSubs, AdminSubs
<1>2. ASSUME NEW u \in Tasks
      PROVE  CallOK(task[u])'
    <2>1. CASE u = t
        <3>1. task'[u] = c
            BY <2>1 DEF Goto, TypeOK
        <3> QED BY <3>1
    <2>2. CASE u # t
        <3>1. PICK d : d = task[u]
            OBVIOUS
        <3>2. CallOK(d)'
            BY <3>1, CallStep DEF CallsOK
        <3>3. task'[u] = d
            BY <2>2, <3>1 DEF Goto, TypeOK
        <3> QED BY <3>2, <3>3
    <2> QED BY <2>1, <2>2
<1>3. task' \in [Tasks -> Calls]
    BY <1>1 DEF Goto, TypeOK
<1> QED BY <1>2, <1>3 DEF CallsOK, TablesOK, TypeOK

\* A step that changes no call.
LEMMA TasksKept ==
    ASSUME TypeOK, TablesOK, CallsOK, OneDecision, TablesOK', TableStep, UNCHANGED task
    PROVE  TypeOK' /\ CallsOK'
<1>1. ASSUME NEW u \in Tasks
      PROVE  CallOK(task[u])'
    <2>1. PICK d : d = task[u]
        OBVIOUS
    <2>2. CallOK(d)'
        BY <2>1, CallStep DEF CallsOK
    <2> QED BY <2>1, <2>2
<1> QED BY <1>1 DEF CallsOK, TablesOK, TypeOK

LEMMA ReturnStep ==
    ASSUME TypeOK, TablesOK, CallsOK, OneDecision, TablesOK', TableStep,
           NEW t \in Tasks, Return(t)
    PROVE  TypeOK' /\ CallsOK'
<1>1. CallOK(Idle)'
    BY DEF CallOK
<1> QED BY <1>1, GotoStep DEF Return

\* Nothing happens to the tables.
LEMMA QuietStep ==
    ASSUME TablesOK, UNCHANGED <<clock, binaries, frozen, requests, approvals, revisions, generation>>
    PROVE  TablesOK' /\ TableStep
BY DEF TablesOK, TableStep, RowKept, RequestStep

LEMMA AtObserve ==
    ASSUME NEW c, CallOK(c), c.pc = "observe"
    PROVE  \/ c \in [pc : {"observe"}, now : Nat, sub : HostSubs]
           \/ /\ c \in [pc : {"observe"}, now : Nat, sub : AdminSubs, terms : Terms]
              /\ WideAutoAllowed(c.terms.user, c.terms.policy, c.sub)
BY DEF CallOK, Idle

LEMMA AtCount ==
    ASSUME NEW c, CallOK(c), c.pc = "count"
    PROVE  c \in [pc : {"count"}, now : Nat, sub : HostSubs]
BY DEF CallOK, Idle

LEMMA AtPending ==
    ASSUME NEW c, CallOK(c), c.pc = "pending"
    PROVE  c.now \in Nat /\ c.sub \in Submissions
BY DEF CallOK, Idle, HostSubs, AdminSubs

LEMMA AtRegister ==
    ASSUME NEW c, CallOK(c), c.pc = "register"
    PROVE  /\ c \in [pc : {"register"}, now : Nat, sub : AdminSubs, terms : Terms]
           /\ WideAutoAllowed(c.terms.user, c.terms.policy, c.sub)
BY DEF CallOK, Idle

LEMMA AtParent ==
    ASSUME NEW c, CallOK(c), c.pc = "parent"
    PROVE  c \in [pc : {"parent"}, now : Nat, sub : HostSubs, tries : Nat]
BY DEF CallOK, Idle

LEMMA AtAuto ==
    ASSUME NEW c, CallOK(c), c.pc = "auto"
    PROVE  /\ c \in [pc : {"auto"}, now : Nat, sub : HostSubs, tries : Nat,
                      parent : ApprovalIds \cup {NoId}, row : Approvals \cup {NoApproval}]
           /\ c.parent # NoId => Held(c.parent, c.row)
BY DEF CallOK, Idle

LEMMA AtApprove ==
    ASSUME NEW c, CallOK(c), c.pc = "approve"
    PROVE  /\ c \in [pc : {"approve"}, now : Nat, admin : Admins, req : RequestIds,
                      choice : Choices, rows : [ApprovalIds -> Approvals \cup {NoApproval}]]
           /\ requests[c.req].state # "none"
           /\ c.choice.new => WideAutoAllowed(c.choice.terms.user, c.choice.terms.policy,
                                              requests[c.req].sub)
           /\ \A a \in AlsoRevoked(c) : Held(a, c.rows[a])
BY DEF CallOK, Idle

LEMMA AtRevoke ==
    ASSUME NEW c, CallOK(c), c.pc \in {"revoke", "expire"}
    PROVE  /\ c \in [pc : {"revoke", "expire"}, now : Nat, id : ApprovalIds, row : Approvals]
           /\ c.now <= clock
           /\ Held(c.id, c.row)
BY DEF CallOK, Idle

LEMMA AtEdit ==
    ASSUME NEW c, CallOK(c), c.pc = "edit"
    PROVE  /\ c \in [pc : {"edit"}, now : Nat, id : ApprovalIds, edit : Edits]
           /\ approvals[c.id].state # "none"
           /\ EditOk(c.id, c.edit)
BY DEF CallOK, Idle

LEMMA AtUpdate ==
    ASSUME NEW c, CallOK(c), c.pc = "update"
    PROVE  /\ c \in [pc : {"update"}, now : Nat, id : ApprovalIds, row : Approvals,
                      after : Approvals]
           /\ Held(c.id, c.row)
           /\ AfterOk(c.row, c.after)
BY DEF CallOK, Idle

-----------------------------------------------------------------------------
(* The actions: those that write no row                                    *)

Base == TypeOK /\ TablesOK /\ CallsOK /\ OneDecision /\ WideAutoProtected

Kept == TypeOK' /\ CallsOK' /\ TablesOK' /\ TableStep

LEMMA QuietGoto ==
    ASSUME Base, NEW t \in Tasks, NEW c, CallOK(c)', Goto(t, c),
           UNCHANGED <<clock, binaries, frozen, requests, approvals, revisions, generation>>
    PROVE  Kept
<1>1. TablesOK' /\ TableStep
    BY QuietStep DEF Base
<1> QED BY <1>1, GotoStep DEF Base, Kept

LEMMA QuietReturn ==
    ASSUME Base, NEW t \in Tasks, Return(t),
           UNCHANGED <<clock, binaries, frozen, requests, approvals, revisions, generation>>
    PROVE  Kept
<1>1. TablesOK' /\ TableStep
    BY QuietStep DEF Base
<1> QED BY <1>1, ReturnStep DEF Base, Kept

LEMMA BeginSubmitKept ==
    ASSUME Base, NEW t \in Tasks, NEW sub \in Submissions, BeginSubmit(t, sub)
    PROVE  Kept
<1>1. PICK c : c = [pc |-> "observe", now |-> clock, sub |-> sub]
    OBVIOUS
<1>2. Goto(t, c)
    BY <1>1 DEF BeginSubmit
<1>3. c \in [pc : {"observe", "count", "pending"}, now : Nat, sub : HostSubs]
    BY <1>1 DEF Base, TablesOK, BeginSubmit, HostSubs
<1>4. CallOK(c)'
    BY <1>3, Zenon DEF CallOK
<1> QED BY <1>2, <1>4, QuietGoto DEF BeginSubmit

LEMMA BeginRegisterKept ==
    ASSUME Base, NEW t \in Tasks, NEW sub \in Submissions, NEW terms \in Terms,
           BeginRegister(t, sub, terms)
    PROVE  Kept
<1>1. PICK c : c = [pc |-> "observe", now |-> clock, sub |-> sub, terms |-> terms]
    OBVIOUS
<1>2. Goto(t, c)
    BY <1>1 DEF BeginRegister
<1>3. /\ c \in [pc : {"observe", "pending", "register"}, now : Nat, sub : AdminSubs,
                 terms : Terms]
      /\ c.terms = terms /\ c.sub = sub
    BY <1>1 DEF Base, TablesOK, BeginRegister, AdminSubs
<1>4. WideAutoAllowed(c.terms.user, c.terms.policy, c.sub)
    BY <1>3, Zenon DEF BeginRegister
<1>5. CallOK(c)'
    BY <1>3, <1>4, Zenon DEF CallOK
<1> QED BY <1>2, <1>5, QuietGoto DEF BeginRegister

\* Where a call goes after it has observed its binary.
LEMMA ObserveKept ==
    ASSUME Base, NEW t \in Tasks, Observe(t)
    PROVE  Kept
<1>1. PICK c : c = task[t]
    OBVIOUS
<1>2. CallOK(c) /\ c.pc = "observe"
    BY <1>1 DEF Base, CallsOK, Observe
<1>3. /\ c.sub \in Submissions /\ c.now \in Nat
      /\ c.sub.lin \in Lineages /\ c.sub.sha \in Shas
    BY <1>2, AtObserve, AppLedgerAssumption DEF HostSubs, AdminSubs, Submission
<1>4. TablesOK' /\ TableStep
    <2>1. binaries' \in [Lineages -> Seq(Shas)]
        <3>1. binaries[c.sub.lin] \in Seq(Shas)
            BY <1>3 DEF Base, TablesOK
        <3>2. Append(binaries[c.sub.lin], c.sub.sha) \in Seq(Shas)
            BY <1>3, <3>1
        <3> QED BY <1>1, <3>1, <3>2 DEF Observe, Base, TablesOK
    <2> QED BY <2>1 DEF Observe, Base, TablesOK, TableStep, RowKept, RequestStep
<1>5. CASE c.sub.admin # NoAdmin
    <2>1. PICK d : d = [c EXCEPT !.pc = IF StrictSod THEN "pending" ELSE "register"]
        OBVIOUS
    <2>2. Goto(t, d)
        BY <1>1, <1>5, <2>1 DEF Observe
    <2>3. /\ c \in [pc : {"observe"}, now : Nat, sub : AdminSubs, terms : Terms]
          /\ WideAutoAllowed(c.terms.user, c.terms.policy, c.sub)
        BY <1>2, <1>5, AtObserve DEF HostSubs
    <2>4. /\ d \in [pc : {"observe", "pending", "register"}, now : Nat, sub : AdminSubs,
                     terms : Terms]
          /\ d.terms = c.terms /\ d.sub = c.sub
        BY <2>1, <2>3
    <2>5. CallOK(d)'
        BY <2>3, <2>4, Zenon DEF CallOK
    <2> QED BY <1>4, <2>2, <2>5, GotoStep DEF Base, Kept
<1>6. CASE c.sub.admin = NoAdmin /\ AutoUpdate
    <2>1. PICK d : d = [pc |-> "parent", now |-> c.now, sub |-> c.sub, tries |-> 1]
        OBVIOUS
    <2>2. Goto(t, d)
        BY <1>1, <1>6, <2>1 DEF Observe
    <2>3. d \in [pc : {"parent"}, now : Nat, sub : HostSubs, tries : Nat]
        BY <1>3, <1>6, <2>1 DEF HostSubs
    <2>4. CallOK(d)'
        BY <2>3, Zenon DEF CallOK
    <2> QED BY <1>4, <2>2, <2>4, GotoStep DEF Base, Kept
<1>7. CASE c.sub.admin = NoAdmin /\ ~ AutoUpdate
    <2>1. PICK d : d = [pc |-> "count", now |-> c.now, sub |-> c.sub]
        OBVIOUS
    <2>2. Goto(t, d)
        BY <1>1, <1>7, <2>1 DEF Observe
    <2>3. d \in [pc : {"observe", "count", "pending"}, now : Nat, sub : HostSubs]
        BY <1>3, <1>7, <2>1 DEF HostSubs
    <2>4. CallOK(d)'
        BY <2>3, Zenon DEF CallOK
    <2> QED BY <1>4, <2>2, <2>4, GotoStep DEF Base, Kept
<1> QED BY <1>5, <1>6, <1>7

LEMMA ReadParentKept ==
    ASSUME Base, NEW t \in Tasks, ReadParent(t)
    PROVE  Kept
<1>1. PICK c : c = task[t]
    OBVIOUS
<1>2. c \in [pc : {"parent"}, now : Nat, sub : HostSubs, tries : Nat]
    BY <1>1, AtParent DEF Base, CallsOK, ReadParent
<1>3. CASE \E a \in ApprovalIds :
             /\ IsAutoParent(a, c.sub.lin, c.now)
             /\ Goto(t, [pc |-> "auto", now |-> c.now, sub |-> c.sub, tries |-> c.tries,
                         parent |-> a, row |-> approvals[a]])
    <2>1. PICK a \in ApprovalIds :
             /\ IsAutoParent(a, c.sub.lin, c.now)
             /\ Goto(t, [pc |-> "auto", now |-> c.now, sub |-> c.sub, tries |-> c.tries,
                         parent |-> a, row |-> approvals[a]])
        BY <1>3
    <2>2. PICK x : x = approvals[a]
        OBVIOUS
    <2>3. PICK d : d = [pc |-> "auto", now |-> c.now, sub |-> c.sub, tries |-> c.tries,
                        parent |-> a, row |-> x]
        OBVIOUS
    <2>4. approvals[a].state # "none" /\ approvals[a] \in Approvals
        BY <2>1, RowTyped DEF IsAutoParent, AutoParents, Active, Base
    <2>5. Held(a, x)'
        BY <2>2, <2>4 DEF ReadParent, Held, SameApproval, Alike, Approvals
    <2>6. /\ d \in [pc : {"auto"}, now : Nat, sub : HostSubs, tries : Nat,
                 parent : ApprovalIds \cup {NoId}, row : Approvals \cup {NoApproval}]
          /\ d.parent = a /\ d.row = x
        BY <1>2, <2>2, <2>3, <2>4
    <2>7. CallOK(d)'
        BY <2>5, <2>6, Zenon DEF CallOK
    <2> QED BY <2>1, <2>2, <2>3, <2>7, QuietGoto DEF ReadParent
<1>4. CASE Goto(t, [pc |-> "auto", now |-> c.now, sub |-> c.sub, tries |-> c.tries,
                    parent |-> NoId, row |-> NoApproval])
    <2>1. PICK d : d = [pc |-> "auto", now |-> c.now, sub |-> c.sub, tries |-> c.tries,
                        parent |-> NoId, row |-> NoApproval]
        OBVIOUS
    <2>2. /\ d \in [pc : {"auto"}, now : Nat, sub : HostSubs, tries : Nat,
                 parent : ApprovalIds \cup {NoId}, row : Approvals \cup {NoApproval}]
          /\ d.parent = NoId
        BY <1>2, <2>1
    <2>3. CallOK(d)'
        BY <2>2, Zenon DEF CallOK
    <2> QED BY <1>4, <2>1, <2>3, QuietGoto DEF ReadParent
<1> QED BY <1>1, <1>3, <1>4 DEF ReadParent

LEMMA CountPendingKept ==
    ASSUME Base, NEW t \in Tasks, CountPending(t)
    PROVE  Kept
<1>1. PICK c : c = task[t]
    OBVIOUS
<1>2. c \in [pc : {"count"}, now : Nat, sub : HostSubs]
    BY <1>1, AtCount DEF Base, CallsOK, CountPending
<1>3. CASE Return(t)
    BY <1>3, QuietReturn DEF CountPending
<1>4. CASE Goto(t, [c EXCEPT !.pc = "pending"])
    <2>1. PICK d : d = [c EXCEPT !.pc = "pending"]
        OBVIOUS
    <2>2. d \in [pc : {"observe", "count", "pending"}, now : Nat, sub : HostSubs]
        BY <1>2, <2>1
    <2>3. CallOK(d)'
        BY <2>2, Zenon DEF CallOK
    <2> QED BY <1>4, <2>1, <2>3, QuietGoto DEF CountPending
<1> QED BY <1>1, <1>3, <1>4 DEF CountPending

LEMMA HeldAsRead ==
    ASSUME TablesOK, UNCHANGED approvals, NEW a \in ApprovalIds, approvals[a].state # "none",
           NEW x, x = approvals[a]
    PROVE  Held(a, x)' /\ x \in Approvals
BY RowTyped DEF Held, SameApproval, Alike, Approvals

LEMMA BeginApproveKept ==
    ASSUME Base, NEW t \in Tasks, NEW admin \in Admins, NEW r \in RequestIds,
           NEW choice \in Choices, NEW ids \in SUBSET ApprovalIds,
           BeginApprove(t, admin, r, choice, ids)
    PROVE  Kept
<1>1. PICK rows : rows = [a \in ApprovalIds |-> IF a \in ids THEN approvals[a] ELSE NoApproval]
    OBVIOUS
<1>2. PICK c : c = [pc |-> "approve", now |-> clock, admin |-> admin, req |-> r,
                    choice |-> choice, rows |-> rows]
    OBVIOUS
<1>3. Goto(t, c)
    BY <1>1, <1>2 DEF BeginApprove
<1>4. /\ c.req = r /\ c.choice = choice /\ c.rows = rows
      /\ c \in [pc : {"approve"}, now : Nat, admin : Admins, req : RequestIds,
                 choice : Choices, rows : [ApprovalIds -> Approvals \cup {NoApproval}]]
    <2>1. rows \in [ApprovalIds -> Approvals \cup {NoApproval}] /\ clock \in Nat
        BY <1>1 DEF Base, TablesOK
    <2> QED BY <2>1, <1>2
<1>5. requests'[c.req].state # "none" /\ requests'[c.req].sub = requests[c.req].sub
    BY <1>4 DEF BeginApprove, Pending
<1>6. c.choice.new => WideAutoAllowed(c.choice.terms.user, c.choice.terms.policy,
                                      requests[c.req].sub)
    BY <1>4, Zenon DEF BeginApprove
<1>7. (\A a \in AlsoRevoked(c) : Held(a, c.rows[a]))'
    <2> SUFFICES ASSUME NEW a \in AlsoRevoked(c)
                 PROVE  Held(a, c.rows[a])'
        BY DEF AlsoRevoked
    <2>1. a \in ApprovalIds /\ a \in ids /\ c.rows[a] = approvals[a]
        BY <1>1, <1>4 DEF AlsoRevoked
    <2>2. approvals[a].state # "none"
        BY <2>1 DEF BeginApprove, Revocable
    <2>3. PICK x : x = c.rows[a]
        OBVIOUS
    <2>4. Held(a, x)'
        BY <2>1, <2>2, <2>3, HeldAsRead DEF Base, BeginApprove
    <2> QED BY <2>3, <2>4
<1>8. CallOK(c)'
    BY <1>4, <1>5, <1>6, <1>7, Zenon DEF CallOK
<1> QED BY <1>3, <1>8, QuietGoto DEF BeginApprove

\* A call that reads an approval and will revoke or expire it.
LEMMA ReadKept ==
    ASSUME Base, NEW t \in Tasks, NEW a \in ApprovalIds, NEW pc \in {"revoke", "expire"},
           approvals[a].state # "none",
           Goto(t, [pc |-> pc, now |-> clock, id |-> a, row |-> approvals[a]]),
           UNCHANGED <<clock, binaries, frozen, requests, approvals, revisions, generation>>
    PROVE  Kept
<1>1. PICK x : x = approvals[a]
    OBVIOUS
<1>2. PICK c : c = [pc |-> pc, now |-> clock, id |-> a, row |-> x]
    OBVIOUS
<1>3. Held(a, x)' /\ x \in Approvals
    BY <1>1, HeldAsRead DEF Base
<1>4. /\ c \in [pc : {"revoke", "expire"}, now : Nat, id : ApprovalIds, row : Approvals]
      /\ c.id = a /\ c.row = x /\ c.now <= clock'
    BY <1>2, <1>3 DEF Base, TablesOK
<1>5. CallOK(c)'
    BY <1>3, <1>4, Zenon DEF CallOK
<1> QED BY <1>1, <1>2, <1>5, QuietGoto

LEMMA BeginRevokeKept ==
    ASSUME Base, NEW t \in Tasks, NEW a \in ApprovalIds, BeginRevoke(t, a)
    PROVE  Kept
BY ReadKept DEF BeginRevoke, Revocable

LEMMA BeginExpireKept ==
    ASSUME Base, NEW t \in Tasks, NEW a \in ApprovalIds, BeginExpire(t, a)
    PROVE  Kept
BY ReadKept DEF BeginExpire

LEMMA BeginUpdateKept ==
    ASSUME Base, NEW t \in Tasks, NEW a \in ApprovalIds, NEW e \in Edits, BeginUpdate(t, a, e)
    PROVE  Kept
<1>1. PICK c : c = [pc |-> "edit", now |-> clock, id |-> a, edit |-> e]
    OBVIOUS
<1>2. /\ c \in [pc : {"edit"}, now : Nat, id : ApprovalIds, edit : Edits]
      /\ c.id = a /\ c.edit = e
    BY <1>1 DEF Base, TablesOK
<1>3. approvals'[a].state # "none"
    BY DEF BeginUpdate
<1>4. EditOk(a, e)'
    <2>1. EditOk(a, e)
        BY DEF EditOk, BeginUpdate, WideAutoAllowed, Keep
    <2>2. approvals' = approvals /\ requests' = requests
        BY DEF BeginUpdate
    <2> QED BY <2>1, <2>2, Zenon DEF EditOk
<1>5. CallOK(c)'
    BY <1>2, <1>3, <1>4, Zenon DEF CallOK
<1> QED BY <1>1, <1>5, QuietGoto DEF BeginUpdate

LEMMA VersionTyped ==
    ASSUME NEW x \in Approvals
    PROVE  [x EXCEPT !.version = @ + 1] \in Approvals
BY DEF Approvals

\* What an edit makes of the row it reads.
LEMMA EditedOk ==
    ASSUME Base, NEW a \in ApprovalIds, approvals[a].state # "none",
           approvals[a].state # "revoked", NEW e \in Edits, EditOk(a, e), NEW now \in Nat
    PROVE  AfterOk(approvals[a], [Edited(approvals[a], e, now) EXCEPT !.version = @ + 1])
<1> DEFINE x == approvals[a]
           y == [Edited(x, e, now) EXCEPT !.version = @ + 1]
           sub == requests[x.source].sub
<1>1. x \in Approvals
    BY RowTyped DEF Base
<1>2. sub \in Submissions /\ sub.user \in Users
    <2>1. requests[x.source].state # "none" /\ x.source \in RequestIds
        BY <1>1 DEF Base, OneDecision, Approvals
    <2> QED BY <2>1, RequestTyped, AppLedgerAssumption DEF Base, Requests, Submission
<1>3. e \in Edit
    BY AppLedgerAssumption
<1>4. /\ y.lin = x.lin /\ y.sha = x.sha /\ y.source = x.source /\ y.origin = x.origin
      /\ y.parent = x.parent /\ y.created = x.created /\ y.superseded = x.superseded
      /\ y.version = x.version + 1
      /\ y.policy = IF e.policy = Keep THEN x.policy ELSE e.policy
      /\ y.continuity = IF e.continuity = Keep THEN x.continuity ELSE e.continuity
      /\ y.expires = IF e.ttl = KeepExpiry THEN x.expires ELSE Expiry(now, e.ttl)
      /\ y.user = IF e.narrowUser /\ x.user = AnyUser THEN sub.user ELSE x.user
      /\ y.path = IF e.narrowPath THEN "exact" ELSE x.path
      /\ y.state = IF x.state = "expired" /\ e.ttl # KeepExpiry THEN "active" ELSE x.state
    BY <1>1 DEF Edited, Approvals
<1>5. y \in Approvals
    <2>1. /\ y.policy \in {"manual", "auto"} /\ y.continuity \in {"anchored", "path_user"}
          /\ y.expires \in Nat
        BY <1>1, <1>3, <1>4 DEF Approvals, Edit, Keep, KeepExpiry, Expiry, Never
    <2>2. /\ y.user \in Users \cup {AnyUser} /\ y.path \in {"exact", "any"}
          /\ y.state \in {"active", "expired", "revoked"}
        BY <1>1, <1>2, <1>4 DEF Approvals
    <2>3. Edited(x, e, now) \in Approvals
        <3> DEFINE z == Edited(x, e, now)
        <3>1. /\ z.policy = y.policy /\ z.continuity = y.continuity /\ z.expires = y.expires
              /\ z.user = y.user /\ z.path = y.path /\ z.state = y.state
            BY <1>1 DEF Edited, Approvals
        <3>2. z = [x EXCEPT !.policy = z.policy, !.continuity = z.continuity,
                            !.expires = z.expires, !.user = z.user, !.path = z.path,
                            !.state = z.state]
            BY <1>1 DEF Edited, Approvals
        <3>3. /\ z.policy \in {"manual", "auto"} /\ z.continuity \in {"anchored", "path_user"}
              /\ z.expires \in Nat /\ z.user \in Users \cup {AnyUser}
              /\ z.path \in {"exact", "any"} /\ z.state \in {"active", "expired", "revoked"}
            BY <2>1, <2>2, <3>1, Zenon
        <3> HIDE DEF x, y, z
        <3>4. [x EXCEPT !.policy = z.policy, !.continuity = z.continuity,
                        !.expires = z.expires, !.user = z.user, !.path = z.path,
                        !.state = z.state] \in Approvals
            BY <1>1, <3>3 DEF Approvals
        <3>5. z \in Approvals
            BY <3>2, <3>4, Zenon
        <3> QED BY <3>5 DEF z
    <2> QED BY <2>3, VersionTyped
<1>6. y.user = AnyUser => x.user = AnyUser /\ ~ e.narrowUser
    BY <1>2, <1>4, AppLedgerAssumption
<1>7. Wide(y) => sub.protected
    <2> SUFFICES ASSUME Wide(y) PROVE sub.protected
        OBVIOUS
    <2>1. x.user = AnyUser /\ ~ e.narrowUser /\ y.policy = "auto"
        BY <1>6 DEF Wide
    <2>2. CASE e.policy = "auto"
        BY <2>1, <2>2, Zenon DEF EditOk
    <2>3. CASE e.policy # "auto"
        <3>1. x.policy = "auto"
            BY <2>1, <2>3, <1>4
        <3> QED BY <2>1, <3>1, Zenon DEF Base, WideAutoProtected
    <2> QED BY <2>2, <2>3
<1> HIDE DEF y
<1>8. AfterOk(x, y)
    <2>1. /\ SameApproval(x, y) /\ y.version = x.version + 1
          /\ y.state = x.state \/ y.state = "active"
        BY <1>4 DEF SameApproval
    <2> QED BY <2>1, <1>5, <1>6, <1>7, Zenon DEF AfterOk
<1> QED BY <1>8 DEF y

LEMMA ReadForUpdateKept ==
    ASSUME Base, NEW t \in Tasks, ReadForUpdate(t)
    PROVE  Kept
<1>1. PICK c : c = task[t]
    OBVIOUS
<1>2. /\ c \in [pc : {"edit"}, now : Nat, id : ApprovalIds, edit : Edits]
      /\ approvals[c.id].state # "none"
      /\ EditOk(c.id, c.edit)
    BY <1>1, AtEdit DEF Base, CallsOK, ReadForUpdate
<1>3. CASE Return(t)
    BY <1>3, QuietReturn DEF ReadForUpdate
<1>4. CASE /\ approvals[c.id].state # "revoked"
           /\ Goto(t, [pc |-> "update", now |-> c.now, id |-> c.id, row |-> approvals[c.id],
                       after |-> [Edited(approvals[c.id], c.edit, c.now)
                                     EXCEPT !.version = @ + 1]])
    <2>1. PICK x : x = approvals[c.id]
        OBVIOUS
    <2>2. PICK y : y = [Edited(x, c.edit, c.now) EXCEPT !.version = @ + 1]
        OBVIOUS
    <2>3. PICK d : d = [pc |-> "update", now |-> c.now, id |-> c.id, row |-> x, after |-> y]
        OBVIOUS
    <2>4. Goto(t, d)
        BY <1>4, <2>1, <2>2, <2>3
    <2>5. Held(c.id, x)' /\ x \in Approvals
        BY <1>2, <2>1, HeldAsRead DEF Base, ReadForUpdate
    <2>6. AfterOk(x, y)
        BY <1>2, <1>4, <2>1, <2>2, EditedOk
    <2>7. AfterOk(x, y)'
        BY <2>6, Zenon DEF AfterOk, ReadForUpdate
    <2>8. /\ d \in [pc : {"update"}, now : Nat, id : ApprovalIds, row : Approvals,
                     after : Approvals]
          /\ d.id = c.id /\ d.row = x /\ d.after = y
        BY <1>2, <2>3, <2>5, <2>6 DEF AfterOk
    <2>9. CallOK(d)'
        BY <2>5, <2>7, <2>8, Zenon DEF CallOK
    <2> QED BY <2>4, <2>9, QuietGoto DEF ReadForUpdate
<1> QED BY <1>1, <1>3, <1>4 DEF ReadForUpdate

LEMMA TickKept ==
    ASSUME Base, Tick
    PROVE  Kept
<1>1. TablesOK' /\ TableStep
    BY DEF Base, Tick, TablesOK, TableStep, RowKept, RequestStep
<1> QED BY <1>1, TasksKept DEF Base, Kept, Tick

LEMMA SetFrozenKept ==
    ASSUME Base, NEW lin \in Lineages, SetFrozen(lin)
    PROVE  Kept
<1>1. TablesOK' /\ TableStep
    BY DEF Base, SetFrozen, TablesOK, TableStep, RowKept, RequestStep
<1> QED BY <1>1, TasksKept DEF Base, Kept, SetFrozen

-----------------------------------------------------------------------------
(* The actions: those that write requests only                             *)

LEMMA DecideTyped ==
    ASSUME NEW x \in Requests, NEW s \in RequestStates, NEW d \in Nat
    PROVE  [x EXCEPT !.state = s, !.decided = d] \in Requests
BY DEF Requests

LEMMA DecideKept ==
    ASSUME Base, NEW r \in Pending, NEW s \in RequestStates,
           requests' = [requests EXCEPT ![r].state = s, ![r].decided = clock],
           UNCHANGED <<clock, binaries, frozen, approvals, revisions, generation, task>>
    PROVE  Kept
<1>1. r \in RequestIds /\ requests[r].state = "pending" /\ requests[r] \in Requests
    BY RequestTyped DEF Base, Pending
<1>2. [requests[r] EXCEPT !.state = s, !.decided = clock] \in Requests
    BY <1>1, DecideTyped DEF Base, TablesOK
<1>3. requests' = [requests EXCEPT ![r] = [requests[r] EXCEPT !.state = s, !.decided = clock]]
    BY <1>1 DEF Base, TablesOK
<1>4. TablesOK'
    BY <1>1, <1>2, <1>3 DEF Base, TablesOK
<1>5. requests'[r].sub = requests[r].sub /\ requests'[r].state # "none"
    BY <1>1, <1>3 DEF Base, TablesOK, Requests, RequestStates
<1>6. TableStep
    BY <1>1, <1>3, <1>5 DEF Base, TablesOK, TableStep, RowKept, RequestStep
<1> QED BY <1>4, <1>6, TasksKept DEF Base, Kept

LEMMA DenyKept ==
    ASSUME Base, NEW admin \in Admins, NEW r \in RequestIds, Deny(admin, r)
    PROVE  Kept
BY DecideKept DEF Deny, RequestStates

LEMMA ExpireRequestKept ==
    ASSUME Base, NEW r \in RequestIds, ExpireRequest(r)
    PROVE  Kept
BY DecideKept DEF ExpireRequest, RequestStates

LEMMA NewRequestTyped ==
    ASSUME NEW sub \in Submissions, NEW s \in RequestStates, NEW now \in Nat, NEW d \in Nat,
           NEW a \in ApprovalIds \cup {NoId}
    PROVE  /\ NewRequest(sub, s, now, d, a) \in Requests
           /\ NewRequest(sub, s, now, d, a).sub = sub
           /\ NewRequest(sub, s, now, d, a).state = s
           /\ NewRequest(sub, s, now, d, a).approval = a
BY AppLedgerAssumption DEF NewRequest, Requests

LEMMA SubmitPendingKept ==
    ASSUME Base, NEW t \in Tasks, SubmitPending(t)
    PROVE  Kept
<1>1. PICK c : c = task[t]
    OBVIOUS
<1>2. c.now \in Nat /\ c.sub \in Submissions
    BY <1>1, AtPending DEF Base, CallsOK, SubmitPending
<1>3. CASE Refuse(t)
    BY <1>3, QuietReturn DEF Refuse, SubmitPending
<1>4. CASE /\ \E r \in RequestIds \ Recorded :
                 requests' = [requests EXCEPT ![r] = NewRequest(c.sub, "pending", c.now, 0, NoId)]
           /\ Return(t)
           /\ UNCHANGED <<approvals, revisions, generation>>
    <2>1. PICK r \in RequestIds \ Recorded :
                 requests' = [requests EXCEPT ![r] = NewRequest(c.sub, "pending", c.now, 0, NoId)]
        BY <1>4
    <2>2. NewRequest(c.sub, "pending", c.now, 0, NoId) \in Requests
        BY <1>2, NewRequestTyped DEF RequestStates
    <2>3. UNCHANGED <<clock, binaries, frozen>>
        BY DEF SubmitPending
    <2>4. TablesOK'
        BY <1>4, <2>1, <2>2, <2>3 DEF Base, TablesOK
    <2>5. requests[r].state = "none"
        BY <2>1 DEF Recorded
    <2>6. TableStep
        BY <1>4, <2>1, <2>3, <2>5 DEF Base, TablesOK, TableStep, RowKept, RequestStep
    <2> QED BY <1>4, <2>4, <2>6, ReturnStep DEF Base, Kept
<1> QED BY <1>1, <1>3, <1>4 DEF SubmitPending

-----------------------------------------------------------------------------
(* The actions: those that write approvals                                 *)

\* The generation moves forward and keeps pace with the clock.
LEMMA BumpedUp ==
    ASSUME TablesOK, NEW now \in Nat
    PROVE  Bumped(now) \in Nat /\ Bumped(now) > generation
BY DEF TablesOK, Bumped, Larger

LEMMA MarkTyped ==
    ASSUME NEW x \in Approvals, NEW s \in ApprovalIds \cup {NoId}
    PROVE  [x EXCEPT !.superseded = s] \in Approvals /\ Alike(x, [x EXCEPT !.superseded = s])
BY DEF Approvals, Alike

LEMMA WriteStep ==
    ASSUME Base, NEW a \in ApprovalIds, NEW row, NEW after, Held(a, row),
           approvals[a].version = row.version, approvals[a].state \in {"active", "expired"},
           after \in Approvals, SameApproval(row, after), after.version = row.version + 1,
           after.user = AnyUser => row.user = AnyUser,
           Wide(after) => requests[row.source].sub.protected,
           row.state = "active" /\ after.state = "expired" =>
               row.expires # Never /\ row.expires <= clock,
           Write(a, row, after), generation' \in Nat, UNCHANGED <<clock, binaries, frozen>>
    PROVE  TablesOK' /\ TableStep
<1>1. /\ approvals[a] \in Approvals /\ row \in Approvals /\ Alike(row, approvals[a])
    BY RowTyped DEF Base, Held
<1>2. PICK n : n = [after EXCEPT !.superseded = approvals[a].superseded]
    OBVIOUS
<1>3. n \in Approvals /\ Alike(after, n)
    BY <1>1, <1>2, MarkTyped DEF Approvals
<1>4. approvals'[a] = n /\ \A b \in ApprovalIds \ {a} : approvals'[b] = approvals[b]
    BY <1>2 DEF Write, Base, TablesOK
<1>5. approvals' \in [ApprovalIds -> Approvals \cup {NoApproval}]
    BY <1>2, <1>3 DEF Write, Base, TablesOK
<1>6. Change(row, after) = Change(approvals[a], n)
    BY <1>1, <1>3, AlikeSnapshot DEF Change
<1>7. /\ revisions'[a] = Append(revisions[a], Change(approvals[a], n))
      /\ \A b \in ApprovalIds \ {a} : revisions'[b] = revisions[b]
    BY <1>6 DEF Write, Base, TablesOK
<1>8. revisions' \in [ApprovalIds -> Seq(Snapshots \X Snapshots)]
    <2>1. Change(row, after) \in Snapshots \X Snapshots
        BY <1>1, SnapshotTyped DEF Change
    <2>2. revisions[a] \in Seq(Snapshots \X Snapshots)
        BY DEF Base, TablesOK
    <2>3. Append(revisions[a], Change(row, after)) \in Seq(Snapshots \X Snapshots)
        BY <2>1, <2>2
    <2> QED BY <2>3 DEF Write, Base, TablesOK
<1>9. TablesOK'
    BY <1>5, <1>8 DEF Base, TablesOK, Write
<1>10. RowChanged(a)
    <2>0. n.state # "none"
        BY <1>3 DEF Approvals
    <2>1. /\ SameApproval(approvals[a], n) /\ n.version = approvals[a].version + 1
          /\ n.user = AnyUser => approvals[a].user = AnyUser
        BY <1>1, <1>3, Zenon DEF Alike, SameApproval
    <2>3. approvals[a].state = "active" /\ n.state = "expired" =>
                approvals[a].expires # Never /\ approvals[a].expires <= clock
        BY <1>1, <1>3, Zenon DEF Alike
    <2>2. Wide(n) => requests[approvals[a].source].sub.protected
        BY <1>1, <1>3 DEF Alike, Wide
    <2> QED BY <1>4, <1>7, <2>0, <2>1, <2>2, <2>3 DEF RowChanged
<1>11. TableStep
    BY <1>4, <1>7, <1>10 DEF TableStep, RowKept, RequestStep, Base, TablesOK, Write
<1> QED BY <1>9, <1>11

LEMMA EndedTyped ==
    ASSUME NEW x \in Approvals, NEW s \in {"expired", "revoked"}
    PROVE  LET y == [x EXCEPT !.state = s, !.version = @ + 1] IN
           /\ y \in Approvals /\ SameApproval(x, y)
           /\ y.version = x.version + 1 /\ y.state = s
           /\ y.user = x.user /\ y.policy = x.policy
<1> DEFINE y == [x EXCEPT !.state = s, !.version = @ + 1]
<1>1. PICK v \in Nat : v = x.version + 1
    BY DEF Approvals
<1>2. y = [x EXCEPT !.state = s, !.version = v]
    BY <1>1
<1>3. [x EXCEPT !.state = s, !.version = v] \in Approvals
    BY DEF Approvals
<1>4. SameApproval(x, y) /\ y.state = s /\ y.user = x.user /\ y.policy = x.policy
    BY DEF Approvals, SameApproval
<1>5. y.version = v
    BY <1>2 DEF Approvals
<1> QED BY <1>1, <1>2, <1>3, <1>4, <1>5

LEMMA RevokedTyped ==
    ASSUME NEW x \in Approvals
    PROVE  /\ Revoked(x) \in Approvals /\ SameApproval(x, Revoked(x))
           /\ Revoked(x).version = x.version + 1 /\ Revoked(x).state = "revoked"
           /\ Revoked(x).user = x.user /\ Revoked(x).policy = x.policy
BY EndedTyped DEF Revoked

\* A row in force that a call holds: its source has been recorded, and a
\* wide one was asked for on a protected path.
LEMMA HeldProtected ==
    ASSUME Base, NEW a \in ApprovalIds, NEW row, Held(a, row),
           row.version = approvals[a].version, Wide(row)
    PROVE  requests[row.source].sub.protected
<1>1. approvals[a].state # "none" /\ Alike(row, approvals[a])
    BY DEF Held
<1>2. Wide(approvals[a]) /\ row.source = approvals[a].source
    BY <1>1, Zenon DEF Alike, Wide
<1>3. requests[approvals[a].source].sub.protected
    BY <1>1, <1>2, Zenon DEF Base, WideAutoProtected, Wide
<1> QED BY <1>2, <1>3, Zenon

LEMMA RevokeKept ==
    ASSUME Base, NEW t \in Tasks, Revoke(t)
    PROVE  Kept
<1>1. PICK c : c = task[t]
    OBVIOUS
<1>2. /\ c \in [pc : {"revoke", "expire"}, now : Nat, id : ApprovalIds, row : Approvals]
      /\ Held(c.id, c.row)
    BY <1>1, AtRevoke DEF Base, CallsOK, Revoke
<1>3. CASE Refuse(t)
    BY <1>3, QuietReturn DEF Refuse, Revoke
<1>4. CASE /\ RevokeOk(c.id, c.row)
           /\ Write(c.id, c.row, Revoked(c.row))
           /\ generation' = Bumped(c.now)
           /\ Return(t)
    <2>1. PICK y : y = Revoked(c.row)
        OBVIOUS
    <2>2. /\ y \in Approvals /\ SameApproval(c.row, y)
          /\ y.version = c.row.version + 1 /\ y.state = "revoked"
          /\ y.user = c.row.user /\ y.policy = c.row.policy
        BY <1>2, <2>1, RevokedTyped
    <2>3. approvals[c.id].version = c.row.version /\ approvals[c.id].state \in {"active", "expired"}
        BY <1>4 DEF RevokeOk, Revocable
    <2>4. Wide(y) => requests[c.row.source].sub.protected
        BY <1>2, <2>2, <2>3, HeldProtected DEF Wide
    <2>5. generation' \in Nat
        BY <1>2, <1>4, BumpedUp DEF Base
    <2>6. UNCHANGED <<clock, binaries, frozen>>
        BY DEF Revoke
    <2>7. TablesOK' /\ TableStep
        BY <1>2, <1>4, <2>1, <2>2, <2>3, <2>4, <2>5, <2>6, WriteStep
    <2> QED BY <1>4, <2>7, ReturnStep DEF Base, Kept
<1> QED BY <1>1, <1>3, <1>4 DEF Revoke

LEMMA ExpireApprovalKept ==
    ASSUME Base, NEW t \in Tasks, ExpireApproval(t)
    PROVE  Kept
<1>1. PICK c : c = task[t]
    OBVIOUS
<1>2. /\ c \in [pc : {"revoke", "expire"}, now : Nat, id : ApprovalIds, row : Approvals]
      /\ c.now <= clock /\ Held(c.id, c.row)
    BY <1>1, AtRevoke DEF Base, CallsOK, ExpireApproval
<1>3. CASE Refuse(t)
    BY <1>3, QuietReturn DEF Refuse, ExpireApproval
<1>4. CASE /\ ExpireOk(c)
           /\ Write(c.id, c.row, [c.row EXCEPT !.state = "expired", !.version = @ + 1])
           /\ generation' = Bumped(c.now)
           /\ Return(t)
    <2>1. PICK y : y = [c.row EXCEPT !.state = "expired", !.version = @ + 1]
        OBVIOUS
    <2>2. /\ y \in Approvals /\ SameApproval(c.row, y)
          /\ y.version = c.row.version + 1
          /\ y.user = c.row.user /\ y.policy = c.row.policy
        BY <1>2, <2>1, EndedTyped
    <2>3. approvals[c.id].version = c.row.version /\ approvals[c.id].state \in {"active", "expired"}
        BY <1>4 DEF ExpireOk
    <2>4. Wide(y) => requests[c.row.source].sub.protected
        BY <1>2, <2>2, <2>3, HeldProtected DEF Wide
    <2>5. c.row.expires # Never /\ c.row.expires <= clock
        <3>1. c.row.expires = approvals[c.id].expires
            BY <1>2, <2>3 DEF Held, Alike
        <3>2. c.row.expires \in Nat /\ clock \in Nat /\ c.now \in Nat
            BY <1>2 DEF Base, TablesOK, Approvals
        <3> QED BY <1>2, <1>4, <3>1, <3>2 DEF ExpireOk, Unexpired
    <2>6. generation' \in Nat
        BY <1>2, <1>4, BumpedUp DEF Base
    <2>7. UNCHANGED <<clock, binaries, frozen>>
        BY DEF ExpireApproval
    <2>8. TablesOK' /\ TableStep
        BY <1>2, <1>4, <2>1, <2>2, <2>3, <2>4, <2>5, <2>6, <2>7, WriteStep
    <2> QED BY <1>4, <2>8, ReturnStep DEF Base, Kept
<1> QED BY <1>1, <1>3, <1>4 DEF ExpireApproval

LEMMA UpdateApprovalKept ==
    ASSUME Base, NEW t \in Tasks, UpdateApproval(t)
    PROVE  Kept
<1>1. PICK c : c = task[t]
    OBVIOUS
<1>2. /\ c \in [pc : {"update"}, now : Nat, id : ApprovalIds, row : Approvals, after : Approvals]
      /\ Held(c.id, c.row) /\ AfterOk(c.row, c.after)
    BY <1>1, AtUpdate DEF Base, CallsOK, UpdateApproval
<1>3. CASE Refuse(t)
    BY <1>3, QuietReturn DEF Refuse, UpdateApproval
<1>4. CASE /\ UpdateOk(c)
           /\ Write(c.id, c.row, c.after)
           /\ generation' = IF ChangesCompiledEntry(c.row, c.after)
                            THEN Bumped(c.now) ELSE generation
           /\ Return(t)
    <2>1. /\ SameApproval(c.row, c.after) /\ c.after.version = c.row.version + 1
          /\ c.after.user = AnyUser => c.row.user = AnyUser
          /\ Wide(c.after) => requests[c.row.source].sub.protected
          /\ ~ (c.row.state = "active" /\ c.after.state = "expired")
        BY <1>2 DEF AfterOk
    <2>2. approvals[c.id].version = c.row.version /\ approvals[c.id].state \in {"active", "expired"}
        BY <1>4 DEF UpdateOk, Revocable
    <2>3. generation' \in Nat
        BY <1>2, <1>4, BumpedUp DEF Base, TablesOK
    <2>4. UNCHANGED <<clock, binaries, frozen>>
        BY DEF UpdateApproval
    <2>5. TablesOK' /\ TableStep
        BY <1>2, <1>4, <2>1, <2>2, <2>3, <2>4, WriteStep
    <2> QED BY <1>4, <2>5, ReturnStep DEF Base, Kept
<1> QED BY <1>1, <1>3, <1>4 DEF UpdateApproval

LEMMA ApprovalForTyped ==
    ASSUME NEW sub \in Submissions, NEW r \in RequestIds, NEW terms \in Terms, NEW now \in Nat,
           NEW n, n = ApprovalFor(sub, r, terms, now)
    PROVE  /\ n \in Approvals /\ n.state = "active" /\ n.version = 1 /\ n.source = r
           /\ n.origin = "manual"
           /\ Wide(n) => terms.user = "any" /\ terms.policy = "auto"
<1>1. /\ sub \in Submission /\ terms \in Term /\ AnyUser \notin Users
    BY AppLedgerAssumption
<1>2. Expiry(now, terms.ttl) \in Nat
    BY <1>1 DEF Expiry, Never, Term
<1>3. (IF terms.user = "any" THEN AnyUser ELSE sub.user) \in Users \cup {AnyUser}
    BY <1>1 DEF Submission
<1>4. n \in Approvals
    BY <1>1, <1>2, <1>3 DEF ApprovalFor, Approvals, Submission, Term
<1>5. /\ n.state = "active" /\ n.version = 1 /\ n.source = r /\ n.origin = "manual"
      /\ n.user = IF terms.user = "any" THEN AnyUser ELSE sub.user
      /\ n.policy = terms.policy
    BY DEF ApprovalFor
<1>6. Wide(n) => terms.user = "any" /\ terms.policy = "auto"
    BY <1>1, <1>5 DEF Wide, Submission
<1> QED BY <1>4, <1>5, <1>6

\* The mark of a newer approval is all that superseding changes.
LEMMA SupersededAlike ==
    ASSUME TablesOK, NEW x \in ApprovalIds, NEW a \in ApprovalIds, NEW n,
           NEW y, y = Superseded(approvals[x], a, n)
    PROVE  /\ y \in Approvals \cup {NoApproval}
           /\ approvals[x] \in Approvals => y \in Approvals
           /\ y = approvals[x] \/ (approvals[x].state = "active" /\ Alike(approvals[x], y))
<1>1. CASE y = approvals[x]
    BY <1>1 DEF TablesOK
<1>2. CASE approvals[x].state = "active" /\ y = [approvals[x] EXCEPT !.superseded = a]
    <2>1. approvals[x] \in Approvals
        BY <1>2, RowTyped
    <2> QED BY <1>2, <2>1, MarkTyped
<1> QED BY <1>1, <1>2 DEF Superseded

LEMMA CreatedTyped ==
    ASSUME NEW x \in Approvals
    PROVE  <<Created(x)>> \in Seq(Snapshots \X Snapshots)
<1>1. Created(x) \in Snapshots \X Snapshots
    BY SnapshotTyped DEF Created
<1> QED BY <1>1

LEMMA RegisterKept ==
    ASSUME Base, NEW t \in Tasks, RegisterAndApprove(t)
    PROVE  Kept
<1>1. PICK c : c = task[t]
    OBVIOUS
<1>2. /\ c \in [pc : {"register"}, now : Nat, sub : AdminSubs, terms : Terms]
      /\ WideAutoAllowed(c.terms.user, c.terms.policy, c.sub)
    BY <1>1, AtRegister DEF Base, CallsOK, RegisterAndApprove
<1>3. UNCHANGED <<clock, binaries, frozen>>
    BY DEF RegisterAndApprove
<1>4. CASE Refuse(t)
    BY <1>3, <1>4, QuietReturn DEF Refuse
<1>5. ASSUME NEW r \in RequestIds \ Recorded, NEW a \in ApprovalIds, NEW n,
             n = ApprovalFor(c.sub, r, c.terms, c.now),
             approvals[a].state = "none",
             approvals' = [x \in ApprovalIds |->
                              IF x = a THEN n ELSE Superseded(approvals[x], a, n)],
             revisions' = [revisions EXCEPT ![a] = <<Created(n)>>],
             requests' = [requests EXCEPT ![r] =
                             NewRequest(c.sub, "approved", c.now, c.now, a)],
             generation' = Bumped(c.now), Return(t)
      PROVE  Kept
    <2>1. /\ c.sub \in Submissions /\ c.terms \in Terms /\ c.now \in Nat
          /\ r \in RequestIds /\ requests[r].state = "none"
        BY <1>2, <1>5 DEF AdminSubs, Recorded
    <2>2. /\ n \in Approvals /\ n.state = "active" /\ n.version = 1 /\ n.source = r
          /\ n.origin = "manual"
          /\ Wide(n) => c.terms.user = "any" /\ c.terms.policy = "auto"
        BY <1>5, <2>1, ApprovalForTyped
    <2>3. PICK q : q = NewRequest(c.sub, "approved", c.now, c.now, a)
        OBVIOUS
    <2>4. q \in Requests /\ q.sub = c.sub /\ q.state = "approved" /\ q.approval = a
        BY <2>1, <2>3, NewRequestTyped DEF RequestStates
    <2>5. requests'[r] = q /\ \A s \in RequestIds \ {r} : requests'[s] = requests[s]
        BY <1>5, <2>3 DEF Base, TablesOK
    <2>6. \A x \in ApprovalIds \ {a} :
             /\ approvals'[x] \in Approvals \cup {NoApproval}
             /\ \/ approvals'[x] = approvals[x]
                \/ approvals[x].state = "active" /\ Alike(approvals[x], approvals'[x])
        BY <1>5, SupersededAlike DEF Base
    <2>7. TablesOK'
        <3>1. approvals' \in [ApprovalIds -> Approvals \cup {NoApproval}]
            BY <1>5, <2>2, <2>6
        <3>2. revisions' \in [ApprovalIds -> Seq(Snapshots \X Snapshots)]
            BY <1>5, <2>2, CreatedTyped DEF Base, TablesOK
        <3>3. requests' \in [RequestIds -> Requests \cup {NoRequest}]
            BY <1>5, <2>1, <2>3, <2>4 DEF Base, TablesOK
        <3>4. generation' \in Nat
            BY <1>5, <2>1, BumpedUp DEF Base
        <3> QED BY <1>3, <3>1, <3>2, <3>3, <3>4 DEF Base, TablesOK
    <2>8. approvals'[a] = n /\ revisions'[a] = <<Created(n)>>
          /\ \A x \in ApprovalIds \ {a} : revisions'[x] = revisions[x]
        BY <1>5 DEF Base, TablesOK
    <2>9. Wide(n) => q.sub.protected
        BY <1>2, <2>2, <2>4, Zenon DEF WideAutoAllowed
    <2>10. RowBorn(a)
        BY <1>5, <2>1, <2>2, <2>4, <2>5, <2>8, <2>9 DEF RowBorn, Approved
    <2>11. TableStep
        <3>1. \A x \in ApprovalIds : RowKept(x) \/ RowBorn(x)
            BY <2>6, <2>8, <2>10 DEF RowKept
        <3>2. \A s \in RequestIds : RequestStep(s)
            BY <2>1, <2>5 DEF RequestStep
        <3> QED BY <1>3, <3>1, <3>2 DEF TableStep, Base, TablesOK
    <2> QED BY <1>5, <2>7, <2>11, ReturnStep DEF Base, Kept
<1> QED BY <1>1, <1>4, <1>5 DEF RegisterAndApprove

LEMMA ChildTyped ==
    ASSUME NEW p \in Approvals, NEW parent \in ApprovalIds, NEW sub \in Submissions,
           NEW r \in RequestIds, NEW now \in Nat, NEW n, n = ChildOf(p, parent, sub, r, now)
    PROVE  /\ n \in Approvals /\ n.state = "active" /\ n.version = 1 /\ n.source = r
           /\ n.origin = "auto_update" /\ n.parent = parent /\ n.user = p.user
           /\ n.policy = p.policy /\ n.continuity = p.continuity /\ n.expires = p.expires
           /\ n.path = p.path /\ n.lin = p.lin /\ n.created = now
<1>1. sub.sha \in Shas
    BY AppLedgerAssumption DEF Submission
<1>2. n \in Approvals
    BY <1>1 DEF ChildOf, Approvals
<1>3. /\ n.state = "active" /\ n.version = 1 /\ n.source = r
      /\ n.origin = "auto_update" /\ n.parent = parent /\ n.created = now
    BY DEF ChildOf, Approvals
<1>4. /\ n.user = p.user /\ n.policy = p.policy /\ n.continuity = p.continuity
      /\ n.expires = p.expires /\ n.path = p.path /\ n.lin = p.lin
    BY DEF ChildOf, Approvals
<1> QED BY <1>2, <1>3, <1>4

\* The commit of an auto-approval: one row more, and the mark on its parent.
AutoCommit(c, r, a, n) ==
    /\ ParentCurrent(c) /\ AutoEligible(approvals[c.parent], c.sub, c.now)
    /\ n = ChildOf(approvals[c.parent], c.parent, c.sub, r, c.now)
    /\ approvals[a].state = "none"
    /\ approvals'[a] = n
    /\ approvals'[c.parent] \in Approvals /\ Alike(approvals[c.parent], approvals'[c.parent])
    /\ \A x \in ApprovalIds \ {a, c.parent} : approvals'[x] = approvals[x]
    /\ approvals' \in [ApprovalIds -> Approvals \cup {NoApproval}]

\* What an attempt at an auto-approval does.
LEMMA TryAutoCases ==
    ASSUME Base, NEW t \in Tasks, TryAutoApprove(t), NEW c, c = task[t]
    PROVE  \/ Refuse(t)
           \/ /\ \/ Return(t)
                 \/ Goto(t, [pc |-> "parent", now |-> c.now, sub |-> c.sub,
                              tries |-> c.tries + 1])
                 \/ Goto(t, [pc |-> "count", now |-> c.now, sub |-> c.sub])
              /\ UNCHANGED <<requests, approvals, revisions, generation>>
           \/ /\ \E r \in RequestIds \ Recorded, a \in ApprovalIds :
                    /\ AutoCommit(c, r, a, ChildOf(approvals[c.parent], c.parent, c.sub, r, c.now))
                    /\ revisions' = [revisions EXCEPT ![a] =
                                        <<Created(ChildOf(c.row, c.parent, c.sub, r, c.now))>>]
                    /\ requests' = [requests EXCEPT ![r] =
                                       NewRequest(c.sub, "auto_approved", c.now, c.now, a)]
              /\ generation' = Bumped(c.now)
              /\ Return(t)
<1>1. /\ c \in [pc : {"auto"}, now : Nat, sub : HostSubs, tries : Nat,
                 parent : ApprovalIds \cup {NoId}, row : Approvals \cup {NoApproval}]
      /\ c.parent # NoId => Held(c.parent, c.row)
    BY AtAuto DEF Base, CallsOK, TryAutoApprove
<1>2. ASSUME ParentCurrent(c), AutoEligible(approvals[c.parent], c.sub, c.now),
             NEW r \in RequestIds \ Recorded, NEW a \in ApprovalIds,
             approvals[a].state = "none",
             approvals' =
                 [approvals EXCEPT
                    ![a] = ChildOf(approvals[c.parent], c.parent, c.sub, r, c.now),
                    ![c.parent].superseded =
                       IF @ = NoId /\ RevisionOf(approvals[c.parent].lin, approvals[c.parent].sha)
                                         < RevisionOf(approvals[c.parent].lin, c.sub.sha)
                       THEN a ELSE @]
      PROVE  AutoCommit(c, r, a, ChildOf(approvals[c.parent], c.parent, c.sub, r, c.now))
    <2> DEFINE p == approvals[c.parent]
               n == ChildOf(p, c.parent, c.sub, r, c.now)
               m == IF p.superseded = NoId /\ RevisionOf(p.lin, p.sha) < RevisionOf(p.lin, c.sub.sha)
                    THEN a ELSE p.superseded
    <2>1. /\ c.parent \in ApprovalIds /\ p.state = "active" /\ p \in Approvals
          /\ c.sub \in Submissions /\ c.now \in Nat /\ r \in RequestIds
        BY <1>1, <1>2, RowTyped
           DEF ParentCurrent, IsAutoParent, AutoParents, Active, HostSubs, Base
    <2>2. a # c.parent
        BY <1>2, <2>1
    <2>3. n \in Approvals
        BY <2>1, ChildTyped
    <2>4. m \in ApprovalIds \cup {NoId}
        BY <2>1 DEF Approvals
    <2>5. approvals' = [approvals EXCEPT ![a] = n, ![c.parent] = [p EXCEPT !.superseded = m]]
        <3> HIDE DEF n
        <3> QED BY <1>2, <2>1, <2>2 DEF Base, TablesOK, n
    <2>6. [p EXCEPT !.superseded = m] \in Approvals /\ Alike(p, [p EXCEPT !.superseded = m])
        <3> HIDE DEF m
        <3> QED BY <2>1, <2>4, MarkTyped
    <2>7. PICK k : k = [p EXCEPT !.superseded = m]
        OBVIOUS
    <2> HIDE DEF n, m
    <2>8. /\ approvals'[a] = n /\ approvals'[c.parent] = k
          /\ \A x \in ApprovalIds \ {a, c.parent} : approvals'[x] = approvals[x]
          /\ approvals' \in [ApprovalIds -> Approvals \cup {NoApproval}]
        BY <2>1, <2>2, <2>3, <2>5, <2>6, <2>7 DEF Base, TablesOK
    <2> QED BY <1>2, <2>6, <2>7, <2>8 DEF AutoCommit, n
<1> QED BY <1>2 DEF TryAutoApprove

LEMMA TryAutoKept ==
    ASSUME Base, NEW t \in Tasks, TryAutoApprove(t)
    PROVE  Kept
<1>1. PICK c : c = task[t]
    OBVIOUS
<1>2. /\ c \in [pc : {"auto"}, now : Nat, sub : HostSubs, tries : Nat,
                 parent : ApprovalIds \cup {NoId}, row : Approvals \cup {NoApproval}]
      /\ c.parent # NoId => Held(c.parent, c.row)
    BY <1>1, AtAuto DEF Base, CallsOK, TryAutoApprove
<1>3. UNCHANGED <<clock, binaries, frozen>>
    BY DEF TryAutoApprove
<1>4. CASE Refuse(t)
    BY <1>3, <1>4, QuietReturn DEF Refuse
<1>5. CASE Return(t) /\ UNCHANGED <<requests, approvals, revisions, generation>>
    BY <1>3, <1>5, QuietReturn
<1>6. CASE /\ Goto(t, [pc |-> "parent", now |-> c.now, sub |-> c.sub, tries |-> c.tries + 1])
           /\ UNCHANGED <<requests, approvals, revisions, generation>>
    <2>1. PICK d : d = [pc |-> "parent", now |-> c.now, sub |-> c.sub, tries |-> c.tries + 1]
        OBVIOUS
    <2>2. d \in [pc : {"parent"}, now : Nat, sub : HostSubs, tries : Nat]
        BY <1>2, <2>1
    <2>3. CallOK(d)'
        BY <2>2, Zenon DEF CallOK
    <2> QED BY <1>3, <1>6, <2>1, <2>3, QuietGoto
<1>7. CASE /\ Goto(t, [pc |-> "count", now |-> c.now, sub |-> c.sub])
           /\ UNCHANGED <<requests, approvals, revisions, generation>>
    <2>1. PICK d : d = [pc |-> "count", now |-> c.now, sub |-> c.sub]
        OBVIOUS
    <2>2. d \in [pc : {"observe", "count", "pending"}, now : Nat, sub : HostSubs]
        BY <1>2, <2>1
    <2>3. CallOK(d)'
        BY <2>2, Zenon DEF CallOK
    <2> QED BY <1>3, <1>7, <2>1, <2>3, QuietGoto
<1>8. ASSUME NEW r \in RequestIds \ Recorded, NEW a \in ApprovalIds, NEW n,
             n = ChildOf(approvals[c.parent], c.parent, c.sub, r, c.now),
             AutoCommit(c, r, a, n),
             revisions' = [revisions EXCEPT ![a] =
                              <<Created(ChildOf(c.row, c.parent, c.sub, r, c.now))>>],
             requests' = [requests EXCEPT ![r] =
                             NewRequest(c.sub, "auto_approved", c.now, c.now, a)],
             generation' = Bumped(c.now), Return(t)
      PROVE  Kept
    <2>1. /\ c.sub \in Submissions /\ c.now \in Nat /\ r \in RequestIds
          /\ requests[r].state = "none"
        BY <1>2, <1>8 DEF HostSubs, Recorded
    <2>2. PICK p : p = approvals[c.parent]
        OBVIOUS
    <2>3. /\ c.parent \in ApprovalIds /\ c.parent # NoId /\ p \in Approvals
          /\ p.state = "active" /\ p.version = c.row.version
        BY <1>2, <1>8, <2>2, RowTyped
           DEF AutoCommit, ParentCurrent, IsAutoParent, AutoParents, Active, Base
    <2>4. c.row \in Approvals /\ Alike(c.row, p)
        BY <1>2, <2>2, <2>3 DEF Held
    <2>5. PICK k : k = ChildOf(c.row, c.parent, c.sub, r, c.now)
        OBVIOUS
    <2>6. /\ n \in Approvals /\ n.state = "active" /\ n.version = 1 /\ n.source = r
          /\ n.origin = "auto_update" /\ n.parent = c.parent /\ n.user = p.user
          /\ n.policy = p.policy /\ n.continuity = p.continuity /\ n.expires = p.expires
          /\ n.path = p.path
        BY <1>8, <2>1, <2>2, <2>3, ChildTyped
    <2>7. /\ k \in Approvals /\ k.state = "active" /\ k.user = c.row.user
          /\ k.policy = c.row.policy /\ k.continuity = c.row.continuity
          /\ k.expires = c.row.expires /\ k.path = c.row.path
        BY <2>1, <2>3, <2>4, <2>5, ChildTyped
    <2>8. Snapshot(k) = Snapshot(n) /\ Snapshot(n) = Snapshot(p)
        BY <2>3, <2>4, <2>6, <2>7 DEF Snapshot, Alike
    <2>9. /\ revisions'[a] = <<Created(n)>>
          /\ \A x \in ApprovalIds \ {a} : revisions'[x] = revisions[x]
          /\ revisions' \in [ApprovalIds -> Seq(Snapshots \X Snapshots)]
        <3>1. Created(k) = Created(n)
            BY <2>8 DEF Created
        <3>2. <<Created(k)>> \in Seq(Snapshots \X Snapshots)
            BY <2>7, CreatedTyped
        <3> QED BY <1>8, <2>5, <3>1, <3>2 DEF Base, TablesOK
    <2>10. PICK q : q = NewRequest(c.sub, "auto_approved", c.now, c.now, a)
        OBVIOUS
    <2>11. q \in Requests /\ q.sub = c.sub /\ q.state = "auto_approved" /\ q.approval = a
        BY <2>1, <2>10, NewRequestTyped DEF RequestStates
    <2>12. /\ requests'[r] = q /\ \A s \in RequestIds \ {r} : requests'[s] = requests[s]
           /\ requests' \in [RequestIds -> Requests \cup {NoRequest}]
        BY <1>8, <2>1, <2>10, <2>11 DEF Base, TablesOK
    <2>13. TablesOK'
        <3>1. generation' \in Nat
            BY <1>8, <2>1, BumpedUp DEF Base
        <3> QED BY <1>3, <1>8, <2>9, <2>12, <3>1 DEF Base, TablesOK, AutoCommit
    <2>14. Wide(n) => q.sub.protected
        <3>1. p.user # c.sub.user => c.sub.protected
            BY <1>8, <2>2 DEF AutoCommit, AutoEligible, AutoUserOk
        <3>2. c.sub.user # AnyUser
            BY <2>1, AppLedgerAssumption DEF Submission
        <3> QED BY <2>6, <2>11, <3>1, <3>2, Zenon DEF Wide
    <2>15. RowBorn(a)
        <3>1. approvals[a].state = "none" /\ approvals'[a] = n
            BY <1>8 DEF AutoCommit
        <3>2. Cardinality(AutoRecent(n.lin, n.created)) < MAX_PER_DAY
            <4>1. n.lin = p.lin /\ n.created = c.now
                BY <1>8, <2>1, <2>2, <2>3, ChildTyped
            <4>2. p.lin = c.sub.lin
                BY <1>8, <2>2 DEF AutoCommit, ParentCurrent, IsAutoParent, AutoParents
            <4> QED BY <1>8, <4>1, <4>2 DEF AutoCommit, AutoEligible
        <3>3. \A b \in ApprovalIds \ {a} : approvals[b].state = "none" => approvals'[b].state = "none"
            BY <1>8, <2>2, <2>3 DEF AutoCommit
        <3> QED BY <2>1, <2>2, <2>3, <2>6, <2>8, <2>9, <2>11, <2>12, <2>14, <3>1, <3>2, <3>3
                DEF RowBorn, Approved
    <2>16. \A x \in ApprovalIds : RowKept(x) \/ RowBorn(x)
        BY <1>8, <2>2, <2>3, <2>9, <2>15 DEF RowKept, AutoCommit
    <2>17. \A s \in RequestIds : RequestStep(s)
        BY <2>1, <2>12 DEF RequestStep
    <2>18. TableStep
        BY <1>3, <2>16, <2>17 DEF TableStep, Base, TablesOK
    <2> QED BY <1>8, <2>13, <2>18, ReturnStep DEF Base, Kept
<1> QED BY <1>1, <1>4, <1>5, <1>6, <1>7, <1>8, TryAutoCases

\* The decision on a request: a new approval or one that covers it.
LEMMA ApproveKept ==
    ASSUME Base, NEW t \in Tasks, Approve(t)
    PROVE  Kept
<1> DEFINE c == task[t]
<1>2. /\ c \in [pc : {"approve"}, now : Nat, admin : Admins, req : RequestIds,
                 choice : Choices, rows : [ApprovalIds -> Approvals \cup {NoApproval}]]
      /\ c.choice.new => WideAutoAllowed(c.choice.terms.user, c.choice.terms.policy,
                                         requests[c.req].sub)
      /\ \A a \in AlsoRevoked(c) : Held(a, c.rows[a])
    BY AtApprove DEF Base, CallsOK, Approve
<1> HIDE DEF c
<1>3. UNCHANGED <<clock, binaries, frozen>>
    BY DEF Approve
<1>4. CASE Refuse(t)
    BY <1>3, <1>4, QuietReturn DEF Refuse
<1> DEFINE ids == AlsoRevoked(c)
           fresh == c.choice.new
           sub == requests[c.req].sub
           new == ApprovalFor(sub, c.req, c.choice.terms, c.now)
           kept(a, x) == IF fresh THEN Superseded(approvals[x], a, new) ELSE approvals[x]
<1>5. ASSUME ApproveOk(c), NEW a \in ApprovalIds,
             IF fresh THEN approvals[a].state = "none" ELSE a = c.choice.id,
             approvals' = [x \in ApprovalIds |->
                              CASE x = a /\ fresh -> new
                                [] x \in ids -> Revoked(kept(a, x))
                                [] OTHER -> kept(a, x)],
             revisions' = [x \in ApprovalIds |->
                              CASE x = a /\ fresh -> <<Created(new)>>
                                [] x \in ids -> Append(revisions[x],
                                       Change(c.rows[x], Revoked(c.rows[x])))
                                [] OTHER -> revisions[x]],
             requests' = [requests EXCEPT ![c.req].state = "approved",
                                          ![c.req].decided = c.now,
                                          ![c.req].approval = a],
             generation' = Bumped(c.now), Return(t)
      PROVE  Kept
    <2>1. /\ c.req \in RequestIds /\ c.now \in Nat /\ requests[c.req] \in Requests
          /\ requests[c.req].state = "pending" /\ sub \in Submissions
        BY <1>2, <1>5, RequestTyped DEF ApproveOk, Pending, Base, Requests
    <2>2. PICK q : q = [requests[c.req] EXCEPT !.state = "approved", !.decided = c.now,
                                               !.approval = a]
        OBVIOUS
    <2>3. q \in Requests /\ q.sub = sub /\ q.state = "approved" /\ q.approval = a
        <3>1. PICK x \in Requests : x = requests[c.req]
            BY <2>1
        <3>2. q = [x EXCEPT !.state = "approved", !.decided = c.now, !.approval = a]
            BY <2>2, <3>1
        <3>3. q \in Requests /\ q.sub = x.sub /\ q.state = "approved" /\ q.approval = a
            BY <2>1, <3>2 DEF Requests, RequestStates
        <3> QED BY <3>1, <3>3
    <2>4. /\ requests'[c.req] = q
          /\ \A s \in RequestIds \ {c.req} : requests'[s] = requests[s]
          /\ requests' \in [RequestIds -> Requests \cup {NoRequest}]
        BY <1>5, <2>1, <2>2, <2>3 DEF Base, TablesOK
    <2>5. fresh => c.choice.terms \in Terms
        BY <1>2 DEF Choices
    <2>6. fresh => /\ new \in Approvals /\ new.state = "active" /\ new.version = 1
                   /\ new.source = c.req /\ new.origin = "manual"
                   /\ Wide(new) => c.choice.terms.user = "any" /\ c.choice.terms.policy = "auto"
        BY <2>1, <2>5, ApprovalForTyped
    <2>7. fresh => (Wide(new) => sub.protected)
        BY <1>2, <2>6, Zenon DEF WideAutoAllowed
    <2> HIDE DEF new
    <2>8. ASSUME NEW x \in ApprovalIds
          PROVE  /\ kept(a, x) \in Approvals \cup {NoApproval}
                 /\ approvals[x] \in Approvals => kept(a, x) \in Approvals
                 /\ \/ kept(a, x) = approvals[x]
                    \/ approvals[x].state = "active" /\ Alike(approvals[x], kept(a, x))
        <3>1. CASE fresh
            BY <3>1, SupersededAlike DEF Base
        <3>2. CASE ~ fresh
            BY <3>2 DEF Base, TablesOK
        <3> QED BY <3>1, <3>2
    <2> HIDE DEF kept
    <2>9. ASSUME NEW x \in ApprovalIds, x = a, fresh
          PROVE  /\ RowBorn(x) /\ approvals'[x] \in Approvals
                 /\ revisions'[x] \in Seq(Snapshots \X Snapshots)
        <3>0. x \notin ids
            BY <1>2, <1>5, <2>9 DEF Held
        <3>1. approvals'[x] = new /\ revisions'[x] = <<Created(new)>>
            BY <1>5, <2>9, <3>0
        <3>2. RowBorn(x)
            BY <1>5, <2>1, <2>3, <2>4, <2>6, <2>7, <2>9, <3>1 DEF RowBorn, Approved
        <3> QED BY <2>6, <2>9, <3>1, <3>2, CreatedTyped
    <2>10. ASSUME NEW x \in ApprovalIds, ~ (x = a /\ fresh), x \in ids
           PROVE  /\ RowChanged(x) /\ approvals'[x] \in Approvals
                  /\ revisions'[x] \in Seq(Snapshots \X Snapshots)
        <3>1. PICK k : k = kept(a, x)
            OBVIOUS
        <3>2. PICK row : row = c.rows[x]
            OBVIOUS
        <3>3. /\ approvals'[x] = Revoked(k)
              /\ revisions'[x] = Append(revisions[x], Change(row, Revoked(row)))
            BY <1>5, <2>10, <3>1, <3>2
        <3>4. /\ Held(x, row) /\ row.version = approvals[x].version
              /\ approvals[x].state \in {"active", "expired"}
            BY <1>2, <1>5, <2>10, <3>2 DEF ApproveOk, RevokeOk, Revocable
        <3>5. /\ approvals[x] \in Approvals /\ row \in Approvals /\ Alike(row, approvals[x])
            BY <3>4, RowTyped DEF Held, Base
        <3>6. k \in Approvals /\ Alike(approvals[x], k)
            BY <2>8, <3>1, <3>5 DEF Alike
        <3>7. PICK y : y = Revoked(k)
            OBVIOUS
        <3>8. PICK z : z = Revoked(row)
            OBVIOUS
        <3>9. /\ y \in Approvals /\ SameApproval(k, y) /\ y.version = k.version + 1
              /\ y.state = "revoked" /\ y.user = k.user /\ y.policy = k.policy
            BY <3>6, <3>7, RevokedTyped
        <3>10. z \in Approvals
            BY <3>5, <3>8, RevokedTyped
        <3>11. Snapshot(y) = Snapshot(z) /\ Snapshot(row) = Snapshot(approvals[x])
            <4>1. Alike(row, k)
                BY <3>5, <3>6, Zenon DEF Alike
            <4>2. Snapshot(y) = [Snapshot(k) EXCEPT !.state = "revoked"]
                BY <3>6, <3>7 DEF Snapshot, Revoked, Approvals
            <4>3. Snapshot(z) = [Snapshot(row) EXCEPT !.state = "revoked"]
                BY <3>5, <3>8 DEF Snapshot, Revoked, Approvals
            <4> QED BY <3>5, <4>1, <4>2, <4>3, AlikeSnapshot
        <3>12. revisions'[x] = Append(revisions[x], Change(approvals[x], y))
            BY <3>3, <3>8, <3>11 DEF Change
        <3>13. /\ SameApproval(approvals[x], y) /\ y.version = approvals[x].version + 1
               /\ y.user = AnyUser => approvals[x].user = AnyUser
            BY <3>6, <3>9, Zenon DEF Alike, SameApproval
        <3>14. Wide(y) => requests[approvals[x].source].sub.protected
            <4>1. Wide(y) => Wide(approvals[x])
                BY <3>6, <3>9, Zenon DEF Alike, Wide
            <4>2. approvals[x].state # "none"
                BY <3>4
            <4> QED BY <4>1, <4>2, Zenon DEF Base, WideAutoProtected, Wide
        <3>15. RowChanged(x)
            BY <3>3, <3>4, <3>7, <3>9, <3>12, <3>13, <3>14 DEF RowChanged
        <3>16. Append(revisions[x], Change(approvals[x], y)) \in Seq(Snapshots \X Snapshots)
            <4>1. Change(approvals[x], y) \in Snapshots \X Snapshots
                BY <3>5, <3>9, SnapshotTyped DEF Change
            <4>2. revisions[x] \in Seq(Snapshots \X Snapshots)
                BY DEF Base, TablesOK
            <4> QED BY <4>1, <4>2
        <3> QED BY <3>3, <3>7, <3>9, <3>12, <3>15, <3>16
    <2>11. ASSUME NEW x \in ApprovalIds, ~ (x = a /\ fresh), x \notin ids
           PROVE  /\ RowKept(x) /\ approvals'[x] \in Approvals \cup {NoApproval}
                  /\ revisions'[x] \in Seq(Snapshots \X Snapshots)
        <3>1. approvals'[x] = kept(a, x) /\ revisions'[x] = revisions[x]
            BY <1>5, <2>11
        <3> QED BY <2>8, <3>1 DEF RowKept, Base, TablesOK
    <2>12. approvals' \in [ApprovalIds -> Approvals \cup {NoApproval}]
        <3>1. \A x \in ApprovalIds : approvals'[x] \in Approvals \cup {NoApproval}
            BY <2>9, <2>10, <2>11
        <3>2. approvals' = [x \in ApprovalIds |-> approvals'[x]]
            BY <1>5
        <3> QED BY <3>1, <3>2
    <2>13. revisions' \in [ApprovalIds -> Seq(Snapshots \X Snapshots)]
        <3>1. \A x \in ApprovalIds : revisions'[x] \in Seq(Snapshots \X Snapshots)
            BY <2>9, <2>10, <2>11
        <3>2. revisions' = [x \in ApprovalIds |-> revisions'[x]]
            BY <1>5
        <3> QED BY <3>1, <3>2
    <2>14. TablesOK'
        <3>1. generation' \in Nat
            BY <1>5, <2>1, BumpedUp DEF Base
        <3> QED BY <1>3, <2>4, <2>12, <2>13, <3>1 DEF Base, TablesOK
    <2>15. TableStep
        <3>1. \A x \in ApprovalIds : RowKept(x) \/ RowBorn(x) \/ RowChanged(x)
            BY <2>9, <2>10, <2>11
        <3>2. \A s \in RequestIds : RequestStep(s)
            BY <2>1, <2>3, <2>4 DEF RequestStep
        <3> QED BY <1>3, <3>1, <3>2 DEF TableStep, Base, TablesOK
    <2> QED BY <1>5, <2>14, <2>15, ReturnStep DEF Base, Kept
<1>6. CASE /\ ApproveOk(c)
           /\ \E a \in ApprovalIds :
                 /\ IF fresh THEN approvals[a].state = "none" ELSE a = c.choice.id
                 /\ approvals' = [x \in ApprovalIds |->
                                     CASE x = a /\ fresh -> new
                                       [] x \in ids -> Revoked(kept(a, x))
                                       [] OTHER -> kept(a, x)]
                 /\ revisions' = [x \in ApprovalIds |->
                                     CASE x = a /\ fresh -> <<Created(new)>>
                                       [] x \in ids -> Append(revisions[x],
                                              Change(c.rows[x], Revoked(c.rows[x])))
                                       [] OTHER -> revisions[x]]
                 /\ requests' = [requests EXCEPT ![c.req].state = "approved",
                                                 ![c.req].decided = c.now,
                                                 ![c.req].approval = a]
           /\ generation' = Bumped(c.now)
           /\ Return(t)
    <2> HIDE DEF ids, fresh, new, kept
    <2> QED BY <1>5, <1>6, Zenon
<1>7. Refuse(t) \/ <1>6!1
    BY Zenon DEF Approve, c
<1> QED BY <1>4, <1>6, <1>7

-----------------------------------------------------------------------------
(* The invariant                                                           *)

LEMMA NextKept ==
    ASSUME Base, [Next]_vars
    PROVE  Kept
<1>1. CASE UNCHANGED vars
    <2>1. TablesOK' /\ TableStep
        BY <1>1, QuietStep DEF Base, vars
    <2> QED BY <1>1, <2>1, TasksKept DEF Base, Kept, vars
<1>2. CASE Tick
    BY <1>2, TickKept
<1>3. ASSUME NEW t \in Tasks, Begin(t)
      PROVE  Kept
    BY <1>3, BeginSubmitKept, BeginRegisterKept, BeginApproveKept, BeginRevokeKept,
       BeginExpireKept, BeginUpdateKept DEF Begin
<1>4. ASSUME NEW t \in Tasks, Step(t)
      PROVE  Kept
    BY <1>4, ObserveKept, ReadParentKept, TryAutoKept, CountPendingKept, SubmitPendingKept,
       RegisterKept, ApproveKept, RevokeKept, ExpireApprovalKept, ReadForUpdateKept,
       UpdateApprovalKept DEF Step
<1>5. ASSUME NEW r \in RequestIds, NEW admin \in Admins, Deny(admin, r)
      PROVE  Kept
    BY <1>5, DenyKept
<1>6. ASSUME NEW r \in RequestIds, ExpireRequest(r)
      PROVE  Kept
    BY <1>6, ExpireRequestKept
<1>7. ASSUME NEW lin \in Lineages, SetFrozen(lin)
      PROVE  Kept
    BY <1>7, SetFrozenKept
<1> QED BY <1>1, <1>2, <1>3, <1>4, <1>5, <1>6, <1>7 DEF Next

LEMMA TypeOKTables ==
    ASSUME TypeOK
    PROVE  TablesOK
BY DEF TypeOK, TablesOK

LEMMA InvInit ==
    ASSUME Init
    PROVE  Inv
<1>1. TypeOK
    BY DEF Init, TypeOK, Calls
<1>2. CallsOK
    BY DEF Init, CallsOK, CallOK
<1>3. \A a \in ApprovalIds : approvals[a].state = "none"
    BY DEF Init, NoApproval
<1>4. /\ Versioned /\ HistoryMatches /\ OneDecision /\ WideAutoProtected
      /\ ParentsExist /\ AutoWithinParent
    BY <1>3 DEF Versioned, HistoryMatches, OneDecision, WideAutoProtected, ParentsExist,
                AutoWithinParent
<1> QED BY <1>1, <1>2, <1>4 DEF Inv

LEMMA InvBase ==
    ASSUME Inv
    PROVE  Base
BY TypeOKTables DEF Inv, Base

LEMMA InvNext ==
    Inv /\ [Next]_vars => Inv'
<1> SUFFICES ASSUME Inv, [Next]_vars
             PROVE  Inv'
    OBVIOUS
<1>1. Base /\ Kept
    BY InvBase, NextKept
<1>2. TablesOK /\ TablesOK' /\ TableStep /\ TypeOK' /\ CallsOK'
    BY <1>1 DEF Base, Kept
<1>3. Versioned' /\ HistoryMatches'
    BY <1>2, VersionedStep, HistoryStep DEF Inv
<1>4. OneDecision' /\ WideAutoProtected'
    BY <1>2, DecisionStep, WideStep DEF Inv
<1>5. ParentsExist' /\ AutoWithinParent'
    BY <1>2, ParentsStep, WithinParentStep DEF Inv
<1> QED BY <1>2, <1>3, <1>4, <1>5 DEF Inv

\* The tables and what the calls in flight hold are well typed.
THEOREM TypeCorrect == Spec => []TypeOK
<1>1. Init => Inv
    BY InvInit
<1>2. Inv => TypeOK
    BY DEF Inv
<1> QED BY <1>1, <1>2, InvNext, PTL DEF Spec

\* The revision records of an approval are its history, one for each version,
\* although app_update_approval, app_revoke_approval and the sweep build them
\* from rows read before their transactions.
THEOREM HistoryKept == Spec => []HistoryMatches
<1>1. Init => Inv
    BY InvInit
<1>2. Inv => HistoryMatches
    BY DEF Inv
<1> QED BY <1>1, <1>2, InvNext, PTL DEF Spec

\* A request leads to at most one approval of its own, and only when it was
\* approved, for any number of administrators, sweeps and auto-approvals.
THEOREM DecidedOnce == Spec => []OneDecision
<1>1. Init => Inv
    BY InvInit
<1>2. Inv => OneDecision
    BY DEF Inv
<1> QED BY <1>1, <1>2, InvNext, PTL DEF Spec

\* An approval for any user that follows updates was asked for on a protected
\* path, whatever edits and chains of auto-updates led to it.
THEOREM WideOnlyProtected == Spec => []WideAutoProtected
<1>1. Init => Inv
    BY InvInit
<1>2. Inv => WideAutoProtected
    BY DEF Inv
<1> QED BY <1>1, <1>2, InvNext, PTL DEF Spec

\* child_of gives an auto-update no more than some version of its parent had.
THEOREM ChildrenWithinParents == Spec => []AutoWithinParent
<1>1. Init => Inv
    BY InvInit
<1>2. Inv => AutoWithinParent
    BY DEF Inv
<1> QED BY <1>1, <1>2, InvNext, PTL DEF Spec

\* The sweep ends only what is due, and a revoked row is never written again.
THEOREM OnlyDueEnds == Spec => EndsOnlyWhenDue
<1> DEFINE Ends == \A a \in ApprovalIds :
          /\ approvals[a].state = "active" /\ approvals'[a].state = "expired" =>
                approvals[a].expires # Never /\ approvals[a].expires <= clock
          /\ approvals[a].state = "revoked" => approvals'[a] = approvals[a]
<1>1. Init => Inv
    BY InvInit
<1>2. Inv /\ [Next]_vars => [Ends]_vars
    <2> SUFFICES ASSUME Inv, [Next]_vars, NEW a \in ApprovalIds
                 PROVE  /\ approvals[a].state = "active" /\ approvals'[a].state = "expired" =>
                              approvals[a].expires # Never /\ approvals[a].expires <= clock
                        /\ approvals[a].state = "revoked" => approvals'[a] = approvals[a]
        OBVIOUS
    <2>1. TableStep
        BY InvBase, NextKept DEF Kept
    <2>2. CASE RowKept(a)
        BY <2>2 DEF RowKept, Alike
    <2>3. CASE RowBorn(a)
        BY <2>3 DEF RowBorn
    <2>4. CASE RowChanged(a)
        BY <2>4 DEF RowChanged
    <2> QED BY <2>1, <2>2, <2>3, <2>4 DEF TableStep
<1> QED BY <1>1, <1>2, InvNext, PTL DEF Spec, EndsOnlyWhenDue

-----------------------------------------------------------------------------
(* The generation follows what the allowlist is compiled from              *)

Follows ==
    /\ LiveEntries' # LiveEntries => generation' > generation
    /\ generation' >= generation

LEMMA QuietFollows ==
    ASSUME TablesOK, UNCHANGED <<approvals, generation>>
    PROVE  Follows
BY DEF Follows, LiveEntries, Active, TablesOK

LEMMA BumpFollows ==
    ASSUME TablesOK, NEW now \in Nat, generation' = Bumped(now)
    PROVE  Follows
BY BumpedUp DEF Follows, TablesOK

\* An edit that leaves the compiled entry alone need not move the generation.
LEMMA UpdateFollows ==
    ASSUME Base, NEW t \in Tasks, UpdateApproval(t)
    PROVE  Follows
<1>1. PICK c : c = task[t]
    OBVIOUS
<1>2. /\ c \in [pc : {"update"}, now : Nat, id : ApprovalIds, row : Approvals, after : Approvals]
      /\ Held(c.id, c.row)
    BY <1>1, AtUpdate DEF Base, CallsOK, UpdateApproval
<1>3. CASE Refuse(t)
    BY <1>3, QuietFollows DEF Refuse, Base
<1>4. CASE generation' = Bumped(c.now)
    BY <1>2, <1>4, BumpFollows DEF Base
<1>5. CASE /\ UpdateOk(c) /\ Write(c.id, c.row, c.after)
           /\ ~ ChangesCompiledEntry(c.row, c.after) /\ generation' = generation
    <2>1. PICK n : n = approvals'[c.id]
        OBVIOUS
    <2>2. /\ n.state = c.after.state /\ n.user = c.after.user /\ n.path = c.after.path
          /\ n.expires = c.after.expires
        BY <1>2, <1>5, <2>1 DEF Write, Base, TablesOK, Approvals
    <2>3. Alike(c.row, approvals[c.id])
        BY <1>2, <1>5 DEF UpdateOk, Held
    <2>4. /\ n.state = approvals[c.id].state /\ n.user = approvals[c.id].user
          /\ n.path = approvals[c.id].path /\ n.expires = approvals[c.id].expires
        BY <1>5, <2>2, <2>3 DEF ChangesCompiledEntry, Alike
    <2>5. \A b \in ApprovalIds :
             /\ approvals'[b].state = approvals[b].state
             /\ approvals'[b].user = approvals[b].user /\ approvals'[b].path = approvals[b].path
             /\ approvals'[b].expires = approvals[b].expires
        BY <1>2, <1>5, <2>1, <2>4 DEF Write, Base, TablesOK
    <2>6. Active' = Active
        BY <2>5 DEF Active
    <2>7. LiveEntries' = LiveEntries
        BY <2>5, <2>6 DEF LiveEntries, Active
    <2> QED BY <1>5, <2>7 DEF Follows, Base, TablesOK
<1> QED BY <1>1, <1>3, <1>4, <1>5 DEF UpdateApproval

LEMMA NextFollows ==
    ASSUME Base, [Next]_vars
    PROVE  Follows
<1>0. TablesOK
    BY DEF Base
<1>1. CASE UNCHANGED vars
    BY <1>0, <1>1, QuietFollows DEF vars
<1>2. CASE Tick
    BY <1>0, <1>2, QuietFollows DEF Tick
<1>3. ASSUME NEW t \in Tasks, Begin(t)
      PROVE  Follows
    <2>1. UNCHANGED <<approvals, generation>>
        BY <1>3 DEF Begin, BeginSubmit, BeginRegister, BeginApprove, BeginRevoke, BeginExpire,
                    BeginUpdate
    <2> QED BY <1>0, <2>1, QuietFollows
<1>4. ASSUME NEW t \in Tasks, Step(t)
      PROVE  Follows
    <2>0. CallOK(task[t])
        BY DEF Base, CallsOK
    <2>1. CASE Observe(t) \/ ReadParent(t) \/ CountPending(t) \/ ReadForUpdate(t)
               \/ SubmitPending(t)
        <3>1. UNCHANGED <<approvals, generation>>
            BY <2>1 DEF Observe, ReadParent, CountPending, ReadForUpdate, SubmitPending, Refuse
        <3> QED BY <1>0, <3>1, QuietFollows
    <2>2. CASE TryAutoApprove(t)
        <3>1. task[t].now \in Nat
            BY <2>0, <2>2, AtAuto DEF TryAutoApprove
        <3>2. UNCHANGED <<approvals, generation>> \/ generation' = Bumped(task[t].now)
            BY <2>2, TryAutoCases DEF Refuse
        <3> QED BY <1>0, <3>1, <3>2, QuietFollows, BumpFollows
    <2>3. CASE RegisterAndApprove(t)
        <3>1. task[t].now \in Nat
            BY <2>0, <2>3, AtRegister DEF RegisterAndApprove
        <3>2. UNCHANGED <<approvals, generation>> \/ generation' = Bumped(task[t].now)
            BY <2>3, Zenon DEF RegisterAndApprove, Refuse
        <3> QED BY <1>0, <3>1, <3>2, QuietFollows, BumpFollows
    <2>4. CASE Approve(t)
        <3>1. task[t].now \in Nat
            BY <2>0, <2>4, AtApprove DEF Approve
        <3>2. UNCHANGED <<approvals, generation>> \/ generation' = Bumped(task[t].now)
            BY <2>4, Zenon DEF Approve, Refuse
        <3> QED BY <1>0, <3>1, <3>2, QuietFollows, BumpFollows
    <2>5. CASE Revoke(t) \/ ExpireApproval(t)
        <3>1. task[t].now \in Nat
            BY <2>0, <2>5, AtRevoke DEF Revoke, ExpireApproval
        <3>2. UNCHANGED <<approvals, generation>> \/ generation' = Bumped(task[t].now)
            BY <2>5, Zenon DEF Revoke, ExpireApproval, Refuse
        <3> QED BY <1>0, <3>1, <3>2, QuietFollows, BumpFollows
    <2>6. CASE UpdateApproval(t)
        BY <2>6, UpdateFollows
    <2> QED BY <1>4, <2>1, <2>2, <2>3, <2>4, <2>5, <2>6 DEF Step
<1>5. ASSUME NEW r \in RequestIds, NEW admin \in Admins, Deny(admin, r)
      PROVE  Follows
    BY <1>0, <1>5, QuietFollows DEF Deny
<1>6. ASSUME NEW r \in RequestIds, ExpireRequest(r)
      PROVE  Follows
    BY <1>0, <1>6, QuietFollows DEF ExpireRequest
<1>7. ASSUME NEW lin \in Lineages, SetFrozen(lin)
      PROVE  Follows
    BY <1>0, <1>7, QuietFollows DEF SetFrozen
<1> QED BY <1>1, <1>2, <1>3, <1>4, <1>5, <1>6, <1>7 DEF Next

\* bump_stmt and changes_compiled_entry: what the allowlist is compiled from
\* never changes under the generation in force, and the generation never
\* moves back, in whatever order calls commit and whatever their clocks said.
THEOREM ChangesBump == Spec => LiveChangeBumps
<1>1. Init => Inv
    BY InvInit
<1>2. Inv /\ [Next]_vars => [Follows]_vars
    BY InvBase, NextFollows
<1>3. [][Follows]_vars <=> LiveChangeBumps
    BY PTL DEF LiveChangeBumps, Follows
<1> QED BY <1>1, <1>2, <1>3, InvNext, PTL DEF Spec

-----------------------------------------------------------------------------
(* The rate of auto-approvals                                              *)

Autos == {a \in ApprovalIds : approvals[a].state # "none" /\ approvals[a].origin = "auto_update"}

\* The auto-approvals of the day that ends with a.
Window(a) == {b \in Autos : /\ approvals[b].lin = approvals[a].lin
                            /\ approvals[b].created <= approvals[a].created
                            /\ approvals[b].created > approvals[a].created - DAY}

RateInv ==
    /\ IsFiniteSet(Autos)
    /\ \A a \in Autos : Cardinality(Window(a)) <= MAX_PER_DAY

LEMMA RateIsRate == RateInv => AutoRate
BY Zenon DEF RateInv, AutoRate, Autos, Window

\* The auto-approvals there are stay what they are.
LEMMA AutosStay ==
    ASSUME TablesOK, TablesOK', TableStep, NEW a \in Autos
    PROVE  /\ a \in Autos' /\ approvals'[a].lin = approvals[a].lin
           /\ approvals'[a].created = approvals[a].created
           /\ approvals[a].created \in Nat /\ approvals[a].lin \in Lineages
BY RowStays, RowTyped DEF Autos, SameApproval, Approvals

LEMMA RateStep ==
    ASSUME TablesOK, TablesOK', TableStep, RateInv
    PROVE  RateInv'
<1>d. DAY \in Nat /\ MAX_PER_DAY \in Nat
    BY AppLedgerAssumption
<1>1. ASSUME NEW a \in Autos', a \notin Autos
      PROVE  RowBorn(a)
    BY <1>1 DEF TableStep, RowKept, RowChanged, Autos, Alike, SameApproval
<1>2. CASE Autos' = Autos
    <2>1. ASSUME NEW a \in Autos
          PROVE  Window(a)' = Window(a)
        BY <1>2, AutosStay DEF Window
    <2> QED BY <1>2, <2>1 DEF RateInv
<1>3. CASE Autos' # Autos
    <2>1. PICK a \in Autos' : a \notin Autos
        BY <1>3, AutosStay
    <2>2. PICK n : n = approvals'[a]
        OBVIOUS
    <2>3. /\ a \in ApprovalIds /\ n \in Approvals
          /\ Cardinality(AutoRecent(n.lin, n.created)) < MAX_PER_DAY
          /\ \A b \in ApprovalIds \ {a} : approvals[b].state = "none" => approvals'[b].state = "none"
        <3>1. a \in ApprovalIds /\ n.state # "none" /\ n.origin = "auto_update"
            BY <2>1, <2>2 DEF Autos
        <3>2. n \in Approvals
            BY <2>2, <3>1 DEF TablesOK, NoApproval
        <3>3. RowBorn(a)
            BY <1>1, <2>1
        <3> QED BY <2>2, <3>1, <3>2, <3>3, Zenon DEF RowBorn
    <2>4. Autos' = Autos \cup {a}
        <3>1. ASSUME NEW b \in Autos', b # a
              PROVE  b \in Autos
            BY <1>1, <2>3, <3>1 DEF RowBorn, Autos
        <3> QED BY <2>1, <3>1, AutosStay
    <2>5. IsFiniteSet(Autos')
        BY <2>4, FS_AddElement DEF RateInv
    <2>6. ASSUME NEW b \in Autos'
          PROVE  Cardinality(Window(b)') <= MAX_PER_DAY
        <3>0. approvals'[b].created \in Nat /\ n.created \in Nat
            BY <2>3, <2>6 DEF Autos, TablesOK, Approvals, NoApproval
        <3>1. CASE a \in Window(b)'
            <4> DEFINE R == AutoRecent(n.lin, n.created)
            <4>1. n.lin = approvals'[b].lin /\ n.created <= approvals'[b].created
                BY <2>2, <3>1 DEF Window
            <4>2. ASSUME NEW x \in Window(b)', x # a
                  PROVE  x \in R
                <5>1. x \in Autos /\ x \in Autos'
                    BY <2>4, <4>2 DEF Window
                <5>2. /\ approvals[x].lin = approvals'[b].lin /\ approvals[x].created \in Nat
                      /\ approvals[x].created > approvals'[b].created - DAY
                    BY <4>2, <5>1, AutosStay DEF Window
                <5>3. approvals[x].created > n.created - DAY
                    BY <1>d, <3>0, <4>1, <5>2
                <5> QED BY <4>1, <5>1, <5>2, <5>3 DEF AutoRecent, Autos
            <4>3. IsFiniteSet(R)
                <5>1. R \subseteq Autos
                    BY DEF AutoRecent, Autos
                <5> QED BY <5>1, FS_Subset DEF RateInv
            <4>4. /\ IsFiniteSet(R \cup {a})
                  /\ Cardinality(R \cup {a}) <= Cardinality(R) + 1
                  /\ Cardinality(R) \in Nat /\ Cardinality(R \cup {a}) \in Nat
                <5>1. IsFiniteSet(R \cup {a}) /\ (Cardinality(R \cup {a}) = Cardinality(R)
                             \/ Cardinality(R \cup {a}) = Cardinality(R) + 1)
                    BY <4>3, FS_AddElement
                <5>2. Cardinality(R) \in Nat
                    BY <4>3, FS_CardinalityType
                <5> HIDE DEF R
                <5> QED BY <5>1, <5>2
            <4>5. Window(b)' \subseteq R \cup {a}
                BY <4>2
            <4>6. /\ Cardinality(Window(b)') <= Cardinality(R \cup {a})
                  /\ IsFiniteSet(Window(b)')
                BY <4>4, <4>5, FS_Subset
            <4>7. Cardinality(Window(b)') \in Nat
                BY <4>6, FS_CardinalityType
            <4>8. Cardinality(R) < MAX_PER_DAY
                BY <2>3
            <4> HIDE DEF R
            <4> QED BY <1>d, <4>4, <4>6, <4>7, <4>8
        <3>2. CASE a \notin Window(b)' /\ b # a
            <4>1. b \in Autos
                BY <2>4, <2>6, <3>2
            <4>2. Window(b)' = Window(b)
                <5>1. ASSUME NEW x \in Window(b)'
                      PROVE  x \in Window(b)
                    BY <2>4, <3>2, <4>1, <5>1, AutosStay DEF Window
                <5>2. ASSUME NEW x \in Window(b)
                      PROVE  x \in Window(b)'
                    BY <4>1, <5>2, AutosStay DEF Window
                <5> QED BY <5>1, <5>2
            <4> QED BY <4>1, <4>2 DEF RateInv
        <3>3. CASE a \notin Window(b)' /\ b = a
            <4>1. DAY = 0
                BY <1>d, <2>1, <2>2, <3>0, <3>3 DEF Window
            <4>2. Window(b)' = {}
                BY <3>0, <4>1, AutosStay, <2>4, <2>2, <3>3 DEF Window
            <4> QED BY <1>d, <4>2, FS_EmptySet
        <3> QED BY <3>1, <3>2, <3>3
    <2> QED BY <2>5, <2>6 DEF RateInv
<1> QED BY <1>2, <1>3

\* No more than MAX_PER_DAY auto-approvals of a lineage fall within a day,
\* for any number of calls and in whatever order they commit.
THEOREM RateBounded == Spec => []AutoRate
<1>1. Init => Inv /\ RateInv
    <2> SUFFICES ASSUME Init PROVE RateInv
        BY InvInit
    <2>1. Autos = {}
        BY DEF Init, Autos, NoApproval
    <2> QED BY <2>1, FS_EmptySet DEF RateInv
<1>2. Inv /\ RateInv /\ [Next]_vars => RateInv'
    BY InvBase, NextKept, RateStep DEF Base, Kept
<1> QED BY <1>1, <1>2, InvNext, RateIsRate, PTL DEF Spec

-----------------------------------------------------------------------------
(* The cap on open requests                                                *)

HostPending == {r \in Pending : requests[r].sub.admin = NoAdmin}

\* The calls that have counted and not yet inserted.
Counted == {t \in Tasks : task[t].pc = "pending" /\ task[t].sub.admin = NoAdmin}

CapInv ==
    /\ IsFiniteSet(Pending)
    /\ Cardinality(HostPending) + Cardinality(Counted)
          < MAX_PENDING_PER_HOST + Cardinality(Tasks)

LEMMA CapSizes ==
    ASSUME IsFiniteSet(Pending)
    PROVE  /\ IsFiniteSet(HostPending) /\ IsFiniteSet(Counted)
           /\ Cardinality(HostPending) \in Nat /\ Cardinality(HostPending) <= Cardinality(Pending)
           /\ Cardinality(Counted) \in Nat /\ Cardinality(Counted) <= Cardinality(Tasks)
           /\ Cardinality(Pending) \in Nat /\ Cardinality(Tasks) \in Nat
<1>1. HostPending \subseteq Pending /\ Counted \subseteq Tasks
    BY DEF HostPending, Counted
<1>2. IsFiniteSet(Tasks)
    BY AppLedgerAssumption
<1>3. /\ IsFiniteSet(HostPending) /\ Cardinality(HostPending) <= Cardinality(Pending)
      /\ IsFiniteSet(Counted) /\ Cardinality(Counted) <= Cardinality(Tasks)
    BY <1>1, <1>2, FS_Subset
<1> QED BY <1>2, <1>3, FS_CardinalityType

LEMMA CapIsCap == CapInv => PendingCap
<1> SUFFICES ASSUME CapInv PROVE PendingCap
    OBVIOUS
<1>1. /\ Cardinality(HostPending) \in Nat /\ Cardinality(Counted) \in Nat
      /\ Cardinality(Tasks) \in Nat /\ MAX_PENDING_PER_HOST \in Nat
    BY CapSizes, AppLedgerAssumption DEF CapInv
<1>2. Cardinality(HostPending) < MAX_PENDING_PER_HOST + Cardinality(Tasks)
    BY <1>1 DEF CapInv
<1> QED BY <1>2 DEF PendingCap, HostPending

\* A step that opens no request of a host and lets no call through the count.
Closes ==
    /\ IsFiniteSet(Pending')
    /\ HostPending' \subseteq HostPending
    /\ Counted' \subseteq Counted

LEMMA ClosesStep ==
    ASSUME CapInv, Closes
    PROVE  CapInv'
<1>1. /\ IsFiniteSet(HostPending) /\ Cardinality(HostPending) \in Nat
      /\ IsFiniteSet(Counted) /\ Cardinality(Counted) \in Nat
      /\ Cardinality(Tasks) \in Nat /\ MAX_PENDING_PER_HOST \in Nat
    BY CapSizes, AppLedgerAssumption DEF CapInv
<1>2. /\ IsFiniteSet(HostPending') /\ Cardinality(HostPending') <= Cardinality(HostPending)
      /\ IsFiniteSet(Counted') /\ Cardinality(Counted') <= Cardinality(Counted)
    BY <1>1, FS_Subset DEF Closes
<1>3. Cardinality(HostPending') \in Nat /\ Cardinality(Counted') \in Nat
    BY <1>2, FS_CardinalityType
<1> QED BY <1>1, <1>2, <1>3 DEF CapInv, Closes

\* A request that leaves the open ones, or none.
LEMMA FewerPending ==
    ASSUME CapInv,
           \A r \in RequestIds : requests'[r].state = "pending" => requests'[r] = requests[r]
    PROVE  IsFiniteSet(Pending') /\ HostPending' \subseteq HostPending
<1>1. Pending' \subseteq Pending
    BY DEF Pending
<1>2. IsFiniteSet(Pending')
    BY <1>1, FS_Subset DEF CapInv
<1> QED BY <1>2 DEF HostPending, Pending

\* A call that goes somewhere else than past the count.
LEMMA FewerCounted ==
    ASSUME TypeOK, NEW t \in Tasks, NEW c, Goto(t, c),
           ~ (c.pc = "pending" /\ c.sub.admin = NoAdmin)
    PROVE  Counted' \subseteq Counted
BY DEF TypeOK, Goto, Counted

LEMMA ReturnCounted ==
    ASSUME TypeOK, NEW t \in Tasks, Return(t)
    PROVE  Counted' \subseteq Counted
BY FewerCounted DEF Return, Idle

LEMMA SameCounted ==
    ASSUME UNCHANGED task
    PROVE  Counted' \subseteq Counted
BY DEF Counted

LEMMA BeginCloses ==
    ASSUME Base, CapInv, NEW t \in Tasks, Begin(t)
    PROVE  Closes
<1>0. TypeOK
    BY DEF Base
<1>1. ASSUME NEW sub, BeginSubmit(t, sub)
      PROVE  Counted' \subseteq Counted
    BY <1>0, <1>1, FewerCounted DEF BeginSubmit
<1>2. ASSUME NEW sub, NEW terms, BeginRegister(t, sub, terms)
      PROVE  Counted' \subseteq Counted
    BY <1>0, <1>2, FewerCounted DEF BeginRegister
<1>3. ASSUME NEW admin, NEW r, NEW ch, NEW ids, BeginApprove(t, admin, r, ch, ids)
      PROVE  Counted' \subseteq Counted
    BY <1>0, <1>3, FewerCounted DEF BeginApprove
<1>4. ASSUME NEW a, BeginRevoke(t, a) \/ BeginExpire(t, a)
      PROVE  Counted' \subseteq Counted
    BY <1>0, <1>4, FewerCounted DEF BeginRevoke, BeginExpire
<1>5. ASSUME NEW a, NEW e, BeginUpdate(t, a, e)
      PROVE  Counted' \subseteq Counted
    BY <1>0, <1>5, FewerCounted DEF BeginUpdate
<1>6. Counted' \subseteq Counted
    BY <1>1, <1>2, <1>3, <1>4, <1>5 DEF Begin
<1>7. UNCHANGED requests
    BY DEF Begin, BeginSubmit, BeginRegister, BeginApprove, BeginRevoke, BeginExpire, BeginUpdate
<1> QED BY <1>6, <1>7, FewerPending DEF Closes

LEMMA ObserveCloses ==
    ASSUME Base, CapInv, NEW t \in Tasks, Observe(t)
    PROVE  Closes
<1>1. PICK c : c = task[t]
    OBVIOUS
<1>2. CallOK(c) /\ c.pc = "observe"
    BY <1>1 DEF Base, CallsOK, Observe
<1>3. PICK d : /\ Goto(t, d)
               /\ d = IF c.sub.admin # NoAdmin
                      THEN [c EXCEPT !.pc = IF StrictSod THEN "pending" ELSE "register"]
                      ELSE IF AutoUpdate
                      THEN [pc |-> "parent", now |-> c.now, sub |-> c.sub, tries |-> 1]
                      ELSE [pc |-> "count", now |-> c.now, sub |-> c.sub]
    BY <1>1 DEF Observe
<1>4. ~ (d.pc = "pending" /\ d.sub.admin = NoAdmin)
    BY <1>2, <1>3, AtObserve
<1>5. Counted' \subseteq Counted
    BY <1>3, <1>4, FewerCounted DEF Base
<1> QED BY <1>5, FewerPending DEF Closes, Observe

LEMMA TryAutoCloses ==
    ASSUME Base, CapInv, NEW t \in Tasks, TryAutoApprove(t)
    PROVE  Closes
<1>1. PICK c : c = task[t]
    OBVIOUS
<1>2. TypeOK
    BY DEF Base
<1>3. \/ Return(t)
      \/ Goto(t, [pc |-> "parent", now |-> c.now, sub |-> c.sub, tries |-> c.tries + 1])
      \/ Goto(t, [pc |-> "count", now |-> c.now, sub |-> c.sub])
    BY <1>1, TryAutoCases, Zenon DEF Refuse
<1>4. Counted' \subseteq Counted
    <2>1. CASE Return(t)
        BY <1>2, <2>1, ReturnCounted
    <2>2. CASE Goto(t, [pc |-> "parent", now |-> c.now, sub |-> c.sub, tries |-> c.tries + 1])
        BY <1>2, <2>2, FewerCounted
    <2>3. CASE Goto(t, [pc |-> "count", now |-> c.now, sub |-> c.sub])
        BY <1>2, <2>3, FewerCounted
    <2> QED BY <1>3, <2>1, <2>2, <2>3
<1>5. \A r \in RequestIds : requests'[r].state = "pending" => requests'[r] = requests[r]
    <2>1. CASE UNCHANGED requests
        BY <2>1
    <2>2. CASE \E r \in RequestIds, a \in ApprovalIds :
                  requests' = [requests EXCEPT ![r] = NewRequest(task[t].sub, "auto_approved",
                                                                 task[t].now, task[t].now, a)]
        BY <2>2 DEF NewRequest, Base, TablesOK
    <2> QED BY <2>1, <2>2, Zenon DEF TryAutoApprove, Refuse
<1> QED BY <1>4, <1>5, FewerPending DEF Closes

LEMMA RegisterCloses ==
    ASSUME Base, CapInv, NEW t \in Tasks, RegisterAndApprove(t)
    PROVE  Closes
<1>1. Return(t)
    BY DEF RegisterAndApprove, Refuse
<1>2. \A r \in RequestIds : requests'[r].state = "pending" => requests'[r] = requests[r]
    <2>1. CASE UNCHANGED requests
        BY <2>1
    <2>2. CASE \E r \in RequestIds, a \in ApprovalIds :
                  requests' = [requests EXCEPT ![r] =
                                 NewRequest(task[t].sub, "approved", task[t].now, task[t].now, a)]
        BY <2>2 DEF NewRequest, Base, TablesOK
    <2> QED BY <2>1, <2>2, Zenon DEF RegisterAndApprove, Refuse
<1> QED BY <1>1, <1>2, FewerPending, ReturnCounted DEF Closes, Base

LEMMA ApproveCloses ==
    ASSUME Base, CapInv, NEW t \in Tasks, Approve(t)
    PROVE  Closes
<1>1. Return(t)
    BY Zenon DEF Approve, Refuse
<1>2. \A r \in RequestIds : requests'[r].state = "pending" => requests'[r] = requests[r]
    <2>1. CASE UNCHANGED requests
        BY <2>1
    <2>2. CASE \E a \in ApprovalIds :
                  /\ task[t].req \in Pending
                  /\ requests' = [requests EXCEPT ![task[t].req].state = "approved",
                                                  ![task[t].req].decided = task[t].now,
                                                  ![task[t].req].approval = a]
        <3>1. PICK q, d, a : /\ q \in RequestIds /\ requests[q] \in Requests
                             /\ requests' = [requests EXCEPT ![q].state = "approved",
                                                             ![q].decided = d,
                                                             ![q].approval = a]
            BY <2>2, RequestTyped DEF Pending, Base
        <3>2. requests'[q].state = "approved"
              /\ \A r \in RequestIds \ {q} : requests'[r] = requests[r]
            BY <3>1 DEF Base, TablesOK, Requests
        <3> QED BY <3>2
    <2> QED BY <2>1, <2>2, Zenon DEF Approve, Refuse, ApproveOk
<1> QED BY <1>1, <1>2, FewerPending, ReturnCounted DEF Closes, Base

LEMMA DecideCloses ==
    ASSUME Base, CapInv, UNCHANGED task, NEW r \in Pending, NEW s \in RequestStates \ {"pending"},
           requests' = [requests EXCEPT ![r].state = s, ![r].decided = clock]
    PROVE  Closes
<1>1. r \in RequestIds /\ requests[r] \in Requests
    BY RequestTyped DEF Base, Pending
<1>2. requests'[r].state = s /\ \A q \in RequestIds \ {r} : requests'[q] = requests[q]
    BY <1>1 DEF Base, TablesOK, Requests
<1>3. s # "pending"
    OBVIOUS
<1>4. \A q \in RequestIds : requests'[q].state = "pending" => requests'[q] = requests[q]
    BY <1>2, <1>3
<1> QED BY <1>4, FewerPending, SameCounted DEF Closes

\* A call passes the count only while the host is below its cap, and then no
\* more calls than there are can be past it.
LEMMA CountCap ==
    ASSUME Base, CapInv, NEW t \in Tasks, CountPending(t)
    PROVE  CapInv'
<1>1. requests' = requests /\ Pending' = Pending /\ HostPending' = HostPending
    BY DEF CountPending, Pending, HostPending
<1>2. CASE Return(t)
    <2>1. Closes
        BY <1>1, <1>2, ReturnCounted DEF Closes, Base, CapInv
    <2> QED BY <2>1, ClosesStep
<1>3. CASE Cardinality(Pending) < MAX_PENDING_PER_HOST
    <2>1. /\ Cardinality(HostPending) \in Nat /\ Cardinality(HostPending) <= Cardinality(Pending)
          /\ Cardinality(Pending) \in Nat /\ Cardinality(Tasks) \in Nat
          /\ MAX_PENDING_PER_HOST \in Nat /\ IsFiniteSet(Tasks)
        BY CapSizes, AppLedgerAssumption DEF CapInv
    <2>2. Counted' \subseteq Tasks
        BY DEF Counted
    <2>3. IsFiniteSet(Counted') /\ Cardinality(Counted') <= Cardinality(Tasks)
        BY <2>1, <2>2, FS_Subset
    <2>4. Cardinality(Counted') \in Nat
        BY <2>3, FS_CardinalityType
    <2>5. Cardinality(HostPending) + Cardinality(Counted')
             < MAX_PENDING_PER_HOST + Cardinality(Tasks)
        BY <1>3, <2>1, <2>3, <2>4
    <2> QED BY <1>1, <2>5 DEF CapInv
<1> QED BY <1>2, <1>3 DEF CountPending

\* An insertion uses up one call that has counted, or is an administrator's.
LEMMA SubmitCap ==
    ASSUME Base, CapInv, NEW t \in Tasks, SubmitPending(t)
    PROVE  CapInv'
<1>1. PICK c : c = task[t]
    OBVIOUS
<1>2. c.now \in Nat /\ c.sub \in Submissions /\ c.pc = "pending"
    BY <1>1, AtPending DEF Base, CallsOK, SubmitPending
<1>3. CASE Refuse(t)
    <2>1. Closes
        BY <1>3, FewerPending, ReturnCounted DEF Closes, Base, Refuse
    <2> QED BY <2>1, ClosesStep
<1>4. ASSUME NEW r \in RequestIds \ Recorded,
             requests' = [requests EXCEPT ![r] = NewRequest(c.sub, "pending", c.now, 0, NoId)],
             Return(t)
      PROVE  CapInv'
    <2>1. /\ r \in RequestIds /\ r \notin Pending
          /\ requests'[r].sub = c.sub /\ requests'[r].state = "pending"
          /\ \A s \in RequestIds \ {r} : requests'[s] = requests[s]
        BY <1>4 DEF Recorded, Pending, NewRequest, Base, TablesOK
    <2>2. Pending' = Pending \cup {r}
        BY <2>1 DEF Pending
    <2>3. IsFiniteSet(Pending')
        BY <2>2, FS_AddElement DEF CapInv
    <2>4. Counted' = Counted \ {t}
        <3>1. /\ task'[t] = Idle /\ \A u \in Tasks \ {t} : task'[u] = task[u]
            BY <1>4 DEF Return, Goto, Base, TypeOK
        <3> QED BY <3>1 DEF Counted, Idle
    <2>5. CASE c.sub.admin = NoAdmin
        <3>1. t \in Counted
            BY <1>1, <1>2, <2>5 DEF Counted
        <3>2. HostPending' = HostPending \cup {r} /\ r \notin HostPending
            BY <2>1, <2>2, <2>5 DEF HostPending, Pending
        <3>3. /\ IsFiniteSet(HostPending) /\ IsFiniteSet(Counted)
              /\ Cardinality(HostPending) \in Nat /\ Cardinality(Counted) \in Nat
            BY CapSizes DEF CapInv
        <3>4. Cardinality(HostPending') = Cardinality(HostPending) + 1
            BY <3>2, <3>3, FS_AddElement
        <3>5. Cardinality(Counted') = Cardinality(Counted) - 1
            BY <2>4, <3>1, <3>3, FS_RemoveElement
        <3> QED BY <2>3, <3>3, <3>4, <3>5 DEF CapInv
    <2>6. CASE c.sub.admin # NoAdmin
        <3>1. HostPending' \subseteq HostPending
            BY <2>1, <2>2, <2>6 DEF HostPending, Pending
        <3>2. Counted' \subseteq Counted
            BY <2>4
        <3> QED BY <2>3, <3>1, <3>2, ClosesStep DEF Closes
    <2> QED BY <2>5, <2>6
<1> QED BY <1>1, <1>3, <1>4 DEF SubmitPending

LEMMA CapStep ==
    ASSUME Base, CapInv, [Next]_vars
    PROVE  CapInv'
<1>1. CASE UNCHANGED vars \/ Tick \/ \E lin \in Lineages : SetFrozen(lin)
    <2>1. UNCHANGED <<requests, task>>
        BY <1>1 DEF vars, Tick, SetFrozen
    <2>2. Closes
        BY <2>1, FewerPending, SameCounted DEF Closes
    <2> QED BY <2>2, ClosesStep
<1>2. ASSUME NEW t \in Tasks, Begin(t)
      PROVE  CapInv'
    BY <1>2, BeginCloses, ClosesStep
<1>3. ASSUME NEW t \in Tasks, Step(t)
      PROVE  CapInv'
    <2>1. CASE Observe(t) \/ TryAutoApprove(t) \/ RegisterAndApprove(t) \/ Approve(t)
        BY <2>1, ObserveCloses, TryAutoCloses, RegisterCloses, ApproveCloses, ClosesStep
    <2>2. CASE CountPending(t) \/ SubmitPending(t)
        BY <2>2, CountCap, SubmitCap
    <2>3. CASE Revoke(t) \/ ExpireApproval(t) \/ UpdateApproval(t)
        <3>1. Return(t) /\ UNCHANGED requests
            BY <2>3, Zenon DEF Revoke, ExpireApproval, UpdateApproval, Refuse, Write
        <3>2. Closes
            BY <3>1, FewerPending, ReturnCounted DEF Closes, Base
        <3> QED BY <3>2, ClosesStep
    <2>4. CASE ReadParent(t)
        <3>1. Counted' \subseteq Counted
            BY <2>4, FewerCounted DEF ReadParent, Base
        <3>2. Closes
            BY <2>4, <3>1, FewerPending DEF Closes, ReadParent
        <3> QED BY <3>2, ClosesStep
    <2>5. CASE ReadForUpdate(t)
        <3>1. Counted' \subseteq Counted
            BY <2>5, FewerCounted, ReturnCounted DEF ReadForUpdate, Base
        <3>2. Closes
            BY <2>5, <3>1, FewerPending DEF Closes, ReadForUpdate
        <3> QED BY <3>2, ClosesStep
    <2> QED BY <1>3, <2>1, <2>2, <2>3, <2>4, <2>5 DEF Step
<1>4. ASSUME NEW r \in RequestIds, NEW admin \in Admins, Deny(admin, r)
      PROVE  CapInv'
    <2>1. "denied" \in RequestStates \ {"pending"}
        BY DEF RequestStates
    <2>2. /\ r \in Pending /\ UNCHANGED task
          /\ requests' = [requests EXCEPT ![r].state = "denied", ![r].decided = clock]
        BY <1>4 DEF Deny
    <2>3. Closes
        BY <2>1, <2>2, DecideCloses, Zenon
    <2> QED BY <2>3, ClosesStep
<1>5. ASSUME NEW r \in RequestIds, ExpireRequest(r)
      PROVE  CapInv'
    <2>1. "expired" \in RequestStates \ {"pending"}
        BY DEF RequestStates
    <2>2. /\ r \in Pending /\ UNCHANGED task
          /\ requests' = [requests EXCEPT ![r].state = "expired", ![r].decided = clock]
        BY <1>5 DEF ExpireRequest
    <2>3. Closes
        BY <2>1, <2>2, DecideCloses, Zenon
    <2> QED BY <2>3, ClosesStep
<1> QED BY <1>1, <1>2, <1>3, <1>4, <1>5 DEF Next

\* The caps of the intake, read before the transaction that inserts, are
\* overrun by fewer requests than there are calls in flight.
THEOREM CapOverrunBounded == Spec => []PendingCap
<1>1. Init => Inv /\ CapInv
    <2> SUFFICES ASSUME Init PROVE CapInv
        BY InvInit
    <2>1. Pending = {} /\ HostPending = {} /\ Counted = {}
        BY DEF Init, Pending, HostPending, Counted, NoRequest, Idle
    <2>2. Cardinality(Tasks) \in Nat /\ Cardinality(Tasks) # 0 /\ MAX_PENDING_PER_HOST \in Nat
        BY FS_CardinalityType, FS_EmptySet, AppLedgerAssumption
    <2>3. IsFiniteSet({}) /\ Cardinality({}) = 0
        BY FS_EmptySet
    <2> QED BY <2>1, <2>2, <2>3 DEF CapInv
<1>2. Inv /\ CapInv /\ [Next]_vars => CapInv'
    BY InvBase, CapStep
<1> QED BY <1>1, <1>2, InvNext, CapIsCap, PTL DEF Spec
=============================================================================

------------------------------ MODULE AppLedger ------------------------------
(***************************************************************************)
(* The app approval ledger of one host: intake of requests, auto-update    *)
(* approvals, the decisions of administrators, edits, revocations and the  *)
(* expiry sweep (ferro-raft/src/apps, with the handlers of                 *)
(* cmis/src/apps/intake.rs, cmis/src/admin/apps.rs and apps/sweep.rs).     *)
(*                                                                         *)
(* A ledger transaction is atomic, and its guard, run inside it, refuses   *)
(* all of it or none.  What a handler read before its transaction is not:  *)
(* `task` holds it, and every other call may commit in between.  A refusal *)
(* changes nothing.  `now` is the clock of the node that runs the call,    *)
(* read when the call began.                                               *)
(*                                                                         *)
(* One host; a lineage is one of its paths.  A user stands for the kind,   *)
(* uid, SID and name of its identity; notes, reasons and the wildcard hash *)
(* of imported approvals are left out, and so are expected row versions of *)
(* a client that only refuse the call.                                     *)
(***************************************************************************)
EXTENDS Integers, Sequences, FiniteSets

CONSTANTS
    RequestIds, ApprovalIds, Lineages, Shas, Users, Admins, Tasks,
    Signer,          \* the valid signer of a binary, or NoSigner
    Submissions,     \* the documents hosts and administrators send
    Terms, Edits,    \* the terms and edits administrators choose from
    AutoUpdate,      \* CMIS_APP_AUTO_UPDATE and the tier of the host allow it
    StrictSod,       \* CMIS_ADMIN_STRICT_SOD
    MAX_PER_DAY, DAY,
    COOLDOWN,        \* CMIS_APP_DENIED_COOLDOWN_SECS, 0 when off
    PENDING_TTL, MAX_PENDING_PER_HOST, MAX_PENDING_PER_USER,
    Ops,             \* bound: the operations an instance runs
    MaxTime,         \* bound: the clock
    MaxVersion,      \* bound: the row version an edit may reach
    MaxAlsoRevoke    \* bound: approvals revoked along with a decision

NoId    == "no_id"  \* NULL in a column that names an approval
Never   == 0        \* expires_at is NULL; every expiry is in the future when set
AnyUser == "any_user"
NoAdmin == "no_admin"
NoSigner == "no_signer"
Keep    == "keep"
KeepExpiry == -1

Submission == [client : Nat, lin : Lineages, sha : Shas, user : Users,
               protected : BOOLEAN, admin : Admins \cup {NoAdmin}]
Term == [user : {"exact", "any"}, path : {"exact", "any"}, policy : {"manual", "auto"},
         continuity : {"anchored", "path_user"}, ttl : Nat]
Edit == [policy : {"manual", "auto", Keep}, continuity : {"anchored", "path_user", Keep},
         ttl : Nat \cup {KeepExpiry}, narrowUser : BOOLEAN, narrowPath : BOOLEAN]

ASSUME AppLedgerAssumption ==
    /\ NoId \notin ApprovalIds
    /\ IsFiniteSet(Tasks) /\ Tasks # {}
    /\ Submissions \subseteq Submission /\ Terms \subseteq Term /\ Edits \subseteq Edit
    /\ AnyUser \notin Users /\ NoAdmin \notin Admins
    /\ Signer \in [Shas -> STRING]
    /\ {AutoUpdate, StrictSod} \subseteq BOOLEAN
    /\ {MAX_PER_DAY, DAY, COOLDOWN, PENDING_TTL, MAX_PENDING_PER_HOST, MAX_PENDING_PER_USER,
        MaxTime, MaxVersion, MaxAlsoRevoke} \subseteq Nat

AUTO_ATTEMPTS == 3

VARIABLES
    clock,
    binaries,    \* per lineage, its binaries in the order of their revisions
    frozen,      \* the lineages whose auto-update is frozen
    requests,    \* app_requests; NoRequest while an id is unused
    approvals,   \* app_approvals; NoApproval while an id is unused
    revisions,   \* app_approval_revisions of each approval
    generation,  \* of the host's allowlist; 0 before the first change
    task         \* what a call in flight works with

vars == <<clock, binaries, frozen, requests, approvals, revisions, generation, task>>

-----------------------------------------------------------------------------
(* Rows                                                                    *)

NoRequest == [state |-> "none"]
RequestStates == {"pending", "approved", "auto_approved", "denied", "expired"}

\* A request names its submission and, once decided, when and the approval.
Requests == [state : RequestStates, sub : Submissions, expires : Nat, decided : Nat,
             approval : ApprovalIds \cup {NoId}]

NoApproval == [state |-> "none"]

Approvals ==
    [state : {"active", "expired", "revoked"}, lin : Lineages, sha : Shas,
     source : RequestIds, origin : {"manual", "auto_update"},
     parent : ApprovalIds \cup {NoId}, user : Users \cup {AnyUser}, path : {"exact", "any"},
     policy : {"manual", "auto"}, continuity : {"anchored", "path_user"},
     created : Nat, expires : Nat, superseded : ApprovalIds \cup {NoId}, version : Nat]

\* What a revision record keeps of an approval (ApprovalSnapshot::of).
Snapshot(a) == [state |-> a.state, policy |-> a.policy, continuity |-> a.continuity,
                expires |-> a.expires, user |-> a.user, path |-> a.path]

Snapshots == [state : {"active", "expired", "revoked"}, policy : {"manual", "auto"},
              continuity : {"anchored", "path_user"}, expires : Nat,
              user : Users \cup {AnyUser}, path : {"exact", "any"}]

\* The record of a change, before and after it.
Change(before, after) == <<Snapshot(before), Snapshot(after)>>

\* A creation has no before; the snapshot stands in both places.
Created(a) == <<Snapshot(a), Snapshot(a)>>

Unexpired(a, now) == a.expires = Never \/ a.expires > now
Expiry(now, ttl)  == IF ttl = Never THEN Never ELSE now + ttl

Active   == {a \in ApprovalIds : approvals[a].state = "active"}
Pending  == {r \in RequestIds : requests[r].state = "pending"}
Recorded == {r \in RequestIds : requests[r].state # "none"}

\* The revision of a binary is its place in its lineage.
RevisionOf(lin, sha) == CHOOSE i \in 1 .. Len(binaries[lin]) : binaries[lin][i] = sha

\* F19 5.2: host, path, user and hash.
DedupKey(sub) == <<sub.lin, sub.user, sub.sha>>

Larger(m, n) == IF m >= n THEN m ELSE n

Bumped(now) == Larger(generation + 1, now)

\* An approval decision makes a new approval or reuses one.
Choices == [new : {TRUE}, terms : Terms] \cup [new : {FALSE}, id : ApprovalIds]

\* What a call in flight works with: its clock, its arguments, and what it
\* has read.
Idle == [pc |-> "idle"]

Calls ==
    {Idle}
    \cup [pc : {"observe", "count", "pending"}, now : Nat, sub : Submissions]
    \cup [pc : {"observe", "pending", "register"}, now : Nat, sub : Submissions, terms : Terms]
    \cup [pc : {"parent"}, now : Nat, sub : Submissions, tries : Nat]
    \cup [pc : {"auto"}, now : Nat, sub : Submissions, tries : Nat,
          parent : ApprovalIds \cup {NoId}, row : Approvals \cup {NoApproval}]
    \cup [pc : {"approve"}, now : Nat, admin : Admins, req : RequestIds, choice : Choices,
          rows : [ApprovalIds -> Approvals \cup {NoApproval}]]
    \cup [pc : {"revoke", "expire"}, now : Nat, id : ApprovalIds, row : Approvals]
    \cup [pc : {"edit"}, now : Nat, id : ApprovalIds, edit : Edits]
    \cup [pc : {"update"}, now : Nat, id : ApprovalIds, row : Approvals, after : Approvals]

-----------------------------------------------------------------------------
Tick ==
    /\ clock < MaxTime
    /\ clock' = clock + 1
    /\ UNCHANGED <<binaries, frozen, requests, approvals, revisions, generation, task>>

Goto(t, call)  == task' = [task EXCEPT ![t] = call]
Return(t)      == Goto(t, Idle)
Refuse(t)      == Return(t) /\ UNCHANGED <<requests, approvals, revisions, generation>>

-----------------------------------------------------------------------------
(* Deduplication                                                           *)

Replayed(sub) == \E r \in Recorded : requests[r].sub.client = sub.client

Covers(a, sub, now) ==
    /\ approvals[a].state = "active" /\ Unexpired(approvals[a], now)
    /\ approvals[a].sha = sub.sha
    /\ approvals[a].lin = sub.lin \/ approvals[a].path = "any"
    /\ approvals[a].user \in {AnyUser, sub.user}

DuplicatePending(sub) == \E r \in Pending : DedupKey(requests[r].sub) = DedupKey(sub)

\* The cool-down is off for an administrator's registration.
DeniedRecently(sub, now) ==
    /\ COOLDOWN > 0 /\ sub.admin = NoAdmin
    /\ \E r \in RequestIds :
          /\ requests[r].state = "denied" /\ DedupKey(requests[r].sub) = DedupKey(sub)
          /\ requests[r].decided >= now - COOLDOWN

\* intake_checks!: a submission that no existing record answers.
IntakeOk(sub, now) ==
    /\ ~ Replayed(sub)
    /\ ~ \E a \in ApprovalIds : Covers(a, sub, now)
    /\ ~ DuplicatePending(sub)
    /\ ~ DeniedRecently(sub, now)

NewRequest(sub, state, now, decided, a) ==
    [state |-> state, sub |-> sub, expires |-> now + PENDING_TTL,
     decided |-> decided, approval |-> a]

-----------------------------------------------------------------------------
(* Intake                                                                  *)

\* AnyUser with auto-update is for protected paths only (check_wide_auto).
WideAutoAllowed(user, policy, sub) == user = "any" /\ policy = "auto" => sub.protected

\* The handlers look for a covering approval only where the path is known.
KnownCovered(sub, now) ==
    binaries[sub.lin] # <<>> /\ \E a \in ApprovalIds : Covers(a, sub, now)

\* `submit` up to its first write.  Its reads are one step: each only ends
\* the call early, and the guard of its transaction makes them again.
BeginSubmit(t, sub) ==
    /\ task[t] = Idle
    /\ sub.admin = NoAdmin
    /\ ~ Replayed(sub)
    /\ ~ KnownCovered(sub, clock)
    /\ ~ DuplicatePending(sub)
    /\ Goto(t, [pc |-> "observe", now |-> clock, sub |-> sub])
    /\ UNCHANGED <<clock, binaries, frozen, requests, approvals, revisions, generation>>

\* AdminRegisterApplication up to its first write.
BeginRegister(t, sub, terms) ==
    /\ task[t] = Idle
    /\ sub.admin # NoAdmin
    /\ ~ Replayed(sub)
    /\ WideAutoAllowed(terms.user, terms.policy, sub)
    /\ ~ KnownCovered(sub, clock)
    /\ Goto(t, [pc |-> "observe", now |-> clock, sub |-> sub, terms |-> terms])
    /\ UNCHANGED <<clock, binaries, frozen, requests, approvals, revisions, generation>>

\* app_observe_binary: a binary new to the lineage takes its next revision.
Observe(t) ==
    LET c   == task[t]
        old == binaries[c.sub.lin]
    IN  /\ c.pc = "observe"
        /\ binaries' = [binaries EXCEPT ![c.sub.lin] =
                           IF \E i \in 1 .. Len(old) : old[i] = c.sub.sha
                           THEN old ELSE Append(old, c.sub.sha)]
        /\ Goto(t, IF c.sub.admin # NoAdmin
                   THEN [c EXCEPT !.pc = IF StrictSod THEN "pending" ELSE "register"]
                   ELSE IF AutoUpdate
                   THEN [pc |-> "parent", now |-> c.now, sub |-> c.sub, tries |-> 1]
                   ELSE [pc |-> "count", now |-> c.now, sub |-> c.sub])
        /\ UNCHANGED <<clock, frozen, requests, approvals, revisions, generation>>

AutoParents(lin, now) ==
    {a \in Active : /\ approvals[a].lin = lin /\ approvals[a].policy = "auto"
                    /\ Unexpired(approvals[a], now)}

\* app_auto_parent: the newest active auto-update approval of the lineage.
\* Of approvals of one revision and one second the code takes the highest
\* id; here any of them may be it.
IsAutoParent(a, lin, now) ==
    /\ a \in AutoParents(lin, now)
    /\ \A b \in AutoParents(lin, now) :
          LET r == RevisionOf(lin, approvals[a].sha)
              s == RevisionOf(lin, approvals[b].sha)
          IN  r > s \/ (r = s /\ approvals[a].created >= approvals[b].created)

ReadParent(t) ==
    LET c == task[t] IN
    /\ c.pc = "parent"
    /\ \/ \E a \in ApprovalIds :
             /\ IsAutoParent(a, c.sub.lin, c.now)
             /\ Goto(t, [pc |-> "auto", now |-> c.now, sub |-> c.sub, tries |-> c.tries,
                         parent |-> a, row |-> approvals[a]])
       \/ /\ AutoParents(c.sub.lin, c.now) = {}
          /\ Goto(t, [pc |-> "auto", now |-> c.now, sub |-> c.sub, tries |-> c.tries,
                      parent |-> NoId, row |-> NoApproval])
    /\ UNCHANGED <<clock, binaries, frozen, requests, approvals, revisions, generation>>

\* AUTO_GUARD after the intake checks: the parent is still the one that was
\* read, at the version that was read.
ParentCurrent(c) ==
    /\ c.parent # NoId
    /\ IsAutoParent(c.parent, c.sub.lin, c.now)
    /\ approvals[c.parent].version = c.row.version

\* Mutant: an approval for any user carries over from any path.
AutoAnyUser(p, sub) == p.user \in {sub.user, AnyUser}

AutoUserOk(p, sub) == p.user = sub.user \/ (p.user = AnyUser /\ sub.protected)

AutoAnchored(p, sub) ==
    \/ p.continuity = "path_user" \/ sub.protected
    \/ Signer[sub.sha] = Signer[p.sha] /\ Signer[p.sha] # NoSigner

\* Mutant: auto-approvals of the past are left out when the clock is behind.
AutoRecentPast(lin, now) ==
    {a \in ApprovalIds : /\ approvals[a].state # "none" /\ approvals[a].lin = lin
                         /\ approvals[a].origin = "auto_update"
                         /\ approvals[a].created \in now - DAY + 1 .. now}

AutoRecent(lin, now) ==
    {a \in ApprovalIds : /\ approvals[a].state # "none" /\ approvals[a].lin = lin
                         /\ approvals[a].origin = "auto_update"
                         /\ approvals[a].created > now - DAY}

AutoEligible(p, sub, now) ==
    /\ sub.lin \notin frozen
    /\ AutoUserOk(p, sub)
    /\ AutoAnchored(p, sub)
    /\ ~ \E a \in ApprovalIds : /\ approvals[a].state = "revoked"
                                /\ approvals[a].lin = sub.lin /\ approvals[a].sha = sub.sha
    /\ ~ \E r \in RequestIds : /\ requests[r].state = "denied"
                               /\ requests[r].sub.lin = sub.lin /\ requests[r].sub.sha = sub.sha
    /\ Cardinality(AutoRecent(sub.lin, now)) < MAX_PER_DAY

\* Mutant: the child runs for as long as its parent did, from now.
ChildOfAfresh(p, parent, sub, r, now) ==
    [p EXCEPT !.state = "active", !.sha = sub.sha, !.source = r, !.origin = "auto_update",
              !.parent = parent, !.created = now, !.superseded = NoId, !.version = 1,
              !.expires = IF @ = Never THEN Never ELSE now + (@ - p.created)]

\* child_of: all that scopes the parent is copied, its expiry too.
ChildOf(p, parent, sub, r, now) ==
    [p EXCEPT !.state = "active", !.sha = sub.sha, !.source = r, !.origin = "auto_update",
              !.parent = parent, !.created = now, !.superseded = NoId, !.version = 1]

\* One attempt of app_try_auto_approve.  The row is copied from the parent
\* inside the transaction, its creation snapshot from the parent as read.
TryAutoApprove(t) ==
    LET c == task[t]
        p == approvals[c.parent]
    IN  /\ c.pc = "auto"
        /\ \/ ~ IntakeOk(c.sub, c.now) /\ Refuse(t)
           \/ /\ IntakeOk(c.sub, c.now) /\ AutoParents(c.sub.lin, c.now) # {}
              /\ ~ ParentCurrent(c)
              /\ IF c.tries < AUTO_ATTEMPTS
                 THEN Goto(t, [pc |-> "parent", now |-> c.now, sub |-> c.sub,
                               tries |-> c.tries + 1])
                 ELSE Return(t)
              /\ UNCHANGED <<requests, approvals, revisions, generation>>
           \/ /\ IntakeOk(c.sub, c.now)
              /\ \/ AutoParents(c.sub.lin, c.now) = {}
                 \/ ParentCurrent(c) /\ ~ AutoEligible(p, c.sub, c.now)
              /\ Goto(t, [pc |-> "count", now |-> c.now, sub |-> c.sub])
              /\ UNCHANGED <<requests, approvals, revisions, generation>>
           \/ /\ IntakeOk(c.sub, c.now) /\ ParentCurrent(c) /\ AutoEligible(p, c.sub, c.now)
              /\ \E r \in RequestIds \ Recorded, a \in ApprovalIds :
                    /\ approvals[a].state = "none"
                    /\ approvals' =
                         [approvals EXCEPT
                            ![a] = ChildOf(p, c.parent, c.sub, r, c.now),
                            ![c.parent].superseded =
                               IF @ = NoId /\ RevisionOf(p.lin, p.sha) < RevisionOf(p.lin, c.sub.sha)
                               THEN a ELSE @]
                    /\ revisions' = [revisions EXCEPT ![a] =
                                        <<Created(ChildOf(c.row, c.parent, c.sub, r, c.now))>>]
                    /\ requests' = [requests EXCEPT ![r] =
                                       NewRequest(c.sub, "auto_approved", c.now, c.now, a)]
              /\ generation' = Bumped(c.now)
              /\ Return(t)
        /\ UNCHANGED <<clock, binaries, frozen>>

\* Mutant: a host at its cap may open one more.
CountPendingAtCap(t) ==
    LET c == task[t] IN
    /\ c.pc = "count"
    /\ Goto(t, IF Cardinality(Pending) <= MAX_PENDING_PER_HOST
               THEN [c EXCEPT !.pc = "pending"] ELSE Idle)
    /\ UNCHANGED <<clock, binaries, frozen, requests, approvals, revisions, generation>>

\* The caps on open requests, read before the transaction that inserts.
CountPending(t) ==
    LET c == task[t] IN
    /\ c.pc = "count"
    /\ IF /\ Cardinality(Pending) < MAX_PENDING_PER_HOST
          /\ Cardinality({r \in Pending : requests[r].sub.user = c.sub.user})
                < MAX_PENDING_PER_USER
       THEN Goto(t, [c EXCEPT !.pc = "pending"])
       ELSE Return(t)
    /\ UNCHANGED <<clock, binaries, frozen, requests, approvals, revisions, generation>>

SubmitPending(t) ==
    LET c == task[t] IN
    /\ c.pc = "pending"
    /\ \/ ~ IntakeOk(c.sub, c.now) /\ Refuse(t)
       \/ /\ IntakeOk(c.sub, c.now)
          /\ \E r \in RequestIds \ Recorded :
                requests' = [requests EXCEPT ![r] = NewRequest(c.sub, "pending", c.now, 0, NoId)]
          /\ Return(t)
          /\ UNCHANGED <<approvals, revisions, generation>>
    /\ UNCHANGED <<clock, binaries, frozen>>

-----------------------------------------------------------------------------
(* Decisions                                                               *)

\* approval_for
ApprovalFor(sub, r, terms, now) ==
    [state |-> "active", lin |-> sub.lin, sha |-> sub.sha, source |-> r, origin |-> "manual",
     parent |-> NoId, user |-> IF terms.user = "any" THEN AnyUser ELSE sub.user,
     path |-> terms.path, policy |-> terms.policy, continuity |-> terms.continuity,
     created |-> now, expires |-> Expiry(now, terms.ttl), superseded |-> NoId, version |-> 1]

\* supersede_stmt: a mark on older approvals of the lineage for the same user.
\* It is not versioned, and they stay active.
Superseded(x, a, new) ==
    IF /\ x.state = "active" /\ x.lin = new.lin /\ x.superseded = NoId /\ x.user = new.user
       /\ RevisionOf(x.lin, x.sha) < RevisionOf(new.lin, new.sha)
    THEN [x EXCEPT !.superseded = a] ELSE x

\* Single-step registration by an administrator.
RegisterAndApprove(t) ==
    LET c == task[t] IN
    /\ c.pc = "register"
    /\ \/ Replayed(c.sub) /\ Refuse(t)
       \/ /\ ~ Replayed(c.sub)
          /\ \E r \in RequestIds \ Recorded, a \in ApprovalIds :
                LET new == ApprovalFor(c.sub, r, c.terms, c.now) IN
                /\ approvals[a].state = "none"
                /\ approvals' = [x \in ApprovalIds |->
                                    IF x = a THEN new ELSE Superseded(approvals[x], a, new)]
                /\ revisions' = [revisions EXCEPT ![a] = <<Created(new)>>]
                /\ requests' = [requests EXCEPT ![r] =
                                   NewRequest(c.sub, "approved", c.now, c.now, a)]
          /\ generation' = Bumped(c.now)
          /\ Return(t)
    /\ UNCHANGED <<clock, binaries, frozen>>

\* Strict separation of duties: nobody decides a request of their own.
SodOk(admin, r) == StrictSod => requests[r].sub.admin # admin

\* A row that is to be revoked, as read before the transaction.
Revocable(a) == approvals[a].state \in {"active", "expired"}

\* What ApproveAppRequest reads: the request, and the rows to revoke along.
BeginApprove(t, admin, r, choice, ids) ==
    /\ task[t] = Idle
    /\ r \in Pending /\ SodOk(admin, r)
    /\ choice.new => WideAutoAllowed(choice.terms.user, choice.terms.policy, requests[r].sub)
    /\ \A a \in ids : Revocable(a)
    /\ Goto(t, [pc |-> "approve", now |-> clock, admin |-> admin, req |-> r, choice |-> choice,
                rows |-> [a \in ApprovalIds |-> IF a \in ids THEN approvals[a] ELSE NoApproval]])
    /\ UNCHANGED <<clock, binaries, frozen, requests, approvals, revisions, generation>>

\* Mutant: whatever the version is by now.
RevokeAnyVersion(a, row) == Revocable(a)

\* The guards of a revocation pin the version the snapshot describes.
RevokeOk(a, row) == Revocable(a) /\ approvals[a].version = row.version

AlsoRevoked(c) == {a \in ApprovalIds : c.rows[a] # NoApproval}

Revoked(x) == [x EXCEPT !.state = "revoked", !.version = @ + 1]

\* Mutant: the request was pending when it was read.
ApproveAsRead(c) ==
    /\ ~ c.choice.new => Covers(c.choice.id, requests[c.req].sub, c.now)
    /\ \A a \in AlsoRevoked(c) : RevokeOk(a, c.rows[a])

ApproveOk(c) ==
    /\ c.req \in Pending
    /\ SodOk(c.admin, c.req)
    /\ ~ c.choice.new => Covers(c.choice.id, requests[c.req].sub, c.now)
    /\ \A a \in AlsoRevoked(c) : RevokeOk(a, c.rows[a])

\* app_approve_request: the approval, the decision, and the revocations.
Approve(t) ==
    LET c   == task[t]
        ids == AlsoRevoked(c)
    IN  /\ c.pc = "approve"
        /\ \/ ~ ApproveOk(c) /\ Refuse(t)
           \/ /\ ApproveOk(c)
              /\ \E a \in ApprovalIds :
                    LET new  == ApprovalFor(requests[c.req].sub, c.req, c.choice.terms, c.now)
                        fresh == c.choice.new
                        kept(x) == IF fresh THEN Superseded(approvals[x], a, new)
                                   ELSE approvals[x]
                    IN  /\ IF fresh THEN approvals[a].state = "none" ELSE a = c.choice.id
                        /\ approvals' = [x \in ApprovalIds |->
                                            CASE x = a /\ fresh -> new
                                              [] x \in ids -> Revoked(kept(x))
                                              [] OTHER -> kept(x)]
                        /\ revisions' = [x \in ApprovalIds |->
                                            CASE x = a /\ fresh -> <<Created(new)>>
                                              [] x \in ids -> Append(revisions[x],
                                                     Change(c.rows[x], Revoked(c.rows[x])))
                                              [] OTHER -> revisions[x]]
                        /\ requests' = [requests EXCEPT ![c.req].state = "approved",
                                                        ![c.req].decided = c.now,
                                                        ![c.req].approval = a]
              /\ generation' = Bumped(c.now)
              /\ Return(t)
        /\ UNCHANGED <<clock, binaries, frozen>>

Deny(admin, r) ==
    /\ r \in Pending /\ SodOk(admin, r)
    /\ requests' = [requests EXCEPT ![r].state = "denied", ![r].decided = clock]
    /\ UNCHANGED <<clock, binaries, frozen, approvals, revisions, generation, task>>

\* The sweep of one request: its condition is in the statement that writes.
ExpireRequest(r) ==
    /\ r \in Pending /\ requests[r].expires <= clock
    /\ requests' = [requests EXCEPT ![r].state = "expired", ![r].decided = clock]
    /\ UNCHANGED <<clock, binaries, frozen, approvals, revisions, generation, task>>

-----------------------------------------------------------------------------
(* Changes to an approval                                                  *)

SetFrozen(lin) ==
    /\ binaries[lin] # <<>>
    /\ frozen' = (frozen \ {lin}) \cup ({lin} \ frozen)
    /\ UNCHANGED <<clock, binaries, requests, approvals, revisions, generation, task>>

BeginRevoke(t, a) ==
    /\ task[t] = Idle
    /\ Revocable(a)
    /\ Goto(t, [pc |-> "revoke", now |-> clock, id |-> a, row |-> approvals[a]])
    /\ UNCHANGED <<clock, binaries, frozen, requests, approvals, revisions, generation>>

\* A versioned change of the row a, read as `row`, that leaves `after`.
Write(a, row, after) ==
    /\ approvals' = [approvals EXCEPT ![a] = [after EXCEPT !.superseded = approvals[a].superseded]]
    /\ revisions' = [revisions EXCEPT ![a] = Append(@, Change(row, after))]
    /\ UNCHANGED requests

Revoke(t) ==
    LET c == task[t] IN
    /\ c.pc = "revoke"
    /\ \/ ~ RevokeOk(c.id, c.row) /\ Refuse(t)
       \/ /\ RevokeOk(c.id, c.row)
          /\ Write(c.id, c.row, Revoked(c.row))
          /\ generation' = Bumped(c.now)
          /\ Return(t)
    /\ UNCHANGED <<clock, binaries, frozen>>

\* The sweeper reads a due approval.
BeginExpire(t, a) ==
    /\ task[t] = Idle
    /\ approvals[a].state = "active" /\ ~ Unexpired(approvals[a], clock)
    /\ Goto(t, [pc |-> "expire", now |-> clock, id |-> a, row |-> approvals[a]])
    /\ UNCHANGED <<clock, binaries, frozen, requests, approvals, revisions, generation>>

\* Mutant: the approval was due when it was read.
ExpireAsRead(c) == approvals[c.id].state = "active"

ExpireOk(c) ==
    /\ approvals[c.id].state = "active" /\ approvals[c.id].version = c.row.version
    /\ ~ Unexpired(approvals[c.id], c.now)

ExpireApproval(t) ==
    LET c == task[t] IN
    /\ c.pc = "expire"
    /\ \/ ~ ExpireOk(c) /\ Refuse(t)
       \/ /\ ExpireOk(c)
          /\ Write(c.id, c.row, [c.row EXCEPT !.state = "expired", !.version = @ + 1])
          /\ generation' = Bumped(c.now)
          /\ Return(t)
    /\ UNCHANGED <<clock, binaries, frozen>>

\* UpdateApproval: what the handler checks on its own reading of the row.
BeginUpdate(t, a, e) ==
    LET row == approvals[a] IN
    /\ task[t] = Idle
    /\ row.state # "none" /\ row.version < MaxVersion
    /\ WideAutoAllowed(IF row.user = AnyUser /\ ~ e.narrowUser THEN "any" ELSE "exact",
                       IF e.policy = Keep THEN row.policy ELSE e.policy,
                       requests[row.source].sub)
    /\ Goto(t, [pc |-> "edit", now |-> clock, id |-> a, edit |-> e])
    /\ UNCHANGED <<clock, binaries, frozen, requests, approvals, revisions, generation>>

\* `edited`: a new expiry renews an expired approval.
Edited(row, e, now) ==
    [row EXCEPT
        !.policy     = IF e.policy = Keep THEN @ ELSE e.policy,
        !.continuity = IF e.continuity = Keep THEN @ ELSE e.continuity,
        !.expires    = IF e.ttl = KeepExpiry THEN @ ELSE Expiry(now, e.ttl),
        !.user       = IF e.narrowUser /\ @ = AnyUser THEN requests[row.source].sub.user ELSE @,
        !.path       = IF e.narrowPath THEN "exact" ELSE @,
        !.state      = IF @ = "expired" /\ e.ttl # KeepExpiry THEN "active" ELSE @]

\* app_update_approval reads the row again.
ReadForUpdate(t) ==
    LET c   == task[t]
        row == approvals[c.id]
    IN  /\ c.pc = "edit"
        /\ IF row.state = "revoked" \/ Edited(row, c.edit, c.now) = row
           THEN Return(t)
           ELSE Goto(t, [pc |-> "update", now |-> c.now, id |-> c.id, row |-> row,
                         after |-> [Edited(row, c.edit, c.now) EXCEPT !.version = @ + 1]])
        /\ UNCHANGED <<clock, binaries, frozen, requests, approvals, revisions, generation>>

\* The guard, and the trigger on renewals.
UpdateOk(c) ==
    /\ Revocable(c.id) /\ approvals[c.id].version = c.row.version
    /\ c.row.state = "expired" /\ c.after.state = "active" =>
          c.after.expires = Never \/ c.after.expires > c.row.expires

\* Mutant: a new expiry alone does not count.
ChangesState(before, after) ==
    before.state # after.state \/ before.user # after.user \/ before.path # after.path

ChangesCompiledEntry(before, after) ==
    \/ before.state # after.state \/ before.expires # after.expires
    \/ before.user # after.user \/ before.path # after.path

UpdateApproval(t) ==
    LET c == task[t] IN
    /\ c.pc = "update"
    /\ \/ ~ UpdateOk(c) /\ Refuse(t)
       \/ /\ UpdateOk(c)
          /\ Write(c.id, c.row, c.after)
          /\ generation' = IF ChangesCompiledEntry(c.row, c.after)
                           THEN Bumped(c.now) ELSE generation
          /\ Return(t)
    /\ UNCHANGED <<clock, binaries, frozen>>

-----------------------------------------------------------------------------
Init ==
    /\ clock = 0
    /\ binaries = [l \in Lineages |-> <<>>]
    /\ frozen = {}
    /\ requests = [r \in RequestIds |-> NoRequest]
    /\ approvals = [a \in ApprovalIds |-> NoApproval]
    /\ revisions = [a \in ApprovalIds |-> <<>>]
    /\ generation = 0
    /\ task = [t \in Tasks |-> Idle]

Begin(t) ==
    \/ /\ "submit" \in Ops
       /\ \E sub \in Submissions : BeginSubmit(t, sub)
    \/ /\ "register" \in Ops
       /\ \E sub \in Submissions, terms \in Terms : BeginRegister(t, sub, terms)
    \/ /\ "approve" \in Ops
       /\ \E admin \in Admins, r \in RequestIds, ch \in Choices, ids \in SUBSET ApprovalIds :
             Cardinality(ids) <= MaxAlsoRevoke /\ BeginApprove(t, admin, r, ch, ids)
    \/ "revoke" \in Ops /\ \E a \in ApprovalIds : BeginRevoke(t, a)
    \/ "expire" \in Ops /\ \E a \in ApprovalIds : BeginExpire(t, a)
    \/ "update" \in Ops /\ \E a \in ApprovalIds, e \in Edits : BeginUpdate(t, a, e)

Step(t) ==
    \/ Observe(t) \/ ReadParent(t) \/ TryAutoApprove(t) \/ CountPending(t) \/ SubmitPending(t)
    \/ RegisterAndApprove(t) \/ Approve(t)
    \/ Revoke(t) \/ ExpireApproval(t) \/ ReadForUpdate(t) \/ UpdateApproval(t)

Next ==
    \/ Tick
    \/ \E t \in Tasks : Begin(t) \/ Step(t)
    \/ "deny" \in Ops /\ \E r \in RequestIds, admin \in Admins : Deny(admin, r)
    \/ "lapse" \in Ops /\ \E r \in RequestIds : ExpireRequest(r)
    \/ "freeze" \in Ops /\ \E lin \in Lineages : SetFrozen(lin)

Spec == Init /\ [][Next]_vars

-----------------------------------------------------------------------------
\* Types of the tables and of what the calls in flight hold.
TypeOK ==
    /\ clock \in Nat /\ generation \in Nat
    /\ binaries \in [Lineages -> Seq(Shas)]
    /\ frozen \subseteq Lineages
    /\ requests \in [RequestIds -> Requests \cup {NoRequest}]
    /\ approvals \in [ApprovalIds -> Approvals \cup {NoApproval}]
    /\ revisions \in [ApprovalIds -> Seq(Snapshots \X Snapshots)]
    /\ task \in [Tasks -> Calls]

\* The revision records of an approval are its history: one for each
\* version of the row, each beginning where the one before ended, the last
\* ending in the row as it stands.  The snapshots are made from rows read
\* before the transactions that write them, among calls that change the row,
\* and the unversioned mark of a newer approval.
HistoryMatches ==
    \A a \in ApprovalIds :
        approvals[a].state # "none" =>
            /\ Len(revisions[a]) = approvals[a].version
            /\ revisions[a][Len(revisions[a])][2] = Snapshot(approvals[a])
            /\ \A i \in 1 .. Len(revisions[a]) - 1 : revisions[a][i][2] = revisions[a][i + 1][1]

\* A request leads to at most one approval of its own, and only when it was
\* approved: administrators who approve and deny it at the same time, the
\* sweep and an auto-approval never leave two, or one of a request that was
\* refused or is still open.
OneDecision ==
    \A a \in ApprovalIds :
        approvals[a].state # "none" =>
            /\ requests[approvals[a].source].state \in {"approved", "auto_approved"}
            /\ requests[approvals[a].source].approval = a

\* Every approval that follows updates for any user was asked for on a
\* protected path, through edits of the policy checked on an older reading
\* of the row and chains of auto-updates.
WideAutoProtected ==
    \A a \in ApprovalIds :
        /\ approvals[a].state # "none"
        /\ approvals[a].user = AnyUser /\ approvals[a].policy = "auto"
        => requests[approvals[a].source].sub.protected

\* No more than MAX_PER_DAY auto-approvals of a lineage fall within a day,
\* although the calls that make them commit in another order than they read
\* their clocks.
AutoRate ==
    LET auto == {a \in ApprovalIds : /\ approvals[a].state # "none"
                                     /\ approvals[a].origin = "auto_update"}
    IN  \A a \in auto :
           Cardinality({b \in auto : /\ approvals[b].lin = approvals[a].lin
                                     /\ approvals[b].created <= approvals[a].created
                                     /\ approvals[b].created > approvals[a].created - DAY})
              <= MAX_PER_DAY

\* An auto-update is born with terms a person gave its parent: scope,
\* policy, continuity and expiry of some version of the parent.
AutoWithinParent ==
    \A a \in ApprovalIds :
        approvals[a].state # "none" /\ approvals[a].origin = "auto_update" =>
            LET p == approvals[a].parent IN
            \E i \in 1 .. Len(revisions[p]) : revisions[a][1][2] = revisions[p][i][2]

\* The caps on open requests are overrun by no more than the calls that
\* counted before another's request was in.
PendingCap ==
    LET hosts == {r \in Pending : requests[r].sub.admin = NoAdmin} IN
    Cardinality(hosts) < MAX_PENDING_PER_HOST + Cardinality(Tasks)

\* What the compiler makes the host's allowlist from.
LiveEntries ==
    {<<a, approvals[a].user, approvals[a].path, approvals[a].expires>> : a \in Active}

\* A step that changes what the allowlist is compiled from moves the
\* generation, and no step moves it back: a host never holds a body that the
\* ledger has left behind under the generation in force.
LiveChangeBumps ==
    [][/\ LiveEntries' # LiveEntries => generation' > generation
       /\ generation' >= generation]_vars

\* The sweep expires an approval only while its expiry has passed, never one
\* renewed since the sweep read it, and a revoked approval keeps its terms
\* for good, whatever calls read it before it was revoked.
EndsOnlyWhenDue ==
    [][\A a \in ApprovalIds :
          /\ approvals[a].state = "active" /\ approvals'[a].state = "expired" =>
                approvals[a].expires # Never /\ approvals[a].expires <= clock
          /\ approvals[a].state = "revoked" => approvals'[a] = approvals[a]]_vars
=============================================================================

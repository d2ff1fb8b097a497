---------------------------- MODULE AdminSignIn -----------------------------
(***************************************************************************)
(* Signing in to one administrator account of CMIS (F20): the progressive  *)
(* throttle, the password and TOTP checks, and the sessions they open,     *)
(* with the calls that end sessions running beside them on several nodes.  *)
(*                                                                         *)
(* The rows (account, throttle, sessions) are replicated and every         *)
(* statement on them is atomic; the mutexes that serialise attempts, and   *)
(* what a call has read, belong to one node.  Every await of a handler     *)
(* ends an action, except that reads made in a row, and the statements     *)
(* about the keys of one attempt, are one.  Attempts come from one source  *)
(* address; account management is the subject of AdminAccounts, and        *)
(* appears here as the resets, disablings and enrolments that change the   *)
(* row under a sign-in.  A statement may fail, and a node may stop, where  *)
(* StoreErrors says so; the call then ends where it stands.                *)
(***************************************************************************)
EXTENDS Integers, FiniteSets

CONSTANTS
    Nodes,                      \* the CMIS nodes that serve sign-ins
    Tasks,                      \* the calls in flight
    Hashes,                     \* session tokens, by the hash that is stored
    Thresholds,                 \* of each kind of key: first, second, third, step
    Locks,                      \* the locks, in seconds: first, second, later
    RESET_AFTER_SECS,           \* a counter idle so long starts over
    SKEW_STEPS,                 \* TOTP steps accepted either side of now
    MAX_SESSIONS_PER_ACCOUNT,
    MAX_STEP_UP_FAILURES,
    StoreErrors,                \* whether statements fail and nodes stop
    MaxTime,                    \* bound: the clock
    MaxCalls                    \* bound: the calls of a behaviour

ASSUME AdminSignInAssumption ==
    /\ \A l \in {Locks.first, Locks.second, Locks.later} : l \in Nat \ {0}
    /\ RESET_AFTER_SECS \in Nat \ {0}
    /\ SKEW_STEPS \in Nat
    /\ MAX_SESSIONS_PER_ACCOUNT \in Nat \ {0}
    /\ MAX_STEP_UP_FAILURES \in Nat \ {0}
    /\ StoreErrors \in BOOLEAN
    /\ MaxTime \in Nat /\ MaxCalls \in Nat

VARIABLES
    now,        \* the clock, in seconds and in TOTP steps
    account,    \* the account row: state, password, seed, last step
    throttle,   \* the rows of admin_login_throttle
    mutex,      \* per node: the keys whose mutex an attempt holds
    session,    \* the rows of admin_sessions
    task,       \* the call each task runs, with its locals
    calls,      \* the calls begun
    retired,    \* history: the passwords that were replaced or reset
    uses,       \* history: acceptances of each code of the account's seed
    resets,     \* history: the writes after which every session must end
    late        \* history: per key and node, guesses evaluated under its lock

vars == <<now, account, throttle, mutex, session, task, calls, retired, uses,
          resets, late>>

Kinds == {"ip", "device", "account"}
Steps == 0 .. MaxTime + SKEW_STEPS
None == -1

\* Passwords and seeds are numbered in the order they were set; 0 is none.
Accounts == [state : {"active", "disabled"}, password : Nat, seed : Nat, last_step : Steps \cup {None}]
Counters == [failures : Nat, locked_until : Nat, last_failure_at : Nat]
NoCounter == [failures |-> 0, locked_until |-> 0, last_failure_at |-> 0]

\* `since` is the number of resets the sign-in behind the session had seen;
\* `missed` is the last reset whose revocation did not reach it, 0 for none.
SessionRows == [status : {"unused", "live", "revoked", "rotated"}, born : Nat,
                failures : Nat, since : Nat, missed : Nat]
Unused == [status |-> "unused", born |-> 0, failures |-> 0, since |-> 0, missed |-> 0]

Idle == [pc |-> "idle"]
LiveSessions == {h \in Hashes : session[h].status = "live"}

TypeOK ==
    /\ now \in 0..MaxTime
    /\ account \in Accounts
    /\ throttle \in [Kinds -> Counters]
    /\ mutex \in [Nodes -> SUBSET Kinds]
    /\ session \in [Hashes -> SessionRows]
    /\ DOMAIN task = Tasks
    /\ calls \in 0..MaxCalls
    /\ retired \subseteq Nat
    /\ uses \in [Steps -> Nat]
    /\ resets \in Nat
    /\ late \in [Kinds -> [Nodes -> Nat]]

Becomes(t, local) == task' = [task EXCEPT ![t] = local]
Moves(t, pc) == task' = [task EXCEPT ![t].pc = pc]

Begin(t, local) ==
    /\ task[t] = Idle
    /\ calls < MaxCalls
    /\ calls' = calls + 1
    /\ Becomes(t, local)

-----------------------------------------------------------------------------
(* The throttle                                                            *)

lock_secs(kind, failures) ==
    LET T == Thresholds[kind] IN
    CASE failures = T.first -> Locks.first
      [] failures = T.second -> Locks.second
      [] failures >= T.third /\ (failures - T.third) % T.step = 0 -> Locks.later
      [] OTHER -> 0

\* admin_throttle_increment: one upsert.
Incremented(row) ==
    IF row.last_failure_at <= now - RESET_AFTER_SECS
    THEN [failures |-> 1, locked_until |-> 0, last_failure_at |-> now]
    ELSE [row EXCEPT !.failures = @ + 1, !.last_failure_at = now]

Locked(k) == throttle[k].locked_until > now

-----------------------------------------------------------------------------
(* Second factors and sessions                                             *)

\* Mutant: the step is compared with the row read earlier only.
AdvancesAsRead(step) == TRUE

\* admin_advance_totp_step: compare and set on the row as it is now.
Advances(step) == account.last_step < step

\* check_totp with the code of `step` for the seed of `row`.
CheckTotp(row, step) ==
    /\ row.seed # 0
    /\ step \in (now - SKEW_STEPS) .. (now + SKEW_STEPS)
    /\ step > row.last_step
    /\ Advances(step)
    /\ account' = [account EXCEPT !.last_step = step]
    /\ uses' = IF row.seed = account.seed THEN [uses EXCEPT ![step] = @ + 1] ELSE uses

Revoked(hashes) ==
    [h \in Hashes |-> IF h \in hashes /\ session[h].status = "live"
                      THEN [session[h] EXCEPT !.status = "revoked"] ELSE session[h]]

\* The oldest live sessions that a new one displaces.
Evicted == {h \in LiveSessions :
               Cardinality({g \in LiveSessions : session[g].born > session[h].born})
                   >= MAX_SESSIONS_PER_ACCOUNT - 1}

\* The revocation of the latest reset is still to list the sessions, or has
\* h on its list.
ToBeListed == \E t \in Tasks : task[t].pc = "list" /\ task[t].mark = resets
OnList(h) == \E t \in Tasks : task[t].pc = "revoke" /\ task[t].mark = resets /\ h \in task[t].listed

\* admin_rotate_session: the row moves to a new hash, if it is still live.
Rotated(old, new) ==
    [session EXCEPT ![new] = [session[old] EXCEPT !.failures = 0,
                                                  !.missed = IF OnList(old) THEN resets ELSE @],
                    ![old].status = "rotated"]

\* authorize: a live session of an active account.
Authorized(h) == session[h].status = "live" /\ account.state = "active"

-----------------------------------------------------------------------------
(* Login                                                                   *)

KeysOf(device) == IF device THEN {"device"} ELSE {"ip", "account"}

\* The account is read before the attempt queues for its keys.
Login(t, n, device) ==
    /\ Begin(t, [pc |-> "queue", op |-> "login", node |-> n, keys |-> KeysOf(device),
                 row |-> account, since |-> resets])
    /\ UNCHANGED <<now, account, throttle, mutex, session, retired, uses, resets, late>>

\* Mutant: attempts of one key run side by side.
EnterAtOnce(t) ==
    /\ task[t].pc = "queue"
    /\ Moves(t, "throttle")
    /\ UNCHANGED <<now, account, throttle, mutex, session, calls, retired, uses, resets, late>>

\* serialize: one attempt per key at a time on this node.
Serialize(t) ==
    /\ task[t].pc = "queue"
    /\ mutex[task[t].node] \cap task[t].keys = {}
    /\ mutex' = [mutex EXCEPT ![task[t].node] = @ \cup task[t].keys]
    /\ Moves(t, "throttle")
    /\ UNCHANGED <<now, account, throttle, session, calls, retired, uses, resets, late>>

\* Where an attempt holds the mutexes of its keys.
Holding == {"throttle", "verify", "verified", "clear", "open", "count", "lock"}

\* The handler returns and drops its guards.
Return(t) ==
    /\ Becomes(t, Idle)
    /\ mutex' = [mutex EXCEPT ![task[t].node] = @ \ task[t].keys]

ThrottleWait(t) ==
    /\ task[t].pc = "throttle"
    /\ IF \E k \in task[t].keys : Locked(k)
       THEN Return(t)
       ELSE Moves(t, "verify") /\ UNCHANGED mutex
    /\ UNCHANGED <<now, account, throttle, session, calls, retired, uses, resets, late>>

\* A guess evaluated while a key of the attempt is locked.
CountLate(t) ==
    late' = [k \in Kinds |->
                IF k \in task[t].keys /\ Locked(k)
                THEN [late[k] EXCEPT ![task[t].node] = @ + 1] ELSE late[k]]

SignsIn(row) == row.state = "active" /\ row.seed # 0 /\ row.password # 0

Refused(t, charged) ==
    /\ task[t].pc = "verify"
    /\ Becomes(t, [pc |-> "count", op |-> "login", node |-> task[t].node, keys |-> task[t].keys,
                   charged |-> charged])

\* A spent, expired or forged nonce: the account is not reached, and its
\* counter not charged.
RefuseNonce(t) ==
    /\ Refused(t, task[t].keys \ {"account"})
    /\ UNCHANGED <<now, account, throttle, mutex, session, calls, retired, uses, resets, late>>

\* A wrong password or code, or an account that cannot sign in.
RefuseCredentials(t) ==
    /\ Refused(t, task[t].keys)
    /\ CountLate(t)
    /\ UNCHANGED <<now, account, throttle, mutex, session, calls, retired, uses, resets>>

\* The password of the row that was read, and a code newer than its last
\* step.
VerifyCredentials(t, step) ==
    /\ task[t].pc = "verify"
    /\ SignsIn(task[t].row)
    /\ CheckTotp(task[t].row, step)
    /\ CountLate(t)
    /\ Moves(t, "verified")
    /\ UNCHANGED <<now, throttle, mutex, session, calls, retired, resets>>

\* The hash is stored again under stronger parameters: the password that was
\* verified, over whatever the row holds by now.
Rehash(t) ==
    /\ task[t].pc = "verified"
    /\ account' = [account EXCEPT !.password = task[t].row.password]
    /\ Moves(t, "clear")
    /\ UNCHANGED <<now, throttle, mutex, session, calls, retired, uses, resets, late>>

\* The device and account counters are forgotten (the source's is kept) and
\* the live sessions listed for eviction.
ThrottleClear(t) ==
    /\ task[t].pc \in {"verified", "clear"}
    /\ throttle' = [k \in Kinds |->
                       IF k \in {"account"} \cup (task[t].keys \ {"ip"})
                       THEN NoCounter ELSE throttle[k]]
    /\ task' = [task EXCEPT ![t] = [pc |-> "open", op |-> "login", node |-> @.node, keys |-> @.keys,
                                    since |-> @.since, evicted |-> Evicted]]
    /\ UNCHANGED <<now, account, mutex, session, calls, retired, uses, resets, late>>

OpenSession(t, h) ==
    /\ task[t].pc = "open"
    /\ session[h] = Unused
    /\ session' = [Revoked(task[t].evicted) EXCEPT
                      ![h] = [status |-> "live", born |-> calls, failures |-> 0,
                              since |-> task[t].since,
                              missed |-> IF task[t].since # resets /\ ~ ToBeListed THEN resets ELSE 0]]
    /\ Return(t)
    /\ UNCHANGED <<now, account, throttle, calls, retired, uses, resets, late>>

\* throttle_failure, first half: the counters of the charged keys.
CountFailure(t) ==
    /\ task[t].pc = "count"
    /\ throttle' = [k \in Kinds |-> IF k \in task[t].charged THEN Incremented(throttle[k]) ELSE throttle[k]]
    /\ task' = [task EXCEPT ![t] = [pc |-> "lock", op |-> "login", node |-> @.node, keys |-> @.keys,
                   due |-> [k \in @.charged |-> lock_secs(k, throttle'[k].failures)], at |-> now]]
    /\ UNCHANGED <<now, account, mutex, session, calls, retired, uses, resets, late>>

\* Second half: the locks those counts call for, from the time they were
\* counted; never shortened.  The guess that brought the lock is its node's one guess.
ApplyLocks(t) ==
    LET due == task[t].due
        Until(k) == task[t].at + due[k]
        locks == {k \in DOMAIN due : /\ due[k] > 0
                                     /\ throttle[k] # NoCounter
                                     /\ throttle[k].locked_until < Until(k)} IN
    /\ task[t].pc = "lock"
    /\ throttle' = [k \in Kinds |->
                       IF k \in locks THEN [throttle[k] EXCEPT !.locked_until = Until(k)] ELSE throttle[k]]
    /\ late' = [k \in Kinds |->
                   IF k \in locks THEN [n \in Nodes |-> IF n = task[t].node THEN 1 ELSE 0]
                   ELSE late[k]]
    /\ Return(t)
    /\ UNCHANGED <<now, account, session, calls, retired, uses, resets>>

-----------------------------------------------------------------------------
(* The calls of a session                                                  *)

StepUp(t, h) ==
    /\ Authorized(h)
    /\ Begin(t, [pc |-> "factor", op |-> "stepup", hash |-> h])
    /\ UNCHANGED <<now, account, throttle, mutex, session, retired, uses, resets, late>>

ChangePassword(t, h) ==
    /\ Authorized(h)
    /\ account.password # 0
    /\ Begin(t, [pc |-> "factor", op |-> "password", hash |-> h])
    /\ UNCHANGED <<now, account, throttle, mutex, session, retired, uses, resets, late>>

\* verify_factor reads the account again.
VerifyFactor(t, step) ==
    /\ task[t].pc = "factor"
    /\ CheckTotp(account, step)
    /\ Moves(t, IF task[t].op = "stepup" THEN "rotate" ELSE "store")
    /\ UNCHANGED <<now, throttle, mutex, session, calls, retired, resets, late>>

\* second_factor_failed: a wrong factor, or a wrong current password after a
\* good one; the session ends at the limit.
FactorFails(t) ==
    LET h == task[t].hash
        n == session[h].failures + 1 IN
    /\ task[t].pc \in {"factor", "store"}
    /\ session' = IF session[h].status = "rotated" THEN session
                  ELSE [session EXCEPT ![h].failures = n,
                                       ![h].status = IF n >= MAX_STEP_UP_FAILURES /\ @ = "live"
                                                     THEN "revoked" ELSE @]
    /\ Becomes(t, Idle)
    /\ UNCHANGED <<now, account, throttle, mutex, calls, retired, uses, resets, late>>

Rotate(t, new) ==
    /\ task[t].pc = "rotate"
    /\ session[new] = Unused
    /\ session' = IF session[task[t].hash].status = "live" THEN Rotated(task[t].hash, new) ELSE session
    /\ Becomes(t, Idle)
    /\ UNCHANGED <<now, account, throttle, mutex, calls, retired, uses, resets, late>>

\* A password is never used again.
FreshPassword == CHOOSE p \in 1 .. MaxCalls + 1 : p \notin retired \cup {account.password}
                                                  /\ \A q \in 1 .. p - 1 : q \in retired \cup {account.password}
Retired == IF account.password = 0 THEN retired ELSE retired \cup {account.password}

StorePassword(t) ==
    /\ task[t].pc = "store"
    /\ account' = [account EXCEPT !.password = FreshPassword]
    /\ retired' = Retired
    /\ task' = [task EXCEPT ![t] = [pc |-> "list", op |-> "password", keep |-> {@.hash}, mark |-> 0]]
    /\ UNCHANGED <<now, throttle, mutex, session, calls, uses, resets, late>>

-----------------------------------------------------------------------------
(* The administrator's calls, and the end of every session                 *)

\* Mutant: only the oldest session is listed.
ListOldest(keep) ==
    {h \in LiveSessions \ keep : \A g \in LiveSessions \ keep : session[h].born <= session[g].born}

\* revoke_all_sessions: what is live when it asks.
Listed(keep) == LiveSessions \ keep

ListSessions(t) ==
    /\ task[t].pc = "list"
    /\ task' = [task EXCEPT ![t] = [pc |-> "revoke", op |-> @.op, keep |-> @.keep, mark |-> @.mark,
                                    listed |-> Listed(@.keep)]]
    /\ UNCHANGED <<now, account, throttle, mutex, session, calls, retired, uses, resets, late>>

\* History: the revocation of reset `mark` passes these sessions over.
Missed(hashes, mark, rows) ==
    [h \in Hashes |-> IF h \in hashes /\ mark = resets
                      THEN [rows[h] EXCEPT !.missed = resets] ELSE rows[h]]

\* One statement per session; one that fails is logged, and the call goes on.
RevokeListed(t, failed) ==
    /\ task[t].pc = "revoke"
    /\ failed \subseteq task[t].listed
    /\ session' = Missed(failed, task[t].mark, Revoked(task[t].listed \ failed))
    /\ \/ /\ task[t].op # "password"
          /\ Becomes(t, Idle)
       \/ /\ task[t].op = "password"
          /\ Becomes(t, [pc |-> "rotate", op |-> "password", hash |-> CHOOSE h \in task[t].keep : TRUE])
    /\ UNCHANGED <<now, account, throttle, mutex, calls, retired, uses, resets, late>>

\* ResetAdminCredentials of the password and the factors.
ResetCredentials(t) ==
    /\ account.state = "active"
    /\ Begin(t, [pc |-> "list", op |-> "reset", keep |-> {}, mark |-> resets + 1])
    /\ account' = [account EXCEPT !.password = 0, !.seed = 0, !.last_step = None]
    /\ retired' = Retired
    /\ uses' = [s \in Steps |-> 0]
    /\ resets' = resets + 1
    /\ UNCHANGED <<now, throttle, mutex, session, late>>

DisableAccount(t) ==
    /\ account.state = "active"
    /\ Begin(t, [pc |-> "list", op |-> "disable", keep |-> {}, mark |-> resets + 1])
    /\ account' = [account EXCEPT !.state = "disabled"]
    /\ resets' = resets + 1
    /\ UNCHANGED <<now, throttle, mutex, session, retired, uses, late>>

\* A store error, or the stop of the node, ends a call between two of its
\* statements: an attempt lets go of its keys, and a revocation goes no further.
Abandon(t) ==
    LET l == task[t] IN
    /\ StoreErrors
    /\ l # Idle
    /\ IF l.pc \in Holding THEN Return(t) ELSE Becomes(t, Idle) /\ UNCHANGED mutex
    /\ session' = CASE l.pc = "list" -> Missed(LiveSessions, l.mark, session)
                    [] l.pc = "revoke" -> Missed(l.listed, l.mark, session)
                    [] OTHER -> session
    /\ UNCHANGED <<now, account, throttle, calls, retired, uses, resets, late>>

\* Back to use: an administrator enables the account, or the holder of the
\* reset token enrols.
EnableAccount ==
    /\ account.state = "disabled"
    /\ account' = [account EXCEPT !.state = "active"]
    /\ UNCHANGED <<now, throttle, mutex, session, task, calls, retired, uses, resets, late>>

CompleteEnrollment(step) ==
    /\ account.state = "active"
    /\ account.seed = 0
    /\ step \in (now - SKEW_STEPS) .. (now + SKEW_STEPS)
    /\ account' = [account EXCEPT !.password = IF @ = 0 THEN FreshPassword ELSE @,
                                  !.seed = resets + 1, !.last_step = step]
    /\ uses' = [uses EXCEPT ![step] = 1]
    /\ UNCHANGED <<now, throttle, mutex, session, task, calls, retired, resets, late>>

\* Logout, RevokeSession, and every refusal of authorize that ends the
\* session: idle, too old, another address, an inactive account.
RevokeSession(h) ==
    /\ session[h].status = "live"
    /\ session' = Revoked({h})
    /\ UNCHANGED <<now, account, throttle, mutex, task, calls, retired, uses, resets, late>>

Tick ==
    /\ now < MaxTime
    /\ now' = now + 1
    /\ UNCHANGED <<account, throttle, mutex, session, task, calls, retired, uses, resets, late>>

-----------------------------------------------------------------------------
Init ==
    /\ now = 0
    /\ account = [state |-> "active", password |-> 1, seed |-> 1, last_step |-> None]
    /\ throttle = [k \in Kinds |-> NoCounter]
    /\ mutex = [n \in Nodes |-> {}]
    /\ session = [h \in Hashes |-> Unused]
    /\ task = [t \in Tasks |-> Idle]
    /\ calls = 0
    /\ retired = {}
    /\ uses = [s \in Steps |-> 0]
    /\ resets = 0
    /\ late = [k \in Kinds |-> [n \in Nodes |-> 0]]

LoginStep(t) ==
    \/ \E n \in Nodes, device \in BOOLEAN : Login(t, n, device)
    \/ Serialize(t) \/ ThrottleWait(t)
    \/ RefuseNonce(t) \/ RefuseCredentials(t)
    \/ \E step \in Steps : VerifyCredentials(t, step)
    \/ Rehash(t) \/ ThrottleClear(t)
    \/ \E h \in Hashes : OpenSession(t, h)
    \/ CountFailure(t) \/ ApplyLocks(t)

SessionStep(t) ==
    \/ \E h \in Hashes : StepUp(t, h) \/ ChangePassword(t, h) \/ Rotate(t, h)
    \/ \E step \in Steps : VerifyFactor(t, step)
    \/ FactorFails(t) \/ StorePassword(t)

AdminStep(t) ==
    \/ ResetCredentials(t) \/ DisableAccount(t)
    \/ ListSessions(t)
    \/ \E failed \in SUBSET (IF StoreErrors THEN Hashes ELSE {}) : RevokeListed(t, failed)
    \/ Abandon(t)

Next ==
    \/ \E t \in Tasks : LoginStep(t) \/ SessionStep(t) \/ AdminStep(t)
    \/ EnableAccount \/ Tick
    \/ \E step \in Steps : CompleteEnrollment(step)
    \/ \E h \in Hashes : RevokeSession(h)

Spec == Init /\ [][Next]_vars

-----------------------------------------------------------------------------
\* Once a lock is written, no further guess is evaluated on the node that
\* wrote it, and at most the one already past the check on each other node,
\* however attempts, counts and locks interleave (serialize, throttle_wait,
\* throttle_failure).
GuessesStopAtLock ==
    \A k \in Kinds, n \in Nodes : late[k][n] <= 1

\* A TOTP code of the seed the account holds is accepted once, by whichever
\* enrolment, login, step-up or proof presents it first on any node
\* (check_totp, admin_advance_totp_step).
CodesOnce == \A s \in Steps : uses[s] <= 1

\* No call is between a reset or a disabling and the end of its revocations.
Settled == \A t \in Tasks : task[t].pc \notin {"list", "revoke"}

\* Once the latest reset or disabling is done, a session of an earlier sign-in
\* still live is one its own revocation did not reach: opened after the
\* listing by a login that had read the account before the write, rotated
\* off the list, or passed over by a statement that failed or a call that was
\* cut short.  What an earlier reset left live does not outlast the next one
\* (revoke_all_sessions, open_session, admin_rotate_session).
OnlyMissedSurvive ==
    Settled => \A h \in LiveSessions : session[h].since < resets => session[h].missed = resets

\* "ResetAdminCredentials (M) revokes every session of the target": no
\* session of an earlier sign-in is let through after it.  The code does not
\* keep it, even where no statement fails: see the README.
ResetEndsSessions ==
    Settled => \A h \in Hashes : Authorized(h) => session[h].since = resets

\* A replaced password never comes back.  The code does not keep it: see
\* Rehash and the README.
RetiredPasswordStaysRetired == account.password \notin retired
=============================================================================

-------------------------- MODULE AdminSignInProofs ---------------------------
(***************************************************************************)
(* Proofs about AdminSignIn, for any nodes, calls in flight, sessions,     *)
(* thresholds, locks and bounds.                                           *)
(***************************************************************************)
EXTENDS AdminSignIn, TLAPS

-----------------------------------------------------------------------------
(* Codes are accepted once                                                 *)

\* A code of the seed in force that was accepted is not newer than the last
\* step of the row; without a seed there is none.
CodesBehind ==
    /\ DOMAIN account = {"state", "password", "seed", "last_step"}
    /\ account.last_step \in Steps \cup {None}
    /\ uses \in [Steps -> {0, 1}]
    /\ \A s \in Steps : uses[s] = 1 => s <= account.last_step
    /\ account.seed = 0 => \A s \in Steps : uses[s] = 0

LEMMA StepsAreNat == Steps \subseteq Nat /\ None \notin Nat
BY AdminSignInAssumption DEF Steps, None

\* The compare and set of the last step, by whatever row the code was
\* checked.
LEMMA TotpStep ==
    ASSUME CodesBehind, NEW row, NEW step \in Steps, CheckTotp(row, step)
    PROVE  CodesBehind'
<1>1. /\ account' = [account EXCEPT !.last_step = step]
      /\ account.last_step < step /\ row.seed # 0
      /\ uses' = IF row.seed = account.seed THEN [uses EXCEPT ![step] = @ + 1] ELSE uses
  BY DEF CheckTotp, Advances
<1>2. /\ account'.last_step = step /\ account'.seed = account.seed
      /\ DOMAIN account' = {"state", "password", "seed", "last_step"}
  BY <1>1 DEF CodesBehind
<1>3. step \in Nat /\ account.last_step \in Int
  <2>1. Steps \subseteq Int /\ None \in Int
    BY StepsAreNat DEF None
  <2> QED BY <2>1, StepsAreNat DEF CodesBehind
<1>4. uses[step] = 0
  BY <1>1, <1>3 DEF CodesBehind
<1>5. \A s \in Steps : s \in Nat /\ (uses[s] = 1 => s <= step)
  BY <1>1, <1>3, StepsAreNat DEF CodesBehind
<1>6. uses' \in [Steps -> {0, 1}] /\ \A s \in Steps : uses'[s] = uses[s] \/ s = step
  BY <1>1, <1>4 DEF CodesBehind
<1>7. account.seed = 0 => uses' = uses
  BY <1>1
<1>8. \A s \in Steps : uses'[s] = 1 => s <= account'.last_step
  BY <1>2, <1>3, <1>5, <1>6
<1>9. account'.seed = 0 => \A s \in Steps : uses'[s] = 0
  BY <1>2, <1>7 DEF CodesBehind
<1> QED BY <1>2, <1>6, <1>8, <1>9 DEF CodesBehind

\* A write to the row that leaves its seed and last step alone.
LEMMA OtherFields ==
    ASSUME CodesBehind, UNCHANGED uses, account'.seed = account.seed,
           account'.last_step = account.last_step, DOMAIN account' = DOMAIN account
    PROVE  CodesBehind'
BY DEF CodesBehind

LEMMA EnrolmentCode ==
    ASSUME CodesBehind, NEW step \in Steps, CompleteEnrollment(step), resets \in Nat
    PROVE  CodesBehind'
<1>1. /\ account'.last_step = step /\ account'.seed = resets + 1
      /\ DOMAIN account' = {"state", "password", "seed", "last_step"}
      /\ uses' = [uses EXCEPT ![step] = 1]
  BY DEF CompleteEnrollment, CodesBehind
<1>2. \A s \in Steps : uses[s] = 0
  BY DEF CompleteEnrollment, CodesBehind
<1>3. uses' \in [Steps -> {0, 1}] /\ \A s \in Steps : uses'[s] = 1 => s = step
  BY <1>1, <1>2 DEF CodesBehind
<1>4. step <= account'.last_step
  BY <1>1, StepsAreNat
<1> QED BY <1>1, <1>3, <1>4 DEF CodesBehind

LEMMA ResetCodes ==
    ASSUME CodesBehind, NEW t \in Tasks, ResetCredentials(t)
    PROVE  CodesBehind'
<1>1. /\ account'.last_step = None
      /\ DOMAIN account' = {"state", "password", "seed", "last_step"}
      /\ uses' = [s \in Steps |-> 0]
  BY DEF ResetCredentials, CodesBehind
<1> QED BY <1>1 DEF CodesBehind

LEMMA CodesNext ==
    ASSUME CodesBehind, resets \in Nat, [Next]_vars
    PROVE  CodesBehind' /\ resets' \in Nat
<1>1. CASE UNCHANGED vars
  BY <1>1 DEF vars, CodesBehind
<1>2. ASSUME NEW t \in Tasks, LoginStep(t)
      PROVE  CodesBehind' /\ resets' \in Nat
  <2>1. ASSUME NEW step \in Steps, VerifyCredentials(t, step)
        PROVE  CodesBehind' /\ resets' \in Nat
    BY <2>1, TotpStep DEF VerifyCredentials
  <2>2. CASE Rehash(t)
    BY <2>2, OtherFields DEF Rehash, CodesBehind
  <2>3. CASE UNCHANGED <<account, uses, resets>>
    BY <2>3 DEF CodesBehind
  <2> QED BY <1>2, <2>1, <2>2, <2>3 DEF LoginStep, Login, Serialize, ThrottleWait, RefuseNonce,
        RefuseCredentials, ThrottleClear, OpenSession, CountFailure, ApplyLocks
<1>3. ASSUME NEW t \in Tasks, SessionStep(t)
      PROVE  CodesBehind' /\ resets' \in Nat
  <2>1. ASSUME NEW step \in Steps, VerifyFactor(t, step)
        PROVE  CodesBehind' /\ resets' \in Nat
    BY <2>1, TotpStep DEF VerifyFactor
  <2>2. CASE StorePassword(t)
    BY <2>2, OtherFields DEF StorePassword, CodesBehind
  <2>3. CASE UNCHANGED <<account, uses, resets>>
    BY <2>3 DEF CodesBehind
  <2> QED BY <1>3, <2>1, <2>2, <2>3 DEF SessionStep, StepUp, ChangePassword, Rotate, FactorFails
<1>4. ASSUME NEW t \in Tasks, AdminStep(t)
      PROVE  CodesBehind' /\ resets' \in Nat
  <2>1. CASE ResetCredentials(t)
    BY <2>1, ResetCodes DEF ResetCredentials
  <2>2. CASE DisableAccount(t)
    BY <2>2, OtherFields DEF DisableAccount, CodesBehind
  <2>3. CASE UNCHANGED <<account, uses, resets>>
    BY <2>3 DEF CodesBehind
  <2> QED BY <1>4, <2>1, <2>2, <2>3 DEF AdminStep, ListSessions, RevokeListed, Abandon
<1>5. CASE EnableAccount
  BY <1>5, OtherFields DEF EnableAccount, CodesBehind
<1>6. CASE Tick \/ \E h \in Hashes : RevokeSession(h)
  BY <1>6 DEF Tick, RevokeSession, CodesBehind
<1>7. ASSUME NEW step \in Steps, CompleteEnrollment(step)
      PROVE  CodesBehind' /\ resets' \in Nat
  BY <1>7, EnrolmentCode DEF CompleteEnrollment
<1> QED BY <1>1, <1>2, <1>3, <1>4, <1>5, <1>6, <1>7 DEF Next

\* However logins, step-ups, proofs and enrolments interleave on any number
\* of nodes, and whatever row each of them had read, no code of the seed in
\* force is accepted twice: admin_advance_totp_step compares with the row as
\* it is, and a reset or an enrolment starts a seed with none accepted
\* (check_totp).
THEOREM CodesAcceptedOnce == Spec => []CodesOnce
<1>1. Init => CodesBehind /\ resets \in Nat
  BY DEF Init, CodesBehind
<1>2. CodesBehind => CodesOnce
  BY DEF CodesBehind, CodesOnce
<1>3. CodesBehind /\ resets \in Nat /\ [Next]_vars => (CodesBehind /\ resets \in Nat)'
  BY CodesNext
<1> QED BY <1>1, <1>2, <1>3, PTL DEF Spec

-----------------------------------------------------------------------------
(* Guesses under a lock, and sessions that outlive a revocation            *)

Attempting == {"queue"} \cup Holding
InSession == {"factor", "rotate", "store"}
Ending == {"list", "revoke"}

\* What a call holds, by where it stands.
LocalOK(l) ==
    /\ "pc" \in DOMAIN l /\ l.pc \in {"idle"} \cup Attempting \cup InSession \cup Ending
    /\ l.pc \in Attempting => l.node \in Nodes /\ l.keys \in SUBSET Kinds
    /\ l.pc \in Attempting \ {"count", "lock"} => l.since \in Nat
    /\ l.pc = "count" => l.charged \subseteq l.keys
    /\ l.pc = "lock" => /\ DOMAIN l.due \subseteq l.keys /\ l.at \in Nat
                        /\ \A k \in DOMAIN l.due : l.due[k] \in Nat
    /\ l.pc \in InSession => l.hash \in Hashes
    /\ l.pc \in Ending => /\ l.keep \subseteq Hashes /\ (l.op = "password" => l.keep # {})
                          /\ l.mark \in Nat /\ (l.mark # 0 => l.keep = {})

LocalsOK == \A t \in Tasks : LocalOK(task[t])

Typed ==
    /\ now \in Nat /\ calls \in Nat /\ resets \in Nat
    /\ throttle \in [Kinds -> Counters]
    /\ mutex \in [Nodes -> SUBSET Kinds]
    /\ session \in [Hashes -> SessionRows]
    /\ DOMAIN task = Tasks

\* One attempt per node and key.
MutexOK ==
    /\ \A t \in Tasks : task[t].pc \in Holding => task[t].keys \subseteq mutex[task[t].node]
    /\ \A t, u \in Tasks :
          t # u /\ task[t].pc \in Holding /\ task[u].pc \in Holding /\ task[t].node = task[u].node
          => task[t].keys \cap task[u].keys = {}

\* An attempt that has passed the check of the lock of k on node n.
PastCheck(l, k, n) == l.pc = "verify" /\ k \in l.keys /\ l.node = n

\* A node that has had its guess under the lock of a key has no other
\* attempt past the check.
LatesOK ==
    /\ late \in [Kinds -> [Nodes -> {0, 1}]]
    /\ \A k \in Kinds, n \in Nodes :
          late[k][n] = 1 /\ Locked(k) => \A t \in Tasks : ~PastCheck(task[t], k, n)

\* A session that should have ended, and the call that is about to end it.
Exposed(h) == session[h].status = "live" /\ session[h].since < resets /\ session[h].missed # resets
Covers(l, h, n) == /\ l.pc \in Ending /\ l.mark = n
                   /\ l.pc = "revoke" => h \in l.listed
MissedOK == \A h \in Hashes : Exposed(h) => \E t \in Tasks : Covers(task[t], h, resets)

Inv == Typed /\ LocalsOK /\ MutexOK /\ LatesOK /\ MissedOK

LEMMA LocalSet ==
    ASSUME Typed, LocalsOK, NEW t \in Tasks, NEW l, LocalOK(l), task' = [task EXCEPT ![t] = l]
    PROVE  /\ LocalsOK' /\ DOMAIN task' = Tasks /\ task'[t] = l
           /\ \A u \in Tasks \ {t} : task'[u] = task[u]
<1>1. DOMAIN task' = Tasks /\ task'[t] = l /\ \A u \in Tasks \ {t} : task'[u] = task[u]
  BY DEF Typed
<1>2. \A u \in Tasks : LocalOK(task'[u])
  BY <1>1 DEF LocalsOK
<1> QED BY <1>1, <1>2 DEF LocalsOK, LocalOK

LEMMA IdleOK == LocalOK(Idle) /\ Idle.pc = "idle"
BY DEF LocalOK, Idle, Attempting, Holding, InSession, Ending

LEMMA MutexKept ==
    ASSUME MutexOK, UNCHANGED mutex, NEW t \in Tasks, \A u \in Tasks \ {t} : task'[u] = task[u],
           task'[t].pc \in Holding => /\ task[t].pc \in Holding
                                      /\ task'[t].node = task[t].node /\ task'[t].keys = task[t].keys
    PROVE  MutexOK'
<1>1. \A u \in Tasks : task'[u].pc \in Holding => /\ task[u].pc \in Holding
                                                  /\ task'[u].node = task[u].node
                                                  /\ task'[u].keys = task[u].keys
  OBVIOUS
<1> QED BY <1>1 DEF MutexOK

LEMMA LatesKept ==
    ASSUME LatesOK, UNCHANGED late, NEW t \in Tasks, \A u \in Tasks \ {t} : task'[u] = task[u],
           \A k \in Kinds : Locked(k)' => Locked(k),
           \A k \in Kinds, n \in Nodes : PastCheck(task'[t], k, n) => PastCheck(task[t], k, n) \/ ~Locked(k)'
    PROVE  LatesOK'
<1>1. ASSUME NEW k \in Kinds, NEW n \in Nodes, late'[k][n] = 1, Locked(k)', NEW u \in Tasks
      PROVE  ~PastCheck(task'[u], k, n)
  BY <1>1 DEF LatesOK
<1> QED BY <1>1 DEF LatesOK, PastCheck

LEMMA MissedKept ==
    ASSUME MissedOK, UNCHANGED resets, NEW t \in Tasks, \A u \in Tasks \ {t} : task'[u] = task[u],
           \A h \in Hashes : Exposed(h)' => Exposed(h) /\ (Covers(task[t], h, resets) => Covers(task'[t], h, resets))
    PROVE  MissedOK'
<1>1. ASSUME NEW h \in Hashes, Exposed(h)'
      PROVE  \E u \in Tasks : Covers(task'[u], h, resets)
  <2>1. PICK u \in Tasks : Covers(task[u], h, resets)
    BY <1>1 DEF MissedOK
  <2> QED BY <1>1, <2>1
<1> QED BY <1>1 DEF MissedOK, Covers

\* A step of a call that leaves the sessions, the mutexes and the guesses
\* alone, and ends no other call's sessions.
LEMMA QuietStep ==
    ASSUME Inv, NEW t \in Tasks, NEW l, LocalOK(l), task' = [task EXCEPT ![t] = l],
           now' \in Nat, calls' \in Nat, throttle' \in [Kinds -> Counters],
           UNCHANGED <<mutex, session, resets, late>>,
           \A k \in Kinds : Locked(k)' => Locked(k),
           l.pc \in Holding => /\ task[t].pc \in Holding
                               /\ l.node = task[t].node /\ l.keys = task[t].keys,
           l.pc = "verify" => \A k \in l.keys : ~Locked(k)',
           task[t].pc \notin Ending
    PROVE  Inv'
<1> USE DEF Inv
<1>1. /\ LocalsOK' /\ DOMAIN task' = Tasks /\ task'[t] = l
      /\ \A u \in Tasks \ {t} : task'[u] = task[u]
  BY LocalSet
<1>2. Typed'
  BY <1>1 DEF Typed
<1>3. MutexOK'
  BY <1>1, MutexKept
<1>4. LatesOK'
  <2>1. \A k \in Kinds, n \in Nodes : PastCheck(l, k, n) => ~Locked(k)'
    BY DEF PastCheck
  <2> QED BY <1>1, <2>1, LatesKept
<1>5. MissedOK'
  <2>1. \A h \in Hashes : (Exposed(h)' => Exposed(h)) /\ ~Covers(task[t], h, resets)
    BY DEF Exposed, Covers, Ending
  <2> QED BY <1>1, <2>1, MissedKept
<1> QED BY <1>1, <1>2, <1>3, <1>4, <1>5

\* A call that only moves on.
LEMMA MovedLocal ==
    ASSUME NEW l, LocalOK(l), NEW pc
    PROVE  LET m == [l EXCEPT !.pc = pc]
           IN  /\ "pc" \in DOMAIN m /\ m.pc = pc
               /\ m.node = l.node /\ m.keys = l.keys /\ m.since = l.since /\ m.hash = l.hash
BY DEF LocalOK

-----------------------------------------------------------------------------
(* Login                                                                   *)

LEMMA LoginBegins ==
    ASSUME Inv, NEW t \in Tasks, NEW n \in Nodes, NEW device \in BOOLEAN, Login(t, n, device)
    PROVE  Inv'
<1> DEFINE l == [pc |-> "queue", op |-> "login", node |-> n, keys |-> KeysOf(device),
                 row |-> account, since |-> resets]
<1>1. LocalOK(l)
  <2>1. KeysOf(device) \in SUBSET Kinds /\ resets \in Nat
    BY DEF KeysOf, Kinds, Inv, Typed
  <2>2. /\ l.pc = "queue" /\ l.node = n /\ l.keys = KeysOf(device) /\ l.since = resets
        /\ "pc" \in DOMAIN l
    OBVIOUS
  <2> HIDE DEF l
  <2> QED BY <2>1, <2>2 DEF LocalOK, Attempting, Holding, InSession, Ending
<1>2. task' = [task EXCEPT ![t] = l] /\ l.pc = "queue" /\ task[t].pc = "idle" /\ calls' = calls + 1
  BY DEF Login, Begin, Becomes, Idle
<1>3. UNCHANGED <<now, throttle, mutex, session, resets, late>>
  BY DEF Login
<1>4. now' \in Nat /\ calls' \in Nat /\ throttle' \in [Kinds -> Counters]
  BY <1>2, <1>3 DEF Inv, Typed
<1>5. \A k \in Kinds : Locked(k)' => Locked(k)
  BY <1>3 DEF Locked
<1> HIDE DEF l
<1> QED BY <1>1, <1>2, <1>3, <1>4, <1>5, QuietStep DEF Holding, Ending

\* An attempt waits until no attempt of the node holds one of its keys.
LEMMA SerializeStep ==
    ASSUME Inv, NEW t \in Tasks, Serialize(t)
    PROVE  Inv'
<1> USE DEF Inv
<1>0. PICK n, keys : n = task[t].node /\ keys = task[t].keys
  OBVIOUS
<1> DEFINE l == [task[t] EXCEPT !.pc = "throttle"]
<1>1. /\ LocalOK(task[t]) /\ task[t].pc = "queue" /\ n \in Nodes /\ keys \in SUBSET Kinds
      /\ task[t].since \in Nat
  BY <1>0 DEF Serialize, LocalsOK, LocalOK, Attempting
<1>2. /\ "pc" \in DOMAIN l /\ l.pc = "throttle" /\ l.node = n /\ l.keys = keys
      /\ l.since = task[t].since
  BY <1>0, <1>1, MovedLocal
<1>3. LocalOK(l)
  <2> HIDE DEF l
  <2> QED BY <1>1, <1>2 DEF LocalOK, Attempting, Holding, InSession, Ending
<1>4. /\ task' = [task EXCEPT ![t] = l] /\ mutex[n] \cap keys = {}
      /\ mutex' = [mutex EXCEPT ![n] = @ \cup keys]
      /\ UNCHANGED <<now, throttle, session, calls, resets, late>>
  BY <1>0 DEF Serialize, Moves
<1> HIDE DEF l
<1>5. /\ LocalsOK' /\ DOMAIN task' = Tasks /\ task'[t] = l
      /\ \A u \in Tasks \ {t} : task'[u] = task[u]
  BY <1>3, <1>4, LocalSet
<1>6. /\ mutex' \in [Nodes -> SUBSET Kinds]
      /\ mutex'[n] = mutex[n] \cup keys /\ \A m \in Nodes \ {n} : mutex'[m] = mutex[m]
  BY <1>1, <1>4 DEF Typed
<1>7. Typed'
  BY <1>4, <1>5, <1>6 DEF Typed
<1>8. MutexOK'
  <2>1. ASSUME NEW u \in Tasks \ {t}, task'[u].pc \in Holding
        PROVE  /\ task'[u].keys \subseteq mutex'[task'[u].node]
               /\ task'[u].node = n => task'[u].keys \cap keys = {}
    <3>1. task'[u] = task[u] /\ task[u].keys \subseteq mutex[task[u].node] /\ task[u].node \in Nodes
      BY <1>5, <2>1 DEF MutexOK, LocalsOK, LocalOK, Attempting
    <3> QED BY <1>4, <1>6, <3>1
  <2>2. task'[t].keys = keys /\ task'[t].node = n /\ task'[t].pc = "throttle"
        /\ keys \subseteq mutex'[n]
    BY <1>2, <1>5, <1>6
  <2>3. \A u \in Tasks : task'[u].pc \in Holding => task'[u].keys \subseteq mutex'[task'[u].node]
    BY <2>1, <2>2
  <2>4. ASSUME NEW u \in Tasks, NEW v \in Tasks, u # v, task'[u].pc \in Holding,
               task'[v].pc \in Holding, task'[u].node = task'[v].node
        PROVE  task'[u].keys \cap task'[v].keys = {}
    <3>1. CASE u = t
      BY <2>1, <2>2, <2>4, <3>1
    <3>2. CASE v = t
      BY <2>1, <2>2, <2>4, <3>2
    <3>3. CASE u # t /\ v # t
      <4>1. task'[u] = task[u] /\ task'[v] = task[v]
        BY <1>5, <3>3
      <4> QED BY <2>4, <4>1 DEF MutexOK
    <3> QED BY <3>1, <3>2, <3>3
  <2> QED BY <2>3, <2>4 DEF MutexOK
<1>9. LatesOK'
  <2>1. \A k \in Kinds, m \in Nodes : ~PastCheck(task'[t], k, m)
    BY <1>2, <1>5 DEF PastCheck
  <2>2. \A k \in Kinds : Locked(k)' => Locked(k)
    BY <1>4 DEF Locked
  <2> QED BY <1>4, <1>5, <2>1, <2>2, LatesKept
<1>10. MissedOK'
  <2>1. \A h \in Hashes : (Exposed(h)' => Exposed(h)) /\ ~Covers(task[t], h, resets)
    BY <1>1, <1>4 DEF Exposed, Covers, Ending
  <2> QED BY <1>4, <1>5, <2>1, MissedKept
<1> QED BY <1>5, <1>7, <1>8, <1>9, <1>10

\* The attempt that returns frees its keys, and no other attempt's.
LEMMA ReturnMutex ==
    ASSUME Inv, NEW t \in Tasks, task[t].pc \in Holding, Return(t)
    PROVE  /\ MutexOK' /\ mutex' \in [Nodes -> SUBSET Kinds]
           /\ LocalsOK' /\ DOMAIN task' = Tasks /\ task'[t] = Idle
           /\ \A u \in Tasks \ {t} : task'[u] = task[u]
<1> USE DEF Inv
<1>0. PICK n, keys : n = task[t].node /\ keys = task[t].keys
  OBVIOUS
<1>1. n \in Nodes /\ keys \in SUBSET Kinds
  BY <1>0 DEF LocalsOK, LocalOK, Attempting
<1>2. task' = [task EXCEPT ![t] = Idle] /\ mutex' = [mutex EXCEPT ![n] = @ \ keys]
  BY <1>0 DEF Return, Becomes
<1>3. /\ LocalsOK' /\ DOMAIN task' = Tasks /\ task'[t] = Idle
      /\ \A u \in Tasks \ {t} : task'[u] = task[u]
  BY <1>2, LocalSet, IdleOK
<1>4. /\ mutex' \in [Nodes -> SUBSET Kinds]
      /\ mutex'[n] = mutex[n] \ keys /\ \A m \in Nodes \ {n} : mutex'[m] = mutex[m]
  BY <1>1, <1>2 DEF Typed
<1>5. \A u \in Tasks : task'[u].pc \in Holding => u # t /\ task'[u] = task[u]
  BY <1>3, IdleOK DEF Holding
<1>6. ASSUME NEW u \in Tasks, task'[u].pc \in Holding
      PROVE  task'[u].keys \subseteq mutex'[task'[u].node]
  <2>1. /\ u # t /\ task'[u] = task[u] /\ task[u].pc \in Holding /\ task[u].node \in Nodes
        /\ task[u].keys \subseteq mutex[task[u].node]
    BY <1>5, <1>6 DEF MutexOK, LocalsOK, LocalOK, Attempting
  <2>2. task[u].node = n => task[u].keys \cap keys = {}
    BY <1>0, <2>1 DEF MutexOK
  <2> QED BY <1>4, <2>1, <2>2
<1>7. MutexOK'
  BY <1>5, <1>6 DEF MutexOK
<1> QED BY <1>3, <1>4, <1>7

\* The check of the locks ends the attempt, or lets it on while none of its
\* keys is locked.
LEMMA WaitStep ==
    ASSUME Inv, NEW t \in Tasks, ThrottleWait(t)
    PROVE  Inv'
<1>1. /\ LocalOK(task[t]) /\ task[t].pc = "throttle" /\ task[t].pc \in Holding
      /\ task[t].node \in Nodes /\ task[t].keys \in SUBSET Kinds /\ task[t].since \in Nat
  BY DEF ThrottleWait, Inv, LocalsOK, LocalOK, Attempting, Holding
<1>2. UNCHANGED <<now, throttle, session, calls, resets, late>>
  BY DEF ThrottleWait
<1>3. \A k \in Kinds : Locked(k)' <=> Locked(k)
  BY <1>2 DEF Locked
<1>4. CASE Return(t)
  <2> USE DEF Inv
  <2>1. /\ MutexOK' /\ mutex' \in [Nodes -> SUBSET Kinds]
        /\ LocalsOK' /\ DOMAIN task' = Tasks /\ task'[t] = Idle
        /\ \A u \in Tasks \ {t} : task'[u] = task[u]
    BY <1>1, <1>4, ReturnMutex
  <2>2. Typed'
    BY <1>2, <2>1 DEF Typed
  <2>3. LatesOK'
    <3>1. \A k \in Kinds, n \in Nodes : ~PastCheck(task'[t], k, n)
      BY <2>1, IdleOK DEF PastCheck
    <3> QED BY <1>2, <1>3, <2>1, <3>1, LatesKept
  <2>4. MissedOK'
    <3>1. \A h \in Hashes : (Exposed(h)' => Exposed(h)) /\ ~Covers(task[t], h, resets)
      BY <1>1, <1>2 DEF Exposed, Covers, Ending
    <3> QED BY <1>2, <2>1, <3>1, MissedKept
  <2> QED BY <2>1, <2>2, <2>3, <2>4
<1>5. CASE (\A k \in task[t].keys : ~Locked(k)) /\ Moves(t, "verify") /\ UNCHANGED mutex
  <2> DEFINE l == [task[t] EXCEPT !.pc = "verify"]
  <2>1. /\ "pc" \in DOMAIN l /\ l.pc = "verify" /\ l.node = task[t].node /\ l.keys = task[t].keys
        /\ l.since = task[t].since
    BY <1>1, MovedLocal
  <2>2. task' = [task EXCEPT ![t] = l]
    BY <1>5 DEF Moves
  <2> HIDE DEF l
  <2>3. LocalOK(l)
    BY <1>1, <2>1 DEF LocalOK, Attempting, Holding, InSession, Ending
  <2>4. now' \in Nat /\ calls' \in Nat /\ throttle' \in [Kinds -> Counters]
    BY <1>2 DEF Inv, Typed
  <2>5. \A k \in l.keys : ~Locked(k)'
    BY <1>1, <1>3, <1>5, <2>1
  <2> QED BY <1>1, <1>2, <1>3, <1>5, <2>1, <2>2, <2>3, <2>4, <2>5, QuietStep DEF Ending
<1> QED BY <1>4, <1>5 DEF ThrottleWait

\* What an attempt past the check holds, and that it is alone.
LEMMA Verifying ==
    ASSUME Inv, NEW t \in Tasks, task[t].pc \in Holding \ {"count", "lock"}
    PROVE  /\ LocalOK(task[t]) /\ task[t].node \in Nodes /\ task[t].keys \in SUBSET Kinds
           /\ task[t].since \in Nat /\ task[t].pc \notin Ending
           /\ \A k \in task[t].keys, u \in Tasks \ {t} : ~PastCheck(task[u], k, task[t].node)
<1>1. /\ LocalOK(task[t]) /\ task[t].node \in Nodes /\ task[t].keys \in SUBSET Kinds
      /\ task[t].since \in Nat /\ task[t].pc \in Holding /\ task[t].pc \notin Ending
  BY DEF Inv, LocalsOK, LocalOK, Attempting, Holding, Ending
<1>2. ASSUME NEW k \in task[t].keys, NEW u \in Tasks \ {t}, PastCheck(task[u], k, task[t].node)
      PROVE  FALSE
  BY <1>1, <1>2 DEF Inv, MutexOK, PastCheck, Holding
<1> QED BY <1>1, <1>2

LEMMA NonceStep ==
    ASSUME Inv, NEW t \in Tasks, RefuseNonce(t)
    PROVE  Inv'
<1> DEFINE l == [pc |-> "count", op |-> "login", node |-> task[t].node, keys |-> task[t].keys,
                 charged |-> task[t].keys \ {"account"}]
<1>1. /\ task[t].pc = "verify" /\ task' = [task EXCEPT ![t] = l]
      /\ UNCHANGED <<now, throttle, mutex, session, calls, resets, late>>
  BY DEF RefuseNonce, Refused, Becomes
<1>2. /\ "pc" \in DOMAIN l /\ l.pc = "count" /\ l.node = task[t].node /\ l.keys = task[t].keys
      /\ l.charged \subseteq l.keys
  OBVIOUS
<1> HIDE DEF l
<1>3. task[t].node \in Nodes /\ task[t].keys \in SUBSET Kinds /\ task[t].pc \in Holding
  BY <1>1, Verifying DEF Holding
<1>4. LocalOK(l)
  BY <1>2, <1>3 DEF LocalOK, Attempting, Holding, InSession, Ending
<1>5. now' \in Nat /\ calls' \in Nat /\ throttle' \in [Kinds -> Counters]
  BY <1>1 DEF Inv, Typed
<1>6. \A k \in Kinds : Locked(k)' => Locked(k)
  BY <1>1 DEF Locked
<1> QED BY <1>1, <1>2, <1>3, <1>4, <1>5, <1>6, QuietStep DEF Ending

\* A guess under a lock is the first of its node, and there is no second one
\* past the check.
LEMMA Guessed ==
    ASSUME Inv, NEW t \in Tasks, task[t].pc = "verify", CountLate(t),
           NEW l, LocalOK(l), l.pc \in Holding \ {"verify"},
           l.node = task[t].node, l.keys = task[t].keys, task' = [task EXCEPT ![t] = l],
           UNCHANGED <<now, throttle, mutex, session, calls, resets>>
    PROVE  Inv'
<1> USE DEF Inv
<1>0. PICK node, keys : node = task[t].node /\ keys = task[t].keys
  OBVIOUS
<1>1. /\ task[t].pc = "verify" /\ task' = [task EXCEPT ![t] = l]
      /\ UNCHANGED <<now, throttle, mutex, session, calls, resets>>
      /\ late' = [k \in Kinds |-> IF k \in keys /\ Locked(k)
                                   THEN [late[k] EXCEPT ![node] = @ + 1] ELSE late[k]]
  BY <1>0 DEF CountLate
<1>2. l.pc # "verify" /\ l.node = node /\ l.keys = keys
  BY <1>0
<1>3. /\ node \in Nodes /\ keys \in SUBSET Kinds /\ task[t].pc \in Holding
      /\ \A k \in keys, u \in Tasks \ {t} : ~PastCheck(task[u], k, node)
  BY <1>0, <1>1, Verifying DEF Holding
<1>4. /\ LocalsOK' /\ DOMAIN task' = Tasks /\ task'[t] = l
      /\ \A u \in Tasks \ {t} : task'[u] = task[u]
  BY <1>1, LocalSet
<1>5. Typed'
  BY <1>1, <1>4 DEF Typed
<1>6. MutexOK'
  BY <1>0, <1>1, <1>2, <1>3, <1>4, MutexKept
<1>7. LatesOK'
  <2>1. \A k \in Kinds : Locked(k)' <=> Locked(k)
    BY <1>1 DEF Locked
  <2>2. ASSUME NEW k \in Kinds, k \in keys, Locked(k)
        PROVE  late[k][node] = 0
    BY <1>0, <1>1, <1>3, <2>2 DEF LatesOK, PastCheck
  <2>3. late \in [Kinds -> [Nodes -> {0, 1}]]
    BY DEF LatesOK
  <2>4. ASSUME NEW k \in Kinds
        PROVE  late'[k] \in [Nodes -> {0, 1}]
    BY <1>1, <1>3, <2>2, <2>3
  <2>5. late' \in [Kinds -> [Nodes -> {0, 1}]]
    BY <1>1, <2>4
  <2>6. ASSUME NEW k \in Kinds, NEW n \in Nodes, late'[k][n] = 1, Locked(k), NEW u \in Tasks
        PROVE  ~PastCheck(task'[u], k, n)
    <3>1. CASE u = t
      BY <1>2, <1>4, <3>1 DEF PastCheck
    <3>2. CASE u # t /\ k \in keys /\ n = node
      BY <1>3, <1>4, <3>2
    <3>3. CASE u # t /\ ~(k \in keys /\ n = node)
      <4>1. late'[k][n] = late[k][n]
        BY <1>1, <1>3, <2>3, <3>3
      <4> QED BY <1>4, <2>6, <3>3, <4>1 DEF LatesOK
    <3> QED BY <3>1, <3>2, <3>3
  <2> QED BY <2>1, <2>5, <2>6 DEF LatesOK, PastCheck
<1>8. MissedOK'
  <2>1. \A h \in Hashes : (Exposed(h)' => Exposed(h)) /\ ~Covers(task[t], h, resets)
    BY <1>1 DEF Exposed, Covers, Ending
  <2> QED BY <1>1, <1>4, <2>1, MissedKept
<1> QED BY <1>4, <1>5, <1>6, <1>7, <1>8

LEMMA GuessStep ==
    ASSUME Inv, NEW t \in Tasks, RefuseCredentials(t)
    PROVE  Inv'
<1> DEFINE l == [pc |-> "count", op |-> "login", node |-> task[t].node, keys |-> task[t].keys,
                 charged |-> task[t].keys]
<1>1. /\ task[t].pc = "verify" /\ task' = [task EXCEPT ![t] = l] /\ CountLate(t)
      /\ UNCHANGED <<now, throttle, mutex, session, calls, resets>>
  BY DEF RefuseCredentials, Refused, Becomes
<1>2. /\ "pc" \in DOMAIN l /\ l.pc = "count" /\ l.node = task[t].node /\ l.keys = task[t].keys
      /\ l.charged \subseteq l.keys
  OBVIOUS
<1> HIDE DEF l
<1>3. task[t].node \in Nodes /\ task[t].keys \in SUBSET Kinds
  BY <1>1, Verifying DEF Holding
<1>4. LocalOK(l)
  BY <1>2, <1>3 DEF LocalOK, Attempting, Holding, InSession, Ending
<1> QED BY <1>1, <1>2, <1>4, Guessed DEF Holding

LEMMA VerifiedStep ==
    ASSUME Inv, NEW t \in Tasks, NEW step \in Steps, VerifyCredentials(t, step)
    PROVE  Inv'
<1> DEFINE l == [task[t] EXCEPT !.pc = "verified"]
<1>1. /\ task[t].pc = "verify" /\ task' = [task EXCEPT ![t] = l] /\ CountLate(t)
      /\ UNCHANGED <<now, throttle, mutex, session, calls, resets>>
  BY DEF VerifyCredentials, Moves
<1>2. /\ task[t].node \in Nodes /\ task[t].keys \in SUBSET Kinds /\ task[t].since \in Nat
      /\ LocalOK(task[t])
  BY <1>1, Verifying DEF Holding
<1>3. /\ "pc" \in DOMAIN l /\ l.pc = "verified" /\ l.node = task[t].node /\ l.keys = task[t].keys
      /\ l.since = task[t].since
  BY <1>2, MovedLocal
<1> HIDE DEF l
<1>4. LocalOK(l)
  BY <1>2, <1>3 DEF LocalOK, Attempting, Holding, InSession, Ending
<1> QED BY <1>1, <1>3, <1>4, Guessed DEF Holding

LEMMA RehashStep ==
    ASSUME Inv, NEW t \in Tasks, Rehash(t)
    PROVE  Inv'
<1> DEFINE l == [task[t] EXCEPT !.pc = "clear"]
<1>0. /\ task[t].pc = "verified" /\ Moves(t, "clear")
      /\ UNCHANGED <<now, throttle, mutex, session, calls, resets, late>>
  BY DEF Rehash
<1>1. /\ task[t].node \in Nodes /\ task[t].keys \in SUBSET Kinds /\ task[t].since \in Nat
      /\ task[t].pc \in Holding /\ LocalOK(task[t])
  BY <1>0, Verifying DEF Holding
<1>2. /\ "pc" \in DOMAIN l /\ l.pc = "clear" /\ l.node = task[t].node /\ l.keys = task[t].keys
      /\ l.since = task[t].since
  BY <1>1, MovedLocal
<1>3. task' = [task EXCEPT ![t] = l]
  BY <1>0 DEF Moves
<1> HIDE DEF l
<1>4. LocalOK(l)
  BY <1>1, <1>2 DEF LocalOK, Attempting, Holding, InSession, Ending
<1>5. now' \in Nat /\ calls' \in Nat /\ throttle' \in [Kinds -> Counters]
  BY <1>0 DEF Inv, Typed
<1>6. \A k \in Kinds : Locked(k)' => Locked(k)
  BY <1>0 DEF Locked
<1> QED BY <1>0, <1>1, <1>2, <1>3, <1>4, <1>5, <1>6, QuietStep DEF Ending

\* Forgotten counters lock nothing.
LEMMA ClearStep ==
    ASSUME Inv, NEW t \in Tasks, ThrottleClear(t)
    PROVE  Inv'
<1> DEFINE l == [pc |-> "open", op |-> "login", node |-> task[t].node, keys |-> task[t].keys,
                 since |-> task[t].since, evicted |-> Evicted]
<1>1. task[t].pc \in {"verified", "clear"}
  BY DEF ThrottleClear
<1>2. /\ task[t].node \in Nodes /\ task[t].keys \in SUBSET Kinds /\ task[t].since \in Nat
      /\ task[t].pc \in Holding
  BY <1>1, Verifying DEF Holding
<1>3. /\ "pc" \in DOMAIN l /\ l.pc = "open" /\ l.node = task[t].node /\ l.keys = task[t].keys
      /\ l.since = task[t].since
  OBVIOUS
<1>4. /\ task' = [task EXCEPT ![t] = l]
      /\ UNCHANGED <<now, mutex, session, calls, resets, late>>
  BY DEF ThrottleClear, Inv, Typed
<1> HIDE DEF l
<1>5. LocalOK(l)
  BY <1>2, <1>3 DEF LocalOK, Attempting, Holding, InSession, Ending
<1>6. \A k \in Kinds : throttle'[k] \in {throttle[k], NoCounter}
  BY DEF ThrottleClear
<1>7. NoCounter \in Counters /\ NoCounter.locked_until = 0
  BY DEF NoCounter, Counters
<1>8. now' \in Nat /\ calls' \in Nat /\ throttle' \in [Kinds -> Counters]
  BY <1>4, <1>7 DEF Inv, Typed, ThrottleClear
<1>9. \A k \in Kinds : Locked(k)' => Locked(k)
  BY <1>4, <1>6, <1>7 DEF Locked, Inv, Typed
<1> QED BY <1>1, <1>2, <1>3, <1>4, <1>5, <1>8, <1>9, QuietStep DEF Ending

LEMMA CounterFields ==
    ASSUME NEW row \in Counters
    PROVE  row.failures \in Nat /\ row.locked_until \in Nat /\ row.last_failure_at \in Nat
BY DEF Counters

\* A counted failure locks nothing yet.
LEMMA IncrementedRow ==
    ASSUME now \in Nat, NEW row \in Counters
    PROVE  /\ Incremented(row) \in Counters
           /\ Incremented(row).locked_until \in {0, row.locked_until}
<1> DEFINE counted == [row EXCEPT !.failures = @ + 1, !.last_failure_at = now]
<1>0. row.failures + 1 \in Nat
  BY CounterFields
<1>1. counted \in Counters /\ counted.locked_until = row.locked_until
  BY <1>0 DEF Counters
<1>2. [failures |-> 1, locked_until |-> 0, last_failure_at |-> now] \in Counters
  BY DEF Counters
<1> QED BY <1>1, <1>2 DEF Incremented

LEMMA LocksAreNat ==
    ASSUME NEW kind, NEW failures
    PROVE  lock_secs(kind, failures) \in Nat
<1> DEFINE T == Thresholds[kind]
           due == failures >= T.third /\ (failures - T.third) % T.step = 0
<1>1. Locks.first \in Nat /\ Locks.second \in Nat /\ Locks.later \in Nat
  BY AdminSignInAssumption
<1>2. CASE failures = T.first \/ failures = T.second \/ due
  BY <1>1, <1>2 DEF lock_secs
<1>3. CASE ~(failures = T.first \/ failures = T.second \/ due)
  BY <1>3 DEF lock_secs
<1> QED BY <1>2, <1>3

LEMMA CountStep ==
    ASSUME Inv, NEW t \in Tasks, CountFailure(t)
    PROVE  Inv'
<1>0. PICK due : due = [k \in task[t].charged |-> lock_secs(k, throttle'[k].failures)]
  OBVIOUS
<1> DEFINE l == [pc |-> "lock", op |-> "login", node |-> task[t].node, keys |-> task[t].keys,
                 due |-> due, at |-> now]
<1>1. /\ task[t].pc = "count" /\ task[t].node \in Nodes /\ task[t].keys \in SUBSET Kinds
      /\ task[t].charged \subseteq task[t].keys /\ task[t].pc \in Holding
  BY DEF CountFailure, Inv, LocalsOK, LocalOK, Attempting, Holding
<1>2. /\ "pc" \in DOMAIN l /\ l.pc = "lock" /\ l.node = task[t].node /\ l.keys = task[t].keys
      /\ l.due = due /\ l.at = now
  OBVIOUS
<1>3. /\ task' = [task EXCEPT ![t] = l]
      /\ UNCHANGED <<now, mutex, session, calls, resets, late>>
  BY <1>0 DEF CountFailure, Inv, Typed
<1> HIDE DEF l
<1>4. DOMAIN due = task[t].charged /\ \A k \in DOMAIN due : due[k] \in Nat
  BY <1>0, LocksAreNat
<1>5. now \in Nat /\ calls \in Nat /\ throttle \in [Kinds -> Counters]
  BY DEF Inv, Typed
<1>6. LocalOK(l)
  BY <1>1, <1>2, <1>4, <1>5 DEF LocalOK, Attempting, Holding, InSession, Ending
<1>7. ASSUME NEW k \in Kinds
      PROVE  /\ throttle'[k] \in Counters
             /\ throttle'[k].locked_until \in {0, throttle[k].locked_until}
  BY <1>5, IncrementedRow DEF CountFailure
<1>8. throttle' \in [Kinds -> Counters]
  BY <1>7 DEF CountFailure
<1>9. \A k \in Kinds : Locked(k)' => Locked(k)
  BY <1>3, <1>5, <1>7 DEF Locked
<1>10. now' \in Nat /\ calls' \in Nat
  BY <1>3, <1>5
<1> QED BY <1>1, <1>2, <1>3, <1>6, <1>8, <1>9, <1>10, QuietStep DEF Ending

\* A lock that is written starts the count of the guesses under it: one on
\* the node that wrote it, whose other attempts still wait for the mutex.
LEMMA LockStep ==
    ASSUME Inv, NEW t \in Tasks, ApplyLocks(t)
    PROVE  Inv'
<1> USE DEF Inv
<1>0. PICK n, keys, due, at : n = task[t].node /\ keys = task[t].keys /\ due = task[t].due /\ at = task[t].at
  OBVIOUS
<1>1. /\ task[t].pc = "lock" /\ n \in Nodes /\ keys \in SUBSET Kinds /\ at \in Nat
      /\ DOMAIN due \subseteq keys /\ \A k \in DOMAIN due : due[k] \in Nat
  BY <1>0 DEF ApplyLocks, LocalsOK, LocalOK, Attempting, Holding
<1>2. PICK locks : locks = {k \in DOMAIN due : /\ due[k] > 0
                                               /\ throttle[k] # NoCounter
                                               /\ throttle[k].locked_until < at + due[k]}
  OBVIOUS
<1>3. /\ throttle' = [k \in Kinds |->
               IF k \in locks THEN [throttle[k] EXCEPT !.locked_until = at + due[k]] ELSE throttle[k]]
      /\ late' = [k \in Kinds |->
               IF k \in locks THEN [m \in Nodes |-> IF m = n THEN 1 ELSE 0] ELSE late[k]]
      /\ Return(t) /\ UNCHANGED <<now, session, calls, resets>>
  BY <1>0, <1>2 DEF ApplyLocks
<1>4. locks \subseteq keys
  BY <1>1, <1>2
<1>5. /\ MutexOK' /\ mutex' \in [Nodes -> SUBSET Kinds]
      /\ LocalsOK' /\ DOMAIN task' = Tasks /\ task'[t] = Idle
      /\ \A u \in Tasks \ {t} : task'[u] = task[u]
  BY <1>1, <1>3, ReturnMutex DEF Holding
<1>6. Typed'
  <2>1. ASSUME NEW k \in locks
        PROVE  [throttle[k] EXCEPT !.locked_until = at + due[k]] \in Counters
    <3>1. throttle[k] \in Counters /\ at + due[k] \in Nat
      BY <1>1, <1>2, <1>4 DEF Typed
    <3> QED BY <3>1 DEF Counters
  <2>2. throttle' \in [Kinds -> Counters]
    BY <1>3, <2>1 DEF Typed
  <2> QED BY <1>3, <1>5, <2>2 DEF Typed
<1>7. LatesOK'
  <2>1. late \in [Kinds -> [Nodes -> {0, 1}]]
    BY DEF LatesOK
  <2>2. late' \in [Kinds -> [Nodes -> {0, 1}]]
    BY <1>3, <2>1
  <2>3. ASSUME NEW k \in Kinds, NEW m \in Nodes, late'[k][m] = 1, Locked(k)', NEW u \in Tasks
        PROVE  ~PastCheck(task'[u], k, m)
    <3>1. CASE u = t
      BY <1>5, <3>1, IdleOK DEF PastCheck
    <3>2. CASE u # t /\ k \in locks
      <4>1. m = n /\ k \in keys /\ task'[u] = task[u]
        BY <1>3, <1>4, <1>5, <2>3, <3>2
      <4>2. ~PastCheck(task[u], k, n)
        BY <1>0, <1>1, <3>2, <4>1 DEF MutexOK, PastCheck, Holding
      <4> QED BY <4>1, <4>2
    <3>3. CASE u # t /\ k \notin locks
      <4>1. late'[k][m] = late[k][m] /\ throttle'[k] = throttle[k] /\ task'[u] = task[u]
        BY <1>3, <1>5, <3>3
      <4>2. Locked(k)
        BY <1>3, <2>3, <4>1 DEF Locked
      <4> QED BY <2>3, <4>1, <4>2 DEF LatesOK
    <3> QED BY <3>1, <3>2, <3>3
  <2> QED BY <2>2, <2>3 DEF LatesOK, PastCheck
<1>8. MissedOK'
  <2>1. \A h \in Hashes : (Exposed(h)' => Exposed(h)) /\ ~Covers(task[t], h, resets)
    BY <1>1, <1>3 DEF Exposed, Covers, Ending
  <2> QED BY <1>3, <1>5, <2>1, MissedKept
<1> QED BY <1>5, <1>6, <1>7, <1>8

-----------------------------------------------------------------------------
(* Sessions                                                                *)

LEMMA SessionFields ==
    ASSUME NEW row \in SessionRows
    PROVE  /\ row.status \in {"unused", "live", "revoked", "rotated"} /\ row.born \in Nat
           /\ row.failures \in Nat /\ row.since \in Nat /\ row.missed \in Nat
BY DEF SessionRows

\* A revocation changes the status of live sessions alone.
LEMMA RevokedRows ==
    ASSUME session \in [Hashes -> SessionRows], NEW S
    PROVE  /\ Revoked(S) \in [Hashes -> SessionRows]
           /\ \A h \in Hashes :
                /\ Revoked(S)[h].since = session[h].since
                /\ Revoked(S)[h].missed = session[h].missed
                /\ Revoked(S)[h].status = "live" => session[h].status = "live" /\ h \notin S
<1>1. ASSUME NEW row \in SessionRows
      PROVE  /\ [row EXCEPT !.status = "revoked"] \in SessionRows
             /\ [row EXCEPT !.status = "revoked"].status = "revoked"
             /\ [row EXCEPT !.status = "revoked"].since = row.since
             /\ [row EXCEPT !.status = "revoked"].missed = row.missed
  BY DEF SessionRows
<1>2. \A h \in Hashes : session[h] \in SessionRows
  OBVIOUS
<1> QED BY <1>1, <1>2 DEF Revoked

\* The history of what a revocation passed over.
LEMMA MissedRows ==
    ASSUME resets \in Nat, NEW rows \in [Hashes -> SessionRows], NEW S, NEW mark
    PROVE  /\ Missed(S, mark, rows) \in [Hashes -> SessionRows]
           /\ \A h \in Hashes :
                /\ Missed(S, mark, rows)[h].since = rows[h].since
                /\ Missed(S, mark, rows)[h].status = rows[h].status
                /\ Missed(S, mark, rows)[h].missed =
                      IF h \in S /\ mark = resets THEN resets ELSE rows[h].missed
<1>1. ASSUME NEW row \in SessionRows
      PROVE  /\ [row EXCEPT !.missed = resets] \in SessionRows
             /\ [row EXCEPT !.missed = resets].status = row.status
             /\ [row EXCEPT !.missed = resets].since = row.since
             /\ [row EXCEPT !.missed = resets].missed = resets
  BY DEF SessionRows
<1>2. \A h \in Hashes : rows[h] \in SessionRows
  OBVIOUS
<1> QED BY <1>1, <1>2 DEF Missed

\* A step that changes sessions and moves a call that holds no mutex.
LEMMA SessionsWritten ==
    ASSUME Inv, NEW t \in Tasks, NEW l, LocalOK(l), task' = [task EXCEPT ![t] = l],
           session' \in [Hashes -> SessionRows], UNCHANGED <<now, throttle, mutex, calls, late>>,
           resets' \in Nat, l.pc \notin Holding
    PROVE  /\ LocalsOK' /\ Typed' /\ MutexOK' /\ LatesOK' /\ task'[t] = l
           /\ \A u \in Tasks \ {t} : task'[u] = task[u]
<1> USE DEF Inv
<1>1. /\ LocalsOK' /\ DOMAIN task' = Tasks /\ task'[t] = l
      /\ \A u \in Tasks \ {t} : task'[u] = task[u]
  BY LocalSet
<1>2. Typed'
  BY <1>1 DEF Typed
<1>3. MutexOK'
  BY <1>1, MutexKept
<1>4. LatesOK'
  <2>1. \A k \in Kinds, n \in Nodes : ~PastCheck(l, k, n)
    BY DEF PastCheck, Holding
  <2>2. \A k \in Kinds : Locked(k)' => Locked(k)
    BY DEF Locked
  <2> QED BY <1>1, <2>1, <2>2, LatesKept
<1> QED BY <1>1, <1>2, <1>3, <1>4

\* A login that saw every reset opens a session that need not end; one that
\* the latest revocation is still to list is covered, and the others marked.
LEMMA OpenStep ==
    ASSUME Inv, NEW t \in Tasks, NEW h \in Hashes, OpenSession(t, h)
    PROVE  Inv'
<1> USE DEF Inv
<1>0. PICK since, missed, evicted :
         /\ since = task[t].since /\ evicted = task[t].evicted
         /\ missed = IF task[t].since # resets /\ ~ ToBeListed THEN resets ELSE 0
  OBVIOUS
<1> DEFINE row == [status |-> "live", born |-> calls, failures |-> 0, since |-> since, missed |-> missed]
<1>1. /\ task[t].pc = "open" /\ task[t].pc \in Holding /\ since \in Nat
      /\ missed \in Nat /\ (missed = resets \/ since = resets \/ ToBeListed)
  BY <1>0, Verifying DEF OpenSession, Holding, Typed
<1>2. /\ session' = [Revoked(evicted) EXCEPT ![h] = row] /\ Return(t)
      /\ UNCHANGED <<now, throttle, calls, resets, late>>
  BY <1>0 DEF OpenSession
<1>3. row \in SessionRows /\ row.since = since /\ row.missed = missed
  BY <1>1 DEF SessionRows, Typed
<1> HIDE DEF row
<1>4. /\ Revoked(evicted) \in [Hashes -> SessionRows]
      /\ \A g \in Hashes :
            /\ Revoked(evicted)[g].since = session[g].since
            /\ Revoked(evicted)[g].missed = session[g].missed
            /\ Revoked(evicted)[g].status = "live" => session[g].status = "live"
  BY RevokedRows DEF Typed
<1>5. /\ session' \in [Hashes -> SessionRows] /\ session'[h] = row
      /\ \A g \in Hashes \ {h} : session'[g] = Revoked(evicted)[g]
  BY <1>2, <1>3, <1>4
<1>6. /\ MutexOK' /\ mutex' \in [Nodes -> SUBSET Kinds]
      /\ LocalsOK' /\ DOMAIN task' = Tasks /\ task'[t] = Idle
      /\ \A u \in Tasks \ {t} : task'[u] = task[u]
  BY <1>1, <1>2, ReturnMutex
<1>7. Typed'
  BY <1>2, <1>5, <1>6 DEF Typed
<1>8. LatesOK'
  <2>1. \A k \in Kinds, n \in Nodes : ~PastCheck(task'[t], k, n)
    BY <1>6, IdleOK DEF PastCheck
  <2>2. \A k \in Kinds : Locked(k)' => Locked(k)
    BY <1>2 DEF Locked
  <2> QED BY <1>2, <1>6, <2>1, <2>2, LatesKept
<1>9. MissedOK'
  <2>1. resets' = resets /\ resets \in Nat
    BY <1>2 DEF Typed
  <2>2. \A g \in Hashes : ~Covers(task[t], g, resets)
    BY <1>1 DEF Covers, Ending
  <2>3. ASSUME Exposed(h)'
        PROVE  \E u \in Tasks : Covers(task'[u], h, resets)
    <3>1. since # resets /\ missed # resets
      BY <1>3, <1>5, <2>1, <2>3 DEF Exposed
    <3>2. PICK u \in Tasks : task[u].pc = "list" /\ task[u].mark = resets
      BY <1>1, <3>1 DEF ToBeListed
    <3>3. u # t
      BY <1>1, <3>2
    <3> QED BY <1>6, <3>2, <3>3 DEF Covers, Ending
  <2>4. ASSUME NEW g \in Hashes \ {h}, Exposed(g)'
        PROVE  \E u \in Tasks : Covers(task'[u], g, resets)
    <3>1. Exposed(g)
      BY <1>4, <1>5, <2>1, <2>4 DEF Exposed
    <3>2. PICK u \in Tasks : Covers(task[u], g, resets)
      BY <3>1 DEF MissedOK
    <3> QED BY <1>6, <2>2, <3>2
  <2> QED BY <2>1, <2>3, <2>4 DEF MissedOK, Covers
<1> QED BY <1>6, <1>7, <1>8, <1>9

\* The calls of a session that begin, and a factor that is verified.
LEMMA SessionCallBegins ==
    ASSUME Inv, NEW t \in Tasks, NEW h \in Hashes, StepUp(t, h) \/ ChangePassword(t, h)
    PROVE  Inv'
<1>0. PICK op : Begin(t, [pc |-> "factor", op |-> op, hash |-> h])
  BY DEF StepUp, ChangePassword
<1> DEFINE l == [pc |-> "factor", op |-> op, hash |-> h]
<1>1. "pc" \in DOMAIN l /\ l.pc = "factor" /\ l.hash = h
  OBVIOUS
<1>2. /\ task' = [task EXCEPT ![t] = l] /\ task[t].pc = "idle" /\ calls' = calls + 1
      /\ UNCHANGED <<now, throttle, mutex, session, resets, late>>
  BY <1>0 DEF StepUp, ChangePassword, Begin, Becomes, Idle
<1> HIDE DEF l
<1>3. LocalOK(l)
  BY <1>1 DEF LocalOK, Attempting, Holding, InSession, Ending
<1>4. now' \in Nat /\ calls' \in Nat /\ throttle' \in [Kinds -> Counters]
  BY <1>2 DEF Inv, Typed
<1>5. \A k \in Kinds : Locked(k)' => Locked(k)
  BY <1>2 DEF Locked
<1> QED BY <1>1, <1>2, <1>3, <1>4, <1>5, QuietStep DEF Holding, Ending

LEMMA FactorVerified ==
    ASSUME Inv, NEW t \in Tasks, NEW step \in Steps, VerifyFactor(t, step)
    PROVE  Inv'
<1>0. PICK pc \in {"rotate", "store"} : Moves(t, pc)
  BY DEF VerifyFactor
<1> DEFINE l == [task[t] EXCEPT !.pc = pc]
<1>1. /\ task[t].pc = "factor" /\ LocalOK(task[t]) /\ task[t].hash \in Hashes
      /\ UNCHANGED <<now, throttle, mutex, session, calls, resets, late>>
  BY DEF VerifyFactor, Inv, LocalsOK, LocalOK, InSession
<1>2. "pc" \in DOMAIN l /\ l.pc = pc /\ l.hash = task[t].hash
  BY <1>1, MovedLocal
<1>3. task' = [task EXCEPT ![t] = l]
  BY <1>0 DEF Moves
<1> HIDE DEF l
<1>4. LocalOK(l)
  BY <1>1, <1>2 DEF LocalOK, Attempting, Holding, InSession, Ending
<1>5. now' \in Nat /\ calls' \in Nat /\ throttle' \in [Kinds -> Counters]
  BY <1>1 DEF Inv, Typed
<1>6. \A k \in Kinds : Locked(k)' => Locked(k)
  BY <1>1 DEF Locked
<1> QED BY <1>1, <1>2, <1>3, <1>4, <1>5, <1>6, QuietStep DEF Holding, Ending

LEMMA FailedFactor ==
    ASSUME Inv, NEW t \in Tasks, FactorFails(t)
    PROVE  Inv'
<1> USE DEF Inv
<1>0. PICK h, n : h = task[t].hash /\ n = session[h].failures + 1
  OBVIOUS
<1>1. /\ task[t].pc \in {"factor", "store"} /\ h \in Hashes
      /\ task' = [task EXCEPT ![t] = Idle] /\ UNCHANGED <<now, throttle, mutex, calls, resets, late>>
  BY <1>0 DEF FactorFails, Becomes, LocalsOK, LocalOK, InSession
<1>2. session[h] \in SessionRows /\ session[h].failures \in Nat /\ n \in Nat
  BY <1>0, <1>1, SessionFields DEF Typed
<1>3. PICK status \in {session[h].status, "revoked"} :
         \/ session' = session
         \/ session' = [session EXCEPT ![h].failures = n, ![h].status = status]
  BY <1>0 DEF FactorFails
<1> DEFINE row == [session[h] EXCEPT !.failures = n, !.status = status]
<1>4. /\ row \in SessionRows /\ row.since = session[h].since /\ row.missed = session[h].missed
      /\ row.status \in {session[h].status, "revoked"}
  BY <1>2, <1>3 DEF SessionRows
<1>5. session' = session \/ session' = [session EXCEPT ![h] = row]
  BY <1>1, <1>3 DEF Typed
<1> HIDE DEF row
<1>6. /\ session' \in [Hashes -> SessionRows]
      /\ \A g \in Hashes : session'[g] = session[g] \/ (g = h /\ session'[g] = row)
  BY <1>1, <1>4, <1>5 DEF Typed
<1>7. resets' = resets /\ resets' \in Nat
  BY <1>1 DEF Typed
<1>8. /\ LocalsOK' /\ Typed' /\ MutexOK' /\ LatesOK' /\ task'[t] = Idle
      /\ \A u \in Tasks \ {t} : task'[u] = task[u]
  BY <1>1, <1>6, <1>7, SessionsWritten, IdleOK DEF Holding
<1>9. MissedOK'
  <2>1. \A g \in Hashes : Exposed(g)' => Exposed(g)
    BY <1>4, <1>6, <1>7 DEF Exposed
  <2>2. \A g \in Hashes : ~Covers(task[t], g, resets)
    BY <1>1 DEF Covers, Ending
  <2> QED BY <1>7, <1>8, <2>1, <2>2, MissedKept
<1> QED BY <1>8, <1>9

\* A session that a revocation has already listed carries the mark over its
\* rotation; one that is still to be listed is listed under its new hash.
LEMMA RotateStep ==
    ASSUME Inv, NEW t \in Tasks, NEW new \in Hashes, Rotate(t, new)
    PROVE  Inv'
<1> USE DEF Inv
<1>0. PICK old, missed : /\ old = task[t].hash
                        /\ missed = IF OnList(old) THEN resets ELSE session[old].missed
  OBVIOUS
<1>1. /\ task[t].pc = "rotate" /\ old \in Hashes /\ session[new] = Unused
      /\ task' = [task EXCEPT ![t] = Idle] /\ UNCHANGED <<now, throttle, mutex, calls, resets, late>>
  BY <1>0 DEF Rotate, Becomes, LocalsOK, LocalOK, InSession
<1>2. resets' = resets /\ resets' \in Nat /\ \A g \in Hashes : ~Covers(task[t], g, resets)
  BY <1>1 DEF Typed, Covers, Ending
<1>3. CASE session' = session
  <2>1. session' \in [Hashes -> SessionRows]
    BY <1>3 DEF Typed
  <2>2. /\ LocalsOK' /\ Typed' /\ MutexOK' /\ LatesOK' /\ task'[t] = Idle
        /\ \A u \in Tasks \ {t} : task'[u] = task[u]
    BY <1>1, <1>2, <2>1, SessionsWritten, IdleOK DEF Holding
  <2>3. \A g \in Hashes : Exposed(g)' => Exposed(g)
    BY <1>2, <1>3 DEF Exposed
  <2> QED BY <1>2, <2>2, <2>3, MissedKept
<1>4. CASE session[old].status = "live" /\ session' = Rotated(old, new)
  <2> DEFINE moved == [session[old] EXCEPT !.failures = 0, !.missed = missed]
             left == [session[old] EXCEPT !.status = "rotated"]
  <2>1. new # old /\ session[old] \in SessionRows /\ session[old].missed \in Nat
    BY <1>1, <1>4, SessionFields DEF Unused, Typed
  <2>2. missed \in Nat
    BY <1>0, <1>2, <2>1
  <2>3. /\ moved \in SessionRows /\ moved.since = session[old].since /\ moved.status = "live"
        /\ moved.missed = missed
    BY <1>4, <2>1, <2>2 DEF SessionRows
  <2>4. left \in SessionRows /\ left.status = "rotated"
    BY <2>1 DEF SessionRows
  <2>5. session' = [session EXCEPT ![new] = moved, ![old].status = "rotated"]
    BY <1>0, <1>4 DEF Rotated
  <2>6. session' = [session EXCEPT ![new] = moved, ![old] = left]
    BY <1>1, <2>1, <2>5 DEF Typed
  <2> HIDE DEF moved, left
  <2>7. /\ session' \in [Hashes -> SessionRows] /\ session'[new] = moved /\ session'[old] = left
        /\ \A g \in Hashes \ {new, old} : session'[g] = session[g]
    BY <1>1, <2>1, <2>3, <2>4, <2>6 DEF Typed
  <2>8. /\ LocalsOK' /\ Typed' /\ MutexOK' /\ LatesOK' /\ task'[t] = Idle
        /\ \A u \in Tasks \ {t} : task'[u] = task[u]
    BY <1>1, <1>2, <2>7, SessionsWritten, IdleOK DEF Holding
  <2>9. MissedOK'
    <3>1. ASSUME NEW g \in Hashes, Exposed(g)'
          PROVE  \E u \in Tasks : Covers(task'[u], g, resets)
      <4>1. g # old
        BY <2>4, <2>7, <3>1 DEF Exposed
      <4>2. CASE g # new
        <5>1. Exposed(g)
          BY <1>2, <2>7, <3>1, <4>1, <4>2 DEF Exposed
        <5>2. PICK u \in Tasks : Covers(task[u], g, resets)
          BY <5>1 DEF MissedOK
        <5> QED BY <1>2, <2>8, <5>2
      <4>3. CASE g = new
        <5>1. Exposed(old) /\ ~OnList(old)
          BY <1>0, <1>2, <1>4, <2>3, <2>7, <3>1, <4>3 DEF Exposed
        <5>2. PICK u \in Tasks : Covers(task[u], old, resets)
          BY <1>1, <5>1 DEF MissedOK
        <5>3. task[u].pc = "list"
          BY <5>1, <5>2 DEF Covers, OnList, Ending
        <5> QED BY <1>2, <2>8, <5>2, <5>3 DEF Covers
      <4> QED BY <4>2, <4>3
    <3> QED BY <1>2, <3>1 DEF MissedOK, Covers
  <2> QED BY <2>8, <2>9
<1> QED BY <1>0, <1>3, <1>4 DEF Rotate

LEMMA StoreStep ==
    ASSUME Inv, NEW t \in Tasks, StorePassword(t)
    PROVE  Inv'
<1> DEFINE l == [pc |-> "list", op |-> "password", keep |-> {task[t].hash}, mark |-> 0]
<1>1. /\ task[t].pc = "store" /\ task[t].hash \in Hashes
      /\ UNCHANGED <<now, throttle, mutex, session, calls, resets, late>>
  BY DEF StorePassword, Inv, LocalsOK, LocalOK, InSession
<1>2. "pc" \in DOMAIN l /\ l.pc = "list" /\ l.keep = {task[t].hash} /\ l.mark = 0
  OBVIOUS
<1>3. task' = [task EXCEPT ![t] = l]
  BY DEF StorePassword, Inv, Typed
<1> HIDE DEF l
<1>4. LocalOK(l)
  BY <1>1, <1>2 DEF LocalOK, Attempting, Holding, InSession, Ending
<1>5. now' \in Nat /\ calls' \in Nat /\ throttle' \in [Kinds -> Counters]
  BY <1>1 DEF Inv, Typed
<1>6. \A k \in Kinds : Locked(k)' => Locked(k)
  BY <1>1 DEF Locked
<1> QED BY <1>1, <1>2, <1>3, <1>4, <1>5, <1>6, QuietStep DEF Holding, Ending

\* What is live when a revocation asks is what it will revoke.
LEMMA ListStep ==
    ASSUME Inv, NEW t \in Tasks, ListSessions(t)
    PROVE  Inv'
<1> USE DEF Inv
<1> DEFINE l == [pc |-> "revoke", op |-> task[t].op, keep |-> task[t].keep,
                 mark |-> task[t].mark, listed |-> Listed(task[t].keep)]
<1>1. /\ task[t].pc = "list" /\ task[t].keep \subseteq Hashes
      /\ task[t].op = "password" => task[t].keep # {}
      /\ task[t].mark \in Nat /\ (task[t].mark # 0 => task[t].keep = {})
      /\ UNCHANGED <<now, throttle, mutex, session, calls, resets, late>>
  BY DEF ListSessions, LocalsOK, LocalOK, Ending
<1>2. /\ "pc" \in DOMAIN l /\ l.pc = "revoke" /\ l.keep = task[t].keep /\ l.op = task[t].op
      /\ l.mark = task[t].mark /\ l.listed = LiveSessions \ task[t].keep
  BY DEF Listed
<1>3. task' = [task EXCEPT ![t] = l]
  BY DEF ListSessions, Typed
<1> HIDE DEF l
<1>4. LocalOK(l)
  BY <1>1, <1>2 DEF LocalOK, Attempting, Holding, InSession, Ending
<1>5. resets' = resets /\ resets' \in Nat /\ session' = session /\ session' \in [Hashes -> SessionRows]
  BY <1>1 DEF Typed
<1>6. /\ LocalsOK' /\ Typed' /\ MutexOK' /\ LatesOK' /\ task'[t] = l
      /\ \A u \in Tasks \ {t} : task'[u] = task[u]
  BY <1>1, <1>2, <1>3, <1>4, <1>5, SessionsWritten DEF Holding
<1>7. MissedOK'
  <2>1. \A g \in Hashes : Exposed(g)' => Exposed(g)
    BY <1>5 DEF Exposed
  <2>2. ASSUME NEW g \in Hashes, Exposed(g), Covers(task[t], g, resets)
        PROVE  Covers(l, g, resets)
    <3>1. session[g].since \in Nat /\ resets \in Nat
      BY SessionFields DEF Typed
    <3>2. task[t].mark = resets /\ task[t].mark # 0 /\ session[g].status = "live"
      BY <2>2, <3>1 DEF Exposed, Covers
    <3>3. g \in l.listed
      BY <1>1, <1>2, <3>2 DEF LiveSessions
    <3> QED BY <1>2, <3>2, <3>3 DEF Covers, Ending
  <2> QED BY <1>5, <1>6, <2>1, <2>2, MissedKept
<1> QED BY <1>6, <1>7

LEMMA RevokeStep ==
    ASSUME Inv, NEW t \in Tasks, NEW failed, RevokeListed(t, failed)
    PROVE  Inv'
<1> USE DEF Inv
<1>0. PICK listed, mark, hash : /\ listed = task[t].listed /\ mark = task[t].mark
                               /\ hash = CHOOSE h \in task[t].keep : TRUE
  OBVIOUS
<1>1. /\ task[t].pc = "revoke" /\ task[t].keep \subseteq Hashes
      /\ task[t].op = "password" => task[t].keep # {}
      /\ session' = Missed(failed, mark, Revoked(listed \ failed)) /\ UNCHANGED <<now, throttle, mutex, calls, resets, late>>
  BY <1>0 DEF RevokeListed, LocalsOK, LocalOK, Ending
<1>2. PICK l : LocalOK(l) /\ l.pc \notin Holding /\ task' = [task EXCEPT ![t] = l]
  <2>1. CASE Becomes(t, Idle)
    BY <2>1, IdleOK DEF Becomes, Holding
  <2>2. CASE /\ task[t].op = "password"
             /\ Becomes(t, [pc |-> "rotate", op |-> "password", hash |-> hash])
    <3> DEFINE l == [pc |-> "rotate", op |-> "password", hash |-> hash]
    <3>1. hash \in Hashes
      BY <1>0, <1>1, <2>2
    <3>2. "pc" \in DOMAIN l /\ l.pc = "rotate" /\ l.hash = hash
      OBVIOUS
    <3>3. task' = [task EXCEPT ![t] = l]
      BY <2>2 DEF Becomes
    <3> HIDE DEF l
    <3>4. LocalOK(l)
      BY <3>1, <3>2 DEF LocalOK, Attempting, Holding, InSession, Ending
    <3> QED BY <3>2, <3>3, <3>4 DEF Holding
  <2> QED BY <1>0, <2>1, <2>2 DEF RevokeListed
<1>3. /\ session' \in [Hashes -> SessionRows]
      /\ \A h \in Hashes :
           /\ session'[h].since = session[h].since
           /\ session'[h].missed = IF h \in failed /\ mark = resets THEN resets ELSE session[h].missed
           /\ session'[h].status = "live" => session[h].status = "live" /\ h \notin listed \ failed
  <2>1. PICK rows : rows = Revoked(listed \ failed)
    OBVIOUS
  <2>2. /\ rows \in [Hashes -> SessionRows]
        /\ \A h \in Hashes :
             /\ rows[h].since = session[h].since /\ rows[h].missed = session[h].missed
             /\ rows[h].status = "live" => session[h].status = "live" /\ h \notin listed \ failed
    BY <2>1, RevokedRows DEF Typed
  <2>3. session' = Missed(failed, mark, rows) /\ resets \in Nat
    BY <1>1, <2>1 DEF Typed
  <2>4. /\ session' \in [Hashes -> SessionRows]
        /\ \A h \in Hashes :
             /\ session'[h].since = rows[h].since /\ session'[h].status = rows[h].status
             /\ session'[h].missed = IF h \in failed /\ mark = resets THEN resets ELSE rows[h].missed
    BY <2>2, <2>3, MissedRows
  <2> QED BY <2>2, <2>4
<1>4. resets' = resets /\ resets' \in Nat
  BY <1>1 DEF Typed
<1>5. /\ LocalsOK' /\ Typed' /\ MutexOK' /\ LatesOK' /\ task'[t] = l
      /\ \A u \in Tasks \ {t} : task'[u] = task[u]
  BY <1>1, <1>2, <1>3, <1>4, SessionsWritten
<1>6. MissedOK'
  <2>1. \A g \in Hashes : Exposed(g)' => Exposed(g) /\ ~ (g \in listed /\ mark = resets)
    BY <1>3, <1>4 DEF Exposed
  <2>2. \A g \in Hashes : Covers(task[t], g, resets) => g \in listed /\ mark = resets
    BY <1>0, <1>1 DEF Covers
  <2> QED BY <1>4, <1>5, <2>1, <2>2, MissedKept
<1> QED BY <1>5, <1>6

\* A reset or a disabling is itself the call that covers every session.
LEMMA EndSessionsBegins ==
    ASSUME Inv, NEW t \in Tasks, ResetCredentials(t) \/ DisableAccount(t)
    PROVE  Inv'
<1> USE DEF Inv
<1>0. PICK op : op \in {"reset", "disable"} /\ Begin(t, [pc |-> "list", op |-> op, keep |-> {}, mark |-> resets + 1])
  BY DEF ResetCredentials, DisableAccount
<1> DEFINE l == [pc |-> "list", op |-> op, keep |-> {}, mark |-> resets + 1]
<1>1. "pc" \in DOMAIN l /\ l.pc = "list" /\ l.keep = {} /\ l.op # "password" /\ l.mark = resets + 1
  BY <1>0
<1>2. /\ task' = [task EXCEPT ![t] = l] /\ calls' = calls + 1 /\ resets' = resets + 1
      /\ UNCHANGED <<now, throttle, mutex, session, late>>
  BY <1>0 DEF ResetCredentials, DisableAccount, Begin, Becomes
<1> HIDE DEF l
<1>3. LocalOK(l)
  BY <1>1 DEF Typed, LocalOK, Attempting, Holding, InSession, Ending
<1>4. /\ LocalsOK' /\ DOMAIN task' = Tasks /\ task'[t] = l
      /\ \A u \in Tasks \ {t} : task'[u] = task[u]
  BY <1>2, <1>3, LocalSet
<1>5. Typed'
  BY <1>2, <1>4 DEF Typed
<1>6. MutexOK'
  BY <1>1, <1>2, <1>4, MutexKept DEF Holding
<1>7. LatesOK'
  <2>1. \A k \in Kinds, n \in Nodes : ~PastCheck(l, k, n)
    BY <1>1 DEF PastCheck
  <2>2. \A k \in Kinds : Locked(k)' => Locked(k)
    BY <1>2 DEF Locked
  <2> QED BY <1>2, <1>4, <2>1, <2>2, LatesKept
<1>8. MissedOK'
  <2>1. \A g \in Hashes : Covers(task'[t], g, resets')
    BY <1>1, <1>2, <1>4 DEF Covers, Ending
  <2> QED BY <2>1 DEF MissedOK, Covers
<1> QED BY <1>4, <1>5, <1>6, <1>7, <1>8

\* A call that is cut short: what its revocation would still have reached is
\* marked.
LEMMA AbandonStep ==
    ASSUME Inv, NEW t \in Tasks, Abandon(t)
    PROVE  Inv'
<1> USE DEF Inv
<1>0. PICK listed, mark : listed = task[t].listed /\ mark = task[t].mark
  OBVIOUS
<1>1. UNCHANGED <<now, throttle, calls, resets, late>> /\ resets \in Nat /\ resets' \in Nat
  BY DEF Abandon, Typed
<1>2. \A k \in Kinds : Locked(k)' => Locked(k)
  BY <1>1 DEF Locked
<1>3. CASE task[t].pc \in Holding
  <2>1. /\ MutexOK' /\ mutex' \in [Nodes -> SUBSET Kinds]
        /\ LocalsOK' /\ DOMAIN task' = Tasks /\ task'[t] = Idle
        /\ \A u \in Tasks \ {t} : task'[u] = task[u]
    BY <1>3, ReturnMutex DEF Abandon
  <2>2. session' = session
    BY <1>3 DEF Abandon, Holding
  <2>3. Typed'
    BY <1>1, <2>1, <2>2 DEF Typed
  <2>4. LatesOK'
    <3>1. \A k \in Kinds, n \in Nodes : ~PastCheck(task'[t], k, n)
      BY <2>1, IdleOK DEF PastCheck
    <3> QED BY <1>1, <1>2, <2>1, <3>1, LatesKept
  <2>5. MissedOK'
    <3>1. \A h \in Hashes : (Exposed(h)' => Exposed(h)) /\ ~Covers(task[t], h, resets)
      BY <1>1, <1>3, <2>2 DEF Exposed, Covers, Ending, Holding
    <3> QED BY <1>1, <2>1, <3>1, MissedKept
  <2> QED BY <2>1, <2>3, <2>4, <2>5
<1>4. CASE task[t].pc \notin Holding
  <2>1. task' = [task EXCEPT ![t] = Idle] /\ UNCHANGED mutex
    BY <1>4 DEF Abandon, Becomes
  <2>2. /\ task[t].pc = "list" => session' = Missed(LiveSessions, mark, session)
        /\ task[t].pc = "revoke" => session' = Missed(listed, mark, session)
        /\ task[t].pc \notin Ending => session' = session
    BY <1>0 DEF Abandon, Ending
  <2>3. PICK S : /\ task[t].pc \in Ending => session' = Missed(S, mark, session)
                 /\ task[t].pc = "list" => S = LiveSessions
                 /\ task[t].pc = "revoke" => S = listed
    BY <2>2 DEF Ending
  <2>4. /\ session' \in [Hashes -> SessionRows]
        /\ \A h \in Hashes :
             /\ session'[h].since = session[h].since /\ session'[h].status = session[h].status
             /\ session'[h].missed \in {session[h].missed, resets}
             /\ task[t].pc \in Ending /\ h \in S /\ mark = resets => session'[h].missed = resets
    BY <1>1, <2>2, <2>3, MissedRows DEF Typed
  <2>5. /\ LocalsOK' /\ Typed' /\ MutexOK' /\ LatesOK' /\ task'[t] = Idle
        /\ \A u \in Tasks \ {t} : task'[u] = task[u]
    BY <1>1, <2>1, <2>4, SessionsWritten, IdleOK DEF Holding
  <2>6. MissedOK'
    <3>1. \A h \in Hashes : Exposed(h)' => Exposed(h) /\ ~Covers(task[t], h, resets)
      BY <1>0, <1>1, <2>3, <2>4 DEF Exposed, Covers, Ending, LiveSessions
    <3> QED BY <1>1, <2>5, <3>1, MissedKept
  <2> QED BY <2>5, <2>6
<1> QED BY <1>3, <1>4

\* A step of no call: time, the account's row, the end of one session.
LEMMA OtherStep ==
    ASSUME Inv, UNCHANGED <<task, mutex, late, throttle, resets, calls>>, now' \in Nat, now' >= now,
           session' \in [Hashes -> SessionRows], \A h \in Hashes : Exposed(h)' => Exposed(h)
    PROVE  Inv'
<1> USE DEF Inv
<1>1. Typed' /\ LocalsOK'
  BY DEF Typed, LocalsOK, LocalOK
<1>2. MutexOK'
  BY DEF MutexOK
<1>3. LatesOK'
  <2>1. \A k \in Kinds : Locked(k)' => Locked(k)
    <3>1. \A k \in Kinds : throttle[k].locked_until \in Nat
      BY CounterFields DEF Typed
    <3> QED BY <3>1 DEF Locked, Typed
  <2> QED BY <2>1 DEF LatesOK, PastCheck
<1>4. MissedOK'
  BY DEF MissedOK, Covers
<1> QED BY <1>1, <1>2, <1>3, <1>4

-----------------------------------------------------------------------------
(* The theorems                                                            *)

LEMMA InitInv == Init => Inv
<1> SUFFICES ASSUME Init PROVE Inv
  OBVIOUS
<1>1. Typed
  <2>1. NoCounter \in Counters /\ Unused \in SessionRows
    BY DEF NoCounter, Counters, Unused, SessionRows
  <2> QED BY <2>1 DEF Init, Typed
<1>2. \A t \in Tasks : task[t] = Idle
  BY DEF Init
<1>3. LocalsOK
  BY <1>2, IdleOK DEF LocalsOK
<1>4. MutexOK
  BY <1>2, IdleOK DEF MutexOK, Holding
<1>5. LatesOK
  BY DEF Init, LatesOK
<1>6. MissedOK
  BY DEF Init, MissedOK, Exposed, Unused
<1> QED BY <1>1, <1>3, <1>4, <1>5, <1>6 DEF Inv

LEMMA NextInv == Inv /\ [Next]_vars => Inv'
<1> SUFFICES ASSUME Inv, [Next]_vars PROVE Inv'
  OBVIOUS
<1>1. CASE UNCHANGED <<task, mutex, late, throttle, resets, calls, session, now>>
  <2>1. now' \in Nat /\ now' >= now /\ session' \in [Hashes -> SessionRows]
    BY <1>1 DEF Inv, Typed
  <2>2. \A h \in Hashes : Exposed(h)' => Exposed(h)
    BY <1>1 DEF Exposed
  <2> QED BY <1>1, <2>1, <2>2, OtherStep
<1>2. CASE Tick
  <2>1. now' \in Nat /\ now' >= now /\ session' \in [Hashes -> SessionRows]
    BY <1>2 DEF Tick, Inv, Typed
  <2>2. \A h \in Hashes : Exposed(h)' => Exposed(h)
    BY <1>2 DEF Tick, Exposed
  <2> QED BY <1>2, <2>1, <2>2, OtherStep DEF Tick
<1>3. ASSUME NEW g \in Hashes, RevokeSession(g)
      PROVE  Inv'
  <2>1. /\ session' = Revoked({g})
        /\ UNCHANGED <<task, mutex, late, throttle, resets, calls, now>>
    BY <1>3 DEF RevokeSession
  <2>2. now' \in Nat /\ now' >= now
    BY <2>1 DEF Inv, Typed
  <2>3. /\ session' \in [Hashes -> SessionRows]
        /\ \A h \in Hashes :
             /\ session'[h].since = session[h].since /\ session'[h].missed = session[h].missed
             /\ session'[h].status = "live" => session[h].status = "live"
    BY <2>1, RevokedRows DEF Inv, Typed
  <2>4. \A h \in Hashes : Exposed(h)' => Exposed(h)
    BY <2>1, <2>3 DEF Exposed
  <2> QED BY <2>1, <2>2, <2>3, <2>4, OtherStep
<1>4. ASSUME NEW t \in Tasks, LoginStep(t)
      PROVE  Inv'
  BY <1>4, LoginBegins, SerializeStep, WaitStep, NonceStep, GuessStep, VerifiedStep, RehashStep,
     ClearStep, OpenStep, CountStep, LockStep DEF LoginStep
<1>5. ASSUME NEW t \in Tasks, SessionStep(t)
      PROVE  Inv'
  BY <1>5, SessionCallBegins, RotateStep, FactorVerified, FailedFactor, StoreStep DEF SessionStep
<1>6. ASSUME NEW t \in Tasks, AdminStep(t)
      PROVE  Inv'
  BY <1>6, EndSessionsBegins, ListStep, RevokeStep, AbandonStep DEF AdminStep
<1>7. CASE EnableAccount \/ (\E step \in Steps : CompleteEnrollment(step)) \/ UNCHANGED vars
  BY <1>1, <1>7 DEF EnableAccount, CompleteEnrollment, vars
<1> QED BY <1>2, <1>3, <1>4, <1>5, <1>6, <1>7 DEF Next

LEMMA Invariant == Spec => []Inv
BY InitInv, NextInv, PTL DEF Spec

\* Whatever the thresholds and locks, and however attempts on any number of
\* nodes count, lock and clear: once the lock of a key is written the node
\* that wrote it evaluates no further guess under it, and another node at
\* most the one that was past the check (serialize, throttle_wait,
\* throttle_failure).
THEOREM GuessesStop == Spec => []GuessesStopAtLock
<1>1. Inv => GuessesStopAtLock
  BY DEF Inv, LatesOK, GuessesStopAtLock
<1> QED BY <1>1, Invariant, PTL

\* When no reset or disabling is still revoking, every live session of an
\* earlier sign-in is one the revocation of the latest of them did not reach,
\* because a login that had read the account before the write opened it after
\* the listing, a rotation took it off the list, a statement failed or the
\* call was cut short: no other interleaving of logins, rotations, evictions
\* and revocations keeps one, and none is kept by an earlier reset's miss
\* (revoke_all_sessions, open_session, admin_rotate_session).
THEOREM MissedOnly == Spec => []OnlyMissedSurvive
<1>1. Inv => OnlyMissedSurvive
  BY DEF Inv, MissedOK, Exposed, Covers, Ending, OnlyMissedSurvive, Settled, LiveSessions
<1> QED BY <1>1, Invariant, PTL
=============================================================================

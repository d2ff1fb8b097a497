# FerroGate in TLA+

FerroGate gives machines short-lived identities. **CMIS**, a cluster of gRPC
servers over a Raft store, attests hosts, issues and renews their SVIDs, revokes
them, and decides which local applications may use them. **MIA**, the agent on a
host, holds the SVID, mints child tokens for local applications, and enforces the
revocation list and the application allowlist it gets from CMIS.

This directory holds TLA+ models of the parts of that system that keep state under
concurrency and failure, the TLC runs that check them on small instances, and
TLAPS proofs of their main properties for every value of their parameters.
`PROJECT.json` maps every definition to the lines it models.

## 1. Inventory

| Part | State | Operations | Talks to |
|---|---|---|---|
| Revocations (`cmis/state.rs`, `service.rs`, `crl_publisher.rs`; `ferro-svid/crl.rs`) | per node: entries, CRL number, published CRL | RevokeSvid, RevokeHost, UnrevokeHost, periodic publish, JWKS | issuance and host-call authentication read the entries; hosts pull the CRL |
| CRL cache and mint gate (`mia/helper/crl.rs`) | the last CRL body | refresh, gate on every mint | JWKS of CMIS |
| Issuance (`cmis/service.rs`, `state.rs`; `ferro-svid/lifecycle.rs`, `issue.rs`) | replicated record per host; policy epoch per node | Attest (TPM and host-key tiers), Rotate, FetchSvid, BumpEpoch | store, revocations |
| Host-call authentication (`cmis/host_auth.rs`) | per node: replay cache, rate limiters | authenticate, for Rotate, SyncAllowlist, AppendAuditEvent, app requests | revocations |
| Allowlist v2, serving (`cmis/apps/compile.rs`; `ferro-raft/apps/generation.rs`) | replicated generation row per host with a cached signed body | SyncAllowlist, bump, record, cache | ledger of approvals, legacy bodies, mode |
| Allowlist v2, syncing (`mia/allowlist_sync`) | held state in memory, two files, the allowlist in force | tick, accept, persist, apply, v1 path, start | SyncAllowlist; the helper API reads the allowlist |
| App-request ledger (`ferro-raft/apps`, `cmis/apps`) | requests, approvals, lineages, binaries | submit, automatic approval, decide, edit, revoke, expire, import | bumps the generation; hosts poll for decisions |
| Admin accounts (`cmis/admin/service.rs`, `bootstrap.rs`, `enroll.rs`; `ferro-raft/admin.rs`) | replicated: accounts, group membership, factors, enrolment tokens | create, update, enable, disable, reset, change password, add and remove a factor, enrol, bootstrap, arm | every admin RPC is authorized by them |
| Admin sign-in (`cmis/admin/store.rs`, `factors.rs`, `session.rs`, `throttle.rs`, `totp.rs`) | replicated: throttle counters, sessions, last TOTP step; per node: one mutex per throttle key | login, step-up, proofs, rotation and revocation of sessions | accounts |
| Enrolment (`cmis/fleet_manifest.rs`, watchers, host-key pins) | manifest, pins, RIM version | check, bind, reload | attestation |
| Audit log (`ferro-audit`) | per node: leaf and hash files, head files, the tree and its latest head | append, seal a head, prove, resume | every handler appends; anchoring reads the heads |
| Audit forwarding (`mia/audit_forward`) | channel, spool in memory and in a file, wake permit | spool, cap, compact, forward, finish, open | AppendAuditEvent; the credential slot |
| Agent renewal (`mia/renewal`, `scheduler.rs`, `credstore.rs`) | the SVID held and when it was attested, failures, next attempt; what is in force: credentials, minter, SVID of the proposals, sealed certificate | step, rotate, attest, accept, install, disable, supervise, start | Attest, Rotate; the helper API, host calls and audit forwarding use what is in force |
| Registration (`mia/registration`) | requests of local applications | submit, poll, wait | ledger |

Stateless or platform code (verification of evidence, cryptography, encodings,
user interfaces, operating-system access) is listed in `PROJECT.json` and not
modelled; `formal/` in the repository has its own symbolic models of the
attestation protocol.

**What is hard here.** Handlers are async: every `.await`, and every lock
taken after another was released, lets other handlers in, and what was read
before is stale after. Clients retry calls that are still being served. Some
state is replicated and survives a restart, some is per process and does not,
and the two are used together. Time appears as a captured `now`, so a handler
may work with an older clock than the one before it. The agent must come back
from files that a crash or a failed write left half done. The `hazards` of
`PROJECT.json` name the lines.

**What makes the parts correct.**

- A revocation stops minting within the CRL's maximum age, and is not lost while
  the credential it bars is valid.
- A revoked host gets nothing new; an SVID renews at most once; no chain of
  renewals outlives the window of its attestation.
- A host's document is accepted once; its calls stay within its rate.
- A generation stands for one entry set; a host accepts what CMIS signs for it,
  never goes back, and ends with what it is allowed.
- A request is decided once; what an approval grants never goes beyond what a
  person gave; its history is exact; every change of what is live moves the
  generation.
- An event the audit log acknowledged stays at its index over failed writes and
  restarts; every signed head is the root of a prefix of the log, and what the log
  proves verifies. A host's events reach CMIS in order, at least once, unless the
  spool's cap drops the oldest.
- The agent uses one SVID at a time everywhere, never one of another identity, takes an
  expired one out in bounded time, never runs out of one while CMIS attests it, and
  has one again within an interval when it did.
- A lock stops guesses on every node; a TOTP code and an enrolment token work once;
  a reset or a disabling ends the sessions it finds, and what it misses does not outlast
  the next one; no interleaving of two calls takes the last factor of an account, and
  no guarded write the last account administrator.

## 2. Modules

```
Revocations ── CrlPublisher ── CrlDistribution ── MCCrlDistribution, MintingProofs
     └──────── Issuance ── MCIssuance, IssuanceProofs
HostAuth ── MCHostAuth, HostAuthProofs
AllowlistServe ── AllowlistSync ── MCAllowlistSync, AllowlistSyncProofs
AppLedger ── MCAppLedger, AppLedgerProofs
AuditDelivery ⇐ AuditForward ── MCAuditForward, AuditProofs      (⇐: implemented by, INSTANCE ... WITH)
Merkle ─┬─ MCAuditLog
AuditLog ┘ ── AuditProofs
AdminAccounts ── MCAdminAccounts, AdminAccountsProofs
AdminSignIn ── MCAdminSignIn, AdminSignInProofs
AgentRenewal ── MCAgentRenewal, MintingProofs
```

Common conventions. A handler is a task with a program counter and its locals; one
action runs from one await (or lock) to the next. A handler's `now` is read where
the code reads it. `Restart` loses what the process keeps in memory. Operators keep
the names of the functions they model where they model one. Operators whose
comment begins with "Mutant" are deliberately wrong variants of the definition that
follows them; they are used only to confirm that the properties can fail.

**Revocations** is the working set as functions on a set of entries: `revoke`,
`unrevoke_host`, `is_revoked`, the prune. **CrlPublisher** adds the number, the
published CRL and `publish_crl`, split where the code releases the lock
(`PublishSnapshot`, then `PublishInstall` or `PublishFails`), and the revocation
RPCs. **CrlDistribution** composes it with the hosts: `FetchJwks`, `StoreCrl`,
`RefreshFails` and the `gate` of each agent. `barred_since` is a history variable.

**Issuance** models Attest as evidence, then CSR and mint, then record and send;
Rotate as authenticate, lookup, issue, fetch, swap; RevokeSvid with its search
for the paired certificate; UnrevokeHost with its lookup before the lift; BumpEpoch.
The store is a linearizable map and `RotateSwap` its compare-and-swap. SVIDs are
numbered in the order they are minted, and carry their parent and the attestation
they go back to. A failed record is still sent, as in the code.

**HostAuth** is `authenticate` from freshness on, with one action per lock: `Seen`,
`Check` (the token bucket, in the units of the code), `Insert`. The queue of the
cache is a sequence in insertion order, which is not expiry order when clocks
differ in age.

**AllowlistServe** is the generation row of one host and `serve`: `Arrive` (clock
and mode, once), `ReadRow`, `StartGeneration`, `Compile`, `Record`, `SignAndCache`,
with `Retry` up to `ATTEMPTS`. A digest is represented by the entries it is the
digest of. The transactions of the ledger appear by their effect on the host's
active approvals (`ChangeApprovals`), always with the bump they contain.
**AllowlistSync** adds the agent: `Send`, the four outcomes of a call, `StoreBody`,
`StoreState`, `Apply`, and `Restart` with `load_in_force`. A start may find the state
file unreadable (no rollback floor), or a body file that does not load: a read error, a
failed trust check or decode, a signature that does not verify. `load_in_force` then
falls to `allowlist.path`, or to nothing, and keeps the generation of the state file as
held; `unloaded` is a history variable that remembers it. It implements
AllowlistServe: `THEOREM Composition == Spec => ServeSpec`, so what is proved of
serving for any client holds of the composed system.

**AppLedger** is the ledger of one host. Rows are records with a version, as in the
tables; a revision record is the pair of snapshots before and after a change. A
ledger transaction is one action, with its guard as the condition; what a call read
before it waits in `task`: a submission goes through `BeginSubmit`, `Observe`,
`ReadParent`, `TryAutoApprove` (up to `AUTO_ATTEMPTS` times), `CountPending`,
`SubmitPending`; a registration through `BeginRegister`, `Observe`,
`RegisterAndApprove`; decisions, revocations, edits and the expiry of approvals
have a reading step and a writing step. `Deny`, `ExpireRequest` and `SetFrozen` are
one transaction that depends on nothing read before. The triggers of the schema
repeat what the guards check and are left out, so that the properties rest on the
guards alone; the exception is the trigger on renewals, which refuses what the
guard lets pass. A client's expected row version is left out: it can only refuse.

**AuditDelivery** states what forwarding promises without saying how the spool file
works: a bounded queue with a durable copy that may lag, at-least-once delivery of
its head, and no way for a durable event to vanish but an answer, the cap, or a file
set aside whole. **AuditForward** is the code: `Produce`, `Intake`, `Push` and
`JoinFlight` are the two halves of the intake task and its blocking write;
`ReadFront`, `Park`, `Woken`, `Call`, `Answer`, `CallFails`, `Finish` the sender, with
the stored permit of `Notify` in `wake`. The file is a sequence of event records and
watermarks that may end inside a line; an append may be cut short anywhere, a rewrite
may fail before or after an unreadable file was moved aside, and the agent may stop
between two steps or inside an append (`CrashInPush`, `CrashInFinish`). `OpenSpool` is
`load` with its renumbering: it accepts only events of rising number and a watermark
finishes the ones before it, so what it keeps is a set of records (`Waiting`) and the
order is theirs by number (`Loaded`). The refinement maps `queue` to the events that wait in
memory (in the file while the agent is down) and `saved` to what `load` would find.
Sizes in bytes are numbers of records; back-off is untimed.

**Merkle** is `merkle.rs`: `mth`, `path`, `consistency_proof` and the two verifiers with
their climb over the right edge. It is recursive and used by TLC only. Hashes are
injective terms. **AuditLog** takes the root as a parameter (`Root`), so that it needs no
recursion; `MCAuditLog` gives it Merkle's. Files are created once and never replaced; a
write that fails leaves an absent, torn or whole file (whole when only its sync failed),
and a leaf without its hash file
is still a leaf, as in `FileStore`. `Resume` is `AuditLog::new` with the check against
the newest head file.

**AdminAccounts** models each call as read (the handler's refusals, `Begin`), proof of
the caller's second factor, and one store transaction, named as in `ferro-raft/admin.rs`,
with exactly the conditions its statements carry. Groups other than
ferrogate-account-admins have no rule of their own and are left out; a client's row
version appears where the handler passes one on. **AdminSignIn** is one account under
attack and in use: `Login` reads the row, `Serialize` takes the node's mutexes,
`ThrottleWait`, the refusals and `VerifyCredentials`, then `Rehash`, `ThrottleClear` and
`OpenSession`, or `CountFailure` and `ApplyLocks`. Step-up and ChangePassword share
`VerifyFactor` and `FactorFails`; resets and disablings revoke in two steps
(`ListSessions`, `RevokeListed`), as the code does. With `StoreErrors` the statement
that revokes one session may fail, which the code logs, and a call may end between any
two of its statements (`Abandon`: a store error is returned, or the node stops).
`since` and `missed` of a session are history: the resets its sign-in had seen when it
read the account, and the last reset whose revocation did not reach it. Left out: a
store write that fails inside the throttle (the code logs it and goes on), FIDO2
assertions beside TOTP codes, resets of only the password or only the factors (in
AdminAccounts), attempts from more than one source address, and enrolments with a wrong
token or code, which count on the key of the source address alone
(`AdminSvc::enrollment_failed`).

**AgentRenewal** is the renewal task of the agent: `StepWait`, `StepExpire`, `StepAttest`
and `StepRenew` are the decision of `step` by the wall clock; `RotateAnswered`,
`AttestAnswered`, `CallTimesOut` and `ExpiresDuringCall` the ends of its calls; `Accept`,
`Install` and `Accepted` the three parts of `accept` around the write lock of the minter
and the refresh of the allowlist; `Disable` the fail-closed path with the three ways
on from it; `SupervisorDisables`, `AgentRestarts` and `Start` the rest of the life of the task.
`BeginMint` and `EndMint` are a request of the helper API that holds the minter's read
guard. CMIS appears by its record: it serves a call, or serves one the agent gave up
(`CmisServesLate`), after which the record holds an SVID the host never hears of
(`Unheard`). All times count from the present, so a tick takes one from each and there
is no last time; a tick never passes a timer that is due or a step that waits for
no one. `Leap` moves the wall clocks and not the timers: the host was suspended, or its
clock was stepped forward. An SVID is known by its expiry. `over`, `off`, `calm` and
`refused` are history variables.
Left out: clocks set back, the key policy (`host_key.rs`), status reports. The start-up
attestation, which the code leaves to the deadlines of the transport, ends within
`ATTEST_TIMEOUT`; a mint ends within the tick in which a swap begins to wait for it.

## 3. Runs

| Run | Checks | Instance |
|---|---|---|
| `crl_distribution` | `RevocationStopsMinting`, `BarsArePublished` | 1 host, 2 tasks, 2 CRLs between restarts, times 0–2, 1 restart |
| `issuance` | `RenewedAtMostOnce`, `RenewalsWithinWindow`, `RevokedHostGetsNothing` | 2 tasks, 1 restart, times 0–2; 3 SVIDs and an epoch bump without revocations, or 2 SVIDs and 2 admin calls |
| `host_auth` | `CacheConsistent`, `ReplayOnlyAtWindowEnd`, `WithinRate` | 2 tasks, 3 nonces, capacity 2, 4 calls |
| `allowlist_sync` | `OneEntrySetPerGeneration`, `GenuineBodyAdmitted`, `BodyFileAdmitted`, `NotModifiedMeansInForce`, `NoRollback`, `Converges` (liveness) | 1 serve task, an approval that expires at time 1, 1 legacy entry, 1 change, times 0–2 with TTL 2, 2 faults, fairness |
| `app_intake` | `AutoRate`, `PendingCap` | 2 tasks, 4 documents of 3 binaries on one path, times 0–2 with a day of 2, cap 1 |
| `app_changes` | `HistoryMatches`, `OneDecision`, `WideAutoProtected`, `AutoWithinParent`, `LiveChangeBumps`, `EndsOnlyWhenDue` | 2 tasks, 2 requests, 2 approvals, times 0–1, versions up to 3, all operations but freeze |
| `audit_forward` | `SpoolOnDisk`, `DeliveryImplemented` (refinement), `Drains` (liveness) | 3 events of which CMIS refuses one, channel of 1, spool of 2, 3 mishaps |
| `audit_log` | `AcknowledgedKept`, `HeadsCoverPrefix`, `ProofsVerify` | 2 requests, 7 leaves, 2 faults |
| `admin_accounts` | `FactorKept`, `TokensSingleUse`, `LastAdminGuarded` | 2 accounts, 2 tokens, 2 FIDO2 credentials, 2 tasks, 4 calls |
| `admin_signin` | `GuessesStopAtLock`, `CodesOnce`, `OnlyMissedSurvive` | 2 nodes, 2 tasks, 3 session hashes, times 0–2, 3 calls, store errors and stops |
| `agent_renewal` | `InForceTogether`, `IdentityBound`, `TakenOutInTime`, `NoGap`, `RecoversInTime`, `WindowRespected` | lifetime 20, window 25 with a margin of 4, deadlines of 1, sleeps of 2, 1 mishap (a leap of 12, a panic, a stop or a new enrolment); time without bound |
| `retired_password` | `RetiredPasswordStaysRetired` **violated** | as `admin_signin`, no store errors |

**Bounds.** Two tasks are the least that race, and every race the properties are
about is between two handlers; the proofs remove the bound. `allowlist_sync` has one
serve task, so that a call the host gave up ends before the next one is served, because
liveness needs the whole graph in memory;
`MCAllowlistRaces.cfg` checks its safety properties with two tasks and one fault (3.6
million states up to the symmetry of the tasks, without error), and AllowlistSyncProofs
proves all of them for any number. Times are few seconds
because only their order against the windows matters, and each window (CRL age,
entry lifetime, SVID lifetime, re-attestation window, replay memory, half of a
body's lifetime) ends within the run. The replay cache is at its capacity of 2
after two of four calls. One host is enough where hosts share only sets keyed by
host. The ledger runs divide the operations: `app_intake` has three binaries, the least
for an auto-update past the daily rate of 1, and `app_changes` two, the least for a
parent and its child, with terms that expire at time 1 so that the sweep, a renewal
and a decision meet. `issuance` uses a state constraint (`Scenario`) instead of two
runs: long chains of renewals and revocations are each explored in full, not their
product. With a spool of 2 and 3 events the cap drops an event, the dead records reach
the compaction threshold, and 3 mishaps cover a failed append followed by a failed
rewrite and a stop. Seven leaves give every shape of tree below a full one of 8,
and every pair of sizes for consistency proofs. Two accounts are the least that
can remove each other, two credentials and a TOTP seed the least for two removals to
race, and one of the two calls of a race can be followed by two others. In
`admin_signin` the thresholds are 1, 2 and 3 (2, 3 and 4 for the account key), so a
lock is written by the first refusal, a counter is reset by its age within the run, and
three hashes at a limit of 2 sessions force an eviction. `agent_renewal` keeps
the proportions of the code's durations, which `ScheduleAssumption` states and TLC
evaluates on the instance, and has a window longer than the lifetime, so that Rotates
are served and the end of the window is met. With the deployed
floor of the lifetime, 96 h, and the window of 24 h, the window has closed before the first
renewal is due and Rotate is never used; the run keeps what the code does when it is.
A larger instance (two mishaps, 10.1 million states, with every conjunct of
`RenewalInv`) and the tier without a host-call key were explored once, without error.
Tasks, nodes, nonces and row ids are
symmetric; no run that checks liveness uses symmetry.
Deadlock is not checked where a run ends at its bounds of time and calls; in
`allowlist_sync` and `agent_renewal` the loop goes on for ever and deadlock is checked.
The type invariants are not part of the runs: those of CrlDistribution, Issuance,
HostAuth, AllowlistSync, AppLedger, AdminAccounts, AuditLog, AuditForward, AdminSignIn
and AgentRenewal are proved,
alone or as a conjunct of the inductive invariant, and elsewhere they document the
state.

**Fairness.** `FairSpec` of AllowlistSync has weak fairness of the sync loop, of each
serve task and of an answer nobody waits for. The loop of `AllowlistSync::run`
never ends and waits only on a timer, and a handler that was scheduled runs to its
end. `ForwardSpec` of AuditForward has weak fairness of the intake, its write task and the
sender, which are tokio tasks that only wait for each other; of `OpenSpool`, since the
service manager restarts the agent; of `SlotFilled`, the renewal loop; and of `Answer`,
CMIS answering a call it received. Producing events, stops, lost calls and lost
credentials are not fair, and mishaps are finite (`MaxMishaps`): nothing drains under an
outage that never ends. AuditLog has weak fairness of `Resume` alone, used only by the
counterexample below. Changes and faults are finite in number (`MaxChanges`, `MaxFaults`), since no
host converges while what it is allowed keeps changing. The clock is not fair:
`Converges` holds wherever it stops, and therefore says of a host whose last start could
not load the body file only what the code gives it: it has nothing in force and holds
the current generation, if the clock stops before half of the lifetime of that body;
from there on it gets a new one like every other host.

**What the violated run shows** (quoted in `findings`): `retired_password`. A login whose
hash needs stronger parameters stores the password it verified over whatever the row
holds by then; a password change or a reset that landed in between is undone, and the
retired password signs in again.

**Counterexamples kept as configurations.** These also fail, each against a sentence of
the code or its docs, and are kept to be looked at when that code changes:

| Command | Property | What TLC finds |
|---|---|---|
| `tlc -config MCCrlNumber.cfg MCCrlDistribution` | `PublishedNumberMonotonic` | two publishers sign outside the lock, and the slower one installs an older CRL over a newer one; `crl_distribution` shows that minting still stops in time |
| `tlc -config MCPairRevoked.cfg MCIssuance` | `PairRevokedTogether` | the certificate of a superseded SVID is not found and stays live |
| `tlc -config MCEvidenceEpoch.cfg MCIssuance` | `RenewedUnderEvidenceEpoch` | an epoch bump between evidence and record is stamped on evidence verified before it |
| `tlc -config MCReplayWindow.cfg MCHostAuth` | `AcceptedOnce` | a document issued ahead of the clock is accepted twice, in the last second of its window; `host_auth` shows that it cannot happen earlier |
| `tlc -config MCLastAdmin.cfg MCAdminAccounts` | `AccountAdminRemains` | `ferro-raft/src/admin.rs:1050` says concurrent disabling cannot leave no account administrator; the guard is asked for only if the handler's own earlier reading found an active administrator, and no row version protects that reading, so an account that became one since is disabled unguarded. `LastAdminGuarded` shows that this is the only way |
| `tlc -config MCUnloadableBody.cfg MCAllowlistSync` | `HostHoldsBody` | `machine_identity.proto:655` says that NotModified means "The host already holds `generation` and its body"; a start that finds the body file and cannot load it (`allowlist_sync/mod.rs:716`) has nothing in force but asks with the generation of the state file, is answered NotModified, and denies every caller until half of the lifetime of that body or the next change. `NotModifiedMeansInForce` shows that this is the only case, and that nothing older is in force in it |
| `tlc -config MCResetSessions.cfg MCAdminSignIn` | `ResetEndsSessions` | docs/features/F20-admin-authentication.md says that a reset "revokes every session of the target" (526) and "disable revokes everything" (815); a login reads the account, a reset writes the row and lists the sessions, the login opens its session, the reset revokes what it listed (`admin/state.rs:741`). The account is active after a reset, so the session of the old credentials is let through; one rotated between listing and revoking escapes in the same way. `OnlyMissedSurvive` shows that there is no other way but a statement that failed or a call cut short, and that the next reset ends what one missed |
| `tlc -config MCTakenOut.cfg MCAgentRenewal` | `TakenOutWithinASleep` | `renewal/mod.rs:127` and docs/operations.md:280 say that an expired SVID is out within a minute; the deadlines of a call are monotonic, and a suspension or a step of the clock during one adds them. `TakenOutInTime` gives the bound |
| `tlc -config MCAuditResume.cfg MCAuditLog` | `Resumes` | `log.rs:74` says a start resumes from whatever the store holds; a stop in the middle of a head file leaves a newest head that cannot be decoded, and every later start is refused |

## 4. Proofs

All constants are arbitrary; the assumptions are the named `ASSUME`s of the modules:
bounds and durations are naturals, capacities and rates are at least 1, an SVID
lives no longer than a CRL entry (`IssuanceAssumption`; the code derives both from
`MAX_TTL_SECS`), the TTL of an allowlist is at most the agent's maximum age
(`SyncAssumption`, docs/cmis.md), locks and thresholds of the sign-in are at least 1
second (`AdminSignInAssumption`), and finitely many calls are in flight
(`AppLedgerAssumption`; `PendingCap` counts them). `ScheduleAssumption` relates the
durations of AgentRenewal as the code's constants do: the refresh after a swap (60 s)
is no longer than a Rotate and an attestation (60 s and 120 s, `Timeouts::default`),
the back-off starts (30 s) below its cap (15 min), a sleep (60 s) is within the interval
(5 min), the three deadlines are within the margin of the window (10 min), and the two
calls and the cap are below a quarter of the lifetime (at least 96 h, `MIN_TTL_SECS`).
Each proof follows the same plan: an
inductive invariant that TLC has checked on the instance of a run, one lemma for each
action and part of the invariant that it can disturb, and a last step by temporal logic.

- **MintingProofs**, first part (CrlDistribution): `Inv` adds to `BarsArePublished` that times in bodies
  and tasks are not in the future, that entries outlive the bar they stand for, and
  that an UnrevokeHost in progress works with a time no later than the clock.
  `StopsMinting` follows: a body that lets a barred host mint is older than the bar,
  so too old to be fresh.
- **MintingProofs**, second part (AgentRenewal): none of the six properties is inductive,
  since each speaks of one of the places an SVID or a time is in, and the task's next
  step depends on the others. `RenewalInv` has a conjunct for each concern. `CallOfTask`
  and `SwapInv` tie the step of the task to the call it waits for and to what is in force:
  the SVID of the run, or nothing. `TaskTime` bounds how far the task's own time is
  behind the clock (`Leapt`), and says that a deadline that was cut ends no earlier
  than the SVID does, so that whoever disables has an expired SVID. `IdentityInv` follows
  the identity through calls and candidates. `OffInv` and `OverInv` add to each ghost
  clock the time that is still to come at each step, so that a tick leaves the sum; the
  bounds are the values of these sums when the task falls asleep. `WindowInv` says by how
  much the agent may take its attestation for younger than CMIS does, `FreshInv` how much
  life an SVID has lost on its way into force, and `CalmInv` how much must be left at
  each step for the steps that may still follow: a Rotate is begun only with a quarter
  of the lifetime, which pays for its deadline, one back-off and an attestation.
  A leap of the clock is the one step in which all times move and the task does not; for
  it the proof needs that times are clamped only where no comparison reaches (`Ages`).
- **IssuanceProofs**: `Shape` relates a task's step to its locals; `Chain` says that
  a landed renewal has used up its parent (the store never again holds it), and that
  the record of a host carries the time of the attestation its SVID goes back to.
  `Bars` gives every minted SVID and every task past its check a time no later than
  the revocation that stands.
- **HostAuthProofs**: `Replays` says that of every accepted document the cache still
  holds the nonce, or the floor has passed its issue time, or its memory has expired
  by the clock of some call; queue and set agree. `RateBound` rests on a potential:
  the units in a bucket and what the admissions so far have cost.
- **AllowlistSyncProofs**: `ServeInv` says that a signed body of the current
  generation has the recorded entries, that every signed generation is at most the
  row's, and that a task that is about to sign has entries that were recorded for its
  generation. `SyncInv` puts every body the agent holds, in memory and in its files,
  below the row, and orders held state, body file and state file.
  `TimeInv`, proved on top of it, is about time. Every signed body lives for the TTL from
  a moment that has passed. Of two bodies of one generation, the one that replaces the
  other does not end earlier: a cached body is served only with more than half of its
  lifetime left, a host asks for another only from half of the one it holds, and the
  handler reads the clock after the host did (`HalvesMeet`). Hence the body file
  outlives the state file, and a body that is held after a restart but not in force has
  expired, is behind the row, or did not load (`Covered`). To the first two `NotModified`
  is not an answer; the third is the exception that `NotModifiedInForce` names: nothing
  at all is in force, and only until half of the lifetime of what is held.
- **AppLedgerProofs**: every transaction leaves each approval as it was but for the mark
  of a newer one (`RowKept`), creates it (`RowBorn`), or changes it by one version
  (`RowChanged`), and decides a request at most once (`TableStep`). That the actions do so
  although they write what was read before rests on `CallsOK`: a row that a call holds
  (`Held`) is one of an earlier version, or agrees with the row in force in everything
  but that mark (`Alike`), since every change moves the version. From `TableStep` alone
  follow the history, the single decision, the terms of auto-updates (with
  `ParentsExist`) and the protected path of wide approvals. `RateBounded` counts the
  auto-approvals of a lineage in every window, also the ones that end at a clock behind
  the newest commit. `CapOverrunBounded` charges each call that has passed the count,
  and not yet written, to the cap: the open requests and those calls together stay
  below the cap and the number of calls (`CapInv`).
- **AuditProofs**, of AuditLog: the root is an arbitrary function of the leaves. `LogStored(n)` says
  that the leaf files are those of the first n indices, that the tree in memory is what
  they hold but for at most one leaf of a failed append, that what was acknowledged is
  among them, and that every head is the root of a prefix. `OnlyTornHeadRefuses` adds
  that a start is refused only because the newest head file is torn. The maximum
  over file names is handled by the least element of a set of naturals
  (`LeastNatural`, from well-foundedness), not by induction.
- **AuditProofs**, of AuditForward, for every number of events and mishaps, channel, cap
  and compaction threshold. `SpoolOnDisk` alone is not inductive: whether the next
  append keeps it depends on how the numbers in the file relate to those in memory.
  `ForwardInv` adds what every write relies on:
  - `SpoolNumbered` and `FileHolds`: the numbers in memory are consecutive and end below
    the next, and the file, whatever stopped writes left in it, reads as events of rising
    number in the order they were made. That `Loaded` is a sequence at all, and only one,
    is `OneOrder` and `LoadedIs`: of two ascending sequences of the same events the first
    place where they differ is a least element of a set of naturals. `EventsAppended`,
    `DoneAppended` and `WrittenAnew` say how a file reads after each kind of write.
  - `InLine`: what is still in the channel, staged or in the batch is newer than all that
    waits, was saved or was taken up. A crash in a push that left new events in the file
    therefore never puts one there that CMIS has seen.
  - `SenderAtFront`: the sender's event is the front of the spool, or the cap dropped it
    while the call ran; its number is never that of a newer event. So `complete_through`
    pops the one event that was answered, or nothing.
  - `CopyKept`: what the file still holds and memory does not was answered for or dropped,
    unless the file could not be read, and then a rewrite is owed that moves it aside.
  The steps that write share one argument. `Fits` bounds what an append cut short
  anywhere may have left in the file, of a push (a watermark and part of the new events,
  after a torn line or not) and of a finish; `Persisted` is what an attempt to write may
  come to, by append, compaction, rewrite, or failure; `PersistedGives` takes it back to
  the invariant and to `Saves` of AuditDelivery. Each step of the refinement then names
  the abstract step it is: `Push` is `Accept`, `ReadFront` is `Offer`, a served call is
  `Record` or `Refuse`, `Finish` is `Finish` or a stutter, a stop is `Stop` and
  `OpenSpool` is `Start`.
- **AdminAccountsProofs**: `CallsOK` says what a call that has read a row may still rely on
  when it writes: a completion with a live token brings a factor or finds one (what
  could have taken it away supersedes the token), and a group change at the version
  it read asked for the guard if it demotes. `Stable` lists what every transaction keeps of
  it. `LastAdmin` is an action property that follows from the statements' own counts.
- **AdminSignInProofs**: `CodesBehind` puts every accepted code of the seed in force at or
  below the last step of the row, whatever row it was checked against. `GuessesStop`
  rests on the mutexes (one attempt per node and key between the check and the
  counting) and on locks that end later than the clock of any attempt that was past the
  check; an attempt that a store error ends lets go of its keys and leaves both in place.
  `MissedOnly` follows each session back to the sign-in or the rotation that opened it:
  while the revocation of the latest reset is still to list, or has the session on its
  list, nothing is said; after it the session is revoked, or was marked by the step that
  took it out of reach.

Every safety property of the runs is proved but one. Out of the prover's reach and left
to TLC: `Converges` and `Drains` (liveness under
fairness), `ProofsVerify` (what the recursive functions of Merkle compute), and the
counterexamples.

## 5. Not modelled, and plan

Abstracted away in the modules above: signatures and encodings (they verify or end
the handler; where a failure goes on instead, as at the start of the agent, of the spool
and of the audit log, it is an outcome of the action), the wording of errors, logging, the schedule of the sync loop (a tick
may come at any time), more than one CMIS node for per-node state (each node is
independent; the store is shared), hosts that change identity, clocks that step
back.

Known limits of the code that no property is about:

- the working set of revocations and the CRL number are lost when CMIS restarts
  (`cmis/src/state.rs:263`); replay caches and rate limiters are per node and start
  empty (`host_auth.rs:35`), and drop hosts at MAX_TRACKED_HOSTS (`host_auth.rs:661`);
- UnrevokeHost looks an SVID up before it lifts the entry (`service.rs:1588`), and one
  issued between is not considered;
- store errors in handlers other than those of sign-in, issuance and the allowlist end
  the call before or after its one transaction and are not steps of their own;
- an unreadable `allowlist.state`, or a maximum age below half of the lifetime
  (`allowlist_sync/mod.rs:692`), makes the agent ask for the whole body again;
- audit events offered to a full channel are dropped (`audit_forward/mod.rs`;
  `Produce` models it, and delivery is promised from the spool on);
- a password change or a new factor that was proved before a reset lands after it; a
  reset that raced a disabling leaves a live token, which enrols nobody while the
  account is disabled; a reset of the factors, a disabling and an enabling in that order
  leave an active account that must enrol first; two leaders may arm two bootstrap
  tokens, of which one can be redeemed, or both by two completions that read the
  accounts before either wrote;
- the write of a state change on a stale reading of the account (`service.rs:1758`) is
  outside `LastAdminGuarded`, which says that it is the only way to take the last
  account administrator; `MCLastAdmin.cfg` shows it.

Next, in this order:

1. **AgentRenewal** composed with Issuance and with the slot of AuditForward.
2. **Enrolment** (manifest versions and trust-on-first-use pins), **registration** (the
   agent's side of an app request), the import of legacy approvals, and AppLedger as a
   refinement of the `ChangeApprovals` of AllowlistServe.

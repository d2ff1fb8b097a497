------------------------------ MODULE Issuance ------------------------------
(***************************************************************************)
(* The life of a host's SVIDs on one CMIS node: full attestation           *)
(* (`run_attest`, `run_attest_host_key`), renewal by the short path        *)
(* (`rotate_with_host_proof`), the replicated record of the last SVID, the *)
(* policy epoch, and the revocations that bar SVIDs (cmis/src/service.rs,  *)
(* cmis/src/state.rs).                                                     *)
(*                                                                         *)
(* Every `.await` of a handler ends an action: what a task read before it  *)
(* is a local of the task and may be stale when it is used.  A handler     *)
(* reads the clock once, at its start.  Verification of evidence and of    *)
(* signatures either succeeds or ends the handler (Fail); hosts are of the *)
(* host-key tier, since a TPM host's Rotate is refused with nothing        *)
(* changed.  Of publish_crl only the prune of the working set is visible   *)
(* here; CrlPublisher has the rest.                                        *)
(***************************************************************************)
EXTENDS Revocations, Integers, Sequences

CONSTANTS
    NoHost,                \* a task that concerns no host
    SvidTtl,               \* IssueParams.ttl_secs, clamped
    REATTEST_WINDOW_SECS,  \* how long one attestation carries renewals
    MaxSvids,              \* bound: SVIDs minted
    MaxEpoch,              \* bound: the policy epoch
    MaxAdminCalls,         \* bound: revocation calls and publisher rounds
    MaxRestarts            \* bound: restarts of the node

ASSUME IssuanceAssumption ==
    /\ NoHost \notin Hosts
    /\ SvidTtl \in Nat /\ SvidTtl <= CRL_ENTRY_TTL_SECS
    /\ REATTEST_WINDOW_SECS \in Nat
    /\ MaxSvids \in Nat /\ MaxEpoch \in Nat
    /\ MaxAdminCalls \in Nat /\ MaxRestarts \in Nat

VARIABLES
    svids,         \* every SVID minted; its index is its identity
    store,         \* issued_svids, the replicated record of each host
    policy_epoch,  \* CmisState.policy_epoch
    task,          \* per task: the handler it runs and its locals
    sent,          \* SVIDs that have left the node; a host need not hold them
    landed,        \* history: renewals whose swap landed in the store
    host_bar,      \* history: when the host's standing revocation was made
    admin_calls,   \* revocation calls and publisher rounds so far
    restarts       \* restarts so far

vars == <<clock, revocations, svids, store, policy_epoch, task, sent, landed,
          host_bar, admin_calls, restarts>>

-----------------------------------------------------------------------------
(* Data                                                                    *)

\* The two credentials of one issuance, by digest.
Jws(s)  == <<"jws", s>>
X509(s) == <<"x509", s>>
CertShas == {"jws", "x509"} \X (1 .. MaxSvids)

\* `parent` is the SVID a renewal replaces (0 for an attestation), `root`
\* the attestation it goes back to; `epoch` was in force when it was minted
\* and `evidence_epoch` when the evidence of its root was verified.
Svids == [host : Hosts, iat : Nat, exp : Nat, parent : Nat, root : Nat,
          epoch : Nat, evidence_epoch : Nat]

\* IssuedRecord: the bundle and last_attestation.
Records  == [svid : Nat, at : Nat, policy_epoch : Nat]
NoRecord == [svid |-> 0, at |-> 0, policy_epoch |-> 0]

Stages == {"idle", "csr", "record", "lookup", "issue", "fetch", "swap",
           "pair", "unrevoke", "lift", "publish"}

Locals == [pc : Stages, host : Hosts \cup {NoHost}, now : Nat, svid : Nat,
           rec : Records, epoch : Nat]

Running(pc, host, now, svid, rec, epoch) ==
    [pc |-> pc, host |-> host, now |-> now, svid |-> svid, rec |-> rec,
     epoch |-> epoch]

Idle == Running("idle", NoHost, 0, 0, NoRecord, 0)

Becomes(t, local) == task' = [task EXCEPT ![t] = local]

NotBarred == -1

BarStands(h) ==
    /\ host_bar[h] # NotBarred
    /\ clock < host_bar[h] + CRL_ENTRY_TTL_SECS

-----------------------------------------------------------------------------
Tick ==
    /\ clock < MaxTime
    /\ clock' = clock + 1
    /\ UNCHANGED <<revocations, svids, store, policy_epoch, task, sent, landed,
                   host_bar, admin_calls, restarts>>

-----------------------------------------------------------------------------
(* Attest                                                                  *)

\* The stream opens, the clock is read, the evidence is verified and the
\* handler waits for the CSR.
AttestEvidence(t, h) ==
    /\ task[t].pc = "idle"
    /\ Becomes(t, Running("csr", h, clock, 0, NoRecord, policy_epoch))
    /\ UNCHANGED <<clock, revocations, svids, store, policy_epoch, sent, landed,
                   host_bar, admin_calls, restarts>>

\* Mutant: no refuse_revoked_host.
AttestIssueUnchecked(t) ==
    LET h   == task[t].host
        now == task[t].now
        s   == Len(svids) + 1
    IN  /\ task[t].pc = "csr"
        /\ Len(svids) < MaxSvids
        /\ svids' = Append(svids, [host |-> h, iat |-> now, exp |-> now + SvidTtl,
                                   parent |-> 0, root |-> s, epoch |-> policy_epoch,
                                   evidence_epoch |-> task[t].epoch])
        /\ Becomes(t, Running("record", h, now, s,
                              [svid |-> s, at |-> now, policy_epoch |-> policy_epoch], 0))
        /\ UNCHANGED <<clock, revocations, store, policy_epoch, sent, landed,
                       host_bar, admin_calls, restarts>>

\* The CSR verifies: refuse_revoked_host, then mint.  last_attestation takes
\* the time of the handler and the epoch of this moment.
AttestIssue(t) ==
    LET h   == task[t].host
        now == task[t].now
        s   == Len(svids) + 1
    IN  /\ task[t].pc = "csr"
        /\ ~ is_host_revoked(h)
        /\ Len(svids) < MaxSvids
        /\ svids' = Append(svids, [host |-> h, iat |-> now, exp |-> now + SvidTtl,
                                   parent |-> 0, root |-> s, epoch |-> policy_epoch,
                                   evidence_epoch |-> task[t].epoch])
        /\ Becomes(t, Running("record", h, now, s,
                              [svid |-> s, at |-> now, policy_epoch |-> policy_epoch], 0))
        /\ UNCHANGED <<clock, revocations, store, policy_epoch, sent, landed,
                       host_bar, admin_calls, restarts>>

\* `record` overwrites whatever is stored and only logs a failure; the SVID
\* is sent either way.
AttestRecord(t) ==
    /\ task[t].pc = "record"
    /\ store' \in {store, [store EXCEPT ![task[t].host] = task[t].rec]}
    /\ sent' = sent \cup {task[t].svid}
    /\ Becomes(t, Idle)
    /\ UNCHANGED <<clock, revocations, svids, policy_epoch, landed, host_bar,
                   admin_calls, restarts>>

-----------------------------------------------------------------------------
(* Rotate                                                                  *)

\* authenticate: a presented SVID is valid now and not revoked.
RotateAuthenticate(t, s) ==
    LET h == svids[s].host IN
    /\ task[t].pc = "idle"
    /\ clock <= svids[s].exp
    /\ ~ is_revoked(h, Jws(s))
    /\ Becomes(t, Running("lookup", h, clock, s, NoRecord, 0))
    /\ UNCHANGED <<clock, revocations, svids, store, policy_epoch, sent, landed,
                   host_bar, admin_calls, restarts>>

RotateLookup(t) ==
    LET h == task[t].host IN
    /\ task[t].pc = "lookup"
    /\ store[h] # NoRecord
    /\ Becomes(t, Running("issue", h, task[t].now, task[t].svid, store[h], 0))
    /\ UNCHANGED <<clock, revocations, svids, store, policy_epoch, sent, landed,
                   host_bar, admin_calls, restarts>>

\* decide_renewal; a drifted state digest is a Fail.
ShortPath(rec, now) ==
    /\ rec.policy_epoch = policy_epoch
    /\ now - rec.at <= REATTEST_WINDOW_SECS

RotateIssue(t) ==
    LET h   == task[t].host
        now == task[t].now
        old == task[t].svid
        s   == Len(svids) + 1
    IN  /\ task[t].pc = "issue"
        /\ task[t].rec.svid = old
        /\ ShortPath(task[t].rec, now)
        /\ Len(svids) < MaxSvids
        /\ svids' = Append(svids, [host |-> h, iat |-> now, exp |-> now + SvidTtl,
                                   parent |-> old, root |-> svids[old].root,
                                   epoch |-> policy_epoch,
                                   evidence_epoch |-> svids[old].evidence_epoch])
        /\ Becomes(t, Running("fetch", h, now, s, NoRecord, 0))
        /\ UNCHANGED <<clock, revocations, store, policy_epoch, sent, landed,
                       host_bar, admin_calls, restarts>>

\* replace_bundle_if_current: read the record again, then swap it only while
\* the stored payload is what was read.
RotateFetch(t) ==
    LET h == task[t].host IN
    /\ task[t].pc = "fetch"
    /\ store[h].svid = svids[task[t].svid].parent
    /\ Becomes(t, Running("swap", h, task[t].now, task[t].svid, store[h], 0))
    /\ UNCHANGED <<clock, revocations, svids, store, policy_epoch, sent, landed,
                   host_bar, admin_calls, restarts>>

\* Mutant: update_bundle, which overwrites the record unconditionally.
RotateOverwrite(t) ==
    LET h == task[t].host
        s == task[t].svid
    IN  /\ task[t].pc = "swap"
        /\ store' = [store EXCEPT ![h] = [task[t].rec EXCEPT !.svid = s]]
        /\ landed' = landed \cup {s}
        /\ sent' = sent \cup {s}
        /\ Becomes(t, Idle)
        /\ UNCHANGED <<clock, revocations, svids, policy_epoch, host_bar,
                       admin_calls, restarts>>

\* Mutant: a renewal restarts the window of its attestation.
RotateRestartsWindow(t) ==
    LET h == task[t].host
        s == task[t].svid
    IN  /\ task[t].pc = "swap"
        /\ store[h] = task[t].rec
        /\ store' = [store EXCEPT ![h] = 
                        [task[t].rec EXCEPT !.svid = s, !.at = task[t].now]]
        /\ landed' = landed \cup {s}
        /\ sent' = sent \cup {s}
        /\ Becomes(t, Idle)
        /\ UNCHANGED <<clock, revocations, svids, policy_epoch, host_bar,
                       admin_calls, restarts>>

\* The swap landed; with its answer or the response lost, the host cannot use
\* the new SVID.
RotateSwap(t) ==
    LET h == task[t].host
        s == task[t].svid
    IN  /\ task[t].pc = "swap"
        /\ store[h] = task[t].rec
        /\ store' = [store EXCEPT ![h] = [task[t].rec EXCEPT !.svid = s]]
        /\ landed' = landed \cup {s}
        /\ sent' = sent \cup {s}
        /\ Becomes(t, Idle)
        /\ UNCHANGED <<clock, revocations, svids, policy_epoch, host_bar,
                       admin_calls, restarts>>

-----------------------------------------------------------------------------
(* Administration                                                          *)

AdminCall(t) ==
    /\ task[t].pc = "idle"
    /\ admin_calls < MaxAdminCalls
    /\ admin_calls' = admin_calls + 1

RevokeHost(t, h) ==
    /\ AdminCall(t)
    /\ revocations' = revoke(revocations, HostTarget(h), clock)
    /\ Becomes(t, Running("publish", NoHost, clock, 0, NoRecord, 0))
    /\ host_bar' = [host_bar EXCEPT ![h] = clock]
    /\ UNCHANGED <<clock, svids, store, policy_epoch, sent, landed, restarts>>

RevokeSvid(t, s) ==
    /\ AdminCall(t)
    /\ revocations' = revoke(revocations, SvidTarget(Jws(s)), clock)
    /\ Becomes(t, Running("pair", NoHost, clock, s, NoRecord, 0))
    /\ UNCHANGED <<clock, svids, store, policy_epoch, sent, landed, host_bar, restarts>>

\* paired_x509_cert_sha: the certificate is found only while the SVID is the
\* stored one of its host, and the eventually consistent scan may miss it.
RevokePair(t) ==
    LET s      == task[t].svid
        now    == task[t].now
        stored == \E h \in Hosts : store[h].svid = s
    IN  /\ task[t].pc = "pair"
        /\ \/ revocations' = revocations
           \/ stored /\ revocations' = revoke(revocations, SvidTarget(X509(s)), now)
        /\ Becomes(t, Running("publish", NoHost, now, 0, NoRecord, 0))
        /\ UNCHANGED <<clock, svids, store, policy_epoch, sent, landed, host_bar,
                       admin_calls, restarts>>

UnrevokeHost(t, h) ==
    /\ AdminCall(t)
    /\ is_host_revoked(h)
    /\ Becomes(t, Running("unrevoke", h, clock, 0, NoRecord, 0))
    /\ UNCHANGED <<clock, revocations, svids, store, policy_epoch, sent, landed,
                   host_bar, restarts>>

UnrevokeLookup(t) ==
    LET h == task[t].host IN
    /\ task[t].pc = "unrevoke"
    /\ Becomes(t, Running("lift", h, task[t].now, 0, store[h], 0))
    /\ UNCHANGED <<clock, revocations, svids, store, policy_epoch, sent, landed,
                   host_bar, admin_calls, restarts>>

\* The digests that UnrevokeHost keeps revoked.
KeepRevoked(rec) == IF rec = NoRecord THEN {} ELSE {Jws(rec.svid), X509(rec.svid)}

UnrevokeLift(t) ==
    LET h   == task[t].host
        now == task[t].now
    IN  /\ task[t].pc = "lift"
        /\ revocations' = unrevoke_host(revocations, h, KeepRevoked(task[t].rec), now)
        /\ Becomes(t, Running("publish", NoHost, now, 0, NoRecord, 0))
        /\ host_bar' = [host_bar EXCEPT ![h] = NotBarred]
        /\ UNCHANGED <<clock, svids, store, policy_epoch, sent, landed, admin_calls,
                   restarts>>

PublisherTick(t) ==
    /\ AdminCall(t)
    /\ Becomes(t, Running("publish", NoHost, clock, 0, NoRecord, 0))
    /\ UNCHANGED <<clock, revocations, svids, store, policy_epoch, sent, landed,
                   host_bar, restarts>>

\* publish_crl, as far as the working set goes.
Publish(t) ==
    /\ task[t].pc = "publish"
    /\ revocations' = Unexpired(revocations, task[t].now)
    /\ Becomes(t, Idle)
    /\ UNCHANGED <<clock, svids, store, policy_epoch, sent, landed, host_bar,
                   admin_calls, restarts>>

BumpEpoch ==
    /\ policy_epoch < MaxEpoch
    /\ policy_epoch' = policy_epoch + 1
    /\ UNCHANGED <<clock, revocations, svids, store, task, sent, landed, host_bar,
                   admin_calls, restarts>>

-----------------------------------------------------------------------------
\* A handler ends early: evidence, CSR or document refused, stream closed,
\* host revoked, record missing, superseded or unreadable, audit refused.
Fail(t) ==
    /\ task[t].pc \in {"csr", "lookup", "issue", "fetch", "swap", "unrevoke", "lift"}
    /\ Becomes(t, Idle)
    /\ UNCHANGED <<clock, revocations, svids, store, policy_epoch, sent, landed,
                   host_bar, admin_calls, restarts>>

\* The node restarts: the replicated records remain, the rest is lost and
\* the epoch is the configured one.
Restart ==
    /\ restarts < MaxRestarts
    /\ restarts' = restarts + 1
    /\ revocations' = {}
    /\ policy_epoch' = 0
    /\ task' = [t \in Tasks |-> Idle]
    /\ host_bar' = [h \in Hosts |-> NotBarred]
    /\ UNCHANGED <<clock, svids, store, sent, landed, admin_calls>>

-----------------------------------------------------------------------------
Init ==
    /\ clock = 0
    /\ revocations = {}
    /\ svids = <<>>
    /\ store = [h \in Hosts |-> NoRecord]
    /\ policy_epoch = 0
    /\ task = [t \in Tasks |-> Idle]
    /\ sent = {}
    /\ landed = {}
    /\ host_bar = [h \in Hosts |-> NotBarred]
    /\ admin_calls = 0
    /\ restarts = 0

AttestStep(t) == AttestIssue(t) \/ AttestRecord(t)

RotateStep(t) == RotateLookup(t) \/ RotateIssue(t) \/ RotateFetch(t) \/ RotateSwap(t)

AdminStep(t) == RevokePair(t) \/ UnrevokeLookup(t) \/ UnrevokeLift(t) \/ Publish(t)

Next ==
    \/ Tick
    \/ BumpEpoch
    \/ Restart
    \/ \E t \in Tasks, h \in Hosts :
          AttestEvidence(t, h) \/ RevokeHost(t, h) \/ UnrevokeHost(t, h)
    \/ \E t \in Tasks, s \in sent : RotateAuthenticate(t, s) \/ RevokeSvid(t, s)
    \/ \E t \in Tasks :
          AttestStep(t) \/ RotateStep(t) \/ AdminStep(t) \/ PublisherTick(t) \/ Fail(t)

Spec == Init /\ [][Next]_vars

-----------------------------------------------------------------------------
\* Types of the records, the locals of the handlers and the history.
TypeOK ==
    /\ clock \in Nat
    /\ revocations \in SUBSET CrlEntries(CertShas)
    /\ svids \in Seq(Svids) /\ Len(svids) <= MaxSvids
    /\ store \in [Hosts -> Records]
    /\ policy_epoch \in Nat
    /\ task \in [Tasks -> Locals]
    /\ sent \subseteq 1 .. Len(svids)
    /\ landed \subseteq 1 .. Len(svids)
    /\ host_bar \in [Hosts -> Nat \cup {NotBarred}]
    /\ admin_calls \in Nat
    /\ restarts \in Nat

\* An SVID is renewed at most once: of the renewals that race from one SVID
\* only one lands in the store, and a renewal that did not land is never
\* sent, whatever attestations, restarts and lost answers come between.
RenewedAtMostOnce ==
    /\ \A a, b \in landed : svids[a].parent = svids[b].parent => a = b
    /\ \A s \in sent : svids[s].parent # 0 => s \in landed

\* However long the chain of renewals, no SVID of it is minted later than
\* REATTEST_WINDOW_SECS after the attestation it goes back to.
RenewalsWithinWindow ==
    \A s \in 1 .. Len(svids) :
        svids[s].iat <= svids[svids[s].root].iat + REATTEST_WINDOW_SECS

\* While the revocation of a host stands (it was not lifted, the node did not
\* restart and the entry has not outlived its lifetime) the node names the
\* host as revoked and mints it nothing newer than the revocation, although
\* attestations and renewals checked, waited and raced with it.
RevokedHostGetsNothing ==
    \A h \in Hosts : BarStands(h) =>
        /\ is_host_revoked(h)
        /\ \A s \in 1 .. Len(svids) :
              svids[s].host = h => svids[s].iat <= host_bar[h]

\* "Revoking one must revoke both": once the RevokeSvid call has looked for
\* the pair, an SVID revoked by its digest has its certificate revoked too.
PairRevokedTogether ==
    \A s \in 1 .. Len(svids) :
        Names(revocations, SvidTarget(Jws(s))) =>
            \/ Names(revocations, SvidTarget(X509(s)))
            \/ \E t \in Tasks : task[t].pc = "pair" /\ task[t].svid = s

\* After a bump of the policy epoch, no renewal goes back to evidence that
\* was verified under an earlier epoch.
RenewedUnderEvidenceEpoch ==
    \A s \in landed : svids[s].epoch = svids[s].evidence_epoch
=============================================================================

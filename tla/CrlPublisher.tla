---------------------------- MODULE CrlPublisher ----------------------------
(***************************************************************************)
(* The CRL a CMIS node publishes from its revocation working set           *)
(* (cmis/src/state.rs `publish_crl`, cmis/src/crl_publisher.rs, the        *)
(* revocation RPCs of cmis/src/service.rs).                                *)
(*                                                                         *)
(* `publish_crl` builds the CRL body under the lock of the working set,    *)
(* releases it, signs the body and only then writes `published_crl`: two   *)
(* steps here (PublishSnapshot, PublishInstall), between which any other   *)
(* task may run.                                                           *)
(***************************************************************************)
EXTENDS Revocations

CONSTANT MaxCrlNumber    \* bound: CRLs the node publishes

ASSUME CrlPublisherAssumption == MaxCrlNumber \in Nat

VARIABLES
    crl_number,     \* Revocations.number
    published_crl,  \* CmisState.published_crl
    publishing      \* per task: where its revocation handler stands

revocationVars == <<revocations, crl_number, published_crl, publishing>>

-----------------------------------------------------------------------------
NoCrl == [number |-> 0, issued_at |-> 0, entries |-> {}]

CrlBodies(CertShas) ==
    [number : Nat, issued_at : Nat, entries : SUBSET CrlEntries(CertShas)]

\* A task outside the revocation handlers; `now` and `body` are its locals
\* inside them.
NotPublishing == [stage |-> "idle", now |-> 0, body |-> NoCrl]

-----------------------------------------------------------------------------
(* publish_crl                                                             *)

PublishIdle(t) == publishing[t].stage = "idle"

\* A handler has come to its call of publish_crl(now).
BeginPublish(t, now) ==
    publishing' = [publishing EXCEPT
                      ![t] = [stage |-> "publish", now |-> now, body |-> NoCrl]]

\* The locked part: prune, number, clone.
PublishSnapshot(t) ==
    LET now == publishing[t].now IN
    /\ publishing[t].stage = "publish"
    /\ crl_number < MaxCrlNumber
    /\ revocations' = Unexpired(revocations, now)
    /\ crl_number' = crl_number + 1
    /\ publishing' = [publishing EXCEPT ![t] =
                         [stage |-> "install",
                          now   |-> now,
                          body  |-> [number    |-> crl_number + 1,
                                     issued_at |-> now,
                                     entries   |-> Unexpired(revocations, now)]]]
    /\ UNCHANGED published_crl

\* Signing succeeded: publish the body that was cloned.
PublishInstall(t) ==
    /\ publishing[t].stage = "install"
    /\ published_crl' = publishing[t].body
    /\ publishing' = [publishing EXCEPT ![t] = NotPublishing]
    /\ UNCHANGED <<revocations, crl_number>>

\* Signing failed: the caller gets an error and nothing is published.
PublishFails(t) ==
    /\ publishing[t].stage = "install"
    /\ publishing' = [publishing EXCEPT ![t] = NotPublishing]
    /\ UNCHANGED <<revocations, crl_number, published_crl>>

PublishStep(t) == PublishSnapshot(t) \/ PublishInstall(t) \/ PublishFails(t)

\* One round of the background publisher (crl_publisher::spawn).
PublisherTick(t) ==
    /\ PublishIdle(t)
    /\ BeginPublish(t, clock)
    /\ UNCHANGED <<revocations, crl_number, published_crl>>

-----------------------------------------------------------------------------
(* The RevokeHost RPC up to its call of publish_crl, and the UnrevokeHost  *)
(* RPC, which reads the clock and checks the host entry, then waits for    *)
(* the store and the audit log, and lifts the entry only afterwards.       *)

revoke_host(t, spiffe_id) ==
    /\ PublishIdle(t)
    /\ revocations' = revoke(revocations, HostTarget(spiffe_id), clock)
    /\ BeginPublish(t, clock)
    /\ UNCHANGED <<crl_number, published_crl>>

unrevoke_check(t, spiffe_id) ==
    /\ PublishIdle(t)
    /\ is_host_revoked(spiffe_id)
    /\ publishing' = [publishing EXCEPT
                         ![t] = [stage |-> "unrevoke", now |-> clock, body |-> NoCrl]]
    /\ UNCHANGED <<revocations, crl_number, published_crl>>

unrevoke_lift(t, spiffe_id, keep_revoked) ==
    LET now == publishing[t].now IN
    /\ publishing[t].stage = "unrevoke"
    /\ revocations' = unrevoke_host(revocations, spiffe_id, keep_revoked, now)
    /\ BeginPublish(t, now)
    /\ UNCHANGED <<crl_number, published_crl>>

\* The store cannot be read or the audit log refuses the event.
unrevoke_refused(t) ==
    /\ publishing[t].stage = "unrevoke"
    /\ publishing' = [publishing EXCEPT ![t] = NotPublishing]
    /\ UNCHANGED <<revocations, crl_number, published_crl>>

-----------------------------------------------------------------------------
RevocationInit ==
    /\ clock = 0
    /\ revocations = {}
    /\ crl_number = 0
    /\ published_crl = NoCrl
    /\ publishing = [t \in Tasks |-> NotPublishing]

\* The node restarts: the working set, its number and the CRL are gone.
RevocationLost ==
    /\ revocations' = {}
    /\ crl_number' = 0
    /\ published_crl' = NoCrl
    /\ publishing' = [t \in Tasks |-> NotPublishing]

RevocationTypeOK(CertShas) ==
    /\ clock \in Nat
    /\ revocations \in SUBSET CrlEntries(CertShas)
    /\ crl_number \in Nat
    /\ published_crl \in CrlBodies(CertShas)
    /\ publishing \in
         [Tasks -> [stage : {"idle", "unrevoke", "publish", "install"},
                    now : Nat,
                    body : CrlBodies(CertShas)]]
=============================================================================

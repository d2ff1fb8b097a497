---------------------------- MODULE Revocations -----------------------------
(***************************************************************************)
(* The revocation working set of one CMIS node (cmis/src/state.rs          *)
(* `Revocations`, `revoke`, `unrevoke_host`, `is_revoked`;                 *)
(* ferro-svid/src/crl.rs `CrlEntry`).  It is process-local: a restart of   *)
(* the node loses it.                                                      *)
(*                                                                         *)
(* CrlPublisher adds the CRL the node publishes from it and Issuance the   *)
(* SVIDs it bars.                                                          *)
(***************************************************************************)
EXTENDS Naturals, FiniteSets

CONSTANTS
    Hosts,               \* host SPIFFE ids
    Tasks,               \* tokio tasks that run handlers on the node
    CRL_ENTRY_TTL_SECS,  \* how long an entry outlives its revoked_at
    MaxTime              \* bound: last value of the clock

ASSUME RevocationsAssumption ==
    /\ CRL_ENTRY_TTL_SECS \in Nat
    /\ MaxTime \in Nat

VARIABLES
    clock,          \* unix_now(), in seconds
    revocations     \* Revocations.entries

-----------------------------------------------------------------------------
(* RevocationTarget and CrlEntry.  `reason` is a label for operators and   *)
(* is left out.                                                            *)

HostTarget(spiffe_id) == <<"host", spiffe_id>>
SvidTarget(cert_sha)  == <<"svid", cert_sha>>

Targets(CertShas) ==
    {HostTarget(h) : h \in Hosts} \cup {SvidTarget(c) : c \in CertShas}

CrlEntries(CertShas) ==
    [target : Targets(CertShas), revoked_at : Nat, expires_at : Nat]

CrlEntry(target, now) ==
    [target     |-> target,
     revoked_at |-> now,
     expires_at |-> now + CRL_ENTRY_TTL_SECS]

-----------------------------------------------------------------------------
(* Queries on a set of entries: the working set, or the body of a CRL.     *)

Names(entries, target) == \E e \in entries : e.target = target

is_host_revoked(spiffe_id) == Names(revocations, HostTarget(spiffe_id))

is_revoked(spiffe_id, svid_cert_sha) ==
    \/ Names(revocations, HostTarget(spiffe_id))
    \/ Names(revocations, SvidTarget(svid_cert_sha))

-----------------------------------------------------------------------------
(* Updates of the working set, as functions of the entries they start from *)

\* `revoke`: one entry per target; a second revocation replaces the first.
revoke(entries, target, now) ==
    {e \in entries : e.target # target} \cup {CrlEntry(target, now)}

\* Mutant: lifting the host entry forgets the credentials to keep revoked.
UnrevokeForgetsSvid(entries, spiffe_id, keep_revoked, now) ==
    {e \in entries : e.target # HostTarget(spiffe_id)}

\* `unrevoke_host`: under one lock, revoke the kept digests that have no
\* entry yet and drop the host entry; nothing at all without a host entry.
unrevoke_host(entries, spiffe_id, keep_revoked, now) ==
    IF Names(entries, HostTarget(spiffe_id))
    THEN {e \in entries : e.target # HostTarget(spiffe_id)}
         \cup {CrlEntry(SvidTarget(c), now) :
                  c \in {k \in keep_revoked : ~ Names(entries, SvidTarget(k))}}
    ELSE entries

\* The prune at the start of every publish.
Unexpired(entries, now) == {e \in entries : e.expires_at > now}
=============================================================================

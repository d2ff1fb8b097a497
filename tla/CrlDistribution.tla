--------------------------- MODULE CrlDistribution ---------------------------
(***************************************************************************)
(* How a revocation reaches the hosts: the CRL of a CMIS node (module      *)
(* CrlPublisher), the JWKS call that carries it, and the CRL cache and     *)
(* mint gate of each host's MIA (mia/src/helper/crl.rs).                   *)
(*                                                                         *)
(* Each host holds one SVID here, named by the host itself and issued      *)
(* before the behaviour starts; module Issuance models how SVIDs come and  *)
(* go.                                                                     *)
(***************************************************************************)
EXTENDS CrlPublisher, Integers

CONSTANTS
    CRL_MAX_AGE_SECS,           \* oldest CRL the gate trusts
    CRL_FRESHNESS_LEEWAY_SECS,  \* how far in the future it may be issued
    MiaLag,                     \* how far the hosts' clocks run behind
    MaxRestarts                 \* bound: restarts of the node

ASSUME CrlDistributionAssumption ==
    /\ CRL_MAX_AGE_SECS \in Nat
    /\ CRL_FRESHNESS_LEEWAY_SECS \in Nat
    /\ MiaLag \in Nat
    /\ MaxRestarts \in Nat

VARIABLES
    crl_cache,    \* CrlCache.inner of each MIA
    fetched,      \* the body a refresh_once holds between JWKS and store
    unrevoking,   \* per task: the host its UnrevokeHost is about, if any
    barred_since, \* history: when the host's SVID was first revoked
    restarts      \* restarts so far

distVars == <<crl_cache, fetched, unrevoking, barred_since, restarts>>
vars == <<clock, revocationVars, distVars>>

NotBarred == -1

\* The digest of the SVID that host h holds.
SvidOf(h) == h

Bars(entries, h) ==
    Names(entries, HostTarget(h)) \/ Names(entries, SvidTarget(SvidOf(h)))

-----------------------------------------------------------------------------
(* The mint gate, CrlCache::gate with CrlBody::is_fresh.                   *)

\* Mutant: only a CRL from the future is stale.
FreshAtAnyAge(body, now) ==
    now - body.issued_at >= - CRL_FRESHNESS_LEEWAY_SECS

is_fresh(body, now) ==
    LET age == now - body.issued_at IN
    age <= CRL_MAX_AGE_SECS /\ age >= - CRL_FRESHNESS_LEEWAY_SECS

gate(h) ==
    CASE crl_cache[h] = NoCrl                      -> "stale"
      [] ~ is_fresh(crl_cache[h], clock - MiaLag)  -> "stale"
      [] Bars(crl_cache[h].entries, h)             -> "revoked"
      [] OTHER                                     -> "ok"

-----------------------------------------------------------------------------
(* History: when the host's SVID was first revoked.  An SVID lives no      *)
(* longer than an entry is kept, so the bar means something only for       *)
(* CRL_ENTRY_TTL_SECS: after that the SVID has expired.                    *)

Barred(h) ==
    /\ barred_since[h] # NotBarred
    /\ clock < barred_since[h] + CRL_ENTRY_TTL_SECS

Bar(h) ==
    barred_since' = [barred_since EXCEPT ![h] = IF @ = NotBarred THEN clock ELSE @]

-----------------------------------------------------------------------------
Tick ==
    /\ clock < MaxTime
    /\ clock' = clock + 1
    /\ UNCHANGED <<revocationVars, distVars>>

RevokeHost(t, h) ==
    /\ revoke_host(t, h)
    /\ Bar(h)
    /\ UNCHANGED <<clock, crl_cache, fetched, unrevoking, restarts>>

RevokeSvid(t, h) ==
    /\ PublishIdle(t)
    /\ revocations' = revoke(revocations, SvidTarget(SvidOf(h)), clock)
    /\ BeginPublish(t, clock)
    /\ Bar(h)
    /\ UNCHANGED <<clock, crl_number, published_crl, crl_cache, fetched,
                   unrevoking, restarts>>

UnrevokeCheck(t, h) ==
    /\ unrevoke_check(t, h)
    /\ unrevoking' = [unrevoking EXCEPT ![t] = {h}]
    /\ UNCHANGED <<clock, crl_cache, fetched, barred_since, restarts>>

\* The stored SVID of the host is the digest that stays revoked.
UnrevokeLift(t, h) ==
    /\ h \in unrevoking[t]
    /\ unrevoke_lift(t, h, {SvidOf(h)})
    /\ unrevoking' = [unrevoking EXCEPT ![t] = {}]
    /\ UNCHANGED <<clock, crl_cache, fetched, barred_since, restarts>>

UnrevokeRefused(t) ==
    /\ unrevoke_refused(t)
    /\ unrevoking' = [unrevoking EXCEPT ![t] = {}]
    /\ UNCHANGED <<clock, crl_cache, fetched, barred_since, restarts>>

Publisher(t) ==
    /\ PublisherTick(t)
    /\ UNCHANGED <<clock, distVars>>

Publish(t) ==
    /\ PublishStep(t)
    /\ UNCHANGED <<clock, distVars>>

\* The JWKS answer leaves the node with the CRL published now.  Without a
\* CRL the ingest fails and the cache stays as it was.
FetchJwks(h) ==
    /\ fetched[h] = NoCrl
    /\ published_crl # NoCrl
    /\ fetched' = [fetched EXCEPT ![h] = published_crl]
    /\ UNCHANGED <<clock, revocationVars, crl_cache, unrevoking, barred_since, restarts>>

\* The MIA verified the body and stores it, whatever it held before.
StoreCrl(h) ==
    /\ fetched[h] # NoCrl
    /\ crl_cache' = [crl_cache EXCEPT ![h] = fetched[h]]
    /\ fetched' = [fetched EXCEPT ![h] = NoCrl]
    /\ UNCHANGED <<clock, revocationVars, unrevoking, barred_since, restarts>>

\* The answer is lost or does not verify: the cache ages.
RefreshFails(h) ==
    /\ fetched[h] # NoCrl
    /\ fetched' = [fetched EXCEPT ![h] = NoCrl]
    /\ UNCHANGED <<clock, revocationVars, crl_cache, unrevoking, barred_since, restarts>>

Restart ==
    /\ restarts < MaxRestarts
    /\ restarts' = restarts + 1
    /\ RevocationLost
    /\ unrevoking' = [t \in Tasks |-> {}]
    /\ barred_since' = [h \in Hosts |-> NotBarred]
    /\ UNCHANGED <<clock, crl_cache, fetched>>

-----------------------------------------------------------------------------
Init ==
    /\ RevocationInit
    /\ crl_cache = [h \in Hosts |-> NoCrl]
    /\ fetched = [h \in Hosts |-> NoCrl]
    /\ unrevoking = [t \in Tasks |-> {}]
    /\ barred_since = [h \in Hosts |-> NotBarred]
    /\ restarts = 0

Next ==
    \/ Tick
    \/ Restart
    \/ \E t \in Tasks : Publisher(t) \/ Publish(t) \/ UnrevokeRefused(t)
    \/ \E t \in Tasks, h \in Hosts :
          \/ RevokeHost(t, h)
          \/ RevokeSvid(t, h)
          \/ UnrevokeCheck(t, h)
          \/ UnrevokeLift(t, h)
    \/ \E h \in Hosts : FetchJwks(h) \/ StoreCrl(h) \/ RefreshFails(h)

Spec == Init /\ [][Next]_vars

-----------------------------------------------------------------------------
\* Types of the node's revocation state and of the hosts' caches.
TypeOK ==
    /\ RevocationTypeOK(Hosts)
    /\ crl_cache \in [Hosts -> CrlBodies(Hosts)]
    /\ fetched \in [Hosts -> CrlBodies(Hosts)]
    /\ unrevoking \in [Tasks -> SUBSET Hosts]
    /\ barred_since \in [Hosts -> Nat \cup {NotBarred}]
    /\ restarts \in Nat

\* A revocation stops minting within the CRL's maximum age, whatever the
\* order in which concurrent publishers install their CRLs, however late a
\* JWKS answer is stored, and even when the host entry is lifted meanwhile
\* (unrevoke_host keeps the stored SVID revoked under the same lock): once
\* CRL_MAX_AGE_SECS plus the lag of the host's clock has passed since the
\* SVID was revoked, and until entries of that age may be pruned, the gate
\* refuses to mint.
RevocationStopsMinting ==
    \A h \in Hosts :
        (Barred(h) /\ clock > barred_since[h] + CRL_MAX_AGE_SECS + MiaLag)
        => gate(h) # "ok"

\* Every CRL body that exists anywhere.
Bodies ==
    {published_crl} \cup {publishing[t].body : t \in Tasks}
    \cup {crl_cache[h] : h \in Hosts} \cup {fetched[h] : h \in Hosts}

\* A revocation is in the working set for its whole lifetime: revoking it
\* again, lifting the host entry and the prune of every publish leave an
\* entry that names the host or its SVID.  And a CRL body that does not name
\* a barred host was issued no later than the moment the host was barred.
BarsArePublished ==
    \A h \in Hosts : Barred(h) =>
        /\ Bars(revocations, h)
        /\ \A b \in Bodies : b.issued_at <= barred_since[h] \/ Bars(b.entries, h)

\* The sequence number of the CRL that consumers can fetch never decreases
\* while the node runs (Revocations.number and CrlBody.number are commented
\* as monotonic).  publish_crl installs its CRL after it released the lock,
\* so a slower publisher can put an older CRL over a newer one.
PublishedNumberMonotonic ==
    [][crl_number' >= crl_number => published_crl'.number >= published_crl.number]_vars
=============================================================================
